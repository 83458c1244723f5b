---------------------------- MODULE MCDiscussion ----------------------------
(* Small instances of Discussion for TLC. *)
EXTENDS Discussion, TLC

\* Either source alone: the one a removal closes the story over can be exchanged.
MCThreadTexts == {{{1}}, {{2}}}

Sym == Permutations(Item)
=============================================================================

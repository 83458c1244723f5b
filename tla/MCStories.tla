----------------------------- MODULE MCStories -----------------------------
(* Small instances of Stories for TLC. *)
EXTENDS Stories

\* Either number alone: the source a revision rests on can be exchanged.
MCEither == {{{1}}, {{2}}}

\* A single number, for the instances that need only one source.
MCOneText == {{{1}}}
=============================================================================

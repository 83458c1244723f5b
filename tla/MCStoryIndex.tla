---------------------------- MODULE MCStoryIndex ----------------------------
(* Small instances of StoryIndex for TLC. *)
EXTENDS StoryIndex

MCOneText == {{{1}}}
=============================================================================

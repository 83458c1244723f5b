------------------------------- MODULE Edition -------------------------------
(***************************************************************************)
(* What a reader is promised of one story: what was written stays as it    *)
(* was written, what a machine had a hand in is shown only once a reviewer *)
(* has approved that very issue, and Search lists the issue shown or       *)
(* nothing, at every moment and not only when it is told.                  *)
(***************************************************************************)
EXTENDS Naturals, Sequences

VARIABLES
  issues,    \* every issue of the story, oldest first; the mode says who had a hand in it
  passed,    \* the issues a reviewer has approved
  shown,     \* the issue readers see, 0 for none
  listed     \* the issue Search lists, 0 for none

story == <<issues, passed, shown, listed>>

Init == issues = <<>> /\ passed = {} /\ shown = 0 /\ listed = 0

Write ==
  /\ Len(issues') = Len(issues) + 1
  /\ \A r \in DOMAIN issues : issues'[r] = issues[r]
  /\ UNCHANGED <<passed, shown>>

Approve(r) == passed' = passed \cup {r} /\ UNCHANGED <<issues, shown>>

Show(r) ==
  /\ issues[r].mode = "human" \/ r \in passed
  /\ shown' = r
  /\ UNCHANGED <<issues, passed>>

Hide == shown' = 0 /\ UNCHANGED <<issues, passed>>

Relist == UNCHANGED <<issues, passed, shown>>

Next ==
  /\ \/ Write \/ Hide \/ Relist
     \/ \E r \in DOMAIN issues : Approve(r) \/ Show(r)
  /\ listed' \in {0, shown'}

Spec == Init /\ [][Next]_story
=============================================================================

------------------------------- MODULE Mirror -------------------------------
(***************************************************************************)
(* What ingestion promises, however Sources' changes reach News: each      *)
(* stored item is a state Sources has published of it, it only ever moves  *)
(* forward, and a removal is final.                                        *)
(***************************************************************************)
EXTENDS Integers

CONSTANTS
  Item,
  Snapshot  \* the states an item can have in Sources, [rev, removed]

VARIABLES
  past,  \* past[i]: the states Sources has published of the item
  row    \* row[i]: the stored item; revision 0 before it is stored

Absent == [rev |-> 0, removed |-> FALSE]

Init ==
  /\ past = [i \in Item |-> {}]
  /\ row = [i \in Item |-> Absent]

Publish(i) ==
  \E s \in Snapshot :
    /\ past' = [past EXCEPT ![i] = @ \cup {s}]
    /\ UNCHANGED row

\* Store a live state newer than the stored one.
Advance(i) ==
  \E s \in past[i] :
    /\ ~row[i].removed /\ ~s.removed /\ s.rev > row[i].rev
    /\ row' = [row EXCEPT ![i] = s]
    /\ UNCHANGED past

\* Only what is stored is removed, and only when Sources removed it.
Withdraw(i) ==
  \E s \in past[i] :
    /\ s.removed /\ ~row[i].removed /\ row[i].rev > 0
    /\ \E up \in {row[i].rev, s.rev} :
         /\ up >= row[i].rev
         /\ row' = [row EXCEPT ![i] = [rev |-> up, removed |-> TRUE]]
    /\ UNCHANGED past

Next == \E i \in Item : Publish(i) \/ Advance(i) \/ Withdraw(i)

Spec == Init /\ [][Next]_<<past, row>>
=============================================================================

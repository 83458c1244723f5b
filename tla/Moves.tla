-------------------------------- MODULE Moves --------------------------------
(***************************************************************************)
(* What editors are promised of the stories reports are grouped into: a    *)
(* report enters one open story, and from then on only a recorded move     *)
(* takes it elsewhere, to a story that is open.  The record names exactly  *)
(* the reports each move took and never loses a move.  A move can be taken *)
(* back once, and taking back is not itself taken back: what returns is    *)
(* what is still where the move put it.                                    *)
(***************************************************************************)
EXTENDS Sequences

CONSTANTS
  Report,
  Story,
  Nowhere  \* where a report is before it enters

VARIABLES
  at,     \* at[r]: the report's story
  moves,  \* the record, oldest first
  open    \* the stories readers reach

Row(from, to, S, undoable) == [from |-> from, to |-> to, reports |-> S, undoable |-> undoable]

Init ==
  /\ at = [r \in Report |-> Nowhere]
  /\ moves = <<>>
  /\ open = {}

Enter(r, s) ==
  /\ at[r] = Nowhere
  /\ at' = [at EXCEPT ![r] = s]
  /\ open' = open \cup {s}
  /\ UNCHANGED moves

\* The story moved to is open after, and the one moved from may close, once nothing is left in it.
Shift(S, from, to) ==
  /\ from # to
  /\ at' = [r \in Report |-> IF r \in S THEN to ELSE at[r]]
  /\ \/ open' = open \cup {to}
     \/ open' = (open \cup {to}) \ {from} /\ \A r \in Report : at'[r] # from

Move(S, from, to) ==
  /\ Shift(S, from, to)
  /\ moves' = Append(moves, Row(from, to, S, TRUE))

TakeBack(k) ==
  LET m == moves[k]
      S == {r \in m.reports : at[r] = m.to} IN
  /\ m.undoable
  /\ Shift(S, m.to, m.from)
  /\ moves' = Append([moves EXCEPT ![k].undoable = FALSE], Row(m.to, m.from, S, FALSE))

Edit ==
  \/ \E from \in open, to \in Story : \E S \in SUBSET {r \in Report : at[r] = from} : Move(S, from, to)
  \/ \E k \in DOMAIN moves : TakeBack(k)

\* Nothing moves unrecorded.
Next ==
  \/ \E r \in Report, s \in Story : Enter(r, s)
  \/ moves' # moves /\ Edit

Spec == Init /\ [][Next]_<<at, moves, open>>
=============================================================================

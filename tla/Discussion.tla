----------------------------- MODULE Discussion -----------------------------
(***************************************************************************)
(* The comment thread of a story (server/domain/discussion.js and          *)
(* server/clients/community.js): Stories together with the thread          *)
(* Community holds for it.                                                 *)
(*                                                                         *)
(* A write that may open or close the story remembers, inside its          *)
(* transaction, whether it was open (watch); after the commit the state is *)
(* compared again, one write at a time in commit order, and on a change    *)
(* Community is asked to hide or show the thread (follow).  The queue and  *)
(* the call in flight are in memory.  A thread is made when the page of an *)
(* open story is read; the comments themselves are left out.               *)
(***************************************************************************)
EXTENDS Stories

CONSTANT MaxQueue  \* bound: writes waiting to be followed

ASSUME QueueAssumption == MaxQueue \in Nat

VARIABLES
  thread,    \* "none", "public" or "hidden" in Community
  flushing,  \* for each watched write not followed yet: was the story open before it
  sending,   \* the visibility being set, "none" for no call in flight
  resolving, \* a page found the story open and asks for its thread
  missed     \* history: a call was lost, or a closed story got a thread, and no call was made since

talk == <<thread, flushing, sending, resolving, missed>>
discussionVars == <<vars, talk>>

-----------------------------------------------------------------------------

\* status
open == state = "published" /\ supported(pub)

visibility == IF open THEN "public" ELSE "hidden"

watch == flushing' = Append(flushing, open)

\* Mutant: only the stories the item is attached to now.
watchSource_attached(i) == i \in attached

\* Every story that ever linked the item.
watchSource(i) == number[i] # 0

\* Mutant: the preview of a draft resolves a thread too.
mayResolve_preview == revs # <<>>

mayResolve == open

-----------------------------------------------------------------------------

DiscussionInit ==
  /\ Init
  /\ thread = "none" /\ flushing = <<>> /\ sending = "none" /\ resolving = FALSE
  /\ missed = FALSE

\* Steps that never open or close a story.
Unwatched ==
  /\ \/ \E i \in Item : TableStep(i) \/ UpstreamUpdate(i)
     \/ RequestStep
     \/ \E q \in checked : TextStep(q)
     \/ \E r \in DOMAIN revs, kind \in {"person", "ai_editor"}, decision \in {"approved", "rejected"} :
          review(r, kind, decision)
     \/ addFlag
  /\ UNCHANGED talk

Watched ==
  /\ Len(flushing) < MaxQueue
  /\ \/ \E r \in DOMAIN revs, note \in BOOLEAN : publish(r, note)
     \/ unpublish
     \/ retract
  /\ watch
  /\ UNCHANGED <<thread, sending, resolving, missed>>

Removed(i) ==
  /\ Len(flushing) < MaxQueue
  /\ UpstreamRemove(i)
  /\ IF watchSource(i) THEN watch ELSE UNCHANGED flushing
  /\ UNCHANGED <<thread, sending, resolving, missed>>

\* The next write is followed: a call when the story is open now and was not, or the other way
\* round, and it has a thread.
follow ==
  /\ sending = "none" /\ flushing # <<>>
  /\ flushing' = Tail(flushing)
  /\ sending' = IF open # Head(flushing) /\ thread # "none" THEN visibility ELSE "none"
  /\ UNCHANGED <<vars, thread, resolving, missed>>

\* Best effort: a failure is logged.
setThreadVisibility ==
  /\ sending # "none"
  /\ sending' = "none"
  /\ \/ thread' = sending /\ missed' = FALSE
     \/ UNCHANGED thread /\ missed' = TRUE
  /\ UNCHANGED <<vars, flushing, resolving>>

\* A page finds the story open; Community resolves the thread later.
ReadPage ==
  /\ mayResolve /\ thread = "none"
  /\ resolving' = TRUE
  /\ UNCHANGED <<vars, thread, flushing, sending, missed>>

threadFor ==
  /\ resolving
  /\ resolving' = FALSE
  /\ thread' = IF thread = "none" THEN "public" ELSE thread
  /\ missed' = (missed \/ (thread = "none" /\ ~open))
  /\ UNCHANGED <<vars, flushing, sending>>

\* The process restarts; what it held in memory is lost.
Stop ==
  /\ flushing' = <<>> /\ sending' = "none" /\ resolving' = FALSE
  /\ missed' = (missed \/ flushing # <<>> \/ sending # "none")
  /\ UNCHANGED <<vars, thread>>

DiscussionNext ==
  \/ Unwatched \/ Watched
  \/ \E i \in Item : Removed(i)
  \/ follow \/ setThreadVisibility
  \/ ReadPage \/ threadFor
  \/ Stop

DiscussionSpec == DiscussionInit /\ [][DiscussionNext]_discussionVars

-----------------------------------------------------------------------------
(* Properties *)

\* A draft never has a thread, whatever pages are being read: one exists only for a story that has
\* been public.
NoThreadForDrafts == thread # "none" => ever

\* Once every write is followed, the thread is shown exactly when the story is open, although each
\* write compares with its own past and several may commit before the first is followed; a lost call
\* or a thread made too late is made good by the next call.
ThreadFollows ==
  flushing = <<>> /\ sending = "none" /\ thread # "none" /\ ~missed => thread = visibility
=============================================================================

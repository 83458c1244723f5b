------------------------------- MODULE Ingest -------------------------------
(***************************************************************************)
(* How source items arrive: signed webhook deliveries from Events          *)
(* (server/http/events.js) and the cursor pull (server/worker.js, pull in  *)
(* server/domain/source-items.js), both ending in apply or applyRemoval.   *)
(*                                                                         *)
(* Events delivers each event any number of times, in any order, until it  *)
(* is answered 2xx, and may give up; Sources answers or does not.  Between *)
(* the read of an item or of a page and its application anything may       *)
(* happen, a restart of the process included, which loses what was read.   *)
(*                                                                         *)
(* An item is its upstream revision and whether it is removed; its text,   *)
(* deduplication and clustering are in Clusters, what a change does to the *)
(* stories citing it in Stories.  The run log and other categories' items  *)
(* are left out.                                                           *)
(***************************************************************************)
EXTENDS Integers, FiniteSets, FiniteSetsExt

CONSTANTS
  Item,        \* items of Sources' news category
  Delivered,   \* those whose events are delivered; the pull alone brings the others
  Failing,     \* items whose application may fail in the pull
  Untitled,    \* whether Sources may list an item without a title, which is rejected
  PageSize,    \* items of a page
  MaxRev,      \* bound: upstream revisions of an item
  MaxHandling, \* bound: deliveries between their read and their transaction
  MaxCrash     \* bound: restarts of the process

ASSUME SwitchAssumption == Delivered \subseteq Item /\ Failing \subseteq Item /\ Untitled \in BOOLEAN
ASSUME BoundsAssumption ==
  /\ IsFiniteSet(Item) /\ PageSize \in Nat \ {0}
  /\ MaxRev \in Nat /\ MaxHandling \in Nat /\ MaxCrash \in Nat

VARIABLES
  up,        \* up[i]: the item in Sources; seq is its place in the change order
  past,      \* history: the states Sources has published
  due,       \* deliveries Events will still make
  handling,  \* deliveries whose item was read from Sources and is not applied yet
  receipts,  \* the inbox: deliveries whose change is committed
  row,       \* row[i]: the stored source item, revision 0 for none
  cursor,    \* the stored place in the change order
  pulling,   \* the pull in flight: "idle", "reading" or "applying"
  page,      \* what is left to apply of the page it read, in change order
  next,      \* where the cursor moves after the page
  lastPull,  \* state of the last recorded run of origin "pull"
  relayed,   \* pull failures relayed as news.source.failed since a pull last succeeded
  skipped,   \* history: revisions rejected, or whose application failed in the pull
  crashes

sources == <<up, past>>
deliveries == <<due, handling, receipts>>
puller == <<pulling, page, next, lastPull, relayed>>
vars == <<sources, deliveries, row, cursor, puller, skipped, crashes>>

-----------------------------------------------------------------------------

Event == [item : Item, rev : 1..MaxRev, kind : {"changed", "removed"}]
Snapshot == [rev : 1..MaxRev, removed : BOOLEAN]
Absent == [rev |-> 0, removed |-> FALSE]

State(i) == [rev |-> up[i].rev, removed |-> up[i].removed]
LastSeq == Max({0} \cup {up[i].seq : i \in Item})

\* What the page and the delivery carry of an item.
Copy(i) == [item |-> i, rev |-> up[i].rev, removed |-> up[i].removed, seq |-> up[i].seq]

\* Mutant: a removed item comes back with a newer revision.
applied_revives(r, s) ==
  IF s.removed THEN (IF r.rev = 0 THEN r ELSE [rev |-> s.rev, removed |-> TRUE])
  ELSE IF r.rev >= s.rev THEN r ELSE [rev |-> s.rev, removed |-> FALSE]

\* Mutant: the removal of an item never stored leaves a row.
applied_unstored(r, s) ==
  IF r.removed \/ (~s.removed /\ r.rev >= s.rev) THEN r
  ELSE [rev |-> IF s.rev > r.rev THEN s.rev ELSE r.rev, removed |-> s.removed]

\* apply and applyRemoval: a removal of an item never stored is ignored, a removed item stays
\* removed, and a revision not newer than the stored one changes nothing.
applied(r, s) ==
  IF r.removed \/ (s.removed /\ r.rev = 0) \/ (~s.removed /\ r.rev >= s.rev) THEN r
  ELSE [rev |-> IF s.rev > r.rev THEN s.rev ELSE r.rev, removed |-> s.removed]

\* apply rejects a new revision without a title.
rejects(r, s) == Untitled /\ ~s.removed /\ s.rev > r.rev

skip(i, s) == skipped' = skipped \cup {<<i, s.rev>>}

-----------------------------------------------------------------------------
(* Sources *)

Announce(i, s, kind) ==
  /\ up' = [up EXCEPT ![i] = [rev |-> s.rev, removed |-> s.removed, seq |-> LastSeq + 1]]
  /\ past' = [past EXCEPT ![i] = @ \cup {s}]
  /\ due' = IF i \in Delivered THEN due \cup {[item |-> i, rev |-> s.rev, kind |-> kind]} ELSE due
  /\ UNCHANGED <<handling, receipts, row, cursor, puller, skipped, crashes>>

Revise(i) ==
  /\ ~up[i].removed /\ up[i].rev < MaxRev
  /\ Announce(i, [rev |-> up[i].rev + 1, removed |-> FALSE], "changed")

Withdraw(i) ==
  /\ ~up[i].removed /\ up[i].rev \in 1..MaxRev - 1
  /\ Announce(i, [rev |-> up[i].rev + 1, removed |-> TRUE], "removed")

-----------------------------------------------------------------------------
(* Webhook deliveries *)

\* Answered 2xx; the answer may be lost, and then Events delivers it again.
Answered(e) == due' = due \ {e} \/ due' = due

GiveUp(e) ==
  /\ e \in due
  /\ due' = due \ {e}
  /\ UNCHANGED <<sources, handling, receipts, row, cursor, puller, skipped, crashes>>

\* Created or updated: the item is read from Sources before the receipt's transaction.
Fetch(e) ==
  /\ e \in due /\ e.kind = "changed" /\ Cardinality(handling) < MaxHandling
  /\ handling' = handling \cup {[event |-> e, copy |-> Copy(e.item)]}
  /\ UNCHANGED <<sources, due, receipts, row, cursor, puller, skipped, crashes>>

\* Sources no longer has it: nothing to apply.
FetchGone(e) ==
  /\ e \in due /\ e.kind = "changed" /\ up[e.item].removed
  /\ receipts' = receipts \cup {e}
  /\ Answered(e)
  /\ UNCHANGED <<sources, handling, row, cursor, puller, skipped, crashes>>

\* inbox.once: the change and the receipt commit together, or the delivery is known already.
once(e, i, s) ==
  /\ receipts' = receipts \cup {e}
  /\ \/ e \notin receipts /\ row' = [row EXCEPT ![i] = applied(@, s)] /\ UNCHANGED skipped
     \/ e \in receipts /\ UNCHANGED <<row, skipped>>
     \/ e \notin receipts /\ rejects(row[i], s) /\ skip(i, s) /\ UNCHANGED row

ApplyFetched(h) ==
  /\ h \in handling
  /\ handling' = handling \ {h}
  /\ once(h.event, h.event.item, h.copy)
  /\ Answered(h.event)
  /\ UNCHANGED <<sources, cursor, puller, crashes>>

\* Mutant: the receipt of a failed handler is kept.
HandlerFails_receipted(h) ==
  /\ h \in handling
  /\ handling' = handling \ {h}
  /\ receipts' = receipts \cup {h.event}
  /\ UNCHANGED <<sources, due, row, cursor, puller, skipped, crashes>>

\* The transaction failed: 500, no receipt.
HandlerFails(h) ==
  /\ h \in handling
  /\ handling' = handling \ {h}
  /\ UNCHANGED <<sources, due, receipts, row, cursor, puller, skipped, crashes>>

\* The payload says what was removed; it may carry no revision.
ReceiveRemoval(e) ==
  /\ e \in due /\ e.kind = "removed"
  /\ \E rev \in {0, e.rev} : once(e, e.item, [rev |-> rev, removed |-> TRUE])
  /\ Answered(e)
  /\ UNCHANGED <<sources, handling, cursor, puller, crashes>>

-----------------------------------------------------------------------------
(* The cursor pull *)

\* One pull at a time, whoever asks.
StartPull ==
  /\ pulling = "idle"
  /\ pulling' = "reading"
  /\ UNCHANGED <<sources, deliveries, row, cursor, page, next, lastPull, relayed, skipped, crashes>>

Changed == {i \in Item : up[i].seq > cursor}

\* The next PageSize changes, in change order.
Batch == {i \in Changed : Cardinality({j \in Changed : up[j].seq < up[i].seq}) < PageSize}

\* Mutant: the cursor is saved with the read.
ReadPage_savesCursor ==
  /\ pulling = "reading"
  /\ page' = {Copy(i) : i \in Batch}
  /\ next' = Max({cursor} \cup {up[i].seq : i \in Batch})
  /\ cursor' = next'
  /\ pulling' = "applying"
  /\ UNCHANGED <<sources, deliveries, row, lastPull, relayed, skipped, crashes>>

ReadPage ==
  /\ pulling = "reading"
  /\ page' = {Copy(i) : i \in Batch}
  /\ next' = Max({cursor} \cup {up[i].seq : i \in Batch})
  /\ pulling' = "applying"
  /\ UNCHANGED <<sources, deliveries, row, cursor, lastPull, relayed, skipped, crashes>>

\* Mutant: every failed retry is relayed.
relays_everyRetry == relayed + 1

relays == IF lastPull = "failed" THEN relayed ELSE relayed + 1

PullFails ==
  /\ pulling = "reading"
  /\ pulling' = "idle"
  /\ lastPull' = "failed"
  /\ relayed' = relays
  /\ UNCHANGED <<sources, deliveries, row, cursor, page, next, skipped, crashes>>

\* Mutant: one failure ends the page.
ApplyNext_orNone ==
  /\ pulling = "applying"
  /\ \E s \in page :
       /\ \A c \in page : s.seq <= c.seq
       /\ \/ page' = page \ {s} /\ row' = [row EXCEPT ![s.item] = applied(@, s)] /\ UNCHANGED skipped
          \/ s.item \in Failing /\ page' = {} /\ skip(s.item, s) /\ UNCHANGED row
  /\ UNCHANGED <<sources, deliveries, cursor, pulling, next, lastPull, relayed, crashes>>

\* An item whose application fails is skipped; a rejection is a run of origin "pull" of its own.
ApplyNext ==
  /\ pulling = "applying"
  /\ \E s \in page :
       /\ \A c \in page : s.seq <= c.seq
       /\ page' = page \ {s}
       /\ \/ row' = [row EXCEPT ![s.item] = applied(@, s)] /\ UNCHANGED <<lastPull, skipped>>
          \/ s.item \in Failing /\ skip(s.item, s) /\ UNCHANGED <<row, lastPull>>
          \/ rejects(row[s.item], s) /\ skip(s.item, s) /\ lastPull' = "rejected" /\ UNCHANGED row
  /\ UNCHANGED <<sources, deliveries, cursor, pulling, next, relayed, crashes>>

\* The cursor moves past an applied page.  The pull goes on while there is more and its budget of
\* pages lasts.
PageDone ==
  /\ pulling = "applying" /\ page = {}
  /\ cursor' = next
  /\ \/ /\ pulling' = "reading"
        /\ UNCHANGED <<lastPull, relayed>>
     \/ /\ pulling' = "idle"
        /\ lastPull' = "ok" /\ relayed' = 0
  /\ UNCHANGED <<sources, deliveries, row, page, next, skipped, crashes>>

Crash ==
  /\ crashes < MaxCrash
  /\ crashes' = crashes + 1
  /\ handling' = {}
  /\ pulling' = "idle" /\ page' = {}
  /\ UNCHANGED <<sources, due, receipts, row, cursor, next, lastPull, relayed, skipped>>

-----------------------------------------------------------------------------

Init ==
  /\ up = [i \in Item |-> [rev |-> 0, removed |-> FALSE, seq |-> 0]]
  /\ past = [i \in Item |-> {}]
  /\ due = {} /\ handling = {} /\ receipts = {}
  /\ row = [i \in Item |-> Absent]
  /\ cursor = 0
  /\ pulling = "idle" /\ page = {} /\ next = 0
  /\ lastPull = "none" /\ relayed = 0 /\ skipped = {}
  /\ crashes = 0

Sources == \E i \in Item : Revise(i) \/ Withdraw(i)

Webhook ==
  \/ \E e \in due : GiveUp(e) \/ Fetch(e) \/ FetchGone(e) \/ ReceiveRemoval(e)
  \/ \E h \in handling : ApplyFetched(h) \/ HandlerFails(h)

Pull == StartPull \/ ReadPage \/ PullFails \/ ApplyNext \/ PageDone

Next == Sources \/ Webhook \/ Pull \/ Crash

Spec == Init /\ [][Next]_vars

\* The timer keeps starting pulls and a pull started goes on; Sources can be read again and again;
\* a handler that holds an item finishes.
Fairness ==
  /\ WF_vars(StartPull)
  /\ SF_vars(ReadPage)
  /\ WF_vars(ApplyNext)
  /\ WF_vars(PageDone)
  /\ WF_vars(\E h \in handling : ApplyFetched(h) \/ HandlerFails(h))

FairSpec == Spec /\ Fairness

-----------------------------------------------------------------------------
(* Properties *)

Copies == [item : Item, rev : 0..MaxRev, removed : BOOLEAN, seq : Nat]

\* Type invariant: rows, deliveries and the pull have the shape the code gives them, only what was
\* stored is removed, and the cursor is one Sources has given out.
TypeOK ==
  /\ up \in [Item -> [rev : 0..MaxRev, removed : BOOLEAN, seq : Nat]]
  /\ past \in [Item -> SUBSET Snapshot]
  /\ due \subseteq Event /\ receipts \subseteq Event
  /\ handling \subseteq [event : Event, copy : Copies]
  /\ row \in [Item -> [rev : 0..MaxRev, removed : BOOLEAN]]
  /\ \A i \in Item : row[i].removed => row[i].rev > 0
  /\ cursor \in 0..LastSeq /\ next \in 0..LastSeq
  /\ pulling \in {"idle", "reading", "applying"}
  /\ page \subseteq Copies
  /\ lastPull \in {"none", "ok", "rejected", "failed"}
  /\ skipped \subseteq Item \X (1..MaxRev)
  /\ relayed \in Nat /\ crashes \in 0..MaxCrash

\* No acknowledged delivery is lost: once a change of an item is in the inbox, the stored row is at
\* least as new, whatever was delivered, pulled or lost in between, unless it was rejected.
AckedIsApplied ==
  \A e \in receipts : e.kind = "changed" =>
    \/ row[e.item].rev >= e.rev \/ up[e.item].removed
    \/ \E rev \in e.rev..MaxRev : <<e.item, rev>> \in skipped

\* The cursor never runs ahead of what is stored: a change it has passed is in the store, or was
\* skipped and logged, however webhooks, upstream changes and restarts interleave with the page
\* being applied.
CursorCovers ==
  \A i \in Item : up[i].seq <= cursor /\ ~up[i].removed =>
    row[i] = State(i) \/ <<i, up[i].rev>> \in skipped

\* An outage of the pull is relayed, and once, however many retries and restarts it takes; only an
\* item rejected on the way, which is recorded as a run of the pull itself, has it relayed again.
OneEventPerOutage ==
  /\ lastPull = "failed" => relayed >= 1
  /\ relayed > 1 => Untitled /\ skipped # {}

Abstract == INSTANCE Mirror WITH past <- past, row <- row
\* Whatever happens on the way, the store only mirrors states Sources has published, forward.
ImplementsMirror == Abstract!Spec

Current(i) ==
  IF up[i].removed THEN row[i].rev = 0 \/ row[i].removed ELSE row[i] = State(i)

\* When Sources stops changing, every item that is live there is stored as it is there, and so is
\* every removal no delivery could overtake.  An item the pull failed to apply is left out until it
\* changes again, and takes no other item of its page with it.
LiveConverges ==
  <>[](\A i \in Item :
         ~up[i].removed \/ i \notin Delivered => Current(i) \/ <<i, up[i].rev>> \in skipped)

\* events.js: "The cursor pull catches anything that never arrives", removals included.
Converges == <>[](\A i \in Item : Current(i))
=============================================================================

---------------------------- MODULE IngestProofs ----------------------------
(***************************************************************************)
(* Proofs about Ingest, for every set of items, every page size and bound. *)
(*                                                                         *)
(* IInv carries everything: whatever is stored, in a delivery or in a page *)
(* is a state Sources has published, so no step takes a row backwards or   *)
(* past Sources.  The cursor needs the page in flight besides (CInv).      *)
(***************************************************************************)
EXTENDS Ingest, FiniteSetTheorems, TLAPS

-----------------------------------------------------------------------------
(* The change order *)

\* A non-empty finite set of naturals has a greatest member: the one that the fewest others exceed.
LEMMA GreatestOf ==
  ASSUME NEW S \in SUBSET Nat, S # {}, IsFiniteSet(S)
  PROVE  Max(S) \in S /\ \A n \in S : n <= Max(S)
<1> DEFINE above(n) == {k \in S : k > n}
           T == {above(n) : n \in S}
           R == StrictSubsetOrdering(S)
<1>1. PICK n \in S : \A m \in S : ~(<<above(m), above(n)>> \in R)
  <2>1. T \subseteq FiniteSubsetsOf(S) /\ T # {}
    <3>1. \A n \in S : above(n) \in FiniteSubsetsOf(S)
      BY FS_Subset DEF FiniteSubsetsOf
    <3> QED
      BY <3>1
  <2>2. PICK x \in T : \A y \in T : ~(<<y, x>> \in R)
    <3> HIDE DEF T, R
    <3>1. IsWellFoundedOn(R, FiniteSubsetsOf(S))
      BY FS_StrictSubsetOrderingWellFounded DEF R
    <3> QED
      BY <2>1, <3>1, WFMin
  <2> QED
    BY <2>2
<1>2. ASSUME NEW k \in S, k > n PROVE FALSE
  <2>1. k \in Nat /\ n \in Nat
    OBVIOUS
  <2>2. above(k) \subseteq above(n)
    <3> SUFFICES ASSUME NEW m \in S, m > k PROVE m > n
      OBVIOUS
    <3> m \in Nat
      OBVIOUS
    <3> QED
      BY <1>2, <2>1
  <2>3. k \in above(n) /\ k \notin above(k)
    BY <1>2, <2>1
  <2>4. above(k) # above(n)
    BY <2>3
  <2> QED
    BY <1>1, <2>2, <2>4 DEF StrictSubsetOrdering
<1>3. \A k \in S : n >= k
  BY <1>2
<1> QED
  BY <1>3 DEF Max

\* The places of finitely many items in the change order are finitely many.
LEMMA FinitelyManyPlaces ==
  ASSUME NEW I, IsFiniteSet(I), NEW seqOf \in [I -> Nat]
  PROVE  IsFiniteSet({seqOf[i] : i \in I})
<1>1. seqOf \in Surjection(I, {seqOf[i] : i \in I})
  BY DEF Surjection
<1> QED
  BY <1>1, FS_Surjection

\* The greatest of some items' places and another place.
LEMMA GreatestPlace ==
  ASSUME NEW I, IsFiniteSet(I), NEW seqOf \in [I -> Nat], NEW p \in Nat
  PROVE  LET last == Max({p} \cup {seqOf[i] : i \in I})
         IN  /\ last \in Nat /\ p <= last
             /\ \A i \in I : seqOf[i] <= last
             /\ last = p \/ \E i \in I : last = seqOf[i]
<1> DEFINE S == {p} \cup {seqOf[i] : i \in I}
<1>1. S \in SUBSET Nat /\ S # {}
  OBVIOUS
<1>2. IsFiniteSet(S)
  <2> DEFINE places == {seqOf[i] : i \in I}
  <2>1. IsFiniteSet(places) /\ S = places \cup {p}
    BY FinitelyManyPlaces
  <2> HIDE DEF places, S
  <2> QED
    BY <2>1, FS_AddElement
<1>3. Max(S) \in S /\ \A n \in S : n <= Max(S)
  <2> HIDE DEF S
  <2> QED
    BY <1>1, <1>2, GreatestOf
<1>4. p \in S /\ \A i \in I : seqOf[i] \in S
  OBVIOUS
<1>5. \A n \in S : n = p \/ \E i \in I : n = seqOf[i]
  OBVIOUS
<1> DEFINE last == Max(S)
<1> HIDE DEF S
<1>6. last \in S /\ \A n \in S : n <= last
  BY <1>3
<1> HIDE DEF last
<1>7. /\ last \in Nat /\ p <= last
      /\ \A i \in I : seqOf[i] <= last
      /\ last = p \/ \E i \in I : last = seqOf[i]
  BY <1>1, <1>4, <1>5, <1>6
<1> QED
  BY <1>7 DEF last, S

Upstream == [Item -> [rev : 0..MaxRev, removed : BOOLEAN, seq : Nat]]

\* LastSeq is at or past every item's place.
LEMMA LastSeqIsLast ==
  ASSUME NEW u \in Upstream
  PROVE  LET last == Max({0} \cup {u[i].seq : i \in Item})
         IN  last \in Nat /\ \A i \in Item : u[i].seq <= last
<1> DEFINE seqOf == [i \in Item |-> u[i].seq]
<1>1. seqOf \in [Item -> Nat]
  BY DEF Upstream
<1>2. {u[i].seq : i \in Item} = {seqOf[i] : i \in Item}
  OBVIOUS
<1>3. /\ Max({0} \cup {seqOf[i] : i \in Item}) \in Nat
      /\ \A k \in Item : seqOf[k] <= Max({0} \cup {seqOf[i] : i \in Item})
  <2> HIDE DEF seqOf
  <2> QED
    BY <1>1, GreatestPlace, BoundsAssumption
<1> QED
  BY <1>2, <1>3

\* A page is everything that changed after the cursor and up to where the cursor moves next.
LEMMA PageReaches ==
  ASSUME up \in Upstream, cursor \in Nat
  PROVE  LET last == Max({cursor} \cup {up[i].seq : i \in Batch})
         IN  /\ last \in Nat /\ cursor <= last
             /\ last = cursor \/ \E i \in Item : last = up[i].seq
             /\ \A i \in Changed : up[i].seq <= last => i \in Batch
<1> DEFINE seqOf == [i \in Batch |-> up[i].seq]
           last == Max({cursor} \cup {seqOf[i] : i \in Batch})
           smaller(i) == {j \in Changed : up[j].seq < up[i].seq}
<1>1. Batch \subseteq Changed /\ Changed \subseteq Item
  BY DEF Batch, Changed
<1>2. IsFiniteSet(Batch) /\ IsFiniteSet(Changed)
  BY <1>1, BoundsAssumption, FS_Subset
<1>3. seqOf \in [Batch -> Nat]
  BY <1>1 DEF Upstream
<1>4. /\ last \in Nat /\ cursor <= last
      /\ \A i \in Batch : seqOf[i] <= last
      /\ last = cursor \/ \E i \in Batch : last = seqOf[i]
  BY <1>2, <1>3, GreatestPlace
<1>5. ASSUME NEW i \in Changed, up[i].seq <= last PROVE i \in Batch
  <2>1. up[i].seq \in Nat /\ up[i].seq > cursor
    BY <1>1 DEF Upstream, Changed
  <2>2. PICK j \in Batch : last = up[j].seq
    BY <1>4, <1>5, <2>1
  <2>3. smaller(i) \subseteq smaller(j)
    <3>1. \A k \in Changed : up[k].seq \in Nat
      BY <1>1 DEF Upstream
    <3> QED
      BY <1>5, <2>1, <2>2, <3>1, <1>4
  <2>4. IsFiniteSet(smaller(j))
    BY <1>2, FS_Subset
  <2>5. Cardinality(smaller(i)) <= Cardinality(smaller(j))
    BY <2>3, <2>4, FS_Subset
  <2>6. /\ Cardinality(smaller(i)) \in Nat /\ Cardinality(smaller(j)) \in Nat
        /\ Cardinality(smaller(j)) < PageSize
    BY <2>3, <2>4, FS_Subset, FS_CardinalityType, <2>2 DEF Batch
  <2> QED
    BY <2>5, <2>6, BoundsAssumption DEF Batch
<1>6. {seqOf[i] : i \in Batch} = {up[i].seq : i \in Batch}
  OBVIOUS
<1> QED
  BY <1>1, <1>4, <1>5, <1>6

-----------------------------------------------------------------------------
(* Rows *)

Row == [rev : 0..MaxRev, removed : BOOLEAN]
Stored == {r \in Row : r.removed => r.rev > 0}

\* apply and applyRemoval take a row forward, to the copy's revision or not at all, and remove it
\* only when the copy says so.
LEMMA AppliedForward ==
  ASSUME NEW r \in Stored, NEW s, s.rev \in 0..MaxRev, s.removed \in BOOLEAN
  PROVE  /\ applied(r, s) \in Stored
         /\ r.rev <= applied(r, s).rev
         /\ applied(r, s).rev \in {r.rev, s.rev}
         /\ applied(r, s).removed => r.removed \/ s.removed
         /\ ~s.removed => s.rev <= applied(r, s).rev \/ r.removed
BY BoundsAssumption DEF applied, Stored, Row

\* The state a copy, and an event, says Sources has published.
StateOf(c) == [rev |-> c.rev, removed |-> c.removed]
EventState(e) == [rev |-> e.rev, removed |-> e.kind = "removed"]

\* What is stored or on its way is a state Sources has published, and Sources has only gone on
\* from there.
Published ==
  /\ \A i \in Item : up[i].seq > 0 => up[i].rev > 0
  /\ \A i \in Item : up[i].rev > 0 => State(i) \in past[i]
  /\ \A i \in Item : \A s \in past[i] : s.rev <= up[i].rev /\ (s.removed => up[i].removed)
  /\ \A i \in Item : row[i].rev <= up[i].rev /\ (row[i].removed => up[i].removed)
  /\ \A e \in due \cup receipts : EventState(e) \in past[e.item]
  /\ \A h \in handling :
       /\ h.event.kind = "changed" /\ EventState(h.event) \in past[h.event.item]
       /\ h.copy.item = h.event.item /\ h.event.rev <= h.copy.rev
       /\ StateOf(h.copy) \in past[h.copy.item]
  /\ \A c \in page : StateOf(c) \in past[c.item]

\* What the page in flight will have brought when the cursor moves past it.
PageCovers ==
  pulling = "applying" =>
    \A i \in Item : up[i].seq <= next /\ ~up[i].removed =>
      row[i] = State(i) \/ <<i, up[i].rev>> \in skipped \/ Copy(i) \in page

-----------------------------------------------------------------------------
(* A change in Sources *)

Announcement(i, s, kind) ==
  /\ s \in Snapshot /\ kind \in {"changed", "removed"}
  /\ ~up[i].removed /\ s.rev = up[i].rev + 1 /\ s.removed = (kind = "removed")
  /\ Announce(i, s, kind)

\* Both changes are announcements of the next revision of a live item.
LEMMA SourcesAnnounce ==
  ASSUME TypeOK, NEW i \in Item, Revise(i) \/ Withdraw(i)
  PROVE  \E s, kind : Announcement(i, s, kind)
<1>1. up[i].rev \in 0..MaxRev /\ MaxRev \in Nat
  BY BoundsAssumption DEF TypeOK
<1>2. CASE Revise(i)
  <2> DEFINE s == [rev |-> up[i].rev + 1, removed |-> FALSE]
  <2>1. s \in Snapshot /\ s.rev = up[i].rev + 1 /\ s.removed = FALSE
    BY <1>1, <1>2 DEF Revise, Snapshot
  <2>2. ~up[i].removed /\ Announce(i, s, "changed")
    BY <1>2 DEF Revise
  <2> HIDE DEF s
  <2>3. Announcement(i, s, "changed")
    BY <2>1, <2>2 DEF Announcement
  <2> QED
    BY <2>3
<1>3. CASE Withdraw(i)
  <2> DEFINE s == [rev |-> up[i].rev + 1, removed |-> TRUE]
  <2>1. s \in Snapshot /\ s.rev = up[i].rev + 1 /\ s.removed = TRUE
    BY <1>1, <1>3 DEF Withdraw, Snapshot
  <2>2. ~up[i].removed /\ Announce(i, s, "removed")
    BY <1>3 DEF Withdraw
  <2> HIDE DEF s
  <2>3. Announcement(i, s, "removed")
    BY <2>1, <2>2 DEF Announcement
  <2> QED
    BY <2>3
<1> QED
  BY <1>2, <1>3

\* What an announcement does to the item, and to the change order.
LEMMA AnnouncedItem ==
  ASSUME TypeOK, NEW i \in Item, NEW s, NEW kind, Announcement(i, s, kind)
  PROVE  /\ up' \in Upstream
         /\ up'[i].rev = s.rev /\ up'[i].removed = s.removed /\ up'[i].seq = LastSeq + 1
         /\ \A j \in Item \ {i} : up'[j] = up[j]
         /\ LastSeq \in Nat /\ LastSeq' \in Nat /\ LastSeq < LastSeq'
<1>1. up \in Upstream /\ LastSeq \in Nat
  BY LastSeqIsLast DEF TypeOK, Upstream, LastSeq
<1> DEFINE new == [rev |-> s.rev, removed |-> s.removed, seq |-> LastSeq + 1]
<1>2. up' = [up EXCEPT ![i] = new]
  BY DEF Announcement, Announce
<1>3. new \in [rev : 0..MaxRev, removed : BOOLEAN, seq : Nat]
  BY <1>1 DEF Announcement, Snapshot
<1>4. new.rev = s.rev /\ new.removed = s.removed /\ new.seq = LastSeq + 1
  OBVIOUS
<1> HIDE DEF new
<1>5. up' \in Upstream /\ up'[i] = new /\ \A j \in Item \ {i} : up'[j] = up[j]
  BY <1>1, <1>2, <1>3 DEF Upstream
<1>6. LastSeq' \in Nat /\ up'[i].seq <= LastSeq'
  BY <1>5, LastSeqIsLast DEF LastSeq
<1> QED
  BY <1>1, <1>4, <1>5, <1>6

LEMMA AnnouncementKeeps ==
  ASSUME TypeOK, Published, NEW i \in Item, NEW s, NEW kind, Announcement(i, s, kind)
  PROVE  TypeOK' /\ Published'
<1> DEFINE e == [item |-> i, rev |-> s.rev, kind |-> kind]
<1>1. /\ past' = [past EXCEPT ![i] = @ \cup {s}]
      /\ due' = due \/ due' = due \cup {e}
      /\ UNCHANGED <<handling, receipts, row, cursor, pulling, page, next, lastPull, relayed, skipped, crashes>>
  BY DEF Announcement, Announce, puller
<1>2. /\ e \in Event /\ e.item = i /\ s \in Snapshot /\ s.rev > up[i].rev /\ ~up[i].removed
      /\ s.rev \in Nat \ {0} /\ up[i].rev \in Nat
      /\ EventState(e) = s
  BY BoundsAssumption DEF Announcement, Event, Snapshot, EventState, TypeOK
<1> HIDE DEF e
<1>3. /\ \A j \in Item : past[j] \subseteq past'[j]
      /\ past' \in [Item -> SUBSET Snapshot] /\ past'[i] = past[i] \cup {s}
      /\ \A j \in Item \ {i} : past'[j] = past[j]
  BY <1>1, <1>2 DEF TypeOK
<1>4. TypeOK'
  <2>1. cursor' \in 0..LastSeq' /\ next' \in 0..LastSeq'
    BY <1>1, AnnouncedItem DEF TypeOK
  <2> QED
    BY <1>1, <1>2, <1>3, <2>1, AnnouncedItem DEF TypeOK, Upstream
<1>5. Published'
  <2>1. \A j \in Item : up[j].rev <= up'[j].rev /\ (up[j].removed => up'[j].removed)
    BY <1>2, AnnouncedItem DEF TypeOK
  <2>2. /\ \A j \in Item : up'[j].seq > 0 => up'[j].rev > 0
        /\ \A j \in Item : up'[j].rev > 0 => State(j)' \in past'[j]
    BY <1>2, <1>3, AnnouncedItem DEF Published, State, Snapshot
  <2>3. \A j \in Item : \A x \in past'[j] : x.rev <= up'[j].rev /\ (x.removed => up'[j].removed)
    <3>1. ASSUME NEW x \in past[i] PROVE x.rev <= s.rev /\ ~x.removed
      <4>1. x \in Snapshot /\ x.rev <= up[i].rev /\ (x.removed => up[i].removed)
        BY DEF Published, TypeOK
      <4> QED
        BY <4>1, <1>2 DEF Snapshot
    <3>2. \A x \in past'[i] : x.rev <= up'[i].rev /\ (x.removed => up'[i].removed)
      <4>1. up'[i].rev = s.rev /\ up'[i].removed = s.removed
        BY AnnouncedItem
      <4>2. s.rev <= s.rev
        BY <1>2
      <4> QED
        BY <1>3, <3>1, <4>1, <4>2
    <3>3. \A j \in Item \ {i} : up'[j] = up[j]
      BY AnnouncedItem
    <3>4. \A j \in Item : \A x \in past[j] : x.rev <= up[j].rev /\ (x.removed => up[j].removed)
      BY DEF Published
    <3>5. \A j \in Item \ {i} : past'[j] = past[j]
      BY <1>3
    <3>6. ASSUME NEW j \in Item, NEW x \in past'[j]
          PROVE  x.rev <= up'[j].rev /\ (x.removed => up'[j].removed)
      <4>1. CASE j = i
        BY <3>2, <4>1
      <4>2. CASE j # i
        <5>1. past'[j] = past[j] /\ up'[j] = up[j]
          BY <3>3, <3>5, <4>2
        <5> QED
          BY <3>4, <5>1
      <4> QED
        BY <4>1, <4>2
    <3> QED
      BY <3>6
  <2>4. \A j \in Item : row'[j].rev <= up'[j].rev /\ (row'[j].removed => up'[j].removed)
    <3> SUFFICES ASSUME NEW j \in Item
                 PROVE  row[j].rev <= up'[j].rev /\ (row[j].removed => up'[j].removed)
      BY <1>1
    <3>1. row[j].rev <= up[j].rev /\ (row[j].removed => up[j].removed)
      BY DEF Published
    <3>2. row[j].rev \in Nat /\ up[j].rev \in Nat /\ up'[j].rev \in Nat
      BY AnnouncedItem, BoundsAssumption DEF TypeOK, Upstream
    <3>3. row[j].rev <= up'[j].rev
      BY <2>1, <3>1, <3>2
    <3> QED
      BY <2>1, <3>1, <3>3
  <2>5. \A x \in due' \cup receipts' : EventState(x) \in past'[x.item]
    BY <1>1, <1>2, <1>3 DEF Published, TypeOK, Event
  <2>6. /\ \A h \in handling' :
             /\ h.event.kind = "changed" /\ EventState(h.event) \in past'[h.event.item]
             /\ h.copy.item = h.event.item /\ h.event.rev <= h.copy.rev
             /\ StateOf(h.copy) \in past'[h.copy.item]
        /\ \A c \in page' : StateOf(c) \in past'[c.item]
    BY <1>1, <1>3 DEF Published, TypeOK, Event, Copies
  <2> QED
    BY <2>2, <2>3, <2>4, <2>5, <2>6 DEF Published
<1> QED
  BY <1>4, <1>5

-----------------------------------------------------------------------------
(* What is applied *)

\* Sources vouches for s as a state of item i it has gone through.
Vouched(i, s) ==
  /\ s.rev \in 0..MaxRev /\ s.removed \in BOOLEAN
  /\ s.rev <= up[i].rev
  /\ s.removed => up[i].removed

\* A published state is vouched for.
LEMMA PublishedVouched ==
  ASSUME TypeOK, Published, NEW i \in Item, NEW s, StateOf(s) \in past[i]
  PROVE  Vouched(i, s) /\ s.rev \in 1..MaxRev
<1>1. StateOf(s) \in Snapshot
  BY DEF TypeOK
<1>2. s.rev \in 1..MaxRev /\ s.removed \in BOOLEAN
  BY <1>1 DEF StateOf, Snapshot
<1>3. s.rev <= up[i].rev /\ (s.removed => up[i].removed)
  BY DEF Published, StateOf
<1>4. s.rev \in 0..MaxRev
  BY <1>2, BoundsAssumption
<1> QED
  BY <1>2, <1>3, <1>4 DEF Vouched

\* So is what a delivery, a page and the payload of a removal carry.
LEMMA CopiesVouched ==
  ASSUME TypeOK, Published
  PROVE  /\ \A h \in handling : Vouched(h.event.item, h.copy) /\ h.copy.rev \in 1..MaxRev
         /\ \A c \in page : Vouched(c.item, c) /\ c.rev \in 1..MaxRev
         /\ \A e \in due, rev \in Nat :
              e.kind = "removed" /\ rev \in {0, e.rev} =>
                Vouched(e.item, [rev |-> rev, removed |-> TRUE]) /\ up[e.item].removed
<1>1. ASSUME NEW h \in handling PROVE Vouched(h.event.item, h.copy) /\ h.copy.rev \in 1..MaxRev
  <2>1. h.event.item \in Item /\ StateOf(h.copy) \in past[h.event.item]
    BY DEF TypeOK, Published, Event
  <2> QED
    BY <2>1, PublishedVouched
<1>2. ASSUME NEW c \in page PROVE Vouched(c.item, c) /\ c.rev \in 1..MaxRev
  <2>1. c.item \in Item /\ StateOf(c) \in past[c.item]
    BY DEF TypeOK, Published, Copies
  <2> QED
    BY <2>1, PublishedVouched
<1>3. ASSUME NEW e \in due, NEW rev \in Nat, e.kind = "removed", rev \in {0, e.rev}
      PROVE  Vouched(e.item, [rev |-> rev, removed |-> TRUE]) /\ up[e.item].removed
  <2>1. e.item \in Item /\ e.rev \in 1..MaxRev
    BY DEF TypeOK, Event
  <2>2. [rev |-> e.rev, removed |-> TRUE] \in past[e.item]
    BY <1>3 DEF Published, EventState
  <2>3. e.rev <= up[e.item].rev /\ up[e.item].removed
    BY <2>1, <2>2 DEF Published
  <2>4. up[e.item].rev \in Nat
    BY <2>1 DEF TypeOK
  <2>5. rev \in 0..MaxRev /\ rev <= up[e.item].rev
    BY <1>3, <2>1, <2>3, <2>4, BoundsAssumption
  <2> QED
    BY <2>3, <2>5 DEF Vouched
<1> QED
  BY <1>1, <1>2, <1>3

\* The rows: well formed, and not ahead of Sources.
RowsFollow ==
  /\ row \in [Item -> Stored]
  /\ \A i \in Item : row[i].rev <= up[i].rev /\ (row[i].removed => up[i].removed)

LEMMA RowsDo == TypeOK /\ Published => RowsFollow
BY DEF TypeOK, Published, RowsFollow, Stored, Row

\* Applying what is vouched for keeps them so, and takes the row forward.
LEMMA ApplyKeeps ==
  ASSUME RowsFollow, up \in Upstream, UNCHANGED up, NEW i \in Item, NEW s, Vouched(i, s),
         row' = [row EXCEPT ![i] = applied(@, s)]
  PROVE  RowsFollow' /\ \A j \in Item : row[j].rev <= row'[j].rev
<1> DEFINE new == applied(row[i], s)
<1>1. /\ new \in Stored /\ row[i].rev <= new.rev /\ new.rev \in {row[i].rev, s.rev}
      /\ new.removed => row[i].removed \/ s.removed
  BY AppliedForward DEF RowsFollow, Vouched
<1>2. new.rev <= up[i].rev
  BY <1>1 DEF RowsFollow, Vouched
<1>3. new.removed => up[i].removed
  BY <1>1 DEF RowsFollow, Vouched
<1>4. row' = [row EXCEPT ![i] = new]
  OBVIOUS
<1> HIDE DEF new
<1>5. row' \in [Item -> Stored] /\ row'[i] = new /\ \A j \in Item \ {i} : row'[j] = row[j]
  BY <1>1, <1>4 DEF RowsFollow
<1>6. \A j \in Item : row'[j].rev <= up[j].rev /\ (row'[j].removed => up[j].removed)
  BY <1>2, <1>3, <1>5 DEF RowsFollow
<1>7. \A j \in Item : row[j].rev <= row'[j].rev
  <2>1. \A j \in Item : row[j].rev \in Nat
    BY DEF RowsFollow, Stored, Row
  <2> QED
    BY <1>1, <1>5, <2>1
<1> QED
  BY <1>5, <1>6, <1>7 DEF RowsFollow

-----------------------------------------------------------------------------
(* Type correctness, and what is published *)

IInv == TypeOK /\ Published

\* inbox.once takes the row forward, whatever it is asked to apply.
LEMMA OnceKeeps ==
  ASSUME IInv, UNCHANGED up,
         NEW e \in Event, NEW s, Vouched(e.item, s), ~s.removed => s.rev \in 1..MaxRev,
         once(e, e.item, s)
  PROVE  /\ RowsFollow' /\ \A j \in Item : row[j].rev <= row'[j].rev
         /\ receipts' = receipts \cup {e}
         /\ skipped \subseteq skipped' /\ skipped' \subseteq Item \X (1..MaxRev)
<1>1. e.item \in Item /\ RowsFollow /\ up \in Upstream
  BY RowsDo DEF Event, IInv, TypeOK, Upstream
<1>2. receipts' = receipts \cup {e}
  BY DEF once
<1>3. CASE row' = [row EXCEPT ![e.item] = applied(@, s)] /\ UNCHANGED skipped
  BY <1>1, <1>2, <1>3, ApplyKeeps DEF IInv, TypeOK
<1>4. CASE UNCHANGED <<row, skipped>>
  <2>1. \A j \in Item : row[j].rev \in Nat
    BY <1>1 DEF RowsFollow, Stored, Row
  <2> QED
    BY <1>1, <1>2, <1>4, <2>1 DEF IInv, TypeOK, RowsFollow
<1>5. CASE rejects(row[e.item], s) /\ skip(e.item, s) /\ UNCHANGED row
  <2>1. \A j \in Item : row[j].rev \in Nat
    BY <1>1 DEF RowsFollow, Stored, Row
  <2>2. s.rev \in 1..MaxRev /\ skipped' = skipped \cup {<<e.item, s.rev>>}
    BY <1>5 DEF rejects, skip
  <2>3. skipped' \subseteq Item \X (1..MaxRev)
    BY <1>1, <2>2 DEF IInv, TypeOK
  <2> QED
    BY <1>1, <1>2, <1>5, <2>1, <2>2, <2>3 DEF RowsFollow
<1> QED
  BY <1>3, <1>4, <1>5 DEF once

\* A delivery's step: nothing new is due or being handled but what the lemma is told of.
LEMMA DeliveryKeeps ==
  ASSUME IInv, UNCHANGED <<up, past, cursor, puller, crashes>>,
         RowsFollow', skipped' \subseteq Item \X (1..MaxRev),
         due' \subseteq due, handling' \subseteq handling,
         \A e \in receipts' \ receipts : e \in Event /\ EventState(e) \in past[e.item]
  PROVE  IInv'
<1>1. TypeOK'
  <2>1. LastSeq' = LastSeq
    BY DEF LastSeq
  <2>2. receipts' \subseteq Event
    BY DEF IInv, TypeOK
  <2> QED
    BY <2>1, <2>2 DEF IInv, TypeOK, RowsFollow, Stored, Row, puller
<1>2. Published'
  <2>1. \A e \in due' \cup receipts' : EventState(e) \in past[e.item]
    BY DEF IInv, Published
  <2> QED
    BY <2>1 DEF IInv, Published, RowsFollow, State, puller
<1> QED
  BY <1>1, <1>2 DEF IInv

LEMMA WebhookKeeps ==
  ASSUME IInv, Webhook
  PROVE  IInv'
<1>1. \A e \in due : e \in Event /\ e.item \in Item /\ EventState(e) \in past[e.item]
  BY DEF IInv, TypeOK, Published, Event
<1>2. \A h \in handling : h.event \in Event /\ EventState(h.event) \in past[h.event.item]
  BY DEF IInv, TypeOK, Published
<1>3. RowsFollow
  BY RowsDo DEF IInv
<1>4. ASSUME UNCHANGED <<up, row>> PROVE RowsFollow'
  BY <1>3, <1>4 DEF RowsFollow
<1>5. ASSUME NEW e \in due, GiveUp(e) PROVE IInv'
  <2>1. due' \subseteq due /\ UNCHANGED <<up, past, handling, receipts, row, cursor, puller, skipped, crashes>>
    BY <1>5 DEF GiveUp, sources
  <2> QED
    BY <1>4, <2>1, DeliveryKeeps DEF IInv, TypeOK
<1>6. ASSUME NEW e \in due, Fetch(e) PROVE IInv'
  <2> DEFINE h == [event |-> e, copy |-> Copy(e.item)]
  <2>1. /\ handling' = handling \cup {h} /\ e.kind = "changed"
        /\ UNCHANGED <<up, past, due, receipts, row, cursor, puller, skipped, crashes>>
    BY <1>6 DEF Fetch, sources
  <2>2. /\ h.event = e /\ h.copy.item = e.item /\ h.copy.rev = up[e.item].rev
        /\ h \in [event : Event, copy : Copies] /\ StateOf(h.copy) = State(e.item)
    BY <1>1 DEF IInv, TypeOK, Copies, Copy, StateOf, State
  <2> HIDE DEF h
  <2>3. e.rev <= up[e.item].rev /\ up[e.item].rev > 0
    <3>1. EventState(e).rev <= up[e.item].rev
      BY <1>1 DEF IInv, Published
    <3>2. e.rev \in 1..MaxRev /\ up[e.item].rev \in 0..MaxRev
      BY <1>1 DEF Event, IInv, TypeOK
    <3> QED
      BY <3>1, <3>2, BoundsAssumption DEF EventState
  <2>4. StateOf(h.copy) \in past[e.item]
    BY <1>1, <2>2, <2>3 DEF IInv, Published
  <2>5. TypeOK'
    <3>1. LastSeq' = LastSeq
      BY <2>1 DEF LastSeq
    <3>2. handling' \subseteq [event : Event, copy : Copies]
      BY <2>1, <2>2 DEF IInv, TypeOK
    <3> QED
      BY <2>1, <3>1, <3>2 DEF IInv, TypeOK, puller
  <2>6. Published'
    BY <1>1, <2>1, <2>2, <2>3, <2>4 DEF IInv, Published, State, puller
  <2> QED
    BY <2>5, <2>6 DEF IInv
<1>7. ASSUME NEW e \in due, FetchGone(e) PROVE IInv'
  <2>1. /\ due' \subseteq due /\ receipts' = receipts \cup {e}
        /\ UNCHANGED <<up, past, handling, row, cursor, puller, skipped, crashes>>
    BY <1>7 DEF FetchGone, Answered, sources
  <2> QED
    BY <1>1, <1>4, <2>1, DeliveryKeeps DEF IInv, TypeOK
<1>8. ASSUME NEW e \in due, ReceiveRemoval(e) PROVE IInv'
  <2>1. /\ due' \subseteq due /\ e.kind = "removed"
        /\ UNCHANGED <<up, past, handling, cursor, puller, crashes>>
    BY <1>8 DEF ReceiveRemoval, Answered, sources
  <2>2. PICK rev \in {0, e.rev} : once(e, e.item, [rev |-> rev, removed |-> TRUE])
    BY <1>8 DEF ReceiveRemoval
  <2>3. rev \in Nat
    BY <1>1, BoundsAssumption DEF Event
  <2>4. Vouched(e.item, [rev |-> rev, removed |-> TRUE])
    BY <2>1, <2>3, CopiesVouched DEF IInv
  <2>5. /\ RowsFollow' /\ receipts' = receipts \cup {e}
        /\ skipped' \subseteq Item \X (1..MaxRev)
    BY <1>1, <2>1, <2>2, <2>4, OnceKeeps
  <2> QED
    BY <1>1, <2>1, <2>5, DeliveryKeeps
<1>9. ASSUME NEW h \in handling, ApplyFetched(h) PROVE IInv'
  <2>1. /\ due' \subseteq due /\ handling' \subseteq handling
        /\ once(h.event, h.event.item, h.copy)
        /\ UNCHANGED <<up, past, cursor, puller, crashes>>
    BY <1>9 DEF ApplyFetched, Answered, sources
  <2>2. Vouched(h.event.item, h.copy) /\ h.copy.rev \in 1..MaxRev
    BY CopiesVouched DEF IInv
  <2>3. /\ RowsFollow' /\ receipts' = receipts \cup {h.event}
        /\ skipped' \subseteq Item \X (1..MaxRev)
    BY <1>2, <2>1, <2>2, OnceKeeps
  <2> QED
    BY <1>2, <2>1, <2>3, DeliveryKeeps
<1>10. ASSUME NEW h \in handling, HandlerFails(h) PROVE IInv'
  <2>1. /\ handling' \subseteq handling
        /\ UNCHANGED <<up, past, due, receipts, row, cursor, puller, skipped, crashes>>
    BY <1>10 DEF HandlerFails, sources
  <2> QED
    BY <1>4, <2>1, DeliveryKeeps DEF IInv, TypeOK
<1> QED
  BY <1>5, <1>6, <1>7, <1>8, <1>9, <1>10 DEF Webhook

LEMMA PullKeeps ==
  ASSUME IInv, Pull \/ Crash
  PROVE  IInv'
<1>1. RowsFollow /\ up \in Upstream
  BY RowsDo DEF IInv, TypeOK, Upstream
<1>2. CASE StartPull \/ PullFails \/ PageDone \/ Crash
  <2>1. /\ UNCHANGED <<up, past, due, receipts, row, next, skipped>>
        /\ handling' \subseteq handling /\ page' \subseteq page
        /\ cursor' \in {cursor, next} /\ pulling' \in {"idle", "reading", "applying"}
        /\ lastPull' \in {"none", "ok", "rejected", "failed"}
    BY <1>2 DEF StartPull, PullFails, PageDone, Crash, sources, deliveries, IInv, TypeOK
  <2>2. relayed' \in Nat
    BY <1>2 DEF StartPull, PullFails, PageDone, Crash, relays, IInv, TypeOK
  <2>3. crashes' \in 0..MaxCrash
    BY <1>2, BoundsAssumption DEF StartPull, PullFails, PageDone, Crash, IInv, TypeOK
  <2>4. LastSeq' = LastSeq
    BY <2>1 DEF LastSeq
  <2>5. TypeOK'
    BY <2>1, <2>2, <2>3, <2>4 DEF IInv, TypeOK
  <2>6. Published'
    BY <2>1 DEF IInv, Published, State
  <2> QED
    BY <2>5, <2>6 DEF IInv
<1>3. CASE ReadPage
  <2>1. /\ page' = {Copy(i) : i \in Batch} /\ next' = Max({cursor} \cup {up[i].seq : i \in Batch})
        /\ pulling' = "applying"
        /\ UNCHANGED <<up, past, due, handling, receipts, row, cursor, lastPull, relayed, skipped, crashes>>
    BY <1>3 DEF ReadPage, sources, deliveries
  <2>2. LastSeq \in Nat /\ \A i \in Item : up[i].seq <= LastSeq
    BY <1>1, LastSeqIsLast DEF LastSeq
  <2>3. cursor \in Nat /\ cursor <= LastSeq
    BY <2>2 DEF IInv, TypeOK
  <2>4. next' \in 0..LastSeq
    <3>1. next' \in Nat /\ (next' = cursor \/ \E i \in Item : next' = up[i].seq)
      BY <1>1, <2>1, <2>3, PageReaches
    <3> QED
      BY <2>2, <2>3, <3>1
  <2>5. ASSUME NEW i \in Batch
        PROVE  Copy(i) \in Copies /\ StateOf(Copy(i)) \in past[Copy(i).item]
    <3>1. i \in Item /\ up[i].seq > cursor
      BY DEF Batch, Changed
    <3>2. up[i].seq \in Nat /\ up[i].seq > 0
      BY <1>1, <2>3, <3>1 DEF Upstream
    <3>3. State(i) \in past[i]
      BY <3>1, <3>2 DEF IInv, Published
    <3> QED
      BY <1>1, <3>1, <3>3 DEF Copy, Copies, StateOf, State, Upstream
  <2>6. page' \subseteq Copies /\ \A c \in page' : StateOf(c) \in past[c.item]
    BY <2>1, <2>5
  <2>7. LastSeq' = LastSeq
    BY <2>1 DEF LastSeq
  <2>8. TypeOK'
    BY <2>1, <2>4, <2>6, <2>7 DEF IInv, TypeOK
  <2>9. Published'
    BY <2>1, <2>6 DEF IInv, Published, State
  <2> QED
    BY <2>8, <2>9 DEF IInv
<1>4. CASE ApplyNext
  <2>1. PICK s \in page :
          /\ page' = page \ {s}
          /\ \/ row' = [row EXCEPT ![s.item] = applied(@, s)] /\ UNCHANGED <<lastPull, skipped>>
             \/ s.item \in Failing /\ skip(s.item, s) /\ UNCHANGED <<row, lastPull>>
             \/ rejects(row[s.item], s) /\ skip(s.item, s) /\ lastPull' = "rejected" /\ UNCHANGED row
    BY <1>4 DEF ApplyNext
  <2>2. UNCHANGED <<up, past, due, handling, receipts, cursor, pulling, next, relayed, crashes>>
    BY <1>4 DEF ApplyNext, sources, deliveries
  <2>3. s.item \in Item /\ Vouched(s.item, s) /\ s.rev \in 1..MaxRev
    BY CopiesVouched DEF IInv, TypeOK, Copies
  <2>4. RowsFollow'
    <3>1. CASE UNCHANGED row
      BY <1>1, <2>2, <3>1 DEF RowsFollow
    <3>2. CASE row' = [row EXCEPT ![s.item] = applied(@, s)]
      BY <1>1, <2>2, <2>3, <3>2, ApplyKeeps
    <3> QED
      BY <2>1, <3>1, <3>2
  <2>5. skipped' \subseteq Item \X (1..MaxRev)
    BY <2>1, <2>3 DEF skip, IInv, TypeOK
  <2>6. lastPull' \in {"none", "ok", "rejected", "failed"}
    BY <2>1 DEF IInv, TypeOK
  <2>7. LastSeq' = LastSeq
    BY <2>2 DEF LastSeq
  <2>8. TypeOK'
    BY <2>1, <2>2, <2>4, <2>5, <2>6, <2>7 DEF IInv, TypeOK, RowsFollow, Stored, Row
  <2>9. Published'
    BY <2>1, <2>2, <2>4 DEF IInv, Published, RowsFollow, State
  <2> QED
    BY <2>8, <2>9 DEF IInv
<1> QED
  BY <1>2, <1>3, <1>4 DEF Pull

LEMMA StutterKeeps ==
  ASSUME IInv, UNCHANGED vars
  PROVE  IInv'
<1>1. LastSeq' = LastSeq
  BY DEF LastSeq, vars, sources
<1> QED
  BY <1>1 DEF IInv, TypeOK, Published, State, vars, sources, deliveries, puller

LEMMA NextKeeps == IInv /\ [Next]_vars => IInv'
<1> SUFFICES ASSUME IInv, [Next]_vars PROVE IInv'
  OBVIOUS
<1>1. CASE Sources
  BY <1>1, SourcesAnnounce, AnnouncementKeeps DEF Sources, IInv
<1> QED
  BY <1>1, WebhookKeeps, PullKeeps, StutterKeeps DEF Next

LEMMA InitIInv == Init => IInv
<1> SUFFICES ASSUME Init PROVE IInv
  OBVIOUS
<1>1. up \in Upstream /\ \A i \in Item : up[i].rev = 0 /\ up[i].seq = 0 /\ ~up[i].removed
  BY BoundsAssumption DEF Init, Upstream
<1>2. LastSeq \in Nat
  BY <1>1, LastSeqIsLast DEF LastSeq
<1>3. TypeOK
  BY <1>1, <1>2, BoundsAssumption DEF Init, TypeOK, Upstream, Absent
<1>4. Published
  BY <1>1 DEF Init, Published, Absent
<1> QED
  BY <1>3, <1>4 DEF IInv

LEMMA AlwaysIInv == Spec => []IInv
BY InitIInv, NextKeeps, PTL DEF Spec

\* Rows, deliveries and the pull keep their shape, only what was stored is removed, and the cursor is
\* one Sources has given out.
THEOREM TypeCorrect == Spec => []TypeOK
<1>1. IInv => TypeOK
  BY DEF IInv
<1> QED
  BY <1>1, AlwaysIInv, PTL

-----------------------------------------------------------------------------
(* What a step does to the rows *)

\* A copy of a published state, or the payload of a published removal, which may carry no revision.
Applicable(i, s) ==
  \/ StateOf(s) \in past[i]
  \/ /\ s.removed = TRUE
     /\ \E p \in past[i] : p.removed /\ s.rev \in {0, p.rev}

LEMMA ApplicableVouched ==
  ASSUME IInv, NEW i \in Item, NEW s, Applicable(i, s)
  PROVE  Vouched(i, s)
<1>1. CASE StateOf(s) \in past[i]
  BY <1>1, PublishedVouched DEF IInv
<1>2. CASE s.removed = TRUE /\ \E p \in past[i] : p.removed /\ s.rev \in {0, p.rev}
  <2>1. PICK p \in past[i] : p.removed /\ s.rev \in {0, p.rev}
    BY <1>2
  <2>2. p \in Snapshot /\ p.rev <= up[i].rev /\ up[i].removed
    BY <2>1 DEF IInv, TypeOK, Published
  <2>3. p.rev \in Nat /\ up[i].rev \in Nat /\ s.rev \in 0..MaxRev
    BY <2>1, <2>2, BoundsAssumption DEF Snapshot, IInv, TypeOK
  <2>4. s.rev <= up[i].rev
    BY <2>1, <2>2, <2>3
  <2>5. s.removed \in BOOLEAN
    BY <1>2
  <2> QED
    BY <2>2, <2>3, <2>4, <2>5 DEF Vouched
<1> QED
  BY <1>1, <1>2 DEF Applicable

\* A step leaves the rows alone, or applies to one of them something Sources has published.
Applies(i, s) == Applicable(i, s) /\ row' = [row EXCEPT ![i] = applied(@, s)]

LEMMA RowStep ==
  ASSUME IInv, [Next]_vars
  PROVE  \/ UNCHANGED row
         \/ UNCHANGED <<up, past>> /\ \E i \in Item : \E s : Applies(i, s)
<1>1. ASSUME NEW i \in Item, Revise(i) \/ Withdraw(i) PROVE UNCHANGED row
  BY <1>1 DEF Revise, Withdraw, Announce
<1>2. ASSUME NEW e \in due, GiveUp(e) \/ Fetch(e) \/ FetchGone(e) PROVE UNCHANGED row
  BY <1>2 DEF GiveUp, Fetch, FetchGone
<1>3. ASSUME NEW e \in due, ReceiveRemoval(e), ~UNCHANGED row
      PROVE  UNCHANGED <<up, past>> /\ \E i \in Item : \E s : Applies(i, s)
  <2>1. PICK rev \in {0, e.rev} : once(e, e.item, [rev |-> rev, removed |-> TRUE])
    BY <1>3 DEF ReceiveRemoval
  <2> DEFINE s == [rev |-> rev, removed |-> TRUE]
  <2>2. row' = [row EXCEPT ![e.item] = applied(@, s)]
    BY <1>3, <2>1 DEF once
  <2>3. e.item \in Item /\ [rev |-> e.rev, removed |-> TRUE] \in past[e.item]
    BY <1>3 DEF ReceiveRemoval, IInv, TypeOK, Published, Event, EventState
  <2>4. Applicable(e.item, s)
    BY <2>3 DEF Applicable
  <2> HIDE DEF s
  <2> QED
    BY <1>3, <2>2, <2>3, <2>4 DEF ReceiveRemoval, sources, Applies
<1>4. ASSUME NEW h \in handling, ApplyFetched(h), ~UNCHANGED row
      PROVE  UNCHANGED <<up, past>> /\ \E i \in Item : \E s : Applies(i, s)
  <2>1. row' = [row EXCEPT ![h.event.item] = applied(@, h.copy)]
    BY <1>4 DEF ApplyFetched, once
  <2>2. h.event.item \in Item /\ Applicable(h.event.item, h.copy)
    BY DEF IInv, TypeOK, Published, Event, Applicable
  <2> QED
    BY <1>4, <2>1, <2>2 DEF ApplyFetched, sources, Applies
<1>5. ASSUME NEW h \in handling, HandlerFails(h) PROVE UNCHANGED row
  BY <1>5 DEF HandlerFails
<1>6. ASSUME StartPull \/ ReadPage \/ PullFails \/ PageDone \/ Crash PROVE UNCHANGED row
  BY <1>6 DEF StartPull, ReadPage, PullFails, PageDone, Crash
<1>7. ASSUME ApplyNext, ~UNCHANGED row
      PROVE  UNCHANGED <<up, past>> /\ \E i \in Item : \E s : Applies(i, s)
  <2>1. PICK s \in page : row' = [row EXCEPT ![s.item] = applied(@, s)]
    BY <1>7 DEF ApplyNext
  <2>2. s.item \in Item /\ Applicable(s.item, s)
    BY DEF IInv, TypeOK, Published, Copies, Applicable
  <2> QED
    BY <1>7, <2>1, <2>2 DEF ApplyNext, sources, Applies
<1>8. UNCHANGED vars => UNCHANGED row
  BY DEF vars
<1> QED
  BY <1>1, <1>2, <1>3, <1>4, <1>5, <1>6, <1>7, <1>8 DEF Next, Sources, Webhook, Pull

\* A skipped revision stays skipped.
LEMMA SkippedStays ==
  ASSUME [Next]_vars
  PROVE  skipped \subseteq skipped'
<1>1. ASSUME NEW i \in Item, Revise(i) \/ Withdraw(i) PROVE skipped \subseteq skipped'
  BY <1>1 DEF Revise, Withdraw, Announce
<1>2. ASSUME NEW e \in due, GiveUp(e) \/ Fetch(e) \/ FetchGone(e) \/ ReceiveRemoval(e)
      PROVE  skipped \subseteq skipped'
  BY <1>2 DEF GiveUp, Fetch, FetchGone, ReceiveRemoval, once, skip
<1>3. ASSUME NEW h \in handling, ApplyFetched(h) \/ HandlerFails(h) PROVE skipped \subseteq skipped'
  BY <1>3 DEF ApplyFetched, HandlerFails, once, skip
<1>4. ASSUME Pull \/ Crash PROVE skipped \subseteq skipped'
  BY <1>4 DEF Pull, StartPull, ReadPage, PullFails, ApplyNext, PageDone, Crash, skip
<1> QED
  BY <1>1, <1>2, <1>3, <1>4 DEF Next, Sources, Webhook, vars

\* Neither the rows nor Sources go back.
LEMMA Forward ==
  ASSUME IInv, [Next]_vars, NEW j \in Item
  PROVE  /\ row[j].rev <= row'[j].rev
         /\ up[j].removed => up'[j].removed
<1>1. row[j].rev \in Nat
  BY DEF IInv, TypeOK
<1>2. row[j].rev <= row'[j].rev
  <2>1. ASSUME NEW i \in Item, NEW s, Applies(i, s), UNCHANGED up PROVE row[j].rev <= row'[j].rev
    BY <2>1, RowsDo, ApplicableVouched, ApplyKeeps DEF Applies, IInv, TypeOK, Upstream
  <2> QED
    BY <1>1, <2>1, RowStep
<1>3. up[j].removed => up'[j].removed
  <2>1. CASE UNCHANGED up
    BY <2>1
  <2>2. ASSUME NEW i \in Item, Revise(i) \/ Withdraw(i) PROVE up[j].removed => up'[j].removed
    <3>1. PICK s, kind : Announcement(i, s, kind)
      BY <2>2, SourcesAnnounce DEF IInv
    <3>2. j = i \/ up'[j] = up[j]
      BY <3>1, AnnouncedItem DEF IInv
    <3> QED
      BY <3>1, <3>2 DEF Announcement
  <2>3. Webhook \/ Pull \/ Crash \/ UNCHANGED vars => UNCHANGED up
    BY DEF Webhook, GiveUp, Fetch, FetchGone, ReceiveRemoval, ApplyFetched, HandlerFails,
           Pull, StartPull, ReadPage, PullFails, ApplyNext, PageDone, Crash, vars, sources
  <2> QED
    BY <2>1, <2>2, <2>3 DEF Next, Sources
<1> QED
  BY <1>2, <1>3

-----------------------------------------------------------------------------
(* Acknowledged deliveries *)

\* What AckedIsApplied says of one delivery, and that a step leaves it true.
Settled(e) ==
  \/ row[e.item].rev >= e.rev \/ up[e.item].removed
  \/ \E rev \in e.rev..MaxRev : <<e.item, rev>> \in skipped

LEMMA SettledStays ==
  ASSUME IInv, [Next]_vars, NEW e \in Event, Settled(e)
  PROVE  Settled(e)'
<1>1. e.item \in Item /\ e.rev \in Nat
  BY DEF Event
<1>2. row[e.item].rev \in Nat /\ row'[e.item].rev \in Nat
  BY <1>1, NextKeeps DEF IInv, TypeOK
<1>3. /\ row[e.item].rev <= row'[e.item].rev
      /\ up[e.item].removed => up'[e.item].removed
  BY <1>1, Forward
<1>4. skipped \subseteq skipped'
  BY SkippedStays
<1>5. CASE row[e.item].rev >= e.rev
  BY <1>1, <1>2, <1>3, <1>5 DEF Settled
<1>6. CASE up[e.item].removed
  BY <1>3, <1>6 DEF Settled
<1>7. CASE \E rev \in e.rev..MaxRev : <<e.item, rev>> \in skipped
  BY <1>4, <1>7 DEF Settled
<1> QED
  BY <1>5, <1>6, <1>7 DEF Settled

\* A change whose delivery gets its receipt is applied in the same transaction, or has been
\* overtaken or rejected.
LEMMA ReceiptSettles ==
  ASSUME IInv, Next, NEW e \in receipts' \ receipts, e.kind = "changed"
  PROVE  Settled(e)'
<1>1. ASSUME NEW d \in due, FetchGone(d) PROVE Settled(e)'
  <2>1. e = d /\ up' = up /\ up[d.item].removed
    BY <1>1 DEF FetchGone, sources
  <2> QED
    BY <2>1 DEF Settled
<1>2. ASSUME NEW d \in due, ReceiveRemoval(d) PROVE FALSE
  BY <1>2 DEF ReceiveRemoval, once
<1>3. ASSUME NEW h \in handling, ApplyFetched(h) PROVE Settled(e)'
  <2> DEFINE i == h.event.item
             s == h.copy
  <2>1. e = h.event /\ up' = up /\ once(e, i, s)
    BY <1>3 DEF ApplyFetched, once, sources
  <2>2. /\ i \in Item /\ e.item = i /\ e.rev \in Nat
        /\ e.rev <= s.rev /\ Vouched(i, s)
    BY <2>1, CopiesVouched DEF IInv, TypeOK, Published, Event
  <2>3. row[i] \in Stored /\ (row[i].removed => up[i].removed) /\ row \in [Item -> Stored]
    BY <2>2, RowsDo DEF IInv, RowsFollow
  <2>4. s.rev \in 0..MaxRev /\ s.removed \in BOOLEAN /\ (s.removed => up[i].removed)
    BY <2>2 DEF Vouched
  <2> HIDE DEF i, s
  <2>5. CASE row' = [row EXCEPT ![i] = applied(@, s)]
    <3>1. row'[i] = applied(row[i], s)
      BY <2>2, <2>3, <2>5
    <3>2. /\ applied(row[i], s) \in Stored
          /\ ~s.removed => s.rev <= applied(row[i], s).rev \/ row[i].removed
      BY <2>3, <2>4, AppliedForward
    <3>3. up[i].removed \/ s.rev <= row'[i].rev
      BY <2>3, <2>4, <3>1, <3>2
    <3>4. row'[i].rev \in Nat /\ s.rev \in Nat
      BY <2>4, <3>1, <3>2 DEF Stored, Row
    <3>5. up[i].removed \/ e.rev <= row'[i].rev
      BY <2>2, <3>3, <3>4
    <3> QED
      BY <2>1, <2>2, <3>4, <3>5 DEF Settled
  <2>6. CASE skip(i, s)
    <3>1. s.rev \in e.rev..MaxRev /\ <<i, s.rev>> \in skipped'
      BY <2>2, <2>4, <2>6 DEF skip
    <3> QED
      BY <2>2, <3>1 DEF Settled
  <2> QED
    BY <2>1, <2>5, <2>6 DEF once
<1>4. ASSUME NEW d \in due, GiveUp(d) \/ Fetch(d) PROVE FALSE
  BY <1>4 DEF GiveUp, Fetch
<1>5. ASSUME NEW h \in handling, HandlerFails(h) PROVE FALSE
  BY <1>5 DEF HandlerFails
<1>6. ASSUME Sources \/ Pull \/ Crash PROVE FALSE
  BY <1>6 DEF Sources, Revise, Withdraw, Announce, Pull, StartPull, ReadPage, PullFails, ApplyNext,
              PageDone, Crash, deliveries
<1> QED
  BY <1>1, <1>2, <1>3, <1>4, <1>5, <1>6 DEF Next, Webhook

LEMMA AckedKeeps == IInv /\ AckedIsApplied /\ [Next]_vars => AckedIsApplied'
<1> SUFFICES ASSUME IInv, AckedIsApplied, [Next]_vars, NEW e \in receipts', e.kind = "changed"
             PROVE  Settled(e)'
  BY DEF AckedIsApplied, Settled
<1>1. CASE e \in receipts
  <2>1. Settled(e) /\ e \in Event
    BY <1>1 DEF AckedIsApplied, Settled, IInv, TypeOK
  <2> QED
    BY <2>1, SettledStays
<1>2. CASE e \notin receipts
  <2>1. Next
    BY <1>2 DEF vars, deliveries
  <2> QED
    BY <1>2, <2>1, ReceiptSettles
<1> QED
  BY <1>1, <1>2

\* No acknowledged delivery is lost: once a change is in the inbox, the stored row is at least as
\* new, unless the item was removed or the change rejected.
THEOREM NoAckedDeliveryLost == Spec => []AckedIsApplied
<1>1. Init => AckedIsApplied
  BY DEF Init, AckedIsApplied
<1> QED
  BY <1>1, AckedKeeps, AlwaysIInv, PTL DEF Spec

-----------------------------------------------------------------------------
(* The cursor and the page *)

Covered(i) == row[i] = State(i) \/ <<i, up[i].rev>> \in skipped

\* CursorCovers is not inductive alone: what the page in flight still brings belongs to it.
CInv == IInv /\ CursorCovers /\ PageCovers

\* Applying to a row what Sources vouches for leaves it alone where it is already current.
LEMMA CoveredStays ==
  ASSUME IInv, [Next]_vars, NEW i \in Item, up'[i] = up[i], ~up[i].removed, Covered(i)
  PROVE  Covered(i)'
<1>1. State(i)' = State(i)
  BY DEF State
<1>2. CASE row[i] = State(i)
  <2>1. ASSUME NEW j \in Item, NEW s, Applies(j, s) PROVE row'[i] = row[i]
    <3>1. CASE j = i
      <4>1. s.rev \in Nat /\ s.rev <= up[i].rev
        BY <2>1, <3>1, ApplicableVouched DEF Applies, Vouched
      <4>2. ~s.removed
        BY <2>1, <3>1, ApplicableVouched DEF Applies, Vouched
      <4>3. row[i].rev \in Nat /\ row[i].rev >= s.rev
        BY <1>2, <4>1 DEF State, IInv, TypeOK
      <4>4. applied(row[i], s) = row[i]
        BY <4>2, <4>3 DEF applied
      <4> QED
        BY <2>1, <3>1, <4>4 DEF Applies, IInv, TypeOK
    <3>2. CASE j # i
      BY <2>1, <3>2 DEF Applies, IInv, TypeOK
    <3> QED
      BY <3>1, <3>2
  <2>2. row'[i] = row[i]
    BY <2>1, RowStep
  <2> QED
    BY <1>1, <1>2, <2>2 DEF Covered
<1>3. CASE <<i, up[i].rev>> \in skipped
  BY <1>3, SkippedStays DEF Covered
<1> QED
  BY <1>2, <1>3 DEF Covered

\* A change in Sources takes an item past the cursor and past the page.
LEMMA SourcesCover ==
  ASSUME CInv, Sources
  PROVE  CursorCovers' /\ PageCovers'
<1>0. PICK i \in Item : \E s, kind : Announcement(i, s, kind)
  BY SourcesAnnounce DEF Sources, CInv, IInv
<1>1. PICK s, kind : Announcement(i, s, kind)
  BY <1>0
<1>2. /\ up'[i].seq \in Nat /\ up'[i].seq > cursor /\ up'[i].seq > next
      /\ \A j \in Item \ {i} : up'[j] = up[j]
  BY <1>1, AnnouncedItem DEF CInv, IInv, TypeOK
<1>3. UNCHANGED <<row, cursor, pulling, page, next, skipped>>
  BY <1>1 DEF Announcement, Announce, puller
<1>4. cursor \in Nat /\ next \in Nat
  <2>1. LastSeq \in Nat
    BY <1>1, AnnouncedItem DEF CInv, IInv
  <2> QED
    BY <2>1 DEF CInv, IInv, TypeOK
<1>5. \A j \in Item : up'[j].seq <= cursor \/ up'[j].seq <= next => up'[j] = up[j]
  BY <1>2, <1>4
<1>6. \A j \in Item : up'[j] = up[j] => State(j)' = State(j) /\ Copy(j)' = Copy(j)
  BY DEF State, Copy
<1>7. CursorCovers'
  BY <1>3, <1>5, <1>6 DEF CInv, CursorCovers
<1>8. PageCovers'
  BY <1>3, <1>5, <1>6 DEF CInv, PageCovers
<1> QED
  BY <1>7, <1>8

\* The page read is everything between the cursor and where it moves next.
LEMMA ReadCovers ==
  ASSUME CInv, ReadPage
  PROVE  PageCovers'
<1>1. up \in Upstream /\ cursor \in Nat
  <2>1. up \in Upstream
    BY DEF CInv, IInv, TypeOK, Upstream
  <2>2. LastSeq \in Nat
    BY <2>1, LastSeqIsLast DEF LastSeq
  <2> QED
    BY <2>1, <2>2 DEF CInv, IInv, TypeOK
<1>2. /\ page' = {Copy(i) : i \in Batch} /\ next' = Max({cursor} \cup {up[i].seq : i \in Batch})
      /\ UNCHANGED <<up, row, skipped>>
  BY DEF ReadPage, sources
<1>3. \A i \in Changed : up[i].seq <= next' => i \in Batch
  BY <1>1, <1>2, PageReaches
<1>4. ASSUME NEW i \in Item, up[i].seq <= next', ~up[i].removed
      PROVE  Covered(i) \/ Copy(i) \in page'
  <2>1. CASE up[i].seq <= cursor
    BY <1>4, <2>1 DEF CInv, CursorCovers, Covered
  <2>2. CASE ~(up[i].seq <= cursor)
    <3>1. i \in Changed
      BY <1>1, <2>2 DEF Changed, Upstream
    <3> QED
      BY <1>2, <1>3, <1>4, <3>1
  <2> QED
    BY <2>1, <2>2
<1>5. \A i \in Item : State(i)' = State(i) /\ Copy(i)' = Copy(i)
  BY <1>2 DEF State, Copy
<1> QED
  BY <1>2, <1>4, <1>5 DEF PageCovers, Covered

\* An item of the page is applied, or skipped.
LEMMA ApplyCovers ==
  ASSUME CInv, ApplyNext
  PROVE  PageCovers'
<1>1. PICK s \in page :
        /\ page' = page \ {s}
        /\ \/ row' = [row EXCEPT ![s.item] = applied(@, s)] /\ UNCHANGED <<lastPull, skipped>>
           \/ s.item \in Failing /\ skip(s.item, s) /\ UNCHANGED <<row, lastPull>>
           \/ rejects(row[s.item], s) /\ skip(s.item, s) /\ lastPull' = "rejected" /\ UNCHANGED row
  BY DEF ApplyNext
<1>2. UNCHANGED <<up, next>> /\ pulling = "applying"
  BY DEF ApplyNext, sources
<1>3. \A i \in Item : State(i)' = State(i) /\ Copy(i)' = Copy(i)
  BY <1>2 DEF State, Copy
<1>4. ASSUME NEW i \in Item, Copy(i) = s, ~up[i].removed PROVE Covered(i)'
  <2>1. s.item = i /\ s.rev = up[i].rev /\ s.removed = up[i].removed
    BY <1>4 DEF Copy
  <2>2. CASE row' = [row EXCEPT ![s.item] = applied(@, s)]
    <3>1. row'[i] = applied(row[i], s)
      BY <2>1, <2>2 DEF CInv, IInv, TypeOK
    <3>2. row[i] \in Row /\ row[i].rev <= up[i].rev /\ up[i].rev \in 0..MaxRev /\ ~row[i].removed
      BY <1>4, RowsDo DEF CInv, IInv, RowsFollow, Stored, TypeOK
    <3>3. CASE row[i].rev >= s.rev
      <4>1. applied(row[i], s) = row[i]
        BY <1>4, <2>1, <3>3 DEF applied
      <4>2. row[i].rev = up[i].rev
        BY <2>1, <3>2, <3>3, BoundsAssumption DEF Row
      <4>3. row[i].removed = up[i].removed
        BY <1>4, <3>2 DEF Row, CInv, IInv, TypeOK
      <4>4. row[i] = [rev |-> row[i].rev, removed |-> row[i].removed]
        BY <3>2 DEF Row
      <4> QED
        BY <1>3, <3>1, <4>1, <4>2, <4>3, <4>4 DEF Covered, State
    <3>4. CASE ~(row[i].rev >= s.rev)
      <4>1. s.rev > row[i].rev
        BY <2>1, <3>2, <3>4, BoundsAssumption DEF Row
      <4>2. applied(row[i], s) = [rev |-> s.rev, removed |-> s.removed]
        BY <1>4, <2>1, <3>2, <3>4, <4>1 DEF applied
      <4> QED
        BY <1>3, <2>1, <3>1, <4>2 DEF Covered, State
    <3> QED
      BY <3>3, <3>4
  <2>3. CASE skip(s.item, s)
    BY <1>2, <2>1, <2>3 DEF skip, Covered
  <2> QED
    BY <1>1, <2>2, <2>3
<1>5. ASSUME NEW i \in Item, up[i].seq <= next, ~up[i].removed
      PROVE  Covered(i)' \/ Copy(i) \in page'
  <2>1. Covered(i) \/ Copy(i) \in page
    BY <1>2, <1>5 DEF CInv, PageCovers, Covered
  <2>2. CASE Covered(i)
    <3>1. Next
      BY DEF Next, Pull
    <3> QED
      BY <1>2, <1>5, <2>2, <3>1, CoveredStays DEF CInv
  <2>3. CASE Copy(i) \in page
    BY <1>1, <1>4, <1>5, <2>3
  <2> QED
    BY <2>1, <2>2, <2>3
<1> QED
  BY <1>2, <1>3, <1>5 DEF PageCovers, Covered

LEMMA CoversKeep == CInv /\ [Next]_vars => CInv'
<1> SUFFICES ASSUME CInv, [Next]_vars PROVE CInv'
  OBVIOUS
<1>1. IInv'
  BY NextKeeps DEF CInv
<1>2. CASE Sources
  BY <1>1, <1>2, SourcesCover DEF CInv
<1>3. CASE ~Sources
  <2>1. UNCHANGED up
    BY <1>3 DEF Next, Webhook, GiveUp, Fetch, FetchGone, ReceiveRemoval, ApplyFetched, HandlerFails,
           Pull, StartPull, ReadPage, PullFails, ApplyNext, PageDone, Crash, vars, sources
  <2>2. \A i \in Item : ~up[i].removed /\ Covered(i) => Covered(i)'
    BY <2>1, CoveredStays DEF CInv
  <2>3. CursorCovers'
    <3>1. cursor' = cursor \/ (cursor' = next /\ pulling = "applying" /\ page = {})
      BY <1>3 DEF Next, Webhook, GiveUp, Fetch, FetchGone, ReceiveRemoval, ApplyFetched,
           HandlerFails, Pull, StartPull, ReadPage, PullFails, ApplyNext, PageDone, Crash, vars
    <3>2. \A i \in Item : up[i].seq <= cursor' /\ ~up[i].removed => Covered(i)
      BY <3>1 DEF CInv, CursorCovers, PageCovers, Covered
    <3> QED
      BY <2>1, <2>2, <3>2 DEF CursorCovers, Covered
  <2>4. PageCovers'
    <3>1. CASE ReadPage
      BY <3>1, ReadCovers
    <3>2. CASE ApplyNext
      BY <3>2, ApplyCovers
    <3>3. CASE ~ReadPage /\ ~ApplyNext
      <4>1. pulling' # "applying" \/ UNCHANGED <<pulling, page, next>>
        BY <1>3, <3>3 DEF Next, Webhook, GiveUp, Fetch, FetchGone, ReceiveRemoval, ApplyFetched,
             HandlerFails, Pull, StartPull, PullFails, PageDone, Crash, vars, puller
      <4>2. \A i \in Item : Copy(i)' = Copy(i)
        BY <2>1 DEF Copy
      <4>3. CASE UNCHANGED <<pulling, page, next>> /\ pulling = "applying"
        <5>1. \A i \in Item : up[i].seq <= next /\ ~up[i].removed => Covered(i) \/ Copy(i) \in page
          BY <4>3 DEF CInv, PageCovers, Covered
        <5> QED
          BY <2>1, <2>2, <4>2, <4>3, <5>1 DEF PageCovers, Covered
      <4> QED
        BY <4>1, <4>3 DEF PageCovers
    <3> QED
      BY <3>1, <3>2, <3>3
  <2> QED
    BY <1>1, <2>3, <2>4 DEF CInv
<1> QED
  BY <1>2, <1>3

\* The cursor never runs ahead of what is stored: a change it has passed is in the store or was
\* skipped and logged.
THEOREM CursorNeverAhead == Spec => []CursorCovers
<1>1. Init => CInv
  <2> SUFFICES ASSUME Init PROVE CInv
    OBVIOUS
  <2>1. CursorCovers /\ PageCovers
    BY DEF Init, CursorCovers, PageCovers, State, Absent
  <2> QED
    BY <2>1, InitIInv DEF CInv
<1>2. CInv => CursorCovers
  BY DEF CInv
<1> QED
  BY <1>1, <1>2, CoversKeep, PTL DEF Spec

-----------------------------------------------------------------------------
(* The pull's announcements *)

\* After a run that did not fail, nothing is relayed yet, unless the run is a rejection.
Relayed ==
  /\ relayed \in Nat
  /\ lastPull \in {"none", "ok"} => relayed = 0
  /\ lastPull = "rejected" => Untitled /\ skipped # {}
  /\ lastPull \in {"none", "ok", "rejected", "failed"}
  /\ OneEventPerOutage

LEMMA RelayedKeeps == ASSUME Relayed, [Next]_vars PROVE Relayed'
<1>1. CASE PullFails
  BY <1>1 DEF PullFails, Relayed, relays, OneEventPerOutage
<1>2. skipped # {} => skipped' # {}
  BY DEF Next, Sources, Revise, Withdraw, Announce, Webhook, GiveUp, Fetch, FetchGone, ReceiveRemoval,
     ApplyFetched, once, skip, HandlerFails, Pull, StartPull, ReadPage, PullFails, ApplyNext, PageDone,
     Crash, vars
<1>3. CASE PageDone
  BY <1>3 DEF PageDone, Relayed, OneEventPerOutage
<1>4. CASE ApplyNext
  <2>1. relayed' = relayed /\ (lastPull' # lastPull => lastPull' = "rejected" /\ Untitled /\ skipped' # {})
    BY <1>4 DEF ApplyNext, rejects, skip
  <2> QED
    BY <1>2, <2>1 DEF Relayed, OneEventPerOutage
<1>5. CASE Sources \/ Webhook \/ StartPull \/ ReadPage \/ Crash \/ UNCHANGED vars
  <2>1. UNCHANGED <<lastPull, relayed>>
    BY <1>5 DEF Sources, Revise, Withdraw, Announce, Webhook, GiveUp, Fetch, FetchGone,
         ReceiveRemoval, ApplyFetched, HandlerFails, StartPull, ReadPage, Crash, vars, puller
  <2> QED
    BY <1>2, <2>1 DEF Relayed, OneEventPerOutage
<1> QED
  BY <1>1, <1>3, <1>4, <1>5 DEF Next, Pull

\* An outage of the pull is relayed once, however many retries it takes, unless an item is rejected: a
\* rejection between two failures is recorded as a run of the pull and lets the next one announce the
\* outage again.
THEOREM OutageRelayedOnce == Spec => []OneEventPerOutage
<1>1. Init => Relayed
  BY DEF Init, Relayed, OneEventPerOutage
<1>2. Relayed /\ [Next]_vars => Relayed'
  BY RelayedKeeps
<1>3. Relayed => OneEventPerOutage
  BY DEF Relayed
<1> QED
  BY <1>1, <1>2, <1>3, PTL DEF Spec

-----------------------------------------------------------------------------
(* The store mirrors Sources *)

LEMMA StoreMirrors ==
  ASSUME IInv, UNCHANGED past, NEW i \in Item, NEW s, Applies(i, s)
  PROVE  UNCHANGED row \/ Abstract!Advance(i) \/ Abstract!Withdraw(i)
<1> DEFINE r == row[i]
<1>1. row' = [row EXCEPT ![i] = applied(r, s)] /\ row' \in [Item -> Row]
  <2>1. Vouched(i, s) /\ r \in Stored
    BY ApplicableVouched, RowsDo DEF Applies, IInv, RowsFollow
  <2>2. applied(r, s) \in Stored
    BY <2>1, AppliedForward DEF Vouched
  <2> QED
    BY <2>2 DEF Applies, IInv, TypeOK, Stored, Row
<1>2. CASE applied(r, s) = r
  BY <1>1, <1>2 DEF IInv, TypeOK
<1>3. CASE applied(r, s) # r /\ ~s.removed
  <2>1. ~r.removed /\ s.rev > r.rev /\ applied(r, s) = [rev |-> s.rev, removed |-> s.removed]
    <3>1. s.rev \in Nat /\ r.rev \in Nat
      BY ApplicableVouched DEF Vouched, Applies, IInv, TypeOK
    <3>2. ~r.removed /\ ~(r.rev >= s.rev)
      BY <1>3 DEF applied
    <3>3. s.rev > r.rev
      BY <3>1, <3>2
    <3> QED
      BY <1>3, <3>2, <3>3 DEF applied
  <2>2. StateOf(s) \in past[i] /\ StateOf(s).rev = s.rev /\ StateOf(s).removed = s.removed
    BY <1>3 DEF Applies, Applicable, StateOf
  <2>3. row' = [row EXCEPT ![i] = StateOf(s)]
    BY <1>1, <2>1 DEF StateOf
  <2> QED
    BY <1>3, <2>1, <2>2, <2>3 DEF Abstract!Advance
<1>4. CASE applied(r, s) # r /\ s.removed
  <2> DEFINE new == IF s.rev > r.rev THEN s.rev ELSE r.rev
  <2>1. s.rev \in Nat /\ s.removed = TRUE /\ r.rev \in Nat
    BY <1>4, ApplicableVouched DEF Vouched, Applies, IInv, TypeOK
  <2>2. ~r.removed /\ r.rev > 0 /\ applied(r, s) = [rev |-> new, removed |-> TRUE]
    BY <1>4, <2>1 DEF applied
  <2>3. PICK p \in past[i] : p.removed /\ s.rev \in {0, p.rev}
    BY <2>1 DEF Applies, Applicable, StateOf
  <2>4. new >= r.rev /\ new \in {r.rev, p.rev}
    BY <2>1, <2>2, <2>3
  <2> HIDE DEF new
  <2>5. row' = [row EXCEPT ![i] = [rev |-> new, removed |-> TRUE]]
    BY <1>1, <2>2
  <2>6. Abstract!Withdraw(i)
    BY <2>2, <2>3, <2>4, <2>5 DEF Abstract!Withdraw
  <2> QED
    BY <2>6
<1> QED
  BY <1>2, <1>3, <1>4

LEMMA StepMirrors ==
  ASSUME IInv, [Next]_vars
  PROVE  [Abstract!Next]_<<past, row>>
<1>1. CASE Sources
  <2>1. PICK i \in Item : \E s, kind : Announcement(i, s, kind)
    BY <1>1, SourcesAnnounce DEF Sources, IInv
  <2>2. PICK s, kind : Announcement(i, s, kind)
    BY <2>1
  <2>3. Abstract!Publish(i)
    BY <2>2 DEF Announcement, Announce, Abstract!Publish
  <2> QED
    BY <2>3 DEF Abstract!Next
<1>2. CASE ~Sources
  <2>1. UNCHANGED past
    BY <1>2 DEF Next, Webhook, GiveUp, Fetch, FetchGone, ReceiveRemoval, ApplyFetched, HandlerFails,
           Pull, StartPull, ReadPage, PullFails, ApplyNext, PageDone, Crash, vars, sources
  <2> QED
    BY <2>1, RowStep, StoreMirrors DEF Abstract!Next
<1> QED
  BY <1>1, <1>2

\* Whatever happens on the way, the store only mirrors states Sources has published, forward, and a
\* removal is final: Ingest implements Mirror.
THEOREM StoreImplementsMirror == Spec => ImplementsMirror
<1>1. Init => Abstract!Init
  BY DEF Init, Abstract!Init, Absent, Abstract!Absent
<1>2. IInv /\ [Next]_vars => [Abstract!Next]_<<past, row>>
  BY StepMirrors
<1> QED
  BY <1>1, <1>2, AlwaysIInv, PTL DEF Spec, ImplementsMirror, Abstract!Spec
=============================================================================

--------------------------- MODULE ClustersProofs ---------------------------
(* Proofs about Clusters, for every set of reports, words and outlets and every bound. *)
EXTENDS Clusters, FiniteSetTheorems, SequenceTheorems, WellFoundedInduction, TLAPS

-----------------------------------------------------------------------------
(* Numbers *)

\* A set of row numbers has a greatest.
LEMMA GreatestNumber ==
  ASSUME NEW n \in Nat, NEW S \in SUBSET (0..n), S # {}
  PROVE  \E k \in S : \A j \in S : j <= k
<1> DEFINE after(m) == {k \in S : k > m}
           T == {after(m) : m \in S}
           R == StrictSubsetOrdering(S)
<1>1. IsFiniteSet(S) /\ S \subseteq Nat
  <2>1. IsFiniteSet(0..n) /\ 0..n \subseteq Nat
    BY FS_Interval
  <2> QED
    BY <2>1, FS_Subset
<1>2. PICK g \in S : \A m \in S : ~(<<after(m), after(g)>> \in R)
  <2>1. T \subseteq FiniteSubsetsOf(S) /\ T # {}
    <3>1. \A m \in S : after(m) \in FiniteSubsetsOf(S)
      BY <1>1, FS_Subset DEF FiniteSubsetsOf
    <3> QED
      BY <3>1
  <2>2. PICK x \in T : \A y \in T : ~(<<y, x>> \in R)
    <3> HIDE DEF T, R
    <3>1. IsWellFoundedOn(R, FiniteSubsetsOf(S))
      BY <1>1, FS_StrictSubsetOrderingWellFounded DEF R
    <3> QED
      BY <2>1, <3>1, WFMin
  <2> QED
    BY <2>2
<1>3. ASSUME NEW k \in S, k > g PROVE FALSE
  <2>1. k \in Nat /\ g \in Nat /\ S \subseteq Nat
    BY <1>1
  <2>2. after(k) \subseteq after(g)
    <3> SUFFICES ASSUME NEW m \in S, m > k PROVE m > g
      OBVIOUS
    <3>1. m \in Nat
      BY <2>1
    <3> QED
      BY <1>3, <2>1, <3>1
  <2>3. k \in after(g) /\ k \notin after(k)
    BY <1>3, <2>1
  <2> QED
    BY <1>2, <2>2, <2>3 DEF StrictSubsetOrdering
<1> QED
  BY <1>1, <1>3

\* And a least.
LEMMA LeastNumber ==
  ASSUME NEW n \in Nat, NEW S \in SUBSET (0..n), S # {}
  PROVE  \E k \in S : \A j \in S : k <= j
<1> DEFINE T == {n - k : k \in S}
<1>1. T \in SUBSET (0..n) /\ T # {}
  <2>1. \A k \in S : n - k \in 0..n
    OBVIOUS
  <2>2. T # {}
    OBVIOUS
  <2> QED
    BY <2>1, <2>2
<1>2. PICK g \in T : \A j \in T : j <= g
  <2> HIDE DEF T
  <2> QED
    BY <1>1, GreatestNumber
<1>3. PICK k \in S : g = n - k
  OBVIOUS
<1>4. \A j \in S : n - j <= n - k
  BY <1>2, <1>3
<1> QED
  BY <1>4

-----------------------------------------------------------------------------
(* Following merges *)

\* An open cluster is where its items are: resolve stops at once.
LEMMA OpenResolves ==
  ASSUME NEW c \in Cluster, status[c] = "open"
  PROVE  resolve(c) = c
<1> DEFINE step(d) == IF status[d] = "merged" THEN into[d] ELSE d
           follow == CHOOSE f : f = [n \in 0..Hops |-> IF n = 0 THEN c ELSE step(f[n - 1])]
<1>1. Hops \in Nat
  BY BoundsAssumption DEF Hops
<1>2. resolve(c) = follow[Hops]
  BY DEF resolve
<1>3. follow = [n \in 0..Hops |-> IF n = 0 THEN c ELSE step(follow[n - 1])]
  <2> DEFINE stays == [n \in 0..Hops |-> c]
  <2>1. \A n \in 0..Hops : n # 0 => stays[n - 1] = c
    BY <1>1
  <2>2. stays = [n \in 0..Hops |-> IF n = 0 THEN c ELSE step(stays[n - 1])]
    BY <2>1
  <2> QED
    BY <2>2
<1>4. follow[0] = c /\ \A n \in 1..Hops : follow[n] = step(follow[n - 1])
  <2> HIDE DEF follow
  <2> QED
    BY <1>1, <1>3
<1> DEFINE Away == {n \in 0..Hops : follow[n] # c}
<1>5. Away = {}
  <2> SUFFICES ASSUME Away # {} PROVE FALSE
    OBVIOUS
  <2> HIDE DEF follow
  <2>1. PICK n \in Away : \A j \in Away : n <= j
    BY <1>1, LeastNumber
  <2>2. n # 0 /\ n - 1 \in 0..Hops /\ n - 1 \notin Away
    BY <1>1, <1>4, <2>1
  <2>3. follow[n - 1] = c
    BY <2>2
  <2> QED
    BY <1>1, <1>4, <2>1, <2>2, <2>3
<1> QED
  BY <1>1, <1>2, <1>5

-----------------------------------------------------------------------------
(* The inductive invariant *)

Placed(i) == at[i] # NoCluster

\* Every placed item is in an open cluster.
InOpen == \A i \in Item : Placed(i) => at[i] \in Cluster /\ status[at[i]] = "open"

\* What names a report names one that is placed: duplicates their original, the removed, the audit,
\* whose rows are between two clusters.
Known ==
  /\ \A i \in Item : original[original[i]] = original[i]
  /\ \A i \in Item : IF Placed(i) THEN Placed(original[i]) ELSE original[i] = i
  /\ \A i \in removed : Placed(i)
  /\ \A k \in DOMAIN audit : \A i \in audit[k].items : Placed(i)
  /\ \A k \in DOMAIN audit : audit[k].cluster # audit[k].other

\* The shapes of the tables; a regrouping with groups left knows its cluster.
Shapes ==
  /\ status \in [Cluster -> Statuses]
  /\ into \in [Cluster -> Cluster \cup {NoCluster}]
  /\ at \in [Item -> Cluster \cup {NoCluster}]
  /\ removed \subseteq Item
  /\ original \in [Item -> Item]
  /\ core \in [Cluster -> SUBSET Item]
  /\ audit \in Seq(AuditRow)
  /\ job \in [from : Cluster \cup {NoCluster}, groups : SUBSET SUBSET Item]
  /\ job.groups # {} => job.from \in Cluster
  /\ home \in [Item -> Cluster \cup {NoCluster}]

IInv == Shapes /\ InOpen /\ Known

LEMMA InvTyped == IInv => TypeOK
BY DEF IInv, Shapes, Known, TypeOK

\* Clusters are numbered from one.
LEMMA ClusterNumbers == Cluster \subseteq Nat \ {NoCluster}
BY BoundsAssumption DEF Cluster, NoCluster

LEMMA InitInv == Init => IInv
<1> SUFFICES ASSUME Init PROVE IInv
  OBVIOUS
<1>1. <<>> \in Seq(AuditRow) /\ DOMAIN <<>> = {}
  OBVIOUS
<1>2. job \in [from : Cluster \cup {NoCluster}, groups : SUBSET SUBSET Item] /\ job.groups = {}
  BY DEF Init, Idle
<1>3. Shapes
  BY <1>1, <1>2 DEF Init, Shapes, Statuses
<1>4. InOpen /\ Known
  BY <1>1 DEF Init, InOpen, Known, Placed
<1> QED
  BY <1>3, <1>4 DEF IInv

-----------------------------------------------------------------------------
(* Audit rows *)

\* Two rows that say the same, whether reversed since or not.
SameRow(a, b) ==
  a.action = b.action /\ a.cluster = b.cluster /\ a.other = b.other /\ a.items = b.items

\* Where a row of this action put its items.
Target(action, c, d) == IF action \in {"split", "reverse_merge"} THEN d ELSE c

\* An operation is audited after those before it.
LEMMA RowRecorded ==
  ASSUME audit \in Seq(AuditRow), NEW action \in Actions, NEW c \in Cluster, NEW d \in Cluster,
         NEW S \in SUBSET Item
  PROVE  LET rows == recordAudit(action, c, d, S) IN
         /\ rows \in Seq(AuditRow) /\ Len(rows) = Len(audit) + 1
         /\ \A k \in DOMAIN audit : rows[k] = audit[k]
         /\ rows[Len(audit) + 1] =
              [action |-> action, cluster |-> c, other |-> d, items |-> S, reversed |-> FALSE]
<1> DEFINE row == [action |-> action, cluster |-> c, other |-> d, items |-> S, reversed |-> FALSE]
<1>1. row \in AuditRow
  BY DEF AuditRow
<1>2. recordAudit(action, c, d, S) = Append(audit, row)
  BY DEF recordAudit
<1> QED
  <2> HIDE DEF row
  <2>1. /\ Append(audit, row) \in Seq(AuditRow) /\ Len(Append(audit, row)) = Len(audit) + 1
        /\ \A k \in DOMAIN audit : Append(audit, row)[k] = audit[k]
        /\ Append(audit, row)[Len(audit) + 1] = row
    BY <1>1
  <2> QED
    BY <1>2, <2>1 DEF row

\* Marking a row reversed changes nothing else that the rows say.
LEMMA RowReversed ==
  ASSUME NEW rows \in Seq(AuditRow), NEW k \in DOMAIN rows
  PROVE  LET new == Reversed(rows, k) IN
         /\ new \in Seq(AuditRow) /\ Len(new) = Len(rows)
         /\ \A j \in DOMAIN rows : SameRow(new[j], rows[j])
         /\ \A j \in DOMAIN rows \ {k} : new[j] = rows[j]
<1> DEFINE new == [rows EXCEPT ![k].reversed = TRUE]
<1>1. /\ DOMAIN new = DOMAIN rows
      /\ new[k] = [rows[k] EXCEPT !.reversed = TRUE]
      /\ \A j \in DOMAIN rows \ {k} : new[j] = rows[j]
  OBVIOUS
<1>2. rows[k] \in AuditRow
  OBVIOUS
<1>3. new[k] \in AuditRow /\ SameRow(new[k], rows[k])
  BY <1>1, <1>2 DEF AuditRow, SameRow
<1>4. \A j \in DOMAIN rows : new[j] \in AuditRow /\ SameRow(new[j], rows[j])
  BY <1>1, <1>3 DEF SameRow
<1>5. new \in Seq(AuditRow) /\ Len(new) = Len(rows)
  <2> HIDE DEF new
  <2>1. DOMAIN new = 1..Len(rows) /\ Len(rows) \in Nat
    BY <1>1
  <2>2. new \in [1..Len(rows) -> AuditRow]
    <3>1. new = [j \in DOMAIN new |-> new[j]]
      BY DEF new
    <3> QED
      BY <1>4, <2>1, <3>1
  <2> QED
    BY <2>1, <2>2
<1> QED
  BY <1>1, <1>4, <1>5 DEF Reversed

\* A row of the audit has the shape of one.
LEMMA RowTyped ==
  ASSUME IInv, NEW k \in DOMAIN audit
  PROVE  /\ audit[k].action \in Actions
         /\ audit[k].cluster \in Cluster /\ audit[k].other \in Cluster /\ audit[k].cluster # audit[k].other
         /\ audit[k].items \in SUBSET Item /\ \A i \in audit[k].items : Placed(i)
<1>1. audit[k] \in AuditRow
  BY DEF IInv, Shapes
<1> QED
  BY <1>1 DEF AuditRow, IInv, Known

-----------------------------------------------------------------------------
(* What an operation of an editor moves *)

\* S is moved where the action puts it, and the newest audit row says so.
MovesItems(S, action, c, d) ==
  /\ action \in Actions /\ c \in Cluster /\ d \in Cluster /\ c # d
  /\ S \in SUBSET Item /\ \A i \in S : Placed(i)
  /\ at' = Moved(S, Target(action, c, d))
  /\ audit' \in Seq(AuditRow) /\ Len(audit') = Len(audit) + 1
  /\ \A k \in DOMAIN audit : SameRow(audit'[k], audit[k])
  /\ LET new == audit'[Len(audit) + 1] IN
       new.action = action /\ new.cluster = c /\ new.other = d /\ new.items = S
  /\ UNCHANGED <<removed, original, home>>

\* An audited operation moves what its row says.
LEMMA RecordedMoves ==
  ASSUME IInv, NEW action \in Actions, NEW c \in Cluster, NEW d \in Cluster, NEW S \in SUBSET Item, c # d,
         \A i \in S : Placed(i), at' = Moved(S, Target(action, c, d)),
         audit' = recordAudit(action, c, d, S), UNCHANGED <<removed, original, home>>
  PROVE  MovesItems(S, action, c, d)
<1>1. audit \in Seq(AuditRow)
  BY DEF IInv, Shapes
<1>2. /\ audit' \in Seq(AuditRow) /\ Len(audit') = Len(audit) + 1
      /\ \A k \in DOMAIN audit : audit'[k] = audit[k]
      /\ audit'[Len(audit) + 1] =
           [action |-> action, cluster |-> c, other |-> d, items |-> S, reversed |-> FALSE]
  BY <1>1, RowRecorded
<1>3. \A k \in DOMAIN audit : SameRow(audit'[k], audit[k])
  BY <1>2 DEF SameRow
<1>4. LET new == audit'[Len(audit) + 1] IN
        new.action = action /\ new.cluster = c /\ new.other = d /\ new.items = S
  BY <1>2
<1> QED
  BY <1>2, <1>3, <1>4 DEF MovesItems

LEMMA MergeMoves ==
  ASSUME IInv, NEW c \in Cluster, NEW d \in Cluster, merge(c, d)
  PROVE  MovesItems(members(d), "merge", c, d)
<1>1. audit' = recordAudit("merge", c, d, members(d)) /\ c # d /\ at' = Moved(members(d), c)
      /\ UNCHANGED <<removed, original, home>>
  BY DEF merge, mergedItems
<1>2. members(d) \in SUBSET Item /\ \A i \in members(d) : Placed(i)
  BY ClusterNumbers DEF members, Placed
<1>3. Target("merge", c, d) = c /\ "merge" \in Actions
  BY DEF Target, Actions
<1> QED
  BY <1>1, <1>2, <1>3, RecordedMoves

LEMMA SplitMoves ==
  ASSUME IInv, NEW c \in Cluster, NEW S, NEW new \in Cluster, splitOff(c, S, new)
  PROVE  MovesItems(S, "split", c, new)
<1>1. audit' = recordAudit("split", c, new, S) /\ at' = Moved(S, new) /\ UNCHANGED <<removed, original, home>>
  BY DEF splitOff
<1>2. c # new
  BY DEF splitOff, mustOpen, isNext
<1>3. S \in SUBSET Item /\ \A i \in S : Placed(i)
  BY ClusterNumbers DEF splitOff, members, Placed
<1>4. Target("split", c, new) = new /\ "split" \in Actions
  BY DEF Target, Actions
<1> QED
  BY <1>1, <1>2, <1>3, <1>4, RecordedMoves

\* A reversal is audited, and the row it reverses stays.
LEMMA ReversalRows ==
  ASSUME IInv, NEW action \in Actions, NEW S \in SUBSET Item, NEW k \in DOMAIN audit,
         audit' = reversalRow(action, audit[k], S, k)
  PROVE  /\ audit' \in Seq(AuditRow) /\ Len(audit') = Len(audit) + 1
         /\ \A j \in DOMAIN audit : SameRow(audit'[j], audit[j])
         /\ \A j \in DOMAIN audit \ {k} : audit'[j] = audit[j]
         /\ LET new == audit'[Len(audit) + 1] IN
              /\ new.action = action /\ new.cluster = audit[k].cluster
              /\ new.other = audit[k].other /\ new.items = S
<1> DEFINE rows == recordAudit(action, audit[k].cluster, audit[k].other, S)
<1>1. audit \in Seq(AuditRow) /\ audit[k].cluster \in Cluster /\ audit[k].other \in Cluster
  BY RowTyped DEF IInv, Shapes
<1>2. /\ rows \in Seq(AuditRow) /\ Len(rows) = Len(audit) + 1
      /\ \A j \in DOMAIN audit : rows[j] = audit[j]
      /\ rows[Len(audit) + 1] =
           [action |-> action, cluster |-> audit[k].cluster, other |-> audit[k].other, items |-> S,
            reversed |-> FALSE]
  BY <1>1, RowRecorded
<1>3. audit' = Reversed(rows, k)
  BY DEF reversalRow
<1> HIDE DEF rows
<1>4. DOMAIN rows = 1..Len(audit) + 1 /\ DOMAIN audit = 1..Len(audit) /\ Len(audit) \in Nat
  BY <1>1, <1>2
<1>5. k \in DOMAIN rows /\ Len(audit) + 1 \in DOMAIN rows \ {k} /\ DOMAIN audit \subseteq DOMAIN rows
  BY <1>4
<1>6. /\ audit' \in Seq(AuditRow) /\ Len(audit') = Len(rows)
      /\ \A j \in DOMAIN rows : SameRow(audit'[j], rows[j])
      /\ \A j \in DOMAIN rows \ {k} : audit'[j] = rows[j]
  BY <1>2, <1>3, <1>5, RowReversed
<1>7. audit'[Len(audit) + 1] = rows[Len(audit) + 1]
  BY <1>5, <1>6
<1> QED
  BY <1>2, <1>5, <1>6, <1>7

LEMMA ReverseMergeMoves ==
  ASSUME IInv, NEW k \in DOMAIN audit, reverseMerge(k)
  PROVE  MovesItems(stillThere(audit[k], audit[k].cluster), "reverse_merge", audit[k].cluster, audit[k].other)
<1> DEFINE moved == stillThere(audit[k], audit[k].cluster)
<1>1. audit' = reversalRow("reverse_merge", audit[k], moved, k) /\ at' = Moved(moved, audit[k].other)
      /\ UNCHANGED <<removed, original, home>>
  BY DEF reverseMerge
<1>2. moved \in SUBSET Item /\ \A i \in moved : Placed(i)
  BY RowTyped DEF stillThere
<1> HIDE DEF moved
<1>3. MovesItems(moved, "reverse_merge", audit[k].cluster, audit[k].other)
  BY <1>1, <1>2, RowTyped, ReversalRows DEF MovesItems, Target, Actions
<1> QED
  BY <1>3 DEF moved

LEMMA ReverseSplitMoves ==
  ASSUME IInv, NEW k \in DOMAIN audit, reverseSplit(k)
  PROVE  MovesItems(stillThere(audit[k], audit[k].other), "reverse_split", audit[k].cluster, audit[k].other)
<1> DEFINE moved == stillThere(audit[k], audit[k].other)
<1>1. audit' = reversalRow("reverse_split", audit[k], moved, k) /\ at' = Moved(moved, audit[k].cluster)
      /\ UNCHANGED <<removed, original, home>>
  BY DEF reverseSplit
<1>2. moved \in SUBSET Item /\ \A i \in moved : Placed(i)
  BY RowTyped DEF stillThere
<1> HIDE DEF moved
<1>3. MovesItems(moved, "reverse_split", audit[k].cluster, audit[k].other)
  BY <1>1, <1>2, RowTyped, ReversalRows DEF MovesItems, Target, Actions
<1> QED
  BY <1>3 DEF moved

\* Moving items leaves them placed, and the audit knows none that is not.
LEMMA MovesKeepKnown ==
  ASSUME IInv, NEW S, NEW action, NEW c, NEW d, MovesItems(S, action, c, d)
  PROVE  /\ Known'
         /\ at' \in [Item -> Cluster \cup {NoCluster}]
         /\ \A i \in Item : Placed(i)' <=> Placed(i)
         /\ DOMAIN audit' = DOMAIN audit \cup {Len(audit) + 1}
<1>1. Target(action, c, d) \in Cluster /\ Target(action, c, d) # NoCluster
  BY ClusterNumbers DEF MovesItems, Target
<1>2. at' = [i \in Item |-> IF i \in S THEN Target(action, c, d) ELSE at[i]]
  BY DEF MovesItems, Moved
<1>3. at' \in [Item -> Cluster \cup {NoCluster}]
  BY <1>1, <1>2 DEF IInv, Shapes
<1>4. \A i \in Item : Placed(i)' <=> Placed(i)
  BY <1>1, <1>2 DEF MovesItems, Placed
<1>5. DOMAIN audit' = DOMAIN audit \cup {Len(audit) + 1}
  <2>1. audit \in Seq(AuditRow) /\ audit' \in Seq(AuditRow) /\ Len(audit') = Len(audit) + 1
    BY DEF IInv, Shapes, MovesItems
  <2>2. Len(audit) \in Nat /\ DOMAIN audit = 1..Len(audit) /\ DOMAIN audit' = 1..(Len(audit) + 1)
    BY <2>1
  <2> QED
    BY <2>2
<1>6. /\ UNCHANGED <<removed, original>> /\ removed \subseteq Item /\ original \in [Item -> Item]
      /\ c # d /\ S \in SUBSET Item
  BY DEF MovesItems, IInv, Shapes
<1>7. \A k \in DOMAIN audit : SameRow(audit'[k], audit[k]) /\ audit[k].items \in SUBSET Item
  BY RowTyped DEF MovesItems
<1>8. \A k \in DOMAIN audit' :
        (\A i \in audit'[k].items : i \in Item /\ Placed(i)) /\ audit'[k].cluster # audit'[k].other
  <2> SUFFICES ASSUME NEW k \in DOMAIN audit'
               PROVE  (\A i \in audit'[k].items : i \in Item /\ Placed(i)) /\ audit'[k].cluster # audit'[k].other
    OBVIOUS
  <2>1. CASE k \in DOMAIN audit
    BY <1>7, <2>1 DEF SameRow, IInv, Known
  <2>2. CASE k = Len(audit) + 1
    BY <2>2 DEF MovesItems
  <2> QED
    BY <1>5, <2>1, <2>2
<1>9. Known'
  BY <1>4, <1>6, <1>8 DEF IInv, Known
<1> QED
  BY <1>3, <1>4, <1>5, <1>9

-----------------------------------------------------------------------------
(* Every step keeps the invariant *)

\* An ingested item comes to an open cluster, and what it copies, if anything, is placed.
LEMMA PlaceKeepsKnown ==
  ASSUME IInv, NEW i \in Item, ~Placed(i), NEW c \in Cluster, Place(i, c), status'[c] = "open",
         \A d \in Cluster : status[d] = "open" => status'[d] = "open",
         UNCHANGED <<audit, removed>>,
         \/ original' = original
         \/ \E first \in Item : /\ Placed(first) /\ original[first] = first
                                /\ original' = [original EXCEPT ![i] = first]
  PROVE  /\ InOpen' /\ Known'
         /\ at' \in [Item -> Cluster \cup {NoCluster}] /\ home' \in [Item -> Cluster \cup {NoCluster}]
         /\ original' \in [Item -> Item]
<1>1. /\ at \in [Item -> Cluster \cup {NoCluster}] /\ home \in [Item -> Cluster \cup {NoCluster}]
      /\ original \in [Item -> Item] /\ removed \subseteq Item
  BY DEF IInv, Shapes
<1>2. at'[i] = c /\ c # NoCluster /\ \A j \in Item \ {i} : at'[j] = at[j]
  BY <1>1, ClusterNumbers DEF Place
<1>3. at' \in [Item -> Cluster \cup {NoCluster}] /\ home' \in [Item -> Cluster \cup {NoCluster}]
  BY <1>1 DEF Place
<1>4. InOpen'
  BY <1>2 DEF IInv, InOpen, Placed
<1>5. \A j \in Item : Placed(j) => Placed(j)'
  BY <1>2 DEF Placed
<1>6. /\ original' \in [Item -> Item]
      /\ \A j \in Item : original'[original'[j]] = original'[j]
      /\ \A j \in Item : IF Placed(j)' THEN Placed(original[j])' \/ j = i ELSE original'[j] = j
      /\ \A j \in Item : Placed(j)' => at'[original'[j]] # NoCluster
  <2>1. \A j \in Item \ {i} : Placed(j)' <=> Placed(j)
    BY <1>2 DEF Placed
  <2>2. CASE original' = original
    BY <1>1, <1>2, <1>5, <2>1, <2>2 DEF IInv, Known, Placed
  <2>3. ASSUME NEW first \in Item, Placed(first), original[first] = first,
               original' = [original EXCEPT ![i] = first]
        PROVE  /\ original' \in [Item -> Item]
               /\ \A j \in Item : original'[original'[j]] = original'[j]
               /\ \A j \in Item : IF Placed(j)' THEN Placed(original[j])' \/ j = i ELSE original'[j] = j
               /\ \A j \in Item : Placed(j)' => at'[original'[j]] # NoCluster
    <3>1. first # i /\ original'[i] = first /\ \A j \in Item \ {i} : original'[j] = original[j]
      BY <1>1, <2>3
    <3>2. \A j \in Item \ {i} : original[j] # i
      BY DEF IInv, Known
    <3>3. Placed(i)'
      BY <1>2 DEF Placed
    <3> QED
      BY <1>1, <1>2, <1>5, <2>1, <2>3, <3>1, <3>2, <3>3 DEF IInv, Known, Placed
  <2> QED
    BY <2>2, <2>3
<1>7. Known'
  <2>1. \A k \in DOMAIN audit : \A j \in audit[k].items : j \in Item /\ Placed(j)
    BY RowTyped
  <2> QED
    BY <1>1, <1>5, <1>6, <2>1 DEF IInv, Known, Placed
<1> QED
  BY <1>3, <1>4, <1>6, <1>7

\* A duplicate joins the open cluster of its original, which is placed and no duplicate.
LEMMA DuplicateFollows ==
  ASSUME IInv, NEW i \in Item, NEW hit \in Item, assignDuplicate(i, hit)
  PROVE  LET first == original[hit] IN
         /\ first \in Item /\ Placed(first) /\ original[first] = first /\ first # i /\ ~Placed(i)
         /\ at[first] \in Cluster /\ status[at[first]] = "open"
         /\ original' = [original EXCEPT ![i] = first] /\ Place(i, at[first])
<1> DEFINE first == original[hit]
<1>1. ~Placed(i) /\ Placed(hit) /\ original' = [original EXCEPT ![i] = first] /\ Place(i, resolve(at[first]))
  BY DEF assignDuplicate, firstReport, Placed
<1>2. first \in Item /\ Placed(first) /\ original[first] = first
  BY <1>1 DEF IInv, Shapes, Known
<1>3. at[first] \in Cluster /\ status[at[first]] = "open"
  BY <1>2 DEF IInv, InOpen
<1>4. resolve(at[first]) = at[first]
  BY <1>3, OpenResolves
<1> QED
  BY <1>1, <1>2, <1>3, <1>4

\* Where a placed item is, merges need not be followed.
LEMMA PlacedResolves ==
  ASSUME IInv, NEW i \in Item, Placed(i)
  PROVE  at[i] \in Cluster /\ status[at[i]] = "open" /\ resolve(at[i]) = at[i]
BY OpenResolves DEF IInv, InOpen

\* Ingestion keeps the invariant.
LEMMA IngestInv ==
  ASSUME IInv, NEW i \in Item, Ingest(i)
  PROVE  IInv'
<1>1. ASSUME NEW hit \in Item, assignDuplicate(i, hit) PROVE IInv'
  <2>1. UNCHANGED <<status, into, removed, core, audit, job>>
    BY <1>1 DEF assignDuplicate
  <2>2. /\ InOpen' /\ Known' /\ at' \in [Item -> Cluster \cup {NoCluster}]
        /\ home' \in [Item -> Cluster \cup {NoCluster}] /\ original' \in [Item -> Item]
    BY <1>1, <2>1, DuplicateFollows, PlaceKeepsKnown
  <2> QED
    BY <2>1, <2>2 DEF IInv, Shapes
<1>2. ASSUME NEW c \in Cluster, assignMatched(i, c) PROVE IInv'
  <2>1. /\ UNCHANGED <<status, into, removed, original, audit, job>> /\ Place(i, c) /\ ~Placed(i)
        /\ status[c] = "open" /\ core' = [core EXCEPT ![c] = countable(c) \cup {i}]
    BY <1>2 DEF assignMatched, mustOpen, Placed
  <2>2. /\ InOpen' /\ Known' /\ at' \in [Item -> Cluster \cup {NoCluster}]
        /\ home' \in [Item -> Cluster \cup {NoCluster}] /\ original' \in [Item -> Item]
    BY <2>1, PlaceKeepsKnown
  <2>3. countable(c) \cup {i} \in SUBSET Item
    BY DEF countable, members
  <2>4. core' \in [Cluster -> SUBSET Item]
    BY <2>1, <2>3 DEF IInv, Shapes
  <2> QED
    BY <2>1, <2>2, <2>4 DEF IInv, Shapes
<1>3. ASSUME NEW c \in Cluster, assignNew(i, c) PROVE IInv'
  <2>1. /\ UNCHANGED <<into, removed, original, audit, job>> /\ Place(i, c) /\ ~Placed(i)
        /\ status' = [status EXCEPT ![c] = "open"] /\ core' = [core EXCEPT ![c] = {i}]
    BY <1>3 DEF assignNew, Placed
  <2>2. /\ status' \in [Cluster -> Statuses] /\ status'[c] = "open"
        /\ \A d \in Cluster : status[d] = "open" => status'[d] = "open"
        /\ core' \in [Cluster -> SUBSET Item]
    BY <2>1 DEF IInv, Shapes, Statuses
  <2>3. /\ InOpen' /\ Known' /\ at' \in [Item -> Cluster \cup {NoCluster}]
        /\ home' \in [Item -> Cluster \cup {NoCluster}] /\ original' \in [Item -> Item]
    BY <2>1, <2>2, PlaceKeepsKnown
  <2> QED
    BY <2>1, <2>2, <2>3 DEF IInv, Shapes
<1>4. CASE updateItem(i)
  <2>1. /\ UNCHANGED <<status, into, at, removed, original, audit, job, home>>
        /\ core' = [core EXCEPT ![resolve(at[i])] = countable(resolve(at[i]))]
    BY <1>4 DEF updateItem
  <2>2. \A c : countable(c) \in SUBSET Item
    BY DEF countable, members
  <2>3. core' \in [Cluster -> SUBSET Item]
    BY <2>1, <2>2 DEF IInv, Shapes
  <2> QED
    BY <2>1, <2>3 DEF IInv, Shapes, InOpen, Known, Placed
<1>5. CASE applyRemoval(i)
  <2>1. /\ UNCHANGED <<status, into, at, original, audit, job, home>> /\ Placed(i)
        /\ removed' = removed \cup {i}
        /\ core' = [core EXCEPT ![resolve(at[i])] = countable(resolve(at[i])) \ {i}]
    BY <1>5 DEF applyRemoval, Placed
  <2>2. \A c : countable(c) \ {i} \in SUBSET Item
    BY DEF countable, members
  <2>3. core' \in [Cluster -> SUBSET Item] /\ removed' \subseteq Item
    BY <2>1, <2>2 DEF IInv, Shapes
  <2> QED
    BY <2>1, <2>3 DEF IInv, Shapes, InOpen, Known, Placed
<1> QED
  BY <1>1, <1>2, <1>3, <1>4, <1>5 DEF Ingest

\* Merging keeps the invariant: the absorbed cluster is left empty.
LEMMA MergeInv ==
  ASSUME IInv, NEW c \in Cluster, NEW d \in Cluster, merge(c, d)
  PROVE  IInv'
<1>1. MovesItems(members(d), "merge", c, d)
  BY MergeMoves
<1>2. Known' /\ at' \in [Item -> Cluster \cup {NoCluster}] /\ \A i \in Item : Placed(i)' <=> Placed(i)
  BY <1>1, MovesKeepKnown
<1>3. /\ UNCHANGED <<removed, original, job, home>> /\ status[c] = "open" /\ c # d
      /\ status' = [status EXCEPT ![d] = "merged"] /\ into' = [into EXCEPT ![d] = c]
      /\ core' = [core EXCEPT ![c] = {i \in Item : at'[i] = c} \ removed]
      /\ at' = [i \in Item |-> IF at[i] = d THEN c ELSE at[i]]
  BY DEF merge, mustOpen, Moved, members
<1>4. /\ status' \in [Cluster -> Statuses] /\ into' \in [Cluster -> Cluster \cup {NoCluster}]
      /\ core' \in [Cluster -> SUBSET Item] /\ audit' \in Seq(AuditRow)
  BY <1>1, <1>3 DEF IInv, Shapes, Statuses, MovesItems
<1>5. InOpen'
  BY <1>2, <1>3 DEF IInv, Shapes, InOpen, Placed
<1> QED
  BY <1>2, <1>3, <1>4, <1>5 DEF IInv, Shapes

\* Splitting does: the new cluster is open.
LEMMA SplitInv ==
  ASSUME IInv, NEW c \in Cluster, NEW S, NEW new \in Cluster, splitOff(c, S, new),
         job' \in [from : Cluster \cup {NoCluster}, groups : SUBSET SUBSET Item],
         job'.groups # {} => job'.from \in Cluster
  PROVE  IInv'
<1>1. MovesItems(S, "split", c, new)
  BY SplitMoves
<1>2. Known' /\ at' \in [Item -> Cluster \cup {NoCluster}] /\ \A i \in Item : Placed(i)' <=> Placed(i)
  BY <1>1, MovesKeepKnown
<1>3. /\ UNCHANGED <<into, removed, original, home>> /\ S \in SUBSET Item
      /\ status' = [status EXCEPT ![new] = "open"]
      /\ core' = recomputeBoth(c, new, at')
      /\ at' = [i \in Item |-> IF i \in S THEN new ELSE at[i]]
  BY <1>1 DEF splitOff, Moved, MovesItems
<1>4. /\ status' \in [Cluster -> Statuses] /\ core' \in [Cluster -> SUBSET Item] /\ audit' \in Seq(AuditRow)
  BY <1>1, <1>3 DEF IInv, Shapes, Statuses, MovesItems, recomputeBoth
<1>5. InOpen'
  BY <1>2, <1>3 DEF IInv, Shapes, InOpen, Placed
<1> QED
  BY <1>2, <1>3, <1>4, <1>5 DEF IInv, Shapes

\* Reversing a merge does: the absorbed cluster is open again.
LEMMA ReverseMergeInv ==
  ASSUME IInv, NEW k \in DOMAIN audit, reverseMerge(k)
  PROVE  IInv'
<1> DEFINE c == audit[k].cluster
           d == audit[k].other
           moved == stillThere(audit[k], c)
<1>1. MovesItems(moved, "reverse_merge", c, d)
  BY ReverseMergeMoves
<1>2. /\ UNCHANGED <<removed, original, job, home>>
      /\ status' = [status EXCEPT ![d] = "open"] /\ into' = [into EXCEPT ![d] = NoCluster]
      /\ core' = recomputeBoth(c, d, at')
      /\ at' = [i \in Item |-> IF i \in moved THEN d ELSE at[i]]
  BY DEF reverseMerge, Moved
<1>3. c \in Cluster /\ d \in Cluster
  BY RowTyped
<1> HIDE DEF c, d, moved
<1>4. Known' /\ at' \in [Item -> Cluster \cup {NoCluster}] /\ \A i \in Item : Placed(i)' <=> Placed(i)
  BY <1>1, MovesKeepKnown
<1>5. /\ status' \in [Cluster -> Statuses] /\ core' \in [Cluster -> SUBSET Item] /\ audit' \in Seq(AuditRow)
      /\ into' \in [Cluster -> Cluster \cup {NoCluster}]
  BY <1>1, <1>2, <1>3 DEF IInv, Shapes, Statuses, MovesItems, recomputeBoth
<1>6. InOpen'
  BY <1>2, <1>3, <1>4 DEF IInv, Shapes, InOpen, Placed
<1> QED
  BY <1>2, <1>4, <1>5, <1>6 DEF IInv, Shapes

\* Reversing a split does: its cluster is dissolved only when it is left empty.
LEMMA ReverseSplitInv ==
  ASSUME IInv, NEW k \in DOMAIN audit, reverseSplit(k)
  PROVE  IInv'
<1> DEFINE c == audit[k].cluster
           d == audit[k].other
           moved == stillThere(audit[k], d)
<1>1. MovesItems(moved, "reverse_split", c, d)
  BY ReverseSplitMoves
<1>2. /\ UNCHANGED <<into, removed, original, job, home>> /\ status[c] = "open"
      /\ at' = [i \in Item |-> IF i \in moved THEN c ELSE at[i]]
      /\ IF left(d, moved) = {}
         THEN /\ status' = [status EXCEPT ![d] = "dissolved"]
              /\ core' = [core EXCEPT ![c] = {i \in Item : at'[i] = c} \ removed]
         ELSE core' = recomputeBoth(c, d, at') /\ UNCHANGED status
  BY DEF reverseSplit, Moved, mustOpen
<1>3. c \in Cluster /\ d \in Cluster /\ c # d
  BY RowTyped
<1> HIDE DEF c, d, moved
<1>4. Known' /\ at' \in [Item -> Cluster \cup {NoCluster}] /\ \A i \in Item : Placed(i)' <=> Placed(i)
  BY <1>1, MovesKeepKnown
<1>5. /\ status' \in [Cluster -> Statuses] /\ core' \in [Cluster -> SUBSET Item] /\ audit' \in Seq(AuditRow)
  <2>1. audit' \in Seq(AuditRow)
    BY <1>1 DEF MovesItems
  <2>2. status \in [Cluster -> Statuses] /\ core \in [Cluster -> SUBSET Item]
    BY DEF IInv, Shapes
  <2>3. status' \in [Cluster -> Statuses]
    BY <1>2, <1>3, <2>2 DEF Statuses
  <2>4. core' \in [Cluster -> SUBSET Item]
    <3>1. recomputeBoth(c, d, at') \in [Cluster -> SUBSET Item]
      BY <2>2 DEF recomputeBoth
    <3>2. [core EXCEPT ![c] = {i \in Item : at'[i] = c} \ removed] \in [Cluster -> SUBSET Item]
      BY <2>2
    <3> QED
      BY <1>2, <3>1, <3>2
  <2> QED
    BY <2>1, <2>3, <2>4
<1>6. InOpen'
  <2>1. CASE left(d, moved) = {}
    <3>1. \A i \in Item : at[i] = d => i \in moved
      BY <2>1 DEF left, members
    <3> QED
      BY <1>2, <1>3, <1>4, <2>1, <3>1 DEF IInv, Shapes, InOpen, Placed
  <2>2. CASE left(d, moved) # {}
    BY <1>2, <1>3, <1>4, <2>2 DEF IInv, Shapes, InOpen, Placed
  <2> QED
    BY <2>1, <2>2
<1> QED
  BY <1>2, <1>4, <1>5, <1>6 DEF IInv, Shapes

\* The groups of a regrouping are groups of items.
LEMMA GroupsTyped ==
  ASSUME NEW c, NEW G \in Groupings(c)
  PROVE  G \in SUBSET SUBSET Item
<1> DEFINE M == countable(c)
           groups(f) == {{i \in M : f[i] = k} : k \in 1..Cardinality(M)} \ {{}}
<1>1. M \subseteq Item
  BY DEF countable, members
<1>2. \E f : G = groups(f)
  BY DEF Groupings
<1>3. \A f : groups(f) \in SUBSET SUBSET M
  OBVIOUS
<1> HIDE DEF M, groups
<1> QED
  BY <1>1, <1>2, <1>3

\* Every step keeps the invariant.
LEMMA NextInv ==
  ASSUME IInv, [Next]_vars
  PROVE  IInv'
<1>1. ASSUME NEW i \in Item, Ingest(i) PROVE IInv'
  BY <1>1, IngestInv
<1>2. CASE Edit
  <2>1. ASSUME NEW c \in Cluster, NEW d \in Cluster, NEW S, split(c, S, d) PROVE IInv'
    <3>1. job' = job /\ splitOff(c, S, d)
      BY <2>1 DEF split
    <3> QED
      BY <3>1, SplitInv DEF IInv, Shapes
  <2> QED
    BY <1>2, <2>1, MergeInv, ReverseMergeInv, ReverseSplitInv DEF Edit
<1>3. CASE Regroup
  <2>1. ASSUME NEW c \in Cluster, resplit(c) PROVE IInv'
    <3>1. UNCHANGED <<status, into, at, removed, original, core, audit, home>>
      BY <2>1 DEF resplit
    <3>2. PICK G \in Groupings(c) : job' = IF G = {} THEN Idle ELSE [from |-> c, groups |-> G]
      BY <2>1 DEF resplit
    <3>3. job' \in [from : Cluster \cup {NoCluster}, groups : SUBSET SUBSET Item]
          /\ (job'.groups # {} => job'.from \in Cluster)
      BY <3>2, GroupsTyped DEF Idle
    <3> QED
      BY <3>1, <3>3 DEF IInv, Shapes, InOpen, Known, Placed
  <2>2. ASSUME NEW g \in job.groups, NEW new \in Cluster, resplitGroup(g, new) PROVE IInv'
    <3>1. splitOff(job.from, g, new) /\ job.from \in Cluster
      BY <2>2 DEF resplitGroup, IInv, Shapes
    <3>2. job' = IF job.groups = {g} THEN Idle ELSE [job EXCEPT !.groups = @ \ {g}]
      BY <2>2 DEF resplitGroup
    <3>3. job \in [from : Cluster \cup {NoCluster}, groups : SUBSET SUBSET Item]
      BY DEF IInv, Shapes
    <3>4. job' \in [from : Cluster \cup {NoCluster}, groups : SUBSET SUBSET Item]
          /\ (job'.groups # {} => job'.from \in Cluster)
      BY <3>1, <3>2, <3>3 DEF Idle
    <3> QED
      BY <3>1, <3>4, SplitInv
  <2>3. CASE resplitStops
    <3>1. job' \in [from : Cluster \cup {NoCluster}, groups : SUBSET SUBSET Item] /\ job'.groups = {}
      BY <2>3 DEF resplitStops, Idle
    <3> QED
      BY <2>3, <3>1 DEF resplitStops, IInv, Shapes, InOpen, Known, Placed
  <2> QED
    BY <1>3, <2>1, <2>2, <2>3 DEF Regroup
<1>4. CASE UNCHANGED vars
  BY <1>4 DEF vars, IInv, Shapes, InOpen, Known, Placed
<1> QED
  BY <1>1, <1>2, <1>3, <1>4 DEF Next

THEOREM InvHolds == Spec => []IInv
BY InitInv, NextInv, PTL DEF Spec

\* Statuses, links, audit rows and the regrouping keep the shape of their rows, and a duplicate names
\* an item that is none.
THEOREM TypeCorrect == Spec => []TypeOK
BY InvHolds, InvTyped, PTL

\* Every ingested item is in an open cluster, and the wire has every live report that is no copy once.
THEOREM ItemsInOpenClustersHolds == Spec => []ItemsInOpenClusters
<1>1. IInv => ItemsInOpenClusters
  <2> SUFFICES ASSUME IInv, NEW i \in Item, Placed(i)
               PROVE  /\ status[at[i]] = "open"
                      /\ i \notin removed /\ ~isDuplicate(i) => {c \in Cluster : i \in wire(c)} = {at[i]}
    BY DEF ItemsInOpenClusters, Placed
  <2>1. at[i] \in Cluster /\ status[at[i]] = "open"
    BY DEF IInv, InOpen
  <2> QED
    BY <2>1 DEF wire, countable, members
<1> QED
  BY <1>1, InvHolds, PTL

-----------------------------------------------------------------------------
(* What new reports are matched against *)

\* A step rebuilds the stored core of a cluster, leaves a cluster no longer open, or changes neither
\* what it stores nor what it counts.
Rebuilt(c) == core'[c] = countable(c)'
Untouched(c) ==
  (status'[c] = "open" => status[c] = "open") /\ core'[c] = core[c] /\ countable(c)' = countable(c)

\* A step that does one of these to every cluster keeps the cores current.
LEMMA CoresKept ==
  ASSUME CoreIsCurrent, UNCHANGED original,
         \A c \in Cluster : Rebuilt(c) \/ status'[c] # "open" \/ Untouched(c)
  PROVE  CoreIsCurrent'
BY DEF CoreIsCurrent, Rebuilt, Untouched, isDuplicate

\* Recomputing two clusters rebuilds both and stores nothing for the others.
LEMMA BothRebuilt ==
  ASSUME IInv, NEW c \in Cluster, NEW d \in Cluster, UNCHANGED removed, core' = recomputeBoth(c, d, at')
  PROVE  Rebuilt(c) /\ Rebuilt(d) /\ \A x \in Cluster \ {c, d} : core'[x] = core[x]
BY DEF Rebuilt, recomputeBoth, countable, members

\* Recomputing one cluster rebuilds it.
LEMMA OneRebuilt ==
  ASSUME IInv, NEW c \in Cluster, UNCHANGED removed,
         core' = [core EXCEPT ![c] = {i \in Item : at'[i] = c} \ removed]
  PROVE  Rebuilt(c) /\ \A x \in Cluster \ {c} : core'[x] = core[x]
<1>1. core \in [Cluster -> SUBSET Item]
  BY DEF IInv, Shapes
<1> QED
  BY <1>1 DEF Rebuilt, countable, members

\* Ingestion keeps the cores current: only a duplicate joins without being counted.
LEMMA IngestCores ==
  ASSUME IInv, CoreIsCurrent, NEW i \in Item, Ingest(i)
  PROVE  CoreIsCurrent'
<1>0. /\ at \in [Item -> Cluster \cup {NoCluster}] /\ original \in [Item -> Item]
      /\ core \in [Cluster -> SUBSET Item] /\ status \in [Cluster -> Statuses]
  BY DEF IInv, Shapes
<1>1. ASSUME NEW hit \in Item, assignDuplicate(i, hit) PROVE CoreIsCurrent'
  <2> DEFINE first == original[hit]
  <2>1. /\ first \in Item /\ first # i /\ ~Placed(i) /\ original' = [original EXCEPT ![i] = first]
        /\ at' = [at EXCEPT ![i] = at[first]]
    BY <1>1, DuplicateFollows DEF Place
  <2>2. UNCHANGED <<status, removed, core>>
    BY <1>1 DEF assignDuplicate
  <2>3. original'[i] # i /\ \A j \in Item \ {i} : original'[j] = original[j] /\ at'[j] = at[j]
    BY <1>0, <2>1
  <2>4. \A c \in Cluster : countable(c) \subseteq countable(c)' /\ countable(c)' \subseteq countable(c) \cup {i}
    BY <2>1, <2>2, <2>3, ClusterNumbers DEF countable, members, Placed
  <2>5. \A c \in Cluster : i \notin countable(c)
    BY <2>1, ClusterNumbers DEF countable, members, Placed
  <2> QED
    BY <2>2, <2>3, <2>4, <2>5 DEF CoreIsCurrent, isDuplicate, countable, members
<1>2. ASSUME NEW c \in Cluster, assignMatched(i, c) PROVE CoreIsCurrent'
  <2>1. /\ UNCHANGED <<status, removed, original>> /\ ~Placed(i) /\ at' = [at EXCEPT ![i] = c]
        /\ core' = [core EXCEPT ![c] = countable(c) \cup {i}]
    BY <1>2 DEF assignMatched, Place, Placed
  <2>2. i \notin removed
    BY <2>1 DEF IInv, Known
  <2>3. Rebuilt(c)
    BY <1>0, <2>1, <2>2 DEF Rebuilt, countable, members
  <2>4. \A d \in Cluster \ {c} : Untouched(d)
    BY <1>0, <2>1, ClusterNumbers DEF Untouched, countable, members, Placed
  <2> QED
    BY <2>1, <2>3, <2>4, CoresKept
<1>3. ASSUME NEW c \in Cluster, assignNew(i, c) PROVE CoreIsCurrent'
  <2>1. /\ UNCHANGED <<removed, original>> /\ ~Placed(i) /\ at' = [at EXCEPT ![i] = c]
        /\ core' = [core EXCEPT ![c] = {i}] /\ status[c] = "none" /\ status' = [status EXCEPT ![c] = "open"]
    BY <1>3 DEF assignNew, isNext, Place, Placed
  <2>2. i \notin removed /\ \A j \in Item : at[j] # c
    BY <2>1, ClusterNumbers DEF IInv, Known, InOpen, Placed
  <2>3. Rebuilt(c)
    BY <1>0, <2>1, <2>2 DEF Rebuilt, countable, members
  <2>4. \A d \in Cluster \ {c} : Untouched(d)
    BY <1>0, <2>1, ClusterNumbers DEF Untouched, countable, members, Placed
  <2> QED
    BY <2>1, <2>3, <2>4, CoresKept
<1>4. CASE updateItem(i)
  <2>1. /\ UNCHANGED <<status, at, removed, original>> /\ at[i] \in Cluster
        /\ core' = [core EXCEPT ![at[i]] = countable(at[i])]
    BY <1>4, PlacedResolves DEF updateItem, Placed
  <2>2. Rebuilt(at[i]) /\ \A d \in Cluster \ {at[i]} : Untouched(d)
    BY <1>0, <2>1 DEF Rebuilt, Untouched, countable, members
  <2> QED
    BY <2>1, <2>2, CoresKept
<1>5. CASE applyRemoval(i)
  <2>1. /\ UNCHANGED <<status, at, original>> /\ at[i] \in Cluster /\ removed' = removed \cup {i}
        /\ core' = [core EXCEPT ![at[i]] = countable(at[i]) \ {i}]
    BY <1>5, PlacedResolves DEF applyRemoval, Placed
  <2>2. Rebuilt(at[i]) /\ \A d \in Cluster \ {at[i]} : Untouched(d)
    BY <1>0, <2>1 DEF Rebuilt, Untouched, countable, members
  <2> QED
    BY <2>1, <2>2, CoresKept
<1> QED
  BY <1>1, <1>2, <1>3, <1>4, <1>5 DEF Ingest

\* Moving items between two clusters touches no other.
LEMMA OthersUntouched ==
  ASSUME IInv, NEW S \in SUBSET Item, NEW c, NEW d, NEW x \in Cluster \ {c, d}, UNCHANGED removed,
         at' = Moved(S, d), \A i \in S : at[i] = c, core'[x] = core[x], status'[x] = status[x]
  PROVE  Untouched(x)
BY DEF IInv, Shapes, Moved, Untouched, countable, members

\* Merges, splits and reversals rebuild both clusters, or the one that is left open.
LEMMA EditCores ==
  ASSUME IInv, CoreIsCurrent,
         \/ \E c, d \in Cluster : merge(c, d)
         \/ \E c, d \in Cluster, S \in SUBSET Item : splitOff(c, S, d)
         \/ \E k \in DOMAIN audit : reverseMerge(k) \/ reverseSplit(k)
  PROVE  CoreIsCurrent'
<1>0. core \in [Cluster -> SUBSET Item] /\ status \in [Cluster -> Statuses]
  BY DEF IInv, Shapes
<1>1. ASSUME NEW c \in Cluster, NEW d \in Cluster, merge(c, d) PROVE CoreIsCurrent'
  <2>1. /\ UNCHANGED <<removed, original>> /\ at' = Moved(members(d), c) /\ c # d
        /\ status' = [status EXCEPT ![d] = "merged"]
        /\ core' = [core EXCEPT ![c] = {i \in Item : at'[i] = c} \ removed]
    BY <1>1 DEF merge
  <2>2. Rebuilt(c) /\ status'[d] # "open"
    BY <1>0, <2>1 DEF Rebuilt, countable, members
  <2>3. ASSUME NEW x \in Cluster \ {c, d} PROVE Untouched(x)
    <3>1. members(d) \in SUBSET Item /\ \A i \in members(d) : at[i] = d
      BY DEF members
    <3>2. core'[x] = core[x] /\ status'[x] = status[x]
      BY <1>0, <2>1
    <3> QED
      BY <2>1, <3>1, <3>2, OthersUntouched
  <2> QED
    BY <2>1, <2>2, <2>3, CoresKept
<1>2. ASSUME NEW c \in Cluster, NEW d \in Cluster, NEW S \in SUBSET Item, splitOff(c, S, d) PROVE CoreIsCurrent'
  <2>1. /\ UNCHANGED <<removed, original>> /\ at' = Moved(S, d) /\ S \subseteq members(c)
        /\ status' = [status EXCEPT ![d] = "open"] /\ core' = recomputeBoth(c, d, at')
    BY <1>2 DEF splitOff
  <2>2. Rebuilt(c) /\ Rebuilt(d)
    BY <2>1 DEF Rebuilt, recomputeBoth, countable, members
  <2>3. ASSUME NEW x \in Cluster \ {c, d} PROVE Untouched(x)
    <3>1. core'[x] = core[x] /\ status'[x] = status[x]
      BY <1>0, <2>1 DEF recomputeBoth
    <3>2. \A i \in S : at[i] = c
      BY <2>1 DEF members
    <3> QED
      BY <2>1, <3>1, <3>2, OthersUntouched
  <2> QED
    BY <2>1, <2>2, <2>3, CoresKept
<1>3. ASSUME NEW k \in DOMAIN audit, reverseMerge(k) PROVE CoreIsCurrent'
  <2> DEFINE c == audit[k].cluster
             d == audit[k].other
             S == stillThere(audit[k], c)
  <2>1. /\ UNCHANGED <<removed, original>> /\ at' = Moved(S, d)
        /\ status' = [status EXCEPT ![d] = "open"] /\ core' = recomputeBoth(c, d, at')
    BY <1>3 DEF reverseMerge
  <2>2. c \in Cluster /\ d \in Cluster /\ S \in SUBSET Item /\ \A i \in S : at[i] = c
    BY RowTyped DEF stillThere
  <2> HIDE DEF c, d, S
  <2>3. Rebuilt(c) /\ Rebuilt(d) /\ \A x \in Cluster \ {c, d} : core'[x] = core[x]
    BY <2>1, <2>2, BothRebuilt
  <2>4. ASSUME NEW x \in Cluster \ {c, d} PROVE Untouched(x)
    <3>1. core'[x] = core[x] /\ status'[x] = status[x]
      BY <1>0, <2>1, <2>3
    <3> QED
      BY <2>1, <2>2, <3>1, OthersUntouched
  <2> QED
    BY <2>1, <2>3, <2>4, CoresKept
<1>4. ASSUME NEW k \in DOMAIN audit, reverseSplit(k) PROVE CoreIsCurrent'
  <2> DEFINE c == audit[k].cluster
             d == audit[k].other
             S == stillThere(audit[k], d)
  <2>1. /\ UNCHANGED <<removed, original>> /\ at' = Moved(S, c)
        /\ IF left(d, S) = {}
           THEN /\ status' = [status EXCEPT ![d] = "dissolved"]
                /\ core' = [core EXCEPT ![c] = {i \in Item : at'[i] = c} \ removed]
           ELSE core' = recomputeBoth(c, d, at') /\ UNCHANGED status
    BY <1>4 DEF reverseSplit
  <2>2. c \in Cluster /\ d \in Cluster /\ c # d /\ S \in SUBSET Item /\ \A i \in S : at[i] = d
    BY RowTyped DEF stillThere
  <2> HIDE DEF c, d, S
  <2>3. Rebuilt(c) /\ \A x \in Cluster \ {d, c} : core'[x] = core[x]
    BY <2>1, <2>2, BothRebuilt, OneRebuilt
  <2>4. Rebuilt(d) \/ status'[d] # "open"
    BY <1>0, <2>1, <2>2, BothRebuilt
  <2>5. ASSUME NEW x \in Cluster \ {d, c} PROVE Untouched(x)
    <3>1. core'[x] = core[x] /\ status'[x] = status[x]
      BY <1>0, <2>1, <2>3
    <3> QED
      BY <2>1, <2>2, <3>1, OthersUntouched
  <2> QED
    BY <2>1, <2>3, <2>4, <2>5, CoresKept
<1> QED
  BY <1>1, <1>2, <1>3, <1>4

\* What the stored core of an open cluster is made of stays current.
LEMMA NextCores ==
  ASSUME IInv, CoreIsCurrent, [Next]_vars
  PROVE  CoreIsCurrent'
<1>1. ASSUME NEW i \in Item, Ingest(i) PROVE CoreIsCurrent'
  BY <1>1, IngestCores
<1>2. CASE Edit
  <2>1. \A c : members(c) \in SUBSET Item
    BY DEF members
  <2> QED
    BY <1>2, <2>1, EditCores DEF Edit, split
<1>3. CASE UNCHANGED <<status, at, removed, original, core>>
  BY <1>3 DEF CoreIsCurrent, countable, members, isDuplicate
<1>4. CASE Regroup
  <2>1. ASSUME NEW g \in job.groups, NEW new \in Cluster, resplitGroup(g, new) PROVE CoreIsCurrent'
    <3>1. splitOff(job.from, g, new) /\ job.from \in Cluster /\ g \in SUBSET Item
      BY <2>1 DEF resplitGroup, IInv, Shapes
    <3> QED
      BY <3>1, EditCores
  <2> QED
    BY <1>3, <1>4, <2>1 DEF Regroup, resplit, resplitStops
<1> QED
  BY <1>1, <1>2, <1>3, <1>4 DEF Next, vars

\* An open cluster's stored core was built from its members as they are now, except duplicates that
\* joined since.
THEOREM CoreIsCurrentHolds == Spec => []CoreIsCurrent
<1>1. Init => CoreIsCurrent
  BY DEF Init, CoreIsCurrent
<1> QED
  BY <1>1, InvHolds, NextCores, PTL DEF Spec

-----------------------------------------------------------------------------
(* The audit *)

\* Ingestion audits nothing, and gives a place only to an item that had none.
LEMMA IngestPlaces ==
  ASSUME IInv, NEW i \in Item, Ingest(i)
  PROVE  /\ audit' = audit
         /\ UNCHANGED <<at, home>> \/ (~Placed(i) /\ \E c \in Cluster : Place(i, c))
<1>1. ASSUME NEW hit \in Item, assignDuplicate(i, hit)
      PROVE  audit' = audit /\ ~Placed(i) /\ \E c \in Cluster : Place(i, c)
  BY <1>1, DuplicateFollows DEF assignDuplicate
<1>2. ASSUME NEW c \in Cluster, assignMatched(i, c) \/ assignNew(i, c)
      PROVE  audit' = audit /\ ~Placed(i) /\ Place(i, c)
  BY <1>2 DEF assignMatched, assignNew, Placed
<1>3. updateItem(i) \/ applyRemoval(i) => UNCHANGED <<audit, at, home>>
  BY DEF updateItem, applyRemoval
<1> QED
  BY <1>1, <1>2, <1>3 DEF Ingest

\* Every other step moves audited items or nothing.
LEMMA StepMoves ==
  ASSUME IInv, [Next]_vars
  PROVE  \/ \E i \in Item : Ingest(i)
         \/ \E S, action, c, d : MovesItems(S, action, c, d)
         \/ UNCHANGED <<at, audit, home>>
<1>1. Edit => \E S, action, c, d : MovesItems(S, action, c, d)
  BY MergeMoves, SplitMoves, ReverseMergeMoves, ReverseSplitMoves DEF Edit, split
<1>2. ASSUME NEW g \in job.groups, NEW new \in Cluster, resplitGroup(g, new)
      PROVE  MovesItems(g, "split", job.from, new)
  <2>1. splitOff(job.from, g, new) /\ job.from \in Cluster
    BY <1>2 DEF resplitGroup, IInv, Shapes
  <2> QED
    BY <2>1, SplitMoves
<1> QED
  BY <1>1, <1>2 DEF Next, Regroup, resplit, resplitStops, vars

\* The audit rows an item is in, and what the last of them says.
RowsWith(i) == {k \in DOMAIN audit : i \in audit[k].items}
Explained(i) ==
  IF RowsWith(i) = {} THEN at[i] = home[i]
  ELSE \E k \in RowsWith(i) :
         /\ \A j \in RowsWith(i) : j <= k
         /\ at[i] = Target(audit[k].action, audit[k].cluster, audit[k].other)

\* Moving items explains where they are, and leaves the others explained.
LEMMA MovesExplain ==
  ASSUME IInv, NEW S, NEW action, NEW c, NEW d, MovesItems(S, action, c, d), NEW i \in Item, Explained(i)
  PROVE  Explained(i)'
<1> DEFINE n == Len(audit)
<1>1. audit \in Seq(AuditRow) /\ n \in Nat /\ DOMAIN audit = 1..n
  BY DEF IInv, Shapes
<1>2. DOMAIN audit' = DOMAIN audit \cup {n + 1}
  BY MovesKeepKnown
<1>3. /\ \A k \in DOMAIN audit : SameRow(audit'[k], audit[k])
      /\ audit'[n + 1].items = S /\ audit'[n + 1].action = action
      /\ audit'[n + 1].cluster = c /\ audit'[n + 1].other = d /\ home' = home
  BY DEF MovesItems
<1>4. at'[i] = IF i \in S THEN Target(action, c, d) ELSE at[i]
  BY DEF MovesItems, Moved
<1> HIDE DEF n
<1>5. CASE i \in S
  <2>1. n + 1 \in RowsWith(i)' /\ \A j \in RowsWith(i)' : j <= n + 1
    BY <1>1, <1>2, <1>3, <1>5 DEF RowsWith
  <2> QED
    BY <1>3, <1>4, <1>5, <2>1 DEF Explained
<1>6. CASE i \notin S
  <2>1. RowsWith(i)' = RowsWith(i)
    BY <1>1, <1>2, <1>3, <1>6 DEF RowsWith, SameRow
  <2>2. \A k \in RowsWith(i) : Target(audit'[k].action, audit'[k].cluster, audit'[k].other)
                                 = Target(audit[k].action, audit[k].cluster, audit[k].other)
    BY <1>3 DEF RowsWith, SameRow
  <2> QED
    BY <1>3, <1>4, <1>6, <2>1, <2>2 DEF Explained
<1> QED
  BY <1>5, <1>6

\* Every step leaves every item explained.
LEMMA NextExplained ==
  ASSUME IInv, [Next]_vars, \A i \in Item : Explained(i)
  PROVE  \A i \in Item : Explained(i)'
<1>1. ASSUME NEW j \in Item, Ingest(j), NEW i \in Item PROVE Explained(i)'
  <2>1. audit' = audit
    BY <1>1, IngestPlaces
  <2>2. RowsWith(i)' = RowsWith(i)
    BY <2>1 DEF RowsWith
  <2>3. CASE UNCHANGED <<at, home>>
    BY <2>1, <2>2, <2>3 DEF Explained
  <2>4. ASSUME NEW c \in Cluster, ~Placed(j), Place(j, c) PROVE Explained(i)'
    <3>1. at \in [Item -> Cluster \cup {NoCluster}] /\ home \in [Item -> Cluster \cup {NoCluster}]
      BY DEF IInv, Shapes
    <3>2. CASE i = j
      <4>1. RowsWith(i) = {}
        BY <2>4, <3>2 DEF RowsWith, IInv, Known
      <4>2. at'[i] = home'[i]
        BY <2>4, <3>1, <3>2 DEF Place
      <4> QED
        BY <2>2, <4>1, <4>2 DEF Explained
    <3>3. CASE i # j
      <4>1. at'[i] = at[i] /\ home'[i] = home[i]
        BY <2>4, <3>1, <3>3 DEF Place
      <4> QED
        BY <2>1, <2>2, <4>1 DEF Explained
    <3> QED
      BY <3>2, <3>3
  <2> QED
    BY <1>1, <2>3, <2>4, IngestPlaces
<1>2. ASSUME UNCHANGED <<at, audit, home>>, NEW i \in Item PROVE Explained(i)'
  BY <1>2 DEF Explained, RowsWith
<1> QED
  BY <1>1, <1>2, StepMoves, MovesExplain

\* An item is where the last audit row that moved it put it, or where it was placed when ingested.
THEOREM AuditExplainsMembershipHolds == Spec => []AuditExplainsMembership
<1> DEFINE Inv == \A i \in Item : Explained(i)
<1>1. Init => Inv
  BY DEF Init, Explained, RowsWith
<1>2. IInv /\ Inv => AuditExplainsMembership
  <2> SUFFICES ASSUME IInv, NEW i \in Item, Explained(i)
               PROVE  LET rows == RowsWith(i)
                          last == CHOOSE k \in rows : \A j \in rows : j <= k
                      IN at[i] = IF rows = {} THEN home[i]
                                 ELSE Target(audit[last].action, audit[last].cluster, audit[last].other)
    BY DEF AuditExplainsMembership, RowsWith, Target
  <2> DEFINE rows == RowsWith(i)
             last == CHOOSE k \in rows : \A j \in rows : j <= k
  <2>1. CASE rows = {}
    BY <2>1 DEF Explained
  <2>2. CASE rows # {}
    <3>1. PICK k \in rows : /\ \A j \in rows : j <= k
                            /\ at[i] = Target(audit[k].action, audit[k].cluster, audit[k].other)
      BY <2>2 DEF Explained
    <3>2. rows \subseteq Nat
      BY DEF IInv, Shapes, RowsWith
    <3>3. last \in rows /\ \A j \in rows : j <= last
      BY <3>1
    <3>4. last = k
      <4> HIDE DEF last, rows
      <4> QED
        BY <3>1, <3>2, <3>3
    <3> QED
      BY <2>2, <3>1, <3>4
  <2> QED
    BY <2>1, <2>2
<1>3. IInv /\ Inv /\ [Next]_vars => Inv'
  BY NextExplained
<1> QED
  BY <1>1, <1>2, <1>3, InvHolds, PTL DEF Spec

\* A recorded row reverses no other.
LEMMA RecordedReversesNone ==
  ASSUME IInv, NEW c \in Cluster, NEW d \in Cluster, NEW S \in SUBSET Item, NEW action \in Actions,
         audit' = recordAudit(action, c, d, S)
  PROVE  \A k \in DOMAIN audit : audit'[k] = audit[k]
<1>1. audit \in Seq(AuditRow)
  BY DEF IInv, Shapes
<1> QED
  BY <1>1, RowRecorded

\* A row is marked reversed by its own reversal only.
LEMMA ReversedBy ==
  ASSUME IInv, [Next]_vars, NEW k \in DOMAIN audit, Len(audit') > Len(audit), audit'[k].reversed,
         ~audit[k].reversed
  PROVE  reverseMerge(k) \/ reverseSplit(k)
<1>1. ASSUME audit' = audit PROVE FALSE
  BY <1>1
<1>2. ASSUME NEW c \in Cluster, NEW d \in Cluster, merge(c, d) PROVE FALSE
  <2>1. members(d) \in SUBSET Item /\ audit' = recordAudit("merge", c, d, members(d))
    BY <1>2 DEF merge, mergedItems, members
  <2> QED
    BY <2>1, RecordedReversesNone DEF Actions
<1>3. ASSUME NEW c \in Cluster, NEW d \in Cluster, NEW S, splitOff(c, S, d) PROVE FALSE
  <2>1. S \in SUBSET Item /\ audit' = recordAudit("split", c, d, S)
    BY <1>3 DEF splitOff, members
  <2> QED
    BY <2>1, RecordedReversesNone DEF Actions
<1>4. ASSUME NEW l \in DOMAIN audit, l # k, reverseMerge(l) \/ reverseSplit(l) PROVE FALSE
  <2>1. PICK action \in Actions, S \in SUBSET Item : audit' = reversalRow(action, audit[l], S, l)
    BY <1>4, RowTyped DEF reverseMerge, reverseSplit, stillThere, Actions
  <2>2. audit'[k] = audit[k]
    BY <1>4, <2>1, ReversalRows
  <2> QED
    BY <2>2
<1>5. ASSUME NEW i \in Item, Ingest(i) PROVE FALSE
  BY <1>1, <1>5, IngestPlaces
<1>6. ASSUME NEW g \in job.groups, NEW new \in Cluster, resplitGroup(g, new) PROVE FALSE
  <2>1. splitOff(job.from, g, new) /\ job.from \in Cluster
    BY <1>6 DEF resplitGroup, IInv, Shapes
  <2> QED
    BY <1>3, <2>1
<1> QED
  BY <1>1, <1>2, <1>3, <1>4, <1>5, <1>6 DEF Next, Edit, Regroup, split, resplit, resplitStops, vars

\* A reversal gives back every item of its row that is still where the row put it, and moves no other.
THEOREM ReverseUndoesHolds == Spec => ReverseUndoes
<1> DEFINE Undoes ==
      \A k \in DOMAIN audit :
        (Len(audit') > Len(audit) /\ audit'[k].reversed /\ ~audit[k].reversed) =>
          \A i \in Item :
            LET a == audit[k]
                put == IF a.action = "merge" THEN a.cluster ELSE a.other
                from == IF a.action = "merge" THEN a.other ELSE a.cluster
            IN at'[i] = IF i \in a.items /\ at[i] = put THEN from ELSE at[i]
<1>1. IInv /\ [Next]_vars => Undoes
  <2> SUFFICES ASSUME IInv, [Next]_vars, NEW k \in DOMAIN audit, Len(audit') > Len(audit),
                      audit'[k].reversed, ~audit[k].reversed, NEW i \in Item
               PROVE  LET a == audit[k]
                          put == IF a.action = "merge" THEN a.cluster ELSE a.other
                          from == IF a.action = "merge" THEN a.other ELSE a.cluster
                      IN at'[i] = IF i \in a.items /\ at[i] = put THEN from ELSE at[i]
    OBVIOUS
  <2>1. CASE reverseMerge(k)
    BY <2>1, RowTyped DEF reverseMerge, stillThere, Moved
  <2>2. CASE reverseSplit(k)
    BY <2>2, RowTyped DEF reverseSplit, stillThere, Moved
  <2> QED
    BY <2>1, <2>2, ReversedBy
<1> HIDE DEF Undoes
<1>2. Spec => [][Undoes]_vars
  BY <1>1, InvHolds, PTL DEF Spec
<1> QED
  BY <1>2 DEF Undoes, ReverseUndoes

-----------------------------------------------------------------------------
(* Whose story a report joins *)

\* Over half of a cluster's reports is enough to make a word the story's own.
LEMMA MostIsEnough ==
  ASSUME NEW n \in Nat, NEW k \in Nat, 2 * k > n
  PROVE  k >= coreMin(n)
BY DEF coreMin

\* And what is enough is over a third of them.
LEMMA EnoughIsAThird ==
  ASSUME NEW n \in Nat, NEW k \in Nat, k >= coreMin(n)
  PROVE  3 * k > n
BY DEF coreMin

\* Sets of reports and of words can be counted.
LEMMA Countable ==
  /\ \A S \in SUBSET Item : IsFiniteSet(S) /\ Cardinality(S) \in Nat
  /\ \A W \in SUBSET Word : IsFiniteSet(W) /\ Cardinality(W) \in Nat
BY ItemAssumption, FS_Subset, FS_CardinalityType

\* The words a report shares are its own.
LEMMA SharedWords ==
  ASSUME NEW i \in Item, NEW C, NEW n, NEW common
  PROVE  shared(Terms, i, C, n, common) \in SUBSET Word /\ shared(Entities, i, C, n, common) \in SUBSET Word
BY WordsAssumption DEF shared

\* A matching report shares at least three terms.
LEMMA JoinsShareThree ==
  ASSUME NEW i \in Item, NEW C, NEW n, NEW common, joins(i, C, n, common)
  PROVE  Cardinality(shared(Terms, i, C, n, common)) >= 3
<1>1. Cardinality(shared(Terms, i, C, n, common)) \in Nat
  BY SharedWords, Countable
<1> QED
  BY <1>1 DEF joins

\* A report that joins an open cluster shares three words with it that are each carried by over a third
\* of the reports that count there.
LEMMA MatchedIsOwn ==
  ASSUME IInv, CoreIsCurrent, NEW i \in Item, NEW c \in Cluster, assignMatched(i, c)
  PROVE  LET live == countable(c)
             own == {w \in words(i) \ Common(i) : 3 * Cardinality(Carrying(live, w)) > Cardinality(live)}
         IN Cardinality(own) >= 3
<1> DEFINE live == countable(c)
           n == Cardinality(live)
           own == {w \in words(i) \ Common(i) : 3 * Cardinality(Carrying(live, w)) > n}
           theirs == shared(Terms, i, core[c], n, Common(i))
<1>1. joins(i, core[c], n, Common(i)) /\ status[c] = "open"
  BY DEF assignMatched, matches, mustOpen
<1>2. live \in SUBSET Item /\ core[c] \subseteq live /\ n \in Nat
  BY <1>1, Countable DEF CoreIsCurrent, countable, members
<1>3. theirs \subseteq own
  <2> SUFFICES ASSUME NEW w \in theirs PROVE w \in own
    OBVIOUS
  <2>1. w \in Terms[i] \ Common(i) /\ Cardinality({j \in core[c] : w \in Terms[j]}) >= coreMin(n)
    BY DEF shared
  <2>2. {j \in core[c] : w \in Terms[j]} \subseteq Carrying(live, w) /\ Carrying(live, w) \in SUBSET Item
    BY <1>2 DEF Carrying, words
  <2>3. /\ Cardinality({j \in core[c] : w \in Terms[j]}) \in Nat
        /\ Cardinality({j \in core[c] : w \in Terms[j]}) <= Cardinality(Carrying(live, w))
        /\ Cardinality(Carrying(live, w)) \in Nat
    BY <1>2, <2>2, Countable, FS_Subset
  <2>4. 3 * Cardinality({j \in core[c] : w \in Terms[j]}) > n
    BY <1>2, <2>1, <2>3, EnoughIsAThird
  <2>5. 3 * Cardinality(Carrying(live, w)) > n
    <3> HIDE DEF n
    <3> QED
      BY <1>2, <2>3, <2>4
  <2> QED
    BY <2>1, <2>5 DEF words
<1>4. own \in SUBSET Word /\ IsFiniteSet(own) /\ Cardinality(own) \in Nat
  <2>1. words(i) \subseteq Word
    BY WordsAssumption DEF words
  <2> QED
    BY <2>1, Countable
<1>5. Cardinality(theirs) \in Nat /\ Cardinality(theirs) >= 3
  BY <1>1, SharedWords, Countable, JoinsShareThree
<1> HIDE DEF own, theirs
<1>6. Cardinality(theirs) <= Cardinality(own)
  BY <1>3, <1>4, FS_Subset
<1>7. Cardinality(own) >= 3
  BY <1>4, <1>5, <1>6
<1> QED
  BY <1>7 DEF own

\* Where a report is placed that is no duplicate.
LEMMA PlacedByMatch ==
  ASSUME IInv, [Next]_vars, NEW i \in Item, ~Placed(i), at'[i] \in Cluster, status[at'[i]] = "open",
         original'[i] = i
  PROVE  assignMatched(i, at'[i])
<1>0. at \in [Item -> Cluster \cup {NoCluster}]
  BY DEF IInv, Shapes
<1>1. at'[i] # at[i]
  BY ClusterNumbers DEF Placed
<1>2. ASSUME NEW S, NEW action, NEW c, NEW d, MovesItems(S, action, c, d) PROVE FALSE
  BY <1>1, <1>2 DEF MovesItems, Moved
<1>3. PICK j \in Item : Ingest(j)
  BY <1>1, <1>2, StepMoves
<1>4. ASSUME NEW c \in Cluster, Place(j, c) PROVE i = j /\ at'[i] = c
  BY <1>0, <1>1, <1>4 DEF Place
<1>5. ASSUME NEW hit \in Item, assignDuplicate(j, hit) PROVE FALSE
  <2>1. /\ original[hit] # j /\ original' = [original EXCEPT ![j] = original[hit]]
        /\ \E c \in Cluster : Place(j, c)
    BY <1>5, DuplicateFollows
  <2>2. i = j
    BY <1>4, <2>1
  <2> QED
    BY <2>1, <2>2 DEF IInv, Shapes
<1>6. ASSUME NEW c \in Cluster, assignNew(j, c) PROVE FALSE
  <2>1. Place(j, c) /\ status[c] = "none"
    BY <1>6 DEF assignNew, isNext
  <2> QED
    BY <1>4, <2>1
<1>7. ASSUME NEW c \in Cluster, assignMatched(j, c) PROVE assignMatched(i, at'[i])
  <2>1. Place(j, c)
    BY <1>7 DEF assignMatched
  <2>2. i = j /\ at'[i] = c
    BY <1>4, <2>1
  <2> QED
    BY <1>7, <2>2
<1>8. updateItem(j) \/ applyRemoval(j) => at' = at
  BY DEF updateItem, applyRemoval
<1> QED
  BY <1>1, <1>3, <1>5, <1>6, <1>7, <1>8 DEF Ingest

\* A report joins a story that is its own: it shares three words or more with the reports that count
\* there, none of them common and each carried by over a third of them.
THEOREM JoinsOwnStoryHolds == Spec => JoinsOwnStory
<1> DEFINE Own ==
      \A i \in Item :
        (at[i] = NoCluster /\ at'[i] \in {c \in Cluster : status[c] = "open"} /\ original'[i] = i) =>
          LET live == countable(at'[i])
              common == Common(i)
              own == {w \in words(i) \ common : 3 * Cardinality(Carrying(live, w)) > Cardinality(live)}
          IN Cardinality(own) >= 3
<1>1. IInv /\ CoreIsCurrent /\ [Next]_vars => Own
  BY PlacedByMatch, MatchedIsOwn DEF Placed
<1> QED
  BY <1>1, InvHolds, CoreIsCurrentHolds, PTL DEF Spec, JoinsOwnStory

\* A new report within reach that shares four terms, each carried by most of an open cluster's live
\* reports, joins a cluster.
THEOREM SharedStoryJoinsHolds == Spec => []SharedStoryJoins
<1>1. SharedStoryJoins
  <2> SUFFICES ASSUME NEW i \in Item, NEW c \in Cluster, mustOpen(c), core[c] = countable(c), near(i, core[c]),
                      Cardinality({w \in Terms[i] \ Common(i) :
                        2 * Cardinality({j \in countable(c) : w \in Terms[j]}) > Cardinality(countable(c))}) >= 4
               PROVE  matches(i) # {}
    BY DEF SharedStoryJoins
  <2> DEFINE live == countable(c)
             n == Cardinality(live)
             most == {w \in Terms[i] \ Common(i) : 2 * Cardinality({j \in live : w \in Terms[j]}) > n}
             theirs == shared(Terms, i, core[c], n, Common(i))
  <2>1. live \in SUBSET Item /\ n \in Nat
    BY Countable DEF countable, members
  <2>2. most \subseteq theirs
    <3> SUFFICES ASSUME NEW w \in most PROVE w \in theirs
      OBVIOUS
    <3>1. Cardinality({j \in live : w \in Terms[j]}) \in Nat
      BY <2>1, Countable
    <3>2. Cardinality({j \in live : w \in Terms[j]}) >= coreMin(n)
      BY <2>1, <3>1, MostIsEnough
    <3> QED
      BY <3>2 DEF shared
  <2>3. theirs \in SUBSET Word /\ IsFiniteSet(theirs) /\ Cardinality(theirs) \in Nat
    BY SharedWords, Countable
  <2>4. Cardinality(most) \in Nat /\ Cardinality(most) <= Cardinality(theirs)
    <3> HIDE DEF most, theirs
    <3> QED
      BY <2>2, <2>3, FS_Subset, FS_CardinalityType
  <2>5. Cardinality(most) >= 4
    OBVIOUS
  <2>6. Cardinality(theirs) >= 4
    <3> HIDE DEF most, theirs
    <3> QED
      BY <2>3, <2>4, <2>5
  <2>7. joins(i, core[c], n, Common(i))
    BY <2>6 DEF joins
  <2> QED
    BY <2>7 DEF matches
<1> QED
  BY <1>1, PTL

-----------------------------------------------------------------------------
(* Merges never close a cycle *)

\* Every merged cluster points to one that was created, and further along.
Links(order) ==
  /\ order \in [Cluster -> Nat]
  /\ \A d \in Cluster : status[d] = "merged" =>
       into[d] \in Cluster /\ status[into[d]] # "none" /\ order[d] < order[into[d]]

NoCycle == \E order : Links(order)

\* A step merges an open cluster into an open one, or merges none and forgets none.
LEMMA LinksEffect ==
  ASSUME IInv, [Next]_vars
  PROVE  \/ \E c, d \in Cluster :
              /\ status[c] = "open" /\ c # d
              /\ status' = [status EXCEPT ![d] = "merged"] /\ into' = [into EXCEPT ![d] = c]
         \/ \A d \in Cluster :
              /\ status'[d] = "merged" => status[d] = "merged" /\ into'[d] = into[d]
              /\ status[d] # "none" => status'[d] # "none"
<1> DEFINE Kept == \A d \in Cluster :
              /\ status'[d] = "merged" => status[d] = "merged" /\ into'[d] = into[d]
              /\ status[d] # "none" => status'[d] # "none"
<1>0. status \in [Cluster -> Statuses] /\ into \in [Cluster -> Cluster \cup {NoCluster}]
  BY DEF IInv, Shapes
<1>1. UNCHANGED <<status, into>> => Kept
  OBVIOUS
<1>2. ASSUME NEW i \in Item, Ingest(i) PROVE Kept
  <2>1. ASSUME NEW c \in Cluster, assignNew(i, c) PROVE Kept
    BY <1>0, <2>1 DEF assignNew
  <2> QED
    BY <1>1, <1>2, <2>1 DEF Ingest, assignDuplicate, assignMatched, updateItem, applyRemoval
<1>3. ASSUME NEW c \in Cluster, NEW d \in Cluster, merge(c, d)
      PROVE  /\ status[c] = "open" /\ c # d
             /\ status' = [status EXCEPT ![d] = "merged"] /\ into' = [into EXCEPT ![d] = c]
  BY <1>3 DEF merge, mustOpen
<1>4. ASSUME NEW c, NEW S, NEW new \in Cluster, splitOff(c, S, new) PROVE Kept
  BY <1>0, <1>4 DEF splitOff
<1>5. ASSUME NEW k \in DOMAIN audit, reverseMerge(k) PROVE Kept
  BY <1>0, <1>5, RowTyped DEF reverseMerge
<1>6. ASSUME NEW k \in DOMAIN audit, reverseSplit(k) PROVE Kept
  BY <1>0, <1>6, RowTyped DEF reverseSplit
<1> HIDE DEF Kept
<1>7. (\E c, d \in Cluster : merge(c, d)) \/ Kept
  BY <1>1, <1>2, <1>4, <1>5, <1>6
     DEF Next, Edit, Regroup, split, resplit, resplitGroup, resplitStops, vars
<1> QED
  BY <1>3, <1>7 DEF Kept

\* Every step leaves the links without a cycle: the cluster that absorbs is open and points nowhere.
LEMMA NextNoCycle ==
  ASSUME IInv, [Next]_vars, NoCycle
  PROVE  NoCycle'
<1>1. PICK order : Links(order)
  BY DEF NoCycle
<1>2. order \in [Cluster -> Nat]
  BY <1>1 DEF Links
<1>3. ASSUME NEW c \in Cluster, NEW d \in Cluster, status[c] = "open", c # d,
             status' = [status EXCEPT ![d] = "merged"], into' = [into EXCEPT ![d] = c]
      PROVE  NoCycle'
  <2> DEFINE further == [order EXCEPT ![c] = order[c] + order[d] + 1]
  <2>1. /\ further \in [Cluster -> Nat] /\ further[c] = order[c] + order[d] + 1
        /\ \A x \in Cluster \ {c} : further[x] = order[x]
    BY <1>2
  <2>2. /\ status'[d] = "merged" /\ into'[d] = c /\ status'[c] = "open"
        /\ \A x \in Cluster \ {d} : status'[x] = status[x] /\ into'[x] = into[x]
    BY <1>3 DEF IInv, Shapes
  <2> HIDE DEF further
  <2>3. ASSUME NEW x \in Cluster, status'[x] = "merged"
        PROVE  into'[x] \in Cluster /\ status'[into'[x]] # "none" /\ further[x] < further[into'[x]]
    <3>1. CASE x = d
      <4>1. further[d] = order[d] /\ order[d] \in Nat /\ order[c] \in Nat
        BY <1>2, <1>3, <2>1
      <4> QED
        BY <2>1, <2>2, <3>1, <4>1
    <3>2. CASE x # d
      <4>1. status[x] = "merged" /\ into'[x] = into[x] /\ x # c
        BY <1>3, <2>2, <2>3, <3>2
      <4>2. into[x] \in Cluster /\ status[into[x]] # "none" /\ order[x] < order[into[x]]
        BY <1>1, <4>1 DEF Links
      <4>3. status'[into[x]] # "none"
        BY <2>2, <4>2
      <4>4. further[x] = order[x] /\ order[into[x]] <= further[into[x]]
        BY <1>2, <2>1, <4>1, <4>2
      <4>5. order[x] \in Nat /\ order[into[x]] \in Nat /\ further[into[x]] \in Nat
        BY <1>2, <2>1, <4>2
      <4> QED
        BY <4>1, <4>2, <4>3, <4>4, <4>5
    <3> QED
      BY <3>1, <3>2
  <2> QED
    BY <2>1, <2>3 DEF NoCycle, Links
<1>4. ASSUME \A d \in Cluster :
               /\ status'[d] = "merged" => status[d] = "merged" /\ into'[d] = into[d]
               /\ status[d] # "none" => status'[d] # "none"
      PROVE  NoCycle'
  BY <1>1, <1>4 DEF NoCycle, Links
<1> QED
  BY <1>3, <1>4, LinksEffect

\* Merging, reversing and merging the other way round never closes a cycle of merged clusters.
THEOREM MergesNeverCycle == Spec => []NoCycle
<1>1. Init => NoCycle
  <2>1. ASSUME Init PROVE Links([c \in Cluster |-> 0])
    BY <2>1 DEF Init, Links
  <2> QED
    BY <2>1 DEF NoCycle
<1> QED
  BY <1>1, InvHolds, NextNoCycle, PTL DEF Spec

-----------------------------------------------------------------------------
(* Following merges ends *)

\* What resolve does at one cluster, and what it has done after each hop from c.
Hop(d) == IF status[d] = "merged" THEN into[d] ELSE d
Path(c) == CHOOSE f : f = [n \in 0..Hops |-> IF n = 0 THEN c ELSE Hop(f[n - 1])]

Created == {d \in Cluster : status[d] # "none"}

Merged == {d \in Cluster : status[d] = "merged"}

LEMMA HopsType == Hops \in Nat /\ (Hops = MaxCluster \/ Hops = 50)
BY BoundsAssumption DEF Hops

LEMMA ResolveIsPath == ASSUME NEW c PROVE resolve(c) = Path(c)[Hops]
BY DEF resolve, Path, Hop

\* Merges lead from created clusters to created ones.
LEMMA HopCreated ==
  ASSUME NoCycle, NEW d \in Created
  PROVE  Hop(d) \in Created
BY DEF NoCycle, Links, Hop, Created

\* So the hops from a created cluster can be listed, as many as wanted.
LEMMA PathExists ==
  ASSUME NoCycle, NEW c \in Created, NEW n \in Nat
  PROVE  \E f \in [0..n -> Created] : f[0] = c /\ \A k \in 1..n : f[k] = Hop(f[k - 1])
<1> DEFINE Reaches(m) == \E f \in [0..m -> Created] : f[0] = c /\ \A k \in 1..m : f[k] = Hop(f[k - 1])
           Short == {m \in 0..n : ~Reaches(m)}
<1>1. Reaches(0)
  <2> DEFINE f == [k \in 0..0 |-> c]
  <2>1. f \in [0..0 -> Created] /\ f[0] = c
    OBVIOUS
  <2> HIDE DEF f
  <2>2. \A k \in 1..0 : f[k] = Hop(f[k - 1])
    OBVIOUS
  <2> QED
    BY <2>1, <2>2
<1>2. ASSUME NEW m \in 1..n, Reaches(m - 1) PROVE Reaches(m)
  <2>1. PICK f \in [0..m - 1 -> Created] : f[0] = c /\ \A k \in 1..m - 1 : f[k] = Hop(f[k - 1])
    BY <1>2
  <2> DEFINE g == [k \in 0..m |-> IF k < m THEN f[k] ELSE Hop(f[m - 1])]
  <2>2. f[m - 1] \in Created /\ m - 1 \in Nat
    <3>1. m - 1 \in 0..m - 1
      OBVIOUS
    <3> QED
      BY <2>1, <3>1
  <2>3. \A k \in 0..m : k < m => k \in 0..m - 1
    OBVIOUS
  <2>4. g \in [0..m -> Created]
    <3>1. \A k \in 0..m : k < m => f[k] \in Created
      BY <2>1, <2>3
    <3>2. Hop(f[m - 1]) \in Created
      BY <2>2, HopCreated
    <3>3. \A k \in 0..m : (IF k < m THEN f[k] ELSE Hop(f[m - 1])) \in Created
      BY <3>1, <3>2
    <3> QED
      BY <3>3
  <2>5. g[0] = c /\ g[m] = Hop(f[m - 1]) /\ \A k \in 0..m - 1 : g[k] = f[k]
    BY <2>1
  <2> HIDE DEF g
  <2>6. \A k \in 1..m : g[k] = Hop(g[k - 1])
    <3> SUFFICES ASSUME NEW k \in 1..m PROVE g[k] = Hop(g[k - 1])
      OBVIOUS
    <3>1. k - 1 \in 0..m - 1 /\ g[k - 1] = f[k - 1]
      BY <2>5
    <3>2. CASE k = m
      BY <2>5, <3>1, <3>2
    <3>3. CASE k # m
      BY <2>1, <2>5, <3>1, <3>3
    <3> QED
      BY <3>2, <3>3
  <2> QED
    BY <2>4, <2>5, <2>6
<1>3. Short = {}
  <2> SUFFICES ASSUME Short # {} PROVE FALSE
    OBVIOUS
  <2> HIDE DEF Reaches
  <2>1. PICK m \in Short : \A j \in Short : m <= j
    BY LeastNumber
  <2>2. m # 0 /\ m - 1 \in 0..n /\ m - 1 \notin Short
    BY <1>1, <2>1
  <2> QED
    BY <1>2, <2>1, <2>2
<1> QED
  BY <1>3

\* What resolve follows: from c, hop by hop, within the created clusters.
LEMMA PathHops ==
  ASSUME NoCycle, NEW c \in Created
  PROVE  /\ Path(c) \in [0..Hops -> Created]
         /\ Path(c)[0] = c
         /\ \A k \in 1..Hops : Path(c)[k] = Hop(Path(c)[k - 1])
<1>0. Hops \in Nat
  BY HopsType
<1>1. PICK f \in [0..Hops -> Created] : f[0] = c /\ \A k \in 1..Hops : f[k] = Hop(f[k - 1])
  BY <1>0, PathExists
<1>2. f = [n \in 0..Hops |-> IF n = 0 THEN c ELSE Hop(f[n - 1])]
  BY <1>0, <1>1
<1> DEFINE p == Path(c)
<1>3. p = [n \in 0..Hops |-> IF n = 0 THEN c ELSE Hop(p[n - 1])]
  BY <1>2 DEF Path
<1> HIDE DEF p
<1>4. p[0] = c /\ \A k \in 1..Hops : p[k] = Hop(p[k - 1])
  BY <1>0, <1>3
<1> DEFINE Out == {n \in 0..Hops : p[n] \notin Created}
<1>5. Out = {}
  <2> SUFFICES ASSUME Out # {} PROVE FALSE
    OBVIOUS
  <2>1. PICK n \in Out : \A j \in Out : n <= j
    BY <1>0, LeastNumber
  <2>2. n # 0 /\ n - 1 \in 0..Hops /\ n - 1 \notin Out
    BY <1>0, <1>4, <2>1
  <2>3. p[n - 1] \in Created
    BY <2>2
  <2> QED
    BY <1>0, <1>4, <2>1, <2>2, <2>3, HopCreated
<1>6. p \in [0..Hops -> Created]
  BY <1>3, <1>5
<1> QED
  BY <1>4, <1>6 DEF p

\* A path that ends at a merged cluster has been at merged ones only, each further than the last.
LEMMA MergedPathClimbs ==
  ASSUME NoCycle, NEW c \in Created, status[resolve(c)] = "merged"
  PROVE  /\ Path(c) \in [0..Hops -> Merged]
         /\ \E order \in [Cluster -> Nat] :
              \A m, n \in 0..Hops : m < n => order[Path(c)[m]] < order[Path(c)[n]]
<1> DEFINE p == Path(c)
<1>0. Hops \in Nat
  BY HopsType
<1>1. /\ p \in [0..Hops -> Created] /\ \A k \in 1..Hops : p[k] = Hop(p[k - 1])
      /\ status[p[Hops]] = "merged"
  BY PathHops, ResolveIsPath
<1> HIDE DEF p
<1> DEFINE Ended == {n \in 0..Hops : status[p[n]] # "merged"}
<1>2. Ended = {}
  <2> SUFFICES ASSUME Ended # {} PROVE FALSE
    OBVIOUS
  <2>1. PICK n \in Ended : \A j \in Ended : j <= n
    BY <1>0, GreatestNumber
  <2>2. n # Hops /\ n + 1 \in 1..Hops /\ n + 1 \notin Ended
    BY <1>0, <1>1, <2>1
  <2>3. p[n + 1] = Hop(p[n])
    BY <1>0, <1>1, <2>1, <2>2
  <2>4. p[n + 1] = p[n]
    BY <2>1, <2>3 DEF Hop
  <2> QED
    BY <1>0, <2>1, <2>2, <2>4
<1>3. PICK order : Links(order)
  BY DEF NoCycle
<1>4. order \in [Cluster -> Nat]
  BY <1>3 DEF Links
<1>5. \A n \in 0..Hops : order[p[n]] \in Nat
  BY <1>1, <1>4 DEF Created
<1>6. \A k \in 1..Hops : order[p[k - 1]] < order[p[k]]
  <2> SUFFICES ASSUME NEW k \in 1..Hops PROVE order[p[k - 1]] < order[p[k]]
    OBVIOUS
  <2>1. k - 1 \in 0..Hops
    BY <1>0
  <2>2. p[k - 1] \in Cluster /\ status[p[k - 1]] = "merged" /\ p[k] = Hop(p[k - 1])
    BY <1>1, <1>2, <2>1 DEF Created
  <2> QED
    BY <1>3, <2>2 DEF Links, Hop
<1>7. ASSUME NEW m \in 0..Hops, NEW l \in 0..Hops, m < l PROVE order[p[m]] < order[p[l]]
  <2> DEFINE Low == {n \in 0..Hops : m < n /\ ~(order[p[m]] < order[p[n]])}
  <2>1. Low = {}
    <3> SUFFICES ASSUME Low # {} PROVE FALSE
      OBVIOUS
    <3>1. PICK n \in Low : \A j \in Low : n <= j
      BY <1>0, LeastNumber
    <3>2. n \in 1..Hops /\ n - 1 \in 0..Hops /\ n - 1 \notin Low /\ m <= n - 1
      BY <1>0, <3>1
    <3>3. order[p[n - 1]] < order[p[n]]
      BY <1>6, <3>2
    <3>4. m = n - 1 \/ order[p[m]] < order[p[n - 1]]
      BY <1>0, <3>2
    <3>5. order[p[m]] \in Nat /\ order[p[n - 1]] \in Nat /\ order[p[n]] \in Nat
      BY <1>5, <3>1, <3>2
    <3>6. order[p[m]] < order[p[n]]
      BY <3>3, <3>4, <3>5
    <3> QED
      BY <3>1, <3>6
  <2> QED
    BY <1>7, <2>1
<1>8. p \in [0..Hops -> Merged]
  BY <1>1, <1>2 DEF Created, Merged
<1> QED
  BY <1>4, <1>7, <1>8 DEF p

\* Resolve stops at a merged cluster only when it has been at more of them than it follows merges.
LEMMA PathEnds ==
  ASSUME NoCycle, NEW c \in Created, status[resolve(c)] = "merged"
  PROVE  Cardinality(Merged) > 50
<1>1. PICK order \in [Cluster -> Nat] :
        \A m, n \in 0..Hops : m < n => order[Path(c)[m]] < order[Path(c)[n]]
  BY MergedPathClimbs
<1>2. Path(c) \in [0..Hops -> Merged] /\ Merged \subseteq Cluster
  BY MergedPathClimbs DEF Merged
<1>3. MaxCluster \in Nat /\ Hops \in Nat
  BY BoundsAssumption, HopsType
<1>4. IsFiniteSet(Cluster) /\ Cardinality(Cluster) = MaxCluster
  <2>1. Cardinality(1..MaxCluster) = IF 1 > MaxCluster THEN 0 ELSE MaxCluster - 1 + 1
    BY <1>3, FS_Interval
  <2> QED
    BY <1>3, <2>1, FS_Interval, BoundsAssumption DEF Cluster
<1>5. IsFiniteSet(0..Hops) /\ Cardinality(0..Hops) = Hops + 1
  <2>1. Cardinality(0..Hops) = IF 0 > Hops THEN 0 ELSE Hops - 0 + 1
    BY <1>3, FS_Interval
  <2> QED
    BY <1>3, <2>1, FS_Interval
<1>6. IsFiniteSet(Merged) /\ Cardinality(Merged) <= MaxCluster /\ Cardinality(Merged) \in Nat
  BY <1>2, <1>4, FS_Subset, FS_CardinalityType
<1>7. Cardinality(Merged) > Hops
  <2> SUFFICES ASSUME Cardinality(Merged) <= Hops PROVE FALSE
    BY <1>3, <1>6
  <2>1. PICK m \in 0..Hops, n \in 0..Hops : m # n /\ Path(c)[m] = Path(c)[n]
    <3>1. Cardinality(Merged) < Cardinality(0..Hops)
      BY <1>3, <1>5, <1>6
    <3> QED
      BY <1>2, <1>5, <1>6, <3>1, FS_PigeonHole
  <2>2. order[Path(c)[m]] \in Nat
    BY <1>1, <1>2
  <2>3. m < n \/ n < m
    BY <1>3, <2>1
  <2> QED
    BY <1>1, <2>1, <2>2, <2>3
<1> QED
  BY <1>3, <1>6, <1>7, HopsType

\* From every cluster there is, resolve ends at one that is not merged, unless more than the fifty it
\* follows are merged away at once.
THEOREM ResolveEndsHolds == Spec => []ResolveEnds
<1>1. IInv /\ NoCycle => ResolveEnds
  <2> SUFFICES ASSUME IInv, NoCycle, NEW c \in Cluster, status[c] # "none"
               PROVE  \/ status[resolve(c)] \in {"open", "dissolved"}
                      \/ Cardinality({d \in Cluster : status[d] = "merged"}) > 50
    BY DEF ResolveEnds
  <2>1. c \in Created
    BY DEF Created
  <2>2. resolve(c) \in Created
    BY <2>1, PathHops, ResolveIsPath, HopsType
  <2>3. status[resolve(c)] \in Statuses /\ status[resolve(c)] # "none"
    BY <2>2 DEF Created, IInv, Shapes
  <2> QED
    BY <2>1, <2>3, PathEnds DEF Statuses, Merged
<1> QED
  BY <1>1, InvHolds, MergesNeverCycle, PTL

-----------------------------------------------------------------------------
(* The record of moves *)

\* What a move says.
MoveRow == [from : Cluster, to : Cluster, reports : SUBSET Item, undoable : BOOLEAN]

LEMMA RecordTyped ==
  ASSUME NEW rows \in Seq(AuditRow)
  PROVE  /\ movesOf(rows) \in Seq(MoveRow) /\ Len(movesOf(rows)) = Len(rows)
         /\ \A k \in DOMAIN rows : movesOf(rows)[k] = moveOf(rows[k])
<1>1. DOMAIN rows = 1..Len(rows) /\ Len(rows) \in Nat
  OBVIOUS
<1>2. ASSUME NEW k \in DOMAIN rows PROVE moveOf(rows[k]) \in MoveRow
  <2>1. rows[k] \in AuditRow
    OBVIOUS
  <2> QED
    BY <2>1 DEF moveOf, MoveRow, AuditRow
<1>3. movesOf(rows) \in [1..Len(rows) -> MoveRow]
  BY <1>1, <1>2 DEF movesOf
<1>4. movesOf(rows) \in Seq(MoveRow) /\ Len(movesOf(rows)) = Len(rows)
  BY <1>1, <1>3
<1> QED
  BY <1>4 DEF movesOf

\* The record of a longer audit is that of the rows before, as they are said to be now, and the newest
\* row's move.
LEMMA RecordAppends ==
  ASSUME NEW old \in Seq(AuditRow), NEW new \in Seq(AuditRow), Len(new) = Len(old) + 1,
         NEW before \in Seq(MoveRow), Len(before) = Len(old),
         \A j \in DOMAIN old : moveOf(new[j]) = before[j]
  PROVE  movesOf(new) = Append(before, moveOf(new[Len(old) + 1]))
<1> DEFINE last == moveOf(new[Len(old) + 1])
           n == Len(old)
<1>1. n \in Nat /\ DOMAIN old = 1..n /\ DOMAIN new = 1..n + 1
  OBVIOUS
<1>2. /\ movesOf(new) \in Seq(MoveRow) /\ Len(movesOf(new)) = n + 1
      /\ \A k \in 1..n + 1 : movesOf(new)[k] = moveOf(new[k])
  BY <1>1, RecordTyped
<1>3. last \in MoveRow
  <2>1. movesOf(new)[n + 1] \in MoveRow
    BY <1>1, <1>2, ElementOfSeq
  <2> QED
    BY <1>1, <1>2, <2>1
<1> HIDE DEF last
<1>4. /\ Append(before, last) \in Seq(MoveRow) /\ Len(Append(before, last)) = n + 1
      /\ \A k \in 1..n : Append(before, last)[k] = before[k]
      /\ Append(before, last)[n + 1] = last
  BY <1>3, AppendProperties
<1>5. \A k \in 1..n + 1 : movesOf(new)[k] = Append(before, last)[k]
  BY <1>1, <1>2, <1>4 DEF last
<1> QED
  BY <1>2, <1>4, <1>5, SeqEqual DEF last

\* What a row's move says.
LEMMA MoveSays ==
  ASSUME NEW a, NEW from, NEW to, NEW undoable \in BOOLEAN,
         IF a.action \in {"split", "reverse_merge"} THEN from = a.cluster /\ to = a.other
         ELSE from = a.other /\ to = a.cluster,
         undoable <=> a.action \in {"merge", "split"} /\ ~a.reversed
  PROVE  moveOf(a) = Abstract!Row(from, to, a.items, undoable)
<1> DEFINE m == moveOf(a)
<1>1. m = [from |-> m.from, to |-> m.to, reports |-> m.reports, undoable |-> m.undoable]
  BY DEF moveOf
<1>2. m.from = from /\ m.to = to /\ m.reports = a.items
  BY DEF moveOf
<1>3. m.undoable = undoable
  <2>1. (a.action \in {"merge", "split"} /\ ~a.reversed) = undoable
    OBVIOUS
  <2> QED
    BY <2>1 DEF moveOf
<1> HIDE DEF m
<1> QED
  BY <1>1, <1>2, <1>3 DEF m, Abstract!Row

\* A row reversed since is the same move, which can no longer be taken back.
LEMMA ReversedMove ==
  ASSUME NEW a, NEW b, SameRow(a, b), a.reversed = TRUE, moveOf(a) \in MoveRow, moveOf(b) \in MoveRow
  PROVE  moveOf(a) = [moveOf(b) EXCEPT !.undoable = FALSE]
<1> DEFINE m == moveOf(a)
           n == moveOf(b)
<1>1. m.from = n.from /\ m.to = n.to /\ m.reports = n.reports
  BY DEF moveOf, SameRow
<1>2. m.undoable = FALSE
  <2>1. (a.action \in {"merge", "split"} /\ ~a.reversed) = FALSE
    OBVIOUS
  <2> QED
    BY <2>1 DEF moveOf
<1> HIDE DEF m, n
<1>3. m \in MoveRow /\ n \in MoveRow
  BY DEF m, n
<1>4. m = [n EXCEPT !.undoable = FALSE]
  BY <1>1, <1>2, <1>3 DEF MoveRow
<1> QED
  BY <1>4 DEF m, n

\* An audited operation that marks no row is recorded as a move that can be taken back.
LEMMA MoveRecorded ==
  ASSUME IInv, NEW action \in {"merge", "split"}, NEW c \in Cluster, NEW d \in Cluster,
         NEW S \in SUBSET Item, audit' = recordAudit(action, c, d, S)
  PROVE  /\ movesOf(audit') = Append(movesOf(audit),
               IF action = "merge" THEN Abstract!Row(d, c, S, TRUE) ELSE Abstract!Row(c, d, S, TRUE))
         /\ movesOf(audit') # movesOf(audit)
<1>1. audit \in Seq(AuditRow) /\ action \in Actions
  BY DEF IInv, Shapes, Actions
<1>2. /\ audit' \in Seq(AuditRow) /\ Len(audit') = Len(audit) + 1
      /\ \A k \in DOMAIN audit : audit'[k] = audit[k]
      /\ audit'[Len(audit) + 1] =
           [action |-> action, cluster |-> c, other |-> d, items |-> S, reversed |-> FALSE]
  BY <1>1, RowRecorded
<1>3. /\ movesOf(audit) \in Seq(MoveRow) /\ Len(movesOf(audit)) = Len(audit)
      /\ \A k \in DOMAIN audit : movesOf(audit)[k] = moveOf(audit[k])
      /\ Len(movesOf(audit')) = Len(audit) + 1 /\ Len(audit) \in Nat
  BY <1>1, <1>2, RecordTyped
<1>4. movesOf(audit') = Append(movesOf(audit), moveOf(audit'[Len(audit) + 1]))
  BY <1>1, <1>2, <1>3, RecordAppends
<1>5. moveOf(audit'[Len(audit) + 1]) =
        IF action = "merge" THEN Abstract!Row(d, c, S, TRUE) ELSE Abstract!Row(c, d, S, TRUE)
  <2> DEFINE new == audit'[Len(audit) + 1]
  <2>1. new.action = action /\ new.cluster = c /\ new.other = d /\ new.items = S /\ new.reversed = FALSE
    BY <1>2
  <2> HIDE DEF new
  <2>2. moveOf(new) = IF action = "merge" THEN Abstract!Row(d, c, S, TRUE) ELSE Abstract!Row(c, d, S, TRUE)
    BY <2>1, MoveSays
  <2> QED
    BY <2>2 DEF new
<1>6. movesOf(audit') # movesOf(audit)
  BY <1>3
<1> QED
  BY <1>4, <1>5, <1>6

\* A reversal is recorded as a move the other way that cannot be taken back, and its row no longer can.
LEMMA ReversalRecorded ==
  ASSUME IInv, NEW k \in DOMAIN audit, NEW action \in {"reverse_merge", "reverse_split"},
         action = IF audit[k].action = "merge" THEN "reverse_merge" ELSE "reverse_split",
         audit[k].action \in {"merge", "split"}, ~audit[k].reversed,
         NEW S \in SUBSET Item, audit' = reversalRow(action, audit[k], S, k)
  PROVE  LET m == movesOf(audit)[k] IN
         /\ m.undoable /\ m = moveOf(audit[k]) /\ k \in DOMAIN movesOf(audit)
         /\ movesOf(audit') = Append([movesOf(audit) EXCEPT ![k].undoable = FALSE],
                                     Abstract!Row(m.to, m.from, S, FALSE))
         /\ movesOf(audit') # movesOf(audit)
<1> DEFINE m == moveOf(audit[k])
           taken == [m EXCEPT !.undoable = FALSE]
           before == [movesOf(audit) EXCEPT ![k] = taken]
<1>1. audit \in Seq(AuditRow) /\ action \in Actions /\ Len(audit) \in Nat /\ k \in 1..Len(audit)
  BY DEF IInv, Shapes, Actions
<1>2. /\ audit' \in Seq(AuditRow) /\ Len(audit') = Len(audit) + 1
      /\ \A j \in DOMAIN audit : SameRow(audit'[j], audit[j])
      /\ \A j \in DOMAIN audit \ {k} : audit'[j] = audit[j]
      /\ LET new == audit'[Len(audit) + 1] IN
           /\ new.action = action /\ new.cluster = audit[k].cluster
           /\ new.other = audit[k].other /\ new.items = S
  BY <1>1, ReversalRows
<1>3. audit'[k].reversed = TRUE
  <2> DEFINE rows == recordAudit(action, audit[k].cluster, audit[k].other, S)
  <2>1. rows \in Seq(AuditRow) /\ Len(rows) = Len(audit) + 1
    BY <1>1, RowTyped, RowRecorded
  <2>2. audit' = Reversed(rows, k)
    BY DEF reversalRow
  <2> HIDE DEF rows
  <2>3. k \in DOMAIN rows /\ rows[k] \in AuditRow
    BY <1>1, <2>1
  <2> QED
    BY <2>2, <2>3 DEF Reversed, AuditRow
<1>4. /\ movesOf(audit) \in Seq(MoveRow) /\ Len(movesOf(audit)) = Len(audit)
      /\ \A j \in DOMAIN audit : movesOf(audit)[j] = moveOf(audit[j])
      /\ Len(movesOf(audit')) = Len(audit) + 1
  BY <1>1, <1>2, RecordTyped
<1>5. m.undoable /\ m \in MoveRow /\ taken \in MoveRow
  <2>1. m.undoable
    BY DEF moveOf
  <2>2. m \in MoveRow
    BY <1>1, <1>4, ElementOfSeq
  <2> HIDE DEF m
  <2> QED
    BY <2>1, <2>2 DEF MoveRow
<1>6. moveOf(audit'[k]) = taken
  <2>1. k \in DOMAIN audit' /\ moveOf(audit'[k]) = movesOf(audit')[k] /\ k \in 1..Len(movesOf(audit'))
    BY <1>1, <1>2, RecordTyped
  <2>2. moveOf(audit'[k]) \in MoveRow
    BY <1>2, <2>1, RecordTyped, ElementOfSeq
  <2> QED
    BY <1>2, <1>3, <1>5, <2>2, ReversedMove
<1>7. moveOf(audit'[Len(audit) + 1]) = Abstract!Row(m.to, m.from, S, FALSE)
  <2>1. IF audit[k].action = "merge" THEN m.from = audit[k].other /\ m.to = audit[k].cluster
        ELSE m.from = audit[k].cluster /\ m.to = audit[k].other
    BY DEF moveOf
  <2> DEFINE new == audit'[Len(audit) + 1]
  <2>2. /\ new.action = action /\ new.cluster = audit[k].cluster /\ new.other = audit[k].other
        /\ new.items = S
    BY <1>2
  <2> HIDE DEF m, new
  <2>3. moveOf(new) = Abstract!Row(m.to, m.from, new.items, FALSE)
    <3>1. new.action \in {"split", "reverse_merge"} <=> audit[k].action = "merge"
      BY <2>2
    <3>2. ~(new.action \in {"merge", "split"})
      BY <2>2
    <3>3. IF new.action \in {"split", "reverse_merge"} THEN m.to = new.cluster /\ m.from = new.other
          ELSE m.to = new.other /\ m.from = new.cluster
      BY <2>1, <2>2, <3>1
    <3> QED
      BY <3>2, <3>3, MoveSays
  <2> QED
    BY <2>2, <2>3 DEF new
<1>8. movesOf(audit)[k] = m
  BY <1>4
<1> HIDE DEF m
<1>9. [movesOf(audit) EXCEPT ![k].undoable = FALSE] = before
  BY <1>8
<1> HIDE DEF taken
<1>10. /\ before \in Seq(MoveRow) /\ Len(before) = Len(audit)
       /\ \A j \in 1..Len(audit) : before[j] = IF j = k THEN taken ELSE movesOf(audit)[j]
  BY <1>1, <1>4, <1>5, ExceptSeq
<1> HIDE DEF before
<1>11. \A j \in DOMAIN audit : moveOf(audit'[j]) = before[j]
  BY <1>1, <1>2, <1>4, <1>6, <1>10
<1>12. movesOf(audit') = Append(before, moveOf(audit'[Len(audit) + 1]))
  BY <1>1, <1>2, <1>10, <1>11, RecordAppends
<1>13. k \in DOMAIN movesOf(audit) /\ movesOf(audit') # movesOf(audit)
  BY <1>1, <1>4
<1> QED
  BY <1>5, <1>7, <1>8, <1>9, <1>12, <1>13 DEF m

Open == {c \in Cluster : status[c] = "open"}

\* Each operation of an editor is a move between stories, or takes one back.
LEMMA MergeIsMove ==
  ASSUME IInv, NEW c \in Cluster, NEW d \in Cluster, merge(c, d)
  PROVE  /\ d \in Open /\ movesOf(audit') # movesOf(audit)
         /\ \E S \in SUBSET {r \in Item : at[r] = d} : Abstract!Move(S, d, c)
<1>1. PICK S \in SUBSET Item : S = {r \in Item : at[r] = d}
  OBVIOUS
<1>2. /\ status[c] = "open" /\ status[d] = "open" /\ c # d /\ status \in [Cluster -> Statuses]
      /\ at' = Moved(S, c) /\ status' = [status EXCEPT ![d] = "merged"]
      /\ audit' = recordAudit("merge", c, d, S)
  BY <1>1 DEF merge, mustOpen, mergedItems, members, IInv, Shapes
<1>3. /\ movesOf(audit') = Append(movesOf(audit), Abstract!Row(d, c, S, TRUE))
      /\ movesOf(audit') # movesOf(audit)
  BY <1>2, MoveRecorded
<1>4. Open' = (Open \cup {c}) \ {d} /\ d \in Open
  BY <1>2 DEF Open
<1>5. at' = [i \in Item |-> IF i \in S THEN c ELSE at[i]]
  BY <1>2 DEF Moved
<1>6. \A i \in Item : at'[i] # d
  BY <1>1, <1>2, <1>5
<1>7. Abstract!Move(S, d, c)
  BY <1>2, <1>3, <1>4, <1>5, <1>6 DEF Abstract!Move, Abstract!Shift, Open
<1> QED
  BY <1>1, <1>3, <1>4, <1>7

LEMMA SplitIsMove ==
  ASSUME IInv, NEW c \in Cluster, NEW S, NEW new \in Cluster, splitOff(c, S, new)
  PROVE  c \in Open /\ movesOf(audit') # movesOf(audit) /\ S \in SUBSET members(c)
         /\ Abstract!Move(S, c, new)
<1>1. /\ status[c] = "open" /\ c # new /\ status \in [Cluster -> Statuses]
      /\ at' = Moved(S, new) /\ status' = [status EXCEPT ![new] = "open"]
      /\ audit' = recordAudit("split", c, new, S) /\ S \in SUBSET members(c) /\ S \in SUBSET Item
  BY DEF splitOff, mustOpen, isNext, members, IInv, Shapes
<1>2. /\ movesOf(audit') = Append(movesOf(audit), Abstract!Row(c, new, S, TRUE))
      /\ movesOf(audit') # movesOf(audit)
  BY <1>1, MoveRecorded
<1>3. Open' = Open \cup {new} /\ c \in Open
  BY <1>1 DEF Open
<1>4. at' = [i \in Item |-> IF i \in S THEN new ELSE at[i]]
  BY <1>1 DEF Moved
<1> QED
  BY <1>1, <1>2, <1>3, <1>4 DEF Abstract!Move, Abstract!Shift, Open

LEMMA ReverseMergeTakesBack ==
  ASSUME IInv, NEW k \in DOMAIN audit, reverseMerge(k)
  PROVE  k \in DOMAIN movesOf(audit) /\ movesOf(audit') # movesOf(audit) /\ Abstract!TakeBack(k)
<1> DEFINE c == audit[k].cluster
           d == audit[k].other
           S == stillThere(audit[k], c)
           m == movesOf(audit)[k]
<1>1. /\ ~audit[k].reversed /\ audit[k].action = "merge" /\ c \in Cluster /\ d \in Cluster /\ c # d
      /\ at' = Moved(S, d) /\ status' = [status EXCEPT ![d] = "open"]
      /\ status \in [Cluster -> Statuses]
      /\ audit' = reversalRow("reverse_merge", audit[k], S, k) /\ S \in SUBSET Item
  BY RowTyped DEF reverseMerge, stillThere, IInv, Shapes
<1>2. /\ m.undoable /\ m = moveOf(audit[k]) /\ k \in DOMAIN movesOf(audit)
      /\ movesOf(audit') = Append([movesOf(audit) EXCEPT ![k].undoable = FALSE],
                                  Abstract!Row(m.to, m.from, S, FALSE))
      /\ movesOf(audit') # movesOf(audit)
  BY <1>1, ReversalRecorded
<1>3. m.from = d /\ m.to = c /\ m.reports = audit[k].items
  BY <1>1, <1>2 DEF moveOf
<1>4. S = {r \in m.reports : at[r] = m.to}
  BY <1>3 DEF stillThere
<1>5. Open' = Open \cup {d}
  BY <1>1 DEF Open
<1>6. at' = [i \in Item |-> IF i \in S THEN d ELSE at[i]]
  BY <1>1 DEF Moved
<1> HIDE DEF c, d, S, m
<1>7. Abstract!Shift(S, m.to, m.from)
  BY <1>1, <1>3, <1>5, <1>6 DEF Abstract!Shift, Open
<1> QED
  BY <1>2, <1>4, <1>7 DEF Abstract!TakeBack, m

LEMMA ReverseSplitTakesBack ==
  ASSUME IInv, NEW k \in DOMAIN audit, reverseSplit(k)
  PROVE  k \in DOMAIN movesOf(audit) /\ movesOf(audit') # movesOf(audit) /\ Abstract!TakeBack(k)
<1> DEFINE c == audit[k].cluster
           d == audit[k].other
           S == stillThere(audit[k], d)
           m == movesOf(audit)[k]
<1>1. /\ ~audit[k].reversed /\ audit[k].action = "split" /\ c \in Cluster /\ d \in Cluster /\ c # d
      /\ at' = Moved(S, c) /\ status[c] = "open" /\ status \in [Cluster -> Statuses]
      /\ audit' = reversalRow("reverse_split", audit[k], S, k) /\ S \in SUBSET Item
      /\ status' = IF left(d, S) = {} THEN [status EXCEPT ![d] = "dissolved"] ELSE status
  BY RowTyped DEF reverseSplit, stillThere, mustOpen, IInv, Shapes
<1>2. /\ m.undoable /\ m = moveOf(audit[k]) /\ k \in DOMAIN movesOf(audit)
      /\ movesOf(audit') = Append([movesOf(audit) EXCEPT ![k].undoable = FALSE],
                                  Abstract!Row(m.to, m.from, S, FALSE))
      /\ movesOf(audit') # movesOf(audit)
  BY <1>1, ReversalRecorded
<1>3. m.from = c /\ m.to = d /\ m.reports = audit[k].items
  BY <1>1, <1>2 DEF moveOf
<1>4. S = {r \in m.reports : at[r] = m.to}
  BY <1>3 DEF stillThere
<1>5. at' = [i \in Item |-> IF i \in S THEN c ELSE at[i]]
  BY <1>1 DEF Moved
<1>6. /\ left(d, S) = {} => Open' = (Open \cup {c}) \ {d} /\ \A i \in Item : at'[i] # d
      /\ left(d, S) # {} => Open' = Open \cup {c}
  BY <1>1, <1>5 DEF Open, left, members
<1> HIDE DEF c, d, S, m
<1>7. Abstract!Shift(S, m.to, m.from)
  BY <1>1, <1>3, <1>5, <1>6 DEF Abstract!Shift, Open
<1> QED
  BY <1>2, <1>4, <1>7 DEF Abstract!TakeBack, m

\* An item ingested enters one open story.
LEMMA IngestEnters ==
  ASSUME IInv, NEW i \in Item, Ingest(i)
  PROVE  /\ audit' = audit
         /\ UNCHANGED <<at, Open>> \/ \E s \in Cluster : Abstract!Enter(i, s)
<1> DEFINE Enters(s) == at[i] = NoCluster /\ Place(i, s) /\ Open' = Open \cup {s} /\ audit' = audit
<1>1. ASSUME NEW hit \in Item, assignDuplicate(i, hit) PROVE \E s \in Cluster : Enters(s)
  <2> DEFINE s == at[original[hit]]
  <2>1. s \in Cluster /\ status[s] = "open" /\ ~Placed(i) /\ Place(i, s)
    BY <1>1, DuplicateFollows
  <2>2. UNCHANGED <<status, audit>>
    BY <1>1 DEF assignDuplicate
  <2> QED
    BY <2>1, <2>2 DEF Open, Placed
<1>2. ASSUME NEW s \in Cluster, assignMatched(i, s) PROVE Enters(s)
  BY <1>2 DEF assignMatched, mustOpen, Open
<1>3. ASSUME NEW s \in Cluster, assignNew(i, s) PROVE Enters(s)
  <2>1. status \in [Cluster -> Statuses]
    BY DEF IInv, Shapes
  <2> QED
    BY <1>3, <2>1 DEF assignNew, Open
<1>4. updateItem(i) \/ applyRemoval(i) => UNCHANGED <<audit, at, Open>>
  BY DEF updateItem, applyRemoval, Open
<1>5. \A s \in Cluster : Enters(s) => Abstract!Enter(i, s) /\ audit' = audit
  BY DEF Abstract!Enter, Place, Open
<1> HIDE DEF Enters
<1> QED
  BY <1>1, <1>2, <1>3, <1>4, <1>5 DEF Ingest

\* Every step is a step of the editors' promise, or changes nothing of it.
LEMMA StepKeepsPromise ==
  ASSUME IInv, [Next]_vars
  PROVE  Abstract!Next \/ UNCHANGED <<at, movesOf(audit), Open>>
<1>1. ASSUME NEW i \in Item, Ingest(i) PROVE Abstract!Next \/ UNCHANGED <<at, movesOf(audit), Open>>
  BY <1>1, IngestEnters DEF Abstract!Next
<1>2. ASSUME NEW c \in Cluster, NEW d \in Cluster, merge(c, d) PROVE Abstract!Next
  BY <1>2, MergeIsMove DEF Abstract!Next, Abstract!Edit, Open
<1>3. ASSUME NEW c \in Cluster, NEW d \in Cluster, NEW S, splitOff(c, S, d) PROVE Abstract!Next
  BY <1>3, SplitIsMove DEF Abstract!Next, Abstract!Edit, Open, members
<1>4. ASSUME NEW k \in DOMAIN audit, reverseMerge(k) \/ reverseSplit(k) PROVE Abstract!Next
  BY <1>4, ReverseMergeTakesBack, ReverseSplitTakesBack DEF Abstract!Next, Abstract!Edit
<1>5. CASE Edit
  BY <1>2, <1>3, <1>4, <1>5 DEF Edit, split
<1>6. CASE Regroup
  <2>1. ASSUME NEW g \in job.groups, NEW new \in Cluster, resplitGroup(g, new) PROVE Abstract!Next
    <3>1. splitOff(job.from, g, new) /\ job.from \in Cluster
      BY <2>1 DEF resplitGroup, IInv, Shapes
    <3> QED
      BY <1>3, <3>1
  <2>2. ASSUME NEW c \in Cluster, resplit(c) PROVE UNCHANGED <<at, audit, status>>
    BY <2>2 DEF resplit
  <2>3. resplitStops => UNCHANGED <<at, audit, status>>
    BY DEF resplitStops
  <2>4. UNCHANGED <<at, audit, status>> => UNCHANGED <<at, movesOf(audit), Open>>
    BY DEF Open
  <2> QED
    BY <1>6, <2>1, <2>2, <2>3, <2>4 DEF Regroup
<1>7. CASE UNCHANGED vars
  BY <1>7 DEF vars, Open
<1> QED
  BY <1>1, <1>5, <1>6, <1>7 DEF Next

\* The editors' promise: whatever is ingested, removed, merged, split, regrouped and reversed meanwhile,
\* a report changes story only by an audited move, a move is reversed at most once, and what goes back
\* is what is still there.  Clusters implements Moves.
THEOREM ClustersImplementMoves == Spec => ImplementsMoves
<1>1. Init => Abstract!Init
  <2>1. ASSUME audit = <<>> PROVE movesOf(audit) = <<>>
    <3>1. DOMAIN audit = {}
      BY <2>1
    <3> QED
      BY <3>1 DEF movesOf
  <2> QED
    BY <2>1 DEF Init, Abstract!Init
<1>2. IInv /\ [Next]_vars => [Abstract!Next]_<<at, movesOf(audit), Open>>
  BY StepKeepsPromise
<1> QED
  BY <1>1, <1>2, InvHolds, PTL DEF Spec, ImplementsMoves, Abstract!Spec, Open
=============================================================================

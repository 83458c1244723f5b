------------------------------ MODULE Clusters ------------------------------
(***************************************************************************)
(* Clusters of source items (server/domain/clusters.js): an ingested item  *)
(* joins an open cluster or starts one, editors merge, split, regroup and  *)
(* reverse, and every merge, split and reversal is audited with exactly    *)
(* the items it moved.  Each operation is one transaction, except resplit: *)
(* it reads the members, works out the groups, and then splits them off in *)
(* one transaction per group.                                              *)
(*                                                                         *)
(* Which open cluster an item matches is decided as in Matching.  The      *)
(* terms, entities and window recompute stores are represented by the      *)
(* members they were built from.  The words of an item never change here;  *)
(* a newer revision of it only rebuilds its cluster.                       *)
(***************************************************************************)
EXTENDS Sequences, Matching

CONSTANTS
  Alike,       \* pairs of items dedupe takes for one report, the later first
  Withdrawn,   \* items that may be removed upstream
  Early,       \* items published before any report they may duplicate
  MaxCluster,  \* bound: clusters ever created
  MaxAudit     \* bound: audit rows

ASSUME DuplicatesAssumption == Alike \subseteq Item \X Item /\ Early \subseteq Item
ASSUME WithdrawnAssumption == Withdrawn \subseteq Item
ASSUME BoundsAssumption == MaxCluster \in Nat \ {0} /\ MaxAudit \in Nat

Cluster == 1..MaxCluster   \* in the order they are created
NoCluster == 0

VARIABLES
  status,    \* status[c]: "none" until created, then open, merged or dissolved
  into,      \* into[c]: merged_into
  at,        \* at[i]: the item's cluster, NoCluster before it is ingested
  removed,   \* items removed upstream
  original,  \* original[i]: duplicate_of, the item itself when it is no duplicate
  core,      \* core[c]: the members the stored terms and window were built from
  audit,     \* the audit rows, oldest first
  job,       \* a regrouping between its reads and its last split
  home       \* history: the cluster each item was placed in when ingested

vars == <<status, into, at, removed, original, core, audit, job, home>>

-----------------------------------------------------------------------------

Statuses == {"none", "open", "merged", "dissolved"}
Actions == {"merge", "split", "reverse_merge", "reverse_split"}
AuditRow ==
  [action : Actions, cluster : Cluster, other : Cluster, items : SUBSET Item, reversed : BOOLEAN]
Idle == [from |-> NoCluster, groups |-> {}]

\* Merges resolve follows: 50, and no more than there are clusters here.
Hops == IF MaxCluster < 50 THEN MaxCluster ELSE 50

members(c) == {i \in Item : at[i] = c}
countable(c) == members(c) \ removed
isDuplicate(i) == original[i] # i

\* The public wire: what readers see of a cluster, each report once.
wire(c) == {i \in countable(c) : status[c] = "open" /\ ~isDuplicate(i)}

\* Mutant: a cluster that was absorbed can absorb again.
mustOpen_exists(c) == status[c] # "none"

mustOpen(c) == status[c] = "open"
isNext(c) == status[c] = "none" /\ \A d \in Cluster : d < c => status[d] # "none"

\* Follow merges to the cluster that holds the items now.
resolve(c) ==
  LET step(d) == IF status[d] = "merged" THEN into[d] ELSE d
      follow[n \in 0..Hops] == IF n = 0 THEN c ELSE step(follow[n - 1])
  IN follow[Hops]

\* Mutant: a split rebuilds the new cluster only.
recomputeBoth_newOnly(a, b, newAt) ==
  [core EXCEPT ![b] = {i \in Item : newAt[i] = b} \ removed]

\* Rebuild two clusters' terms, entities and window from their members.
recomputeBoth(a, b, newAt) ==
  [c \in Cluster |-> IF c \in {a, b} THEN {i \in Item : newAt[i] = c} \ removed ELSE core[c]]

recordAudit(action, c, d, S) ==
  Append(audit, [action |-> action, cluster |-> c, other |-> d, items |-> S, reversed |-> FALSE])

Moved(S, c) == [i \in Item |-> IF i \in S THEN c ELSE at[i]]

-----------------------------------------------------------------------------
(* Ingestion *)

Place(i, c) ==
  /\ at' = [at EXCEPT ![i] = c]
  /\ home' = [home EXCEPT ![i] = c]

\* What dedupe names: never a duplicate, and perhaps a report removed since.
firstReport(hit) == original[hit]

\* A duplicate follows its original; the cluster's core is not rebuilt for it.
assignDuplicate(i, hit) ==
  /\ <<i, hit>> \in Alike /\ at[i] = NoCluster /\ at[hit] # NoCluster /\ hit \notin removed
  /\ original' = [original EXCEPT ![i] = firstReport(hit)]
  /\ Place(i, resolve(at[firstReport(hit)]))
  /\ UNCHANGED <<status, into, removed, core, audit, job>>

Common(i) == windowCommon(i, {j \in Item : at[j] # NoCluster /\ ~isDuplicate(j)} \ removed)

\* A cluster's size is what is not removed of it, the duplicates its stored words leave out too.
matches(i) ==
  LET common == Common(i) IN
  {c \in Cluster :
     mustOpen(c) /\ near(i, core[c]) /\ joins(i, core[c], Cardinality(countable(c)), common)}

\* The best score, the oldest of equals.
best(i) ==
  LET M == matches(i)
      s(c) == score(i, core[c], Cardinality(countable(c)), Common(i))
  IN CHOOSE c \in M : \A d \in M : s(d) < s(c) \/ (s(d) = s(c) /\ c <= d)

assignMatched(i, c) ==
  /\ at[i] = NoCluster /\ mustOpen(c)
  /\ c \in matches(i) /\ c = best(i)
  /\ Place(i, c)
  /\ core' = [core EXCEPT ![c] = countable(c) \cup {i}]
  /\ UNCHANGED <<status, into, removed, original, audit, job>>

assignNew(i, c) ==
  /\ at[i] = NoCluster /\ isNext(c) /\ matches(i) = {}
  /\ status' = [status EXCEPT ![c] = "open"]
  /\ Place(i, c)
  /\ core' = [core EXCEPT ![c] = {i}]
  /\ UNCHANGED <<into, removed, original, audit, job>>

\* apply with a newer revision: the item keeps its cluster, whose core is rebuilt.
updateItem(i) ==
  /\ at[i] # NoCluster /\ i \notin removed
  /\ LET c == resolve(at[i]) IN core' = [core EXCEPT ![c] = countable(c)]
  /\ UNCHANGED <<status, into, at, removed, original, audit, job, home>>

applyRemoval(i) ==
  /\ i \in Withdrawn /\ at[i] # NoCluster /\ i \notin removed
  /\ removed' = removed \cup {i}
  /\ LET c == resolve(at[i]) IN core' = [core EXCEPT ![c] = countable(c) \ {i}]
  /\ UNCHANGED <<status, into, at, original, audit, job, home>>

-----------------------------------------------------------------------------
(* Editors *)

\* Mutant: the audit lists the items still live, not every item moved.
mergedItems_live(d) == countable(d)

mergedItems(d) == members(d)

merge(c, d) ==
  /\ mustOpen(c) /\ mustOpen(d) /\ c # d
  /\ Len(audit) < MaxAudit
  /\ at' = Moved(members(d), c)
  /\ status' = [status EXCEPT ![d] = "merged"]
  /\ into' = [into EXCEPT ![d] = c]
  /\ audit' = recordAudit("merge", c, d, mergedItems(d))
  /\ core' = [core EXCEPT ![c] = {i \in Item : at'[i] = c} \ removed]
  /\ UNCHANGED <<removed, original, job, home>>

splitOff(c, S, new) ==
  /\ mustOpen(c) /\ isNext(new) /\ Len(audit) < MaxAudit
  /\ S # {} /\ S \subseteq members(c) /\ S # members(c)
  /\ status' = [status EXCEPT ![new] = "open"]
  /\ at' = Moved(S, new)
  /\ audit' = recordAudit("split", c, new, S)
  /\ core' = recomputeBoth(c, new, at')
  /\ UNCHANGED <<into, removed, original, home>>

split(c, S, new) == splitOff(c, S, new) /\ UNCHANGED job

\* The groups after the first: disjoint sets of live members that leave the first report's group
\* where it is.  The reports are taken in the order they were published, so a duplicate goes with
\* its original unless it was published before it.
Groupings(c) ==
  LET M == countable(c)
      groups(f) == {{i \in M : f[i] = k} : k \in 1..Cardinality(M)} \ {{}}
  IN {groups(f) : f \in {g \in [M -> 0..Cardinality(M) - 1] :
        /\ M # {} => \E i \in M : g[i] = 0
        /\ \A i \in M \ Early : original[i] \in M => g[i] = g[original[i]]}}

\* One group only: nothing to split off.
resplit(c) ==
  /\ job = Idle /\ mustOpen(c)
  /\ \E G \in Groupings(c) : job' = IF G = {} THEN Idle ELSE [from |-> c, groups |-> G]
  /\ UNCHANGED <<status, into, at, removed, original, core, audit, home>>

resplitGroup(g, new) ==
  /\ splitOff(job.from, g, new)
  /\ job' = IF job.groups = {g} THEN Idle ELSE [job EXCEPT !.groups = @ \ {g}]

\* The split is refused (a report has moved since, or the cluster is gone) or the script stops:
\* the groups split so far stay split.
resplitStops ==
  /\ job # Idle
  /\ job' = Idle
  /\ UNCHANGED <<status, into, at, removed, original, core, audit, home>>

-----------------------------------------------------------------------------
(* Reversal *)

Reversed(rows, k) == [rows EXCEPT ![k].reversed = TRUE]

\* Mutant: the reversed row is left as it was, to be reversed again.
reversalRow_unmarked(action, a, S, k) == recordAudit(action, a.cluster, a.other, S)

reversalRow(action, a, S, k) == Reversed(recordAudit(action, a.cluster, a.other, S), k)

\* Mutant: every item the merge or split moved goes back, wherever it is now.
stillThere_all(a, c) == a.items

\* The items of the row that are still where it put them.
stillThere(a, c) == {i \in a.items : at[i] = c}

\* Mutant: reversing a split dissolves its cluster whatever joined it since.
left_nothing(c, moved) == {}

left(c, moved) == members(c) \ moved

reverseMerge(k) ==
  LET a == audit[k]
      moved == stillThere(a, a.cluster) IN
  /\ ~a.reversed /\ a.action = "merge" /\ Len(audit) < MaxAudit
  /\ status[a.other] = "merged" /\ into[a.other] = a.cluster
  /\ at' = Moved(moved, a.other)
  /\ status' = [status EXCEPT ![a.other] = "open"]
  /\ into' = [into EXCEPT ![a.other] = NoCluster]
  /\ audit' = reversalRow("reverse_merge", a, moved, k)
  /\ core' = recomputeBoth(a.cluster, a.other, at')
  /\ UNCHANGED <<removed, original, job, home>>

reverseSplit(k) ==
  LET a == audit[k]
      moved == stillThere(a, a.other) IN
  /\ ~a.reversed /\ a.action = "split" /\ Len(audit) < MaxAudit
  /\ mustOpen(a.other) /\ mustOpen(a.cluster)
  /\ at' = Moved(moved, a.cluster)
  /\ audit' = reversalRow("reverse_split", a, moved, k)
  /\ IF left(a.other, moved) = {}
     THEN /\ status' = [status EXCEPT ![a.other] = "dissolved"]
          /\ core' = [core EXCEPT ![a.cluster] = {i \in Item : at'[i] = a.cluster} \ removed]
     ELSE core' = recomputeBoth(a.cluster, a.other, at') /\ UNCHANGED status
  /\ UNCHANGED <<into, removed, original, job, home>>

-----------------------------------------------------------------------------

Init ==
  /\ status = [c \in Cluster |-> "none"]
  /\ into = [c \in Cluster |-> NoCluster]
  /\ at = [i \in Item |-> NoCluster]
  /\ removed = {}
  /\ original = [i \in Item |-> i]
  /\ core = [c \in Cluster |-> {}]
  /\ audit = <<>>
  /\ job = Idle
  /\ home = [i \in Item |-> NoCluster]

Ingest(i) ==
  \/ \E j \in Item : assignDuplicate(i, j)
  \/ \E c \in Cluster : assignMatched(i, c) \/ assignNew(i, c)
  \/ updateItem(i) \/ applyRemoval(i)

Edit ==
  \/ \E c, d \in Cluster : merge(c, d) \/ \E S \in SUBSET members(c) : split(c, S, d)
  \/ \E k \in DOMAIN audit : reverseMerge(k) \/ reverseSplit(k)

Regroup ==
  \/ \E c \in Cluster : resplit(c)
  \/ \E g \in job.groups, new \in Cluster : resplitGroup(g, new)
  \/ resplitStops

Next == (\E i \in Item : Ingest(i)) \/ Edit \/ Regroup

Spec == Init /\ [][Next]_vars

-----------------------------------------------------------------------------
(* Properties *)

\* Type invariant: statuses, links, audit rows and the regrouping have the shape of their rows; a
\* duplicate names an item that is no duplicate itself (dedupe follows duplicate_of).
TypeOK ==
  /\ status \in [Cluster -> Statuses]
  /\ into \in [Cluster -> Cluster \cup {NoCluster}]
  /\ at \in [Item -> Cluster \cup {NoCluster}]
  /\ removed \subseteq Item
  /\ original \in [Item -> Item]
  /\ \A i \in Item : original[original[i]] = original[i]
  /\ core \in [Cluster -> SUBSET Item]
  /\ audit \in Seq(AuditRow)
  /\ job \in [from : Cluster \cup {NoCluster}, groups : SUBSET SUBSET Item]
  /\ home \in [Item -> Cluster \cup {NoCluster}]

\* No item is ever lost in a cluster readers and editors cannot reach: through any sequence of
\* merges, splits and reversals, every ingested item is in an open cluster, and the public wire has
\* every live report that is no copy once.
ItemsInOpenClusters ==
  \A i \in Item : at[i] # NoCluster =>
    /\ status[at[i]] = "open"
    /\ i \notin removed /\ ~isDuplicate(i) => {c \in Cluster : i \in wire(c)} = {at[i]}

\* Following merges from any cluster ends at one that is not merged: merging, reversing and merging
\* the other way round never closes a cycle.  Only a chain longer than the fifty merges resolve follows
\* would be cut short, and that takes more than fifty clusters merged away at once.
ResolveEnds ==
  \A c \in Cluster :
    \/ status[c] = "none"
    \/ status[resolve(c)] \in {"open", "dissolved"}
    \/ Cardinality({d \in Cluster : status[d] = "merged"}) > 50

\* The audit explains every membership: an item is where the last audit row that moved it put it,
\* or where it was placed when it was ingested.
AuditExplainsMembership ==
  \A i \in Item :
    LET rows == {k \in DOMAIN audit : i \in audit[k].items}
        last == CHOOSE k \in rows : \A j \in rows : j <= k
        to(a) == IF a.action \in {"split", "reverse_merge"} THEN a.other ELSE a.cluster
    IN at[i] = IF rows = {} THEN home[i] ELSE to(audit[last])

\* What new reports are matched against is current: an open cluster's stored core was built from its
\* members as they are now, except duplicates that joined since, which it does not count.
CoreIsCurrent ==
  \A c \in Cluster : status[c] = "open" =>
    /\ core[c] \subseteq countable(c)
    /\ \A i \in countable(c) \ core[c] : isDuplicate(i)

\* A report joins a story that is its own: of the words it shares with the cluster it is put in,
\* three or more are each carried by over a third of the cluster's live reports, however the cluster
\* came about and whatever was removed, merged or copied into it since.
JoinsOwnStory ==
  [][\A i \in Item :
       (at[i] = NoCluster /\ at'[i] \in {c \in Cluster : status[c] = "open"} /\ original'[i] = i) =>
         LET live == countable(at'[i])
             common == Common(i)
             own == {w \in words(i) \ common : 3 * Cardinality(Carrying(live, w)) > Cardinality(live)}
         IN Cardinality(own) >= 3]_vars

\* And a story goes on growing: a new report within reach that shares four terms, none of them common,
\* each carried by most of an open cluster's live reports, joins a cluster.  Duplicates that joined
\* since the cluster was rebuilt count in its size and not in its words, and may keep it out.
SharedStoryJoins ==
  \A i \in Item, c \in Cluster :
    (at[i] = NoCluster /\ mustOpen(c) /\ core[c] = countable(c) /\ near(i, core[c])) =>
      LET common == Common(i)
          most == {w \in Terms[i] \ common :
                     2 * Cardinality({j \in countable(c) : w \in Terms[j]}) > Cardinality(countable(c))}
      IN Cardinality(most) >= 4 => matches(i) # {}

\* A reversal undoes its operation exactly: whatever came after it, every item of the audit row that is
\* still where the row put it goes back, and no other item moves.
ReverseUndoes ==
  [][\A k \in DOMAIN audit :
       (Len(audit') > Len(audit) /\ audit'[k].reversed /\ ~audit[k].reversed) =>
         \A i \in Item :
           LET a == audit[k]
               put == IF a.action = "merge" THEN a.cluster ELSE a.other
               from == IF a.action = "merge" THEN a.other ELSE a.cluster
           IN at'[i] = IF i \in a.items /\ at[i] = put THEN from ELSE at[i]]_vars

\* An audit row as a move: a split and a reversed merge move items to the row's other cluster, and
\* what is no reversal, and is not reversed yet, can be taken back.
moveOf(a) ==
  LET out == a.action \in {"split", "reverse_merge"} IN
  [from |-> IF out THEN a.cluster ELSE a.other,
   to |-> IF out THEN a.other ELSE a.cluster,
   reports |-> a.items,
   undoable |-> a.action \in {"merge", "split"} /\ ~a.reversed]

movesOf(rows) == [k \in DOMAIN rows |-> moveOf(rows[k])]

Abstract == INSTANCE Moves WITH
  Report <- Item, Story <- Cluster, Nowhere <- NoCluster,
  at <- at, moves <- movesOf(audit), open <- {c \in Cluster : status[c] = "open"}

\* Editors' promise kept: whatever is ingested, removed, merged, split, regrouped and reversed meanwhile,
\* a report changes story only by an audited move, every audited move can be reversed at most once,
\* and no report is left in a closed story.
ImplementsMoves == Abstract!Spec
=============================================================================

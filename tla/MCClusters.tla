----------------------------- MODULE MCClusters -----------------------------
(* Small instances of Clusters for TLC. *)
EXTENDS Clusters, TLC

CONSTANTS i1, i2, i3, i4

\* i1, i3 and i4 report one story, i2 another that shares a word or two with each of them; every report
\* carries the outlet's boilerplate.
MCWord == {"t1", "t2", "t3", "t4", "x1", "x2", "x3", "x4", "name", "filler"}
MCStory == {"t1", "t2", "t3", "t4", "filler"}
MCTerms ==
  (i1 :> MCStory \cup {"x1", "x4"}) @@ (i2 :> {"x1", "x2", "x3", "x4", "filler"}) @@
  (i3 :> MCStory \cup {"x2"}) @@ (i4 :> MCStory \cup {"x3"})
MCEntities == (i1 :> {"name"}) @@ (i2 :> {"name"}) @@ (i3 :> {}) @@ (i4 :> {"name"})
MCOutlet == [i \in {i1, i2, i3, i4} |-> "wire"]
MCAlike == {<<i3, i1>>, <<i4, i3>>}
MCDay == (i1 :> 1) @@ (i2 :> 1) @@ (i3 :> 2) @@ (i4 :> 4)
=============================================================================

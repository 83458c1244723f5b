---------------------------- MODULE BriefsProofs ----------------------------
(***************************************************************************)
(* Proofs about Briefs, for every set of clusters, reports, sweeps and     *)
(* readers and every bound.                                                *)
(*                                                                         *)
(* That an indexed brief says what the reports say rests on the order in   *)
(* which a run reads: the version first, the reports after it (Timely).    *)
(* While the version stands, those reports are still there, so that as     *)
(* many as there were are the same ones.                                   *)
(***************************************************************************)
EXTENDS Briefs, FiniteSetTheorems, TLAPS

Listed == [of : Cluster, ver : 0..MaxVer, n : Nat]
Sweeping == [todo : Seq(Listed) \ {<<>>}, made : 0..Limit - 1]
BriefRow == [ver : 0..MaxVer, n : 0..Cardinality(Report), from : SUBSET Report, made : BOOLEAN]
Reviewing == [of : Cluster, current : BOOLEAN]
Reviewed == [last : Kind \cup {"none"}, person : Decision, ai_editor : Decision]

ClustersOK ==
  /\ open \subseteq Cluster /\ ahead \subseteq active /\ active \subseteq Report /\ gone \subseteq Report
  /\ active \cap gone = {}
  /\ recent \subseteq Cluster /\ dated(ahead, recent)
  /\ ver \in [Cluster -> 0..MaxVer]

MakersOK ==
  /\ brief \in [Cluster -> BriefRow]
  /\ run \in [Maker -> Run \cup {NoRun}]
  /\ sweep \in [Sweep -> Sweeping \cup {NoSweep}]
  /\ \A s \in Sweep : run[s] # NoRun => sweep[s] # NoSweep /\ Head(sweep[s].todo).of = run[s].of

ReviewsOK ==
  /\ review \in [Cluster -> Reviewed]
  /\ reviewer \in [Kind -> Reviewing \cup {Away}]
  /\ \A c \in Cluster : review[c].last = "none" => review[c] = Unreviewed

\* A text of reports S of cluster c, read with or after its version v: while the cluster has not
\* changed since, the reports are all there still.
Holds(c, v, S) == v <= ver[c] /\ (v = ver[c] => S \subseteq reports(c))

\* What is stored, and what is being written, was read so.
Timely ==
  /\ \A c \in Cluster : brief[c].made =>
       brief[c].n = Cardinality(brief[c].from) /\ Holds(c, brief[c].ver, brief[c].from)
  /\ \A m \in Maker : run[m] # NoRun => Holds(run[m].of, run[m].ver, run[m].from)

IInv == ClustersOK /\ MakersOK /\ ReviewsOK /\ Timely

-----------------------------------------------------------------------------
(* Sets of reports *)

\* The reports of a cluster that are counted are among all of them, and those are finitely many.
LEMMA ReportsAreFinite ==
  ASSUME ClustersOK, NEW c \in Cluster
  PROVE  /\ reports(c) \subseteq Reports(c) /\ Reports(c) \subseteq Report
         /\ IsFiniteSet(Reports(c)) /\ IsFiniteSet(reports(c))
<1>1. reports(c) \subseteq Reports(c) /\ Reports(c) \subseteq Report
  BY DEF reports, Reports, ClustersOK
<1> QED
  BY <1>1, ReportsAssumption, FS_Subset

\* A part as large as the whole is the whole.
LEMMA SameSize ==
  ASSUME NEW T, IsFiniteSet(T), NEW S \in SUBSET T, Cardinality(S) = Cardinality(T)
  PROVE  S = T
BY FS_Subset

\* A cluster that is due has a report, so that the clusters due are finitely many.
LEMMA DueAreFinite ==
  ASSUME ClustersOK
  PROVE  IsFiniteSet(Due)
<1> DEFINE D == {c \in Cluster : due(c)}
           I == {Of[r] : r \in Report}
<1>1. ASSUME NEW c \in D PROVE c \in I
  <2>1. Cardinality(reports(c)) # 0
    <3>1. Cardinality(reports(c)) >= 2 /\ Cardinality(reports(c)) \in Nat
      BY ReportsAreFinite, FS_CardinalityType DEF due, MinReports
    <3> QED
      BY <3>1
  <2>2. reports(c) # {}
    BY <2>1, FS_EmptySet
  <2>3. PICK r \in Report : Of[r] = c
    BY <2>2 DEF reports, Reports, ClustersOK
  <2> QED
    BY <2>3
<1>2. Of \in Surjection(Report, I)
  BY ReportsAssumption DEF Surjection
<1>3. IsFiniteSet(I)
  BY <1>2, ReportsAssumption, FS_Surjection
<1> HIDE DEF D, I
<1>4. IsFiniteSet(D)
  BY <1>1, <1>3, FS_Subset
<1> QED
  BY <1>4 DEF D, Due

-----------------------------------------------------------------------------
(* Clusters change *)

\* A cluster that changes has a new version; one that does not loses no report that is counted.
LEMMA ClusteringStep ==
  ASSUME ClustersOK, Clustering
  PROVE  /\ ClustersOK' /\ UNCHANGED <<brief, run, sweep, reviewVars>>
         /\ \A c \in Cluster : ver[c] <= ver'[c] /\ (ver'[c] = ver[c] => reports(c) \subseteq reports(c)')
<1>1. ASSUME NEW c \in Cluster, Changes(c)
      PROVE  /\ UNCHANGED <<brief, run, sweep, reviewVars>>
             /\ ver' \in [Cluster -> 0..MaxVer] /\ ver'[c] = ver[c] + 1 /\ ver[c] \in Nat
             /\ \A d \in Cluster : ver[d] <= ver'[d]
             /\ \A d \in Cluster \ {c} : ver'[d] = ver[d]
  BY <1>1, BoundsAssumption DEF Changes, ClustersOK
<1>2. ASSUME NEW r \in Report, Arrive(r)
      PROVE  /\ ClustersOK' /\ Changes(Of[r]) /\ Of[r] \in Cluster
             /\ \A d \in Cluster \ {Of[r]} : reports(d) \subseteq reports(d)'
  <2>1. Of[r] \in Cluster /\ Changes(Of[r])
    BY <1>2, ReportsAssumption DEF Arrive
  <2>2. ClustersOK'
    BY <1>1, <1>2, <2>1 DEF Arrive, ClustersOK, dated
  <2>3. \A d \in Cluster \ {Of[r]} : reports(d) \subseteq reports(d)'
    BY <1>2 DEF Arrive, reports, Reports
  <2> QED
    BY <2>1, <2>2, <2>3
<1>3. ASSUME NEW r \in Report, Withdraw(r) \/ Update(r)
      PROVE  /\ ClustersOK' /\ Changes(Of[r]) /\ Of[r] \in Cluster
             /\ \A d \in Cluster \ {Of[r]} : reports(d) \subseteq reports(d)'
  <2>1. Of[r] \in Cluster /\ Changes(Of[r])
    BY <1>3, ReportsAssumption DEF Withdraw, Update
  <2>2. CASE Withdraw(r)
    <3>1. ClustersOK'
      BY <1>1, <2>1, <2>2 DEF Withdraw, ClustersOK, dated
    <3>2. \A d \in Cluster \ {Of[r]} : reports(d) \subseteq reports(d)'
      BY <2>2 DEF Withdraw, reports, Reports
    <3> QED
      BY <2>1, <3>1, <3>2
  <2>3. CASE Update(r)
    <3>1. ClustersOK'
      BY <1>1, <2>1, <2>3 DEF Update, ClustersOK, dated
    <3>2. \A d \in Cluster \ {Of[r]} : reports(d) \subseteq reports(d)'
      BY <2>3 DEF Update, reports, Reports
    <3> QED
      BY <2>1, <3>1, <3>2
  <2> QED
    BY <1>3, <2>2, <2>3
<1>4. ASSUME NEW c \in Cluster, MergeAway(c) \/ ReverseMerge(c)
      PROVE  /\ ClustersOK' /\ Changes(c)
             /\ \A d \in Cluster \ {c} : reports(d) \subseteq reports(d)'
  <2>1. Changes(c) /\ UNCHANGED <<active, gone, ahead, recent>> /\ open' \subseteq Cluster
    BY <1>4 DEF MergeAway, ReverseMerge, ClustersOK
  <2>2. ClustersOK'
    BY <1>1, <2>1 DEF ClustersOK, dated
  <2> QED
    BY <2>1, <2>2 DEF reports, Reports
<1>5. ASSUME (\E r \in Report : DayPasses(r)) \/ (\E c \in Cluster : Ages(c))
      PROVE  /\ ClustersOK' /\ UNCHANGED <<ver, brief, run, sweep, reviewVars>>
             /\ \A d \in Cluster : reports(d) \subseteq reports(d)'
  BY <1>5 DEF DayPasses, Ages, ClustersOK, dated, reports, Reports
<1>6. ASSUME NEW c \in Cluster, Changes(c), \A d \in Cluster \ {c} : reports(d) \subseteq reports(d)'
      PROVE  \A d \in Cluster : ver[d] <= ver'[d] /\ (ver'[d] = ver[d] => reports(d) \subseteq reports(d)')
  BY <1>1, <1>6
<1>7. \A d \in Cluster : ver[d] \in Nat
  BY DEF ClustersOK
<1>8. CASE \E r \in Report : Arrive(r) \/ Update(r) \/ Withdraw(r)
  BY <1>1, <1>2, <1>3, <1>6, <1>8
<1>9. CASE \E c \in Cluster : MergeAway(c) \/ ReverseMerge(c)
  BY <1>1, <1>4, <1>6, <1>9
<1>10. CASE (\E r \in Report : DayPasses(r)) \/ (\E c \in Cluster : Ages(c))
  BY <1>5, <1>7, <1>10
<1> QED
  BY <1>8, <1>9, <1>10 DEF Clustering

LEMMA ClusteringKeeps ==
  ASSUME IInv, Clustering
  PROVE  IInv'
<1>1. ClustersOK' /\ UNCHANGED <<brief, run, sweep, review, reviewer>>
  BY ClusteringStep DEF IInv, reviewVars
<1>2. ASSUME NEW c \in Cluster, NEW v \in 0..MaxVer, NEW S, Holds(c, v, S) PROVE Holds(c, v, S)'
  <2>1. ver[c] <= ver'[c] /\ (ver'[c] = ver[c] => reports(c) \subseteq reports(c)')
    BY ClusteringStep DEF IInv
  <2>2. v \in Nat /\ ver[c] \in Nat /\ ver'[c] \in Nat
    BY <1>1, BoundsAssumption DEF IInv, ClustersOK
  <2> QED
    BY <1>2, <2>1, <2>2 DEF Holds
<1>3. \A c \in Cluster : brief[c].ver \in 0..MaxVer
  BY DEF IInv, MakersOK, BriefRow
<1>4. \A m \in Maker : run[m] # NoRun => run[m].of \in Cluster /\ run[m].ver \in 0..MaxVer
  BY DEF IInv, MakersOK, Run
<1>5. Timely'
  BY <1>1, <1>2, <1>3, <1>4 DEF IInv, Timely
<1>6. MakersOK' /\ ReviewsOK'
  BY <1>1 DEF IInv, MakersOK, ReviewsOK
<1> QED
  BY <1>1, <1>5, <1>6 DEF IInv

-----------------------------------------------------------------------------
(* The pieces of a run *)

\* Neither the absence of a run, of a sweep or of a review is one.
LEMMA AbsencesDiffer ==
  /\ \A r \in Run : r # NoRun
  /\ \A s \in Sweeping : s # NoSweep
  /\ \A r \in Reviewing : r # Away
<1>1. \A r \in Run : r # NoRun
  BY DEF Run, NoRun
<1>2. \A s \in Sweeping : s # NoSweep
  BY BoundsAssumption DEF Sweeping, NoSweep
<1>3. \A r \in Reviewing : r # Away
  BY DEF Reviewing, Away
<1> QED
  BY <1>1, <1>2, <1>3

\* What is left of a sweep is a sweep, or none.
LEMMA LeftIsSweep ==
  ASSUME NEW todo \in Seq(Listed), NEW made \in 0..Limit
  PROVE  /\ Left(todo, made) \in Sweeping \cup {NoSweep}
         /\ Left(todo, made) # NoSweep => Left(todo, made).todo = todo
BY BoundsAssumption DEF Left, Sweeping

\* A sweep under way has a cluster to see to, and then goes on without it.
LEMMA SweepGoesOn ==
  ASSUME MakersOK, NEW s \in Sweep, sweep[s] # NoSweep
  PROVE  /\ Head(sweep[s].todo) \in Listed /\ sweep[s].made \in 0..Limit - 1
         /\ \A made \in {sweep[s].made, sweep[s].made + 1} :
              Left(Tail(sweep[s].todo), made) \in Sweeping \cup {NoSweep}
<1>1. sweep[s] \in Sweeping
  BY DEF MakersOK
<1>2. sweep[s].todo \in Seq(Listed) /\ sweep[s].todo # <<>> /\ sweep[s].made \in 0..Limit - 1
  BY <1>1 DEF Sweeping
<1>3. Head(sweep[s].todo) \in Listed /\ Tail(sweep[s].todo) \in Seq(Listed)
  BY <1>2
<1>4. \A made \in {sweep[s].made, sweep[s].made + 1} : made \in 0..Limit
  BY <1>2, BoundsAssumption
<1> QED
  BY <1>2, <1>3, <1>4, LeftIsSweep

\* Where the clusters stand still, what was held is held.
LEMMA HeldStill ==
  ASSUME UNCHANGED clusterVars
  PROVE  /\ \A c, v, S : Holds(c, v, S)' <=> Holds(c, v, S)
         /\ ClustersOK => ClustersOK'
BY DEF clusterVars, Holds, reports, Reports, ClustersOK, dated

\* A maker's run is over, or goes on in one of the ways a run may.
LEMMA RunsStayTimely ==
  ASSUME IInv, UNCHANGED <<clusterVars, brief>>, NEW m \in Maker, NEW r \in Run \cup {NoRun},
         run' = [run EXCEPT ![m] = r],
         r # NoRun => Holds(r.of, r.ver, r.from)
  PROVE  Timely'
<1>1. \A k \in Maker : run'[k] = IF k = m THEN r ELSE run[k]
  BY DEF IInv, MakersOK
<1>2. \A k \in Maker : run'[k] # NoRun => Holds(run'[k].of, run'[k].ver, run'[k].from)
  BY <1>1 DEF IInv, Timely
<1> QED
  BY <1>2, HeldStill DEF IInv, Timely

-----------------------------------------------------------------------------
(* The steps of makers *)

LEMMA SweepListKeeps ==
  ASSUME IInv, NEW s \in Sweep, sweepStarts(s) \/ sweepPasses(s)
  PROVE  IInv'
<1>1. UNCHANGED <<clusterVars, brief, run, review, reviewer>>
  BY DEF sweepStarts, sweepPasses, reviewVars
<1>2. ASSUME NEW l, l \in Sweeping \cup {NoSweep}, sweep' = [sweep EXCEPT ![s] = l], run[s] = NoRun
      PROVE  MakersOK'
  BY <1>1, <1>2 DEF IInv, MakersOK
<1>3. CASE sweepStarts(s)
  <2>0. PICK cut \in kSubset(Min({Shortlist, Cardinality(Due)}), Due) :
          \E list \in SetToSeqs({item(c) : c \in cut}) : sweep' = [sweep EXCEPT ![s] = Left(list, 0)]
    BY <1>3 DEF sweepStarts
  <2> DEFINE L == {item(c) : c \in cut}
  <2>1. PICK list \in SetToSeqs(L) : sweep' = [sweep EXCEPT ![s] = Left(list, 0)]
    BY <2>0
  <2>2. cut \subseteq Due /\ IsFiniteSet(cut)
    <3>1. cut \subseteq Due
      BY DEF kSubset
    <3> QED
      BY <3>1, DueAreFinite, FS_Subset DEF IInv
  <2>3. IsFiniteSet(L)
    <3> DEFINE f == [c \in cut |-> item(c)]
    <3>1. f \in Surjection(cut, L)
      BY DEF Surjection
    <3> HIDE DEF f, L
    <3> QED
      BY <2>2, <3>1, FS_Surjection
  <2>4. L \subseteq Listed
    BY <2>2, ReportsAreFinite, FS_CardinalityType DEF IInv, ClustersOK, Listed, item, Due
  <2> HIDE DEF L
  <2>5. list \in [1..Cardinality(L) -> L] /\ Cardinality(L) \in Nat
    BY <2>3, FS_CardinalityType DEF SetToSeqs
  <2>6. list \in Seq(Listed)
    BY <2>4, <2>5
  <2>7. Left(list, 0) \in Sweeping \cup {NoSweep}
    BY <2>6, LeftIsSweep, BoundsAssumption
  <2>8. sweep[s] = NoSweep /\ run[s] = NoRun
    BY <1>3 DEF sweepStarts, IInv, MakersOK
  <2>9. MakersOK'
    BY <1>2, <2>1, <2>7, <2>8
  <2> QED
    BY <1>1, <2>9, HeldStill DEF IInv, ReviewsOK, Timely
<1>4. CASE sweepPasses(s)
  <2>1. /\ sweep[s] # NoSweep /\ run[s] = NoRun
        /\ sweep' = [sweep EXCEPT ![s] = Left(Tail(sweep[s].todo), sweep[s].made)]
    BY <1>4 DEF sweepPasses
  <2>2. Left(Tail(sweep[s].todo), sweep[s].made) \in Sweeping \cup {NoSweep}
    BY <2>1, SweepGoesOn DEF IInv
  <2>3. MakersOK'
    BY <1>2, <2>1, <2>2
  <2> QED
    BY <1>1, <2>3, HeldStill DEF IInv, ReviewsOK, Timely
<1> QED
  BY <1>3, <1>4

\* A run starts with the cluster as it is.
LEMMA StartKeeps ==
  ASSUME IInv, (\E s \in Sweep : sweepMakes(s)) \/ (\E m \in Reader, c \in Cluster : readerAsks(m, c))
  PROVE  IInv'
<1>1. ASSUME NEW m \in Maker, NEW c \in Cluster, run' = [run EXCEPT ![m] = started(c)],
             m \in Sweep => sweep[m] # NoSweep /\ Head(sweep[m].todo).of = c,
             UNCHANGED <<clusterVars, brief, sweep, review, reviewer>>
      PROVE  IInv'
  <2>1. started(c) \in Run /\ started(c).of = c /\ Holds(c, started(c).ver, started(c).from)
    BY BoundsAssumption DEF started, Run, Holds, IInv, ClustersOK
  <2>2. Timely'
    BY <1>1, <2>1, RunsStayTimely
  <2>3. MakersOK'
    BY <1>1, <2>1 DEF IInv, MakersOK, Maker
  <2> QED
    BY <1>1, <2>2, <2>3, HeldStill DEF IInv, ReviewsOK
<1>2. ASSUME NEW s \in Sweep, sweepMakes(s) PROVE IInv'
  <2> DEFINE c == Head(sweep[s].todo).of
  <2>1. sweep[s] # NoSweep /\ run' = [run EXCEPT ![s] = started(c)]
        /\ UNCHANGED <<clusterVars, brief, sweep, review, reviewer>>
    BY <1>2 DEF sweepMakes, reviewVars
  <2>2. c \in Cluster /\ s \in Maker
    BY <2>1, SweepGoesOn DEF IInv, Listed, Maker
  <2> QED
    BY <1>1, <2>1, <2>2
<1>3. ASSUME NEW m \in Reader, NEW c \in Cluster, readerAsks(m, c) PROVE IInv'
  <2>1. m \in Maker /\ m \notin Sweep
    BY PartiesAssumption DEF Maker
  <2> QED
    BY <1>1, <1>3, <2>1 DEF readerAsks, reviewVars
<1> QED
  BY <1>2, <1>3

\* The reports are read after the version.
LEMMA ReadKeeps ==
  ASSUME IInv, NEW m \in Maker, reports_read(m)
  PROVE  IInv'
<1> DEFINE c == run[m].of
           r == IF enough(c) THEN [run[m] EXCEPT !.from = reports(c)] ELSE NoRun
<1>1. /\ run[m] \in Run /\ c \in Cluster /\ run' = [run EXCEPT ![m] = r]
      /\ UNCHANGED <<clusterVars, brief, review, reviewer>>
  BY DEF reports_read, IInv, MakersOK, Run, reviewVars
<1>2. reports(c) \subseteq Report
  BY <1>1, ReportsAreFinite DEF IInv
<1>3. r \in Run \cup {NoRun} /\ (r # NoRun => r.of = c /\ r.ver = run[m].ver /\ r.from = reports(c))
  BY <1>1, <1>2 DEF Run
<1>4. Holds(c, run[m].ver, {}) \/ Holds(c, run[m].ver, run[m].from)
  BY <1>1, AbsencesDiffer DEF IInv, Timely
<1>5. r # NoRun => Holds(r.of, r.ver, r.from)
  BY <1>3, <1>4 DEF Holds
<1>6. Timely'
  <2> HIDE DEF r
  <2> QED
    BY <1>1, <1>3, <1>5, RunsStayTimely
<1>7. sweep' \in [Sweep -> Sweeping \cup {NoSweep}]
  <2>1. CASE m \in Sweep /\ ~enough(c)
    <3>1. sweep[m] # NoSweep
      BY <1>1, <2>1, AbsencesDiffer DEF IInv, MakersOK
    <3>2. Left(Tail(sweep[m].todo), sweep[m].made) \in Sweeping \cup {NoSweep}
      BY <2>1, <3>1, SweepGoesOn DEF IInv
    <3>3. sweep' = [sweep EXCEPT ![m] = Left(Tail(sweep[m].todo), sweep[m].made)]
      BY <2>1 DEF reports_read
    <3> QED
      BY <3>2, <3>3 DEF IInv, MakersOK
  <2>2. CASE ~(m \in Sweep /\ ~enough(c))
    BY <2>2 DEF reports_read, IInv, MakersOK
  <2> QED
    BY <2>1, <2>2
<1>8. ASSUME NEW s \in Sweep, run'[s] # NoRun
      PROVE  sweep'[s] # NoSweep /\ Head(sweep'[s].todo).of = run'[s].of
  <2>1. CASE s = m
    <3>1. run'[s] = r /\ enough(c) /\ r.of = c
      BY <1>1, <1>3, <1>8, <2>1 DEF IInv, MakersOK
    <3>2. sweep' = sweep /\ run[s] # NoRun
      BY <1>1, <2>1, <3>1, AbsencesDiffer DEF reports_read
    <3> QED
      BY <2>1, <3>1, <3>2 DEF IInv, MakersOK
  <2>2. CASE s # m
    <3>1. run'[s] = run[s] /\ sweep'[s] = sweep[s]
      BY <1>1, <2>2 DEF reports_read, IInv, MakersOK, Maker
    <3> QED
      BY <1>8, <3>1 DEF IInv, MakersOK
  <2> QED
    BY <2>1, <2>2
<1>9. MakersOK'
  <2> HIDE DEF r
  <2> QED
    BY <1>1, <1>3, <1>7, <1>8 DEF IInv, MakersOK
<1> QED
  BY <1>1, <1>6, <1>9, HeldStill DEF IInv, ReviewsOK

\* A sweep's run is over and its cluster seen to, or a reader's run is.
EndsRun(m) ==
  /\ run' = [run EXCEPT ![m] = NoRun]
  /\ \/ sweep' = sweep
     \/ m \in Sweep /\ \E l \in Sweeping \cup {NoSweep} : sweep' = [sweep EXCEPT ![m] = l]

LEMMA EndedRun ==
  ASSUME MakersOK, NEW m \in Maker, EndsRun(m)
  PROVE  /\ run' \in [Maker -> Run \cup {NoRun}] /\ sweep' \in [Sweep -> Sweeping \cup {NoSweep}]
         /\ \A s \in Sweep : run'[s] # NoRun => sweep'[s] # NoSweep /\ Head(sweep'[s].todo).of = run'[s].of
         /\ \A k \in Maker : run'[k] # NoRun => run'[k] = run[k]
<1>1. /\ run' \in [Maker -> Run \cup {NoRun}] /\ run'[m] = NoRun
      /\ \A k \in Maker \ {m} : run'[k] = run[k]
  BY DEF EndsRun, MakersOK
<1>2. /\ sweep' \in [Sweep -> Sweeping \cup {NoSweep}]
      /\ \A s \in Sweep \ {m} : sweep'[s] = sweep[s]
  BY DEF EndsRun, MakersOK
<1>3. ASSUME NEW s \in Sweep, run'[s] # NoRun
      PROVE  sweep'[s] # NoSweep /\ Head(sweep'[s].todo).of = run'[s].of
  <2>1. s # m /\ s \in Maker
    BY <1>1, <1>3 DEF Maker
  <2> QED
    BY <1>1, <1>2, <1>3, <2>1 DEF MakersOK
<1> QED
  BY <1>1, <1>2, <1>3

\* Nothing came of a run.
LEMMA NothingMadeKeeps ==
  ASSUME IInv, NEW m \in Maker,
         (m \in Sweep /\ (sweepUncited(m) \/ sweepStops(m))) \/ readerFails(m)
  PROVE  IInv'
<1>1. UNCHANGED <<clusterVars, brief, review, reviewer>>
  BY DEF sweepUncited, sweepStops, readerFails, reviewVars
<1>2. EndsRun(m)
  <2>1. CASE m \in Sweep /\ sweepUncited(m)
    <3>1. sweep[m] # NoSweep
      BY <2>1 DEF sweepUncited, underway, IInv, MakersOK
    <3>2. Left(Tail(sweep[m].todo), sweep[m].made) \in Sweeping \cup {NoSweep}
      BY <2>1, <3>1, SweepGoesOn DEF IInv
    <3> QED
      BY <2>1, <3>2 DEF sweepUncited, EndsRun
  <2>2. CASE m \in Sweep /\ sweepStops(m)
    BY <2>2 DEF sweepStops, runFails, EndsRun
  <2>3. CASE readerFails(m)
    BY <2>3 DEF readerFails, runFails, EndsRun
  <2> QED
    BY <2>1, <2>2, <2>3
<1>3. MakersOK'
  BY <1>1, <1>2, EndedRun DEF IInv, MakersOK
<1>4. Timely'
  BY <1>1, <1>2, EndedRun, HeldStill DEF IInv, Timely
<1> QED
  BY <1>1, <1>3, <1>4, HeldStill DEF IInv, ReviewsOK

\* A text is stored with the version and the reports it was written from.
LEMMA PutKeeps ==
  ASSUME IInv, NEW m \in Maker, underway(m), put(m), EndsRun(m), UNCHANGED clusterVars
  PROVE  IInv'
<1> DEFINE c == run[m].of
           b == [ver |-> run[m].ver, n |-> Cardinality(run[m].from), from |-> run[m].from, made |-> TRUE]
<1>1. run[m] \in Run /\ c \in Cluster /\ run[m].from \subseteq Report /\ run[m].ver \in 0..MaxVer
  BY DEF underway, IInv, MakersOK, Run
<1>2. Holds(c, run[m].ver, run[m].from)
  BY DEF underway, IInv, Timely
<1>3. Cardinality(run[m].from) \in 0..Cardinality(Report)
  <2>1. IsFiniteSet(run[m].from) /\ Cardinality(run[m].from) <= Cardinality(Report)
    BY <1>1, ReportsAssumption, FS_Subset
  <2> QED
    BY <2>1, ReportsAssumption, FS_CardinalityType
<1>4. b \in BriefRow /\ b.ver = run[m].ver /\ b.from = run[m].from /\ b.n = Cardinality(b.from)
  BY <1>1, <1>3 DEF BriefRow
<1>5. brief' = [brief EXCEPT ![c] = b]
  BY DEF put
<1> HIDE DEF b
<1>6. brief' \in [Cluster -> BriefRow] /\ \A d \in Cluster : brief'[d] = IF d = c THEN b ELSE brief[d]
  BY <1>1, <1>4, <1>5 DEF IInv, MakersOK
<1>7. MakersOK'
  BY <1>6, EndedRun DEF IInv, MakersOK
<1>8. Timely'
  <2>1. ASSUME NEW d \in Cluster, brief'[d].made
        PROVE  brief'[d].n = Cardinality(brief'[d].from) /\ Holds(d, brief'[d].ver, brief'[d].from)
    BY <1>2, <1>4, <1>6, <2>1 DEF IInv, Timely
  <2>2. ASSUME NEW k \in Maker, run'[k] # NoRun PROVE Holds(run'[k].of, run'[k].ver, run'[k].from)
    <3>1. run'[k] = run[k]
      BY <2>2, EndedRun DEF IInv
    <3> QED
      BY <2>2, <3>1 DEF IInv, Timely
  <2> QED
    BY <2>1, <2>2, HeldStill DEF Timely
<1>9. ReviewsOK'
  <2>1. Unreviewed \in Reviewed
    BY DEF Unreviewed, Reviewed, Decision
  <2>2. review' = [review EXCEPT ![c] = Unreviewed]
    BY DEF put
  <2>3. review' \in [Cluster -> Reviewed]
    BY <2>1, <2>2 DEF IInv, ReviewsOK
  <2>4. reviewer' = [k \in Kind |-> IF reviewer[k] # Away /\ reviewer[k].of = c
                                    THEN [reviewer[k] EXCEPT !.current = FALSE] ELSE reviewer[k]]
    BY DEF put
  <2>5. ASSUME NEW k \in Kind, reviewer[k] # Away
        PROVE  [reviewer[k] EXCEPT !.current = FALSE] \in Reviewing
    BY <2>5 DEF IInv, ReviewsOK, Reviewing
  <2>6. reviewer' \in [Kind -> Reviewing \cup {Away}]
    BY <2>4, <2>5 DEF IInv, ReviewsOK
  <2>7. \A d \in Cluster : review'[d].last = "none" => review'[d] = Unreviewed
    BY <1>1, <2>2 DEF IInv, ReviewsOK
  <2> QED
    BY <2>3, <2>6, <2>7 DEF ReviewsOK
<1> QED
  BY <1>7, <1>8, <1>9, HeldStill DEF IInv

LEMMA StoreKeeps ==
  ASSUME IInv, NEW m \in Maker,
         (m \in Sweep /\ \E c \in Cluster : sweepStores(m, c)) \/ readerStores(m)
  PROVE  IInv'
<1>1. CASE m \in Sweep /\ \E c \in Cluster : sweepStores(m, c)
  <2>1. PICK c \in Cluster : sweepStores(m, c)
    BY <1>1
  <2>2. sweep[m] # NoSweep
    BY <1>1, <2>1 DEF sweepStores, underway, IInv, MakersOK
  <2>3. Left(Tail(sweep[m].todo), sweep[m].made + 1) \in Sweeping \cup {NoSweep}
    BY <1>1, <2>2, SweepGoesOn DEF IInv
  <2>4. EndsRun(m)
    BY <1>1, <2>1, <2>3 DEF sweepStores, EndsRun
  <2> QED
    BY <2>1, <2>4, PutKeeps DEF sweepStores
<1>2. CASE readerStores(m)
  BY <1>2, PutKeeps DEF readerStores, EndsRun
<1> QED
  BY <1>1, <1>2

-----------------------------------------------------------------------------
(* Reviews *)

LEMMA ReviewKeeps ==
  ASSUME IInv, Reviews
  PROVE  IInv'
<1>1. UNCHANGED <<clusterVars, brief, run, sweep>>
  BY DEF Reviews, review_reads, review_inserts
<1>2. ASSUME NEW k \in Kind, NEW c \in Cluster, review_reads(k, c) PROVE ReviewsOK'
  <2>1. [of |-> c, current |-> TRUE] \in Reviewing
    BY DEF Reviewing
  <2> QED
    BY <1>2, <2>1 DEF review_reads, IInv, ReviewsOK
<1>3. ASSUME NEW k \in Kind, review_inserts(k) PROVE ReviewsOK'
  <2>1. reviewer[k] \in Reviewing /\ reviewer' = [reviewer EXCEPT ![k] = Away]
    BY <1>3 DEF review_inserts, IInv, ReviewsOK
  <2> DEFINE c == reviewer[k].of
  <2>2. c \in Cluster
    BY <2>1 DEF Reviewing
  <2>3. PICK now \in Decision :
          review' = [review EXCEPT ![c] = [[review[c] EXCEPT ![k] = now] EXCEPT !.last = k]]
    BY <1>3 DEF review_inserts, Decision
  <2>4. review[c] \in Reviewed /\ k \in {"person", "ai_editor"}
    BY <2>2, PartiesAssumption DEF IInv, ReviewsOK
  <2>5. [[review[c] EXCEPT ![k] = now] EXCEPT !.last = k] \in Reviewed
    <3>1. CASE k = "person"
      BY <2>4, <3>1 DEF Reviewed
    <3>2. CASE k = "ai_editor"
      BY <2>4, <3>2 DEF Reviewed
    <3> QED
      BY <2>4, <3>1, <3>2
  <2>6. review' \in [Cluster -> Reviewed]
    BY <2>2, <2>3, <2>5 DEF IInv, ReviewsOK
  <2>7. review'[c].last = k /\ \A d \in Cluster \ {c} : review'[d] = review[d]
    BY <2>2, <2>3, <2>4 DEF IInv, ReviewsOK, Reviewed
  <2>8. \A d \in Cluster : review'[d].last = "none" => review'[d] = Unreviewed
    BY <2>4, <2>7 DEF IInv, ReviewsOK
  <2> QED
    BY <2>1, <2>6, <2>8 DEF IInv, ReviewsOK
<1>4. ReviewsOK'
  BY <1>2, <1>3 DEF Reviews
<1> QED
  BY <1>1, <1>4, HeldStill DEF IInv, MakersOK, Timely

-----------------------------------------------------------------------------
(* Theorems *)

LEMMA InitIInv == Init => IInv
<1> SUFFICES ASSUME Init PROVE IInv
  OBVIOUS
<1>1. ClustersOK
  BY BoundsAssumption DEF Init, ClustersOK, dated
<1>2. NoBrief \in BriefRow /\ Unreviewed \in Reviewed
  <2>1. Cardinality(Report) \in Nat
    BY ReportsAssumption, FS_CardinalityType
  <2> QED
    BY <2>1, BoundsAssumption DEF NoBrief, BriefRow, Unreviewed, Reviewed, Decision
<1>3. MakersOK /\ ReviewsOK
  BY <1>2 DEF Init, MakersOK, ReviewsOK, Maker
<1>4. Timely
  BY DEF Init, Timely, NoBrief
<1> QED
  BY <1>1, <1>3, <1>4 DEF IInv

LEMMA NextKeeps == IInv /\ [Next]_vars => IInv'
<1> SUFFICES ASSUME IInv, [Next]_vars PROVE IInv'
  OBVIOUS
<1>1. CASE Clustering
  BY <1>1, ClusteringKeeps
<1>2. CASE Sweeps
  BY <1>2, SweepListKeeps, StartKeeps, StoreKeeps, NothingMadeKeeps DEF Sweeps, Maker
<1>3. CASE Running
  BY <1>3, ReadKeeps DEF Running
<1>4. CASE Readers
  BY <1>4, StartKeeps, StoreKeeps, NothingMadeKeeps DEF Readers, Maker
<1>5. CASE Reviews
  BY <1>5, ReviewKeeps
<1>6. CASE UNCHANGED vars
  BY <1>6, HeldStill DEF vars, reviewVars, IInv, MakersOK, ReviewsOK, Timely
<1> QED
  BY <1>1, <1>2, <1>3, <1>4, <1>5, <1>6 DEF Next

LEMMA AlwaysIInv == Spec => []IInv
BY InitIInv, NextKeeps, PTL DEF Spec

\* Briefs, runs, sweeps and reviews keep the shape of their rows, and no sweep writes more than its
\* limit.
THEOREM TypeCorrect == Spec => []TypeOK
<1>1. IInv => TypeOK
  <2> SUFFICES ASSUME IInv PROVE TypeOK
    OBVIOUS
  <2>1. \A s \in Sweep : sweep[s] = NoSweep \/ sweep[s].made \in 0..Limit - 1
    BY DEF IInv, MakersOK, Sweeping
  <2>2. ASSUME NEW s \in Sweep, run[s] # NoRun
        PROVE  sweep[s].todo # <<>> /\ Head(sweep[s].todo).of = run[s].of
    BY <2>2 DEF IInv, MakersOK, Sweeping
  <2>3. \A k \in Kind : reviewer[k] # Away => reviewer[k].of \in Cluster
    BY DEF IInv, ReviewsOK, Reviewing
  <2>4. \A m \in Maker : run[m] = NoRun \/ run[m] \in Run
    BY DEF IInv, MakersOK
  <2> QED
    BY <2>1, <2>2, <2>3, <2>4 DEF IInv, ClustersOK, MakersOK, ReviewsOK, BriefRow, Reviewed, TypeOK
<1> QED
  BY <1>1, AlwaysIInv, PTL

\* A brief as many reports were written into as its cluster counts, at the cluster's version, was
\* written from exactly those.
LEMMA CurrentIsWhole ==
  ASSUME IInv, NEW c \in Cluster, NEW S, IsFiniteSet(S), reports(c) \subseteq S,
         brief[c].made, brief[c].ver = ver[c], brief[c].n = Cardinality(S)
  PROVE  brief[c].from = S /\ reports(c) = S
<1>1. brief[c].from \subseteq reports(c) /\ Cardinality(brief[c].from) = Cardinality(S)
  BY DEF IInv, Timely, Holds
<1>2. brief[c].from = S
  BY <1>1, SameSize
<1> QED
  BY <1>1, <1>2

\* What search engines may index says what the reports say now: however long runs took and whichever
\* ended last, an indexable brief was written from exactly the cluster's reports, of enough outlets.
THEOREM IndexedIsCurrent == Spec => []IndexedMatchesReports
<1>1. IInv => IndexedMatchesReports
  <2> SUFFICES ASSUME IInv, NEW c \in Cluster, indexed(c)
               PROVE  brief[c].from = reports(c) /\ outlets(brief[c].from) >= MinOutlets
    BY DEF IndexedMatchesReports
  <2>1. /\ brief[c].made /\ brief[c].ver = ver[c] /\ brief[c].n = Cardinality(reports(c))
        /\ enough(c)
    BY DEF indexed, freshNow, fresh
  <2>2. IsFiniteSet(reports(c))
    BY ReportsAreFinite DEF IInv
  <2>3. brief[c].from = reports(c)
    BY <2>1, <2>2, CurrentIsWhole
  <2> QED
    BY <2>1, <2>3 DEF enough
<1> QED
  BY <1>1, AlwaysIInv, PTL

\* The sitemap counts the future-dated reports too, and still never lists a brief whose page says
\* noindex.
THEOREM ListedIsIndexed == Spec => []ListedIsIndexable
<1>1. IInv => ListedIsIndexable
  <2> SUFFICES ASSUME IInv, NEW c \in Cluster, reviewed(c) PROVE indexed(c)
    BY DEF ListedIsIndexable
  <2>1. /\ c \in open /\ brief[c].made /\ brief[c].ver = ver[c] /\ isApproved(c)
        /\ brief[c].n = Cardinality(Reports(c)) /\ outlets(Reports(c)) >= MinOutlets
    BY DEF reviewed, matches
  <2>2. IsFiniteSet(Reports(c)) /\ reports(c) \subseteq Reports(c)
    BY ReportsAreFinite DEF IInv
  <2>3. reports(c) = Reports(c)
    BY <2>1, <2>2, CurrentIsWhole
  <2> QED
    BY <2>1, <2>3 DEF indexed, enough, freshNow, fresh
<1> QED
  BY <1>1, AlwaysIInv, PTL

\* A current brief either awaits review or is indexed, never both; one that is neither has been decided
\* on by a person and rejected last, or a late review of an earlier text followed the decision.  The
\* queue asks each kind's latest review, the page and the sitemap the latest of all.
THEOREM NothingIsOverlooked == Spec => []NothingOverlooked
<1>1. IInv => NothingOverlooked
  <2> SUFFICES ASSUME IInv, NEW c \in Cluster, current(c)
               PROVE  /\ ~(pendingReviews(c) /\ indexed(c))
                      /\ \/ pendingReviews(c) \/ indexed(c) \/ overtaken(c)
                         \/ /\ review[c].person # "none"
                            /\ review[c].last # "none" /\ review[c][review[c].last] = "rejected"
    BY DEF NothingOverlooked
  <2>1. matches(c)
    BY DEF current, matches, enough, freshNow, fresh
  <2>2. indexed(c) <=> review[c].last # "none" /\ review[c][review[c].last] = "approved"
    BY DEF current, indexed, isApproved, freshNow, fresh
  <2>3. review[c] \in Reviewed /\ Kind \subseteq {"person", "ai_editor"}
    BY PartiesAssumption DEF IInv, ReviewsOK
  <2>4. CASE review[c].last = "none"
    <3>1. review[c] = Unreviewed
      BY <2>4 DEF IInv, ReviewsOK
    <3>2. pendingReviews(c) /\ ~indexed(c)
      BY <2>1, <2>2, <3>1 DEF pendingReviews, Unreviewed
    <3> QED
      BY <3>2
  <2>5. ASSUME NEW k \in Kind, review[c].last = k
        PROVE  /\ ~(pendingReviews(c) /\ indexed(c))
               /\ \/ pendingReviews(c) \/ indexed(c) \/ overtaken(c)
                  \/ review[c].person # "none" /\ review[c][k] = "rejected"
    <3>1. k # "none" /\ review[c][k] \in Decision
      BY <2>3, <2>5 DEF Reviewed
    <3>2. CASE review[c][k] = "approved"
      BY <2>1, <2>2, <2>3, <2>5, <3>1, <3>2 DEF pendingReviews
    <3>3. CASE review[c][k] = "rejected"
      BY <2>1, <2>2, <2>3, <2>5, <3>1, <3>3 DEF pendingReviews
    <3>4. CASE review[c][k] = "none"
      <4>1. ~indexed(c)
        BY <2>2, <2>5, <3>1, <3>4
      <4>2. CASE overtaken(c)
        BY <4>1, <4>2
      <4>3. CASE ~overtaken(c)
        BY <2>1, <2>5, <3>1, <3>4, <4>1, <4>3 DEF pendingReviews, overtaken
      <4> QED
        BY <4>2, <4>3
    <3> QED
      BY <3>1, <3>2, <3>3, <3>4 DEF Decision
  <2> QED
    BY <2>3, <2>4, <2>5 DEF Reviewed
<1> QED
  BY <1>1, AlwaysIInv, PTL
=============================================================================

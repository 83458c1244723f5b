------------------------------- MODULE Briefs -------------------------------
(***************************************************************************)
(* AI briefs of clusters (server/domain/briefs.js): the sweep and readers  *)
(* have OpenVibe.AI write them, people and the AI editor review them, and  *)
(* a reviewed one that still matches its cluster is indexed, listed in the *)
(* sitemap and taken off the review queue, each by a query of its own.     *)
(*                                                                         *)
(* A run takes as long as AI takes.  The cluster may change, other runs    *)
(* may finish and reviews may be recorded between its reads and its write, *)
(* and a review reads the stored brief before it is written.               *)
(*                                                                         *)
(* Only the neutral summary is modelled: the other tones and the           *)
(* comparison of outlets are made in the same way, by readers alone, and   *)
(* are never indexed.  The synthetic text of AI's stub is left out.  No    *)
(* two texts of a brief, and no two changes of a cluster, are taken to     *)
(* fall in the same millisecond.                                           *)
(***************************************************************************)
EXTENDS Integers, Sequences, FiniteSets, FiniteSetsExt, SequencesExt

CONSTANTS
  Cluster,
  Report,      \* source items
  Of,          \* Of[r]: the cluster it is in
  Outlet,      \* Outlet[r]: who published it
  Seeded,      \* reports that are there at the start
  Early,       \* reports dated more than a day ahead
  Steady,      \* clusters that stay recent and do not change, and that only the sweep asks for
  Sweep,       \* sweeps running at once: a tick does not wait for the one before
  Reader,      \* requests for a brief being written at once
  Kind,        \* kinds of reviewers
  MinOutlets,  \* outlets a summary needs
  Limit,       \* briefs a sweep writes
  Shortlist,   \* clusters a sweep's query lists
  MaxVer,      \* bound: changes of a cluster
  MaxReviewing \* bound: reviews under way at once

ASSUME ReportsAssumption == Of \in [Report -> Cluster] /\ IsFiniteSet(Report) /\ DOMAIN Outlet = Report
ASSUME PartiesAssumption ==
  /\ Steady \subseteq Cluster /\ Seeded \subseteq Report /\ Kind \subseteq {"person", "ai_editor"}
  /\ Sweep \cap Reader = {}
ASSUME BoundsAssumption ==
  MinOutlets \in Nat \ {0} /\ Limit \in Nat \ {0} /\ Shortlist \in Nat
  /\ MaxVer \in Nat /\ MaxReviewing \in Nat

VARIABLES
  open,      \* clusters that are open
  active,    \* reports active in their cluster
  gone,      \* reports removed
  ahead,     \* active reports dated more than a day ahead
  recent,    \* clusters whose latest report is of the last 72 hours
  ver,       \* ver[c]: the cluster's updated_at
  brief,     \* brief[c]: the stored brief
  run,       \* run[m]: the AI run a sweep or a reader waits for
  sweep,     \* sweep[s]: the clusters a sweep has left, and how many it wrote
  review,    \* review[c]: each kind's decision on the stored text, and whose review is the latest
  reviewer   \* reviewer[k]: a review between its read of the brief and the recorded decision

clusterVars == <<open, active, gone, ahead, recent, ver>>
reviewVars == <<review, reviewer>>
vars == <<clusterVars, brief, run, sweep, reviewVars>>

-----------------------------------------------------------------------------

Maker == Sweep \cup Reader
MinReports == 2

NoBrief == [ver |-> 0, n |-> 0, from |-> {}, made |-> FALSE]
NoRun == [of |-> "none"]
NoSweep == [todo |-> <<>>, made |-> -1]
Away == [of |-> "none"]
Unreviewed == [last |-> "none", person |-> "none", ai_editor |-> "none"]

Reports(c) == {r \in active : Of[r] = c}
\* What make and the page count: nothing dated after tomorrow.
reports(c) == Reports(c) \ ahead
outlets(S) == Cardinality({Outlet[r] : r \in S})
enough(c) == outlets(reports(c)) >= MinOutlets

\* Mutant: a brief matches while its cluster has as many reports.
fresh_byCount(b, v, n) == b.made /\ b.n = n

fresh(b, v, n) == b.made /\ b.n = n /\ b.ver = v

freshNow(c) == fresh(brief[c], ver[c], Cardinality(reports(c)))
due(c) == c \in open /\ c \in recent /\ Cardinality(reports(c)) >= MinReports /\ enough(c)
Due == {c \in Cluster : due(c)}

-----------------------------------------------------------------------------
(* The cluster changes *)

Changes(c) ==
  /\ c \notin Steady /\ ver[c] < MaxVer
  /\ ver' = [ver EXCEPT ![c] = @ + 1]
  /\ UNCHANGED <<brief, run, sweep, reviewVars>>

\* A cluster with a report dated ahead is recent: window_end is the latest date of all.
dated(reps, clusters) == \A r \in reps : Of[r] \in clusters

\* Of today, or of weeks ago.
Arrive(r) ==
  /\ Of[r] \in open /\ r \notin active \cup gone
  /\ active' = active \cup {r}
  /\ ahead' = ahead \cup ({r} \cap Early)
  /\ recent' \in {recent, recent \cup {Of[r]}} /\ dated(ahead', recent')
  /\ Changes(Of[r])
  /\ UNCHANGED <<open, gone>>

\* Its headline, its text or its date is corrected.
Update(r) ==
  /\ Of[r] \in open /\ r \in active
  /\ ahead' \in {ahead \ {r}, ahead \cup ({r} \cap Early)}
  /\ recent' \in {recent \ {Of[r]}, recent \cup {Of[r]}} /\ dated(ahead', recent')
  /\ Changes(Of[r])
  /\ UNCHANGED <<open, active, gone>>

\* It may have been the latest.
Withdraw(r) ==
  /\ Of[r] \in open /\ r \in active
  /\ active' = active \ {r} /\ gone' = gone \cup {r} /\ ahead' = ahead \ {r}
  /\ recent' \in {recent \ {Of[r]}, recent} /\ dated(ahead', recent')
  /\ Changes(Of[r])
  /\ UNCHANGED open

\* Into some other cluster, and back.
MergeAway(c) ==
  /\ c \in open
  /\ open' = open \ {c}
  /\ Changes(c)
  /\ UNCHANGED <<active, gone, ahead, recent>>

ReverseMerge(c) ==
  /\ c \notin open
  /\ open' = open \cup {c}
  /\ Changes(c)
  /\ UNCHANGED <<active, gone, ahead, recent>>

DayPasses(r) ==
  /\ r \in ahead
  /\ ahead' = ahead \ {r}
  /\ UNCHANGED <<open, active, gone, recent, ver, brief, run, sweep, reviewVars>>

\* 72 hours since its latest report.
Ages(c) ==
  /\ c \in recent \ Steady
  /\ recent' = recent \ {c} /\ dated(ahead, recent')
  /\ UNCHANGED <<open, active, gone, ahead, ver, brief, run, sweep, reviewVars>>

-----------------------------------------------------------------------------
(* make *)

\* Mutant: one brief over the limit.
Left_over(todo, made) ==
  IF todo = <<>> \/ made > Limit THEN NoSweep ELSE [todo |-> todo, made |-> made]

\* A sweep with these clusters left, having written made briefs: over when none is left or at its limit.
Left(todo, made) ==
  IF todo = <<>> \/ made >= Limit THEN NoSweep ELSE [todo |-> todo, made |-> made]

makeable(c) == c \in open

\* The cluster is read, then its reports.
started(c) == [of |-> c, ver |-> ver[c], from |-> {}]

reports_read(m) ==
  /\ run[m] # NoRun /\ run[m].from = {}
  /\ run' = [run EXCEPT ![m] =
       IF enough(run[m].of) THEN [@ EXCEPT !.from = reports(run[m].of)] ELSE NoRun]
  /\ sweep' = IF m \in Sweep /\ ~enough(run[m].of)
              THEN [sweep EXCEPT ![m] = Left(Tail(@.todo), @.made)] ELSE sweep
  /\ UNCHANGED <<clusterVars, brief, reviewVars>>

underway(m) == run[m] # NoRun /\ run[m].from # {}

\* AI cannot be reached in time, refuses, or the run did not finish with a result: nothing is made.
runFails(m) == underway(m) /\ run' = [run EXCEPT ![m] = NoRun]

\* Mutant: the brief is stamped with the cluster as it is when the run ends.
put_late(m) ==
  LET c == run[m].of IN
  /\ brief' = [brief EXCEPT ![c] =
       [ver |-> ver[c], n |-> Cardinality(reports(c)), from |-> run[m].from, made |-> TRUE]]
  /\ review' = [review EXCEPT ![c] = Unreviewed]
  /\ reviewer' = [k \in Kind |->
       IF reviewer[k] # Away /\ reviewer[k].of = c
       THEN [reviewer[k] EXCEPT !.current = FALSE] ELSE reviewer[k]]

\* Whatever is stored is replaced.  No review is of the new text, nor is one under way.
put(m) ==
  LET c == run[m].of IN
  /\ brief' = [brief EXCEPT ![c] =
       [ver |-> run[m].ver, n |-> Cardinality(run[m].from), from |-> run[m].from, made |-> TRUE]]
  /\ review' = [review EXCEPT ![c] = Unreviewed]
  /\ reviewer' = [k \in Kind |->
       IF reviewer[k] # Away /\ reviewer[k].of = c
       THEN [reviewer[k] EXCEPT !.current = FALSE] ELSE reviewer[k]]

-----------------------------------------------------------------------------
(* The sweep *)

item(c) == [of |-> c, ver |-> ver[c], n |-> Cardinality(reports(c))]

\* The due clusters as they are now, or as many of them as the list holds, in any order (the code's
\* is by latest report).
sweepStarts(s) ==
  /\ sweep[s] = NoSweep
  /\ UNCHANGED <<clusterVars, brief, run, reviewVars>>
  /\ \E cut \in kSubset(Min({Shortlist, Cardinality(Due)}), Due) :
       \E list \in SetToSeqs({item(c) : c \in cut}) : sweep' = [sweep EXCEPT ![s] = Left(list, 0)]

\* Mutant: a brief stored once is never made again.
skips_any(c) == brief[c.of].made

\* The brief matches the cluster as the sweep listed it, or make refuses.
skips(c) == fresh(brief[c.of], c.ver, c.n) \/ ~makeable(c.of)

sweepPasses(s) ==
  /\ sweep[s] # NoSweep /\ run[s] = NoRun
  /\ skips(Head(sweep[s].todo))
  /\ sweep' = [sweep EXCEPT ![s] = Left(Tail(@.todo), @.made)]
  /\ UNCHANGED <<clusterVars, brief, run, reviewVars>>

sweepMakes(s) ==
  /\ sweep[s] # NoSweep /\ run[s] = NoRun
  /\ ~skips(Head(sweep[s].todo))
  /\ run' = [run EXCEPT ![s] = started(Head(sweep[s].todo).of)]
  /\ UNCHANGED <<clusterVars, brief, sweep, reviewVars>>

\* AI writes it.
sweepStores(s, c) ==
  /\ underway(s) /\ run[s].of = c
  /\ put(s)
  /\ run' = [run EXCEPT ![s] = NoRun]
  /\ sweep' = [sweep EXCEPT ![s] = Left(Tail(@.todo), @.made + 1)]
  /\ UNCHANGED clusterVars

\* Nothing in the answer is cited: on to the next.
sweepUncited(s) ==
  /\ underway(s)
  /\ run' = [run EXCEPT ![s] = NoRun]
  /\ sweep' = [sweep EXCEPT ![s] = Left(Tail(@.todo), @.made)]
  /\ UNCHANGED <<clusterVars, brief, reviewVars>>

\* AI is down or refuses: the sweep stops there.
sweepStops(s) ==
  /\ runFails(s)
  /\ sweep' = [sweep EXCEPT ![s] = NoSweep]
  /\ UNCHANGED <<clusterVars, brief, reviewVars>>

-----------------------------------------------------------------------------
(* Readers *)

\* Whether the stored brief still matches is not asked.  How many may ask is in Service.
readerAsks(m, c) ==
  /\ run[m] = NoRun /\ makeable(c)
  /\ run' = [run EXCEPT ![m] = started(c)]
  /\ UNCHANGED <<clusterVars, brief, sweep, reviewVars>>

readerStores(m) ==
  /\ underway(m)
  /\ put(m)
  /\ run' = [run EXCEPT ![m] = NoRun]
  /\ UNCHANGED <<clusterVars, sweep>>

\* Or nothing in the answer is cited.
readerFails(m) ==
  /\ runFails(m)
  /\ UNCHANGED <<clusterVars, brief, sweep, reviewVars>>

-----------------------------------------------------------------------------
(* Reviews *)

reviewable(c) == c \in open /\ brief[c].made /\ enough(c)

\* review: the brief is read, and refused when it is not shown.
review_reads(k, c) ==
  /\ reviewer[k] = Away /\ reviewable(c)
  /\ Cardinality({j \in Kind : reviewer[j] # Away}) < MaxReviewing
  /\ reviewer' = [reviewer EXCEPT ![k] = [of |-> c, current |-> TRUE]]
  /\ UNCHANGED <<clusterVars, brief, run, sweep, review>>

\* And the decision inserted, for the text that was read.
review_inserts(k) ==
  /\ reviewer[k] # Away
  /\ \E decision \in {"approved", "rejected"} :
       LET now == IF reviewer[k].current THEN decision ELSE "none"
       IN review' = [review EXCEPT ![reviewer[k].of] = [[@ EXCEPT ![k] = now] EXCEPT !.last = k]]
  /\ reviewer' = [reviewer EXCEPT ![k] = Away]
  /\ UNCHANGED <<clusterVars, brief, run, sweep>>

\* The latest review, of either kind, approves this very text.
isApproved(c) == brief[c].made /\ review[c].last # "none" /\ review[c][review[c].last] = "approved"

-----------------------------------------------------------------------------
(* Where a brief shows *)

\* The brief's page leaves noindex.
indexed(c) == c \in open /\ enough(c) /\ freshNow(c) /\ isApproved(c)

\* Mutant: the cluster's changes are not compared.
matches_byCount(c) ==
  /\ c \in open /\ brief[c].made
  /\ outlets(Reports(c)) >= MinOutlets
  /\ brief[c].n = Cardinality(Reports(c))

\* The queue and the sitemap count every active report, whatever its date.
matches(c) ==
  /\ c \in open /\ brief[c].made
  /\ outlets(Reports(c)) >= MinOutlets
  /\ brief[c].n = Cardinality(Reports(c)) /\ brief[c].ver = ver[c]

\* Mutant: whoever the AI editor has answered leaves the queue.
pendingReviews_answered(c) ==
  matches(c) /\ review[c].person = "none" /\ review[c].last = "none"

\* No decision of a person, nor an approval of the AI editor, on this text.
pendingReviews(c) == matches(c) /\ review[c].person = "none" /\ review[c].ai_editor # "approved"

reviewed(c) == matches(c) /\ isApproved(c)

-----------------------------------------------------------------------------

Init ==
  /\ open \in SUBSET Cluster /\ Steady \subseteq open
  /\ active \in SUBSET Report /\ Seeded \subseteq active
  /\ ahead \in SUBSET (active \cap Early)
  /\ recent \in SUBSET Cluster /\ Steady \subseteq recent /\ dated(ahead, recent)
  /\ gone = {}
  /\ ver = [c \in Cluster |-> 0]
  /\ brief = [c \in Cluster |-> NoBrief]
  /\ run = [m \in Maker |-> NoRun]
  /\ sweep = [s \in Sweep |-> NoSweep]
  /\ review = [c \in Cluster |-> Unreviewed]
  /\ reviewer = [k \in Kind |-> Away]

Clustering ==
  \/ \E r \in Report : Arrive(r) \/ Update(r) \/ Withdraw(r) \/ DayPasses(r)
  \/ \E c \in Cluster : MergeAway(c) \/ ReverseMerge(c) \/ Ages(c)

Sweeps ==
  \E s \in Sweep :
    \/ sweepStarts(s) \/ sweepPasses(s) \/ sweepMakes(s)
    \/ \E c \in Cluster : sweepStores(s, c)
    \/ sweepUncited(s) \/ sweepStops(s)

Running == \E m \in Maker : reports_read(m)

Readers ==
  \E m \in Reader : (\E c \in Cluster \ Steady : readerAsks(m, c)) \/ readerStores(m) \/ readerFails(m)

Reviews ==
  \E k \in Kind : (\E c \in Cluster \ Steady : review_reads(k, c)) \/ review_inserts(k)

Next == Clustering \/ Sweeps \/ Running \/ Readers \/ Reviews

Spec == Init /\ [][Next]_vars

\* The timer ticks and a sweep goes on; every run is answered or times out; AI, asked again and
\* again for a cluster, writes its brief in the end.
Fairness ==
  \A s \in Sweep :
    /\ WF_vars(sweepStarts(s) \/ sweepPasses(s) \/ sweepMakes(s) \/ reports_read(s))
    /\ WF_vars((\E c \in Cluster : sweepStores(s, c)) \/ sweepUncited(s) \/ sweepStops(s))
    /\ \A c \in Cluster : SF_vars(sweepStores(s, c))

FairSpec == Spec /\ Fairness

-----------------------------------------------------------------------------
(* Properties *)

Run == [of : Cluster, ver : 0..MaxVer, from : SUBSET Report]
Decision == {"none", "approved", "rejected"}

\* Type invariant: briefs, runs, sweeps and reviews have the shape of their rows; no sweep writes more
\* than its limit, and a text has a decision only when a review was recorded since it was stored.
TypeOK ==
  /\ open \subseteq Cluster /\ ahead \subseteq active /\ active \subseteq Report /\ gone \subseteq Report
  /\ active \cap gone = {}
  /\ recent \subseteq Cluster /\ dated(ahead, recent)
  /\ ver \in [Cluster -> 0..MaxVer]
  /\ brief \in [Cluster -> [ver : 0..MaxVer, n : 0..Cardinality(Report), from : SUBSET Report,
                           made : BOOLEAN]]
  /\ \A m \in Maker : run[m] = NoRun \/ run[m] \in Run
  /\ \A s \in Sweep : sweep[s] = NoSweep \/ sweep[s].made \in 0..Limit - 1
  /\ \A s \in Sweep : run[s] # NoRun => sweep[s].todo # <<>> /\ Head(sweep[s].todo).of = run[s].of
  /\ review \in [Cluster -> [last : Kind \cup {"none"}, person : Decision, ai_editor : Decision]]
  /\ \A c \in Cluster : review[c].last = "none" => review[c] = Unreviewed
  /\ \A k \in Kind : reviewer[k] # Away => reviewer[k].of \in Cluster

\* What search engines may index says what the reports say now: however long runs took, whichever of
\* two runs ended last, and whatever joined, left or came of age meanwhile, an indexable brief was
\* written from exactly the cluster's live reports, of enough outlets.
IndexedMatchesReports ==
  \A c \in Cluster : indexed(c) =>
    /\ brief[c].from = reports(c)
    /\ outlets(brief[c].from) >= MinOutlets

\* The sitemap, which counts reports in its own way, never lists a brief whose page says noindex.
ListedIsIndexable == \A c \in Cluster : reviewed(c) => indexed(c)

\* A brief that readers see, current, of a cluster without future-dated reports.
current(c) == c \in open /\ enough(c) /\ freshNow(c) /\ Reports(c) = reports(c)

\* The latest review is of an earlier text than the one another has decided on.
overtaken(c) ==
  /\ review[c].last # "none" /\ review[c][review[c].last] = "none"
  /\ review[c].person # "none" \/ review[c].ai_editor # "none"

\* No brief is overlooked: a current one either awaits review or is indexed, and never both, whatever
\* was decided on earlier texts and whatever reviews were under way when it was written.  One that is
\* neither has been decided on by a person and was rejected last, or its decision was followed by a
\* late review of an earlier text.
NothingOverlooked ==
  \A c \in Cluster : current(c) =>
    /\ ~(pendingReviews(c) /\ indexed(c))
    /\ \/ pendingReviews(c) \/ indexed(c) \/ overtaken(c)
       \/ /\ review[c].person # "none"
          /\ review[c].last # "none" /\ review[c][review[c].last] = "rejected"

\* A cluster that stays recent and stops changing has its brief brought up to date, where no more are
\* due than a sweep lists, though it writes few at a time, stops whenever AI refuses one, and a slow run
\* may have stored an old text over a newer one.  A brief still stale when its cluster is 72 hours old
\* stays so.
SweepCatchesUp ==
  \A c \in Cluster : <>[](due(c) /\ Cardinality(Due) <= Shortlist => freshNow(c))
=============================================================================

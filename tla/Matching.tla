------------------------------ MODULE Matching ------------------------------
(***************************************************************************)
(* Which clusters a report matches (compare, commonWords and coreMin of    *)
(* server/domain/clusters.js), over reports whose words, outlets and times *)
(* are given.  A report is the set of terms and the set of entities of its *)
(* headline and summary; how they are cut out of the text is left out.     *)
(***************************************************************************)
EXTENDS Integers, FiniteSets

CONSTANTS
  Item,        \* source items
  Word,        \* terms and entities
  Terms,       \* Terms[i], Entities[i]: an item's words, dates and times left out
  Entities,
  Outlet,      \* Outlet[i]: its source_key
  Day,         \* Day[i]: the day it was published
  Window,      \* days a report may lie outside a cluster's window (72 hours)
  CommonDays,  \* days around a report in which common words are counted (30)
  OwnLeast,    \* reports an outlet needs before its common words count (10)
  AllLeast     \* reports all outlets need (20)

ASSUME ItemAssumption == IsFiniteSet(Item) /\ IsFiniteSet(Word)
ASSUME WordsAssumption ==
  /\ Terms \in [Item -> SUBSET Word] /\ Entities \in [Item -> SUBSET Word]
  /\ Day \in [Item -> Nat] /\ DOMAIN Outlet = Item
ASSUME LimitsAssumption ==
  /\ Window \in Nat /\ CommonDays \in Nat /\ OwnLeast \in Nat /\ AllLeast \in Nat

words(i) == Terms[i] \cup Entities[i]
Carrying(S, w) == {i \in S : w \in words(i)}

\* Mutant: one report is enough, whatever the cluster's size: matching on the union.
coreMin_union(n) == 1

\* Mutant: every report must carry it: clusters stop growing.
coreMin_all(n) == IF n < 1 THEN 1 ELSE n

\* How many of n reports must carry a word for it to be the story's own: about a third.
coreMin(n) == ((IF n < 1 THEN 1 ELSE n) + 3) \div 3

\* Carried by 15% of the outlet's own reports or by a tenth of all, and by at least three.
commonWords(i, pool) ==
  LET often(S, least, percent) ==
        {w \in Word : LET n == Cardinality(Carrying(S, w)) IN
           Cardinality(S) >= least /\ n >= 3 /\ 100 * n >= percent * Cardinality(S)}
  IN often({j \in pool : Outlet[j] = Outlet[i]}, OwnLeast, 15) \cup often(pool, AllLeast, 10)

Apart(i, j) == IF Day[i] < Day[j] THEN Day[j] - Day[i] ELSE Day[i] - Day[j]

\* Of the reports live now; duplicates are not counted.
windowCommon(i, live) == commonWords(i, {j \in live \ {i} : Apart(i, j) <= CommonDays})

\* The words i shares with a cluster of n reports whose stored counts were taken over core.
shared(has, i, core, n, common) ==
  {w \in has[i] \ common : Cardinality({j \in core : w \in has[j]}) >= coreMin(n)}

score(i, core, n, common) ==
  2 * Cardinality(shared(Entities, i, core, n, common)) + Cardinality(shared(Terms, i, core, n, common))

joins(i, core, n, common) ==
  LET e == Cardinality(shared(Entities, i, core, n, common))
      t == Cardinality(shared(Terms, i, core, n, common))
  IN (e >= 1 /\ t >= 3) \/ t >= 4

\* The cluster's window, the times of the reports it was built from, lies within reach.
near(i, core) ==
  /\ \E j \in core : Day[j] <= Day[i] + Window
  /\ \E j \in core : Day[j] + Window >= Day[i]
=============================================================================

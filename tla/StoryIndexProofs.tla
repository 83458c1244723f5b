-------------------------- MODULE StoryIndexProofs --------------------------
(* Proofs about StoryIndex, for every set of items and texts, every number of sources an indexable *)
(* story needs and every bound.  What is proved of Stories carries over: StoryIndex implements it. *)
EXTENDS StoryIndex, StoriesProofs, WellFoundedInduction

-----------------------------------------------------------------------------
(* A story that is also in Search is a story *)

\* Every step of the composition is a step of the story.
LEMMA IndexStep == [IndexNext]_indexVars => [Next]_vars
<1>1. Unlisted => Next
  BY DEF Unlisted, Next, ItemStep, PublicationStep
<1>2. Publication => Next
  BY DEF Publication, Next, PublicationStep
<1>3. ASSUME NEW i \in Item, Updated(i) \/ Removed(i) PROVE Next
  BY <1>3 DEF Updated, Removed, Next, ItemStep
<1>4. ASSUME NEW r \in DOMAIN revs, NEW kind \in {"person", "ai_editor"},
             NEW decision \in {"approved", "rejected"}, Review(r, kind, decision)
      PROVE  Next
  BY <1>4 DEF Review, Next, PublicationStep
<1>5. UNCHANGED indexVars => UNCHANGED vars
  BY DEF indexVars
<1> QED
  BY <1>1, <1>2, <1>3, <1>4, <1>5 DEF IndexNext

\* Telling Search never changes a story: whatever is proved of the stories holds of those in Search.
THEOREM IndexedStoryIsAStory == IndexSpec => Spec
<1>1. IndexInit => Init
  BY DEF IndexInit
<1> QED
  BY <1>1, IndexStep, PTL DEF IndexSpec, Spec

-----------------------------------------------------------------------------
(* What Search lists *)

\* The document names the revision readers see, or nothing.
LEMMA DocumentIsPublic == documentFor # 0 => state = "published" /\ documentFor = pub
BY DEF documentFor

\* A step that changes neither what is public, nor the items, nor the log keeps the document: the
\* published revision is one already saved.
LEMMA DocumentKept ==
  ASSUME TypeOK, [Next]_vars, UNCHANGED <<item, state, pub, reviews>>
  PROVE  documentFor' = documentFor
<1>1. CASE state # "published"
  BY <1>1 DEF documentFor
<1>2. CASE state = "published"
  <2>1. pub \in DOMAIN revs /\ pub' = pub /\ revs'[pub] = revs[pub]
    BY <1>2, PublishedRevision, RevsGrow
  <2>2. supported(pub)' <=> supported(pub)
    BY <2>1 DEF supported, alive, Entry
  <2>3. citedLive(pub)' = citedLive(pub)
    BY <2>1 DEF citedLive, alive, Entry
  <2>4. canPublish(pub)' <=> canPublish(pub)
    BY <2>1 DEF canPublish, approved
  <2>5. indexable(pub)' <=> indexable(pub)
    BY <2>2, <2>3, <2>4 DEF indexable
  <2> QED
    BY <1>2, <2>1, <2>5 DEF documentFor
<1> QED
  BY <1>1, <1>2

\* The steps Search is not told of leave alone what the document is made of.
LEMMA UnlistedEffect ==
  ASSUME TypeOK, Unlisted
  PROVE  UNCHANGED <<item, state, pub, reviews, unseen, told, late>>
<1>1. ASSUME NEW i \in Item, TableStep(i) PROVE UNCHANGED <<item, state, pub, reviews, unseen>>
  <2>1. CASE AttachCheck(i) \/ AddTimelineCheck(i)
    BY <2>1 DEF AttachCheck, AddTimelineCheck, Check, public
  <2>2. CASE attach(i) \/ detach(i) \/ addTimeline(i) \/ removeTimeline(i)
    BY <2>2 DEF attach, detach, addTimeline, removeTimeline, public
  <2> QED
    BY <1>1, <2>1, <2>2 DEF TableStep
<1>2. RequestStep => UNCHANGED <<item, state, pub, reviews, unseen>>
  BY DEF RequestStep, ReviseCheck, AiDraftCheck, PublishCheck, Check, public
<1>3. ASSUME NEW q \in checked, TextStep(q) PROVE UNCHANGED <<item, state, pub, reviews, unseen>>
  BY <1>3, TextEffect DEF Drop, Save, public
<1>4. addFlag => UNCHANGED <<item, state, pub, reviews, unseen>>
  BY DEF addFlag
<1> QED
  BY <1>1, <1>2, <1>3, <1>4 DEF Unlisted

\* An upstream change leaves the publication alone, and of a detached item it leaves the document
\* alone or is remembered as unseen: the document depends on whether the items cited are live.
LEMMA UpstreamIndexEffect ==
  ASSUME TypeOK, NEW i \in Item, UpstreamUpdate(i) \/ UpstreamRemove(i)
  PROVE  /\ UNCHANGED <<state, pub, reviews>>
         /\ unseen \subseteq unseen'
         /\ i \notin attached => i \in unseen' \/ documentFor' = documentFor
<1>1. UNCHANGED <<state, pub, reviews>>
  BY UpstreamEffect
<1>2. unseen \subseteq unseen'
  BY DEF UpstreamUpdate, UpstreamRemove, onUpstreamChange
<1>3. ASSUME i \notin attached, i \notin unseen' PROVE documentFor' = documentFor
  <2>1. CASE state # "published"
    BY <1>1, <2>1 DEF documentFor
  <2>2. CASE state = "published"
    <3>1. revs' = revs
      BY <1>3 DEF UpstreamUpdate, UpstreamRemove, onUpstreamChange
    <3>2. ASSUME NEW j \in Item, Cites(pub, j) PROVE item'[j].live = item[j].live
      <4>1. CASE UpstreamUpdate(i)
        BY <4>1 DEF UpstreamUpdate, TypeOK
      <4>2. CASE UpstreamRemove(i)
        <5>1. j # i
          BY <1>3, <2>2, <3>2, <4>2 DEF UpstreamRemove, onUpstreamChange, RestsOn
        <5> QED
          BY <4>2, <5>1 DEF UpstreamRemove, TypeOK
      <4> QED
        BY <4>1, <4>2
    <3>3. \A n \in UNION revs[pub].paragraphs : alive(pub, n)' <=> alive(pub, n)
      BY <1>1, <3>1, <3>2 DEF alive, Cites, Entry
    <3>4. supported(pub)' <=> supported(pub)
      BY <1>1, <3>1, <3>3 DEF supported
    <3>5. citedLive(pub)' = citedLive(pub)
      BY <1>1, <3>1, <3>3 DEF citedLive
    <3>6. canPublish(pub)' <=> canPublish(pub)
      BY <1>1, <3>1 DEF canPublish, approved
    <3> QED
      BY <1>1, <2>2, <3>4, <3>5, <3>6 DEF documentFor, indexable
  <2> QED
    BY <2>1, <2>2
<1> QED
  BY <1>1, <1>2, <1>3

\* A step keeps the listing to what is published.
LEMMA NextListed ==
  ASSUME TypeOK, [IndexNext]_indexVars, OnlyPublishedListed
  PROVE  OnlyPublishedListed'
<1>1. CASE Unlisted
  BY <1>1, UnlistedEffect DEF OnlyPublishedListed
<1>2. CASE syncIndex
  BY <1>2 DEF OnlyPublishedListed, syncIndex, documentFor
<1>3. ASSUME NEW i \in Item, Updated(i) \/ Removed(i) PROVE OnlyPublishedListed'
  <2>1. CASE UNCHANGED <<told, late>>
    BY <1>3, <2>1, UpstreamIndexEffect DEF Updated, Removed, OnlyPublishedListed
  <2> QED
    BY <1>2, <1>3, <2>1 DEF Updated, Removed, syncUpstream
<1>4. ASSUME NEW r \in DOMAIN revs, NEW kind \in {"person", "ai_editor"},
             NEW decision \in {"approved", "rejected"}, Review(r, kind, decision)
      PROVE  OnlyPublishedListed'
  <2>1. UNCHANGED <<state, pub>>
    BY <1>4 DEF Review, review, public
  <2> QED
    BY <1>2, <1>4, <2>1 DEF Review, OnlyPublishedListed
<1>5. CASE UNCHANGED indexVars
  BY <1>5 DEF indexVars, vars, public, OnlyPublishedListed
<1> QED
  BY <1>1, <1>2, <1>3, <1>4, <1>5 DEF IndexNext, Publication

\* Search lists only a published story, and the revision readers see.
THEOREM OnlyPublishedListedHolds == IndexSpec => []OnlyPublishedListed
<1>1. IndexInit => OnlyPublishedListed
  BY DEF IndexInit, OnlyPublishedListed
<1>2. IndexSpec => []TypeOK
  BY IndexedStoryIsAStory, TypeCorrect, PTL
<1> QED
  BY <1>1, <1>2, NextListed, PTL DEF IndexSpec

\* A step keeps Search current: it is told, or nothing the document is made of changed, or the story
\* is not public before and after, or the step is remembered as unseen or late.
LEMMA NextCurrent ==
  ASSUME TypeOK, [IndexNext]_indexVars, SearchIsCurrent
  PROVE  SearchIsCurrent'
<1> USE IndexStep
<1>1. CASE Unlisted
  BY <1>1, UnlistedEffect, DocumentKept DEF SearchIsCurrent
<1>2. CASE syncIndex
  BY <1>2 DEF SearchIsCurrent, syncIndex
<1>3. ASSUME NEW i \in Item, Updated(i) \/ Removed(i) PROVE SearchIsCurrent'
  <2>1. CASE syncsUpstream(i)
    BY <1>2, <1>3, <2>1 DEF Updated, Removed, syncUpstream
  <2>2. CASE i \notin attached
    <3>1. UNCHANGED <<told, late>>
      BY <1>3, <2>2 DEF Updated, Removed, syncUpstream, syncsUpstream
    <3>2. UpstreamUpdate(i) \/ UpstreamRemove(i)
      BY <1>3 DEF Updated, Removed
    <3>3. unseen \subseteq unseen' /\ (i \in unseen' \/ documentFor' = documentFor)
      BY <2>2, <3>2, UpstreamIndexEffect
    <3> QED
      BY <3>1, <3>3 DEF SearchIsCurrent
  <2>3. CASE i \in attached /\ state # "published"
    <3>1. UNCHANGED <<told, late>>
      BY <1>3, <2>3 DEF Updated, Removed, syncUpstream, syncsUpstream
    <3>2. documentFor' = documentFor /\ unseen \subseteq unseen'
      BY <1>3, <2>3, UpstreamIndexEffect DEF Updated, Removed, documentFor
    <3> QED
      BY <3>1, <3>2 DEF SearchIsCurrent
  <2> QED
    BY <2>1, <2>2, <2>3 DEF syncsUpstream
<1>4. ASSUME NEW r \in DOMAIN revs, NEW kind \in {"person", "ai_editor"},
             NEW decision \in {"approved", "rejected"}, Review(r, kind, decision)
      PROVE  SearchIsCurrent'
  <2>1. CASE UNCHANGED told /\ late' = (late \/ state = "published")
    <3>1. CASE state = "published"
      BY <2>1, <3>1 DEF SearchIsCurrent
    <3>2. CASE state # "published"
      <4>1. UNCHANGED <<state, unseen>>
        BY <1>4 DEF Review, review, public
      <4>2. documentFor' = documentFor
        BY <3>2, <4>1 DEF documentFor
      <4> QED
        BY <2>1, <3>2, <4>1, <4>2 DEF SearchIsCurrent
    <3> QED
      BY <3>1, <3>2
  <2> QED
    BY <1>2, <1>4, <2>1 DEF Review
<1>5. CASE UNCHANGED indexVars
  BY <1>5, DocumentKept DEF indexVars, vars, public, SearchIsCurrent
<1> QED
  BY <1>1, <1>2, <1>3, <1>4, <1>5 DEF IndexNext, Publication

\* What Search was told is what the gate says of the story now, unless an item the published revision
\* rests on was removed while detached or a review decided on an old story row.
THEOREM SearchIsCurrentHolds == IndexSpec => []SearchIsCurrent
<1>1. IndexInit => SearchIsCurrent
  BY DEF IndexInit, Init, SearchIsCurrent, documentFor
<1>2. IndexSpec => []TypeOK
  BY IndexedStoryIsAStory, TypeCorrect, PTL
<1> QED
  BY <1>1, <1>2, NextCurrent, PTL DEF IndexSpec

-----------------------------------------------------------------------------
(* The reviewers' queue *)

\* The rows of the log are numbered, and each says who decided what.
LEMMA RowType ==
  ASSUME TypeOK
  PROVE  /\ DOMAIN reviews = 1..Len(reviews) /\ Len(reviews) \in Nat
         /\ \A k \in DOMAIN reviews : /\ reviews[k].kind \in {"person", "ai_editor"}
                                       /\ reviews[k].decision \in {"approved", "rejected"}
<1> DEFINE Row == [rev : Nat, kind : {"person", "ai_editor"}, decision : {"approved", "rejected"}]
<1>1. reviews \in Seq(Row)
  BY DEF TypeOK
<1>2. \A row \in Row : row.kind \in {"person", "ai_editor"} /\ row.decision \in {"approved", "rejected"}
  OBVIOUS
<1>3. DOMAIN reviews = 1..Len(reviews) /\ Len(reviews) \in Nat /\ \A k \in DOMAIN reviews : reviews[k] \in Row
  <2> HIDE DEF Row
  <2> QED
    BY <1>1
<1> QED
  BY <1>2, <1>3

\* Some row of the log is the latest of any that exist.
LEMMA LatestRow ==
  ASSUME TypeOK, NEW S \in SUBSET DOMAIN reviews, S # {}
  PROVE  \E k \in S : \A j \in S : j <= k
<1> DEFINE after(n) == {k \in S : k > n}
           T == {after(n) : n \in S}
           R == StrictSubsetOrdering(S)
<1>1. DOMAIN reviews = 1..Len(reviews) /\ Len(reviews) \in Nat
  BY RowType
<1>2. IsFiniteSet(S) /\ S \subseteq Nat
  <2>1. IsFiniteSet(1..Len(reviews))
    BY <1>1, FS_Interval
  <2> QED
    BY <1>1, <2>1, FS_Subset
<1>3. PICK n \in S : \A m \in S : ~(<<after(m), after(n)>> \in R)
  <2>1. T \subseteq FiniteSubsetsOf(S) /\ T # {}
    <3>1. \A n \in S : after(n) \in FiniteSubsetsOf(S)
      BY <1>2, FS_Subset DEF FiniteSubsetsOf
    <3> QED
      BY <3>1
  <2>2. PICK x \in T : \A y \in T : ~(<<y, x>> \in R)
    <3> HIDE DEF T, R
    <3>1. IsWellFoundedOn(R, FiniteSubsetsOf(S))
      BY <1>2, FS_StrictSubsetOrderingWellFounded DEF R
    <3> QED
      BY <2>1, <3>1, WFMin
  <2> QED
    BY <2>2
<1>4. ASSUME NEW k \in S, k > n PROVE FALSE
  <2>1. k \in Nat /\ n \in Nat /\ S \subseteq Nat
    BY <1>2
  <2>2. after(k) \subseteq after(n)
    BY <1>4, <2>1
  <2>3. k \in after(n) /\ k \notin after(k)
    BY <1>4, <2>1
  <2> QED
    BY <1>3, <2>2, <2>3 DEF StrictSubsetOrdering
<1>5. \A k \in S : k <= n
  BY <1>2, <1>4
<1> QED
  BY <1>5

\* The rows of one kind of reviewer on a revision.
RowsOf(r, kind) == {k \in DOMAIN reviews : reviews[k].rev = r /\ reviews[k].kind = kind}

\* What a kind of reviewer decided last is the decision of a row no later one of that kind follows.
LEMMA DecisionOfRow ==
  ASSUME TypeOK, NEW r, NEW kind, NEW k \in RowsOf(r, kind), \A j \in RowsOf(r, kind) : j <= k
  PROVE  decisionOf(r, kind) = reviews[k].decision
<1> DEFINE rows == RowsOf(r, kind)
           latest == CHOOSE l \in rows : \A j \in rows : j <= l
<1>1. rows \subseteq Nat
  BY DEF TypeOK, RowsOf
<1>2. latest \in rows /\ \A j \in rows : j <= latest
  OBVIOUS
<1>3. latest = k
  <2> HIDE DEF latest
  <2> QED
    BY <1>1, <1>2
<1> QED
  BY <1>3 DEF decisionOf, RowsOf

\* A kind that has a row on a revision has decided on it, by the latest one.
LEMMA Decided ==
  ASSUME TypeOK, NEW r, NEW kind, RowsOf(r, kind) # {}
  PROVE  /\ decisionOf(r, kind) \in {"approved", "rejected"}
         /\ \E k \in RowsOf(r, kind) :
              /\ \A j \in RowsOf(r, kind) : j <= k
              /\ decisionOf(r, kind) = reviews[k].decision
<1>1. PICK k \in RowsOf(r, kind) : \A j \in RowsOf(r, kind) : j <= k
  BY LatestRow DEF RowsOf
<1>2. decisionOf(r, kind) = reviews[k].decision
  BY <1>1, DecisionOfRow
<1>3. reviews[k].decision \in {"approved", "rejected"}
  BY RowType DEF RowsOf
<1> QED
  BY <1>1, <1>2, <1>3

\* A kind without one has not.
LEMMA Undecided ==
  ASSUME NEW r, NEW kind, RowsOf(r, kind) = {}
  PROVE  decisionOf(r, kind) = "none"
BY DEF decisionOf, RowsOf

\* An approved revision shows who approved it, and a person or the AI editor did.
LEMMA ApprovedIsLabelled ==
  ASSUME TypeOK, NEW r, approved(r)
  PROVE  decisionOf(r, "person") = "approved" \/ decisionOf(r, "ai_editor") = "approved"
<1>1. PICK k \in DOMAIN reviews :
        /\ reviews[k].rev = r /\ reviews[k].decision = "approved"
        /\ \A j \in DOMAIN reviews : reviews[j].rev = r => j <= k
  BY DEF approved
<1>2. reviews[k].kind \in {"person", "ai_editor"}
  BY RowType
<1>3. k \in RowsOf(r, reviews[k].kind) /\ \A j \in RowsOf(r, reviews[k].kind) : j <= k
  BY <1>1 DEF RowsOf
<1>4. decisionOf(r, reviews[k].kind) = "approved"
  BY <1>1, <1>3, DecisionOfRow
<1> QED
  BY <1>2, <1>4

\* The AI editor's approval counts when no person has decided: no row follows its latest.
LEMMA AiApprovalCounts ==
  ASSUME TypeOK, NEW r, decisionOf(r, "person") = "none", decisionOf(r, "ai_editor") = "approved"
  PROVE  approved(r)
<1>1. RowsOf(r, "person") = {}
  BY Decided
<1>2. RowsOf(r, "ai_editor") # {}
  BY Undecided
<1>3. PICK k \in RowsOf(r, "ai_editor") :
        (\A j \in RowsOf(r, "ai_editor") : j <= k) /\ reviews[k].decision = "approved"
  BY <1>2, Decided
<1>4. \A j \in DOMAIN reviews : reviews[j].rev = r => j \in RowsOf(r, "ai_editor")
  BY <1>1, RowType DEF RowsOf
<1> QED
  BY <1>3, <1>4 DEF approved, RowsOf

\* The gate and the queue between them miss no AI text, whatever the log holds.
LEMMA TypedIsQueued == TypeOK => HeldTextIsQueued
<1> SUFFICES ASSUME TypeOK, NEW r \in {underReview} \cap DOMAIN revs,
                    state \in {"draft", "published"}, disclosure(r).ai
             PROVE  IF canPublish(r) THEN disclosure(r).by # {} /\ pendingReviews = {}
                    ELSE pendingReviews = {r} \/ decisionOf(r, "person") # "none"
  BY DEF HeldTextIsQueued
<1>1. revs[r].mode \in {"ai", "hybrid"} /\ {underReview} \cap DOMAIN revs = {r}
  BY DEF disclosure
<1>2. CASE canPublish(r)
  <2>1. decisionOf(r, "person") = "approved" \/ decisionOf(r, "ai_editor") = "approved"
    BY <1>1, <1>2, ApprovedIsLabelled DEF canPublish
  <2> QED
    BY <1>1, <1>2, <2>1 DEF disclosure, labelsFor, pendingReviews
<1>3. CASE ~canPublish(r)
  <2>1. decisionOf(r, "person") = "none" => decisionOf(r, "ai_editor") # "approved"
    BY <1>1, <1>3, AiApprovalCounts DEF canPublish
  <2> QED
    BY <1>1, <1>3, <2>1 DEF pendingReviews
<1> QED
  BY <1>2, <1>3

\* No AI text is held back unseen, and none passes without a label and out of the queue, in whatever
\* order people and the AI editor reviewed it.
THEOREM HeldTextIsQueuedHolds == IndexSpec => []HeldTextIsQueued
BY TypedIsQueued, IndexedStoryIsAStory, TypeCorrect, PTL

-----------------------------------------------------------------------------
(* What readers are promised *)

\* A save adds its revision to those before and changes nothing else readers rely on.
LEMMA SaveWrites ==
  ASSUME TypeOK, [Next]_vars, Saved \/ Prepared
  PROVE  Abstract!Write
<1>1. \A r \in DOMAIN revs : revs'[r] = revs[r]
  BY RevsGrow
<1>2. Len(revs') = Len(revs) + 1
  <2>1. PICK rev : revs' = Append(revs, rev)
    BY DEF Saved, Prepared
  <2>2. revs \in Seq(Revision)
    BY DEF TypeOK
  <2> QED
    BY <2>1, <2>2
<1>3. UNCHANGED <<reviews, state, pub>>
  BY DEF Saved, Prepared
<1>4. approvedEver' = approvedEver /\ shown' = shown
  BY <1>3 DEF approvedEver, shown
<1> QED
  BY <1>1, <1>2, <1>4 DEF Abstract!Write

\* What is published is human or has been approved.
LEMMA PublishShows ==
  ASSUME TypeOK, NEW r \in DOMAIN revs, NEW note \in BOOLEAN, publish(r, note)
  PROVE  Abstract!Show(r)
<1>1. /\ canPublish(r) /\ state' = "published" /\ pub' = r
      /\ UNCHANGED <<revs, reviews>>
  BY DEF publish, noProblems
<1>2. revs[r].mode \in Modes
  <2>1. revs[r] \in Revision
    BY DEF TypeOK
  <2> QED
    BY <2>1 DEF Revision
<1>3. approved(r) => r \in approvedEver
  BY DEF approved, approvedEver
<1>4. revs[r].mode = "human" \/ r \in approvedEver
  BY <1>1, <1>2, <1>3 DEF canPublish, Modes
<1>5. approvedEver' = approvedEver /\ shown' = r
  BY <1>1 DEF approvedEver, shown
<1> QED
  BY <1>1, <1>4, <1>5 DEF Abstract!Show

\* A review approves its revision or nothing.
LEMMA ReviewApproves ==
  ASSUME TypeOK, NEW r \in DOMAIN revs, NEW kind \in {"person", "ai_editor"},
         NEW decision \in {"approved", "rejected"}, review(r, kind, decision)
  PROVE  Abstract!Approve(r) \/ Abstract!Relist
<1> DEFINE row == [rev |-> r, kind |-> kind, decision |-> decision]
           n == Len(reviews)
<1>1. reviews' = Append(reviews, row) /\ UNCHANGED <<revs, state, pub>>
  BY DEF review, public
<1>2. n \in Nat /\ DOMAIN reviews = 1..n
  BY RowType
<1>3. /\ DOMAIN reviews' = 1..n + 1 /\ reviews'[n + 1] = row
      /\ \A k \in 1..n : reviews'[k] = reviews[k]
  <2>1. \E S : reviews \in Seq(S)
    BY DEF TypeOK
  <2> HIDE DEF row
  <2> QED
    BY <1>1, <1>2, <2>1
<1>4. approvedEver' = IF decision = "approved" THEN approvedEver \cup {r} ELSE approvedEver
  <2> DEFINE yes == {j \in DOMAIN reviews : reviews[j].decision = "approved"}
  <2>1. yes' = IF decision = "approved" THEN yes \cup {n + 1} ELSE yes
    BY <1>2, <1>3
  <2>2. \A k \in yes : reviews'[k].rev = reviews[k].rev
    BY <1>2, <1>3
  <2>3. reviews'[n + 1].rev = r
    BY <1>3
  <2>4. approvedEver = {reviews[k].rev : k \in yes} /\ approvedEver' = {reviews'[k].rev : k \in yes'}
    BY DEF approvedEver
  <2> HIDE DEF yes
  <2> QED
    BY <2>1, <2>2, <2>3, <2>4
<1>5. shown' = shown
  BY <1>1 DEF shown
<1> QED
  BY <1>1, <1>4, <1>5 DEF Abstract!Approve, Abstract!Relist

\* Any other step hides the story or leaves what readers see.
LEMMA QuietHides ==
  ASSUME Quiet, UNCHANGED revs
  PROVE  Abstract!Hide \/ Abstract!Relist
<1>1. approvedEver' = approvedEver
  BY DEF Quiet, approvedEver
<1>2. shown' = shown \/ shown' = 0
  BY DEF Quiet, shown
<1> QED
  BY <1>1, <1>2 DEF Abstract!Hide, Abstract!Relist

\* Every step is a step of the readers' promise.
LEMMA StepKeepsEdition ==
  ASSUME TypeOK, OnlyPublishedListed, OnlyPublishedListed', [IndexNext]_indexVars
  PROVE  Abstract!Next
<1>1. [Next]_vars
  BY IndexStep
<1>2. told' \in {0, shown'}
  BY DEF OnlyPublishedListed, shown
<1>3. CASE Saved \/ Prepared
  BY <1>1, <1>2, <1>3, SaveWrites DEF Abstract!Next
<1>4. CASE UNCHANGED revs
  <2>1. ASSUME NEW r \in DOMAIN revs, NEW note \in BOOLEAN, publish(r, note) PROVE Abstract!Next
    BY <1>2, <2>1, PublishShows DEF Abstract!Next
  <2>2. ASSUME NEW r \in DOMAIN revs, NEW kind \in {"person", "ai_editor"},
               NEW decision \in {"approved", "rejected"}, review(r, kind, decision)
        PROVE  Abstract!Next
    BY <1>2, <2>2, ReviewApproves DEF Abstract!Next
  <2>3. Quiet => Abstract!Next
    BY <1>2, <1>4, QuietHides DEF Abstract!Next
  <2> QED
    BY <1>1, <2>1, <2>2, <2>3, PublicEffect
<1> QED
  BY <1>1, <1>3, <1>4, RevsEffect

\* The readers' promise: no saved text changes, no AI text is shown unapproved, and Search lists the
\* revision readers see or nothing, whatever requests were open when the story was taken back.
\* StoryIndex implements Edition.
THEOREM StoryImplementsEdition == IndexSpec => ImplementsEdition
<1>1. IndexInit => Abstract!Init
  BY DEF IndexInit, Init, Abstract!Init, approvedEver, shown
<1>2. TypeOK /\ OnlyPublishedListed /\ OnlyPublishedListed' /\ [IndexNext]_indexVars
        => [Abstract!Next]_(Abstract!story)
  BY StepKeepsEdition
<1>3. IndexSpec => []TypeOK
  BY IndexedStoryIsAStory, TypeCorrect, PTL
<1> QED
  BY <1>1, <1>2, <1>3, OnlyPublishedListedHolds, PTL DEF IndexSpec, ImplementsEdition, Abstract!Spec
=============================================================================

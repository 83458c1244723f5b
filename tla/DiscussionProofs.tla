-------------------------- MODULE DiscussionProofs --------------------------
(* Proofs about Discussion, for every set of items and texts and every bound.  What is proved of *)
(* Stories carries over: Discussion implements it. *)
EXTENDS Discussion, StoriesProofs

-----------------------------------------------------------------------------
(* A story with a thread is a story *)

\* Every step of the composition is a step of the story, or leaves it alone.
LEMMA DiscussionStep == [DiscussionNext]_discussionVars => [Next]_vars
<1>1. Unwatched => Next
  BY DEF Unwatched, Next, ItemStep, PublicationStep
<1>2. Watched => Next
  BY DEF Watched, Next, PublicationStep
<1>3. ASSUME NEW i \in Item, Removed(i) PROVE Next
  BY <1>3 DEF Removed, Next, ItemStep
<1>4. follow \/ setThreadVisibility \/ ReadPage \/ threadFor \/ Stop => UNCHANGED vars
  BY DEF follow, setThreadVisibility, ReadPage, threadFor, Stop
<1>5. UNCHANGED discussionVars => UNCHANGED vars
  BY DEF discussionVars
<1> QED
  BY <1>1, <1>2, <1>3, <1>4, <1>5 DEF DiscussionNext

\* Nothing the discussion does, a restart included, changes a story: what is proved of the stories
\* holds of those with a thread.
THEOREM DiscussedStoryIsAStory == DiscussionSpec => Spec
<1>1. DiscussionInit => Init
  BY DEF DiscussionInit
<1> QED
  BY <1>1, DiscussionStep, PTL DEF DiscussionSpec, Spec

-----------------------------------------------------------------------------
(* Drafts *)

\* The strengthening: a page that asks for a thread, too, has found the story public once, and a call
\* is made only about a thread that exists.
OncePublic ==
  /\ thread # "none" \/ resolving => ever
  /\ thread = "none" => sending = "none"

\* A story that has been public stays one that has.
LEMMA EverStays ==
  ASSUME TypeOK, [Next]_vars, ever
  PROVE  ever'
BY PublicEffect DEF publish, review, Quiet, public

\* The steps of the story itself leave the thread, the calls and the pages alone.
LEMMA StoryStepsKeepTalk ==
  ASSUME Unwatched \/ Watched \/ (\E i \in Item : Removed(i))
  PROVE  UNCHANGED <<thread, sending, resolving, missed>>
BY DEF Unwatched, Watched, Removed, talk

\* Every step keeps threads from drafts: only a page of an open story asks for one.
LEMMA NextOncePublic ==
  ASSUME TypeOK, [DiscussionNext]_discussionVars, OncePublic
  PROVE  OncePublic'
<1>1. ever => ever'
  BY DiscussionStep, EverStays
<1>2. CASE UNCHANGED <<thread, sending, resolving>>
  BY <1>1, <1>2 DEF OncePublic
<1>3. CASE follow
  BY <1>1, <1>3 DEF OncePublic, follow
<1>4. CASE setThreadVisibility
  BY <1>1, <1>4 DEF OncePublic, setThreadVisibility
<1>5. CASE ReadPage
  <2>1. ever
    BY <1>5 DEF ReadPage, mayResolve, open, TypeOK
  <2> QED
    BY <1>1, <1>5, <2>1 DEF OncePublic, ReadPage
<1>6. CASE threadFor
  BY <1>1, <1>6 DEF OncePublic, threadFor, vars, public
<1>7. CASE Stop
  BY <1>1, <1>7 DEF OncePublic, Stop
<1> QED
  BY <1>2, <1>3, <1>4, <1>5, <1>6, <1>7, StoryStepsKeepTalk
     DEF DiscussionNext, discussionVars, talk

\* A thread exists only for a story that has been public.
THEOREM NoThreadForDraftsHolds == DiscussionSpec => []NoThreadForDrafts
<1>1. DiscussionInit => OncePublic
  BY DEF DiscussionInit, OncePublic
<1>2. OncePublic => NoThreadForDrafts
  BY DEF OncePublic, NoThreadForDrafts
<1>3. DiscussionSpec => []TypeOK
  BY DiscussedStoryIsAStory, TypeCorrect, PTL
<1> QED
  BY <1>1, <1>2, <1>3, NextOncePublic, PTL DEF DiscussionSpec

-----------------------------------------------------------------------------
(* When a story opens and closes *)

\* A step that changes neither what is public nor what is live neither opens nor closes the story.
LEMMA OpenKept ==
  ASSUME TypeOK, [Next]_vars, UNCHANGED <<state, pub>>,
         \A i \in Item : item'[i].live = item[i].live \/ ~Entry(pub, i)
  PROVE  open' = open
<1>1. CASE state # "published"
  BY <1>1 DEF open
<1>2. CASE state = "published"
  <2>1. pub \in DOMAIN revs /\ pub' = pub /\ revs'[pub] = revs[pub]
    BY <1>2, PublishedRevision, RevsGrow
  <2>2. \A i \in Item : Entry(pub, i)' = Entry(pub, i)
    BY <2>1 DEF Entry
  <2>3. \A n : alive(pub, n)' = alive(pub, n)
    BY <2>1, <2>2 DEF alive
  <2>4. supported(pub)' = supported(pub)
    BY <2>1, <2>3 DEF supported
  <2> QED
    BY <1>2, <2>1, <2>4 DEF open
<1> QED
  BY <1>1, <1>2

\* The writes that are not watched, an item's update among them, neither open nor close it.
LEMMA UnwatchedKeepsOpen ==
  ASSUME TypeOK, Unwatched
  PROVE  open' = open
<1>0. [Next]_vars
  BY DiscussionStep DEF DiscussionNext
<1>1. ASSUME NEW i \in Item, TableStep(i) PROVE UNCHANGED <<item, state, pub>>
  <2>1. CASE AttachCheck(i) \/ AddTimelineCheck(i)
    BY <2>1 DEF AttachCheck, AddTimelineCheck, Check, public
  <2>2. CASE attach(i) \/ detach(i) \/ addTimeline(i) \/ removeTimeline(i)
    BY <2>2 DEF attach, detach, addTimeline, removeTimeline, public
  <2> QED
    BY <1>1, <2>1, <2>2 DEF TableStep
<1>2. ASSUME NEW i \in Item, UpstreamUpdate(i)
      PROVE  UNCHANGED <<state, pub>> /\ \A j \in Item : item'[j].live = item[j].live
  <2>1. item \in [Item -> [live : BOOLEAN, rev : Nat]]
    BY DEF TypeOK
  <2>2. item' = [item EXCEPT ![i].rev = item[i].rev + 1]
    BY <1>2 DEF UpstreamUpdate
  <2>3. \A j \in Item : item'[j].live = item[j].live
    BY <2>1, <2>2
  <2> QED
    BY <1>2, <2>3, UpstreamEffect
<1>3. RequestStep => UNCHANGED <<item, state, pub>>
  BY DEF RequestStep, ReviseCheck, AiDraftCheck, PublishCheck, Check, public
<1>4. ASSUME NEW q \in checked, TextStep(q) PROVE UNCHANGED <<item, state, pub>>
  BY <1>4, TextEffect DEF Drop, Save, public
<1>5. ASSUME NEW r, NEW kind, NEW decision, review(r, kind, decision)
      PROVE  UNCHANGED <<item, state, pub>>
  BY <1>5 DEF review, public
<1>6. addFlag => UNCHANGED <<item, state, pub>>
  BY DEF addFlag
<1>7. UNCHANGED <<state, pub>> /\ \A j \in Item : item'[j].live = item[j].live
  BY <1>1, <1>2, <1>3, <1>4, <1>5, <1>6 DEF Unwatched
<1> QED
  BY <1>0, <1>7, OpenKept

\* Nor does the removal of an item the story never linked: no revision has an entry of it.
LEMMA StrangerKeepsOpen ==
  ASSUME TypeOK, NumbersNeverReused, NEW i \in Item, UpstreamRemove(i), ~watchSource(i)
  PROVE  open' = open
<1>1. [Next]_vars
  BY DEF Next, ItemStep
<1>2. UNCHANGED <<state, pub>>
  BY UpstreamEffect
<1>3. \A j \in Item : j = i \/ item'[j] = item[j]
  <2>1. PICK up \in item[i].rev..MaxUp : item' = [item EXCEPT ![i] = [live |-> FALSE, rev |-> up]]
    BY DEF UpstreamRemove
  <2> QED
    BY <2>1 DEF TypeOK
<1>4. CASE state = "published"
  <2>1. ~Entry(pub, i)
    BY <1>4, PublishedRevision DEF NumbersNeverReused, watchSource, Entry
  <2> QED
    BY <1>1, <1>2, <1>3, <2>1, OpenKept
<1>5. CASE state # "published"
  BY <1>2, <1>5 DEF open
<1> QED
  BY <1>4, <1>5

-----------------------------------------------------------------------------
(* The thread follows the story *)

\* What the thread and the calls may be.
TalkTyped ==
  /\ thread \in {"none", "public", "hidden"} /\ sending \in {"none", "public", "hidden"}
  /\ flushing \in Seq(BOOLEAN)
  /\ resolving \in BOOLEAN /\ missed \in BOOLEAN

\* The visibility v is what the story asks for now, or a write that waits will see that it is not.
Covered(v) == v = visibility \/ \E k \in DOMAIN flushing : flushing[k] # open

\* The strengthening: what is being set, or else what the thread shows, is right or will be noticed.
ThreadCovered ==
  /\ sending # "none" => Covered(sending)
  /\ sending = "none" /\ thread # "none" /\ ~missed => Covered(thread)

\* A watched write keeps what is covered: when it opens or closes the story it waits with the state
\* before it.
LEMMA WatchCovers ==
  ASSUME TalkTyped, watch, NEW v, Covered(v)
  PROVE  Covered(v)'
<1> DEFINE was == open
<1>1. was \in BOOLEAN /\ was' \in BOOLEAN /\ flushing \in Seq(BOOLEAN)
  BY DEF open, TalkTyped
<1>2. flushing' = Append(flushing, was)
  BY DEF watch
<1>3. /\ DOMAIN flushing' = 1..(Len(flushing) + 1) /\ DOMAIN flushing = 1..Len(flushing)
      /\ Len(flushing) \in Nat
      /\ \A k \in DOMAIN flushing : k \in DOMAIN flushing' /\ flushing'[k] = flushing[k]
      /\ flushing'[Len(flushing) + 1] = was
  <2> HIDE DEF was
  <2> QED
    BY <1>1, <1>2
<1>4. CASE was' # was
  BY <1>3, <1>4 DEF Covered
<1>5. CASE was' = was
  BY <1>3, <1>5 DEF Covered, visibility
<1> QED
  BY <1>4, <1>5

\* A sequence of anything, with one more of it.
LEMMA OneMore ==
  ASSUME NEW S, NEW s \in Seq(S), NEW e \in S
  PROVE  Append(s, e) \in Seq(S)
OBVIOUS

\* Every step keeps the types of the thread and of the calls.
LEMMA NextTalkTyped ==
  ASSUME TalkTyped, [DiscussionNext]_discussionVars
  PROVE  TalkTyped'
<1>1. open \in BOOLEAN /\ visibility \in {"public", "hidden"}
  BY DEF open, visibility
<1>2. watch => flushing' \in Seq(BOOLEAN)
  <2> DEFINE was == open
  <2>1. flushing \in Seq(BOOLEAN) /\ was \in BOOLEAN
    BY DEF TalkTyped, open
  <2>2. watch => flushing' = Append(flushing, was)
    BY DEF watch
  <2>3. Append(flushing, was) \in Seq(BOOLEAN)
    <3> HIDE DEF was
    <3> QED
      BY <2>1, OneMore
  <2> QED
    BY <2>2, <2>3
<1>3. CASE Unwatched \/ UNCHANGED discussionVars
  BY <1>3 DEF Unwatched, discussionVars, talk, TalkTyped
<1>4. CASE Watched \/ \E i \in Item : Removed(i)
  BY <1>2, <1>4 DEF Watched, Removed, TalkTyped
<1>5. CASE follow
  BY <1>1, <1>5 DEF follow, TalkTyped
<1>6. CASE setThreadVisibility
  BY <1>6 DEF setThreadVisibility, TalkTyped
<1>7. CASE ReadPage
  BY <1>7 DEF ReadPage, TalkTyped
<1>8. CASE threadFor
  BY <1>1, <1>8 DEF threadFor, TalkTyped
<1>9. CASE Stop
  <2>1. <<>> \in Seq(BOOLEAN)
    OBVIOUS
  <2>2. flushing' \in Seq(BOOLEAN)
    BY <1>9, <2>1 DEF Stop
  <2> QED
    BY <1>9, <2>2 DEF Stop, TalkTyped
<1> QED
  BY <1>3, <1>4, <1>5, <1>6, <1>7, <1>8, <1>9 DEF DiscussionNext

\* Following a write that saw the story as it is now drops no one who would notice otherwise.
LEMMA FollowCovers ==
  ASSUME TalkTyped, flushing # <<>>, flushing' = Tail(flushing), UNCHANGED vars,
         open = Head(flushing), NEW v, Covered(v)
  PROVE  Covered(v)'
<1> DEFINE now == open
<1>1. flushing \in Seq(BOOLEAN) /\ now \in BOOLEAN /\ now' = now /\ visibility' = visibility
  BY DEF TalkTyped, open, visibility, vars, public, supported, alive, Entry
<1>2. ASSUME NEW k \in DOMAIN flushing, flushing[k] # now
      PROVE  \E l \in DOMAIN flushing' : flushing'[l] # now
  <2> HIDE DEF now
  <2>1. now = flushing[1] /\ k \in 2..Len(flushing) /\ Len(flushing) \in Nat
    BY <1>1, <1>2 DEF now
  <2>2. k - 1 \in DOMAIN flushing' /\ flushing'[k - 1] = flushing[k]
    BY <1>1, <2>1
  <2> QED
    BY <1>2, <2>2
<1> QED
  BY <1>1, <1>2 DEF Covered

\* Every step keeps the thread covered.
LEMMA NextCovered ==
  ASSUME TypeOK, NumbersNeverReused, TalkTyped, OncePublic, ThreadCovered,
         [DiscussionNext]_discussionVars
  PROVE  ThreadCovered'
<1>1. CASE UNCHANGED talk /\ open' = open
  BY <1>1 DEF ThreadCovered, Covered, visibility, talk
<1>2. CASE watch /\ UNCHANGED <<thread, sending, missed>>
  BY <1>2, WatchCovers DEF ThreadCovered
<1>3. ASSUME NEW i \in Item, Removed(i), ~watchSource(i) PROVE ThreadCovered'
  <2>1. UNCHANGED talk
    BY <1>3 DEF Removed, talk
  <2> QED
    BY <1>1, <1>3, <2>1, StrangerKeepsOpen DEF Removed
<1>4. UNCHANGED vars => open' = open /\ visibility' = visibility
  BY DEF open, visibility, vars, public, supported, alive, Entry
<1>5. CASE follow
  <2>1. /\ sending = "none" /\ flushing # <<>> /\ flushing' = Tail(flushing)
        /\ UNCHANGED <<vars, thread, missed>>
        /\ sending' = IF open # Head(flushing) /\ thread # "none" THEN visibility ELSE "none"
    BY <1>5 DEF follow
  <2>2. CASE open # Head(flushing) /\ thread # "none"
    <3>1. sending' = visibility' /\ sending' # "none"
      BY <1>4, <2>1, <2>2 DEF visibility
    <3> QED
      BY <3>1 DEF ThreadCovered, Covered
  <2>3. CASE ~(open # Head(flushing) /\ thread # "none")
    <3>1. sending' = "none"
      BY <2>1, <2>3
    <3>2. thread' # "none" /\ ~missed' => Covered(thread)'
      BY <2>1, <2>3, FollowCovers DEF ThreadCovered
    <3> QED
      BY <3>1, <3>2 DEF ThreadCovered
  <2> QED
    BY <2>2, <2>3
<1>6. CASE setThreadVisibility
  <2>1. sending # "none" /\ sending' = "none" /\ UNCHANGED <<vars, flushing>>
        /\ (thread' = sending \/ missed' = TRUE)
    BY <1>6 DEF setThreadVisibility
  <2>2. Covered(sending)
    BY <2>1 DEF ThreadCovered
  <2>3. ~missed' => Covered(thread)'
    BY <1>4, <2>1, <2>2 DEF Covered
  <2> QED
    BY <2>1, <2>3 DEF ThreadCovered
<1>7. CASE ReadPage
  BY <1>4, <1>7 DEF ReadPage, ThreadCovered, Covered
<1>8. CASE threadFor
  <2>1. /\ UNCHANGED <<vars, flushing, sending>>
        /\ thread' = IF thread = "none" THEN "public" ELSE thread
        /\ missed' = (missed \/ (thread = "none" /\ ~open))
    BY <1>8 DEF threadFor
  <2>2. CASE thread = "none"
    <3>1. sending' = "none" /\ (~missed' => thread' = visibility')
      BY <1>4, <2>1, <2>2 DEF OncePublic, visibility
    <3> QED
      BY <3>1 DEF ThreadCovered, Covered
  <2>3. CASE thread # "none"
    <3>1. UNCHANGED <<thread, sending, flushing, vars>> /\ (missed' <=> missed)
      BY <2>1, <2>3
    <3>2. Covered(thread)' = Covered(thread) /\ Covered(sending)' = Covered(sending)
      BY <1>4, <3>1 DEF Covered
    <3> QED
      BY <3>1, <3>2 DEF ThreadCovered
  <2> QED
    BY <2>2, <2>3
<1>9. CASE Stop
  <2>1. /\ UNCHANGED <<vars, thread>> /\ sending' = "none"
        /\ ~missed' => ~missed /\ flushing = <<>> /\ sending = "none"
    BY <1>9 DEF Stop
  <2>2. thread # "none" /\ ~missed' => thread = visibility
    <3>1. flushing = <<>> => DOMAIN flushing = {}
      OBVIOUS
    <3> QED
      BY <2>1, <3>1 DEF ThreadCovered, Covered
  <2>3. thread' # "none" /\ ~missed' => Covered(thread)'
    BY <1>4, <2>1, <2>2 DEF Covered
  <2> QED
    BY <2>1, <2>3 DEF ThreadCovered
<1> QED
  <2>1. CASE Unwatched
    BY <1>1, <2>1, UnwatchedKeepsOpen DEF Unwatched
  <2>2. CASE Watched
    BY <1>2, <2>2 DEF Watched
  <2>3. ASSUME NEW i \in Item, Removed(i) PROVE ThreadCovered'
    BY <1>2, <1>3, <2>3 DEF Removed
  <2>4. CASE UNCHANGED discussionVars
    BY <1>1, <1>4, <2>4 DEF discussionVars
  <2> QED
    BY <1>5, <1>6, <1>7, <1>8, <1>9, <2>1, <2>2, <2>3, <2>4 DEF DiscussionNext

\* Once every write is followed, the thread is shown exactly when the story is open, unless a call was
\* lost or the thread was made too late and no call was made since.
THEOREM ThreadFollowsHolds == DiscussionSpec => []ThreadFollows
<1> DEFINE Inv == TalkTyped /\ OncePublic /\ ThreadCovered
<1>1. DiscussionInit => Inv
  <2>1. <<>> \in Seq(BOOLEAN)
    OBVIOUS
  <2> QED
    BY <2>1 DEF DiscussionInit, TalkTyped, OncePublic, ThreadCovered
<1>2. TypeOK /\ NumbersNeverReused /\ Inv /\ [DiscussionNext]_discussionVars => Inv'
  BY NextTalkTyped, NextOncePublic, NextCovered
<1>3. Inv => ThreadFollows
  <2>1. flushing = <<>> => DOMAIN flushing = {}
    OBVIOUS
  <2> QED
    BY <2>1 DEF ThreadCovered, Covered, ThreadFollows
<1>4. DiscussionSpec => []TypeOK /\ []NumbersNeverReused
  BY DiscussedStoryIsAStory, TypeCorrect, NumbersNeverReusedHolds, PTL
<1> QED
  BY <1>1, <1>2, <1>3, <1>4, PTL DEF DiscussionSpec
=============================================================================

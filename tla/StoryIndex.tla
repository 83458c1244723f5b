----------------------------- MODULE StoryIndex -----------------------------
(***************************************************************************)
(* A story in Search (server/domain/publication.js): Stories together with *)
(* what News has told OpenVibe.Search about the story.  A transaction that *)
(* changes the story's publication, or may change whether it is indexable, *)
(* calls syncIndex before it commits.                                      *)
(*                                                                         *)
(* The document is abstracted to the published revision it lists, 0 when   *)
(* Search was told the story is gone or noindex.  Item stands for          *)
(* independent sources.  An editor's noindex switch, the word minimum and  *)
(* the product events are left out.                                        *)
(***************************************************************************)
EXTENDS Stories

CONSTANT MinSources  \* independent live sources an indexable story cites

ASSUME IndexAssumption == MinSources \in Nat

VARIABLES
  told,  \* the revision Search was last told to list, 0 for none
  late   \* history: a review decided on an old story row, and nothing was synced since

indexVars == <<vars, told, late>>

-----------------------------------------------------------------------------

citedLive(r) == {n \in UNION revs[r].paragraphs : alive(r, n)}

\* The index gate: nothing unsupported, enough sources, AI text reviewed.
indexable(r) ==
  /\ supported(r)
  /\ Cardinality(citedLive(r)) >= MinSources
  /\ canPublish(r)

\* Mutant: the gate counts a retracted story as published, as its product events do.
documentFor_retractedListed ==
  IF state \in {"published", "retracted"} /\ indexable(pub) THEN pub ELSE 0

documentFor == IF state = "published" /\ indexable(pub) THEN pub ELSE 0

\* latestByKind: what a kind of reviewer decided last on a revision.
decisionOf(r, kind) ==
  LET rows == {k \in DOMAIN reviews : reviews[k].rev = r /\ reviews[k].kind = kind}
  IN IF rows = {} THEN "none" ELSE reviews[CHOOSE k \in rows : \A j \in rows : j <= k].decision

\* Mutant: only a person's approval is shown.
labelsFor_person(r) == {kind \in {"person"} : decisionOf(r, kind) = "approved"}

\* The public labels of a revision: who approved it.
labelsFor(r) == {kind \in {"person", "ai_editor"} : decisionOf(r, kind) = "approved"}

\* What the page says of a revision: whether AI wrote it, and whose review it had.
disclosure(r) == [ai |-> revs[r].mode \in {"ai", "hybrid"}, by |-> labelsFor(r)]

\* The revision whose review decides: what readers see, else the newest.
underReview == IF state = "published" THEN pub ELSE Len(revs)

\* Mutant: the AI editor's rejection takes a text out of the queue.
pendingReviews_answered ==
  {r \in {underReview} \cap DOMAIN revs :
     /\ state \in {"draft", "published"} /\ revs[r].mode \in {"ai", "hybrid"}
     /\ decisionOf(r, "person") = "none" /\ decisionOf(r, "ai_editor") = "none"}

\* The reviewers' queue: no person decided on it, and the AI editor did not approve it.
pendingReviews ==
  {r \in {underReview} \cap DOMAIN revs :
     /\ state \in {"draft", "published"}
     /\ revs[r].mode \in {"ai", "hybrid"}
     /\ decisionOf(r, "person") = "none"
     /\ decisionOf(r, "ai_editor") # "approved"}

syncIndex == told' = documentFor' /\ late' = FALSE

\* Upstream: the stories the item is attached to, when they are published.
syncsUpstream(i) == i \in attached /\ state = "published"

-----------------------------------------------------------------------------

IndexInit == Init /\ told = 0 /\ late = FALSE

\* Steps that cannot change what Search lists.
Unlisted ==
  /\ \/ \E i \in Item : TableStep(i)
     \/ RequestStep
     \/ \E q \in checked : TextStep(q)
     \/ addFlag
  /\ UNCHANGED <<told, late>>

\* afterChange ends with syncIndex.
Publication ==
  /\ \/ \E r \in DOMAIN revs, note \in BOOLEAN : publish(r, note)
     \/ unpublish
     \/ retract
  /\ syncIndex

syncUpstream(i) == IF syncsUpstream(i) THEN syncIndex ELSE UNCHANGED <<told, late>>

Updated(i) == UpstreamUpdate(i) /\ syncUpstream(i)
Removed(i) == UpstreamRemove(i) /\ syncUpstream(i)

\* Mutant: only an approval is synced.
Review_approvalsOnly(r, kind, decision) ==
  /\ review(r, kind, decision)
  /\ IF state = "published" /\ decision = "approved" THEN syncIndex ELSE UNCHANGED <<told, late>>

\* review asks the story row the route read, the current one or an older one: any story was a draft,
\* and one that has been public may have been read then.
Review(r, kind, decision) ==
  /\ review(r, kind, decision)
  /\ \/ ever /\ syncIndex
     \/ UNCHANGED told /\ late' = (late \/ state = "published")

IndexNext ==
  \/ Unlisted
  \/ Publication
  \/ \E i \in Item : Updated(i) \/ Removed(i)
  \/ \E r \in DOMAIN revs, kind \in {"person", "ai_editor"}, decision \in {"approved", "rejected"} :
       Review(r, kind, decision)

IndexSpec == IndexInit /\ [][IndexNext]_indexVars

-----------------------------------------------------------------------------
(* Properties *)

\* Search lists only a published story, and the revision readers see: a draft, an unpublished or a
\* retracted story is out of it, whatever requests were open when it was taken back.
OnlyPublishedListed == told # 0 => state = "published" /\ told = pub

\* Search never lags: what it was told is what the gate says of the story now, through upstream
\* changes, reviews and withdrawn approvals, unless an item the published revision rests on was removed
\* while detached or a review decided on an old story row.
SearchIsCurrent == unseen = {} /\ ~late => told = documentFor

\* No AI text is held back unseen: of the revision that decides, the gate passes AI-written text only
\* under the label of who approved it and out of the queue, and text it refuses waits in the queue
\* unless a person has decided on it, in whatever order people and the AI editor reviewed it.
HeldTextIsQueued ==
  \A r \in {underReview} \cap DOMAIN revs :
    (state \in {"draft", "published"} /\ disclosure(r).ai) =>
      IF canPublish(r) THEN disclosure(r).by # {} /\ pendingReviews = {}
      ELSE pendingReviews = {r} \/ decisionOf(r, "person") # "none"

\* Who has approved what, ever; and what readers see.
approvedEver == {reviews[k].rev : k \in {j \in DOMAIN reviews : reviews[j].decision = "approved"}}
shown == IF state = "published" THEN pub ELSE 0

Abstract == INSTANCE Edition WITH
  issues <- revs, passed <- approvedEver, shown <- shown, listed <- told

\* Readers' promise kept: through upstream changes, drafts and reviews, whatever requests were open when
\* the story was taken back, no saved text changes, no AI text is shown unapproved, and Search lists the
\* revision readers see or nothing.
ImplementsEdition == Abstract!Spec
=============================================================================

------------------------------ MODULE Stories ------------------------------
(***************************************************************************)
(* The editorial life of one story (server/domain/stories.js): its source  *)
(* table, timeline, immutable revisions, reviews, editorial flags and      *)
(* publication state, together with the upstream state of the source items *)
(* it can cite.                                                            *)
(*                                                                         *)
(* A route reads the story row and answers the early refusals BEFORE the   *)
(* operation's transaction; `checked' holds the requests that have passed  *)
(* those checks and whose transaction has not run yet, so anything may     *)
(* happen in between.  A transaction is one step.  A refused, failed or    *)
(* abandoned request leaves by Drop.                                       *)
(*                                                                         *)
(* A paragraph is the set of source numbers it cites and a text the set of *)
(* its paragraphs; wording, slugs, topics and perspectives are left out.   *)
(* syncIndex and watch, which some of these transactions also call, are    *)
(* composed with these actions in StoryIndex and Discussion.               *)
(***************************************************************************)
EXTENDS Integers, Sequences, FiniteSets

CONSTANTS
  Item,        \* the source items the story can cite
  Texts,       \* the texts editors and the AI write: sets of paragraphs
  Writers,     \* who writes them: "editor", "ai" or both
  Dated,       \* the items editors write timeline entries for
  Changing,    \* the items that are updated or removed upstream
  MaxRev,      \* bound: revisions of the story
  MaxUp,       \* bound: upstream revisions of an item
  MaxReviews,  \* bound: rows of the review log
  MaxOpen      \* bound: requests between their check and their transaction

ASSUME ItemAssumption == IsFiniteSet(Item)
ASSUME TextsAssumption == Texts \subseteq SUBSET SUBSET Nat
ASSUME WritersAssumption == Writers \subseteq {"editor", "ai"}
ASSUME ScopeAssumption == Dated \subseteq Item /\ Changing \subseteq Item
ASSUME BoundsAssumption ==
  /\ MaxRev \in Nat /\ MaxUp \in Nat /\ MaxReviews \in Nat /\ MaxOpen \in Nat

VARIABLES
  item,      \* item[i]: the stored row; live until removed upstream, at an upstream revision
  number,    \* number[i]: the item's position in the source table, 0 if it never had one
  attached,  \* items linked and not detached
  timeline,  \* items with a timeline entry that was not removed
  revs,      \* the revisions, oldest first; never changed once created
  reviews,   \* the append-only review log
  state,     \* publication state
  pub,       \* published_revision, 0 for none
  ever,      \* first_published_at is set
  upflags,   \* open source_updated and source_removed flags
  draftNote, \* a correction or update flag is open
  notes,     \* revisions published together with a correction or update note
  checked,   \* requests between their checks and their transaction, equal ones once
  unseen     \* history: items removed upstream while detached, though the published revision rests on them

desk == <<number, attached, timeline>>
public == <<state, pub, ever, draftNote, notes>>
vars == <<item, desk, revs, reviews, public, upflags, checked, unseen>>

-----------------------------------------------------------------------------
(* Revisions *)

States == {"draft", "published", "unpublished", "retracted"}
Modes == {"human", "ai", "hybrid"}
UpKinds == {"source_updated", "source_removed"}

Revision ==
  [paragraphs : SUBSET SUBSET Nat, timeline : SUBSET Nat,
   sources : [Item -> [n : Nat, rev : Nat]],
   mode : Modes, by : {"editor", "ai", "system"}, base : Nat]

Request ==
  [op : {"attach", "addTimeline"}, item : Item]
    \cup [op : {"publish"}]
    \cup [op : {"revise"}, base : Nat]
    \cup [op : {"aiDraft"}, nums : SUBSET Nat]

head == revs[Len(revs)]
Numbers(S) == {number[i] : i \in S}

sourceEntry(n, up) == [n |-> n, rev |-> up]

\* What the next revision snapshots; an entry with n = 0 is no entry.
buildSnapshot ==
  [i \in Item |-> IF i \in attached THEN sourceEntry(number[i], item[i].rev) ELSE sourceEntry(0, 0)]
\* Mutant: the snapshot keeps the timeline entries of detached sources.
snapshotTimeline_unfiltered == Numbers(timeline)

snapshotTimeline == Numbers(timeline \cap attached)

Entry(r, i) == revs[r].sources[i].n # 0
Cites(r, i) == Entry(r, i) /\ \E p \in revs[r].paragraphs : revs[r].sources[i].n \in p
OnTimeline(r, i) == Entry(r, i) /\ revs[r].sources[i].n \in revs[r].timeline
RestsOn(r, i) == Cites(r, i) \/ OnTimeline(r, i)
CitedNumbers(r) == (UNION revs[r].paragraphs) \cup revs[r].timeline
EntryNumbers(r) == {revs[r].sources[i].n : i \in {j \in Item : Entry(r, j)}}

checkParagraphs(text) ==
  /\ text # {}
  /\ \A p \in text : p # {} /\ p \subseteq Numbers(attached)

\* An editor's save of AI text is hybrid, and stays so.
authorshipFor(by) ==
  IF by = "ai" THEN "ai"
  ELSE IF Len(revs) > 0 /\ head.mode \in {"ai", "hybrid"} THEN "hybrid" ELSE "human"

NewRevision(text, by, base) ==
  [paragraphs |-> text, timeline |-> snapshotTimeline, sources |-> buildSnapshot,
   mode |-> authorshipFor(by), by |-> by, base |-> base]

-----------------------------------------------------------------------------
(* The gate before publication *)

\* The log's latest row for the revision, of either kind, approves it.
approved(r) ==
  \E k \in DOMAIN reviews :
    /\ reviews[k].rev = r /\ reviews[k].decision = "approved"
    /\ \A j \in DOMAIN reviews : reviews[j].rev = r => j <= k

\* Mutant: only text the AI wrote alone waits for a review.
canPublish_hybridFree(r) == revs[r].mode = "ai" => approved(r)

canPublish(r) == revs[r].mode \in {"ai", "hybrid"} => approved(r)

\* Mutant: publication forgets to look at the items' upstream state.
noProblems_upstreamBlind(r) ==
  /\ \E i \in Item : Entry(r, i)
  /\ revs[r].paragraphs # {} /\ {} \notin revs[r].paragraphs
  /\ CitedNumbers(r) \subseteq EntryNumbers(r)
  /\ \A i \in Item : RestsOn(r, i) => i \in attached
  /\ canPublish(r)

noProblems(r) ==
  /\ \E i \in Item : Entry(r, i)
  /\ revs[r].paragraphs # {}
  /\ {} \notin revs[r].paragraphs
  /\ CitedNumbers(r) \subseteq EntryNumbers(r)
  /\ \A i \in Item : RestsOn(r, i) => item[i].live /\ i \in attached
  /\ canPublish(r)

\* What revision r rests on, against the items as they are now: each paragraph has a live source.
alive(r, n) == \E i \in Item : Entry(r, i) /\ revs[r].sources[i].n = n /\ item[i].live
supported(r) == \A p \in revs[r].paragraphs : \E n \in p : alive(r, n)

\* Revision r answers an open upstream flag.
answers(r, f) ==
  LET i == f[2] IN
  IF f[1] = "source_removed"
  THEN ~RestsOn(r, i)
  ELSE Entry(r, i) => revs[r].sources[i].rev >= item[i].rev

-----------------------------------------------------------------------------
(* Requests *)

Check(q) ==
  /\ Cardinality(checked) < MaxOpen
  /\ checked' = checked \cup {q}
  /\ UNCHANGED <<item, desk, revs, reviews, public, upflags, unseen>>

Drop(q) ==
  /\ q \in checked
  /\ checked' = checked \ {q}
  /\ UNCHANGED <<item, desk, revs, reviews, public, upflags, unseen>>

\* Another request like it may be waiting still: two editors who saw the same base.
Consume(q) == q \in checked /\ checked' \in {checked, checked \ {q}}

-----------------------------------------------------------------------------
(* The working table *)

AttachCheck(i) == item[i].live /\ Check([op |-> "attach", item |-> i])

\* Mutant: the position is counted from the sources attached now.
nextPosition_reusing(n) == n = Cardinality(attached) + 1

\* One past the highest position any source of the story ever had.
nextPosition(n) ==
  /\ \A j \in Item : number[j] < n
  /\ n = 1 \/ \E j \in Item : number[j] = n - 1

attach(i) ==
  /\ Consume([op |-> "attach", item |-> i])
  /\ i \notin attached
  /\ attached' = attached \cup {i}
  /\ IF number[i] # 0
     THEN UNCHANGED number
     ELSE \E n \in 1..Cardinality(Item) :
            nextPosition(n) /\ number' = [number EXCEPT ![i] = n]
  /\ UNCHANGED <<item, timeline, revs, reviews, public, upflags, unseen>>

\* Three statements outside a transaction: a failure after the first one leaves
\* the timeline entries of a detached item.
detach(i) ==
  /\ i \in attached
  /\ attached' = attached \ {i}
  /\ timeline' \in {timeline, timeline \ {i}}
  /\ UNCHANGED <<item, number, revs, reviews, public, upflags, checked, unseen>>

AddTimelineCheck(i) ==
  i \in attached \cap Dated /\ item[i].live /\ Check([op |-> "addTimeline", item |-> i])

addTimeline(i) ==
  /\ Consume([op |-> "addTimeline", item |-> i])
  /\ timeline' = timeline \cup {i}
  /\ UNCHANGED <<item, number, attached, revs, reviews, public, upflags, unseen>>

removeTimeline(i) ==
  /\ i \in timeline
  /\ timeline' = timeline \ {i}
  /\ UNCHANGED <<item, number, attached, revs, reviews, public, upflags, checked, unseen>>

-----------------------------------------------------------------------------
(* Revisions: an editor's save, an AI delivery, an AI draft asked for *)

Save(rev) ==
  /\ Len(revs) < MaxRev
  /\ revs' = Append(revs, rev)
  /\ UNCHANGED <<item, desk, reviews, public, upflags, unseen>>

ReviseCheck ==
  state # "retracted" /\ Check([op |-> "revise", base |-> Len(revs)])

\* Mutant: no conflict on a stale base, the last save wins.
revise_lastSaveWins(q, text, by) ==
  /\ q.op = "revise" /\ Consume(q)
  /\ checkParagraphs(text)
  /\ Save(NewRevision(text, by, q.base))

revise(q, text, by) ==
  /\ q.op = "revise" /\ Consume(q)
  /\ q.base = Len(revs)
  /\ checkParagraphs(text)
  /\ Save(NewRevision(text, by, q.base))

AiDraftCheck ==
  LET live == {i \in attached : item[i].live} IN
  "ai" \in Writers /\ live # {} /\ Check([op |-> "aiDraft", nums |-> Numbers(live)])

\* Of what the model wrote, the citations of sources it was given; an uncited claim is dropped.
draftFromOutput(text, nums) == {p \cap nums : p \in text} \ {{}}

\* The run returned: the story and its head are read again, so the draft never
\* conflicts, and it cites the numbers the run was given.
aiDraft(q, text) ==
  LET draft == draftFromOutput(text, q.nums) IN
  /\ q.op = "aiDraft" /\ Consume(q)
  /\ state # "retracted"
  /\ checkParagraphs(draft)
  /\ Save(NewRevision(draft, "ai", Len(revs)))

review(r, kind, decision) ==
  /\ Len(reviews) < MaxReviews
  /\ r \in DOMAIN revs
  /\ reviews' = Append(reviews, [rev |-> r, kind |-> kind, decision |-> decision])
  /\ UNCHANGED <<item, desk, revs, public, upflags, checked, unseen>>

-----------------------------------------------------------------------------
(* Publication *)

addFlag ==
  /\ draftNote' = TRUE
  /\ UNCHANGED <<item, desk, revs, reviews, state, pub, ever, notes, upflags, checked, unseen>>

PublishCheck == state # "retracted" /\ Check([op |-> "publish"])

\* Mutant: the note is asked for by the current state, not by the first publication.
noteOwed_whilePublished(resolving) ==
  state = "published" /\ \E f \in resolving : f[1] = "source_removed"

\* A source was removed since the story was first public: readers are owed a note.
noteOwed(resolving) == ever /\ \E f \in resolving : f[1] = "source_removed"

publish(r, note) ==
  LET resolving == {f \in upflags : answers(r, f)} IN
  /\ Consume([op |-> "publish"])
  /\ r \in DOMAIN revs
  /\ noProblems(r)
  /\ ~(state = "published" /\ pub = r /\ ~note)
  /\ noteOwed(resolving) => note \/ draftNote
  /\ state' = "published"
  /\ pub' = r
  /\ ever' = TRUE
  /\ draftNote' = FALSE
  /\ notes' = IF note \/ draftNote THEN notes \cup {r} ELSE notes
  /\ upflags' = upflags \ resolving
  /\ UNCHANGED <<item, desk, revs, reviews, unseen>>

unpublish ==
  /\ state \in {"published", "retracted"}
  /\ state' = "unpublished"
  /\ UNCHANGED <<item, desk, revs, reviews, pub, ever, draftNote, notes, upflags, checked, unseen>>

retract ==
  /\ state = "published"
  /\ state' = "retracted"
  /\ UNCHANGED <<item, desk, revs, reviews, pub, ever, draftNote, notes, upflags, checked, unseen>>

-----------------------------------------------------------------------------
(* Upstream changes, inside the ingest transaction *)

\* The head's source table, with the item at its new upstream revision.
Refreshed(i, up) ==
  [j \in Item |-> IF j = i /\ Entry(Len(revs), j) THEN sourceEntry(head.sources[j].n, up)
                                               ELSE head.sources[j]]

\* Mutant: what the system prepares counts as written by a person.
SystemRevision_human(i, up) ==
  [head EXCEPT !.sources = Refreshed(i, up), !.by = "system", !.base = Len(revs), !.mode = "human"]

SystemRevision(i, up) ==
  [head EXCEPT !.sources = Refreshed(i, up), !.by = "system", !.base = Len(revs)]

\* A save that changes nothing may create no revision.
onUpstreamChange(i, kind, up) ==
  IF i \notin attached
  THEN /\ unseen' = IF kind = "source_removed" /\ state = "published" /\ RestsOn(pub, i)
                    THEN unseen \cup {i} ELSE unseen
       /\ UNCHANGED <<revs, upflags>>
  ELSE /\ upflags' = upflags \cup {<<kind, i>>}
       /\ \/ /\ revs # <<>> /\ Len(revs) < MaxRev
             /\ revs' = Append(revs, SystemRevision(i, up))
          \/ revs # <<>> /\ ~Entry(Len(revs), i) /\ UNCHANGED revs
          \/ revs = <<>> /\ UNCHANGED revs
       /\ UNCHANGED unseen

UpstreamUpdate(i) ==
  /\ i \in Changing /\ item[i].live /\ item[i].rev < MaxUp
  /\ item' = [item EXCEPT ![i].rev = @ + 1]
  /\ onUpstreamChange(i, "source_updated", item[i].rev + 1)
  /\ UNCHANGED <<desk, reviews, public, checked>>

UpstreamRemove(i) ==
  /\ i \in Changing /\ item[i].live
  /\ \E up \in item[i].rev..MaxUp :
       /\ item' = [item EXCEPT ![i] = [live |-> FALSE, rev |-> up]]
       /\ onUpstreamChange(i, "source_removed", up)
  /\ UNCHANGED <<desk, reviews, public, checked>>

-----------------------------------------------------------------------------

\* The story as create leaves it: a cluster's live items at positions 1, 2, ...
Init ==
  /\ item = [i \in Item |-> [live |-> TRUE, rev |-> 1]]
  /\ attached \in SUBSET Item
  /\ number \in [Item -> 0..Cardinality(Item)]
  /\ \A i \in Item : number[i] # 0 <=> i \in attached
  /\ \A i, j \in attached : number[i] = number[j] => i = j
  /\ \A i \in attached : number[i] <= Cardinality(attached)
  /\ timeline = {} /\ revs = <<>> /\ reviews = <<>>
  /\ state = "draft" /\ pub = 0 /\ ever = FALSE
  /\ upflags = {} /\ draftNote = FALSE /\ notes = {}
  /\ checked = {} /\ unseen = {}

TableStep(i) ==
  \/ AttachCheck(i) \/ attach(i) \/ detach(i)
  \/ AddTimelineCheck(i) \/ addTimeline(i) \/ removeTimeline(i)

ItemStep(i) == TableStep(i) \/ UpstreamUpdate(i) \/ UpstreamRemove(i)

RequestStep == ReviseCheck \/ AiDraftCheck \/ PublishCheck

TextStep(q) ==
  \/ Drop(q)
  \/ \E text \in Texts : (\E by \in Writers : revise(q, text, by)) \/ aiDraft(q, text)
  \/ revs # <<>> /\ "editor" \in Writers /\ revise(q, head.paragraphs, "editor")

PublicationStep ==
  \/ \E r \in DOMAIN revs :
       \/ \E note \in BOOLEAN : publish(r, note)
       \/ \E kind \in {"person", "ai_editor"}, decision \in {"approved", "rejected"} :
            review(r, kind, decision)
  \/ addFlag \/ unpublish \/ retract

Next ==
  \/ \E i \in Item : ItemStep(i)
  \/ RequestStep
  \/ \E q \in checked : TextStep(q)
  \/ PublicationStep

Spec == Init /\ [][Next]_vars

-----------------------------------------------------------------------------
(* Properties *)

\* Type invariant: every variable has the shape of the row or table it stands for, and a
\* story that has been public keeps a published revision and is never a draft again.
TypeOK ==
  /\ item \in [Item -> [live : BOOLEAN, rev : Nat]]
  /\ number \in [Item -> Nat]
  /\ attached \subseteq Item
  /\ timeline \subseteq Item
  /\ revs \in Seq(Revision)
  /\ reviews \in Seq([rev : Nat, kind : {"person", "ai_editor"}, decision : {"approved", "rejected"}])
  /\ state \in States
  /\ pub \in 0..Len(revs)
  /\ ever \in BOOLEAN
  /\ (ever <=> pub # 0) /\ (state = "draft" <=> pub = 0)
  /\ upflags \subseteq UpKinds \X Item
  /\ draftNote \in BOOLEAN
  /\ notes \subseteq Nat
  /\ checked \subseteq Request
  /\ unseen \subseteq Item

\* A source number is never reused: the number an item has in any revision ever saved is the one
\* it has in the working table, and no two items share a number (stories.js, attach and detach).
NumbersNeverReused ==
  /\ \A r \in DOMAIN revs, i \in Item : revs[r].sources[i].n \in {0, number[i]}
  /\ \A i, j \in Item : number[i] = number[j] /\ number[i] # 0 => i = j

\* Every claim traces to a source record: in every revision, whoever or whatever wrote it, each
\* paragraph cites at least one source and each number cited, in the text or on the timeline, is
\* an entry of that revision's own source table.
EveryClaimTraces ==
  \A r \in DOMAIN revs :
    /\ revs[r].paragraphs # {} /\ {} \notin revs[r].paragraphs
    /\ CitedNumbers(r) \subseteq EntryNumbers(r)

\* No AI text is public unreviewed: a published revision the AI wrote, an editor's edit of one, or
\* the system's refresh of either, has itself an approving review (an approval does not carry over).
NothingUnreviewedPublic ==
  state = "published" /\ revs[pub].mode # "human" =>
    \E k \in DOMAIN reviews : reviews[k].rev = pub /\ reviews[k].decision = "approved"

\* While a published story cites an item removed upstream, its source_removed flag is open, unless
\* this very removal found the item detached from the working table and cited by the published
\* revision.  A removal that came before the item was cited, while it was being attached or while
\* another revision was public, is no excuse: such an item never gets into a published revision.
CitedRemovalFlagged ==
  \A i \in Item :
    state = "published" /\ RestsOn(pub, i) /\ ~item[i].live /\ i \notin unseen
      => <<"source_removed", i>> \in upflags

\* The system never rewrites a story: a revision it prepares has the paragraphs, the timeline and the
\* authorship of the one it is based on, and its table differs in upstream revisions only.
SystemKeepsText ==
  \A r \in DOMAIN revs : revs[r].by = "system" =>
    /\ r > 1
    /\ revs[r].paragraphs = revs[r - 1].paragraphs
    /\ revs[r].timeline = revs[r - 1].timeline
    /\ revs[r].mode = revs[r - 1].mode
    /\ \A i \in Item : revs[r].sources[i].n = revs[r - 1].sources[i].n

\* No edit is lost: an editor's revision is always based on the revision it follows, whatever was
\* saved by others between reading the form and sending it.
NoLostEdit ==
  \A r \in DOMAIN revs : revs[r].by = "editor" => revs[r].base = r - 1

\* Once a story has been public, the flag of a removed source closes only with a publication that
\* carries a correction or update note and no longer rests on the source.
RemovalNeedsNote ==
  [][ever => \A f \in upflags \ upflags' : f[1] = "source_removed" =>
        /\ state' = "published" /\ pub' \in notes'
        /\ ~RestsOn(pub, f[2])']_vars

\* stories.js, publish: "A retracted story stays retracted; open a new story".
RetractedNotPublished == [][state = "retracted" => state' # "published"]_vars
=============================================================================

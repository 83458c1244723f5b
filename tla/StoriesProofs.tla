--------------------------- MODULE StoriesProofs ---------------------------
(* Proofs about Stories, for every set of items, texts and writers and every bound. *)
EXTENDS Stories, FiniteSetTheorems, TLAPS

-----------------------------------------------------------------------------
(* What a save makes *)

\* The last revision is a revision.
LEMMA HeadType ==
  ASSUME TypeOK, revs # <<>>
  PROVE  Len(revs) \in DOMAIN revs /\ Len(revs) > 0 /\ head \in Revision
BY DEF TypeOK, head

\* A snapshot of the working table has the shape a revision stores.
LEMMA SnapshotType ==
  ASSUME TypeOK
  PROVE  /\ buildSnapshot \in [Item -> [n : Nat, rev : Nat]]
         /\ Numbers(attached) \subseteq Nat
         /\ snapshotTimeline \subseteq Nat
BY DEF TypeOK, buildSnapshot, sourceEntry, Numbers, snapshotTimeline

\* So has the revision a save makes, whoever makes it.
LEMMA NewRevisionType ==
  ASSUME TypeOK, NEW text \in SUBSET SUBSET Nat, NEW by \in {"editor", "ai"}, NEW base \in Nat
  PROVE  NewRevision(text, by, base) \in Revision
<1>1. authorshipFor(by) \in Modes
  BY DEF authorshipFor, Modes
<1> QED
  BY <1>1, SnapshotType DEF NewRevision, Revision

\* And the one the system prepares from the head.
LEMMA SystemRevisionType ==
  ASSUME TypeOK, revs # <<>>, NEW i \in Item, NEW up \in Nat
  PROVE  /\ SystemRevision(i, up) \in Revision
         /\ SystemRevision(i, up).by = "system"
         /\ SystemRevision(i, up).paragraphs = head.paragraphs
         /\ SystemRevision(i, up).timeline = head.timeline
         /\ SystemRevision(i, up).mode = head.mode
         /\ \A j \in Item : SystemRevision(i, up).sources[j].n = head.sources[j].n
<1>1. head \in Revision /\ Len(revs) \in Nat
  BY HeadType DEF TypeOK
<1>2. /\ Refreshed(i, up) \in [Item -> [n : Nat, rev : Nat]]
      /\ \A j \in Item : Refreshed(i, up)[j].n = head.sources[j].n
  BY <1>1 DEF Refreshed, sourceEntry, Revision
<1> QED
  BY <1>1, <1>2 DEF SystemRevision, Revision

-----------------------------------------------------------------------------
(* The type invariant *)

\* Positions in the source table are numbers: the table is finite.
LEMMA PositionType == Cardinality(Item) \in Nat /\ 0..Cardinality(Item) \subseteq Nat
BY ItemAssumption, FS_CardinalityType

\* A story starts well typed, whatever live items create attaches to it.
LEMMA InitTypeOK == Init => TypeOK
<1> SUFFICES ASSUME Init PROVE TypeOK
  OBVIOUS
<1>1. number \in [Item -> Nat]
  BY PositionType DEF Init
<1>2. revs \in Seq(Revision) /\ Len(revs) = 0 /\ pub = 0
  BY DEF Init
<1>3. reviews \in Seq([rev : Nat, kind : {"person", "ai_editor"}, decision : {"approved", "rejected"}])
  BY DEF Init
<1>4. item \in [Item -> [live : BOOLEAN, rev : Nat]]
  BY DEF Init
<1>5. /\ attached \subseteq Item /\ timeline = {} /\ state = "draft" /\ pub = 0 /\ ever = FALSE
      /\ upflags = {} /\ draftNote = FALSE /\ notes = {} /\ checked = {} /\ unseen = {}
  BY DEF Init
<1>6. pub \in 0..Len(revs) /\ (ever <=> pub # 0) /\ (state = "draft" <=> pub = 0)
  BY <1>2, <1>5
<1>7. /\ upflags \subseteq UpKinds \X Item /\ notes \subseteq Nat /\ checked \subseteq Request
      /\ unseen \subseteq Item /\ timeline \subseteq Item
  BY <1>5
<1>8. state \in States /\ ever \in BOOLEAN /\ draftNote \in BOOLEAN
  BY <1>5 DEF States
<1> QED
  BY <1>1, <1>2, <1>3, <1>4, <1>5, <1>6, <1>7, <1>8 DEF TypeOK

\* The fields of a waiting request are numbers.
LEMMA RequestTypes ==
  ASSUME TypeOK, NEW q \in checked
  PROVE  /\ q.op = "revise" => q.base \in Nat
         /\ q.op = "aiDraft" => q.nums \subseteq Nat
BY DEF TypeOK, Request

\* Passing the early checks keeps every variable well typed.
LEMMA CheckType ==
  ASSUME TypeOK, NEW q \in Request, Check(q)
  PROVE  TypeOK'
BY DEF TypeOK, Check, desk, public, Revision

\* So does a request that leaves.
LEMMA DropType ==
  ASSUME TypeOK, NEW q, Drop(q)
  PROVE  TypeOK'
BY DEF TypeOK, Drop, desk, public, Revision

\* The operations that change the working table only.
LEMMA TableType ==
  ASSUME TypeOK, NEW i \in Item, attach(i) \/ detach(i) \/ addTimeline(i) \/ removeTimeline(i)
  PROVE  TypeOK'
<1>1. CASE attach(i)
  <2>1. number' = number \/ \E n \in Nat : number' = [number EXCEPT ![i] = n]
    BY <1>1, PositionType DEF attach
  <2>2. number' \in [Item -> Nat]
    BY <2>1 DEF TypeOK
  <2> QED
    BY <1>1, <2>2 DEF TypeOK, attach, Consume, public, Revision
<1>2. CASE detach(i)
  BY <1>2 DEF TypeOK, detach, public, Revision
<1>3. CASE addTimeline(i)
  BY <1>3 DEF TypeOK, addTimeline, Consume, public, Revision
<1>4. CASE removeTimeline(i)
  BY <1>4 DEF TypeOK, removeTimeline, public, Revision
<1> QED
  BY <1>1, <1>2, <1>3, <1>4

\* Saving a well typed revision keeps the types.
LEMMA SaveType ==
  ASSUME TypeOK, NEW rev \in Revision, Save(rev), checked' \subseteq checked
  PROVE  TypeOK'
<1>1. revs' \in Seq(Revision) /\ Len(revs') = Len(revs) + 1
  BY DEF TypeOK, Save
<1>2. pub' \in 0..Len(revs')
  BY <1>1 DEF TypeOK, Save, public
<1> QED
  BY <1>1, <1>2 DEF TypeOK, Save, desk, public, Revision

\* What the two kinds of save add: a revision of a text the table can carry.
LEMMA SaveEffect ==
  ASSUME TypeOK, NEW q \in checked, NEW text \in SUBSET SUBSET Nat, NEW by \in {"editor", "ai"},
         revise(q, text, by) \/ aiDraft(q, text)
  PROVE  \E saved \in SUBSET SUBSET Nat, who \in {"editor", "ai"}, base \in Nat :
           /\ checkParagraphs(saved)
           /\ NewRevision(saved, who, base) \in Revision
           /\ who = "editor" => base = Len(revs)
           /\ Save(NewRevision(saved, who, base))
           /\ checked' \subseteq checked
<1>1. CASE revise(q, text, by)
  <2>1. q.base \in Nat
    BY <1>1, RequestTypes DEF revise
  <2>2. NewRevision(text, by, q.base) \in Revision
    BY <2>1, NewRevisionType
  <2> QED
    BY <1>1, <2>1, <2>2 DEF revise, Consume
<1>2. CASE aiDraft(q, text)
  <2> DEFINE draft == draftFromOutput(text, q.nums)
  <2>1. Len(revs) \in Nat /\ draft \in SUBSET SUBSET Nat
    <3>1. Len(revs) \in Nat
      BY DEF TypeOK
    <3>2. \A p \in text : p \cap q.nums \subseteq Nat
      OBVIOUS
    <3> QED
      BY <3>1, <3>2 DEF draftFromOutput
  <2>2. NewRevision(draft, "ai", Len(revs)) \in Revision
    BY <2>1, NewRevisionType
  <2>3. /\ checkParagraphs(draft)
        /\ Save(NewRevision(draft, "ai", Len(revs)))
        /\ checked' \subseteq checked
    BY <1>2 DEF aiDraft, Consume
  <2> QED
    BY <2>1, <2>2, <2>3
<1> QED
  BY <1>1, <1>2

\* A row of the review log is well typed.
LEMMA ReviewType ==
  ASSUME TypeOK, NEW r \in DOMAIN revs, NEW kind \in {"person", "ai_editor"},
         NEW decision \in {"approved", "rejected"}, review(r, kind, decision)
  PROVE  TypeOK'
<1>1. [rev |-> r, kind |-> kind, decision |-> decision]
        \in [rev : Nat, kind : {"person", "ai_editor"}, decision : {"approved", "rejected"}]
  BY DEF TypeOK
<1> QED
  BY <1>1 DEF TypeOK, review, desk, public, Revision

\* The operations on the publication state keep its shape.
LEMMA PublicationType ==
  ASSUME TypeOK, addFlag \/ unpublish \/ retract \/ \E r \in DOMAIN revs, note \in BOOLEAN : publish(r, note)
  PROVE  TypeOK'
<1>1. CASE addFlag
  BY <1>1 DEF TypeOK, addFlag, desk, Revision
<1>2. CASE unpublish
  BY <1>2 DEF TypeOK, unpublish, desk, States, Revision
<1>3. CASE retract
  BY <1>3 DEF TypeOK, retract, desk, States, Revision
<1>4. ASSUME NEW r \in DOMAIN revs, NEW note \in BOOLEAN, publish(r, note)
      PROVE  TypeOK'
  <2>1. r \in 1..Len(revs)
    BY DEF TypeOK
  <2>2. upflags' \subseteq upflags /\ notes' \subseteq notes \cup {r} /\ checked' \subseteq checked
    BY <1>4 DEF publish, Consume
  <2>3. state' = "published" /\ pub' = r /\ ever' = TRUE /\ draftNote' = FALSE
    BY <1>4 DEF publish
  <2>4. UNCHANGED <<item, desk, revs, reviews, unseen>>
    BY <1>4 DEF publish
  <2>5. UNCHANGED <<item, number, attached, timeline, revs, reviews, unseen>>
    BY <2>4 DEF desk
  <2>6. notes' \subseteq Nat
    BY <2>1, <2>2 DEF TypeOK
  <2>7. pub' \in 0..Len(revs') /\ (ever' <=> pub' # 0) /\ (state' = "draft" <=> pub' = 0)
    BY <2>1, <2>3, <2>5 DEF TypeOK
  <2> QED
    BY <2>2, <2>3, <2>5, <2>6, <2>7 DEF TypeOK, States
<1> QED
  BY <1>1, <1>2, <1>3, <1>4

\* An upstream change keeps the types, flag and prepared revision included.
LEMMA UpstreamType ==
  ASSUME TypeOK, NEW i \in Item, UpstreamUpdate(i) \/ UpstreamRemove(i)
  PROVE  TypeOK'
<1>1. PICK kind \in UpKinds, up \in Nat : onUpstreamChange(i, kind, up)
  <2>1. CASE UpstreamUpdate(i)
    <3>1. item[i].rev + 1 \in Nat
      BY DEF TypeOK
    <3> QED
      BY <2>1, <3>1 DEF UpstreamUpdate, UpKinds
  <2>2. CASE UpstreamRemove(i)
    <3>1. \A up \in item[i].rev..MaxUp : up \in Nat
      BY BoundsAssumption DEF TypeOK
    <3> QED
      BY <2>2, <3>1 DEF UpstreamRemove, UpKinds
  <2> QED
    BY <2>1, <2>2
<1>2. item' \in [Item -> [live : BOOLEAN, rev : Nat]]
  <2>1. item \in [Item -> [live : BOOLEAN, rev : Nat]]
    BY DEF TypeOK
  <2>2. CASE UpstreamUpdate(i)
    <3>1. item' = [item EXCEPT ![i].rev = item[i].rev + 1]
      BY <2>2 DEF UpstreamUpdate
    <3> QED
      BY <2>1, <3>1
  <2>3. CASE UpstreamRemove(i)
    <3>1. PICK to \in item[i].rev..MaxUp : item' = [item EXCEPT ![i] = [live |-> FALSE, rev |-> to]]
      BY <2>3 DEF UpstreamRemove
    <3>2. to \in Nat
      BY <2>1, <3>1, BoundsAssumption
    <3> QED
      BY <2>1, <3>1, <3>2
  <2> QED
    BY <2>2, <2>3
<1>3. UNCHANGED <<desk, reviews, public, checked>>
  BY DEF UpstreamUpdate, UpstreamRemove
<1>4. unseen' \subseteq Item /\ upflags' \subseteq UpKinds \X Item
  BY <1>1 DEF onUpstreamChange, TypeOK
<1>5. revs' \in Seq(Revision) /\ pub \in 0..Len(revs')
  <2>1. CASE UNCHANGED revs
    BY <2>1 DEF TypeOK
  <2>2. CASE revs # <<>> /\ revs' = Append(revs, SystemRevision(i, up))
    BY <2>2, SystemRevisionType DEF TypeOK
  <2> QED
    BY <1>1, <2>1, <2>2 DEF onUpstreamChange
<1> QED
  BY <1>2, <1>3, <1>4, <1>5 DEF TypeOK, desk, public

\* The text of the head is a text a save can carry.
LEMMA HeadTextType ==
  ASSUME TypeOK, revs # <<>>
  PROVE  head.paragraphs \in SUBSET SUBSET Nat
BY HeadType DEF Revision

\* A text step drops a request or saves a revision.
LEMMA TextEffect ==
  ASSUME TypeOK, NEW q \in checked, TextStep(q)
  PROVE  \/ Drop(q)
         \/ \E text \in SUBSET SUBSET Nat, who \in {"editor", "ai"}, base \in Nat :
              /\ checkParagraphs(text)
              /\ NewRevision(text, who, base) \in Revision
              /\ who = "editor" => base = Len(revs)
              /\ Save(NewRevision(text, who, base))
              /\ checked' \subseteq checked
<1>1. ASSUME NEW text \in Texts,
             (\E by \in Writers : revise(q, text, by)) \/ aiDraft(q, text)
      PROVE  \E by \in {"editor", "ai"} : text \in SUBSET SUBSET Nat /\ (revise(q, text, by) \/ aiDraft(q, text))
  BY <1>1, TextsAssumption, WritersAssumption
<1>2. ASSUME revs # <<>>, revise(q, head.paragraphs, "editor")
      PROVE  \E text \in SUBSET SUBSET Nat : revise(q, text, "editor")
  BY <1>2, HeadTextType
<1> QED
  BY <1>1, <1>2, SaveEffect DEF TextStep

\* Every step keeps the type invariant.
LEMMA NextTypeOK == TypeOK /\ [Next]_vars => TypeOK'
<1> SUFFICES ASSUME TypeOK, [Next]_vars PROVE TypeOK'
  OBVIOUS
<1>1. ASSUME NEW i \in Item, ItemStep(i) PROVE TypeOK'
  <2>1. CASE AttachCheck(i) \/ AddTimelineCheck(i)
    BY <2>1, CheckType DEF AttachCheck, AddTimelineCheck, Request
  <2>2. CASE attach(i) \/ detach(i) \/ addTimeline(i) \/ removeTimeline(i)
    BY <2>2, TableType
  <2>3. CASE UpstreamUpdate(i) \/ UpstreamRemove(i)
    BY <2>3, UpstreamType
  <2> QED
    BY <1>1, <2>1, <2>2, <2>3 DEF ItemStep, TableStep
<1>2. CASE RequestStep
  <2>1. Len(revs) \in Nat /\ \A S \in SUBSET Item : Numbers(S) \subseteq Nat
    BY DEF TypeOK, Numbers
  <2> QED
    BY <1>2, <2>1, CheckType DEF RequestStep, ReviseCheck, AiDraftCheck, PublishCheck, Request, TypeOK
<1>3. ASSUME NEW q \in checked, TextStep(q) PROVE TypeOK'
  BY <1>3, TextEffect, DropType, SaveType
<1>4. CASE PublicationStep
  BY <1>4, ReviewType, PublicationType DEF PublicationStep
<1>5. CASE UNCHANGED vars
  BY <1>5 DEF vars, desk, public, TypeOK
<1> QED
  BY <1>1, <1>2, <1>3, <1>4, <1>5 DEF Next

\* Every variable keeps the shape of its row or table, and a story that has been public keeps a
\* published revision and is never a draft again.
THEOREM TypeCorrect == Spec => []TypeOK
BY InitTypeOK, NextTypeOK, PTL DEF Spec

-----------------------------------------------------------------------------
(* What a step does to the revisions and to the source numbers *)

\* A save by a person or the AI.
Saved ==
  \E text \in SUBSET SUBSET Nat, who \in {"editor", "ai"}, base \in Nat :
    /\ checkParagraphs(text)
    /\ NewRevision(text, who, base) \in Revision
    /\ who = "editor" => base = Len(revs)
    /\ revs' = Append(revs, NewRevision(text, who, base))
    /\ UNCHANGED <<item, number, attached, timeline, reviews, state, pub, upflags, unseen>>

\* The system's refresh after an upstream change.
Prepared ==
  /\ revs # <<>>
  /\ \E i \in Item, up \in Nat : revs' = Append(revs, SystemRevision(i, up))
  /\ UNCHANGED <<number, attached, timeline, reviews, state, pub>>

\* An upstream change saves nothing or the revision the system prepares.
LEMMA UpstreamEffect ==
  ASSUME TypeOK, NEW i \in Item, UpstreamUpdate(i) \/ UpstreamRemove(i)
  PROVE  /\ UNCHANGED revs \/ Prepared
         /\ UNCHANGED <<number, attached, timeline, reviews, state, pub, ever, draftNote, notes>>
<1>1. PICK kind \in UpKinds, up \in Nat : onUpstreamChange(i, kind, up)
  <2>1. CASE UpstreamUpdate(i)
    <3>1. item[i].rev + 1 \in Nat
      BY DEF TypeOK
    <3> QED
      BY <2>1, <3>1 DEF UpstreamUpdate, UpKinds
  <2>2. CASE UpstreamRemove(i)
    <3>1. \A up \in item[i].rev..MaxUp : up \in Nat
      BY BoundsAssumption DEF TypeOK
    <3> QED
      BY <2>2, <3>1 DEF UpstreamRemove, UpKinds
  <2> QED
    BY <2>1, <2>2
<1>2. UNCHANGED <<number, attached, timeline, reviews, state, pub, ever, draftNote, notes>>
  BY DEF UpstreamUpdate, UpstreamRemove, desk, public
<1> QED
  BY <1>1, <1>2 DEF onUpstreamChange, Prepared

\* Every step leaves the revisions alone, saves one or prepares one.
LEMMA RevsEffect ==
  ASSUME TypeOK, [Next]_vars
  PROVE  UNCHANGED revs \/ Saved \/ Prepared
<1>1. ASSUME NEW i \in Item, ItemStep(i) PROVE UNCHANGED revs \/ Prepared
  <2>1. CASE AttachCheck(i) \/ AddTimelineCheck(i)
    BY <2>1 DEF AttachCheck, AddTimelineCheck, Check
  <2>2. CASE attach(i) \/ detach(i) \/ addTimeline(i) \/ removeTimeline(i)
    BY <2>2 DEF attach, detach, addTimeline, removeTimeline
  <2>3. CASE UpstreamUpdate(i) \/ UpstreamRemove(i)
    BY <2>3, UpstreamEffect
  <2> QED
    BY <1>1, <2>1, <2>2, <2>3 DEF ItemStep, TableStep
<1>2. CASE RequestStep
  BY <1>2 DEF RequestStep, ReviseCheck, AiDraftCheck, PublishCheck, Check
<1>3. ASSUME NEW q \in checked, TextStep(q) PROVE UNCHANGED revs \/ Saved
  BY <1>3, TextEffect DEF Drop, Saved, Save, desk, public
<1>4. CASE PublicationStep
  BY <1>4 DEF PublicationStep, publish, review, addFlag, unpublish, retract
<1>5. CASE UNCHANGED vars
  BY <1>5 DEF vars
<1> QED
  BY <1>1, <1>2, <1>3, <1>4, <1>5 DEF Next

\* A number and an attachment come from attach only.
LEMMA TableEffect ==
  ASSUME TypeOK, [Next]_vars
  PROVE  (UNCHANGED number /\ attached' \subseteq attached) \/ \E i \in Item : attach(i)
<1>1. ASSUME NEW i \in Item, ItemStep(i)
      PROVE  (UNCHANGED number /\ attached' \subseteq attached) \/ attach(i)
  <2>1. CASE AttachCheck(i) \/ AddTimelineCheck(i)
    BY <2>1 DEF AttachCheck, AddTimelineCheck, Check, desk
  <2>2. CASE detach(i) \/ addTimeline(i) \/ removeTimeline(i)
    BY <2>2 DEF detach, addTimeline, removeTimeline
  <2>3. CASE UpstreamUpdate(i) \/ UpstreamRemove(i)
    BY <2>3, UpstreamEffect
  <2> QED
    BY <1>1, <2>1, <2>2, <2>3 DEF ItemStep, TableStep
<1>2. CASE RequestStep
  BY <1>2 DEF RequestStep, ReviseCheck, AiDraftCheck, PublishCheck, Check, desk
<1>3. ASSUME NEW q \in checked, TextStep(q) PROVE UNCHANGED <<number, attached>>
  BY <1>3, TextEffect DEF Drop, Save, desk
<1>4. CASE PublicationStep
  BY <1>4 DEF PublicationStep, publish, review, addFlag, unpublish, retract, desk
<1>5. CASE UNCHANGED vars
  BY <1>5 DEF vars, desk
<1> QED
  BY <1>1, <1>2, <1>3, <1>4, <1>5 DEF Next

\* What a save adds comes after every revision saved before it, and those stay as they were.
LEMMA RevsGrow ==
  ASSUME TypeOK, [Next]_vars
  PROVE  /\ Len(revs) \in Nat
         /\ DOMAIN revs = 1..Len(revs)
         /\ DOMAIN revs' = DOMAIN revs \/ DOMAIN revs' = DOMAIN revs \cup {Len(revs) + 1}
         /\ Saved \/ Prepared => DOMAIN revs' = DOMAIN revs \cup {Len(revs) + 1}
         /\ \A r \in DOMAIN revs : revs'[r] = revs[r]
<1>1. revs \in Seq(Revision) /\ Len(revs) \in Nat /\ DOMAIN revs = 1..Len(revs)
  BY DEF TypeOK
<1>2. ASSUME NEW rev \in Revision, revs' = Append(revs, rev)
      PROVE  /\ DOMAIN revs' = DOMAIN revs \cup {Len(revs) + 1}
             /\ \A r \in DOMAIN revs : revs'[r] = revs[r]
  <2>1. DOMAIN revs' = 1..(Len(revs) + 1) /\ \A r \in 1..Len(revs) : revs'[r] = revs[r]
    BY <1>1, <1>2
  <2>2. 1..(Len(revs) + 1) = 1..Len(revs) \cup {Len(revs) + 1}
    BY <1>1
  <2> QED
    BY <1>1, <2>1, <2>2
<1>3. Saved \/ Prepared => \E rev \in Revision : revs' = Append(revs, rev)
  BY SystemRevisionType DEF Saved, Prepared
<1> QED
  BY <1>1, <1>2, <1>3, RevsEffect

\* The prepared revision is the head again, upstream revisions apart.
LEMMA SystemRevisionLast ==
  ASSUME TypeOK, Prepared
  PROVE  LET new == revs'[Len(revs) + 1] IN
         /\ new.by = "system" /\ new.paragraphs = head.paragraphs /\ new.timeline = head.timeline
         /\ new.mode = head.mode
         /\ \A j \in Item : new.sources[j].n = head.sources[j].n
<1>1. PICK i \in Item, up \in Nat : revs' = Append(revs, SystemRevision(i, up))
  BY DEF Prepared
<1>2. revs'[Len(revs) + 1] = SystemRevision(i, up)
  BY <1>1, SystemRevisionType DEF TypeOK, Prepared
<1> QED
  BY <1>2, SystemRevisionType DEF Prepared

-----------------------------------------------------------------------------
(* Source numbers *)

\* No number is reused in a new story.
LEMMA InitNumbers == Init => NumbersNeverReused
BY DEF Init, NumbersNeverReused

\* No step reuses a number: attach takes one past the highest, the rest assign none.
LEMMA NextNumbers ==
  ASSUME TypeOK, [Next]_vars, NumbersNeverReused
  PROVE  NumbersNeverReused'
<1>1. CASE UNCHANGED revs
  <2>1. CASE UNCHANGED number
    BY <1>1, <2>1 DEF NumbersNeverReused
  <2>2. ASSUME NEW i \in Item, attach(i) PROVE NumbersNeverReused'
    <3>1. CASE UNCHANGED number
      BY <1>1, <3>1 DEF NumbersNeverReused
    <3>2. ASSUME number[i] = 0, NEW n \in 1..Cardinality(Item), nextPosition(n),
                 number' = [number EXCEPT ![i] = n]
          PROVE  NumbersNeverReused'
      <4>1. number'[i] = n /\ \A j \in Item \ {i} : number'[j] = number[j]
        BY <3>2 DEF TypeOK
      <4>2. \A j \in Item : number[j] < n /\ number[j] \in Nat /\ n \in Int
        BY <3>2 DEF nextPosition, TypeOK
      <4>3. \A j, k \in Item : number'[j] = number'[k] /\ number'[j] # 0 => j = k
        BY <4>1, <4>2 DEF NumbersNeverReused
      <4>4. \A r \in DOMAIN revs, j \in Item : revs[r].sources[j].n \in {0, number'[j]}
        BY <3>2, <4>1 DEF NumbersNeverReused
      <4> QED
        BY <1>1, <4>3, <4>4 DEF NumbersNeverReused
    <3> QED
      BY <2>2, <3>1, <3>2 DEF attach
  <2> QED
    BY <2>1, <2>2, TableEffect
<1>2. CASE Saved
  <2>1. PICK text \in SUBSET SUBSET Nat, who \in {"editor", "ai"}, base \in Nat :
          revs' = Append(revs, NewRevision(text, who, base)) /\ NewRevision(text, who, base) \in Revision
    BY <1>2 DEF Saved
  <2>2. revs'[Len(revs) + 1] = NewRevision(text, who, base)
    BY <2>1 DEF TypeOK
  <2>3. \A j \in Item : revs'[Len(revs) + 1].sources[j].n \in {0, number[j]}
    BY <2>2 DEF NewRevision, buildSnapshot, sourceEntry
  <2>4. UNCHANGED number
    BY <1>2 DEF Saved
  <2> QED
    BY <2>3, <2>4, RevsGrow DEF NumbersNeverReused
<1>3. CASE Prepared
  <2>1. \A j \in Item : revs'[Len(revs) + 1].sources[j].n = head.sources[j].n
    BY <1>3, SystemRevisionLast
  <2>2. \A j \in Item : head.sources[j].n \in {0, number[j]}
    BY <1>3, HeadType DEF NumbersNeverReused, head, Prepared
  <2>3. UNCHANGED number
    BY <1>3 DEF Prepared
  <2> QED
    BY <2>1, <2>2, <2>3, RevsGrow DEF NumbersNeverReused
<1> QED
  BY <1>1, <1>2, <1>3, RevsEffect

\* A source number means the same source in every revision ever saved.
THEOREM NumbersNeverReusedHolds == Spec => []NumbersNeverReused
BY InitNumbers, NextNumbers, TypeCorrect, PTL DEF Spec

-----------------------------------------------------------------------------
(* Every claim traces to a source record *)

\* The strengthening: a source in the working table has a number.
AttachedNumbered == \A i \in attached : number[i] # 0

\* A new story has no revision, and every source it has is numbered.
LEMMA InitTraces == Init => EveryClaimTraces /\ AttachedNumbered
BY DEF Init, EveryClaimTraces, AttachedNumbered

\* Attached sources stay numbered.
LEMMA NextNumbered ==
  ASSUME TypeOK, [Next]_vars, AttachedNumbered
  PROVE  AttachedNumbered'
<1>1. CASE UNCHANGED number /\ attached' \subseteq attached
  BY <1>1 DEF AttachedNumbered
<1>2. ASSUME NEW i \in Item, attach(i) PROVE AttachedNumbered'
  <2>1. /\ attached' = attached \cup {i}
        /\ \/ number' = number /\ number[i] # 0
           \/ \E n \in 1..Cardinality(Item) : number' = [number EXCEPT ![i] = n]
    BY <1>2 DEF attach
  <2> QED
    BY <2>1 DEF AttachedNumbered, TypeOK
<1> QED
  BY <1>1, <1>2, TableEffect

\* What EveryClaimTraces says of one revision.
Traces(rev) ==
  /\ rev.paragraphs # {} /\ {} \notin rev.paragraphs
  /\ (UNION rev.paragraphs) \cup rev.timeline
       \subseteq {rev.sources[i].n : i \in {j \in Item : rev.sources[j].n # 0}}

\* A save's text and timeline cite numbers its own snapshot has.
LEMMA SavedTraces ==
  ASSUME TypeOK, AttachedNumbered, NEW text \in SUBSET SUBSET Nat, NEW who, NEW base, checkParagraphs(text)
  PROVE  Traces(NewRevision(text, who, base))
<1>1. \A i \in attached : i \in Item /\ number[i] # 0 /\ buildSnapshot[i].n = number[i]
  BY DEF TypeOK, AttachedNumbered, buildSnapshot, sourceEntry
<1>2. Numbers(attached) \subseteq {buildSnapshot[i].n : i \in {j \in Item : buildSnapshot[j].n # 0}}
  BY <1>1 DEF Numbers
<1>3. UNION text \subseteq Numbers(attached) /\ snapshotTimeline \subseteq Numbers(attached)
  BY DEF checkParagraphs, snapshotTimeline, Numbers
<1> QED
  BY <1>2, <1>3 DEF NewRevision, checkParagraphs, Traces

\* Every step keeps the claims traced.
LEMMA NextTraces ==
  ASSUME TypeOK, [Next]_vars, AttachedNumbered, EveryClaimTraces
  PROVE  EveryClaimTraces'
<1>1. \A r \in DOMAIN revs : Traces(revs[r])
  BY DEF EveryClaimTraces, CitedNumbers, EntryNumbers, Entry, Traces
<1>2. Saved => Traces(revs'[Len(revs) + 1])
  <2>1. ASSUME NEW text \in SUBSET SUBSET Nat, NEW who \in {"editor", "ai"}, NEW base \in Nat,
               checkParagraphs(text), NewRevision(text, who, base) \in Revision,
               revs' = Append(revs, NewRevision(text, who, base))
        PROVE  Traces(revs'[Len(revs) + 1])
    <3>1. revs'[Len(revs) + 1] = NewRevision(text, who, base)
      BY <2>1 DEF TypeOK
    <3> QED
      BY <2>1, <3>1, SavedTraces
  <2> QED
    BY <2>1 DEF Saved
<1>3. Prepared => Traces(revs'[Len(revs) + 1])
  <2> SUFFICES ASSUME Prepared PROVE Traces(revs'[Len(revs) + 1])
    OBVIOUS
  <2> DEFINE new == revs'[Len(revs) + 1]
  <2>1. Traces(head)
    BY <1>1, HeadType DEF head, Prepared
  <2>2. /\ new.paragraphs = head.paragraphs /\ new.timeline = head.timeline
        /\ \A j \in Item : new.sources[j].n = head.sources[j].n
    BY SystemRevisionLast
  <2>3. {new.sources[i].n : i \in {j \in Item : new.sources[j].n # 0}}
          = {head.sources[i].n : i \in {j \in Item : head.sources[j].n # 0}}
    BY <2>2
  <2> QED
    BY <2>1, <2>2, <2>3 DEF Traces
<1>4. \A r \in DOMAIN revs' : Traces(revs'[r])
  BY <1>1, <1>2, <1>3, RevsEffect, RevsGrow
<1> QED
  BY <1>4 DEF EveryClaimTraces, CitedNumbers, EntryNumbers, Entry, Traces

\* In every revision ever saved, each paragraph cites a source and each number cited, in the text or
\* on the timeline, is in that revision's own source table.
THEOREM EveryClaimTracesHolds == Spec => []EveryClaimTraces
<1>1. TypeOK /\ AttachedNumbered /\ EveryClaimTraces /\ [Next]_vars
        => (AttachedNumbered /\ EveryClaimTraces)'
  BY NextNumbered, NextTraces
<1> QED
  BY <1>1, InitTraces, TypeCorrect, PTL DEF Spec

-----------------------------------------------------------------------------
(* Who wrote a revision, and on what *)

\* Every step keeps what is said of revisions by their author.
LEMMA NextAuthors ==
  ASSUME TypeOK, [Next]_vars, SystemKeepsText /\ NoLostEdit
  PROVE  (SystemKeepsText /\ NoLostEdit)'
<1> DEFINE new == revs'[Len(revs) + 1]
<1>1. CASE UNCHANGED revs
  BY <1>1 DEF SystemKeepsText, NoLostEdit
<1>2. CASE Saved
  <2>1. PICK text \in SUBSET SUBSET Nat, who \in {"editor", "ai"}, base \in Nat :
          /\ revs' = Append(revs, NewRevision(text, who, base)) /\ NewRevision(text, who, base) \in Revision
          /\ who = "editor" => base = Len(revs)
    BY <1>2 DEF Saved
  <2>2. new.by # "system" /\ (new.by = "editor" => new.base = Len(revs))
    BY <2>1 DEF TypeOK, NewRevision
  <2> QED
    BY <1>2, <2>2, RevsGrow DEF SystemKeepsText, NoLostEdit
<1>3. CASE Prepared
  <2>1. head = revs'[Len(revs)] /\ Len(revs) + 1 > 1 /\ Len(revs) = (Len(revs) + 1) - 1
    BY <1>3, RevsGrow, HeadType DEF head, Prepared
  <2>2. /\ new.by = "system" /\ new.paragraphs = head.paragraphs /\ new.timeline = head.timeline
        /\ new.mode = head.mode /\ \A j \in Item : new.sources[j].n = head.sources[j].n
    BY <1>3, SystemRevisionLast
  <2>3. SystemKeepsText'
    <3> SUFFICES ASSUME NEW r \in DOMAIN revs', revs'[r].by = "system"
                 PROVE  /\ r > 1
                        /\ revs'[r].paragraphs = revs'[r - 1].paragraphs
                        /\ revs'[r].timeline = revs'[r - 1].timeline
                        /\ revs'[r].mode = revs'[r - 1].mode
                        /\ \A i \in Item : revs'[r].sources[i].n = revs'[r - 1].sources[i].n
      BY DEF SystemKeepsText
    <3>1. CASE r = Len(revs) + 1
      BY <3>1, <2>1, <2>2
    <3>2. CASE r \in DOMAIN revs
      <4>1. r > 1 /\ r - 1 \in DOMAIN revs /\ revs'[r] = revs[r] /\ revs'[r - 1] = revs[r - 1]
        BY <3>2, RevsGrow DEF SystemKeepsText
      <4> QED
        BY <3>2, <4>1 DEF SystemKeepsText
    <3> QED
      BY <3>1, <3>2, RevsGrow
  <2>4. NoLostEdit'
    BY <1>3, <2>2, RevsGrow DEF NoLostEdit
  <2> QED
    BY <2>3, <2>4
<1> QED
  BY <1>1, <1>2, <1>3, RevsEffect

\* What the two theorems below say, in one induction.
LEMMA AuthorsHold == Spec => [](SystemKeepsText /\ NoLostEdit)
<1>1. Init => SystemKeepsText /\ NoLostEdit
  BY DEF Init, SystemKeepsText, NoLostEdit
<1> QED
  BY <1>1, NextAuthors, TypeCorrect, PTL DEF Spec

\* A revision the system prepares is the one before it, upstream revisions of its sources apart.
THEOREM SystemKeepsTextHolds == Spec => []SystemKeepsText
BY AuthorsHold, PTL

\* An editor's revision is always based on the revision it follows.
THEOREM NoLostEditHolds == Spec => []NoLostEdit
BY AuthorsHold, PTL

-----------------------------------------------------------------------------
(* What is public *)

\* Steps that publish nothing, answer no flag and leave the review log alone.
Quiet ==
  /\ UNCHANGED <<pub, ever, notes>>
  /\ state' = state \/ state' \in {"unpublished", "retracted"}
  /\ reviews' = reviews

\* A step of the working table or of an item publishes nothing and closes no flag.
LEMMA ItemQuiet ==
  ASSUME TypeOK, NEW i \in Item, ItemStep(i)
  PROVE  UNCHANGED public /\ UNCHANGED reviews /\ upflags \subseteq upflags'
<1>1. CASE AttachCheck(i) \/ AddTimelineCheck(i)
  BY <1>1 DEF AttachCheck, AddTimelineCheck, Check
<1>2. CASE attach(i) \/ detach(i) \/ addTimeline(i) \/ removeTimeline(i)
  BY <1>2 DEF attach, detach, addTimeline, removeTimeline
<1>3. CASE UpstreamUpdate(i) \/ UpstreamRemove(i)
  BY <1>3 DEF UpstreamUpdate, UpstreamRemove, onUpstreamChange
<1> QED
  BY <1>1, <1>2, <1>3 DEF ItemStep, TableStep

\* Every step publishes, reviews, or is quiet and closes no flag.
LEMMA PublicEffect ==
  ASSUME TypeOK, [Next]_vars
  PROVE  \/ \E r \in DOMAIN revs, note \in BOOLEAN : publish(r, note)
         \/ \E r \in DOMAIN revs, kind \in {"person", "ai_editor"}, decision \in {"approved", "rejected"} :
              review(r, kind, decision)
         \/ Quiet /\ upflags \subseteq upflags'
<1>1. ASSUME NEW i \in Item, ItemStep(i) PROVE Quiet /\ upflags \subseteq upflags'
  BY <1>1, ItemQuiet DEF Quiet, public
<1>2. CASE RequestStep
  BY <1>2 DEF RequestStep, ReviseCheck, AiDraftCheck, PublishCheck, Check, Quiet, public
<1>3. ASSUME NEW q \in checked, TextStep(q) PROVE Quiet /\ upflags \subseteq upflags'
  BY <1>3, TextEffect DEF Drop, Save, Quiet, public
<1>4. CASE PublicationStep
  BY <1>4 DEF PublicationStep, addFlag, unpublish, retract, Quiet
<1>5. CASE UNCHANGED vars
  BY <1>5 DEF vars, Quiet, public
<1> QED
  BY <1>1, <1>2, <1>3, <1>4, <1>5 DEF Next

\* An approval on record stays on record.
LEMMA ReviewsStable ==
  ASSUME TypeOK, [Next]_vars
  PROVE  \A k \in DOMAIN reviews : k \in DOMAIN reviews' /\ reviews'[k] = reviews[k]
<1>1. ASSUME NEW r \in DOMAIN revs, NEW kind \in {"person", "ai_editor"},
             NEW decision \in {"approved", "rejected"}, review(r, kind, decision)
      PROVE  \A k \in DOMAIN reviews : k \in DOMAIN reviews' /\ reviews'[k] = reviews[k]
  <2>1. reviews' = Append(reviews, [rev |-> r, kind |-> kind, decision |-> decision])
    BY <1>1 DEF review
  <2> QED
    BY <2>1 DEF TypeOK
<1> QED
  BY <1>1, PublicEffect DEF publish, Quiet

\* A published story has its published revision.
LEMMA PublishedRevision ==
  ASSUME TypeOK, state = "published"
  PROVE  pub \in DOMAIN revs
<1>1. pub # 0 /\ pub \in 0..Len(revs) /\ DOMAIN revs = 1..Len(revs) /\ Len(revs) \in Nat
  BY DEF TypeOK
<1> QED
  BY <1>1

\* Every step keeps AI text reviewed: publish asks the log, and the log only grows.
LEMMA NextReviewed ==
  ASSUME TypeOK, [Next]_vars, NothingUnreviewedPublic
  PROVE  NothingUnreviewedPublic'
<1>1. ASSUME NEW r \in DOMAIN revs, NEW note \in BOOLEAN, publish(r, note)
      PROVE  NothingUnreviewedPublic'
  <2>1. pub' = r /\ revs' = revs /\ reviews' = reviews /\ canPublish(r)
    BY <1>1 DEF publish, noProblems
  <2>2. revs[r].mode \in Modes
    <3>1. revs[r] \in Revision
      BY DEF TypeOK
    <3> QED
      BY <3>1 DEF Revision
  <2>3. revs[r].mode # "human" => approved(r)
    BY <2>1, <2>2 DEF canPublish, Modes
  <2>4. revs'[pub'].mode # "human" =>
          \E k \in DOMAIN reviews' : reviews'[k].rev = pub' /\ reviews'[k].decision = "approved"
    BY <2>1, <2>3 DEF approved
  <2> QED
    BY <2>4 DEF NothingUnreviewedPublic
<1>2. CASE UNCHANGED <<pub>> /\ (state' = "published" => state = "published")
  BY <1>2, PublishedRevision, RevsGrow, ReviewsStable DEF NothingUnreviewedPublic
<1>3. ASSUME NEW r, NEW kind, NEW decision, review(r, kind, decision)
      PROVE  UNCHANGED <<pub, state>>
  BY <1>3 DEF review, public
<1> QED
  BY <1>1, <1>2, <1>3, PublicEffect DEF Quiet

\* No text the AI wrote, alone or edited since, is public without an approving review of that revision.
THEOREM NothingUnreviewedPublicHolds == Spec => []NothingUnreviewedPublic
<1>1. Init => NothingUnreviewedPublic
  BY DEF Init, NothingUnreviewedPublic
<1> QED
  BY <1>1, NextReviewed, TypeCorrect, PTL DEF Spec

-----------------------------------------------------------------------------
(* Removed sources *)

\* What a revision rests on does not change.
LEMMA RestsStable ==
  ASSUME TypeOK, [Next]_vars, NEW r \in DOMAIN revs, NEW i \in Item
  PROVE  RestsOn(r, i)' = RestsOn(r, i)
BY RevsGrow DEF RestsOn, Cites, OnTimeline, Entry

\* Only an upstream removal makes an item not live; it opens the flag, or the published revision does
\* not rest on the item, or it is unseen.
LEMMA RemovalEffect ==
  ASSUME TypeOK, [Next]_vars, NEW i \in Item, ~item'[i].live
  PROVE  /\ \/ ~item[i].live \/ <<"source_removed", i>> \in upflags' \/ i \in unseen'
            \/ ~(state = "published" /\ RestsOn(pub, i))
         /\ unseen \subseteq unseen'
<1>1. CASE UNCHANGED <<item, unseen>>
  BY <1>1
<1>2. ASSUME NEW j \in Item, UpstreamUpdate(j) PROVE ~item[i].live /\ unseen \subseteq unseen'
  <2>1. unseen \subseteq unseen'
    BY <1>2 DEF UpstreamUpdate, onUpstreamChange
  <2>2. item[j].live /\ item' = [item EXCEPT ![j].rev = item[j].rev + 1]
    BY <1>2 DEF UpstreamUpdate
  <2>3. item'[i].live = item[i].live
    <3>1. item \in [Item -> [live : BOOLEAN, rev : Nat]]
      BY DEF TypeOK
    <3> QED
      BY <2>2, <3>1
  <2> QED
    BY <2>1, <2>3
<1>3. ASSUME NEW j \in Item, UpstreamRemove(j)
      PROVE  /\ \/ ~item[i].live \/ <<"source_removed", i>> \in upflags' \/ i \in unseen'
                \/ ~(state = "published" /\ RestsOn(pub, i))
             /\ unseen \subseteq unseen'
  <2>1. PICK up \in item[j].rev..MaxUp :
          item' = [item EXCEPT ![j] = [live |-> FALSE, rev |-> up]] /\ onUpstreamChange(j, "source_removed", up)
    BY <1>3 DEF UpstreamRemove
  <2>2. CASE i = j
    BY <2>1, <2>2 DEF onUpstreamChange
  <2>3. CASE i # j
    BY <2>1, <2>3 DEF onUpstreamChange, TypeOK
  <2> QED
    BY <2>2, <2>3
<1>4. UNCHANGED <<item, unseen>> \/ \E j \in Item : UpstreamUpdate(j) \/ UpstreamRemove(j)
  <2>1. ASSUME NEW j \in Item, ItemStep(j)
        PROVE  UNCHANGED <<item, unseen>> \/ UpstreamUpdate(j) \/ UpstreamRemove(j)
    BY <2>1 DEF ItemStep, TableStep, AttachCheck, AddTimelineCheck, Check, attach, detach, addTimeline, removeTimeline
  <2>2. CASE RequestStep
    BY <2>2 DEF RequestStep, ReviseCheck, AiDraftCheck, PublishCheck, Check
  <2>3. ASSUME NEW q \in checked, TextStep(q) PROVE UNCHANGED <<item, unseen>>
    BY <2>3, TextEffect DEF Drop, Save
  <2>4. CASE PublicationStep
    BY <2>4 DEF PublicationStep, publish, review, addFlag, unpublish, retract
  <2>5. CASE UNCHANGED vars
    BY <2>5 DEF vars
  <2> QED
    BY <2>1, <2>2, <2>3, <2>4, <2>5 DEF Next
<1> QED
  BY <1>1, <1>2, <1>3, <1>4

\* Every step keeps a removal flagged while the published revision rests on the source.
LEMMA NextFlagged ==
  ASSUME TypeOK, [Next]_vars, CitedRemovalFlagged
  PROVE  CitedRemovalFlagged'
<1>1. ASSUME NEW r \in DOMAIN revs, NEW note \in BOOLEAN, publish(r, note)
      PROVE  CitedRemovalFlagged'
  <2>1. pub' = r /\ item' = item /\ noProblems(r)
    BY <1>1 DEF publish
  <2>2. \A i \in Item : RestsOn(r, i)' => item'[i].live
    BY <2>1, RestsStable DEF noProblems
  <2> QED
    BY <2>1, <2>2 DEF CitedRemovalFlagged, RestsOn, Cites, OnTimeline, Entry
<1>2. CASE UNCHANGED pub /\ (state' = "published" => state = "published") /\ upflags \subseteq upflags'
  <2> SUFFICES ASSUME NEW i \in Item, state' = "published", RestsOn(pub, i)',
                      ~item'[i].live, i \notin unseen'
               PROVE  <<"source_removed", i>> \in upflags'
    BY DEF CitedRemovalFlagged
  <2>1. pub \in DOMAIN revs
    BY <1>2, PublishedRevision
  <2>2. RestsOn(pub, i)
    BY <1>2, <2>1, RevsGrow DEF RestsOn, Cites, OnTimeline, Entry
  <2>3. ~item[i].live => <<"source_removed", i>> \in upflags
    BY <1>2, <2>2, RemovalEffect DEF CitedRemovalFlagged
  <2> QED
    BY <1>2, <2>2, <2>3, RemovalEffect
<1>3. ASSUME NEW r, NEW kind, NEW decision, review(r, kind, decision)
      PROVE  UNCHANGED <<pub, state, upflags>>
  BY <1>3 DEF review, public
<1> QED
  BY <1>1, <1>2, <1>3, PublicEffect DEF Quiet

\* While a published story rests on a removed source its removal flag is open, unless that removal found
\* the source detached from the working table and cited by the published revision.
THEOREM CitedRemovalFlaggedHolds == Spec => []CitedRemovalFlagged
<1>1. Init => CitedRemovalFlagged
  BY DEF Init, CitedRemovalFlagged
<1> QED
  BY <1>1, NextFlagged, TypeCorrect, PTL DEF Spec

\* After the first publication a removal flag closes only with a publication that carries a note and
\* rests on the source no longer.
THEOREM RemovalNeedsNoteHolds == Spec => RemovalNeedsNote
<1> DEFINE Owed ==
      ever => \A f \in upflags \ upflags' : f[1] = "source_removed" =>
        /\ state' = "published" /\ pub' \in notes'
        /\ ~RestsOn(pub, f[2])'
<1>1. TypeOK /\ [Next]_vars => Owed
  <2> SUFFICES ASSUME TypeOK, [Next]_vars, ever,
                      NEW f \in upflags \ upflags', f[1] = "source_removed"
               PROVE  /\ state' = "published" /\ pub' \in notes'
                      /\ ~RestsOn(pub, f[2])'
    OBVIOUS
  <2>1. PICK r \in DOMAIN revs, note \in BOOLEAN : publish(r, note)
    BY PublicEffect DEF review
  <2> DEFINE resolving == {g \in upflags : answers(r, g)}
  <2>2. /\ noteOwed(resolving) => note \/ draftNote
        /\ notes' = IF note \/ draftNote THEN notes \cup {r} ELSE notes
        /\ upflags' = upflags \ resolving /\ state' = "published" /\ pub' = r /\ revs' = revs
    BY <2>1 DEF publish
  <2>3. f \in resolving
    BY <2>2
  <2>4. ~RestsOn(r, f[2])
    BY <2>3 DEF answers
  <2>5. noteOwed(resolving)
    BY <2>3 DEF noteOwed
  <2> HIDE DEF resolving
  <2> QED
    BY <2>2, <2>4, <2>5 DEF RestsOn, Cites, OnTimeline, Entry
<1> QED
  BY <1>1, TypeCorrect, PTL DEF Spec, RemovalNeedsNote

=============================================================================

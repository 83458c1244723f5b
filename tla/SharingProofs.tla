--------------------------- MODULE SharingProofs ----------------------------
(***************************************************************************)
(* Proofs about Sharing, for every set of stories, people and editors.     *)
(*                                                                         *)
(* None of the invariants is inductive alone.  A step keeps the lists and  *)
(* the pages together only if column and row agreed before, in stories     *)
(* nobody can open too (InStep).  What an erasure takes away stays away    *)
(* because whoever left is asked for no more (NothingLeft).  The card is   *)
(* as recent as the load it came from (CardFollows).                       *)
(***************************************************************************)
EXTENDS Sharing, TLAPS

\* A story's column says of its row what the lists may show of it, and a story not yet made has
\* neither a row nor a place in the lists.
InStep ==
  /\ state \in [Story -> States]
  /\ audience \in [Story -> {"public", "private"}]
  /\ share \in [Story -> Row \cup {NoShare}]
  /\ members \in [Story -> SUBSET Person] /\ papers \in [Story -> SUBSET SUBSET Person]
  /\ \A s \in Story :
       /\ share[s] # NoShare => audience[s] = FROM_SDK(share[s].audience)
       /\ state[s] = "none" => share[s] = NoShare /\ audience[s] = "private"

-----------------------------------------------------------------------------
(* The pieces of a step *)

\* A row is not the absent row.
LEMMA RowIsShare == \A r \in Row : r # NoShare /\ r.audience \in AUDIENCES
BY DEF Row, NoShare, AUDIENCES

\* An audience in the lists' words.
LEMMA InListWords == \A a : FROM_SDK(a) \in {"public", "private"}
BY DEF FROM_SDK

\* The desk's own move of the audience keeps row and column together.
LEMMA SyncKeeps ==
  ASSUME InStep, NEW s \in Story, NEW next \in AUDIENCES, syncAudience(s, next)
  PROVE  /\ share' \in [Story -> Row \cup {NoShare}]
         /\ audience' \in [Story -> {"public", "private"}]
         /\ \A x \in Story :
              /\ share'[x] # NoShare => audience'[x] = FROM_SDK(share'[x].audience)
              /\ share'[x] = NoShare <=> share[x] = NoShare
              /\ x # s => share'[x] = share[x] /\ audience'[x] = audience[x]
<1>1. CASE share[s] = NoShare \/ share[s].audience = next
  BY <1>1 DEF syncAudience, InStep
<1>2. CASE ~(share[s] = NoShare \/ share[s].audience = next)
  <2> DEFINE row == [share[s] EXCEPT !.audience = next]
  <2>1. share' = [share EXCEPT ![s] = row] /\ audience' = [audience EXCEPT ![s] = FROM_SDK(next)]
    BY <1>2 DEF syncAudience
  <2>2. share[s] \in Row
    BY <1>2 DEF InStep
  <2>3. row \in Row /\ row.audience = next
    BY <2>2 DEF Row
  <2>4. row # NoShare
    BY <2>3, RowIsShare
  <2> HIDE DEF row
  <2> QED
    BY <1>2, <2>1, <2>3, <2>4, InListWords DEF InStep
<1> QED
  BY <1>1, <1>2

\* The sheet's move, by the owner of a row.
LEMMA SheetKeeps ==
  ASSUME InStep, NEW s \in Story, NEW a \in AUDIENCES, setAudience(s, a)
  PROVE  InStep'
<1>1. share[s] \in Row
  <2>1. PICK p \in Person : share[s].owner = p
    BY DEF setAudience, owns
  <2>2. share[s] # NoShare
    BY <2>1, PeopleAssumption DEF NoShare
  <2> QED
    BY <2>2 DEF InStep
<1> DEFINE row == [share[s] EXCEPT !.audience = a]
<1>2. row \in Row /\ row.audience = a
  BY <1>1 DEF Row
<1>3. row # NoShare /\ share[s] # NoShare
  BY <1>1, <1>2, RowIsShare
<1>4. share' = [share EXCEPT ![s] = row] /\ audience' = [audience EXCEPT ![s] = FROM_SDK(a)]
  BY DEF setAudience
<1>5. UNCHANGED <<state, members, papers>>
  BY DEF setAudience
<1> HIDE DEF row
<1> QED
  BY <1>2, <1>3, <1>4, <1>5, InListWords DEF InStep

\* Requests and offers, of people, are put on file.
LEMMA FilingKeeps ==
  ASSUME InStep, NEW s \in Story, NEW p \in Person, requestAccess(s, p) \/ offer(s, p)
  PROVE  /\ InStep'
         /\ UNCHANGED <<state, audience, share, members, people>>
         /\ \A x \in Story : \A who \in papers'[x] : who \in papers[x] \/ who \subseteq Present
<1>1. PICK who \in SUBSET Present :
        papers' = [papers EXCEPT ![s] = @ \cup {who}] /\ UNCHANGED <<state, audience, share, members, people>>
  <2>1. ASSUME requestAccess(s, p)
        PROVE  {p} \subseteq Present /\ file(s, {p}) /\ UNCHANGED <<state, audience, share, members, people>>
    BY <2>1 DEF requestAccess
  <2>2. ASSUME offer(s, p)
        PROVE  /\ UNCHANGED <<state, audience, share, members, people>>
               /\ \E o \in Present : {o, p} \subseteq Present /\ file(s, {o, p})
    BY <2>2 DEF offer, owns
  <2> QED
    BY <2>1, <2>2 DEF file
<1>2. papers' \in [Story -> SUBSET SUBSET Person]
  BY <1>1 DEF InStep, Present
<1>3. \A x \in Story : \A w \in papers'[x] : w \in papers[x] \/ w \subseteq Present
  BY <1>1 DEF InStep
<1> QED
  BY <1>1, <1>2, <1>3 DEF InStep

\* A story changes hands: its row says so and nothing else, and the one who gives it may keep access.
LEMMA AcceptHands ==
  ASSUME InStep, NEW s \in Story, NEW p \in Person, accept(s, p)
  PROVE  /\ p \in Present /\ share[s] # NoShare /\ share[s].owner \in Present
         /\ \E row \in Row :
              /\ row # NoShare /\ row.owner = p /\ row.audience = share[s].audience
              /\ share' = [share EXCEPT ![s] = row]
         /\ \E kept \in {{}, {share[s].owner}} : members' = [members EXCEPT ![s] = @ \cup kept]
         /\ UNCHANGED <<state, audience, papers, people>>
<1>1. PICK o \in Person :
        /\ o \in Present /\ share[s].owner = o
        /\ \E kept \in {{}, {o}} : members' = [members EXCEPT ![s] = @ \cup kept]
  BY DEF accept, owns
<1>2. share[s] # NoShare
  BY <1>1, PeopleAssumption DEF NoShare
<1>3. share[s] \in Row
  BY <1>2 DEF InStep
<1> DEFINE row == [share[s] EXCEPT !.owner = p]
<1>4. row \in Row /\ row.owner = p /\ row.audience = share[s].audience
  BY <1>3 DEF Row
<1>5. share' = [share EXCEPT ![s] = row] /\ p \in Present /\ UNCHANGED <<state, audience, papers, people>>
  BY DEF accept
<1> HIDE DEF row
<1>6. row # NoShare
  BY <1>4, RowIsShare
<1> QED
  BY <1>1, <1>2, <1>4, <1>5, <1>6

\* What the lists read does not change hands.
LEMMA AcceptKeeps ==
  ASSUME InStep, NEW s \in Story, NEW p \in Person, accept(s, p)
  PROVE  InStep'
<1>1. /\ share[s] # NoShare /\ share[s].owner \in Person
      /\ UNCHANGED <<state, audience, papers>>
  BY AcceptHands DEF Present
<1>2. PICK row \in Row :
        /\ row # NoShare /\ row.audience = share[s].audience
        /\ share' = [share EXCEPT ![s] = row]
  BY AcceptHands
<1>3. PICK kept \in {{}, {share[s].owner}} : members' = [members EXCEPT ![s] = @ \cup kept]
  BY AcceptHands
<1>4. members' \in [Story -> SUBSET Person]
  BY <1>1, <1>3 DEF InStep
<1> QED
  BY <1>1, <1>2, <1>4 DEF InStep

\* A new story is Only me, and in no list.
LEMMA CreateKeeps ==
  ASSUME InStep, NEW s \in Story, NEW p \in Person \cup {Nobody}, create(s, p)
  PROVE  InStep'
<1> DEFINE row == [audience |-> "private", owner |-> p]
<1>1. row \in Row /\ row.audience = "private" /\ FROM_SDK("private") = "private"
  BY DEF Row, AUDIENCES, FROM_SDK
<1>2. row # NoShare
  BY <1>1, RowIsShare
<1>3. /\ share' = [share EXCEPT ![s] = row] /\ state' = [state EXCEPT ![s] = "draft"]
      /\ UNCHANGED <<audience, members, papers>> /\ state[s] = "none"
  BY DEF create, register
<1> HIDE DEF row
<1> QED
  BY <1>1, <1>2, <1>3 DEF InStep, States

\* Publishing, unpublishing and retracting.
LEMMA PublicationKeeps ==
  ASSUME InStep, NEW s \in Story, publish(s) \/ unpublish(s) \/ retract(s)
  PROVE  InStep'
<1>1. CASE publish(s)
  <2>1. syncAudience(s, "public") /\ state' = [state EXCEPT ![s] = "published"]
        /\ UNCHANGED <<members, papers>>
    BY <1>1 DEF publish
  <2> QED
    BY <1>1, <2>1, SyncKeeps DEF publish, InStep, AUDIENCES, States
<1>2. CASE unpublish(s)
  <2>1. syncAudience(s, "private") /\ state' = [state EXCEPT ![s] = "unpublished"]
        /\ UNCHANGED <<members, papers>>
    BY <1>2 DEF unpublish
  <2> QED
    BY <1>2, <2>1, SyncKeeps DEF unpublish, live, InStep, AUDIENCES, States
<1>3. CASE retract(s)
  BY <1>3 DEF retract, InStep, States
<1> QED
  BY <1>1, <1>2, <1>3

\* An erasure takes rows and memberships away and leaves the column.
LEMMA EraseKeeps ==
  ASSUME InStep, NEW p \in Person, erase(p)
  PROVE  InStep'
<1>1. /\ members' = [s \in Story |-> members[s] \ {p}]
      /\ papers' = [s \in Story |-> {who \in papers[s] : p \notin who}]
      /\ share' = [s \in Story |-> IF s \in owned(p) THEN NoShare ELSE share[s]]
      /\ UNCHANGED <<state, audience>>
  BY DEF erase, shareErase
<1> QED
  BY <1>1 DEF InStep

-----------------------------------------------------------------------------
(* Theorems *)

\* InStep is inductive.
LEMMA NextInStep == InStep /\ [Next]_vars => InStep'
<1> SUFFICES ASSUME InStep, [Next]_vars PROVE InStep'
  OBVIOUS
<1>1. CASE Desk
  BY <1>1, CreateKeeps, PublicationKeeps DEF Desk
<1>2. CASE Sheet
  <2>1. ASSUME NEW s \in Story, NEW p \in Person, addMember(s, p) \/ removeMember(s, p) PROVE InStep'
    <3>1. UNCHANGED <<state, audience, share, papers>> /\ members' \in [Story -> SUBSET Person]
      BY <2>1 DEF addMember, removeMember, InStep
    <3> QED
      BY <3>1 DEF InStep
  <2> QED
    BY <1>2, <2>1, SheetKeeps, FilingKeeps, AcceptKeeps DEF Sheet
<1>3. CASE People
  <2>1. ASSUME NEW p \in Person,
               saveDraft(p) \/ resolve(p) \/ remember(p) \/ resolveFails(p) \/ accountDeleted(p)
        PROVE  InStep'
    BY <2>1 DEF saveDraft, resolve, remember, resolveFails, accountDeleted, rows, InStep
  <2> QED
    BY <1>3, <2>1, EraseKeeps DEF People
<1>4. CASE Card
  BY <1>4 DEF Card, load, loadReads, loadEnds, loadFails, Tick, Restart, rows, InStep
<1>5. CASE UNCHANGED vars
  BY <1>5 DEF vars, rows, InStep
<1> QED
  BY <1>1, <1>2, <1>3, <1>4, <1>5 DEF Next

\* A story's row and the column the lists read never part, whoever moves the audience.
THEOREM RowAndColumnInStep == Spec => []InStep
<1>1. Init => InStep
  BY DEF Init, InStep, States, NoShare
<1> QED
  BY <1>1, NextInStep, PTL DEF Spec

\* What is in step is listed exactly when anyone can open it.
LEMMA InStepAgrees == InStep => ListsAgreeWithPages
<1> SUFFICES ASSUME InStep, NEW s \in Story
             PROVE  /\ listed(s) => opens(Anonymous, s)
                    /\ live(s) /\ opens(Anonymous, s) /\ share[s] # NoShare => listed(s)
  BY DEF ListsAgreeWithPages
<1>1. CASE share[s] = NoShare
  BY <1>1 DEF listed, opens
<1>2. CASE share[s] # NoShare
  <2>1. share[s] \in Row /\ members[s] \subseteq Person /\ audience[s] = FROM_SDK(share[s].audience)
    BY <1>2 DEF InStep
  <2>2. Anonymous \notin Person /\ Anonymous # share[s].owner
    BY <2>1, PeopleAssumption DEF Row
  <2>3. canView(Anonymous, s) <=> audience[s] = "public"
    BY <2>1, <2>2 DEF canView, FROM_SDK
  <2> QED
    BY <1>2, <2>2, <2>3, PeopleAssumption DEF listed, opens, live
<1> QED
  BY <1>1, <1>2

\* Lists, feeds and sitemaps carry, of the live stories with a row, exactly those anyone can open,
\* and never lead to a page that refuses.
THEOREM ListsAgree == Spec => []ListsAgreeWithPages
BY RowAndColumnInStep, InStepAgrees, PTL

-----------------------------------------------------------------------------
(* Who is left *)

\* Whoever is erased is on no row and is asked for at Network no more than an answer still on its way
\* may bring back: ErasedHoldNothing with the lookups under way.
NothingLeft ==
  \A p \in left \ erasing :
    /\ p \notin drafts /\ \A s \in Story : share[s].owner # p /\ p \notin members[s]
    /\ \A s \in Story : \A who \in papers[s] : p \notin who
    /\ p \in profile \cup lookups => p \in renamed

PeopleTyped ==
  /\ drafts \subseteq Person /\ profile \subseteq Person /\ lookups \subseteq Person
  /\ left \subseteq Person /\ erasing \subseteq left /\ renamed \subseteq left

\* The audience moves, the owner does not.
LEMMA OwnerStays ==
  ASSUME InStep, NEW s \in Story, NEW a,
         syncAudience(s, a) \/ setAudience(s, a), NEW x \in Story
  PROVE  share'[x].owner = share[x].owner
<1>1. CASE share' = share
  BY <1>1
<1>2. CASE share' = [share EXCEPT ![s].audience = a]
  <2> DEFINE row == [share[s] EXCEPT !.audience = a]
  <2>1. row.owner = share[s].owner
    BY DEF InStep, Row, NoShare
  <2>2. share' = [share EXCEPT ![s] = row]
    BY <1>2
  <2> HIDE DEF row
  <2> QED
    BY <2>1, <2>2 DEF InStep
<1> QED
  BY <1>1, <1>2 DEF syncAudience, setAudience

\* A step that gives nobody who has left a row, a membership, a paper, a draft or a place among the
\* lookups.
LEMMA GivesNothing ==
  ASSUME NothingLeft, PeopleTyped,
         UNCHANGED <<left, erasing, renamed>>, drafts' \subseteq drafts \cup Present,
         profile' \subseteq profile \cup lookups, lookups' \subseteq lookups \cup Present,
         \A s \in Story : share'[s].owner \in {share[s].owner, Nobody} \cup Present,
         \A s \in Story : members'[s] \subseteq members[s] \cup Present,
         \A s \in Story : \A who \in papers'[s] : who \in papers[s] \/ who \subseteq Present
  PROVE  NothingLeft'
<1> SUFFICES ASSUME NEW p \in left \ erasing
             PROVE  /\ p \notin drafts' /\ \A s \in Story : share'[s].owner # p /\ p \notin members'[s]
                    /\ \A s \in Story : \A who \in papers'[s] : p \notin who
                    /\ p \in profile' \cup lookups' => p \in renamed
  BY DEF NothingLeft
<1>1. p \in Person /\ p \notin Present /\ p # Nobody
  BY PeopleAssumption DEF PeopleTyped, Present
<1> QED
  BY <1>1 DEF NothingLeft

LEMMA DeskGivesNothing ==
  ASSUME InStep, NothingLeft, PeopleTyped, Desk
  PROVE  NothingLeft'
<1>1. ASSUME NEW s \in Story, NEW p \in Person \cup {Nobody}, create(s, p) PROVE NothingLeft'
  <2> DEFINE row == [audience |-> "private", owner |-> p]
  <2>1. /\ share' = [share EXCEPT ![s] = row] /\ row.owner = p /\ p \in Present \cup {Nobody}
        /\ UNCHANGED <<members, papers, people>>
    BY <1>1 DEF create, register
  <2> HIDE DEF row
  <2>2. \A x \in Story : share'[x].owner \in {share[x].owner, Nobody} \cup Present
    BY <2>1 DEF InStep
  <2> QED
    BY <2>1, <2>2, GivesNothing DEF people
<1>2. ASSUME NEW s \in Story, publish(s) \/ unpublish(s) \/ retract(s) PROVE NothingLeft'
  <2>1. /\ UNCHANGED <<members, papers, people>>
        /\ syncAudience(s, "public") \/ syncAudience(s, "private") \/ share' = share
    BY <1>2 DEF publish, unpublish, retract
  <2>2. \A x \in Story : share'[x].owner = share[x].owner
    BY <2>1, OwnerStays
  <2> QED
    BY <2>1, <2>2, GivesNothing DEF people
<1> QED
  BY <1>1, <1>2 DEF Desk

LEMMA SheetGivesNothing ==
  ASSUME InStep, NothingLeft, PeopleTyped, Sheet
  PROVE  NothingLeft'
<1>1. ASSUME NEW s \in Story, NEW a \in AUDIENCES, setAudience(s, a) PROVE NothingLeft'
  <2>1. UNCHANGED <<members, papers, people>>
    BY <1>1 DEF setAudience
  <2>2. \A x \in Story : share'[x].owner = share[x].owner
    BY <1>1, OwnerStays
  <2> QED
    BY <2>1, <2>2, GivesNothing DEF people
<1>2. ASSUME NEW s \in Story, NEW p \in Person, addMember(s, p) \/ removeMember(s, p)
      PROVE  NothingLeft'
  <2>1. UNCHANGED <<share, papers, people>> /\ \A x \in Story : members'[x] \subseteq members[x] \cup Present
    BY <1>2 DEF addMember, removeMember, InStep
  <2> QED
    BY <2>1, GivesNothing DEF people
<1>3. ASSUME NEW s \in Story, NEW p \in Person, requestAccess(s, p) \/ offer(s, p) PROVE NothingLeft'
  BY <1>3, FilingKeeps, GivesNothing DEF people
<1>4. ASSUME NEW s \in Story, NEW p \in Person, accept(s, p) PROVE NothingLeft'
  <2>1. p \in Present /\ share[s].owner \in Present /\ UNCHANGED <<papers, people>>
    BY <1>4, AcceptHands
  <2>2. PICK row \in Row : row.owner = p /\ share' = [share EXCEPT ![s] = row]
    BY <1>4, AcceptHands
  <2>3. PICK kept \in {{}, {share[s].owner}} : members' = [members EXCEPT ![s] = @ \cup kept]
    BY <1>4, AcceptHands
  <2>4. \A x \in Story : share'[x].owner \in {share[x].owner, Nobody} \cup Present
    BY <2>1, <2>2 DEF InStep
  <2>5. \A x \in Story : members'[x] \subseteq members[x] \cup Present
    BY <2>1, <2>3 DEF InStep
  <2> QED
    BY <2>1, <2>4, <2>5, GivesNothing DEF people
<1> QED
  BY <1>1, <1>2, <1>3, <1>4 DEF Sheet

LEMMA PeopleGiveNothing ==
  ASSUME InStep, NothingLeft, PeopleTyped, People
  PROVE  NothingLeft' /\ PeopleTyped'
<1>1. ASSUME NEW p \in Person, saveDraft(p) \/ resolve(p) \/ remember(p) \/ resolveFails(p)
      PROVE  NothingLeft' /\ PeopleTyped'
  <2>1. /\ UNCHANGED <<rows, left, erasing, renamed>>
        /\ drafts' \subseteq drafts \cup Present
        /\ profile' \subseteq profile \cup lookups /\ lookups' \subseteq lookups \cup Present
    BY <1>1 DEF saveDraft, resolve, remember, resolveFails
  <2>2. NothingLeft'
    BY <2>1, GivesNothing DEF rows
  <2>3. PeopleTyped'
    BY <2>1 DEF PeopleTyped, Present
  <2> QED
    BY <2>2, <2>3
<1>2. ASSUME NEW p \in Person, accountDeleted(p) PROVE NothingLeft' /\ PeopleTyped'
  <2>1. /\ left' = left \cup {p} /\ erasing' = erasing \cup {p}
        /\ UNCHANGED <<rows, drafts, profile, lookups, renamed>>
    BY <1>2 DEF accountDeleted
  <2> QED
    BY <2>1 DEF rows, NothingLeft, PeopleTyped
<1>3. ASSUME NEW p \in Person, erase(p) PROVE NothingLeft' /\ PeopleTyped'
  <2>1. /\ members' = [s \in Story |-> members[s] \ {p}]
        /\ papers' = [s \in Story |-> {who \in papers[s] : p \notin who}]
        /\ share' = [s \in Story |-> IF s \in owned(p) THEN NoShare ELSE share[s]]
        /\ drafts' = drafts \ {p} /\ profile' = profile \ {p}
        /\ erasing' = erasing \ {p} /\ p \in erasing
        /\ renamed' = IF p \in lookups THEN renamed \cup {p} ELSE renamed
        /\ UNCHANGED <<lookups, left>>
    BY <1>3 DEF erase, shareErase
  <2>2. PeopleTyped'
    BY <2>1 DEF PeopleTyped
  <2>3. ASSUME NEW q \in left' \ erasing'
        PROVE  /\ q \notin drafts' /\ \A s \in Story : share'[s].owner # q /\ q \notin members'[s]
               /\ \A s \in Story : \A who \in papers'[s] : q \notin who
               /\ q \in profile' \cup lookups' => q \in renamed'
    <3>1. q # Nobody
      BY <2>1, PeopleAssumption DEF PeopleTyped
    <3>2. CASE q = p
      BY <2>1, <3>1, <3>2 DEF owned, NoShare
    <3>3. CASE q # p
      BY <2>1, <3>1, <3>3 DEF NoShare, NothingLeft
    <3> QED
      BY <3>2, <3>3
  <2> QED
    BY <2>2, <2>3 DEF NothingLeft
<1> QED
  BY <1>1, <1>2, <1>3 DEF People

LEMMA NextNothingLeft ==
  InStep /\ NothingLeft /\ PeopleTyped /\ [Next]_vars => NothingLeft' /\ PeopleTyped'
<1> SUFFICES ASSUME InStep, NothingLeft, PeopleTyped, [Next]_vars PROVE NothingLeft' /\ PeopleTyped'
  OBVIOUS
<1>1. CASE Desk
  <2>1. UNCHANGED people
    BY <1>1 DEF Desk, create, publish, unpublish, retract
  <2> QED
    BY <1>1, <2>1, DeskGivesNothing DEF people, PeopleTyped
<1>2. CASE Sheet
  <2>1. UNCHANGED people
    BY <1>2 DEF Sheet, setAudience, addMember, removeMember, requestAccess, offer, accept
  <2> QED
    BY <1>2, <2>1, SheetGivesNothing DEF people, PeopleTyped
<1>3. CASE People
  BY <1>3, PeopleGiveNothing
<1>4. CASE Card \/ UNCHANGED vars
  <2>1. /\ UNCHANGED <<rows, drafts, profile, left, erasing, renamed>>
        /\ lookups' \subseteq lookups
    BY <1>4 DEF Card, load, loadReads, loadEnds, loadFails, Tick, Restart, vars, people
  <2> QED
    BY <2>1 DEF rows, NothingLeft, PeopleTyped
<1> QED
  BY <1>1, <1>2, <1>3, <1>4 DEF Next

LEMMA AlwaysNothingLeft == Spec => [](NothingLeft /\ PeopleTyped)
<1>1. Init => NothingLeft /\ PeopleTyped
  BY DEF Init, NothingLeft, PeopleTyped
<1> QED
  BY <1>1, NextNothingLeft, RowAndColumnInStep, PTL DEF Spec

\* Whoever is erased is on no row any more, and stays off them; a name comes back only if it was
\* being asked for at Network then.
THEOREM ErasedStayErased == Spec => []ErasedHoldNothing
<1>1. NothingLeft => ErasedHoldNothing
  BY DEF NothingLeft, ErasedHoldNothing, owned
<1> QED
  BY <1>1, AlwaysNothingLeft, PTL

-----------------------------------------------------------------------------
(* The menu's card *)

Loaded == [items : SUBSET Story, age : 0..Ttl, loaded : BOOLEAN]
Load == [items : SUBSET Story, age : 0..Ttl, read : BOOLEAN]

\* The card, the load and the stories' time off the lists have their shape, and a story in the lists
\* has been off them for no time.
CardTyped ==
  /\ card \in Loaded
  /\ loading = NoLoad \/ loading \in Load
  /\ missing \in [Story -> 0..Ttl]
  /\ \A s \in Story : listed(s) => missing[s] = 0

\* CardIsRecent is not inductive: the age of the card, and of the load in flight, is at least the time
\* each of its stories has been off the lists.
CardFollows ==
  /\ CardTyped
  /\ \A s \in card.items : missing[s] <= card.age
  /\ \A s \in loading.items : missing[s] <= loading.age

\* A load is not the absence of one.
LEMMA LoadIsLoad == \A l \in Load : l # NoLoad
BY TtlAssumption DEF Load, NoLoad

LEMMA OlderFollows ==
  ASSUME NEW m \in 0..Ttl, NEW n \in 0..Ttl
  PROVE  Older(m) \in 0..Ttl /\ m <= Older(m) /\ (m <= n => Older(m) <= Older(n))
BY TtlAssumption DEF Older

\* Stories enter and leave the lists; the card does not change.
LEMMA ListsFollow ==
  ASSUME CardFollows, Lists, UNCHANGED menu
  PROVE  CardFollows'
<1>1. \A s \in Story : missing'[s] = IF listed(s)' THEN 0 ELSE missing[s]
  BY DEF Lists
<1>2. missing' \in [Story -> 0..Ttl] /\ \A s \in Story : missing'[s] <= missing[s]
  BY TtlAssumption DEF Lists, CardFollows, CardTyped
<1>3. CardTyped'
  BY <1>1, <1>2 DEF CardFollows, CardTyped, menu
<1>4. \A s \in card.items : s \in Story /\ card.age \in Nat
  BY DEF CardFollows, CardTyped, Loaded
<1>5. \A s \in card.items : missing'[s] <= card.age
  <2> SUFFICES ASSUME NEW s \in card.items PROVE missing'[s] <= card.age
    OBVIOUS
  <2>1. missing[s] <= card.age /\ missing'[s] <= missing[s]
    BY <1>2, <1>4 DEF CardFollows
  <2> QED
    BY <1>2, <1>4, <2>1 DEF CardFollows, CardTyped
<1>6. \A s \in loading.items : missing'[s] <= loading.age
  <2> SUFFICES ASSUME NEW s \in loading.items PROVE missing'[s] <= loading.age
    OBVIOUS
  <2>1. loading \in Load /\ s \in Story
    BY DEF CardFollows, CardTyped, Load, NoLoad
  <2>2. missing[s] <= loading.age /\ missing'[s] <= missing[s]
    BY <1>2, <2>1 DEF CardFollows
  <2> QED
    BY <1>2, <2>1, <2>2 DEF CardFollows, CardTyped, Load
<1> QED
  BY <1>3, <1>5, <1>6 DEF CardFollows, menu

\* A tick ages the card, the load and what is off the lists together.
LEMMA TickFollows ==
  ASSUME CardFollows, Tick
  PROVE  CardFollows'
<1>1. /\ card' = [card EXCEPT !.age = Older(@)]
      /\ loading' = IF loading = NoLoad THEN NoLoad ELSE [loading EXCEPT !.age = Older(@)]
      /\ missing' = [s \in Story |-> IF listed(s) THEN 0 ELSE Older(missing[s])]
      /\ UNCHANGED <<state, audience>>
  BY DEF Tick, rows
<1>2. \A s \in Story : missing[s] \in 0..Ttl /\ missing'[s] \in 0..Ttl /\ missing'[s] <= Older(missing[s])
  BY <1>1, OlderFollows, TtlAssumption DEF CardFollows, CardTyped, Older
<1>3. card' \in Loaded /\ card'.items = card.items /\ card'.age = Older(card.age) /\ card.age \in 0..Ttl
  BY <1>1, OlderFollows DEF CardFollows, CardTyped, Loaded
<1>4. loading' = NoLoad \/ (/\ loading' \in Load /\ loading'.items = loading.items
                            /\ loading'.age = Older(loading.age) /\ loading.age \in 0..Ttl
                            /\ loading \in Load)
  BY <1>1, OlderFollows DEF CardFollows, CardTyped, Load
<1>5. CardTyped'
  <2>1. missing' \in [Story -> 0..Ttl]
    BY <1>1, <1>2
  <2>2. \A s \in Story : listed(s)' => missing'[s] = 0
    BY <1>1 DEF listed, live
  <2> QED
    BY <1>3, <1>4, <2>1, <2>2 DEF CardTyped
<1>6. ASSUME NEW s \in Story, NEW age \in 0..Ttl, missing[s] <= age PROVE missing'[s] <= Older(age)
  <2>1. Older(missing[s]) <= Older(age) /\ Older(missing[s]) \in 0..Ttl /\ Older(age) \in 0..Ttl
    BY <1>2, <1>6, OlderFollows
  <2> QED
    BY <1>2, <2>1
<1>7. \A s \in card'.items : missing'[s] <= card'.age
  BY <1>3, <1>6 DEF CardFollows, Loaded
<1>8. \A s \in loading'.items : missing'[s] <= loading'.age
  <2>1. CASE loading' = NoLoad
    BY <2>1 DEF NoLoad
  <2>2. CASE loading' # NoLoad
    BY <1>4, <1>6, <2>2 DEF CardFollows, Load
  <2> QED
    BY <2>1, <2>2
<1> QED
  BY <1>5, <1>7, <1>8 DEF CardFollows

\* The load reads the lists, so what it carries has been off them for no time.
LEMMA LoadFollows ==
  ASSUME CardFollows, load \/ loadReads \/ loadEnds \/ loadFails \/ Restart
  PROVE  CardFollows'
<1>1. UNCHANGED <<state, audience, missing>> /\ \A s \in Story : listed(s)' = listed(s)
  BY DEF load, loadReads, loadEnds, loadFails, Restart, rows, listed, live
<1>2. CASE load
  <2> DEFINE new == [items |-> {}, age |-> 0, read |-> FALSE]
  <2>1. loading' = new /\ card' = card /\ new \in Load /\ new.items = {}
    BY <1>2, TtlAssumption DEF load, Load
  <2> HIDE DEF new
  <2> QED
    BY <1>1, <2>1 DEF CardFollows, CardTyped
<1>3. CASE loadReads
  <2>1. /\ loading \in Load /\ card' = card
        /\ loading' = [loading EXCEPT !.items = {s \in Story : listed(s) /\ state[s] # "retracted"},
                                      !.read = TRUE]
    BY <1>3 DEF loadReads, CardFollows, CardTyped
  <2>2. loading' \in Load /\ loading'.age \in 0..Ttl /\ \A s \in loading'.items : s \in Story /\ listed(s)
    BY <2>1 DEF Load
  <2>3. \A s \in loading'.items : missing[s] <= loading'.age
    BY <2>2, TtlAssumption DEF CardFollows, CardTyped
  <2> QED
    BY <1>1, <2>1, <2>2, <2>3 DEF CardFollows, CardTyped
<1>4. CASE loadEnds
  <2> DEFINE new == [items |-> loading.items, age |-> loading.age, loaded |-> TRUE]
  <2>1. loading \in Load /\ card' = new /\ loading' = NoLoad
    BY <1>4 DEF loadEnds, CardFollows, CardTyped
  <2>2. new \in Loaded /\ new.items = loading.items /\ new.age = loading.age
    BY <2>1 DEF Load, Loaded
  <2> HIDE DEF new
  <2>3. loading'.items = {}
    BY <2>1 DEF NoLoad
  <2> QED
    BY <1>1, <2>1, <2>2, <2>3 DEF CardFollows, CardTyped
<1>5. CASE loadFails
  <2> DEFINE new == [items |-> {}, age |-> loading.age, loaded |-> TRUE]
  <2>1. loading \in Load /\ loading' = NoLoad /\ loading'.items = {} /\ card' \in {card, new}
    BY <1>5 DEF loadFails, CardFollows, CardTyped, NoLoad
  <2>2. new \in Loaded /\ new.items = {}
    BY <2>1 DEF Load, Loaded
  <2> HIDE DEF new
  <2> QED
    BY <1>1, <2>1, <2>2 DEF CardFollows, CardTyped
<1>6. CASE Restart
  <2>1. /\ card' = NoCard /\ card' \in Loaded /\ card'.items = {}
        /\ loading' = NoLoad /\ loading'.items = {}
    BY <1>6, TtlAssumption DEF Restart, NoCard, NoLoad, Loaded
  <2> QED
    BY <1>1, <2>1 DEF CardFollows, CardTyped
<1> QED
  BY <1>2, <1>3, <1>4, <1>5, <1>6

LEMMA NextFollows == CardFollows /\ [Next]_vars => CardFollows'
<1> SUFFICES ASSUME CardFollows, [Next]_vars PROVE CardFollows'
  OBVIOUS
<1>1. ASSUME UNCHANGED <<state, audience, menu, missing>> PROVE CardFollows'
  BY <1>1 DEF CardFollows, CardTyped, listed, live, menu
<1>2. CASE Desk
  BY <1>2, ListsFollow DEF Desk, create, publish, unpublish, retract
<1>3. CASE Sheet
  <2>1. ASSUME NEW s \in Story, NEW a \in AUDIENCES, setAudience(s, a) PROVE CardFollows'
    BY <2>1, ListsFollow DEF setAudience
  <2>2. ASSUME NEW s \in Story, NEW p \in Person,
               \/ addMember(s, p) \/ removeMember(s, p)
               \/ requestAccess(s, p) \/ offer(s, p) \/ accept(s, p)
        PROVE  CardFollows'
    BY <1>1, <2>2 DEF addMember, removeMember, requestAccess, offer, accept
  <2> QED
    BY <1>3, <2>1, <2>2 DEF Sheet
<1>4. CASE People
  <2>1. ASSUME NEW p \in Person, erase(p) PROVE CardFollows'
    BY <2>1, ListsFollow DEF erase
  <2>2. ASSUME NEW p \in Person,
               saveDraft(p) \/ resolve(p) \/ remember(p) \/ resolveFails(p) \/ accountDeleted(p)
        PROVE  CardFollows'
    BY <1>1, <2>2 DEF saveDraft, resolve, remember, resolveFails, accountDeleted, rows
  <2> QED
    BY <1>4, <2>1, <2>2 DEF People
<1>5. CASE Card
  BY <1>5, TickFollows, LoadFollows DEF Card
<1>6. CASE UNCHANGED vars
  BY <1>1, <1>6 DEF vars, rows
<1> QED
  BY <1>2, <1>3, <1>4, <1>5, <1>6 DEF Next

LEMMA AlwaysCardFollows == Spec => []CardFollows
<1>1. Init => CardFollows
  BY TtlAssumption DEF Init, CardFollows, CardTyped, Loaded, NoCard, NoLoad, listed, live
<1> QED
  BY <1>1, NextFollows, PTL DEF Spec

\* The card is never more than its lifetime behind, however long a load took and whatever was taken
\* down while it ran.
THEOREM CardNeverOld == Spec => []CardIsRecent
<1>1. CardFollows => CardIsRecent
  BY TtlAssumption DEF CardFollows, CardTyped, CardIsRecent, Loaded
<1> QED
  BY <1>1, AlwaysCardFollows, PTL

\* Type correctness, from the three invariants.
THEOREM TypeCorrect == Spec => []TypeOK
<1>1. InStep /\ PeopleTyped /\ CardFollows => TypeOK
  BY DEF InStep, PeopleTyped, CardFollows, CardTyped, Loaded, Load, TypeOK
<1> QED
  BY <1>1, RowAndColumnInStep, AlwaysNothingLeft, AlwaysCardFollows, PTL

-----------------------------------------------------------------------------
(* Who may open a story *)

\* What OnlyOwnersOpen says of one step and one reader of a story.
OwnerOpened(s, v) ==
  \/ publish(s)
  \/ \E a \in AUDIENCES : setAudience(s, a)
  \/ addMember(s, v) \/ accept(s, v)
  \/ erase(share[s].owner)

\* While a story stays where it is, and its row as it is, losing members opens it to nobody.
LEMMA OpensNoMore ==
  ASSUME NEW s \in Story, NEW v,
         UNCHANGED state, share'[s] = share[s], v \in members'[s] => v \in members[s],
         opens(v, s)'
  PROVE  opens(v, s)
BY DEF opens, canView, live

\* A move of the desk on a story, other than publishing, opens it to nobody.
LEMMA DeskOpensNoMore ==
  ASSUME InStep, NEW s \in Story, NEW v, state[s] # "none", opens(v, s)',
         NEW x \in Story, (\E p \in Person \cup {Nobody} : create(x, p)) \/ publish(x) \/ unpublish(x) \/ retract(x),
         ~publish(s)
  PROVE  opens(v, s)
<1>1. ASSUME NEW p \in Person \cup {Nobody}, create(x, p) PROVE opens(v, s)
  <2>1. x # s /\ members' = members /\ share'[s] = share[s] /\ state'[s] = state[s]
    BY <1>1 DEF create, register, InStep
  <2> QED
    BY <2>1 DEF opens, canView, live
<1>2. CASE x # s /\ (publish(x) \/ unpublish(x))
  <2>1. members' = members /\ state'[s] = state[s]
    BY <1>2 DEF publish, unpublish, InStep
  <2>2. share'[s] = share[s]
    BY <1>2, SyncKeeps DEF publish, unpublish, AUDIENCES
  <2> QED
    BY <2>1, <2>2 DEF opens, canView, live
<1>3. CASE unpublish(s)
  <2>1. state'[s] = "unpublished"
    BY <1>3 DEF unpublish, InStep
  <2> QED
    BY <2>1 DEF opens, live
<1>4. CASE retract(x)
  <2>1. /\ UNCHANGED <<share, members>> /\ state[x] = "published"
        /\ state' = [state EXCEPT ![x] = "retracted"]
    BY <1>4 DEF retract
  <2>2. state'[s] = state[s] \/ (state[s] = "published" /\ state'[s] = "retracted")
    BY <2>1 DEF InStep
  <2> QED
    BY <2>1, <2>2 DEF opens, canView, live
<1> QED
  BY <1>1, <1>2, <1>3, <1>4

LEMMA SheetOpensNoMore ==
  ASSUME InStep, Sheet, NEW s \in Story, NEW v, opens(v, s)', ~OwnerOpened(s, v)
  PROVE  opens(v, s)
<1>1. ASSUME NEW x \in Story, NEW a \in AUDIENCES, setAudience(x, a) PROVE opens(v, s)
  <2>1. x # s
    BY <1>1 DEF OwnerOpened
  <2>2. UNCHANGED <<state, members>> /\ share'[s] = share[s]
    BY <1>1, <2>1 DEF setAudience, InStep
  <2> QED
    BY <2>2, OpensNoMore
<1>2. ASSUME NEW x \in Story, NEW p \in Person, addMember(x, p) PROVE opens(v, s)
  <2>1. x # s \/ p # v
    BY <1>2 DEF OwnerOpened
  <2>2. UNCHANGED <<state, share>> /\ (v \in members'[s] => v \in members[s])
    BY <1>2, <2>1 DEF addMember, InStep
  <2> QED
    BY <2>2, OpensNoMore
<1>3. ASSUME NEW x \in Story, NEW p \in Person, removeMember(x, p) PROVE opens(v, s)
  <2>1. UNCHANGED <<state, share>> /\ (v \in members'[s] => v \in members[s])
    BY <1>3 DEF removeMember, InStep
  <2> QED
    BY <2>1, OpensNoMore
<1>4. ASSUME NEW x \in Story, NEW p \in Person, requestAccess(x, p) \/ offer(x, p) PROVE opens(v, s)
  BY <1>4, FilingKeeps, OpensNoMore
<1>5. ASSUME NEW x \in Story, NEW p \in Person, accept(x, p) PROVE opens(v, s)
  <2>1. share[x] # NoShare /\ UNCHANGED state
    BY <1>5, AcceptHands
  <2>2. PICK row \in Row :
          /\ row # NoShare /\ row.owner = p /\ row.audience = share[x].audience
          /\ share' = [share EXCEPT ![x] = row]
    BY <1>5, AcceptHands
  <2>3. PICK kept \in {{}, {share[x].owner}} : members' = [members EXCEPT ![x] = @ \cup kept]
    BY <1>5, AcceptHands
  <2>4. CASE x # s
    <3>1. share'[s] = share[s] /\ members'[s] = members[s]
      BY <2>2, <2>3, <2>4 DEF InStep
    <3> QED
      BY <2>1, <3>1, OpensNoMore
  <2>5. CASE x = s
    <3>1. v # p
      BY <1>5, <2>5 DEF OwnerOpened
    <3>2. share'[s] = row /\ members'[s] = members[s] \cup kept
      BY <2>2, <2>3, <2>5 DEF InStep
    <3>3. CASE v = share[s].owner
      BY <2>1, <2>5, <3>3 DEF opens, canView, live
    <3>4. CASE v # share[s].owner
      <4>1. v \in members'[s] => v \in members[s]
        BY <2>5, <3>2, <3>4
      <4> QED
        BY <2>1, <2>2, <2>5, <3>1, <3>2, <4>1 DEF opens, canView, live
    <3> QED
      BY <3>3, <3>4
  <2> QED
    BY <2>4, <2>5
<1> QED
  BY <1>1, <1>2, <1>3, <1>4, <1>5 DEF Sheet

LEMMA PeopleOpenNoMore ==
  ASSUME InStep, People, NEW s \in Story, NEW v, opens(v, s)', ~OwnerOpened(s, v)
  PROVE  opens(v, s)
<1>1. ASSUME NEW p \in Person,
             saveDraft(p) \/ resolve(p) \/ remember(p) \/ resolveFails(p) \/ accountDeleted(p)
      PROVE  opens(v, s)
  <2>1. UNCHANGED rows
    BY <1>1 DEF saveDraft, resolve, remember, resolveFails, accountDeleted
  <2> QED
    BY <2>1, OpensNoMore DEF rows
<1>2. ASSUME NEW p \in Person, erase(p) PROVE opens(v, s)
  <2>1. s \notin owned(p)
    BY <1>2 DEF OwnerOpened, owned
  <2>2. share'[s] = share[s] /\ UNCHANGED state /\ members'[s] \subseteq members[s]
    BY <1>2, <2>1 DEF erase, shareErase
  <2> QED
    BY <2>2, OpensNoMore
<1> QED
  BY <1>1, <1>2 DEF People

LEMMA StepOpens ==
  ASSUME InStep, [Next]_vars, NEW s \in Story, NEW v, state[s] # "none", ~opens(v, s), opens(v, s)'
  PROVE  OwnerOpened(s, v)
<1> SUFFICES ASSUME ~OwnerOpened(s, v) PROVE FALSE
  OBVIOUS
<1>1. CASE Desk
  <2>1. ~publish(s)
    BY DEF OwnerOpened
  <2> QED
    BY <1>1, <2>1, DeskOpensNoMore DEF Desk
<1>2. CASE Sheet
  BY <1>2, SheetOpensNoMore
<1>3. CASE People
  BY <1>3, PeopleOpenNoMore
<1>4. CASE Card \/ UNCHANGED vars
  <2>1. UNCHANGED rows
    BY <1>4 DEF Card, load, loadReads, loadEnds, loadFails, Tick, Restart, vars
  <2> QED
    BY <2>1, OpensNoMore DEF rows
<1> QED
  BY <1>1, <1>2, <1>3, <1>4 DEF Next

\* A story opens to someone it was closed to only when it is published, when its owner opens it, or
\* when its owner's row goes with the account.
THEOREM OnlyOwnersOpenHolds == Spec => OnlyOwnersOpen
<1> DEFINE Opening ==
      \A s \in Story, v \in Present \cup {Anonymous} :
        (state[s] # "none" /\ ~opens(v, s) /\ opens(v, s)') =>
          \/ publish(s)
          \/ \E a \in AUDIENCES : setAudience(s, a)
          \/ addMember(s, v) \/ accept(s, v)
          \/ erase(share[s].owner)
<1>1. InStep /\ [Next]_vars => Opening
  BY StepOpens DEF OwnerOpened
<1> HIDE DEF Opening
<1>2. Spec => [][Opening]_vars
  BY <1>1, RowAndColumnInStep, PTL DEF Spec
<1> QED
  BY <1>2 DEF Opening, OnlyOwnersOpen
=============================================================================

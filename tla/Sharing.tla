------------------------------ MODULE Sharing -------------------------------
(***************************************************************************)
(* Who can read a story (server/sharing.js, server/http/public.js), the    *)
(* lists that carry it, the network menu's card (server/menu-card.js) and  *)
(* what an account deletion takes away (server/account-data.js).           *)
(*                                                                         *)
(* A story's page asks its share row; the lists, feeds and sitemaps read   *)
(* a column of the story, so the two must move together.  The rules of the *)
(* row itself (who may change it, who passes canView) are openvibe-sdk's   *)
(* and modelled from how News uses them.  The card is served from memory   *)
(* and loaded again, one load at a time, when it is old.                   *)
(*                                                                         *)
(* A page is one read.  The text, the gate and notifications are left out; *)
(* what publishing requires is in Stories.                                 *)
(***************************************************************************)
EXTENDS Integers, FiniteSets

CONSTANTS
  Story,
  Person,     \* people with an account
  Editor,     \* those who edit
  Anonymous,  \* a reader who is not signed in
  Nobody,     \* the owner of a story a service made
  Ttl         \* ticks a loaded card is served

ASSUME PeopleAssumption ==
  Editor \subseteq Person /\ {Anonymous, Nobody} \cap Person = {} /\ Anonymous # Nobody
ASSUME TtlAssumption == Ttl \in Nat \ {0}

VARIABLES
  state,     \* state[s]: of the story, "none" before it is made
  audience,  \* audience[s]: the column the lists read, "public" or "private"
  share,     \* share[s]: its share row
  members,   \* members[s]: people named on its sheet
  papers,    \* papers[s]: its access requests and transfers, each the people it names
  drafts,    \* people with private working rows
  profile,   \* people whose names are cached
  lookups,   \* people being asked for at Network
  left,      \* people whose account is deleted
  erasing,   \* deletions Events still delivers
  renamed,   \* history: people being asked for when they were erased
  card,      \* the card in memory
  loading,   \* the load in flight
  missing    \* history, missing[s]: ticks since the story was last in the lists, at most Ttl

rows == <<state, audience, share, members, papers>>
people == <<drafts, profile, lookups, left, erasing, renamed>>
menu == <<card, loading>>
vars == <<rows, people, menu, missing>>

-----------------------------------------------------------------------------

AUDIENCES == {"public", "link", "people", "private"}
States == {"none", "draft", "published", "retracted", "unpublished"}

\* Mutant: the sheet's word is stored as it is.
FROM_SDK_asIs(a) == a

FROM_SDK(a) == IF a \in {"public", "link"} THEN "public" ELSE "private"

NoShare == [audience |-> "none", owner |-> Nobody]
NoCard == [items |-> {}, age |-> Ttl, loaded |-> FALSE]
NoLoad == [items |-> {}, age |-> -1, read |-> FALSE]

live(s) == state[s] \in {"published", "retracted"}

\* The sheet's rule, of openvibe-sdk.
canView(v, s) ==
  \/ share[s].audience \in {"public", "link"}
  \/ share[s] # NoShare /\ v = share[s].owner
  \/ share[s].audience = "people" /\ v \in members[s]

\* GET /stories/:slug.  A live story without a row is from before sharing, and public.
opens(v, s) ==
  \/ v \in Editor /\ state[s] # "none"
  \/ state[s] = "draft" /\ canView(v, s)
  \/ live(s) /\ (share[s] = NoShare \/ canView(v, s))

\* listPublished and the sitemap's query.
listed(s) == live(s) /\ audience[s] = "public"

Present == Person \ left

-----------------------------------------------------------------------------
(* The desk *)

\* How long each story has been off the lists.
Lists == missing' = [s \in Story |-> IF listed(s)' THEN 0 ELSE missing[s]]

\* Mutant: the column is left to the caller.
syncAudience_rowOnly(s, next) ==
  /\ share' = IF share[s] = NoShare THEN share ELSE [share EXCEPT ![s].audience = next]
  /\ UNCHANGED audience

\* Row and column together; nothing without a row, or when it says so already.
syncAudience(s, next) ==
  IF share[s] = NoShare \/ share[s].audience = next THEN UNCHANGED <<share, audience>>
  ELSE /\ share' = [share EXCEPT ![s].audience = next]
       /\ audience' = [audience EXCEPT ![s] = FROM_SDK(next)]

register(s, p, a) == share' = [share EXCEPT ![s] = [audience |-> a, owner |-> p]]

\* By an editor, or by a service for nobody: Only me.
create(s, p) ==
  /\ state[s] = "none" /\ p \in (Editor \cap Present) \cup {Nobody}
  /\ state' = [state EXCEPT ![s] = "draft"]
  /\ register(s, p, "private")
  /\ UNCHANGED <<audience, members, papers, people, menu>>
  /\ Lists

\* Publishing makes it Everyone, every time; a request that read the story before it was retracted
\* publishes it too.
publish(s) ==
  /\ state[s] # "none"
  /\ state' = [state EXCEPT ![s] = "published"]
  /\ syncAudience(s, "public")
  /\ UNCHANGED <<members, papers, people, menu>>
  /\ Lists

unpublish(s) ==
  /\ live(s)
  /\ state' = [state EXCEPT ![s] = "unpublished"]
  /\ syncAudience(s, "private")
  /\ UNCHANGED <<members, papers, people, menu>>
  /\ Lists

\* Mutant: a retraction is for everyone to see.
retract_widens(s) ==
  /\ state[s] = "published"
  /\ state' = [state EXCEPT ![s] = "retracted"]
  /\ syncAudience(s, "public")
  /\ UNCHANGED <<members, papers, people, menu>>
  /\ Lists

retract(s) ==
  /\ state[s] = "published"
  /\ state' = [state EXCEPT ![s] = "retracted"]
  /\ UNCHANGED <<audience, share, members, papers, people, menu>>
  /\ Lists

-----------------------------------------------------------------------------
(* The sheet, of openvibe-sdk *)

owns(p, s) == p \in Present /\ share[s].owner = p

\* onAudienceChange, in the sheet's transaction.
setAudience(s, a) ==
  /\ \E p \in Person : owns(p, s)
  /\ share' = [share EXCEPT ![s].audience = a]
  /\ audience' = [audience EXCEPT ![s] = FROM_SDK(a)]
  /\ UNCHANGED <<state, members, papers, people, menu>>
  /\ Lists

addMember(s, p) ==
  /\ \E o \in Person \ {p} : owns(o, s)
  /\ p \in Present
  /\ members' = [members EXCEPT ![s] = @ \cup {p}]
  /\ UNCHANGED <<state, audience, share, papers, people, menu, missing>>

\* By the owner, or when it expires.
removeMember(s, p) ==
  /\ p \in members[s]
  /\ members' = [members EXCEPT ![s] = @ \ {p}]
  /\ UNCHANGED <<state, audience, share, papers, people, menu, missing>>

file(s, who) == papers' = [papers EXCEPT ![s] = @ \cup {who}]

\* By someone whom the page refuses.  Granted (addMember) or dismissed, the request stays on file.
requestAccess(s, p) ==
  /\ share[s] # NoShare /\ p \in Present /\ ~canView(p, s)
  /\ file(s, {p})
  /\ UNCHANGED <<state, audience, share, members, people, menu, missing>>

\* A transfer is offered, and stays on file whatever becomes of it.
offer(s, p) ==
  /\ p \in Present
  /\ \E o \in Person \ {p} : owns(o, s) /\ file(s, {o, p})
  /\ UNCHANGED <<state, audience, share, members, people, menu, missing>>

\* It is accepted; the owner who gives the story away may keep access.
accept(s, p) ==
  /\ p \in Present
  /\ \E o \in Person \ {p} :
       /\ owns(o, s) /\ {o, p} \in papers[s]
       /\ \E kept \in {{}, {o}} : members' = [members EXCEPT ![s] = @ \cup kept]
  /\ share' = [share EXCEPT ![s].owner = p]
  /\ UNCHANGED <<state, audience, papers, people, menu, missing>>

-----------------------------------------------------------------------------
(* People *)

saveDraft(p) ==
  /\ p \in Editor \cap Present
  /\ drafts' = drafts \cup {p}
  /\ UNCHANGED <<rows, profile, lookups, left, erasing, renamed, menu, missing>>

\* A byline is shown and its name is not cached, or the cache is old; Network knows no one who left.
resolve(p) ==
  /\ p \in Present
  /\ lookups' = lookups \cup {p}
  /\ UNCHANGED <<rows, drafts, profile, left, erasing, renamed, menu, missing>>

\* Network's answer is stored whenever it comes, though the page did not wait.
remember(p) ==
  /\ p \in lookups
  /\ lookups' = lookups \ {p}
  /\ profile' = profile \cup {p}
  /\ UNCHANGED <<rows, drafts, left, erasing, renamed, menu, missing>>

\* No answer, or the process restarts.
resolveFails(p) ==
  /\ p \in lookups
  /\ lookups' = lookups \ {p}
  /\ UNCHANGED <<rows, drafts, profile, left, erasing, renamed, menu, missing>>

accountDeleted(p) ==
  /\ p \in Present
  /\ left' = left \cup {p} /\ erasing' = erasing \cup {p}
  /\ UNCHANGED <<rows, drafts, profile, lookups, renamed, menu, missing>>

owned(p) == {s \in Story : share[s].owner = p}

\* Members, requests and transfers reference the row of their story: it cannot go while one of them is
\* of others only.
erasable(p) ==
  \A s \in owned(p) : members[s] \subseteq {p} /\ \A who \in papers[s] : p \in who

\* Mutant: the memberships stay.
shareErase_owned(p) ==
  /\ erasable(p)
  /\ share' = [s \in Story |-> IF s \in owned(p) THEN NoShare ELSE share[s]]
  /\ papers' = [s \in Story |-> {who \in papers[s] : p \notin who}]
  /\ UNCHANGED members

shareErase(p) ==
  /\ erasable(p)
  /\ members' = [s \in Story |-> members[s] \ {p}]
  /\ papers' = [s \in Story |-> {who \in papers[s] : p \notin who}]
  /\ share' = [s \in Story |-> IF s \in owned(p) THEN NoShare ELSE share[s]]

\* The delivery of the deletion; when it fails nothing is erased and Events delivers it again.
erase(p) ==
  /\ p \in erasing
  /\ shareErase(p)
  /\ drafts' = drafts \ {p} /\ profile' = profile \ {p}
  /\ erasing' = erasing \ {p}
  /\ renamed' = IF p \in lookups THEN renamed \cup {p} ELSE renamed
  /\ UNCHANGED <<state, audience, lookups, left, menu>>
  /\ Lists

-----------------------------------------------------------------------------
(* The menu's card *)

\* A request finds no card, or an old one, and no load under way.
load ==
  /\ loading = NoLoad /\ (~card.loaded \/ card.age >= Ttl)
  /\ loading' = [items |-> {}, age |-> 0, read |-> FALSE]
  /\ UNCHANGED <<rows, people, card, missing>>

\* cardFrom: what is listed and not retracted.
loadReads ==
  /\ loading # NoLoad /\ ~loading.read
  /\ loading' = [loading EXCEPT !.items = {s \in Story : listed(s) /\ state[s] # "retracted"},
                                !.read = TRUE]
  /\ UNCHANGED <<rows, people, card, missing>>

\* Mutant: its age counts from the end of the load.
loadEnds_now ==
  /\ loading # NoLoad /\ loading.read
  /\ card' = [items |-> loading.items, age |-> 0, loaded |-> TRUE]
  /\ loading' = NoLoad
  /\ UNCHANGED <<rows, people, missing>>

\* The card's age counts from the start of the load.
loadEnds ==
  /\ loading # NoLoad /\ loading.read
  /\ card' = [items |-> loading.items, age |-> loading.age, loaded |-> TRUE]
  /\ loading' = NoLoad
  /\ UNCHANGED <<rows, people, missing>>

\* The last good card is kept; without one, an empty card.
loadFails ==
  /\ loading # NoLoad
  /\ card' = IF card.loaded THEN card ELSE [items |-> {}, age |-> loading.age, loaded |-> TRUE]
  /\ loading' = NoLoad
  /\ UNCHANGED <<rows, people, missing>>

Older(n) == IF n < Ttl THEN n + 1 ELSE Ttl

Tick ==
  /\ card' = [card EXCEPT !.age = Older(@)]
  /\ loading' = IF loading = NoLoad THEN NoLoad ELSE [loading EXCEPT !.age = Older(@)]
  /\ missing' = [s \in Story |-> IF listed(s) THEN 0 ELSE Older(missing[s])]
  /\ UNCHANGED <<rows, people>>

\* The process restarts.
Restart ==
  /\ card' = NoCard /\ loading' = NoLoad /\ lookups' = {}
  /\ UNCHANGED <<rows, drafts, profile, left, erasing, renamed, missing>>

-----------------------------------------------------------------------------

\* Migration 8 gives every story a row, so no story starts without one.
Init ==
  /\ state = [s \in Story |-> "none"]
  /\ audience = [s \in Story |-> "private"]
  /\ share = [s \in Story |-> NoShare]
  /\ members = [s \in Story |-> {}] /\ papers = [s \in Story |-> {}]
  /\ drafts = {} /\ profile = {} /\ lookups = {} /\ left = {} /\ erasing = {} /\ renamed = {}
  /\ card = NoCard /\ loading = NoLoad
  /\ missing = [s \in Story |-> Ttl]

Desk ==
  \E s \in Story :
    \/ \E p \in Person \cup {Nobody} : create(s, p)
    \/ publish(s) \/ unpublish(s) \/ retract(s)

Sheet ==
  \E s \in Story :
    \/ \E a \in AUDIENCES : setAudience(s, a)
    \/ \E p \in Person : addMember(s, p) \/ removeMember(s, p)
    \/ \E p \in Person : requestAccess(s, p) \/ offer(s, p) \/ accept(s, p)

People ==
  \E p \in Person :
    saveDraft(p) \/ resolve(p) \/ remember(p) \/ resolveFails(p) \/ accountDeleted(p) \/ erase(p)

Card == load \/ loadReads \/ loadEnds \/ loadFails \/ Tick \/ Restart

Next == Desk \/ Sheet \/ People \/ Card

Spec == Init /\ [][Next]_vars

\* Events delivers a deletion until it is answered.
Fairness == \A p \in Person : SF_vars(erase(p))

FairSpec == Spec /\ Fairness

-----------------------------------------------------------------------------
(* Properties *)

Row == [audience : AUDIENCES, owner : Person \cup {Nobody}]

\* Type invariant: a story has a row from its making until its owner is erased, and only those who
\* left are being erased.
TypeOK ==
  /\ state \in [Story -> States]
  /\ audience \in [Story -> {"public", "private"}]
  /\ share \in [Story -> Row \cup {NoShare}]
  /\ members \in [Story -> SUBSET Person] /\ papers \in [Story -> SUBSET SUBSET Person]
  /\ drafts \subseteq Person /\ profile \subseteq Person /\ lookups \subseteq Person
  /\ left \subseteq Person /\ erasing \subseteq left /\ renamed \subseteq left
  /\ card.items \subseteq Story /\ card.age \in 0..Ttl
  /\ loading = NoLoad \/ (loading.items \subseteq Story /\ loading.age \in 0..Ttl)
  /\ missing \in [Story -> 0..Ttl]

\* The lists agree with the pages: of the live stories with a row, those in lists, feeds and sitemaps
\* are exactly those anyone can open, whatever its owners and the desk did to it in turn; and no list
\* ever leads to a page that refuses.
ListsAgreeWithPages ==
  \A s \in Story :
    /\ listed(s) => opens(Anonymous, s)
    /\ live(s) /\ opens(Anonymous, s) /\ share[s] # NoShare => listed(s)

\* A story opens to someone it was closed to only when it is published, when its owner opens it, or
\* when its owner's row goes with the account; no other move of the desk widens it.
OnlyOwnersOpen ==
  [][\A s \in Story, v \in Present \cup {Anonymous} :
       (state[s] # "none" /\ ~opens(v, s) /\ opens(v, s)') =>
         \/ publish(s)
         \/ \E a \in AUDIENCES : setAudience(s, a)
         \/ addMember(s, v) \/ accept(s, v)
         \/ erase(share[s].owner)]_vars

\* The card is never more than its lifetime behind: what it serves was in the lists within Ttl ticks,
\* however long a load took and whatever was taken down while it ran.
CardIsRecent == card.age < Ttl => \A s \in card.items : missing[s] < Ttl

\* Whoever is erased is on no row any more, and stays off them; a name comes back only if it was being
\* asked for at Network then.
ErasedHoldNothing ==
  \A p \in left \ erasing :
    /\ p \notin drafts /\ owned(p) = {}
    /\ \A s \in Story : p \notin members[s] /\ \A who \in papers[s] : p \notin who
    /\ p \in profile => p \in renamed

\* account-data.js:5: "A person's private working rows go": every deletion is applied in the end.
DeletionsApply == \A p \in Person : (p \in erasing) ~> (p \notin erasing)
=============================================================================

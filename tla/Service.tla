------------------------------ MODULE Service ------------------------------
(***************************************************************************)
(* What stands between a request and the work it asks for, and the process  *)
(* it runs in: who is calling (server/auth/viewer.js), what a caller may do *)
(* (auth/capabilities.js, domain/access.js), how often (http/actor-limits.js*)
(* and the hourly count of http/public.js), the routes of http/api.js and   *)
(* http/editor.js that put these in order, and a process that stops while   *)
(* requests are under way (index.js).                                       *)
(* What the handlers do to stories, clusters and briefs is the business of  *)
(* the other modules: here a handler's work is one step, by someone.        *)
(***************************************************************************)
EXTENDS Naturals

CONSTANTS
    Person,      \* subjects (usr_...)
    Editors,     \* those of NEWS_EDITORS
    Staff,       \* those whose own token carries staff.editorial.manage
    Svc,         \* first-party principals (svc:...); AI is OpenVibe.AI
    AI,
    App,         \* developer apps and modules (app:..., mod:...)
    OnBehalfOf,  \* the person each app's token names, or Nobody
    Caps,        \* the capabilities each principal's token holds
    Credential,  \* what callers present: a person's token, a principal's, or Nobody
    Served,      \* the routes callers ask for
    Nobody,
    MinuteLimit, \* requests a caller may make of each budget in a minute
    HourLimit,   \* and in an hour
    Minutes,     \* minutes in an hour
    RunsAnHour,  \* brief runs readers may ask for in an hour
    Slot         \* requests under way at once

ASSUME ServiceAssumption ==
    /\ Editors \subseteq Person /\ Staff \subseteq Person
    /\ AI \in Svc /\ Nobody \notin Person \cup Svc \cup App
    /\ Person \cap (Svc \cup App) = {} /\ Svc \cap App = {}
    /\ OnBehalfOf \in [App -> Person \cup {Nobody}]
    /\ Credential \subseteq Person \cup Svc \cup App \cup {Nobody}
    /\ Minutes \in Nat \ {0} /\ RunsAnHour \in Nat \ {0}

VARIABLES
    phase,   \* "up", "draining", "closing" or "down"
    open,    \* the request admitted to each slot, its handler still to work
    count,   \* the limiter's counters, by caller, budget and window
    minute,  \* minutes into the hour
    runs,    \* public.js runs: how many this hour, and its age in minutes
    last,    \* history: the work this step did, or NoWork
    mine,    \* history: requests a person's own rights let through, like count
    asked    \* history, asked[k]: brief runs started at most k minutes ago

vars == <<phase, open, count, minute, runs, last, mine, asked>>

NoWork == [route |-> Nobody]
Free == NoWork
Window == {"minute", "hour"}

(***************************************************************************)
(* The routes that write: the capability a service token must hold, and the *)
(* budget. Where the desk has a form for a route, the two share the budget. *)
(***************************************************************************)
Annotations == {"flags", "perspectives", "assign", "timeline"}
ClusterEdits == {"merge", "split", "reverse"}

Api == {"topics", "stories", "revisions", "ai-drafts", "publish", "unpublish", "retract",
        "reviews", "sources"} \cup Annotations \cup ClusterEdits
Desk == Api \cup {"pull"}
Page == {"comments"}

capability(route) ==
  CASE route = "topics" -> "news.topic.manage"
    [] route = "stories" -> "news.story.create"
    [] route \in {"revisions", "ai-drafts", "flags"} -> "news.story.revise"
    [] route \in {"publish", "unpublish"} -> "news.story.publish"
    [] route = "retract" -> "news.story.retract"
    [] route = "reviews" -> "news.review.ai_editor"
    [] route = "sources" -> "news.source.attach"
    [] route \in {"perspectives", "assign"} -> "news.perspective.update"
    [] route = "timeline" -> "news.timeline.update"
    [] route \in ClusterEdits -> "news.cluster.manage"

budget(route) ==
  CASE route = "ai-drafts" -> "news.story.ai_draft"
    [] route \in {"publish", "unpublish", "retract", "reviews"} -> "news.story.publish"
    [] route \in Annotations -> "news.story.annotate"
    [] route = "pull" -> "news.ingest.pull"
    [] route = "comments" -> "news.discussion.comment"
    [] OTHER -> capability(route)

Budget == {budget(route) : route \in Served}

ASSUME LimitsAssumption == MinuteLimit \in [Budget -> Nat] /\ HourLimit \in [Budget -> Nat]

-----------------------------------------------------------------------------
(* Who is calling. *)

Anonymous == [kind |-> "anonymous", service |-> Nobody, subject |-> Nobody, origin |-> "user"]

\* What a request asks: its token, X-OV-Subject and X-OV-Origin (read with a
\* service token only) and the route.
Request ==
  {r \in [cred: Credential, subject: Person \cup {Nobody}, origin: {"user", "ai"}, route: Served] :
     r.cred \notin Svc \cup App => r.subject = Nobody /\ r.origin = "user"}

\* Mutant: any principal may name the person it acts for.
fromServiceToken_anyone(r) ==
  IF r.origin = "ai" /\ r.cred # AI
  THEN {}
  ELSE {[kind |-> "service", service |-> r.cred, origin |-> r.origin,
         subject |-> IF r.subject # Nobody \/ r.cred \in Svc THEN r.subject ELSE OnBehalfOf[r.cred]]}

\* Only OpenVibe.AI delivers AI output; an app acts only for its own person. {}: refused.
fromServiceToken(r) ==
  IF (r.origin = "ai" /\ r.cred # AI) \/ (r.cred \in App /\ r.subject \notin {Nobody, OnBehalfOf[r.cred]})
  THEN {}
  ELSE {[kind |-> "service", service |-> r.cred, origin |-> r.origin,
         subject |-> IF r.cred \in Svc THEN r.subject ELSE OnBehalfOf[r.cred]]}

fromUserToken(p) == [kind |-> "user", service |-> Nobody, subject |-> p, origin |-> "user"]

\* services = FALSE on pages: a service token is no identity there.
resolve(r, services) ==
  CASE r.cred \in Person -> {fromUserToken(r.cred)}
    [] r.cred \in Svc \cup App /\ services -> fromServiceToken(r)
    [] OTHER -> {Anonymous}

-----------------------------------------------------------------------------
(* What a caller may do. *)

\* Mutant: a service naming an editor is that editor, whatever it delivers.
isEditor_whateverOrigin(v) ==
  /\ v.subject # Nobody
  /\ \/ v.subject \in Editors
     \/ v.kind = "user" /\ v.subject \in Staff

isEditor(v) ==
  /\ v.subject # Nobody
  /\ \/ v.kind = "user" /\ v.subject \in Staff \cup Editors
     \/ v.kind = "service" /\ v.origin # "ai" /\ v.subject \in Editors

isAiDelivery(v) == v.kind = "service" /\ v.origin = "ai"

checkCapability(v, cap) == cap \in Caps[v.service]

isAiEditor(v) ==
  /\ v.kind = "service" /\ v.subject = Nobody /\ v.service \in Svc
  /\ checkCapability(v, "news.review.ai_editor")

\* A service token holds the route's capability; a review asks it only of a service as itself.
guard(v, route) ==
  v.kind = "service" /\ (route = "reviews" => v.subject = Nobody)
    => checkCapability(v, capability(route))

\* The handler's own check.
mayWork(v, route) ==
  CASE route = "comments" -> v.kind = "user"
    [] route = "revisions" -> isAiDelivery(v) \/ isEditor(v)
    [] route = "reviews" -> isAiEditor(v) \/ (v.kind = "user" /\ isEditor(v))
    [] OTHER -> isEditor(v)

\* Whose name is put on what the handler writes: authorLabel, the reviewer, or
\* the AI that aiDraft asks for the text.
signedBy(v, route) ==
  IF route = "ai-drafts" THEN AI
  ELSE IF (route = "revisions" /\ isAiDelivery(v)) \/ (route = "reviews" /\ isAiEditor(v)) THEN v.service
  ELSE v.subject

-----------------------------------------------------------------------------
(* How often. *)

\* Mutant: a service counts as itself, whomever it acts for.
actor_principal(v) == IF v.kind = "service" THEN v.service ELSE v.subject

\* An anonymous caller counts under an address: Nobody.
actor(v) == IF v.subject # Nobody THEN v.subject ELSE v.service

Actor == Person \cup Svc \cup App \cup {Nobody}

Limit(b) == [minute |-> MinuteLimit[b], hour |-> HourLimit[b]]

withinBudget(a, b) == \A w \in Window : count[a][b][w] < Limit(b)[w]

None == [minute |-> 0, hour |-> 0]
OneMore(c) == [w \in Window |-> c[w] + 1]
Reset(c, over) == [w \in Window |-> IF w \in over THEN 0 ELSE c[w]]

-----------------------------------------------------------------------------

\* The counters of a new process.
Fresh(c, n, m, k) ==
  /\ c = [a \in Actor |-> [b \in Budget |-> None]]
  /\ n = [hour |-> 0, age |-> Minutes + 1]
  /\ m = [p \in Person |-> [b \in Budget |-> None]]
  /\ k = [i \in 0..Minutes |-> 0]

Init ==
  /\ phase = "up" /\ minute \in 0 .. Minutes - 1
  /\ open = [s \in Slot |-> Free] /\ last = NoWork
  /\ Fresh(count, runs, mine, asked)

\* A caller past the guard takes one of its budget and waits for its handler.
Take(s, v, r) ==
  LET b == budget(r.route) IN
  /\ phase = "up" /\ open[s] = Free
  /\ withinBudget(actor(v), b)
  /\ count' = [count EXCEPT ![actor(v)][b] = OneMore(@)]
  /\ open' = [open EXCEPT ![s] = [route |-> r.route, viewer |-> v, cred |-> r.cred]]
  /\ mine' = IF mayWork(v, r.route) /\ v.subject \in Person /\ ~isAiDelivery(v)
             THEN [mine EXCEPT ![v.subject][b] = OneMore(@)] ELSE mine
  /\ last' = NoWork
  /\ UNCHANGED <<phase, minute, runs, asked>>

\* POST, PUT or DELETE under /api/v1: viewer, capability, budget, then the body.
AskApi(s, r) ==
  /\ r.route \in Api
  /\ \E v \in resolve(r, TRUE) : guard(v, r.route) /\ Take(s, v, r)

\* A desk form: an editor's, then its token, then the budget.
AskDesk(s, r) ==
  /\ r.route \in Desk
  /\ \E v \in resolve(r, FALSE) : v.kind = "user" /\ isEditor(v) /\ Take(s, v, r)

\* The comment form counts a signed-in person only: another is sent to sign in.
AskPage(s, r) ==
  /\ r.route \in Page
  /\ \E v \in resolve(r, FALSE) : v.kind = "user" /\ Take(s, v, r)

\* The handler does what was asked, in somebody's name.
Work(s) ==
  LET q == open[s] IN
  /\ phase # "down" /\ q # Free /\ mayWork(q.viewer, q.route)
  /\ open' = [open EXCEPT ![s] = Free]
  /\ last' = [route |-> q.route, cred |-> q.cred, origin |-> q.viewer.origin,
              by |-> signedBy(q.viewer, q.route)]
  /\ UNCHANGED <<phase, count, minute, runs, mine, asked>>

\* It answers a problem: not an editor, no such story, a stale base, a bad body.
Refuse(s) ==
  /\ phase # "down" /\ open[s] # Free
  /\ open' = [open EXCEPT ![s] = Free] /\ last' = NoWork
  /\ UNCHANGED <<phase, count, minute, runs, mine, asked>>

-----------------------------------------------------------------------------
(* A reader asks for a brief: a few dozen an hour in all. *)

\* Mutant: the hour is over, and stays over.
runsNow_noStart == IF runs.age > Minutes THEN [runs EXCEPT !.hour = 0] ELSE runs

\* Mutant: a new hour starts with the count of the last.
runsNow_keepsCount == IF runs.age > Minutes THEN [runs EXCEPT !.age = 0] ELSE runs

runsNow == IF runs.age > Minutes THEN [hour |-> 0, age |-> 0] ELSE runs

AskBrief ==
  /\ phase = "up" /\ runsNow.hour < RunsAnHour
  /\ runs' = [runsNow EXCEPT !.hour = @ + 1]
  /\ asked' = [k \in 0..Minutes |-> asked[k] + 1]
  /\ last' = NoWork
  /\ UNCHANGED <<phase, open, count, minute, mine>>

\* Windows are aligned to the clock; the hour of runs is not.
Minute ==
  LET over == IF minute + 1 = Minutes THEN Window ELSE {"minute"} IN
  /\ phase # "down"
  /\ minute' = (minute + 1) % Minutes
  /\ count' = [a \in Actor |-> [b \in Budget |-> Reset(count[a][b], over)]]
  /\ mine' = [p \in Person |-> [b \in Budget |-> Reset(mine[p][b], over)]]
  /\ runs' = [runs EXCEPT !.age = IF @ > Minutes THEN @ ELSE @ + 1]
  /\ asked' = [k \in 0..Minutes |-> IF k = 0 THEN 0 ELSE asked[k - 1]]
  /\ last' = NoWork
  /\ UNCHANGED <<phase, open>>

-----------------------------------------------------------------------------
(* The stop. *)

\* SIGTERM: the server takes no more, so that the counters, which the process
\* takes with it, are read no more either.
Stop ==
  /\ phase = "up" /\ phase' = "draining"
  /\ Fresh(count', runs', mine', asked') /\ last' = NoWork
  /\ UNCHANGED <<open, minute>>

\* The requests are answered, or 4 seconds are over.
Drained ==
  /\ phase = "draining" /\ phase' = "closing"
  /\ last' = NoWork
  /\ UNCHANGED <<open, count, minute, runs, mine, asked>>

\* The subscriptions, the outbox and the telemetry stop, the store closes, and
\* the process exits; or 5 seconds are over and it exits.
Close ==
  /\ phase = "closing" /\ phase' = "down"
  /\ open' = [s \in Slot |-> Free] /\ last' = NoWork
  /\ UNCHANGED <<count, minute, runs, mine, asked>>

Boot ==
  /\ phase = "down" /\ phase' = "up"
  /\ UNCHANGED <<open, count, minute, runs, last, mine, asked>>

Next ==
  \/ \E s \in Slot, r \in Request : AskApi(s, r) \/ AskDesk(s, r) \/ AskPage(s, r)
  \/ \E s \in Slot : Work(s) \/ Refuse(s)
  \/ AskBrief \/ Minute
  \/ Stop \/ Drained \/ Close \/ Boot

Spec == Init /\ [][Next]_vars

-----------------------------------------------------------------------------

\* Every variable keeps its type, and an open request is one its route let in.
TypeOK ==
  /\ phase \in {"up", "draining", "closing", "down"}
  /\ \A s \in Slot : open[s] # Free =>
       /\ phase # "down"
       /\ open[s].viewer.kind = "user" => open[s].viewer.subject = open[s].cred
       /\ open[s].viewer.kind = "service" => open[s].route \in Api
  /\ count \in [Actor -> [Budget -> [Window -> Nat]]]
  /\ mine \in [Person -> [Budget -> [Window -> Nat]]]
  /\ minute \in 0 .. Minutes - 1
  /\ runs \in [hour: 0..RunsAnHour, age: 0 .. Minutes + 1]
  /\ asked \in [0..Minutes -> Nat]

\* Work w in a person's name was asked with that person's own token, by a
\* first-party service granted the route, or by the app that person authorized,
\* and, a comment apart, that person is an editor.  What no person signs is
\* signed by the service that asked, and AI output by OpenVibe.AI.
Rightful(w) ==
  /\ w.by \in Person =>
       /\ \/ w.by = w.cred
          \/ /\ w.cred \in Svc \cup App /\ w.route \in Api
             /\ w.cred \in App => w.by = OnBehalfOf[w.cred]
             /\ capability(w.route) \in Caps[w.cred]
       /\ w.route \notin Page => w.by \in Editors \cup Staff
  /\ w.by \notin Person /\ w.route # "ai-drafts" =>
       /\ w.by = w.cred /\ w.by \in Svc
       /\ w.route \in {"revisions", "reviews"} /\ capability(w.route) \in Caps[w.cred]
  /\ w.origin = "ai" => w.by = AI

\* Nothing is ever written in a name its credential may not use, whichever of
\* token, subject and origin headers, route and process came together
\* (viewer.js, access.js, capabilities.js).
RightfulWork == last # NoWork => Rightful(last)

\* However many tabs, services and apps act for one person, through the API and
\* the desk together, a minute and an hour let through no more of that person's
\* requests than the budget (actor-limits.js).
PaceHeld ==
  \A p \in Person, b \in Budget, w \in Window : mine[p][b][w] <= Limit(b)[w]

\* No hour of one process, wherever it starts and both its ends counted, sees as many brief runs as
\* two hours of the counter allow: when two of them fall in it, the run that started the first does
\* not (public.js runs).
BriefRunsHeld == asked[Minutes] < 2 * RunsAnHour

\* A reader is turned away only when as many runs as an hour allows were started in the hour that
\* ends now: the counter holds nothing against readers from before (public.js runs).
ReadersServed == runsNow.hour >= RunsAnHour => asked[Minutes] >= RunsAnHour
=============================================================================

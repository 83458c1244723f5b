--------------------------- MODULE ServiceProofs ----------------------------
(***************************************************************************)
(* Proofs about Service, for every set of people, services, apps and       *)
(* routes and every limit.  The handler works in a step of its own, so     *)
(* RightfulWork needs to know what the door let in (AtTheDoor).  PaceHeld  *)
(* needs to know that the limiter counts at least what it must hold        *)
(* (Counted), and BriefRunsHeld and ReadersServed which runs of the last    *)
(* minutes are the present hour's (RunsInHours).                           *)
(***************************************************************************)
EXTENDS Service, TLAPS

Viewer ==
  [kind : {"anonymous", "user", "service"}, service : Svc \cup App \cup {Nobody},
   subject : Person \cup {Nobody}, origin : {"user", "ai"}]

\* Viewer v may come of credential cred.
Of(v, cred) ==
  /\ v.kind = "anonymous" => v = Anonymous
  /\ v.kind = "user" => cred \in Person /\ v.subject = cred /\ v.origin = "user"
  /\ v.kind = "service" =>
       /\ cred \in Svc \cup App /\ v.service = cred
       /\ cred \in App => v.subject = OnBehalfOf[cred]
       /\ v.origin = "ai" => cred = AI

Admitted ==
  {q \in [route : Served, viewer : Viewer, cred : Credential] :
     /\ Of(q.viewer, q.cred)
     /\ q.viewer.kind = "service" => q.route \in Api /\ guard(q.viewer, q.route)}

\* What waits for its handler came in by the door.
AtTheDoor == open \in [Slot -> Admitted \cup {Free}]

Counts == [Budget -> [Window -> Nat]]

\* A person's own requests are counted under that person.
Counted ==
  /\ count \in [Actor -> Counts] /\ mine \in [Person -> Counts]
  /\ \A a \in Actor, b \in Budget, w \in Window : count[a][b][w] <= Limit(b)[w]
  /\ \A p \in Person, b \in Budget, w \in Window : mine[p][b][w] <= count[p][b][w]

-----------------------------------------------------------------------------
(* The door *)

\* Who a request comes from.
LEMMA ViewerOf ==
  ASSUME NEW r \in Request, NEW services \in BOOLEAN, NEW v \in resolve(r, services)
  PROVE  v \in Viewer /\ Of(v, r.cred)
<1> USE ServiceAssumption
<1>1. r.cred \in Credential /\ r.subject \in Person \cup {Nobody} /\ r.origin \in {"user", "ai"}
  BY DEF Request
<1>2. CASE r.cred \in Person
  <2>1. v = fromUserToken(r.cred)
    BY <1>2 DEF resolve
  <2> QED
    BY <1>2, <2>1 DEF fromUserToken, Viewer, Of
<1>3. CASE r.cred \in Svc \cup App /\ services
  <2>1. r.cred \notin Person
    BY <1>3
  <2>2. v \in fromServiceToken(r)
    BY <1>3, <2>1 DEF resolve
  <2>3. /\ ~(r.origin = "ai" /\ r.cred # AI)
        /\ v = [kind |-> "service", service |-> r.cred, origin |-> r.origin,
                subject |-> IF r.cred \in Svc THEN r.subject ELSE OnBehalfOf[r.cred]]
    BY <2>2 DEF fromServiceToken
  <2>4. r.cred \in App => OnBehalfOf[r.cred] \in Person \cup {Nobody} /\ r.cred \notin Svc
    OBVIOUS
  <2> QED
    BY <1>1, <1>3, <2>3, <2>4 DEF Viewer, Of
<1>4. CASE r.cred \notin Person /\ ~(r.cred \in Svc \cup App /\ services)
  <2>1. v = Anonymous
    BY <1>4 DEF resolve
  <2> QED
    BY <2>1 DEF Anonymous, Viewer, Of
<1> QED
  BY <1>2, <1>3, <1>4

\* A caller counts under a name the limiter knows, a person under that person's.
LEMMA ActorOf ==
  ASSUME NEW v \in Viewer
  PROVE  /\ actor(v) \in Actor
         /\ v.subject \in Person => actor(v) = v.subject
BY ServiceAssumption DEF Viewer, actor, Actor

\* Whoever asks by API, desk or page takes a slot, admitted.
LEMMA TakerAdmitted ==
  ASSUME NEW s \in Slot, NEW r \in Request, AskApi(s, r) \/ AskDesk(s, r) \/ AskPage(s, r)
  PROVE  \E v \in Viewer :
           Take(s, v, r) /\ [route |-> r.route, viewer |-> v, cred |-> r.cred] \in Admitted
<1>0. r.route \in Served /\ r.cred \in Credential
  BY DEF Request
<1>1. CASE AskApi(s, r)
  <2>1. PICK v \in resolve(r, TRUE) : r.route \in Api /\ guard(v, r.route) /\ Take(s, v, r)
    BY <1>1 DEF AskApi
  <2>2. v \in Viewer /\ Of(v, r.cred)
    BY ViewerOf
  <2> QED
    BY <1>0, <2>1, <2>2 DEF Admitted
<1>2. CASE AskDesk(s, r) \/ AskPage(s, r)
  <2>1. PICK v \in resolve(r, FALSE) : v.kind = "user" /\ Take(s, v, r)
    BY <1>2 DEF AskDesk, AskPage
  <2>2. v \in Viewer /\ Of(v, r.cred)
    BY ViewerOf
  <2> QED
    BY <1>0, <2>1, <2>2 DEF Admitted
<1> QED
  BY <1>1, <1>2

-----------------------------------------------------------------------------
(* RightfulWork *)

\* What a handler does with an admitted request is rightful.
LEMMA SignedRightfully ==
  ASSUME NEW q \in Admitted, mayWork(q.viewer, q.route)
  PROVE  Rightful([route |-> q.route, cred |-> q.cred, origin |-> q.viewer.origin,
                   by |-> signedBy(q.viewer, q.route)])
<1> DEFINE v == q.viewer
           route == q.route
           cred == q.cred
           by == signedBy(v, route)
<1> USE ServiceAssumption
<1>1. v \in Viewer /\ Of(v, cred) /\ (v.kind = "service" => route \in Api /\ guard(v, route))
  BY DEF Admitted
<1>2. CASE v.kind = "anonymous"
  <2>1. v = Anonymous
    BY <1>1, <1>2 DEF Of
  <2> QED
    BY <2>1 DEF Anonymous, mayWork, isAiDelivery, isEditor, isAiEditor
<1>3. CASE v.kind = "user"
  <2>1. cred \in Person /\ v.subject = cred /\ v.origin = "user"
    BY <1>1, <1>3 DEF Of
  <2>2. ~isAiDelivery(v) /\ ~isAiEditor(v)
    BY <1>3 DEF isAiDelivery, isAiEditor
  <2>3. by = IF route = "ai-drafts" THEN AI ELSE cred
    BY <2>1, <2>2 DEF signedBy
  <2>4. route # "comments" => cred \in Editors \cup Staff
    BY <1>3, <2>1, <2>2 DEF mayWork, isEditor
  <2> HIDE DEF v, route, cred, by
  <2>5. Rightful([route |-> route, cred |-> cred, origin |-> v.origin, by |-> by])
    BY <2>1, <2>3, <2>4 DEF Rightful, Page
  <2> QED
    BY <2>5 DEF v, route, cred, by
<1>4. CASE v.kind = "service"
  <2>1. /\ cred \in Svc \cup App /\ v.service = cred /\ cred \notin Person
        /\ cred \in App => v.subject = OnBehalfOf[cred]
        /\ v.origin = "ai" => cred = AI
        /\ route \in Api
    BY <1>1, <1>4 DEF Of
  <2>2. route # "reviews" => capability(route) \in Caps[cred]
    BY <1>1, <1>4, <2>1 DEF guard, checkCapability
  <2>3. route # "comments"
    BY <2>1 DEF Api, Annotations, ClusterEdits
  <2>4. isAiEditor(v) => cred \in Svc /\ "news.review.ai_editor" \in Caps[cred]
    BY <2>1 DEF isAiEditor, checkCapability
  <2>5. isEditor(v) => v.subject \in Editors /\ v.subject \in Person /\ v.origin # "ai"
    BY <1>4 DEF isEditor
  <2>6. capability("reviews") = "news.review.ai_editor"
    BY DEF capability, ClusterEdits
  <2>7. \/ route = "revisions" /\ v.origin = "ai"
        \/ route = "reviews" /\ isAiEditor(v)
        \/ route # "reviews" /\ isEditor(v)
    BY <1>4, <2>3 DEF mayWork, isAiDelivery
  <2>8. CASE (route = "revisions" /\ v.origin = "ai") \/ (route = "reviews" /\ isAiEditor(v))
    <3>1. by = cred /\ cred \in Svc /\ capability(route) \in Caps[cred]
      BY <1>4, <2>1, <2>2, <2>4, <2>6, <2>8 DEF signedBy, isAiDelivery
    <3> HIDE DEF v, route, cred, by
    <3>2. Rightful([route |-> route, cred |-> cred, origin |-> v.origin, by |-> by])
      BY <2>1, <2>8, <3>1 DEF Rightful
    <3> QED
      BY <3>2 DEF v, route, cred, by
  <2>9. CASE route # "reviews" /\ isEditor(v)
    <3>1. by = IF route = "ai-drafts" THEN AI ELSE v.subject
      BY <2>5, <2>9 DEF signedBy, isAiDelivery
    <3>2. AI \notin Person
      OBVIOUS
    <3> HIDE DEF v, route, cred, by
    <3>3. Rightful([route |-> route, cred |-> cred, origin |-> v.origin, by |-> by])
      BY <2>1, <2>2, <2>5, <2>9, <3>1, <3>2 DEF Rightful
    <3> QED
      BY <3>3 DEF v, route, cred, by
  <2> QED
    BY <2>7, <2>8, <2>9
<1> QED
  BY <1>1, <1>2, <1>3, <1>4 DEF Viewer

\* Every step keeps to the door, and the work it does is rightful.
LEMMA NextRightful ==
  AtTheDoor /\ RightfulWork /\ [Next]_vars => AtTheDoor' /\ RightfulWork'
<1> SUFFICES ASSUME AtTheDoor, RightfulWork, [Next]_vars PROVE AtTheDoor' /\ RightfulWork'
  OBVIOUS
<1>1. ASSUME NEW s \in Slot, NEW r \in Request, AskApi(s, r) \/ AskDesk(s, r) \/ AskPage(s, r)
      PROVE AtTheDoor' /\ RightfulWork'
  <2>1. PICK v \in Viewer :
          Take(s, v, r) /\ [route |-> r.route, viewer |-> v, cred |-> r.cred] \in Admitted
    BY <1>1, TakerAdmitted
  <2> DEFINE q == [route |-> r.route, viewer |-> v, cred |-> r.cred]
  <2>2. q \in Admitted /\ open' = [open EXCEPT ![s] = q] /\ last' = NoWork
    BY <2>1 DEF Take
  <2> HIDE DEF q
  <2> QED
    BY <2>2 DEF AtTheDoor, RightfulWork
<1>2. ASSUME NEW s \in Slot, Work(s) PROVE AtTheDoor' /\ RightfulWork'
  <2> DEFINE q == open[s]
  <2>1. q \in Admitted /\ mayWork(q.viewer, q.route)
    BY <1>2 DEF Work, AtTheDoor
  <2>2. /\ open' = [open EXCEPT ![s] = Free]
        /\ last' = [route |-> q.route, cred |-> q.cred, origin |-> q.viewer.origin,
                    by |-> signedBy(q.viewer, q.route)]
    BY <1>2 DEF Work
  <2>3. Rightful(last')
    <3> HIDE DEF q
    <3> QED
      BY <2>1, <2>2, SignedRightfully
  <2> QED
    BY <2>2, <2>3 DEF AtTheDoor, RightfulWork, Rightful
<1>3. ASSUME NEW s \in Slot, Refuse(s) PROVE AtTheDoor' /\ RightfulWork'
  BY <1>3 DEF Refuse, AtTheDoor, RightfulWork
<1>4. CASE AskBrief \/ Minute \/ Stop \/ Drained
  BY <1>4 DEF AskBrief, Minute, Stop, Drained, AtTheDoor, RightfulWork
<1>5. CASE Close
  BY <1>5 DEF Close, AtTheDoor, RightfulWork
<1>6. CASE Boot
  BY <1>6 DEF Boot, AtTheDoor, RightfulWork, Rightful
<1>7. CASE UNCHANGED vars
  BY <1>7 DEF vars, AtTheDoor, RightfulWork, Rightful
<1> QED
  BY <1>1, <1>2, <1>3, <1>4, <1>5, <1>6, <1>7 DEF Next

\* Whatever is asked, by whatever credential and headers, is done in a name that credential may use.
THEOREM WorkIsRightful == Spec => []RightfulWork
<1>1. Init => AtTheDoor /\ RightfulWork
  BY DEF Init, AtTheDoor, RightfulWork
<1> QED
  BY <1>1, NextRightful, PTL DEF Spec

-----------------------------------------------------------------------------
(* PaceHeld *)

\* A limit is a number.
LEMMA LimitNat == \A b \in Budget, w \in Window : Limit(b)[w] \in Nat
BY LimitsAssumption DEF Limit, Window

\* A new process counts from nothing.
LEMMA FreshCounted ==
  ASSUME NEW c, NEW n, NEW m, NEW k, Fresh(c, n, m, k)
  PROVE  /\ c \in [Actor -> Counts] /\ m \in [Person -> Counts]
         /\ \A a \in Actor, b \in Budget, w \in Window : c[a][b][w] = 0
         /\ \A p \in Person, b \in Budget, w \in Window : m[p][b][w] = 0
<1>1. None \in [Window -> Nat] /\ \A w \in Window : None[w] = 0
  BY DEF None, Window
<1> QED
  BY <1>1 DEF Fresh, Counts

\* Nothing counted is within every limit.
LEMMA NothingCounted ==
  ASSUME NEW c \in [Actor -> Counts], NEW m \in [Person -> Counts],
         \A a \in Actor, b \in Budget, w \in Window : c[a][b][w] = 0,
         \A p \in Person, b \in Budget, w \in Window : m[p][b][w] = 0
  PROVE  /\ \A a \in Actor, b \in Budget, w \in Window : c[a][b][w] <= Limit(b)[w]
         /\ \A p \in Person, b \in Budget, w \in Window : m[p][b][w] <= c[p][b][w]
BY LimitNat DEF Actor

\* Table g has one more than table f at one place.
Adds(f, g, x, b) == g = [f EXCEPT ![x][b] = OneMore(@)]

\* One more at one place of a table of counts.
LEMMA OneMoreAt ==
  ASSUME NEW S, NEW f \in [S -> Counts], NEW x \in S, NEW b \in Budget,
         NEW g, Adds(f, g, x, b)
  PROVE  /\ g \in [S -> Counts]
         /\ \A y \in S, d \in Budget, w \in Window :
              g[y][d][w] = IF y = x /\ d = b THEN f[y][d][w] + 1 ELSE f[y][d][w]
<1> DEFINE c == OneMore(f[x][b])
           h == [f[x] EXCEPT ![b] = c]
<1>1. f[x] \in Counts /\ f[x][b] \in [Window -> Nat]
  BY DEF Counts
<1>2. c \in [Window -> Nat] /\ \A w \in Window : c[w] = f[x][b][w] + 1
  BY <1>1 DEF OneMore
<1>3. g = [f EXCEPT ![x] = h]
  BY DEF Adds
<1> HIDE DEF c
<1>4. h \in Counts /\ h[b] = c /\ \A d \in Budget : d # b => h[d] = f[x][d]
  BY <1>1, <1>2 DEF Counts
<1> HIDE DEF h
<1>5. g \in [S -> Counts] /\ g[x] = h /\ \A y \in S : y # x => g[y] = f[y]
  BY <1>3, <1>4
<1>6. ASSUME NEW y \in S, NEW d \in Budget, NEW w \in Window
      PROVE  g[y][d][w] = IF y = x /\ d = b THEN f[y][d][w] + 1 ELSE f[y][d][w]
  <2>1. CASE y = x /\ d = b
    BY <1>2, <1>4, <1>5, <2>1
  <2>2. CASE y = x /\ d # b
    BY <1>4, <1>5, <2>2
  <2>3. CASE y # x
    BY <1>5, <2>3
  <2> QED
    BY <2>1, <2>2, <2>3
<1> QED
  BY <1>5, <1>6

\* Some windows back to nothing.
LEMMA ResetOf ==
  ASSUME NEW c \in [Window -> Nat], NEW over
  PROVE  /\ Reset(c, over) \in [Window -> Nat]
         /\ \A w \in Window : Reset(c, over)[w] = IF w \in over THEN 0 ELSE c[w]
BY DEF Reset

\* A request let through adds one where one was left, under the person's own name.
LEMMA TakeCounted ==
  ASSUME Counted, NEW s \in Slot, NEW v \in Viewer, NEW r \in Request, Take(s, v, r)
  PROVE  Counted'
<1> DEFINE b == budget(r.route)
           a == actor(v)
<1>1. b \in Budget
  BY DEF Budget, Request
<1>2. a \in Actor /\ (v.subject \in Person => a = v.subject)
  BY ActorOf
<1>3. /\ \A w \in Window : count[a][b][w] < Limit(b)[w]
      /\ Adds(count, count', a, b)
      /\ \/ mine' = mine
         \/ v.subject \in Person /\ Adds(mine, mine', v.subject, b)
  BY DEF Take, withinBudget, Adds
<1> HIDE DEF a, b
<1>4. count \in [Actor -> Counts] /\ mine \in [Person -> Counts]
  BY DEF Counted
<1>5. count' \in [Actor -> Counts] /\ mine' \in [Person -> Counts]
  BY <1>1, <1>2, <1>3, <1>4, OneMoreAt
<1>6. ASSUME NEW x \in Actor, NEW d \in Budget, NEW w \in Window
      PROVE  /\ count'[x][d][w] = IF x = a /\ d = b THEN count[x][d][w] + 1 ELSE count[x][d][w]
             /\ count[x][d][w] \in Nat
  <2>1. count[x][d] \in [Window -> Nat]
    BY <1>4 DEF Counts
  <2> QED
    BY <2>1, <1>1, <1>2, <1>3, <1>4, OneMoreAt
<1>7. ASSUME NEW p \in Person, NEW d \in Budget, NEW w \in Window
      PROVE  /\ \/ mine'[p][d][w] = mine[p][d][w]
                \/ p = a /\ d = b /\ mine'[p][d][w] = mine[p][d][w] + 1
             /\ mine[p][d][w] \in Nat
  <2>1. mine[p][d] \in [Window -> Nat]
    BY <1>4 DEF Counts
  <2>2. CASE mine' = mine
    BY <2>1, <2>2
  <2>3. CASE v.subject \in Person /\ Adds(mine, mine', v.subject, b)
    <3>1. mine'[p][d][w] = IF p = v.subject /\ d = b THEN mine[p][d][w] + 1 ELSE mine[p][d][w]
      BY <2>3, <1>1, <1>4, OneMoreAt
    <3> QED
      BY <2>1, <2>3, <3>1, <1>2
  <2> QED
    BY <1>3, <2>2, <2>3
<1>8. \A x \in Actor, d \in Budget, w \in Window : count'[x][d][w] <= Limit(d)[w]
  <2> SUFFICES ASSUME NEW x \in Actor, NEW d \in Budget, NEW w \in Window
               PROVE  count'[x][d][w] <= Limit(d)[w]
    OBVIOUS
  <2>1. count[x][d][w] <= Limit(d)[w] /\ Limit(d)[w] \in Nat
    BY LimitNat DEF Counted
  <2> QED
    BY <1>3, <1>6, <2>1
<1>9. \A p \in Person, d \in Budget, w \in Window : mine'[p][d][w] <= count'[p][d][w]
  <2> SUFFICES ASSUME NEW p \in Person, NEW d \in Budget, NEW w \in Window
               PROVE  mine'[p][d][w] <= count'[p][d][w]
    OBVIOUS
  <2>1. p \in Actor /\ mine[p][d][w] <= count[p][d][w]
    BY DEF Actor, Counted
  <2> QED
    BY <2>1, <1>6, <1>7
<1>10. \A d \in Budget : Limit(d)' = Limit(d)
  BY DEF Limit
<1> QED
  BY <1>5, <1>8, <1>9, <1>10 DEF Counted

\* The end of a window takes both counts back to nothing.
LEMMA MinuteCounted == Counted /\ Minute => Counted'
<1> SUFFICES ASSUME Counted, Minute PROVE Counted'
  OBVIOUS
<1>1. PICK over :
        /\ count' = [a \in Actor |-> [b \in Budget |-> Reset(count[a][b], over)]]
        /\ mine' = [p \in Person |-> [b \in Budget |-> Reset(mine[p][b], over)]]
  BY DEF Minute
<1>2. /\ \A a \in Actor, b \in Budget : count[a][b] \in [Window -> Nat]
      /\ \A p \in Person, b \in Budget : mine[p][b] \in [Window -> Nat]
  BY DEF Counted, Counts
<1>3. /\ \A a \in Actor, b \in Budget : count'[a][b] = Reset(count[a][b], over)
      /\ \A p \in Person, b \in Budget : mine'[p][b] = Reset(mine[p][b], over)
  BY <1>1
<1>4. count' \in [Actor -> Counts]
  <2>1. ASSUME NEW a \in Actor, NEW b \in Budget PROVE Reset(count[a][b], over) \in [Window -> Nat]
    BY <1>2, ResetOf
  <2> QED
    BY <1>1, <2>1 DEF Counts
<1>5. mine' \in [Person -> Counts]
  <2>1. ASSUME NEW p \in Person, NEW b \in Budget PROVE Reset(mine[p][b], over) \in [Window -> Nat]
    BY <1>2, ResetOf
  <2> QED
    BY <1>1, <2>1 DEF Counts
<1>6. ASSUME NEW a \in Actor, NEW b \in Budget, NEW w \in Window
      PROVE  count'[a][b][w] <= Limit(b)[w]
  <2>1. count'[a][b][w] = IF w \in over THEN 0 ELSE count[a][b][w]
    BY <1>2, <1>3, ResetOf
  <2>2. count[a][b][w] <= Limit(b)[w] /\ Limit(b)[w] \in Nat
    BY LimitNat DEF Counted
  <2> QED
    BY <2>1, <2>2
<1>7. ASSUME NEW p \in Person, NEW b \in Budget, NEW w \in Window
      PROVE  mine'[p][b][w] <= count'[p][b][w]
  <2>1. p \in Actor /\ mine[p][b][w] <= count[p][b][w]
    BY DEF Counted, Actor
  <2>2. /\ count'[p][b][w] = IF w \in over THEN 0 ELSE count[p][b][w]
        /\ mine'[p][b][w] = IF w \in over THEN 0 ELSE mine[p][b][w]
    BY <1>2, <1>3, <2>1, ResetOf
  <2> QED
    BY <2>1, <2>2
<1>8. \A b \in Budget : Limit(b)' = Limit(b)
  BY DEF Limit
<1> QED
  BY <1>4, <1>5, <1>6, <1>7, <1>8 DEF Counted

\* Every step counts.
LEMMA NextCounted == Counted /\ [Next]_vars => Counted'
<1> SUFFICES ASSUME Counted, [Next]_vars PROVE Counted'
  OBVIOUS
<1>1. ASSUME NEW s \in Slot, NEW r \in Request, AskApi(s, r) \/ AskDesk(s, r) \/ AskPage(s, r)
      PROVE Counted'
  BY <1>1, TakerAdmitted, TakeCounted
<1>2. ASSUME NEW s \in Slot, Work(s) \/ Refuse(s) PROVE Counted'
  BY <1>2 DEF Work, Refuse, Counted
<1>3. CASE Stop
  BY <1>3, FreshCounted, NothingCounted DEF Stop, Counted
<1>4. CASE AskBrief \/ Drained \/ Close \/ Boot
  BY <1>4 DEF AskBrief, Drained, Close, Boot, Counted
<1>5. CASE UNCHANGED vars
  BY <1>5 DEF vars, Counted
<1> QED
  BY <1>1, <1>2, <1>3, <1>4, <1>5, MinuteCounted DEF Next

\* Whoever acts for a person and by whatever way, no window lets through more of that person's own
\* requests than the budget.
THEOREM PaceIsHeld == Spec => []PaceHeld
<1>1. Init => Counted
  BY FreshCounted, NothingCounted DEF Init, Counted
<1>2. Counted => PaceHeld
  <2> SUFFICES ASSUME Counted, NEW p \in Person, NEW b \in Budget, NEW w \in Window
               PROVE  mine[p][b][w] <= Limit(b)[w]
    BY DEF PaceHeld
  <2>1. p \in Actor /\ mine[p][b][w] \in Nat /\ count[p][b][w] \in Nat
    BY DEF Counted, Counts, Actor
  <2> QED
    BY <2>1, LimitNat DEF Counted
<1> QED
  BY <1>1, <1>2, NextCounted, PTL DEF Spec

-----------------------------------------------------------------------------
(* TypeOK *)

\* The process, its clock and its hour of brief runs.
Clocked ==
  /\ phase \in {"up", "draining", "closing", "down"}
  /\ phase = "down" => \A s \in Slot : open[s] = Free
  /\ minute \in 0 .. Minutes - 1
  /\ runs \in [hour : 0..RunsAnHour, age : 0 .. Minutes + 1]
  /\ asked \in [0..Minutes -> Nat]

\* The start of a process' hour of brief runs.
LEMMA FreshClocked ==
  ASSUME NEW c, NEW n, NEW m, NEW k, Fresh(c, n, m, k)
  PROVE  /\ n \in [hour : 0..RunsAnHour, age : 0 .. Minutes + 1]
         /\ k \in [0..Minutes -> Nat]
BY ServiceAssumption DEF Fresh

\* Every step keeps to the clock, and nothing is asked of a process that is down.
LEMMA NextClocked == AtTheDoor /\ Clocked /\ [Next]_vars => Clocked'
<1> SUFFICES ASSUME AtTheDoor, Clocked, [Next]_vars PROVE Clocked'
  OBVIOUS
<1> USE ServiceAssumption
<1>1. ASSUME NEW s \in Slot, NEW r \in Request, AskApi(s, r) \/ AskDesk(s, r) \/ AskPage(s, r)
      PROVE Clocked'
  <2>1. PICK v \in Viewer : Take(s, v, r)
    BY <1>1, TakerAdmitted
  <2> QED
    BY <2>1 DEF Take, Clocked
<1>2. ASSUME NEW s \in Slot, Work(s) \/ Refuse(s) PROVE Clocked'
  BY <1>2 DEF Work, Refuse, Clocked
<1>3. CASE AskBrief
  <2>1. runsNow \in [hour : 0..RunsAnHour, age : 0 .. Minutes + 1] /\ runsNow.hour < RunsAnHour
    BY <1>3 DEF AskBrief, runsNow, Clocked
  <2>2. runs' = [runsNow EXCEPT !.hour = @ + 1] /\ asked' = [k \in 0..Minutes |-> asked[k] + 1]
    BY <1>3 DEF AskBrief
  <2>3. runs' \in [hour : 0..RunsAnHour, age : 0 .. Minutes + 1]
    BY <2>1, <2>2
  <2>4. asked' \in [0..Minutes -> Nat]
    BY <2>2 DEF Clocked
  <2> QED
    BY <1>3, <2>3, <2>4 DEF AskBrief, Clocked
<1>4. CASE Minute
  <2>1. minute' \in 0 .. Minutes - 1
    <3>1. minute' = (minute + 1) % Minutes /\ minute \in 0 .. Minutes - 1
      BY <1>4 DEF Minute, Clocked
    <3> QED
      BY <3>1
  <2>2. runs' \in [hour : 0..RunsAnHour, age : 0 .. Minutes + 1]
    <3>1. /\ runs' = [runs EXCEPT !.age = IF @ > Minutes THEN @ ELSE @ + 1]
          /\ runs \in [hour : 0..RunsAnHour, age : 0 .. Minutes + 1]
      BY <1>4 DEF Minute, Clocked
    <3>2. (IF runs.age > Minutes THEN runs.age ELSE runs.age + 1) \in 0 .. Minutes + 1
      BY <3>1
    <3> QED
      BY <3>1, <3>2
  <2>3. asked' \in [0..Minutes -> Nat]
    <3>1. /\ asked' = [k \in 0..Minutes |-> IF k = 0 THEN 0 ELSE asked[k - 1]]
          /\ asked \in [0..Minutes -> Nat]
      BY <1>4 DEF Minute, Clocked
    <3> QED
      BY <3>1
  <2> QED
    BY <1>4, <2>1, <2>2, <2>3 DEF Minute, Clocked
<1>5. CASE Stop
  BY <1>5, FreshClocked DEF Stop, Clocked
<1>6. CASE Drained \/ Boot
  BY <1>6 DEF Drained, Boot, Clocked
<1>7. CASE Close
  BY <1>7 DEF Close, Clocked
<1>8. CASE UNCHANGED vars
  BY <1>8 DEF vars, Clocked
<1> QED
  BY <1>1, <1>2, <1>3, <1>4, <1>5, <1>6, <1>7, <1>8 DEF Next

\* Every variable keeps its type, a process that is down holds no request, and a request under way
\* is one its route let in.
THEOREM TypeCorrect == Spec => []TypeOK
<1>1. Init => AtTheDoor /\ RightfulWork /\ Counted /\ Clocked
  BY FreshCounted, NothingCounted, FreshClocked
  DEF Init, AtTheDoor, RightfulWork, Counted, Clocked
<1>2. AtTheDoor /\ Counted /\ Clocked => TypeOK
  <2> SUFFICES ASSUME AtTheDoor, Counted, Clocked PROVE TypeOK
    OBVIOUS
  <2>1. ASSUME NEW s \in Slot, open[s] # Free
        PROVE  /\ phase # "down"
               /\ open[s].viewer.kind = "user" => open[s].viewer.subject = open[s].cred
               /\ open[s].viewer.kind = "service" => open[s].route \in Api
    BY <2>1 DEF AtTheDoor, Clocked, Admitted, Of
  <2> QED
    BY <2>1 DEF TypeOK, Counted, Counts, Clocked
<1> QED
  BY <1>1, <1>2, NextRightful, NextCounted, NextClocked, PTL DEF Spec

-----------------------------------------------------------------------------
(* BriefRunsHeld and ReadersServed *)

\* The runs of the last k minutes are all of the present hour's when that is no older than k minutes,
\* and its first is not among them when it is older; an hour that has not ended had a run that started
\* it; and of the hour before no window holds the first.
RunsInHours ==
  /\ runs.age <= Minutes => runs.hour > 0
  /\ \A k \in 0..Minutes :
       /\ runs.age <= k => runs.hour <= asked[k]
       /\ k < runs.age => asked[k] = 0 \/ asked[k] < runs.hour
       /\ asked[k] < runs.hour + RunsAnHour

\* A reader's request starts a run, and an hour when the last is over.
LEMMA AskBriefRuns == Clocked /\ RunsInHours /\ AskBrief => RunsInHours'
<1> SUFFICES ASSUME Clocked, RunsInHours, AskBrief PROVE RunsInHours'
  OBVIOUS
<1>1. RunsAnHour \in Nat \ {0} /\ Minutes \in Nat
  BY ServiceAssumption
<1>2. runs.hour \in 0..RunsAnHour /\ runs.age \in 0 .. Minutes + 1
  BY DEF Clocked
<1>3. \A k \in 0..Minutes : asked'[k] = asked[k] + 1 /\ asked[k] \in Nat
  BY DEF AskBrief, Clocked
<1>4. \/ runs.age > Minutes /\ runs'.hour = 1 /\ runs'.age = 0
      \/ runs.age <= Minutes /\ runs'.hour = runs.hour + 1 /\ runs'.age = runs.age
  BY <1>1, <1>2 DEF AskBrief, runsNow, Clocked
<1>5. runs'.age <= Minutes => runs'.hour > 0
  BY <1>2, <1>4
<1>6. ASSUME NEW k \in 0..Minutes
      PROVE  /\ runs'.age <= k => runs'.hour <= asked'[k]
             /\ k < runs'.age => asked'[k] = 0 \/ asked'[k] < runs'.hour
             /\ asked'[k] < runs'.hour + RunsAnHour
  <2>1. /\ runs.age <= Minutes => runs.hour > 0
        /\ runs.age <= k => runs.hour <= asked[k]
        /\ k < runs.age => asked[k] = 0 \/ asked[k] < runs.hour
        /\ asked[k] < runs.hour + RunsAnHour
    BY DEF RunsInHours
  <2>2. asked'[k] = asked[k] + 1 /\ asked[k] \in Nat
    BY <1>3
  <2> QED
    BY <1>1, <1>2, <1>4, <2>1, <2>2
<1> QED
  BY <1>5, <1>6 DEF RunsInHours

\* A minute passes, in the windows and in the hour.
LEMMA MinuteRuns == Clocked /\ RunsInHours /\ Minute => RunsInHours'
<1> SUFFICES ASSUME Clocked, RunsInHours, Minute PROVE RunsInHours'
  OBVIOUS
<1>1. RunsAnHour \in Nat \ {0} /\ Minutes \in Nat
  BY ServiceAssumption
<1>2. /\ runs.hour \in 0..RunsAnHour /\ runs.age \in 0 .. Minutes + 1
      /\ runs'.hour = runs.hour /\ runs'.age = IF runs.age > Minutes THEN runs.age ELSE runs.age + 1
  BY DEF Clocked, Minute
<1>3. runs'.age <= Minutes => runs'.hour > 0
  BY <1>1, <1>2 DEF RunsInHours
<1>4. ASSUME NEW k \in 0..Minutes
      PROVE  /\ runs'.age <= k => runs'.hour <= asked'[k]
             /\ k < runs'.age => asked'[k] = 0 \/ asked'[k] < runs'.hour
             /\ asked'[k] < runs'.hour + RunsAnHour
  <2>1. CASE k = 0
    <3>1. asked'[k] = 0
      BY <2>1 DEF Minute
    <3> QED
      BY <1>1, <1>2, <2>1, <3>1
  <2>2. CASE k # 0
    <3>1. k - 1 \in 0..Minutes /\ asked'[k] = asked[k - 1]
      BY <1>1, <2>2 DEF Minute
    <3>2. /\ runs.age <= k - 1 => runs.hour <= asked[k - 1]
          /\ k - 1 < runs.age => asked[k - 1] = 0 \/ asked[k - 1] < runs.hour
          /\ asked[k - 1] < runs.hour + RunsAnHour
      BY <3>1 DEF RunsInHours
    <3> QED
      BY <1>1, <1>2, <3>1, <3>2
  <2> QED
    BY <2>1, <2>2
<1> QED
  BY <1>3, <1>4 DEF RunsInHours

\* A new process has asked for nothing.
LEMMA FreshRuns ==
  ASSUME NEW c, NEW m, Fresh(c, runs, m, asked)
  PROVE  RunsInHours
BY ServiceAssumption DEF Fresh, RunsInHours

LEMMA NextRuns == AtTheDoor /\ Clocked /\ RunsInHours /\ [Next]_vars => RunsInHours'
<1> SUFFICES ASSUME AtTheDoor, Clocked, RunsInHours, [Next]_vars PROVE RunsInHours'
  OBVIOUS
<1>1. CASE UNCHANGED <<runs, asked>>
  BY <1>1 DEF RunsInHours
<1>2. ASSUME NEW s \in Slot, NEW r \in Request, AskApi(s, r) \/ AskDesk(s, r) \/ AskPage(s, r)
      PROVE  UNCHANGED <<runs, asked>>
  BY <1>2, TakerAdmitted DEF Take
<1>3. CASE Stop
  BY <1>3, ServiceAssumption DEF Stop, Fresh, RunsInHours
<1>4. (\E s \in Slot : Work(s) \/ Refuse(s)) \/ Drained \/ Close \/ Boot \/ UNCHANGED vars
      => UNCHANGED <<runs, asked>>
  BY DEF Work, Refuse, Drained, Close, Boot, vars
<1> QED
  BY <1>1, <1>2, <1>3, <1>4, AskBriefRuns, MinuteRuns DEF Next

\* The invariant of the hours of brief runs.
LEMMA RunsInvariant == Spec => [](Clocked /\ RunsInHours)
<1>1. Init => AtTheDoor /\ RightfulWork /\ Clocked /\ RunsInHours
  BY FreshClocked, FreshRuns DEF Init, AtTheDoor, RightfulWork, Clocked
<1> QED
  BY <1>1, NextRightful, NextClocked, NextRuns, PTL DEF Spec

\* Any hour of one process, wherever it begins, holds fewer brief runs than two of its own hours allow.
THEOREM BriefRunsAreHeld == Spec => []BriefRunsHeld
<1>1. Clocked /\ RunsInHours => BriefRunsHeld
  <2> SUFFICES ASSUME Clocked, RunsInHours PROVE BriefRunsHeld
    OBVIOUS
  <2>1. asked[Minutes] < runs.hour + RunsAnHour
    BY ServiceAssumption DEF RunsInHours
  <2>2. runs.hour \in 0..RunsAnHour /\ RunsAnHour \in Nat /\ asked[Minutes] \in Nat
    BY ServiceAssumption DEF Clocked
  <2> QED
    BY <2>1, <2>2 DEF BriefRunsHeld
<1> QED
  BY <1>1, RunsInvariant, PTL

\* A reader who is turned away is so because the hour that ends now saw all the runs an hour allows.
THEOREM ReadersAreServed == Spec => []ReadersServed
<1>1. Clocked /\ RunsInHours => ReadersServed
  <2> SUFFICES ASSUME Clocked, RunsInHours, runsNow.hour >= RunsAnHour
               PROVE  asked[Minutes] >= RunsAnHour
    BY DEF ReadersServed
  <2>1. RunsAnHour \in Nat \ {0} /\ Minutes \in Nat
    BY ServiceAssumption
  <2>2. runs.hour \in 0..RunsAnHour /\ runs.age \in 0 .. Minutes + 1 /\ asked[Minutes] \in Nat
    BY <2>1 DEF Clocked
  <2>3. runs.age <= Minutes /\ runs.hour >= RunsAnHour
    BY <2>1, <2>2 DEF runsNow
  <2>4. runs.hour <= asked[Minutes]
    BY <2>1, <2>3 DEF RunsInHours
  <2> QED
    BY <2>1, <2>2, <2>3, <2>4
<1> QED
  BY <1>1, RunsInvariant, PTL
=============================================================================

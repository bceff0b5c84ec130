------------------------ MODULE WorkerServiceProofs ------------------------
(***************************************************************************)
(* Theorems about WorkerService for every set of clients and of server     *)
(* threads, every number of jobs, managers, calls, retries and given-up    *)
(* attempts.                                                               *)
(***************************************************************************)
EXTENDS WorkerService, FiniteSetTheorems, WellFoundedInduction, TLAPS

(***************************************************************************)
(* The parts of the inductive invariant.                                   *)
(***************************************************************************)

\* The types of the store, and of the rest.
StoreTyped ==
    /\ built \in 0..MaxManagers
    /\ registered \in 0..built
    /\ jobs \in [Manager -> [JobId -> {"none", "pending", "cancelled"}]]
    /\ issued \in 0..MaxJobs
    /\ old \subseteq 1..issued
    /\ due \in [Manager -> BOOLEAN]
    /\ made \in [Client -> SUBSET (1..issued)]

Typed ==
    /\ StoreTyped
    /\ slot \in [Slot -> Handler]
    /\ client \in [Client -> ClientState]
    /\ troubles \in [Client -> 0..Retries + 1]
    /\ givenUp \in 0..MaxGivenUp

\* Only issued jobs are stored, and with one manager a job that is not stored
\* was swept.
StoreOK ==
    /\ \A m \in Manager, j \in JobId : j > issued => jobs[m][j] = "none"
    /\ built <= 1 => \A j \in 1..issued : j \in old \/ jobs[1][j] # "none"

\* A request stands where its route may be.
Place(h) ==
    /\ h.pc = "free" => ~h.waiting
    /\ h.pc # "free" => h.client \in Client
    /\ h.pc \notin {"free", "resolve", "build"} => h.manager # 0
    /\ h.pc \in {"due", "iterate", "delete"} => h.op = "submit"
    /\ h.pc = "write" => h.op = "cancel"
    /\ h.pc \in {"count", "counting"} => h.op = "stats"
    /\ h.pc = "counting" => h.turn # 3
    /\ h.op = "stats" /\ h.pc \in {"resolve", "build", "register", "handle"} => h.turn = 1
    /\ h.pc # "answer" => h.answer = "none"

\* A job that is still to be counted, with status st.
ToCount(h, st) == (h.turn = 1 /\ st # "none") \/ (h.turn = 2 /\ st = "cancelled")

\* What a request knows of the store: issued I, built B, old O, jobs J, made M.
Knows(h, I, B, O, J, M) ==
    /\ h.manager <= B
    /\ h.op # "submit" /\ h.pc # "free" => h.job \in 1..I
    /\ h.op = "submit" /\ h.pc \in {"due", "iterate", "delete", "answer"} =>
          h.job \in M[h.client]
    /\ h.delete \subseteq O
    /\ h.answer = "missing" => h.job \in O \/ B > 1
    /\ h.answer \in {"listed", "counted"} => h.there \ h.seen \subseteq O
    /\ h.pc \in {"count", "counting"} =>
          \A j \in h.there : j \in h.seen \/ j \in O \/ ToCount(h, J[h.manager][j])

SlotsOK == \A s \in Slot : Place(slot[s]) /\ Knows(slot[s], issued, built, old, jobs, made)

\* The op of the request a client's call sends.
RouteOf(op) == IF op = "poll" THEN "status" ELSE op

\* A client waits for one request at most, which is for its call.
Waits ==
    /\ \A s \in Slot :
          slot[s].waiting => /\ client[slot[s].client].pc = "waiting"
                             /\ slot[s].op = RouteOf(client[slot[s].client].op)
    /\ \A s, u \in Slot :
          slot[s].waiting /\ slot[u].waiting /\ slot[s].client = slot[u].client => s = u

\* A client's job is one of those made for it; its submission has tried as often
\* as it had troubles.
Clients ==
    \A c \in Client :
        /\ client[c].job # 0 => client[c].job \in made[c]
        /\ client[c].op # "submit" => client[c].job # 0
        /\ client[c].op = "submit" /\ client[c].pc # "rest" => troubles[c] <= client[c].tries

\* Requests that will make a job for a client.
Making(c) ==
    {s \in Slot : /\ slot[s].client = c /\ slot[s].op = "submit"
                  /\ slot[s].pc \in {"resolve", "build", "register", "handle"}}

\* The submissions a client has sent.
Attempts(c) ==
    IF client[c].op = "submit" /\ client[c].pc \in {"new", "ready"}
    THEN troubles[c] ELSE troubles[c] + 1

Accounted ==
    \A c \in Client :
        /\ IsFiniteSet(Making(c))
        /\ Cardinality(made[c]) + Cardinality(Making(c)) <= Attempts(c)

(***************************************************************************)
(* Facts about requests.                                                   *)
(***************************************************************************)

\* A set of numbers that is not empty has a least one.
LEMMA Least ==
    ASSUME NEW S \in SUBSET Nat, S # {}
    PROVE  \E k \in S : \A l \in S : k <= l
<1> DEFINE R == {ss \in Nat \X Nat : ss[1] < ss[2]}
<1>1. IsWellFoundedOn(R, Nat)
  BY NatLessThanWellFounded DEF OpToRel
<1>2. PICK k \in S : \A l \in S : <<l, k>> \notin R
  <2> HIDE DEF R
  <2>. QED BY <1>1, WFMin
<1>3. \A l \in S : k <= l
  <2>1. \A l \in S : ~(l < k)
    BY <1>2
  <2>. QED BY <2>1
<1>. QED BY <1>3

Places ==
    {"free", "resolve", "build", "register", "handle", "due", "iterate"}
    \cup {"delete", "write", "count", "counting", "answer"}

\* A thread of the server that serves no request.
LEMMA FreeHandler == Free \in Handler /\ Place(Free) /\ Free.pc = "free" /\ Free.manager = 0
                     /\ Free.delete = {} /\ Free.answer = "none" /\ Free.client = NoClient
                     /\ Free.op = "submit" /\ ~Free.waiting
<1>1. Free \in Handler
  <2>1. "submit" \in Op /\ "none" \in Answers /\ 0 \in 0..MaxJobs /\ 0 \in 0..MaxManagers /\ 1 \in 1..3
    BY WorkerServiceAssumption DEF Op, Answers
  <2>. QED BY <2>1 DEF Free, Handler
<1>2. /\ Free.pc = "free" /\ Free.manager = 0 /\ Free.delete = {} /\ Free.answer = "none"
      /\ Free.client = NoClient /\ Free.op = "submit" /\ ~Free.waiting
  BY DEF Free
<1>. QED BY <1>1, <1>2 DEF Place

\* A request that goes on is one.
LEMMA GoesOn ==
    ASSUME NEW h \in Handler, NEW pc \in Places
    PROVE  LET r == [h EXCEPT !.pc = pc] IN
           /\ r \in Handler /\ r.pc = pc
           /\ r.op = h.op /\ r.client = h.client /\ r.waiting = h.waiting /\ r.job = h.job
           /\ r.manager = h.manager /\ r.walked = h.walked /\ r.delete = h.delete /\ r.turn = h.turn
           /\ r.there = h.there /\ r.seen = h.seen /\ r.answer = h.answer
BY DEF Handler, Places

\* A request that is answered stays the same request.
LEMMA GoesOnAnswered ==
    ASSUME NEW h \in Handler, NEW a \in Answers
    PROVE  LET r == [h EXCEPT !.pc = "answer", !.answer = a] IN
           /\ r \in Handler /\ r.pc = "answer" /\ r.answer = a
           /\ r.op = h.op /\ r.client = h.client /\ r.waiting = h.waiting /\ r.job = h.job
           /\ r.manager = h.manager /\ r.walked = h.walked /\ r.delete = h.delete /\ r.turn = h.turn
           /\ r.there = h.there /\ r.seen = h.seen
BY DEF Handler

(***************************************************************************)
(* The store only grows, or is swept.                                      *)
(***************************************************************************)

Grows ==
    /\ issued <= issued' /\ built <= built' /\ old \subseteq old'
    /\ \A c \in Client : made[c] \subseteq made'[c]
    /\ \A m \in Manager, j \in JobId :
          /\ jobs[m][j] # "none" => jobs'[m][j] # "none" \/ j \in old'
          /\ jobs[m][j] = "cancelled" => jobs'[m][j] = "cancelled" \/ j \in old'

\* A step that leaves the store alone keeps what is known of it.
LEMMA StoreStays ==
    ASSUME StoreTyped, StoreOK, UNCHANGED <<built, registered, jobs, issued, old, due, made>>
    PROVE  Grows /\ StoreTyped' /\ StoreOK'
<1>1. Grows
  BY DEF Grows, StoreTyped
<1>2. StoreTyped'
  BY DEF StoreTyped
<1>3. StoreOK'
  BY DEF StoreOK
<1>. QED BY <1>1, <1>2, <1>3

\* What a request knows stays true.
LEMMA KnowsOn ==
    ASSUME Typed, StoreTyped', Grows, NEW h \in Handler, Place(h),
           Knows(h, issued, built, old, jobs, made)
    PROVE  Knows(h, issued', built', old', jobs', made')
<1>1. h.manager <= built'
  BY DEF Knows, Grows, Typed, StoreTyped, Handler
<1>2. h.op # "submit" /\ h.pc # "free" => h.job \in 1..issued'
  BY DEF Knows, Grows, Typed, StoreTyped
<1>3. h.op = "submit" /\ h.pc \in {"due", "iterate", "delete", "answer"} => h.job \in made'[h.client]
  BY DEF Knows, Grows, Place
<1>4. h.delete \subseteq old' /\ (h.answer \in {"listed", "counted"} => h.there \ h.seen \subseteq old')
  BY DEF Knows, Grows
<1>5. ASSUME h.answer = "missing" PROVE h.job \in old' \/ built' > 1
  <2>1. built \in Int /\ built' \in Int /\ built <= built' /\ old \subseteq old'
    BY DEF Grows, Typed, StoreTyped
  <2>2. h.job \in old \/ built > 1
    BY <1>5 DEF Knows
  <2>. QED BY <2>1, <2>2
<1>6. ASSUME h.pc \in {"count", "counting"}, NEW j \in h.there
      PROVE  j \in h.seen \/ j \in old' \/ ToCount(h, jobs'[h.manager][j])
  <2>1. h.manager \in Manager /\ j \in JobId
    BY <1>6 DEF Place, Handler, Manager
  <2>. QED BY <1>6, <2>1 DEF Knows, Grows, ToCount
<1>. QED BY <1>1, <1>2, <1>3, <1>4, <1>5, <1>6 DEF Knows

(***************************************************************************)
(* One request moves.                                                      *)
(***************************************************************************)

OthersStay(s) ==
    /\ slot' \in [Slot -> Handler]
    /\ \A u \in Slot : u # s => slot'[u] = slot[u]

\* A step of a route: the request stays that of its client.
Served(s) ==
    /\ Grows /\ StoreTyped' /\ StoreOK'
    /\ OthersStay(s)
    /\ slot[s].pc # "free" /\ slot'[s].pc # "free"
    /\ slot'[s].op = slot[s].op /\ slot'[s].client = slot[s].client
    /\ slot'[s].waiting = slot[s].waiting
    /\ Place(slot'[s]) /\ Knows(slot'[s], issued', built', old', jobs', made')
    /\ UNCHANGED <<client, troubles, givenUp>>

\* A request that moves on its route, and knows what it must, is served.
LEMMA SlotMoves ==
    ASSUME Typed, NEW s \in Slot, NEW r \in Handler, slot' = [slot EXCEPT ![s] = r],
           Grows, StoreTyped', StoreOK',
           slot[s].pc # "free", r.pc # "free",
           r.op = slot[s].op, r.client = slot[s].client, r.waiting = slot[s].waiting,
           Place(r), Knows(r, issued', built', old', jobs', made'),
           UNCHANGED <<client, troubles, givenUp>>
    PROVE  Served(s)
BY DEF Typed, Served, OthersStay

\* A request goes on to pc and knows what it knew.
LEMMA GotoServed ==
    ASSUME Typed, SlotsOK, NEW s \in Slot, NEW pc \in Places \ {"free", "answer"}, Goto(s, pc),
           Grows, StoreTyped', StoreOK',
           slot[s].pc \notin {"free", "count", "counting", "answer"},
           slot[s].manager # 0 \/ pc \in {"resolve", "build"},
           pc \in {"due", "iterate", "delete"} =>
              slot[s].op = "submit" /\ slot[s].pc \in {"due", "iterate", "delete"},
           pc = "write" => slot[s].op = "cancel",
           pc \notin {"count", "counting"},
           UNCHANGED <<client, troubles, givenUp>>
    PROVE  Served(s) /\ slot'[s].pc = pc
<1> DEFINE h == slot[s]
           r == [h EXCEPT !.pc = pc]
<1>1. h \in Handler /\ Place(h) /\ Knows(h, issued', built', old', jobs', made')
  BY KnowsOn DEF Typed, SlotsOK
<1>2. /\ r \in Handler /\ r.pc = pc
      /\ r.op = h.op /\ r.client = h.client /\ r.waiting = h.waiting /\ r.job = h.job
      /\ r.manager = h.manager /\ r.walked = h.walked /\ r.delete = h.delete /\ r.turn = h.turn
      /\ r.there = h.there /\ r.seen = h.seen /\ r.answer = h.answer
  <2> HIDE DEF h
  <2>. QED BY <1>1, GoesOn
<1>3. slot' = [slot EXCEPT ![s] = r]
  BY DEF Goto
<1>4. slot'[s] = r
  BY <1>3 DEF Typed
<1> HIDE DEF r
<1>5. Place(r)
  <2>1. h.pc \in Places
    BY <1>1 DEF Handler, Places
  <2>2. r.op = "stats" /\ r.pc \in {"resolve", "build", "register", "handle"} => r.turn = 1
    BY <1>1, <1>2, <2>1 DEF Place, Places
  <2>. QED BY <1>1, <1>2, <2>2 DEF Place
<1>6. Knows(r, issued', built', old', jobs', made')
  BY <1>1, <1>2 DEF Knows
<1>. QED BY <1>2, <1>3, <1>4, <1>5, <1>6, SlotMoves

\* A request is answered.
LEMMA RespondServed ==
    ASSUME Typed, SlotsOK, NEW s \in Slot, NEW a \in Answers, Respond(s, a),
           Grows, StoreTyped', StoreOK',
           slot[s].pc # "free", slot[s].manager # 0,
           slot[s].op = "submit" => slot[s].pc \in {"due", "iterate", "delete", "answer"},
           a = "missing" => slot[s].job \in old' \/ built' > 1,
           a \in {"listed", "counted"} => slot[s].there \ slot[s].seen \subseteq old',
           UNCHANGED <<client, troubles, givenUp>>
    PROVE  Served(s) /\ slot'[s].pc = "answer"
<1> DEFINE h == slot[s]
           r == [h EXCEPT !.pc = "answer", !.answer = a]
<1>1. h \in Handler /\ Place(h) /\ Knows(h, issued', built', old', jobs', made')
  BY KnowsOn DEF Typed, SlotsOK
<1>2. /\ r \in Handler /\ r.pc = "answer" /\ r.answer = a
      /\ r.op = h.op /\ r.client = h.client /\ r.waiting = h.waiting /\ r.job = h.job
      /\ r.manager = h.manager /\ r.walked = h.walked /\ r.delete = h.delete /\ r.turn = h.turn
      /\ r.there = h.there /\ r.seen = h.seen
  <2> HIDE DEF h
  <2>. QED BY <1>1, GoesOnAnswered
<1>3. slot' = [slot EXCEPT ![s] = r]
  BY DEF Respond, Typed
<1>4. slot'[s] = r
  BY <1>3 DEF Typed
<1> HIDE DEF r
<1>5. Place(r)
  BY <1>1, <1>2 DEF Place
<1>6. Knows(r, issued', built', old', jobs', made')
  BY <1>1, <1>2 DEF Knows
<1>. QED BY <1>2, <1>3, <1>4, <1>5, <1>6, SlotMoves

(***************************************************************************)
(* Each step of a route.                                                   *)
(***************************************************************************)

\* Each request stands where it may be and knows what it must.
LEMMA Routes ==
    ASSUME SlotsOK, NEW s \in Slot
    PROVE  Place(slot[s]) /\ Knows(slot[s], issued, built, old, jobs, made)
BY DEF SlotsOK

\* Past the container a request has a manager that was built.
LEMMA Managed ==
    ASSUME Typed, SlotsOK, NEW s \in Slot, slot[s].pc \notin {"free", "resolve", "build"}
    PROVE  /\ slot[s].manager # 0 /\ slot[s].manager \in Manager /\ slot[s].manager <= built
           /\ slot[s].client \in Client /\ slot[s] \in Handler
<1>1. slot[s].manager # 0 /\ slot[s].client \in Client /\ slot[s].manager <= built
  BY Routes DEF Place, Knows
<1>. QED BY <1>1 DEF Typed, Handler, Manager

\* The look for the singleton.
LEMMA LookServed ==
    ASSUME Typed, StoreOK, SlotsOK, NEW s \in Slot, Look(s)
    PROVE  Served(s)
<1>1. slot[s].pc = "resolve" /\ UNCHANGED <<Store, client, History>>
  BY DEF Look
<1>2. Grows /\ StoreTyped' /\ StoreOK'
  BY <1>1, StoreStays DEF Typed, Store, History
<1>3. CASE Goto(s, "build")
  <2>1. "build" \in Places \ {"free", "answer"}
    BY DEF Places
  <2>. QED BY <1>1, <1>2, <1>3, <2>1, GotoServed DEF History
<1>4. CASE registered # 0 /\ slot' = [slot EXCEPT ![s].pc = "handle", ![s].manager = registered]
  <2> DEFINE h == slot[s]
             r == [h EXCEPT !.pc = "handle", !.manager = registered]
  <2>1. h \in Handler /\ Place(h) /\ Knows(h, issued', built', old', jobs', made')
    BY <1>2, KnowsOn DEF Typed, SlotsOK
  <2>2. registered \in 0..MaxManagers /\ registered <= built'
    <3>1. built \in 0..MaxManagers /\ registered \in 0..built /\ built' = built
      BY <1>1 DEF Typed, StoreTyped, Store
    <3>. QED BY <3>1, WorkerServiceAssumption
  <2>3. slot' = [slot EXCEPT ![s] = r]
    BY <1>4 DEF Typed
  <2>4. /\ r \in Handler /\ r.pc = "handle"
        /\ r.op = h.op /\ r.client = h.client /\ r.waiting = h.waiting /\ r.job = h.job
        /\ r.manager = registered /\ r.delete = h.delete /\ r.turn = h.turn /\ r.answer = h.answer
    <3> HIDE DEF h
    <3>. QED BY <2>1, <2>2 DEF Handler
  <2> HIDE DEF r
  <2>5. Place(r)
    BY <1>1, <1>4, <2>1, <2>4 DEF Place
  <2>6. Knows(r, issued', built', old', jobs', made')
    BY <1>1, <2>1, <2>2, <2>4 DEF Knows, Place
  <2>. QED BY <1>1, <1>2, <2>3, <2>4, <2>5, <2>6, SlotMoves DEF History
<1>. QED BY <1>3, <1>4 DEF Look

\* The construction of a manager.
LEMMA BuildServed ==
    ASSUME Typed, StoreOK, SlotsOK, NEW s \in Slot, BuildManager(s)
    PROVE  Served(s)
<1>1. /\ slot[s].pc = "build" /\ built' = built + 1 /\ built < MaxManagers
      /\ UNCHANGED <<registered, jobs, issued, old, due, client, made, troubles, givenUp>>
  BY DEF BuildManager, History
<1>2. built \in Nat /\ built' \in 1..MaxManagers
  BY <1>1, WorkerServiceAssumption DEF Typed, StoreTyped
<1>3. Grows
  BY <1>1, <1>2 DEF Grows, Typed, StoreTyped
<1>4. StoreTyped'
  <2>1. registered' \in 0..built' /\ built' \in 0..MaxManagers
    BY <1>1, <1>2 DEF Typed, StoreTyped
  <2>. QED BY <1>1, <2>1 DEF Typed, StoreTyped
<1>5. StoreOK'
  <2>1. built' <= 1 => built <= 1
    BY <1>1, <1>2
  <2>. QED BY <1>1, <2>1 DEF StoreOK
<1> DEFINE h == slot[s]
           r == [h EXCEPT !.pc = "register", !.manager = built + 1]
<1>6. h \in Handler /\ Place(h) /\ Knows(h, issued', built', old', jobs', made')
  BY <1>3, <1>4, KnowsOn DEF Typed, SlotsOK
<1>7. slot' = [slot EXCEPT ![s] = r]
  BY DEF Typed, BuildManager
<1>8. /\ r \in Handler /\ r.pc = "register"
      /\ r.op = h.op /\ r.client = h.client /\ r.waiting = h.waiting /\ r.job = h.job
      /\ r.manager = built + 1 /\ r.delete = h.delete /\ r.turn = h.turn /\ r.answer = h.answer
  <2>1. built + 1 \in 0..MaxManagers
    BY <1>1, <1>2
  <2> HIDE DEF h
  <2>. QED BY <1>6, <2>1 DEF Handler
<1> HIDE DEF r
<1>9. Place(r)
  BY <1>1, <1>2, <1>6, <1>8 DEF Place
<1>10. Knows(r, issued', built', old', jobs', made')
  BY <1>1, <1>2, <1>6, <1>8 DEF Knows, Place
<1>. QED BY <1>1, <1>3, <1>4, <1>5, <1>7, <1>8, <1>9, <1>10, SlotMoves

\* The registration of the manager that was built.
LEMMA RegisterServed ==
    ASSUME Typed, StoreOK, SlotsOK, NEW s \in Slot, Register(s)
    PROVE  Served(s)
<1>1. /\ slot[s].pc = "register" /\ registered' = slot[s].manager /\ Goto(s, "handle")
      /\ UNCHANGED <<built, jobs, issued, old, due, client, made, troubles, givenUp>>
  BY DEF Register, History
<1>2. slot[s].manager # 0 /\ slot[s].manager \in Manager /\ slot[s].manager <= built
  BY <1>1, Managed
<1>3. StoreTyped'
  <2>1. registered' \in 0..built'
    BY <1>1, <1>2 DEF Typed, StoreTyped, Manager
  <2>. QED BY <1>1, <2>1 DEF Typed, StoreTyped
<1>4. Grows
  BY <1>1 DEF Grows, Typed, StoreTyped
<1>5. StoreOK'
  BY <1>1 DEF StoreOK
<1>6. "handle" \in Places \ {"free", "answer"}
  BY DEF Places
<1>. QED BY <1>1, <1>2, <1>3, <1>4, <1>5, <1>6, GotoServed

\* The creation of a job.
LEMMA CreateServed ==
    ASSUME Typed, StoreOK, SlotsOK, NEW s \in Slot, CreateJob(s)
    PROVE  Served(s)
<1> DEFINE h == slot[s]
           j == issued + 1
           m == h.manager
           r == [h EXCEPT !.pc = "due", !.job = j]
<1>1. /\ h.pc = "handle" /\ h.op = "submit" /\ issued < MaxJobs /\ issued' = j
      /\ jobs' = [jobs EXCEPT ![m][j] = "pending"]
      /\ made' = [made EXCEPT ![h.client] = @ \cup {j}]
      /\ UNCHANGED <<built, registered, old, due, client, troubles, givenUp>>
  BY DEF CreateJob
<1>2. issued \in Nat /\ j \in JobId /\ j \notin 1..issued /\ 1..j = (1..issued) \cup {j} /\ j \in 0..MaxJobs
  BY <1>1, WorkerServiceAssumption DEF Typed, StoreTyped, JobId
<1>3. m \in Manager /\ m <= built /\ h.client \in Client /\ h \in Handler
  BY <1>1, Managed
<1>4. /\ jobs' \in [Manager -> [JobId -> {"none", "pending", "cancelled"}]]
      /\ \A n \in Manager, k \in JobId :
            jobs'[n][k] = IF n = m /\ k = j THEN "pending" ELSE jobs[n][k]
  <2> DEFINE st == "pending"
  <2>1. StoreTyped /\ st \in {"none", "pending", "cancelled"} /\ jobs' = [jobs EXCEPT ![m][j] = st]
    BY <1>1 DEF Typed
  <2> HIDE DEF m, j, st
  <2>2. /\ jobs' \in [Manager -> [JobId -> {"none", "pending", "cancelled"}]]
       /\ \A n \in Manager, k \in JobId :
             jobs'[n][k] = IF n = m /\ k = j THEN st ELSE jobs[n][k]
    BY <1>2, <1>3, <2>1 DEF StoreTyped
  <2>. QED BY <2>2 DEF st
<1>5. /\ made' \in [Client -> SUBSET (1..issued')]
      /\ \A c \in Client : made[c] \subseteq made'[c]
      /\ j \in made'[h.client]
  <2> HIDE DEF h, j
  <2>. QED BY <1>1, <1>2, <1>3 DEF Typed, StoreTyped
<1>6. StoreTyped'
  <2>1. old' \subseteq 1..issued'
    BY <1>1, <1>2 DEF Typed, StoreTyped
  <2>. QED BY <1>1, <1>2, <1>4, <1>5, <2>1 DEF Typed, StoreTyped
<1>7. Grows
  <2>1. \A n \in Manager : jobs[n][j] = "none"
    BY <1>2 DEF StoreOK
  <2>2. issued <= issued' /\ built <= built' /\ old \subseteq old'
    BY <1>1, <1>2 DEF Typed, StoreTyped
  <2>3. \A n \in Manager, k \in JobId :
          /\ jobs[n][k] # "none" => jobs'[n][k] # "none"
          /\ jobs[n][k] = "cancelled" => jobs'[n][k] = "cancelled"
    <3> HIDE DEF j
    <3>. QED BY <1>4, <2>1
  <2>. QED BY <1>5, <2>2, <2>3 DEF Grows
<1>8. StoreOK'
  <2>1. ASSUME NEW n \in Manager, NEW k \in JobId, k > issued' PROVE jobs'[n][k] = "none"
    <3>1. k > issued /\ k # j
      BY <1>1, <1>2, <2>1 DEF JobId
    <3>. QED BY <1>4, <3>1 DEF StoreOK
  <2>2. ASSUME built <= 1, NEW k \in 1..issued' PROVE k \in old \/ jobs'[1][k] # "none"
    <3>1. m = 1 /\ 1 \in Manager
      BY <1>3, <2>2 DEF Manager, Typed, StoreTyped
    <3>2. CASE k = j
      BY <1>2, <1>4, <3>1, <3>2
    <3>3. CASE k # j
      <4>1. k \in 1..issued /\ k \in JobId
        BY <1>1, <1>2, <2>2, <3>3, WorkerServiceAssumption DEF JobId
      <4>. QED BY <1>4, <2>2, <3>1, <3>3, <4>1 DEF StoreOK
    <3>. QED BY <3>2, <3>3
  <2>. QED BY <1>1, <2>1, <2>2 DEF StoreOK
<1>9. Place(h) /\ Knows(h, issued', built', old', jobs', made')
  BY <1>3, <1>6, <1>7, KnowsOn DEF SlotsOK
<1>10. slot' = [slot EXCEPT ![s] = r]
  BY DEF Typed, CreateJob
<1>11. /\ r \in Handler /\ r.pc = "due" /\ r.job = j
       /\ r.op = h.op /\ r.client = h.client /\ r.waiting = h.waiting
       /\ r.manager = h.manager /\ r.delete = h.delete /\ r.answer = h.answer
  <2> HIDE DEF h, j
  <2>. QED BY <1>2, <1>3 DEF Handler
<1> HIDE DEF r
<1>12. Place(r)
  BY <1>1, <1>9, <1>11 DEF Place
<1>13. Knows(r, issued', built', old', jobs', made')
  BY <1>1, <1>5, <1>9, <1>11 DEF Knows, Place
<1>. QED BY <1>1, <1>6, <1>7, <1>8, <1>10, <1>11, <1>12, <1>13, SlotMoves

\* The check whether a sweep is due.
LEMMA CleanupServed ==
    ASSUME Typed, StoreOK, SlotsOK, NEW s \in Slot, CleanupIfNeeded(s)
    PROVE  Served(s)
<1> DEFINE h == slot[s]
           n == Stored(h.manager)
           r == [h EXCEPT !.pc = "iterate", !.walked = n]
<1>1. h.pc = "due" /\ UNCHANGED <<Store, client, History>>
  BY DEF CleanupIfNeeded
<1>2. Grows /\ StoreTyped' /\ StoreOK'
  BY <1>1, StoreStays DEF Typed, Store, History
<1>3. h.manager \in Manager /\ h.manager # 0 /\ h \in Handler /\ n \in SUBSET JobId
  BY <1>1, Managed DEF Stored
<1>4. CASE Respond(s, "accepted")
  <2>1. "accepted" \in Answers
    BY DEF Answers
  <2>. QED BY <1>1, <1>2, <1>3, <1>4, <2>1, RespondServed DEF History
<1>5. CASE slot' = [slot EXCEPT ![s].pc = "iterate", ![s].walked = n]
  <2>1. Place(h) /\ Knows(h, issued', built', old', jobs', made')
    BY <1>2, <1>3, KnowsOn DEF SlotsOK
  <2>2. slot' = [slot EXCEPT ![s] = r]
    BY <1>5 DEF Typed
  <2>3. /\ r \in Handler /\ r.pc = "iterate" /\ r.job = h.job
        /\ r.op = h.op /\ r.client = h.client /\ r.waiting = h.waiting
        /\ r.manager = h.manager /\ r.delete = h.delete /\ r.answer = h.answer
    <3> HIDE DEF h, n
    <3>. QED BY <1>3 DEF Handler
  <2> HIDE DEF r
  <2>4. Place(r)
    BY <1>1, <2>1, <2>3 DEF Place
  <2>5. Knows(r, issued', built', old', jobs', made')
    BY <1>1, <2>1, <2>3 DEF Knows, Place
  <2>. QED BY <1>1, <1>2, <2>2, <2>3, <2>4, <2>5, SlotMoves DEF History
<1>. QED BY <1>4, <1>5 DEF CleanupIfNeeded

\* The iteration that collects what is past its retention.
LEMMA CollectServed ==
    ASSUME Typed, StoreOK, SlotsOK, NEW s \in Slot, CollectExpired(s)
    PROVE  Served(s)
<1> DEFINE h == slot[s]
<1>1. h.pc = "iterate" /\ UNCHANGED <<Store, client, History>>
  BY DEF CollectExpired
<1>2. Grows /\ StoreTyped' /\ StoreOK'
  BY <1>1, StoreStays DEF Typed, Store, History
<1>3. h.manager \in Manager /\ h.manager # 0 /\ h \in Handler
  BY <1>1, Managed
<1>4. CASE Respond(s, "error")
  <2>1. "error" \in Answers
    BY DEF Answers
  <2>. QED BY <1>1, <1>2, <1>3, <1>4, <2>1, RespondServed DEF History
<1>5. ASSUME NEW D \in SUBSET (h.walked \cap old),
             slot' = [slot EXCEPT ![s].pc = "delete", ![s].delete = D]
      PROVE  Served(s)
  <2> DEFINE r == [h EXCEPT !.pc = "delete", !.delete = D]
  <2>1. Place(h) /\ Knows(h, issued', built', old', jobs', made')
    BY <1>2, <1>3, KnowsOn DEF SlotsOK
  <2>2. D \subseteq old' /\ D \in SUBSET JobId
    <3>1. D \subseteq old /\ old' = old
      BY <1>1 DEF Store
    <3>2. \A k \in old : k \in 1..issued /\ issued \in 0..MaxJobs
      BY DEF Typed, StoreTyped
    <3>3. old \subseteq JobId
      BY <3>2, WorkerServiceAssumption DEF JobId
    <3>. QED BY <3>1, <3>3
  <2>3. slot' = [slot EXCEPT ![s] = r]
    BY <1>5 DEF Typed
  <2>4. /\ r \in Handler /\ r.pc = "delete" /\ r.job = h.job
        /\ r.op = h.op /\ r.client = h.client /\ r.waiting = h.waiting
        /\ r.manager = h.manager /\ r.delete = D /\ r.answer = h.answer
    <3> HIDE DEF h
    <3>. QED BY <1>3, <2>2 DEF Handler
  <2> HIDE DEF r
  <2>5. Place(r)
    BY <1>1, <2>1, <2>4 DEF Place
  <2>6. Knows(r, issued', built', old', jobs', made')
    BY <1>1, <2>1, <2>2, <2>4 DEF Knows, Place
  <2>. QED BY <1>1, <1>2, <2>3, <2>4, <2>5, <2>6, SlotMoves DEF History
<1>. QED BY <1>4, <1>5 DEF CollectExpired

\* The deletion of what was collected.
LEMMA DeleteServed ==
    ASSUME Typed, StoreOK, SlotsOK, NEW s \in Slot, DeleteExpired(s)
    PROVE  Served(s)
<1> DEFINE h == slot[s]
           m == h.manager
           left == h.delete
           j == CHOOSE k \in left : \A l \in left : k <= l
           r == [h EXCEPT !.delete = left \ {j}]
<1>1. /\ h.pc = "delete"
      /\ UNCHANGED <<built, registered, issued, old, client, made, troubles, givenUp>>
  BY DEF DeleteExpired, History
<1>2. m \in Manager /\ m # 0 /\ h \in Handler /\ left \subseteq JobId
  BY <1>1, Managed DEF Handler
<1>3. Place(h) /\ Knows(h, issued, built, old, jobs, made) /\ left \subseteq old /\ h.op = "submit"
  <2>1. Place(h) /\ Knows(h, issued, built, old, jobs, made)
    BY Routes
  <2>. QED BY <1>1, <2>1 DEF Place, Knows
<1>4. {"error", "accepted"} \subseteq Answers
  BY DEF Answers
<1>5. ASSUME UNCHANGED jobs, due' \in [Manager -> BOOLEAN]
      PROVE  Grows /\ StoreTyped' /\ StoreOK'
  <2>1. Grows
    BY <1>1, <1>5 DEF Grows, Typed, StoreTyped
  <2>2. StoreTyped'
    BY <1>1, <1>5 DEF Typed, StoreTyped
  <2>3. StoreOK'
    BY <1>1, <1>5 DEF StoreOK
  <2>. QED BY <2>1, <2>2, <2>3
<1>6. CASE left = {}
  <2>1. due' = [due EXCEPT ![m] = FALSE] /\ Respond(s, "accepted") /\ UNCHANGED jobs
    BY <1>6 DEF DeleteExpired
  <2>2. due' \in [Manager -> BOOLEAN]
    BY <1>2, <2>1 DEF Typed, StoreTyped
  <2>. QED BY <1>1, <1>2, <1>4, <1>5, <2>1, <2>2, RespondServed
<1>7. CASE left # {} /\ jobs[m][j] = "none"
  <2>1. UNCHANGED due /\ Respond(s, "error") /\ UNCHANGED jobs
    BY <1>7 DEF DeleteExpired
  <2>2. due' \in [Manager -> BOOLEAN]
    BY <2>1 DEF Typed, StoreTyped
  <2>. QED BY <1>1, <1>2, <1>4, <1>5, <2>1, <2>2, RespondServed
<1>8. CASE left # {} /\ jobs[m][j] # "none"
  <2>1. /\ due' = due /\ jobs' = [jobs EXCEPT ![m][j] = "none"]
        /\ slot' = [slot EXCEPT ![s].delete = left \ {j}]
    BY <1>8 DEF DeleteExpired
  <2>2. j \in left
    <3>1. left \in SUBSET Nat
      BY <1>2 DEF JobId
    <3>2. \E k \in left : \A l \in left : k <= l
      BY <1>8, <3>1, Least
    <3>. QED BY <3>2
  <2> HIDE DEF j
  <2>3. j \in JobId /\ j \in old
    BY <1>2, <1>3, <2>2
  <2>4. /\ jobs' \in [Manager -> [JobId -> {"none", "pending", "cancelled"}]]
        /\ \A n \in Manager, k \in JobId :
              jobs'[n][k] = IF n = m /\ k = j THEN "none" ELSE jobs[n][k]
    <3> DEFINE st == "none"
    <3>1. StoreTyped /\ st \in {"none", "pending", "cancelled"} /\ jobs' = [jobs EXCEPT ![m][j] = st]
      BY <2>1 DEF Typed
    <3> HIDE DEF m, st
    <3>2. /\ jobs' \in [Manager -> [JobId -> {"none", "pending", "cancelled"}]]
         /\ \A n \in Manager, k \in JobId :
               jobs'[n][k] = IF n = m /\ k = j THEN st ELSE jobs[n][k]
      BY <1>2, <2>3, <3>1 DEF StoreTyped
    <3>. QED BY <3>2 DEF st
  <2>5. StoreTyped'
    BY <1>1, <2>1, <2>4 DEF Typed, StoreTyped
  <2>6. Grows
    <3>1. issued <= issued' /\ built <= built'
      BY <1>1 DEF Typed, StoreTyped
    <3>. QED BY <1>1, <2>3, <2>4, <3>1 DEF Grows
  <2>7. StoreOK'
    <3>1. \A n \in Manager, k \in JobId : k > issued' => jobs'[n][k] = "none"
      BY <1>1, <2>4 DEF StoreOK
    <3>2. ASSUME built' <= 1, NEW k \in 1..issued' PROVE k \in old' \/ jobs'[1][k] # "none"
      <4>1. 1 \in Manager /\ k \in JobId
        BY <1>1, <3>2, WorkerServiceAssumption DEF Manager, JobId, Typed, StoreTyped
      <4>2. k \in old \/ jobs[1][k] # "none"
        BY <1>1, <3>2 DEF StoreOK
      <4>. QED BY <1>1, <2>3, <2>4, <4>1, <4>2
    <3>. QED BY <3>1, <3>2 DEF StoreOK
  <2>8. Knows(h, issued', built', old', jobs', made')
    BY <1>2, <1>3, <2>5, <2>6, KnowsOn
  <2>9. slot' = [slot EXCEPT ![s] = r]
    BY <2>1 DEF Typed
  <2>10. /\ r \in Handler /\ r.pc = "delete" /\ r.job = h.job
         /\ r.op = h.op /\ r.client = h.client /\ r.waiting = h.waiting
         /\ r.manager = h.manager /\ r.delete = left \ {j} /\ r.answer = h.answer
    <3>1. left \ {j} \in SUBSET JobId
      BY <1>2
    <3> HIDE DEF h, left
    <3>. QED BY <1>1, <1>2, <3>1 DEF Handler
  <2> HIDE DEF r
  <2>11. Place(r)
    BY <1>1, <1>3, <2>10 DEF Place
  <2>12. Knows(r, issued', built', old', jobs', made')
    BY <1>1, <1>3, <2>8, <2>10 DEF Knows, Place
  <2>13. h.pc # "free" /\ r.pc # "free"
    BY <1>1, <2>10
  <2>. QED BY <1>1, <2>5, <2>6, <2>7, <2>9, <2>10, <2>11, <2>12, <2>13, SlotMoves
<1>. QED BY <1>6, <1>7, <1>8

\* A read of one job: it is missing when it was swept, or in another manager.
LEMMA MissingIsSwept ==
    ASSUME Typed, StoreOK, SlotsOK, NEW s \in Slot, slot[s].pc = "handle", slot[s].op # "submit",
           jobs[slot[s].manager][slot[s].job] = "none"
    PROVE  slot[s].job \in old \/ built > 1
<1>1. slot[s].manager \in Manager /\ slot[s].manager <= built /\ slot[s].job \in 1..issued
  <2>1. slot[s].job \in 1..issued
    BY Routes DEF Knows
  <2>. QED BY <2>1, Managed
<1>2. built \in Int
  BY DEF Typed, StoreTyped
<1>3. CASE built <= 1
  <2>1. slot[s].manager = 1
    BY <1>1, <1>2, <1>3 DEF Manager
  <2>. QED BY <1>1, <1>3, <2>1 DEF StoreOK
<1>4. CASE built > 1
  BY <1>4
<1>. QED BY <1>2, <1>3, <1>4

\* The reads of the status and detail routes.
LEMMA ReadServed ==
    ASSUME Typed, StoreOK, SlotsOK, NEW s \in Slot, ReadStatus(s) \/ ReadDetails(s)
    PROVE  Served(s)
<1> DEFINE st == jobs[slot[s].manager][slot[s].job]
           a == IF st = "none" THEN "missing" ELSE st
<1>1. /\ slot[s].pc = "handle" /\ slot[s].op # "submit" /\ UNCHANGED <<Store, client, History>>
      /\ Respond(s, a)
  BY DEF ReadStatus, ReadDetails
<1>2. Grows /\ StoreTyped' /\ StoreOK'
  BY <1>1, StoreStays DEF Typed, Store, History
<1>3. slot[s].manager # 0 /\ slot[s].manager \in Manager
  BY <1>1, Managed
<1>4. st \in {"none", "pending", "cancelled"}
  <2>1. slot[s].job \in JobId
    <3>1. slot[s].job \in 1..issued /\ issued \in 0..MaxJobs
      BY <1>1, Routes DEF Knows, Typed, StoreTyped
    <3>. QED BY <3>1, WorkerServiceAssumption DEF JobId
  <2>. QED BY <1>3, <2>1 DEF Typed, StoreTyped
<1>5. a \in Answers /\ a \notin {"listed", "counted"}
  BY <1>4 DEF Answers
<1>6. a = "missing" => slot[s].job \in old' \/ built' > 1
  <2>1. a = "missing" => st = "none"
    BY <1>4
  <2>2. old' = old /\ built' = built
    BY <1>1 DEF Store
  <2>. QED BY <1>1, <2>1, <2>2, MissingIsSwept
<1> HIDE DEF a
<1>. QED BY <1>1, <1>2, <1>3, <1>5, <1>6, RespondServed DEF History

\* The check of a cancellation.
LEMMA CheckServed ==
    ASSUME Typed, StoreOK, SlotsOK, NEW s \in Slot, CheckCancel(s)
    PROVE  Served(s)
<1> DEFINE st == jobs[slot[s].manager][slot[s].job]
<1>1. slot[s].pc = "handle" /\ slot[s].op = "cancel" /\ UNCHANGED <<Store, client, History>>
  BY DEF CheckCancel
<1>2. Grows /\ StoreTyped' /\ StoreOK'
  BY <1>1, StoreStays DEF Typed, Store, History
<1>3. slot[s].manager # 0
  BY <1>1, Managed
<1>4. \/ st = "none" /\ Respond(s, "missing")
      \/ Respond(s, "conflict")
      \/ Goto(s, "write")
  BY DEF CheckCancel
<1>5. {"missing", "conflict"} \subseteq Answers /\ "write" \in Places \ {"free", "answer"}
  BY DEF Answers, Places
<1>6. st = "none" => slot[s].job \in old' \/ built' > 1
  <2>1. old' = old /\ built' = built
    BY <1>1 DEF Store
  <2>. QED BY <1>1, <2>1, MissingIsSwept
<1> HIDE DEF st
<1>7. CASE st = "none" /\ Respond(s, "missing")
  BY <1>1, <1>2, <1>3, <1>5, <1>6, <1>7, RespondServed DEF History
<1>8. CASE Respond(s, "conflict")
  BY <1>1, <1>2, <1>3, <1>5, <1>8, RespondServed DEF History
<1>9. CASE Goto(s, "write")
  BY <1>1, <1>2, <1>3, <1>5, <1>9, GotoServed DEF History
<1>. QED BY <1>4, <1>7, <1>8, <1>9

\* The write of a cancellation.
LEMMA WriteServed ==
    ASSUME Typed, StoreOK, SlotsOK, NEW s \in Slot, WriteCancelled(s)
    PROVE  Served(s)
<1> DEFINE m == slot[s].manager
           j == slot[s].job
<1>1. /\ slot[s].pc = "write" /\ Respond(s, "cancelled")
      /\ jobs' = [jobs EXCEPT ![m][j] = "cancelled"]
      /\ UNCHANGED <<built, registered, issued, old, due, client, made, troubles, givenUp>>
  BY DEF WriteCancelled, History
<1>2. m \in Manager /\ m # 0 /\ slot[s].op = "cancel"
  BY <1>1, Managed, Routes DEF Place
<1>3. j \in 1..issued /\ issued \in 0..MaxJobs
  BY <1>1, <1>2, Routes DEF Knows, Typed, StoreTyped
<1>4. j \in JobId /\ ~(j > issued) /\ issued \in Int
  BY <1>3, WorkerServiceAssumption DEF JobId
<1>5. /\ jobs' \in [Manager -> [JobId -> {"none", "pending", "cancelled"}]]
      /\ \A n \in Manager, k \in JobId :
            jobs'[n][k] = IF n = m /\ k = j THEN "cancelled" ELSE jobs[n][k]
  <2> DEFINE st == "cancelled"
  <2>1. StoreTyped /\ st \in {"none", "pending", "cancelled"} /\ jobs' = [jobs EXCEPT ![m][j] = st]
    BY <1>1 DEF Typed
  <2> HIDE DEF m, j, st
  <2>2. /\ jobs' \in [Manager -> [JobId -> {"none", "pending", "cancelled"}]]
       /\ \A n \in Manager, k \in JobId :
             jobs'[n][k] = IF n = m /\ k = j THEN st ELSE jobs[n][k]
    BY <1>2, <1>4, <2>1 DEF StoreTyped
  <2>. QED BY <2>2 DEF st
<1> HIDE DEF m, j
<1>6. StoreTyped'
  BY <1>1, <1>5 DEF Typed, StoreTyped
<1>7. Grows
  <2>1. issued <= issued' /\ built <= built'
    BY <1>1 DEF Typed, StoreTyped
  <2>. QED BY <1>1, <1>5, <2>1 DEF Grows
<1>8. StoreOK'
  <2>1. \A n \in Manager, k \in JobId : k > issued' => jobs'[n][k] = "none"
    BY <1>1, <1>4, <1>5 DEF StoreOK
  <2>2. ASSUME built' <= 1, NEW k \in 1..issued' PROVE k \in old' \/ jobs'[1][k] # "none"
    <3>1. 1 \in Manager /\ k \in JobId
      BY <1>1, <2>2, WorkerServiceAssumption DEF Manager, JobId, Typed, StoreTyped
    <3>2. k \in old \/ jobs[1][k] # "none"
      BY <1>1, <2>2 DEF StoreOK
    <3>. QED BY <1>1, <1>5, <3>1, <3>2
  <2>. QED BY <2>1, <2>2 DEF StoreOK
<1>9. "cancelled" \in Answers
  BY DEF Answers
<1>. QED BY <1>1, <1>2, <1>6, <1>7, <1>8, <1>9, RespondServed DEF m

\* What is stored is a set of job ids.
LEMMA StoredIds == \A m \in Manager : Stored(m) \in SUBSET JobId
BY DEF Stored

\* The list of jobs.
LEMMA ListServed ==
    ASSUME Typed, StoreOK, SlotsOK, NEW s \in Slot, ListJobs(s)
    PROVE  Served(s)
<1> DEFINE h == slot[s]
           S == Stored(h.manager)
           b == [h EXCEPT !.pc = "answer", !.answer = "listed"]
           r == [b EXCEPT !.there = S, !.seen = S]
<1>1. h.pc = "handle" /\ h.op = "list" /\ UNCHANGED <<Store, client, History>>
  BY DEF ListJobs
<1>2. Grows /\ StoreTyped' /\ StoreOK'
  BY <1>1, StoreStays DEF Typed, Store, History
<1>3. h.manager \in Manager /\ h.manager # 0 /\ h \in Handler /\ S \in SUBSET JobId
  BY <1>1, Managed, StoredIds
<1>4. Place(h) /\ Knows(h, issued', built', old', jobs', made')
  BY <1>2, <1>3, KnowsOn DEF SlotsOK
<1>5. "listed" \in Answers
  BY DEF Answers
<1>6. /\ b \in Handler /\ b.pc = "answer" /\ b.answer = "listed"
      /\ b.op = h.op /\ b.client = h.client /\ b.waiting = h.waiting /\ b.job = h.job
      /\ b.manager = h.manager /\ b.delete = h.delete
  <2>1. h \in Handler
    BY <1>3
  <2> HIDE DEF h
  <2>. QED BY <2>1, <1>5, GoesOnAnswered, Zenon
<1>7. slot' = [slot EXCEPT ![s] = r]
  BY DEF ListJobs, Listed, Typed
<1>8. /\ r \in Handler /\ r.pc = "answer" /\ r.answer = "listed"
      /\ r.op = h.op /\ r.client = h.client /\ r.waiting = h.waiting /\ r.job = h.job
      /\ r.manager = h.manager /\ r.delete = h.delete /\ r.there = S /\ r.seen = S
  <2> HIDE DEF b, h, S
  <2>. QED BY <1>3, <1>6 DEF Handler
<1> HIDE DEF r, S
<1>9. Place(r)
  BY <1>1, <1>4, <1>8 DEF Place
<1>10. Knows(r, issued', built', old', jobs', made')
  BY <1>1, <1>4, <1>8 DEF Knows, Place
<1>. QED BY <1>1, <1>2, <1>7, <1>8, <1>9, <1>10, SlotMoves DEF History

\* The total of the statistics.
LEMMA StatsServed ==
    ASSUME Typed, StoreOK, SlotsOK, NEW s \in Slot, GetStatistics(s)
    PROVE  Served(s)
<1> DEFINE h == slot[s]
           S == Stored(h.manager)
           r == [h EXCEPT !.pc = "count", !.there = S]
<1>1. h.pc = "handle" /\ h.op = "stats" /\ UNCHANGED <<Store, client, History>>
  BY DEF GetStatistics
<1>2. Grows /\ StoreTyped' /\ StoreOK'
  BY <1>1, StoreStays DEF Typed, Store, History
<1>3. h.manager \in Manager /\ h.manager # 0 /\ h \in Handler /\ S \in SUBSET JobId
  BY <1>1, Managed, StoredIds
<1>4. Place(h) /\ Knows(h, issued', built', old', jobs', made')
  BY <1>2, <1>3, KnowsOn DEF SlotsOK
<1>5. slot' = [slot EXCEPT ![s] = r]
  BY DEF GetStatistics, Typed
<1>6. /\ r \in Handler /\ r.pc = "count" /\ r.job = h.job
      /\ r.op = h.op /\ r.client = h.client /\ r.waiting = h.waiting /\ r.turn = h.turn
      /\ r.manager = h.manager /\ r.delete = h.delete /\ r.there = S /\ r.answer = h.answer
  <2> HIDE DEF h, S
  <2>. QED BY <1>3 DEF Handler
<1>7. \A k \in S : jobs'[h.manager][k] # "none"
  BY <1>1 DEF Stored, Store
<1> HIDE DEF r, S
<1>8. Place(r) /\ r.turn = 1
  BY <1>1, <1>4, <1>6 DEF Place
<1>9. Knows(r, issued', built', old', jobs', made')
  BY <1>1, <1>4, <1>6, <1>7, <1>8 DEF Knows, Place, ToCount
<1>. QED BY <1>1, <1>2, <1>5, <1>6, <1>8, <1>9, SlotMoves DEF History

\* The start of the count of a status.
LEMMA BeginCountServed ==
    ASSUME Typed, StoreOK, SlotsOK, NEW s \in Slot, BeginCount(s)
    PROVE  Served(s)
<1> DEFINE h == slot[s]
           n == Stored(h.manager)
           r == [h EXCEPT !.pc = "counting", !.walked = n]
<1>1. h.pc = "count" /\ UNCHANGED <<Store, client, History>>
  BY DEF BeginCount
<1>2. Grows /\ StoreTyped' /\ StoreOK'
  BY <1>1, StoreStays DEF Typed, Store, History
<1>3. h.manager \in Manager /\ h.manager # 0 /\ h \in Handler /\ n \in SUBSET JobId
  BY <1>1, Managed DEF Stored
<1>4. Place(h) /\ Knows(h, issued', built', old', jobs', made')
  BY <1>2, <1>3, KnowsOn DEF SlotsOK
<1>5. CASE h.turn = 3 /\ Respond(s, "counted")
  <2>1. "counted" \in Answers
    BY DEF Answers
  <2>2. h.there \ h.seen \subseteq old' /\ h.op # "submit"
    BY <1>1, <1>4, <1>5 DEF Knows, Place, ToCount
  <2>. QED BY <1>1, <1>2, <1>3, <1>5, <2>1, <2>2, RespondServed DEF History
<1>6. CASE h.turn # 3 /\ slot' = [slot EXCEPT ![s].pc = "counting", ![s].walked = n]
  <2>1. slot' = [slot EXCEPT ![s] = r]
    BY <1>6 DEF Typed
  <2>2. /\ r \in Handler /\ r.pc = "counting" /\ r.job = h.job /\ r.turn = h.turn
        /\ r.op = h.op /\ r.client = h.client /\ r.waiting = h.waiting /\ r.there = h.there
        /\ r.manager = h.manager /\ r.delete = h.delete /\ r.seen = h.seen /\ r.answer = h.answer
    <3> HIDE DEF h, n
    <3>. QED BY <1>3 DEF Handler
  <2> HIDE DEF r
  <2>3. Place(r)
    BY <1>1, <1>4, <1>6, <2>2 DEF Place
  <2>4. Knows(r, issued', built', old', jobs', made')
    BY <1>1, <1>4, <2>2 DEF Knows, Place, ToCount
  <2>. QED BY <1>1, <1>2, <2>1, <2>2, <2>3, <2>4, SlotMoves DEF History
<1>. QED BY <1>5, <1>6 DEF BeginCount

\* A job cancelled after "pending" was counted is counted under "cancelled".
LEMMA EndCountServed ==
    ASSUME Typed, StoreOK, SlotsOK, NEW s \in Slot, EndCount(s)
    PROVE  Served(s)
<1> DEFINE h == slot[s]
           of == {j \in JobId : jobs[h.manager][j] = Counted(h.turn)}
           r == [h EXCEPT !.pc = "count", !.turn = h.turn + 1, !.seen = h.seen \cup of]
<1>1. h.pc = "counting" /\ UNCHANGED <<Store, client, History>>
  BY DEF EndCount
<1>2. Grows /\ StoreTyped' /\ StoreOK'
  BY <1>1, StoreStays DEF Typed, Store, History
<1>3. h.manager \in Manager /\ h.manager # 0 /\ h \in Handler
  BY <1>1, Managed
<1>4. Place(h) /\ Knows(h, issued', built', old', jobs', made')
  BY <1>2, <1>3, KnowsOn DEF SlotsOK
<1>5. h.op = "stats" /\ h.turn \in {1, 2}
  BY <1>1, <1>3, <1>4 DEF Place, Handler
<1>6. CASE Respond(s, "error")
  <2>1. "error" \in Answers
    BY DEF Answers
  <2>. QED BY <1>1, <1>2, <1>3, <1>5, <1>6, <2>1, RespondServed DEF History
<1>7. CASE slot' = [slot EXCEPT ![s].pc = "count", ![s].turn = @ + 1, ![s].seen = @ \cup of]
  <2>1. slot' = [slot EXCEPT ![s] = r]
    BY <1>7 DEF Typed
  <2>2. /\ r \in Handler /\ r.pc = "count" /\ r.job = h.job /\ r.turn = h.turn + 1
        /\ r.op = h.op /\ r.client = h.client /\ r.waiting = h.waiting /\ r.there = h.there
        /\ r.manager = h.manager /\ r.delete = h.delete /\ r.seen = h.seen \cup of
        /\ r.answer = h.answer
    <3>1. h.turn + 1 \in 1..3 /\ of \in SUBSET JobId
      BY <1>5
    <3>2. h.seen \cup of \in SUBSET JobId
      BY <1>3, <3>1 DEF Handler
    <3> HIDE DEF h, of
    <3>. QED BY <1>3, <3>1, <3>2 DEF Handler
  <2>3. h.there \subseteq JobId
    BY <1>3 DEF Handler
  <2>4. ASSUME NEW k \in h.there
        PROVE  k \in r.seen \/ k \in old' \/ ToCount(r, jobs'[r.manager][k])
    <3> DEFINE st == jobs[h.manager][k]
    <3>1. k \in JobId /\ jobs' = jobs /\ st \in {"none", "pending", "cancelled"}
      BY <1>1, <1>3, <2>3 DEF Store, Typed, StoreTyped
    <3>2. k \in h.seen \/ k \in old' \/ ToCount(h, st)
      BY <1>1, <1>4, <3>1 DEF Knows
    <3>3. ASSUME ToCount(h, st) PROVE st = Counted(h.turn) \/ (h.turn = 1 /\ st = "cancelled")
      BY <1>5, <3>1, <3>3 DEF ToCount, Counted
    <3>4. st = Counted(h.turn) => k \in of
      BY <3>1
    <3>5. h.turn = 1 /\ st = "cancelled" => ToCount(r, jobs'[r.manager][k])
      BY <2>2, <3>1 DEF ToCount
    <3> HIDE DEF of, st, r
    <3>. QED BY <2>2, <3>2, <3>3, <3>4, <3>5
  <2> HIDE DEF r
  <2>5. Place(r)
    BY <1>1, <1>4, <2>2 DEF Place
  <2>6. Knows(r, issued', built', old', jobs', made')
    BY <1>1, <1>4, <1>5, <2>2, <2>4 DEF Knows, Place
  <2>. QED BY <1>1, <1>2, <2>1, <2>2, <2>5, <2>6, SlotMoves DEF History
<1>. QED BY <1>6, <1>7 DEF EndCount

(***************************************************************************)
(* The inductive invariant, and what a step of a route leaves of it.       *)
(***************************************************************************)

IInv == Typed /\ StoreOK /\ SlotsOK /\ Waits /\ Clients /\ Accounted

\* A step of a route keeps all parts but the accounts.
LEMMA ServedKeeps ==
    ASSUME IInv, NEW s \in Slot, Served(s)
    PROVE  Typed' /\ StoreOK' /\ SlotsOK' /\ Waits' /\ Clients'
<1>1. Typed'
  BY DEF IInv, Typed, Served, OthersStay
<1>2. StoreOK'
  BY DEF Served
<1>3. SlotsOK'
  <2>1. ASSUME NEW u \in Slot, u # s
        PROVE  Place(slot'[u]) /\ Knows(slot'[u], issued', built', old', jobs', made')
    <3>1. slot'[u] = slot[u] /\ slot[u] \in Handler
      BY <2>1 DEF Served, OthersStay, IInv, Typed
    <3>2. Place(slot[u]) /\ Knows(slot[u], issued, built, old, jobs, made)
      BY DEF IInv, SlotsOK
    <3>. QED BY <3>1, <3>2, KnowsOn DEF Served, IInv
  <2>. QED BY <2>1 DEF SlotsOK, Served
<1>4. /\ \A u \in Slot : slot'[u].op = slot[u].op /\ slot'[u].client = slot[u].client
                          /\ slot'[u].waiting = slot[u].waiting
      /\ client' = client
  BY DEF Served, OthersStay
<1>5. Waits'
  BY <1>4 DEF IInv, Waits
<1>6. Clients'
  BY DEF IInv, Clients, Served, Grows
<1>. QED BY <1>1, <1>2, <1>3, <1>5, <1>6

Early == {"resolve", "build", "register", "handle"}

\* It keeps the accounts too when it makes no job, and is not the one
\* that takes a submission past its creation.
LEMMA ServedAccounts ==
    ASSUME IInv, NEW s \in Slot, Served(s), UNCHANGED made,
           slot[s].op = "submit" => (slot[s].pc \in Early <=> slot'[s].pc \in Early)
    PROVE  Accounted'
<1>1. ASSUME NEW c \in Client PROVE Making(c)' = Making(c) /\ Attempts(c)' = Attempts(c)
  <2>1. \A u \in Slot : u \in Making(c) <=> u \in Making(c)'
    BY DEF Served, OthersStay, Making, Early
  <2>2. Making(c)' \subseteq Slot /\ Making(c) \subseteq Slot
    BY DEF Making
  <2>3. Attempts(c)' = Attempts(c)
    BY DEF Served, Attempts
  <2>. QED BY <2>1, <2>2, <2>3
<1>. QED BY <1>1 DEF IInv, Accounted

\* A job made for an attempt is one attempt less in the making.
LEMMA CreateAccounts ==
    ASSUME IInv, NEW s \in Slot, CreateJob(s)
    PROVE  Accounted'
<1> DEFINE j == issued + 1
<1>1. Served(s)
  BY CreateServed DEF IInv
<1>2. PICK d \in Client : slot[s].client = d
  BY Managed DEF IInv, CreateJob
<1>3. /\ slot[s].pc = "handle" /\ slot[s].op = "submit" /\ slot'[s].pc = "due"
      /\ made' = [made EXCEPT ![d] = @ \cup {j}]
      /\ UNCHANGED <<client, troubles>>
  BY <1>2 DEF CreateJob, IInv, Typed, Handler
<1>4. Making(d)' = Making(d) \ {s} /\ s \in Making(d)
  <2>1. \A u \in Slot : u \in Making(d)' <=> u \in Making(d) /\ u # s
    BY <1>1, <1>2, <1>3 DEF Served, OthersStay, Making
  <2>2. Making(d)' \subseteq Slot /\ Making(d) \subseteq Slot /\ s \in Making(d)
    BY <1>2, <1>3 DEF Making
  <2>. QED BY <2>1, <2>2
<1>5. ASSUME NEW c \in Client, c # d PROVE Making(c)' = Making(c)
  <2>1. \A u \in Slot : u \in Making(c)' <=> u \in Making(c)
    BY <1>1, <1>2, <1>5 DEF Served, OthersStay, Making
  <2>2. Making(c)' \subseteq Slot /\ Making(c) \subseteq Slot
    BY DEF Making
  <2>. QED BY <2>1, <2>2
<1>6. \A c \in Client : Attempts(c)' = Attempts(c)
  BY <1>3 DEF Attempts
<1>7. \A c \in Client : IsFiniteSet(made[c]) /\ Cardinality(made[c]) \in Nat
  <2>1. IsFiniteSet(1..issued)
    BY FS_Interval DEF IInv, Typed, StoreTyped
  <2>2. \A c \in Client : made[c] \in SUBSET (1..issued)
    BY DEF IInv, Typed, StoreTyped
  <2>. QED BY <2>1, <2>2, FS_Subset, FS_CardinalityType
<1>8. j \notin made[d]
  BY DEF IInv, Typed, StoreTyped
<1>9. Cardinality(made'[d]) = Cardinality(made[d]) + 1
  <2>1. made'[d] = made[d] \cup {j}
    BY <1>3, <1>3 DEF IInv, Typed, StoreTyped
  <2> HIDE DEF j
  <2>. QED BY <1>7, <1>8, <2>1, FS_AddElement
<1>10. \A c \in Client : c # d => made'[c] = made[c]
  BY <1>3 DEF IInv, Typed, StoreTyped
<1>11. /\ IsFiniteSet(Making(d)) /\ IsFiniteSet(Making(d)')
       /\ Cardinality(Making(d)) \in Nat
       /\ Cardinality(Making(d)') = Cardinality(Making(d)) - 1
  <2>1. IsFiniteSet(Making(d))
    BY DEF IInv, Accounted
  <2>. QED BY <2>1, <1>4, FS_RemoveElement, FS_CardinalityType
<1>12. \A c \in Client : Attempts(c) \in Int
  BY DEF Attempts, IInv, Typed
<1>13. Cardinality(made[d]) + Cardinality(Making(d)) <= Attempts(d)
  BY DEF IInv, Accounted
<1>14. IsFiniteSet(Making(d)') /\ Cardinality(made'[d]) + Cardinality(Making(d)') <= Attempts(d)'
  <2>1. Cardinality(made'[d]) + Cardinality(Making(d)')
          = Cardinality(made[d]) + Cardinality(Making(d))
    BY <1>7, <1>9, <1>11
  <2>2. Attempts(d)' = Attempts(d)
    BY <1>6
  <2>. QED BY <1>11, <1>13, <2>1, <2>2
<1>15. ASSUME NEW c \in Client, c # d
       PROVE  IsFiniteSet(Making(c)') /\ Cardinality(made'[c]) + Cardinality(Making(c)') <= Attempts(c)'
  BY <1>5, <1>6, <1>10, <1>15 DEF IInv, Accounted
<1>16. ASSUME NEW c \in Client
       PROVE  IsFiniteSet(Making(c)') /\ Cardinality(made'[c]) + Cardinality(Making(c)') <= Attempts(c)'
  <2>1. CASE c = d
    BY <1>14, <2>1
  <2>2. CASE c # d
    BY <1>15, <2>2
  <2>. QED BY <2>1, <2>2
<1>. QED BY <1>16 DEF Accounted

(***************************************************************************)
(* Every step of a route but the answer's.                                 *)
(***************************************************************************)

\* Steps before a job can be made.
LEMMA EarlySteps ==
    ASSUME IInv, NEW s \in Slot, Look(s) \/ BuildManager(s) \/ Register(s)
    PROVE  IInv'
<1>1. Served(s)
  BY LookServed, BuildServed, RegisterServed DEF IInv
<1>2. UNCHANGED made /\ slot[s].pc \in Early /\ slot'[s].pc \in Early
  BY DEF Look, BuildManager, Register, Goto, History, Early, IInv, Typed, Handler
<1>. QED BY <1>1, <1>2, ServedKeeps, ServedAccounts DEF IInv

\* Steps after a job was made, and counts.
LEMMA LateSteps ==
    ASSUME IInv, NEW s \in Slot,
           \/ CleanupIfNeeded(s) \/ CollectExpired(s) \/ DeleteExpired(s)
           \/ BeginCount(s) \/ EndCount(s)
    PROVE  IInv'
<1>1. Served(s)
  BY CleanupServed, CollectServed, DeleteServed, BeginCountServed, EndCountServed DEF IInv
<1>2. UNCHANGED made /\ slot[s].pc \notin Early
  BY DEF CleanupIfNeeded, CollectExpired, DeleteExpired, BeginCount, EndCount, History, Early
<1>3. slot'[s].pc \notin Early
  <2>1. CASE CleanupIfNeeded(s)
    BY <2>1 DEF CleanupIfNeeded, Respond, Early, IInv, Typed, Handler
  <2>2. CASE CollectExpired(s)
    BY <2>2 DEF CollectExpired, Respond, Early, IInv, Typed, Handler
  <2>3. CASE DeleteExpired(s)
    BY <2>3 DEF DeleteExpired, Respond, Early, IInv, Typed, Handler
  <2>4. CASE BeginCount(s)
    BY <2>4 DEF BeginCount, Respond, Early, IInv, Typed, Handler
  <2>5. CASE EndCount(s)
    BY <2>5 DEF EndCount, Respond, Early, IInv, Typed, Handler
  <2>. QED BY <2>1, <2>2, <2>3, <2>4, <2>5
<1>. QED BY <1>1, <1>2, <1>3, ServedKeeps, ServedAccounts DEF IInv

\* Steps of the routes that make no job.
LEMMA ReadSteps ==
    ASSUME IInv, NEW s \in Slot,
           \/ ReadStatus(s) \/ CheckCancel(s) \/ WriteCancelled(s) \/ ReadDetails(s)
           \/ ListJobs(s) \/ GetStatistics(s)
    PROVE  IInv'
<1>1. Served(s)
  BY ReadServed, CheckServed, WriteServed, ListServed, StatsServed DEF IInv
<1>2. UNCHANGED made
  BY DEF ReadStatus, CheckCancel, WriteCancelled, ReadDetails, ListJobs, GetStatistics, History
<1>3. slot[s].op # "submit"
  <2>1. slot[s].pc = "write" => slot[s].op = "cancel"
    BY DEF IInv, SlotsOK, Place
  <2>. QED BY <2>1 DEF ReadStatus, CheckCancel, WriteCancelled, ReadDetails, ListJobs, GetStatistics
<1>. QED BY <1>1, <1>2, <1>3, ServedKeeps, ServedAccounts DEF IInv

\* The step that makes a job: one request to make it less, one job more.
LEMMA CreateStep ==
    ASSUME IInv, NEW s \in Slot, CreateJob(s)
    PROVE  IInv'
BY CreateServed, ServedKeeps, CreateAccounts DEF IInv

(***************************************************************************)
(* The steps of a client between its requests.                             *)
(***************************************************************************)

\* A step of a client leaves the store alone.
LEMMA StoreKept ==
    ASSUME IInv, UNCHANGED Store, UNCHANGED made
    PROVE  StoreTyped' /\ StoreOK' /\ Grows
BY StoreStays DEF IInv, Typed, Store

\* A client that waits for nothing goes on, with a try per trouble.
LEMMA ClientMoves ==
    ASSUME IInv, NEW c \in Client, NEW q \in ClientState,
           client' = [client EXCEPT ![c] = q], UNCHANGED <<Store, slot, History>>,
           client[c].pc # "waiting", q.job = client[c].job,
           q.op # "submit" => q.job # 0,
           q.op = "submit" /\ q.pc # "rest" => troubles[c] <= q.tries,
           q.op = "submit" /\ q.pc \in {"new", "ready"} =>
              client[c].op = "submit" /\ client[c].pc \in {"new", "ready"}
    PROVE  IInv'
<1>1. StoreTyped' /\ StoreOK'
  BY StoreKept DEF History
<1>2. Typed'
  BY <1>1 DEF IInv, Typed, History
<1>3. SlotsOK'
  BY DEF IInv, SlotsOK, Store, History
<1>4. client'[c] = q /\ \A d \in Client : d # c => client'[d] = client[d]
  BY DEF IInv, Typed
<1>5. Waits'
  <2>1. \A u \in Slot : slot[u].waiting => slot[u].client \in Client /\ slot[u].client # c
    BY DEF IInv, Waits, SlotsOK, Place
  <2>. QED BY <1>4, <2>1 DEF IInv, Waits
<1>6. Clients'
  BY <1>4 DEF IInv, Clients, History
<1>7. Accounted'
  <2>1. ASSUME NEW d \in Client
        PROVE  /\ IsFiniteSet(Making(d)')
               /\ Cardinality(made'[d]) + Cardinality(Making(d)') <= Attempts(d)'
    <3>1. Making(d)' = Making(d) /\ made' = made
      BY DEF Making, History
    <3>2. IsFiniteSet(Making(d)) /\ Cardinality(made[d]) + Cardinality(Making(d)) <= Attempts(d)
      BY DEF IInv, Accounted
    <3>3. Cardinality(made[d]) \in Int /\ Cardinality(Making(d)) \in Int
      <4>1. IsFiniteSet(made[d])
        <5>1. IsFiniteSet(1..issued) /\ made[d] \in SUBSET (1..issued)
          BY FS_Interval DEF IInv, Typed, StoreTyped
        <5>. QED BY <5>1, FS_Subset
      <4>. QED BY <3>2, <4>1, FS_CardinalityType
    <3>4. Attempts(d) \in Int /\ Attempts(d)' \in Int /\ Attempts(d) <= Attempts(d)'
      BY <1>4 DEF Attempts, IInv, Typed, History
    <3>. QED BY <3>1, <3>2, <3>3, <3>4
  <2>. QED BY <2>1 DEF Accounted
<1>. QED BY <1>1, <1>2, <1>3, <1>5, <1>6, <1>7 DEF IInv

\* A client starts a submission.
LEMMA SubmitStep ==
    ASSUME IInv, NEW c \in Client, Submit(c)
    PROVE  IInv'
<1> DEFINE x == client[c]
           q == [x EXCEPT !.pc = "ready"]
<1>1. x \in ClientState /\ x.pc = "new" /\ UNCHANGED <<Store, slot, History>>
  BY DEF IInv, Typed, Submit
<1>2. q \in ClientState /\ q.pc = "ready" /\ q.op = x.op /\ q.job = x.job /\ q.tries = x.tries
  <2> HIDE DEF x
  <2>. QED BY <1>1 DEF ClientState
<1>3. client' = [client EXCEPT ![c] = q]
  BY DEF Submit, IInv, Typed
<1>4. (x.op # "submit" => x.job # 0) /\ (x.op = "submit" => troubles[c] <= x.tries)
  BY <1>1 DEF IInv, Clients
<1> HIDE DEF q
<1>. QED BY <1>1, <1>2, <1>3, <1>4, ClientMoves

\* A client starts another call.
LEMMA CallStep ==
    ASSUME IInv, NEW c \in Client, NEW op \in CallOps, Call(c, op)
    PROVE  IInv'
<1> DEFINE x == client[c]
           b == [x EXCEPT !.pc = "ready", !.op = op]
           q == [b EXCEPT !.calls = x.calls + 1, !.outcome = "none"]
<1>1. /\ x \in ClientState /\ x.pc = "rest" /\ x.job # 0 /\ x.calls < MaxCalls
      /\ UNCHANGED <<Store, slot, History>>
  BY DEF IInv, Typed, Call
<1>2. b \in ClientState /\ b.pc = "ready" /\ b.op = op /\ b.job = x.job
  <2> HIDE DEF x
  <2>. QED BY <1>1 DEF ClientState
<1>3. q \in ClientState /\ q.pc = "ready" /\ q.op = op /\ q.job = x.job
  <2>1. x.calls + 1 \in 0..MaxCalls
    BY <1>1, WorkerServiceAssumption DEF ClientState
  <2> HIDE DEF x, b
  <2>. QED BY <1>2, <2>1 DEF ClientState
<1>4. client' = [client EXCEPT ![c] = q]
  BY DEF Call, IInv, Typed
<1>5. op # "submit"
  BY DEF CallOps, Reads
<1> HIDE DEF q
<1>. QED BY <1>1, <1>3, <1>4, <1>5, ClientMoves

\* A call that ends.
LEMMA EndedCall ==
    ASSUME NEW x \in ClientState, NEW o \in {"returned", "raised"}
    PROVE  LET q == [x EXCEPT !.pc = "rest", !.tries = 0, !.elapsed = 0, !.outcome = o] IN
           q \in ClientState /\ q.pc = "rest" /\ q.op = x.op /\ q.job = x.job
<1>1. 0 \in 0..Retries /\ 0 \in 0..Timeout + 1
  BY WorkerServiceAssumption
<1>. QED BY <1>1 DEF ClientState

\* A client gives up polling at its deadline.
LEMMA GiveUpPollingStep ==
    ASSUME IInv, NEW c \in Client, GiveUpPolling(c)
    PROVE  IInv'
<1> DEFINE x == client[c]
           q == [x EXCEPT !.pc = "rest", !.tries = 0, !.elapsed = 0, !.outcome = "raised"]
<1>1. x \in ClientState /\ x.pc = "ready" /\ UNCHANGED <<Store, slot, History>>
  BY DEF IInv, Typed, GiveUpPolling
<1>2. q \in ClientState /\ q.pc = "rest" /\ q.op = x.op /\ q.job = x.job
  <2> HIDE DEF x
  <2>. QED BY <1>1, EndedCall
<1>3. client' = [client EXCEPT ![c] = q]
  BY DEF GiveUpPolling, Ended, IInv, Typed
<1>4. x.op # "submit" => x.job # 0
  BY DEF IInv, Clients
<1> HIDE DEF q
<1>. QED BY <1>1, <1>2, <1>3, <1>4, ClientMoves

\* Jobs get past the retention.
LEMMA DaysStep ==
    ASSUME IInv, DaysPass
    PROVE  IInv'
<1>1. /\ old' = old \cup {j \in JobId : \E m \in Manager : jobs[m][j] = "cancelled"}
      /\ due' = [m \in Manager |-> m <= built]
      /\ UNCHANGED <<built, registered, jobs, issued, slot, client, made, troubles, givenUp>>
  BY DEF DaysPass, History
<1>2. old \subseteq old' /\ old' \subseteq 1..issued
  <2>1. ASSUME NEW j \in JobId, NEW m \in Manager, jobs[m][j] = "cancelled" PROVE j \in 1..issued
    <3>1. ~(j > issued) /\ issued \in Int /\ j \in Nat \ {0}
      BY <2>1 DEF IInv, StoreOK, Typed, StoreTyped, JobId
    <3>. QED BY <3>1
  <2>. QED BY <1>1, <2>1 DEF IInv, Typed, StoreTyped
<1>3. StoreTyped'
  <2>1. due' \in [Manager -> BOOLEAN]
    <3>1. \A m \in Manager : (m <= built) \in BOOLEAN
      OBVIOUS
    <3>. QED BY <1>1, <3>1
  <2>. QED BY <1>1, <1>2, <2>1 DEF IInv, Typed, StoreTyped
<1>4. Typed'
  BY <1>1, <1>3 DEF IInv, Typed
<1>5. StoreOK'
  BY <1>1, <1>2 DEF IInv, StoreOK
<1>6. Grows
  BY <1>1, <1>2 DEF Grows, IInv, Typed, StoreTyped
<1>7. SlotsOK'
  <2>1. ASSUME NEW u \in Slot
        PROVE  Place(slot'[u]) /\ Knows(slot'[u], issued', built', old', jobs', made')
    <3>1. slot'[u] = slot[u] /\ slot[u] \in Handler
      BY <1>1 DEF IInv, Typed
    <3>2. Place(slot[u]) /\ Knows(slot[u], issued, built, old, jobs, made)
      BY DEF IInv, SlotsOK
    <3>. QED BY <1>3, <1>6, <3>1, <3>2, KnowsOn DEF IInv
  <2>. QED BY <2>1 DEF SlotsOK
<1>8. Waits' /\ Clients'
  BY <1>1 DEF IInv, Waits, Clients
<1>9. Accounted'
  BY <1>1 DEF IInv, Accounted, Making, Attempts
<1>. QED BY <1>4, <1>5, <1>7, <1>8, <1>9 DEF IInv

\* What the accounts are about are numbers.
LEMMA Sizes ==
    ASSUME IInv, NEW c \in Client
    PROVE  /\ Cardinality(made[c]) \in Nat
           /\ IsFiniteSet(Making(c)) /\ Cardinality(Making(c)) \in Nat
           /\ Attempts(c) \in Int
           /\ Cardinality(made[c]) + Cardinality(Making(c)) <= Attempts(c)
<1>1. IsFiniteSet(Making(c)) /\ Cardinality(made[c]) + Cardinality(Making(c)) <= Attempts(c)
  BY DEF IInv, Accounted
<1>2. IsFiniteSet(made[c])
  <2>1. IsFiniteSet(1..issued) /\ made[c] \in SUBSET (1..issued)
    BY FS_Interval DEF IInv, Typed, StoreTyped
  <2>. QED BY <2>1, FS_Subset
<1>3. Attempts(c) \in Int
  BY DEF Attempts, IInv, Typed
<1>. QED BY <1>1, <1>2, <1>3, FS_CardinalityType

\* The request a client sends.
Request(c, op) ==
    [Free EXCEPT !.pc = "resolve", !.client = c, !.waiting = TRUE, !.job = client[c].job, !.op = op]

\* A request as it arrives at the server.
LEMMA RequestTyped ==
    ASSUME NEW c \in Client, client[c].job \in 0..MaxJobs, NEW op \in Op
    PROVE  /\ Request(c, op) \in Handler /\ Request(c, op).pc = "resolve"
           /\ Request(c, op).client = c /\ Request(c, op).waiting
           /\ Request(c, op).job = client[c].job /\ Request(c, op).op = op
           /\ Request(c, op).manager = 0 /\ Request(c, op).delete = {}
           /\ Request(c, op).turn = 1 /\ Request(c, op).answer = "none"
<1>1. "none" \in Answers /\ 0 \in 0..MaxJobs /\ 0 \in 0..MaxManagers /\ 1 \in 1..3
  BY WorkerServiceAssumption DEF Answers
<1>. QED BY <1>1 DEF Request, Free, Handler

\* A client sends its request: one to make a job more, within the attempts.
LEMMA SendStep ==
    ASSUME IInv, NEW c \in Client, Send(c)
    PROVE  IInv'
<1> DEFINE x == client[c]
<1>1. PICK s \in Slot : s = AnyOf({u \in Slot : slot[u].pc = "free"}) /\ slot[s].pc = "free"
  BY DEF Send, AnyOf
<1>2. PICK op : op = RouteOf(x.op)
  OBVIOUS
<1>3. PICK r : r = Request(c, op)
  OBVIOUS
<1>4. x \in ClientState /\ x.pc = "ready" /\ UNCHANGED <<Store, made, troubles, givenUp>>
  BY DEF Send, IInv, Typed, History
<1>5. op \in Op /\ (op = "submit" <=> x.op = "submit")
  BY <1>2, <1>4 DEF RouteOf, Op, ClientState, CallOps, Reads
<1>6. slot' = [slot EXCEPT ![s] = r]
  BY <1>1, <1>2, <1>3 DEF Send, Request, RouteOf
<1>7. client' = [client EXCEPT ![c].pc = "waiting"]
  BY DEF Send
<1>8. /\ r \in Handler /\ r.pc = "resolve" /\ r.client = c /\ r.waiting /\ r.job = x.job
      /\ r.op = op /\ r.manager = 0 /\ r.delete = {} /\ r.turn = 1 /\ r.answer = "none"
  <2>1. x.job \in 0..MaxJobs
    BY <1>4 DEF ClientState
  <2>. QED BY <1>3, <1>5, <2>1, RequestTyped
<1>9. StoreTyped' /\ StoreOK'
  BY <1>4, StoreKept
<1>10. /\ slot'[s] = r /\ \A u \in Slot : u # s => slot'[u] = slot[u]
       /\ slot' \in [Slot -> Handler]
  BY <1>6, <1>8 DEF IInv, Typed
<1>11. /\ client' \in [Client -> ClientState]
       /\ client'[c].pc = "waiting" /\ client'[c].op = x.op /\ client'[c].job = x.job
       /\ client'[c].tries = x.tries
       /\ \A d \in Client : d # c => client'[d] = client[d]
  BY <1>4, <1>7 DEF IInv, Typed, ClientState
<1>12. Typed'
  BY <1>4, <1>9, <1>10, <1>11 DEF IInv, Typed
<1>13. SlotsOK'
  <2>1. Place(r)
    BY <1>8 DEF Place
  <2>2. op # "submit" => x.job \in 1..issued
    BY <1>5 DEF IInv, Clients, Typed, StoreTyped
  <2>3. Knows(r, issued', built', old', jobs', made')
    BY <1>4, <1>8, <2>2 DEF Knows, Store, IInv, Typed, StoreTyped
  <2>4. \A u \in Slot : u # s =>
           Place(slot'[u]) /\ Knows(slot'[u], issued', built', old', jobs', made')
    BY <1>4, <1>10 DEF IInv, SlotsOK, Store
  <2>. QED BY <1>10, <2>1, <2>3, <2>4 DEF SlotsOK
<1>14. Waits'
  <2>1. \A u \in Slot : slot[u].waiting => slot[u].client \in Client /\ slot[u].client # c
    BY <1>4 DEF IInv, Waits, SlotsOK, Place
  <2>. QED BY <1>2, <1>8, <1>10, <1>11, <2>1 DEF IInv, Waits
<1>15. Clients'
  BY <1>4, <1>11 DEF IInv, Clients
<1>16. ASSUME NEW d \in Client
       PROVE  /\ IsFiniteSet(Making(d)')
              /\ Cardinality(made'[d]) + Cardinality(Making(d)') <= Attempts(d)'
  <2>1. s \notin Making(d) /\ Making(d) \subseteq Slot /\ Making(d)' \subseteq Slot
    BY <1>1 DEF Making
  <2>2. CASE d = c /\ x.op = "submit"
    <3>1. \A u \in Slot : u \in Making(d)' <=> u \in Making(d) \/ u = s
      BY <1>5, <1>8, <1>10, <2>2 DEF Making
    <3>2. Making(d)' = Making(d) \cup {s}
      BY <2>1, <3>1
    <3>3. IsFiniteSet(Making(d)') /\ Cardinality(Making(d)') = Cardinality(Making(d)) + 1
      BY <2>1, <3>2, Sizes, FS_AddElement
    <3>4. Attempts(d)' = Attempts(d) + 1
      BY <1>4, <1>11, <2>2 DEF Attempts
    <3>. QED BY <1>4, <3>3, <3>4, Sizes
  <2>3. CASE d # c \/ x.op # "submit"
    <3>1. \A u \in Slot : u \in Making(d)' <=> u \in Making(d)
      BY <1>1, <1>5, <1>8, <1>10, <2>3 DEF Making
    <3>2. Making(d)' = Making(d)
      BY <2>1, <3>1
    <3>3. Attempts(d)' = Attempts(d)
      BY <1>4, <1>11, <2>3 DEF Attempts
    <3>. QED BY <1>4, <3>2, <3>3, Sizes
  <2>. QED BY <2>2, <2>3
<1>17. Accounted'
  BY <1>16 DEF Accounted
<1>. QED BY <1>9, <1>12, <1>13, <1>14, <1>15, <1>17 DEF IInv

(***************************************************************************)
(* A client stops waiting for a request: it is answered, or given up.      *)
(***************************************************************************)

\* The store is left alone, and only the request s changes.
Released(s) ==
    /\ StoreTyped' /\ StoreOK' /\ SlotsOK' /\ UNCHANGED made
    /\ OthersStay(s) /\ ~slot'[s].waiting
    /\ \A c \in Client : Making(c)' = Making(c)

\* A client that receives its answer leaves the thread free.
LEMMA ReceiveReleases ==
    ASSUME IInv, NEW s \in Slot, Receive(s)
    PROVE  Released(s)
<1>1. /\ slot[s].pc = "answer" /\ slot' = [slot EXCEPT ![s] = Free]
      /\ UNCHANGED <<Store, made, givenUp>>
  BY DEF Receive
<1>2. StoreTyped' /\ StoreOK'
  BY <1>1, StoreKept
<1>3. OthersStay(s) /\ slot'[s] = Free
  BY <1>1, FreeHandler DEF OthersStay, IInv, Typed
<1>4. SlotsOK'
  <2>1. Place(Free)
    BY FreeHandler
  <2>2. Knows(Free, issued', built', old', jobs', made')
    BY <1>1, FreeHandler DEF Knows, Store, IInv, Typed, StoreTyped
  <2>3. \A u \in Slot : u # s =>
           Place(slot'[u]) /\ Knows(slot'[u], issued', built', old', jobs', made')
    BY <1>1, <1>3 DEF IInv, SlotsOK, Store, OthersStay
  <2>. QED BY <1>3, <2>1, <2>2, <2>3 DEF SlotsOK
<1>5. ASSUME NEW c \in Client PROVE Making(c)' = Making(c)
  <2>1. \A u \in Slot : u \in Making(c)' <=> u \in Making(c)
    BY <1>1, <1>3, FreeHandler DEF Making, OthersStay
  <2>2. Making(c)' \subseteq Slot /\ Making(c) \subseteq Slot
    BY DEF Making
  <2>. QED BY <2>1, <2>2
<1>. QED BY <1>1, <1>2, <1>3, <1>4, <1>5, FreeHandler DEF Released

\* A client that gives up an attempt leaves the request behind.
LEMMA GiveUpReleases ==
    ASSUME IInv, NEW s \in Slot, GiveUpAttempt(s)
    PROVE  Released(s)
<1> DEFINE h == slot[s]
           r == [h EXCEPT !.waiting = FALSE]
<1>1. h \in Handler /\ h.waiting /\ UNCHANGED <<Store, made>>
  BY DEF GiveUpAttempt, IInv, Typed
<1>2. slot' = [slot EXCEPT ![s] = r]
  BY DEF GiveUpAttempt, IInv, Typed
<1>3. /\ r \in Handler /\ ~r.waiting /\ r.pc = h.pc /\ r.op = h.op /\ r.client = h.client
      /\ r.job = h.job /\ r.manager = h.manager /\ r.walked = h.walked /\ r.delete = h.delete
      /\ r.turn = h.turn /\ r.there = h.there /\ r.seen = h.seen /\ r.answer = h.answer
  <2> HIDE DEF h
  <2>. QED BY <1>1 DEF Handler
<1> HIDE DEF r
<1>4. StoreTyped' /\ StoreOK'
  BY <1>1, StoreKept
<1>5. OthersStay(s) /\ slot'[s] = r
  BY <1>2, <1>3 DEF OthersStay, IInv, Typed
<1>6. SlotsOK'
  <2>1. Place(h) /\ Knows(h, issued', built', old', jobs', made')
    BY <1>1 DEF IInv, SlotsOK, Store
  <2>2. Place(r)
    BY <1>3, <2>1 DEF Place
  <2>3. Knows(r, issued', built', old', jobs', made')
    BY <1>3, <2>1 DEF Knows, ToCount
  <2>4. \A u \in Slot : u # s =>
           Place(slot'[u]) /\ Knows(slot'[u], issued', built', old', jobs', made')
    BY <1>1, <1>5 DEF IInv, SlotsOK, Store, OthersStay
  <2>. QED BY <1>5, <2>2, <2>3, <2>4 DEF SlotsOK
<1>7. ASSUME NEW c \in Client PROVE Making(c)' = Making(c)
  <2>1. \A u \in Slot : u \in Making(c)' <=> u \in Making(c)
    BY <1>3, <1>5 DEF Making, OthersStay
  <2>2. Making(c)' \subseteq Slot /\ Making(c) \subseteq Slot
    BY DEF Making
  <2>. QED BY <2>1, <2>2
<1>. QED BY <1>1, <1>3, <1>4, <1>5, <1>6, <1>7 DEF Released

\* Nobody waited for the answer.
LEMMA Unwaited ==
    ASSUME IInv, NEW s \in Slot, Released(s), ~slot[s].waiting,
           UNCHANGED <<client, troubles, givenUp>>
    PROVE  IInv'
<1>1. Typed'
  BY DEF IInv, Typed, Released, OthersStay
<1>2. Waits'
  BY DEF IInv, Waits, Released, OthersStay
<1>3. Clients'
  BY DEF IInv, Clients, Released
<1>4. Accounted'
  <2>1. ASSUME NEW d \in Client
        PROVE  /\ IsFiniteSet(Making(d)')
               /\ Cardinality(made'[d]) + Cardinality(Making(d)') <= Attempts(d)'
    <3>1. Making(d)' = Making(d) /\ made' = made /\ Attempts(d)' = Attempts(d)
      BY DEF Released, Attempts
    <3>. QED BY <3>1, Sizes
  <2>. QED BY <2>1 DEF Accounted
<1>. QED BY <1>1, <1>2, <1>3, <1>4 DEF IInv, Released

\* The client that waited goes on as q.
LEMMA WaiterMoves ==
    ASSUME IInv, NEW s \in Slot, Released(s), NEW c \in Client, slot[s].client = c, slot[s].waiting,
           NEW q \in ClientState, client' = [client EXCEPT ![c] = q],
           q.op = client[c].op, q.pc # "waiting",
           q.job # 0 => q.job \in made[c],
           q.op # "submit" => q.job # 0,
           troubles' \in [Client -> 0..Retries + 1],
           \A d \in Client : d # c => troubles'[d] = troubles[d],
           q.op = "submit" /\ q.pc # "rest" => troubles'[c] <= q.tries,
           troubles'[c] >= troubles[c],
           q.op = "submit" /\ q.pc \in {"new", "ready"} => troubles'[c] >= troubles[c] + 1,
           givenUp' \in 0..MaxGivenUp
    PROVE  IInv'
<1>1. client[c].pc = "waiting"
  BY DEF IInv, Waits
<1>2. client' \in [Client -> ClientState]
      /\ client'[c] = q /\ \A d \in Client : d # c => client'[d] = client[d]
  BY DEF IInv, Typed
<1>3. Typed'
  BY <1>2 DEF IInv, Typed, Released, OthersStay
<1>4. Waits'
  <2>1. ASSUME NEW u \in Slot, slot'[u].waiting
        PROVE  u # s /\ slot'[u] = slot[u] /\ slot[u].client # c /\ slot[u].client \in Client
    <3>1. u # s /\ slot'[u] = slot[u]
      BY <2>1 DEF Released, OthersStay
    <3>2. slot[u].client # c
      BY <2>1, <3>1 DEF IInv, Waits
    <3>3. slot[u].client \in Client
      BY <2>1, <3>1 DEF IInv, SlotsOK, Place
    <3>. QED BY <3>1, <3>2, <3>3
  <2>. QED BY <1>2, <2>1 DEF IInv, Waits
<1>5. Clients'
  BY <1>2 DEF IInv, Clients, Released
<1>6. Accounted'
  <2>1. ASSUME NEW d \in Client
        PROVE  /\ IsFiniteSet(Making(d)')
               /\ Cardinality(made'[d]) + Cardinality(Making(d)') <= Attempts(d)'
    <3>1. Making(d)' = Making(d) /\ made' = made
      BY DEF Released
    <3>2. Attempts(d)' \in Int /\ Attempts(d) <= Attempts(d)'
      <4>1. CASE d = c
        BY <1>1, <1>2, <4>1 DEF Attempts, IInv, Typed
      <4>2. CASE d # c
        BY <1>2, <4>2 DEF Attempts, IInv, Typed
      <4>. QED BY <4>1, <4>2
    <3>. QED BY <3>1, <3>2, Sizes
  <2>. QED BY <2>1 DEF Accounted
<1>. QED BY <1>3, <1>4, <1>5, <1>6 DEF IInv, Released

\* A submission's trouble is counted, within the retries.
LEMMA TroubleCounts ==
    ASSUME IInv, NEW c \in Client, client[c].pc = "waiting", Trouble(c)
    PROVE  /\ troubles' \in [Client -> 0..Retries + 1]
           /\ \A d \in Client : d # c => troubles'[d] = troubles[d]
           /\ troubles'[c] = IF client[c].op = "submit" THEN troubles[c] + 1 ELSE troubles[c]
           /\ client[c].op = "submit" => troubles[c] <= client[c].tries
           /\ troubles[c] \in Int
<1>1. client[c].op = "submit" => troubles[c] <= client[c].tries
  BY DEF IInv, Clients
<1>2. client[c].tries \in 0..Retries /\ troubles[c] \in 0..Retries + 1
  BY DEF IInv, Typed, ClientState
<1>3. (IF client[c].op = "submit" THEN troubles[c] + 1 ELSE troubles[c]) \in 0..Retries + 1
  BY <1>1, <1>2, WorkerServiceAssumption
<1>4. /\ troubles \in [Client -> 0..Retries + 1]
      /\ troubles' = [troubles EXCEPT ![c] =
                        IF client[c].op = "submit" THEN troubles[c] + 1 ELSE troubles[c]]
  BY DEF Trouble, IInv, Typed
<1>. QED BY <1>1, <1>2, <1>3, <1>4

\* After a trouble the client tries again or raises.
LEMMA RetryGoesOn ==
    ASSUME IInv, NEW s \in Slot, Released(s), NEW c \in Client, slot[s].client = c, slot[s].waiting,
           Trouble(c), RetryOrRaise(c), givenUp' \in 0..MaxGivenUp
    PROVE  IInv'
<1> DEFINE x == client[c]
<1>1. x \in ClientState /\ x.pc = "waiting"
  BY DEF IInv, Typed, Waits
<1>2. (x.op # "submit" => x.job # 0) /\ (x.job # 0 => x.job \in made[c])
  BY DEF IInv, Clients
<1>3. /\ troubles' \in [Client -> 0..Retries + 1]
      /\ \A d \in Client : d # c => troubles'[d] = troubles[d]
      /\ troubles'[c] = IF x.op = "submit" THEN troubles[c] + 1 ELSE troubles[c]
      /\ x.op = "submit" => troubles[c] <= x.tries
      /\ troubles[c] \in Int
  BY <1>1, TroubleCounts
<1>4. CASE x.tries < Retries
  <2> DEFINE q == [x EXCEPT !.pc = "ready", !.tries = x.tries + 1]
  <2>1. x.tries + 1 \in 0..Retries /\ x.tries \in Int
    BY <1>1, <1>4, WorkerServiceAssumption DEF ClientState
  <2>2. /\ q \in ClientState /\ q.pc = "ready" /\ q.op = x.op /\ q.job = x.job
        /\ q.tries = x.tries + 1
    <3> HIDE DEF x
    <3>. QED BY <1>1, <2>1 DEF ClientState
  <2>3. client' = [client EXCEPT ![c] = q]
    BY <1>4 DEF RetryOrRaise, IInv, Typed
  <2> HIDE DEF q
  <2>4. q.op = "submit" /\ q.pc # "rest" => troubles'[c] <= q.tries
    BY <1>3, <2>1, <2>2
  <2>5. q.op = "submit" /\ q.pc \in {"new", "ready"} => troubles'[c] >= troubles[c] + 1
    BY <1>3, <2>2
  <2>6. troubles'[c] >= troubles[c]
    BY <1>3
  <2>. QED BY <1>2, <1>3, <2>2, <2>3, <2>4, <2>5, <2>6, WaiterMoves
<1>5. CASE ~(x.tries < Retries)
  <2> DEFINE q == [x EXCEPT !.pc = "rest", !.tries = 0, !.elapsed = 0, !.outcome = "raised"]
  <2>1. q \in ClientState /\ q.pc = "rest" /\ q.op = x.op /\ q.job = x.job
    <3> HIDE DEF x
    <3>. QED BY <1>1, EndedCall
  <2>2. client' = [client EXCEPT ![c] = q]
    BY <1>5 DEF RetryOrRaise, Ended, IInv, Typed
  <2> HIDE DEF q
  <2>3. troubles'[c] >= troubles[c]
    BY <1>3
  <2>. QED BY <1>2, <1>3, <2>1, <2>2, <2>3, WaiterMoves
<1>. QED BY <1>4, <1>5

\* An answer that is not an error, and what the client makes of it.
LEMMA AnswerGoesOn ==
    ASSUME IInv, NEW s \in Slot, Released(s), NEW c \in Client, slot[s].client = c, slot[s].waiting,
           UNCHANGED <<troubles, givenUp>>,
           NEW q \in ClientState, client' = [client EXCEPT ![c] = q],
           q.op = client[c].op, q.pc = "rest" \/ (q.pc = "ready" /\ q.op # "submit"),
           q.job = client[c].job \/ (q.job \in made[c] /\ q.job # 0)
    PROVE  IInv'
<1>1. q.job # 0 => q.job \in made[c]
  BY DEF IInv, Clients
<1>2. q.op # "submit" => q.job # 0
  BY DEF IInv, Clients
<1>3. /\ troubles' \in [Client -> 0..Retries + 1] /\ troubles'[c] >= troubles[c]
      /\ \A d \in Client : d # c => troubles'[d] = troubles[d]
      /\ givenUp' \in 0..MaxGivenUp
  <2>1. troubles' = troubles /\ troubles[c] \in Int
    BY DEF IInv, Typed
  <2>. QED BY <2>1 DEF IInv, Typed
<1>. QED BY <1>1, <1>2, <1>3, WaiterMoves

\* The call of the client ends.
LEMMA EndGoesOn ==
    ASSUME IInv, NEW s \in Slot, Released(s), NEW c \in Client, slot[s].client = c, slot[s].waiting,
           UNCHANGED <<troubles, givenUp>>, NEW o \in {"returned", "raised"}, Ended(c, o)
    PROVE  IInv'
<1> DEFINE x == client[c]
           q == [x EXCEPT !.pc = "rest", !.tries = 0, !.elapsed = 0, !.outcome = o]
<1>1. x \in ClientState
  BY DEF IInv, Typed
<1>2. q \in ClientState /\ q.pc = "rest" /\ q.op = x.op /\ q.job = x.job
  <2> HIDE DEF x
  <2>. QED BY <1>1, EndedCall
<1>3. client' = [client EXCEPT ![c] = q]
  BY DEF Ended, IInv, Typed
<1> HIDE DEF q
<1>. QED BY <1>2, <1>3, AnswerGoesOn

\* The client knows the job that was made for it.
LEMMA SubmittedGoesOn ==
    ASSUME IInv, NEW s \in Slot, Released(s), NEW c \in Client, slot[s].client = c, slot[s].waiting,
           UNCHANGED <<troubles, givenUp>>, slot[s].pc = "answer", client[c].op = "submit",
           Submitted(c, slot[s].job)
    PROVE  IInv'
<1> DEFINE x == client[c]
           j == slot[s].job
           b == [x EXCEPT !.pc = "rest", !.tries = 0]
           q == [b EXCEPT !.job = j, !.outcome = "returned"]
<1>1. x \in ClientState /\ slot[s] \in Handler /\ j \in 0..MaxJobs
  BY DEF IInv, Typed, Handler
<1>2. slot[s].op = "submit"
  BY DEF IInv, Waits, RouteOf
<1>3. j \in made[c] /\ j # 0
  <2>1. j \in made[c]
    BY <1>2 DEF IInv, SlotsOK, Knows
  <2>. QED BY <2>1 DEF IInv, Typed, StoreTyped
<1>4. b \in ClientState /\ b.pc = "rest" /\ b.op = x.op
  <2>1. 0 \in 0..Retries
    BY WorkerServiceAssumption
  <2> HIDE DEF x
  <2>. QED BY <1>1, <2>1 DEF ClientState
<1>5. q \in ClientState /\ q.pc = "rest" /\ q.op = x.op /\ q.job = j
  <2> HIDE DEF b, j, x
  <2>. QED BY <1>1, <1>4 DEF ClientState
<1>6. client' = [client EXCEPT ![c] = q]
  BY DEF Submitted, IInv, Typed
<1> HIDE DEF q
<1>. QED BY <1>3, <1>5, <1>6, AnswerGoesOn

\* The client polls again.
LEMMA PollGoesOn ==
    ASSUME IInv, NEW s \in Slot, Released(s), NEW c \in Client, slot[s].client = c, slot[s].waiting,
           UNCHANGED <<troubles, givenUp>>, client[c].op = "poll", PollAgain(c)
    PROVE  IInv'
<1> DEFINE x == client[c]
           e == IF x.elapsed > Timeout THEN x.elapsed ELSE x.elapsed + 1
           q == [x EXCEPT !.pc = "ready", !.tries = 0, !.elapsed = e]
<1>1. x \in ClientState /\ x.elapsed \in 0..Timeout + 1
  BY DEF IInv, Typed, ClientState
<1>2. e \in 0..Timeout + 1 /\ 0 \in 0..Retries
  BY <1>1, WorkerServiceAssumption
<1>3. q \in ClientState /\ q.pc = "ready" /\ q.op = x.op /\ q.job = x.job
  <2> HIDE DEF x, e
  <2>. QED BY <1>1, <1>2 DEF ClientState
<1>4. client' = [client EXCEPT ![c] = q]
  BY DEF PollAgain, IInv, Typed
<1> HIDE DEF q
<1>. QED BY <1>3, <1>4, AnswerGoesOn

\* An answer is received, whatever it is.
LEMMA ReceiveStep ==
    ASSUME IInv, NEW s \in Slot, Receive(s)
    PROVE  IInv'
<1>1. Released(s) /\ slot[s].pc = "answer" /\ UNCHANGED givenUp
  BY ReceiveReleases DEF Receive
<1>2. PICK c \in Client : slot[s].client = c
  BY <1>1, Managed DEF IInv
<1>3. CASE ~slot[s].waiting
  BY <1>1, <1>3, Unwaited DEF Receive
<1>4. CASE slot[s].waiting /\ slot[s].answer = "error"
  <2>1. Trouble(c) /\ RetryOrRaise(c)
    BY <1>2, <1>4 DEF Receive, Retriable
  <2>2. givenUp' \in 0..MaxGivenUp
    BY <1>1 DEF IInv, Typed
  <2>. QED BY <1>1, <1>2, <1>4, <2>1, <2>2, RetryGoesOn
<1>5. CASE slot[s].waiting /\ slot[s].answer # "error"
  <2>1. UNCHANGED <<troubles, givenUp>>
    BY <1>1, <1>5 DEF Receive
  <2>2. \/ client[c].op = "submit"  /\ Submitted(c, slot[s].job)
        \/ client[c].op = "poll"    /\ Polled(c, slot[s].answer)
        \/ Cancelled(c, slot[s].answer) \/ Detailed(c, slot[s].answer)
        \/ ListReceived(c, slot[s].seen) \/ StatsReceived(c)
    BY <1>2, <1>5 DEF Receive, Retriable
  <2>3. CASE client[c].op = "submit"  /\ Submitted(c, slot[s].job)
    BY <1>1, <1>2, <1>5, <2>1, <2>3, SubmittedGoesOn
  <2>4. CASE client[c].op = "poll" /\ PollAgain(c)
    BY <1>1, <1>2, <1>5, <2>1, <2>4, PollGoesOn
  <2>5. CASE Ended(c, "returned") \/ Ended(c, "raised")
    BY <1>1, <1>2, <1>5, <2>1, <2>5, EndGoesOn
  <2>6. Polled(c, slot[s].answer) => PollAgain(c) \/ Ended(c, "raised")
    BY DEF Polled
  <2>7. Cancelled(c, slot[s].answer) \/ Detailed(c, slot[s].answer) \/ ListReceived(c, slot[s].seen)
           \/ StatsReceived(c) => Ended(c, "returned") \/ Ended(c, "raised")
    BY DEF Cancelled, Detailed, ListReceived, StatsReceived
  <2>. QED BY <2>2, <2>3, <2>4, <2>5, <2>6, <2>7
<1>. QED BY <1>3, <1>4, <1>5

\* An attempt is given up.
LEMMA GiveUpStep ==
    ASSUME IInv, NEW s \in Slot, GiveUpAttempt(s)
    PROVE  IInv'
<1>1. Released(s) /\ slot[s].waiting
  BY GiveUpReleases DEF GiveUpAttempt
<1>2. PICK c \in Client : slot[s].client = c
  BY <1>1 DEF IInv, SlotsOK, Place
<1>3. Trouble(c) /\ RetryOrRaise(c)
  BY <1>2 DEF GiveUpAttempt
<1>4. givenUp' \in 0..MaxGivenUp
  BY WorkerServiceAssumption DEF GiveUpAttempt, IInv, Typed
<1>. QED BY <1>1, <1>2, <1>3, <1>4, RetryGoesOn

(***************************************************************************)
(* The invariant holds.                                                    *)
(***************************************************************************)

\* The invariant holds initially.
LEMMA InitOK == Init => IInv
<1> SUFFICES ASSUME Init PROVE IInv
  OBVIOUS
<1>1. PICK owners \in IF built = 1 THEN {{}, {AnyOf(Client)}} ELSE {{}} :
         /\ client = [c \in Client |-> IF c \in owners
                        THEN [NewClient EXCEPT !.pc = "rest", !.job = 1, !.outcome = "returned"]
                        ELSE NewClient]
         /\ made = [c \in Client |-> IF c \in owners THEN {1} ELSE {}]
  BY DEF Init
<1>2. /\ built \in {0, 1} /\ issued = built /\ registered = built
      /\ built \in 0..MaxManagers /\ issued \in 0..MaxJobs
  BY WorkerServiceAssumption DEF Init
<1>3. \A c \in owners : built = 1
  BY <1>1
<1>4. /\ jobs = [m \in Manager |-> [j \in JobId |->
                   IF m <= built /\ j <= issued THEN "cancelled" ELSE "none"]]
      /\ old = {} /\ due = [m \in Manager |-> FALSE] /\ slot = [s \in Slot |-> Free]
      /\ troubles = [c \in Client |-> 0] /\ givenUp = 0
  BY DEF Init
<1>5. StoreTyped
  <2>1. made \in [Client -> SUBSET (1..issued)]
    BY <1>1, <1>2, <1>3
  <2>. QED BY <1>2, <1>4, <2>1 DEF StoreTyped
<1>6. NewClient \in ClientState
      /\ [NewClient EXCEPT !.pc = "rest", !.job = 1, !.outcome = "returned"] \in ClientState
  <2>1. /\ 0 \in 0..MaxJobs /\ 1 \in 0..MaxJobs /\ 0 \in 0..Retries
        /\ 0 \in 0..Timeout + 1 /\ 0 \in 0..MaxCalls
    BY WorkerServiceAssumption
  <2>2. NewClient \in ClientState
    BY <2>1 DEF NewClient, ClientState
  <2>. QED BY <2>1, <2>2 DEF ClientState
<1>7. Typed
  <2>1. slot \in [Slot -> Handler]
    BY <1>4, FreeHandler
  <2>2. client \in [Client -> ClientState]
    BY <1>1, <1>6
  <2>3. 0 \in 0..Retries + 1 /\ 0 \in 0..MaxGivenUp
    BY WorkerServiceAssumption
  <2>4. troubles \in [Client -> 0..Retries + 1] /\ givenUp \in 0..MaxGivenUp
    BY <1>4, <2>3
  <2>. QED BY <1>5, <2>1, <2>2, <2>4 DEF Typed
<1>8. StoreOK
  <2>1. ASSUME NEW m \in Manager, NEW j \in JobId, j > issued PROVE jobs[m][j] = "none"
    BY <1>2, <1>4, <2>1 DEF JobId
  <2>2. ASSUME NEW j \in 1..issued PROVE jobs[1][j] # "none"
    <3>1. built = 1 /\ j = 1 /\ 1 \in Manager /\ 1 \in JobId
      BY <1>2, <2>2, WorkerServiceAssumption DEF Manager, JobId
    <3>. QED BY <1>2, <1>4, <3>1
  <2>. QED BY <2>1, <2>2 DEF StoreOK
<1>9. SlotsOK
  <2>1. Knows(Free, issued, built, old, jobs, made)
    BY <1>2, FreeHandler DEF Knows
  <2>. QED BY <1>4, <2>1, FreeHandler DEF SlotsOK
<1>10. Waits
  BY <1>4, FreeHandler DEF Waits
<1>11. \A c \in Client :
          IF c \in owners THEN /\ client[c].pc = "rest" /\ client[c].job = 1
                               /\ client[c].op = "submit" /\ made[c] = {1}
          ELSE client[c] = NewClient /\ made[c] = {}
  BY <1>1 DEF NewClient
<1>12. Clients
  <2>1. NewClient.job = 0 /\ NewClient.op = "submit" /\ NewClient.tries = 0
    BY DEF NewClient
  <2>. QED BY <1>4, <1>11, <2>1 DEF Clients
<1>13. ASSUME NEW c \in Client
       PROVE  IsFiniteSet(Making(c)) /\ Cardinality(made[c]) + Cardinality(Making(c)) <= Attempts(c)
  <2>1. Making(c) = {}
    BY <1>4, FreeHandler DEF Making
  <2>2. IsFiniteSet(Making(c)) /\ Cardinality(Making(c)) = 0
    BY <2>1, FS_EmptySet
  <2>3. CASE c \in owners
    <3>1. Cardinality(made[c]) = 1
      BY <1>11, <2>3, FS_Singleton
    <3>2. Attempts(c) = troubles[c] + 1 /\ troubles[c] = 0
      BY <1>4, <1>11, <2>3 DEF Attempts
    <3>. QED BY <2>2, <3>1, <3>2
  <2>4. CASE c \notin owners
    <3>1. Cardinality(made[c]) = 0
      BY <1>11, <2>4, FS_EmptySet
    <3>2. client[c].op = "submit" /\ client[c].pc = "new"
      BY <1>11, <2>4 DEF NewClient
    <3>3. Attempts(c) = troubles[c] /\ troubles[c] = 0
      BY <1>4, <3>2 DEF Attempts
    <3>. QED BY <2>2, <3>1, <3>3
  <2>. QED BY <2>3, <2>4
<1>. QED BY <1>7, <1>8, <1>9, <1>10, <1>12, <1>13 DEF IInv, Accounted

\* Every step keeps it.
LEMMA StepOK == IInv /\ [Next]_vars => IInv'
<1> SUFFICES ASSUME IInv, [Next]_vars PROVE IInv'
  OBVIOUS
<1>1. ASSUME NEW s \in Slot, Serve(s) PROVE IInv'
  BY <1>1, EarlySteps, CreateStep, LateSteps, ReadSteps, ReceiveStep DEF Serve
<1>2. ASSUME NEW s \in Slot, GiveUpAttempt(s) PROVE IInv'
  BY <1>2, GiveUpStep
<1>3. ASSUME NEW c \in Client, Submit(c) PROVE IInv'
  BY <1>3, SubmitStep
<1>4. ASSUME NEW c \in Client, Act(c) PROVE IInv'
  BY <1>4, GiveUpPollingStep, SendStep DEF Act
<1>5. ASSUME NEW c \in Client, NEW op \in CallOps, Call(c, op) PROVE IInv'
  BY <1>5, CallStep
<1>6. CASE DaysPass
  BY <1>6, DaysStep
<1>7. CASE UNCHANGED vars
  BY <1>7 DEF vars, IInv, Typed, StoreTyped, StoreOK, SlotsOK, Waits, Clients, Accounted,
              Making, Attempts
<1>. QED BY <1>1, <1>2, <1>3, <1>4, <1>5, <1>6, <1>7 DEF Next

\* The inductive invariant, on which the theorems below rest.
THEOREM WorkerInvariant == Spec => []IInv
BY InitOK, StepOK, PTL DEF Spec

(***************************************************************************)
(* Every variable keeps its type: among others, an attempt's retries and   *)
(* the troubles of a submission stay within the bound of the session, and  *)
(* only stored statuses are pending and cancelled.                         *)
(***************************************************************************)
THEOREM WorkerTypeCorrect == Spec => []TypeOK
<1>1. IInv => TypeOK
  BY DEF IInv, Typed, StoreTyped, TypeOK
<1>. QED BY <1>1, WorkerInvariant, PTL

(***************************************************************************)
(* The job routes answer "not found" for an accepted job only when it was  *)
(* swept after its retention, or when a cold process built two managers;   *)
(* a list and the statistics overlook no job but those.                    *)
(***************************************************************************)
THEOREM WorkerMissingMeansSwept == Spec => []MissingMeansSwept
<1>1. IInv => MissingMeansSwept
  BY DEF IInv, SlotsOK, Knows, MissingMeansSwept
<1>. QED BY <1>1, WorkerInvariant, PTL

(***************************************************************************)
(* A submission of AIWorkerClient leaves at most one job per attempt: the  *)
(* first, and one for each attempt it gave up or was answered 500.         *)
(***************************************************************************)
THEOREM WorkerDuplicatesNeedTrouble == Spec => []DuplicatesNeedTrouble
<1>1. ASSUME IInv, NEW c \in Client
      PROVE  /\ Cardinality(made[c]) <= 1 + troubles[c]
             /\ client[c].job # 0 => client[c].job \in made[c]
  <2>1. Attempts(c) <= troubles[c] + 1 /\ troubles[c] \in Int
    BY <1>1 DEF Attempts, IInv, Typed
  <2>2. Cardinality(made[c]) <= 1 + troubles[c]
    BY <1>1, <2>1, Sizes
  <2>. QED BY <1>1, <2>2 DEF IInv, Clients
<1>2. IInv => DuplicatesNeedTrouble
  BY <1>1 DEF DuplicatesNeedTrouble
<1>. QED BY <1>2, WorkerInvariant, PTL
=============================================================================

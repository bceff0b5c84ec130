------------------------- MODULE AuthSessionsProofs -------------------------
(***************************************************************************)
(* Theorems about AuthSessions for every finite set of threads, every set  *)
(* of OAuth states, either storage, and every bound.                       *)
(***************************************************************************)
EXTENDS AuthSessions, FiniteSetTheorems, TLAPS

(***************************************************************************)
(* What TypeOK rests on: the stored tokens are numbered without a gap, and *)
(* a request holds a token that is stored, with the session it belongs to. *)
(***************************************************************************)

Count == Cardinality(Present)

Numbered == Present = 1 .. Count /\ Count \in Nat /\ Count + Pending({"save"}) <= MaxTokens

\* What request r is about, when n tokens are stored as tk.
About(r, tk, n) ==
    /\ r.case \in {"start", "login"} => r.state \in State
    /\ r.case \in {"refresh", "revoke"} => r.token \in 0 .. n
    /\ r.case \in {"refresh", "revoke"} /\ r.token # 0 => r.session = tk[r.token].session

\* Whose request it is at each step, and what it holds by then.
Carries(r, tk, n) ==
    /\ About(r, tk, n)
    /\ r.pc = "keep" => r.case = "start"
    /\ r.pc \in {"new store", "consume"} => r.case \in {"start", "login"}
    /\ r.pc \in {"case", "users", "new users", "tokens", "new tokens", "install"} =>
          r.case \in UseCase
    /\ r.pc \in {"consume", "find", "insert", "login"} => r.case = "login"
    /\ r.pc \in {"check", "lookup", "sweep", "save", "rotate", "issue"} =>
          r.case \in {"refresh", "revoke"}
    /\ r.pc \in {"sweep", "save", "rotate", "issue"} => r.token # 0
    /\ r.pc \in {"rotate", "issue"} => r.new \in 1 .. n

Core ==
    /\ TypeOK
    /\ Numbered
    /\ \A t \in Thread : Carries(thread[t], tokens, Count)

\* The part of TypeOK that is not about tokens and threads.
OthersOK ==
    /\ backend \in Backends
    /\ built \in Holdings
    /\ cases \in [UseCase -> Holdings]
    /\ index \in BOOLEAN
    /\ states \in [State -> StoredState]
    /\ users \in 0..MaxUsers /\ holding \subseteq Instance \cup {"none"}
    /\ sessions \in 0..MaxSessions
    /\ home \in [Session -> Holdings]
    /\ clean \subseteq 1..sessions /\ late \subseteq clean
    /\ used \in [State -> Nat]
    /\ together \in BOOLEAN /\ raced \subseteq Repository

\* Tokens a and b are the same but for their status and age.
SameTokens(a, b) ==
    /\ b \in [Token -> StoredToken]
    /\ \A k \in Token : b[k].session = a[k].session /\ (b[k].status = "none" <=> a[k].status = "none")

(***************************************************************************)
(* Counting.                                                               *)
(***************************************************************************)

\* How many threads hold a token back, after a step of one of them.
LEMMA PendingStep ==
    ASSUME thread \in [Thread -> Request], NEW t \in Thread, NEW r \in Request,
           thread' = [thread EXCEPT ![t] = r], NEW pc
    PROVE  /\ Pending({pc}) \in Nat /\ Pending({pc})' \in Nat
           /\ r.pc # pc => Pending({pc})' <= Pending({pc})
           /\ r.pc # pc /\ thread[t].pc = pc => Pending({pc})' + 1 = Pending({pc})
           /\ Pending({pc})' <= Pending({pc}) + 1
<1> DEFINE S == {u \in Thread : thread[u].pc \in {pc}}
           T == {u \in Thread : thread'[u].pc \in {pc}}
<1>1. IsFiniteSet(S) /\ IsFiniteSet(T)
  BY FS_Subset, AuthSessionsAssumption
<1>2. Cardinality(S) \in Nat /\ Cardinality(T) \in Nat
  BY <1>1, FS_CardinalityType
<1>3. r.pc # pc => T = S \ {t}
  OBVIOUS
<1>4. r.pc = pc => T = S \cup {t}
  OBVIOUS
<1>5. /\ Cardinality(S \ {t}) = IF t \in S THEN Cardinality(S) - 1 ELSE Cardinality(S)
      /\ Cardinality(S \cup {t}) = IF t \in S THEN Cardinality(S) ELSE Cardinality(S) + 1
  BY <1>1, FS_AddElement, FS_RemoveElement
<1>6. Pending({pc}) = Cardinality(S) /\ Pending({pc})' = Cardinality(T)
  BY DEF Pending
<1>7. thread[t].pc = pc <=> t \in S
  OBVIOUS
<1> DEFINE m == Cardinality(S)
           n == Cardinality(T)
<1>8. r.pc = pc => n = IF t \in S THEN m ELSE m + 1
  BY <1>4, <1>5
<1>9. r.pc # pc => n = IF t \in S THEN m - 1 ELSE m
  BY <1>3, <1>5
<1>10. m \in Nat /\ n \in Nat /\ Pending({pc}) = m /\ Pending({pc})' = n
  BY <1>2, <1>6
<1> HIDE DEF S, T, m, n
<1>. QED BY <1>7, <1>8, <1>9, <1>10

\* No token is added or lost.
LEMMA CountSame ==
    ASSUME Numbered, SameTokens(tokens, tokens')
    PROVE  Present' = Present /\ Count' = Count
<1>1. Present' = Present
  BY DEF Present, SameTokens
<1>. QED BY <1>1 DEF Count

\* A token is added, the next one.
LEMMA CountSaved ==
    ASSUME Core, NEW s \in 0 .. MaxSessions, Count + 1 <= MaxTokens, Save(Count + 1, s)
    PROVE  /\ tokens' \in [Token -> StoredToken]
           /\ Present' = 1 .. (Count + 1) /\ Count' = Count + 1 /\ Count + 1 \in Token
           /\ tokens'[Count + 1].session = s /\ tokens'[Count + 1].status = "live"
           /\ \A k \in Token \ {Count + 1} : tokens'[k] = tokens[k]
<1>1. Count \in Nat /\ Count + 1 \in Token /\ tokens \in [Token -> StoredToken]
  BY AuthSessionsAssumption DEF Core, Numbered, Token, TypeOK
<1> DEFINE d == [status |-> "live", session |-> s, expired |-> FALSE]
<1>2. d \in StoredToken
  BY DEF StoredToken
<1>3. tokens' = [tokens EXCEPT ![Count + 1] = d]
  BY DEF Save
<1>4. /\ tokens' \in [Token -> StoredToken] /\ tokens'[Count + 1] = d
      /\ \A k \in Token \ {Count + 1} : tokens'[k] = tokens[k]
  BY <1>1, <1>2, <1>3
<1>5. Present' = Present \cup {Count + 1}
  BY <1>1, <1>4 DEF Present
<1>6. 1 .. (Count + 1) = (1 .. Count) \cup {Count + 1}
  BY <1>1
<1>7. Present' = 1 .. (Count + 1)
  BY <1>5, <1>6 DEF Core, Numbered
<1>8. Cardinality(1 .. (Count + 1)) = Count + 1
  <2>1. 1 \in Int /\ Count + 1 \in Int
    BY <1>1
  <2>2. Cardinality(1 .. (Count + 1)) =
          IF 1 > Count + 1 THEN 0 ELSE (Count + 1) - 1 + 1
    BY <2>1, FS_Interval
  <2>. QED BY <1>1, <2>2
<1>9. Count' = Count + 1
  BY <1>7, <1>8 DEF Count
<1>. QED BY <1>1, <1>4, <1>7, <1>9

\* What a thread holds stays there.
LEMMA CarriesStays ==
    ASSUME NEW tk, NEW new, NEW n \in Nat, NEW m \in Nat, n <= m,
           \A k \in 1 .. n : new[k].session = tk[k].session,
           NEW r, Carries(r, tk, n)
    PROVE  Carries(r, new, m)
<1>1. ASSUME r.token \in 0 .. n
      PROVE  r.token \in 0 .. m /\ (r.token # 0 => new[r.token].session = tk[r.token].session)
  <2>1. r.token # 0 => r.token \in 1 .. n
    BY <1>1
  <2>. QED BY <1>1, <2>1
<1>2. r.new \in 1 .. n => r.new \in 1 .. m
  OBVIOUS
<1>. QED BY <1>1, <1>2 DEF Carries, About

(***************************************************************************)
(* It is enough to look at the thread that takes the step.                 *)
(***************************************************************************)

\* A step that adds no token.
LEMMA CoreKept ==
    ASSUME Core, NEW t \in Thread, NEW r \in Request,
           thread' = [thread EXCEPT ![t] = r], SameTokens(tokens, tokens'),
           Carries(r, tokens', Count),
           r.pc = "save" => Count + Pending({"save"}) < MaxTokens,
           known' \subseteq Present, sessions' = sessions, OthersOK'
    PROVE  Core'
<1>1. Present' = Present /\ Count' = Count /\ Count \in Nat /\ Count <= MaxTokens
      /\ Present = 1 .. Count
  <2>1. Pending({"save"}) \in Nat /\ MaxTokens \in Nat
    BY PendingStep, AuthSessionsAssumption DEF Core, TypeOK
  <2>. QED BY <2>1, CountSame DEF Core, Numbered
<1>2. \A k \in 1 .. Count : k \in Token
  BY <1>1, AuthSessionsAssumption DEF Token
<1>3. thread \in [Thread -> Request] /\ thread' \in [Thread -> Request]
  BY DEF Core, TypeOK
<1>4. Numbered'
  <2>1. /\ Pending({"save"}) \in Nat /\ Pending({"save"})' \in Nat
        /\ r.pc # "save" => Pending({"save"})' <= Pending({"save"})
        /\ Pending({"save"})' <= Pending({"save"}) + 1
    BY <1>3, PendingStep
  <2>2. Count + Pending({"save"})' <= MaxTokens
    BY <1>1, <2>1, AuthSessionsAssumption DEF Core, Numbered
  <2>. QED BY <1>1, <2>2 DEF Numbered
<1>5. ASSUME NEW u \in Thread PROVE Carries(thread'[u], tokens', Count)
  <2>1. CASE u = t
    BY <1>3, <2>1 DEF Core, TypeOK
  <2>2. CASE u # t
    <3>1. thread'[u] = thread[u]
      BY <2>2 DEF Core, TypeOK
    <3>2. Carries(thread[u], tokens, Count)
      BY DEF Core
    <3>3. \A k \in 1 .. Count : tokens'[k].session = tokens[k].session
      BY <1>2 DEF SameTokens
    <3>4. Count <= Count
      BY <1>1
    <3>. QED BY <1>1, <3>1, <3>2, <3>3, <3>4, CarriesStays
  <2>. QED BY <2>1, <2>2
<1>6. TypeOK'
  <2>1. \A k \in Present' : tokens'[k].session \in 1 .. sessions'
    BY <1>1, <1>2 DEF Core, TypeOK, SameTokens
  <2>2. tokens' \in [Token -> StoredToken] /\ known' \subseteq Present'
    BY <1>1 DEF SameTokens
  <2>. QED BY <1>3, <2>1, <2>2 DEF OthersOK, TypeOK
<1>. QED BY <1>1, <1>4, <1>5, <1>6 DEF Core

\* A step that adds one.
LEMMA CoreSaved ==
    ASSUME Core, NEW t \in Thread, NEW r \in Request,
           thread' = [thread EXCEPT ![t] = r], NEW s \in 1 .. sessions',
           Save(Count + 1, s), Count + 1 + Pending({"save"})' <= MaxTokens,
           Carries(r, tokens', Count + 1),
           known' \subseteq Present \cup {Count + 1}, sessions <= sessions', OthersOK'
    PROVE  Core'
<1>1. thread \in [Thread -> Request] /\ thread' \in [Thread -> Request]
  BY DEF Core, TypeOK
<1>2. /\ Count \in Nat /\ Present = 1 .. Count /\ Pending({"save"})' \in Nat /\ MaxTokens \in Nat
      /\ sessions \in Nat /\ sessions' \in Nat /\ s \in 0 .. MaxSessions /\ MaxSessions \in Nat
  <2>1. Pending({"save"})' \in Nat
    BY <1>1, PendingStep
  <2>2. Count \in Nat /\ Present = 1 .. Count
    BY DEF Core, Numbered
  <2>3. sessions \in 0 .. MaxSessions /\ sessions' \in 0 .. MaxSessions
    BY DEF Core, TypeOK, OthersOK
  <2>. QED BY <2>1, <2>2, <2>3, AuthSessionsAssumption
<1>3. Count + 1 <= MaxTokens
  BY <1>2
<1>4. /\ tokens' \in [Token -> StoredToken]
      /\ Present' = 1 .. (Count + 1) /\ Count' = Count + 1 /\ Count + 1 \in Token
      /\ tokens'[Count + 1].session = s
      /\ \A k \in Token \ {Count + 1} : tokens'[k] = tokens[k]
  BY <1>2, <1>3, CountSaved
<1>5. \A k \in 1 .. Count : k \in Token \ {Count + 1} /\ k \in Present
  BY <1>2, <1>3 DEF Token
<1>6. Numbered'
  BY <1>2, <1>4 DEF Numbered
<1>7. ASSUME NEW u \in Thread PROVE Carries(thread'[u], tokens', Count + 1)
  <2>1. CASE u = t
    BY <1>1, <2>1 DEF Core, TypeOK
  <2>2. CASE u # t
    <3>1. thread'[u] = thread[u]
      BY <2>2 DEF Core, TypeOK
    <3>2. Carries(thread[u], tokens, Count)
      BY DEF Core
    <3>3. \A k \in 1 .. Count : tokens'[k].session = tokens[k].session
      BY <1>4, <1>5
    <3>4. Count + 1 \in Nat /\ Count <= Count + 1
      BY <1>2
    <3>. QED BY <1>2, <3>1, <3>2, <3>3, <3>4, CarriesStays
  <2>. QED BY <2>1, <2>2
<1>8. TypeOK'
  <2>1. ASSUME NEW k \in 1 .. (Count + 1) PROVE tokens'[k].session \in 1 .. sessions'
    <3>1. CASE k = Count + 1
      BY <1>4, <3>1
    <3>2. CASE k # Count + 1
      <4>1. k \in 1 .. Count
        BY <1>2, <3>2
      <4>2. tokens[k].session \in 1 .. sessions /\ tokens'[k] = tokens[k]
        BY <1>4, <1>5, <4>1 DEF Core, TypeOK
      <4>. QED BY <1>2, <4>2
    <3>. QED BY <3>1, <3>2
  <2>2. known' \subseteq Present'
    BY <1>2, <1>4
  <2>. QED BY <1>1, <1>4, <2>1, <2>2 DEF OthersOK, TypeOK
<1>. QED BY <1>4, <1>6, <1>7, <1>8 DEF Core

\* What a request may rely on about the token it holds.
LEMMA Carried ==
    ASSUME Core, NEW t \in Thread, thread[t].case \in {"refresh", "revoke"}, thread[t].token # 0
    PROVE  /\ thread[t].token \in Present /\ thread[t].token \in 1 .. Count
           /\ thread[t].session = tokens[thread[t].token].session
           /\ thread[t].session \in 1 .. sessions /\ thread[t].session \in Session
<1>1. Present = 1 .. Count /\ Count \in Nat
  BY DEF Core, Numbered
<1>2. thread[t].token \in 0 .. Count /\ thread[t].session = tokens[thread[t].token].session
  BY DEF Core, Carries, About
<1>3. thread[t].token \in Present /\ thread[t].token \in 1 .. Count
  BY <1>1, <1>2
<1>4. thread[t].session \in 1 .. sessions
  BY <1>2, <1>3 DEF Core, TypeOK
<1>5. thread[t].session \in Session
  BY <1>4, AuthSessionsAssumption DEF Core, TypeOK, Session
<1>. QED BY <1>2, <1>3, <1>4, <1>5

\* Past the first check the token is one that is stored.
LEMMA Held ==
    ASSUME Core, NEW t \in Thread, thread[t].pc \in {"sweep", "save", "rotate", "issue"}
    PROVE  /\ thread[t].token \in Present /\ thread[t].token \in 1 .. Count
           /\ thread[t].session = tokens[thread[t].token].session
           /\ thread[t].session \in 1 .. sessions /\ thread[t].session \in Session
<1>1. thread[t].case \in {"refresh", "revoke"} /\ thread[t].token # 0
  BY DEF Core, Carries
<1>. QED BY <1>1, Carried

\* A request has an instance of a service or none.
LEMMA HasType ==
    ASSUME Core, NEW t \in Thread, NEW s \in Service
    PROVE  thread[t].has[s] \in Instance \cup {"none"}
<1>1. thread[t] \in Request
  BY DEF Core, TypeOK
<1>2. thread[t].has \in Holdings
  BY <1>1 DEF Request
<1>. QED BY <1>2 DEF Holdings

\* A free thread holds nothing.
LEMMA IdleRequest == Idle \in Request /\ \A tk, n : Carries(Idle, tk, n)
<1>1. 0 \in 0 .. MaxTokens /\ 0 \in 0 .. MaxSessions
  BY AuthSessionsAssumption
<1>2. Nothing \in Holdings
  BY DEF Nothing, Holdings
<1>. QED BY <1>1, <1>2 DEF Idle, Request, Carries, About

\* A request that is answered.
LEMMA EndKept ==
    ASSUME Core, NEW t \in Thread, End(t), SameTokens(tokens, tokens'),
           known' \subseteq Present, sessions' = sessions, OthersOK'
    PROVE  Core'
BY IdleRequest, CoreKept DEF End, Idle

\* A request that goes on.
LEMMA GotoKept ==
    ASSUME Core, NEW t \in Thread,
           NEW pc \in {"find", "insert", "login", "check", "lookup", "sweep", "save", "rotate"}
                       \cup {"issue"},
           Goto(t, pc), Carries([thread[t] EXCEPT !.pc = pc], tokens, Count),
           SameTokens(tokens, tokens'),
           pc = "save" => Count + Pending({"save"}) < MaxTokens,
           known' \subseteq Present, sessions' = sessions, OthersOK'
    PROVE  Core'
<1> DEFINE r == [thread[t] EXCEPT !.pc = pc]
<1>1. thread[t] \in Request
  BY DEF Core, TypeOK
<1>2. r \in Request /\ r.pc = pc
  BY <1>1 DEF Request
<1>3. \A k \in 1 .. Count : tokens'[k].session = tokens[k].session
  BY DEF SameTokens, Core, Numbered, Present
<1>4. Count \in Nat /\ Count <= Count
  BY DEF Core, Numbered
<1>5. thread' = [thread EXCEPT ![t] = r]
  BY DEF Goto
<1>6. Carries(r, tokens, Count)
  OBVIOUS
<1> HIDE DEF r
<1>7. Carries(r, tokens', Count)
  BY <1>3, <1>4, <1>6, CarriesStays
<1>. QED BY <1>2, <1>5, <1>7, CoreKept

\* The tokens do not change.
LEMMA TokensStay ==
    ASSUME Core, UNCHANGED tokens
    PROVE  SameTokens(tokens, tokens')
BY DEF Core, TypeOK, SameTokens

\* A token's status changes, not whether it is stored.
LEMMA StatusSet ==
    ASSUME Core, NEW k \in Present, NEW v \in {"revoked", "deleted"},
           tokens' = [tokens EXCEPT ![k].status = v]
    PROVE  SameTokens(tokens, tokens')
BY DEF Core, TypeOK, SameTokens, StoredToken, Present

(***************************************************************************)
(* Type correctness.                                                       *)
(***************************************************************************)

\* Initially there is no token, so nothing to number.
LEMMA InitCore == Init => Core
<1> SUFFICES ASSUME Init PROVE Core
  OBVIOUS
<1>1. NoToken \in StoredToken /\ NoToken.status = "none"
  BY AuthSessionsAssumption DEF NoToken, StoredToken
<1>2. Present = {}
  BY <1>1 DEF Init, Present
<1>3. Count = 0
  BY <1>2, FS_EmptySet DEF Count
<1>4. Pending({"save"}) = 0
  <2>1. {t \in Thread : thread[t].pc \in {"save"}} = {}
    BY DEF Init, Idle
  <2>. QED BY <2>1, FS_EmptySet DEF Pending
<1>5. Numbered
  BY <1>2, <1>3, <1>4, AuthSessionsAssumption DEF Numbered
<1>6. Nothing \in Holdings /\ First \in Holdings /\ [First EXCEPT !.store = "none"] \in Holdings
  BY DEF Nothing, First, Holdings, Instance
<1>7. TypeOK
  <2>1. tokens \in [Token -> StoredToken] /\ thread \in [Thread -> Request]
    BY <1>1, IdleRequest DEF Init
  <2>2. backend \in Backends /\ index \in BOOLEAN
    BY DEF Init, Connected, Wired
  <2>3. /\ users \in 0..MaxUsers /\ holding \subseteq Instance \cup {"none"} /\ sessions \in 0..MaxSessions
        /\ clean \subseteq 1..sessions /\ late \subseteq clean
    BY AuthSessionsAssumption DEF Init
  <2>4. /\ used \in [State -> Nat] /\ together \in BOOLEAN /\ raced \subseteq Repository
        /\ home \in [Session -> Holdings]
    BY <1>6 DEF Init
  <2>5. states \in [State -> StoredState]
    BY DEF Init, StoredState
  <2>6. built \in Holdings /\ cases \in [UseCase -> Holdings]
    BY <1>6 DEF Init, Registered
  <2>7. known \subseteq Present /\ \A k \in Present : tokens[k].session \in 1..sessions
    BY <1>2 DEF Init
  <2>. QED BY <2>1, <2>2, <2>3, <2>4, <2>5, <2>6, <2>7 DEF TypeOK
<1>. QED BY <1>3, <1>5, <1>7, IdleRequest DEF Core, Init


(***************************************************************************)
(* Requests to the container.                                              *)
(***************************************************************************)

\* A request that is given service s.
LEMMA WithCarries ==
    ASSUME NEW r \in Request, NEW s \in Service, NEW i \in Instance, NEW tk, NEW n,
           About(r, tk, n),
           s = "store" => r.case \in {"start", "login"},
           s # "store" => r.case \in UseCase
    PROVE  With(r, s, i) \in Request /\ Carries(With(r, s, i), tk, n)
<1> DEFINE h == [r.has EXCEPT ![s] = i]
           q == [r EXCEPT !.pc = After(r, s), !.has = h]
<1>1. h \in Holdings
  BY DEF Request, Holdings
<1>2. /\ s = "store" /\ r.case = "start" => After(r, s) = "keep"
      /\ s = "store" /\ r.case # "start" => After(r, s) = "consume"
      /\ s = "users" => After(r, s) = "tokens"
      /\ s = "tokens" => After(r, s) = "install"
  BY DEF After
<1>3. s \in {"store", "users", "tokens"}
  BY DEF Service, Repository
<1> HIDE DEF h
<1>4. After(r, s) \in {"keep", "consume", "tokens", "install"}
  BY <1>2, <1>3
<1>5. /\ q \in Request /\ q.pc = After(r, s) /\ q.case = r.case /\ q.state = r.state
      /\ q.token = r.token /\ q.session = r.session
  BY <1>1, <1>4 DEF Request
<1>6. With(r, s, i) = q
  BY DEF With, h
<1> HIDE DEF q
<1>7. About(q, tk, n)
  BY <1>5 DEF About
<1>8. Carries(q, tk, n)
  BY <1>2, <1>3, <1>4, <1>5, <1>7 DEF Carries
<1>. QED BY <1>5, <1>6, <1>8

\* A request that asks for service s.
LEMMA LookedCarries ==
    ASSUME built \in Holdings,
           NEW r \in Request, NEW s \in Service, NEW tk, NEW n, About(r, tk, n),
           s = "store" => r.case \in {"start", "login"},
           s # "store" => r.case \in UseCase
    PROVE  Looked(r, s) \in Request /\ Carries(Looked(r, s), tk, n)
<1>1. CASE built[s] # "none"
  <2>1. built[s] \in Instance
    BY <1>1 DEF Holdings
  <2>. QED BY <1>1, <2>1, WithCarries DEF Looked
<1>2. CASE built[s] = "none"
  <2> DEFINE q == [r EXCEPT !.pc = New[s]]
  <2>1. s \in {"store", "users", "tokens"}
    BY DEF Service, Repository
  <2>2. New[s] \in {"new store", "new users", "new tokens"} /\ (New[s] = "new store" <=> s = "store")
    <3>1. /\ New["store"] = "new store" /\ New["users"] = "new users"
          /\ New["tokens"] = "new tokens"
      BY DEF New
    <3>. QED BY <2>1, <3>1
  <2>3. /\ q \in Request /\ q.pc = New[s] /\ q.case = r.case /\ q.state = r.state
        /\ q.token = r.token /\ q.session = r.session
    BY <2>2 DEF Request
  <2>4. Looked(r, s) = q
    BY <1>2 DEF Looked
  <2> HIDE DEF q
  <2>5. Carries(q, tk, n)
    BY <2>2, <2>3 DEF Carries, About
  <2>. QED BY <2>3, <2>4, <2>5
<1>. QED BY <1>1, <1>2

\* A request that asks for its use case.
LEMMA LookedCaseCarries ==
    ASSUME cases \in [UseCase -> Holdings],
           NEW r \in Request, r.case \in UseCase, NEW tk, NEW n, About(r, tk, n)
    PROVE  LookedCase(r) \in Request /\ Carries(LookedCase(r), tk, n)
<1> DEFINE c == r.case
<1>1. c \in {"login", "refresh", "revoke"}
  BY DEF UseCase
<1>2. CASE cases[c] # Nothing
  <2> DEFINE q == [r EXCEPT !.pc = Body[c], !.has = cases[c]]
  <2>1. Body[c] \in {"find", "check", "lookup"} /\ (Body[c] = "find" <=> c = "login")
    BY <1>1 DEF Body
  <2>2. cases[c] \in Holdings
    OBVIOUS
  <2>3. /\ q \in Request /\ q.pc = Body[c] /\ q.case = c /\ q.state = r.state
        /\ q.token = r.token /\ q.session = r.session
    BY <2>1, <2>2 DEF Request
  <2>4. LookedCase(r) = q
    BY <1>2 DEF LookedCase
  <2> HIDE DEF q
  <2>5. Carries(q, tk, n)
    BY <1>1, <2>1, <2>3 DEF Carries, About
  <2>. QED BY <2>3, <2>4, <2>5
<1>3. CASE cases[c] = Nothing
  <2> DEFINE pc == IF c = "revoke" THEN "tokens" ELSE "users"
             q == [r EXCEPT !.pc = pc]
  <2>1. pc \in {"users", "tokens"}
    OBVIOUS
  <2>2. LookedCase(r) = q
    BY <1>3 DEF LookedCase
  <2> HIDE DEF pc
  <2>3. /\ q \in Request /\ q.pc = pc /\ q.case = c /\ q.state = r.state
        /\ q.token = r.token /\ q.session = r.session
    BY <2>1 DEF Request
  <2> HIDE DEF q
  <2>4. Carries(q, tk, n)
    BY <2>1, <2>3 DEF Carries, About
  <2>. QED BY <2>2, <2>3, <2>4
<1>. QED BY <1>2, <1>3

\* Where a request goes on from there, and what stays of it.
LEMMA WithPc ==
    ASSUME NEW r \in Request, NEW s \in Service, NEW i \in Instance
    PROVE  /\ With(r, s, i).pc \in {"keep", "consume", "tokens", "install"}
           /\ s = "store" => With(r, s, i).pc \in {"keep", "consume"}
           /\ With(r, s, i).state = r.state /\ With(r, s, i).case = r.case
<1>1. s \in {"store", "users", "tokens"}
  BY DEF Service, Repository
<1>2. /\ After(r, s) \in {"keep", "consume", "tokens", "install"}
      /\ s = "store" => After(r, s) \in {"keep", "consume"}
  BY <1>1 DEF After
<1>. QED BY <1>2 DEF With, Request

\* Likewise when the service is only asked for.
LEMMA LookedPc ==
    ASSUME built \in Holdings, NEW r \in Request, NEW s \in Service
    PROVE  /\ Looked(r, s).pc \in {"keep", "consume", "tokens", "install"}
                                 \cup {"new store", "new users", "new tokens"}
           /\ s = "store" => Looked(r, s).pc \in {"new store", "keep", "consume"}
           /\ Looked(r, s).state = r.state /\ Looked(r, s).case = r.case
<1>1. s \in {"store", "users", "tokens"}
  BY DEF Service, Repository
<1>2. built[s] # "none" => built[s] \in Instance
  BY DEF Holdings
<1>3. New[s] \in {"new store", "new users", "new tokens"} /\ (s = "store" => New[s] = "new store")
  <2>1. /\ New["store"] = "new store" /\ New["users"] = "new users"
        /\ New["tokens"] = "new tokens"
    BY DEF New
  <2>. QED BY <1>1, <2>1
<1>4. /\ [r EXCEPT !.pc = New[s]].pc = New[s] /\ [r EXCEPT !.pc = New[s]].state = r.state
      /\ [r EXCEPT !.pc = New[s]].case = r.case
  BY DEF Request
<1>. QED BY <1>2, <1>3, <1>4, WithPc DEF Looked

\* And when the use case is.
LEMMA LookedCasePc ==
    ASSUME NEW r \in Request, r.case \in UseCase
    PROVE  /\ LookedCase(r).pc \in {"find", "check", "lookup", "users", "tokens"}
           /\ LookedCase(r).state = r.state /\ LookedCase(r).case = r.case
<1>1. r.case \in {"login", "refresh", "revoke"}
  BY DEF UseCase
<1>2. Body[r.case] \in {"find", "check", "lookup"}
  BY <1>1 DEF Body
<1>. QED BY <1>2 DEF LookedCase, Request

\* The steps before a login is finished, the clock and a failing command leave the
\* history of the sessions alone.
LEMMA OAuthOthers ==
    ASSUME OthersOK,
           \/ \E x \in State : ExpireState(x)
           \/ \E x \in State, t \in Thread : StartOAuth(t, x) \/ Callback(t, x)
           \/ \E t \in Thread : ExchangeFails(t) \/ CommandFails(t) \/ ResolveCase(t)
           \/ \E t \in Thread, s \in Service : Resolve(t, s)
           \/ \E k \in Token : ExpireToken(k) \/ DropExpired(k)
           \/ UNCHANGED vars
    PROVE  OthersOK'
<1>1. ASSUME NEW x \in State, NEW v \in {"drawn", "expired"},
             states' = [states EXCEPT ![x].status = v]
      PROVE  states' \in [State -> StoredState]
  <2>1. states[x] \in StoredState
    BY DEF OthersOK
  <2>2. [states[x] EXCEPT !.status = v] \in StoredState
    BY <2>1 DEF StoredState
  <2>. QED BY <1>1, <2>2 DEF OthersOK
<1>2. CASE \E x \in State : ExpireState(x)
  BY <1>1, <1>2 DEF OthersOK, ExpireState, Data, Container, History
<1>3. CASE \E x \in State, t \in Thread : StartOAuth(t, x) \/ Callback(t, x)
  BY <1>1, <1>3 DEF OthersOK, StartOAuth, Callback, Data, Container, History
<1>4. CASE \/ \E t \in Thread : ExchangeFails(t) \/ CommandFails(t) \/ ResolveCase(t)
           \/ \E t \in Thread, s \in Service : Resolve(t, s)
           \/ \E k \in Token : ExpireToken(k) \/ DropExpired(k)
           \/ UNCHANGED vars
  BY <1>4 DEF OthersOK, ExchangeFails, CommandFails, ResolveCase, Resolve, ExpireToken,
              DropExpired, vars, Data, Container, History
<1>. QED BY <1>2, <1>3, <1>4

\* A service that is built has its instance, and a use case its repositories.
LEMMA BuildOthers ==
    ASSUME Core, OthersOK, NEW t \in Thread,
           (\E s \in Service : Build(t, s)) \/ Install(t)
    PROVE  OthersOK'
<1>1. ASSUME NEW s \in Service, Build(t, s) PROVE OthersOK'
  <2>1. built' \in Holdings
    BY <1>1 DEF Build, OthersOK, Holdings, Instance
  <2>2. raced' \subseteq Repository
    BY <1>1 DEF Build, OthersOK, Service
  <2>. QED BY <1>1, <2>1, <2>2 DEF Build, OthersOK
<1>2. CASE Install(t)
  <2>1. thread[t].has \in Holdings
    BY DEF Core, TypeOK, Request
  <2>2. cases' \in [UseCase -> Holdings]
    BY <1>2, <2>1 DEF Install, OthersOK
  <2>. QED BY <1>2, <2>2 DEF Install, OthersOK, History
<1>. QED BY <1>1, <1>2

\* A state that is stored or removed is stored somewhere or nowhere.
LEMMA StateOthers ==
    ASSUME Core, OthersOK, NEW t \in Thread, StoreState(t) \/ ConsumeState(t)
    PROVE  OthersOK'
<1>1. states' \in [State -> StoredState]
  <2>1. thread[t].has["store"] \in Instance \cup {"none"}
    BY HasType DEF Service
  <2>2. [status |-> "stored", store |-> thread[t].has["store"]] \in StoredState
    BY <2>1 DEF StoredState
  <2>3. [status |-> "gone", store |-> "none"] \in StoredState
    BY DEF StoredState
  <2>. QED BY <2>2, <2>3 DEF StoreState, ConsumeState, Remove, OthersOK
<1>. QED BY <1>1 DEF StoreState, ConsumeState, OthersOK, Data, Container, History

\* So do the steps on users.
LEMMA UserOthers ==
    ASSUME Core, OthersOK, NEW t \in Thread, FindUser(t) \/ InsertUser(t)
    PROVE  OthersOK'
<1>1. EnsureIndex => index' \in BOOLEAN
  BY DEF EnsureIndex, OthersOK
<1>2. CASE FindUser(t)
  BY <1>1, <1>2 DEF OthersOK, FindUser, Container
<1>3. CASE InsertUser(t)
  <2>1. thread[t].has["users"] \in Instance \cup {"none"}
    BY HasType DEF Service, Repository
  <2>2. users' \in 0..MaxUsers /\ holding' \subseteq Instance \cup {"none"}
    BY <1>3, <2>1, AuthSessionsAssumption DEF InsertUser, NewUser, OthersOK
  <2>. QED BY <1>1, <1>3, <2>2 DEF OthersOK, InsertUser, History, Container
<1>. QED BY <1>2, <1>3

\* A login has a session of its own.
LEMMA LoginOthers ==
    ASSUME Core, OthersOK, NEW t \in Thread, FinishLogin(t)
    PROVE  OthersOK'
<1>1. sessions' = sessions + 1 /\ sessions' \in 0..MaxSessions /\ sessions' \in Session
      /\ sessions \in Nat
  BY AuthSessionsAssumption DEF OthersOK, FinishLogin, Session
<1>2. home' \in [Session -> Holdings]
  <2>1. thread[t].has \in Holdings
    BY DEF Core, TypeOK, Request
  <2>. QED BY <1>1, <2>1 DEF OthersOK, FinishLogin
<1>3. used' \in [State -> Nat]
  <2>1. used \in [State -> Nat] /\ used' = [used EXCEPT ![thread[t].state] = @ + 1]
    BY DEF OthersOK, FinishLogin
  <2> DEFINE x == thread[t].state
  <2>2. x \in State => used[x] + 1 \in Nat
    BY <2>1
  <2> HIDE DEF x
  <2>. QED BY <2>1, <2>2 DEF x
<1>4. clean' \subseteq 1 .. sessions' /\ late' \subseteq clean'
  BY <1>1 DEF OthersOK, FinishLogin
<1>. QED BY <1>1, <1>2, <1>3, <1>4 DEF OthersOK, FinishLogin, Container

\* A refresh or a logout concerns a session there is.
LEMMA TokenOthers ==
    ASSUME Core, OthersOK, NEW t \in Thread,
           \/ CheckToken(t) \/ Sweep(t) \/ SaveSuccessor(t) \/ Rotate(t) \/ IssueAccess(t)
           \/ LookUp(t) \/ \E k \in Token \cup {0} : Refresh(t, k) \/ Logout(t, k)
    PROVE  OthersOK'
<1>1. CASE Sweep(t)
  <2>1. thread[t].session \in 1 .. sessions
    BY <1>1, Held DEF Sweep, At
  <2>. QED BY <1>1, <2>1 DEF Sweep, OthersOK, Data, Container
<1>2. CASE IssueAccess(t)
  BY <1>2 DEF IssueAccess, OthersOK, Container
<1>3. CASE CheckToken(t) \/ SaveSuccessor(t) \/ Rotate(t) \/ LookUp(t)
             \/ \E k \in Token \cup {0} : Refresh(t, k) \/ Logout(t, k)
  BY <1>3 DEF OthersOK, CheckToken, SaveSuccessor, Rotate, LookUp, Refresh, Logout, Presented,
              Data, Container, History
<1>. QED BY <1>1, <1>2, <1>3

\* What Core says of the other variables.
LEMMA CoreOthers ==
    ASSUME Core
    PROVE  /\ OthersOK /\ known \subseteq Present /\ thread \in [Thread -> Request]
           /\ \A t \in Thread : Carries(thread[t], tokens, Count)
BY DEF Core, TypeOK, OthersOK

\* Expiry and stuttering move no thread.
LEMMA AloneCore ==
    ASSUME Core,
           \/ \E x \in State : ExpireState(x)
           \/ \E k \in Token : ExpireToken(k) \/ DropExpired(k)
           \/ UNCHANGED vars
    PROVE  Core'
<1>1. OthersOK'
  BY CoreOthers, OAuthOthers
<1>2. UNCHANGED <<thread, known, sessions>>
  BY DEF ExpireState, ExpireToken, DropExpired, vars, Data
<1>3. SameTokens(tokens, tokens')
  <2>1. CASE UNCHANGED tokens
    BY <2>1, TokensStay
  <2>2. ASSUME NEW k \in Token, ExpireToken(k) PROVE SameTokens(tokens, tokens')
    BY <2>2 DEF ExpireToken, Core, TypeOK, SameTokens, StoredToken
  <2>3. ASSUME NEW k \in Token, DropExpired(k) PROVE SameTokens(tokens, tokens')
    BY <2>3, StatusSet DEF DropExpired, Present
  <2>. QED BY <2>1, <2>2, <2>3 DEF ExpireState, vars
<1>4. Present' = Present /\ Count' = Count /\ Pending({"save"})' = Pending({"save"})
  BY <1>2, <1>3, CountSame DEF Core, Pending
<1>5. Numbered'
  BY <1>4 DEF Core, Numbered
<1>6. ASSUME NEW t \in Thread PROVE Carries(thread'[t], tokens', Count)
  <2>1. Count \in Nat /\ Count <= Count
    BY DEF Core, Numbered
  <2>2. \A k \in 1 .. Count : tokens'[k].session = tokens[k].session
    BY <1>3 DEF SameTokens, Core, Numbered, Present
  <2>. QED BY <1>2, <2>1, <2>2, CarriesStays DEF Core
<1>7. \A k \in Present : tokens'[k].session \in 1 .. sessions
  BY <1>3 DEF Core, TypeOK, SameTokens, Present
<1>. QED BY <1>1, <1>2, <1>3, <1>4, <1>5, <1>6, <1>7 DEF Core, TypeOK, OthersOK, SameTokens

\* A step of a thread that stores and forgets no token and holds none back.
LEMMA MovedCore ==
    ASSUME Core, NEW t \in Thread, NEW r \in Request,
           thread' = [thread EXCEPT ![t] = r], UNCHANGED <<tokens, known, sessions>>,
           Carries(r, tokens, Count), r.pc # "save", OthersOK'
    PROVE  Core'
<1>1. SameTokens(tokens, tokens') /\ known' \subseteq Present
  BY CoreOthers, TokensStay
<1>. QED BY <1>1, CoreKept

\* A request at the container goes on as what it was.
LEMMA ContainerCore ==
    ASSUME Core, NEW t \in Thread,
           (\E s \in Service : Resolve(t, s) \/ Build(t, s)) \/ ResolveCase(t) \/ Install(t)
    PROVE  Core'
<1>1. OthersOK' /\ OthersOK /\ UNCHANGED <<tokens, known, sessions>>
  BY CoreOthers, OAuthOthers, BuildOthers
     DEF Resolve, Build, ResolveCase, Install, Data, History
<1> DEFINE r == thread[t]
<1>2. r \in Request /\ Carries(r, tokens, Count) /\ About(r, tokens, Count)
      /\ built \in Holdings /\ cases \in [UseCase -> Holdings] /\ thread \in [Thread -> Request]
  BY <1>1, CoreOthers DEF Carries, OthersOK
<1>3. ASSUME NEW s \in Service, Resolve(t, s) PROVE Core'
  <2>1. s \in {"store", "users", "tokens"} /\ r.pc = s
    BY <1>3 DEF Service, Repository, Resolve, At
  <2>2. r.pc # "store"
    BY <1>2 DEF Request
  <2>3. s # "store" /\ r.case \in UseCase
    BY <1>2, <2>1, <2>2 DEF Carries
  <2>4. Looked(r, s) \in Request /\ Carries(Looked(r, s), tokens, Count)
    BY <1>2, <2>3, LookedCarries
  <2>5. Looked(r, s).pc # "save"
    BY <1>2, <2>1, <2>3, LookedPc
  <2>6. thread' = [thread EXCEPT ![t] = Looked(r, s)]
    BY <1>3 DEF Resolve
  <2>. QED BY <1>1, <2>4, <2>5, <2>6, MovedCore
<1>4. ASSUME NEW s \in Service, Build(t, s) PROVE Core'
  <2>1. s \in {"store", "users", "tokens"} /\ r.pc = New[s]
    BY <1>4 DEF Service, Repository, Build, At
  <2>2. /\ New["store"] = "new store" /\ New["users"] = "new users"
        /\ New["tokens"] = "new tokens"
    BY DEF New
  <2>3. (s = "store" => r.case \in {"start", "login"}) /\ (s # "store" => r.case \in UseCase)
    BY <1>2, <2>1, <2>2 DEF Carries
  <2>4. With(r, s, t) \in Request /\ Carries(With(r, s, t), tokens, Count)
    BY <1>2, <2>3, WithCarries DEF Instance
  <2>5. With(r, s, t).pc # "save"
    BY <1>2, <2>1, WithPc DEF Instance
  <2>6. thread' = [thread EXCEPT ![t] = With(r, s, t)]
    BY <1>4 DEF Build
  <2>. QED BY <1>1, <2>4, <2>5, <2>6, MovedCore
<1>5. CASE ResolveCase(t)
  <2>1. r.case \in UseCase
    BY <1>2, <1>5 DEF Carries, ResolveCase, At
  <2>2. LookedCase(r) \in Request /\ Carries(LookedCase(r), tokens, Count)
    BY <1>2, <2>1, LookedCaseCarries
  <2>3. LookedCase(r).pc # "save"
    BY <1>2, <2>1, LookedCasePc
  <2>4. thread' = [thread EXCEPT ![t] = LookedCase(r)]
    BY <1>5 DEF ResolveCase
  <2>. QED BY <1>1, <2>2, <2>3, <2>4, MovedCore
<1>6. CASE Install(t)
  <2> DEFINE pc == Body[r.case]
             q == [r EXCEPT !.pc = pc]
  <2>1. r.case \in {"login", "refresh", "revoke"}
    BY <1>2, <1>6 DEF Carries, Install, At, UseCase
  <2>2. pc \in {"find", "check", "lookup"} /\ (pc = "find" <=> r.case = "login")
    BY <2>1 DEF Body
  <2>3. thread' = [thread EXCEPT ![t] = q]
    BY <1>6 DEF Install, Goto
  <2> HIDE DEF pc
  <2>4. /\ q \in Request /\ q.pc = pc /\ q.case = r.case /\ q.state = r.state
        /\ q.token = r.token /\ q.session = r.session
    BY <1>2, <2>2 DEF Request
  <2> HIDE DEF q
  <2>5. Carries(q, tokens, Count)
    BY <1>2, <2>1, <2>2, <2>4 DEF Carries, About
  <2>. QED BY <1>1, <2>2, <2>3, <2>4, <2>5, MovedCore
<1>. QED BY <1>3, <1>4, <1>5, <1>6

\* A request asks for the state store, for a state of its own or the one it came with.
LEMMA StartCore ==
    ASSUME Core, NEW t \in Thread, NEW x \in State, StartOAuth(t, x) \/ Callback(t, x)
    PROVE  Core'
<1>1. OthersOK' /\ OthersOK /\ UNCHANGED <<tokens, known, sessions>>
  BY CoreOthers, OAuthOthers DEF StartOAuth, Callback, Data
<1>2. ASSUME NEW c \in {"start", "login"},
             thread' = [thread EXCEPT ![t] = Looked([@ EXCEPT !.case = c, !.state = x], "store")]
      PROVE  Core'
  <2> DEFINE r == [thread[t] EXCEPT !.case = c, !.state = x]
  <2>1. thread[t] \in Request /\ thread \in [Thread -> Request] /\ built \in Holdings
    BY <1>1, CoreOthers DEF OthersOK
  <2>2. r \in Request /\ r.case = c /\ r.state = x
    BY <2>1 DEF Request, UseCase
  <2>3. thread' = [thread EXCEPT ![t] = Looked(r, "store")]
    BY <1>2
  <2> HIDE DEF r
  <2>4. About(r, tokens, Count)
    BY <2>2 DEF About
  <2>5. "store" \in Service
    BY DEF Service
  <2>6. Looked(r, "store") \in Request /\ Carries(Looked(r, "store"), tokens, Count)
    BY <2>1, <2>2, <2>4, <2>5, LookedCarries
  <2>7. Looked(r, "store").pc # "save"
    BY <2>1, <2>2, <2>5, LookedPc
  <2>. QED BY <1>1, <2>3, <2>6, <2>7, MovedCore
<1>. QED BY <1>2 DEF StartOAuth, Callback

\* The requests of a login keep their state.
LEMMA LoginCore ==
    ASSUME Core, NEW t \in Thread,
           \/ StoreState(t) \/ ConsumeState(t) \/ ExchangeFails(t) \/ FindUser(t)
           \/ InsertUser(t) \/ CommandFails(t)
    PROVE  Core'
<1>1. OthersOK'
  BY CoreOthers, OAuthOthers, StateOthers, UserOthers
<1>2. known' \subseteq Present /\ sessions' = sessions /\ SameTokens(tokens, tokens')
  BY CoreOthers, TokensStay
     DEF StoreState, ConsumeState, ExchangeFails, FindUser, InsertUser, CommandFails, Data, History
<1>3. CASE End(t)
  BY <1>1, <1>2, <1>3, EndKept
<1>4. ASSUME NEW pc \in {"insert", "login"}, Goto(t, pc), thread[t].pc \in {"find", "insert"}
      PROVE  Core'
  <2> DEFINE r == [thread[t] EXCEPT !.pc = pc]
  <2>1. thread[t] \in Request /\ Carries(thread[t], tokens, Count)
    BY CoreOthers
  <2>2. /\ r.pc = pc /\ r.case = thread[t].case /\ r.state = thread[t].state
        /\ r.token = thread[t].token /\ r.session = thread[t].session
    BY <2>1 DEF Request
  <2> HIDE DEF r
  <2>3. thread[t].case = "login"
    BY <1>4, <2>1 DEF Carries
  <2>4. Carries(r, tokens, Count)
    BY <1>4, <2>1, <2>2, <2>3 DEF Carries, About
  <2>5. Carries([thread[t] EXCEPT !.pc = pc], tokens, Count)
    BY <2>4 DEF r
  <2>. QED BY <1>1, <1>2, <1>4, <2>5, GotoKept
<1>5. ASSUME thread[t].pc = "consume",
             thread' = [thread EXCEPT ![t].pc = "case", ![t].has = Nothing]
      PROVE  Core'
  <2> DEFINE r == [thread[t] EXCEPT !.pc = "case", !.has = Nothing]
  <2>1. thread[t] \in Request /\ thread \in [Thread -> Request] /\ Nothing \in Holdings
    BY CoreOthers DEF Nothing, Holdings
  <2>2. /\ r \in Request /\ r.pc = "case" /\ r.case = thread[t].case
        /\ r.state = thread[t].state /\ r.token = thread[t].token /\ r.session = thread[t].session
    BY <2>1 DEF Request
  <2>3. thread' = [thread EXCEPT ![t] = r]
    BY <1>5, <2>1
  <2> HIDE DEF r
  <2>4. Carries(r, tokens, Count)
    BY <1>5, <2>2, CoreOthers DEF Carries, About, UseCase
  <2>5. tokens' = tokens \/ SameTokens(tokens, tokens')
    BY <1>2
  <2>6. \A k \in 1 .. Count : tokens'[k].session = tokens[k].session
    BY <1>2 DEF SameTokens, Core, Numbered, Present
  <2>7. Carries(r, tokens', Count)
    <3>1. Count \in Nat /\ Count <= Count
      BY DEF Core, Numbered
    <3>. QED BY <2>4, <2>6, <3>1, CarriesStays
  <2>. QED BY <1>1, <1>2, <2>2, <2>3, <2>7, CoreKept
<1>. QED BY <1>3, <1>4, <1>5
         DEF StoreState, ConsumeState, ExchangeFails, FindUser, InsertUser, CommandFails, At

\* A finished login stores the next token, for a session of its own.
LEMMA FinishLoginCore ==
    ASSUME Core, NEW t \in Thread, FinishLogin(t)
    PROVE  Core'
<1> DEFINE s == sessions + 1
<1>1. OthersOK' /\ sessions \in Nat
  BY CoreOthers, LoginOthers DEF OthersOK
<1>2. thread' = [thread EXCEPT ![t] = Idle] /\ Idle \in Request /\ Idle.pc # "save"
  BY IdleRequest DEF FinishLogin, End, Idle
<1>3. Pending({"save"})' <= Pending({"save"}) /\ Pending({"save"}) \in Nat /\ Pending({"save"})' \in Nat
  BY <1>2, CoreOthers, PendingStep
<1>4. Count + 1 + Pending({"save"}) <= MaxTokens /\ Count \in Nat
  BY DEF FinishLogin, Count, Core, Numbered
<1>5. Count + 1 + Pending({"save"})' <= MaxTokens
  BY <1>3, <1>4, AuthSessionsAssumption
<1>6. Save(Count + 1, s) /\ known' \subseteq Present \cup {Count + 1} /\ sessions' = s
  BY CoreOthers DEF FinishLogin, Count
<1>7. s \in 1 .. sessions' /\ sessions <= sessions'
  BY <1>1, <1>6
<1>8. Carries(Idle, tokens', Count + 1)
  BY IdleRequest
<1>. QED BY <1>1, <1>2, <1>5, <1>6, <1>7, <1>8, CoreSaved

\* A refresh or a logout takes the token presented, and its session.
LEMMA PresentedCore ==
    ASSUME Core, NEW t \in Thread, NEW k \in Token \cup {0}, Refresh(t, k) \/ Logout(t, k)
    PROVE  Core'
<1>1. OthersOK' /\ OthersOK /\ UNCHANGED <<tokens, known, sessions>>
  BY CoreOthers, TokenOthers DEF Refresh, Logout, Presented, Data
<1>2. k # 0 => k \in Present /\ k \in 1 .. Count
  BY CoreOthers DEF Refresh, Logout, Presented, Core, Numbered
<1>3. k # 0 => tokens[k].session \in 0 .. MaxSessions
  BY <1>2 DEF Core, TypeOK, StoredToken, Present
<1>4. ASSUME NEW c \in {"refresh", "revoke"}, Presented(t, c, k) PROVE Core'
  <2> DEFINE s == IF k = 0 THEN 0 ELSE tokens[k].session
             r == [thread[t] EXCEPT !.case = c, !.token = k, !.session = s]
  <2>1. thread[t] \in Request /\ thread \in [Thread -> Request] /\ cases \in [UseCase -> Holdings]
    BY <1>1, CoreOthers DEF OthersOK
  <2>2. k \in 0 .. MaxTokens /\ s \in 0 .. MaxSessions
    BY <1>3, AuthSessionsAssumption DEF Token
  <2>3. thread' = [thread EXCEPT ![t] = LookedCase(r)]
    BY <1>4 DEF Presented
  <2>4. k # 0 => s = tokens[k].session
    OBVIOUS
  <2>5. Count \in Nat
    BY DEF Core, Numbered
  <2>6. k \in 0 .. Count
    BY <1>2, <2>5
  <2> HIDE DEF s
  <2>7. r \in Request /\ r.case = c /\ r.token = k /\ r.session = s
    BY <2>1, <2>2 DEF Request, UseCase
  <2> HIDE DEF r
  <2>8. About(r, tokens, Count) /\ r.case \in UseCase
    BY <2>4, <2>6, <2>7 DEF About, UseCase
  <2>9. LookedCase(r) \in Request /\ Carries(LookedCase(r), tokens, Count)
    BY <2>1, <2>7, <2>8, LookedCaseCarries
  <2>10. LookedCase(r).pc # "save"
    BY <2>1, <2>7, <2>8, LookedCasePc
  <2>. QED BY <1>1, <2>3, <2>9, <2>10, MovedCore
<1>. QED BY <1>4 DEF Refresh, Logout

\* A refresh or a logout that found its token goes on with it.
LEMMA OnwardCarries ==
    ASSUME NEW r \in Request, NEW tk, NEW n, Carries(r, tk, n),
           NEW pc \in {"sweep", "save", "issue"}, r.case \in {"refresh", "revoke"}, r.token # 0,
           pc = "issue" => r.new \in 1 .. n
    PROVE  Carries([r EXCEPT !.pc = pc], tk, n)
<1> DEFINE q == [r EXCEPT !.pc = pc]
<1>1. /\ q.pc = pc /\ q.case = r.case /\ q.state = r.state /\ q.token = r.token
      /\ q.session = r.session /\ q.new = r.new
  BY DEF Request
<1>2. About(r, tk, n)
  BY DEF Carries
<1> HIDE DEF q
<1>3. About(q, tk, n)
  BY <1>1, <1>2 DEF About
<1>4. Carries(q, tk, n)
  BY <1>1, <1>3 DEF Carries
<1>. QED BY <1>4 DEF q

\* A refresh that goes on to save holds back a token for it.
LEMMA CheckTokenCore ==
    ASSUME Core, NEW t \in Thread, CheckToken(t) \/ LookUp(t)
    PROVE  Core'
<1>1. OthersOK' /\ known' \subseteq Present /\ sessions' = sessions /\ SameTokens(tokens, tokens')
  BY CoreOthers, TokenOthers, TokensStay DEF CheckToken, LookUp, Data
<1>2. CASE End(t)
  BY <1>1, <1>2, EndKept
<1>3. ASSUME NEW pc \in {"sweep", "save"}, Goto(t, pc),
             pc = "save" => Count + Pending({"save"}) < MaxTokens,
             thread[t].pc \in {"check", "lookup"}, thread[t].token # 0
      PROVE  Core'
  <2>1. Carries([thread[t] EXCEPT !.pc = pc], tokens, Count)
    <3>1. thread[t].case \in {"refresh", "revoke"}
      BY <1>3, CoreOthers DEF Carries
    <3>. QED BY <1>3, <3>1, CoreOthers, OnwardCarries
  <2>. QED BY <1>1, <1>3, <2>1, GotoKept
<1>. QED BY <1>2, <1>3 DEF CheckToken, LookUp, Found, At, Count

\* Revoking keeps every token stored.
LEMMA RevokeCore ==
    ASSUME Core, NEW t \in Thread, Sweep(t) \/ Rotate(t)
    PROVE  Core'
<1>1. OthersOK' /\ known' \subseteq Present /\ sessions' = sessions
  BY CoreOthers, TokenOthers DEF Sweep, Rotate, Data
<1>2. CASE Sweep(t)
  <2>1. SameTokens(tokens, tokens')
    BY <1>2 DEF Sweep, RevokeSession, Live, SameTokens, Core, TypeOK, StoredToken
  <2>. QED BY <1>1, <1>2, <2>1, EndKept DEF Sweep
<1>3. CASE Rotate(t)
  <2>1. thread[t].token \in Present
    BY <1>3, Held DEF Rotate, At
  <2>2. SameTokens(tokens, tokens')
    BY <1>3, <2>1, StatusSet DEF Rotate
  <2>3. Carries([thread[t] EXCEPT !.pc = "issue"], tokens, Count)
    <3>1. /\ thread[t].case \in {"refresh", "revoke"} /\ thread[t].token # 0
          /\ thread[t].new \in 1 .. Count
      BY <1>3, CoreOthers DEF Rotate, At, Carries
    <3>. QED BY <3>1, CoreOthers, OnwardCarries
  <2>. QED BY <1>1, <1>3, <2>2, <2>3, GotoKept DEF Rotate
<1>. QED BY <1>2, <1>3

\* The successor is the token that was held back.
LEMMA SaveSuccessorCore ==
    ASSUME Core, NEW t \in Thread, SaveSuccessor(t)
    PROVE  Core'
<1> DEFINE k == Count + 1
           s == thread[t].session
           r == [thread[t] EXCEPT !.pc = "rotate", !.new = k]
<1>1. /\ OthersOK' /\ known' \subseteq Present /\ sessions' = sessions
      /\ thread[t] \in Request /\ thread[t].pc = "save" /\ Save(k, s)
  BY CoreOthers, TokenOthers DEF SaveSuccessor, At, Data, Count
<1>2. Count \in Nat /\ Count + Pending({"save"}) <= MaxTokens /\ sessions \in Nat
  BY CoreOthers DEF Core, Numbered, OthersOK
<1>3. thread' = [thread EXCEPT ![t] = r]
  BY CoreOthers DEF SaveSuccessor, Count
<1>4. k \in 0 .. MaxTokens
  <2>1. Pending({"save"}) # 0
    <3>1. t \in {u \in Thread : thread[u].pc \in {"save"}}
      BY <1>1
    <3>2. IsFiniteSet({u \in Thread : thread[u].pc \in {"save"}})
      BY FS_Subset, AuthSessionsAssumption
    <3>. QED BY <3>1, <3>2, FS_EmptySet DEF Pending
  <2>2. Pending({"save"}) \in Nat
    <3>1. IsFiniteSet({u \in Thread : thread[u].pc \in {"save"}})
      BY FS_Subset, AuthSessionsAssumption
    <3>. QED BY <3>1, FS_CardinalityType DEF Pending
  <2>. QED BY <1>2, <2>1, <2>2, AuthSessionsAssumption
<1>5. r \in Request /\ r.pc = "rotate" /\ r.new = k /\ r.token = thread[t].token /\ r.session = s
  BY <1>1, <1>4 DEF Request
<1>6. Pending({"save"})' + 1 = Pending({"save"}) /\ Pending({"save"})' \in Nat /\ Pending({"save"}) \in Nat
  <2>1. r.pc # "save"
    BY <1>5
  <2>. QED BY <1>1, <1>3, <1>5, <2>1, CoreOthers, PendingStep
<1>7. k + Pending({"save"})' <= MaxTokens
  BY <1>2, <1>6, AuthSessionsAssumption
<1>8. s \in 1 .. sessions' /\ sessions <= sessions' /\ thread[t].token \in 1 .. Count
      /\ s = tokens[thread[t].token].session /\ s \in 0 .. MaxSessions
  BY <1>1, <1>2, Held, AuthSessionsAssumption DEF Session
<1>9. r.case = thread[t].case /\ thread[t].case \in {"refresh", "revoke"} /\ thread[t].token # 0
  BY <1>1, CoreOthers DEF Carries, Request
<1>10. Carries(r, tokens', k)
  <2>1. k <= MaxTokens
    BY <1>4
  <2>2. tokens'[thread[t].token] = tokens[thread[t].token]
    <3>1. \A i \in 1 .. Count : i \in Token \ {k}
      BY <1>2, <1>4, AuthSessionsAssumption DEF Token
    <3>. QED BY <1>1, <1>8, <2>1, <3>1, CountSaved
  <2>3. thread[t].token \in 1 .. k /\ k \in 1 .. k
    BY <1>2, <1>8
  <2>4. About(r, tokens', k)
    BY <1>5, <1>8, <1>9, <2>2, <2>3 DEF About
  <2> HIDE DEF r
  <2>. QED BY <1>5, <1>9, <2>3, <2>4 DEF Carries
<1>11. known' \subseteq Present \cup {k}
  BY <1>1
<1>. QED BY <1>1, <1>3, <1>5, <1>7, <1>8, <1>10, <1>11, CoreSaved

\* The successor is answered.
LEMMA IssueAccessCore ==
    ASSUME Core, NEW t \in Thread, IssueAccess(t)
    PROVE  Core'
<1>1. OthersOK' /\ sessions' = sessions /\ SameTokens(tokens, tokens') /\ End(t)
  BY CoreOthers, TokenOthers, TokensStay DEF IssueAccess
<1>2. known' \subseteq Present
  BY CoreOthers DEF IssueAccess, At, Carries, Core, Numbered
<1>. QED BY <1>1, <1>2, EndKept

\* Core is an invariant.
LEMMA CoreInvariant == Spec => []Core
<1>1. Core /\ [Next]_vars => Core'
  <2> SUFFICES ASSUME Core, [Next]_vars PROVE Core'
    OBVIOUS
  <2>1. CASE \/ \E x \in State : ExpireState(x)
             \/ \E k \in Token : ExpireToken(k) \/ DropExpired(k)
             \/ UNCHANGED vars
    BY <2>1, AloneCore
  <2>2. ASSUME NEW t \in Thread,
               \/ \E s \in Service : Resolve(t, s) \/ Build(t, s)
               \/ ResolveCase(t) \/ Install(t)
               \/ \E x \in State : StartOAuth(t, x) \/ Callback(t, x)
               \/ StoreState(t) \/ ConsumeState(t) \/ ExchangeFails(t) \/ FindUser(t)
               \/ InsertUser(t) \/ CommandFails(t)
        PROVE  Core'
    BY <2>2, ContainerCore, StartCore, LoginCore
  <2>3. ASSUME NEW t \in Thread,
               \/ FinishLogin(t) \/ CheckToken(t) \/ Sweep(t) \/ SaveSuccessor(t) \/ Rotate(t)
               \/ IssueAccess(t) \/ LookUp(t)
               \/ \E k \in Token \cup {0} : Refresh(t, k) \/ Logout(t, k)
        PROVE  Core'
    BY <2>3, FinishLoginCore, CheckTokenCore, RevokeCore, SaveSuccessorCore, IssueAccessCore,
       PresentedCore
  <2>. QED BY <2>1, <2>2, <2>3 DEF Next, Login
<1>. QED BY <1>1, InitCore, PTL DEF Spec

\* Every variable keeps its type; in particular the ids of tokens never run out
\* under a refresh that is past its check.
THEOREM AuthTypeCorrect == Spec => []TypeOK
<1>1. Core => TypeOK
  BY DEF Core
<1>. QED BY <1>1, CoreInvariant, PTL

(***************************************************************************)
(* Where a step takes its thread.                                          *)
(***************************************************************************)

\* Request r has taken state x out of the store, to log in with it.
Holds(r, x) ==
    /\ r.case = "login" /\ r.state = x
    /\ r.pc \in {"case", "users", "new users", "tokens", "new tokens", "install", "find"}
               \cup {"insert", "login"}

\* Requests about tokens are never on the way of a login.
LEMMA TokenMoves ==
    ASSUME Core, NEW t \in Thread,
           \/ FinishLogin(t) \/ CheckToken(t) \/ Sweep(t) \/ SaveSuccessor(t) \/ Rotate(t)
           \/ IssueAccess(t)
    PROVE  \E r : /\ thread' = [thread EXCEPT ![t] = r]
                  /\ r.pc \in {"idle", "sweep", "save", "rotate", "issue"}
<1>1. thread[t] \in Request /\ Idle.pc = "idle"
  BY CoreOthers DEF Idle
<1>2. CASE End(t)
  BY <1>1, <1>2 DEF End
<1>3. ASSUME NEW pc \in {"sweep", "save", "issue"}, Goto(t, pc)
      PROVE  \E r : /\ thread' = [thread EXCEPT ![t] = r]
                    /\ r.pc \in {"idle", "sweep", "save", "rotate", "issue"}
  <2>1. [thread[t] EXCEPT !.pc = pc].pc = pc
    BY <1>1 DEF Request
  <2>. QED BY <1>3, <2>1 DEF Goto
<1>4. CASE SaveSuccessor(t)
  <2> DEFINE r == [thread[t] EXCEPT !.pc = "rotate", !.new = Cardinality(Present) + 1]
  <2>1. r.pc = "rotate" /\ thread' = [thread EXCEPT ![t] = r]
    BY <1>1, <1>4, CoreOthers DEF Request, SaveSuccessor
  <2>. QED BY <2>1
<1>5. CASE CheckToken(t)
  BY <1>2, <1>3, <1>5 DEF CheckToken
<1>6. CASE FinishLogin(t) \/ Sweep(t) \/ IssueAccess(t)
  BY <1>2, <1>6 DEF FinishLogin, Sweep, IssueAccess
<1>7. CASE Rotate(t)
  BY <1>3, <1>7 DEF Rotate
<1>. QED BY <1>4, <1>5, <1>6, <1>7

\* What a request at the container goes on as.
LEMMA ContainerMoves ==
    ASSUME Core, NEW t \in Thread,
           (\E s \in Service : Resolve(t, s) \/ Build(t, s)) \/ ResolveCase(t) \/ Install(t)
    PROVE  \E r : /\ thread' = [thread EXCEPT ![t] = r]
                  /\ r.pc \notin {"save", "rotate", "issue", "insert"}
                  /\ \A x : Holds(r, x) => Holds(thread[t], x)
<1> DEFINE q == thread[t]
           Way(r) == /\ r.state = q.state /\ r.case = q.case
                     /\ r.pc \notin {"save", "rotate", "issue", "insert", "case", "login"}
                     /\ \/ q.pc \in {"case", "users", "new users", "tokens", "new tokens", "install"}
                        \/ r.pc \in {"new store", "keep", "consume"}
<1>1. /\ q \in Request /\ Carries(q, tokens, Count) /\ built \in Holdings
      /\ cases \in [UseCase -> Holdings]
  BY CoreOthers DEF OthersOK
<1>2. ASSUME NEW r, Way(r) PROVE \A x : Holds(r, x) => Holds(q, x)
  BY <1>2 DEF Holds
<1>3. ASSUME NEW s \in Service, Resolve(t, s)
      PROVE  Way(Looked(q, s)) /\ thread' = [thread EXCEPT ![t] = Looked(q, s)]
  <2>1. s \in {"store", "users", "tokens"} /\ q.pc = s
    BY <1>3 DEF Service, Repository, Resolve, At
  <2>. QED BY <1>1, <1>3, <2>1, LookedPc DEF Resolve
<1>4. ASSUME NEW s \in Service, Build(t, s)
      PROVE  Way(With(q, s, t)) /\ thread' = [thread EXCEPT ![t] = With(q, s, t)]
  <2>1. s \in {"store", "users", "tokens"} /\ q.pc = New[s]
    BY <1>4 DEF Service, Repository, Build, At
  <2>2. New["users"] = "new users" /\ New["tokens"] = "new tokens"
    BY DEF New
  <2>3. t \in Instance
    BY DEF Instance
  <2>. QED BY <1>1, <1>4, <2>1, <2>2, <2>3, WithPc DEF Build
<1>5. ASSUME ResolveCase(t)
      PROVE  Way(LookedCase(q)) /\ thread' = [thread EXCEPT ![t] = LookedCase(q)]
  <2>1. q.pc = "case" /\ q.case \in UseCase
    BY <1>1, <1>5 DEF ResolveCase, At, Carries
  <2>. QED BY <1>1, <1>5, <2>1, LookedCasePc DEF ResolveCase
<1>6. ASSUME Install(t)
      PROVE  \E r : Way(r) /\ thread' = [thread EXCEPT ![t] = r]
  <2> DEFINE r == [q EXCEPT !.pc = Body[q.case]]
  <2>1. q.pc = "install" /\ q.case \in {"login", "refresh", "revoke"}
    BY <1>1, <1>6 DEF Install, At, Carries, UseCase
  <2>2. Body[q.case] \in {"find", "check", "lookup"}
    BY <2>1 DEF Body
  <2>3. Way(r) /\ thread' = [thread EXCEPT ![t] = r]
    BY <1>1, <1>6, <2>1, <2>2 DEF Install, Goto, Request
  <2>. QED BY <2>3
<1> HIDE DEF Way
<1>7. \E r : Way(r) /\ thread' = [thread EXCEPT ![t] = r]
  BY <1>3, <1>4, <1>5, <1>6
<1>. QED BY <1>2, <1>7 DEF Way

\* What any step but those of a refresh or the end of a login makes of its request.
LEMMA Moves ==
    ASSUME Core, NEW t \in Thread,
           \/ \E s \in Service : Resolve(t, s) \/ Build(t, s)
           \/ ResolveCase(t) \/ Install(t)
           \/ \E x \in State : StartOAuth(t, x) \/ Callback(t, x)
           \/ StoreState(t) \/ ConsumeState(t) \/ ExchangeFails(t) \/ FindUser(t)
           \/ InsertUser(t) \/ CommandFails(t) \/ LookUp(t)
           \/ \E k \in Token \cup {0} : Refresh(t, k) \/ Logout(t, k)
    PROVE  \E r : /\ thread' = [thread EXCEPT ![t] = r]
                  /\ r.pc \notin {"save", "rotate", "issue"}
                  /\ r.pc = "insert" => FindUser(t)
                  /\ \A x : Holds(r, x) => \/ Holds(thread[t], x)
                                           \/ ConsumeState(t) /\ x = thread[t].state
<1> DEFINE q == thread[t]
           Fine(r) == /\ r.pc \notin {"save", "rotate", "issue"}
                      /\ r.pc = "insert" => FindUser(t)
                      /\ \A x : Holds(r, x) => Holds(q, x) \/ (ConsumeState(t) /\ x = q.state)
           Goal == \E r : thread' = [thread EXCEPT ![t] = r] /\ Fine(r)
<1>1. /\ q \in Request /\ Carries(q, tokens, Count) /\ OthersOK
      /\ built \in Holdings /\ cases \in [UseCase -> Holdings]
  BY CoreOthers DEF OthersOK
<1>2. CASE (\E s \in Service : Resolve(t, s) \/ Build(t, s)) \/ ResolveCase(t) \/ Install(t)
  BY <1>2, ContainerMoves
<1>3. CASE End(t)
  <2>1. Fine(Idle)
    BY DEF Idle, Holds
  <2>. QED BY <1>3, <2>1 DEF End
<1>4. ASSUME NEW pc \in {"insert", "login", "sweep"}, Goto(t, pc), pc = "insert" => FindUser(t),
             pc # "sweep" => q.pc \in {"find", "insert"}
      PROVE  Goal
  <2> DEFINE r == [q EXCEPT !.pc = pc]
  <2>1. r.pc = pc /\ r.case = q.case /\ r.state = q.state
    BY <1>1 DEF Request
  <2>2. thread' = [thread EXCEPT ![t] = r]
    BY <1>4 DEF Goto
  <2> HIDE DEF r
  <2>3. Fine(r)
    BY <1>4, <2>1 DEF Holds
  <2>. QED BY <2>2, <2>3
<1>5. ASSUME NEW x \in State, NEW c \in {"start", "login"},
             thread' = [thread EXCEPT ![t] = Looked([@ EXCEPT !.case = c, !.state = x], "store")]
      PROVE  Goal
  <2> DEFINE r == [q EXCEPT !.case = c, !.state = x]
  <2>1. r \in Request
    BY <1>1 DEF Request, UseCase
  <2>2. thread' = [thread EXCEPT ![t] = Looked(r, "store")]
    BY <1>5
  <2> HIDE DEF r
  <2>3. Looked(r, "store").pc \in {"new store", "keep", "consume"}
    BY <1>1, <2>1, LookedPc DEF Service
  <2>4. Fine(Looked(r, "store"))
    BY <2>3 DEF Holds
  <2>. QED BY <2>2, <2>4
<1>6. ASSUME NEW k \in Token \cup {0}, NEW c \in {"refresh", "revoke"}, Presented(t, c, k)
      PROVE  Goal
  <2> DEFINE s == IF k = 0 THEN 0 ELSE tokens[k].session
             r == [q EXCEPT !.case = c, !.token = k, !.session = s]
  <2>1. thread' = [thread EXCEPT ![t] = LookedCase(r)]
    BY <1>6 DEF Presented
  <2>2. r \in Request
    <3>1. k # 0 => tokens[k] \in StoredToken
      BY DEF Core, TypeOK
    <3>2. k \in 0 .. MaxTokens /\ s \in 0 .. MaxSessions
      BY <3>1, AuthSessionsAssumption DEF Token, StoredToken
    <3> HIDE DEF s
    <3>. QED BY <1>1, <3>2 DEF Request, UseCase
  <2>3. r.case = c
    BY <1>1 DEF Request
  <2> HIDE DEF r
  <2>4. /\ LookedCase(r).pc \in {"find", "check", "lookup", "users", "tokens"}
        /\ LookedCase(r).case = c
    BY <2>2, <2>3, LookedCasePc DEF UseCase
  <2>5. Fine(LookedCase(r))
    BY <2>4 DEF Holds
  <2>. QED BY <2>1, <2>5
<1>7. ASSUME ConsumeState(t), thread' = [thread EXCEPT ![t].pc = "case", ![t].has = Nothing]
      PROVE  Goal
  <2> DEFINE r == [q EXCEPT !.pc = "case", !.has = Nothing]
  <2>1. r.pc = "case" /\ r.state = q.state
    BY <1>1 DEF Request
  <2>2. thread' = [thread EXCEPT ![t] = r]
    BY <1>7, CoreOthers
  <2> HIDE DEF r
  <2>3. Fine(r)
    BY <1>7, <2>1 DEF Holds
  <2>. QED BY <2>2, <2>3
<1>8. CASE ConsumeState(t)
  BY <1>3, <1>7, <1>8 DEF ConsumeState
<1>9. CASE StoreState(t) \/ ExchangeFails(t) \/ CommandFails(t) \/ LookUp(t)
  BY <1>3, <1>4, <1>9 DEF StoreState, ExchangeFails, CommandFails, LookUp
<1>10. CASE FindUser(t) \/ InsertUser(t)
  BY <1>3, <1>4, <1>10 DEF FindUser, InsertUser, At
<1>11. CASE \E x \in State : StartOAuth(t, x) \/ Callback(t, x)
  BY <1>5, <1>11 DEF StartOAuth, Callback
<1>12. CASE \E k \in Token \cup {0} : Refresh(t, k) \/ Logout(t, k)
  BY <1>6, <1>12 DEF Refresh, Logout
<1>. QED BY <1>2, <1>8, <1>9, <1>10, <1>11, <1>12

(***************************************************************************)
(* A swept session stays dead.  The invariant adds what the state does not *)
(* show: no thread of such a session is past its check either.             *)
(***************************************************************************)

Dead(tk, s) == \A k \in Token : tk[k].status = "live" => tk[k].session # s

Past(r, s) == r.session = s /\ r.pc \in {"save", "rotate", "issue"}

Swept ==
    /\ late = {}
    /\ \A s \in clean : Dead(tokens, s) /\ \A t \in Thread : ~Past(thread[t], s)

\* Initially no session is swept.
LEMMA InitSwept == Init => Swept
BY DEF Init, Swept

\* A step of one thread that sweeps nothing.
LEMMA SweptKept ==
    ASSUME Core, Swept, NEW t \in Thread, NEW r, thread' = [thread EXCEPT ![t] = r],
           UNCHANGED <<clean, late>>,
           \A s \in clean : ~Past(r, s) /\ Dead(tokens', s)
    PROVE  Swept'
<1>1. ASSUME NEW u \in Thread, NEW s \in clean PROVE ~Past(thread'[u], s)
  <2>1. thread'[u] = r \/ thread'[u] = thread[u]
    BY CoreOthers
  <2>. QED BY <2>1 DEF Swept
<1>. QED BY <1>1 DEF Swept

\* A thread outside the window between check and answer is past no check.
LEMMA NotPast ==
    ASSUME NEW r, r.pc \notin {"save", "rotate", "issue"}
    PROVE  \A s : ~Past(r, s)
BY DEF Past

\* The steps that touch no token.
LEMMA MovesSwept ==
    ASSUME Core, Swept, NEW t \in Thread,
           \/ \E s \in Service : Resolve(t, s) \/ Build(t, s)
           \/ ResolveCase(t) \/ Install(t)
           \/ \E x \in State : StartOAuth(t, x) \/ Callback(t, x)
           \/ StoreState(t) \/ ConsumeState(t) \/ ExchangeFails(t) \/ FindUser(t)
           \/ InsertUser(t) \/ CommandFails(t) \/ LookUp(t)
           \/ \E k \in Token \cup {0} : Refresh(t, k) \/ Logout(t, k)
    PROVE  Swept'
<1>1. UNCHANGED <<tokens, clean, late>>
  BY DEF Resolve, Build, ResolveCase, Install, StartOAuth, Callback, StoreState, ConsumeState,
         ExchangeFails, FindUser, InsertUser, CommandFails, LookUp, Refresh, Logout, Presented,
         History
<1>2. \A s \in clean : Dead(tokens', s)
  BY <1>1 DEF Swept
<1>3. PICK r : thread' = [thread EXCEPT ![t] = r] /\ r.pc \notin {"save", "rotate", "issue"}
  BY Moves
<1>. QED BY <1>1, <1>2, <1>3, NotPast, SweptKept

\* A login is a session of its own, in none that was swept.
LEMMA FinishLoginSwept ==
    ASSUME Core, Swept, NEW t \in Thread, FinishLogin(t)
    PROVE  Swept'
<1> DEFINE s == sessions + 1
<1>1. /\ thread' = [thread EXCEPT ![t] = Idle] /\ UNCHANGED <<clean, late>>
      /\ \A x : ~Past(Idle, x)
  BY NotPast DEF FinishLogin, End, Idle
<1>2. clean \subseteq 1 .. sessions /\ sessions \in Nat
  BY CoreOthers DEF OthersOK
<1>3. tokens' = [tokens EXCEPT ![Count + 1] =
                   [status |-> "live", session |-> s, expired |-> FALSE]]
  BY DEF FinishLogin, Save, Count
<1>4. s \notin clean
  BY <1>2
<1>5. ASSUME NEW x \in clean PROVE Dead(tokens', x)
  <2>1. ASSUME NEW k \in Token, tokens'[k].status = "live" PROVE tokens'[k].session # x
    <3>1. CASE k = Count + 1
      BY <1>3, <1>4, <3>1 DEF Core, TypeOK
    <3>2. CASE k # Count + 1
      BY <1>3, <2>1, <3>2 DEF Core, TypeOK, Swept, Dead
    <3>. QED BY <3>1, <3>2
  <2>. QED BY <2>1 DEF Dead
<1>. QED BY <1>1, <1>5, SweptKept

\* The check finds a live token, so its session was not swept.
LEMMA CheckTokenSwept ==
    ASSUME Core, Swept, NEW t \in Thread, CheckToken(t)
    PROVE  Swept'
<1>1. UNCHANGED <<tokens, clean, late>> /\ \A s \in clean : Dead(tokens', s)
  BY DEF CheckToken, History, Swept
<1>2. CASE End(t)
  BY <1>1, <1>2, NotPast, SweptKept DEF End, Idle
<1>3. ASSUME NEW pc \in {"sweep", "save"}, Goto(t, pc),
             thread[t].token # 0, pc = "save" => tokens[thread[t].token].status = "live"
      PROVE  Swept'
  <2> DEFINE r == [thread[t] EXCEPT !.pc = pc]
  <2>1. r.pc = pc /\ r.session = thread[t].session /\ thread' = [thread EXCEPT ![t] = r]
    BY <1>3, CoreOthers DEF Request, Goto
  <2>2. ASSUME NEW s \in clean PROVE ~Past(r, s)
    <3>1. CASE pc = "sweep"
      BY <2>1, <3>1, NotPast
    <3>2. CASE pc = "save"
      <4>1. /\ thread[t].token \in Token
            /\ thread[t].session = tokens[thread[t].token].session
        <5>1. thread[t].case \in {"refresh", "revoke"}
          BY CoreOthers DEF CheckToken, At, Carries
        <5>. QED BY <1>3, <5>1, Carried DEF Present
      <4>2. thread[t].session # s
        BY <1>3, <3>2, <4>1 DEF Swept, Dead
      <4>. QED BY <2>1, <4>2 DEF Past
    <3>. QED BY <3>1, <3>2
  <2>. QED BY <1>1, <2>1, <2>2, SweptKept
<1>. QED BY <1>2, <1>3 DEF CheckToken, Found

\* The sweep leaves no live token in the session.
LEMMA SweepSwept ==
    ASSUME Core, Swept, NEW t \in Thread, Sweep(t)
    PROVE  Swept'
<1> DEFINE z == thread[t].session
<1>1. /\ tokens' = [k \in Token |-> IF k \in Live(z) THEN [tokens[k] EXCEPT !.status = "revoked"]
                                    ELSE tokens[k]]
      /\ thread' = [thread EXCEPT ![t] = Idle] /\ late' = late
      /\ clean' \subseteq clean \cup {z}
      /\ z \in clean' => z \in clean \/ PastCheck(z) = {}
  BY DEF Sweep, RevokeSession, End
<1>2. tokens \in [Token -> StoredToken] /\ thread \in [Thread -> Request]
  BY DEF Core, TypeOK
<1>3. \A k \in Token : tokens'[k].status = "live" => k \notin Live(z) /\ tokens'[k] = tokens[k]
  BY <1>1, <1>2 DEF StoredToken
<1>4. Dead(tokens', z)
  BY <1>3 DEF Dead, Live
<1>5. \A s \in clean : Dead(tokens', s)
  BY <1>3 DEF Swept, Dead
<1>6. ASSUME NEW s \in clean', NEW u \in Thread PROVE ~Past(thread'[u], s)
  <2>1. CASE u = t
    BY <1>1, <1>2, <2>1, NotPast DEF Idle
  <2>2. CASE u # t /\ s \in clean
    BY <1>1, <1>2, <2>2 DEF Swept
  <2>3. CASE u # t /\ s = z /\ PastCheck(z) = {}
    BY <1>1, <1>2, <2>3 DEF PastCheck, Past
  <2>. QED BY <1>1, <2>1, <2>2, <2>3
<1>. QED BY <1>1, <1>4, <1>5, <1>6 DEF Swept

\* Whoever is past its check belongs to a session that is not swept.
LEMMA RefreshSwept ==
    ASSUME Core, Swept, NEW t \in Thread, SaveSuccessor(t) \/ Rotate(t) \/ IssueAccess(t)
    PROVE  Swept'
<1> DEFINE z == thread[t].session
<1>1. z \notin clean
  BY DEF Swept, Past, SaveSuccessor, Rotate, IssueAccess, At
<1>2. clean' = clean /\ late' = late
  BY <1>1 DEF SaveSuccessor, Rotate, IssueAccess, History
<1>3. ASSUME NEW s \in clean PROVE Dead(tokens', s)
  <2>1. CASE SaveSuccessor(t)
    <3>1. tokens' = [tokens EXCEPT ![Count + 1] =
                       [status |-> "live", session |-> z, expired |-> FALSE]]
      BY <2>1 DEF SaveSuccessor, Save, Count
    <3>2. ASSUME NEW k \in Token, tokens'[k].status = "live" PROVE tokens'[k].session # s
      <4>1. CASE k = Count + 1
        BY <1>1, <3>1, <4>1 DEF Core, TypeOK
      <4>2. CASE k # Count + 1
        BY <3>1, <3>2, <4>2 DEF Core, TypeOK, Swept, Dead
      <4>. QED BY <4>1, <4>2
    <3>. QED BY <3>2 DEF Dead
  <2>2. CASE Rotate(t)
    BY <2>2 DEF Rotate, Swept, Dead, Core, TypeOK, StoredToken
  <2>3. CASE IssueAccess(t)
    BY <2>3 DEF IssueAccess, Swept
  <2>. QED BY <2>1, <2>2, <2>3
<1>4. ASSUME NEW r, thread' = [thread EXCEPT ![t] = r], r.session = z \/ r = Idle
      PROVE  Swept'
  <2>1. \A s \in clean : ~Past(r, s)
    BY <1>1, <1>4, NotPast DEF Idle, Past
  <2>. QED BY <1>2, <1>3, <1>4, <2>1, SweptKept
<1>5. thread[t] \in Request
  BY CoreOthers
<1>6. CASE SaveSuccessor(t)
  <2> DEFINE r == [thread[t] EXCEPT !.pc = "rotate", !.new = Count + 1]
  <2>1. r.session = z /\ thread' = [thread EXCEPT ![t] = r]
    BY <1>5, <1>6, CoreOthers DEF SaveSuccessor, Count, Request
  <2>. QED BY <1>4, <2>1
<1>7. CASE Rotate(t)
  <2> DEFINE r == [thread[t] EXCEPT !.pc = "issue"]
  <2>1. r.session = z /\ thread' = [thread EXCEPT ![t] = r]
    BY <1>5, <1>7 DEF Rotate, Goto, Request
  <2>. QED BY <1>4, <2>1
<1>8. CASE IssueAccess(t)
  BY <1>4, <1>8 DEF IssueAccess, End
<1>. QED BY <1>6, <1>7, <1>8

\* Expiry and stuttering revive no token.
LEMMA AloneSwept ==
    ASSUME Core, Swept,
           \/ \E x \in State : ExpireState(x)
           \/ \E k \in Token : ExpireToken(k) \/ DropExpired(k)
           \/ UNCHANGED vars
    PROVE  Swept'
<1>1. UNCHANGED <<thread, clean, late>>
  BY DEF ExpireState, ExpireToken, DropExpired, vars, History
<1>2. \A k \in Token : tokens'[k].status = "live" =>
        tokens[k].status = "live" /\ tokens'[k].session = tokens[k].session
  BY DEF ExpireState, ExpireToken, DropExpired, vars,
         Core, TypeOK, StoredToken
<1>. QED BY <1>1, <1>2 DEF Swept, Dead

\* A swept session has no live refresh token again and gets no access token.
THEOREM AuthSweptStaysDead == Spec => []SweptStaysDead
<1>1. Core /\ Swept /\ [Next]_vars => Swept'
  <2> SUFFICES ASSUME Core, Swept, [Next]_vars PROVE Swept'
    OBVIOUS
  <2>1. CASE \/ \E x \in State : ExpireState(x)
             \/ \E k \in Token : ExpireToken(k) \/ DropExpired(k)
             \/ UNCHANGED vars
    BY <2>1, AloneSwept
  <2>2. ASSUME NEW t \in Thread,
               \/ \E s \in Service : Resolve(t, s) \/ Build(t, s)
               \/ ResolveCase(t) \/ Install(t)
               \/ \E x \in State : StartOAuth(t, x) \/ Callback(t, x)
               \/ StoreState(t) \/ ConsumeState(t) \/ ExchangeFails(t) \/ FindUser(t)
               \/ InsertUser(t) \/ CommandFails(t) \/ LookUp(t)
               \/ \E k \in Token \cup {0} : Refresh(t, k) \/ Logout(t, k)
        PROVE  Swept'
    BY <2>2, MovesSwept
  <2>3. ASSUME NEW t \in Thread,
               \/ FinishLogin(t) \/ CheckToken(t) \/ Sweep(t) \/ SaveSuccessor(t) \/ Rotate(t)
               \/ IssueAccess(t)
        PROVE  Swept'
    BY <2>3, FinishLoginSwept, CheckTokenSwept, SweepSwept, RefreshSwept
  <2>. QED BY <2>1, <2>2, <2>3 DEF Next, Login
<1>2. Swept => SweptStaysDead
  BY DEF Swept, Dead, SweptStaysDead, Live
<1>. QED BY <1>1, <1>2, InitSwept, CoreInvariant, PTL DEF Spec

(***************************************************************************)
(* One OAuth state completes one login: its holder is alone, and took it   *)
(* out of the store, where nobody puts it again.                           *)
(***************************************************************************)

\* Request r draws state x and is to store it, or comes back with it.
Opens(r, x) == r.case = "start" /\ r.state = x /\ r.pc \in {"new store", "keep"}
Returns(r, x) == r.case = "login" /\ r.state = x /\ r.pc \in {"new store", "consume"}

Once ==
    \A x \in State :
        /\ used[x] \in {0, 1}
        /\ used[x] = 1 => states[x].status = "gone"
        /\ \A t \in Thread : Holds(thread[t], x) => states[x].status = "gone" /\ used[x] = 0
        /\ \A t \in Thread : Opens(thread[t], x) => states[x].status = "drawn"
        /\ \A t \in Thread : Returns(thread[t], x) => states[x].status \notin {"new", "drawn"}
        /\ \A t, u \in Thread : Holds(thread[t], x) /\ Holds(thread[u], x) => t = u
        /\ \A t, u \in Thread : Opens(thread[t], x) /\ Opens(thread[u], x) => t = u

\* Initially no state is held.
LEMMA InitOnce == Init => Once
<1> SUFFICES ASSUME Init PROVE Once
  OBVIOUS
<1>1. \A x : ~Holds(Idle, x) /\ ~Opens(Idle, x) /\ ~Returns(Idle, x)
  BY DEF Holds, Opens, Returns, Idle
<1>2. \A t \in Thread : thread[t] = Idle
  BY DEF Init
<1>3. \A x \in State : used[x] = 0
  BY DEF Init
<1>. QED BY <1>1, <1>2, <1>3 DEF Once

\* Nobody comes to the store of states but with a start or a callback.
LEMMA StoreMoves ==
    ASSUME Core, NEW t \in Thread,
           \/ \E s \in Service : Resolve(t, s) \/ Build(t, s)
           \/ ResolveCase(t) \/ Install(t)
           \/ StoreState(t) \/ ConsumeState(t) \/ ExchangeFails(t) \/ FindUser(t)
           \/ InsertUser(t) \/ CommandFails(t) \/ LookUp(t)
           \/ \E k \in Token \cup {0} : Refresh(t, k) \/ Logout(t, k)
    PROVE  \A x : /\ Opens(thread'[t], x) => Opens(thread[t], x)
                  /\ Returns(thread'[t], x) => Returns(thread[t], x)
<1> DEFINE q == thread[t]
           Away(r) == r.pc \notin {"new store", "keep", "consume"}
<1>1. /\ q \in Request /\ Carries(q, tokens, Count) /\ thread \in [Thread -> Request]
      /\ built \in Holdings /\ cases \in [UseCase -> Holdings]
  BY CoreOthers DEF OthersOK
<1>2. Away(thread'[t]) \/ Build(t, "store")
  <2>1. CASE End(t)
    BY <1>1, <2>1 DEF End, Idle
  <2>2. ASSUME NEW pc \in {"insert", "login", "sweep"}, Goto(t, pc) PROVE Away(thread'[t])
    BY <1>1, <2>2 DEF Goto, Request
  <2>3. CASE StoreState(t) \/ ExchangeFails(t) \/ CommandFails(t) \/ FindUser(t)
             \/ InsertUser(t) \/ LookUp(t)
    BY <2>1, <2>2, <2>3 DEF StoreState, ExchangeFails, CommandFails, FindUser, InsertUser, LookUp
  <2>4. ASSUME thread' = [thread EXCEPT ![t].pc = "case", ![t].has = Nothing]
        PROVE  Away(thread'[t])
    BY <1>1, <2>4 DEF Request
  <2>5. CASE ConsumeState(t)
    BY <2>1, <2>4, <2>5 DEF ConsumeState
  <2>6. ASSUME NEW s \in {"users", "tokens"}, NEW i \in Instance
        PROVE  Away(With(q, s, i))
    <3>1. After(q, s) \in {"tokens", "install"}
      BY DEF After
    <3>. QED BY <1>1, <3>1 DEF With, Request
  <2>7. ASSUME NEW s \in {"users", "tokens"}, Resolve(t, s)
        PROVE  Away(thread'[t])
    <3>1. thread'[t] = Looked(q, s)
      BY <1>1, <2>7 DEF Resolve
    <3>2. New[s] \in {"new users", "new tokens"}
      <4>1. New["users"] = "new users" /\ New["tokens"] = "new tokens"
        BY DEF New
      <4>. QED BY <4>1
    <3>3. built[s] # "none" => built[s] \in Instance
      BY <1>1 DEF Holdings, Service, Repository
    <3>4. [q EXCEPT !.pc = New[s]].pc = New[s]
      BY <1>1 DEF Request
    <3>. QED BY <2>6, <3>1, <3>2, <3>3, <3>4 DEF Looked
  <2>8. ASSUME NEW s \in {"users", "tokens"}, Build(t, s)
        PROVE  Away(thread'[t])
    BY <1>1, <2>6, <2>8 DEF Build, Instance
  <2>9. CASE Resolve(t, "store")
    BY <1>1, <2>9 DEF Resolve, At, Request
  <2>10. ASSUME NEW r \in Request, r.case \in UseCase PROVE Away(LookedCase(r))
    BY <2>10, LookedCasePc
  <2>11. CASE ResolveCase(t)
    <3>1. thread'[t] = LookedCase(q) /\ q.case \in UseCase
      BY <1>1, <2>11 DEF ResolveCase, At, Carries
    <3>. QED BY <1>1, <2>10, <3>1
  <2>12. CASE Install(t)
    <3>1. q.case \in {"login", "refresh", "revoke"}
      BY <1>1, <2>12 DEF Install, At, Carries, UseCase
    <3>2. Body[q.case] \in {"find", "check", "lookup"}
      BY <3>1 DEF Body
    <3>. QED BY <1>1, <2>12, <3>2 DEF Install, Goto, Request
  <2>13. ASSUME NEW k \in Token \cup {0}, Refresh(t, k) \/ Logout(t, k)
        PROVE  Away(thread'[t])
    <3>1. PICK c \in {"refresh", "revoke"} : Presented(t, c, k)
      BY <2>13 DEF Refresh, Logout
    <3> DEFINE s == IF k = 0 THEN 0 ELSE tokens[k].session
               r == [q EXCEPT !.case = c, !.token = k, !.session = s]
    <3>2. thread'[t] = LookedCase(r)
      BY <1>1, <3>1 DEF Presented
    <3>3. r \in Request /\ r.case = c
      <4>1. k # 0 => tokens[k] \in StoredToken
        BY DEF Core, TypeOK
      <4>2. k \in 0 .. MaxTokens /\ s \in 0 .. MaxSessions
        BY <4>1, AuthSessionsAssumption DEF Token, StoredToken
      <4> HIDE DEF s
      <4>. QED BY <1>1, <4>2 DEF Request, UseCase
    <3> HIDE DEF r
    <3>. QED BY <2>10, <3>2, <3>3 DEF UseCase
  <2> HIDE DEF Away
  <2>. QED BY <2>3, <2>5, <2>7, <2>8, <2>9, <2>11, <2>12, <2>13 DEF Service, Repository
<1>3. CASE Build(t, "store")
  <2>1. q.pc = "new store"
    BY <1>3 DEF Build, At, New
  <2>2. /\ thread'[t].case = q.case /\ thread'[t].state = q.state
        /\ thread'[t].pc = IF q.case = "start" THEN "keep" ELSE "consume"
    BY <1>1, <1>3 DEF Build, With, After, Request
  <2>. QED BY <2>1, <2>2 DEF Opens, Returns
<1>. QED BY <1>2, <1>3 DEF Opens, Returns

\* A step of a thread that takes no state.
LEMMA OnceKept ==
    ASSUME Core, Once, NEW t \in Thread, NEW r, thread' = [thread EXCEPT ![t] = r],
           \A x \in State : /\ Holds(r, x) => Holds(thread[t], x)
                            /\ Opens(r, x) => Opens(thread[t], x)
                            /\ Returns(r, x) => Returns(thread[t], x),
           UNCHANGED <<states, used>>
    PROVE  Once'
<1>1. ASSUME NEW x \in State, NEW u \in Thread
      PROVE  /\ Holds(thread'[u], x) => Holds(thread[u], x)
             /\ Opens(thread'[u], x) => Opens(thread[u], x)
             /\ Returns(thread'[u], x) => Returns(thread[u], x)
  <2>1. (thread'[u] = r /\ u = t) \/ thread'[u] = thread[u]
    BY CoreOthers
  <2>. QED BY <2>1
<1>. QED BY <1>1 DEF Once

\* A state is drawn once.
LEMMA StartOnce ==
    ASSUME Core, Once, NEW t \in Thread, NEW y \in State, StartOAuth(t, y) \/ Callback(t, y)
    PROVE  Once'
<1> DEFINE c == IF states[y].status = "new" THEN "start" ELSE "login"
           q == [thread[t] EXCEPT !.case = c, !.state = y]
           r == Looked(q, "store")
<1>1. /\ thread \in [Thread -> Request] /\ built \in Holdings /\ used' = used
      /\ states \in [State -> StoredState]
  BY CoreOthers DEF OthersOK, StartOAuth, Callback, History
<1>2. c \in {"start", "login"} /\ q \in Request /\ q.case = c /\ q.state = y
  <2>1. thread[t] \in Request /\ c \in {"start", "login"}
    BY <1>1
  <2> HIDE DEF c
  <2>2. c \in UseCase \cup {"start", "none"}
    BY <2>1 DEF UseCase
  <2>. QED BY <2>1, <2>2 DEF Request
<1>3. /\ c = "start" => states' = [states EXCEPT ![y].status = "drawn"]
      /\ c = "login" => states[y].status \notin {"new", "drawn"} /\ states' = states
  BY DEF StartOAuth, Callback
<1>4. c = "start" <=> states[y].status = "new"
  OBVIOUS
<1>5. thread' = [thread EXCEPT ![t] = r]
  BY DEF StartOAuth, Callback
<1> HIDE DEF q, c
<1>6. r.pc \in {"new store", "keep", "consume"} /\ r.case = c /\ r.state = y
  BY <1>1, <1>2, LookedPc DEF Service
<1> HIDE DEF r
<1>7. thread'[t] = r /\ \A u \in Thread \ {t} : thread'[u] = thread[u]
  BY <1>1, <1>5
<1>8. \A x : /\ ~Holds(r, x)
             /\ Opens(r, x) => x = y /\ c = "start"
             /\ Returns(r, x) => x = y /\ c = "login"
  BY <1>6 DEF Holds, Opens, Returns
<1>9. /\ c = "start" => states'[y].status = "drawn"
      /\ \A x \in State : x # y \/ c = "login" => states'[x] = states[x]
  <2>1. [states[y] EXCEPT !.status = "drawn"].status = "drawn"
    BY <1>1 DEF StoredState
  <2>. QED BY <1>1, <1>2, <1>3, <2>1
<1>10. c = "start" => /\ used[y] = 0
                      /\ \A u \in Thread : /\ ~Holds(thread[u], y) /\ ~Opens(thread[u], y)
                                           /\ ~Returns(thread[u], y)
  BY <1>4 DEF Once
<1>11. ASSUME NEW x \in State
       PROVE  /\ used'[x] \in {0, 1}
              /\ used'[x] = 1 => states'[x].status = "gone"
              /\ \A u \in Thread : Holds(thread'[u], x) => states'[x].status = "gone" /\ used'[x] = 0
              /\ \A u \in Thread : Opens(thread'[u], x) => states'[x].status = "drawn"
              /\ \A u \in Thread : Returns(thread'[u], x) => states'[x].status \notin {"new", "drawn"}
              /\ \A u, v \in Thread : Holds(thread'[u], x) /\ Holds(thread'[v], x) => u = v
              /\ \A u, v \in Thread : Opens(thread'[u], x) /\ Opens(thread'[v], x) => u = v
  <2>1. CASE x # y \/ c = "login"
    BY <1>1, <1>2, <1>3, <1>7, <1>8, <1>9, <2>1 DEF Once
  <2>2. CASE x = y /\ c = "start"
    BY <1>1, <1>2, <1>7, <1>8, <1>9, <1>10, <2>2
  <2>. QED BY <1>2, <2>1, <2>2
<1>. QED BY <1>11 DEF Once

\* A step of a thread that leaves the store of states, with state y.
LEMMA StoreOnce ==
    ASSUME Core, Once, NEW t \in Thread, StoreState(t) \/ ConsumeState(t)
    PROVE  Once'
<1> DEFINE y == thread[t].state
           r == thread'[t]
<1>1. /\ thread \in [Thread -> Request] /\ states \in [State -> StoredState]
      /\ used' = used /\ y \in State
      /\ StoreState(t) => Opens(thread[t], y)
      /\ ConsumeState(t) => Returns(thread[t], y)
  BY CoreOthers DEF OthersOK, StoreState, ConsumeState, At, Carries, About, Opens, Returns, History
<1>2. PICK q : /\ thread' = [thread EXCEPT ![t] = q]
               /\ \A x : Holds(q, x) => Holds(thread[t], x) \/ (ConsumeState(t) /\ x = y)
  BY Moves
<1>3. r = q /\ \A u \in Thread \ {t} : thread'[u] = thread[u]
  BY <1>1, <1>2
<1>4. \A x : ~Holds(thread[t], x) /\ ~Opens(r, x) /\ ~Returns(r, x)
  <2>1. r.pc \in {"idle", "case"}
    <3>1. CASE End(t)
      BY <1>1, <3>1 DEF End, Idle
    <3>2. CASE thread' = [thread EXCEPT ![t].pc = "case", ![t].has = Nothing]
      BY <1>1, <3>2 DEF Request
    <3>. QED BY <3>1, <3>2 DEF StoreState, ConsumeState
  <2>2. thread[t].pc \in {"keep", "consume"}
    BY DEF StoreState, ConsumeState, At
  <2>. QED BY <2>1, <2>2 DEF Holds, Opens, Returns
<1>5. /\ \A x \in State \ {y} : states'[x] = states[x]
      /\ StoreState(t) => states'[y].status = "stored"
      /\ ConsumeState(t) => states'[y].status = "gone" \/ states'[y] = states[y]
  BY <1>1 DEF StoreState, ConsumeState, Remove
<1>6. /\ StoreState(t) => states[y].status = "drawn" /\ used[y] = 0
      /\ ConsumeState(t) => states[y].status \notin {"new", "drawn"}
  BY <1>1 DEF Once
<1>7. ASSUME NEW x, Holds(r, x)
      PROVE  x = y /\ states[y].status = "stored" /\ states'[y].status = "gone"
  <2>1. ConsumeState(t) /\ x = y
    BY <1>2, <1>3, <1>4, <1>7
  <2>2. ~End(t)
    <3>1. ~Holds(Idle, x)
      BY DEF Idle, Holds
    <3>. QED BY <1>1, <1>7, <3>1 DEF End
  <2>3. states[y].status = "stored" /\ Remove(y)
    BY <2>1, <2>2 DEF ConsumeState
  <2>. QED BY <1>1, <2>1, <2>3 DEF Remove
<1>8. ASSUME NEW x \in State, NEW u \in Thread
      PROVE  /\ Holds(thread'[u], x) => \/ u = t /\ x = y /\ states[y].status = "stored"
                                           /\ states'[y].status = "gone"
                                        \/ u # t /\ Holds(thread[u], x)
             /\ Opens(thread'[u], x) => u # t /\ Opens(thread[u], x)
             /\ Returns(thread'[u], x) => u # t /\ Returns(thread[u], x)
  BY <1>3, <1>4, <1>7
<1>9. StoreState(t) => \A u \in Thread \ {t} : ~Holds(thread[u], y) /\ ~Opens(thread[u], y)
                                                /\ ~Returns(thread[u], y)
  BY <1>1, <1>6 DEF Once
<1>10. ConsumeState(t) => \A u \in Thread : ~Opens(thread[u], y)
  BY <1>1, <1>6 DEF Once
<1>11. states[y].status = "stored" => used[y] = 0 /\ \A u \in Thread : ~Holds(thread[u], y)
  BY <1>1 DEF Once
<1> HIDE DEF y, r
<1>12. ASSUME NEW x \in State
       PROVE  /\ used'[x] \in {0, 1}
              /\ used'[x] = 1 => states'[x].status = "gone"
              /\ \A u \in Thread : Holds(thread'[u], x) => states'[x].status = "gone" /\ used'[x] = 0
              /\ \A u \in Thread : Opens(thread'[u], x) => states'[x].status = "drawn"
              /\ \A u \in Thread : Returns(thread'[u], x) => states'[x].status \notin {"new", "drawn"}
              /\ \A u, v \in Thread : Holds(thread'[u], x) /\ Holds(thread'[v], x) => u = v
              /\ \A u, v \in Thread : Opens(thread'[u], x) /\ Opens(thread'[v], x) => u = v
  <2>1. CASE x # y
    BY <1>1, <1>5, <1>8, <2>1 DEF Once
  <2>2. CASE x = y /\ StoreState(t)
    BY <1>1, <1>5, <1>6, <1>8, <1>9, <2>2
  <2>3. CASE x = y /\ ConsumeState(t)
    <3>1. /\ used[x] \in {0, 1}
          /\ used[x] = 1 => states[x].status = "gone"
          /\ \A u \in Thread : Holds(thread[u], x) => states[x].status = "gone" /\ used[x] = 0
          /\ \A u, v \in Thread : Holds(thread[u], x) /\ Holds(thread[v], x) => u = v
      BY DEF Once
    <3>. QED BY <1>1, <1>5, <1>6, <1>8, <1>10, <1>11, <2>3, <3>1
  <2>. QED BY <2>1, <2>2, <2>3
<1>. QED BY <1>12 DEF Once

\* The holder of a state uses it, and holds it no more.
LEMMA FinishOnce ==
    ASSUME Core, Once, NEW t \in Thread, FinishLogin(t)
    PROVE  Once'
<1> DEFINE y == thread[t].state
<1>1. y \in State /\ Holds(thread[t], y)
  BY CoreOthers DEF FinishLogin, At, Carries, About, Holds
<1>2. states' = states /\ used' = [used EXCEPT ![y] = @ + 1] /\ used \in [State -> Nat]
  BY CoreOthers DEF FinishLogin, OthersOK
<1>3. used[y] = 0 /\ states[y].status = "gone" /\ used'[y] = 1
      /\ \A x \in State \ {y} : used'[x] = used[x]
  BY <1>1, <1>2 DEF Once
<1>4. thread' = [thread EXCEPT ![t] = Idle]
      /\ \A x : ~Holds(Idle, x) /\ ~Opens(Idle, x) /\ ~Returns(Idle, x)
  BY DEF FinishLogin, End, Holds, Opens, Returns, Idle
<1>5. \A x \in State, u \in Thread :
         /\ Holds(thread'[u], x) => Holds(thread[u], x) /\ u # t
         /\ Opens(thread'[u], x) => Opens(thread[u], x)
         /\ Returns(thread'[u], x) => Returns(thread[u], x)
  BY <1>4, CoreOthers
<1>6. \A u \in Thread : ~Holds(thread'[u], y)
  BY <1>1, <1>5 DEF Once
<1> HIDE DEF y
<1>. QED BY <1>2, <1>3, <1>5, <1>6 DEF Once

\* However often a callback is delivered, its state completes one login.
THEOREM AuthStateUsedOnce == Spec => []StateUsedOnce
<1>1. Core /\ Once /\ [Next]_vars => Once'
  <2> SUFFICES ASSUME Core, Once, [Next]_vars PROVE Once'
    OBVIOUS
  <2>1. CASE \/ \E x \in State : ExpireState(x)
             \/ \E k \in Token : ExpireToken(k) \/ DropExpired(k)
             \/ UNCHANGED vars
    <3>1. UNCHANGED <<thread, used>>
      BY <2>1 DEF ExpireState, ExpireToken, DropExpired, vars, History
    <3>2. ASSUME NEW x \in State
          PROVE  \/ states'[x] = states[x]
                 \/ states[x].status = "stored" /\ states'[x].status = "expired"
      <4>1. states \in [State -> StoredState]
        BY CoreOthers DEF OthersOK
      <4>2. [states[x] EXCEPT !.status = "expired"].status = "expired"
        BY <4>1 DEF StoredState
      <4>. QED BY <2>1, <4>1, <4>2 DEF ExpireState, ExpireToken, DropExpired, vars
    <3>. QED BY <3>1, <3>2 DEF Once
  <2>2. ASSUME NEW t \in Thread,
               \/ \E s \in Service : Resolve(t, s) \/ Build(t, s)
               \/ ResolveCase(t) \/ Install(t)
               \/ ExchangeFails(t) \/ FindUser(t)
               \/ InsertUser(t) \/ CommandFails(t) \/ LookUp(t)
               \/ \E k \in Token \cup {0} : Refresh(t, k) \/ Logout(t, k)
        PROVE  Once'
    <3>1. UNCHANGED <<states, used>>
      BY <2>2 DEF Resolve, Build, ResolveCase, Install, ExchangeFails, FindUser, InsertUser,
                  CommandFails, LookUp, Refresh, Logout, Presented, History
    <3>2. ~ConsumeState(t)
      <4>1. thread[t].pc # "consume"
        <5>1. thread[t] \in Request
          BY CoreOthers
        <5>2. New["store"] = "new store" /\ New["users"] = "new users" /\ New["tokens"] = "new tokens"
          BY DEF New
        <5>. QED BY <2>2, <5>2 DEF Resolve, Build, ResolveCase, Install, ExchangeFails, FindUser,
                  InsertUser, CommandFails, LookUp, Refresh, Logout, Presented, At, Service, Repository
      <4>. QED BY <4>1 DEF ConsumeState, At
    <3>3. PICK r : /\ thread' = [thread EXCEPT ![t] = r]
                   /\ \A x : Holds(r, x) => Holds(thread[t], x)
      BY <2>2, <3>2, Moves
    <3>4. thread'[t] = r
      BY <3>3, CoreOthers
    <3>5. \A x : /\ Opens(r, x) => Opens(thread[t], x)
                 /\ Returns(r, x) => Returns(thread[t], x)
      BY <2>2, <3>4, StoreMoves
    <3>. QED BY <3>1, <3>3, <3>5, OnceKept
  <2>3. ASSUME NEW t \in Thread,
               \/ \E x \in State : StartOAuth(t, x) \/ Callback(t, x)
               \/ StoreState(t) \/ ConsumeState(t) \/ FinishLogin(t)
        PROVE Once'
    BY <2>3, StartOnce, StoreOnce, FinishOnce
  <2>4. ASSUME NEW t \in Thread,
               \/ CheckToken(t) \/ Sweep(t) \/ SaveSuccessor(t) \/ Rotate(t) \/ IssueAccess(t)
        PROVE  Once'
    <3>1. UNCHANGED <<states, used>>
      BY <2>4 DEF CheckToken, Sweep, SaveSuccessor, Rotate, IssueAccess, History
    <3>2. PICK r : /\ thread' = [thread EXCEPT ![t] = r]
                   /\ r.pc \in {"idle", "sweep", "save", "rotate", "issue"}
      BY <2>4, TokenMoves
    <3>. QED BY <3>1, <3>2, OnceKept DEF Holds, Opens, Returns
  <2>. QED BY <2>1, <2>2, <2>3, <2>4 DEF Next, Login
<1>2. Core /\ Once => StateUsedOnce
  BY DEF Once, StateUsedOnce
<1>. QED BY <1>1, <1>2, InitOnce, CoreInvariant, PTL DEF Spec

(***************************************************************************)
(* The repositories of the logins, of the use cases and of the requests    *)
(* under way are the container's, unless two requests raced to build them. *)
(***************************************************************************)

\* Holdings h have no repository but the container's, b, where there was no race, n.
Fits(h, b, n) == \A s \in Repository \ n : h[s] \in {"none", b[s]}

\* What request r has by the time it needs it.
Equipped(r) ==
    /\ r.pc \in {"find", "insert", "login", "check", "lookup", "install"} =>
          r.has["tokens"] # "none"
    /\ r.pc \in {"find", "insert", "login", "check"} => r.has["users"] # "none"
    /\ r.pc \in {"tokens", "new tokens", "install"} /\ r.case # "revoke" =>
          r.has["users"] # "none"

Shared ==
    /\ \A t \in Thread : Fits(thread[t].has, built, raced) /\ Equipped(thread[t])
    /\ \A c \in UseCase :
          /\ Fits(cases[c], built, raced)
          /\ cases[c] # Nothing => /\ cases[c]["tokens"] # "none"
                                   /\ c # "revoke" => cases[c]["users"] # "none"
    /\ \A x \in Session : Fits(home[x], built, raced) /\ (x \in 1 .. sessions => home[x]["tokens"] # "none")

\* Nothing fits.
LEMMA NothingFits == Fits(Nothing, built, raced) /\ Fits(Idle.has, built, raced) /\ Equipped(Idle)
<1>1. \A s \in Repository : Nothing[s] = "none"
  BY DEF Nothing, Service
<1>. QED BY <1>1 DEF Fits, Equipped, Idle

\* Initially either everything is built, once, or no repository is held.
LEMMA InitShared == Init => Shared
<1> SUFFICES ASSUME Init PROVE Shared
  OBVIOUS
<1>1. \A t \in Thread : thread[t] = Idle
  BY DEF Init
<1>2. \A x \in Session : home[x] = Nothing
  BY DEF Init
<1>3. 1 .. sessions = {}
  BY DEF Init
<1>4. PICK start \in Starts :
        /\ built = IF start = "warm" THEN First
                   ELSE IF backend = "mongo" THEN [First EXCEPT !.store = "none"] ELSE Nothing
        /\ cases = [c \in UseCase |-> IF start = "warm" THEN First ELSE Nothing]
  BY DEF Init, Registered
<1>5. /\ First["users"] = "first" /\ First["tokens"] = "first" /\ Nothing["tokens"] = "none"
      /\ start = "warm" => Fits(First, built, raced)
  <2>1. \A s \in Repository : First[s] = "first" /\ Nothing[s] = "none"
    BY DEF First, Nothing, Service
  <2>2. start = "warm" => built = First
    BY <1>4
  <2>. QED BY <2>1, <2>2 DEF Fits, Repository
<1>6. \A c \in UseCase : (cases[c] = First /\ start = "warm") \/ cases[c] = Nothing
  BY <1>4
<1>. QED BY <1>1, <1>2, <1>3, <1>5, <1>6, NothingFits DEF Shared

\* A step that leaves the container alone is fine if its thread is.
LEMMA SharedKept ==
    ASSUME Core, Shared, NEW t \in Thread, NEW r, thread' = [thread EXCEPT ![t] = r],
           UNCHANGED <<built, cases, home, sessions, raced>>, Fits(r.has, built, raced), Equipped(r)
    PROVE  Shared'
<1>1. \A u \in Thread : thread'[u] = r \/ thread'[u] = thread[u]
  BY CoreOthers
<1>2. \A u \in Thread : Fits(thread'[u].has, built, raced) /\ Equipped(thread'[u])
  BY <1>1 DEF Shared
<1>. QED BY <1>2 DEF Shared

\* A request that asks for a service.
LEMMA LookedShared ==
    ASSUME built \in Holdings, NEW r \in Request, NEW s \in Service, Fits(r.has, built, raced),
           s = "tokens" /\ r.case # "revoke" => r.has["users"] # "none"
    PROVE  Fits(Looked(r, s).has, built, raced) /\ Equipped(Looked(r, s))
<1>1. s \in {"store", "users", "tokens"} /\ r.has \in Holdings
  BY DEF Service, Repository, Request
<1>2. /\ New["store"] = "new store" /\ New["users"] = "new users" /\ New["tokens"] = "new tokens"
  BY DEF New
<1>3. CASE built[s] = "none"
  <2>1. Looked(r, s).pc = New[s] /\ Looked(r, s).has = r.has /\ Looked(r, s).case = r.case
    BY <1>3 DEF Looked, Request
  <2>. QED BY <1>1, <1>2, <2>1 DEF Equipped
<1>4. CASE built[s] # "none"
  <2> DEFINE h == [r.has EXCEPT ![s] = built[s]]
             q == With(r, s, built[s])
  <2>1. q.pc = After(r, s) /\ q.has = h /\ q.case = r.case /\ q = Looked(r, s)
    BY <1>4 DEF Looked, With, Request
  <2>2. h[s] = built[s] /\ \A z \in Service \ {s} : h[z] = r.has[z]
    BY <1>1 DEF Holdings
  <2>3. /\ s = "store" => After(r, s) \in {"keep", "consume"}
        /\ s = "users" => After(r, s) = "tokens"
        /\ s = "tokens" => After(r, s) = "install"
    BY DEF After
  <2> HIDE DEF h, q
  <2>4. Fits(h, built, raced)
    BY <2>2 DEF Fits, Service
  <2>5. Equipped(q)
    <3>1. CASE s = "store"
      BY <2>1, <2>3, <3>1 DEF Equipped
    <3>2. CASE s = "users"
      BY <1>4, <2>1, <2>2, <2>3, <3>2 DEF Equipped
    <3>3. CASE s = "tokens"
      <4>1. h["users"] = r.has["users"]
        BY <2>2, <3>3 DEF Service, Repository
      <4>. QED BY <1>4, <2>1, <2>2, <2>3, <3>3, <4>1 DEF Equipped
    <3>. QED BY <1>1, <3>1, <3>2, <3>3
  <2>. QED BY <2>1, <2>4, <2>5
<1>. QED BY <1>3, <1>4

\* A request that asks for its use case.
LEMMA LookedCaseShared ==
    ASSUME Shared, NEW r \in Request, r.case \in UseCase, Fits(r.has, built, raced)
    PROVE  Fits(LookedCase(r).has, built, raced) /\ Equipped(LookedCase(r))
<1> DEFINE c == r.case
           q == LookedCase(r)
<1>1. c \in {"login", "refresh", "revoke"}
  BY DEF UseCase
<1>2. CASE cases[c] # Nothing
  <2>1. q.pc = Body[c] /\ q.has = cases[c]
    BY <1>2 DEF LookedCase, Request
  <2>2. Body[c] \in {"find", "check", "lookup"} /\ (Body[c] = "lookup" <=> c = "revoke")
    BY <1>1 DEF Body
  <2>3. /\ Fits(cases[c], built, raced) /\ cases[c]["tokens"] # "none"
        /\ c # "revoke" => cases[c]["users"] # "none"
    BY <1>2 DEF Shared
  <2> HIDE DEF c, q
  <2>4. Fits(q.has, built, raced) /\ Equipped(q)
    BY <2>1, <2>2, <2>3 DEF Equipped
  <2>. QED BY <2>4 DEF q
<1>3. CASE cases[c] = Nothing
  <2>1. /\ q.pc = IF c = "revoke" THEN "tokens" ELSE "users"
        /\ q.has = r.has /\ q.case = c
    BY <1>3 DEF LookedCase, Request
  <2> HIDE DEF q
  <2>2. Fits(q.has, built, raced) /\ Equipped(q)
    BY <2>1 DEF Equipped
  <2>. QED BY <2>2 DEF q
<1>. QED BY <1>2, <1>3

\* An instance takes the place of none, or of one that was raced for.
LEMMA BuildShared ==
    ASSUME Core, Shared, NEW t \in Thread, NEW s \in Service, Build(t, s)
    PROVE  Shared'
<1> DEFINE q == thread[t]
           h == [q.has EXCEPT ![s] = t]
           r == With(q, s, t)
<1>1. /\ q \in Request /\ built \in Holdings /\ thread \in [Thread -> Request]
      /\ q.has \in Holdings /\ t # "none" /\ s \in {"store", "users", "tokens"}
  BY CoreOthers, AuthSessionsAssumption DEF OthersOK, Request, Service, Repository
<1>2. /\ built'[s] = t /\ \A z \in Service \ {s} : built'[z] = built[z]
      /\ raced' = IF s = "store" \/ built[s] = "none" THEN raced ELSE raced \cup {s}
      /\ UNCHANGED <<cases, home, sessions>>
      /\ thread' = [thread EXCEPT ![t] = r]
  BY <1>1 DEF Build, Holdings
<1>3. \A z \in Repository \ raced' : z \notin raced /\ (z = s => built[z] = "none")
  BY <1>2 DEF Repository
<1>4. ASSUME NEW g, Fits(g, built, raced) PROVE Fits(g, built', raced')
  <2>1. ASSUME NEW z \in Repository \ raced' PROVE g[z] \in {"none", built'[z]}
    BY <1>2, <1>3, <1>4, <2>1 DEF Fits, Service
  <2>. QED BY <2>1 DEF Fits
<1>5. h[s] = t /\ \A z \in Service \ {s} : h[z] = q.has[z]
  BY <1>1 DEF Holdings
<1>6. r.pc = After(q, s) /\ r.has = h /\ r.case = q.case /\ q.pc = New[s] /\ Equipped(q)
  BY <1>1 DEF With, Request, Build, At, Shared
<1>7. Fits(q.has, built, raced)
  BY DEF Shared
<1> HIDE DEF h, r
<1>8. Fits(h, built', raced')
  <2>1. ASSUME NEW z \in Repository \ raced' PROVE h[z] \in {"none", built'[z]}
    BY <1>2, <1>3, <1>5, <1>7, <2>1 DEF Fits, Service
  <2>. QED BY <2>1 DEF Fits
<1>9. Equipped(r)
  <2>1. New["tokens"] = "new tokens"
    BY DEF New
  <2>2. /\ s = "store" => After(q, s) \in {"keep", "consume"}
        /\ s = "users" => After(q, s) = "tokens"
        /\ s = "tokens" => After(q, s) = "install"
    BY DEF After
  <2>3. CASE s = "store"
    BY <1>6, <2>2, <2>3 DEF Equipped
  <2>4. CASE s = "users"
    BY <1>1, <1>5, <1>6, <2>2, <2>4 DEF Equipped
  <2>5. CASE s = "tokens"
    <3>1. h["users"] = q.has["users"]
      BY <1>5, <2>5 DEF Service, Repository
    <3>. QED BY <1>1, <1>5, <1>6, <2>1, <2>2, <2>5, <3>1 DEF Equipped
  <2>. QED BY <1>1, <2>3, <2>4, <2>5
<1>10. \A u \in Thread : Fits(thread'[u].has, built', raced') /\ Equipped(thread'[u])
  <2>1. \A u \in Thread \ {t} : thread'[u] = thread[u]
    BY <1>1, <1>2
  <2>2. \A u \in Thread : Fits(thread[u].has, built', raced') /\ Equipped(thread[u])
    BY <1>4 DEF Shared
  <2>3. thread'[t] = r
    BY <1>1, <1>2
  <2>. QED BY <1>6, <1>8, <1>9, <2>1, <2>2, <2>3
<1>11. /\ \A c \in UseCase : Fits(cases[c], built', raced')
       /\ \A x \in Session : Fits(home[x], built', raced')
  BY <1>4 DEF Shared
<1>. QED BY <1>2, <1>10, <1>11 DEF Shared

\* The singleton of a use case keeps what its builder has.
LEMMA InstallShared ==
    ASSUME Core, Shared, NEW t \in Thread, Install(t)
    PROVE  Shared'
<1> DEFINE q == thread[t]
           c == q.case
           r == [q EXCEPT !.pc = Body[c]]
<1>1. /\ q \in Request /\ thread \in [Thread -> Request] /\ q.pc = "install"
      /\ c \in {"login", "refresh", "revoke"} /\ cases \in [UseCase -> Holdings]
      /\ Fits(q.has, built, raced) /\ Equipped(q)
  BY CoreOthers DEF OthersOK, Install, At, Carries, UseCase, Shared
<1>2. /\ cases' = [cases EXCEPT ![c] = q.has] /\ thread' = [thread EXCEPT ![t] = r]
      /\ UNCHANGED <<built, home, sessions, raced>>
  BY DEF Install, Goto, History
<1>3. /\ q.has["tokens"] # "none"
      /\ c # "revoke" => q.has["users"] # "none"
  BY <1>1 DEF Equipped
<1>4. Body[c] \in {"find", "check", "lookup"} /\ (Body[c] = "lookup" <=> c = "revoke")
  BY <1>1 DEF Body
<1>5. r.pc = Body[c] /\ r.has = q.has
  BY <1>1 DEF Request
<1> HIDE DEF r
<1>6. Equipped(r)
  BY <1>3, <1>4, <1>5 DEF Equipped
<1>7. \A u \in Thread : thread'[u] = r \/ thread'[u] = thread[u]
  BY <1>1, <1>2
<1>8. \A d \in UseCase : cases'[d] = cases[d] \/ (d = c /\ cases'[d] = q.has)
  BY <1>1, <1>2
<1> HIDE DEF c, q
<1>9. \A u \in Thread : Fits(thread'[u].has, built, raced) /\ Equipped(thread'[u])
  BY <1>1, <1>5, <1>6, <1>7 DEF Shared
<1>10. \A d \in UseCase :
          /\ Fits(cases'[d], built, raced)
          /\ cases'[d] # Nothing => /\ cases'[d]["tokens"] # "none"
                                    /\ d # "revoke" => cases'[d]["users"] # "none"
  BY <1>1, <1>3, <1>8 DEF Shared
<1>. QED BY <1>2, <1>9, <1>10 DEF Shared

\* A session has the repositories of its login.
LEMMA FinishShared ==
    ASSUME Core, Shared, NEW t \in Thread, FinishLogin(t)
    PROVE  Shared'
<1> DEFINE q == thread[t]
           s == sessions + 1
<1>1. /\ Fits(q.has, built, raced) /\ q.has["tokens"] # "none"
  BY DEF Shared, Equipped, FinishLogin, At
<1>2. /\ sessions \in Nat /\ home' = [home EXCEPT ![s] = q.has] /\ home \in [Session -> Holdings]
      /\ sessions' = s /\ End(t) /\ UNCHANGED <<built, cases, raced>>
  BY CoreOthers, AuthSessionsAssumption DEF OthersOK, FinishLogin, Container
<1>3. \A u \in Thread : thread'[u] = Idle \/ thread'[u] = thread[u]
  BY <1>2, CoreOthers DEF End
<1>4. \A x \in Session : \/ home'[x] = home[x] /\ (x \in 1 .. s => x \in 1 .. sessions)
                         \/ home'[x] = q.has
  BY <1>2
<1> HIDE DEF q, s
<1>5. \A u \in Thread : Fits(thread'[u].has, built, raced) /\ Equipped(thread'[u])
  BY <1>3, NothingFits DEF Shared
<1>6. \A x \in Session : /\ Fits(home'[x], built, raced)
                         /\ x \in 1 .. s => home'[x]["tokens"] # "none"
  BY <1>1, <1>4 DEF Shared
<1>. QED BY <1>2, <1>5, <1>6 DEF Shared

\* A step that ends a request, or takes it on with what it has.
LEMMA OnShared ==
    ASSUME Core, Shared, NEW t \in Thread,
           \/ StoreState(t) \/ ConsumeState(t) \/ ExchangeFails(t) \/ FindUser(t)
           \/ InsertUser(t) \/ CommandFails(t) \/ LookUp(t)
           \/ CheckToken(t) \/ Sweep(t) \/ SaveSuccessor(t) \/ Rotate(t) \/ IssueAccess(t)
    PROVE  Shared'
<1> DEFINE q == thread[t]
<1>1. q \in Request /\ Fits(q.has, built, raced) /\ Equipped(q)
      /\ thread \in [Thread -> Request]
  BY CoreOthers DEF Shared
<1>2. UNCHANGED <<built, cases, home, sessions, raced>>
  BY DEF StoreState, ConsumeState, ExchangeFails, FindUser, InsertUser, CommandFails, LookUp,
         CheckToken, Sweep, SaveSuccessor, Rotate, IssueAccess, Data, Container, History
<1>3. CASE End(t)
  BY <1>2, <1>3, NothingFits, SharedKept DEF End
<1>4. ASSUME NEW pc \in {"insert", "login", "sweep", "save", "rotate", "issue"},
             pc \in {"insert", "login"} => q.pc \in {"find", "insert"},
             NEW r, r.pc = pc, r.has = q.has, r.case = q.case, thread' = [thread EXCEPT ![t] = r]
      PROVE  Shared'
  <2>1. Fits(r.has, built, raced) /\ Equipped(r)
    BY <1>1, <1>4 DEF Equipped
  <2>. QED BY <1>2, <1>4, <2>1, SharedKept
<1>5. ASSUME NEW pc \in {"insert", "login", "sweep", "save", "rotate", "issue"},
             pc \in {"insert", "login"} => q.pc \in {"find", "insert"}, Goto(t, pc)
      PROVE  Shared'
  <2> DEFINE r == [q EXCEPT !.pc = pc]
  <2>1. r.pc = pc /\ r.has = q.has /\ r.case = q.case /\ thread' = [thread EXCEPT ![t] = r]
    BY <1>1, <1>5 DEF Goto, Request
  <2>. QED BY <1>4, <1>5, <2>1
<1>6. CASE StoreState(t) \/ ExchangeFails(t) \/ CommandFails(t) \/ LookUp(t) \/ Sweep(t)
           \/ IssueAccess(t)
  BY <1>3, <1>5, <1>6 DEF StoreState, ExchangeFails, CommandFails, LookUp, Sweep, IssueAccess
<1>7. CASE FindUser(t) \/ InsertUser(t)
  BY <1>3, <1>5, <1>7 DEF FindUser, InsertUser, At
<1>8. CASE CheckToken(t) \/ Rotate(t)
  BY <1>3, <1>5, <1>8 DEF CheckToken, Rotate
<1>9. CASE SaveSuccessor(t)
  <2> DEFINE r == [q EXCEPT !.pc = "rotate", !.new = Cardinality(Present) + 1]
  <2>1. r.pc = "rotate" /\ r.has = q.has /\ r.case = q.case /\ thread' = [thread EXCEPT ![t] = r]
    BY <1>1, <1>9 DEF SaveSuccessor, Request
  <2> HIDE DEF r
  <2>. QED BY <1>4, <2>1
<1>10. CASE ConsumeState(t)
  <2> DEFINE r == [q EXCEPT !.pc = "case", !.has = Nothing]
  <2>1. r.pc = "case" /\ r.has = Nothing
    BY <1>1 DEF Request
  <2>2. End(t) \/ thread' = [thread EXCEPT ![t] = r]
    BY <1>1, <1>10 DEF ConsumeState, Request
  <2> HIDE DEF r
  <2>3. Fits(r.has, built, raced) /\ Equipped(r)
    BY <2>1, NothingFits DEF Equipped
  <2>. QED BY <1>2, <1>3, <2>2, <2>3, SharedKept
<1>. QED BY <1>6, <1>7, <1>8, <1>9, <1>10

\* A request that asks the container, or comes to it.
LEMMA AskShared ==
    ASSUME Core, Shared, NEW t \in Thread,
           \/ \E s \in Service : Resolve(t, s)
           \/ ResolveCase(t)
           \/ \E x \in State : StartOAuth(t, x) \/ Callback(t, x)
           \/ \E k \in Token \cup {0} : Refresh(t, k) \/ Logout(t, k)
    PROVE  Shared'
<1> DEFINE q == thread[t]
<1>1. /\ q \in Request /\ Fits(q.has, built, raced) /\ Equipped(q)
      /\ Carries(q, tokens, Count) /\ built \in Holdings
  BY CoreOthers DEF Shared, OthersOK
<1>2. UNCHANGED <<built, cases, home, sessions, raced>>
  BY DEF Resolve, ResolveCase, StartOAuth, Callback, Refresh, Logout, Presented, Data, Container,
         History
<1>3. ASSUME NEW r \in Request, Fits(r.has, built, raced), NEW s \in Service,
             s = "tokens" /\ r.case # "revoke" => r.has["users"] # "none",
             thread' = [thread EXCEPT ![t] = Looked(r, s)]
      PROVE  Shared'
  <2>1. Fits(Looked(r, s).has, built, raced) /\ Equipped(Looked(r, s))
    BY <1>1, <1>3, LookedShared
  <2>. QED BY <1>2, <1>3, <2>1, SharedKept
<1>4. ASSUME NEW r \in Request, Fits(r.has, built, raced), r.case \in UseCase,
             thread' = [thread EXCEPT ![t] = LookedCase(r)]
      PROVE  Shared'
  <2>1. Fits(LookedCase(r).has, built, raced) /\ Equipped(LookedCase(r))
    BY <1>4, LookedCaseShared
  <2>. QED BY <1>2, <1>4, <2>1, SharedKept
<1>5. ASSUME NEW s \in Service, Resolve(t, s) PROVE Shared'
  <2>1. s = "tokens" /\ q.case # "revoke" => q.has["users"] # "none"
    BY <1>1, <1>5 DEF Resolve, At, Equipped
  <2>2. thread' = [thread EXCEPT ![t] = Looked(q, s)]
    BY <1>5 DEF Resolve
  <2>. QED BY <1>1, <1>3, <2>1, <2>2
<1>6. CASE ResolveCase(t)
  <2>1. q.case \in UseCase /\ thread' = [thread EXCEPT ![t] = LookedCase(q)]
    BY <1>1, <1>6 DEF ResolveCase, At, Carries
  <2>. QED BY <1>1, <1>4, <2>1
<1>7. ASSUME NEW x \in State, StartOAuth(t, x) \/ Callback(t, x) PROVE Shared'
  <2>1. PICK c \in {"start", "login"} :
           thread' = [thread EXCEPT ![t] = Looked([q EXCEPT !.case = c, !.state = x], "store")]
    BY <1>7 DEF StartOAuth, Callback
  <2> DEFINE r == [q EXCEPT !.case = c, !.state = x]
  <2>2. r \in Request /\ r.has = q.has
    BY <1>1 DEF Request, UseCase
  <2>3. thread' = [thread EXCEPT ![t] = Looked(r, "store")]
    BY <2>1
  <2> HIDE DEF r
  <2>. QED BY <1>1, <1>3, <2>2, <2>3 DEF Service
<1>8. ASSUME NEW k \in Token \cup {0}, Refresh(t, k) \/ Logout(t, k) PROVE Shared'
  <2>1. PICK c \in {"refresh", "revoke"} : Presented(t, c, k)
    BY <1>8 DEF Refresh, Logout
  <2> DEFINE s == IF k = 0 THEN 0 ELSE tokens[k].session
             r == [q EXCEPT !.case = c, !.token = k, !.session = s]
  <2>2. thread' = [thread EXCEPT ![t] = LookedCase(r)]
    BY <2>1 DEF Presented
  <2>3. r \in Request /\ r.case = c /\ r.has = q.has
    <3>1. k # 0 => tokens[k] \in StoredToken
      BY DEF Core, TypeOK
    <3>2. k \in 0 .. MaxTokens /\ s \in 0 .. MaxSessions
      BY <3>1, AuthSessionsAssumption DEF Token, StoredToken
    <3> HIDE DEF s
    <3>. QED BY <1>1, <3>2 DEF Request, UseCase
  <2> HIDE DEF r
  <2>. QED BY <1>1, <1>4, <2>2, <2>3 DEF UseCase
<1>. QED BY <1>5, <1>6, <1>7, <1>8

\* Shared is an invariant.
LEMMA SharedInvariant == Spec => []Shared
<1>1. Core /\ Shared /\ [Next]_vars => Shared'
  <2> SUFFICES ASSUME Core, Shared, [Next]_vars PROVE Shared'
    OBVIOUS
  <2>1. CASE \/ \E x \in State : ExpireState(x)
             \/ \E k \in Token : ExpireToken(k) \/ DropExpired(k)
             \/ UNCHANGED vars
    <3>1. UNCHANGED <<thread, built, cases, home, sessions, raced>>
      BY <2>1 DEF ExpireState, ExpireToken, DropExpired, vars, Data, Container, History
    <3>. QED BY <3>1 DEF Shared
  <2>2. ASSUME NEW t \in Thread,
               \/ \E s \in Service : Resolve(t, s) \/ Build(t, s)
               \/ ResolveCase(t) \/ Install(t)
               \/ \E x \in State : StartOAuth(t, x) \/ Callback(t, x)
               \/ FinishLogin(t) \/ \E k \in Token \cup {0} : Refresh(t, k) \/ Logout(t, k)
        PROVE  Shared'
    BY <2>2, AskShared, BuildShared, InstallShared, FinishShared
  <2>3. ASSUME NEW t \in Thread,
               \/ StoreState(t) \/ ConsumeState(t) \/ ExchangeFails(t) \/ FindUser(t)
               \/ InsertUser(t) \/ CommandFails(t) \/ LookUp(t)
               \/ CheckToken(t) \/ Sweep(t) \/ SaveSuccessor(t) \/ Rotate(t) \/ IssueAccess(t)
        PROVE  Shared'
    BY <2>3, OnShared
  <2>. QED BY <2>1, <2>2, <2>3 DEF Next, Login
<1>. QED BY <1>1, InitShared, CoreInvariant, PTL DEF Spec

\* Unless two requests raced to build the repository of tokens, no refresh and no
\* logout looks for a stored token where it is not.
THEOREM AuthTokensAreFound == Spec => []TokensAreFound
<1>1. Core /\ Shared => TokensAreFound
  <2> SUFFICES ASSUME Core, Shared, NEW t \in Thread, thread[t].pc \in {"check", "lookup"},
                      thread[t].token # 0, tokens[thread[t].token].status # "deleted",
                      "tokens" \notin raced
               PROVE  Found(t)
    BY DEF TokensAreFound
  <2>1. thread[t].session \in 1 .. sessions /\ thread[t].session \in Session
    BY Carried, CoreOthers DEF Carries
  <2>2. thread[t].has["tokens"] # "none" /\ home[thread[t].session]["tokens"] # "none"
    BY <2>1 DEF Shared, Equipped
  <2>3. /\ thread[t].has["tokens"] \in {"none", built["tokens"]}
        /\ home[thread[t].session]["tokens"] \in {"none", built["tokens"]}
    BY <2>1 DEF Shared, Fits, Repository
  <2>. QED BY <2>2, <2>3 DEF Found
<1>. QED BY <1>1, CoreInvariant, SharedInvariant, PTL

(***************************************************************************)
(* One identity, one user.                                                 *)
(***************************************************************************)

\* Neither did two first logins overlap nor was the repository of users built twice.
Alone == ~together /\ "users" \notin raced

Users ==
    /\ users = 0 <=> holding = {}
    /\ "users" \notin raced => holding \subseteq {built["users"]} \ {"none"}
    /\ index => users <= 1
    /\ users > 1 => ~Alone
    /\ Alone =>
          /\ \A t, u \in Thread : thread[t].pc = "insert" /\ thread[u].pc = "insert" => t = u
          /\ \A t \in Thread : thread[t].pc = "insert" => users = 0

\* Initially no identity has a user.
LEMMA InitUsers == Init => Users
BY DEF Init, Wired, Users, Idle, Alone

\* A step that touches no user.
LEMMA UsersKept ==
    ASSUME Core, Users, NEW t \in Thread, NEW r, thread' = [thread EXCEPT ![t] = r],
           r.pc # "insert", UNCHANGED <<users, holding, together, raced, built>>,
           index' => users <= 1
    PROVE  Users'
<1>1. \A u \in Thread : thread'[u].pc = "insert" => thread[u].pc = "insert"
  BY CoreOthers
<1>. QED BY <1>1 DEF Users, Alone

\* The index is not created over duplicates.
LEMMA IndexUnique == ASSUME Core, Users, EnsureIndex PROVE index' => users <= 1
<1>1. index \in BOOLEAN /\ users \in Nat
  BY CoreOthers, AuthSessionsAssumption DEF OthersOK
<1>2. index' = index \/ users <= 1 \/ ~index'
  <2>1. users > 1 \/ users <= 1
    BY <1>1
  <2>. QED BY <2>1 DEF EnsureIndex
<1>. QED BY <1>2 DEF Users

\* A login has the container's repository of users, unless there was a race for it.
LEMMA LoginHas ==
    ASSUME Shared, NEW t \in Thread, thread[t].pc \in {"find", "insert"}
    PROVE  /\ thread[t].has["users"] # "none"
           /\ "users" \notin raced => thread[t].has["users"] = built["users"]
<1>1. thread[t].has["users"] # "none"
  BY DEF Shared, Equipped
<1>2. "users" \notin raced => thread[t].has["users"] \in {"none", built["users"]}
  BY DEF Shared, Fits, Repository
<1>. QED BY <1>1, <1>2

\* Two first logins that both find no user overlap.
LEMMA FindUserUsers ==
    ASSUME Core, Shared, Users, NEW t \in Thread, FindUser(t)
    PROVE  Users'
<1> DEFINE q == thread[t]
           i == q.has["users"]
           pc == IF i \in holding THEN "login" ELSE "insert"
           r == [q EXCEPT !.pc = pc]
<1>1. /\ UNCHANGED <<users, holding, raced, built>> /\ (index' => users <= 1)
      /\ q \in Request /\ thread \in [Thread -> Request] /\ users \in Nat
      /\ together \in BOOLEAN /\ q.pc = "find"
      /\ together' = (together \/ (i \notin holding /\ Inserting(i) # {}))
  BY IndexUnique, CoreOthers, AuthSessionsAssumption DEF FindUser, OthersOK, Container, At
<1>2. r.pc = pc /\ thread' = [thread EXCEPT ![t] = r]
  BY <1>1 DEF FindUser, Goto, Request
<1>3. CASE i \in holding
  <2>1. together' = together
    BY <1>1, <1>3
  <2> HIDE DEF r
  <2>. QED BY <1>1, <1>2, <1>3, <2>1, UsersKept
<1>4. CASE i \notin holding
  <2> HIDE DEF r
  <2>1. ASSUME Alone'
        PROVE  users = 0 /\ \A u \in Thread : thread[u].pc # "insert"
    <3>1. "users" \notin raced /\ ~together /\ Inserting(i) = {}
      BY <1>1, <1>4, <2>1 DEF Alone
    <3>2. i = built["users"] /\ i # "none"
      BY <1>1, <3>1, LoginHas
    <3>3. holding = {}
      BY <1>4, <3>1, <3>2 DEF Users
    <3>4. ASSUME NEW u \in Thread, thread[u].pc = "insert" PROVE FALSE
      <4>1. thread[u].has["users"] = i
        BY <3>1, <3>2, <3>4, LoginHas
      <4>. QED BY <3>1, <3>4, <4>1 DEF Inserting
    <3>. QED BY <3>3, <3>4 DEF Users
  <2>2. \A u \in Thread : thread'[u] = thread[u] \/ u = t
    BY <1>1, <1>2
  <2>3. Alone' => Alone
    BY <1>1 DEF Alone
  <2>4. /\ users' = 0 <=> holding' = {}
        /\ "users" \notin raced' => holding' \subseteq {built'["users"]} \ {"none"}
        /\ index' => users' <= 1
        /\ users' > 1 => ~Alone'
    BY <1>1, <2>3 DEF Users
  <2>5. ASSUME Alone'
        PROVE  /\ \A u, v \in Thread : thread'[u].pc = "insert" /\ thread'[v].pc = "insert" => u = v
               /\ \A u \in Thread : thread'[u].pc = "insert" => users' = 0
    BY <1>1, <2>1, <2>2, <2>5
  <2>. QED BY <2>4, <2>5 DEF Users
<1>. QED BY <1>3, <1>4

\* A second user is only made where two first logins overlapped, or in another
\* repository, and where no index refuses it.
LEMMA InsertUserUsers ==
    ASSUME Core, Shared, Users, NEW t \in Thread, InsertUser(t)
    PROVE  Users'
<1>1. /\ UNCHANGED <<together, raced, built>> /\ (index' => users <= 1) /\ thread[t] \in Request
      /\ thread[t].pc = "insert" /\ thread \in [Thread -> Request] /\ users \in Nat
  BY IndexUnique, CoreOthers, AuthSessionsAssumption
     DEF InsertUser, History, At, OthersOK, Container
<1>2. CASE Refused
  <2>1. End(t) /\ UNCHANGED <<users, holding>> /\ Idle.pc # "insert"
    BY <1>2 DEF InsertUser, Idle
  <2>. QED BY <1>1, <2>1, UsersKept DEF End
<1>3. CASE ~Refused
  <2> DEFINE i == thread[t].has["users"]
  <2>1. users' = users + 1 /\ holding' = holding \cup {i} /\ Goto(t, "login")
    BY <1>3 DEF InsertUser, NewUser
  <2>2. index' => users = 0
    BY <1>1, <1>3 DEF Refused
  <2>3. users # 0 => ~Alone
    BY <1>1 DEF Users
  <2>4. Alone' <=> Alone
    BY <1>1 DEF Alone
  <2>5. ASSUME Alone, NEW u \in Thread PROVE thread'[u].pc # "insert"
    <3>1. thread[u].pc = "insert" => u = t
      BY <1>1, <2>5 DEF Users
    <3>2. thread'[t].pc # "insert"
      BY <1>1, <2>1 DEF Goto, Request
    <3>3. u # t => thread'[u] = thread[u]
      BY <1>1, <2>1 DEF Goto
    <3>. QED BY <3>1, <3>2, <3>3
  <2>6. "users" \notin raced => holding' \subseteq {built["users"]} \ {"none"}
    BY <1>1, <2>1, LoginHas DEF Users
  <2>7. users' # 0 /\ holding' # {}
    BY <1>1, <2>1
  <2>8. (index' => users' <= 1) /\ (users' > 1 => ~Alone')
    BY <1>1, <2>1, <2>2, <2>3, <2>4
  <2>. QED BY <1>1, <2>4, <2>5, <2>6, <2>7, <2>8 DEF Users
<1>. QED BY <1>2, <1>3

\* The first repository of users is built before there is a user.
LEMMA BuildUsers ==
    ASSUME Core, Users, NEW t \in Thread, NEW s \in Service, Build(t, s)
    PROVE  Users'
<1> DEFINE r == With(thread[t], s, t)
<1>1. /\ thread' = [thread EXCEPT ![t] = r] /\ UNCHANGED <<users, holding, together, index>>
      /\ built' = [built EXCEPT ![s] = t] /\ built \in Holdings
      /\ raced' = IF s = "store" \/ built[s] = "none" THEN raced ELSE raced \cup {s}
  BY CoreOthers DEF OthersOK, Build
<1>2. r.pc # "insert"
  <2>1. thread[t] \in Request /\ t \in Instance
    BY CoreOthers DEF Instance
  <2>. QED BY <2>1, WithPc
<1> HIDE DEF r
<1>3. \A u \in Thread : thread'[u].pc = "insert" => thread[u].pc = "insert"
  BY <1>1, <1>2, CoreOthers
<1>4. Alone' => Alone
  BY <1>1 DEF Alone
<1>5. "users" \notin raced' => holding \subseteq {built'["users"]} \ {"none"}
  <2>1. CASE s = "users"
    BY <1>1, <2>1 DEF Users
  <2>2. CASE s # "users"
    BY <1>1, <2>2 DEF Users, Holdings, Service, Repository
  <2>. QED BY <2>1, <2>2
<1>. QED BY <1>1, <1>3, <1>4, <1>5 DEF Users

\* One user of the identity, but for overlapping first logins or two repositories,
\* without an index.
THEOREM AuthOneUserPerIdentity == Spec => []OneUserPerIdentity
<1>1. Core /\ Shared /\ Users /\ [Next]_vars => Users'
  <2> SUFFICES ASSUME Core, Shared, Users, [Next]_vars PROVE Users'
    OBVIOUS
  <2>1. CASE \/ \E x \in State : ExpireState(x)
             \/ \E k \in Token : ExpireToken(k) \/ DropExpired(k)
             \/ UNCHANGED vars
    <3>1. UNCHANGED <<users, holding, together, raced, built, index, thread>>
      BY <2>1 DEF ExpireState, ExpireToken, DropExpired, vars, Data, Container, History
    <3>. QED BY <3>1 DEF Users, Alone
  <2>2. ASSUME NEW t \in Thread,
               \/ \E s \in Service : Resolve(t, s)
               \/ ResolveCase(t) \/ Install(t)
               \/ \E x \in State : StartOAuth(t, x) \/ Callback(t, x)
               \/ StoreState(t) \/ ConsumeState(t) \/ ExchangeFails(t) \/ CommandFails(t)
               \/ LookUp(t) \/ \E k \in Token \cup {0} : Refresh(t, k) \/ Logout(t, k)
        PROVE  Users'
    <3>1. UNCHANGED <<users, holding, together, raced, built, index>>
      BY <2>2 DEF Resolve, ResolveCase, Install, StartOAuth, Callback, StoreState, ConsumeState,
                  ExchangeFails, CommandFails, LookUp, Refresh, Logout, Presented, Data,
                  Container, History
    <3>2. PICK r : thread' = [thread EXCEPT ![t] = r] /\ (r.pc = "insert" => FindUser(t))
      BY <2>2, Moves
    <3>4. CASE r.pc # "insert"
      BY <3>1, <3>2, <3>4, UsersKept DEF Users
    <3>5. CASE FindUser(t)
      BY <3>5, FindUserUsers
    <3>. QED BY <3>2, <3>4, <3>5
  <2>3. ASSUME NEW t \in Thread,
               FindUser(t) \/ InsertUser(t) \/ \E s \in Service : Build(t, s)
        PROVE  Users'
    BY <2>3, FindUserUsers, InsertUserUsers, BuildUsers
  <2>4. ASSUME NEW t \in Thread,
               \/ FinishLogin(t) \/ CheckToken(t) \/ Sweep(t) \/ SaveSuccessor(t) \/ Rotate(t)
               \/ IssueAccess(t)
        PROVE  Users'
    <3>1. UNCHANGED <<users, holding, together, raced, built, index>>
      BY <2>4 DEF FinishLogin, CheckToken, Sweep, SaveSuccessor, Rotate, IssueAccess, Data,
                  Container, History
    <3>2. PICK r : /\ thread' = [thread EXCEPT ![t] = r]
                   /\ r.pc \in {"idle", "sweep", "save", "rotate", "issue"}
      BY <2>4, TokenMoves
    <3>. QED BY <3>1, <3>2, UsersKept DEF Users
  <2>. QED BY <2>1, <2>2, <2>3, <2>4 DEF Next, Login
<1>2. Core /\ Users => OneUserPerIdentity
  <2> SUFFICES ASSUME Core, Users PROVE OneUserPerIdentity
    OBVIOUS
  <2>1. users \in Nat
    BY CoreOthers, AuthSessionsAssumption DEF OthersOK
  <2>2. users > 1 => ~(users <= 1)
    BY <2>1
  <2>. QED BY <2>2 DEF Users, Alone, OneUserPerIdentity
<1>. QED BY <1>1, <1>2, InitUsers, CoreInvariant, SharedInvariant, PTL DEF Spec

=============================================================================

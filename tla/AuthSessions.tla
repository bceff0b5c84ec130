---------------------------- MODULE AuthSessions ----------------------------
(***************************************************************************)
(* auth-service: OAuth login, rotation of refresh tokens, logout, and the  *)
(* access tokens api-service admits.  Flask serves every request in a      *)
(* thread of its own; an action is what it does between two calls of a     *)
(* repository, each of which is atomic (a lock, or one MongoDB command).   *)
(* The stores in memory and the use cases are built by the first request   *)
(* that asks the container for them, which takes no lock.                  *)
(*                                                                         *)
(* Tokens, sessions and users are numbered in the order of their creation. *)
(* A session is one login of one identity of the provider.  Access tokens  *)
(* are signed and never stored.                                            *)
(***************************************************************************)
EXTENDS Naturals, FiniteSets

CONSTANTS
    Thread,
    State,        \* OAuth states, each generated once
    Backends,     \* where users and tokens are stored: "memory", "mongo"
    Starts,       \* "cold": nothing is built; "warm": everything is, once
    MaxTokens,    \* bound: refresh tokens
    MaxSessions,  \* bound: completed logins
    MaxUsers      \* bound: user entities of the one identity

ASSUME AuthSessionsAssumption ==
    /\ IsFiniteSet(Thread)
    /\ Backends \subseteq {"memory", "mongo"}
    /\ Starts \subseteq {"cold", "warm"}
    /\ "first" \notin Thread /\ "none" \notin Thread
    /\ MaxTokens \in Nat \ {0} /\ MaxSessions \in Nat \ {0} /\ MaxUsers \in Nat \ {0}

VARIABLES
    backend,   \* MongoDB, or memory if it was not reached at startup
    built,     \* [Service -> the container's singleton]
    cases,     \* [UseCase -> the repositories its singleton holds]
    index,     \* the unique index on the provider's identity exists
    states,    \* [State -> StoredState]
    users,     \* user entities created for the identity
    holding,   \* the user repositories with an entity of the identity
    sessions,  \* sessions so far
    home,      \* [session -> the repositories of its login]
    tokens,    \* [token -> StoredToken]
    known,     \* tokens that were sent to a client
    thread,    \* [Thread -> Request]
    clean,     \* history: sessions revoked while no refresh of theirs was past its check
    late,      \* history: sessions that got an access token when already in clean
    used,      \* history: [State -> Nat]: logins completed with it
    together,  \* history: two first logins in one repository overlapped
    raced      \* history: the repositories that were built when there was one

vars == <<backend, built, cases, index, states, users, holding, sessions, home, tokens, known,
          thread, clean, late, used, together, raced>>

Repository == {"users", "tokens"}
Service == Repository \cup {"store"}
UseCase == {"login", "refresh", "revoke"}

\* An instance is named for the thread that built it: none builds two of a kind.
Instance == Thread \cup {"first"}
Holdings == [Service -> Instance \cup {"none"}]
Nothing == [x \in Service |-> "none"]
First == [x \in Service |-> "first"]

StoredState ==
    [status : {"new", "drawn", "stored", "expired", "gone"}, store : Instance \cup {"none"}]

Token == 1..MaxTokens
Session == 1..MaxSessions

StoredToken ==
    [status : {"none", "live", "revoked", "deleted"}, session : 0..MaxSessions, expired : BOOLEAN]

NoToken == [status |-> "none", session |-> 0, expired |-> FALSE]

Request ==
    [pc      : {"idle", "new store", "keep", "consume", "case", "users", "new users"}
               \cup {"tokens", "new tokens", "install", "find", "insert", "login"}
               \cup {"check", "sweep", "save", "rotate", "issue", "lookup"},
     case    : {"none", "start"} \cup UseCase,
     has     : Holdings,
     state   : State \cup {"none"},
     token   : 0..MaxTokens,
     session : 0..MaxSessions,
     new     : 0..MaxTokens]

Idle == [pc |-> "idle", case |-> "none", has |-> Nothing, state |-> "none", token |-> 0,
         session |-> 0, new |-> 0]

\* MongoDB, or memory when it is not configured or not reached.
Connected == backend \in Backends

\* wire_mongo: the repositories, and a first attempt at their indexes.
Wired ==
    /\ index \in BOOLEAN
    /\ index => backend = "mongo"

\* Repositories in MongoDB are registered when the process starts.  The others
\* are built on demand, and a process that has served requests may have built
\* each of them once.
Registered ==
    \E start \in Starts :
       /\ built = IF start = "warm" THEN First
                  ELSE IF backend = "mongo" THEN [First EXCEPT !.store = "none"] ELSE Nothing
       /\ cases = [c \in UseCase |-> IF start = "warm" THEN First ELSE Nothing]

Init ==
    /\ Connected /\ Wired /\ Registered
    /\ states = [x \in State |-> [status |-> "new", store |-> "none"]]
    /\ users = 0
    /\ holding = {}
    /\ sessions = 0
    /\ home = [s \in Session |-> Nothing]
    /\ tokens = [k \in Token |-> NoToken]
    /\ known = {}
    /\ thread = [t \in Thread |-> Idle]
    /\ clean = {}
    /\ late = {}
    /\ used = [x \in State |-> 0]
    /\ together = FALSE
    /\ raced = {}

At(t, pc) == thread[t].pc = pc

Goto(t, pc) == thread' = [thread EXCEPT ![t].pc = pc]

\* The request is answered.
End(t) == thread' = [thread EXCEPT ![t] = Idle]

Present == {k \in Token : tokens[k].status # "none"}
Live(s) == {k \in Token : tokens[k].status = "live" /\ tokens[k].session = s}

\* Ids are not used twice, and a thread that is to save a token holds one back.
Pending(pcs) == Cardinality({t \in Thread : thread[t].pc \in pcs})

\* Threads of session s that will save a token or issue an access token.
PastCheck(s) ==
    {t \in Thread : thread[t].session = s /\ thread[t].pc \in {"save", "rotate", "issue"}}

Container == <<backend, built, cases>>
Data == <<Container, index, users, holding, sessions, home>>
History == <<clean, late, used, together, raced>>

-----------------------------------------------------------------------------
(***************************************************************************)
(* ServiceContainer.resolve                                                *)
(***************************************************************************)

New == [store |-> "new store", users |-> "new users", tokens |-> "new tokens"]

\* What a request r does next once it has service s: _oauth_login and
\* _refresh_token take the users, then the tokens.
After(r, s) ==
    CASE s = "store"  -> IF r.case = "start" THEN "keep" ELSE "consume"
      [] s = "users"  -> "tokens"
      [] s = "tokens" -> "install"

With(r, s, i) == [r EXCEPT !.pc = After(r, s), !.has = [r.has EXCEPT ![s] = i]]

\* Request r is given the singleton, if there is one ...
Looked(r, s) == IF built[s] # "none" THEN With(r, s, built[s]) ELSE [r EXCEPT !.pc = New[s]]

\* Seeded fault: the instance is not kept as the singleton.
BuildApart(t, s) ==
    /\ At(t, New[s])
    /\ thread' = [thread EXCEPT ![t] = With(@, s, t)]
    /\ UNCHANGED <<Data, states, tokens, known, History>>

\* ... else it builds an instance of its own, which becomes the singleton whether
\* or not another request has made one since.
Build(t, s) ==
    /\ At(t, New[s])
    /\ built' = [built EXCEPT ![s] = t]
    /\ thread' = [thread EXCEPT ![t] = With(@, s, t)]
    /\ raced' = IF s = "store" \/ built[s] = "none" THEN raced ELSE raced \cup {s}
    /\ UNCHANGED <<backend, cases, index, users, holding, sessions, home, states, tokens,
                   known, clean, late, used, together>>

\* The factory of a use case asks for its repositories.
Resolve(t, s) ==
    /\ At(t, s)
    /\ thread' = [thread EXCEPT ![t] = Looked(@, s)]
    /\ UNCHANGED <<Data, states, tokens, known, History>>

\* The first step of a use case.
Body == [login |-> "find", refresh |-> "check", revoke |-> "lookup"]

\* The use case, if it is built; else its repositories first.
LookedCase(r) ==
    IF cases[r.case] # Nothing
    THEN [r EXCEPT !.pc = Body[r.case], !.has = cases[r.case]]
    ELSE [r EXCEPT !.pc = IF r.case = "revoke" THEN "tokens" ELSE "users"]

ResolveCase(t) ==
    /\ At(t, "case")
    /\ thread' = [thread EXCEPT ![t] = LookedCase(@)]
    /\ UNCHANGED <<Data, states, tokens, known, History>>

Install(t) ==
    LET c == thread[t].case IN
    /\ At(t, "install")
    /\ cases' = [cases EXCEPT ![c] = thread[t].has]
    /\ Goto(t, Body[c])
    /\ UNCHANGED <<backend, built, index, users, holding, sessions, home, states,
                   tokens, known, History>>

-----------------------------------------------------------------------------
(***************************************************************************)
(* OAuth: start_oauth, complete_oauth, OAuthLoginUseCase                   *)
(***************************************************************************)

\* The state is drawn before the store is asked for.
StartOAuth(t, x) ==
    /\ At(t, "idle")
    /\ states[x].status = "new"
    /\ states' = [states EXCEPT ![x].status = "drawn"]
    /\ thread' = [thread EXCEPT ![t] = Looked([@ EXCEPT !.case = "start", !.state = x], "store")]
    /\ UNCHANGED <<Data, tokens, known, History>>

StoreState(t) ==
    /\ At(t, "keep")
    /\ states' = [states EXCEPT ![thread[t].state] =
                     [status |-> "stored", store |-> thread[t].has["store"]]]
    /\ End(t)
    /\ UNCHANGED <<Data, tokens, known, History>>

\* Its ten minutes are over; the entry stays until it is consumed.
ExpireState(x) ==
    /\ states[x].status = "stored"
    /\ states' = [states EXCEPT ![x].status = "expired"]
    /\ UNCHANGED <<Data, tokens, known, thread, History>>

\* The callback with a code and a state, which may arrive twice.
Callback(t, x) ==
    /\ At(t, "idle")
    /\ states[x].status \notin {"new", "drawn"}
    /\ thread' = [thread EXCEPT ![t] = Looked([@ EXCEPT !.case = "login", !.state = x], "store")]
    /\ UNCHANGED <<Data, states, tokens, known, History>>

\* POST /login: with a code and a state the callback, without them the start.
Login(t, x) == StartOAuth(t, x) \/ Callback(t, x)

\* Seeded fault: the entry is read and not removed.
Leave(x) == UNCHANGED states

Remove(x) == states' = [states EXCEPT ![x] = [status |-> "gone", store |-> "none"]]

\* Only the store that the state was saved in has it.
ConsumeState(t) ==
    LET x == thread[t].state
        found == states[x].store = thread[t].has["store"]
    IN
    /\ At(t, "consume")
    /\ IF found THEN Remove(x) ELSE UNCHANGED states
    /\ IF found /\ states[x].status = "stored"
       THEN thread' = [thread EXCEPT ![t].pc = "case", ![t].has = Nothing]
       ELSE End(t)
    /\ UNCHANGED <<Data, tokens, known, History>>

\* provider.exchange_code, which the use case calls first, fails: a 502.
ExchangeFails(t) ==
    /\ At(t, "find")
    /\ End(t)
    /\ UNCHANGED <<Data, states, tokens, known, History>>

\* _collection: while the index is missing, whoever uses the collection tries to
\* create it, which may fail, and fails for good once there are duplicates.
\* Either way the operation itself goes on.
EnsureIndex ==
    index' \in IF backend = "memory" \/ index THEN {index}
              ELSE IF users > 1 THEN {FALSE} ELSE BOOLEAN

\* First logins of the identity in repository i.
Inserting(i) == {t \in Thread : thread[t].pc = "insert" /\ thread[t].has["users"] = i}

\* _resolve_user: find_by_provider.  An entity that is found is saved again; none
\* is ever deactivated.
FindUser(t) ==
    LET i == thread[t].has["users"] IN
    /\ At(t, "find")
    /\ EnsureIndex
    /\ Goto(t, IF i \in holding THEN "login" ELSE "insert")
    /\ together' = (together \/ (i \notin holding /\ Inserting(i) # {}))
    /\ UNCHANGED <<Container, users, holding, sessions, home, states, tokens, known,
                   clean, late, used, raced>>

\* Seeded fault: the index is not unique.
NoIndex == FALSE

\* The unique index on (provider, provider_user_id).
Refused == index' /\ users > 0

NewUser(t) ==
    /\ users < MaxUsers
    /\ users' = users + 1
    /\ holding' = holding \cup {thread[t].has["users"]}

\* A new entity is saved, over the one another first login may have saved.
InsertUser(t) ==
    /\ At(t, "insert")
    /\ EnsureIndex
    /\ IF Refused
       THEN /\ End(t)
            /\ UNCHANGED <<users, holding>>
       ELSE /\ NewUser(t)
            /\ Goto(t, "login")
    /\ UNCHANGED <<Container, sessions, home, states, tokens, known, History>>

Save(k, s) == tokens' = [tokens EXCEPT ![k] = [status |-> "live", session |-> s, expired |-> FALSE]]

\* The access token is issued, the refresh token saved, both are answered.
FinishLogin(t) ==
    LET s == sessions + 1
        k == Cardinality(Present) + 1
    IN
    /\ At(t, "login")
    /\ sessions < MaxSessions
    /\ k + Pending({"save"}) <= MaxTokens
    /\ sessions' = s
    /\ home' = [home EXCEPT ![s] = thread[t].has]
    /\ Save(k, s)
    /\ known' = known \cup {k}
    /\ used' = [used EXCEPT ![thread[t].state] = @ + 1]
    /\ End(t)
    /\ UNCHANGED <<Container, index, users, holding, states, clean, late, together, raced>>

-----------------------------------------------------------------------------
(***************************************************************************)
(* RefreshTokenUseCase                                                     *)
(***************************************************************************)

\* A request with token k, or with none the process has stored (0), for a use case.
Presented(t, c, k) ==
    /\ At(t, "idle")
    /\ k \in known \cup {0}
    /\ LET s == IF k = 0 THEN 0 ELSE tokens[k].session IN
       thread' = [thread EXCEPT ![t] =
                    LookedCase([@ EXCEPT !.case = c, !.token = k, !.session = s])]
    /\ UNCHANGED <<Data, states, tokens, known, History>>

\* Any token a client was given may be presented, by two requests at once, or
\* long after it was replaced; or one of before the process started.
Refresh(t, k) == Presented(t, "refresh", k)

\* The presented token, if find_by_hash finds it: one session's tokens are all
\* in the repository of its login.
Found(t) ==
    /\ thread[t].token # 0
    /\ home[thread[t].session]["tokens"] = thread[t].has["tokens"]
    /\ tokens[thread[t].token].status # "deleted"

\* find_by_id: the user is in the repository of the login.
UserFound(t) == home[thread[t].session]["users"] = thread[t].has["users"]

\* find_by_hash and the checks.  In MongoDB the stored times have no zone, and
\* comparing them with the clock raises for every token that is not revoked.
CheckToken(t) ==
    LET d == tokens[thread[t].token] IN
    /\ At(t, "check")
    /\ \/ ~Found(t) /\ End(t)
       \/ Found(t) /\ d.status = "revoked" /\ Goto(t, "sweep")
       \/ /\ Found(t) /\ d.status = "live"
          /\ IF d.expired \/ backend = "mongo" \/ ~UserFound(t) THEN End(t)
             ELSE /\ Cardinality(Present) + Pending({"save"}) < MaxTokens
                  /\ Goto(t, "save")
    /\ UNCHANGED <<Data, states, tokens, known, History>>

\* Seeded fault: only the presented token is revoked.
RevokeOne(t) == tokens' = [tokens EXCEPT ![thread[t].token].status = "revoked"]

\* revoke_session: every active token of the family.
RevokeSession(t) ==
    tokens' = [k \in Token |->
                 IF k \in Live(thread[t].session) THEN [tokens[k] EXCEPT !.status = "revoked"]
                 ELSE tokens[k]]

\* A revoked token was presented, or a client logs out.
Sweep(t) ==
    /\ At(t, "sweep")
    /\ RevokeSession(t)
    /\ clean' = IF PastCheck(thread[t].session) = {} THEN clean \cup {thread[t].session} ELSE clean
    /\ End(t)
    /\ UNCHANGED <<Data, states, known, late, used, together, raced>>

\* Seeded fault: the successor belongs to no session.
SaveApart(t) ==
    LET k == Cardinality(Present) + 1 IN
    /\ At(t, "save")
    /\ Save(k, 0)
    /\ thread' = [thread EXCEPT ![t].pc = "rotate", ![t].new = k]
    /\ UNCHANGED <<Data, states, known, History>>

\* The successor is saved first ...
SaveSuccessor(t) ==
    LET k == Cardinality(Present) + 1 IN
    /\ At(t, "save")
    /\ Save(k, thread[t].session)
    /\ thread' = [thread EXCEPT ![t].pc = "rotate", ![t].new = k]
    /\ UNCHANGED <<Data, states, known, History>>

\* ... then the presented token is marked and revoked, again if it already was.
Rotate(t) ==
    /\ At(t, "rotate")
    /\ tokens' = [tokens EXCEPT ![thread[t].token].status = "revoked"]
    /\ Goto(t, "issue")
    /\ UNCHANGED <<Data, states, known, History>>

IssueAccess(t) ==
    LET s == thread[t].session IN
    /\ At(t, "issue")
    /\ late' = late \cup ({s} \cap clean)
    /\ known' = known \cup {thread[t].new}
    /\ End(t)
    /\ UNCHANGED <<Container, index, users, holding, sessions, home, states, tokens, clean, used,
                   together, raced>>

-----------------------------------------------------------------------------
(***************************************************************************)
(* RevokeTokenUseCase and expiry                                           *)
(***************************************************************************)

Logout(t, k) == Presented(t, "revoke", k)

\* A token that was revoked before, by its rotation for one, ends the request
\* here, and so does one of another repository: the session goes on.
LookUp(t) ==
    /\ At(t, "lookup")
    /\ IF Found(t) /\ tokens[thread[t].token].status = "live" THEN Goto(t, "sweep") ELSE End(t)
    /\ UNCHANGED <<Data, states, tokens, known, History>>

\* A MongoDB command fails and the request with it.  One that fails although it
\* was applied is an insertion or a sweep whose request then ends.
CommandFails(t) ==
    /\ backend = "mongo"
    /\ thread[t].pc \in {"find", "insert", "login", "check", "sweep", "lookup"}
    /\ End(t)
    /\ UNCHANGED <<Data, states, tokens, known, History>>

ExpireToken(k) ==
    /\ tokens[k].status \in {"live", "revoked"}
    /\ ~tokens[k].expired
    /\ tokens' = [tokens EXCEPT ![k].expired = TRUE]
    /\ UNCHANGED <<Data, states, known, thread, History>>

\* The TTL index on expires_at, which MongoDB sweeps when it likes.
DropExpired(k) ==
    /\ backend = "mongo"
    /\ tokens[k].status \in {"live", "revoked"} /\ tokens[k].expired
    /\ tokens' = [tokens EXCEPT ![k].status = "deleted"]
    /\ UNCHANGED <<Data, states, known, thread, History>>

-----------------------------------------------------------------------------

Next ==
    \/ \E x \in State : ExpireState(x)
    \/ \E x \in State, t \in Thread : StartOAuth(t, x) \/ Callback(t, x) \/ Login(t, x)
    \/ \E t \in Thread :
          \/ \E s \in Service : Resolve(t, s) \/ Build(t, s)
          \/ ResolveCase(t) \/ Install(t)
          \/ StoreState(t) \/ ConsumeState(t) \/ ExchangeFails(t)
          \/ FindUser(t) \/ InsertUser(t) \/ FinishLogin(t)
          \/ CheckToken(t) \/ Sweep(t) \/ SaveSuccessor(t) \/ Rotate(t) \/ IssueAccess(t)
          \/ LookUp(t) \/ CommandFails(t)
          \/ \E k \in Token \cup {0} : Refresh(t, k) \/ Logout(t, k)
    \/ \E k \in Token : ExpireToken(k) \/ DropExpired(k)

Spec == Init /\ [][Next]_vars

-----------------------------------------------------------------------------

TypeOK ==
    /\ backend \in Backends
    /\ built \in Holdings
    /\ cases \in [UseCase -> Holdings]
    /\ index \in BOOLEAN
    /\ states \in [State -> StoredState]
    /\ users \in 0..MaxUsers /\ holding \subseteq Instance \cup {"none"}
    /\ sessions \in 0..MaxSessions
    /\ home \in [Session -> Holdings]
    /\ tokens \in [Token -> StoredToken]
    /\ known \subseteq Present
    /\ \A k \in Present : tokens[k].session \in 1..sessions
    /\ thread \in [Thread -> Request]
    /\ clean \subseteq 1..sessions /\ late \subseteq clean
    /\ used \in [State -> Nat]
    /\ together \in BOOLEAN /\ raced \subseteq Repository

\* A session that a logout, or the reuse of a replaced token, revoked while no
\* refresh of it was past its check is over: it has no live refresh token ever
\* again and gets no further access token.  What makes it hold: the successor
\* inherits the session, the sweep takes the whole family, and a refresh reads
\* the presented token before it saves anything.
SweptStaysDead ==
    /\ \A s \in clean : Live(s) = {}
    /\ late = {}

\* However often the provider's callback is delivered, one OAuth state
\* completes one login: consume removes the entry before its age is looked at.
StateUsedOnce == \A x \in State : used[x] <= 1

\* One identity has one user entity, with two exceptions, both without a unique
\* index to refuse the second: two first logins that overlap in one repository,
\* and two requests that raced to build the repository of a cold process, so
\* that the users of one are lost to the other.
OneUserPerIdentity == users > 1 => ~index /\ (together \/ "users" \in raced)

\* A refresh or a logout with a token the process has stored finds it, so that a
\* logout that is answered has revoked a live one: the login, the refresh and the
\* logout use case share one repository, except where two requests raced to
\* build it.
TokensAreFound ==
    \A t \in Thread :
        /\ thread[t].pc \in {"check", "lookup"}
        /\ thread[t].token # 0
        /\ tokens[thread[t].token].status # "deleted"
        => Found(t) \/ "tokens" \in raced
=============================================================================

----------------------------- MODULE ApiService -----------------------------
(***************************************************************************)
(* The process of api-service: create_app connects to MongoDB and wires    *)
(* the use cases, the job routes admit, check and serve requests in        *)
(* threads of their own, and the exit handler closes the client under the  *)
(* requests that are still served.  The AI routes of the same process      *)
(* insert into a collection of their own, for the engine that SyncEngine   *)
(* is about.                                                               *)
(*                                                                         *)
(* A document is its status and its owner.  What becomes of a created job  *)
(* in the queue, and of documents two writers save, is JobPipeline's; here *)
(* the worker only finishes a job.  An action is what a thread does up to  *)
(* and with one MongoDB command.                                           *)
(***************************************************************************)
EXTENDS Naturals

CONSTANTS
    Job,          \* job ids; one is never generated twice
    NoJob,
    Thread,
    User,         \* users that hold a valid access token
    Admin,        \* those whose token has the admin role
    MaxRetries,   \* connection attempts
    MaxFailures   \* bound: commands that fail or time out

ASSUME ApiServiceAssumption ==
    /\ NoJob \notin Job
    /\ Admin \subseteq User
    /\ User \cap {"anonymous", "nobody", "all", "absent", "refused"} = {}
    /\ MaxRetries \in Nat /\ MaxFailures \in Nat

VARIABLES
    enabled,    \* JWT_AUTH_ENABLED
    phase,      \* of the process
    attempts,   \* failed connection attempts
    client,     \* the MongoClient the repository's database handle belongs to
    failures,   \* commands that failed
    docs,       \* [Job -> Doc]: the collection
    owner,      \* history: [Job -> who created it]
    ai,         \* jobs in the engine's collection ai_jobs
    thread      \* [Thread -> Request]

vars == <<enabled, phase, attempts, client, failures, docs, owner, ai, thread>>

Caller == User \cup {"anonymous"}

Doc == [status : {"none", "pending", "completed", "cancelled"}, owner : Caller \cup {"nobody"}]

NoDoc == [status |-> "none", owner |-> "nobody"]

Writes == {"create", "update", "cancel", "delete"}

\* "get" is get_job and poll_job_status.
Kind == Writes \cup {"get", "list", "process", "probe"}

Token == User \cup {"absent", "refused"}

\* The classes of errors a route answers with, and success.
Outcome == {"none", "ok", "unauthorized", "invalid", "forbidden", "missing", "error"}

Request ==
    [pc     : {"idle", "find", "refetch", "save", "delete", "count", "page", "submit", "answered"},
     kind   : Kind,
     caller : Caller,
     job    : Job \cup {NoJob},               \* the id in the path, or the generated one
     whose  : Caller \cup {"all"},            \* of a list
     doc    : Doc,                            \* the entity read or created
     wrote  : BOOLEAN,                        \* history: a command changed the collection
     seen   : SUBSET Job,                     \* jobs the answer shows
     answer : Outcome]

Fresh(k, u, j) ==
    [pc |-> "idle", kind |-> k, caller |-> u, job |-> j, whose |-> u, doc |-> NoDoc,
     wrote |-> FALSE, seen |-> {}, answer |-> "none"]

\* What a schema says of a body or of parameters.
Verdict == {"accepted", "rejected"}

Idle == Fresh("get", "anonymous", NoJob)

Init ==
    /\ enabled \in BOOLEAN
    /\ phase = "connecting"
    /\ attempts = 0
    /\ client = "none"
    /\ failures = 0
    /\ docs = [j \in Job |-> NoDoc]
    /\ owner = [j \in Job |-> "nobody"]
    /\ ai = {}
    /\ thread = [t \in Thread |-> Idle]

Process == <<enabled, phase, attempts, client>>

-----------------------------------------------------------------------------
(***************************************************************************)
(* Startup and exit                                                        *)
(***************************************************************************)

\* MongoConnectionManager.connect: attempts with a growing delay between them.
ConnectFails ==
    /\ phase = "connecting" /\ attempts < MaxRetries
    /\ attempts' = attempts + 1
    /\ UNCHANGED <<enabled, phase, client, failures, docs, owner, ai, thread>>

Connect ==
    /\ phase = "connecting" /\ attempts < MaxRetries
    /\ client' = "open"
    /\ phase' = "wiring"
    /\ attempts' = 0
    /\ UNCHANGED <<enabled, failures, docs, owner, ai, thread>>

\* connect raises, and with it create_app.
GiveUp ==
    /\ phase = "connecting" /\ attempts = MaxRetries
    /\ phase' = "failed"
    /\ UNCHANGED <<enabled, attempts, client, failures, docs, owner, ai, thread>>

\* Repository, dispatcher and use cases enter the container.
Register ==
    /\ phase = "wiring"
    /\ phase' = "wired"
    /\ UNCHANGED <<enabled, attempts, client, failures, docs, owner, ai, thread>>

\* The blueprints are registered, and the exit handler after them.
Serve ==
    /\ phase = "wired"
    /\ phase' = "serving"
    /\ UNCHANGED <<enabled, attempts, client, failures, docs, owner, ai, thread>>

\* cleanup_mongodb at exit: the client is closed under the running requests.
Exit ==
    /\ phase = "serving"
    /\ phase' = "stopped"
    /\ client' = "closed"
    /\ UNCHANGED <<enabled, attempts, failures, docs, owner, ai, thread>>

-----------------------------------------------------------------------------
(***************************************************************************)
(* Admission                                                               *)
(***************************************************************************)

At(t, pc) == thread[t].pc = pc

Goto(t, pc) == thread' = [thread EXCEPT ![t].pc = pc]

Answered(r, a) ==
    [r EXCEPT !.pc = "answered", !.answer = a, !.doc = NoDoc, !.whose = r.caller]

Answer(t, a) == thread' = [thread EXCEPT ![t] = Answered(@, a)]

AnswerWith(t, jobs) == thread' = [thread EXCEPT ![t] = [Answered(@, "ok") EXCEPT !.seen = jobs]]

\* _jwt_before_request and require_auth.  Whether JWT_AUTH_REQUIRED is set makes
\* no difference here: require_auth refuses what the hook lets pass.
Admitted(token) == enabled => token \in User

Identity(token) == IF enabled /\ token \in User THEN token ELSE "anonymous"

IsAdmin(u) == u \in Admin

\* _assert_owner_or_admin, and the same check in the use cases.
May(u, o) == IsAdmin(u) \/ u = o

\* Seeded fault: the filter of the query is taken as it is.
AsAsked(u, asked) == asked

\* The users whose jobs a list is about: a user's own, or what an admin asks for.
Scope(u, asked) == IF IsAdmin(u) THEN asked ELSE u

\* A route's decorators refuse: 401, or 400 for a body or parameters its schema
\* does not accept.
Refuse(t, token, verdict) ==
    /\ phase = "serving"
    /\ At(t, "idle")
    /\ ~Admitted(token) \/ verdict = "rejected"
    /\ thread' = [thread EXCEPT ![t] =
                    Answered(Fresh("get", Identity(token), NoJob),
                             IF Admitted(token) THEN "invalid" ELSE "unauthorized")]
    /\ UNCHANGED <<Process, failures, docs, owner, ai>>

\* get_job and poll_job_status, for the job in their path.
ArriveToRead(t, token, j) ==
    /\ phase = "serving"
    /\ At(t, "idle")
    /\ Admitted(token)
    /\ thread' = [thread EXCEPT ![t] = [Fresh("get", Identity(token), j) EXCEPT !.pc = "find"]]
    /\ UNCHANGED <<Process, failures, docs, owner, ai>>

\* update_job, delete_job and cancel_job.
ArriveToChange(t, k, token, j) ==
    /\ phase = "serving"
    /\ At(t, "idle")
    /\ Admitted(token)
    /\ thread' = [thread EXCEPT ![t] = [Fresh(k, Identity(token), j) EXCEPT !.pc = "find"]]
    /\ UNCHANGED <<Process, failures, docs, owner, ai>>

\* list_jobs, for everybody's jobs or for those of one user.
ArriveList(t, token, asked) ==
    LET u == Identity(token)
        r == Fresh("list", u, NoJob)
    IN
    /\ phase = "serving"
    /\ At(t, "idle")
    /\ Admitted(token)
    /\ thread' = [thread EXCEPT ![t] =
                    IF ~IsAdmin(u) /\ asked \notin {"all", u}
                    THEN Answered(r, "forbidden")
                    ELSE [r EXCEPT !.pc = "count", !.whose = Scope(u, asked)]]
    /\ UNCHANGED <<Process, failures, docs, owner, ai>>

\* An id nobody has generated yet.
New(j) == owner[j] = "nobody" /\ j \notin ai

\* create_job: Job.create generates the id.
ArriveCreate(t, token, j) ==
    LET u == Identity(token) IN
    /\ phase = "serving"
    /\ At(t, "idle")
    /\ New(j)
    /\ Admitted(token)
    /\ owner' = [owner EXCEPT ![j] = u]
    /\ thread' = [thread EXCEPT ![t] =
                    [Fresh("create", u, j) EXCEPT
                        !.pc = "save", !.doc = [status |-> "pending", owner |-> u]]]
    /\ UNCHANGED <<Process, failures, docs, ai>>

\* The AI routes have no guard of their own: the hook refuses a bad token, and
\* a missing one when JWT_AUTH_REQUIRED is set, which Refuse covers.  Without
\* one they serve anybody.
Public(token) == enabled => token # "refused"

\* Their request schemas reject an unknown field, a blank or missing input, a
\* parameter out of its range or one that contradicts another: 400, and no job.
RefuseToProcess(t, token) ==
    /\ phase = "serving"
    /\ At(t, "idle")
    /\ Public(token)
    /\ thread' = [thread EXCEPT ![t] =
                    Answered(Fresh("process", Identity(token), NoJob), "invalid")]
    /\ UNCHANGED <<Process, failures, docs, owner, ai>>

ArriveToProcess(t, token) ==
    /\ phase = "serving"
    /\ At(t, "idle")
    /\ Public(token)
    /\ thread' = [thread EXCEPT ![t] =
                    [Fresh("process", Identity(token), NoJob) EXCEPT !.pc = "submit"]]
    /\ UNCHANGED <<Process, failures, docs, owner, ai>>

\* GET /health/ready, whose checks of MongoDB, Redis and RabbitMQ are
\* placeholders: it says ready at once.
Probe(t) ==
    /\ phase = "serving"
    /\ At(t, "idle")
    /\ thread' = [thread EXCEPT ![t] = Answered(Fresh("probe", "anonymous", NoJob), "ok")]
    /\ UNCHANGED <<Process, failures, docs, owner, ai>>

-----------------------------------------------------------------------------
(***************************************************************************)
(* Commands of the repository                                              *)
(***************************************************************************)

Present(j) == docs[j].status # "none"

Works == client = "open"

\* _find_by_id, then what each route makes of the document.
FindJob(t) ==
    LET r == thread[t]
        d == docs[r.job]
    IN
    /\ At(t, "find") /\ Works
    /\ CASE d.status = "none" -> Answer(t, "missing")
         [] Present(r.job) /\ ~May(r.caller, d.owner) -> Answer(t, "forbidden")
         [] OTHER ->
              \/ r.kind = "get" /\ AnswerWith(t, {r.job})
              \/ r.kind = "update" /\ Goto(t, "refetch")
              \/ r.kind = "delete" /\ Goto(t, "delete")
              \/ /\ r.kind = "cancel"
                 /\ IF d.status = "pending"
                    THEN thread' = [thread EXCEPT ![t].pc = "save",
                                                  ![t].doc = [d EXCEPT !.status = "cancelled"]]
                    ELSE Answer(t, "invalid")
    /\ UNCHANGED <<Process, failures, docs, owner, ai>>

\* UpdateJobUseCase reads the job again, and does not ask again whose it is.
RefetchJob(t) ==
    LET j == thread[t].job IN
    /\ At(t, "refetch") /\ Works
    /\ IF Present(j)
       THEN thread' = [thread EXCEPT ![t].pc = "save", ![t].doc = docs[j]]
       ELSE Answer(t, "missing")
    /\ UNCHANGED <<Process, failures, docs, owner, ai>>

\* Seeded fault: the stored document has lost its owner.
PutOwn(t) == [docs EXCEPT ![thread[t].job] = [thread[t].doc EXCEPT !.owner = "nobody"]]

\* replace_one with upsert.
Put(t) == [docs EXCEPT ![thread[t].job] = thread[t].doc]

Removed(t) == [docs EXCEPT ![thread[t].job] = NoDoc]

SaveJob(t) ==
    LET r == thread[t] IN
    /\ At(t, "save") /\ Works
    /\ docs' = Put(t)
    /\ thread' = [thread EXCEPT ![t] =
                    [Answered(r, "ok") EXCEPT !.wrote = TRUE, !.seen = {r.job}]]
    /\ UNCHANGED <<Process, failures, owner, ai>>

\* Seeded fault: the job was found, so the answer says deleted.
AsFound(t) == TRUE

\* deleted_count > 0: of two deletions at once, the second finds nothing.
Deleted(t) == Present(thread[t].job)

DeleteJob(t) ==
    LET r == thread[t] IN
    /\ At(t, "delete") /\ Works
    /\ docs' = Removed(t)
    /\ thread' = [thread EXCEPT ![t] =
                    [Answered(r, IF Deleted(t) THEN "ok" ELSE "missing") EXCEPT
                        !.wrote = Present(r.job)]]
    /\ UNCHANGED <<Process, failures, owner, ai>>

\* _find_paginated: the total and the page are two commands.
CountJobs(t) ==
    /\ At(t, "count") /\ Works
    /\ Goto(t, "page")
    /\ UNCHANGED <<Process, failures, docs, owner, ai>>

\* The filter of the query.
Selected(whose) == {j \in Job : Present(j) /\ whose \in {"all", docs[j].owner}}

FindPage(t) ==
    /\ At(t, "page") /\ Works
    /\ AnswerWith(t, Selected(thread[t].whose))
    /\ UNCHANGED <<Process, failures, docs, owner, ai>>

\* submit_job_sync: the engine generates an id, inserts the job as pending and
\* hands it to its pool; the answer names a URL of the jobs API to poll.
SubmitJob(t, j) ==
    /\ At(t, "submit") /\ Works
    /\ New(j)
    /\ ai' = ai \cup {j}
    /\ thread' = [thread EXCEPT ![t] = [Answered(@, "ok") EXCEPT !.job = j]]
    /\ UNCHANGED <<Process, failures, docs, owner>>

\* The response is sent and the thread free.
Send(t) ==
    /\ At(t, "answered")
    /\ thread' = [thread EXCEPT ![t] = Idle]
    /\ UNCHANGED <<Process, failures, docs, owner, ai>>

\* A command fails with a PyMongoError, which the route answers with 500: on a
\* closed client always, and else when MongoDB does not answer, in which case a
\* write may have been applied.
CommandFails(t) ==
    LET r == thread[t] IN
    /\ r.pc \notin {"idle", "answered"}
    /\ \/ Works /\ failures < MaxFailures /\ failures' = failures + 1
       \/ ~Works /\ UNCHANGED failures
    /\ \/ /\ Answer(t, "error")
          /\ UNCHANGED <<docs, ai>>
       \/ /\ Works /\ r.pc = "submit"
          /\ \E j \in Job : New(j) /\ ai' = ai \cup {j}
          /\ Answer(t, "error")
          /\ UNCHANGED docs
       \/ /\ Works /\ r.pc \in {"save", "delete"}
          /\ docs' = IF r.pc = "save" THEN Put(t) ELSE Removed(t)
          /\ thread' = [thread EXCEPT ![t] = [Answered(r, "error") EXCEPT !.wrote = docs' # docs]]
          /\ UNCHANGED ai
    /\ UNCHANGED <<Process, owner>>

\* external: the worker's update_one, which never inserts.
WorkerFinishes(j) ==
    /\ Present(j) /\ docs[j].status # "completed"
    /\ docs' = [docs EXCEPT ![j].status = "completed"]
    /\ UNCHANGED <<Process, failures, owner, ai, thread>>

-----------------------------------------------------------------------------

Next ==
    \/ ConnectFails \/ Connect \/ GiveUp \/ Register \/ Serve \/ Exit
    \/ \E t \in Thread :
          \/ \E token \in Token :
                \/ \E verdict \in Verdict : Refuse(t, token, verdict)
                \/ \E j \in Job : ArriveToRead(t, token, j) \/ ArriveCreate(t, token, j)
                \/ \E k \in Writes \ {"create"}, j \in Job : ArriveToChange(t, k, token, j)
                \/ RefuseToProcess(t, token) \/ ArriveToProcess(t, token)
                \/ \E asked \in Caller \cup {"all"} : ArriveList(t, token, asked)
          \/ FindJob(t) \/ RefetchJob(t) \/ SaveJob(t) \/ DeleteJob(t)
          \/ Probe(t) \/ \E j \in Job : SubmitJob(t, j)
          \/ CountJobs(t) \/ FindPage(t) \/ CommandFails(t) \/ Send(t)
    \/ \E j \in Job : WorkerFinishes(j)

Spec == Init /\ [][Next]_vars

-----------------------------------------------------------------------------

TypeOK ==
    /\ enabled \in BOOLEAN
    /\ phase \in {"connecting", "wiring", "wired", "serving", "failed", "stopped"}
    /\ attempts \in 0..MaxRetries
    /\ client \in {"none", "open", "closed"}
    /\ failures \in 0..MaxFailures
    /\ docs \in [Job -> Doc]
    /\ owner \in [Job -> Caller \cup {"nobody"}]
    /\ ai \subseteq Job
    /\ thread \in [Thread -> Request]
    /\ \A j \in Job : Present(j) => docs[j].owner = owner[j]

\* Whatever deletions, stale writes and resurrections lie between the check and
\* the command, a request only shows and only changes jobs its caller created,
\* unless the caller is an admin.
OwnersOnly ==
    \A t \in Thread : LET r == thread[t] IN
        \A j \in r.seen \cup (IF r.wrote THEN {r.job} ELSE {}) :
            r.caller \in Admin \/ r.caller = owner[j]

\* A route that answers success to a write has changed the collection, and one
\* that refuses has not; only after a 500 the client cannot know.
AnswersAreTrue ==
    \A t \in Thread : LET r == thread[t] IN
        /\ r.answer = "ok" /\ r.kind \in Writes => r.wrote
        /\ r.answer \in {"unauthorized", "invalid", "forbidden", "missing"} => ~r.wrote

\* The documentation of the AI routes: "Job status and results are retrieved via
\* the standard jobs endpoint".  It is not so: that endpoint reads another
\* collection.
PollUrlIsServed ==
    \A t \in Thread :
        thread[t].kind = "get" /\ thread[t].answer = "missing" => thread[t].job \notin ai
=============================================================================

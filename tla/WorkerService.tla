--------------------------- MODULE WorkerService ---------------------------
(***************************************************************************)
(* The job routes of ai-worker, the JobManager they share, the container   *)
(* that builds it on first use, and AIWorkerClient calling them over HTTP. *)
(*                                                                         *)
(* Flask gives every request a thread, so an action of the server is what  *)
(* one thread does between two accesses to shared objects.  Nothing in     *)
(* this process starts or completes a job: jobs are pending, then          *)
(* cancelled, then swept.  An attempt of the client may be given up (read  *)
(* timeout, lost connection) while the server still works on it.           *)
(***************************************************************************)
EXTENDS Naturals, FiniteSets, Sequences

CONSTANTS
    Client,
    NoClient,
    Reader,       \* bound: clients that ask for details, lists and statistics
    Slot,         \* bound: requests being served at once
    MaxJobs,      \* bound: job ids issued
    MaxManagers,  \* bound: managers built
    MaxCalls,     \* bound: calls of a client after its submission
    Retries,      \* attempts after the first; 3 in the code
    Timeout,      \* polls before poll_until_complete gives up
    MaxGivenUp    \* bound: attempts given up by a client

ASSUME WorkerServiceAssumption ==
    /\ NoClient \notin Client /\ Reader \subseteq Client
    /\ MaxJobs \in Nat \ {0} /\ MaxManagers \in Nat \ {0}
    /\ MaxCalls \in Nat /\ Retries \in Nat /\ Timeout \in Nat /\ MaxGivenUp \in Nat

VARIABLES
    built,       \* managers built so far
    registered,  \* the container's singleton; 0 before the first request ends resolving
    jobs,        \* [manager -> [job id -> status]]
    issued,      \* job ids issued so far
    old,         \* jobs that were cancelled longer than the retention ago
    due,         \* [manager -> BOOLEAN]: the cleanup interval has passed
    slot,        \* [Slot -> Handler]: requests being served
    client,      \* [Client -> ClientState]
    made,        \* history: [Client -> set of jobs]: created for its submission
    troubles,    \* history: [Client -> Nat]: given-up and 500 attempts of its submission
    givenUp

vars == <<built, registered, jobs, issued, old, due, slot, client, made, troubles, givenUp>>

JobId == 1..MaxJobs
Manager == 1..MaxManagers
Op == {"submit", "status", "cancel", "details", "list", "stats"}
Answers == {"none", "accepted", "pending", "cancelled", "conflict", "missing", "error"}
           \cup {"listed", "counted"}

Handler ==
    [pc      : {"free", "resolve", "build", "register", "handle", "due", "iterate"}
               \cup {"delete", "write", "count", "counting", "answer"},
     op      : Op,
     client  : Client \cup {NoClient},
     waiting : BOOLEAN,
     job     : 0..MaxJobs,
     manager : 0..MaxManagers,
     walked  : SUBSET JobId,  \* stored when a pass over the dictionary began
     delete  : SUBSET JobId,
     turn    : 1..3,          \* the status being counted
     there   : SUBSET JobId,  \* history: stored when a list or a count began
     seen    : SUBSET JobId,  \* listed, or counted under one status at least
     answer  : Answers]

Free == [pc |-> "free", op |-> "submit", client |-> NoClient, waiting |-> FALSE, job |-> 0,
         manager |-> 0, walked |-> {}, delete |-> {}, turn |-> 1, there |-> {}, seen |-> {},
         answer |-> "none"]

\* What a client calls once its submission was accepted.
Reads == {"details", "list", "stats"}
CallOps == {"poll", "cancel"} \cup Reads

\* pc: what call the client is in, and whether its attempt is out.
ClientState ==
    [pc      : {"new", "rest", "ready", "waiting"},
     op      : {"submit"} \cup CallOps,
     job     : 0..MaxJobs,
     tries   : 0..Retries,
     elapsed : 0..Timeout + 1,
     calls   : 0..MaxCalls,
     outcome : {"none", "returned", "raised"}]

NewClient == [pc |-> "new", op |-> "submit", job |-> 0, tries |-> 0, elapsed |-> 0,
              calls |-> 0, outcome |-> "none"]

AnyOf(S) == CHOOSE x \in S : TRUE

\* The process starts cold, or has served requests and kept a cancelled job,
\* whose owner may be one of the clients, which are alike.
Init ==
    /\ built \in {0, 1}
    /\ registered = built
    /\ issued = built
    /\ jobs = [m \in Manager |-> [j \in JobId |->
                 IF m <= built /\ j <= issued THEN "cancelled" ELSE "none"]]
    /\ old = {}
    /\ due = [m \in Manager |-> FALSE]
    /\ slot = [s \in Slot |-> Free]
    /\ \E owners \in IF built = 1 THEN {{}, {AnyOf(Client)}} ELSE {{}} :
          /\ client = [c \in Client |-> IF c \in owners
                         THEN [NewClient EXCEPT !.pc = "rest", !.job = 1, !.outcome = "returned"]
                         ELSE NewClient]
          /\ made = [c \in Client |-> IF c \in owners THEN {1} ELSE {}]
    /\ troubles = [c \in Client |-> 0]
    /\ givenUp = 0

Stored(m) == {j \in JobId : jobs[m][j] # "none"}

Store == <<built, registered, jobs, issued, old, due>>
History == <<made, troubles, givenUp>>

Goto(s, pc) == slot' = [slot EXCEPT ![s].pc = pc]

Respond(s, a) == slot' = [slot EXCEPT ![s].pc = "answer", ![s].answer = a]

-----------------------------------------------------------------------------
(***************************************************************************)
(* ServiceContainer.resolve                                                *)
(***************************************************************************)

Look(s) ==
    /\ slot[s].pc = "resolve"
    /\ IF registered # 0
       THEN slot' = [slot EXCEPT ![s].pc = "handle", ![s].manager = registered]
       ELSE Goto(s, "build")
    /\ UNCHANGED <<Store, client, History>>

BuildManager(s) ==
    /\ slot[s].pc = "build"
    /\ built < MaxManagers
    /\ built' = built + 1
    /\ slot' = [slot EXCEPT ![s].pc = "register", ![s].manager = built + 1]
    /\ UNCHANGED <<registered, jobs, issued, old, due, client, History>>

\* The singleton is stored without a second look; the thread keeps its own.
Register(s) ==
    /\ slot[s].pc = "register"
    /\ registered' = slot[s].manager
    /\ Goto(s, "handle")
    /\ UNCHANGED <<built, jobs, issued, old, due, client, History>>

-----------------------------------------------------------------------------
(***************************************************************************)
(* POST /jobs: create_job with its sweep                                   *)
(***************************************************************************)

CreateJob(s) ==
    LET j == issued + 1
        m == slot[s].manager
    IN
    /\ slot[s].pc = "handle" /\ slot[s].op = "submit"
    /\ issued < MaxJobs
    /\ issued' = j
    /\ jobs' = [jobs EXCEPT ![m][j] = "pending"]
    /\ made' = [made EXCEPT ![slot[s].client] = @ \cup {j}]
    /\ slot' = [slot EXCEPT ![s].pc = "due", ![s].job = j]
    /\ UNCHANGED <<built, registered, old, due, client, troubles, givenUp>>

\* _cleanup_if_needed; cleanup_old_jobs starts to go through the dictionary.
CleanupIfNeeded(s) ==
    LET m == slot[s].manager IN
    /\ slot[s].pc = "due"
    /\ IF due[m]
       THEN slot' = [slot EXCEPT ![s].pc = "iterate", ![s].walked = Stored(m)]
       ELSE Respond(s, "accepted")
    /\ UNCHANGED <<Store, client, History>>

Expired(m) == {j \in old : jobs[m][j] = "cancelled"}

\* A step of a pass raises if the dictionary has another size than at its
\* beginning.  An insertion and a deletion that cancel out may go unnoticed.
Interrupted(s) == Stored(slot[s].manager) # slot[s].walked

WalkedThrough(s) == Cardinality(Stored(slot[s].manager)) = Cardinality(slot[s].walked)

\* The end of the loop: it was interrupted, or the jobs to delete are known, of
\* which another sweep may have deleted some.
CollectExpired(s) ==
    /\ slot[s].pc = "iterate"
    /\ \/ Interrupted(s) /\ Respond(s, "error")
       \/ /\ WalkedThrough(s)
          /\ \E found \in SUBSET (slot[s].walked \cap old) :
                /\ Expired(slot[s].manager) \subseteq found
                /\ slot' = [slot EXCEPT ![s].pc = "delete", ![s].delete = found]
    /\ UNCHANGED <<Store, client, History>>

\* `del` of one job, which raises if another sweep was faster; after the last
\* one last_cleanup is set.
DeleteExpired(s) ==
    LET m == slot[s].manager
        left == slot[s].delete
        j == CHOOSE k \in left : \A l \in left : k <= l
    IN
    /\ slot[s].pc = "delete"
    /\ IF left = {}
       THEN /\ due' = [due EXCEPT ![m] = FALSE]
            /\ Respond(s, "accepted")
            /\ UNCHANGED jobs
       ELSE /\ UNCHANGED due
            /\ IF jobs[m][j] = "none"
               THEN /\ Respond(s, "error")
                    /\ UNCHANGED jobs
               ELSE /\ jobs' = [jobs EXCEPT ![m][j] = "none"]
                    /\ slot' = [slot EXCEPT ![s].delete = left \ {j}]
    /\ UNCHANGED <<built, registered, issued, old, client, History>>

-----------------------------------------------------------------------------
(***************************************************************************)
(* GET /jobs/<id>/status and POST /jobs/<id>/cancel                        *)
(***************************************************************************)

ReadStatus(s) ==
    LET status == jobs[slot[s].manager][slot[s].job] IN
    /\ slot[s].pc = "handle" /\ slot[s].op = "status"
    /\ Respond(s, IF status = "none" THEN "missing" ELSE status)
    /\ UNCHANGED <<Store, client, History>>

CheckCancel(s) ==
    LET status == jobs[slot[s].manager][slot[s].job] IN
    /\ slot[s].pc = "handle" /\ slot[s].op = "cancel"
    /\ CASE status = "none"      -> Respond(s, "missing")
         [] status = "cancelled" -> Respond(s, "conflict")
         [] OTHER                -> Goto(s, "write")
    /\ UNCHANGED <<Store, client, History>>

\* Seeded fault: a status outside JobStatus is stored.
WriteAborted(s) ==
    /\ slot[s].pc = "write"
    /\ jobs' = [jobs EXCEPT ![slot[s].manager][slot[s].job] = "aborted"]
    /\ Respond(s, "cancelled")
    /\ UNCHANGED <<built, registered, issued, old, due, client, History>>

\* Another cancellation may have come in between; both succeed.
WriteCancelled(s) ==
    /\ slot[s].pc = "write"
    /\ jobs' = [jobs EXCEPT ![slot[s].manager][slot[s].job] = "cancelled"]
    /\ Respond(s, "cancelled")
    /\ UNCHANGED <<built, registered, issued, old, due, client, History>>

-----------------------------------------------------------------------------
(***************************************************************************)
(* GET /jobs/<id>, GET /jobs, GET /jobs/stats                              *)
(***************************************************************************)

ReadDetails(s) ==
    LET status == jobs[slot[s].manager][slot[s].job] IN
    /\ slot[s].pc = "handle" /\ slot[s].op = "details"
    /\ Respond(s, IF status = "none" THEN "missing" ELSE status)
    /\ UNCHANGED <<Store, client, History>>

\* list_jobs without a filter, of no more jobs than its limit: a copy of the
\* values, taken at once.
Listed(m) == Stored(m)

ListJobs(s) ==
    LET m == slot[s].manager IN
    /\ slot[s].pc = "handle" /\ slot[s].op = "list"
    /\ slot' = [slot EXCEPT ![s].pc = "answer", ![s].answer = "listed",
                            ![s].there = Stored(m), ![s].seen = Listed(m)]
    /\ UNCHANGED <<Store, client, History>>

\* get_statistics: the total first.
GetStatistics(s) ==
    /\ slot[s].pc = "handle" /\ slot[s].op = "stats"
    /\ slot' = [slot EXCEPT ![s].pc = "count", ![s].there = Stored(slot[s].manager)]
    /\ UNCHANGED <<Store, client, History>>

\* Seeded fault: the terminal status is counted first.
Backwards(turn) == <<"cancelled", "pending">>[turn]

\* The order of JobStatus; no job is ever in one of the other three.
Counted(turn) == <<"pending", "cancelled">>[turn]

\* One pass over the dictionary per status begins ...
BeginCount(s) ==
    LET m == slot[s].manager IN
    /\ slot[s].pc = "count"
    /\ IF slot[s].turn = 3
       THEN Respond(s, "counted")
       ELSE slot' = [slot EXCEPT ![s].pc = "counting", ![s].walked = Stored(m)]
    /\ UNCHANGED <<Store, client, History>>

\* ... and ends, or raises as the sweep does.
EndCount(s) ==
    LET m == slot[s].manager
        of == {j \in JobId : jobs[m][j] = Counted(slot[s].turn)}
    IN
    /\ slot[s].pc = "counting"
    /\ \/ Interrupted(s) /\ Respond(s, "error")
       \/ /\ WalkedThrough(s)
          /\ slot' = [slot EXCEPT ![s].pc = "count", ![s].turn = @ + 1, ![s].seen = @ \cup of]
    /\ UNCHANGED <<Store, client, History>>

-----------------------------------------------------------------------------
\* Time is days here: it passes while nothing is under way.
DaysPass ==
    /\ \A s \in Slot : slot[s].pc = "free"
    /\ \A c \in Client : client[c].pc \in {"new", "rest"}
    /\ old' = old \cup {j \in JobId : \E m \in Manager : jobs[m][j] = "cancelled"}
    /\ old' # old
    /\ due' = [m \in Manager |-> m <= built]
    /\ UNCHANGED <<built, registered, jobs, issued, slot, client, History>>

-----------------------------------------------------------------------------
(***************************************************************************)
(* AIWorkerClient                                                          *)
(***************************************************************************)

Submit(c) ==
    /\ client[c].pc = "new"
    /\ client' = [client EXCEPT ![c].pc = "ready"]
    /\ UNCHANGED <<Store, slot, History>>

\* A client whose submission was accepted polls its job, cancels it, or asks for
\* it, for all jobs, or for the statistics.
Call(c, op) ==
    /\ client[c].pc = "rest"
    /\ client[c].job # 0
    /\ client[c].calls < MaxCalls
    /\ op \in Reads => c \in Reader
    /\ client' = [client EXCEPT ![c].pc = "ready", ![c].op = op, ![c].calls = @ + 1,
                                ![c].outcome = "none"]
    /\ UNCHANGED <<Store, slot, History>>

Ended(c, outcome) ==
    client' = [client EXCEPT ![c].pc = "rest", ![c].tries = 0, ![c].elapsed = 0,
                             ![c].outcome = outcome]

\* Seeded fault: the deadline is not looked at.
NeverLate(c) == FALSE

Late(c) == client[c].op = "poll" /\ client[c].elapsed > Timeout

GiveUpPolling(c) ==
    /\ client[c].pc = "ready"
    /\ Late(c)
    /\ Ended(c, "raised")
    /\ UNCHANGED <<Store, slot, History>>

\* A free thread of the server takes the request; which one makes no difference.
Send(c) ==
    LET free == {s \in Slot : slot[s].pc = "free"} IN
    /\ client[c].pc = "ready"
    /\ ~Late(c)
    /\ free # {}
    /\ slot' = [slot EXCEPT ![AnyOf(free)] = [Free EXCEPT
                  !.pc = "resolve", !.client = c, !.waiting = TRUE, !.job = client[c].job,
                  !.op = IF client[c].op = "poll" THEN "status" ELSE client[c].op]]
    /\ client' = [client EXCEPT ![c].pc = "waiting"]
    /\ UNCHANGED <<Store, History>>

\* The session sends the request again, or the call ends with an error.
RetryOrRaise(c) ==
    IF client[c].tries < Retries
    THEN client' = [client EXCEPT ![c].pc = "ready", ![c].tries = @ + 1]
    ELSE Ended(c, "raised")

Trouble(c) ==
    troubles' = [troubles EXCEPT ![c] = IF client[c].op = "submit" THEN @ + 1 ELSE @]

\* Seeded fault: an accepted submission is sent again too.
Retried(a) == a \in {"error", "accepted"}

Retriable(a) == a = "error"

\* submit_job returns the id of the answer it got.
Submitted(c, j) ==
    client' = [client EXCEPT ![c].pc = "rest", ![c].tries = 0, ![c].job = j,
                             ![c].outcome = "returned"]

\* Not found and pending keep a poll going; its backoff is one tick.
PollAgain(c) ==
    client' = [client EXCEPT ![c].pc = "ready", ![c].tries = 0,
                             ![c].elapsed = IF @ > Timeout THEN @ ELSE @ + 1]

\* poll_until_complete: no job completes here, and a cancelled one raises.
Polled(c, a) == IF a \in {"pending", "missing"} THEN PollAgain(c) ELSE Ended(c, "raised")

\* cancel_job raises for 404 and 409.
Cancelled(c, a) == Ended(c, IF a = "cancelled" THEN "returned" ELSE "raised")

\* get_job_details raises for 404.
Detailed(c, a) == Ended(c, IF a = "missing" THEN "raised" ELSE "returned")

\* list_jobs builds a JobResult from each dictionary, whose "id" is not one of
\* its fields: any job in the list raises.
ListReceived(c, shown) == Ended(c, IF shown = {} THEN "returned" ELSE "raised")

\* get_queue_stats
StatsReceived(c) == Ended(c, "returned")

Receive(s) ==
    LET c == slot[s].client
        a == slot[s].answer
    IN
    /\ slot[s].pc = "answer"
    /\ slot' = [slot EXCEPT ![s] = Free]
    /\ IF slot[s].waiting /\ a = "error" THEN Trouble(c) ELSE UNCHANGED troubles
    /\ IF ~slot[s].waiting THEN UNCHANGED client
       ELSE IF Retriable(a) THEN RetryOrRaise(c)
       ELSE \/ client[c].op = "submit"  /\ Submitted(c, slot[s].job)
            \/ client[c].op = "poll"    /\ Polled(c, a)
            \/ client[c].op = "cancel"  /\ Cancelled(c, a)
            \/ client[c].op = "details" /\ Detailed(c, a)
            \/ client[c].op = "list"    /\ ListReceived(c, slot[s].seen)
            \/ client[c].op = "stats"   /\ StatsReceived(c)
    /\ UNCHANGED <<Store, made, givenUp>>

\* The client stops waiting; the server works on.
GiveUpAttempt(s) ==
    LET c == slot[s].client IN
    /\ slot[s].waiting
    /\ givenUp < MaxGivenUp
    /\ givenUp' = givenUp + 1
    /\ slot' = [slot EXCEPT ![s].waiting = FALSE]
    /\ Trouble(c)
    /\ RetryOrRaise(c)
    /\ UNCHANGED <<Store, made>>

-----------------------------------------------------------------------------

Serve(s) ==
    \/ Look(s) \/ BuildManager(s) \/ Register(s)
    \/ CreateJob(s) \/ CleanupIfNeeded(s) \/ CollectExpired(s) \/ DeleteExpired(s)
    \/ ReadStatus(s) \/ CheckCancel(s) \/ WriteCancelled(s) \/ ReadDetails(s)
    \/ ListJobs(s) \/ GetStatistics(s) \/ BeginCount(s) \/ EndCount(s) \/ Receive(s)

Act(c) == GiveUpPolling(c) \/ Send(c)

Next ==
    \/ \E s \in Slot : Serve(s) \/ GiveUpAttempt(s)
    \/ \E c \in Client : Submit(c) \/ Act(c) \/ \E op \in CallOps : Call(c, op)
    \/ DaysPass

Spec == Init /\ [][Next]_vars

\* The threads of the server and of the clients are scheduled.
FairSpec ==
    /\ Spec
    /\ \A s \in Slot : WF_vars(Serve(s))
    /\ \A c \in Client : WF_vars(Act(c))

-----------------------------------------------------------------------------

TypeOK ==
    /\ built \in 0..MaxManagers
    /\ registered \in 0..built
    /\ jobs \in [Manager -> [JobId -> {"none", "pending", "cancelled"}]]
    /\ issued \in 0..MaxJobs
    /\ old \subseteq 1..issued
    /\ due \in [Manager -> BOOLEAN]
    /\ slot \in [Slot -> Handler]
    /\ client \in [Client -> ClientState]
    /\ made \in [Client -> SUBSET (1..issued)]
    /\ troubles \in [Client -> 0..Retries + 1]
    /\ givenUp \in 0..MaxGivenUp

\* A route answers "not found" for an accepted job only when the job was
\* cancelled longer than the retention ago, whatever sweeps run meanwhile; or
\* when two first requests of a cold process each built a manager, one of which
\* is lost with its jobs.  A list shows, and the statistics count, every job
\* that was there when they began, except for jobs as old: a job cancelled
\* while the statuses are counted one by one may be counted twice but is not
\* overlooked, because JobStatus lists a status after those it follows.
MissingMeansSwept ==
    \A s \in Slot :
        /\ slot[s].answer = "missing" => slot[s].job \in old \/ built > 1
        /\ slot[s].answer \in {"listed", "counted"} => slot[s].there \ slot[s].seen \subseteq old

\* One submission leaves more than one job behind only if the client gave an
\* attempt up or got an error for it: each such attempt accounts for one job at
\* most.  (An error may come from the sweep, after the job was stored.)
DuplicatesNeedTrouble ==
    \A c \in Client :
        /\ Cardinality(made[c]) <= 1 + troubles[c]
        /\ client[c].job # 0 => client[c].job \in made[c]

\* Every call of the client ends: an attempt is answered or given up, and
\* polling stops at its timeout although the job may stay pending for ever.
CallsEnd == \A c \in Client : client[c].pc \in {"ready", "waiting"} ~> client[c].pc = "rest"
=============================================================================

----------------------------- MODULE SyncEngine -----------------------------
(***************************************************************************)
(* The thread-pool engine: a Flask route stores a job and submits it to    *)
(* the pool; a pool thread runs AIJobOrchestrator.process_job.             *)
(*                                                                         *)
(* One action is one call of the repository, the pool or the task.  The    *)
(* pool is a ThreadPoolExecutor (external): a FIFO backlog served by a     *)
(* bounded number of threads, refusing new work once it was shut down and  *)
(* still serving the old.                                                  *)
(***************************************************************************)
EXTENDS AIJob, Naturals, Sequences

CONSTANTS
    Job,                  \* job ids, one per POST request
    PoolThread,           \* the max_workers threads of the pool
    NoJob,
    ShutdownOnTeardown,   \* the application shuts the pool down on teardown_appcontext
    Budget                \* faults: process deaths and failing database calls

ASSUME SyncEngineAssumption ==
    /\ NoJob \notin Job
    /\ ShutdownOnTeardown \in BOOLEAN
    /\ Budget \in [{"death", "call"} -> Nat]

VARIABLES
    jobs,      \* [Job -> AIJobs]: the collection ai_jobs
    request,   \* [Job -> where the POST request of the job is]
    open,      \* the pool accepts work
    backlog,   \* jobs waiting in the pool
    thread,    \* [PoolThread -> Run]
    executed,  \* [Job -> Nat]: how often the task ran
    faults

vars == <<jobs, request, open, backlog, thread, executed, faults>>

Run ==
    [pc  : {"idle", "start", "execute", "finish"},
     job : Job \cup {NoJob},
     doc : AIJobs]

IdleThread == [pc |-> "idle", job |-> NoJob, doc |-> NoAIJob]

Init ==
    /\ jobs = [j \in Job |-> NoAIJob]
    /\ request = [j \in Job |-> "none"]
    /\ open = TRUE
    /\ backlog = <<>>
    /\ thread = [t \in PoolThread |-> IdleThread]
    /\ executed = [j \in Job |-> 0]
    /\ faults = [k \in {"death", "call"} |-> 0]

Fault(k) ==
    /\ faults[k] < Budget[k]
    /\ faults' = [faults EXCEPT ![k] = @ + 1]

Fine == UNCHANGED faults

-----------------------------------------------------------------------------

\* POST /jobs: insert_one.
SubmitJob(j) ==
    /\ request[j] = "none"
    /\ jobs' = [jobs EXCEPT ![j] = NewAIJob]
    /\ request' = [request EXCEPT ![j] = "enqueue"]
    /\ Fine /\ UNCHANGED <<open, backlog, thread, executed>>

\* Seeded fault: the backlog holds one job.
KeepFirst(b, j) == IF b = <<>> THEN <<j>> ELSE b

PutLast(b, j) == Append(b, j)

\* ... worker.enqueue: the pool raises once it is shut down, and the request
\* ends with an error while the job stays stored.
Enqueue(j) ==
    /\ request[j] = "enqueue"
    /\ IF open
       THEN /\ backlog' = PutLast(backlog, j)
            /\ request' = [request EXCEPT ![j] = "accepted"]
       ELSE /\ request' = [request EXCEPT ![j] = "refused"]
            /\ UNCHANGED backlog
    /\ Fine /\ UNCHANGED <<jobs, open, thread, executed>>

\* The application context of a request is torn down.
Teardown(j) ==
    /\ request[j] \in {"accepted", "refused"}
    /\ ShutdownOnTeardown
    /\ open
    /\ open' = FALSE
    /\ Fine /\ UNCHANGED <<jobs, request, backlog, thread, executed>>

-----------------------------------------------------------------------------

\* Seeded fault: the job stays in the backlog.
KeepHead(b) == b

Rest(b) == Tail(b)

\* A thread takes the oldest job and reads it, or the read raises and ends the
\* run.  validate_payload may refuse the payload, and then the job fails.  A
\* job is enqueued once, so the thread never finds it past pending.
TakeJob(t) ==
    LET j == Head(backlog) IN
    /\ thread[t].pc = "idle"
    /\ backlog # <<>>
    /\ backlog' = Rest(backlog)
    /\ \/ /\ jobs[j].status = Pending
          /\ thread' = [thread EXCEPT
                ![t] = [pc |-> "start", job |-> j, doc |-> MarkRunning(jobs[j])]]
          /\ Fine
       \/ /\ CanFail(jobs[j])
          /\ thread' = [thread EXCEPT
                ![t] = [pc |-> "finish", job |-> j, doc |-> FailJob(jobs[j])]]
          /\ Fine
       \/ /\ UNCHANGED thread
          /\ Fault("call")
    /\ UNCHANGED <<jobs, request, open, executed>>

AfterLostStart(d) == FailJob(d)

\* What the thread's repository.update stores.
Stored(t) == [jobs EXCEPT ![thread[t].job] = thread[t].doc]

\* repository.update(RUNNING); when it raises, applied or not, the job fails
\* without having executed.
StartJob(t) ==
    /\ thread[t].pc = "start"
    /\ \/ /\ jobs' = Stored(t)
          /\ thread' = [thread EXCEPT ![t].pc = "execute"]
          /\ Fine
       \/ /\ jobs' \in {jobs, Stored(t)}
          /\ thread' = [thread EXCEPT ![t].pc = "finish", ![t].doc = AfterLostStart(@)]
          /\ Fault("call")
    /\ UNCHANGED <<request, open, backlog, executed>>

ExecuteTask(t) ==
    /\ thread[t].pc = "execute"
    /\ \E r \in TaskResult :
          thread' = [thread EXCEPT ![t].pc = "finish", ![t].doc = AfterTask(@, r)]
    /\ executed' = [executed EXCEPT ![thread[t].job] = @ + 1]
    /\ Fine /\ UNCHANGED <<jobs, request, open, backlog>>

\* The last repository.update; when it raises, the exception ends the run.
FinishJob(t) ==
    /\ thread[t].pc = "finish"
    /\ \/ /\ jobs' = Stored(t)
          /\ Fine
       \/ /\ jobs' \in {jobs, Stored(t)}
          /\ Fault("call")
    /\ thread' = [thread EXCEPT ![t] = IdleThread]
    /\ UNCHANGED <<request, open, backlog, executed>>

\* The process dies and is started again; nothing looks for unfinished jobs.
Restart ==
    /\ Fault("death")
    /\ open' = TRUE
    /\ backlog' = <<>>
    /\ thread' = [t \in PoolThread |-> IdleThread]
    /\ request' = [j \in Job |-> IF request[j] = "enqueue" THEN "refused" ELSE request[j]]
    /\ UNCHANGED <<jobs, executed>>

Next ==
    \/ \E j \in Job : SubmitJob(j) \/ Enqueue(j) \/ Teardown(j)
    \/ \E t \in PoolThread : TakeJob(t) \/ StartJob(t) \/ ExecuteTask(t) \/ FinishJob(t)
    \/ Restart

Spec == Init /\ [][Next]_vars

\* Requests and pool threads go on; teardowns happen; clients, faults and
\* deaths promise nothing.
Fairness ==
    /\ \A j \in Job : WF_vars(Enqueue(j)) /\ WF_vars(Teardown(j))
    /\ \A t \in PoolThread :
          WF_vars(TakeJob(t) \/ StartJob(t) \/ ExecuteTask(t) \/ FinishJob(t))

FairSpec == Spec /\ Fairness

-----------------------------------------------------------------------------

TypeOK ==
    /\ jobs \in [Job -> AIJobs]
    /\ request \in [Job -> {"none", "enqueue", "accepted", "refused"}]
    /\ open \in BOOLEAN
    /\ backlog \in Seq(Job)
    /\ thread \in [PoolThread -> Run]
    /\ \A t \in PoolThread : thread[t].pc # "idle" => thread[t].job \in Job
    /\ executed \in [Job -> Nat]
    /\ faults \in [{"death", "call"} -> Nat]

NoFaults == \A k \in {"death", "call"} : faults[k] = 0

Waits(j) == \E i \in 1 .. Len(backlog) : backlog[i] = j

Runs(j) == \E t \in PoolThread : thread[t].pc # "idle" /\ thread[t].job = j

\* The pool threads never run the task of one job twice, whatever calls fail
\* and whenever the process dies, and what is stored as completed did run.
ExecutedAtMostOnce ==
    \A j \in Job :
        /\ executed[j] <= 1
        /\ jobs[j].status = Completed => executed[j] = 1

\* While nothing fails, an accepted job is waiting, running or finished, and
\* never in two of these places; in particular no job is left running.
AcceptedIsCarried ==
    NoFaults =>
        \A j \in Job : request[j] = "accepted" =>
            /\ Waits(j) \/ Runs(j) \/ Terminal(jobs[j].status)
            /\ ~(Waits(j) /\ Runs(j))
            /\ Waits(j) => jobs[j].status = Pending

\* The stored status moves along the engine's lifecycle, through failing
\* updates and restarts.
Lifecycle == INSTANCE AIJobLifecycle WITH status <- [j \in Job |-> jobs[j].status]
FollowsLifecycle == Lifecycle!Spec

\* A job the pool accepted finishes, shut down or not, unless a call failed or
\* the process died.
AcceptedJobsFinish ==
    \A j \in Job :
        (request[j] = "accepted") ~> (Terminal(jobs[j].status) \/ ~NoFaults)
=============================================================================

---------------------------- MODULE JobPipeline ----------------------------
(***************************************************************************)
(* The path of a job through the platform:                                 *)
(*                                                                         *)
(*   api-service threads  --save-->      collection "jobs"                 *)
(*          |                                ^      ^                      *)
(*       dispatch                   update_one    replace_one (stale)      *)
(*          v                                |      |                      *)
(*   queue ai.default --> Celery worker -----+    update / cancel          *)
(*                            |                                            *)
(*                            +--> queue notifications.default --> log     *)
(*                                                                         *)
(* One action is one call that touches the database, a broker or the       *)
(* workload.  A use case that reads a document and later writes it back is *)
(* two actions, so anything may happen in between.  RabbitMQ and Celery    *)
(* are external: delivery, late acknowledgement, redelivery after a lost   *)
(* worker or connection and the hard time limit follow the task's options. *)
(***************************************************************************)
EXTENDS JobDocument, Naturals

CONSTANTS
    Job,      \* job ids (uuid4: an id is used for one creation only)
    Thread,   \* request threads of api-service
    Worker,   \* Celery worker processes of ai-worker
    NoJob,    \* not a job
    Ops,      \* the use cases clients call besides create
    Budget    \* how many faults of each kind may happen

FaultKind ==
    {"dispatch", "write", "publish", "crash", "connection", "timelimit", "consumer"}

ASSUME PipelineAssumption ==
    /\ NoJob \notin Job
    /\ Ops \subseteq {"update", "cancel", "delete"}
    /\ Budget \in [FaultKind -> Nat]

VARIABLES
    jobs,      \* [Job -> Document]: the collection
    created,   \* ids ever created
    queue,     \* jobs with a ready message in ai.default
    request,   \* [Thread -> Request]: the use case each thread executes
    worker,    \* [Worker -> Execution]: the task each worker executes
    attempts,  \* [Job -> Nat]: deliveries so far
    emitted,   \* events handed to JobEventPublisher
    inbox,     \* events in notifications.default
    logged,    \* events notification-service has sent to its channel
    faults,    \* [FaultKind -> Nat]: faults so far
    disturbed  \* history: the jobs whose record lost step with their execution

vars == <<jobs, created, queue, request, worker, attempts,
          emitted, inbox, logged, faults, disturbed>>

apiVars    == <<created, request>>
brokerVars == <<queue, attempts>>
eventVars  == <<emitted, inbox, logged>>

Request ==
    [pc : {"idle", "dispatch", "save"}, job : Job \cup {NoJob}, doc : Document]

IdleRequest == [pc |-> "idle", job |-> NoJob, doc |-> NoDocument]

\* held: the worker's delivery is unacknowledged, so the broker does not give
\* the message to anybody else.
Execution ==
    [pc      : {"idle", "mark", "run", "publish", "report", "ack"},
     job     : Job \cup {NoJob},
     held    : BOOLEAN,
     attempt : Nat,
     outcome : {"none", "ok", "unsuccessful", "raised"}]

IdleWorker ==
    [pc |-> "idle", job |-> NoJob, held |-> FALSE, attempt |-> 0, outcome |-> "none"]

\* An event names the execution's local JobManager job: <<job, attempt>>
\* stands for that random id, which only the worker process knows.
Event == [kind : {"job.completed", "job.failed"}, id : Job \X Nat]

Init ==
    /\ jobs = [j \in Job |-> NoDocument]
    /\ created = {}
    /\ queue = {}
    /\ request = [t \in Thread |-> IdleRequest]
    /\ worker = [w \in Worker |-> IdleWorker]
    /\ attempts = [j \in Job |-> 0]
    /\ emitted = {}
    /\ inbox = {}
    /\ logged = {}
    /\ faults = [k \in FaultKind |-> 0]
    /\ disturbed = {}

Count(k) ==
    /\ faults[k] < Budget[k]
    /\ faults' = [faults EXCEPT ![k] = @ + 1]

Fault(k) == Count(k) /\ UNCHANGED disturbed

Fine == UNCHANGED <<faults, disturbed>>

DisturbIf(condition, j) ==
    disturbed' = IF condition THEN disturbed \cup {j} ELSE disturbed

-----------------------------------------------------------------------------
(***************************************************************************)
(* api-service                                                             *)
(***************************************************************************)

\* Seeded fault: a save that fails is swallowed.
LoseSave(j) == UNCHANGED <<jobs, created>>

Insert(j) ==
    /\ jobs' = [jobs EXCEPT ![j] = NewJob]
    /\ created' = created \cup {j}

\* CreateJobUseCase up to the save.  A save that raises before it is applied
\* leaves no trace; one that raises after it is DispatchFails.
CreateJob(t, j) ==
    /\ request[t].pc = "idle"
    /\ j \notin created
    /\ Insert(j)
    /\ request' = [request EXCEPT ![t] = [IdleRequest EXCEPT !.pc = "dispatch", !.job = j]]
    /\ Fine /\ UNCHANGED <<brokerVars, eventVars, worker>>

Dispatch(t) ==
    /\ request[t].pc = "dispatch"
    /\ queue' = queue \cup {request[t].job}
    /\ request' = [request EXCEPT ![t] = IdleRequest]
    /\ Fine /\ UNCHANGED <<jobs, created, attempts, eventVars, worker>>

\* The broker is unreachable, loses the message, or the process dies first:
\* the record stays and nothing sends the message again.
DispatchFails(t) ==
    /\ request[t].pc = "dispatch"
    /\ Fault("dispatch")
    /\ request' = [request EXCEPT ![t] = IdleRequest]
    /\ UNCHANGED <<jobs, created, brokerVars, eventVars, worker>>

\* UpdateJobUseCase with a new priority, up to is_valid.  The priority itself
\* is abstracted: what is written back is the document as it was read.
ReadForUpdate(t, j) ==
    /\ "update" \in Ops
    /\ request[t].pc = "idle"
    /\ Exists(jobs[j])
    /\ IsValid(jobs[j])
    /\ request' = [request EXCEPT ![t] = [pc |-> "save", job |-> j, doc |-> jobs[j]]]
    /\ Fine /\ UNCHANGED <<jobs, created, brokerVars, eventVars, worker>>

\* CancelJobUseCase up to job.cancel().
ReadForCancel(t, j) ==
    /\ "cancel" \in Ops
    /\ request[t].pc = "idle"
    /\ jobs[j].status \in {Pending, Running}
    /\ request' = [request EXCEPT ![t] = [pc |-> "save", job |-> j, doc |-> Cancel(jobs[j])]]
    /\ Fine /\ UNCHANGED <<jobs, created, brokerVars, eventVars, worker>>

\* MongoBaseRepository.save: replace_one with upsert.  Whatever it changes, a
\* worker may be about to change, too.
SaveDocument(t) ==
    LET j == request[t].job IN
    /\ request[t].pc = "save"
    /\ jobs' = [jobs EXCEPT ![j] = request[t].doc]
    /\ DisturbIf(request[t].doc # jobs[j], j)
    /\ request' = [request EXCEPT ![t] = IdleRequest]
    /\ UNCHANGED <<created, brokerVars, eventVars, worker, faults>>

SaveFails(t) ==
    /\ request[t].pc = "save"
    /\ Fault("write")
    /\ request' = [request EXCEPT ![t] = IdleRequest]
    /\ UNCHANGED <<jobs, created, brokerVars, eventVars, worker>>

\* DeleteJobUseCase.  The read only checks the owner, which never changes, so
\* read and delete_one are one action.
DeleteJob(j) ==
    /\ "delete" \in Ops
    /\ Exists(jobs[j])
    /\ jobs' = [jobs EXCEPT ![j] = NoDocument]
    /\ Fine /\ UNCHANGED <<apiVars, brokerVars, eventVars, worker>>

-----------------------------------------------------------------------------
(***************************************************************************)
(* ai-worker: the task execute_ai_job                                      *)
(***************************************************************************)

Executes(w, j) == worker[w].pc # "idle" /\ worker[w].job = j

Goto(w, pc) == worker' = [worker EXCEPT ![w].pc = pc]

\* Seeded fault: the delivery leaves the message ready.
Peek(j) == UNCHANGED queue

Take(j) == queue' = queue \ {j}

\* Seeded fault: the job is not marked running.
SkipMark == "run"

FirstStep == "mark"

\* The message is delivered: it stays unacknowledged while the worker holds
\* it.  The task creates and starts a job of its own in a fresh JobManager, and
\* looks neither at the job's status nor for another execution of it.
Receive(w, j) ==
    /\ worker[w].pc = "idle"
    /\ j \in queue
    /\ Take(j)
    /\ attempts' = [attempts EXCEPT ![j] = @ + 1]
    /\ worker' = [worker EXCEPT
          ![w] = [pc |-> FirstStep, job |-> j, held |-> TRUE,
                  attempt |-> attempts[j] + 1, outcome |-> "none"]]
    /\ DisturbIf(IsTerminal(jobs[j].status) \/ \E v \in Worker : Executes(v, j), j)
    /\ UNCHANGED <<jobs, apiVars, eventVars, faults>>

\* Seeded fault: update_one with upsert.
UpsertStatus(j, d) ==
    \/ /\ jobs' = [jobs EXCEPT ![j] = d]
       /\ Fine
    \/ /\ UNCHANGED jobs
       /\ Count("write") /\ DisturbIf(TRUE, j)

\* _update_api_job_status: update_one changes nothing when no document
\* matches, and a failing write is logged and swallowed.
WriteStatus(j, d) ==
    \/ /\ jobs' = [jobs EXCEPT ![j] = IF Exists(@) THEN d ELSE @]
       /\ Fine
    \/ /\ UNCHANGED jobs
       /\ Count("write") /\ DisturbIf(TRUE, j)

\* Seeded fault: a status of another vocabulary.
SetProcessing(d) == [StampStarted(d) EXCEPT !.status = "processing"]

SetRunning(d) == [StampStarted(d) EXCEPT !.status = Running]

\* Seeded fault: the error text is not written.
SetOutcomeNoError(d, o) ==
    IF o = "raised"
    THEN [StampFinished(d) EXCEPT !.status = Failed]
    ELSE [StampFinished(d) EXCEPT !.status = Completed, !.result = o]

\* A $set leaves the fields it does not name as they are: the error of an
\* earlier attempt survives a completion, its result survives a failure.
SetOutcome(d, o) ==
    IF o = "raised"
    THEN [StampFinished(d) EXCEPT !.status = Failed, !.error = TRUE]
    ELSE [StampFinished(d) EXCEPT !.status = Completed, !.result = o]

MarkRunning(w) ==
    LET j == worker[w].job IN
    /\ worker[w].pc = "mark"
    /\ WriteStatus(j, SetRunning(jobs[j]))
    /\ Goto(w, "run")
    /\ UNCHANGED <<apiVars, brokerVars, eventVars>>

\* Seeded fault: the terminal status is written before the event is published.
ReportFirst(o) == "report"

\* Seeded fault: an exception of the workload is not caught.
Uncaught(o) == IF o = "raised" THEN "ack" ELSE "publish"

AfterRun(o) == "publish"

\* runner.run: it raises (the placeholder always does), or returns a dict
\* whose own success flag the task does not look at.
RunWorkload(w) ==
    /\ worker[w].pc = "run"
    /\ \E o \in {"ok", "unsuccessful", "raised"} :
          worker' = [worker EXCEPT ![w].pc = AfterRun(o), ![w].outcome = o]
    /\ Fine /\ UNCHANGED <<jobs, apiVars, brokerVars, eventVars>>

EventOf(x) ==
    [kind |-> IF x.outcome = "raised" THEN "job.failed" ELSE "job.completed",
     id   |-> <<x.job, x.attempt>>]

Outcomes(x) == {EventOf(x)}

\* complete_job or fail_job on the local job, which publishes; an error of
\* the broker is swallowed.
Publish(w) ==
    /\ worker[w].pc = "publish"
    /\ emitted' = emitted \cup Outcomes(worker[w])
    /\ \/ inbox' = inbox \cup Outcomes(worker[w]) /\ Fine
       \/ UNCHANGED inbox /\ Fault("publish")
    /\ Goto(w, "report")
    /\ UNCHANGED <<jobs, apiVars, brokerVars, logged>>

Report(w) ==
    LET j == worker[w].job IN
    /\ worker[w].pc = "report"
    /\ WriteStatus(j, SetOutcome(jobs[j], worker[w].outcome))
    /\ Goto(w, "ack")
    /\ UNCHANGED <<apiVars, brokerVars, eventVars>>

\* Seeded fault: a failed execution is retried.
RetryFailed(x) == queue' = IF x.outcome = "raised" THEN queue \cup {x.job} ELSE queue

Acknowledge(x) == UNCHANGED queue

Ack(w) ==
    /\ worker[w].pc = "ack"
    /\ Acknowledge(worker[w])
    /\ worker' = [worker EXCEPT ![w] = IdleWorker]
    /\ Fine /\ UNCHANGED <<jobs, apiVars, attempts, eventVars>>

\* Seeded fault: the message had been acknowledged on receipt.
DropMessage(x) == UNCHANGED queue

Redeliver(x) == queue' = IF x.held THEN queue \cup {x.job} ELSE queue

\* acks_late and reject_on_worker_lost: the message goes back to the queue.
WorkerLost(w) ==
    /\ worker[w].pc # "idle"
    /\ Fault("crash")
    /\ Redeliver(worker[w])
    /\ worker' = [worker EXCEPT ![w] = IdleWorker]
    /\ UNCHANGED <<jobs, apiVars, attempts, eventVars>>

\* The connection of a busy worker to the broker breaks: the broker takes the
\* unacknowledged message back while the execution goes on, and the
\* acknowledgement sent later is void.
ConnectionLost(w) ==
    /\ worker[w].held
    /\ Fault("connection")
    /\ Redeliver(worker[w])
    /\ worker' = [worker EXCEPT ![w].held = FALSE]
    /\ UNCHANGED <<jobs, apiVars, attempts, eventVars>>

\* task_time_limit: Celery kills the process and acknowledges the message.
HardTimeLimit(w) ==
    /\ worker[w].pc # "idle"
    /\ Fault("timelimit")
    /\ worker' = [worker EXCEPT ![w] = IdleWorker]
    /\ UNCHANGED <<jobs, apiVars, brokerVars, eventVars>>

-----------------------------------------------------------------------------
(***************************************************************************)
(* notification-service: the task consume_event, acknowledged on receipt   *)
(***************************************************************************)

Consume(e) ==
    /\ inbox' = inbox \ {e}
    /\ logged' = logged \cup {e}
    /\ Fine /\ UNCHANGED <<jobs, apiVars, brokerVars, worker, emitted>>

ConsumerLost(e) ==
    /\ Fault("consumer")
    /\ inbox' = inbox \ {e}
    /\ UNCHANGED <<jobs, apiVars, brokerVars, worker, emitted, logged>>

-----------------------------------------------------------------------------

ApiStep(t) ==
    \/ \E j \in Job : CreateJob(t, j) \/ ReadForUpdate(t, j) \/ ReadForCancel(t, j)
    \/ Dispatch(t) \/ DispatchFails(t) \/ SaveDocument(t) \/ SaveFails(t)

WorkerStep(w) ==
    \/ \E j \in Job : Receive(w, j)
    \/ MarkRunning(w) \/ RunWorkload(w) \/ Publish(w) \/ Report(w) \/ Ack(w)
    \/ WorkerLost(w) \/ ConnectionLost(w) \/ HardTimeLimit(w)

Next ==
    \/ \E t \in Thread : ApiStep(t)
    \/ \E j \in Job : DeleteJob(j)
    \/ \E w \in Worker : WorkerStep(w)
    \/ \E e \in inbox : Consume(e) \/ ConsumerLost(e)

Spec == Init /\ [][Next]_vars

(***************************************************************************)
(* Fairness: a request thread finishes the call it is in, a worker process *)
(* that holds a message goes on with it, an idle worker fetches, and the   *)
(* notification worker consumes.  Clients and faults promise nothing.      *)
(***************************************************************************)
Continue(w) ==
    MarkRunning(w) \/ RunWorkload(w) \/ Publish(w) \/ Report(w) \/ Ack(w)

Fairness ==
    /\ \A t \in Thread : WF_vars(Dispatch(t)) /\ WF_vars(SaveDocument(t))
    /\ \A w \in Worker : WF_vars(Continue(w))
    /\ \A j \in Job : SF_vars(\E w \in Worker : Receive(w, j))
    /\ WF_vars(\E e \in inbox : Consume(e))

FairSpec == Spec /\ Fairness

-----------------------------------------------------------------------------
(***************************************************************************)
(* Invariants                                                              *)
(***************************************************************************)

TypeOK ==
    /\ jobs \in [Job -> Document]
    /\ created \subseteq Job
    /\ queue \subseteq Job
    /\ request \in [Thread -> Request]
    /\ \A t \in Thread : request[t].pc # "idle" => request[t].job \in Job
    /\ worker \in [Worker -> Execution]
    /\ \A w \in Worker : worker[w].pc # "idle" => worker[w].job \in Job
    /\ \A w \in Worker : worker[w].held => worker[w].pc # "idle"
    /\ attempts \in [Job -> Nat]
    /\ emitted \subseteq Event
    /\ inbox \subseteq emitted
    /\ logged \subseteq emitted
    /\ faults \in [FaultKind -> Nat]
    /\ disturbed \subseteq Job

Dispatching(j) == \E t \in Thread : request[t].pc = "dispatch" /\ request[t].job = j

HeldBy(w, j) == Executes(w, j) /\ worker[w].held

Announced(j, kind) == \E e \in emitted : e.kind = kind /\ e.id[1] = j

\* A job is handed to the broker only after create_job saved it: whatever is
\* queued or executing was persisted first, so no status write can come
\* before the insert it relies on.
SavedBeforeDispatch ==
    \A j \in Job :
        (j \in queue \/ Dispatching(j) \/ \E w \in Worker : Executes(w, j)) => j \in created

\* One dispatch and a message that is either ready or unacknowledged: two
\* workers never hold the message of one job, a held message is not ready, and
\* unless a broker connection broke nobody else executes a job whose message is
\* held or ready, lost workers and redeliveries included.
SingleExecution ==
    \A j \in Job :
        /\ \A v, w \in Worker : HeldBy(v, j) /\ HeldBy(w, j) => v = w
        /\ \A w \in Worker : HeldBy(w, j) => j \notin queue
        /\ faults["connection"] = 0 => \A w \in Worker : Executes(w, j) => HeldBy(w, j)

\* What part of Job.is_valid survives every interleaving of stale replaces,
\* partial $set writes, redeliveries and lost writes: a terminal document has
\* completed_at, a running one started_at, a failed one an error, a completed
\* one a result.
OutcomeRecorded(d) ==
    /\ IsTerminal(d.status) => d.finished # "no"
    /\ d.status = Running => d.started
    /\ d.status = Failed => d.error
    /\ d.status = Completed => d.result # "none"

RecordsStayCoherent == \A j \in Job : OutcomeRecorded(jobs[j])

\* The terminal status is written after the event was handed to the publisher
\* (the reason _update_api_job_status swallows its errors): whoever reads
\* completed or failed can rely on an announcement having been attempted.
AnnouncedBeforeReported ==
    \A j \in Job :
        /\ jobs[j].status = Completed => Announced(j, "job.completed")
        /\ jobs[j].status = Failed => Announced(j, "job.failed")

\* max_retries=0: a workload runs again only because the message came back
\* from a lost worker or a broken connection.
Losses == faults["crash"] + faults["connection"]

NoRetryWithoutLoss == \A j \in Job : attempts[j] <= 1 + Losses

\* One execution announces one outcome.
OneOutcomePerExecution ==
    \A e, f \in emitted : e.id = f.id => e.kind = f.kind

\* acks_late with reject_on_worker_lost delivers at least once: a created job
\* whose dispatch succeeded is still in the queue, or held by a worker, or
\* its outcome was announced, whatever workers and connections were lost.
\* Only the hard time limit takes a message away.
NoJobLost ==
    (faults["dispatch"] = 0 /\ faults["timelimit"] = 0) =>
        \A j \in created :
            \/ Dispatching(j)
            \/ j \in queue
            \/ \E w \in Worker : HeldBy(w, j)
            \/ \E e \in emitted : e.id[1] = j

(***************************************************************************)
(* Action properties                                                       *)
(***************************************************************************)

SavePending(j) == \E t \in Thread : request[t].pc = "save" /\ request[t].job = j

\* A document appears by creation, or by a use case that had read it before it
\* was deleted; no status write of a worker brings a deleted job back.
OnlySavesInsert ==
    [][\A j \in Job :
          (~Exists(jobs[j]) /\ Exists(jobs'[j])) => (j \notin created \/ SavePending(j))]_vars

\* job_status.py marks COMPLETED and FAILED terminal.  They stay, unless the
\* job is deleted, a use case writes back what it had read before, or a lost
\* worker or connection made the job run again.
OutcomesStay ==
    [][\A j \in Job :
          (jobs[j].status \in {Completed, Failed} /\ jobs'[j].status # jobs[j].status)
              => (~Exists(jobs'[j]) \/ SavePending(j) \/ Losses > 0)]_vars

(***************************************************************************)
(* Liveness (of FairSpec)                                                  *)
(***************************************************************************)

\* Every message is executed to its announcement, in spite of lost workers,
\* unless the time limit killed an execution.
MessagesAreExecuted ==
    \A j \in Job :
        (j \in queue) ~> (faults["timelimit"] > 0 \/ \E e \in emitted : e.id[1] = j)

\* A running job does not stay running: the workload ends, raises, or is run
\* again after a lost worker.  Three things leave it dangling: the hard time
\* limit, a failing status write (the worker swallows the error and
\* acknowledges), and whatever else disturbs the record: a running document
\* written back over the outcome, a second execution that is lost without its
\* message.
RunningJobsFinish ==
    \A j \in Job :
        (jobs[j].status = Running)
            ~> (jobs[j].status # Running \/ faults["timelimit"] > 0 \/ j \in disturbed)

(***************************************************************************)
(* Refinement                                                              *)
(***************************************************************************)

\* What the lifecycle is promised of: a disturbed job counts as deleted.
Promised == [j \in Job |-> IF j \in disturbed THEN Absent ELSE jobs[j].status]

Lifecycle == INSTANCE JobLifecycle WITH status <- Promised

\* The record of a job follows JobStatus.TRANSITIONS until one of three things
\* happens to it: a use case writes back something else than what is stored
\* (any cancellation does, an update does when it is stale), a status write of
\* the worker is lost, or a message comes back after the outcome was reported
\* or while an execution goes on without it.  Deletions, harmless updates,
\* failed dispatches, lost workers and time limits do not break the lifecycle,
\* nor does what disturbs one job break that of another.
FollowsLifecycle == Lifecycle!Spec

(***************************************************************************)
(* What the repository states and the code does not do (see README)        *)
(***************************************************************************)

\* poll_job_status: the worker writes the terminal status into the record, so
\* reading the record is enough.  Once nothing is under way, a job whose
\* execution was announced is terminal.
ReportedOutcomeIsRead ==
    \A j \in created :
        ( /\ \A w \in Worker : worker[w].pc = "idle"
          /\ \A t \in Thread : request[t].pc = "idle"
          /\ \E e \in emitted : e.id[1] = j )
        => IsTerminal(jobs[j].status) \/ ~Exists(jobs[j])
=============================================================================

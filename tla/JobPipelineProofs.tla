------------------------- MODULE JobPipelineProofs -------------------------
(***************************************************************************)
(* Theorems about JobPipeline for every set of jobs, threads and workers,  *)
(* every choice of client operations and every fault budget.               *)
(***************************************************************************)
EXTENDS JobPipeline, TLAPS

(***************************************************************************)
(* Facts about documents.                                                  *)
(***************************************************************************)

\* Every operation on documents yields a document.
LEMMA DocumentOps ==
    ASSUME NEW d \in Document
    PROVE  /\ NoDocument \in Document
           /\ NewJob \in Document
           /\ Cancel(d) \in Document
           /\ SetRunning(d) \in Document
           /\ \A o \in {"none", "ok", "unsuccessful", "raised"} : SetOutcome(d, o) \in Document
BY DEF Document, NoDocument, NewJob, Cancel, SetRunning, SetOutcome, StampStarted,
       StampFinished, Statuses, Pending, Running, Completed, Failed, Cancelled, Absent

(***************************************************************************)
(* Type correctness.                                                       *)
(***************************************************************************)

\* The initial state is well typed.
LEMMA InitTypeOK == Init => TypeOK
BY DocumentOps DEF Init, TypeOK, IdleRequest, IdleWorker, Request, Execution,
   Document, NoDocument, Absent

\* A status write leaves a collection of documents.
LEMMA WriteStatusType ==
    ASSUME TypeOK, NEW j \in Job, NEW d \in Document, WriteStatus(j, d)
    PROVE  /\ jobs' \in [Job -> Document] /\ faults' \in [FaultKind -> Nat]
           /\ disturbed' \subseteq Job
BY DEF TypeOK, WriteStatus, Fine, Count, DisturbIf, FaultKind

\* Counting a fault keeps the counters natural numbers.
LEMMA FaultType ==
    ASSUME faults \in [FaultKind -> Nat], NEW k \in FaultKind, Fault(k)
    PROVE  faults' \in [FaultKind -> Nat] /\ disturbed' = disturbed
BY DEF Fault, Count

\* A step of a request thread keeps every variable well typed.
LEMMA ApiTypeOK ==
    ASSUME TypeOK, NEW t \in Thread, ApiStep(t)
    PROVE  TypeOK'
<1> USE DEF TypeOK
<1>1. IdleRequest \in Request
  BY DocumentOps DEF IdleRequest, Request, Document, NoDocument, Absent
<1>2. ASSUME NEW j \in Job, CreateJob(t, j)
      PROVE  TypeOK'
  <2>1. [IdleRequest EXCEPT !.pc = "dispatch", !.job = j] \in Request
    BY <1>1 DEF Request, IdleRequest
  <2>2. NewJob \in Document
    BY DEF NewJob, NoDocument, Document, Statuses, Pending, Absent
  <2>. QED BY <1>2, <2>1, <2>2 DEF CreateJob, Insert, Fine, brokerVars, eventVars
<1>3. ASSUME NEW j \in Job, ReadForUpdate(t, j)
      PROVE  TypeOK'
  BY <1>3 DEF ReadForUpdate, Fine, brokerVars, eventVars, Request
<1>4. ASSUME NEW j \in Job, ReadForCancel(t, j)
      PROVE  TypeOK'
  <2>1. Cancel(jobs[j]) \in Document
    BY DocumentOps
  <2>. QED BY <1>4, <2>1 DEF ReadForCancel, Fine, brokerVars, eventVars, Request
<1>5. CASE Dispatch(t)
  <2>1. request[t].job \in Job
    BY <1>5 DEF Dispatch
  <2>. QED BY <1>1, <1>5, <2>1 DEF IdleRequest, Dispatch, Fine, eventVars
<1>6. CASE DispatchFails(t)
  BY <1>1, <1>6, FaultType DEF IdleRequest, DispatchFails, brokerVars, eventVars, FaultKind
<1>7. CASE SaveDocument(t)
  BY <1>1, <1>7 DEF IdleRequest, SaveDocument, DisturbIf, brokerVars, eventVars, Request
<1>8. CASE SaveFails(t)
  BY <1>1, <1>8, FaultType DEF IdleRequest, SaveFails, brokerVars, eventVars, FaultKind
<1>. QED BY <1>2, <1>3, <1>4, <1>5, <1>6, <1>7, <1>8 DEF ApiStep

\* A step of a worker keeps every variable well typed.
LEMMA WorkerTypeOK ==
    ASSUME TypeOK, NEW w \in Worker, WorkerStep(w)
    PROVE  TypeOK'
<1> USE DEF TypeOK, apiVars, brokerVars, eventVars
<1>1. IdleWorker \in Execution
  BY DEF IdleWorker, Execution
<1>2. ASSUME NEW j \in Job, Receive(w, j)
      PROVE  TypeOK'
  BY <1>2 DEF Receive, Take, FirstStep, DisturbIf, Execution
<1>3. ASSUME NEW pc \in {"run", "report", "ack"}, worker[w].pc # "idle", Goto(w, pc)
      PROVE  /\ worker' \in [Worker -> Execution]
             /\ \A v \in Worker : worker'[v].pc # "idle" => worker'[v].job \in Job
             /\ \A v \in Worker : worker'[v].held => worker'[v].pc # "idle"
  BY <1>3 DEF Goto, Execution
<1>4. CASE MarkRunning(w)
  <2>1. SetRunning(jobs[worker[w].job]) \in Document
    BY <1>4, DocumentOps DEF MarkRunning
  <2>. QED BY <1>3, <1>4, <2>1, WriteStatusType DEF MarkRunning
<1>5. CASE RunWorkload(w)
  <2>1. PICK o \in {"ok", "unsuccessful", "raised"} :
          worker' = [worker EXCEPT ![w].pc = "publish", ![w].outcome = o]
    BY <1>5 DEF RunWorkload, AfterRun
  <2>2. worker' \in [Worker -> Execution]
    <3>1. [worker[w] EXCEPT !.pc = "publish", !.outcome = o] \in Execution
      BY DEF Execution
    <3>2. worker' = [worker EXCEPT ![w] = [worker[w] EXCEPT !.pc = "publish", !.outcome = o]]
      BY <2>1
    <3>. QED BY <3>1, <3>2
  <2>3. \A v \in Worker : /\ worker'[v].pc # "idle" => worker'[v].job \in Job
                          /\ worker'[v].held => worker'[v].pc # "idle"
    BY <1>5, <2>1 DEF RunWorkload, Execution
  <2>. QED BY <1>5, <2>2, <2>3 DEF RunWorkload, Fine
<1>6. CASE Publish(w)
  <2>1. Outcomes(worker[w]) \subseteq Event
    BY <1>6 DEF Publish, Outcomes, EventOf, Event, Execution
  <2>. QED BY <1>3, <1>6, <2>1, FaultType DEF Publish, Fine, FaultKind
<1>7. CASE Report(w)
  <2>1. PICK o \in {"none", "ok", "unsuccessful", "raised"} : o = worker[w].outcome
    BY DEF Execution
  <2>. QED BY <1>3, <1>7, <2>1, WriteStatusType, DocumentOps DEF Report
<1>8. CASE Ack(w)
  BY <1>1, <1>8 DEF Ack, Acknowledge, Fine, IdleWorker
<1>9. CASE WorkerLost(w)
  BY <1>1, <1>9, FaultType DEF WorkerLost, Redeliver, IdleWorker, FaultKind
<1>10. CASE HardTimeLimit(w)
  BY <1>1, <1>10, FaultType DEF HardTimeLimit, IdleWorker, FaultKind
<1>11. CASE ConnectionLost(w)
  <2>1. [worker[w] EXCEPT !.held = FALSE] \in Execution
    BY DEF Execution
  <2>2. worker[w].job \in Job
    BY <1>11 DEF ConnectionLost
  <2>. QED BY <1>11, <2>1, <2>2, FaultType DEF ConnectionLost, Redeliver, Execution, FaultKind
<1>. QED
  BY <1>2, <1>4, <1>5, <1>6, <1>7, <1>8, <1>9, <1>10, <1>11 DEF WorkerStep

\* Every variable keeps its type: in particular a status write never produces
\* something that is not a document, and whoever is busy is busy with a job.
THEOREM PipelineTypeCorrect == Spec => []TypeOK
<1>1. TypeOK /\ [Next]_vars => TypeOK'
  <2> SUFFICES ASSUME TypeOK, [Next]_vars PROVE TypeOK'
    OBVIOUS
  <2>1. ASSUME NEW j \in Job, DeleteJob(j) PROVE TypeOK'
    <3>1. NoDocument \in Document
      BY DEF NoDocument, Document
    <3>. QED BY <2>1, <3>1 DEF DeleteJob, TypeOK, Fine, apiVars, brokerVars, eventVars
  <2>2. ASSUME NEW e \in inbox, Consume(e) PROVE TypeOK'
    BY <2>2 DEF Consume, TypeOK, Fine, apiVars, brokerVars
  <2>3. ASSUME NEW e \in inbox, ConsumerLost(e) PROVE TypeOK'
    BY <2>3, FaultType DEF ConsumerLost, TypeOK, apiVars, brokerVars, FaultKind
  <2>4. CASE UNCHANGED vars
    BY <2>4 DEF vars, TypeOK
  <2>. QED BY <2>1, <2>2, <2>3, <2>4, ApiTypeOK, WorkerTypeOK DEF Next
<1>. QED BY <1>1, InitTypeOK, PTL DEF Spec

\* Faults are only ever added.
LEMMA FaultCounts ==
    ASSUME TypeOK, NEW k \in FaultKind, Count(k) \/ Fault(k)
    PROVE  /\ faults'[k] = faults[k] + 1
           /\ \A i \in FaultKind : faults'[i] \in Nat /\ faults[i] \in Nat /\ faults'[i] >= faults[i]
           /\ \A i \in FaultKind \ {k} : faults'[i] = faults[i]
BY DEF TypeOK, Fault, Count

\* A status write counts at most one fault, a failed write.
LEMMA WriteStatusFaults ==
    ASSUME TypeOK, NEW j, NEW d, WriteStatus(j, d)
    PROVE  /\ \A k \in FaultKind : faults'[k] \in Nat /\ faults[k] \in Nat /\ faults'[k] >= faults[k]
           /\ \A k \in FaultKind \ {"write"} : faults'[k] = faults[k]
<1>1. faults' = faults \/ Count("write")
  BY DEF WriteStatus, Fine
<1>2. CASE faults' = faults
  BY <1>2 DEF TypeOK
<1>3. CASE Count("write")
  BY <1>3, FaultCounts DEF FaultKind
<1>. QED BY <1>1, <1>2, <1>3

(***************************************************************************)
(* Custody: where the one message of a job is.  A job is being dispatched  *)
(* by one thread, or ready in the queue, or held by one worker, or none of *)
(* these, and it was saved before.                                         *)
(***************************************************************************)

Saved ==
    /\ \A j \in Job : Exists(jobs[j]) => j \in created
    /\ \A t \in Thread : request[t].pc # "idle" => request[t].job \in created
    /\ queue \subseteq created
    /\ \A w \in Worker : worker[w].pc # "idle" => worker[w].job \in created

OneCarrier ==
    /\ \A t, u \in Thread :
          (request[t].pc = "dispatch" /\ request[u].pc = "dispatch"
              /\ request[t].job = request[u].job) => t = u
    /\ \A t \in Thread :
          request[t].pc = "dispatch" =>
              /\ request[t].job \notin queue
              /\ \A w \in Worker : ~Executes(w, request[t].job)
    /\ SingleExecution

Custody == Saved /\ OneCarrier

\* Initially nothing is queued, dispatched or executed.
LEMMA InitCustody == Init => Custody
BY DEF Init, Custody, Saved, OneCarrier, SingleExecution, HeldBy, Executes, Exists, NoDocument,
   IdleRequest, IdleWorker, Absent

\* A step of a request thread hands a message to nobody twice.
LEMMA ApiCustody ==
    ASSUME TypeOK, Custody, NEW t \in Thread, ApiStep(t)
    PROVE  Custody'
<1> USE DEF TypeOK, Custody, Saved, OneCarrier, SingleExecution, HeldBy, Executes, IdleRequest,
            apiVars, brokerVars, eventVars
<1>1. ASSUME NEW j \in Job, CreateJob(t, j) PROVE Custody'
  BY <1>1 DEF CreateJob, Insert, Fine
<1>2. ASSUME NEW j \in Job, ReadForUpdate(t, j) PROVE Custody'
  BY <1>2 DEF ReadForUpdate, Fine
<1>3. ASSUME NEW j \in Job, ReadForCancel(t, j) PROVE Custody'
  BY <1>3 DEF ReadForCancel, Fine, Exists, Absent, Pending, Running
<1>4. CASE Dispatch(t)
  BY <1>4 DEF Dispatch, Fine
<1>5. CASE DispatchFails(t)
  BY <1>5, FaultCounts DEF DispatchFails, FaultKind
<1>6. CASE SaveDocument(t)
  BY <1>6 DEF SaveDocument, Fine
<1>7. CASE SaveFails(t)
  BY <1>7, FaultCounts DEF SaveFails, FaultKind
<1>. QED BY <1>1, <1>2, <1>3, <1>4, <1>5, <1>6, <1>7 DEF ApiStep

\* A status write inserts nothing.
LEMMA WriteStatusInsertsNothing ==
    ASSUME TypeOK, NEW j \in Job, NEW d \in Document, WriteStatus(j, d)
    PROVE  \A i \in Job : Exists(jobs'[i]) => Exists(jobs[i])
BY DEF TypeOK, WriteStatus

\* A step of a worker hands a message to nobody twice.
LEMMA WorkerCustody ==
    ASSUME TypeOK, Custody, NEW w \in Worker, WorkerStep(w)
    PROVE  Custody'
<1> USE DEF TypeOK, Custody, Saved, OneCarrier, SingleExecution, HeldBy, Executes, IdleWorker,
            apiVars, brokerVars, eventVars
<1>1. ASSUME NEW j \in Job, Receive(w, j) PROVE Custody'
  BY <1>1 DEF Receive, Take, FirstStep, Fine
<1>2. ASSUME worker[w].pc # "idle",
             \E pc \in {"run", "report", "ack"} : Goto(w, pc),
             UNCHANGED <<apiVars, brokerVars>>,
             faults'["connection"] = faults["connection"],
             \A i \in Job : Exists(jobs'[i]) => Exists(jobs[i])
      PROVE  Custody'
  BY <1>2 DEF Goto, Execution
<1>3. CASE MarkRunning(w)
  <2>1. SetRunning(jobs[worker[w].job]) \in Document
    BY <1>3, DocumentOps DEF MarkRunning
  <2>2. faults'["connection"] = faults["connection"]
    BY <1>3, WriteStatusFaults DEF MarkRunning, FaultKind
  <2>. QED BY <1>2, <1>3, <2>1, <2>2, WriteStatusInsertsNothing DEF MarkRunning
<1>4. CASE RunWorkload(w)
  BY <1>4 DEF RunWorkload, AfterRun, Fine, Execution
<1>5. CASE Publish(w)
  <2>1. faults'["connection"] = faults["connection"]
    BY <1>5, FaultCounts DEF Publish, Fine, FaultKind
  <2>. QED BY <1>2, <1>5, <2>1 DEF Publish
<1>6. CASE Report(w)
  <2>1. PICK o \in {"none", "ok", "unsuccessful", "raised"} : o = worker[w].outcome
    BY DEF Execution
  <2>2. faults'["connection"] = faults["connection"]
    BY <1>6, WriteStatusFaults DEF Report, FaultKind
  <2>. QED BY <1>2, <1>6, <2>1, <2>2, WriteStatusInsertsNothing, DocumentOps DEF Report
<1>7. CASE Ack(w)
  BY <1>7 DEF Ack, Acknowledge, Fine
<1>8. CASE WorkerLost(w)
  <2>1. faults'["connection"] = faults["connection"]
    BY <1>8, FaultCounts DEF WorkerLost, FaultKind
  <2>. QED BY <1>8, <2>1 DEF WorkerLost, Redeliver
<1>9. CASE ConnectionLost(w)
  <2>1. faults'["connection"] # 0
    BY <1>9, FaultCounts DEF ConnectionLost, FaultKind
  <2>2. /\ \A v \in Worker : v # w => worker'[v] = worker[v]
        /\ worker'[w].pc = worker[w].pc /\ worker'[w].job = worker[w].job
        /\ ~worker'[w].held /\ worker[w].held
        /\ queue' = queue \cup {worker[w].job}
        /\ UNCHANGED <<jobs, created, request>>
    BY <1>9 DEF ConnectionLost, Redeliver, Execution
  <2>. QED BY <2>1, <2>2
<1>10. CASE HardTimeLimit(w)
  <2>1. faults'["connection"] = faults["connection"]
    BY <1>10, FaultCounts DEF HardTimeLimit, FaultKind
  <2>. QED BY <1>10, <2>1 DEF HardTimeLimit
<1>. QED
  BY <1>1, <1>3, <1>4, <1>5, <1>6, <1>7, <1>8, <1>9, <1>10 DEF WorkerStep

\* Custody is an invariant of the pipeline.
LEMMA CustodyInvariant == Spec => []Custody
<1>1. TypeOK /\ Custody /\ [Next]_vars => Custody'
  <2> SUFFICES ASSUME TypeOK, Custody, [Next]_vars PROVE Custody'
    OBVIOUS
  <2> USE DEF Custody, Saved, OneCarrier, SingleExecution, HeldBy, Executes,
              apiVars, brokerVars, eventVars
  <2>1. ASSUME NEW j \in Job, DeleteJob(j) PROVE Custody'
    BY <2>1 DEF DeleteJob, Exists, NoDocument, TypeOK, Fine
  <2>2. ASSUME NEW e \in inbox, Consume(e) \/ ConsumerLost(e) PROVE Custody'
    <3>1. faults'["connection"] = faults["connection"]
      BY <2>2, FaultCounts DEF Consume, ConsumerLost, Fine, FaultKind
    <3>. QED BY <2>2, <3>1 DEF Consume, ConsumerLost
  <2>3. CASE UNCHANGED vars
    BY <2>3 DEF vars
  <2>. QED BY <2>1, <2>2, <2>3, ApiCustody, WorkerCustody DEF Next
<1>. QED BY <1>1, InitCustody, PipelineTypeCorrect, PTL DEF Spec

\* Whatever is queued, dispatched or executed was saved first.
THEOREM PipelineSavedBeforeDispatch == Spec => []SavedBeforeDispatch
<1>1. TypeOK /\ Custody => SavedBeforeDispatch
  BY DEF TypeOK, Custody, Saved, SavedBeforeDispatch, Dispatching, HeldBy, Executes
<1>. QED BY <1>1, CustodyInvariant, PipelineTypeCorrect, PTL

\* The message of a job is ready or with one worker, whatever is redelivered;
\* only a broken connection lets two workers execute the same job.
THEOREM PipelineSingleExecution == Spec => []SingleExecution
<1>1. Custody => SingleExecution
  BY DEF Custody, OneCarrier
<1>. QED BY <1>1, CustodyInvariant, PTL

(***************************************************************************)
(* Delivery: at least once, and again only after a loss.                   *)
(***************************************************************************)

\* The attempts a job may have had, by where its message is.
Retries ==
    /\ \A j \in Job : j \notin created => attempts[j] = 0
    /\ \A t \in Thread : request[t].pc = "dispatch" => attempts[request[t].job] = 0
    /\ \A j \in queue : attempts[j] <= Losses
    /\ NoRetryWithoutLoss

\* An execution past its announcement has announced.
AnnouncedWhenPast ==
    \A w \in Worker :
        worker[w].pc \in {"report", "ack"} => EventOf(worker[w]) \in emitted

Delivery == Retries /\ AnnouncedWhenPast /\ NoJobLost

\* Initially nothing was delivered.
LEMMA InitDelivery == Init => Delivery
BY DEF Init, Delivery, Retries, NoRetryWithoutLoss, Losses, AnnouncedWhenPast, NoJobLost,
   IdleRequest, IdleWorker, FaultKind

\* A step of a request thread loses no job and counts no delivery.
LEMMA ApiDelivery ==
    ASSUME TypeOK, Custody, Delivery, NEW t \in Thread, ApiStep(t)
    PROVE  Delivery'
<1> USE DEF TypeOK, Custody, Saved, OneCarrier, Delivery, Retries, NoRetryWithoutLoss, Losses,
            AnnouncedWhenPast, NoJobLost, Dispatching, HeldBy, Executes, IdleRequest,
            apiVars, brokerVars, eventVars
<1>1. ASSUME NEW j \in Job, CreateJob(t, j) PROVE Delivery'
  BY <1>1 DEF CreateJob, Insert, Fine
<1>2. ASSUME NEW j \in Job, ReadForUpdate(t, j) \/ ReadForCancel(t, j) PROVE Delivery'
  BY <1>2 DEF ReadForUpdate, ReadForCancel, Fine
<1>3. CASE Dispatch(t)
  BY <1>3 DEF Dispatch, Fine, FaultKind
<1>4. CASE DispatchFails(t)
  BY <1>4, FaultCounts DEF DispatchFails, FaultKind
<1>5. CASE SaveDocument(t)
  BY <1>5 DEF SaveDocument, Fine
<1>6. CASE SaveFails(t)
  BY <1>6, FaultCounts DEF SaveFails, FaultKind
<1>. QED BY <1>1, <1>2, <1>3, <1>4, <1>5, <1>6 DEF ApiStep

\* A step of a worker loses no job and counts its deliveries.
LEMMA WorkerDelivery ==
    ASSUME TypeOK, Custody, Delivery, NEW w \in Worker, WorkerStep(w)
    PROVE  Delivery'
<1> USE DEF TypeOK, Custody, Saved, OneCarrier, SingleExecution, Delivery, Retries,
            NoRetryWithoutLoss, Losses, AnnouncedWhenPast, NoJobLost, Dispatching, HeldBy, Executes,
            IdleWorker, apiVars, brokerVars, eventVars
<1>1. ASSUME NEW j \in Job, Receive(w, j) PROVE Delivery'
  BY <1>1 DEF Receive, Take, FirstStep, Fine, FaultKind, EventOf
<1>2. ASSUME NEW j \in Job, NEW d, WriteStatus(j, d)
      PROVE  \A i \in FaultKind : faults'[i] \in Nat /\ faults'[i] >= faults[i]
  BY <1>2, WriteStatusFaults
<1>3. CASE MarkRunning(w)
  BY <1>2, <1>3 DEF MarkRunning, Goto, FaultKind, EventOf, Execution
<1>4. CASE RunWorkload(w)
  <2>1. PICK o \in {"ok", "unsuccessful", "raised"} :
          worker' = [worker EXCEPT ![w].pc = "publish", ![w].outcome = o]
    BY <1>4 DEF RunWorkload, AfterRun
  <2>2. /\ \A v \in Worker : v # w => worker'[v] = worker[v]
        /\ worker'[w].pc = "publish" /\ worker'[w].job = worker[w].job
        /\ worker'[w].held = worker[w].held
    BY <2>1 DEF Execution
  <2>3. AnnouncedWhenPast'
    BY <1>4, <2>2 DEF RunWorkload, EventOf
  <2>4. Retries'
    BY <1>4, <2>2 DEF RunWorkload, Fine
  <2>5. NoJobLost'
    <3>1. UNCHANGED <<faults, created, request, queue, emitted>>
      BY <1>4 DEF RunWorkload, Fine
    <3>2. \A v \in Worker, j \in created : HeldBy(v, j) => HeldBy(v, j)'
      BY <2>2
    <3>3. NoJobLost
      OBVIOUS
    <3> HIDE DEF TypeOK, Custody, Delivery, HeldBy
    <3>. QED BY <3>1, <3>2, <3>3
  <2>. QED BY <2>3, <2>4, <2>5
<1>5. CASE Publish(w)
  <2>1. /\ \A v \in Worker : v # w => worker'[v] = worker[v]
        /\ worker'[w].pc = "report" /\ worker'[w].job = worker[w].job
        /\ worker'[w].held = worker[w].held
        /\ EventOf(worker'[w]) = EventOf(worker[w])
    BY <1>5 DEF Publish, Goto, Execution, EventOf
  <2>2. emitted' = emitted \cup {EventOf(worker[w])}
    BY <1>5 DEF Publish, Outcomes
  <2>3. \A i \in FaultKind : faults'[i] \in Nat /\ faults'[i] >= faults[i]
    BY <1>5, FaultCounts DEF Publish, Fine, FaultKind
  <2>4. Retries'
    BY <1>5, <2>3 DEF Publish, FaultKind
  <2>5. AnnouncedWhenPast'
    <3>1. ASSUME NEW v \in Worker, v # w, worker'[v].pc \in {"report", "ack"}
          PROVE  EventOf(worker'[v]) \in emitted'
      BY <2>1, <2>2, <3>1
    <3>2. EventOf(worker'[w]) \in emitted'
      BY <2>1, <2>2
    <3>. QED BY <3>1, <3>2
  <2>6. NoJobLost'
    BY <1>5, <2>1, <2>2, <2>3 DEF Publish, FaultKind
  <2>. QED BY <2>4, <2>5, <2>6
<1>6. CASE Report(w)
  <2>1. /\ \A v \in Worker : v # w => worker'[v] = worker[v]
        /\ worker[w].pc = "report" /\ worker'[w].pc = "ack"
        /\ worker'[w].job = worker[w].job /\ worker'[w].held = worker[w].held
        /\ EventOf(worker'[w]) = EventOf(worker[w])
    BY <1>6 DEF Report, Goto, Execution, EventOf
  <2>2. UNCHANGED <<created, request, queue, attempts, emitted>>
    BY <1>6 DEF Report
  <2>3. /\ \A i \in FaultKind : faults[i] \in Nat /\ faults'[i] \in Nat
        /\ \A i \in FaultKind \ {"write"} : faults'[i] = faults[i]
    BY <1>6, WriteStatusFaults DEF Report
  <2>4. Retries'
    BY <2>2, <2>3 DEF FaultKind
  <2>5. AnnouncedWhenPast'
    BY <2>1, <2>2
  <2>6. NoJobLost'
    BY <2>1, <2>2, <2>3 DEF FaultKind
  <2>. QED BY <2>4, <2>5, <2>6
<1>7. CASE Ack(w)
  <2>1. EventOf(worker[w]) \in emitted /\ EventOf(worker[w]).id[1] = worker[w].job
    BY <1>7 DEF Ack, EventOf
  <2>2. /\ \A v \in Worker : v # w => worker'[v] = worker[v]
        /\ worker'[w].pc = "idle"
        /\ UNCHANGED <<created, queue, request, attempts, emitted, faults>>
    BY <1>7 DEF Ack, Acknowledge, Fine
  <2>3. Retries' /\ AnnouncedWhenPast'
    BY <2>2
  <2>4. NoJobLost'
    BY <2>1, <2>2
  <2>. QED BY <2>3, <2>4
<1>8. CASE WorkerLost(w)
  BY <1>8, FaultCounts DEF WorkerLost, Redeliver, FaultKind, EventOf
<1>9. CASE HardTimeLimit(w)
  BY <1>9, FaultCounts DEF HardTimeLimit, FaultKind, EventOf
<1>10. CASE ConnectionLost(w)
  <2>1. /\ \A v \in Worker : v # w => worker'[v] = worker[v]
        /\ worker'[w].pc = worker[w].pc /\ worker'[w].job = worker[w].job
        /\ EventOf(worker'[w]) = EventOf(worker[w])
        /\ queue' = queue \cup {worker[w].job}
    BY <1>10 DEF ConnectionLost, Redeliver, Execution, EventOf
  <2>2. faults'["connection"] = faults["connection"] + 1 /\ faults'["crash"] = faults["crash"]
    BY <1>10, FaultCounts DEF ConnectionLost, FaultKind
  <2>3. Retries' /\ AnnouncedWhenPast'
    BY <1>10, <2>1, <2>2 DEF ConnectionLost, FaultKind
  <2>4. NoJobLost'
    BY <1>10, <2>1, FaultCounts DEF ConnectionLost, FaultKind
  <2>. QED BY <2>3, <2>4
<1>. QED
  BY <1>1, <1>3, <1>4, <1>5, <1>6, <1>7, <1>8, <1>9, <1>10 DEF WorkerStep

\* Delivery is an invariant of the pipeline.
LEMMA DeliveryInvariant == Spec => []Delivery
<1>1. TypeOK /\ Custody /\ Delivery /\ [Next]_vars => Delivery'
  <2> SUFFICES ASSUME TypeOK, Custody, Delivery, [Next]_vars PROVE Delivery'
    OBVIOUS
  <2> USE DEF Delivery, Retries, NoRetryWithoutLoss, Losses, AnnouncedWhenPast, NoJobLost,
              Dispatching, HeldBy, Executes, apiVars, brokerVars, eventVars
  <2>1. ASSUME NEW j \in Job, DeleteJob(j) PROVE Delivery'
    BY <2>1 DEF DeleteJob, Fine
  <2>2. ASSUME NEW e \in inbox, Consume(e) PROVE Delivery'
    BY <2>2 DEF Consume, Fine
  <2>3. ASSUME NEW e \in inbox, ConsumerLost(e) PROVE Delivery'
    BY <2>3, FaultCounts DEF ConsumerLost, FaultKind
  <2>4. CASE UNCHANGED vars
    BY <2>4 DEF vars
  <2>. QED BY <2>1, <2>2, <2>3, <2>4, ApiDelivery, WorkerDelivery DEF Next
<1>. QED BY <1>1, InitDelivery, CustodyInvariant, PipelineTypeCorrect, PTL DEF Spec

\* A job is delivered at most once more than workers and connections were lost.
THEOREM PipelineNoRetryWithoutLoss == Spec => []NoRetryWithoutLoss
<1>1. Delivery => NoRetryWithoutLoss
  BY DEF Delivery, Retries
<1>. QED BY <1>1, DeliveryInvariant, PTL

\* A dispatched job is never lost: it waits, runs, or was announced.
THEOREM PipelineNoJobLost == Spec => []NoJobLost
<1>1. Delivery => NoJobLost
  BY DEF Delivery
<1>. QED BY <1>1, DeliveryInvariant, PTL

(***************************************************************************)
(* Records: what a stored document, or one about to be written back, says  *)
(* about the execution.                                                    *)
(***************************************************************************)

\* The events a document with this status relies on.
AnnouncedFor(j, d) ==
    /\ d.status = Completed => Announced(j, "job.completed")
    /\ d.status = Failed => Announced(j, "job.failed")

Backed(j, d) == OutcomeRecorded(d) /\ AnnouncedFor(j, d)

Records ==
    /\ \A j \in Job : Backed(j, jobs[j])
    /\ \A t \in Thread : request[t].pc = "save" => Backed(request[t].job, request[t].doc)
    /\ \A w \in Worker : worker[w].pc \in {"publish", "report"} => worker[w].outcome # "none"

\* Initially there is no document to back.
LEMMA InitRecords == Init => Records
BY DEF Init, Records, Backed, OutcomeRecorded, AnnouncedFor, IsTerminal, IdleRequest, IdleWorker, NoDocument,
   Absent, Pending, Running, Completed, Failed, Cancelled

\* The document operations keep a record backed; only the outcome needs the
\* event to have been published.
LEMMA BackedOps ==
    ASSUME NEW j \in Job, NEW d \in Document, Backed(j, d)
    PROVE  /\ Backed(j, NoDocument)
           /\ Backed(j, NewJob)
           /\ Backed(j, Cancel(d))
           /\ Backed(j, SetRunning(d))
BY DEF Backed, OutcomeRecorded, AnnouncedFor, IsTerminal, Document, NoDocument, NewJob,
       Cancel, SetRunning, StampStarted, StampFinished,
       Statuses, Absent, Pending, Running, Completed, Failed, Cancelled

\* The reported outcome is backed once its event was published.
LEMMA BackedOutcome ==
    ASSUME TypeOK, NEW w \in Worker, NEW d \in Document,
           worker[w].pc = "report", worker[w].outcome # "none",
           EventOf(worker[w]) \in emitted
    PROVE  Backed(worker[w].job, SetOutcome(d, worker[w].outcome))
<1> DEFINE o == worker[w].outcome
           j == worker[w].job
<1>1. o \in {"ok", "unsuccessful", "raised"}
  BY DEF TypeOK, Execution
<1>2. EventOf(worker[w]).id[1] = j
  BY DEF EventOf
<1>3. o = "raised" => Announced(j, "job.failed")
  BY <1>2 DEF Announced, EventOf
<1>4. o # "raised" => Announced(j, "job.completed")
  BY <1>2 DEF Announced, EventOf
<1>5. CASE o = "raised"
  BY <1>3, <1>5 DEF Backed, OutcomeRecorded, AnnouncedFor, IsTerminal, SetOutcome, StampFinished,
     Document, Pending, Running, Completed, Failed, Cancelled
<1>6. CASE o # "raised"
  BY <1>1, <1>4, <1>6 DEF Backed, OutcomeRecorded, AnnouncedFor, IsTerminal, SetOutcome, StampFinished,
     Document, Pending, Running, Completed, Failed, Cancelled
<1>. QED BY <1>5, <1>6

\* Events only accumulate: what is backed before a step is backed after it.
LEMMA RecordsStep ==
    ASSUME emitted \subseteq emitted',
           \A j \in Job : Backed(j, jobs'[j]),
           \A t \in Thread :
               request'[t].pc = "save" => Backed(request'[t].job, request'[t].doc),
           \A w \in Worker :
               worker'[w].pc \in {"publish", "report"} => worker'[w].outcome # "none"
    PROVE  Records'
BY DEF Records, Backed, AnnouncedFor, Announced

\* A status write of a backed document leaves every document backed.
LEMMA BackedWrite ==
    ASSUME TypeOK, Records, NEW j \in Job, NEW d, Backed(j, d), WriteStatus(j, d)
    PROVE  \A i \in Job : Backed(i, jobs'[i])
BY DEF TypeOK, Records, WriteStatus

\* A step of a request thread keeps the records backed.
LEMMA ApiRecords ==
    ASSUME TypeOK, Records, NEW t \in Thread, ApiStep(t)
    PROVE  Records'
<1> USE DEF TypeOK, Records, Request, apiVars, brokerVars, eventVars
<1>1. ASSUME NEW j \in Job, CreateJob(t, j) PROVE Records'
  <2>1. Backed(j, NewJob)
    BY BackedOps
  <2>2. \A i \in Job : Backed(i, jobs'[i])
    BY <1>1, <2>1 DEF CreateJob, Insert
  <2>. QED BY <1>1, <2>2, RecordsStep DEF CreateJob, IdleRequest
<1>2. ASSUME NEW j \in Job, ReadForUpdate(t, j) PROVE Records'
  BY <1>2, RecordsStep DEF ReadForUpdate
<1>3. ASSUME NEW j \in Job, ReadForCancel(t, j) PROVE Records'
  <2>1. Backed(j, Cancel(jobs[j]))
    BY BackedOps
  <2>. QED BY <1>3, <2>1, RecordsStep DEF ReadForCancel
<1>4. CASE Dispatch(t)
  BY <1>4, RecordsStep DEF Dispatch, IdleRequest
<1>5. CASE DispatchFails(t)
  BY <1>5, RecordsStep DEF DispatchFails, IdleRequest
<1>6. CASE SaveDocument(t)
  <2>1. \A i \in Job : Backed(i, jobs'[i])
    BY <1>6 DEF SaveDocument
  <2>. QED BY <1>6, <2>1, RecordsStep DEF SaveDocument, IdleRequest
<1>7. CASE SaveFails(t)
  BY <1>7, RecordsStep DEF SaveFails, IdleRequest
<1>. QED BY <1>1, <1>2, <1>3, <1>4, <1>5, <1>6, <1>7 DEF ApiStep

\* A step of a worker keeps the records backed.
LEMMA WorkerRecords ==
    ASSUME TypeOK, Delivery, Records, NEW w \in Worker, WorkerStep(w)
    PROVE  Records'
<1> USE DEF TypeOK, Records, Execution, Goto, apiVars, brokerVars, eventVars
<1>1. ASSUME NEW j \in Job, Receive(w, j) PROVE Records'
  BY <1>1, RecordsStep DEF Receive, FirstStep
<1>2. CASE MarkRunning(w)
  <2>1. Backed(worker[w].job, SetRunning(jobs[worker[w].job]))
    BY <1>2, BackedOps DEF MarkRunning
  <2>2. \A i \in Job : Backed(i, jobs'[i])
    BY <1>2, <2>1, BackedWrite DEF MarkRunning
  <2>. QED BY <1>2, <2>2, RecordsStep DEF MarkRunning
<1>3. CASE RunWorkload(w)
  BY <1>3, RecordsStep DEF RunWorkload, AfterRun
<1>4. CASE Publish(w)
  BY <1>4, RecordsStep DEF Publish
<1>5. CASE Report(w)
  <2>1. EventOf(worker[w]) \in emitted
    BY <1>5 DEF Report, Delivery, AnnouncedWhenPast
  <2>2. Backed(worker[w].job,
               SetOutcome(jobs[worker[w].job], worker[w].outcome))
    BY <1>5, <2>1, BackedOutcome DEF Report
  <2>3. \A i \in Job : Backed(i, jobs'[i])
    BY <1>5, <2>2, BackedWrite DEF Report
  <2>. QED BY <1>5, <2>3, RecordsStep DEF Report
<1>6. CASE Ack(w)
  BY <1>6, RecordsStep DEF Ack, IdleWorker
<1>7. CASE WorkerLost(w)
  BY <1>7, RecordsStep DEF WorkerLost, IdleWorker
<1>8. CASE HardTimeLimit(w)
  BY <1>8, RecordsStep DEF HardTimeLimit, IdleWorker
<1>9. CASE ConnectionLost(w)
  BY <1>9, RecordsStep DEF ConnectionLost
<1>. QED BY <1>1, <1>2, <1>3, <1>4, <1>5, <1>6, <1>7, <1>8, <1>9 DEF WorkerStep

\* Records is an invariant of the pipeline.
LEMMA RecordsInvariant == Spec => []Records
<1>1. TypeOK /\ Delivery /\ Records /\ [Next]_vars => Records'
  <2> SUFFICES ASSUME TypeOK, Delivery, Records, [Next]_vars PROVE Records'
    OBVIOUS
  <2>1. ASSUME NEW j \in Job, DeleteJob(j) PROVE Records'
    <3>1. \A i \in Job : Backed(i, jobs'[i])
      BY <2>1, BackedOps DEF DeleteJob, Records, TypeOK
    <3>. QED BY <2>1, <3>1, RecordsStep DEF DeleteJob, Records, apiVars, eventVars
  <2>2. ASSUME NEW e \in inbox, Consume(e) \/ ConsumerLost(e) PROVE Records'
    BY <2>2, RecordsStep DEF Consume, ConsumerLost, Records, apiVars
  <2>3. CASE UNCHANGED vars
    BY <2>3, RecordsStep DEF vars, Records
  <2>. QED BY <2>1, <2>2, <2>3, ApiRecords, WorkerRecords DEF Next
<1>. QED BY <1>1, InitRecords, DeliveryInvariant, PipelineTypeCorrect, PTL DEF Spec

\* Whatever stale document is written back and whatever status write is lost,
\* a stored job carries what its status requires.
THEOREM PipelineRecordsStayCoherent == Spec => []RecordsStayCoherent
<1>1. Records => RecordsStayCoherent
  BY DEF Records, Backed, RecordsStayCoherent
<1>. QED BY <1>1, RecordsInvariant, PTL

\* Nobody reads an outcome that was not handed to the publisher before.
THEOREM PipelineAnnouncedBeforeReported == Spec => []AnnouncedBeforeReported
<1>1. Records => AnnouncedBeforeReported
  BY DEF Records, Backed, AnnouncedFor, AnnouncedBeforeReported
<1>. QED BY <1>1, RecordsInvariant, PTL

(***************************************************************************)
(* Identities: an execution's id <<job, attempt>> is its own, also when a  *)
(* lost connection makes two workers execute the same job.                 *)
(***************************************************************************)

Identities ==
    /\ \A w \in Worker :
          worker[w].pc # "idle" =>
              1 <= worker[w].attempt /\ worker[w].attempt <= attempts[worker[w].job]
    /\ \A v, w \in Worker :
          (v # w /\ worker[v].pc # "idle" /\ worker[w].pc # "idle"
              /\ worker[v].job = worker[w].job) => worker[v].attempt # worker[w].attempt
    /\ \A e \in emitted : 1 <= e.id[2] /\ e.id[2] <= attempts[e.id[1]]
    /\ \A w \in Worker :
          worker[w].pc \in {"mark", "run", "publish"} =>
              \A e \in emitted : e.id # <<worker[w].job, worker[w].attempt>>
    /\ OneOutcomePerExecution

\* What every worker step after the delivery and before the publication, and
\* every step that frees a worker, does to the identities.
LEMMA IdentitiesKept ==
    ASSUME TypeOK, Identities, NEW w \in Worker, UNCHANGED <<attempts, emitted>>,
           \A v \in Worker : v # w => worker'[v] = worker[v],
           \/ worker'[w].pc \in {"idle", "report", "ack"}
           \/ worker[w].pc \in {"mark", "run"},
           \/ worker'[w].pc = "idle"
           \/ /\ worker[w].pc # "idle"
              /\ worker'[w].job = worker[w].job
              /\ worker'[w].attempt = worker[w].attempt
    PROVE  Identities'
BY DEF Identities, OneOutcomePerExecution

\* A step of a worker keeps the identities of executions apart.
LEMMA WorkerIdentities ==
    ASSUME TypeOK, Identities, NEW w \in Worker, WorkerStep(w)
    PROVE  Identities'
<1> USE DEF TypeOK, Execution, Goto, apiVars, brokerVars, eventVars
<1>1. ASSUME NEW j \in Job, Receive(w, j) PROVE Identities'
  <2>1. /\ attempts'[j] = attempts[j] + 1
        /\ \A i \in Job : i # j => attempts'[i] = attempts[i]
        /\ worker'[w].job = j /\ worker'[w].attempt = attempts'[j]
        /\ \A v \in Worker : v # w => worker'[v] = worker[v]
        /\ emitted' = emitted
    BY <1>1 DEF Receive
  <2>2. \A v \in Worker :
          (worker[v].pc # "idle" /\ worker[v].job = j) => worker[v].attempt < attempts'[j]
    BY <2>1 DEF Identities
  <2>3. \A e \in emitted : e.id[1] \in Job /\ e.id[2] \in Nat
    BY DEF Event
  <2>4. \A e \in emitted : 1 <= e.id[2] /\ e.id[2] <= attempts'[e.id[1]]
    BY <2>1, <2>3 DEF Identities
  <2>5. \A e \in emitted : e.id # <<j, attempts'[j]>>
    BY <2>1, <2>3 DEF Identities
  <2>6. \A v \in Worker :
          worker'[v].pc # "idle" =>
              1 <= worker'[v].attempt /\ worker'[v].attempt <= attempts'[worker'[v].job]
    BY <2>1 DEF Identities
  <2>7. \A u, v \in Worker :
          (u # v /\ worker'[u].pc # "idle" /\ worker'[v].pc # "idle"
              /\ worker'[u].job = worker'[v].job) => worker'[u].attempt # worker'[v].attempt
    BY <2>1, <2>2 DEF Identities
  <2>. QED BY <2>1, <2>4, <2>5, <2>6, <2>7 DEF Identities, OneOutcomePerExecution
<1>2. CASE MarkRunning(w)
  BY <1>2, IdentitiesKept DEF MarkRunning
<1>3. CASE RunWorkload(w)
  <2>1. PICK o \in {"ok", "unsuccessful", "raised"} :
          worker' = [worker EXCEPT ![w].pc = "publish", ![w].outcome = o]
    BY <1>3 DEF RunWorkload, AfterRun
  <2>2. /\ \A v \in Worker : v # w => worker'[v] = worker[v]
        /\ worker'[w].job = worker[w].job
        /\ worker'[w].attempt = worker[w].attempt
    BY <2>1
  <2>. QED BY <1>3, <2>2, IdentitiesKept DEF RunWorkload
<1>4. CASE Publish(w)
  <2>1. /\ \A v \in Worker : v # w => worker'[v] = worker[v]
        /\ worker'[w].pc = "report" /\ worker'[w].job = worker[w].job
        /\ worker'[w].attempt = worker[w].attempt
        /\ worker[w].pc = "publish"
        /\ attempts' = attempts
    BY <1>4 DEF Publish
  <2>2. /\ emitted' = emitted \cup {EventOf(worker[w])}
        /\ EventOf(worker[w]).id = <<worker[w].job, worker[w].attempt>>
    BY <1>4 DEF Publish, Outcomes, EventOf
  <2>3. 1 <= worker[w].attempt /\ worker[w].attempt <= attempts[worker[w].job]
    BY <2>1 DEF Identities
  <2>4. \A e \in emitted' : 1 <= e.id[2] /\ e.id[2] <= attempts'[e.id[1]]
    BY <2>1, <2>2, <2>3 DEF Identities
  <2>5. ASSUME NEW v \in Worker, worker'[v].pc \in {"mark", "run", "publish"}
        PROVE  \A e \in emitted' : e.id # <<worker'[v].job, worker'[v].attempt>>
    <3>1. v # w /\ worker'[v] = worker[v]
      BY <2>1, <2>5
    <3>2. worker[v].job # worker[w].job \/ worker[v].attempt # worker[w].attempt
      BY <2>1, <2>5, <3>1 DEF Identities
    <3>. QED BY <2>2, <2>5, <3>1, <3>2 DEF Identities
  <2>6. OneOutcomePerExecution'
    BY <2>1, <2>2 DEF Identities, OneOutcomePerExecution
  <2>. QED BY <2>1, <2>3, <2>4, <2>5, <2>6 DEF Identities
<1>5. CASE Report(w)
  BY <1>5, IdentitiesKept DEF Report
<1>6. CASE Ack(w)
  BY <1>6, IdentitiesKept DEF Ack, IdleWorker
<1>7. CASE WorkerLost(w)
  BY <1>7, IdentitiesKept DEF WorkerLost, IdleWorker
<1>8. CASE HardTimeLimit(w)
  BY <1>8, IdentitiesKept DEF HardTimeLimit, IdleWorker
<1>9. CASE ConnectionLost(w)
  <2>1. /\ \A v \in Worker : v # w => worker'[v] = worker[v]
        /\ worker'[w].pc = worker[w].pc /\ worker'[w].job = worker[w].job
        /\ worker'[w].attempt = worker[w].attempt
    BY <1>9 DEF ConnectionLost
  <2>. QED BY <1>9, <2>1 DEF ConnectionLost, Identities, OneOutcomePerExecution
<1>. QED BY <1>1, <1>2, <1>3, <1>4, <1>5, <1>6, <1>7, <1>8, <1>9 DEF WorkerStep

\* Identities is an invariant of the pipeline.
LEMMA IdentitiesInvariant == Spec => []Identities
<1>1. Init => Identities
  BY DEF Init, Identities, OneOutcomePerExecution, IdleWorker
<1>2. TypeOK /\ Identities /\ [Next]_vars => Identities'
  <2> SUFFICES ASSUME TypeOK, Identities, [Next]_vars PROVE Identities'
    OBVIOUS
  <2>1. (UNCHANGED <<worker, attempts, emitted>>) => Identities'
    BY DEF Identities, OneOutcomePerExecution
  <2>2. ASSUME NEW t \in Thread, ApiStep(t) PROVE Identities'
    BY <2>1, <2>2 DEF ApiStep, CreateJob, Dispatch, DispatchFails, ReadForUpdate,
       ReadForCancel, SaveDocument, SaveFails, brokerVars, eventVars
  <2>3. ASSUME NEW j \in Job, DeleteJob(j) PROVE Identities'
    BY <2>1, <2>3 DEF DeleteJob, brokerVars, eventVars
  <2>4. ASSUME NEW e \in inbox, Consume(e) \/ ConsumerLost(e) PROVE Identities'
    BY <2>1, <2>4 DEF Consume, ConsumerLost, brokerVars
  <2>5. CASE UNCHANGED vars
    BY <2>1, <2>5 DEF vars
  <2>. QED BY <2>2, <2>3, <2>4, <2>5, WorkerIdentities DEF Next
<1>. QED BY <1>1, <1>2, PipelineTypeCorrect, PTL DEF Spec

\* An execution announces one outcome, never a completion and a failure.
THEOREM PipelineOneOutcomePerExecution == Spec => []OneOutcomePerExecution
<1>1. Identities => OneOutcomePerExecution
  BY DEF Identities
<1>. QED BY <1>1, IdentitiesInvariant, PTL

\* A document comes into being by creation or by a use case that had read it:
\* the workers' writes never insert one.
THEOREM PipelineOnlySavesInsert == Spec => OnlySavesInsert
<1> DEFINE Inserts(j) == ~Exists(jobs[j]) /\ Exists(jobs'[j])
<1>1. ASSUME TypeOK, [Next]_vars, NEW j \in Job, Inserts(j)
      PROVE  j \notin created \/ SavePending(j)
  <2> USE <1>1 DEF TypeOK
  <2>1. ASSUME NEW t \in Thread, ApiStep(t)
        PROVE  j \notin created \/ SavePending(j)
    <3>1. CASE \E i \in Job : CreateJob(t, i)
      BY <3>1 DEF CreateJob, Insert
    <3>2. CASE SaveDocument(t)
      BY <3>2 DEF SaveDocument, SavePending
    <3>. QED BY <2>1, <3>1, <3>2 DEF ApiStep, ReadForUpdate, ReadForCancel, Dispatch,
             DispatchFails, SaveFails
  <2>2. ASSUME NEW i \in Job, DeleteJob(i) PROVE FALSE
    BY <2>2 DEF DeleteJob, NoDocument, Exists
  <2>3. ASSUME NEW w \in Worker, WorkerStep(w) PROVE FALSE
    <3>1. CASE MarkRunning(w)
      BY <3>1, DocumentOps, WriteStatusInsertsNothing DEF MarkRunning
    <3>2. CASE Report(w)
      <4>1. worker[w].outcome \in {"none", "ok", "unsuccessful", "raised"}
        BY DEF Execution
      <4>2. worker[w].job \in Job
        BY <3>2 DEF Report
      <4>3. SetOutcome(jobs[worker[w].job], worker[w].outcome) \in Document
        BY <4>1, <4>2, DocumentOps
      <4>. QED BY <3>2, <4>2, <4>3, WriteStatusInsertsNothing DEF Report
    <3>. QED BY <2>3, <3>1, <3>2 DEF WorkerStep, Receive, RunWorkload, Publish, Ack,
             WorkerLost, ConnectionLost, HardTimeLimit
  <2>4. ASSUME NEW e \in inbox, Consume(e) \/ ConsumerLost(e) PROVE FALSE
    BY <2>4 DEF Consume, ConsumerLost
  <2>5. CASE UNCHANGED vars
    BY <2>5 DEF vars
  <2>. QED BY <2>1, <2>2, <2>3, <2>4, <2>5 DEF Next
<1>2. TypeOK /\ [Next]_vars =>
        [\A j \in Job : Inserts(j) => (j \notin created \/ SavePending(j))]_vars
  BY <1>1
<1>. QED BY <1>2, PipelineTypeCorrect, PTL DEF Spec, OnlySavesInsert

(***************************************************************************)
(* Outcomes: without a loss a job is delivered once, so an execution that  *)
(* could still overwrite an outcome would have announced it itself.        *)
(***************************************************************************)

\* Without losses, all deliveries and events of a job are those of one execution.
LEMMA OnlyExecution ==
    ASSUME TypeOK, Delivery, Identities, Losses = 0, NEW w \in Worker,
           worker[w].pc # "idle", NEW e \in emitted, e.id[1] = worker[w].job
    PROVE  e.id = <<worker[w].job, worker[w].attempt>>
<1>1. worker[w].job \in Job /\ worker[w].attempt \in Nat
  BY DEF TypeOK, Execution
<1>2. attempts[worker[w].job] \in Nat /\ attempts[worker[w].job] <= 1
  BY <1>1 DEF TypeOK, Delivery, Retries, NoRetryWithoutLoss
<1>3. worker[w].attempt = 1
  BY <1>1, <1>2 DEF Identities
<1>4. e.id \in Job \X Nat
  BY DEF TypeOK, Event
<1>5. e.id[2] = 1
  BY <1>2, <1>4 DEF Identities
<1>. QED BY <1>3, <1>4, <1>5

\* A reported outcome stays, unless the job is deleted, a use case writes back
\* what it had read, or a lost worker or connection made the job run again.
THEOREM PipelineOutcomesStay == Spec => OutcomesStay
<1> DEFINE Changes(j) == jobs[j].status \in {Completed, Failed} /\ jobs'[j].status # jobs[j].status
           Excused(j) == ~Exists(jobs'[j]) \/ SavePending(j) \/ Losses > 0
           IInv == TypeOK /\ Custody /\ Delivery /\ Records /\ Identities
<1>1. ASSUME IInv, [Next]_vars, NEW j \in Job, Changes(j)
      PROVE  Excused(j)
  <2> USE <1>1 DEF TypeOK
  <2>1. ASSUME NEW t \in Thread, ApiStep(t)
        PROVE  Excused(j)
    <3>1. ASSUME NEW i \in Job, CreateJob(t, i) PROVE FALSE
      BY <3>1 DEF CreateJob, Insert, Custody, Saved, Exists, Completed, Failed, Absent
    <3>2. CASE SaveDocument(t)
      BY <3>2 DEF SaveDocument, SavePending
    <3>. QED BY <2>1, <3>1, <3>2 DEF ApiStep, ReadForUpdate, ReadForCancel, Dispatch,
             DispatchFails, SaveFails
  <2>2. ASSUME NEW i \in Job, DeleteJob(i) PROVE Excused(j)
    BY <2>2 DEF DeleteJob, NoDocument, Exists
  <2>3. ASSUME NEW w \in Worker, WorkerStep(w), Losses = 0 PROVE FALSE
    <3> DEFINE Written(kind) == \E e \in emitted : e.kind = kind /\ e.id[1] = j
    <3>1. /\ jobs[j].status = Completed => Written("job.completed")
          /\ jobs[j].status = Failed => Written("job.failed")
      BY DEF Records, Backed, AnnouncedFor, Announced
    <3>2. Written("job.completed") \/ Written("job.failed")
      BY <3>1
    <3>3. CASE MarkRunning(w)
      <4>1. worker[w].job = j /\ worker[w].pc = "mark"
        BY <3>3 DEF MarkRunning, WriteStatus
      <4>2. \A e \in emitted : e.id[1] # j
        BY <2>3, <4>1, OnlyExecution DEF Identities
      <4>. QED BY <3>2, <4>2
    <3>4. CASE Report(w)
      <4>1. worker[w].job = j /\ worker[w].pc = "report"
        BY <3>4 DEF Report, WriteStatus
      <4>2. EventOf(worker[w]) \in emitted
        BY <4>1 DEF Delivery, AnnouncedWhenPast
      <4>3. EventOf(worker[w]).id = <<j, worker[w].attempt>>
        BY <4>1 DEF EventOf
      <4>4. \A e \in emitted : e.id[1] = j => e.kind = EventOf(worker[w]).kind
        BY <2>3, <4>1, <4>2, <4>3, OnlyExecution DEF Identities, OneOutcomePerExecution
      <4>5. /\ jobs[j].status = Completed => worker[w].outcome # "raised"
            /\ jobs[j].status = Failed => worker[w].outcome = "raised"
        BY <3>1, <4>4 DEF EventOf
      <4>6. jobs'[j].status = SetOutcome(jobs[j], worker[w].outcome).status
        BY <3>4, <4>1 DEF Report, WriteStatus
      <4>. QED BY <4>5, <4>6 DEF SetOutcome, StampFinished, Document
    <3>. QED BY <2>3, <3>3, <3>4 DEF WorkerStep, Receive, RunWorkload, Publish, Ack,
             WorkerLost, ConnectionLost, HardTimeLimit
  <2>4. ASSUME NEW e \in inbox, Consume(e) \/ ConsumerLost(e) PROVE FALSE
    BY <2>4 DEF Consume, ConsumerLost
  <2>5. CASE UNCHANGED vars
    BY <2>5 DEF vars
  <2>6. Losses = 0 \/ Losses > 0
    BY DEF Losses, FaultKind
  <2>. QED BY <2>1, <2>2, <2>3, <2>4, <2>5, <2>6 DEF Next
<1>2. IInv /\ [Next]_vars => [\A j \in Job : Changes(j) => Excused(j)]_vars
  BY <1>1
<1>. QED BY <1>2, PipelineTypeCorrect, CustodyInvariant, DeliveryInvariant, RecordsInvariant,
     IdentitiesInvariant, PTL DEF Spec, OutcomesStay

(***************************************************************************)
(* The pipeline implements the lifecycle the API promises of every job     *)
(* that is not disturbed, whatever the clients call and whatever fails.    *)
(* Such a job is executed by one worker at a time, and its record is as    *)
(* far as that worker.                                                     *)
(***************************************************************************)

InStep(j) ==
    /\ \A v, w \in Worker : Executes(v, j) /\ Executes(w, j) => v = w
    /\ \A w \in Worker : Executes(w, j) =>
          /\ worker[w].pc = "mark" => jobs[j].status \in {Pending, Running, Absent}
          /\ worker[w].pc \in {"run", "publish", "report"} => jobs[j].status \in {Running, Absent}

Steady ==
    /\ disturbed \subseteq created
    /\ \A j \in Job \ disturbed : InStep(j)

\* Initially no worker is at work.
LEMMA InitSteady == Init => Steady
BY DEF Init, Steady, InStep, Executes, IdleWorker

\* A job that is touched by nobody stays in step.
LEMMA InStepKept ==
    ASSUME NEW j \in Job, InStep(j), jobs'[j] = jobs[j] \/ jobs'[j].status = Absent,
           \A w \in Worker : Executes(w, j)' =>
              Executes(w, j) /\ (worker'[w].pc = worker[w].pc \/ worker'[w].pc = "ack"
                                 \/ (worker[w].pc \in {"run", "publish"}
                                       /\ worker'[w].pc \in {"publish", "report"}))
    PROVE  InStep(j)'
<1>1. ASSUME NEW v \in Worker, NEW w \in Worker, Executes(v, j)', Executes(w, j)'
      PROVE  v = w
  BY <1>1 DEF InStep
<1>2. ASSUME NEW w \in Worker, Executes(w, j)'
      PROVE  /\ worker'[w].pc = "mark" => jobs'[j].status \in {Pending, Running, Absent}
             /\ worker'[w].pc \in {"run", "publish", "report"} =>
                    jobs'[j].status \in {Running, Absent}
  BY <1>2 DEF InStep
<1>. QED BY <1>1, <1>2 DEF InStep

\* A status write changes the record of one job, or disturbs it.
LEMMA WriteOrDisturb ==
    ASSUME TypeOK, NEW j \in Job, NEW d, WriteStatus(j, d)
    PROVE  /\ \A i \in Job : i # j => jobs'[i] = jobs[i]
           /\ \/ /\ disturbed' = disturbed
                 /\ jobs'[j] = IF Exists(jobs[j]) THEN d ELSE jobs[j]
              \/ disturbed' = disturbed \cup {j} /\ jobs' = jobs
BY DEF WriteStatus, Fine, DisturbIf, TypeOK

\* Who executes a job after the step of one worker.
LEMMA OtherWorkers ==
    ASSUME TypeOK, NEW w \in Worker, NEW x, worker' = [worker EXCEPT ![w] = x]
    PROVE  /\ worker'[w] = x
           /\ \A v \in Worker : v # w => worker'[v] = worker[v]
BY DEF TypeOK

(***************************************************************************)
(* What a step does to the promised statuses: it creates one job, or moves *)
(* one along a transition, or gives one up, or changes none.               *)
(***************************************************************************)

Follows(j) ==
    /\ UNCHANGED created
    /\ \A i \in Job : i # j => Promised'[i] = Promised[i]
    /\ \/ Promised'[j] \in {Promised[j], Absent}
       \/ CanTransition(Promised[j], Promised'[j])

\* The instance names the statuses as the pipeline does.
LEMMA SameLifecycle ==
    /\ Lifecycle!Absent = Absent /\ Lifecycle!Pending = Pending
    /\ Lifecycle!Statuses = Statuses
    /\ \A a, b : Lifecycle!CanTransition(a, b) <=> CanTransition(a, b)
BY DEF Lifecycle!Absent, Lifecycle!Pending, Lifecycle!Running, Lifecycle!Completed,
   Lifecycle!Failed, Lifecycle!Cancelled, Lifecycle!Statuses, Lifecycle!CanTransition,
   Lifecycle!Transitions, Absent, Pending, Running, Completed, Failed, Cancelled, Statuses,
   CanTransition, Transitions

\* A step that follows the lifecycle is a step of it or a stutter.
LEMMA FollowingStep ==
    ASSUME NEW j \in Job, Follows(j)
    PROVE  [Lifecycle!Next]_(Lifecycle!lifecycleVars)
<1> DEFINE after == Promised'[j]
<1>1. DOMAIN Promised = Job /\ Promised = [i \in Job |-> Promised[i]]
  BY DEF Promised
<1>2. Promised' = [i \in Job |-> Promised'[i]]
  BY DEF Promised
<1>3. Promised' = [Promised EXCEPT ![j] = after]
  BY <1>1, <1>2 DEF Follows
<1> HIDE DEF after
<1>4. CASE after = Promised[j]
  <2>1. Promised' = Promised
    BY <1>1, <1>3, <1>4
  <2>. QED BY <2>1 DEF Lifecycle!lifecycleVars, Follows
<1>5. CASE after = Absent /\ Promised[j] # Absent
  <2>1. Lifecycle!Delete(j)
    BY <1>3, <1>5, SameLifecycle DEF Lifecycle!Delete, Follows
  <2>. QED BY <2>1 DEF Lifecycle!Next
<1>6. CASE CanTransition(Promised[j], after)
  <2>1. after \in Statuses
    BY <1>6 DEF CanTransition, Transitions, Statuses
  <2>2. Lifecycle!Move(j)
    BY <1>3, <1>6, <2>1, SameLifecycle DEF Lifecycle!Move, Follows
  <2>. QED BY <2>2 DEF Lifecycle!Next
<1>. QED BY <1>4, <1>5, <1>6 DEF Follows, after

\* A creation is one of the lifecycle.
LEMMA CreatingStep ==
    ASSUME TypeOK, Steady, NEW j \in Job, j \notin created, Insert(j), UNCHANGED disturbed
    PROVE  [Lifecycle!Next]_(Lifecycle!lifecycleVars)
<1>1. j \notin disturbed /\ NewJob.status = Pending
  BY DEF Steady, NewJob, NoDocument
<1>2. Promised' = [Promised EXCEPT ![j] = Pending]
  BY <1>1 DEF Promised, Insert, TypeOK
<1>3. Lifecycle!Create(j)
  BY <1>2, SameLifecycle DEF Lifecycle!Create, Insert
<1>. QED BY <1>3 DEF Lifecycle!Next

(***************************************************************************)
(* The steps.                                                              *)
(***************************************************************************)

\* A step that leaves the records alone changes no promise.
LEMMA NothingShown ==
    ASSUME NEW j \in Job, UNCHANGED <<jobs, created, disturbed>>
    PROVE  Follows(j)
BY DEF Follows, Promised

\* A step of a request thread keeps the jobs in step and follows the lifecycle.
LEMMA ApiSteady ==
    ASSUME TypeOK, Custody, Steady, NEW t \in Thread, ApiStep(t)
    PROVE  /\ Steady'
           /\ \/ \E j \in Job : j \notin created /\ Insert(j) /\ UNCHANGED disturbed
              \/ \E j \in Job : Follows(j)
              \/ UNCHANGED <<jobs, created, disturbed>>
<1>0. UNCHANGED worker
  BY DEF ApiStep, CreateJob, ReadForUpdate, ReadForCancel, Dispatch, DispatchFails,
     SaveDocument, SaveFails
<1>1. ASSUME NEW j \in Job, CreateJob(t, j)
      PROVE  Steady' /\ j \notin created /\ Insert(j) /\ UNCHANGED disturbed
  <2>1. /\ j \notin created /\ Insert(j) /\ UNCHANGED disturbed
        /\ \A i \in Job : i # j => jobs'[i] = jobs[i]
    BY <1>1 DEF CreateJob, Insert, Fine, TypeOK
  <2>2. \A w \in Worker : ~Executes(w, j)
    BY <2>1 DEF Custody, Saved, Executes
  <2>3. ASSUME NEW i \in Job \ disturbed' PROVE InStep(i)'
    BY <1>0, <2>1, <2>2 DEF InStep, Executes, Steady
  <2>4. disturbed' \subseteq created'
    BY <2>1 DEF Steady, Insert
  <2>. QED BY <2>1, <2>3, <2>4 DEF Steady
<1>2. CASE SaveDocument(t)
  <2> DEFINE j == request[t].job
  <2>1. /\ j \in Job /\ j \in created /\ UNCHANGED created
        /\ jobs' = [jobs EXCEPT ![j] = request[t].doc]
        /\ disturbed' = IF request[t].doc # jobs[j] THEN disturbed \cup {j} ELSE disturbed
    BY <1>2 DEF SaveDocument, DisturbIf, TypeOK, Custody, Saved
  <2> HIDE DEF j
  <2>2. \A i \in Job : i # j => jobs'[i] = jobs[i] /\ (i \in disturbed' <=> i \in disturbed)
    BY <2>1 DEF TypeOK
  <2>3. j \in disturbed' \/ (jobs'[j] = jobs[j] /\ disturbed' = disturbed)
    BY <2>1 DEF TypeOK
  <2>4. Follows(j)
    BY <2>1, <2>2, <2>3 DEF Follows, Promised
  <2>5. ASSUME NEW i \in Job \ disturbed' PROVE InStep(i)'
    <3>1. i \notin disturbed /\ jobs'[i] = jobs[i]
      BY <2>2, <2>3
    <3>. QED BY <1>0, <3>1 DEF InStep, Executes, Steady
  <2>6. disturbed' \subseteq created'
    BY <2>1 DEF Steady
  <2>. QED BY <2>1, <2>4, <2>5, <2>6 DEF Steady
<1>3. ASSUME UNCHANGED <<jobs, created, disturbed>> PROVE Steady'
  BY <1>0, <1>3 DEF Steady, InStep, Executes
<1>4. \/ \E j \in Job : CreateJob(t, j)
      \/ SaveDocument(t)
      \/ UNCHANGED <<jobs, created, disturbed>>
  BY DEF ApiStep, ReadForUpdate, ReadForCancel, Dispatch, DispatchFails, SaveFails, Fine, Fault
<1>. QED BY <1>1, <1>2, <1>3, <1>4 DEF SaveDocument, TypeOK

\* A step of a worker that writes the status of its job: what it writes is
\* the next status of a job in step.
LEMMA WritingStep ==
    ASSUME TypeOK, Custody, Steady, NEW w \in Worker, NEW j \in Job, NEW d \in Document, NEW pc,
           WriteStatus(j, d), Goto(w, pc), UNCHANGED created,
           worker[w].pc # "idle", worker[w].job = j,
           d.status # Absent,
           pc = "run" => d.status = Running,
           pc \in {"run", "ack"},
           InStep(j) => \/ jobs[j].status = Absent \/ jobs[j].status = d.status
                        \/ CanTransition(jobs[j].status, d.status)
    PROVE  Steady' /\ Follows(j)
<1>1. /\ \A i \in Job : i # j => jobs'[i] = jobs[i] /\ (i \in disturbed' <=> i \in disturbed)
      /\ disturbed \subseteq disturbed' /\ disturbed' \subseteq disturbed \cup {j}
      /\ j \in disturbed' \/ jobs'[j] = IF Exists(jobs[j]) THEN d ELSE jobs[j]
  BY WriteOrDisturb
<1>2. Executes(w, j) /\ j \in created
  BY DEF Executes, Custody, Saved
<1>3. /\ worker'[w].pc = pc /\ worker'[w].job = j
      /\ \A v \in Worker : v # w => worker'[v] = worker[v]
  BY DEF Goto, TypeOK, Execution
<1>4. Follows(j)
  <2>1. CASE j \in disturbed'
    BY <1>1, <2>1 DEF Follows, Promised
  <2>2. CASE j \notin disturbed'
    <3>1. j \notin disturbed /\ InStep(j)
      BY <1>1, <2>2 DEF Steady
    <3>2. Promised[j] = jobs[j].status /\ Promised'[j] = jobs'[j].status
      BY <2>2, <3>1 DEF Promised
    <3>3. \/ jobs'[j].status = jobs[j].status
          \/ CanTransition(jobs[j].status, jobs'[j].status)
      BY <1>1, <2>2, <3>1 DEF Exists
    <3>. QED BY <1>1, <3>2, <3>3 DEF Follows, Promised
  <2>. QED BY <2>1, <2>2
<1>5. ASSUME NEW i \in Job \ disturbed' PROVE InStep(i)'
  <2>1. i \notin disturbed /\ InStep(i)
    BY <1>1 DEF Steady
  <2>2. \A v \in Worker : Executes(v, i)' => Executes(v, i)
    BY <1>2, <1>3 DEF Executes
  <2>3. \A v, u \in Worker : Executes(v, i)' /\ Executes(u, i)' => v = u
    BY <2>1, <2>2 DEF InStep
  <2>4. CASE i # j
    <3>1. jobs'[i] = jobs[i] /\ \A v \in Worker : Executes(v, i) => v # w
      BY <1>1, <1>2, <2>4 DEF Executes
    <3>. QED BY <1>3, <2>1, <2>2, <2>3, <3>1 DEF InStep
  <2>5. CASE i = j
    <3>1. \A v \in Worker : Executes(v, i)' => v = w
      BY <1>2, <2>1, <2>2, <2>5 DEF InStep
    <3>2. pc = "run" => jobs'[i].status \in {Running, Absent}
      BY <1>1, <2>5 DEF Exists
    <3>. QED BY <1>3, <2>3, <3>1, <3>2 DEF InStep
  <2>. QED BY <2>4, <2>5
<1>6. disturbed' \subseteq created'
  BY <1>1, <1>2 DEF Steady
<1>. QED BY <1>4, <1>5, <1>6 DEF Steady

\* The transitions the workers rely on.
LEMMA TransitionFacts ==
    /\ CanTransition(Pending, Running)
    /\ CanTransition(Running, Completed) /\ CanTransition(Running, Failed)
    /\ Running # Absent /\ Completed # Absent /\ Failed # Absent
BY DEF CanTransition, Transitions, Statuses, Pending, Running, Completed, Failed, Cancelled, Absent

\* A delivery gives a job up whose outcome is stored or that is still executed.
LEMMA ReceiveSteady ==
    ASSUME TypeOK, Custody, Steady, NEW w \in Worker, NEW j \in Job, Receive(w, j)
    PROVE  Steady' /\ Follows(j)
<1> DEFINE late == IsTerminal(jobs[j].status) \/ \E v \in Worker : Executes(v, j)
<1>1. /\ worker[w].pc = "idle" /\ j \in created /\ UNCHANGED <<jobs, created>>
      /\ disturbed' = IF late THEN disturbed \cup {j} ELSE disturbed
  BY DEF Receive, DisturbIf, Custody, Saved, apiVars
<1>2. /\ worker'[w].pc = "mark" /\ worker'[w].job = j
      /\ \A v \in Worker : v # w => worker'[v] = worker[v]
  BY DEF Receive, FirstStep, TypeOK
<1>3. Follows(j)
  <2> HIDE DEF late
  <2>. QED BY <1>1 DEF Follows, Promised
<1>4. ASSUME NEW i \in Job \ disturbed' PROVE InStep(i)'
  <2>1. i \notin disturbed /\ InStep(i) /\ (i = j => ~late)
    <3> HIDE DEF late
    <3>. QED BY <1>1 DEF Steady
  <2>2. CASE i # j
    <3>1. \A v \in Worker : Executes(v, i)' => Executes(v, i) /\ worker'[v] = worker[v]
      BY <1>1, <1>2, <2>2 DEF Executes
    <3>. QED BY <1>1, <2>1, <3>1, InStepKept
  <2>3. CASE i = j
    <3>1. \A v \in Worker : Executes(v, i)' => v = w
      BY <1>2, <2>1, <2>3 DEF Executes
    <3>2. jobs'[i].status \in {Pending, Running, Absent}
      BY <1>1, <2>1, <2>3 DEF IsTerminal, TypeOK, Document, Statuses
    <3>. QED BY <1>2, <3>1, <3>2 DEF InStep
  <2>. QED BY <2>2, <2>3
<1>5. disturbed' \subseteq created'
  BY <1>1 DEF Steady
<1>. QED BY <1>3, <1>4, <1>5 DEF Steady

\* A step of a worker keeps the jobs in step and follows the lifecycle.
LEMMA WorkerSteady ==
    ASSUME TypeOK, Custody, Steady, NEW w \in Worker, WorkerStep(w)
    PROVE  Steady' /\ (UNCHANGED <<jobs, created, disturbed>> \/ \E j \in Job : Follows(j))
<1>1. ASSUME NEW j \in Job, Receive(w, j) PROVE Steady' /\ Follows(j)
  BY <1>1, ReceiveSteady
<1>2. CASE MarkRunning(w)
  <2> DEFINE j == worker[w].job
             d == SetRunning(jobs[j])
  <2>1. /\ worker[w].pc = "mark" /\ j \in Job /\ jobs[j] \in Document
        /\ WriteStatus(j, d) /\ Goto(w, "run") /\ UNCHANGED created
    BY <1>2 DEF MarkRunning, TypeOK, apiVars
  <2>2. d \in Document /\ d.status = Running
    <3>1. d \in Document
      BY <2>1, DocumentOps
    <3>. QED BY <2>1, <3>1 DEF SetRunning, StampStarted, Document
  <2>3. InStep(j) => jobs[j].status \in {Pending, Running, Absent}
    BY <2>1 DEF InStep, Executes
  <2> HIDE DEF d
  <2>4. InStep(j) => \/ jobs[j].status = Absent \/ jobs[j].status = d.status
                     \/ CanTransition(jobs[j].status, d.status)
    BY <2>2, <2>3, TransitionFacts
  <2>5. Steady' /\ Follows(j)
    BY <2>1, <2>2, <2>4, TransitionFacts, WritingStep
  <2>. QED BY <2>1, <2>5
<1>3. CASE Report(w)
  <2> DEFINE j == worker[w].job
             d == SetOutcome(jobs[j], worker[w].outcome)
  <2>1. /\ worker[w].pc = "report" /\ j \in Job /\ jobs[j] \in Document
        /\ WriteStatus(j, d) /\ Goto(w, "ack") /\ UNCHANGED created
    BY <1>3 DEF Report, TypeOK, apiVars
  <2>2. d \in Document /\ d.status \in {Completed, Failed}
    <3>1. worker[w].outcome \in {"none", "ok", "unsuccessful", "raised"}
      BY DEF TypeOK, Execution
    <3>2. d \in Document
      BY <2>1, <3>1, DocumentOps
    <3>. QED BY <2>1, <3>2 DEF SetOutcome, StampFinished, Document
  <2>3. InStep(j) => jobs[j].status \in {Running, Absent}
    BY <2>1 DEF InStep, Executes
  <2> HIDE DEF d
  <2>4. InStep(j) => \/ jobs[j].status = Absent \/ jobs[j].status = d.status
                     \/ CanTransition(jobs[j].status, d.status)
    BY <2>2, <2>3, TransitionFacts
  <2>5. Steady' /\ Follows(j)
    BY <2>1, <2>2, <2>4, TransitionFacts, WritingStep
  <2>. QED BY <2>1, <2>5
<1>4. CASE ~(\E j \in Job : Receive(w, j)) /\ ~MarkRunning(w) /\ ~Report(w)
  <2>1. UNCHANGED <<jobs, created, disturbed>>
    BY <1>4 DEF WorkerStep, RunWorkload, Publish, Ack, WorkerLost, ConnectionLost,
       HardTimeLimit, Fine, Fault, apiVars
  <2>2. \A v \in Worker : v # w => worker'[v] = worker[v]
    BY <1>4 DEF WorkerStep, RunWorkload, Publish, Ack, WorkerLost, ConnectionLost,
       HardTimeLimit, Goto, TypeOK
  <2>3. \/ worker'[w].pc = "idle"
        \/ /\ worker'[w].job = worker[w].job /\ worker[w].pc # "idle"
           /\ \/ worker'[w].pc = worker[w].pc
              \/ worker[w].pc \in {"run", "publish"} /\ worker'[w].pc \in {"publish", "report"}
    <3>1. CASE RunWorkload(w)
      BY <3>1 DEF RunWorkload, AfterRun, TypeOK, Execution
    <3>2. CASE Publish(w)
      BY <3>2 DEF Publish, Goto, TypeOK, Execution
    <3>3. CASE Ack(w) \/ WorkerLost(w) \/ HardTimeLimit(w)
      BY <3>3 DEF Ack, WorkerLost, HardTimeLimit, TypeOK, IdleWorker
    <3>4. CASE ConnectionLost(w)
      BY <3>4 DEF ConnectionLost, TypeOK, Execution
    <3>. QED BY <1>4, <3>1, <3>2, <3>3, <3>4 DEF WorkerStep
  <2>4. ASSUME NEW i \in Job \ disturbed' PROVE InStep(i)'
    <3>1. InStep(i) /\ jobs'[i] = jobs[i]
      BY <2>1 DEF Steady
    <3>2. \A v \in Worker : Executes(v, i)' =>
              Executes(v, i) /\ (worker'[v].pc = worker[v].pc \/ worker'[v].pc = "ack"
                                 \/ (worker[v].pc \in {"run", "publish"}
                                       /\ worker'[v].pc \in {"publish", "report"}))
      BY <2>2, <2>3 DEF Executes
    <3>. QED BY <3>1, <3>2, InStepKept
  <2>. QED BY <2>1, <2>4 DEF Steady
<1>. QED BY <1>1, <1>2, <1>3, <1>4

\* Every step keeps the jobs in step, and is a step of the lifecycle or a stutter.
LEMMA SteadyStep ==
    ASSUME TypeOK, Custody, Steady, [Next]_vars
    PROVE  Steady' /\ [Lifecycle!Next]_(Lifecycle!lifecycleVars)
<1>1. ASSUME UNCHANGED <<jobs, created, disturbed>>
      PROVE  [Lifecycle!Next]_(Lifecycle!lifecycleVars)
  <2>1. Promised' = Promised
    BY <1>1 DEF Promised
  <2>. QED BY <1>1, <2>1 DEF Lifecycle!lifecycleVars
<1>2. ASSUME NEW t \in Thread, ApiStep(t)
      PROVE  Steady' /\ [Lifecycle!Next]_(Lifecycle!lifecycleVars)
  BY <1>1, <1>2, ApiSteady, CreatingStep, FollowingStep
<1>3. ASSUME NEW w \in Worker, WorkerStep(w)
      PROVE  Steady' /\ [Lifecycle!Next]_(Lifecycle!lifecycleVars)
  BY <1>1, <1>3, WorkerSteady, FollowingStep
<1>4. ASSUME NEW j \in Job, DeleteJob(j)
      PROVE  Steady' /\ [Lifecycle!Next]_(Lifecycle!lifecycleVars)
  <2>1. /\ jobs' = [jobs EXCEPT ![j] = NoDocument] /\ UNCHANGED <<created, disturbed, worker>>
    BY <1>4 DEF DeleteJob, Fine, apiVars
  <2>2. /\ jobs'[j].status = Absent
        /\ \A i \in Job : i # j => jobs'[i] = jobs[i]
    BY <2>1 DEF TypeOK, NoDocument
  <2>3. Follows(j)
    BY <2>1, <2>2 DEF Follows, Promised
  <2>4. ASSUME NEW i \in Job \ disturbed' PROVE InStep(i)'
    <3>1. InStep(i) /\ (jobs'[i] = jobs[i] \/ jobs'[i].status = Absent)
      BY <2>1, <2>2 DEF Steady
    <3>2. \A v \in Worker : Executes(v, i)' => Executes(v, i) /\ worker'[v].pc = worker[v].pc
      BY <2>1 DEF Executes
    <3>. QED BY <3>1, <3>2, InStepKept
  <2>. QED BY <2>1, <2>3, <2>4, FollowingStep DEF Steady
<1>5. ASSUME UNCHANGED <<jobs, created, disturbed, worker>>
      PROVE  Steady' /\ [Lifecycle!Next]_(Lifecycle!lifecycleVars)
  <2>1. Steady'
    BY <1>5 DEF Steady, InStep, Executes
  <2>. QED BY <1>1, <1>5, <2>1
<1>6. ASSUME NEW e \in inbox, Consume(e) \/ ConsumerLost(e)
      PROVE  UNCHANGED <<jobs, created, disturbed, worker>>
  BY <1>6 DEF Consume, ConsumerLost, Fine, Fault, apiVars
<1>7. CASE UNCHANGED vars
  BY <1>5, <1>7 DEF vars
<1>. QED BY <1>2, <1>3, <1>4, <1>5, <1>6, <1>7 DEF Next

\* Whatever the clients call and whatever fails, the records follow the
\* lifecycle, those of disturbed jobs excepted: jobs are created pending, move
\* along JobStatus.TRANSITIONS and stay deleted.
THEOREM PipelineFollowsLifecycle == Spec => FollowsLifecycle
<1>1. Init => Lifecycle!Init
  <2>1. SUFFICES ASSUME Init PROVE Promised = [j \in Job |-> Absent] /\ created = {}
    BY SameLifecycle DEF Lifecycle!Init
  <2>. QED BY <2>1 DEF Init, Promised, NoDocument
<1>2. TypeOK /\ Custody /\ Steady /\ [Next]_vars => Steady'
  BY SteadyStep
<1>3. TypeOK /\ Custody /\ Steady /\ [Next]_vars => [Lifecycle!Next]_(Lifecycle!lifecycleVars)
  BY SteadyStep
<1>. QED BY <1>1, <1>2, <1>3, InitSteady, PipelineTypeCorrect, CustodyInvariant, PTL
     DEF Spec, FollowsLifecycle, Lifecycle!Spec
=============================================================================

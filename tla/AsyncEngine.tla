---------------------------- MODULE AsyncEngine ----------------------------
(***************************************************************************)
(* The asyncio engine: AsyncAIJobWorker runs one coroutine per job over    *)
(* AsyncAIJobOrchestrator, bounded by a semaphore, with cancellation and   *)
(* shutdown.                                                               *)
(*                                                                         *)
(* There is one event loop, so an action is what a coroutine does between  *)
(* two awaits.  A database write is three steps: the coroutine sends it,   *)
(* the driver's thread (Motor, external) applies it, the coroutine goes on *)
(* with the answer.  Anything may run in between, and a coroutine that is  *)
(* cancelled while its write is under way does not take the write back.    *)
(***************************************************************************)
EXTENDS AIJob, Naturals, FiniteSets

CONSTANTS
    Job,            \* job ids, each submitted and enqueued once
    MaxConcurrent,  \* the semaphore's value
    AwaitableTasks, \* the registered tasks are AsyncBaseAITask
    Behaviours,     \* what payloads and tasks do: "refused" or a TaskResult
    Callers,        \* what else clients call: "cancel", "shutdown"
    CallFailures    \* how many calls of the repository may fail

ASSUME AsyncEngineAssumption ==
    /\ MaxConcurrent \in Nat \ {0}
    /\ AwaitableTasks \in BOOLEAN
    /\ Behaviours \subseteq {"refused"} \cup TaskResult
    /\ Callers \subseteq {"cancel", "shutdown"}
    /\ CallFailures \in Nat

VARIABLES
    jobs,      \* [Job -> AIJobs]: the collection ai_jobs
    run,       \* [Job -> Coroutine]: _run(job_id)
    cancel,    \* [Job -> Coroutine]: cancel_job(job_id)
    flight,    \* writes sent and not yet applied: <<job, who, document>>
    slots,     \* free permits of the semaphore
    shutdown,  \* shutdown(): its state and the tasks it waits for
    failures   \* failed calls so far

vars == <<jobs, run, cancel, flight, slots, shutdown, failures>>

\* A coroutine stands at an await, with its copy of the job; "first" and "last"
\* are the two writes of process_job.
Coroutine ==
    [pc  : {"none", "submit", "slot", "load", "first", "execute", "last", "hook", "over"}
           \cup {"write", "returned", "raised"},
     doc : AIJobs]

Fresh == [pc |-> "none", doc |-> NoAIJob]

\* A worker as constructed: all permits of its semaphore, and no task.
NewWorker ==
    /\ slots = MaxConcurrent
    /\ run = [j \in Job |-> Fresh]
    /\ cancel = [j \in Job |-> Fresh]
    /\ shutdown = [pc |-> "none", waits |-> {}]

Init ==
    /\ NewWorker
    /\ jobs = [j \in Job |-> NoAIJob]
    /\ flight = {}
    /\ failures = 0

Sent(j, who) == \E f \in flight : f[1] = j /\ f[2] = who

\* Ended coroutines and those not yet enqueued have no entry in _tasks.
Tracked == {j \in Job : run[j].pc \notin {"none", "submit", "over"}}

\* The part of _run inside `async with self._semaphore`.
Inside(c) == c.pc \in {"load", "first", "execute", "last"}

-----------------------------------------------------------------------------
(***************************************************************************)
(* submit_and_enqueue and _run                                             *)
(***************************************************************************)

SubmitJob(j) ==
    /\ run[j].pc = "none"
    /\ jobs' = [jobs EXCEPT ![j] = NewAIJob]
    /\ run' = [run EXCEPT ![j].pc = "submit"]
    /\ UNCHANGED <<cancel, flight, slots, shutdown, failures>>

\* The insert was acknowledged: create_task.
Enqueue(j) ==
    /\ run[j].pc = "submit"
    /\ run' = [run EXCEPT ![j].pc = "slot"]
    /\ UNCHANGED <<jobs, cancel, flight, slots, shutdown, failures>>

\* Seeded fault: the semaphore is not consulted.
AnySlot == slots' = slots

TakeSlot ==
    /\ slots > 0
    /\ slots' = slots - 1

AcquireSlot(j) ==
    /\ run[j].pc = "slot"
    /\ TakeSlot
    /\ run' = [run EXCEPT ![j].pc = "load"]
    /\ UNCHANGED <<jobs, cancel, flight, shutdown, failures>>

\* Seeded fault: the slot is not given up.
KeepSlot(j, pc) ==
    /\ UNCHANGED slots
    /\ run' = [run EXCEPT ![j].pc = pc]

\* process_job gives up the slot, by returning or by raising.
Leave(j, pc) ==
    /\ slots' = slots + 1
    /\ run' = [run EXCEPT ![j].pc = pc]

Send(j, who, d) == flight' = flight \cup {<<j, who, d>>}

\* Send the write named by pc with the local job d.
RunWrites(j, pc, d) ==
    /\ run' = [run EXCEPT ![j] = [pc |-> pc, doc |-> d]]
    /\ Send(j, "run", d)
    /\ UNCHANGED slots

\* Seeded fault: a job that is not pending is run nevertheless.
AnyStatus(d) == TRUE

MayStart(d) == d.status = Pending

\* The job is loaded and its payload validated.  The local job becomes running
\* and is written, or it fails, or, when it cannot fail any more, the exception
\* leaves process_job.  Without awaitable tasks `await task.validate_payload`
\* raises for every payload.
LoadJob(j) ==
    LET d == jobs[j] IN
    /\ run[j].pc = "load"
    /\ \/ /\ AwaitableTasks
          /\ Behaviours \cap TaskResult # {}
          /\ MayStart(d)
          /\ RunWrites(j, "first", MarkRunning(d))
       \/ /\ ~AwaitableTasks \/ "refused" \in Behaviours \/ ~MayStart(d)
          /\ CanFail(d)
          /\ RunWrites(j, "last", FailJob(d))
       \/ /\ ~CanFail(d)
          /\ Leave(j, "over")
          /\ UNCHANGED flight
    /\ UNCHANGED <<jobs, cancel, shutdown, failures>>

\* The driver applies a write: replace_one, whatever is stored by now.
ApplyWrite(f) ==
    /\ jobs' = [jobs EXCEPT ![f[1]] = f[3]]
    /\ flight' = flight \ {f}
    /\ UNCHANGED <<run, cancel, slots, shutdown, failures>>

\* Seeded fault: the answer to a write is not awaited.
NotAwaited(j) == TRUE

Acknowledged(j) == ~Sent(j, "run")

\* The first write is acknowledged: execute.
StartExecution(j) ==
    /\ run[j].pc = "first"
    /\ Acknowledged(j)
    /\ run' = [run EXCEPT ![j].pc = "execute"]
    /\ UNCHANGED <<jobs, cancel, flight, slots, shutdown, failures>>

EndExecution(j) ==
    /\ run[j].pc = "execute"
    /\ \E r \in Behaviours \cap TaskResult : RunWrites(j, "last", AfterTask(run[j].doc, r))
    /\ UNCHANGED <<jobs, cancel, shutdown, failures>>

\* The last write is acknowledged: the slot is free and on_complete is called.
EndProcessing(j) ==
    /\ run[j].pc = "last"
    /\ Acknowledged(j)
    /\ Leave(j, "hook")
    /\ UNCHANGED <<jobs, cancel, flight, shutdown, failures>>

EndHook(j) ==
    /\ run[j].pc = "hook"
    /\ run' = [run EXCEPT ![j].pc = "over"]
    /\ UNCHANGED <<jobs, cancel, flight, slots, shutdown, failures>>

\* A call of process_job raises.  The load is outside its try block and ends
\* the run, and so does the last write; the first makes the job fail.  The
\* write that failed was applied or will not be.
CallFails(j) ==
    /\ run[j].pc \in {"load", "first", "last"}
    /\ failures < CallFailures
    /\ failures' = failures + 1
    /\ LET others == {f \in flight : ~(f[1] = j /\ f[2] = "run")}
           failed == FailJob(run[j].doc)
       IN  IF run[j].pc = "first"
           THEN /\ run' = [run EXCEPT ![j] = [pc |-> "last", doc |-> failed]]
                /\ flight' = others \cup {<<j, "run", failed>>}
                /\ UNCHANGED slots
           ELSE /\ Leave(j, "over")
                /\ flight' = others
    /\ UNCHANGED <<jobs, cancel, shutdown>>

-----------------------------------------------------------------------------
(***************************************************************************)
(* Cancellation                                                            *)
(***************************************************************************)

\* Seeded fault: a cancelled coroutine keeps its slot.
LeakSlots(K) == slots

FreedSlots(K) == slots + Cardinality({j \in K : Inside(run[j])})

\* CancelledError at the coroutines' current await: `except Exception` does not
\* catch it, the semaphore's context manager gives the slot back.  The driver
\* may drop a write it has not begun.
Stop(K) ==
    /\ run' = [j \in Job |-> IF j \in K THEN [run[j] EXCEPT !.pc = "over"] ELSE run[j]]
    /\ slots' = FreedSlots(K)
    /\ \E D \in SUBSET {f \in flight : f[1] \in K /\ f[2] = "run"} : flight' = flight \ D

\* orchestrator.cancel_job: load, cancel(), update.
CancelLoad(j) ==
    /\ "cancel" \in Callers
    /\ cancel[j].pc = "none"
    /\ CanCancel(jobs[j])
    /\ cancel' = [cancel EXCEPT ![j] = [pc |-> "write", doc |-> MarkCancelled(jobs[j])]]
    /\ Send(j, "cancel", MarkCancelled(jobs[j]))
    /\ UNCHANGED <<jobs, run, slots, shutdown, failures>>

\* Seeded fault: the asyncio.Task is left alone.
StopNothing(j) == UNCHANGED <<run, slots, flight>>

StopTask(j) ==
    IF j \in Tracked THEN Stop({j}) ELSE UNCHANGED <<run, slots, flight>>

\* ... then worker.cancel_job: the task, if there is one, is cancelled and
\* awaited.
CancelReturns(j) ==
    /\ cancel[j].pc = "write"
    /\ ~Sent(j, "cancel")
    /\ StopTask(j)
    /\ cancel' = [cancel EXCEPT ![j].pc = "returned"]
    /\ UNCHANGED <<jobs, shutdown, failures>>

\* The write raises: the caller gets the exception and the task goes on.
CancelFails(j) ==
    /\ cancel[j].pc = "write"
    /\ failures < CallFailures
    /\ failures' = failures + 1
    /\ flight' = {f \in flight : ~(f[1] = j /\ f[2] = "cancel")}
    /\ cancel' = [cancel EXCEPT ![j].pc = "raised"]
    /\ UNCHANGED <<jobs, run, slots, shutdown>>

-----------------------------------------------------------------------------
(***************************************************************************)
(* shutdown                                                                *)
(***************************************************************************)

Shutdown ==
    /\ "shutdown" \in Callers
    /\ shutdown.pc = "none"
    /\ shutdown' = IF Tracked = {}
                   THEN [pc |-> "returned", waits |-> {}]
                   ELSE [pc |-> "wait", waits |-> Tracked]
    /\ UNCHANGED <<jobs, run, cancel, flight, slots, failures>>

\* Seeded fault: the first task that ends ends the waiting.
AnyEnded(K) == K \ Tracked # {}

AllEnded(K) == K \cap Tracked = {}

\* gather over the tasks that were in flight.
ShutdownReturns ==
    /\ shutdown.pc = "wait"
    /\ AllEnded(shutdown.waits)
    /\ shutdown' = [shutdown EXCEPT !.pc = "returned"]
    /\ UNCHANGED <<jobs, run, cancel, flight, slots, failures>>

\* The timeout: wait_for cancels the gather and with it the tasks it waits for.
ShutdownTimeout ==
    /\ shutdown.pc = "wait"
    /\ ~AllEnded(shutdown.waits)
    /\ Stop(shutdown.waits \cap Tracked)
    /\ shutdown' = [shutdown EXCEPT !.pc = "cancel"]
    /\ UNCHANGED <<jobs, cancel, failures>>

\* ... then every task that is left, tasks enqueued since included.
ShutdownCancels ==
    /\ shutdown.pc = "cancel"
    /\ Stop(Tracked)
    /\ shutdown' = [shutdown EXCEPT !.pc = "returned"]
    /\ UNCHANGED <<jobs, cancel, failures>>

-----------------------------------------------------------------------------

RunStep(j) ==
    \/ Enqueue(j) \/ AcquireSlot(j) \/ LoadJob(j) \/ StartExecution(j)
    \/ EndExecution(j) \/ EndProcessing(j) \/ EndHook(j)

Next ==
    \/ \E j \in Job : SubmitJob(j) \/ RunStep(j) \/ CallFails(j)
    \/ \E j \in Job : CancelLoad(j) \/ CancelReturns(j) \/ CancelFails(j)
    \/ \E f \in flight : ApplyWrite(f)
    \/ Shutdown \/ ShutdownReturns \/ ShutdownTimeout \/ ShutdownCancels

Spec == Init /\ [][Next]_vars

\* The event loop serves every coroutine that is ready, semaphore waiters in
\* their order, and the driver applies what was sent.
Fairness ==
    /\ \A j \in Job : WF_vars(RunStep(j)) /\ SF_vars(AcquireSlot(j)) /\ WF_vars(CancelReturns(j))
    /\ WF_vars(\E f \in flight : ApplyWrite(f))
    /\ WF_vars(ShutdownReturns \/ ShutdownCancels)

FairSpec == Spec /\ Fairness

-----------------------------------------------------------------------------

TypeOK ==
    /\ jobs \in [Job -> AIJobs]
    /\ run \in [Job -> Coroutine]
    /\ cancel \in [Job -> Coroutine]
    /\ flight \subseteq Job \X {"run", "cancel"} \X AIJobs
    /\ slots \in 0 .. MaxConcurrent
    /\ shutdown.waits \subseteq Job
    /\ shutdown.pc \in {"none", "wait", "cancel", "returned"}
    /\ failures \in 0 .. CallFailures

\* Whoever returns, raises or is cancelled gives back exactly the slot it has:
\* the permits are never lost and never multiplied.
SlotsAreKept == slots + Cardinality({j \in Job : Inside(run[j])}) = MaxConcurrent

\* A job never executes once its cancellation has returned, however the two
\* interleave, a job enqueued after its cancellation included.
CancelledNeverExecutes ==
    \A j \in Job : cancel[j].pc = "returned" => run[j].pc \notin {"execute", "hook"}

\* shutdown waits for, or cancels, everything that was in flight.
ShutdownLeavesNothing ==
    shutdown.pc = "returned" => shutdown.waits \cap Tracked = {}

\* An enqueued coroutine ends: nobody waits for a slot for ever.
RunsEnd == \A j \in Job : (run[j].pc = "slot") ~> (run[j].pc = "over")

\* The stored status moves along the engine's lifecycle, through failing calls
\* and a shutdown, up to the moment a client cancels the job: what is stored
\* after that is not what was promised.
Promised(j) == IF cancel[j].pc = "none" THEN jobs[j].status ELSE Cancelled

Lifecycle == INSTANCE AIJobLifecycle WITH status <- [j \in Job |-> Promised(j)]
FollowsLifecycle == Lifecycle!Spec
=============================================================================

------------------------- MODULE AsyncEngineProofs -------------------------
(***************************************************************************)
(* Theorems about AsyncEngine for every set of jobs, every value of the    *)
(* semaphore, with or without awaitable tasks, for every behaviour of the  *)
(* tasks and every number of failing calls.                                *)
(***************************************************************************)
EXTENDS AsyncEngine, FiniteSetTheorems, TLAPS

(***************************************************************************)
(* The parts of the inductive invariant.                                   *)
(***************************************************************************)

\* Every variable but the semaphore has its type.
Typed ==
    /\ jobs \in [Job -> AIJobs]
    /\ run \in [Job -> Coroutine]
    /\ cancel \in [Job -> Coroutine]
    /\ flight \subseteq Job \X {"run", "cancel"} \X AIJobs
    /\ shutdown \in [pc : {"none", "wait", "cancel", "returned"}, waits : SUBSET Job]
    /\ failures \in 0 .. CallFailures

Insiders == {j \in Job : Inside(run[j])}

\* Only finitely many jobs are inside, however many there are.
Slots ==
    /\ IsFiniteSet(Insiders)
    /\ slots \in Nat
    /\ slots + Cardinality(Insiders) = MaxConcurrent

InFlight(j, who) == {d \in AIJobs : <<j, who, d>> \in flight}

\* The writes of a run that may be applied to a job stored with status s.
Lawful(s, d) ==
    \/ s = Pending /\ d.status \in {Running, Failed}
    \/ s = Running /\ d.status \in {Completed, Failed}

\* A job with run r and cancellation at c, stored with status s, and the
\* documents R and C that its run and its cancellation have in flight.
JobOK(r, c, s, R, C) ==
    /\ c \in {"none", "write", "returned", "raised"}
    /\ r.pc = "none" => s = Absent
    /\ \A d \in R : r.pc \in {"first", "last", "over"} /\ d = r.doc
    /\ \A d \in C : c = "write" /\ d.status = Cancelled
    /\ c = "none" =>
          /\ r.pc \in {"submit", "slot", "load"} => s = Pending
          /\ r.pc = "first" =>
                r.doc.status = Running /\ (s = Running \/ (s = Pending /\ R # {}))
          /\ r.pc = "execute" => s = Running
          /\ \A d \in R : Lawful(s, d)
    /\ c # "none" => r.pc # "none"
    /\ c = "write" /\ r.pc \in {"submit", "slot", "load"} => C # {} \/ s = Cancelled
    /\ c = "returned" =>
          r.pc = "over" \/ (r.pc \in {"submit", "slot", "load"} /\ s = Cancelled)

AllOK ==
    \A j \in Job :
        JobOK(run[j], cancel[j].pc, jobs[j].status, InFlight(j, "run"), InFlight(j, "cancel"))

\* What a shutdown waits for was enqueued, and is over when it returns.
Awaited ==
    \A j \in shutdown.waits :
        /\ run[j].pc \notin {"none", "submit"}
        /\ shutdown.pc = "returned" => run[j].pc = "over"

(***************************************************************************)
(* Facts about jobs and coroutines.                                        *)
(***************************************************************************)

\* What the orchestrator makes of a job is a job.
LEMMA AIJobOps ==
    /\ NoAIJob \in AIJobs /\ NoAIJob.status = Absent
    /\ NewAIJob \in AIJobs /\ NewAIJob.status = Pending
    /\ \A d \in AIJobs : /\ MarkRunning(d) \in AIJobs /\ MarkRunning(d).status = Running
                         /\ MarkCancelled(d) \in AIJobs /\ MarkCancelled(d).status = Cancelled
                         /\ FailJob(d) \in AIJobs /\ FailJob(d).status = Failed
    /\ \A d \in AIJobs, r \in TaskResult :
          AfterTask(d, r) \in AIJobs /\ AfterTask(d, r).status \in {Completed, Failed}
BY DEF AIJobs, NoAIJob, NewAIJob, MarkRunning, MarkCancelled, FailJob, MarkFailed, MarkCompleted,
   AfterTask, Statuses, Pending, Running, Completed, Failed, Cancelled, Absent

\* Where a coroutine may be.
Points ==
    {"none", "submit", "slot", "load", "first", "execute", "last", "hook", "over",
     "write", "returned", "raised"}

\* A coroutine that goes on is one.
LEMMA GoesOn ==
    ASSUME NEW c \in Coroutine, NEW pc \in Points
    PROVE  /\ [c EXCEPT !.pc = pc] \in Coroutine /\ [c EXCEPT !.pc = pc].pc = pc
           /\ [c EXCEPT !.pc = pc].doc = c.doc
BY DEF Coroutine, Points

(***************************************************************************)
(* The semaphore.                                                          *)
(***************************************************************************)

\* One coroutine moves.
LEMMA InsidersStep ==
    ASSUME run \in [Job -> Coroutine], NEW j \in Job, NEW c,
           run' = [run EXCEPT ![j] = c]
    PROVE  Insiders' = IF Inside(c) THEN Insiders \cup {j} ELSE Insiders \ {j}
BY DEF Insiders

\* It stays inside, or outside.
LEMMA SlotsStay ==
    ASSUME run \in [Job -> Coroutine], Slots, NEW j \in Job, NEW c,
           run' = [run EXCEPT ![j] = c], Inside(c) <=> Inside(run[j]), slots' = slots
    PROVE  Slots'
<1>1. Insiders' = Insiders
  BY InsidersStep DEF Insiders
<1>. QED BY <1>1 DEF Slots

\* It enters with a permit.
LEMMA SlotTaken ==
    ASSUME run \in [Job -> Coroutine], Slots, NEW j \in Job, NEW c,
           run' = [run EXCEPT ![j] = c], Inside(c), ~Inside(run[j]), TakeSlot
    PROVE  Slots'
<1>1. Insiders' = Insiders \cup {j} /\ j \notin Insiders
  BY InsidersStep DEF Insiders
<1>2. IsFiniteSet(Insiders) /\ Cardinality(Insiders) \in Nat
  BY FS_CardinalityType DEF Slots
<1>3. IsFiniteSet(Insiders') /\ Cardinality(Insiders') = Cardinality(Insiders) + 1
  BY <1>1, <1>2, FS_AddElement
<1>4. slots' = slots - 1 /\ slots > 0
  BY DEF TakeSlot
<1>. QED BY <1>2, <1>3, <1>4, AsyncEngineAssumption DEF Slots

\* It leaves and gives the permit back.
LEMMA SlotGiven ==
    ASSUME run \in [Job -> Coroutine], Slots, NEW j \in Job, NEW c,
           run' = [run EXCEPT ![j] = c], ~Inside(c), Inside(run[j]), slots' = slots + 1
    PROVE  Slots'
<1>1. Insiders' = Insiders \ {j} /\ j \in Insiders
  BY InsidersStep DEF Insiders
<1>2. IsFiniteSet(Insiders) /\ Cardinality(Insiders) \in Nat
  BY FS_CardinalityType DEF Slots
<1>3. IsFiniteSet(Insiders') /\ Cardinality(Insiders') = Cardinality(Insiders) - 1
  BY <1>1, <1>2, FS_RemoveElement
<1>. QED BY <1>2, <1>3, AsyncEngineAssumption DEF Slots

\* Every coroutine that is stopped gives back the permit it has.
LEMMA SlotsFreed ==
    ASSUME run \in [Job -> Coroutine], Slots, NEW K \in SUBSET Job, Stop(K)
    PROVE  Slots'
<1> DEFINE I == {j \in K : Inside(run[j])}
<1>1. Insiders' = Insiders \ K
  BY DEF Stop, Insiders, Inside, Coroutine
<1>2. IsFiniteSet(Insiders) /\ I = Insiders \cap K
  BY DEF Slots, Insiders
<1>3. /\ IsFiniteSet(Insiders') /\ Cardinality(Insiders') = Cardinality(Insiders) - Cardinality(I)
      /\ IsFiniteSet(I)
  BY <1>1, <1>2, FS_Difference, FS_Intersection
<1>4. Cardinality(Insiders) \in Nat /\ Cardinality(Insiders') \in Nat /\ Cardinality(I) \in Nat
  BY <1>2, <1>3, FS_CardinalityType
<1>5. slots' = slots + Cardinality(I)
  BY DEF Stop, FreedSlots
<1>. QED BY <1>3, <1>4, <1>5, AsyncEngineAssumption DEF Slots

(***************************************************************************)
(* Type correctness.                                                       *)
(***************************************************************************)

\* The initial state satisfies all parts.
LEMMA InitTyped == Init => Typed /\ Slots /\ AllOK /\ Awaited
<1> SUFFICES ASSUME Init PROVE Typed /\ Slots /\ AllOK /\ Awaited
  OBVIOUS
<1>1. Fresh \in Coroutine /\ Fresh.pc = "none"
  BY AIJobOps DEF Fresh, Coroutine
<1>2. Typed
  BY <1>1, AIJobOps, AsyncEngineAssumption DEF Init, NewWorker, Typed
<1>3. Insiders = {}
  BY <1>1 DEF Init, NewWorker, Insiders, Inside
<1>4. Slots
  BY <1>3, FS_EmptySet, AsyncEngineAssumption DEF Slots, Init, NewWorker
<1>5. AllOK
  BY <1>1, AIJobOps DEF AllOK, JobOK, InFlight, Init, NewWorker
<1>6. Awaited
  BY DEF Awaited, Init, NewWorker
<1>. QED BY <1>2, <1>4, <1>5, <1>6

\* A write sent is one of the writes there may be.
LEMMA SendTyped ==
    ASSUME Typed, NEW j \in Job, NEW who \in {"run", "cancel"}, NEW d \in AIJobs, Send(j, who, d)
    PROVE  flight' \subseteq Job \X {"run", "cancel"} \X AIJobs
BY DEF Typed, Send

\* Coroutines that are stopped stay coroutines, and no write is added.
LEMMA StopTyped ==
    ASSUME Typed, NEW K \in SUBSET Job, Stop(K)
    PROVE  /\ run' \in [Job -> Coroutine]
           /\ flight' \subseteq flight
           /\ \A j \in Job \ K : run'[j] = run[j]
           /\ \A j \in K : run'[j].pc = "over" /\ run'[j].doc = run[j].doc
<1>1. \A j \in Job : [run[j] EXCEPT !.pc = "over"] \in Coroutine
                     /\ [run[j] EXCEPT !.pc = "over"].pc = "over"
                     /\ [run[j] EXCEPT !.pc = "over"].doc = run[j].doc
  BY GoesOn DEF Typed, Points
<1>. QED BY <1>1 DEF Typed, Stop

\* A run stays one.
LEMMA RunTyped ==
    ASSUME Typed, NEW j \in Job, SubmitJob(j) \/ RunStep(j) \/ CallFails(j)
    PROVE  Typed'
<1>1. jobs[j] \in AIJobs /\ run[j] \in Coroutine /\ run[j].doc \in AIJobs
  BY DEF Typed, Coroutine
<1>2. ASSUME NEW pc \in {"submit", "slot", "load", "execute", "hook", "over"},
             run' = [run EXCEPT ![j].pc = pc]
      PROVE  run' \in [Job -> Coroutine]
  <2> DEFINE c == [run[j] EXCEPT !.pc = pc]
  <2>1. c \in Coroutine
    BY <1>1, GoesOn DEF Points
  <2>2. run' = [run EXCEPT ![j] = c] /\ run \in [Job -> Coroutine]
    BY <1>2 DEF Typed
  <2> HIDE DEF c
  <2>. QED BY <2>1, <2>2
<1>3. ASSUME NEW pc \in {"first", "last"}, NEW d \in AIJobs, RunWrites(j, pc, d)
      PROVE  run' \in [Job -> Coroutine] /\ flight' \subseteq Job \X {"run", "cancel"} \X AIJobs
  <2>1. [pc |-> pc, doc |-> d] \in Coroutine
    BY DEF Coroutine
  <2>. QED BY <1>3, <2>1, SendTyped DEF RunWrites, Typed
<1>4. CASE SubmitJob(j)
  BY <1>2, <1>4, AIJobOps DEF SubmitJob, Typed
<1>5. CASE Enqueue(j) \/ AcquireSlot(j) \/ StartExecution(j) \/ EndHook(j)
  BY <1>2, <1>5 DEF Enqueue, AcquireSlot, StartExecution, EndHook, Typed
<1>6. CASE LoadJob(j)
  <2>1. run' \in [Job -> Coroutine] /\ flight' \subseteq Job \X {"run", "cancel"} \X AIJobs
    <3>1. CASE RunWrites(j, "first", MarkRunning(jobs[j]))
      BY <1>1, <1>3, <3>1, AIJobOps
    <3>2. CASE RunWrites(j, "last", FailJob(jobs[j]))
      BY <1>1, <1>3, <3>2, AIJobOps
    <3>3. CASE Leave(j, "over") /\ UNCHANGED flight
      BY <1>2, <3>3 DEF Leave, Typed
    <3>. QED BY <1>6, <3>1, <3>2, <3>3 DEF LoadJob
  <2>. QED BY <1>6, <2>1 DEF LoadJob, Typed
<1>7. CASE EndExecution(j)
  <2>1. PICK r \in TaskResult : RunWrites(j, "last", AfterTask(run[j].doc, r))
    BY <1>7 DEF EndExecution
  <2>2. run' \in [Job -> Coroutine] /\ flight' \subseteq Job \X {"run", "cancel"} \X AIJobs
    BY <1>1, <1>3, <2>1, AIJobOps
  <2>. QED BY <1>7, <2>2 DEF EndExecution, Typed
<1>8. CASE EndProcessing(j)
  BY <1>2, <1>8 DEF EndProcessing, Leave, Typed
<1>9. CASE CallFails(j)
  <2>1. failures' \in 0 .. CallFailures
    BY <1>9, AsyncEngineAssumption DEF CallFails, Typed
  <2>2. FailJob(run[j].doc) \in AIJobs
    BY <1>1, AIJobOps
  <2>3. [pc |-> "last", doc |-> FailJob(run[j].doc)] \in Coroutine
    BY <2>2 DEF Coroutine
  <2>4. CASE run[j].pc = "first"
    <3>1. run' \in [Job -> Coroutine]
      BY <1>9, <2>3, <2>4 DEF CallFails, Typed
    <3>2. flight' \subseteq Job \X {"run", "cancel"} \X AIJobs
      BY <1>9, <2>2, <2>4 DEF CallFails, Typed
    <3>. QED BY <1>9, <2>1, <3>1, <3>2 DEF CallFails, Typed
  <2>5. CASE run[j].pc # "first"
    <3>1. run' \in [Job -> Coroutine]
      BY <1>2, <1>9, <2>5 DEF CallFails, Leave
    <3>2. flight' \subseteq flight
      BY <1>9, <2>5 DEF CallFails
    <3>. QED BY <1>9, <2>1, <3>1, <3>2 DEF CallFails, Typed
  <2>. QED BY <2>4, <2>5
<1>. QED BY <1>4, <1>5, <1>6, <1>7, <1>8, <1>9 DEF RunStep

\* Tracked jobs are jobs.
LEMMA TrackedJobs == Tracked \subseteq Job
BY DEF Tracked

\* Cancellation and shutdown keep the types too, and the driver.
LEMMA ClientTyped ==
    ASSUME Typed,
           \/ \E j \in Job : CancelLoad(j) \/ CancelReturns(j) \/ CancelFails(j)
           \/ \E f \in flight : ApplyWrite(f)
           \/ Shutdown \/ ShutdownReturns \/ ShutdownTimeout \/ ShutdownCancels
           \/ UNCHANGED vars
    PROVE  Typed'
<1>1. ASSUME NEW j \in Job, CancelLoad(j) PROVE Typed'
  <2>1. MarkCancelled(jobs[j]) \in AIJobs
    BY AIJobOps DEF Typed
  <2>2. [pc |-> "write", doc |-> MarkCancelled(jobs[j])] \in Coroutine
    BY <2>1 DEF Coroutine
  <2>3. flight' \subseteq Job \X {"run", "cancel"} \X AIJobs
    BY <1>1, <2>1, SendTyped DEF CancelLoad
  <2>. QED BY <1>1, <2>2, <2>3 DEF CancelLoad, Typed
<1>2. ASSUME NEW j \in Job, CancelReturns(j) \/ CancelFails(j) PROVE Typed'
  <2>1. cancel' \in [Job -> Coroutine]
    <3>1. PICK pc \in {"returned", "raised"} : cancel' = [cancel EXCEPT ![j].pc = pc]
      BY <1>2 DEF CancelReturns, CancelFails
    <3>2. [cancel[j] EXCEPT !.pc = pc] \in Coroutine
      BY GoesOn DEF Typed, Points
    <3>. QED BY <3>1, <3>2 DEF Typed
  <2>2. CASE CancelReturns(j)
    <3>1. {j} \in SUBSET Job
      OBVIOUS
    <3>2. run' \in [Job -> Coroutine] /\ flight' \subseteq flight
      BY <2>2, <3>1, StopTyped DEF CancelReturns, StopTask, Typed
    <3>. QED BY <2>1, <2>2, <3>2 DEF CancelReturns, Typed
  <2>3. CASE CancelFails(j)
    <3>1. flight' \subseteq flight
      BY <2>3 DEF CancelFails
    <3>2. failures' \in 0 .. CallFailures
      BY <2>3, AsyncEngineAssumption DEF CancelFails, Typed
    <3>. QED BY <2>1, <2>3, <3>1, <3>2 DEF CancelFails, Typed
  <2>. QED BY <1>2, <2>2, <2>3
<1>3. ASSUME NEW f \in flight, ApplyWrite(f) PROVE Typed'
  <2>1. f[1] \in Job /\ f[3] \in AIJobs
    BY DEF Typed
  <2>. QED BY <1>3, <2>1 DEF ApplyWrite, Typed
<1>4. CASE Shutdown \/ ShutdownReturns
  BY <1>4, TrackedJobs DEF Shutdown, ShutdownReturns, Typed
<1>5. CASE ShutdownTimeout \/ ShutdownCancels
  <2>1. PICK K \in SUBSET Job : Stop(K)
    BY <1>5, TrackedJobs DEF ShutdownTimeout, ShutdownCancels
  <2>2. run' \in [Job -> Coroutine] /\ flight' \subseteq flight
    BY <2>1, StopTyped
  <2>. QED BY <1>5, <2>2 DEF ShutdownTimeout, ShutdownCancels, Typed
<1>6. CASE UNCHANGED vars
  BY <1>6 DEF vars, Typed
<1>. QED BY <1>1, <1>2, <1>3, <1>4, <1>5, <1>6

\* Every step keeps the permits.
LEMMA StepSlots ==
    ASSUME Typed, Slots, [Next]_vars
    PROVE  Slots'
<1>1. run \in [Job -> Coroutine]
  BY DEF Typed
<1>2. CASE UNCHANGED <<run, slots>>
  BY <1>2 DEF Slots, Insiders
<1>3. ASSUME NEW j \in Job, NEW pc \in {"submit", "slot", "load", "execute", "hook", "over"},
             run' = [run EXCEPT ![j].pc = pc],
             \/ /\ Inside([run[j] EXCEPT !.pc = pc]) <=> Inside(run[j])
                /\ slots' = slots
             \/ /\ Inside([run[j] EXCEPT !.pc = pc]) /\ ~Inside(run[j])
                /\ TakeSlot
             \/ /\ ~Inside([run[j] EXCEPT !.pc = pc]) /\ Inside(run[j])
                /\ slots' = slots + 1
      PROVE  Slots'
  <2>1. run' = [run EXCEPT ![j] = [run[j] EXCEPT !.pc = pc]]
    BY <1>3
  <2>. QED BY <1>1, <1>3, <2>1, SlotsStay, SlotTaken, SlotGiven
<1>4. ASSUME NEW j \in Job, NEW pc
      PROVE  pc \in {"submit", "slot", "load", "execute", "hook", "over"} =>
               [run[j] EXCEPT !.pc = pc].pc = pc
  BY <1>1 DEF Coroutine
<1>5. ASSUME NEW j \in Job,
             SubmitJob(j) \/ Enqueue(j) \/ StartExecution(j) \/ EndHook(j)
      PROVE  Slots'
  BY <1>3, <1>4, <1>5 DEF SubmitJob, Enqueue, StartExecution, EndHook, Inside
<1>6. ASSUME NEW j \in Job, AcquireSlot(j) PROVE Slots'
  BY <1>3, <1>4, <1>6 DEF AcquireSlot, Inside
<1>7. ASSUME NEW j \in Job, NEW pc \in {"hook", "over"}, Inside(run[j]), Leave(j, pc)
      PROVE  Slots'
  BY <1>3, <1>4, <1>7 DEF Leave, Inside
<1>8. ASSUME NEW j \in Job, NEW pc \in {"first", "last"}, NEW d, Inside(run[j]),
             run' = [run EXCEPT ![j] = [pc |-> pc, doc |-> d]], UNCHANGED slots
      PROVE  Slots'
  <2>1. Inside([pc |-> pc, doc |-> d])
    BY DEF Inside
  <2>. QED BY <1>1, <1>8, <2>1, SlotsStay
<1>9. ASSUME NEW j \in Job, LoadJob(j) \/ EndExecution(j) \/ EndProcessing(j) \/ CallFails(j)
      PROVE  Slots'
  <2>1. Inside(run[j])
    BY <1>9 DEF LoadJob, EndExecution, EndProcessing, CallFails, Inside
  <2>2. \/ Leave(j, "over") \/ Leave(j, "hook")
        \/ \E d : \/ run' = [run EXCEPT ![j] = [pc |-> "first", doc |-> d]]
                  \/ run' = [run EXCEPT ![j] = [pc |-> "last", doc |-> d]]
    BY <1>9 DEF LoadJob, EndExecution, EndProcessing, CallFails, RunWrites
  <2>3. Leave(j, "over") \/ Leave(j, "hook") \/ UNCHANGED slots
    BY <1>9 DEF LoadJob, EndExecution, EndProcessing, CallFails, RunWrites
  <2>. QED BY <1>7, <1>8, <2>1, <2>2, <2>3
<1>10. ASSUME NEW K \in SUBSET Job, Stop(K) PROVE Slots'
  BY <1>1, <1>10, SlotsFreed
<1>11. ASSUME NEW j \in Job, CancelLoad(j) \/ CancelReturns(j) \/ CancelFails(j)
       PROVE  Slots'
  BY <1>2, <1>10, <1>11 DEF CancelLoad, CancelReturns, CancelFails, StopTask
<1>12. ASSUME NEW f \in flight, ApplyWrite(f) PROVE Slots'
  BY <1>2, <1>12 DEF ApplyWrite
<1>13. CASE Shutdown \/ ShutdownReturns \/ ShutdownTimeout \/ ShutdownCancels
  BY <1>2, <1>10, <1>13, TrackedJobs DEF Shutdown, ShutdownReturns, ShutdownTimeout, ShutdownCancels
<1>14. CASE UNCHANGED vars
  BY <1>2, <1>14 DEF vars
<1>. QED BY <1>5, <1>6, <1>9, <1>11, <1>12, <1>13, <1>14 DEF Next, RunStep

\* Typed and Slots are invariants.
LEMMA BaseInvariant == Spec => [](Typed /\ Slots)
<1>1. Typed /\ [Next]_vars => Typed'
  BY RunTyped, ClientTyped DEF Next
<1>. QED BY <1>1, InitTyped, StepSlots, PTL DEF Spec

\* Every variable keeps its type.
THEOREM AsyncTypeCorrect == Spec => []TypeOK
<1>1. Typed /\ Slots => TypeOK
  <2> SUFFICES ASSUME Typed, Slots PROVE TypeOK
    OBVIOUS
  <2>1. Cardinality(Insiders) \in Nat
    BY FS_CardinalityType DEF Slots
  <2>2. slots \in 0 .. MaxConcurrent
    BY <2>1, AsyncEngineAssumption DEF Slots
  <2>. QED BY <2>2 DEF Typed, TypeOK
<1>. QED BY <1>1, BaseInvariant, PTL

\* The permits of the semaphore are never lost and never multiplied.
THEOREM AsyncSlotsAreKept == Spec => []SlotsAreKept
<1>1. Slots => SlotsAreKept
  BY DEF Slots, SlotsAreKept, Insiders
<1>. QED BY <1>1, BaseInvariant, PTL

(***************************************************************************)
(* What is in flight.                                                      *)
(***************************************************************************)

Who == {"run", "cancel"}

\* A write is acknowledged when it is no longer in flight.
LEMMA SentInFlight ==
    ASSUME Typed, NEW j \in Job, NEW w \in Who
    PROVE  Sent(j, w) <=> InFlight(j, w) # {}
<1>1. ASSUME NEW f \in flight, f[1] = j, f[2] = w PROVE f[3] \in InFlight(j, w)
  <2>1. f = <<j, w, f[3]>> /\ f[3] \in AIJobs
    BY <1>1 DEF Typed
  <2>. QED BY <2>1 DEF InFlight
<1>2. ASSUME NEW d \in InFlight(j, w) PROVE Sent(j, w)
  <2>1. <<j, w, d>> \in flight
    BY DEF InFlight
  <2>. QED BY <2>1 DEF Sent
<1>. QED BY <1>1, <1>2 DEF Sent

\* A write is added.
LEMMA AddedInFlight ==
    ASSUME NEW j \in Job, NEW w \in Who, NEW d \in AIJobs, Send(j, w, d)
    PROVE  /\ InFlight(j, w)' = InFlight(j, w) \cup {d}
           /\ \A k \in Job, v \in Who : k # j \/ v # w => InFlight(k, v)' = InFlight(k, v)
BY DEF Send, InFlight

\* One is applied.
LEMMA AppliedInFlight ==
    ASSUME NEW j \in Job, NEW w \in Who, NEW d \in AIJobs, flight' = flight \ {<<j, w, d>>}
    PROVE  /\ InFlight(j, w)' = InFlight(j, w) \ {d}
           /\ \A k \in Job, v \in Who : k # j \/ v # w => InFlight(k, v)' = InFlight(k, v)
BY DEF InFlight

\* What a coroutine has sent is dropped, and perhaps d sent instead.
LEMMA DroppedInFlight ==
    ASSUME NEW j \in Job, NEW w \in Who, NEW D \in SUBSET AIJobs,
           flight' = {f \in flight : ~(f[1] = j /\ f[2] = w)} \cup {<<j, w, d>> : d \in D}
    PROVE  /\ InFlight(j, w)' = D
           /\ \A k \in Job, v \in Who : k # j \/ v # w => InFlight(k, v)' = InFlight(k, v)
BY DEF InFlight

\* A stop drops some of what the stopped runs have sent.
LEMMA StoppedInFlight ==
    ASSUME NEW K \in SUBSET Job, Stop(K)
    PROVE  \A j \in Job : /\ InFlight(j, "cancel")' = InFlight(j, "cancel")
                          /\ InFlight(j, "run")' \subseteq InFlight(j, "run")
                          /\ j \notin K => InFlight(j, "run")' = InFlight(j, "run")
<1>1. PICK D \in SUBSET {f \in flight : f[1] \in K /\ f[2] = "run"} : flight' = flight \ D
  BY DEF Stop
<1>2. \A j, d : <<j, "cancel", d>> \notin D /\ (<<j, "run", d>> \in D => j \in K)
  <2>1. \A f \in D : f[1] \in K /\ f[2] = "run"
    OBVIOUS
  <2>2. ASSUME NEW j, NEW d, <<j, "cancel", d>> \in D PROVE FALSE
    <3>1. <<j, "cancel", d>>[2] = "run"
      BY <2>1, <2>2
    <3>. QED BY <3>1
  <2>3. ASSUME NEW j, NEW d, <<j, "run", d>> \in D PROVE j \in K
    <3>1. <<j, "run", d>>[1] \in K
      BY <2>1, <2>3
    <3>. QED BY <3>1
  <2>. QED BY <2>2, <2>3
<1>. QED BY <1>1, <1>2 DEF InFlight

(***************************************************************************)
(* A step concerns one job, or stops some.                                 *)
(***************************************************************************)

SameElsewhere(j) ==
    \A k \in Job \ {j} :
        /\ run'[k] = run[k] /\ cancel'[k] = cancel[k] /\ jobs'[k] = jobs[k]
        /\ InFlight(k, "run")' = InFlight(k, "run")
        /\ InFlight(k, "cancel")' = InFlight(k, "cancel")

\* A step that concerns one job needs to be looked at for that job only.
LEMMA OneJob ==
    ASSUME AllOK, NEW j \in Job, SameElsewhere(j),
           JobOK(run'[j], cancel'[j].pc, jobs'[j].status,
                 InFlight(j, "run")', InFlight(j, "cancel")')
    PROVE  AllOK'
<1>1. ASSUME NEW k \in Job
      PROVE  JobOK(run'[k], cancel'[k].pc, jobs'[k].status,
                   InFlight(k, "run")', InFlight(k, "cancel")')
  <2>1. CASE k = j
    BY <2>1
  <2>2. CASE k # j
    BY <2>2 DEF AllOK, SameElsewhere
  <2>. QED BY <2>1, <2>2
<1>. QED BY <1>1 DEF AllOK

\* A run moves on: what its next step may rely on.
LEMMA RunMoves ==
    ASSUME Typed, AllOK, NEW j \in Job, NEW c \in Coroutine,
           run' = [run EXCEPT ![j] = c], UNCHANGED <<jobs, cancel, flight>>,
           JobOK(c, cancel[j].pc, jobs[j].status, InFlight(j, "run"), InFlight(j, "cancel"))
    PROVE  AllOK'
<1>1. \A k \in Job, v \in Who : InFlight(k, v)' = InFlight(k, v)
  BY DEF InFlight
<1>2. run'[j] = c /\ cancel'[j] = cancel[j] /\ jobs'[j] = jobs[j]
  BY DEF Typed
<1>3. SameElsewhere(j)
  BY <1>1 DEF SameElsewhere, Who, Typed
<1>. QED BY <1>1, <1>2, <1>3, OneJob DEF Who

\* A run goes on to its next await without a write.
LEMMA GoesOnOK ==
    ASSUME Typed, AllOK, NEW j \in Job,
           \/ Enqueue(j) \/ AcquireSlot(j) \/ StartExecution(j) \/ EndProcessing(j) \/ EndHook(j)
    PROVE  AllOK'
<1> DEFINE r == run[j]
           R == InFlight(j, "run")
           C == InFlight(j, "cancel")
<1>1. JobOK(r, cancel[j].pc, jobs[j].status, R, C) /\ r \in Coroutine
  BY DEF AllOK, Typed
<1>2. UNCHANGED <<jobs, cancel, flight>>
  BY DEF Enqueue, AcquireSlot, StartExecution, EndProcessing, EndHook
<1>3. PICK pc \in {"slot", "load", "execute", "hook", "over"} :
        /\ run' = [run EXCEPT ![j].pc = pc]
        /\ \/ pc = "slot" /\ r.pc = "submit"
           \/ pc = "load" /\ r.pc = "slot"
           \/ pc = "execute" /\ r.pc = "first" /\ R = {}
           \/ pc = "hook" /\ r.pc = "last" /\ R = {}
           \/ pc = "over" /\ r.pc = "hook"
  BY SentInFlight
     DEF Enqueue, AcquireSlot, StartExecution, EndProcessing, EndHook, Leave, Acknowledged, Who
<1> DEFINE c == [r EXCEPT !.pc = pc]
<1>4. c \in Coroutine /\ c.pc = pc /\ c.doc = r.doc /\ run' = [run EXCEPT ![j] = c]
  <2>1. run' = [run EXCEPT ![j] = c]
    BY <1>3
  <2>2. pc \in Points
    BY <1>3 DEF Points
  <2>3. r \in Coroutine
    BY <1>1
  <2> HIDE DEF r
  <2>4. c \in Coroutine /\ c.pc = pc /\ c.doc = r.doc
    BY <2>2, <2>3, GoesOn, Zenon
  <2>. QED BY <2>1, <2>4
<1> HIDE DEF r, R, C, c
<1>5. JobOK(c, cancel[j].pc, jobs[j].status, R, C)
  BY <1>1, <1>3, <1>4 DEF JobOK
<1>. QED BY <1>2, <1>4, <1>5, RunMoves DEF R, C

\* A new job is stored as pending.
LEMMA SubmitOK ==
    ASSUME Typed, AllOK, NEW j \in Job, SubmitJob(j)
    PROVE  AllOK'
<1> DEFINE r == run[j]
           R == InFlight(j, "run")
           C == InFlight(j, "cancel")
           c == [r EXCEPT !.pc = "submit"]
<1>1. JobOK(r, cancel[j].pc, jobs[j].status, R, C) /\ r \in Coroutine /\ r.pc = "none"
  BY DEF AllOK, Typed, SubmitJob
<1>2. run'[j] = c /\ c.pc = "submit" /\ jobs'[j].status = Pending /\ cancel'[j] = cancel[j]
  BY <1>1, GoesOn, AIJobOps DEF SubmitJob, Typed
<1>3. \A k \in Job, v \in Who : InFlight(k, v)' = InFlight(k, v)
  BY DEF InFlight, SubmitJob
<1>4. SameElsewhere(j)
  BY <1>3 DEF SameElsewhere, Who, Typed, SubmitJob
<1> HIDE DEF r, R, C, c
<1>5. JobOK(c, cancel[j].pc, Pending, R, C)
  BY <1>1, <1>2 DEF JobOK
<1>. QED BY <1>2, <1>3, <1>4, <1>5, OneJob DEF R, C, Who

\* A run sends a write of its job, and nothing it sent before is in flight.
LEMMA WritesOK ==
    ASSUME Typed, AllOK, NEW j \in Job, NEW pc \in {"first", "last"}, NEW d \in AIJobs,
           RunWrites(j, pc, d), UNCHANGED <<jobs, cancel>>,
           run[j].pc \in {"load", "execute"},
           cancel[j].pc = "none" => Lawful(jobs[j].status, d),
           pc = "first" => d.status = Running /\ jobs[j].status = Pending,
           cancel[j].pc # "returned"
    PROVE  AllOK'
<1> DEFINE r == run[j]
           R == InFlight(j, "run")
           C == InFlight(j, "cancel")
           c == [pc |-> pc, doc |-> d]
<1>1. JobOK(r, cancel[j].pc, jobs[j].status, R, C)
  BY DEF AllOK
<1>2. /\ InFlight(j, "run")' = R \cup {d} /\ InFlight(j, "cancel")' = C
      /\ \A k \in Job, v \in Who : k # j => InFlight(k, v)' = InFlight(k, v)
  BY AddedInFlight DEF RunWrites, Who
<1>3. run'[j] = c /\ c.pc = pc /\ c.doc = d /\ cancel'[j] = cancel[j] /\ jobs'[j] = jobs[j]
  BY DEF RunWrites, Typed
<1>4. SameElsewhere(j)
  BY <1>2 DEF SameElsewhere, Who, Typed, RunWrites
<1>5. R = {}
  BY <1>1 DEF JobOK
<1> HIDE DEF R, C, c
<1>6. JobOK(c, cancel[j].pc, jobs[j].status, {d}, C)
  BY <1>1, <1>3 DEF JobOK
<1>. QED BY <1>2, <1>3, <1>4, <1>5, <1>6, OneJob

\* Five different statuses.
LEMMA StatusesDiffer ==
    /\ Pending # Running /\ Pending # Completed /\ Pending # Failed /\ Pending # Cancelled
    /\ Running # Completed /\ Running # Failed /\ Running # Cancelled
    /\ Completed # Failed /\ Completed # Cancelled /\ Failed # Cancelled
    /\ Absent \notin Statuses
BY DEF Pending, Running, Completed, Failed, Cancelled, Absent, Statuses

\* What a run makes of the job it loads.
LEMMA LoadOK ==
    ASSUME Typed, AllOK, NEW j \in Job, LoadJob(j)
    PROVE  AllOK'
<1> DEFINE d == jobs[j]
<1>1. /\ JobOK(run[j], cancel[j].pc, d.status, InFlight(j, "run"), InFlight(j, "cancel"))
      /\ d \in AIJobs /\ run[j].pc = "load" /\ run[j] \in Coroutine
      /\ UNCHANGED <<jobs, cancel>>
  BY DEF AllOK, Typed, LoadJob
<1>2. cancel[j].pc = "returned" => d.status = Cancelled
  BY <1>1 DEF JobOK
<1>3. CASE MayStart(d) /\ RunWrites(j, "first", MarkRunning(d))
  <2>1. d.status = Pending /\ cancel[j].pc # "returned"
    BY <1>2, <1>3, StatusesDiffer DEF MayStart
  <2>2. MarkRunning(d) \in AIJobs /\ MarkRunning(d).status = Running
    BY <1>1, AIJobOps
  <2>3. Lawful(d.status, MarkRunning(d))
    BY <2>1, <2>2 DEF Lawful
  <2>. QED BY <1>1, <1>3, <2>1, <2>2, <2>3, WritesOK
<1>4. CASE CanFail(d) /\ RunWrites(j, "last", FailJob(d))
  <2>1. d.status \in {Pending, Running} /\ cancel[j].pc # "returned"
    BY <1>2, <1>4, StatusesDiffer DEF CanFail
  <2>2. FailJob(d) \in AIJobs /\ FailJob(d).status = Failed
    BY <1>1, AIJobOps
  <2>3. Lawful(d.status, FailJob(d))
    BY <2>1, <2>2 DEF Lawful
  <2>. QED BY <1>1, <1>4, <2>1, <2>2, <2>3, WritesOK
<1>5. CASE Leave(j, "over") /\ UNCHANGED flight
  <2> DEFINE c == [run[j] EXCEPT !.pc = "over"]
  <2>1. c \in Coroutine /\ c.pc = "over" /\ c.doc = run[j].doc /\ run' = [run EXCEPT ![j] = c]
    BY <1>1, <1>5, GoesOn DEF Leave, Points
  <2> HIDE DEF c
  <2>2. JobOK(c, cancel[j].pc, d.status, InFlight(j, "run"), InFlight(j, "cancel"))
    BY <1>1, <2>1 DEF JobOK
  <2>. QED BY <1>1, <1>5, <2>1, <2>2, RunMoves
<1>. QED BY <1>3, <1>4, <1>5 DEF LoadJob

\* What it makes of the task's result.
LEMMA EndExecutionOK ==
    ASSUME Typed, AllOK, NEW j \in Job, EndExecution(j)
    PROVE  AllOK'
<1>1. /\ JobOK(run[j], cancel[j].pc, jobs[j].status, InFlight(j, "run"), InFlight(j, "cancel"))
      /\ run[j].doc \in AIJobs /\ run[j].pc = "execute" /\ UNCHANGED <<jobs, cancel>>
  BY DEF AllOK, Typed, EndExecution, Coroutine
<1>2. PICK r \in TaskResult : RunWrites(j, "last", AfterTask(run[j].doc, r))
  BY DEF EndExecution
<1> DEFINE d == AfterTask(run[j].doc, r)
<1>3. d \in AIJobs /\ d.status \in {Completed, Failed}
  BY <1>1, AIJobOps
<1>4. cancel[j].pc # "returned" /\ (cancel[j].pc = "none" => jobs[j].status = Running)
  BY <1>1 DEF JobOK
<1>5. cancel[j].pc = "none" => Lawful(jobs[j].status, d)
  BY <1>3, <1>4 DEF Lawful
<1>. QED BY <1>1, <1>2, <1>3, <1>4, <1>5, WritesOK

\* A failing first write makes the job fail; any other failing call ends the run.
LEMMA CallFailsOK ==
    ASSUME Typed, AllOK, NEW j \in Job, CallFails(j)
    PROVE  AllOK'
<1> DEFINE r == run[j]
           R == InFlight(j, "run")
           C == InFlight(j, "cancel")
           failed == FailJob(r.doc)
<1>1. /\ JobOK(r, cancel[j].pc, jobs[j].status, R, C) /\ r \in Coroutine /\ r.doc \in AIJobs
      /\ cancel' = cancel /\ jobs' = jobs /\ r.pc \in {"load", "first", "last"}
  BY DEF AllOK, Typed, Coroutine, CallFails
<1>2. PICK c \in Coroutine, D \in SUBSET AIJobs :
        /\ run' = [run EXCEPT ![j] = c]
        /\ flight' = {f \in flight : ~(f[1] = j /\ f[2] = "run")} \cup {<<j, "run", d>> : d \in D}
        /\ \/ c.pc = "over" /\ D = {}
           \/ r.pc = "first" /\ c.pc = "last" /\ c.doc = failed /\ D = {failed}
  <2>1. CASE r.pc = "first"
    <3>1. [pc |-> "last", doc |-> failed] \in Coroutine /\ {failed} \in SUBSET AIJobs
      BY <1>1, AIJobOps DEF Coroutine
    <3>2. {<<j, "run", d>> : d \in {failed}} = {<<j, "run", failed>>}
      OBVIOUS
    <3>. QED BY <2>1, <3>1, <3>2 DEF CallFails
  <2>2. CASE r.pc # "first"
    <3>1. [r EXCEPT !.pc = "over"] \in Coroutine /\ [r EXCEPT !.pc = "over"].pc = "over"
      BY <1>1, GoesOn DEF Points
    <3>2. {<<j, "run", d>> : d \in {}} = {}
      OBVIOUS
    <3>3. /\ run' = [run EXCEPT ![j] = [r EXCEPT !.pc = "over"]]
          /\ flight' = {f \in flight : ~(f[1] = j /\ f[2] = "run")}
      BY <2>2 DEF CallFails, Leave
    <3>. QED BY <3>1, <3>2, <3>3
  <2>. QED BY <2>1, <2>2
<1>3. /\ InFlight(j, "run")' = D /\ InFlight(j, "cancel")' = C
      /\ \A k \in Job, v \in Who : k # j => InFlight(k, v)' = InFlight(k, v)
  BY <1>2, DroppedInFlight DEF Who
<1>4. SameElsewhere(j) /\ run'[j] = c
  BY <1>1, <1>2, <1>3 DEF SameElsewhere, Who, Typed
<1>5. failed.status = Failed
  BY <1>1, AIJobOps
<1> HIDE DEF r, R, C, failed
<1>6. JobOK(c, cancel[j].pc, jobs[j].status, D, C)
  BY <1>1, <1>2, <1>5 DEF JobOK, Lawful
<1>. QED BY <1>1, <1>3, <1>4, <1>6, OneJob

\* A run that is stopped leaves a write, but does nothing any more.
LEMMA StopOK ==
    ASSUME Typed, AllOK, NEW K \in SUBSET Job, Stop(K), UNCHANGED <<jobs, cancel>>
    PROVE  AllOK'
<1>1. ASSUME NEW j \in Job
      PROVE  JobOK(run'[j], cancel'[j].pc, jobs'[j].status,
                   InFlight(j, "run")', InFlight(j, "cancel")')
  <2>1. JobOK(run[j], cancel[j].pc, jobs[j].status, InFlight(j, "run"), InFlight(j, "cancel"))
    BY DEF AllOK
  <2>2. /\ InFlight(j, "cancel")' = InFlight(j, "cancel")
        /\ InFlight(j, "run")' \subseteq InFlight(j, "run")
        /\ j \notin K => InFlight(j, "run")' = InFlight(j, "run")
    BY StoppedInFlight
  <2>3. CASE j \notin K
    BY <2>1, <2>2, <2>3, StopTyped
  <2>4. CASE j \in K
    <3>1. run'[j].pc = "over" /\ run'[j].doc = run[j].doc
      BY <2>4, StopTyped
    <3>. QED BY <2>1, <2>2, <3>1 DEF JobOK
  <2>. QED BY <2>3, <2>4
<1>. QED BY <1>1 DEF AllOK

\* A client's cancellation of a stored job is on its way.
LEMMA CancelLoadOK ==
    ASSUME Typed, AllOK, NEW j \in Job, CancelLoad(j)
    PROVE  AllOK'
<1> DEFINE r == run[j]
           R == InFlight(j, "run")
           C == InFlight(j, "cancel")
           d == MarkCancelled(jobs[j])
<1>1. /\ JobOK(r, "none", jobs[j].status, R, C) /\ jobs[j].status \in {Pending, Running}
      /\ cancel'[j].pc = "write" /\ jobs' = jobs /\ run' = run
  BY DEF AllOK, Typed, CancelLoad, CanCancel
<1>2. d \in AIJobs /\ d.status = Cancelled
  BY AIJobOps DEF Typed
<1>3. /\ InFlight(j, "cancel")' = C \cup {d} /\ InFlight(j, "run")' = R
      /\ \A k \in Job, v \in Who : k # j => InFlight(k, v)' = InFlight(k, v)
  BY <1>2, AddedInFlight DEF CancelLoad, Who
<1>4. SameElsewhere(j)
  BY <1>3 DEF SameElsewhere, Who, Typed, CancelLoad
<1> HIDE DEF r, R, C, d
<1>5. r.pc # "none"
  BY <1>1, StatusesDiffer DEF JobOK, Statuses
<1>6. JobOK(r, "write", jobs[j].status, R, C \cup {d})
  BY <1>1, <1>2, <1>5 DEF JobOK
<1>. QED BY <1>1, <1>3, <1>4, <1>6, OneJob DEF r

\* When it returns, the run is over, or will find its job cancelled.
LEMMA CancelReturnsOK ==
    ASSUME Typed, AllOK, NEW j \in Job, CancelReturns(j)
    PROVE  AllOK'
<1> DEFINE r == run[j]
           R == InFlight(j, "run")
           C == InFlight(j, "cancel")
<1>1. /\ JobOK(r, "write", jobs[j].status, R, C) /\ C = {} /\ jobs' = jobs
      /\ cancel' = [cancel EXCEPT ![j].pc = "returned"] /\ r \in Coroutine
  BY SentInFlight DEF AllOK, CancelReturns, Who, Typed
<1>2. cancel'[j].pc = "returned" /\ \A k \in Job \ {j} : cancel'[k] = cancel[k]
  BY <1>1, GoesOn DEF Typed
<1>3. CASE j \in Tracked
  <2>1. Stop({j}) /\ {j} \in SUBSET Job
    BY <1>3 DEF CancelReturns, StopTask
  <2>2. /\ InFlight(j, "cancel")' = C /\ InFlight(j, "run")' \subseteq R
        /\ \A k \in Job, v \in Who : k # j => InFlight(k, v)' = InFlight(k, v)
    BY <2>1, StoppedInFlight DEF Who
  <2>3. run'[j].pc = "over" /\ run'[j].doc = r.doc /\ \A k \in Job \ {j} : run'[k] = run[k]
    BY <2>1, StopTyped
  <2>4. SameElsewhere(j)
    BY <1>1, <1>2, <2>2, <2>3 DEF SameElsewhere, Who
  <2> HIDE DEF r, R, C
  <2>5. JobOK(run'[j], "returned", jobs[j].status, InFlight(j, "run")', C)
    BY <1>1, <2>2, <2>3 DEF JobOK
  <2>. QED BY <1>1, <1>2, <2>2, <2>4, <2>5, OneJob
<1>4. CASE j \notin Tracked
  <2>1. UNCHANGED <<run, flight>> /\ r.pc \in {"none", "submit", "over"}
    BY <1>4 DEF CancelReturns, StopTask, Tracked
  <2>2. \A k \in Job, v \in Who : InFlight(k, v)' = InFlight(k, v)
    BY <2>1 DEF InFlight
  <2>3. SameElsewhere(j)
    BY <1>1, <1>2, <2>1, <2>2 DEF SameElsewhere, Who
  <2>4. InFlight(j, "run")' = R /\ InFlight(j, "cancel")' = C /\ run'[j] = r
    BY <2>1, <2>2 DEF Who
  <2> HIDE DEF r, R, C
  <2>5. JobOK(r, "returned", jobs[j].status, R, C)
    BY <1>1, <2>1 DEF JobOK
  <2>. QED BY <1>1, <1>2, <2>3, <2>4, <2>5, OneJob
<1>. QED BY <1>3, <1>4

\* When its write fails, the write is not under way any more.
LEMMA CancelFailsOK ==
    ASSUME Typed, AllOK, NEW j \in Job, CancelFails(j)
    PROVE  AllOK'
<1> DEFINE r == run[j]
           R == InFlight(j, "run")
<1>1. /\ JobOK(r, "write", jobs[j].status, R, InFlight(j, "cancel")) /\ jobs' = jobs /\ run' = run
      /\ cancel' = [cancel EXCEPT ![j].pc = "raised"]
  BY DEF AllOK, CancelFails
<1>2. cancel'[j].pc = "raised" /\ \A k \in Job \ {j} : cancel'[k] = cancel[k]
  BY <1>1, GoesOn DEF Typed
<1>3. /\ InFlight(j, "cancel")' = {} /\ InFlight(j, "run")' = R
      /\ \A k \in Job, v \in Who : k # j => InFlight(k, v)' = InFlight(k, v)
  <2>1. {<<j, "cancel", d>> : d \in {}} = {} /\ {} \in SUBSET AIJobs
    OBVIOUS
  <2>2. flight' = {f \in flight : ~(f[1] = j /\ f[2] = "cancel")} \cup {<<j, "cancel", d>> : d \in {}}
    BY <2>1 DEF CancelFails
  <2>. QED BY <2>1, <2>2, DroppedInFlight DEF Who
<1>4. SameElsewhere(j)
  BY <1>1, <1>2, <1>3 DEF SameElsewhere, Who
<1> HIDE DEF r, R
<1>5. JobOK(r, "raised", jobs[j].status, R, {})
  BY <1>1 DEF JobOK
<1>. QED BY <1>1, <1>2, <1>3, <1>4, <1>5, OneJob DEF r

\* A write is applied to the job as it is stored by then.
LEMMA ApplyWriteOK ==
    ASSUME Typed, AllOK, NEW f \in flight, ApplyWrite(f)
    PROVE  AllOK'
<1>1. PICK j \in Job, w \in Who, d \in AIJobs : f = <<j, w, d>>
  BY DEF Typed, Who
<1> DEFINE r == run[j]
           s == jobs[j].status
           R == InFlight(j, "run")
           C == InFlight(j, "cancel")
<1>2. /\ JobOK(r, cancel[j].pc, s, R, C) /\ d \in InFlight(j, w)
      /\ run' = run /\ cancel' = cancel /\ flight' = flight \ {<<j, w, d>>}
      /\ jobs' = [jobs EXCEPT ![j] = d]
  BY <1>1 DEF AllOK, InFlight, ApplyWrite
<1>3. /\ InFlight(j, w)' = InFlight(j, w) \ {d}
      /\ \A k \in Job, v \in Who : k # j \/ v # w => InFlight(k, v)' = InFlight(k, v)
  BY <1>2, AppliedInFlight
<1>4. jobs'[j] = d /\ SameElsewhere(j)
  BY <1>2, <1>3 DEF Typed, SameElsewhere, Who
<1>5. CASE w = "run"
  <2>1. InFlight(j, "run")' = R \ {d} /\ InFlight(j, "cancel")' = C /\ d \in R
    BY <1>2, <1>3, <1>5 DEF Who
  <2> HIDE DEF r, s, R, C
  <2>2. R \ {d} = {} /\ d = r.doc /\ r.pc \in {"first", "last", "over"}
    BY <1>2, <2>1 DEF JobOK
  <2>3. JobOK(r, cancel[j].pc, d.status, {}, C)
    BY <1>2, <2>2 DEF JobOK
  <2>. QED BY <1>2, <1>4, <2>1, <2>2, <2>3, OneJob DEF r
<1>6. CASE w = "cancel"
  <2>1. InFlight(j, "cancel")' = C \ {d} /\ InFlight(j, "run")' = R /\ d \in C
    BY <1>2, <1>3, <1>6 DEF Who
  <2> HIDE DEF r, s, R, C
  <2>2. d.status = Cancelled /\ cancel[j].pc = "write"
    BY <1>2, <2>1 DEF JobOK
  <2>3. JobOK(r, cancel[j].pc, d.status, R, C \ {d})
    BY <1>2, <2>2 DEF JobOK
  <2>. QED BY <1>2, <1>4, <2>1, <2>3, OneJob DEF r
<1>. QED BY <1>5, <1>6 DEF Who

\* AllOK is an invariant.
LEMMA AllOKInvariant == Spec => [](Typed /\ AllOK)
<1>1. Typed /\ AllOK /\ [Next]_vars => AllOK'
  <2> SUFFICES ASSUME Typed, AllOK, [Next]_vars PROVE AllOK'
    OBVIOUS
  <2>1. CASE UNCHANGED <<jobs, run, cancel, flight>>
    BY <2>1 DEF AllOK, InFlight
  <2>2. ASSUME NEW j \in Job, SubmitJob(j) \/ RunStep(j) \/ CallFails(j) PROVE AllOK'
    BY <2>2, SubmitOK, GoesOnOK, LoadOK, EndExecutionOK, CallFailsOK DEF RunStep
  <2>3. ASSUME NEW j \in Job, CancelLoad(j) \/ CancelReturns(j) \/ CancelFails(j) PROVE AllOK'
    BY <2>3, CancelLoadOK, CancelReturnsOK, CancelFailsOK
  <2>4. ASSUME NEW f \in flight, ApplyWrite(f) PROVE AllOK'
    BY <2>4, ApplyWriteOK
  <2>5. CASE ShutdownTimeout \/ ShutdownCancels
    <3>1. PICK K \in SUBSET Job : Stop(K)
      BY <2>5, TrackedJobs DEF ShutdownTimeout, ShutdownCancels
    <3>. QED BY <2>5, <3>1, StopOK DEF ShutdownTimeout, ShutdownCancels
  <2>6. CASE Shutdown \/ ShutdownReturns \/ UNCHANGED vars
    BY <2>1, <2>6 DEF Shutdown, ShutdownReturns, vars
  <2>. QED BY <2>2, <2>3, <2>4, <2>5, <2>6 DEF Next
<1>2. Spec => []Typed
  BY BaseInvariant, PTL
<1>. QED BY <1>1, <1>2, InitTyped, PTL DEF Spec

\* A job never executes once its cancellation has returned.
THEOREM AsyncCancelledNeverExecutes == Spec => []CancelledNeverExecutes
<1>1. AllOK => CancelledNeverExecutes
  BY DEF AllOK, JobOK, CancelledNeverExecutes
<1>. QED BY <1>1, AllOKInvariant, PTL

(***************************************************************************)
(* Shutdown.                                                               *)
(***************************************************************************)

\* A run that was enqueued stays so, and one that is over stays over.
GoesForward(k) ==
    /\ run[k].pc = "over" => run'[k].pc = "over"
    /\ run[k].pc \notin {"none", "submit"} => run'[k].pc \notin {"none", "submit"}

\* One run moves on, and it was not over.
LEMMA OneGoesForward ==
    ASSUME Typed, NEW j \in Job, SubmitJob(j) \/ RunStep(j) \/ CallFails(j)
    PROVE  \A k \in Job : GoesForward(k)
<1>1. run[j].pc # "over" /\ run[j] \in Coroutine
  BY DEF Typed, RunStep, SubmitJob, Enqueue, AcquireSlot, LoadJob, StartExecution, EndExecution,
         EndProcessing, EndHook, CallFails
<1>2. ASSUME NEW pc \in {"slot", "load", "first", "execute", "last", "hook", "over"}, NEW c,
             c.pc = pc, run' = [run EXCEPT ![j] = c]
      PROVE  \A k \in Job : GoesForward(k)
  BY <1>1, <1>2 DEF GoesForward, Typed
<1>3. CASE SubmitJob(j)
  BY <1>1, <1>3 DEF SubmitJob, GoesForward, Typed
<1>4. ASSUME NEW pc \in {"slot", "load", "execute", "hook", "over"},
             run' = [run EXCEPT ![j].pc = pc]
      PROVE  \A k \in Job : GoesForward(k)
  <2>1. run' = [run EXCEPT ![j] = [run[j] EXCEPT !.pc = pc]]
    BY <1>4
  <2>2. [run[j] EXCEPT !.pc = pc].pc = pc
    BY <1>1, GoesOn
  <2>. QED BY <1>2, <2>1, <2>2
<1>5. ASSUME NEW pc \in {"first", "last"}, NEW d, run' = [run EXCEPT ![j] = [pc |-> pc, doc |-> d]]
      PROVE  \A k \in Job : GoesForward(k)
  <2>1. [pc |-> pc, doc |-> d].pc = pc
    OBVIOUS
  <2>. QED BY <1>2, <1>5, <2>1
<1>6. CASE \/ Enqueue(j) \/ AcquireSlot(j) \/ StartExecution(j) \/ EndProcessing(j) \/ EndHook(j)
           \/ Leave(j, "over")
  BY <1>4, <1>6 DEF Enqueue, AcquireSlot, StartExecution, EndProcessing, EndHook, Leave
<1>7. CASE LoadJob(j) \/ EndExecution(j) \/ CallFails(j)
  <2>1. \/ Leave(j, "over")
        \/ \E d : \/ run' = [run EXCEPT ![j] = [pc |-> "first", doc |-> d]]
                  \/ run' = [run EXCEPT ![j] = [pc |-> "last", doc |-> d]]
    BY <1>7 DEF LoadJob, EndExecution, CallFails, RunWrites
  <2>. QED BY <1>5, <1>6, <2>1
<1>. QED BY <1>3, <1>6, <1>7 DEF RunStep

\* Runs that are stopped are over.
LEMMA StoppedGoForward ==
    ASSUME Typed, NEW K \in SUBSET Job, Stop(K)
    PROVE  \A k \in Job : GoesForward(k)
BY StopTyped DEF GoesForward

\* No step takes a run back.
LEMMA AllGoForward ==
    ASSUME Typed, [Next]_vars
    PROVE  \A k \in Job : GoesForward(k)
<1>1. CASE UNCHANGED run
  BY <1>1 DEF GoesForward
<1>2. ASSUME NEW j \in Job, CancelLoad(j) \/ CancelReturns(j) \/ CancelFails(j)
      PROVE  UNCHANGED run \/ \E K \in SUBSET Job : Stop(K)
  BY <1>2 DEF CancelLoad, CancelReturns, CancelFails, StopTask
<1>3. ASSUME Shutdown \/ ShutdownReturns \/ ShutdownTimeout \/ ShutdownCancels
      PROVE  UNCHANGED run \/ \E K \in SUBSET Job : Stop(K)
  BY <1>3, TrackedJobs DEF Shutdown, ShutdownReturns, ShutdownTimeout, ShutdownCancels
<1>4. ASSUME NEW f \in flight, ApplyWrite(f) PROVE UNCHANGED run
  BY <1>4 DEF ApplyWrite
<1>. QED BY <1>1, <1>2, <1>3, <1>4, OneGoesForward, StoppedGoForward DEF Next, vars

\* Awaited is an invariant.
LEMMA AwaitedInvariant == Spec => []Awaited
<1>1. Typed /\ Typed' /\ Awaited /\ [Next]_vars => Awaited'
  <2> SUFFICES ASSUME Typed, Typed', Awaited, [Next]_vars PROVE Awaited'
    OBVIOUS
  <2>1. (\A k \in Job : GoesForward(k)) /\ shutdown.waits \subseteq Job
    BY AllGoForward DEF Typed
  <2>2. CASE UNCHANGED shutdown
    BY <2>1, <2>2 DEF Awaited, GoesForward
  <2>3. CASE Shutdown
    <3>1. /\ \A j \in shutdown'.waits : run[j].pc \notin {"none", "submit", "over"}
          /\ shutdown'.pc = "returned" => shutdown'.waits = {}
          /\ run' = run
      BY <2>3 DEF Shutdown, Tracked
    <3>. QED BY <3>1 DEF Awaited
  <2>4. CASE ShutdownReturns
    <3>1. shutdown'.waits = shutdown.waits /\ run' = run
      BY <2>4 DEF ShutdownReturns, Typed
    <3>2. \A j \in shutdown.waits : run[j].pc \in {"none", "submit", "over"}
      BY <2>1, <2>4 DEF ShutdownReturns, AllEnded, Tracked
    <3>. QED BY <3>1, <3>2 DEF Awaited
  <2>5. CASE ShutdownTimeout
    <3>1. shutdown'.waits = shutdown.waits /\ shutdown'.pc = "cancel"
      BY <2>5 DEF ShutdownTimeout, Typed
    <3>. QED BY <2>1, <3>1 DEF Awaited, GoesForward
  <2>6. CASE ShutdownCancels
    <3>1. shutdown'.waits = shutdown.waits
      BY <2>6 DEF ShutdownCancels, Typed
    <3>2. \A j \in Tracked : run'[j].pc = "over"
      BY <2>6, TrackedJobs, StopTyped DEF ShutdownCancels
    <3>3. ASSUME NEW j \in shutdown.waits PROVE run'[j].pc = "over"
      <4>1. j \in Tracked \/ run[j].pc = "over"
        BY <2>1 DEF Awaited, Tracked
      <4>. QED BY <2>1, <3>2, <4>1 DEF GoesForward
    <3>. QED BY <3>1, <3>3 DEF Awaited
  <2>7. \/ UNCHANGED shutdown \/ Shutdown \/ ShutdownReturns \/ ShutdownTimeout \/ ShutdownCancels
    BY DEF Next, vars, RunStep, SubmitJob, Enqueue, AcquireSlot, LoadJob, StartExecution,
           EndExecution, EndProcessing, EndHook, CallFails, CancelLoad, CancelReturns, CancelFails,
           ApplyWrite
  <2>. QED BY <2>2, <2>3, <2>4, <2>5, <2>6, <2>7
<1>2. Spec => []Typed
  BY BaseInvariant, PTL
<1>. QED BY <1>1, <1>2, InitTyped, PTL DEF Spec

\* A shutdown that has returned leaves none of the tasks that were in flight.
THEOREM AsyncShutdownLeavesNothing == Spec => []ShutdownLeavesNothing
<1>1. Awaited => ShutdownLeavesNothing
  BY DEF Awaited, ShutdownLeavesNothing, Tracked
<1>. QED BY <1>1, AwaitedInvariant, PTL

(***************************************************************************)
(* The engine implements its lifecycle.                                    *)
(***************************************************************************)

\* The abstract specification has the same statuses.
LEMMA SameStatuses ==
    /\ Lifecycle!Pending = Pending /\ Lifecycle!Running = Running
    /\ Lifecycle!Completed = Completed /\ Lifecycle!Failed = Failed
    /\ Lifecycle!Cancelled = Cancelled /\ Lifecycle!Absent = Absent
BY DEF Lifecycle!Pending, Lifecycle!Running, Lifecycle!Completed, Lifecycle!Failed,
       Lifecycle!Cancelled, Lifecycle!Absent,
       Pending, Running, Completed, Failed, Cancelled, Absent

Status == [j \in Job |-> Promised(j)]

\* A step that concerns one job changes its promise at most.
LEMMA OnePromise ==
    ASSUME NEW j \in Job, \A k \in Job \ {j} : cancel'[k] = cancel[k] /\ jobs'[k] = jobs[k]
    PROVE  Status' = [Status EXCEPT ![j] = Promised(j)']
BY DEF Status, Promised

\* The insertion of a job is the submission of the lifecycle.
LEMMA SubmitPromise ==
    ASSUME Typed, AllOK, NEW j \in Job, SubmitJob(j)
    PROVE  Lifecycle!Submit(j)
<1>1. /\ JobOK(run[j], cancel[j].pc, jobs[j].status, InFlight(j, "run"), InFlight(j, "cancel"))
      /\ run[j].pc = "none"
  BY DEF AllOK, SubmitJob
<1>2. cancel[j].pc = "none" /\ jobs[j].status = Absent
  BY <1>1 DEF JobOK
<1>3. cancel' = cancel /\ jobs' = [jobs EXCEPT ![j] = NewAIJob]
  BY DEF SubmitJob
<1>4. Promised(j) = Absent /\ Promised(j)' = Pending
  BY <1>2, <1>3, AIJobOps DEF Promised, Typed
<1>5. Status' = [Status EXCEPT ![j] = Pending]
  BY <1>3, <1>4, OnePromise DEF Typed
<1>6. Status[j] = Absent
  BY <1>4 DEF Status
<1>. QED BY <1>5, <1>6, SameStatuses DEF Lifecycle!Submit, Status

\* The promise is cancelled when the client's write is sent, not when it is applied.
LEMMA CancelPromise ==
    ASSUME Typed, NEW j \in Job, CancelLoad(j)
    PROVE  Lifecycle!Cancel(j)
<1>1. cancel[j].pc = "none" /\ jobs[j].status \in {Pending, Running}
  BY DEF CancelLoad, CanCancel
<1>2. jobs' = jobs /\ cancel'[j].pc = "write" /\ \A k \in Job \ {j} : cancel'[k] = cancel[k]
  BY DEF CancelLoad, Typed
<1>3. Promised(j) \in {Pending, Running} /\ Promised(j)' = Cancelled
  BY <1>1, <1>2 DEF Promised
<1>4. Status' = [Status EXCEPT ![j] = Cancelled]
  BY <1>2, <1>3, OnePromise
<1>5. Status[j] \in {Pending, Running}
  BY <1>3 DEF Status
<1>. QED BY <1>4, <1>5, SameStatuses DEF Lifecycle!Cancel, Status

\* A write of the run begins or finishes a job nobody has cancelled, and does
\* nothing to the promise of one somebody has.
LEMMA WritePromise ==
    ASSUME Typed, AllOK, NEW f \in flight, ApplyWrite(f)
    PROVE  (\E j \in Job : Lifecycle!Begin(j) \/ Lifecycle!Finish(j)) \/ UNCHANGED Status
<1>1. PICK j \in Job, w \in Who, d \in AIJobs : f = <<j, w, d>>
  BY DEF Typed, Who
<1>2. /\ JobOK(run[j], cancel[j].pc, jobs[j].status, InFlight(j, "run"), InFlight(j, "cancel"))
      /\ d \in InFlight(j, w)
      /\ cancel' = cancel /\ jobs' = [jobs EXCEPT ![j] = d]
  BY <1>1 DEF AllOK, InFlight, ApplyWrite
<1>3. CASE cancel[j].pc # "none"
  BY <1>2, <1>3 DEF Status, Promised, Typed
<1>4. CASE cancel[j].pc = "none"
  <2>1. w = "run" /\ Lawful(jobs[j].status, d)
    BY <1>2, <1>4 DEF JobOK, Who
  <2>2. Promised(j) = jobs[j].status /\ Promised(j)' = d.status
    BY <1>2, <1>4 DEF Promised, Typed
  <2>3. Status' = [Status EXCEPT ![j] = d.status]
    BY <1>2, <2>2, OnePromise DEF Typed
  <2>4. Status[j] = jobs[j].status
    BY <2>2 DEF Status
  <2>5. Lifecycle!Begin(j) \/ Lifecycle!Finish(j)
    BY <2>1, <2>3, <2>4, SameStatuses DEF Lawful, Lifecycle!Begin, Lifecycle!Finish, Status
  <2>. QED BY <2>5
<1>. QED BY <1>3, <1>4

\* Every other step leaves what is promised alone.
LEMMA StepPromise ==
    ASSUME Typed, AllOK, [Next]_vars
    PROVE  [Lifecycle!Next]_Status
<1>1. ASSUME UNCHANGED <<jobs, cancel>> PROVE UNCHANGED Status
  BY <1>1 DEF Status, Promised
<1>2. ASSUME NEW j \in Job, CancelReturns(j) \/ CancelFails(j) PROVE UNCHANGED Status
  <2>1. cancel[j].pc = "write" /\ jobs' = jobs /\ \A k \in Job \ {j} : cancel'[k] = cancel[k]
    BY <1>2 DEF CancelReturns, CancelFails, Typed
  <2>2. cancel'[j].pc # "none"
    <3>1. PICK pc \in {"returned", "raised"} : cancel' = [cancel EXCEPT ![j].pc = pc]
      BY <1>2 DEF CancelReturns, CancelFails
    <3>2. [cancel[j] EXCEPT !.pc = pc].pc = pc
      BY GoesOn DEF Typed, Points
    <3>. QED BY <3>1, <3>2 DEF Typed
  <2>. QED BY <2>1, <2>2 DEF Status, Promised
<1>3. ASSUME NEW j \in Job, SubmitJob(j) \/ CancelLoad(j)
      PROVE  Lifecycle!Next
  BY <1>3, SubmitPromise, CancelPromise DEF Lifecycle!Next
<1>4. ASSUME NEW f \in flight, ApplyWrite(f) PROVE Lifecycle!Next \/ UNCHANGED Status
  BY <1>4, WritePromise DEF Lifecycle!Next
<1>5. ASSUME NEW j \in Job, RunStep(j) \/ CallFails(j) PROVE UNCHANGED <<jobs, cancel>>
  BY <1>5 DEF RunStep, Enqueue, AcquireSlot, LoadJob, StartExecution, EndExecution, EndProcessing,
              EndHook, CallFails
<1>6. CASE Shutdown \/ ShutdownReturns \/ ShutdownTimeout \/ ShutdownCancels \/ UNCHANGED vars
  BY <1>1, <1>6 DEF Shutdown, ShutdownReturns, ShutdownTimeout, ShutdownCancels, vars
<1>. QED BY <1>1, <1>2, <1>3, <1>4, <1>5, <1>6 DEF Next

\* What is promised of a job moves along the lifecycle of the engine.
THEOREM AsyncFollowsLifecycle == Spec => FollowsLifecycle
<1>1. Init => Lifecycle!Init
  BY SameStatuses DEF Init, NewWorker, Fresh, NoAIJob, Promised, Lifecycle!Init
<1>2. Typed /\ AllOK /\ [Next]_vars => [Lifecycle!Next]_([j \in Job |-> Promised(j)])
  BY StepPromise DEF Status
<1>. QED BY <1>1, <1>2, AllOKInvariant, PTL DEF Spec, FollowsLifecycle, Lifecycle!Spec
=============================================================================

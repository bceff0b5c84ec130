-------------------------- MODULE SyncEngineProofs --------------------------
(***************************************************************************)
(* Theorems about SyncEngine for every set of jobs and pool threads, with  *)
(* or without the shutdown on teardown, and for every budget of faults.    *)
(***************************************************************************)
EXTENDS SyncEngine, TLAPS

(***************************************************************************)
(* Facts about jobs and faults.                                            *)
(***************************************************************************)

\* What the orchestrator makes of a job is a job.
LEMMA AIJobOps ==
    /\ NoAIJob \in AIJobs
    /\ NewAIJob \in AIJobs
    /\ \A d \in AIJobs : /\ MarkRunning(d) \in AIJobs
                         /\ MarkRunning(d).status = Running
                         /\ FailJob(d) \in AIJobs
                         /\ FailJob(d).status = Failed
    /\ \A d \in AIJobs, r \in TaskResult :
          /\ AfterTask(d, r) \in AIJobs
          /\ AfterTask(d, r).status \in {Completed, Failed}
BY DEF AIJobs, NoAIJob, NewAIJob, MarkRunning, FailJob, MarkFailed, MarkCompleted, AfterTask,
   Statuses, Pending, Running, Completed, Failed, Cancelled, Absent

\* Counting up one entry leaves a function to the natural numbers.
LEMMA CountUp ==
    ASSUME NEW S, NEW f \in [S -> Nat], NEW x \in S
    PROVE  [f EXCEPT ![x] = @ + 1] \in [S -> Nat]
OBVIOUS

\* Counting a fault keeps the counters natural numbers, and the process is not
\* free of faults afterwards.
LEMMA FaultCounted ==
    ASSUME faults \in [{"death", "call"} -> Nat], NEW k \in {"death", "call"}, Fault(k)
    PROVE  faults' \in [{"death", "call"} -> Nat] /\ ~NoFaults'
BY DEF Fault, NoFaults

(***************************************************************************)
(* Type correctness.                                                       *)
(***************************************************************************)

\* A request leaves every variable well typed.
LEMMA RequestTypeOK ==
    ASSUME TypeOK, NEW j \in Job, SubmitJob(j) \/ Enqueue(j) \/ Teardown(j)
    PROVE  TypeOK'
<1> USE DEF TypeOK, Fine
<1>1. CASE SubmitJob(j)
  BY <1>1, AIJobOps DEF SubmitJob
<1>2. CASE Enqueue(j)
  <2>1. Append(backlog, j) \in Seq(Job)
    OBVIOUS
  <2>. QED BY <1>2, <2>1 DEF Enqueue, PutLast
<1>3. CASE Teardown(j)
  BY <1>3 DEF Teardown
<1>. QED BY <1>1, <1>2, <1>3

\* So does a pool thread.
LEMMA ThreadTypeOK ==
    ASSUME TypeOK, NEW t \in PoolThread,
           TakeJob(t) \/ StartJob(t) \/ ExecuteTask(t) \/ FinishJob(t)
    PROVE  TypeOK'
<1> USE DEF TypeOK, Fine
<1>1. IdleThread \in Run
  BY AIJobOps DEF IdleThread, Run
<1>2. CASE TakeJob(t)
  <2> DEFINE j == Head(backlog)
  <2>1. j \in Job /\ Tail(backlog) \in Seq(Job)
    BY <1>2 DEF TakeJob
  <2>2. ASSUME NEW pc \in {"start", "finish"}, NEW d \in AIJobs,
               thread' = [thread EXCEPT ![t] = [pc |-> pc, job |-> j, doc |-> d]]
        PROVE  /\ thread' \in [PoolThread -> Run]
               /\ \A u \in PoolThread : thread'[u].pc # "idle" => thread'[u].job \in Job
    BY <2>1, <2>2 DEF Run
  <2>3. jobs[j] \in AIJobs
    BY <2>1
  <2>. QED BY <1>2, <2>1, <2>2, <2>3, AIJobOps, FaultCounted DEF TakeJob, Rest
<1>3. ASSUME thread[t].pc # "idle"
      PROVE  Stored(t) \in [Job -> AIJobs]
  BY <1>3 DEF Stored, Run
<1>4. ASSUME NEW d \in AIJobs, thread[t].pc # "idle",
             thread' = [thread EXCEPT ![t].pc = "finish", ![t].doc = d]
      PROVE  /\ thread' \in [PoolThread -> Run]
             /\ \A u \in PoolThread : thread'[u].pc # "idle" => thread'[u].job \in Job
  <2> DEFINE r == [thread[t] EXCEPT !.pc = "finish", !.doc = d]
  <2>1. r \in Run /\ r.job = thread[t].job
    BY <1>4 DEF Run
  <2>2. thread' = [thread EXCEPT ![t] = r]
    BY <1>4
  <2> HIDE DEF r
  <2>. QED BY <1>4, <2>1, <2>2
<1>5. thread[t].doc \in AIJobs
  BY DEF Run
<1>6. CASE StartJob(t)
  <2>1. CASE thread' = [thread EXCEPT ![t].pc = "execute"]
    <3> DEFINE r == [thread[t] EXCEPT !.pc = "execute"]
    <3>1. r \in Run /\ r.job = thread[t].job
      BY DEF Run
    <3>2. thread[t].pc # "idle" /\ thread' = [thread EXCEPT ![t] = r]
      BY <1>6, <2>1 DEF StartJob
    <3> HIDE DEF r
    <3>3. /\ thread' \in [PoolThread -> Run]
          /\ \A u \in PoolThread : thread'[u].pc # "idle" => thread'[u].job \in Job
      BY <3>1, <3>2
    <3>. QED BY <1>3, <1>6, <3>2, <3>3, FaultCounted DEF StartJob
  <2>2. CASE thread' = [thread EXCEPT ![t].pc = "finish", ![t].doc = AfterLostStart(@)]
    <3>1. FailJob(thread[t].doc) \in AIJobs
      BY <1>5, AIJobOps
    <3>. QED BY <1>3, <1>4, <1>6, <2>2, <3>1, FaultCounted DEF StartJob, AfterLostStart
  <2>. QED BY <1>6, <2>1, <2>2 DEF StartJob
<1>7. CASE ExecuteTask(t)
  <2>1. PICK r \in TaskResult :
          thread' = [thread EXCEPT ![t].pc = "finish", ![t].doc = AfterTask(@, r)]
    BY <1>7 DEF ExecuteTask
  <2>2. AfterTask(thread[t].doc, r) \in AIJobs
    BY <1>5, AIJobOps
  <2>3. executed' \in [Job -> Nat]
    <3>1. thread[t].job \in Job
      BY <1>7 DEF ExecuteTask
    <3>2. executed' = [executed EXCEPT ![thread[t].job] = @ + 1]
      BY <1>7 DEF ExecuteTask
    <3>. QED BY <3>1, <3>2, CountUp
  <2>4. /\ thread' \in [PoolThread -> Run]
        /\ \A u \in PoolThread : thread'[u].pc # "idle" => thread'[u].job \in Job
    BY <1>4, <1>7, <2>1, <2>2 DEF ExecuteTask
  <2>. QED BY <1>7, <2>3, <2>4 DEF ExecuteTask
<1>8. CASE FinishJob(t)
  BY <1>1, <1>3, <1>8, FaultCounted DEF FinishJob, IdleThread
<1>. QED BY <1>2, <1>6, <1>7, <1>8

\* Every variable keeps its type.
THEOREM EngineTypeCorrect == Spec => []TypeOK
<1>1. Init => TypeOK
  BY AIJobOps DEF Init, TypeOK, IdleThread, Run
<1>2. TypeOK /\ [Next]_vars => TypeOK'
  <2> SUFFICES ASSUME TypeOK, [Next]_vars PROVE TypeOK'
    OBVIOUS
  <2>1. CASE Restart
    BY <2>1, AIJobOps, FaultCounted DEF Restart, TypeOK, IdleThread, Run
  <2>2. CASE UNCHANGED vars
    BY <2>2 DEF vars, TypeOK
  <2>. QED BY <2>1, <2>2, RequestTypeOK, ThreadTypeOK DEF Next
<1>. QED BY <1>1, <1>2, PTL DEF Spec

(***************************************************************************)
(* Places: a job is in the backlog once, or with one thread, or in         *)
(* neither.                                                                *)
(***************************************************************************)

OnePlace ==
    /\ \A i, k \in 1 .. Len(backlog) : backlog[i] = backlog[k] => i = k
    /\ \A t, u \in PoolThread :
          thread[t].pc # "idle" /\ thread[u].pc # "idle" /\ thread[t].job = thread[u].job => t = u
    /\ \A j \in Job : Waits(j) => ~Runs(j)

\* How far a job is, by where it is: a job is untouched until a thread has it,
\* and what the thread is about to store follows from what is stored.
Untouched(j) == jobs[j].status = Pending /\ executed[j] = 0

\* What a busy thread x holds of its job fits the stored status s, the number n
\* of executions, and the state r of the request.
Fits(x, s, n, r) ==
    /\ r = "accepted"
    /\ x.pc = "start" => s = Pending /\ n = 0 /\ x.doc.status = Running
    /\ x.pc = "execute" => s = Running /\ n = 0
    /\ x.pc = "finish" =>
          /\ s \in {Pending, Running}
          /\ x.doc.status \in {Completed, Failed}
          /\ x.doc.status = Completed => s = Running /\ n = 1

BusyFits(t) ==
    LET j == thread[t].job IN
    thread[t].pc # "idle" => Fits(thread[t], jobs[j].status, executed[j], request[j])

Progress ==
    /\ \A j \in Job :
          /\ request[j] = "none" => jobs[j].status = Absent /\ executed[j] = 0
          /\ request[j] = "enqueue" => Untouched(j)
          /\ Waits(j) => request[j] = "accepted" /\ Untouched(j)
    /\ \A t \in PoolThread : BusyFits(t)

Custody == OnePlace /\ Progress /\ ExecutedAtMostOnce

\* A thread whose job nobody touches keeps fitting it.
LEMMA StillFits ==
    ASSUME NEW t \in PoolThread, BusyFits(t), thread'[t] = thread[t],
           LET j == thread[t].job
           IN  thread[t].pc # "idle" => /\ jobs'[j].status = jobs[j].status
                                        /\ executed'[j] = executed[j]
                                        /\ request'[j] = request[j]
    PROVE  BusyFits(t)'
BY DEF BusyFits

\* What a job appended to a queue, and one taken from it, change.
LEMMA QueuePut ==
    ASSUME NEW S, NEW q \in Seq(S), NEW x \in S
    PROVE  /\ Len(Append(q, x)) = Len(q) + 1
           /\ Append(q, x)[Len(q) + 1] = x
           /\ \A i \in 1 .. Len(q) : Append(q, x)[i] = q[i]
OBVIOUS

\* What is left of a queue when its head is taken.
LEMMA QueueTake ==
    ASSUME NEW S, NEW q \in Seq(S), q # <<>>
    PROVE  /\ Len(q) \in Nat \ {0}
           /\ Len(Tail(q)) = Len(q) - 1
           /\ Head(q) = q[1]
           /\ \A i \in 1 .. Len(q) - 1 : Tail(q)[i] = q[i + 1]
OBVIOUS

\* The job a request hands to the pool waits from then on, once.
LEMMA EnqueuedWaits ==
    ASSUME TypeOK, NEW j \in Job, ~Waits(j), backlog' = PutLast(backlog, j),
           \A i, k \in 1 .. Len(backlog) : backlog[i] = backlog[k] => i = k
    PROVE  /\ \A i, k \in 1 .. Len(backlog') : backlog'[i] = backlog'[k] => i = k
           /\ \A i \in Job : Waits(i)' <=> Waits(i) \/ i = j
<1> DEFINE n == Len(backlog)
<1>1. /\ backlog \in Seq(Job)
      /\ n \in Nat /\ Len(backlog') = n + 1
      /\ backlog'[n + 1] = j
      /\ \A i \in 1 .. n : backlog'[i] = backlog[i]
  BY QueuePut DEF TypeOK, PutLast
<1>2. \A i \in 1 .. n : backlog[i] # j
  BY DEF Waits
<1>. QED BY <1>1, <1>2 DEF Waits

\* The job a thread takes does not wait any more; the others still do.
LEMMA TakenWaitsNoMore ==
    ASSUME TypeOK, backlog # <<>>, backlog' = Rest(backlog),
           \A i, k \in 1 .. Len(backlog) : backlog[i] = backlog[k] => i = k
    PROVE  /\ Head(backlog) \in Job
           /\ Waits(Head(backlog))
           /\ \A i, k \in 1 .. Len(backlog') : backlog'[i] = backlog'[k] => i = k
           /\ \A i \in Job : Waits(i)' <=> Waits(i) /\ i # Head(backlog)
<1> DEFINE n == Len(backlog)
<1>1. /\ backlog \in Seq(Job)
      /\ n \in Nat \ {0} /\ Len(backlog') = n - 1
      /\ Head(backlog) = backlog[1]
      /\ \A i \in 1 .. n - 1 : backlog'[i] = backlog[i + 1]
  BY QueueTake DEF TypeOK, Rest
<1>2. Head(backlog) \in Job
  BY <1>1
<1>3. \A i \in 1 .. n : i = 1 \/ (i - 1 \in 1 .. n - 1 /\ backlog'[i - 1] = backlog[i])
  BY <1>1
<1>4. ASSUME NEW i \in Job
      PROVE  Waits(i)' <=> Waits(i) /\ i # Head(backlog)
  <2>1. ASSUME Waits(i)' PROVE Waits(i) /\ i # Head(backlog)
    <3>1. PICK k \in 1 .. n - 1 : backlog'[k] = i
      BY <1>1, <2>1 DEF Waits
    <3>2. k + 1 \in 1 .. n /\ backlog[k + 1] = i /\ k + 1 # 1
      BY <1>1, <3>1
    <3>. QED BY <1>1, <3>2 DEF Waits
  <2>2. ASSUME Waits(i), i # Head(backlog) PROVE Waits(i)'
    <3>1. PICK k \in 1 .. n : backlog[k] = i
      BY <2>2 DEF Waits
    <3>2. k - 1 \in 1 .. n - 1 /\ backlog'[k - 1] = i
      BY <1>1, <1>3, <2>2, <3>1
    <3>. QED BY <1>1, <3>2 DEF Waits
  <2>. QED BY <2>1, <2>2
<1>5. Waits(Head(backlog))
  <2>1. 1 \in 1 .. n
    BY <1>1
  <2>. QED BY <1>1, <2>1 DEF Waits
<1>6. \A i, k \in 1 .. Len(backlog') : backlog'[i] = backlog'[k] => i = k
  <2>1. ASSUME NEW i \in 1 .. n - 1, NEW k \in 1 .. n - 1, backlog'[i] = backlog'[k]
        PROVE  i = k
    <3>1. i + 1 \in 1 .. n /\ k + 1 \in 1 .. n /\ backlog[i + 1] = backlog[k + 1]
      BY <1>1, <2>1
    <3>2. i + 1 = k + 1
      BY <3>1
    <3>. QED BY <3>2
  <2>. QED BY <1>1, <2>1
<1>. QED BY <1>2, <1>4, <1>5, <1>6

\* A step of a request keeps every job in one place.
LEMMA RequestCustody ==
    ASSUME TypeOK, Custody, NEW j \in Job, SubmitJob(j) \/ Enqueue(j) \/ Teardown(j)
    PROVE  Custody'
<1> USE DEF TypeOK, Custody, Fine
<1>1. CASE SubmitJob(j)
  <2>1. \A t \in PoolThread : thread[t].pc # "idle" => thread[t].job # j
    BY <1>1 DEF SubmitJob, Progress, BusyFits, Fits
  <2>2. ~Waits(j)
    BY <1>1 DEF SubmitJob, Progress, BusyFits, Fits
  <2>3. /\ jobs'[j].status = Pending /\ request'[j] = "enqueue"
        /\ \A i \in Job : i # j => jobs'[i] = jobs[i] /\ request'[i] = request[i]
        /\ UNCHANGED <<backlog, thread, executed>>
    BY <1>1 DEF SubmitJob, NewAIJob
  <2>4. OnePlace'
    BY <2>3 DEF OnePlace, Waits, Runs
  <2>5. Progress'
    <3>1. \A t \in PoolThread : BusyFits(t)'
      BY <2>1, <2>3, StillFits DEF Progress
    <3>. QED BY <1>1, <2>2, <2>3, <3>1 DEF SubmitJob, Progress, Waits, Untouched
  <2>. QED BY <1>1, <2>3, <2>4, <2>5 DEF ExecutedAtMostOnce, Pending, Completed
<1>2. CASE Enqueue(j)
  <2>1. CASE open
    <3>1. \A i, k \in 1 .. Len(backlog) : backlog[i] = backlog[k] => i = k
      BY DEF OnePlace
    <3>2. ~Waits(j) /\ ~Runs(j) /\ Untouched(j)
      BY <1>2 DEF Enqueue, Progress, BusyFits, Fits, Runs
    <3>3. /\ request'[j] = "accepted" /\ \A i \in Job : i # j => request'[i] = request[i]
          /\ backlog' = PutLast(backlog, j)
          /\ UNCHANGED <<jobs, thread, executed>>
      BY <1>2, <2>1 DEF Enqueue
    <3>4. /\ \A i, k \in 1 .. Len(backlog') : backlog'[i] = backlog'[k] => i = k
          /\ \A i \in Job : Waits(i)' <=> Waits(i) \/ i = j
      BY <3>1, <3>2, <3>3, EnqueuedWaits
    <3>5. OnePlace'
      BY <3>2, <3>3, <3>4 DEF OnePlace, Runs
    <3>6. \A t \in PoolThread : BusyFits(t)'
      BY <3>2, <3>3, StillFits DEF Progress, Runs
    <3>7. Progress'
      BY <3>2, <3>3, <3>4, <3>6 DEF Progress, Untouched
    <3>. QED BY <3>3, <3>5, <3>7 DEF ExecutedAtMostOnce
  <2>2. CASE ~open
    <3>1. /\ request'[j] = "refused" /\ \A i \in Job : i # j => request'[i] = request[i]
          /\ UNCHANGED <<jobs, backlog, thread, executed>>
      BY <1>2, <2>2 DEF Enqueue
    <3>2. ~Waits(j) /\ ~Runs(j)
      BY <1>2 DEF Enqueue, Progress, BusyFits, Fits, Runs
    <3>3. \A t \in PoolThread : BusyFits(t)'
      BY <3>1, <3>2, StillFits DEF Progress, Runs
    <3>4. OnePlace'
      BY <3>1 DEF OnePlace, Waits, Runs
    <3>5. Progress'
      BY <3>1, <3>2, <3>3 DEF Progress, Untouched, Waits
    <3>. QED BY <3>1, <3>4, <3>5 DEF ExecutedAtMostOnce
  <2>. QED BY <2>1, <2>2
<1>3. CASE Teardown(j)
  BY <1>3 DEF Teardown, OnePlace, Progress, BusyFits, Untouched, Waits, Runs, ExecutedAtMostOnce
<1>. QED BY <1>1, <1>2, <1>3

\* A pool thread takes a job out of the backlog, and is then the only one to
\* have it.
LEMMA TakeCustody ==
    ASSUME TypeOK, Custody, NEW t \in PoolThread, TakeJob(t)
    PROVE  Custody'
<1> USE DEF TypeOK, Custody
<1> DEFINE j == Head(backlog)
<1>1. /\ j \in Job /\ Waits(j)
      /\ \A i, k \in 1 .. Len(backlog') : backlog'[i] = backlog'[k] => i = k
      /\ \A i \in Job : Waits(i)' <=> Waits(i) /\ i # j
  BY TakenWaitsNoMore DEF TakeJob, OnePlace
<1>2. ~Runs(j) /\ request[j] = "accepted" /\ Untouched(j)
  BY <1>1 DEF OnePlace, Progress
<1>3. UNCHANGED <<jobs, request, executed>>
  BY DEF TakeJob
<1>4. ASSUME NEW pc \in {"start", "finish"}, NEW d \in AIJobs,
             thread' = [thread EXCEPT ![t] = [pc |-> pc, job |-> j, doc |-> d]],
             pc = "start" => d.status = Running,
             pc = "finish" => d.status = Failed
      PROVE  Custody'
  <2>1. /\ thread'[t].pc = pc /\ thread'[t].job = j /\ thread'[t].doc = d
        /\ \A u \in PoolThread : u # t => thread'[u] = thread[u]
    BY <1>4
  <2>2. OnePlace'
    <3>1. \A u, v \in PoolThread :
             thread'[u].pc # "idle" /\ thread'[v].pc # "idle" /\ thread'[u].job = thread'[v].job
               => u = v
      <4>1. \A u \in PoolThread : thread[u].pc # "idle" => thread[u].job # j
        BY <1>2 DEF Runs
      <4>2. \A u, v \in PoolThread :
               thread[u].pc # "idle" /\ thread[v].pc # "idle" /\ thread[u].job = thread[v].job
                 => u = v
        BY DEF OnePlace
      <4> HIDE DEF TypeOK, Custody, j
      <4>. QED BY <2>1, <4>1, <4>2
    <3>2. \A i \in Job : Runs(i)' => Runs(i) \/ i = j
      BY <2>1 DEF Runs
    <3>3. \A i \in Job : Waits(i)' => ~Runs(i)'
      BY <1>1, <3>2 DEF OnePlace
    <3>. QED BY <1>1, <3>1, <3>3 DEF OnePlace
  <2>3. Progress'
    BY <1>1, <1>2, <1>3, <1>4, <2>1 DEF Progress, Untouched, BusyFits, Fits, Failed, Completed
  <2>. QED BY <1>3, <2>2, <2>3 DEF ExecutedAtMostOnce
<1>5. CASE UNCHANGED thread
  BY <1>1, <1>3, <1>5 DEF OnePlace, Progress, BusyFits, Untouched, Runs, ExecutedAtMostOnce
<1>6. jobs[j] \in AIJobs
  BY <1>1
<1>. QED BY <1>4, <1>5, <1>6, AIJobOps DEF TakeJob

\* The thread that has a job stores, executes and stores again: it executes a
\* job that was not executed, and stores no completion before.
LEMMA RunCustody ==
    ASSUME TypeOK, Custody, NEW t \in PoolThread, StartJob(t) \/ ExecuteTask(t) \/ FinishJob(t)
    PROVE  Custody'
<1> USE DEF TypeOK, Custody
<1> DEFINE j == thread[t].job
           d == thread[t].doc
<1>1. /\ j \in Job /\ thread[t].pc # "idle" /\ d \in AIJobs
      /\ ~Waits(j)
      /\ \A u \in PoolThread : u # t /\ thread[u].pc # "idle" => thread[u].job # j
  BY DEF StartJob, ExecuteTask, FinishJob, OnePlace, Runs, Run
<1>2. UNCHANGED <<request, backlog>>
  BY DEF StartJob, ExecuteTask, FinishJob
<1>3. \A i \in Job : Waits(i)' <=> Waits(i)
  BY <1>2 DEF Waits
<1>4. ASSUME NEW pc \in {"execute", "finish"}, NEW e \in AIJobs,
             thread'[t].pc = pc, thread'[t].job = j, thread'[t].doc = e,
             \A u \in PoolThread : u # t => thread'[u] = thread[u],
             \A i \in Job : i # j => jobs'[i] = jobs[i] /\ executed'[i] = executed[i],
             pc = "execute" => jobs'[j].status = Running /\ executed'[j] = 0,
             pc = "finish" => /\ jobs'[j].status \in {Pending, Running}
                              /\ e.status \in {Completed, Failed}
                              /\ executed'[j] \in {0, 1}
                              /\ e.status = Completed =>
                                    jobs'[j].status = Running /\ executed'[j] = 1
      PROVE  Custody'
  <2>1. OnePlace'
    <3>1. \A u, v \in PoolThread :
             thread'[u].pc # "idle" /\ thread'[v].pc # "idle" /\ thread'[u].job = thread'[v].job
               => u = v
      <4>1. \A u, v \in PoolThread :
               thread[u].pc # "idle" /\ thread[v].pc # "idle" /\ thread[u].job = thread[v].job
                 => u = v
        BY DEF OnePlace
      <4>2. \A u \in PoolThread : thread'[u].job = thread[u].job
                                   /\ (thread'[u].pc # "idle" => thread[u].pc # "idle")
        BY <1>1, <1>4
      <4> HIDE DEF TypeOK, Custody
      <4>. QED BY <4>1, <4>2
    <3>2. \A i \in Job : Runs(i)' => Runs(i)
      <4>1. \A u \in PoolThread : thread'[u].job = thread[u].job
                                   /\ (thread'[u].pc # "idle" => thread[u].pc # "idle")
        BY <1>1, <1>4
      <4> HIDE DEF TypeOK, Custody
      <4>. QED BY <4>1 DEF Runs
    <3>3. \A i \in Job : Waits(i)' => ~Runs(i)'
      BY <1>3, <3>2 DEF OnePlace
    <3>4. \A i, k \in 1 .. Len(backlog') : backlog'[i] = backlog'[k] => i = k
      BY <1>2 DEF OnePlace
    <3>. QED BY <3>1, <3>3, <3>4 DEF OnePlace
  <2>2. Progress'
    <3>1. request[j] = "accepted"
      BY <1>1 DEF Progress, BusyFits, Fits
    <3>2. \A i \in Job : /\ request'[i] = "none" => jobs'[i].status = Absent /\ executed'[i] = 0
                         /\ request'[i] = "enqueue" => Untouched(i)'
                         /\ Waits(i)' => request'[i] = "accepted" /\ Untouched(i)'
      BY <1>1, <1>2, <1>3, <1>4, <3>1 DEF Progress, Untouched
    <3>3. ASSUME NEW u \in PoolThread, u # t, thread[u].pc # "idle"
          PROVE  thread[u].job \in Job /\ jobs'[thread[u].job] = jobs[thread[u].job]
                   /\ executed'[thread[u].job] = executed[thread[u].job]
      BY <1>1, <1>4, <3>3
    <3>4. \A u \in PoolThread : BusyFits(u)'
      <4> TAKE u \in PoolThread
      <4>1. CASE u = t
        BY <1>2, <1>4, <3>1, <4>1 DEF BusyFits, Fits
      <4>2. CASE u # t /\ thread[u].pc # "idle"
        BY <1>2, <1>4, <3>3, <4>2, StillFits DEF Progress
      <4>3. CASE u # t /\ thread[u].pc = "idle"
        BY <1>4, <4>3 DEF BusyFits
      <4>. QED BY <4>1, <4>2, <4>3
    <3>. QED BY <3>2, <3>4 DEF Progress
  <2>3. ExecutedAtMostOnce'
    <3>1. executed'[j] <= 1 /\ jobs'[j].status # Completed
      BY <1>4 DEF Pending, Running, Completed
    <3>. QED BY <1>4, <3>1 DEF ExecutedAtMostOnce
  <2>. QED BY <2>1, <2>2, <2>3
<1>5. Stored(t)[j] = d /\ \A i \in Job : i # j => Stored(t)[i] = jobs[i]
  BY <1>1 DEF Stored
<1>6. CASE StartJob(t)
  <2>1. Untouched(j) /\ d.status = Running
    <3>1. BusyFits(t) /\ thread[t].pc = "start"
      BY <1>6 DEF StartJob, Progress
    <3>. QED BY <3>1 DEF BusyFits, Fits, Untouched
  <2>2. CASE thread' = [thread EXCEPT ![t].pc = "execute"] /\ jobs' = Stored(t)
    <3>1. /\ thread'[t].pc = "execute" /\ thread'[t].job = j /\ thread'[t].doc = d
          /\ \A u \in PoolThread : u # t => thread'[u] = thread[u]
      BY <2>2 DEF Run
    <3>. QED BY <1>1, <1>4, <1>5, <1>6, <2>1, <2>2, <3>1 DEF StartJob, Untouched
  <2>3. CASE /\ thread' = [thread EXCEPT ![t].pc = "finish", ![t].doc = AfterLostStart(@)]
             /\ jobs' \in {jobs, Stored(t)}
    <3>1. /\ thread'[t].pc = "finish" /\ thread'[t].job = j /\ thread'[t].doc = FailJob(d)
          /\ \A u \in PoolThread : u # t => thread'[u] = thread[u]
      BY <2>3 DEF Run, AfterLostStart
    <3>2. FailJob(d) \in AIJobs /\ FailJob(d).status = Failed
      BY <1>1, AIJobOps
    <3>. QED BY <1>1, <1>4, <1>5, <1>6, <2>1, <2>3, <3>1, <3>2
         DEF StartJob, Untouched, Failed, Completed
  <2>. QED BY <1>6, <2>2, <2>3 DEF StartJob
<1>7. CASE ExecuteTask(t)
  <2>1. jobs[j].status = Running /\ executed[j] = 0
    BY <1>7 DEF ExecuteTask, Progress, BusyFits, Fits
  <2>2. PICK r \in TaskResult :
          thread' = [thread EXCEPT ![t].pc = "finish", ![t].doc = AfterTask(@, r)]
    BY <1>7 DEF ExecuteTask
  <2>3. /\ thread'[t].pc = "finish" /\ thread'[t].job = j /\ thread'[t].doc = AfterTask(d, r)
        /\ \A u \in PoolThread : u # t => thread'[u] = thread[u]
    BY <2>2 DEF Run
  <2>4. AfterTask(d, r) \in AIJobs /\ AfterTask(d, r).status \in {Completed, Failed}
    BY <1>1, AIJobOps
  <2>5. executed'[j] = 1 /\ \A i \in Job : i # j => executed'[i] = executed[i]
    <3>1. executed' = [executed EXCEPT ![j] = @ + 1]
      BY <1>7 DEF ExecuteTask
    <3>. QED BY <1>1, <2>1, <3>1
  <2>6. jobs' = jobs
    BY <1>7 DEF ExecuteTask
  <2>. QED BY <1>1, <1>4, <2>1, <2>3, <2>4, <2>5, <2>6
<1>8. CASE FinishJob(t)
  <2>1. /\ d.status \in {Completed, Failed}
        /\ d.status = Completed => executed[j] = 1
    BY <1>8 DEF FinishJob, Progress, BusyFits, Fits
  <2>2. /\ thread'[t].pc = "idle"
        /\ \A u \in PoolThread : u # t => thread'[u] = thread[u]
    BY <1>8 DEF FinishJob, IdleThread
  <2>3. /\ jobs'[j] \in {jobs[j], d}
        /\ \A i \in Job : i # j => jobs'[i] = jobs[i]
        /\ UNCHANGED executed
    BY <1>5, <1>8 DEF FinishJob
  <2>4. OnePlace'
    <3>1. \A u \in PoolThread : thread'[u].pc # "idle" => u # t /\ thread'[u] = thread[u]
      BY <2>2
    <3>2. \A i \in Job : Runs(i)' => Runs(i)
      BY <3>1 DEF Runs
    <3>3. \A u, v \in PoolThread :
             thread'[u].pc # "idle" /\ thread'[v].pc # "idle" /\ thread'[u].job = thread'[v].job
               => u = v
      BY <3>1 DEF OnePlace
    <3>. QED BY <1>2, <1>3, <3>2, <3>3 DEF OnePlace
  <2>5. Progress'
    <3>1. request[j] = "accepted"
      BY <1>1 DEF Progress, BusyFits, Fits
    <3>2. ASSUME NEW u \in PoolThread PROVE BusyFits(u)'
      <4>1. CASE u = t \/ thread[u].pc = "idle"
        BY <2>2, <4>1 DEF BusyFits
      <4>2. CASE u # t /\ thread[u].pc # "idle"
        BY <1>1, <1>2, <2>2, <2>3, <4>2, StillFits DEF Progress
      <4>. QED BY <4>1, <4>2
    <3>. QED BY <1>1, <1>2, <1>3, <2>3, <3>1, <3>2 DEF Progress, Untouched
  <2>6. ExecutedAtMostOnce'
    BY <2>1, <2>3 DEF ExecutedAtMostOnce, Completed, Failed
  <2>. QED BY <2>4, <2>5, <2>6
<1>. QED BY <1>6, <1>7, <1>8

\* Custody is an invariant: a death of the process loses places and never
\* doubles one.
LEMMA CustodyInvariant == Spec => []Custody
<1>1. Init => Custody
  BY DEF Init, Custody, OnePlace, Progress, BusyFits, ExecutedAtMostOnce, Waits, Runs, IdleThread, NoAIJob,
     Absent, Completed
<1>2. TypeOK /\ Custody /\ [Next]_vars => Custody'
  <2> SUFFICES ASSUME TypeOK, Custody, [Next]_vars PROVE Custody'
    OBVIOUS
  <2>1. CASE Restart
    <3>1. /\ backlog' = <<>>
          /\ \A t \in PoolThread : thread'[t].pc = "idle"
          /\ \A j \in Job : request'[j] = IF request[j] = "enqueue" THEN "refused" ELSE request[j]
          /\ UNCHANGED <<jobs, executed>>
      BY <2>1 DEF Restart, IdleThread
    <3>. QED BY <3>1 DEF Custody, OnePlace, Progress, BusyFits, Untouched, ExecutedAtMostOnce, Waits, Runs
  <2>2. CASE UNCHANGED vars
    BY <2>2 DEF vars, Custody, OnePlace, Progress, BusyFits, Untouched, ExecutedAtMostOnce,
       Waits, Runs
  <2>. QED BY <2>1, <2>2, RequestCustody, TakeCustody, RunCustody DEF Next
<1>. QED BY <1>1, <1>2, EngineTypeCorrect, PTL DEF Spec

\* The task of a job runs at most once, and what is stored as completed did run,
\* whatever calls fail and whenever the process dies.
THEOREM EngineExecutesAtMostOnce == Spec => []ExecutedAtMostOnce
<1>1. Custody => ExecutedAtMostOnce
  BY DEF Custody
<1>. QED BY <1>1, CustodyInvariant, PTL

(***************************************************************************)
(* No accepted job is lost while nothing fails.                            *)
(***************************************************************************)

Carried ==
    NoFaults =>
        \A j \in Job :
            request[j] = "accepted" => Waits(j) \/ Runs(j) \/ Terminal(jobs[j].status)

\* A process free of faults was so before.
LEMMA FaultsStay ==
    ASSUME TypeOK, [Next]_vars, NoFaults'
    PROVE  NoFaults /\ UNCHANGED faults
<1>1. ASSUME NEW k \in {"death", "call"} PROVE ~Fault(k)
  <2>1. faults \in [{"death", "call"} -> Nat]
    BY DEF TypeOK
  <2>2. CASE Fault(k)
    BY <2>1, <2>2, FaultCounted
  <2>. QED BY <2>2
<1>2. UNCHANGED faults
  BY <1>1 DEF Next, vars, Fine, SubmitJob, Enqueue, Teardown, TakeJob, StartJob, ExecuteTask,
     FinishJob, Restart
<1>. QED BY <1>2 DEF NoFaults

\* A job in the pool is handed from place to place until it is terminal.
LEMMA StepCarried ==
    ASSUME TypeOK, Custody, Carried, [Next]_vars
    PROVE  Carried'
<1> SUFFICES ASSUME NoFaults', NEW i \in Job, request'[i] = "accepted"
             PROVE  Waits(i)' \/ Runs(i)' \/ Terminal(jobs'[i].status)
  BY DEF Carried
<1>1. NoFaults /\ UNCHANGED faults
  BY FaultsStay
<1>2. ASSUME NEW k \in {"death", "call"} PROVE ~Fault(k)
  BY <1>1, FaultCounted DEF TypeOK
<1> USE DEF TypeOK, Custody
<1>3. ASSUME NEW j \in Job, SubmitJob(j) \/ Teardown(j)
      PROVE  Waits(i)' \/ Runs(i)' \/ Terminal(jobs'[i].status)
  BY <1>1, <1>3 DEF SubmitJob, Teardown, Carried, Waits, Runs
<1>4. ASSUME NEW j \in Job, Enqueue(j)
      PROVE  Waits(i)' \/ Runs(i)' \/ Terminal(jobs'[i].status)
  <2>1. CASE open
    <3>1. /\ ~Waits(j) /\ backlog' = PutLast(backlog, j)
          /\ \A m, k \in 1 .. Len(backlog) : backlog[m] = backlog[k] => m = k
          /\ i # j => request[i] = "accepted"
          /\ UNCHANGED <<jobs, thread>>
      BY <1>4, <2>1 DEF Enqueue, Progress, OnePlace
    <3>2. Waits(i)' <=> Waits(i) \/ i = j
      BY <3>1, EnqueuedWaits
    <3>. QED BY <1>1, <3>1, <3>2 DEF Carried, Runs
  <2>2. CASE ~open
    BY <1>1, <1>4, <2>2 DEF Enqueue, Carried, Waits, Runs
  <2>. QED BY <2>1, <2>2
<1>5. ASSUME NEW t \in PoolThread, TakeJob(t)
      PROVE  Waits(i)' \/ Runs(i)' \/ Terminal(jobs'[i].status)
  <2> DEFINE j == Head(backlog)
  <2>1. Waits(i)' <=> Waits(i) /\ i # j
    BY <1>5, TakenWaitsNoMore DEF TakeJob, OnePlace
  <2>2. PICK x \in Run : x.pc # "idle" /\ x.job = j /\ thread' = [thread EXCEPT ![t] = x]
    <3>1. j \in Job /\ jobs[j] \in AIJobs
      BY <1>5, TakenWaitsNoMore DEF TakeJob, OnePlace
    <3>2. MarkRunning(jobs[j]) \in AIJobs /\ FailJob(jobs[j]) \in AIJobs
      BY <3>1, AIJobOps
    <3>. QED BY <1>2, <1>5, <3>1, <3>2 DEF TakeJob, Run
  <2>3. /\ \A u \in PoolThread : u # t => thread'[u] = thread[u]
        /\ thread'[t].pc # "idle" /\ thread'[t].job = j /\ thread[t].pc = "idle"
        /\ UNCHANGED <<jobs, request>>
    BY <1>5, <2>2 DEF TakeJob
  <2>4. Waits(i) \/ Runs(i) \/ Terminal(jobs[i].status)
    BY <1>1, <2>3 DEF Carried
  <2>. QED BY <2>1, <2>3, <2>4 DEF Runs
<1>6. ASSUME NEW t \in PoolThread, StartJob(t) \/ ExecuteTask(t)
      PROVE  Waits(i)' \/ Runs(i)' \/ Terminal(jobs'[i].status)
  <2>1. /\ thread[t].pc # "idle" /\ thread'[t].pc # "idle" /\ thread'[t].job = thread[t].job
        /\ \A u \in PoolThread : u # t => thread'[u] = thread[u]
        /\ thread[t].job \in Job
        /\ UNCHANGED <<request, backlog>>
    BY <1>6 DEF StartJob, ExecuteTask, Run
  <2>2. i # thread[t].job => jobs'[i] = jobs[i]
    BY <1>6, <2>1 DEF StartJob, ExecuteTask, Stored
  <2>. QED BY <1>1, <2>1, <2>2 DEF Carried, Waits, Runs
<1>7. ASSUME NEW t \in PoolThread, FinishJob(t)
      PROVE  Waits(i)' \/ Runs(i)' \/ Terminal(jobs'[i].status)
  <2> DEFINE j == thread[t].job
  <2>1. BusyFits(t) /\ thread[t].pc = "finish" /\ j \in Job
    BY <1>7 DEF FinishJob, Progress
  <2>2. /\ jobs'[j] = thread[t].doc
        /\ \A k \in Job : k # j => jobs'[k] = jobs[k]
        /\ \A u \in PoolThread : u # t => thread'[u] = thread[u]
        /\ UNCHANGED <<request, backlog>>
    BY <1>2, <1>7, <2>1 DEF FinishJob, Stored, IdleThread
  <2>3. Terminal(jobs'[j].status)
    BY <2>1, <2>2 DEF BusyFits, Fits, Terminal
  <2>. QED BY <1>1, <2>2, <2>3 DEF Carried, Waits, Runs
<1>8. CASE UNCHANGED vars
  BY <1>1, <1>8 DEF vars, Carried, Waits, Runs
<1>. QED BY <1>2, <1>3, <1>4, <1>5, <1>6, <1>7, <1>8 DEF Next, Restart

\* While nothing fails, an accepted job waits, runs or is finished, and is in
\* one place only: shutting the pool down loses nothing.
THEOREM EngineCarriesAccepted == Spec => []AcceptedIsCarried
<1>1. Init => Carried
  BY DEF Init, Carried
<1>2. TypeOK /\ Custody /\ Carried => AcceptedIsCarried
  BY DEF Custody, OnePlace, Progress, Untouched, Carried, AcceptedIsCarried
<1>. QED BY <1>1, <1>2, StepCarried, EngineTypeCorrect, CustodyInvariant, PTL DEF Spec

(***************************************************************************)
(* The engine implements its lifecycle.                                    *)
(***************************************************************************)

\* The instance names the statuses as the engine does.
LEMMA SameStatuses ==
    /\ Lifecycle!Absent = Absent /\ Lifecycle!Pending = Pending /\ Lifecycle!Running = Running
    /\ Lifecycle!Completed = Completed /\ Lifecycle!Failed = Failed
BY DEF Lifecycle!Absent, Lifecycle!Pending, Lifecycle!Running, Lifecycle!Completed,
   Lifecycle!Failed, Absent, Pending, Running, Completed, Failed

\* A step stores one job at most, and along the lifecycle.
LEMMA StepFollowsLifecycle ==
    ASSUME TypeOK, Custody, [Next]_vars
    PROVE  [Lifecycle!Next]_([j \in Job |-> jobs[j].status])
<1> USE DEF TypeOK, Custody
<1> DEFINE status == [j \in Job |-> jobs[j].status]
<1>1. CASE UNCHANGED jobs
  BY <1>1
<1>2. ASSUME NEW j \in Job, SubmitJob(j)
      PROVE  Lifecycle!Submit(j)
  <2>1. jobs[j].status = Absent
    BY <1>2 DEF SubmitJob, Progress
  <2>2. status' = [status EXCEPT ![j] = Pending]
    BY <1>2 DEF SubmitJob, NewAIJob
  <2>. QED BY <2>1, <2>2, SameStatuses DEF Lifecycle!Submit
<1>3. ASSUME NEW t \in PoolThread, thread[t].pc # "idle", thread[t].job \in Job,
             jobs' = Stored(t)
      PROVE  status' = [status EXCEPT ![thread[t].job] = thread[t].doc.status]
  BY <1>3 DEF Stored
<1>4. ASSUME NEW t \in PoolThread, StartJob(t), jobs' = Stored(t)
      PROVE  Lifecycle!Begin(thread[t].job)
  <2>1. BusyFits(t) /\ thread[t].pc = "start"
    BY <1>4 DEF StartJob, Progress
  <2>2. /\ jobs[thread[t].job].status = Pending /\ thread[t].doc.status = Running
        /\ thread[t].job \in Job
    BY <2>1 DEF BusyFits, Fits
  <2>. QED BY <1>3, <1>4, <2>1, <2>2, SameStatuses DEF Lifecycle!Begin
<1>5. ASSUME NEW t \in PoolThread, FinishJob(t), jobs' = Stored(t)
      PROVE  Lifecycle!Finish(thread[t].job)
  <2>1. BusyFits(t) /\ thread[t].pc = "finish"
    BY <1>5 DEF FinishJob, Progress
  <2>2. /\ jobs[thread[t].job].status \in {Pending, Running}
        /\ thread[t].doc.status \in {Completed, Failed}
        /\ thread[t].doc.status = Completed => jobs[thread[t].job].status = Running
        /\ thread[t].job \in Job
    BY <2>1 DEF BusyFits, Fits
  <2>. QED BY <1>3, <1>5, <2>1, <2>2, SameStatuses DEF Lifecycle!Finish
<1>6. ASSUME NEW t \in PoolThread, StartJob(t) \/ FinishJob(t)
      PROVE  thread[t].job \in Job /\ (UNCHANGED jobs \/ jobs' = Stored(t))
  BY <1>6 DEF StartJob, FinishJob
<1>7. \/ UNCHANGED jobs
      \/ \E j \in Job : SubmitJob(j)
      \/ \E t \in PoolThread : StartJob(t) \/ FinishJob(t)
  BY DEF Next, vars, Enqueue, Teardown, TakeJob, ExecuteTask, Restart
<1>8. ASSUME NEW j \in Job, SubmitJob(j) PROVE Lifecycle!Next
  BY <1>2, <1>8 DEF Lifecycle!Next
<1>9. ASSUME NEW t \in PoolThread, StartJob(t) \/ FinishJob(t)
      PROVE  Lifecycle!Next \/ UNCHANGED jobs
  <2>1. CASE jobs' = Stored(t)
    <3>1. Lifecycle!Begin(thread[t].job) \/ Lifecycle!Finish(thread[t].job)
      BY <1>4, <1>5, <1>9, <2>1
    <3>2. PICK j \in Job : j = thread[t].job
      BY <1>6, <1>9
    <3>3. Lifecycle!Begin(j) \/ Lifecycle!Finish(j)
      BY <3>1, <3>2 DEF Lifecycle!Begin, Lifecycle!Finish
    <3>. QED BY <3>3 DEF Lifecycle!Next
  <2>. QED BY <1>6, <1>9, <2>1
<1>. QED BY <1>1, <1>7, <1>8, <1>9

\* The stored status of a job moves along the lifecycle of the engine through
\* failing updates, deaths and restarts.
THEOREM EngineFollowsLifecycle == Spec => FollowsLifecycle
<1>1. Init => Lifecycle!Init
  BY SameStatuses DEF Init, Lifecycle!Init, NoAIJob
<1>. QED BY <1>1, StepFollowsLifecycle, EngineTypeCorrect, CustodyInvariant, PTL
     DEF Spec, FollowsLifecycle, Lifecycle!Spec
=============================================================================

---------------------------- MODULE JobLifecycle ----------------------------
(***************************************************************************)
(* What a client of the jobs API is promised: a job is created pending, it *)
(* moves only along JobStatus.TRANSITIONS, a terminal status is final, and *)
(* a deleted job is gone for good.  This is the abstract specification;    *)
(* JobEntity and JobPipeline are compared with it.                         *)
(***************************************************************************)
EXTENDS JobDocument

CONSTANT Job   \* the job ids ever used (uuid4, so an id is used once)

VARIABLES
    status,    \* [Job -> status], Absent when there is no such job
    created    \* the ids already used

lifecycleVars == <<status, created>>

Init ==
    /\ status = [j \in Job |-> Absent]
    /\ created = {}

Create(j) ==
    /\ j \notin created
    /\ status' = [status EXCEPT ![j] = Pending]
    /\ created' = created \cup {j}

Move(j) ==
    /\ \E s \in Statuses :
          /\ CanTransition(status[j], s)
          /\ status' = [status EXCEPT ![j] = s]
    /\ UNCHANGED created

Delete(j) ==
    /\ status[j] # Absent
    /\ status' = [status EXCEPT ![j] = Absent]
    /\ UNCHANGED created

Next == \E j \in Job : Create(j) \/ Move(j) \/ Delete(j)

Spec == Init /\ [][Next]_lifecycleVars
=============================================================================

--------------------------- MODULE AIJobLifecycle ---------------------------
(***************************************************************************)
(* What the engine promises about the stored status of an AI job: it is    *)
(* submitted pending, started, and finished once; a job whose payload is   *)
(* refused finishes without having been stored as running.  A job that has *)
(* not finished may be cancelled, and a finished one is never touched      *)
(* again.                                                                  *)
(***************************************************************************)
EXTENDS AIJob

CONSTANT Job

VARIABLE status

Init == status = [j \in Job |-> Absent]

Submit(j) ==
    /\ status[j] = Absent
    /\ status' = [status EXCEPT ![j] = Pending]

Begin(j) ==
    /\ status[j] = Pending
    /\ status' = [status EXCEPT ![j] = Running]

Finish(j) ==
    \/ /\ status[j] = Running
       /\ status' = [status EXCEPT ![j] = Completed]
    \/ /\ status[j] \in {Pending, Running}
       /\ status' = [status EXCEPT ![j] = Failed]

Cancel(j) ==
    /\ status[j] \in {Pending, Running}
    /\ status' = [status EXCEPT ![j] = Cancelled]

Next == \E j \in Job : Submit(j) \/ Begin(j) \/ Finish(j) \/ Cancel(j)

Spec == Init /\ [][Next]_status
=============================================================================

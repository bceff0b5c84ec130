------------------------------- MODULE AIJob -------------------------------
(***************************************************************************)
(* The AIJob aggregate of ai_engine and what its two orchestrators do with *)
(* it between two calls to the repository or to a task.                    *)
(*                                                                         *)
(* A job is its status and its result: none, the output of a task, or an   *)
(* error.  Id, type, payload, tags and timestamps decide nothing here.     *)
(***************************************************************************)

Pending   == "pending"
Running   == "running"
Completed == "completed"
Failed    == "failed"
Cancelled == "cancelled"

Statuses == {Pending, Running, Completed, Failed, Cancelled}

Terminal(s) == s \in {Completed, Failed, Cancelled}

\* "absent" is the status of a job that is not in the collection.
Absent == "absent"

AIJobs == [status : Statuses \cup {Absent}, result : {"none", "output", "error"}]

NoAIJob == [status |-> Absent, result |-> "none"]

NewAIJob == [status |-> Pending, result |-> "none"]

\* mark_running, mark_completed, mark_failed and cancel raise ValueError unless
\* the status is the one in front of the step.
MarkRunning(d) == [d EXCEPT !.status = Running]

MarkCompleted(d) == [status |-> Completed, result |-> "output"]

MarkFailed(d) == [status |-> Failed, result |-> "error"]

CanCancel(d) == d.status \in {Pending, Running}

MarkCancelled(d) == [d EXCEPT !.status = Cancelled]

\* _fail_job runs a pending job first; of a terminal job mark_failed raises,
\* and the exception leaves process_job.
CanFail(d) == d.status \in {Pending, Running}

FailJob(d) == MarkFailed(d)

\* What a task may do with a valid payload: return a result, return a failure,
\* or raise, which the contract forbids and the orchestrator handles.
TaskResult == {"output", "failure", "raises"}

\* Seeded fault: what the task returned is stored as it is.
StoreRaw(d, r) == [status |-> Completed, result |-> r]

\* Seeded fault: an exception of the task leaves the job as it was.
IgnoreRaise(d, r) == IF r = "raises" THEN d ELSE MarkCompleted(d)

AfterTask(d, r) == IF r = "output" THEN MarkCompleted(d) ELSE FailJob(d)
=============================================================================

---------------------------- MODULE JobDocument ----------------------------
(***************************************************************************)
(* The job of api-service as data: its statuses, the transitions its value *)
(* object allows, the entity's methods and its validity predicate.         *)
(*                                                                         *)
(* A job is a record of what the properties tell apart.  Timestamps are    *)
(* abstracted to the two facts the code compares: whether started_at is    *)
(* set, and whether completed_at is unset ("no"), set at or after          *)
(* started_at ("yes"), or older than started_at ("stale").  result is      *)
(* absent, the output of a successful workload, or an output whose own     *)
(* success flag is false.  error is set or not.  Id, owner, type, priority *)
(* and input never change what is below and are left out.                  *)
(***************************************************************************)

Pending   == "pending"
Running   == "running"
Completed == "completed"
Failed    == "failed"
Cancelled == "cancelled"

Statuses == {Pending, Running, Completed, Failed, Cancelled}

IsTerminal(s) == s \in {Completed, Failed, Cancelled}

\* JobStatus.TRANSITIONS
Transitions ==
    [s \in Statuses |->
        CASE s = Pending -> {Running, Cancelled}
          [] s = Running -> {Completed, Failed, Cancelled}
          [] OTHER       -> {}]

CanTransition(from, to) == from \in Statuses /\ to \in Transitions[from]

-----------------------------------------------------------------------------

\* "absent" is the status of a document that is not in the collection.
Absent == "absent"

Document ==
    [status   : Statuses \cup {Absent},
     started  : BOOLEAN,
     finished : {"no", "yes", "stale"},
     result   : {"none", "ok", "unsuccessful"},
     error    : BOOLEAN]

NoDocument ==
    [status |-> Absent, started |-> FALSE, finished |-> "no",
     result |-> "none", error |-> FALSE]

Exists(d) == d.status # Absent

\* Job.create
NewJob == [NoDocument EXCEPT !.status = Pending]

\* Writing started_at now makes an earlier completed_at older than it.
StampStarted(d) ==
    [d EXCEPT !.started  = TRUE,
              !.finished = IF @ = "no" THEN "no" ELSE "stale"]

StampFinished(d) == [d EXCEPT !.finished = "yes"]

\* Job.cancel
Cancel(d) == [StampFinished(d) EXCEPT !.status = Cancelled]

\* Job.is_valid
IsValid(d) ==
    /\ d.status \in Statuses
    /\ d.finished # "stale"
    /\ IsTerminal(d.status) => d.finished # "no"
    /\ d.status = Running => d.started
    /\ d.status = Completed => ~d.error
    /\ d.status = Failed => d.error
=============================================================================

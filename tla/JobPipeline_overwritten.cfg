\* An update of the priority races the worker; nothing fails.
SPECIFICATION Spec
CONSTANTS
    Job = {j1}
    Thread = {t1}
    Worker = {w1}
    NoJob = NoJob
    Ops = {"update"}
    Budget <- NoFaults
INVARIANT ReportedOutcomeIsRead
CHECK_DEADLOCK FALSE

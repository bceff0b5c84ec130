\* One thread, one job, no failure: an AI job is submitted and asked for.
SPECIFICATION Spec
CONSTANTS
    Job = {j1}
    NoJob = NoJob
    Thread = {t1}
    User = {ann}
    Admin = {}
    MaxRetries = 1
    MaxFailures = 0
CHECK_DEADLOCK FALSE
INVARIANT PollUrlIsServed

\* Two jobs, which are updated, compete for one worker, which is lost once; a status write fails.
SPECIFICATION FairSpec
CONSTANTS
    Job = {j1, j2}
    Thread = {t1}
    Worker = {w1}
    NoJob = NoJob
    Ops = {"update"}
    Budget <- LivenessFaults
INVARIANT NoJobLost
PROPERTIES MessagesAreExecuted RunningJobsFinish
CHECK_DEADLOCK FALSE

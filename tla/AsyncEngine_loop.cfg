\* Two jobs compete for one slot; clients cancel and shut down.
SPECIFICATION FairSpec
CONSTANTS
    Job = {j1, j2}
    MaxConcurrent = 1
    AwaitableTasks = TRUE
    Behaviours = {"refused", "output", "failure", "raises"}
    Callers = {"cancel", "shutdown"}
    CallFailures = 1
INVARIANTS TypeOK SlotsAreKept CancelledNeverExecutes ShutdownLeavesNothing
PROPERTIES RunsEnd FollowsLifecycle
CHECK_DEADLOCK FALSE

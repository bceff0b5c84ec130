\* One job, every use case, one fault of each kind that meets a dispatch or an execution.
SPECIFICATION Spec
CONSTANTS
    Job = {j1}
    Thread = {t1, t2}
    Worker = {w1, w2}
    NoJob = NoJob
    Ops = {"update", "cancel", "delete"}
    Budget <- ExecutionFaults
SYMMETRY Interchangeable
INVARIANTS TypeOK RecordsStayCoherent AnnouncedBeforeReported
    SavedBeforeDispatch SingleExecution
PROPERTIES OnlySavesInsert OutcomesStay FollowsLifecycle
CHECK_DEADLOCK FALSE

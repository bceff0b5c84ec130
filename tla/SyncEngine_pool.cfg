\* Three requests over two pool threads of the standalone application, whose
\* teardown shuts the pool down; one death and one failing call.
SPECIFICATION FairSpec
CONSTANTS
    Job = {j1, j2, j3}
    PoolThread = {p1, p2}
    NoJob = NoJob
    ShutdownOnTeardown = TRUE
    Budget <- OneOfEach
INVARIANTS TypeOK ExecutedAtMostOnce AcceptedIsCarried
PROPERTIES AcceptedJobsFinish FollowsLifecycle
CHECK_DEADLOCK FALSE

\* Two clients over two server threads, cold and warm; one attempt given up,
\* one retry, one poll before the timeout;
\* one client that also reads.
SPECIFICATION FairSpec
CONSTANTS
    Client = {c1, c2}
    NoClient = NoClient
    Reader = {c2}
    Slot = {s1, s2}
    MaxJobs = 5
    MaxManagers = 2
    MaxCalls = 1
    Retries = 1
    Timeout = 0
    MaxGivenUp = 1
INVARIANTS TypeOK MissingMeansSwept DuplicatesNeedTrouble
PROPERTY CallsEnd
CHECK_DEADLOCK FALSE

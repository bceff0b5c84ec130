\* Two threads serve one session, from the first request the process gets.
SPECIFICATION Spec
SYMMETRY Interchangeable
CONSTANTS
    Thread = {t1, t2}
    State = {x1, x2}
    Backends = {"memory", "mongo"}
    Starts = {"cold"}
    MaxTokens = 2
    MaxSessions = 1
    MaxUsers = 2
\* The bounds on tokens and sessions end a run.
CHECK_DEADLOCK FALSE
INVARIANT OneUserPerIdentity
INVARIANT TokensAreFound

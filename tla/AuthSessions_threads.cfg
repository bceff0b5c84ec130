\* Three threads serve the clients of two logins, in either storage.
SPECIFICATION Spec
SYMMETRY Interchangeable
CONSTANTS
    Thread = {t1, t2, t3}
    State = {x1, x2}
    Backends = {"memory", "mongo"}
    Starts = {"warm"}
    MaxTokens = 3
    MaxSessions = 2
    MaxUsers = 2
\* The bounds on tokens and sessions end a run.
CHECK_DEADLOCK FALSE
INVARIANT TypeOK
INVARIANT SweptStaysDead
INVARIANT StateUsedOnce

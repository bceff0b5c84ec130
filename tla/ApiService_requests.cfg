\* Two threads serve two users, one an admin, over two jobs; one command fails.
SPECIFICATION Spec
SYMMETRY Interchangeable
CONSTANTS
    Job = {j1, j2}
    NoJob = NoJob
    Thread = {t1, t2}
    User = {ann, root}
    Admin = {root}
    MaxRetries = 3
    MaxFailures = 1
\* The process exits.
CHECK_DEADLOCK FALSE
INVARIANT TypeOK
INVARIANT OwnersOnly
INVARIANT AnswersAreTrue

\* Two pool threads, one or two calls each, one failing pipeline; thresholds
\* below, at and above the margins of the texts.
SPECIFICATION FairSpec
CONSTANTS
    Thread = {t1, t2}
    NoThread = NoThread
    Wirings = {"engine", "runner", "injected"}
    Margins = {20, 30}
    Thresholds = {20, 30}
    NoThreshold = NoThreshold
    Lengths = {"short", "enough", "long"}
    MaxCalls = 2
    MaxFailures = 1
INVARIANTS TypeOK ModelLoadsOnce AnswersUndisturbed
PROPERTY CallsReturn
CHECK_DEADLOCK FALSE

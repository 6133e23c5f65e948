SPECIFICATION FairSpec
CONSTANTS
    NJobs = 2
    Workers = {w1, w2}
    NoWorker = none
    MaxAttempts = 2
    StaleAfter = 2
    Backoff <- MCBackoff
    Grace = 1
    Past = 0
    Timely = TRUE
    Runs = {r1}
    Requests = {q1}
CHECK_DEADLOCK FALSE
ACTION_CONSTRAINT Serial
INVARIANTS SomebodyIsOnIt OnePipeline
PROPERTIES CancelledForGood EveryRunRests

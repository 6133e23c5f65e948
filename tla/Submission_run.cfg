SPECIFICATION FairSpec
CONSTANTS
    Runs = {r1, r2}
    NoRun = none
    Contents = {a, b}
    NoFile = nofile
    Requests = {q1}
    DraftDays = 1
    RunDays = 2
    OrderLimit = 2
ACTION_CONSTRAINT Serial
INVARIANTS TwinsAreExplained
PROPERTIES SweptUnlessReferredTo
CHECK_DEADLOCK FALSE

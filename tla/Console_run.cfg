SPECIFICATION ConsoleSpec
CONSTANTS
    NJobs = 1
    Workers = {w1, w2, w3}
    NoWorker = none
    MaxAttempts = 2
    StaleAfter = 2
    Backoff <- MCBackoff
    Grace = 1
    Past = 1
    Timely = FALSE
    Statements = {o1}
    MaxCandidates = 2
    MaxRules = 2
    Kinds = {"check", "compliance_rule", "field_constraint"}
    Names = {n1}
    Bodies = {b1}
    Blank = none
    Teachers = {q1}
    RestoreWindow = 0
    Entries = {e1}
    Guides = {g1}
    ca = ca
    cb = cb
    Contents = {ca, cb}
    Yields <- MCYields
    NoContent = none
    ProgrammeRules = {r1, r2}
    Texts = {t1}
    NoText = none
    Editors = {d1}
    Starts = {s1}
    MaxVersions = 3
    Users = {u1, u2}
    Bootstrap = u1
    Screens = {c1}
    LockAfter = 1
    Attempts = {a1}
    Questions = {h1, h2}
    Prompts = {p1}
    Sizes = {1, 2}
    MaxSize = 2
    Budget = 2
    MaxQuestions = 1
    MaxSends = 2
    ax = ax
    ay = ay
    az = az
    Attributes = {ax, ay, az}
    Aliases <- MCAliases
    Values = {0, 1, 2, 3, 4}
    Bounds = {1, 3}
    Numeral <- MCNumeral
    three = three
    word = word
    Answers <- MCAnswers
    BlockAnswers <- MCBlockAnswers
    Plumbing <- MCPlumbing
    StateCodes <- MCStateCodes
    Catalogue <- MCProducts
    NoMode = none
    NoValueText = none
    MaxRetries = 1
    Members = {m1, m2}
    Readings <- MCReadings
    NoElement = none
CONSTRAINT ConsoleBound
INVARIANTS
    GivenUpFairly OverlapsAreDecided OneRulePerCandidate
    NothingRunsForTheRejected ConfirmedSaysWhatRuns LatestSaysWhatRuns
    NeverOlderThanNamed SomeAdminRemains SpendIsOnTheLog
    ChecksJudgeTheRecords FindingsAreDifferences ComparedAsSaid
PROPERTIES EveryJobEnds
CHECK_DEADLOCK FALSE

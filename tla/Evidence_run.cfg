SPECIFICATION NamesSpec
CONSTANTS
    NJobs = 2
    Workers = {w1, w2}
    NoWorker = none
    MaxAttempts = 2
    StaleAfter = 2
    Backoff <- MCBackoff
    Grace = 1
    Past = 1
    Timely = TRUE
    c1 = c1  c2 = c2  c3 = c3  v = v  w = w
    Order <- MCOrder
    Scopes = {"everywhere", "customer"}
    Proposals <- MCProposals
    Seeds <- MCSeeds
    MaxEdits = 2
    NoTerm = NoTerm
    Resembles <- MCResembles
    SameWords <- MCSameWords
    MaxNear = 2
    MaxCalls = 1
    MaxRuns = 1
    Deliveries <- MCDeliveries
    Forms <- MCForms
    NewAliases <- MCNewAliases
    Catalogue <- MCCatalogue
    NoName = NoName
    NoDelivery = NoDelivery
    Codes = {"A", "B"}
    CodeScopes = {"everywhere", "customer"}
    CodeTerms <- MCDelivered
    Keepers = {k1, k2}
    CodedRuns = {r1}
    NoCode = NoCode
    MaxSaves = 2
    Wordings = {"x", "y"}
    Paths = {p1, p2}
    SampleScopes = {"", "AM"}
    MaxSamples = 1
    MaxPerStage = 1
    LabelTexts = {"l"}
    BuiltIn = FALSE
    Absent = Absent
    MaxSaved = 4
    RunFindings = {"f1", "f2", "f3", "f4", "f5"}
    FindingOf <- MCFindingOf
    CustomerOf <- MCCustomerOf
    FoldedCustomer <- MCFoldedCustomer
    MIN_OCCURRENCES = 2
    Deciders = {d1, d2}
    MaxVerdicts = 3
INVARIANTS OneOwner ReadingsAreReported NothingGoesUnread OneTermOneName LatestIsWhatIsKept
    RowIsItsVerdicts
PROPERTIES ImplementsService AcceptedIsRead
CHECK_DEADLOCK FALSE

SPECIFICATION StagesSpec
CONSTANTS
    Requirements = {r1, r2}
    Elements = {e1, e2}
    NoElement = NoElement
    MaxAttempts = 2
    Layers <- MCLayers
    Within <- MCWithin
    Apart = 2
    Unbounded = Unbounded
    Unusable = Unusable
    Orders <- MCOrders
    Titles = {"t", "u"}
    NoTitle = NoTitle
    NoLabel = NoLabel
    HitFloor = 2
    key = key  mine = mine  shipped = shipped
    t1 = t1  t2 = t2  p1 = p1
    SettingKeys = {key}
    Secrets = {key}
    ReadOnly = {}
    SettingValues = {mine, shipped}
    Unset = unset
    Usable <- MCUsable
    Environment <- MCEnvironment
    Default <- MCDefault
    Threads = {t1, t2}
    Processes = {p1}
    ProcessOf <- MCProcessOf
    CacheTTL = 2
    MaxChanges = 2
    ReportTypes = {"dirt", "state", "counts"}
    Shelves <- MCShelves
    Workbooks <- MCWorkbooks
    Submissions <- MCSubmissions
    Folded <- MCFolded
    NoType = NoType
    NoValueGiven = "none"
    Acceptors = {q1, q2}
    Conversations <- MCConversations
    Marker <- MCMarker
INVARIANTS EveryPartIsConstrained
CHECK_DEADLOCK FALSE

\* One node request, delivered up to twice on two connections, and two
\* operators.  The Hub asks for single approvals only.
CONSTANTS
    a1 = a1
    r1 = r1
    o1 = o1
    o2 = o2
    h1 = h1
    h2 = h2
    Asks = {a1}
    Ids = {r1}
    Levels = {1}
    Operators = {o1, o2}
    Handlers = {h1, h2}
    Deliveries = 2
    Lister = Lister
    Janitor = Janitor
    Timer = Timer
    Free = Free
    NoId = NoId
    NoAsk = NoAsk
    NoRequest = NoRequest
SPECIFICATION FairSpec
CHECK_DEADLOCK FALSE
INVARIANTS
    TypeOK
    InOneMap
    ToldMatchesRecord
    OneApprovalPerAsk
PROPERTIES
    HistoryIsFinal
    DecisionReturns

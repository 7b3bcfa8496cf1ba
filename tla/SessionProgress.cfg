\* A connection of each of two nodes, with channels of one slot that the backlog
\* may exceed, under fairness.
CONSTANTS
    n1 = n1
    n2 = n2
    n3 = n3
    c1 = c1
    c2 = c2
    c3 = c3
    c4 = c4
    home = home
    work = work
    team = team
    Api = Api
    NoConn = NoConn
    NoId = NoId
    NoNode = NoNode
    Nodes = {n1, n2}
    Conns = {c1, c3}
    NodeOf <- MCNodeOf
    NameOf <- MCNameOf
    IdOf <- MCNoIds
    MaxNodes = 2
    ChannelCap = 1
    MaxSubmissions = 3
SPECIFICATION FairSpec
CHECK_DEADLOCK FALSE
INVARIANT
    TypeOK
PROPERTIES
    SetupCompletes
    DroppedIsCleaned

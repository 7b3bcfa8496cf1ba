\* Two connections of one node, one of each of two others, room for two nodes,
\* two connections that give the same workspace id.
CONSTANTS
    n1 = n1
    n2 = n2
    n3 = n3
    c1 = c1
    c2 = c2
    c3 = c3
    c4 = c4
    home = home
    work = work
    team = team
    Api = Api
    NoConn = NoConn
    NoId = NoId
    NoNode = NoNode
    Nodes = {n1, n2, n3}
    Conns = {c1, c2, c3, c4}
    NodeOf <- MCNodeOf
    NameOf <- MCNameOf
    IdOf <- MCSharedIds
    MaxNodes = 2
    ChannelCap = 1
    MaxSubmissions = 0
SPECIFICATION Spec
CHECK_DEADLOCK FALSE
INVARIANTS
    NoGhosts
    IndexExact
    RoutableUnlessOverlapped

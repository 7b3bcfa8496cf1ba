\* The node reconnects before the Hub has noticed the disconnection.
CONSTANTS
    n1 = n1
    n2 = n2
    n3 = n3
    c1 = c1
    c2 = c2
    c3 = c3
    c4 = c4
    home = home
    work = work
    team = team
    Api = Api
    NoConn = NoConn
    NoId = NoId
    NoNode = NoNode
    Nodes = {n1}
    Conns = {c1, c2}
    NodeOf <- MCNodeOf
    NameOf <- MCNameOf
    IdOf <- MCNoIds
    MaxNodes = 1
    ChannelCap = 1
    MaxSubmissions = 1
SPECIFICATION Spec
CHECK_DEADLOCK FALSE
INVARIANTS
    ReconnectedIsRoutable

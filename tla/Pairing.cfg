\* Two requests of a device, two codes that may collide, two chat users.
CONSTANTS
    d1 = d1
    q1 = q1
    q2 = q2
    k1 = k1
    k2 = k2
    u1 = u1
    u2 = u2
    Canceller = Canceller
    Poller = Poller
    Timer = Timer
    Free = Free
    NoCode = NoCode
    NoDevice = NoDevice
    NoUser = NoUser
    NoPairing = NoPairing
    Devices = {d1}
    Pairings = {q1, q2}
    Codes = {k1, k2}
    Users = {u1, u2}
SPECIFICATION FairSpec
CHECK_DEADLOCK FALSE
INVARIANTS
    ConfirmedOnce
    PendingHasCode
PROPERTIES
    ConfirmReturns

SPECIFICATION Spec
CONSTANTS
    a = a
    lan = lan
    own = own
    ipA = ipA
    ipB = ipB
    Peers = {a}
    Prefixes = {lan}
    Addrs = {ipA, ipB}
    Within <- MCWithin
    AddrsOf <- MCAddrsOf
    StaticOrigin = static
    None = None
    MaxAge = 0
    Slots = {s1, s2}
    Callers = {u1}
    Sweeper = sweeper
    Conns = {c1}
    Jobs <- LifecycleCalls
    Shares = {{lan}}
    Direct = {a}
    Policy <- MCPolicy
    Seats <- MCSeats
    Injected <- NoRoutes
    HasSink = TRUE
    MaxFaults = 0
    MaxSweeps = 0
    MaxRefresh = 0
INVARIANTS
    CurrentRevIsCurrentTable
PROPERTIES
    MembersReachTable
    DroppedSlotEnds
CHECK_DEADLOCK FALSE

SPECIFICATION Spec
CONSTANTS
    a = a
    lan = lan
    own = own
    ipA = ipA
    ipB = ipB
    Peers = {a}
    Prefixes = {lan, own}
    Addrs = {ipA, ipB}
    Within <- MCWithin
    AddrsOf <- MCAddrsOf
    StaticOrigin = static
    None = None
    MaxAge = 0
    Slots = {s1}
    Callers = {u1}
    Sweeper = sweeper
    Conns = {c1}
    Jobs <- ReseatCalls
    Shares = {{lan}}
    Direct = {a}
    Policy <- MCPolicy
    Seats <- MCSeats
    Injected <- OwnRoute
    HasSink = FALSE
    MaxFaults = 0
    MaxSweeps = 0
    MaxRefresh = 0
INVARIANTS
    SettledMembersCurrent
CHECK_DEADLOCK FALSE

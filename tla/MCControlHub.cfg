SPECIFICATION Spec
CONSTANTS
    a = a
    lan = lan
    own = own
    ipA = ipA
    ipB = ipB
    Peers = {a}
    Prefixes = {lan, own}
    Addrs = {ipA, ipB}
    Within <- MCWithin
    AddrsOf <- MCAddrsOf
    StaticOrigin = static
    None = None
    MaxAge = 0
    Slots = {s1}
    Callers = {u1}
    Sweeper = sweeper
    Conns = {c1, c2, c3}
    Jobs <- NoCalls
    Shares <- MCShares
    Direct = {a}
    Policy <- MCPolicy
    Seats <- MCSeats
    Injected <- OwnRoute
    HasSink = FALSE
    MaxFaults = 1
    MaxSweeps = 1
    MaxRefresh = 1
INVARIANTS
    NewestSessionSpeaks
    NoStreamForgotten
PROPERTY
    ImplementsFeed
CHECK_DEADLOCK FALSE

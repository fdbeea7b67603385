SPECIFICATION MCSpec
CONSTANTS
    a = a
    b = b
    wide = wide
    lan = lan
    far = far
    ipA = ipA
    ipB = ipB
    Peers = {a, b}
    Prefixes = {wide, lan, far}
    Addrs = {ipA, ipB}
    Within <- MCWithin
    AddrsOf <- MCAddrsOf
    StaticOrigin = static
    None = None
    MaxAge = 14
    Policies <- MCPolicies
    Memberships <- MCMemberships
    Vias = {None, ipB}
    StaticAllows = {{}}
    TTL = 2
    SweepInterval = 1
    MaxRev = 5
    ShareLAN <- MCShareLAN
    Rows <- MCRows
    ClaimTTL = 9
    ClaimSweepInterval = 3
    RefreshInterval = 4
    MaxStall = 1
    MaxHeld = 1
INVARIANTS
    RoutesApproved
    NoneOutlivesSweep
    ConnectedLanInstalled
    BlackholeBounded
PROPERTIES
    RouteSteps
    LanFollowsSpoke

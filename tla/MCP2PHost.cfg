SPECIFICATION Spec
CONSTANTS
    Tunnels = {t1, t2}
    Meshes = {m1}
    Keys = {k1, k2}
    Lists = {{k1}, {k1, k2}}
    Misconfigured = {}
    Sigs = {sigA, sigB}
    Saved = sigA
    None = None
    MaxChanges = 1
    MaxFailures = 1
    MaxUpdates = 2
INVARIANTS
    RefsAreHeld
    ConsumersAgree
PROPERTIES
    HeldHostStays
    RoutesKept
    IdleHostStops
CHECK_DEADLOCK FALSE

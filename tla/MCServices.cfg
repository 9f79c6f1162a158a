SPECIFICATION Spec
CONSTANTS
    Parts = {"server", "gate", "routes", "mesh", "wa"}
    None = None
    P1 = P1
    P2 = P2
    c1 = c1
    Proc = {P1, P2}
    Conn = {c1, c2, c3}
    At <- Hosts
    Op = {o1}
    MaxCtx = 3
    IdleZero = {P2}
    Addr = {a1}
    Doc = {d1}
    Request = {q1, q2, q3}
    MaxUpgrades = 1
    Window = 2
    GateTime = 4
    Ask <- Asks
    Blank = "  "
    Plan <- Plans
    Call = {k1, k2}
    MaxLatency = 1
    RouteTime = 2
    MaxCalls = 4
    MayFail = TRUE
    Peer = {A, B}
    PruneEvery = 2
    Timeout = 5
    MaxDelay = 1
    MaxFaults = 1
INVARIANTS
    BackendsFollowConnections
    StoredIsAnnounced
    RateIsBounded
    
    NeighboursAreReady
    
CHECK_DEADLOCK FALSE

SPECIFICATION Spec
CONSTANTS
    Parts = {"exchange", "refusal", "pushing", "waiting", "serving", "sqlite", "postgres", "server", "mesh", "edits"}
    all = all
    scoped = scoped
    fa = fa
    fb = fb
    batch = batch
    retry = retry
    hello = hello
    local = local
    server = server
    neighbour = neighbour
    parent = parent
    Edit = {1, 2, 3}
    EditSetUps = 3
INVARIANTS
    SuccessIsComplete
    
    NothingForgotten
    AppliedIsAuthorized
    MaterialIsSound
    NoOrphanSubscription
    HintsAreNotLost
PROPERTIES
    
    CallsAreAtomic
CHECK_DEADLOCK FALSE

SPECIFICATION Spec
CONSTANTS
    Parts = {"exchange", "pushing", "waiting", "material"}
    all = all
    scoped = scoped
    fa = fa
    fb = fb
    batch = batch
    retry = retry
    hello = hello
    local = local
PROPERTIES
    SyncOnceSettles
    EventuallyPushed
    WorkEnds
CHECK_DEADLOCK FALSE

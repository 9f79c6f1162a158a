SPECIFICATION Spec
CONSTANTS
    Parts = {"sqlite"}
    all = all
    scoped = scoped
    fa = fa
    fb = fb
    batch = batch
    retry = retry
    hello = hello
    local = local
    server = server
    neighbour = neighbour
    parent = parent
    Edit = {1, 2, 3}
    EditSetUps = 3
PROPERTY
    ReturnedIsDurable
CHECK_DEADLOCK FALSE

SPECIFICATION Spec
CONSTANTS
    Parts = {"hiding"}
    all = all
    scoped = scoped
    fa = fa
    fb = fb
    batch = batch
    retry = retry
    hello = hello
    local = local
    server = server
    neighbour = neighbour
    parent = parent
    Edit = {1, 2, 3}
    EditSetUps = 3
INVARIANT
    UploadIsDurable
CHECK_DEADLOCK FALSE

\* Two topology names, two request threads, two imports, one failure or restart.
SPECIFICATION Spec
CONSTANTS
    v1 = v1
    v2 = v2
    h1 = h1
    h2 = h2
    s1 = s1
    s2 = s2
    p1 = p1
    p2 = p2
    Names = {n1, n2}
    Nodes = {h1, h2, s1, s2}
    Ports = {p1, p2}
    ServiceIds = {v1, v2}
    Threads = {w1, w2}
    None = None
    Documents <- MCDocuments
    Captures <- MCCaptures
    Inventories <- MCInventories
    MaxImports = 2
    MaxFailures = 1
SYMMETRY Symmetry
CHECK_DEADLOCK FALSE
INVARIANTS
    TypeOK
    GraphIntact
    FreshBindingsFit
    OnePort
    ServicesPinned

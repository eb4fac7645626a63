SPECIFICATION CacheSpec
CONSTANTS
    d1 = d1
    d2 = d2
    d3 = d3
    w1 = w1
    w2 = w2
    p1 = p1
    p2 = p2
    Nothing = Nothing
    Deployments = {d1, d2, d3}
    Processes = {w1, w2}
    Packages = {p1, p2}
    Faults = {"download", "archive", "crash"}
    MaxLoads <- MCMaxLoads
SYMMETRY MCSymmetry
INVARIANTS
    UsedStays
CHECK_DEADLOCK FALSE

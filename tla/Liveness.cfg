SPECIFICATION FairSpec
CONSTANTS
    Sessions = {s1, s2, s3}
    Requests = {r1}
    Apps = {}
    MaxTasks = 3
    Operations = {"configure", "deploy", "delete"}
    Faults = {}
    Interleaved = TRUE
    None = None
INVARIANTS
    EverySessionAwaitsResult
PROPERTIES
    EverySessionCloses
CHECK_DEADLOCK FALSE

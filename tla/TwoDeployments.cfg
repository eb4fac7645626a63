SPECIFICATION Spec
CONSTANTS
    Sessions = {s1, s2}
    Requests = {r1, r2}
    Apps = {}
    MaxTasks = 2
    Operations = {"configure", "deploy"}
    Faults = {}
    Interleaved = TRUE
    None = None
INVARIANTS
    OneDeployment
CHECK_DEADLOCK FALSE

SPECIFICATION Spec
CONSTANTS
    Sessions = {s1, s2, s3}
    Requests = {r1}
    Apps = {a}
    MaxTasks = 3
    Operations = {"configure", "edit", "delete", "action"}
    Faults = {"loss", "report"}
    Interleaved = FALSE
    None = None
SYMMETRY Symmetric
INVARIANTS
    
    ExclusiveDeployment
CHECK_DEADLOCK FALSE

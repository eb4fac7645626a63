SPECIFICATION Spec
CONSTANTS
    Sessions = {s1}
    Requests = {r1, r2}
    Apps = {a}
    MaxTasks = 2
    Operations = {"configure", "deploy", "edit", "drop"}
    Faults = {}
    Interleaved = TRUE
    None = None
SYMMETRY Symmetric
PROPERTIES
    NeverReopened
CHECK_DEADLOCK FALSE

SPECIFICATION TasksSpec
CONSTANTS
    Things = {"x", "y"}
    Trusts = {"t1", "t2"}
    UseTrusts = TRUE
    NoTrust = "none"
PROPERTIES
    OnlyDroppedAreDestroyed
CHECK_DEADLOCK FALSE

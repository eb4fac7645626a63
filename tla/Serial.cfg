SPECIFICATION Spec
CONSTANTS
    Sessions = {s1, s2, s3}
    Requests = {r1}
    Apps = {a}
    MaxTasks = 2
    Operations = {"configure", "deploy", "edit", "drop", "abandon", "action"}
    Faults = {"loss", "trust", "report"}
    Interleaved = FALSE
    None = None
SYMMETRY Symmetric
INVARIANTS
    OneDeployment
    DeployedOnce
    StatusShowsDeployment
PROPERTIES
    CurrentDeployed
    ResultsAreOwn
    DeploymentsAreAtomic
CHECK_DEADLOCK FALSE

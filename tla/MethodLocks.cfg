SPECIFICATION FairSpec
CONSTANTS
    x = x
    y = y
    v = v
    deploy = deploy
    install = install
    setting = setting
    create = create
    None = None
    Calls <- MCCalls
    Static = {create}
    OnThis = {deploy, install, create}
    OnArgs = {setting}
    Root <- deployX
    MayCall <- MCMayCall
    MayFork <- MCMayFork
    MaxThreads = 4
    MaxSteps = 4
INVARIANTS
    LocksProtect
    BranchesAreAwaited
PROPERTIES
    EngineCallReturns
CHECK_DEADLOCK FALSE

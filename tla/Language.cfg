SPECIFICATION LanguageSpec
CONSTANTS
    LanguageParts = {"destruction", "model", "initialisation", "types", "statements",
                     "contracts", "assignments", "calls"}
    \* ObjectDestruction
    Objects = {o1, o2, o3}
    Root = root
    Handlers = {"h"}
    MaxSubscriptions = 2
    \* ObjectModel
    Things = {x, y}
    Top = top
    NotThere = nowhere
    MaxTasks = 2
    MaxChanges = 3
    \* MuranoTypes
    OwnClasses = {1, 2, 3}
    CoreObject = 9
    NoSuchClass = 8
    Natives = {2}
    Versions = {1, 2, 3, 4}
    MaxInherited = 4
    MaxLookups = 2
    \* ObjectInit
    Classes = {"A", "B", "C", "D"}
    Bottom = "D"
    Extends <- MCExtends
    PropertyNames = {"p", "q"}
    Layouts <- MCLayouts
    \* Statements
    Programs <- MCPrograms
    MaxRounds = 2
    MaxDepth = 8
    \* Contracts
    ModelObjects = {"this", "o1", "o2", "o3"}
    KindOf <- MCKindOf
    OwnerOf <- MCOwnerOf
    Compatible <- MCCompatible
    This = "this"
    ContractSpecs <- MCContractSpecs
    Data <- MCData
    \* Assignments
    Variables = {"x", "y"}
    ObjectIds = {"o"}
    Keys = {}
    Indices = {0, 1}
    DeclaredBy <- MCDeclaredBy
    Inherited <- MCInherited
    ReadOnly = {}
    Static = {"q"}
    Base = "B"
    Derived = "D"
    Stranger = "S"
    MaxAssignments = 1
    MaxSteps = 2
    \* MethodCalls
    CallClasses = {"A", "B", "S"}
    ParentOf <- MCParentOf
    NoParent = "none"
    Methods <- MCMethods
    ClassProperties <- MCClassProperties
    Instances = {"o1", "o2"}
    InstanceOf <- MCInstanceOf
    Passed <- MCPassed
    Settings = {"low", "high"}
    MaxFrames = 3
    MaxInvocations = 3
SYMMETRY Symmetric
INVARIANTS
    
    ModelIsKept
    
    InitialisedInOrder
    FinallyRuns
    
PROPERTIES
    AssignedIsRead
    CallsKeepToTheirRights
CHECK_DEADLOCK FALSE

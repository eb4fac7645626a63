SPECIFICATION ServicesSpec
CONSTANTS
    ServiceParts = {"catalog", "search", "templates", "broker", "instances", "requests", "api",
                    "policy", "modification", "heat", "tasks", "versions", "packages"}
    \* PackageCatalog
    Tenants = {"t1", "t2"}
    Archives = {"a1", "a2", "a3"}
    Content <- MCContent
    PackageIds = {"p1", "p2", "p3"}
    MaxRequests = 3
    Workers = {"w1", "w2"}
    MaxRetries = 1
    Nobody = Nobody
    Gone = Gone
    \* CatalogSearch
    Shelf = {1, 2, 3}
    TableRows <- MCTableRows
    ShelfRows <- MCShelfRows
    Searches <- MCSearches
    Patches <- MCPatches
    ApiLimit = 2
    MaxPatches = 1
    \* EnvironmentTemplates
    TemplateIds = {"t1", "t2"}
    Owners = {"o1", "o2"}
    ServiceIds = {"s1", "s2"}
    Editors = {"e1", "e2"}
    MaxServices = 2
    MaxEdits = 3
    \* ServiceBroker
    Spaces = {"sp"}
    ServiceInstances = {"i1", "i2"}
    Brokers = {"b1", "b2"}
    MaxEnvironments = 2
    MaxCalls = 3
    \* Statistics
    TrackedEnvs = {"e1", "e2"}
    TrackedIds = {"i1", "i2"}
    Units = {1, 2}
    Hosts = {"h1"}
    MaxNotes = 3
    MaxServed = 2
    MaxDumps = 2
    \* HeatStacks
    Resources = {"r1"}
    Callers = {"c1", "c2"}
    MaxOperations = 2
    MaxMethods = 3
    \* RestApi
    Calls <- MCCalls
    \* PolicyRules
    Parts = {"o1", "o2", "o3"}
    EnvironmentId = "env"
    Bad = {"o3"}
    MaxChanges = 3
    ClassesOf <- MCClassesOf
    \* ModelModification
    Members = {"env", "a", "b", "c"}
    Environment = "env"
    Fields = {"p", "q"}
    MaxActions = 2
    Firsts <- MCFirsts
    \* TaskExecution
    Things = {"x", "y"}
    Trusts = {"t1", "t2"}
    UseTrusts = TRUE
    NoTrust = "none"
    \* PackageVersions
    Majors = {1, 2}
    Minors = {0, 1}
    Installed <- MCInstalled
    Catalogs <- MCCatalogs
    Specs <- MCVersionSpecs
    MaxLoads = 3
    \* HotPackages
    ParameterSpecs <- MCParameterSpecs
    ParameterNames = {"p", "q"}
    GroupLists <- MCGroupLists
    Entries = {0, 1, 2}
    Empty = Empty
    MaxNames = 2
INVARIANTS
    CatalogIsConsistent
    ListedOnce
    EditsAddUp
    AcceptedIsKnown
    UnitsOfTheLast
    AppliedIsInHeat
    
    
    RemovedStaysOut
    
    
    
CHECK_DEADLOCK FALSE

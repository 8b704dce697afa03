SPECIFICATION Spec
CONSTANTS
    NoRoot = NoRoot
    Templates <- MCTemplates
    Policies <- MCPolicies
    Recorders = {"base", "wide"}
    Uid <- MCUid
    Ancestors <- MCAncestors
    Root <- MCRoot
    LongPaths = {"long"}
    MaxEvents = 3
    MaxGroups = 2
    Scale = 12
    Steps <- MCSteps
    MaxHistory = 4
    RowLimit = 3
INVARIANTS
    EngineIsExact
    SimulationIsExact
    AuditMatchesLive
    UnreachableIsUnreached
CHECK_DEADLOCK FALSE

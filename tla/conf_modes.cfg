SPECIFICATION Spec
CONSTANTS
    i1 = i1
    Lags = {1, 2}
    Ifaces = {i1}
    Speeds = {10}
    Systems = {"default"}
    MaxLagId = 1
    Commands = {"create", "prune", "leave", "join", "mode", "off", "link", "restart", "fallback", "rate"}
    MaxCommands = 3
    FirstRows <- FirstLag
ACTION_CONSTRAINT CarefulStep
INVARIANTS
    TypeOK
    LagIdsAreExclusive
    SportMessagesFit
    
    AttachedAreParticipants
    RunsAsConfigured
    FallbackIsAllowed
    HardwareServesTrunk
    EligibilityAgrees
PROPERTIES
    PortIsTrunkPort
CHECK_DEADLOCK FALSE

SPECIFICATION FairSpec
CONSTANTS
    i1 = i1
    Lags = {1, 2}
    Ifaces = {i1}
    Speeds = {10}
    Systems = {"default", "sysA"}
    MaxLagId = 2
    Commands = {"mode", "off", "join", "link", "sys"}
    MaxCommands = 2
    FirstRows <- TwoLags
ACTION_CONSTRAINT CarefulStep
INVARIANTS
    RunsAsConfigured
    HardwareServesTrunk
    EligibilityAgrees
PROPERTIES
    ComesToRun
CHECK_DEADLOCK FALSE

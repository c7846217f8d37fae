SPECIFICATION Spec
CONSTANTS
    i1 = i1
    Lags = {1, 2}
    Ifaces = {i1}
    Speeds = {10}
    Systems = {"default"}
    MaxLagId = 1
    Commands = {"off"}
    MaxCommands = 1
    FirstRows <- FirstLag
INVARIANTS
    StaticIsLeftAlone
CHECK_DEADLOCK FALSE

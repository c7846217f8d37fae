SPECIFICATION Spec
CONSTANTS
    s1 = s1
    s2 = s2
    p1 = p1
    p2 = p2
    ActorSystems = {a1}
    Systems = {s1}
    NoSystem = NoSystem
    PortIds = {p1}
    NoPort = NoPort
    PortTypes = {speed1}
    Aggregators = {g1}
    NoSport = NoSport
    NoLag = NoLag
    FAST_PERIODIC_COUNT = 1
    SLOW_PERIODIC_COUNT = 2
    SHORT_TIMEOUT_COUNT = 1
    LONG_TIMEOUT_COUNT = 1
    AGGREGATE_WAIT_COUNT = 1
    MAX_ASYNC_TX = 2
    Pdus <- TimerPdus
    Configs <- TimerConfigs
INVARIANTS
    TypeOK
    LinkDownIsQuiet
    AgingIsArmed
    PeriodicIsRunning
PROPERTIES
    DistributionIsEarned
    ChangesAreAnnounced
    TickFlushesNtt

SPECIFICATION FairSpec
CONSTANTS
    sa = sa
    sb = sb
    speed1 = speed1
    nearSystem = sa
    farSystem = sb
    nearPort = pa
    farPort = pb
    ActorSystems = {sa, sb}
    Systems = {sa, sb}
    NoSystem = NoSystem
    PortIds = {pa, pb}
    NoPort = NoPort
    PortTypes = {speed1}
    Aggregators = {g1}
    NoSport = NoSport
    NoLag = NoLag
    FAST_PERIODIC_COUNT = 1
    SLOW_PERIODIC_COUNT = 2
    SHORT_TIMEOUT_COUNT = 2
    LONG_TIMEOUT_COUNT = 3
    AGGREGATE_WAIT_COUNT = 1
    MAX_ASYNC_TX = 1
    NearConfigs <- NearPortConfigs
    FarConfigs <- FarPortConfigs
INVARIANTS
    BlackHoleIsBounded
PROPERTIES
    PeersSettle

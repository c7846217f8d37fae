SPECIFICATION Spec
CONSTANTS
    sa = sa
    sb = sb
    N = 2
    Priority <- ByNumber
    PortTypes = {speed1}
    NoType = NoType
    Wires <- RivalWires
    Fallbacks = {TRUE, FALSE}
    NoSystem = NoSystem
    MAX_PORT_PRIORITY = 9
    MaxDrift = 1
CHECK_DEADLOCK FALSE
INVARIANTS
    TypeOK
    HoldersHaveParams
    SportServesPartner
    PartnerIsReleased

--------------------------- MODULE MCConfigThread ---------------------------
(***************************************************************************)
(* Instances of ConfigThread for TLC.                                      *)
(***************************************************************************)
EXTENDS ConfigThread

CONSTANT i1    \* one of the interfaces

ASSUME InstanceAssumption == i1 \in Ifaces

LagRow(mode, members) ==
    [NoRow EXCEPT !.present = TRUE, !.lacp = mode, !.members = members]

\* The interfaces in the first LAG.  The other one is to be created or, where the first
\* is dynamic, may also be there and static.
FirstLag ==
    {[p \in Lags |-> IF p = 1 THEN LagRow(m, Ifaces) ELSE NoRow] : m \in {"off", "active"}}
    \cup {[p \in Lags |-> IF p = 1 THEN LagRow("active", Ifaces) ELSE LagRow("off", {})]}

\* The interfaces in the first, dynamic LAG; the second is dynamic or static.
TwoLags ==
    {[p \in Lags |-> IF p = 1 THEN LagRow("active", Ifaces) ELSE LagRow(m, {})] :
        m \in {"off", "active"}}

FirstTrunk == INSTANCE TrunkPort WITH
    Trunks <- LagIds, up <- lports[i1].up, egress <- lports[i1].egress,
    trunk <- IF lports[i1].trunk = 0 THEN {} ELSE {lports[i1].trunk}

\* A port of the protocol thread, as the configuration messages and the machines
\* drive it here, is a port as LacpPort has them.
PortIsTrunkPort == FirstTrunk!Spec

=============================================================================

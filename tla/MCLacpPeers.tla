---------------------------- MODULE MCLacpPeers -----------------------------
EXTENDS LacpPeers

CONSTANTS sa, sb, speed1

Config(system, activity, timeout) ==
    [actor |-> system, activity |-> activity, timeout |-> timeout,
     link_up |-> TRUE, port_type |-> speed1]

\* An active near port with the short timeout, or two passive ports.
NearPortConfigs == {Config(sa, "ACTIVE", "SHORT"), Config(sa, "PASSIVE", "LONG")}
FarPortConfigs  == {Config(sb, "PASSIVE", "LONG")}
=============================================================================

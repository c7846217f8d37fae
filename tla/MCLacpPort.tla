----------------------------- MODULE MCLacpPort -----------------------------
(***************************************************************************)
(* Small instances of LacpPort.  The peer's LACPDUs are chosen so that     *)
(* every test of the receive machine goes both ways.                       *)
(***************************************************************************)
EXTENDS LacpPort, TLC

CONSTANTS s1, s2, p1, p2

Pdu(sys, port_id, agg, act, to, sync, coll, knows) ==
    [system |-> sys, port |-> port_id, aggregation |-> agg, activity |-> act,
     timeout |-> to, sync |-> sync, collecting |-> coll, knowsUs |-> knows,
     viewActivity |-> "ACTIVE", viewTimeout |-> "SHORT", viewSync |-> sync]

\* One partner that takes us for somebody else, then is in sync, then collects
\* and asks for fast periodic LACPDUs, and may turn passive.
TimerPdus ==
    { Pdu(s1, p1, TRUE, "ACTIVE", "LONG", TRUE, TRUE, FALSE),
      Pdu(s1, p1, TRUE, "ACTIVE", "LONG", TRUE, FALSE, TRUE),
      Pdu(s1, p1, TRUE, "ACTIVE", "SHORT", TRUE, TRUE, TRUE),
      Pdu(s1, p1, TRUE, "PASSIVE", "LONG", TRUE, TRUE, TRUE) }

\* Both activities and both timeouts, with the link up or down at first.
TimerConfigs ==
    { c \in LportConfig : /\ c.activity = "ACTIVE" <=> c.timeout = "SHORT"
                          /\ c.activity = "ACTIVE" <=> c.link_up }

\* An aggregatable partner, and an individual one at another port of another system.
MovePdus ==
    { Pdu(s1, p1, TRUE, "ACTIVE", "LONG", TRUE, TRUE, TRUE),
      Pdu(s2, p2, FALSE, "ACTIVE", "LONG", TRUE, TRUE, FALSE) }

\* One partner out of sync, in sync and not collecting yet or any more, collecting.
SyncPdus ==
    { Pdu(s1, p1, TRUE, "ACTIVE", "LONG", f[1], f[2], TRUE) :
        f \in {<<FALSE, TRUE>>, <<TRUE, FALSE>>, <<TRUE, TRUE>>} }

ActiveConfigs ==
    { c \in LportConfig : c.activity = "ACTIVE" /\ c.timeout = "SHORT" /\ c.link_up }

AggregatorSymmetry == Permutations(Aggregators)
=============================================================================

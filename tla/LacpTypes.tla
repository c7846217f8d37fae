----------------------------- MODULE LacpTypes -----------------------------
(***************************************************************************)
(* The data of one logical port under LACP: the part of                    *)
(* lacp_per_port_variables_t (include/lacp.h.in) that the three state      *)
(* machines read and write, and the LACPDUs they exchange with the peer.   *)
(*                                                                         *)
(* Identities are abstract.  A system stands for (system MAC, system       *)
(* priority, key); a port id stands for (port number, port priority).      *)
(* Frame layout, byte order and the TLV wrapping are left out.             *)
(***************************************************************************)
EXTENDS Integers, FiniteSets, Sequences

CONSTANTS
    ActorSystems,    \* identities this system may be configured with
    Systems,         \* identities a peer may announce
    NoSystem,        \* the default partner system (all-zero MAC)
    PortIds,         \* port ids a peer may announce
    NoPort,          \* the default partner port id; also "any port" in a LAG id
    PortTypes,       \* link speeds, as speed_to_lport_type() classifies them
    Aggregators,     \* super ports (one per configured dynamic LAG)
    NoSport,         \* sport_handle = 0
    NoLag,           \* lag = NULL
    FAST_PERIODIC_COUNT, SLOW_PERIODIC_COUNT,
    SHORT_TIMEOUT_COUNT, LONG_TIMEOUT_COUNT,
    AGGREGATE_WAIT_COUNT, MAX_ASYNC_TX

Positive == Nat \ {0}

ASSUME IdentityAssumption ==
    /\ NoSystem \notin Systems
    /\ NoPort \notin PortIds
    /\ NoSport \notin Aggregators

\* The timer counts of lacp_support.h are all positive; nothing proved here
\* needs their values (1, 30, 3, 90, 2) or their ratios.
ASSUME CountAssumption ==
    /\ FAST_PERIODIC_COUNT \in Positive
    /\ SLOW_PERIODIC_COUNT \in Positive
    /\ SHORT_TIMEOUT_COUNT \in Positive
    /\ LONG_TIMEOUT_COUNT \in Positive
    /\ AGGREGATE_WAIT_COUNT \in Positive
    /\ MAX_ASYNC_TX \in Positive

Activity == {"PASSIVE", "ACTIVE"}
Timeout  == {"LONG", "SHORT"}

\* INITIALIZE is always left within the call that enters it, PERIODIC_TX too;
\* LACP_DISABLED and STANDBY are never entered, because no caller raises
\* receive event E7 and nothing assigns STANDBY.
RecvState     == {"BEGIN", "CURRENT", "EXPIRED", "DEFAULTED", "PORT_DISABLED"}
MuxState      == {"BEGIN", "DETACHED", "WAITING", "ATTACHED", "COLLECTING",
                  "COLLECTING_DISTRIBUTING"}
PeriodicState == {"BEGIN", "NO_PERIODIC", "FAST_PERIODIC", "SLOW_PERIODIC",
                  "PERIODIC_TX"}

(***************************************************************************)
(* LAG_Id_t with LAG_t.port_type.  The port is NoPort unless the partner   *)
(* is individual; the actor's own aggregation bit is always AGGREGATABLE   *)
(* (ovsdb_if.c:835).                                                       *)
(***************************************************************************)
LagId == [actor    : ActorSystems,
          partner  : Systems \cup {NoSystem},
          port     : PortIds \cup {NoPort},
          fallback : BOOLEAN,
          portType : PortTypes]

ASSUME LagAssumption == NoLag \notin LagId

(***************************************************************************)
(* A LACPDU as its receiver sees it: the sender's identity and state, and  *)
(* what it believes about the receiver.  "knowsUs" is whether the port,    *)
(* system, key and aggregation it echoes are the receiver's own.           *)
(***************************************************************************)
Lacpdu == [system      : Systems,
           port        : PortIds,
           aggregation : BOOLEAN,
           activity    : Activity,
           timeout     : Timeout,
           sync        : BOOLEAN,
           collecting  : BOOLEAN,
           knowsUs     : BOOLEAN,
           viewActivity : Activity,
           viewTimeout : Timeout,
           viewSync    : BOOLEAN]

\* The variable part of a LACPDU this port transmits (LACP_build_lacpdu_payload).
SentPdu == [activity : Activity, timeout : Timeout, sync : BOOLEAN,
            collecting : BOOLEAN, distributing : BOOLEAN,
            partner : Systems \cup {NoSystem},
            partnerPort : PortIds \cup {NoPort},
            partnerAggregation : BOOLEAN, partnerActivity : Activity,
            partnerTimeout : Timeout, partnerSync : BOOLEAN]

(***************************************************************************)
(* The port.  The last group is outside the daemon: the LAGs whose hardware*)
(* trunk and participant list hold the port, whether egress is enabled     *)
(* there, and the LACPDUs the current step put on the wire.                *)
(***************************************************************************)
Port == [lacp_up      : BOOLEAN,     \* in lacp_per_port_vars_tree
         port_enabled : BOOLEAN,
         port_type    : PortTypes,
         recv         : RecvState,
         mux          : MuxState,
         periodic     : PeriodicState,
         selected     : BOOLEAN,     \* SELECTED / UNSELECTED
         ready_n      : BOOLEAN,
         lag          : LagId \cup {NoLag},
         sport        : Aggregators \cup {NoSport},
         fallback     : BOOLEAN,
         hw_attached  : BOOLEAN,
         ntt          : BOOLEAN,
         \* actor_oper
         actor        : ActorSystems,
         activity     : Activity,
         timeout      : Timeout,
         sync         : BOOLEAN,
         collecting   : BOOLEAN,
         distributing : BOOLEAN,
         \* partner_oper
         psystem      : Systems \cup {NoSystem},
         pport        : PortIds \cup {NoPort},
         paggregation : BOOLEAN,
         pactivity    : Activity,
         ptimeout     : Timeout,
         psync        : BOOLEAN,
         pcollecting  : BOOLEAN,
         \* timers and budgets
         current_while : Nat,
         wait_while    : Nat,
         periodic_timer : Nat,
         async_tx      : 0..MAX_ASYNC_TX,
         \* outside the daemon
         trunk        : SUBSET Aggregators,
         egress       : BOOLEAN,
         out          : Seq(SentPdu)]

BothPassive(p) == p.activity = "PASSIVE" /\ p.pactivity = "PASSIVE"
=============================================================================

------------------------------ MODULE LacpPort ------------------------------
(***************************************************************************)
(* One logical port of lacpd for its whole life: configured, re-configured *)
(* and removed by the OVSDB thread's messages, driven by link events,      *)
(* received LACPDUs and the one-second timer.  All of these reach the      *)
(* protocol thread through one FIFO queue and are handled one at a time    *)
(* (mlacp_main.c), so one handler is one action.                           *)
(*                                                                         *)
(* The rest of the system is an environment: the other ports decide which  *)
(* aggregator is offered and whether the LAG is ready, and LAG messages    *)
(* create and delete super ports at any time.                              *)
(***************************************************************************)
EXTENDS ReceiveFsm

LportConfig == [actor : ActorSystems, activity : Activity, timeout : Timeout,
                link_up : BOOLEAN, port_type : PortTypes]

CONSTANTS
    Pdus,          \* the LACPDUs the peer may send
    Configs        \* the configurations the port may be given

ASSUME InputAssumption ==
    /\ Pdus \subseteq Lacpdu
    /\ Configs \subseteq LportConfig
    /\ ActorSystems # {}
    /\ PortTypes # {}

VARIABLES
    port,      \* the port's lacp_per_port_variables_t
    sports,    \* super ports that exist and have LACP parameters
    listed     \* super ports reachable from placp_params_list

vars == <<port, sports, listed>>

\* A calloc'ed port; what the hardware holds is not the daemon's to forget.
Blank(c, p) ==
    [lacp_up |-> FALSE, port_enabled |-> c.link_up, port_type |-> c.port_type,
     recv |-> "BEGIN", mux |-> "BEGIN", periodic |-> "BEGIN",
     selected |-> FALSE, ready_n |-> FALSE, lag |-> NoLag, sport |-> NoSport,
     fallback |-> FALSE, hw_attached |-> FALSE, ntt |-> FALSE,
     actor |-> c.actor, activity |-> c.activity, timeout |-> c.timeout,
     sync |-> FALSE, collecting |-> FALSE, distributing |-> FALSE,
     psystem |-> NoSystem, pport |-> NoPort, paggregation |-> TRUE,
     pactivity |-> "PASSIVE", ptimeout |-> "LONG",
     psync |-> FALSE, pcollecting |-> FALSE,
     current_while |-> 0, wait_while |-> 0, periodic_timer |-> 0, async_tx |-> 0,
     trunk |-> p.trunk, egress |-> p.egress, out |-> p.out]

NoConfig == [actor |-> CHOOSE a \in ActorSystems : TRUE, activity |-> "PASSIVE",
             timeout |-> "LONG", link_up |-> FALSE,
             port_type |-> CHOOSE t \in PortTypes : TRUE]

\* The port is not in lacp_per_port_vars_tree.
Absent(p) == Blank(NoConfig, p)

\* Every handler starts with nothing on the wire yet.
Start == [port EXCEPT !.out = <<>>]

(***************************************************************************)
(* LACP_disable_lacp.  "cleared": the port was the last of its LAG and the *)
(* LAG's aggregator is the port's own, so clearing it runs the mux of this *)
(* port, still in the tree, once more.                                     *)
(***************************************************************************)
LACP_disable_lacp(p, cleared) ==
    LET a == IF p.sport # NoSport THEN disable_collecting_distributing(p) ELSE p
        b == IF cleared /\ a.lag # NoLag /\ a.sport \in sports
             THEN Unselect(a, sports) ELSE a
    IN  Absent(b)

\* lacp_up is set last, so nothing is selected while the machines start.
LACP_initialize_port(c, p) ==
    LET a == ReceiveE8(Blank(c, p), sports)
        b == IF a.port_enabled THEN ReceiveE6(a) ELSE a
        d == MuxE7(PeriodicE1(b), sports)
    IN  [d EXCEPT !.lacp_up = TRUE]

\* A mutation: a port already running is overwritten, not disabled first.
InitializePort_NoDisable(c, cleared) ==
    /\ port' = LACP_initialize_port(c, Start)
    /\ UNCHANGED <<sports, listed>>

\* set_lacp_lport_params with LACP enabled.
InitializePort(c, cleared) ==
    /\ port' = LACP_initialize_port(c, IF port.lacp_up
                                       THEN LACP_disable_lacp(Start, cleared)
                                       ELSE Start)
    /\ UNCHANGED <<sports, listed>>

\* set_lacp_lport_params with LACP disabled.
DisablePort(cleared) ==
    /\ port.lacp_up
    /\ port' = LACP_disable_lacp(Start, cleared)
    /\ UNCHANGED <<sports, listed>>

\* set_lacp_lport_params with dynamic fields only.  The OVSDB thread always
\* sends collecting_ready = 0 (ovsdb_if.c:836), "hwStatus" is its flag bit.
LACP_update_port_params(t, hwStatus) ==
    /\ port.lacp_up
    /\ LET a == [Start EXCEPT !.timeout = t]
           b == IF hwStatus THEN [a EXCEPT !.collecting = FALSE] ELSE a
           d == IF hwStatus /\ b.selected /\ b.psync /\ b.pcollecting
                THEN MuxE8(b, sports) ELSE b
       IN  port' = [d EXCEPT !.ntt = TRUE]
    /\ UNCHANGED <<sports, listed>>

\* A mutation: the periodic machine is not told.
mlacpVapiLinkUp_NoE2(t) ==
    /\ port.lacp_up
    /\ LET a == IF t # Start.port_type THEN Unselect(Start, sports) ELSE Start
       IN  port' = ReceiveE6([a EXCEPT !.port_type = t, !.port_enabled = TRUE])
    /\ UNCHANGED <<sports, listed>>

mlacpVapiLinkUp(t) ==
    /\ port.lacp_up
    /\ LET a == IF t # Start.port_type THEN Unselect(Start, sports) ELSE Start
           b == ReceiveE6([a EXCEPT !.port_type = t, !.port_enabled = TRUE])
       IN  port' = IF BothPassive(b) THEN b ELSE PeriodicE2(b)
    /\ UNCHANGED <<sports, listed>>

\* A mutation: the receive machine is not told.
mlacpVapiLinkDown_NoE4(answer) ==
    /\ port.lacp_up
    /\ port' = PeriodicE1([Start EXCEPT !.port_enabled = FALSE])
    /\ UNCHANGED <<sports, listed>>

mlacpVapiLinkDown(answer) ==
    /\ port.lacp_up
    /\ port' = ReceiveE4(PeriodicE1([Start EXCEPT !.port_enabled = FALSE]),
                         sports, answer)
    /\ UNCHANGED <<sports, listed>>

\* A frame for a port without LACP is dropped by the caller.
LACP_process_lacpdu(pdu, answer) ==
    /\ port.lacp_up
    /\ port' = ReceiveE1(Start, pdu, sports, answer)
    /\ UNCHANGED <<sports, listed>>

set_lport_fallback_status(status, answer) ==
    /\ port.lacp_up
    /\ port' = ReceiveE9([Start EXCEPT !.fallback = status], sports, answer)
    /\ UNCHANGED <<sports, listed>>

\* A new system MAC or priority; no machine is told.
set_lport_overrides(a) ==
    /\ port.lacp_up
    /\ port' = [Start EXCEPT !.actor = a]
    /\ UNCHANGED <<sports, listed>>

\* mlacpVapiSportParamsChange and mvlan_api_clear_sport_params, on behalf of
\* another port, reach every port that holds the aggregator.
SportParamsChange(s) ==
    /\ port.lacp_up /\ port.sport = s /\ s \in sports
    /\ port' = mlacpVapiSportParamsChange(Start, sports)
    /\ UNCHANGED <<sports, listed>>

\* mlacp_process_timer: LACP_periodic_tx, then LACP_current_while_expiry.
Tick(othersReady, answer) ==
    /\ port.lacp_up
    /\ LET a == periodic_tx_timer_expiry(Start)
           b == mux_wait_while_timer_expiry(a, sports, othersReady)
       IN  port' = current_while_timer_expiry(b, sports, answer)
    /\ UNCHANGED <<sports, listed>>

\* create_sport and set_lacp_sport_params.
ConfigureSport(s) ==
    /\ s \notin sports
    /\ sports' = sports \cup {s}
    /\ listed' = listed \cup {s}
    /\ UNCHANGED port

\* unset_lacp_sport_params is refused, and then changes nothing, while the super
\* port holds partner information or counts a port.  A super port deleted and
\* created again under a selected port has neither, so it may succeed any time.
UnconfigureSport(s) ==
    /\ s \in sports
    /\ sports' = sports \ {s}
    /\ listed' = listed \ {s}
    /\ UNCHANGED port

\* delete_sport is not validated: it may take the super port away from a port
\* that holds it, and leaves its freed parameters in placp_params_list.
DestroySport(s) ==
    /\ s \in sports
    /\ sports' = sports \ {s}
    /\ UNCHANGED <<port, listed>>

\* Only a super port in placp_params_list is selected; a takeover or a new ranking
\* concerns the port only if it holds the super port.
Offers ==
    {answer \in Answers :
        /\ answer.agg \in listed \cup {NoSport}
        /\ answer.takeover => port.sport = answer.agg /\ answer.agg # NoSport
        /\ answer.reranked => port.sport \in sports}

\* Only a port that times out, or changes its fallback, re-ranks a super port.
PlainOffers == {answer \in Offers : ~answer.reranked}

\* Only a port in a LAG can be the last one to leave it.
Clearings == {FALSE, port.lag # NoLag}

LportMessage ==
    \/ \E c \in Configs, cleared \in Clearings : InitializePort(c, cleared)
    \/ \E cleared \in Clearings : DisablePort(cleared)
    \/ \E t \in Timeout, hwStatus \in BOOLEAN : LACP_update_port_params(t, hwStatus)
    \/ \E a \in ActorSystems : set_lport_overrides(a)
    \/ \E status \in BOOLEAN, answer \in Offers : set_lport_fallback_status(status, answer)

LinkMessage ==
    \/ \E t \in PortTypes : mlacpVapiLinkUp(t)
    \/ \E answer \in PlainOffers : mlacpVapiLinkDown(answer)

PduReceived ==
    \E pdu \in Pdus, answer \in PlainOffers : LACP_process_lacpdu(pdu, answer)

TimerTick == \E othersReady \in BOOLEAN, answer \in Offers : Tick(othersReady, answer)

SportMessage ==
    \E s \in Aggregators : \/ SportParamsChange(s)
                           \/ ConfigureSport(s)
                           \/ UnconfigureSport(s)
                           \/ DestroySport(s)

Init ==
    /\ port = Absent([trunk |-> {}, egress |-> FALSE, out |-> <<>>])
    /\ sports = {}
    /\ listed = {}

Next == LportMessage \/ LinkMessage \/ PduReceived \/ TimerTick \/ SportMessage

Spec == Init /\ [][Next]_vars

-----------------------------------------------------------------------------
(******************************* properties ********************************)

TypeOK ==
    /\ port \in Port
    /\ sports \subseteq Aggregators
    /\ listed \subseteq Aggregators

\* The port is in the hardware trunk of exactly the LAG it is attached to while
\* its mux forwards, and of no LAG otherwise, a removed port included; egress
\* follows the distributing state.  Every path out of COLLECTING must name the
\* same LAG as the path in, and hw_attached_to_mux, which decides whether the
\* hardware is told at all, must not lag behind (mlacp_send.c:194-282).
TrunkFollowsMux ==
    /\ port.hw_attached <=> port.mux \in Forwarding
    /\ port.trunk = IF port.mux \in Forwarding THEN {port.sport} ELSE {}
    /\ port.egress <=> port.mux = "COLLECTING_DISTRIBUTING"

\* A selected port has a LAG and an aggregator and its mux has left DETACHED; an
\* unselected one never forwards.
SelectionFollowsMux ==
    /\ port.selected => /\ port.lag # NoLag
                        /\ port.sport # NoSport
                        /\ port.mux \in MuxState \ {"BEGIN", "DETACHED"}
    /\ ~port.selected => port.mux \notin Forwarding

\* While the link is down the port is in no trunk, sends nothing and believes
\* nothing of its partner's synchronization, whatever late LACPDUs, fallback
\* changes, parameter updates and timeouts arrive.
LinkDownIsQuiet ==
    port.lacp_up /\ ~port.port_enabled =>
        /\ port.recv = "PORT_DISABLED"
        /\ port.periodic = "NO_PERIODIC"
        /\ port.mux \notin Forwarding
        /\ ~port.psync

\* What the port was told by its partner can always still go out of date: in
\* CURRENT and EXPIRED the current-while timer runs.
AgingIsArmed ==
    port.recv \in {"CURRENT", "EXPIRED"} => port.current_while > 0

\* An enabled port with an active side sends periodically, with a running
\* timer, and slowly only if the partner asked for it.
PeriodicIsRunning ==
    port.lacp_up =>
        /\ port.periodic \in {"FAST_PERIODIC", "SLOW_PERIODIC"} =>
               port.periodic_timer > 0
        /\ port.port_enabled /\ ~BothPassive(port) => port.periodic # "NO_PERIODIC"
        /\ port.periodic = "SLOW_PERIODIC" => port.ptimeout = "LONG"

\* A port that forwards does so in the LAG formed with its present partner, at
\* its present speed; a PDU from somebody else, a default partner or a new
\* speed takes it out of the trunk in the same step (selection.c:333-418).
ForwardsToLagPartner ==
    port.mux \in Forwarding =>
        /\ port.lag.partner = port.psystem
        /\ port.lag.port = IF port.paggregation THEN NoPort ELSE port.pport
        /\ port.lag.portType = port.port_type

\* A port that has given up waiting for its partner carries no traffic unless
\* fallback is on, also when fallback is switched off while it carries some.
NoFallbackNoTraffic ==
    port.recv = "DEFAULTED" /\ ~port.fallback => port.mux \notin Forwarding

\* A LACPDU never leaves the port selected in a LAG other than the one its actor,
\* partner, speed and fallback form now.  Overrides and fallback changes leave the
\* LAG alone (lacp_support.c:1126-1251); the partner's next LACPDU mends that.
LacpduRefreshesLag ==
    [][port'.recv = "CURRENT" /\ port'.selected /\ port'.lag # form_lag_id(port')
       => ~PduReceived]_vars

\* Egress is switched on only towards a partner that is in sync and collecting,
\* on a selected port whose link is up; the partner's information may at most
\* time out in the very tick that ends the wait (lacp_task.c runs both timers).
DistributionIsEarned ==
    [][~port.egress /\ port'.egress =>
          /\ port'.selected /\ port'.port_enabled
          /\ port'.pcollecting
          /\ \/ port'.psync
             \/ port.recv = "CURRENT" /\ port'.recv = "EXPIRED"]_vars

ActorFlags(p) == <<p.sync, p.collecting, p.distributing>>

\* A step that changes what the port announces, while it transmits, either ends
\* with a LACPDU that carries the new flags or leaves ntt set: no change is lost
\* between the transmissions of a chain of mux transitions.
ChangesAreAnnounced ==
    [][/\ port.lacp_up /\ port'.lacp_up
       /\ port.periodic # "NO_PERIODIC" /\ port'.periodic # "NO_PERIODIC"
       /\ ActorFlags(port') # ActorFlags(port)
       => \/ port'.ntt
          \/ port'.out # <<>> /\ ActorFlags(port'.out[Len(port'.out)]) = ActorFlags(port')]_vars

\* What the budget held back goes out at the next tick: after a tick a wanted
\* LACPDU is still pending only because the tick itself used up the budget
\* (lacp_task.c:147-156).
TickFlushesNtt ==
    [][/\ port'.ntt /\ port'.async_tx < MAX_ASYNC_TX
       /\ port.periodic # "NO_PERIODIC"
       => ~TimerTick]_vars

\* The three machines together do to the trunks what TrunkPort says, no more and in
\* no other order: one trunk, joined from none and never straight from another,
\* egress only inside it, nothing left in it by a port stopped or started again.
Trunk == INSTANCE TrunkPort WITH Trunks <- Aggregators, up <- port.lacp_up,
                                 trunk <- port.trunk, egress <- port.egress

ImplementsTrunkPort == Trunk!Spec
=============================================================================

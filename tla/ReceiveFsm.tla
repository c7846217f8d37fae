----------------------------- MODULE ReceiveFsm -----------------------------
(***************************************************************************)
(* receive_fsm.c and selection.c: what the port believes about its partner *)
(* and which LAG and aggregator it therefore belongs to.  As in MuxFsm,    *)
(* each operator is a whole call, nested events included.                  *)
(*                                                                         *)
(* What mvlan_lacp.c says depends on the other ports and is a parameter:   *)
(*   agg       the super port selected, or NoSport when none matches        *)
(*   takeover  it is a PRIORITY_MATCH: the port outranks the super port's   *)
(*             ports, which lose it                                         *)
(*   reranked  the super port's best priority changes when this port times  *)
(*             out, which makes all its ports select again                  *)
(***************************************************************************)
EXTENDS MuxFsm

Answers == [agg : Aggregators \cup {NoSport}, takeover : BOOLEAN, reranked : BOOLEAN]

NoAnswer == [agg |-> NoSport, takeover |-> FALSE, reranked |-> FALSE]

\* lacp_support.c, for a port that holds the super port.
mlacpVapiSportParamsChange(p, sports) ==
    [Unselect(p, sports) EXCEPT !.ready_n = FALSE]

(***************************** selection.c *********************************)

form_lag_id(p) ==
    [actor |-> p.actor, partner |-> p.psystem,
     port |-> IF p.paggregation THEN NoPort ELSE p.pport,
     fallback |-> p.fallback, portType |-> p.port_type]

\* A takeover reaches this port too, if it still holds the super port.
SelectSport(p, sports, answer) ==
    IF answer.takeover /\ p.sport = answer.agg
    THEN mlacpVapiSportParamsChange(p, sports) ELSE p

Settle(p, agg) == MuxE1([p EXCEPT !.sport = agg, !.selected = TRUE])

LAG_select_aggregator(p, sports, answer) ==
    IF answer.agg = NoSport THEN p
    ELSE Settle(SelectSport(p, sports, answer), answer.agg)

\* Join the LAG with the port's id, or create it, and ask for an aggregator.
JoinLag(p, sports, answer) ==
    LAG_select_aggregator([p EXCEPT !.lag = form_lag_id(p)], sports, answer)

\* Give up a LAG whose id or port type is no longer the port's.
LeaveLag(p, sports) ==
    [Unselect(p, sports) EXCEPT !.ready_n = FALSE, !.lag = NoLag]

\* A mutation: the LAG ids are compared without their fallback bit.
LAG_selection_IgnoresFallback(p, sports, answer) ==
    IF ~p.lacp_up THEN p
    ELSE IF p.lag = NoLag THEN JoinLag(p, sports, answer)
    ELSE IF p.lag # [form_lag_id(p) EXCEPT !.fallback = p.lag.fallback]
         THEN JoinLag(LeaveLag(p, sports), sports, answer)
    ELSE IF ~p.selected THEN LAG_select_aggregator(p, sports, answer)
    ELSE p

\* A mutation: the LAG the port is in is taken for the right one.
LAG_selection_KeepsLag(p, sports, answer) ==
    IF ~p.lacp_up THEN p
    ELSE IF p.lag = NoLag THEN JoinLag(p, sports, answer)
    ELSE IF ~p.selected THEN LAG_select_aggregator(p, sports, answer)
    ELSE p

\* Nothing happens until LACP_initialize_port has finished.
LAG_selection(p, sports, answer) ==
    IF ~p.lacp_up THEN p
    ELSE IF p.lag = NoLag THEN JoinLag(p, sports, answer)
    ELSE IF p.lag # form_lag_id(p) THEN JoinLag(LeaveLag(p, sports), sports, answer)
    ELSE IF ~p.selected THEN LAG_select_aggregator(p, sports, answer)
    ELSE p

(**************************** receive_fsm.c ********************************)

start_current_while_timer(p, t) ==
    [p EXCEPT !.current_while = IF t = "SHORT" THEN SHORT_TIMEOUT_COUNT
                                ELSE LONG_TIMEOUT_COUNT]

\* A PDU from another port, another system or another aggregation setting.
update_Selected(p, pdu, sports) ==
    IF <<pdu.system, pdu.port, pdu.aggregation>>
         # <<p.psystem, p.pport, p.paggregation>>
    THEN Unselect(p, sports) ELSE p

choose_Matched(p, pdu) ==
    [p EXCEPT !.psync = pdu.sync /\ (pdu.knowsUs \/ ~pdu.aggregation)]

update_NTT(p, pdu) ==
    IF \/ ~pdu.knowsUs
       \/ <<pdu.viewActivity, pdu.viewTimeout, pdu.viewSync>>
            # <<p.activity, p.timeout, p.sync>>
    THEN NeedToTransmit(p) ELSE p

\* Four tests in sequence; a later one sees the mux state an earlier one left.
TestInSync(p, sports) ==
    IF p.selected /\ p.psync THEN MuxE5(p, sports) ELSE p

TestCollecting(p, sports) ==
    IF p.selected /\ p.psync /\ p.collecting /\ p.pcollecting
    THEN MuxE8(p, sports) ELSE p

TestNotCollecting(p, sports) ==
    IF p.psync /\ ~p.pcollecting /\ p.mux = "COLLECTING_DISTRIBUTING"
    THEN MuxE6(p, sports) ELSE p

TestOutOfSync(p, sports) ==
    IF ~p.psync THEN MuxE6(p, sports) ELSE p

generate_mux_event_from_recordPdu(p, sports) ==
    TestOutOfSync(TestNotCollecting(TestCollecting(TestInSync(p, sports),
        sports), sports), sports)

\* A mutation: the mux is told before the partner's collecting is recorded.
recordPDU_TellsMuxFirst(p, pdu, sports) ==
    LET a == [p EXCEPT !.psystem = pdu.system, !.pport = pdu.port,
                       !.paggregation = pdu.aggregation,
                       !.pactivity = pdu.activity, !.ptimeout = pdu.timeout]
        b == IF BothPassive(a) THEN a ELSE PeriodicE2(a)
        c == IF b.ptimeout = "LONG" THEN PeriodicE4(b) ELSE PeriodicE6(b)
    IN  [generate_mux_event_from_recordPdu(c, sports)
            EXCEPT !.pcollecting = pdu.collecting]

recordPDU(p, pdu, sports) ==
    LET a == [p EXCEPT !.psystem = pdu.system, !.pport = pdu.port,
                       !.paggregation = pdu.aggregation,
                       !.pactivity = pdu.activity, !.ptimeout = pdu.timeout,
                       !.pcollecting = pdu.collecting]
        b == IF BothPassive(a) THEN a ELSE PeriodicE2(a)
        c == IF b.ptimeout = "LONG" THEN PeriodicE4(b) ELSE PeriodicE6(b)
    IN  generate_mux_event_from_recordPdu(c, sports)

\* A mutation: the timer is not restarted.
current_state_action_NoTimer(p, pdu, sports, answer) ==
    LET a == update_Selected([p EXCEPT !.recv = "CURRENT"], pdu, sports)
        b == update_NTT(choose_Matched(a, pdu), pdu)
    IN  LAG_selection(recordPDU(b, pdu, sports), sports, answer)

current_state_action(p, pdu, sports, answer) ==
    LET a == update_Selected([p EXCEPT !.recv = "CURRENT"], pdu, sports)
        b == update_NTT(choose_Matched(a, pdu), pdu)
        c == LAG_selection(recordPDU(b, pdu, sports), sports, answer)
    IN  start_current_while_timer(c, c.timeout)

\* A mutation: the timer is not restarted.
expired_state_action_NoTimer(p) ==
    PeriodicE6([p EXCEPT !.recv = "EXPIRED", !.psync = FALSE, !.ptimeout = "SHORT"])

\* The mux is not told that the partner is out of sync.
expired_state_action(p) ==
    start_current_while_timer(
        PeriodicE6([p EXCEPT !.recv = "EXPIRED", !.psync = FALSE,
                             !.ptimeout = "SHORT"]), "SHORT")

\* The ports that are not DEFAULTED, this one no longer among them, give the
\* super port its best priority.
update_max_port_priority(p, sports, answer) ==
    IF answer.reranked /\ p.sport \in sports
    THEN mlacpVapiSportParamsChange(p, sports) ELSE p

update_Default_Selected(p, sports) ==
    IF <<p.psystem, p.pport, p.paggregation>> # <<NoSystem, NoPort, TRUE>>
    THEN Unselect(p, sports) ELSE p

\* The partner's administrative defaults become its operational values.
recordDefault(p) ==
    LET a == [p EXCEPT !.psystem = NoSystem, !.pport = NoPort,
                       !.paggregation = TRUE, !.pactivity = "PASSIVE",
                       !.ptimeout = "LONG", !.psync = FALSE,
                       !.pcollecting = FALSE]
    IN  IF BothPassive(a) THEN PeriodicE1(a) ELSE a

defaulted_state_action(p, sports, answer) ==
    LET a == update_max_port_priority([p EXCEPT !.recv = "DEFAULTED"], sports, answer)
        b == recordDefault(update_Default_Selected(a, sports))
        c == [b EXCEPT !.psync = b.fallback, !.pcollecting = b.fallback]
        d == LAG_selection(c, sports, answer)
    IN  IF d.selected /\ d.psync THEN MuxE5(d, sports)
        ELSE [d EXCEPT !.selected = FALSE, !.ready_n = FALSE]

port_disabled_state_action(p, sports, answer) ==
    LET a == MuxE6([p EXCEPT !.recv = "PORT_DISABLED", !.psync = FALSE], sports)
        b == LAG_selection(a, sports, answer)
    IN  IF b.port_enabled THEN expired_state_action(b) ELSE b

initialize_state_action(p, sports) ==
    port_disabled_state_action(recordDefault(Unselect(p, sports)), sports, NoAnswer)

\* E1 received LACPDU.
ReceiveE1(p, pdu, sports, answer) ==
    IF p.recv \in {"CURRENT", "EXPIRED", "DEFAULTED"}
    THEN current_state_action(p, pdu, sports, answer) ELSE p

\* E2 current_while timer expired.
ReceiveE2(p, sports, answer) ==
    IF p.recv = "CURRENT" THEN expired_state_action(p)
    ELSE IF p.recv = "EXPIRED" THEN defaulted_state_action(p, sports, answer)
    ELSE p

\* E4 port_enabled = FALSE.
ReceiveE4(p, sports, answer) ==
    IF p.recv = "BEGIN" THEN p ELSE port_disabled_state_action(p, sports, answer)

\* E6 port_enabled = TRUE.
ReceiveE6(p) == IF p.recv = "PORT_DISABLED" THEN expired_state_action(p) ELSE p

\* E8 Begin.
ReceiveE8(p, sports) == initialize_state_action(p, sports)

\* E9 the fallback setting changed.
ReceiveE9(p, sports, answer) ==
    IF p.recv = "DEFAULTED" THEN defaulted_state_action(p, sports, answer) ELSE p

\* lacp_task.c: one second of the current-while timer.
current_while_timer_expiry(p, sports, answer) ==
    IF p.current_while > 0
    THEN LET q == [p EXCEPT !.current_while = @ - 1]
         IN  IF q.current_while = 0 THEN ReceiveE2(q, sports, answer) ELSE q
    ELSE p
=============================================================================

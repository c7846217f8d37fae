--------------------------- MODULE PeriodicTxFsm ---------------------------
(***************************************************************************)
(* periodic_tx_fsm.c: when LACPDUs are sent.  Every operator maps the port *)
(* before a call to the port after it, the events the call raises on the   *)
(* way included.  Events are named as in periodic_tx_machine_fsm_table.    *)
(***************************************************************************)
EXTENDS LacpTypes

LACP_build_lacpdu_payload(p) ==
    [activity |-> p.activity, timeout |-> p.timeout, sync |-> p.sync,
     collecting |-> p.collecting, distributing |-> p.distributing,
     partner |-> p.psystem, partnerPort |-> p.pport,
     partnerAggregation |-> p.paggregation, partnerActivity |-> p.pactivity,
     partnerTimeout |-> p.ptimeout, partnerSync |-> p.psync]

\* Without periodic transmission a wanted LACPDU is dropped, not kept.
LACP_sync_transmit_lacpdu(p) ==
    IF p.periodic = "NO_PERIODIC" THEN [p EXCEPT !.ntt = FALSE]
    ELSE IF p.ntt THEN [p EXCEPT !.out = Append(@, LACP_build_lacpdu_payload(p)), !.ntt = FALSE]
    ELSE p

\* A mutation: one LACPDU more than the budget.
LACP_async_transmit_lacpdu_OneMore(p) ==
    IF p.async_tx <= MAX_ASYNC_TX
    THEN LACP_sync_transmit_lacpdu([p EXCEPT !.async_tx = @ + 1])
    ELSE p

\* Over the budget, ntt stays set for the next tick.
LACP_async_transmit_lacpdu(p) ==
    IF p.async_tx < MAX_ASYNC_TX
    THEN LACP_sync_transmit_lacpdu([p EXCEPT !.async_tx = @ + 1])
    ELSE p

NeedToTransmit(p) == LACP_async_transmit_lacpdu([p EXCEPT !.ntt = TRUE])

\* Entered only while the partner's timeout is long, so its exit is not taken.
LACP_slow_periodic_state_action(p) ==
    [p EXCEPT !.periodic = "SLOW_PERIODIC", !.periodic_timer = SLOW_PERIODIC_COUNT]

LACP_fast_periodic_state_action(p) ==
    IF p.ptimeout = "LONG" THEN LACP_slow_periodic_state_action(p)
    ELSE [p EXCEPT !.periodic = "FAST_PERIODIC", !.periodic_timer = FAST_PERIODIC_COUNT]

LACP_no_periodic_state_action(p) ==
    IF ~p.port_enabled \/ BothPassive(p)
    THEN [p EXCEPT !.periodic = "NO_PERIODIC", !.periodic_timer = 0]
    ELSE LACP_fast_periodic_state_action(p)

LACP_periodic_tx_state_action(p) ==
    LET q == LACP_sync_transmit_lacpdu([p EXCEPT !.periodic = "PERIODIC_TX",
                                                 !.ntt = TRUE])
    IN  IF BothPassive(q) THEN LACP_no_periodic_state_action(q)
        ELSE LACP_fast_periodic_state_action(q)

\* E1 Begin: any state to NO_PERIODIC.
PeriodicE1(p) == LACP_no_periodic_state_action(p)

\* E2 UCT: leaves NO_PERIODIC.
PeriodicE2(p) ==
    IF p.periodic = "NO_PERIODIC" THEN LACP_fast_periodic_state_action(p) ELSE p

\* E3 periodic timer expired.
PeriodicE3(p) ==
    IF p.periodic \in {"FAST_PERIODIC", "SLOW_PERIODIC"}
    THEN LACP_periodic_tx_state_action(p) ELSE p

\* E4 the partner's timeout is long.
PeriodicE4(p) ==
    IF p.periodic = "FAST_PERIODIC" THEN LACP_slow_periodic_state_action(p) ELSE p

\* E6 the partner's timeout is short.
PeriodicE6(p) ==
    IF p.periodic = "SLOW_PERIODIC" THEN LACP_periodic_tx_state_action(p) ELSE p

\* A mutation: the second does not flush a pending ntt.
periodic_tx_timer_expiry_NoFlush(p) ==
    IF p.periodic # "NO_PERIODIC" /\ p.periodic_timer > 0
    THEN LET q == [p EXCEPT !.periodic_timer = @ - 1, !.async_tx = 0]
         IN  IF q.periodic_timer = 0 THEN PeriodicE3(q) ELSE q
    ELSE p

\* lacp_task.c: one second of the periodic timer.
periodic_tx_timer_expiry(p) ==
    IF p.periodic # "NO_PERIODIC" /\ p.periodic_timer > 0
    THEN LET q == [p EXCEPT !.periodic_timer = @ - 1, !.async_tx = 0]
         IN  IF q.periodic_timer = 0 THEN PeriodicE3(q)
             ELSE IF q.ntt THEN LACP_async_transmit_lacpdu(q)
             ELSE q
    ELSE p
=============================================================================

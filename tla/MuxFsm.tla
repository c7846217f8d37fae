------------------------------- MODULE MuxFsm -------------------------------
(***************************************************************************)
(* mux_fsm.c, with the calls it makes through mlacp_send.c: when the port  *)
(* is attached to an aggregator, joins its hardware trunk and distributes. *)
(* The C code raises events from within state actions; since every chain   *)
(* of events it can raise ends, the chains are written out here in the     *)
(* order the code takes them, and each operator is the whole call.         *)
(* "sports" is the set of super ports that exist with LACP parameters.     *)
(***************************************************************************)
EXTENDS PeriodicTxFsm

Forwarding == {"COLLECTING", "COLLECTING_DISTRIBUTING"}

\* mlacp_blocking_send_enable_collecting: hardware, then participant list.
enable_collecting(p) ==
    IF p.hw_attached THEN p
    ELSE [p EXCEPT !.trunk = @ \cup {p.sport}, !.hw_attached = TRUE]

enable_distributing(p) ==
    IF p.hw_attached THEN [p EXCEPT !.egress = TRUE] ELSE p

\* The LAG left is the one the port's current sport_handle names.
disable_collecting_distributing(p) ==
    IF p.hw_attached
    THEN [p EXCEPT !.trunk = @ \ {p.sport}, !.egress = FALSE, !.hw_attached = FALSE]
    ELSE p

\* The detach fails, and keeps the handle, when the super port has vanished.
detach_mux_from_aggregator(p, sports) ==
    IF p.lag # NoLag /\ p.sport \in sports THEN [p EXCEPT !.sport = NoSport] ELSE p

start_wait_while_timer(p) == [p EXCEPT !.wait_while = AGGREGATE_WAIT_COUNT]

\* lag->ready is TRUE only inside mux_wait_while_timer_expiry, which raises
\* E3 itself, so WAITING has no other exit of its own.
waiting_state_action(p) == start_wait_while_timer([p EXCEPT !.mux = "WAITING"])

detached_state_action(p, sports) ==
    LET a == detach_mux_from_aggregator([p EXCEPT !.mux = "DETACHED"], sports)
        b == disable_collecting_distributing([a EXCEPT !.sync = FALSE,
                                                       !.collecting = FALSE])
        c == NeedToTransmit([b EXCEPT !.distributing = FALSE])
    IN  IF c.selected THEN waiting_state_action(c) ELSE c

\* attached_state_action up to its exits.  The attach itself only counts the
\* port in the super port; its status is ignored.
AttachedEntry(p) ==
    LET a == disable_collecting_distributing([p EXCEPT !.mux = "ATTACHED",
                                                       !.sync = TRUE,
                                                       !.collecting = FALSE])
    IN  NeedToTransmit([a EXCEPT !.distributing = FALSE])

\* A mutation: the LACPDU is built before the flag is set.
CollectingEntry_SendsFirst(p) ==
    LET a == enable_collecting([p EXCEPT !.mux = "COLLECTING",
                                         !.distributing = FALSE])
    IN  [NeedToTransmit(a) EXCEPT !.collecting = TRUE]

CollectingEntry(p) ==
    LET a == enable_collecting([p EXCEPT !.mux = "COLLECTING",
                                         !.distributing = FALSE])
    IN  NeedToTransmit([a EXCEPT !.collecting = TRUE])

CollectingDistributingEntry(p) ==
    NeedToTransmit(enable_distributing([p EXCEPT !.mux = "COLLECTING_DISTRIBUTING",
                                                 !.distributing = TRUE]))

\* A backward transition: ATTACHED, and on to DETACHED when UNSELECTED.
FallBack(p, sports) ==
    LET q == AttachedEntry(p)
    IN  IF q.selected THEN q ELSE detached_state_action(q, sports)

\* E9 out of COLLECTING_DISTRIBUTING passes through ATTACHED to COLLECTING.
collecting_distributing_state_action(p, sports) ==
    LET q == CollectingDistributingEntry(p)
    IN  IF ~q.selected \/ ~q.psync THEN FallBack(q, sports)
        ELSE IF ~q.pcollecting THEN CollectingEntry(AttachedEntry(q))
        ELSE q

collecting_state_action(p, sports) ==
    LET q == CollectingEntry(p)
    IN  IF ~q.selected \/ ~q.psync THEN FallBack(q, sports)
        ELSE IF q.pcollecting THEN collecting_distributing_state_action(q, sports)
        ELSE q

attached_state_action(p, sports) ==
    LET q == AttachedEntry(p)
    IN  IF ~q.selected THEN detached_state_action(q, sports)
        ELSE IF q.psync THEN collecting_state_action(q, sports)
        ELSE q

\* A mutation: a selected port is attached without waiting.
MuxE1_SkipsWaiting(p) ==
    IF p.mux = "DETACHED" THEN attached_state_action(p, {p.sport}) ELSE p

\* E1 selected = SELECTED.
MuxE1(p) == IF p.mux = "DETACHED" THEN waiting_state_action(p) ELSE p

\* A mutation: the forwarding states have no row for E2.
MuxE2_KeepsForwarding(p, sports) ==
    IF p.mux \in {"WAITING", "ATTACHED"} THEN detached_state_action(p, sports) ELSE p

\* E2 selected = UNSELECTED.
MuxE2(p, sports) ==
    IF p.mux \in {"WAITING", "ATTACHED"} THEN detached_state_action(p, sports)
    ELSE IF p.mux \in Forwarding THEN attached_state_action(p, sports)
    ELSE p

\* E3 selected = SELECTED and ready.
MuxE3(p, sports) ==
    IF p.mux = "WAITING" THEN attached_state_action(p, sports) ELSE p

\* E5 selected = SELECTED and partner.sync.
MuxE5(p, sports) ==
    IF p.mux = "ATTACHED" THEN collecting_state_action(p, sports) ELSE p

\* E6 partner.sync = FALSE, and E9 partner.sync and not partner.collecting.
MuxE6(p, sports) ==
    IF p.mux \in Forwarding THEN attached_state_action(p, sports) ELSE p

\* E7 Begin.
MuxE7(p, sports) == detached_state_action(p, sports)

\* E8 selected, partner in sync and collecting, actor collecting.
MuxE8(p, sports) ==
    IF p.mux = "COLLECTING" THEN collecting_distributing_state_action(p, sports) ELSE p

\* UNSELECTED, the mux told, as every place that gives up a selection does.
Unselect(p, sports) == MuxE2([p EXCEPT !.selected = FALSE], sports)

\* lacp_task.c: one second of the wait-while timer.  "othersReady" is whether
\* every other port of the LAG has ready_n set.
mux_wait_while_timer_expiry(p, sports, othersReady) ==
    IF p.lag # NoLag /\ p.wait_while > 0
    THEN LET q == [p EXCEPT !.wait_while = @ - 1]
         IN  IF q.wait_while > 0 THEN q
             ELSE LET r == [q EXCEPT !.ready_n = TRUE]
                  IN  IF othersReady /\ r.selected THEN MuxE3(r, sports)
                      ELSE start_wait_while_timer(r)
    ELSE p
=============================================================================

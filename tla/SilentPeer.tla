----------------------------- MODULE SilentPeer -----------------------------
(***************************************************************************)
(* LacpPort with a peer that may go silent for good: from then on no LACPDU*)
(* arrives and nobody reconfigures the port or its link, but the timer and *)
(* the other ports' use of the aggregators go on.                          *)
(***************************************************************************)
EXTENDS LacpPort

VARIABLES
    silent,    \* the peer and the administrator have fallen silent
    beat       \* parity of the timer ticks so far

silentVars == <<port, sports, listed, silent, beat>>

SilentInit == Init /\ silent = FALSE /\ beat = 0

Talk ==
    /\ ~silent
    /\ LportMessage \/ LinkMessage \/ PduReceived
    /\ UNCHANGED <<silent, beat>>

FallSilent == ~silent /\ silent' = TRUE /\ UNCHANGED <<port, sports, listed, beat>>

Others == SportMessage /\ UNCHANGED <<silent, beat>>

\* The handler walks lacp_per_port_vars_tree, and does nothing when it is empty.
Beat ==
    /\ beat' = 1 - beat
    /\ TimerTick \/ (~port.lacp_up /\ UNCHANGED vars)
    /\ UNCHANGED silent

SilentNext == Talk \/ FallSilent \/ Others \/ Beat

\* A 1 s POSIX timer enqueues the tick for as long as the daemon runs, and the
\* queue is FIFO, so a tick is handled again and again.
SilentSpec ==
    /\ SilentInit
    /\ [][SilentNext]_silentVars
    /\ WF_beat(beat' = 1 - beat)

\* After the last LACPDU the port ends up out of every trunk, for good, unless
\* fallback keeps it there: CURRENT must age to EXPIRED and on to DEFAULTED,
\* although EXPIRED itself leaves the mux alone (receive_fsm.c:341-439).
SilentPartnerIsDropped ==
    [](silent => <>[](port.fallback \/ port.mux \notin Forwarding))
=============================================================================

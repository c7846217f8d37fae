----------------------------- MODULE TrunkPort ------------------------------
(***************************************************************************)
(* What a port running LACP promises to the trunks of the switch and to    *)
(* the thread that configures it: it is in one trunk at most, joins one    *)
(* only from none and only while it runs, sends into it only from inside,  *)
(* and is in no trunk when it is started, started again or stopped.        *)
(* LacpPort implements this with its three state machines, ConfigThread    *)
(* uses it in their place.                                                 *)
(***************************************************************************)
CONSTANT Trunks

VARIABLES
    up,       \* LACP runs on the port
    trunk,    \* the trunks the port is in
    egress    \* the port sends into its trunk

vars == <<up, trunk, egress>>

Start ==
    /\ up' = TRUE
    /\ trunk' = {} /\ egress' = FALSE

Stop ==
    /\ up
    /\ up' = FALSE
    /\ trunk' = {} /\ egress' = FALSE

Join(t) ==
    /\ up /\ trunk = {}
    /\ trunk' = {t}
    /\ egress' \in BOOLEAN
    /\ UNCHANGED up

Open ==
    /\ trunk # {} /\ ~egress
    /\ egress' = TRUE
    /\ UNCHANGED <<up, trunk>>

Leave ==
    /\ trunk # {}
    /\ trunk' = {} /\ egress' = FALSE
    /\ UNCHANGED up

\* Egress closes by leaving the trunk and joining the same one again.
Rejoin ==
    /\ trunk # {} /\ egress
    /\ egress' = FALSE
    /\ UNCHANGED <<up, trunk>>

Init == ~up /\ trunk = {} /\ ~egress

Next == Start \/ Stop \/ Open \/ Leave \/ Rejoin \/ \E t \in Trunks : Join(t)

Spec == Init /\ [][Next]_vars
=============================================================================

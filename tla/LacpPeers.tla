----------------------------- MODULE LacpPeers ------------------------------
(***************************************************************************)
(* Two systems running lacpd at the two ends of a link that delays and     *)
(* loses LACPDUs.  The near port is configured once; the far one is        *)
(* restarted, removed, and loses and regains its link, until the           *)
(* administrator and the link calm down: from then on no LACPDU is lost,   *)
(* except those to an end that has gone deaf for good.                     *)
(*                                                                         *)
(* Both systems have a timer of one second, so their ticks take turns, and *)
(* a LACPDU does not stay under way from one tick to the next.             *)
(***************************************************************************)
EXTENDS LacpTypes

CONSTANTS
    nearSystem, nearPort, NearConfigs,    \* the identity and the configurations
    farSystem, farPort, FarConfigs        \* of either port

VARIABLES
    near, far,        \* the two ports
    toNear, toFar,    \* LACPDUs under way
    sports,           \* the super port either system has
    turn,             \* whose tick is next
    calm,             \* no more commands and no more accidental losses
    deaf,             \* the ends that hear nothing any more
    alone             \* near ticks since far stopped collecting what near sends

vars == <<near, far, toNear, toFar, sports, turn, calm, deaf, alone>>

Near == INSTANCE LinkEnd WITH
            port <- near, inbox <- toNear, outbox <- toFar, MyPort <- nearPort,
            Peer <- farSystem, PeerPort <- farPort, listed <- sports,
            Pdus <- {}, Configs <- NearConfigs

Far == INSTANCE LinkEnd WITH
            port <- far, inbox <- toFar, outbox <- toNear, MyPort <- farPort,
            Peer <- nearSystem, PeerPort <- nearPort, listed <- sports,
            Pdus <- {}, Configs <- FarConfigs

Quiet == toNear = <<>> /\ toFar = <<>>

\* How long near has been sending into a trunk that nobody collects from.
Watch(n) ==
    alone' = IF ~calm /\ near'.egress /\ far'.trunk = {} THEN alone + n ELSE 0

NearTick ==
    /\ turn = "near" /\ turn' = "far" /\ Quiet
    /\ Near!Second
    /\ UNCHANGED <<far, sports, calm, deaf>> /\ Watch(1)

FarTick ==
    /\ turn = "far" /\ turn' = "near" /\ Quiet
    /\ Far!Second
    /\ UNCHANGED <<near, sports, calm, deaf>> /\ Watch(0)

Reaches(end) == ~calm \/ end \notin deaf
MayMiss(end) == ~calm \/ end \in deaf

ToNear ==
    /\ (Reaches("near") /\ Near!Hear) \/ (MayMiss("near") /\ Near!Miss)
    /\ UNCHANGED <<far, sports, turn, calm, deaf>> /\ Watch(0)

ToFar ==
    /\ (Reaches("far") /\ Far!Hear) \/ (MayMiss("far") /\ Far!Miss)
    /\ UNCHANGED <<near, sports, turn, calm, deaf>> /\ Watch(0)

StartNear ==
    /\ ~calm /\ ~near.lacp_up
    /\ \E c \in NearConfigs : Near!InitializePort(c, FALSE)
    /\ Near!Sends
    /\ UNCHANGED <<far, toNear, sports, turn, calm, deaf>> /\ Watch(0)

CommandFar ==
    /\ ~calm
    /\ Far!Command
    /\ UNCHANGED <<near, sports, turn, calm, deaf>> /\ Watch(0)

CalmDown ==
    /\ ~calm /\ calm' = TRUE /\ Quiet
    /\ deaf' \in SUBSET {"near", "far"}
    /\ alone' = 0
    /\ UNCHANGED <<near, far, toNear, toFar, sports, turn>>

Init ==
    /\ near = Near!Absent([trunk |-> {}, egress |-> FALSE, out |-> <<>>])
    /\ far = Far!Absent([trunk |-> {}, egress |-> FALSE, out |-> <<>>])
    /\ toNear = <<>> /\ toFar = <<>>
    /\ sports = Aggregators
    /\ turn = "near" /\ calm = FALSE /\ deaf = {} /\ alone = 0

Next == NearTick \/ FarTick \/ ToNear \/ ToFar \/ StartNear \/ CommandFar \/ CalmDown

Spec == Init /\ [][Next]_vars

\* Time passes, and what is under way arrives or is lost.  Each action is named by
\* what only it does to a variable, and is possible whenever its guard here holds:
\* the tick of a port that is not up does nothing, and so does a LACPDU to it.
FairSpec ==
    /\ Spec
    /\ WF_turn(Quiet /\ turn' = IF turn = "near" THEN "far" ELSE "near")
    /\ WF_toNear(toNear # <<>> /\ toNear' = Tail(toNear))
    /\ WF_toFar(toFar # <<>> /\ toFar' = Tail(toFar))

-----------------------------------------------------------------------------

\* However many LACPDUs are lost and whatever happens to the far port, near does not
\* send into a trunk that the far end does not collect from for longer than its own
\* timeout and the short one of EXPIRED, in which the mux is left alone
\* (receive_fsm.c:341): every LACPDU that arrives is acted upon, every silence ends.
BlackHoleIsBounded ==
    alone < SHORT_TIMEOUT_COUNT + IF near.timeout = "SHORT" THEN SHORT_TIMEOUT_COUNT
                                  ELSE LONG_TIMEOUT_COUNT

\* Both ends run with their links up, one of them talks first, and both hear.
Works ==
    /\ \A p \in {near, far} : p.lacp_up /\ p.port_enabled
    /\ \E p \in {near, far} : p.activity = "ACTIVE"
    /\ deaf = {}

\* From any state losses and restarts lead to, the two state machines find together
\* and both distribute for good, with no other retry than the periodic LACPDUs; and
\* if one direction is dead, or one end is gone, both leave the trunk, the end that
\* still hears its peer because that one no longer knows it.
PeersSettle ==
    [](calm => <>[](IF Works THEN near.egress /\ far.egress
                    ELSE near.trunk = {} /\ far.trunk = {}))
=============================================================================

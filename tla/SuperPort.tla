----------------------------- MODULE SuperPort ------------------------------
(***************************************************************************)
(* One super port (a configured dynamic LAG) and all the ports that compete*)
(* for it: mvlan_lacp.c, mvlan_sport.c, the list of LAGs of selection.c,   *)
(* and the walks over lacp_per_port_vars_tree by which a handler of one    *)
(* port reaches the others.                                                *)
(*                                                                         *)
(* A super port only matches ports with its actor key, which select never  *)
(* changes, and LAG ids hold the key too, so super ports with other keys   *)
(* and their ports are independent copies of this module.                  *)
(*                                                                         *)
(* Of a port's machines only what selection sees is kept.  COLLECTING      *)
(* stands for both forwarding states, LACPDU transmission is left out, and *)
(* a timer that runs may expire at any tick.  Priorities are numbers in the*)
(* order in which the code compares them.  No port is looped back.         *)
(***************************************************************************)
EXTENDS Integers, FiniteSets

CONSTANTS
    N,                    \* number of ports; 1..N is the order of the tree
    Priority,             \* actor port priority of each port; lower is better
    PortTypes, NoType,    \* link speeds; PM_LPORT_INVALID
    Wires,                \* what a received LACPDU says of its sender
    Fallbacks,            \* the fallback settings the administrator uses
    NoSystem,             \* default_partner_system_mac
    MAX_PORT_PRIORITY,    \* 65535
    MaxDrift              \* bound on how far num_lports may fall below zero

Ports == 1..N

Peer == [system : {w.system : w \in Wires} \cup {NoSystem}, syspri : Nat, key : Nat,
         port : Nat, portpri : Nat, aggregation : BOOLEAN]

NoPeer == [system |-> NoSystem, syspri |-> 0, key |-> 0, port |-> 0, portpri |-> 0,
           aggregation |-> TRUE]

\* The peer of a LACPDU; "sync" is what choose_Matched makes of it.
PeerOf(w) == [system |-> w.system, syspri |-> w.syspri, key |-> w.key,
              port |-> w.port, portpri |-> w.portpri, aggregation |-> w.aggregation]

ASSUME SuperPortAssumption ==
    /\ N \in Nat \ {0}
    /\ Priority \in [Ports -> 0..MAX_PORT_PRIORITY]
    /\ PortTypes # {} /\ NoType \notin PortTypes /\ Fallbacks \subseteq BOOLEAN
    /\ MAX_PORT_PRIORITY \in Nat /\ MaxDrift \in Nat
    /\ \A w \in Wires : PeerOf(w) \in Peer /\ w.system # NoSystem /\ w.sync \in BOOLEAN

LagId == [system : {w.system : w \in Wires} \cup {NoSystem}, syspri : Nat, key : Nat,
          local : 0..N, port : Nat, portpri : Nat,
          fallback : BOOLEAN, port_type : PortTypes]

Lport == [lacp_up : BOOLEAN, port_enabled : BOOLEAN, port_type : PortTypes,
          recv : {"CURRENT", "EXPIRED", "DEFAULTED", "PORT_DISABLED"},
          mux : {"DETACHED", "WAITING", "ATTACHED", "COLLECTING"},
          selected : BOOLEAN, ready_n : BOOLEAN, waiting : BOOLEAN,
          sport : BOOLEAN,         \* sport_handle names the super port
          fallback : BOOLEAN, peer : Peer, psync : BOOLEAN]

\* "known": the five flags of the partner fields, set and cleared together.
\* FREED: destroyed while its parameters were listed for selection.
Sport == [state : {"NONE", "CREATED", "SET", "FREED"}, num_lports : Int,
          port_type : PortTypes \cup {NoType}, known : BOOLEAN,
          system : {w.system : w \in Wires} \cup {NoSystem}, syspri : Nat, key : Nat,
          actor_max : Nat, partner_max : Nat]

VARIABLES
    ports,     \* lacp_per_port_vars_tree
    lags,      \* mlacp_lag_tuple_list; "saved" is sp_handle # 0
    sport      \* the super port with its LACP parameters

vars == <<ports, lags, sport>>

State == [ports |-> ports, lags |-> lags, sport |-> sport]

Becomes(S) ==
    /\ ports' = S.ports /\ lags' = S.lags /\ sport' = S.sport
    /\ sport'.num_lports >= -MaxDrift
    /\ sport.state # "FREED"

Least(Q) == CHOOSE n \in Q : \A m \in Q : n <= m

HasLag(S, p) == \E lag \in S.lags : p \in lag.members
LagOf(S, p)  == CHOOSE lag \in S.lags : p \in lag.members

(************************* mux_fsm.c, per state ****************************)

\* Does the port's handle lead to the super port?
mvlan_get_sport(S, p) == S.ports[p].sport /\ S.sport.state \in {"CREATED", "SET"}

\* Whether mlacp_blocking_send_attach/detach_aggregator succeeds for the port.
Reaches(S, p) == mvlan_get_sport(S, p) /\ S.sport.state = "SET"

\* UNSELECTED and mux event E2 on every port of Q; the way from COLLECTING
\* leads through ATTACHED, which does not count the port again.  Detaching
\* counts a port down from WAITING as well.
Unselect(S, Q) ==
    LET left == {p \in Q : /\ S.ports[p].mux # "DETACHED"
                           /\ HasLag(S, p) /\ Reaches(S, p)}
        Drop(p) == [S.ports[p] EXCEPT !.selected = FALSE, !.mux = "DETACHED",
                                      !.sport = @ /\ p \notin left]
    IN  [S EXCEPT !.ports = [p \in Ports |-> IF p \in Q THEN Drop(p) ELSE S.ports[p]],
                  !.sport.num_lports = @ - Cardinality(left)]

\* E1 selected = SELECTED.
MuxE1(S, p) ==
    IF S.ports[p].mux = "DETACHED"
    THEN [S EXCEPT !.ports[p].mux = "WAITING", !.ports[p].waiting = TRUE] ELSE S

\* E3 selected and ready: attach, and on to COLLECTING if the partner is in sync.
MuxE3(S, p) ==
    IF S.ports[p].mux # "WAITING" THEN S
    ELSE [S EXCEPT !.ports[p].mux = IF S.ports[p].psync THEN "COLLECTING" ELSE "ATTACHED",
                   !.sport.num_lports = @ + IF HasLag(S, p) /\ Reaches(S, p)
                                            THEN 1 ELSE 0]

\* E5 selected and partner.sync.
MuxE5(S, p) ==
    IF S.ports[p].mux = "ATTACHED" THEN [S EXCEPT !.ports[p].mux = "COLLECTING"] ELSE S

\* A mutation: a port that comes back from COLLECTING is attached once more.
MuxE6_AttachesAgain(S, p) ==
    IF S.ports[p].mux = "COLLECTING"
    THEN [S EXCEPT !.ports[p].mux = "ATTACHED", !.sport.num_lports = @ + 1] ELSE S

\* E6 partner.sync = FALSE.
MuxE6(S, p) ==
    IF S.ports[p].mux = "COLLECTING" THEN [S EXCEPT !.ports[p].mux = "ATTACHED"] ELSE S

(***************************** mvlan_lacp.c ********************************)

Holders(S) == {p \in Ports : S.ports[p].lacp_up /\ S.ports[p].sport}

\* UNSELECTED, the mux told, then ready_n reset.
Evict(S, Q) ==
    LET T == Unselect(S, Q)
    IN  [T EXCEPT !.ports = [p \in Ports |-> [T.ports[p] EXCEPT !.ready_n = @ /\ p \notin Q]]]

\* Only for a super port whose partner fields are present.
mlacpVapiSportParamsChange(S) == IF S.sport.known THEN Evict(S, Holders(S)) ELSE S

\* The port type stays.
mvlan_api_clear_sport_params(S) ==
    IF S.sport.state # "SET" THEN S
    ELSE [Evict(S, Holders(S)) EXCEPT
            !.sport.known = FALSE, !.sport.system = NoSystem, !.sport.syspri = 0,
            !.sport.key = 0, !.sport.actor_max = 0, !.sport.partner_max = 0]

\* A mutation: the default system is taken for a partner.
mvlan_match_aggregator_DefaultToo(s, r, prio, match) ==
    LET present == s.known \/ match = "EXACT"
    IN  /\ s.port_type = r.port_type \/ (s.port_type = NoType /\ match # "EXACT")
        /\ present => /\ s.key = r.peer.key /\ s.syspri = r.peer.syspri
                      /\ s.system = r.peer.system

\* Does a port with variables r and priority prio match the super port s?
mvlan_match_aggregator(s, r, prio, match) ==
    LET present   == s.known \/ match = "EXACT"
        outranks  == \/ s.actor_max > prio
                     \/ s.actor_max = prio /\ s.partner_max > r.peer.portpri
        betterSys == match = "PRIORITY" /\ r.peer.syspri # 0 /\ s.syspri > r.peer.syspri
    IN  /\ s.port_type = r.port_type \/ (s.port_type = NoType /\ match # "EXACT")
        /\ present => \/ s.key = r.peer.key
                      \/ match = "PRIORITY" /\ s.known /\ outranks
        /\ present => s.syspri = r.peer.syspri \/ betterSys
        /\ present => \/ s.system = r.peer.system /\ s.system # NoSystem
                      \/ betterSys

Matches(S, p, match) ==
    /\ S.sport.state = "SET"
    /\ mvlan_match_aggregator(S.sport, S.ports[p], Priority[p], match)

\* A match that is not exact writes the port's partner into the super port.
Adopt(S, p, match) ==
    LET r == S.ports[p]
        s == S.sport
    IN  [S EXCEPT !.sport =
            [s EXCEPT !.known = TRUE, !.system = r.peer.system, !.syspri = r.peer.syspri,
                      !.key = r.peer.key, !.port_type = r.port_type,
                      !.actor_max = Priority[p],
                      !.partner_max = IF match = "PARTIAL" THEN r.peer.portpri
                                      ELSE Least({s.partner_max, r.peer.portpri})]]

\* An exact match improves the two best priorities.
Improve(S, p) ==
    [S EXCEPT !.sport.actor_max = Least({@, Priority[p]}),
              !.sport.partner_max = Least({@, S.ports[p].peer.portpri})]

\* A mutation: the LAG does not save the handle.
Settle_NotSaved(S, p) ==
    MuxE1([S EXCEPT !.ports[p].sport = TRUE, !.ports[p].selected = TRUE], p)

\* LAG_select_aggregator's success branch; the LAG saves the handle.
Settle(S, p) ==
    MuxE1([S EXCEPT !.ports[p].sport = TRUE, !.ports[p].selected = TRUE,
                    !.lags = {IF p \in lag.members THEN [lag EXCEPT !.saved = TRUE]
                              ELSE lag : lag \in @}], p)

\* A mutation: the ports that lose the super port are not told.
LAG_select_aggregator_Quietly(S, p) ==
    IF Matches(S, p, "EXACT") THEN Settle(Improve(S, p), p)
    ELSE IF Matches(S, p, "PARTIAL") THEN Settle(Adopt(S, p, "PARTIAL"), p)
    ELSE IF Matches(S, p, "PRIORITY") THEN Settle(Adopt(S, p, "PRIORITY"), p)
    ELSE S

\* mvlan_api_select_aggregator: exact, then partial, then by priority, which
\* takes the super port from all its ports.
LAG_select_aggregator(S, p) ==
    IF Matches(S, p, "EXACT") THEN Settle(Improve(S, p), p)
    ELSE IF Matches(S, p, "PARTIAL") THEN Settle(Adopt(S, p, "PARTIAL"), p)
    ELSE IF Matches(S, p, "PRIORITY")
         THEN Settle(mlacpVapiSportParamsChange(Adopt(S, p, "PRIORITY")), p)
    ELSE S

(****************************** selection.c ********************************)

form_lag_id(r, p) ==
    LET one == ~r.peer.aggregation
    IN  [system |-> r.peer.system, syspri |-> r.peer.syspri, key |-> r.peer.key,
         local |-> IF one THEN p ELSE 0, port |-> IF one THEN r.peer.port ELSE 0,
         portpri |-> IF one THEN r.peer.portpri ELSE 0,
         fallback |-> r.fallback, port_type |-> r.port_type]

\* The ports whose LAG a port may join: a LAG with the same id, found through a
\* member that has a partner.
Companions(S, id) ==
    {q \in Ports : /\ S.ports[q].lacp_up /\ HasLag(S, q)
                   /\ S.ports[q].peer.system # NoSystem
                   /\ LagOf(S, q).id = id}

\* A mutation: every port forms a LAG of its own.
JoinLag_Alone(S, p) ==
    LAG_select_aggregator(
        [S EXCEPT !.lags = @ \cup {[id |-> form_lag_id(S.ports[p], p), members |-> {p},
                                    saved |-> FALSE]}], p)

\* Looks for the port itself among the members.
is_port_partner_port(S, lag, p) ==
    p \in lag.members /\ \E q \in Ports : S.ports[q].lacp_up /\ S.ports[q].peer.port = q

\* A port without a LAG joins one, or creates it.
JoinLag(S, p) ==
    LET id   == form_lag_id(S.ports[p], p)
        with == Companions(S, id)
        join == LagOf(S, Least(with))
        wide == [join EXCEPT !.members = @ \cup {p}]
        new  == [id |-> id, members |-> {p}, saved |-> FALSE]
    IN  IF with = {} THEN LAG_select_aggregator([S EXCEPT !.lags = @ \cup {new}], p)
        ELSE IF S.ports[p].peer.aggregation /\ ~is_port_partner_port(S, join, p)
        THEN LAG_select_aggregator(
                [S EXCEPT !.lags = (@ \ {join}) \cup {wide}], p)
        ELSE S

\* Take the port off its LAG's list; the last one takes the LAG with it and
\* clears the super port the LAG last used, whoever uses it now.
QuitLag(S, p) ==
    LET lag  == LagOf(S, p)
        T    == IF lag.members = {p} /\ lag.saved
                THEN mvlan_api_clear_sport_params(S) ELSE S
        rest == {[lag EXCEPT !.members = @ \ {p}]}
    IN  [T EXCEPT !.lags = (@ \ {lag}) \cup IF lag.members = {p} THEN {} ELSE rest]

LAG_selection(S, p) ==
    IF ~HasLag(S, p) THEN JoinLag(S, p)
    ELSE IF LagOf(S, p).id # form_lag_id(S.ports[p], p)
    THEN JoinLag(QuitLag(Evict(S, {p}), p), p)
    ELSE IF ~S.ports[p].selected THEN LAG_select_aggregator(S, p)
    ELSE S

(***************************** receive_fsm.c *******************************)

\* The best priority of the holders still heard of; a change evicts them all.
update_max_port_priority(S, p) ==
    LET heard == {Priority[q] : q \in {h \in Holders(S) : S.ports[h].recv # "DEFAULTED"}}
        best  == Least(heard \cup {MAX_PORT_PRIORITY})
    IN  IF mvlan_get_sport(S, p) /\ S.sport.actor_max # best
        THEN mlacpVapiSportParamsChange([S EXCEPT !.sport.actor_max = best]) ELSE S

\* A new port priority at the same port number re-ranks the super port, too.
update_Selected(S, p, peer) ==
    LET r      == S.ports[p]
        others == {S.ports[q].peer.portpri : q \in Holders(S) \ {p}} \ {0}
        rerank == /\ peer.port = r.peer.port /\ peer.portpri # r.peer.portpri
                  /\ mvlan_get_sport(S, p)
        T      == IF rerank
                  THEN [S EXCEPT !.sport.partner_max =
                                     Least(others \cup {MAX_PORT_PRIORITY})]
                  ELSE S
    IN  IF peer # r.peer THEN Unselect(T, {p}) ELSE S

current_state_action(S, p, w) ==
    LET a == update_Selected([S EXCEPT !.ports[p].recv = "CURRENT"], p, PeerOf(w))
        b == [a EXCEPT !.ports[p].peer = PeerOf(w), !.ports[p].psync = w.sync]
        c == IF b.ports[p].selected /\ w.sync THEN MuxE5(b, p) ELSE b
        d == IF w.sync THEN c ELSE MuxE6(c, p)
    IN  LAG_selection(d, p)

defaulted_state_action(S, p) ==
    LET a == update_max_port_priority([S EXCEPT !.ports[p].recv = "DEFAULTED"], p)
        b == IF a.ports[p].peer # NoPeer THEN Unselect(a, {p}) ELSE a
        r == b.ports[p]
        c == LAG_selection([b EXCEPT !.ports[p] = [r EXCEPT !.peer = NoPeer,
                                                            !.psync = r.fallback]], p)
    IN  IF c.ports[p].selected /\ r.fallback THEN MuxE5(c, p)
        ELSE [c EXCEPT !.ports[p].selected = FALSE, !.ports[p].ready_n = FALSE]

port_disabled_state_action(S, p) ==
    LAG_selection(MuxE6([S EXCEPT !.ports[p].recv = "PORT_DISABLED",
                                  !.ports[p].psync = FALSE], p), p)

expired_state_action(S, p) ==
    [S EXCEPT !.ports[p].recv = "EXPIRED", !.ports[p].psync = FALSE]

(******************************** actions **********************************)

Absent == [lacp_up |-> FALSE, port_enabled |-> FALSE,
           port_type |-> CHOOSE t \in PortTypes : TRUE,
           recv |-> "PORT_DISABLED", mux |-> "DETACHED", selected |-> FALSE,
           ready_n |-> FALSE, waiting |-> FALSE, sport |-> FALSE, fallback |-> FALSE,
           peer |-> NoPeer, psync |-> FALSE]

\* A mutation: the port's entry stays in its LAG's list.
LACP_disable_lacp_KeepsLag(S, p) ==
    [S EXCEPT !.sport.num_lports = @ - IF S.ports[p].sport THEN 1 ELSE 0,
              !.ports[p] = Absent]

\* Detached explicitly, and a second time if the super port is cleared.
LACP_disable_lacp(S, p) ==
    LET a == IF Reaches(S, p)
             THEN [S EXCEPT !.sport.num_lports = @ - 1] ELSE S
        b == IF HasLag(a, p) THEN QuitLag(a, p) ELSE a
    IN  [b EXCEPT !.ports[p] = Absent]

\* A port that runs leaves the ranking of its super port to the others first.
LACP_initialize_port(p, up, t) ==
    LET others == {Priority[q] : q \in Holders(State) \ {p}}
        a == IF mvlan_get_sport(State, p)
             THEN [State EXCEPT !.sport.actor_max = Least(others \cup {MAX_PORT_PRIORITY})]
             ELSE State
        b == IF ports[p].lacp_up THEN LACP_disable_lacp(a, p) ELSE a
    IN  Becomes([b EXCEPT !.ports[p] =
            [Absent EXCEPT !.lacp_up = TRUE, !.port_enabled = up, !.port_type = t,
                           !.recv = IF up THEN "EXPIRED" ELSE "PORT_DISABLED"]])

DisablePort(p) ==
    /\ ports[p].lacp_up
    /\ Becomes(LACP_disable_lacp(State, p))

\* A mutation: a port that links up at another speed stays selected.
mlacpVapiLinkUp_KeepsSelection(p, t) ==
    /\ ports[p].lacp_up
    /\ LET b == [State EXCEPT !.ports[p].port_type = t, !.ports[p].port_enabled = TRUE]
       IN  Becomes(IF ports[p].recv = "PORT_DISABLED" THEN expired_state_action(b, p)
                   ELSE b)

mlacpVapiLinkUp(p, t) ==
    /\ ports[p].lacp_up
    /\ LET a == IF t # ports[p].port_type THEN Unselect(State, {p}) ELSE State
           b == [a EXCEPT !.ports[p].port_type = t, !.ports[p].port_enabled = TRUE]
       IN  Becomes(IF ports[p].recv = "PORT_DISABLED" THEN expired_state_action(b, p)
                   ELSE b)

mlacpVapiLinkDown(p) ==
    /\ ports[p].lacp_up
    /\ Becomes(port_disabled_state_action([State EXCEPT !.ports[p].port_enabled = FALSE], p))

LACP_process_lacpdu(p, w) ==
    /\ ports[p].lacp_up /\ ports[p].recv # "PORT_DISABLED"
    /\ Becomes(current_state_action(State, p, w))

set_lport_fallback_status(p, status) ==
    /\ ports[p].lacp_up
    /\ LET a == [State EXCEPT !.ports[p].fallback = status]
       IN  Becomes(IF ports[p].recv = "DEFAULTED" THEN defaulted_state_action(a, p) ELSE a)

mvlan_sport_create ==
    /\ sport.state = "NONE"
    /\ sport' = [sport EXCEPT !.state = "CREATED", !.num_lports = 0]
    /\ UNCHANGED <<ports, lags>>

mvlan_api_validate_set_sport_params == sport.num_lports <= 0

\* Sent once for each creation.
mvlan_set_sport_params ==
    /\ sport.state = "CREATED" /\ mvlan_api_validate_set_sport_params
    /\ sport' = [sport EXCEPT !.state = "SET", !.port_type = NoType, !.known = FALSE,
                              !.actor_max = 0, !.partner_max = 0]
    /\ UNCHANGED <<ports, lags>>

\* A mutation: accepted with the partner fields present.
mvlan_api_validate_unset_sport_params_Known ==
    sport.state = "SET" /\ sport.num_lports <= 0

\* Refused while the partner fields are present or ports are counted.
mvlan_api_validate_unset_sport_params ==
    sport.state = "SET" /\ ~sport.known /\ sport.num_lports <= 0

\* The parameters are freed.  The ports are not told, since the message has no flags.
mvlan_unset_sport_params ==
    /\ mvlan_api_validate_unset_sport_params
    /\ sport' = [sport EXCEPT !.state = "CREATED", !.port_type = NoType, !.known = FALSE]
    /\ UNCHANGED <<ports, lags>>

\* Not refused, whatever became of the unset before it.  Parameters still set are
\* freed but stay in placp_params_list: the model ends there, and LacpPort goes on.
mvlan_destroy_sport ==
    /\ sport.state \in {"CREATED", "SET"}
    /\ sport' = IF sport.state = "SET" THEN [sport EXCEPT !.state = "FREED"]
                ELSE [sport EXCEPT !.state = "NONE", !.num_lports = 0]
    /\ UNCHANGED <<ports, lags>>

\* LACP_periodic_tx and LACP_current_while_expiry walk the ports once a second.
\* Since any timer that runs may be due, a walk is a sequence of these two actions.
\* The wait-while timer expires; it starts again unless all are ready.
mux_wait_while_timer_expiry(p) ==
    /\ ports[p].lacp_up /\ HasLag(State, p) /\ ports[p].waiting
    /\ LET a == [State EXCEPT !.ports[p].ready_n = TRUE]
           ready == \A q \in LagOf(State, p).members : a.ports[q].ready_n
       IN  Becomes(IF ready /\ ports[p].selected
                   THEN MuxE3([a EXCEPT !.ports[p].waiting = FALSE], p) ELSE a)

\* The current-while timer expires.
current_while_timer_expiry(p) ==
    /\ ports[p].lacp_up
    /\ \/ ports[p].recv = "CURRENT" /\ Becomes(expired_state_action(State, p))
       \/ ports[p].recv = "EXPIRED" /\ Becomes(defaulted_state_action(State, p))

PortMessage(p) ==
    \/ \E up \in BOOLEAN, t \in PortTypes : LACP_initialize_port(p, up, t)
    \/ DisablePort(p)
    \/ \E t \in PortTypes : mlacpVapiLinkUp(p, t)
    \/ mlacpVapiLinkDown(p)
    \/ \E w \in Wires : LACP_process_lacpdu(p, w)
    \/ \E status \in Fallbacks : set_lport_fallback_status(p, status)

SportMessage ==
    \/ mvlan_sport_create
    \/ mvlan_set_sport_params
    \/ mvlan_unset_sport_params
    \/ mvlan_destroy_sport

Timer(p) ==
    \/ mux_wait_while_timer_expiry(p)
    \/ current_while_timer_expiry(p)

Init ==
    /\ ports = [p \in Ports |-> Absent]
    /\ lags = {}
    /\ sport = [state |-> "NONE", num_lports |-> 0, port_type |-> NoType, known |-> FALSE,
                system |-> NoSystem, syspri |-> 0, key |-> 0,
                actor_max |-> 0, partner_max |-> 0]

Next == SportMessage \/ \E p \in Ports : PortMessage(p) \/ Timer(p)

Spec == Init /\ [][Next]_vars

(****************************** properties *********************************)

\* Every field has its type, and the LAGs are a partition of ports that exist: a
\* LAG's pplist names no port that LACP_disable_lacp has freed, no port is on two
\* lists, and a LAG with an empty list is gone.
TypeOK ==
    /\ ports \in [Ports -> Lport]
    /\ sport \in Sport
    /\ \A lag \in lags : /\ lag.id \in LagId /\ lag.saved \in BOOLEAN
                         /\ lag.members # {}
                         /\ \A p \in lag.members : ports[p].lacp_up
    /\ \A lag, other \in lags : lag # other => lag.members \cap other.members = {}

\* A port past DETACHED, and no other, names the super port, is in a LAG, and finds
\* the super port with parameters and a partner: receive_fsm.c and lacp_support.c
\* follow placp_params of the port's super port without a test for NULL.
HoldersHaveParams ==
    \A p \in Ports :
        /\ ports[p].mux # "DETACHED" <=> ports[p].sport
        /\ ports[p].sport => /\ HasLag(State, p) /\ sport.known
                             /\ sport.state \in {"SET", "FREED"}

\* All ports selected at one time have the super port's partner, also when a better
\* partner takes the super port over or an old LAG gives it back.
SportServesPartner ==
    \A p \in Ports : ports[p].selected =>
        /\ sport.system = ports[p].peer.system /\ sport.syspri = ports[p].peer.syspri
        /\ sport.key = ports[p].peer.key

\* Selected ports run at the super port's speed, although a link may come back at
\* another speed while its port is still selected, or in a LAG of the old speed.
SportHasOneSpeed == \A p \in Ports : ports[p].selected => sport.port_type = ports[p].port_type

\* Two ports that fell back because nobody answers never share the super port:
\* the far ends may be two systems.
SilentPortsStayAlone ==
    \A p, q \in Ports :
        /\ ports[p].selected /\ ports[p].peer.system = NoSystem
        /\ ports[q].selected /\ ports[q].peer.system = NoSystem
        => p = q

\* The super port's partner is never orphaned: some LAG has its handle saved and
\* will clear it when its last port leaves.
PartnerIsReleased == sport.known => \E lag \in lags : lag.saved

\* Ports with the same partner find each other: LAG_selection never leaves two LAGs
\* with one id, unless nobody is known on the other side.
LagsAreDistinct ==
    \A lag, other \in lags : lag.id = other.id /\ lag.id.system # NoSystem => lag = other

Attached == {p \in Ports : ports[p].mux \in {"ATTACHED", "COLLECTING"} /\ ports[p].sport}

\* num_lports is no larger than the number of attached ports, so that a super port
\* that all ports have left is never refused as in use.
CountIsNotInflated == sport.num_lports <= Cardinality(Attached)

(**************** what comments say and the code does not ******************)

\* "This should only be called after all lports have been detached" (mvlan_lacp.c, of
\* mvlan_api_clear_sport_params): no attached port stays in its LAG when the partner
\* fields are cleared.
ClearedWhenDetached ==
    [][sport.known /\ ~sport'.known
       => \A lag \in lags \cap lags' : lag.members \cap Attached = {}]_vars
=============================================================================

---------------------------- MODULE ConfigThread ----------------------------
(***************************************************************************)
(* The OVSDB side of lacpd (ovsdb_if.c) and its race with the protocol     *)
(* thread.  The administrator and the link layer change rows of OVSDB; the *)
(* main thread, in lacpd_run, brings its caches all_ports and              *)
(* all_interfaces up to date and tells the protocol thread by messages in  *)
(* one FIFO queue; the protocol thread obeys them and writes its decisions *)
(* back into the interface rows (hw_bond_config) and into the caches.      *)
(*                                                                         *)
(* lacpd_run holds ovsdb_mutex from start to end.  Its steps are actions   *)
(* here because the protocol thread takes messages off the queue, and      *)
(* reads lacp_state, without the mutex.  The row changes of a batch are    *)
(* read at its start only, so a change during a run is one after it.       *)
(*                                                                         *)
(* The protocol thread's port is what TrunkPort says of it: LacpPort has   *)
(* the machines behind.  Text formatting, the published status columns,    *)
(* port ids and priorities are left out.                                   *)
(***************************************************************************)
EXTENDS Integers, Sequences, FiniteSets

CONSTANTS
    Lags,          \* numbers of LAGs; a LAG's number is also its aggregation key
    Ifaces,        \* system interfaces; they are never deleted
    Speeds,        \* link speeds; 0 is a link that is down
    Systems,       \* values of the per-LAG system id override; "default" is none
    MaxLagId,      \* size of lag_id_pool, 128
    Commands,      \* what the administrator may do
    MaxCommands,   \* bound on how many row changes there are
    FirstRows      \* the Port tables lacpd may find when it starts

NoLag   == 0       \* no LAG; no aggregation key; no LAG id
Modes   == {"off", "active", "passive"}
LagIds  == 1..MaxLagId
NoPort  == [cached |-> FALSE, mode |-> "off", cfg |-> {}, eligible |-> {},
            participants |-> {}, speed |-> 0, fallback |-> FALSE, fast |-> FALSE,
            sys |-> "default"]
NoRow   == [present |-> FALSE, lacp |-> "off", members |-> {}, fallback |-> FALSE,
            fast |-> FALSE, sys |-> "default"]
NoLport == [up |-> FALSE, key |-> NoLag, active |-> FALSE, fast |-> FALSE, link |-> 0,
            sys |-> "default", fallback |-> FALSE, trunk |-> 0, egress |-> FALSE]
NoIface == [cached |-> FALSE, port |-> NoLag, eligible |-> FALSE, enabled |-> FALSE,
            key |-> NoLag, active |-> FALSE, fast |-> FALSE, link |-> 0]
NoCall  == [kind |-> "none", iface |-> NoLag, lag |-> 0, allowed |-> FALSE, at |-> "done"]
NoSport == [state |-> "none", key |-> NoLag]

Row == [present : BOOLEAN, lacp : Modes, members : SUBSET Ifaces, fallback : BOOLEAN,
        fast : BOOLEAN, sys : Systems]

ASSUME ConfigAssumption ==
    /\ Lags \subseteq Nat \ {0}
    /\ Speeds \subseteq Nat \ {0}
    /\ "default" \in Systems
    /\ IsFiniteSet(Ifaces)
    /\ MaxLagId \in Nat /\ MaxCommands \in Nat
    /\ FirstRows \subseteq [Lags -> Row]

VARIABLES
    rows,      \* Port table
    keys,      \* Interface table, other_config:lacp-aggregation-key
    links,     \* Interface table, link_state and link_speed
    changed,   \* rows of the Port and Interface tables changed since idl_seqno
    budget,    \* row changes left
    hw,        \* Interface table, hw_bond_config
    ports,     \* all_ports, but for the LAG ids
    lag_id,    \* lag_id of all_ports
    pool,      \* lag_id_pool, the ids in use
    ifs,       \* all_interfaces; "enabled" is lacp_state
    recent,    \* interfaces_recently_added
    task,      \* where lacpd_run is; it holds ovsdb_mutex unless "idle"
    queue,     \* lacpd_main_rcvq
    sports,    \* super ports by LAG id, with the key of their parameters
    lports,    \* the protocol thread's ports
    call       \* the hardware call the protocol thread is in

table == <<rows, keys, links, changed, budget>>
cache == <<ports, lag_id, pool, ifs, recent, task>>
proto == <<sports, lports, call>>
vars  == <<table, hw, cache, queue, proto>>

Idle == [at |-> "idle", ports |-> {}, members |-> {}, port |-> NoLag,
         switched |-> FALSE, moded |-> FALSE, timed |-> FALSE]

(***************************** the messages ********************************)

IsDynamic(P) == P.mode # "off"

\* send_config_lport_msg.
ConfigLport(S, i) ==
    LET f == S.ifs[i]
    IN  [type |-> "config", iface |-> i, enabled |-> f.enabled, key |-> f.key,
         active |-> f.active, fast |-> f.fast, link |-> f.link,
         sys |-> IF f.port # NoLag /\ IsDynamic(S.ports[f.port])
                 THEN S.ports[f.port].sys ELSE "default"]

\* send_lport_lacp_change_msg.
LportChange(f, i) == [type |-> "update", iface |-> i, enabled |-> f.enabled, fast |-> f.fast]

LinkChange(f, i)  == [type |-> "link", iface |-> i, link |-> f.link]
Fallback(i, on)   == [type |-> "fallback", iface |-> i, on |-> on]

\* set_port_overrides, and clear_port_overrides with "default".
Overrides(i, sys) == [type |-> "overrides", iface |-> i, sys |-> sys]

LagMsg(type, id, key) == [type |-> type, lag |-> id, key |-> key]

\* The part of the state that eligibility changes.
State == [ports |-> ports, ifs |-> ifs, hw |-> hw, queue |-> queue]

Becomes(S) ==
    \E T \in {S} : ports' = T.ports /\ ifs' = T.ifs /\ hw' = T.hw /\ queue' = T.queue

Send(S, msgs) == [S EXCEPT !.queue = @ \o msgs]

\* The hash maps are walked in any order.
Orders(M) == {s \in [1..Cardinality(M) -> M] : \A j, k \in DOMAIN s : s[j] = s[k] => j = k}

ToEach(order, Msg(_)) == [k \in DOMAIN order |-> Msg(order[k])]

(****************************** eligibility ********************************)

\* A mutation: the interface's own flag is not set.
set_interface_lag_eligibility_NoFlag(S, p, i, elig) ==
    [S EXCEPT !.ports[p].eligible = IF elig THEN @ \cup {i} ELSE @ \ {i}]

set_interface_lag_eligibility(S, p, i, elig) ==
    LET P == S.ports[p]
        T == [S EXCEPT !.ifs[i] = IF IsDynamic(P)
                                  THEN [@ EXCEPT !.enabled = elig, !.fast = P.fast,
                                                 !.active = P.mode = "active"]
                                  ELSE @,
                       !.hw[i] = IF IsDynamic(P) /\ elig THEN @
                                 ELSE [rx |-> elig, tx |-> elig]]
        U == IF IsDynamic(P) /\ (i \in P.cfg \/ i \notin recent)
             THEN Send(T, <<ConfigLport(T, i)>>) ELSE T
    IN  IF elig = S.ifs[i].eligible THEN S
        ELSE [U EXCEPT !.ifs[i].eligible = elig,
                       !.ports[p].eligible = IF elig THEN @ \cup {i} ELSE @ \ {i}]

\* The first member of a static LAG decides its speed.
lag_member_speed(S, i) ==
    LET P == S.ports[S.ifs[i].port]
    IN  IF ~IsDynamic(P) /\ i \in P.cfg /\ P.eligible = {} /\ S.ifs[i].link # 0
        THEN S.ifs[i].link ELSE P.speed

new_eligible(S, i) ==
    LET P == S.ports[S.ifs[i].port]
    IN  /\ i \in P.cfg
        /\ IsDynamic(P) \/ (S.ifs[i].link # 0 /\ S.ifs[i].link = lag_member_speed(S, i))

EligibilityChanges(S, i) ==
    /\ S.ifs[i].port # NoLag
    /\ new_eligible(S, i) # (i \in S.ports[S.ifs[i].port].eligible)

update_interface_lag_eligibility(S, i) ==
    LET p == S.ifs[i].port
        T == [S EXCEPT !.ports[p].speed = lag_member_speed(S, i),
                       !.ifs[i].key = IF @ = NoLag THEN lag_id[p] ELSE @]
    IN  IF p = NoLag THEN S
        ELSE IF EligibilityChanges(S, i)
             THEN set_interface_lag_eligibility(T, p, i, new_eligible(S, i)) ELSE T

(*********************** lacpd_run: the interfaces *************************)

Deleted == {p \in Lags : ports[p].cached /\ ~rows[p].present}
Added   == {p \in Lags : rows[p].present /\ ~ports[p].cached}

\* A batch of changes is taken: OVSDB_LOCK, ovsdb_idl_run.
BeginRun ==
    /\ task.at = "idle"
    /\ changed.ports # {} \/ changed.ifs # {}
    /\ task' = [Idle EXCEPT !.at = "run", !.members = changed.ifs,
                            !.ports = {p \in changed.ports : rows[p].present}]
    /\ changed' = [ports |-> {}, ifs |-> {}]
    /\ UNCHANGED <<rows, keys, links, budget, hw, ports, lag_id, pool, ifs, recent,
                   queue, proto>>

Walk(at, i) ==
    /\ task.at = at /\ i \in task.members
    /\ task' = [task EXCEPT !.members = @ \ {i}]

add_new_interface(i) ==
    /\ Walk("run", i) /\ ~ifs[i].cached
    /\ ifs' = [ifs EXCEPT ![i] = [NoIface EXCEPT !.cached = TRUE, !.key = keys[i],
                                                 !.link = links[i]]]
    /\ hw' = [hw EXCEPT ![i] = [rx |-> FALSE, tx |-> FALSE]]
    /\ UNCHANGED <<table, ports, lag_id, pool, recent, queue, proto>>

\* A mutation: only eligibility tells the protocol thread of a link change.
update_interface_NoLink(i) ==
    /\ Walk("run", i) /\ ifs[i].cached
    /\ Becomes(update_interface_lag_eligibility([State EXCEPT !.ifs[i].link = links[i]], i))
    /\ UNCHANGED <<table, lag_id, pool, recent, proto>>

\* update_interface_cache, for an interface known before.  A key taken out of the
\* row leaves the cached one alone.  The protocol thread is told of a link change
\* only if eligibility did not tell it.
update_interface(i) ==
    LET A == State
        B == IF keys[i] \notin {NoLag, ifs[i].key}
             THEN LET T == [A EXCEPT !.ifs[i].key = keys[i]]
                  IN  Send(T, <<ConfigLport(T, i)>>)
             ELSE A
        p == ifs[i].port
        C == [B EXCEPT !.ifs[i].link = links[i]]
        D == update_interface_lag_eligibility(C, i)
        E == IF ~EligibilityChanges(C, i) /\ p # NoLag /\ D.ifs[i].eligible /\ IsDynamic(D.ports[p])
             THEN Send(D, <<LinkChange(D.ifs[i], i), LportChange(D.ifs[i], i)>>) ELSE D
    IN  /\ Walk("run", i) /\ ifs[i].cached
        /\ Becomes(IF links[i] # ifs[i].link THEN E ELSE B)
        /\ UNCHANGED <<table, lag_id, pool, recent, proto>>

(************************** lacpd_run: the ports ***************************)

\* A mutation: the LAG id is not freed.
del_old_port_KeepsId(p) ==
    /\ task.at = "run" /\ task.members = {} /\ p \in Deleted
    /\ lag_id' = [lag_id EXCEPT ![p] = 0]
    /\ ports' = [ports EXCEPT ![p] = NoPort]
    /\ UNCHANGED <<table, hw, pool, ifs, recent, task, queue, proto>>

\* The members are not made ineligible, and LACP is not disabled on them: that is for
\* ports that are no LAGs only, which are not modelled.
del_old_port(p) ==
    /\ task.at = "run" /\ task.members = {} /\ p \in Deleted
    /\ ifs' = [i \in Ifaces |-> IF i \in ports[p].cfg THEN [ifs[i] EXCEPT !.port = NoLag]
                                ELSE ifs[i]]
    /\ queue' = IF lag_id[p] = 0 THEN queue
                ELSE queue \o <<LagMsg("unparams", lag_id[p], p), LagMsg("delete", lag_id[p], p)>>
    /\ pool' = pool \ {lag_id[p]}
    /\ lag_id' = [lag_id EXCEPT ![p] = 0]
    /\ ports' = [ports EXCEPT ![p] = NoPort]
    /\ UNCHANGED <<table, hw, recent, task, proto>>

add_new_port(p) ==
    /\ task.at = "run" /\ task.members = {} /\ Deleted = {} /\ p \in Added
    /\ ports' = [ports EXCEPT ![p] = [NoPort EXCEPT !.cached = TRUE, !.cfg = rows[p].members]]
    /\ ifs' = [i \in Ifaces |-> IF i \in rows[p].members THEN [ifs[i] EXCEPT !.port = p]
                                ELSE ifs[i]]
    /\ UNCHANGED <<table, hw, lag_id, pool, recent, task, queue, proto>>

\* handle_port_config starts: the timeout, and the members taken out.
StartPort(p) ==
    /\ task.at = "run" /\ task.members = {} /\ Deleted = {} /\ Added = {}
    /\ p \in task.ports
    /\ task' = [task EXCEPT !.at = "removed", !.port = p, !.ports = @ \ {p},
                            !.members = ports[p].cfg \ rows[p].members,
                            !.timed = rows[p].fast # ports[p].fast]
    /\ ports' = [ports EXCEPT ![p].fast = rows[p].fast]
    /\ UNCHANGED <<table, hw, lag_id, pool, ifs, recent, queue, proto>>

\* A mutation: a member moved to another LAG is forgotten like one that left.
RemoveMember_Forgets(i) ==
    LET S == set_interface_lag_eligibility(State, task.port, i, FALSE)
    IN  /\ Walk("removed", i)
        /\ Becomes([S EXCEPT !.ports[task.port].cfg = @ \ {i}, !.ifs[i].port = NoLag])
        /\ UNCHANGED <<table, lag_id, pool, recent, proto>>

\* A member moved to a LAG handled before in this run is that LAG's now.
RemoveMember(i) ==
    LET p == task.port
        Kept(S) == IF i \in recent THEN update_interface_lag_eligibility(S, i)
                   ELSE Send([S EXCEPT !.ifs[i].port = NoLag], <<Overrides(i, "default")>>)
    IN  /\ Walk("removed", i)
        /\ \E S \in {set_interface_lag_eligibility(State, p, i, FALSE)} :
              Becomes([Kept(S) EXCEPT !.ports[p].cfg = @ \ {i}])
        /\ UNCHANGED <<table, lag_id, pool, recent, proto>>

ToAdded(p, moded, switched) ==
    [task EXCEPT !.at = "added", !.members = rows[p].members \ ports[p].cfg,
                 !.moded = moded, !.switched = switched]


CompareMode ==
    LET p == task.port
    IN  /\ task.at = "removed" /\ task.members = {}
        /\ task' = IF rows[p].lacp = ports[p].mode THEN ToAdded(p, FALSE, FALSE)
                   ELSE [task EXCEPT !.at = "mode", !.members = ports[p].eligible]
        /\ UNCHANGED <<table, hw, ports, lag_id, pool, ifs, recent, queue, proto>>

MakeIneligible(i) ==
    /\ Walk("mode", i)
    /\ Becomes(set_interface_lag_eligibility(State, task.port, i, FALSE))
    /\ UNCHANGED <<table, lag_id, pool, recent, proto>>

\* A mutation: the pool is one larger than the ids.
alloc_lag_id_OneMore == CHOOSE id \in (1..MaxLagId + 1) \ pool : \A k \in LagIds \ pool : id <= k

alloc_lag_id == LET free == LagIds \ pool
                IN  IF free = {} THEN 0 ELSE CHOOSE id \in free : \A k \in free : id <= k

\* A static LAG becomes dynamic.  Without a LAG id it stays without a super port.
TurnOn ==
    LET p  == task.port
        id == alloc_lag_id
    IN  /\ task.at = "mode" /\ task.members = {} /\ ~IsDynamic(ports[p])
        /\ lag_id' = [lag_id EXCEPT ![p] = id]
        /\ pool' = IF id = 0 THEN pool ELSE pool \cup {id}
        /\ \E order \in Orders(ports[p].cfg) :
              queue' = queue \o ToEach(order, LAMBDA i : Overrides(i, ports[p].sys))
                             \o (IF id = 0 THEN <<>>
                                 ELSE <<LagMsg("create", id, p), LagMsg("params", id, p)>>)
        /\ ports' = [ports EXCEPT ![p].mode = rows[p].lacp]
        /\ task' = ToAdded(p, TRUE, FALSE)
        /\ UNCHANGED <<table, hw, ifs, recent, proto>>

\* Active becomes passive or passive active.
SwitchMode ==
    LET p == task.port
    IN  /\ task.at = "mode" /\ task.members = {} /\ IsDynamic(ports[p])
        /\ rows[p].lacp # "off"
        /\ ports' = [ports EXCEPT ![p].mode = rows[p].lacp]
        /\ task' = ToAdded(p, TRUE, TRUE)
        /\ UNCHANGED <<table, hw, lag_id, pool, ifs, recent, queue, proto>>

\* A mutation: the super port is not deleted.
TurnOff_NoDelete ==
    LET p == task.port
    IN  /\ task.at = "mode" /\ task.members = {} /\ IsDynamic(ports[p])
        /\ rows[p].lacp = "off"
        /\ lag_id' = [lag_id EXCEPT ![p] = 0]
        /\ pool' = pool \ {lag_id[p]}
        /\ queue' = IF lag_id[p] = 0 THEN queue
                    ELSE Append(queue, LagMsg("unparams", lag_id[p], p))
        /\ ports' = [ports EXCEPT ![p].mode = "off"]
        /\ task' = ToAdded(p, TRUE, FALSE)
        /\ UNCHANGED <<table, hw, ifs, recent, proto>>

TurnOff ==
    LET p  == task.port
        id == lag_id[p]
    IN  /\ task.at = "mode" /\ task.members = {} /\ IsDynamic(ports[p])
        /\ rows[p].lacp = "off"
        /\ lag_id' = [lag_id EXCEPT ![p] = 0]
        /\ pool' = pool \ {id}
        /\ \E order \in Orders(ports[p].cfg) :
              queue' = queue \o ToEach(order, LAMBDA i : Overrides(i, "default"))
                             \o (IF id = 0 THEN <<>>
                                 ELSE <<LagMsg("unparams", id, p), LagMsg("delete", id, p)>>)
        /\ ports' = [ports EXCEPT ![p].mode = "off"]
        /\ task' = ToAdded(p, TRUE, FALSE)
        /\ UNCHANGED <<table, hw, ifs, recent, proto>>

AddMember(i) ==
    LET p == task.port
    IN  /\ Walk("added", i)
        /\ ports' = [ports EXCEPT ![p].cfg = @ \cup {i}]
        /\ recent' = recent \cup {i}
        /\ ifs' = [ifs EXCEPT ![i].port = p]
        /\ queue' = Append(queue, Overrides(i, ports[p].sys))
        /\ UNCHANGED <<table, hw, lag_id, pool, proto>>

StartEligible ==
    /\ task.at = "added" /\ task.members = {}
    /\ task' = [task EXCEPT !.at = "eligible", !.members = ports[task.port].cfg]
    /\ UNCHANGED <<table, hw, ports, lag_id, pool, ifs, recent, queue, proto>>

\* A mutation: a new rate is not passed on.
UpdateMember_NoRate(i) ==
    /\ Walk("eligible", i)
    /\ Becomes(update_interface_lag_eligibility(State, i))
    /\ UNCHANGED <<table, lag_id, pool, recent, proto>>

UpdateMember(i) ==
    LET A == State
        B == IF task.switched THEN Send(A, <<ConfigLport(A, i)>>)
             ELSE IF task.timed
             THEN LET T == [A EXCEPT !.ifs[i].fast = ports[task.port].fast]
                  IN  Send(T, <<LportChange(T.ifs[i], i)>>)
             ELSE A
    IN  /\ Walk("eligible", i)
        /\ Becomes(update_interface_lag_eligibility(B, i))
        /\ UNCHANGED <<table, lag_id, pool, recent, proto>>

\* A mutation: fallback is passed on only where it is set.
FinishPort_OnlySet ==
    LET p == task.port
    IN  /\ task.at = "eligible" /\ task.members = {}
        /\ \E order \in Orders(ports[p].cfg) :
              queue' = IF rows[p].lacp # "off" /\ rows[p].fallback
                       THEN queue \o ToEach(order, LAMBDA i : Fallback(i, TRUE)) ELSE queue
        /\ ports' = [ports EXCEPT ![p].fallback = rows[p].fallback]
        /\ task' = [Idle EXCEPT !.at = "run", !.ports = task.ports]
        /\ UNCHANGED <<table, hw, lag_id, pool, ifs, recent, proto>>

\* The overrides and the fallback flag of a dynamic LAG go to its members; the
\* flag only if it or the mode changed (update_port_fallback_flag).
FinishPort ==
    LET p == task.port
        P == ports[p]
        R == rows[p]
        toSys  == R.lacp # "off" /\ R.sys # P.sys
        toFall == R.lacp # "off" /\ (R.fallback # P.fallback \/ task.moded)
    IN  /\ task.at = "eligible" /\ task.members = {}
        /\ \E o1, o2 \in Orders(P.cfg) :
              queue' = queue
                \o (IF toSys THEN ToEach(o1, LAMBDA i : Overrides(i, R.sys)) ELSE <<>>)
                \o (IF toFall THEN ToEach(o2, LAMBDA i : Fallback(i, R.fallback)) ELSE <<>>)
        /\ ports' = [ports EXCEPT ![p].sys = IF toSys THEN R.sys ELSE @,
                                  ![p].fallback = IF toFall THEN R.fallback ELSE @]
        /\ task' = [Idle EXCEPT !.at = "run", !.ports = task.ports]
        /\ UNCHANGED <<table, hw, lag_id, pool, ifs, recent, proto>>

EndRun ==
    /\ task.at = "run" /\ task.members = {} /\ task.ports = {}
    /\ Deleted = {} /\ Added = {}
    /\ task' = Idle
    /\ recent' = {}
    /\ UNCHANGED <<table, hw, ports, lag_id, pool, ifs, queue, proto>>

(************************* the protocol thread *****************************)

\* ops_attach_port_in_hw, ops_trunk_port_egr_enable and ops_detach_port_in_hw read
\* lacp_state before they take ovsdb_mutex.
Call(kind, i, id) ==
    [kind |-> kind, iface |-> i, lag |-> id, allowed |-> ifs[i].enabled,
     at |-> IF ifs[i].enabled THEN "write" ELSE "report"]

\* Port i becomes l; a port that leaves its trunk is detached in hardware.
Settle(i, l) ==
    /\ lports' = [lports EXCEPT ![i] = l]
    /\ call' = IF lports[i].trunk # 0 /\ l.trunk = 0
               THEN Call("detach", i, lports[i].trunk) ELSE NoCall
    /\ UNCHANGED sports

\* A mutation: the egress stays open.
Untrunked_KeepsEgress(l) == [l EXCEPT !.trunk = 0]

Untrunked(l) == [l EXCEPT !.trunk = 0, !.egress = FALSE]

\* set_lacp_lport_params: a port is initialized anew, without fallback, also when
\* it is running already.
Configured(m) ==
    [up |-> TRUE, key |-> m.key, active |-> m.active, fast |-> m.fast, link |-> m.link,
     sys |-> m.sys, fallback |-> FALSE, trunk |-> 0, egress |-> FALSE]

LportMessage(m) ==
    LET i == m.iface
        l == lports[i]
    IN  \/ m.type = "config" /\ Settle(i, IF m.enabled THEN Configured(m) ELSE NoLport)
        \/ m.type = "update" /\ Settle(i, IF ~m.enabled THEN NoLport
                                         ELSE IF l.up THEN [l EXCEPT !.fast = m.fast] ELSE l)
        \/ m.type = "link" /\ Settle(i, IF ~l.up THEN l
                                       ELSE IF l.link = m.link THEN l
                                       ELSE Untrunked([l EXCEPT !.link = m.link]))
        \/ m.type = "fallback" /\ Settle(i, IF l.up THEN [l EXCEPT !.fallback = m.on] ELSE l)
        \/ m.type = "overrides" /\ Settle(i, IF l.up THEN [l EXCEPT !.sys = m.sys] ELSE l)

InTrunk(id)  == {i \in Ifaces : lports[i].trunk = id}
Contends(id) == {i \in Ifaces : lports[i].up /\ lports[i].link # 0
                                /\ lports[i].key = sports[id].key}

\* SuperPort has the conditions: parameters are not unset under an attached port,
\* nor under one that is selected but still waits; a super port deleted with its
\* parameters leaves them behind ("freed").
SportMessage(m) ==
    LET s == sports[m.lag]
        To(state, key) == sports' = [sports EXCEPT ![m.lag] = [state |-> state, key |-> key]]
    IN  /\ UNCHANGED <<lports, call>>
        /\ \/ /\ m.type = "create"
              /\ IF s.state \in {"none", "freed"} THEN To("new", NoLag) ELSE UNCHANGED sports
           \/ /\ m.type = "params"
              /\ IF s.state = "new" THEN To("set", m.key) ELSE UNCHANGED sports
           \/ /\ m.type = "unparams"
              /\ \/ /\ s.state = "set" /\ InTrunk(m.lag) = {}
                    /\ To("new", NoLag)
                 \/ /\ s.state # "set" \/ InTrunk(m.lag) # {} \/ Contends(m.lag) # {}
                    /\ UNCHANGED sports
           \/ /\ m.type = "delete"
              /\ To(IF s.state = "set" THEN "freed" ELSE "none", NoLag)

\* ml_wait_for_next_event, and the handlers of mlacp_recv.c.
Receive ==
    /\ call.kind = "none" /\ queue # <<>>
    /\ queue' = Tail(queue)
    /\ LportMessage(Head(queue)) \/ SportMessage(Head(queue))
    /\ UNCHANGED <<table, hw, cache>>

\* The machines decide on their own (LACPDUs and timers, see LacpPort).
Attach(i) ==
    /\ call.kind = "none"
    /\ lports[i].up /\ lports[i].link # 0 /\ lports[i].trunk = 0
    /\ \E id \in LagIds :
          /\ sports[id].state = "set" /\ sports[id].key = lports[i].key
          /\ lports' = [lports EXCEPT ![i].trunk = id]
          /\ call' = Call("attach", i, id)
    /\ UNCHANGED <<table, hw, cache, queue, sports>>

Egress(i) ==
    /\ call.kind = "none" /\ lports[i].trunk # 0 /\ ~lports[i].egress
    /\ lports' = [lports EXCEPT ![i].egress = TRUE]
    /\ call' = Call("egress", i, lports[i].trunk)
    /\ UNCHANGED <<table, hw, cache, queue, sports>>

Detach(i) ==
    /\ call.kind = "none" /\ lports[i].trunk # 0
    /\ Settle(i, Untrunked(lports[i]))
    /\ UNCHANGED <<table, hw, cache, queue>>

\* A mutation: attaching writes the transmit flag.
CallWrites_Swapped ==
    /\ call.at = "write" /\ task.at = "idle"
    /\ hw' = [hw EXCEPT ![call.iface] =
                  IF call.kind = "attach" THEN [@ EXCEPT !.tx = TRUE]
                  ELSE [rx |-> call.kind = "egress", tx |-> FALSE]]
    /\ call' = [call EXCEPT !.at = "report"]
    /\ UNCHANGED <<table, cache, queue, sports, lports>>

\* lacpd_thread_intf_update_hw_bond_config, under ovsdb_mutex.
CallWrites ==
    /\ call.at = "write" /\ task.at = "idle"
    /\ hw' = [hw EXCEPT ![call.iface] =
                  CASE call.kind = "attach" -> [@ EXCEPT !.rx = TRUE]
                    [] call.kind = "egress" -> [@ EXCEPT !.tx = TRUE]
                    [] call.kind = "detach" -> [rx |-> FALSE, tx |-> FALSE]]
    /\ call' = [call EXCEPT !.at = "report"]
    /\ UNCHANGED <<table, cache, queue, sports, lports>>

\* A mutation: the end of an egress call falls through to that of a detach.
CallReports_FallsThrough ==
    /\ call.at = "report" /\ task.at = "idle"
    /\ ports' = [p \in Lags |->
                    IF lag_id[p] # call.lag THEN ports[p]
                    ELSE [ports[p] EXCEPT !.participants =
                             IF call.kind = "attach" THEN @ \cup {call.iface} ELSE @ \ {call.iface}]]
    /\ call' = NoCall
    /\ UNCHANGED <<table, hw, lag_id, pool, ifs, recent, task, queue, sports, lports>>

\* db_add_lag_port and db_delete_lag_port, under ovsdb_mutex.  They also store the
\* negotiated speed, which a static LAG decides anew.  Egress has no report: the call
\* only returns, mutex or not.
CallReports ==
    LET i == call.iface
    IN  /\ call.at = "report" /\ (call.kind = "egress" \/ task.at = "idle")
        /\ ports' = [p \in Lags |->
                        IF lag_id[p] # call.lag THEN ports[p]
                        ELSE CASE call.kind = "attach" -> [ports[p] EXCEPT !.participants = @ \cup {i}]
                               [] call.kind = "detach" -> [ports[p] EXCEPT !.participants = @ \ {i}]
                               [] OTHER -> ports[p]]
        /\ call' = NoCall
        /\ UNCHANGED <<table, hw, lag_id, pool, ifs, recent, task, queue, sports, lports>>

(****************** the administrator and the link layer *******************)

\* A change of rows.  One made during a run is seen by the next, as one made after it.
Edit(command) ==
    /\ command \in Commands /\ budget > 0 /\ task.at = "idle"
    /\ budget' = budget - 1
    /\ UNCHANGED <<hw, cache, queue, proto>>

EditPort(command, p, row) ==
    /\ Edit(command)
    /\ rows[p].present
    /\ rows' = [rows EXCEPT ![p] = row]
    /\ changed' = [changed EXCEPT !.ports = @ \cup {p}]
    /\ UNCHANGED <<keys, links>>

\* A LAG deleted is created again only after lacpd saw the deletion: otherwise
\* its port_data keeps a pointer to the deleted row.
vtysh_intf_link_aggregation(p) ==
    /\ Edit("create")
    /\ ~rows[p].present /\ ~ports[p].cached
    /\ rows' = [rows EXCEPT ![p] = [NoRow EXCEPT !.present = TRUE]]
    /\ changed' = [changed EXCEPT !.ports = @ \cup {p}]
    /\ UNCHANGED <<keys, links>>

\* "prune" is the careful administrator, who deletes a LAG only once lacpd has seen
\* its last member leave.
delete_lag(p) ==
    /\ \/ Edit("delete")
       \/ Edit("prune") /\ rows[p].members = {} /\ ports[p].cfg = {}
    /\ rows[p].present
    /\ rows' = [rows EXCEPT ![p] = NoRow]
    /\ keys' = [i \in Ifaces |-> IF i \in rows[p].members THEN NoLag ELSE keys[i]]
    /\ changed' = [ports |-> changed.ports \cup {p}, ifs |-> changed.ifs \cup rows[p].members]
    /\ UNCHANGED links

lacp_set_mode(p, mode) ==
    /\ mode # rows[p].lacp
    /\ EditPort(IF mode = "off" THEN "off" ELSE "mode", p, [rows[p] EXCEPT !.lacp = mode])

\* The row is looked up by a prefix of its name; here p is the one that is found.
lacp_set_fallback(p) ==
    EditPort("fallback", p, [rows[p] EXCEPT !.fallback = ~@])

lacp_set_heartbeat_rate(p) ==
    EditPort("rate", p, [rows[p] EXCEPT !.fast = ~@])

\* ovs-vsctl; the CLI has no per-LAG system id.
SetSystemId(p, sys) ==
    /\ sys # rows[p].sys
    /\ EditPort("sys", p, [rows[p] EXCEPT !.sys = sys])

\* The interface leaves the LAG it was in, in the same transaction.  The row of a port
\* of its own, which goes too, is not modelled, nor is the limit on members.
lacp_add_intf_to_lag(p, i) ==
    LET left == {q \in Lags \ {p} : i \in rows[q].members}
    IN  /\ Edit("join")
        /\ rows[p].present /\ i \notin rows[p].members
        /\ rows' = [q \in Lags |->
                       IF q = p THEN [rows[q] EXCEPT !.members = @ \cup {i}]
                       ELSE [rows[q] EXCEPT !.members = @ \ {i}]]
        /\ keys' = [keys EXCEPT ![i] = p]
        /\ changed' = [ports |-> changed.ports \cup {p} \cup left, ifs |-> changed.ifs \cup {i}]
        /\ UNCHANGED links

lacp_remove_intf_from_lag(p, i) ==
    /\ Edit("leave")
    /\ i \in rows[p].members
    /\ rows' = [rows EXCEPT ![p].members = @ \ {i}]
    /\ keys' = [keys EXCEPT ![i] = NoLag]
    /\ changed' = [ports |-> changed.ports \cup {p}, ifs |-> changed.ifs \cup {i}]
    /\ UNCHANGED links

LinkChanges(i, link) ==
    /\ Edit("link")
    /\ link # links[i]
    /\ links' = [links EXCEPT ![i] = link]
    /\ changed' = [changed EXCEPT !.ifs = @ \cup {i}]
    /\ UNCHANGED <<rows, keys>>

\* Everything but the rows as lacpd starts; then every row counts as inserted.
Started ==
    /\ ports' = [p \in Lags |-> NoPort] /\ ifs' = [i \in Ifaces |-> NoIface]
    /\ lag_id' = [p \in Lags |-> 0] /\ pool' = {}
    /\ recent' = {} /\ task' = Idle /\ queue' = <<>> /\ call' = NoCall
    /\ sports' = [id \in LagIds |-> NoSport] /\ lports' = [i \in Ifaces |-> NoLport]
    /\ changed' = [ports |-> {p \in Lags : rows[p].present}, ifs |-> Ifaces]

\* lacpd dies at any point and is started again; hw_bond_config stays in OVSDB.
Restart ==
    /\ "restart" \in Commands /\ budget > 0
    /\ budget' = budget - 1
    /\ Started
    /\ UNCHANGED <<rows, keys, links, hw>>

-----------------------------------------------------------------------------

Init ==
    /\ rows \in FirstRows
    /\ keys = [i \in Ifaces |-> LET in == {p \in Lags : i \in rows[p].members}
                                IN  IF in = {} THEN NoLag ELSE CHOOSE p \in in : TRUE]
    /\ links \in [Ifaces -> Speeds \cup {0}]
    /\ hw = [i \in Ifaces |-> [rx |-> FALSE, tx |-> FALSE]]
    /\ budget = MaxCommands
    /\ ports = [p \in Lags |-> NoPort] /\ ifs = [i \in Ifaces |-> NoIface]
    /\ lag_id = [p \in Lags |-> 0] /\ pool = {}
    /\ recent = {} /\ task = Idle /\ queue = <<>> /\ call = NoCall
    /\ sports = [id \in LagIds |-> NoSport] /\ lports = [i \in Ifaces |-> NoLport]
    /\ changed = [ports |-> {p \in Lags : rows[p].present}, ifs |-> Ifaces]

lacpd_run ==
    \/ BeginRun
    \/ \E i \in Ifaces : \/ add_new_interface(i) \/ update_interface(i)
                         \/ RemoveMember(i) \/ MakeIneligible(i)
                         \/ AddMember(i) \/ UpdateMember(i)
    \/ \E p \in Lags : del_old_port(p) \/ add_new_port(p) \/ StartPort(p)
    \/ CompareMode \/ TurnOn \/ SwitchMode \/ TurnOff \/ StartEligible \/ FinishPort
    \/ EndRun

Machines == \E i \in Ifaces : Attach(i) \/ Egress(i) \/ Detach(i)

HardwareCall == CallWrites \/ CallReports

Administration ==
    \/ \E p \in Lags :
          \/ vtysh_intf_link_aggregation(p) \/ delete_lag(p)
          \/ \E mode \in Modes : lacp_set_mode(p, mode)
          \/ lacp_set_fallback(p) \/ lacp_set_heartbeat_rate(p)
          \/ \E sys \in Systems : SetSystemId(p, sys)
          \/ \E i \in Ifaces : lacp_add_intf_to_lag(p, i) \/ lacp_remove_intf_from_lag(p, i)
    \/ \E i \in Ifaces, link \in Speeds \cup {0} : LinkChanges(i, link)
    \/ Restart

Next == lacpd_run \/ Receive \/ Machines \/ HardwareCall \/ Administration

Spec == Init /\ [][Next]_vars

(***************************************************************************)
(* Both threads run.  The protocol thread's next event is the oldest: what *)
(* its machines do on their own are events too, so they cannot keep a      *)
(* message waiting for ever.  Nobody has to edit, attach or detach.        *)
(***************************************************************************)
FairSpec == Spec /\ WF_vars(lacpd_run) /\ WF_vars(HardwareCall) /\ SF_vars(Receive)

(***************************************************************************)
(* The careful administrator.  Some legal sequences of commands leave      *)
(* lacpd with records that disagree for good; CarefulStep excludes three   *)
(* of them, and each is one without which EligibilityAgrees fails.         *)
(***************************************************************************)

\* A LAG is deleted once lacpd has seen its last member leave ("prune"); an interface
\* is added to a LAG lacpd knows, or before it knows any; and one that lacpd still has
\* in a static LAG is not added to another, it leaves first.
CarefulStep ==
    \A p \in Lags :
        /\ rows[p].present /\ ~rows'[p].present => rows[p].members = {} /\ ports[p].cfg = {}
        /\ \A i \in rows'[p].members \ rows[p].members :
              /\ ports[p].cached \/ \A q \in Lags : ~ports[q].cached
              /\ \A q \in Lags \ {p} : i \in ports[q].cfg => IsDynamic(ports[q])

\* An interface is in one LAG at most, and a row that is not there has no members.
RowsApart ==
    \A p \in Lags :
        /\ ~rows[p].present => rows[p].members = {}
        /\ \A q \in Lags : p # q => rows[p].members \cap rows[q].members = {}

\* The specification under a careful administrator, whose first rows are apart too.
CarefulSpec == Spec /\ RowsApart /\ [][CarefulStep]_vars

-----------------------------------------------------------------------------
(******************************* properties ********************************)

Flags  == [rx : BOOLEAN, tx : BOOLEAN]
Lport  == [up : BOOLEAN, key : Nat, active : BOOLEAN, fast : BOOLEAN, link : Nat,
           sys : Systems, fallback : BOOLEAN, trunk : 0..MaxLagId, egress : BOOLEAN]
Iface  == [cached : BOOLEAN, port : Lags \cup {NoLag}, eligible : BOOLEAN, enabled : BOOLEAN,
           key : Nat, active : BOOLEAN, fast : BOOLEAN, link : Nat]
LagPort == [cached : BOOLEAN, mode : Modes, cfg : SUBSET Ifaces, eligible : SUBSET Ifaces,
            participants : SUBSET Ifaces, speed : Nat, fallback : BOOLEAN, fast : BOOLEAN,
            sys : Systems]
Task   == [at : {"idle", "run", "removed", "mode", "added", "eligible"}, ports : SUBSET Lags,
           members : SUBSET Ifaces, port : Lags \cup {NoLag}, switched : BOOLEAN,
           moded : BOOLEAN, timed : BOOLEAN]

TypeOK ==
    /\ rows \in [Lags -> Row] /\ keys \in [Ifaces -> Lags \cup {NoLag}]
    /\ links \in [Ifaces -> Speeds \cup {0}] /\ budget \in 0..MaxCommands
    /\ changed \in [ports : SUBSET Lags, ifs : SUBSET Ifaces]
    /\ hw \in [Ifaces -> Flags]
    /\ ports \in [Lags -> LagPort] /\ ifs \in [Ifaces -> Iface]
    /\ lag_id \in [Lags -> 0..MaxLagId] /\ pool \subseteq LagIds
    /\ recent \subseteq Ifaces /\ task \in Task
    /\ lports \in [Ifaces -> Lport]
    /\ sports \in [LagIds -> [state : {"none", "new", "set", "freed"}, key : Nat]]
    /\ call \in [kind : {"none", "attach", "egress", "detach"},
                 iface : Ifaces \cup {NoLag}, lag : 0..MaxLagId, allowed : BOOLEAN,
                 at : {"write", "report", "done"}]

\* The protocol thread refers to LAGs by id alone: no two LAGs share one, and an
\* id is in use exactly while a LAG has it, whatever is created, deleted and
\* converted (alloc_lag_id, free_lag_id).
LagIdsAreExclusive ==
    /\ pool = {lag_id[p] : p \in Lags} \ {0}
    /\ \A p, q \in Lags : lag_id[p] = lag_id[q] /\ lag_id[p] # 0 => p = q
    /\ \A p \in Lags : lag_id[p] # 0 => IsDynamic(ports[p])

\* The queue keeps the life of an id in order: a super port is created when there
\* is none of its id, configured when it is new and deleted when it exists, also
\* when an id goes to another LAG while its old super port's end is still queued.
SportMessagesFit ==
    queue # <<>> => LET m == Head(queue)
                    IN  /\ m.type = "create" => sports[m.lag].state \in {"none", "freed"}
                        /\ m.type = "params" => sports[m.lag].state = "new"
                        /\ m.type = "unparams" => sports[m.lag].state = "set"
                        /\ m.type = "delete" => sports[m.lag].state \in {"new", "set"}

\* Nothing is under way.
Quiet ==
    /\ changed.ports = {} /\ changed.ifs = {} /\ task.at = "idle"
    /\ queue = <<>> /\ call.kind = "none"

Dynamic(p) == rows[p].present /\ rows[p].lacp # "off"
Home(i)    == {p \in Lags : rows[p].present /\ i \in rows[p].members}

\* LACP runs on i exactly as OVSDB says.
RunsAsRow(i) ==
    LET l == lports[i]
    IN  /\ l.up <=> \E p \in Home(i) : Dynamic(p)
        /\ \A p \in Home(i) : Dynamic(p) =>
              /\ l.key = keys[i] /\ l.link = links[i]
              /\ l.active = (rows[p].lacp = "active") /\ l.fast = rows[p].fast
              /\ l.sys = rows[p].sys
              /\ lag_id[p] # 0 => sports[lag_id[p]] = [state |-> "set", key |-> p]

\* Under a careful administrator: once both threads have nothing left to do, LACP runs
\* on exactly the members of dynamic LAGs, with the key, mode, rate, link and system id
\* of the rows.  The messages are sent as differences between caches and rows, a few
\* fields each, so an omitted or misordered one stays wrong for good.
RunsAsConfigured == Quiet => \A i \in Ifaces : RunsAsRow(i)

\* Under a careful administrator: a port never keeps fallback its LAG no longer has.
\* (It may lack fallback its LAG has: every initialization clears it.)
FallbackIsAllowed ==
    Quiet => \A i \in Ifaces : lports[i].fallback =>
                \E p \in Home(i) : Dynamic(p) /\ rows[p].fallback

\* Under a careful administrator: a port the machines have in a trunk of its LAG is
\* enabled in hw_bond_config, and so is its egress, although two threads write it and
\* one decides by a flag it reads without the mutex: a request refused because the flag
\* was down is made again (ops_attach_port_in_hw, ops_trunk_port_egr_enable).
HardwareServesTrunk ==
    Quiet => \A i \in Ifaces : (\E p \in Home(i) : Dynamic(p)) =>
                /\ lports[i].trunk # 0 => hw[i].rx
                /\ lports[i].egress => hw[i].tx


\* Under a careful administrator: every port in the trunk of a dynamic LAG at rest is
\* among its participants, although they are recorded by the id of the call, after the
\* write and under the mutex taken anew, when the id may be another LAG's
\* (db_add_lag_port, db_delete_lag_port).  The converse fails: a detach reported when
\* the LAG has lost its id leaves the participant in the list.
AttachedAreParticipants ==
    Quiet => \A p \in Lags : Dynamic(p) /\ lag_id[p] # 0 =>
                InTrunk(lag_id[p]) \subseteq ports[p].participants

\* Under a careful administrator: the two records of eligibility, the interface's flag
\* and the LAGs' sets, agree between runs, in whatever order a hash map yields the LAG
\* an interface leaves and the one it joins.
EligibilityAgrees ==
    task.at = "idle" => \A i \in Ifaces : \A p \in Lags :
        i \in ports[p].eligible <=> ifs[i].eligible /\ ifs[i].port = p

\* Under a careful administrator: whatever happened before, once the rows stay as they
\* are, LACP comes to run as they say and keeps doing so.
ComesToRun == <>[](\A i \in Ifaces : RunsAsRow(i))

-----------------------------------------------------------------------------
(************** statements of the repository the code departs from **********)

\* ovsdb_if.c:2807, in ops_detach_port_in_hw: "Probably just a race condition
\* between static <-> dynamic LAG conversion.  Ignore the request."  The members of
\* a static LAG are enabled as their eligibility says.
StaticIsLeftAlone ==
    Quiet => \A p \in Lags : rows[p].present /\ rows[p].lacp = "off" =>
        \A i \in rows[p].members :
            hw[i] = [rx |-> i \in ports[p].eligible, tx |-> i \in ports[p].eligible]

\* ovsdb_if.c:2048, in del_old_port: "There is no need to update eligibility if we
\* are deleting a LAG port."  No interface without a LAG runs LACP.
LacpEndsWithLag ==
    Quiet => \A i \in Ifaces : lports[i].up => Home(i) # {}
=============================================================================

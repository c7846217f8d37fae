---------------------------- MODULE ConfigProofs ----------------------------
(***************************************************************************)
(* What holds of the two threads for any number of LAGs, interfaces and    *)
(* LAG ids, any commands and any number of them.  First, the ids stay      *)
(* exclusive, and a port of the protocol thread is a TrunkPort: this needs *)
(* to know little of the caches (that only a change of mode changes a      *)
(* mode), so no step is followed in detail but those that allocate and     *)
(* free ids.  Then types, and the life of the super ports.  LAG ids are    *)
(* given again at once, while the messages about their last use wait in    *)
(* the queue: SportMessagesFit needs to know of every message behind the   *)
(* first, and Order says it as a path of stages along the queue.           *)
(***************************************************************************)
EXTENDS MCConfigThread, WellFoundedInduction, SequenceTheorems, FiniteSetTheorems, TLAPS

StateFields == {"ports", "ifs", "hw", "queue"}
PortFields  == {"cached", "mode", "cfg", "eligible", "participants", "speed", "fallback",
                "fast", "sys"}
TaskFields  == {"at", "ports", "members", "port", "switched", "moded", "timed"}

\* r is a record with the fields F, of any type.
IsRecord(r, F) == r = [f \in F |-> r[f]]

\* P is a cache of LAGs as far as the fields go.
IsPorts(P) ==
    /\ P = [p \in Lags |-> P[p]]
    /\ \A p \in Lags : IsRecord(P[p], PortFields)

\* P and Q know the same LAGs, in the same modes.
SameModes(P, Q) ==
    /\ IsPorts(Q)
    /\ \A p \in Lags : Q[p].mode = P[p].mode /\ Q[p].cached = P[p].cached

IsState(S) == IsRecord(S, StateFields) /\ IsPorts(S.ports)

\* What eligibility does to a state.
Keeps(S, T) == IsState(T) /\ SameModes(S.ports, T.ports)

\* The state a handler starts from is one, when the LAGs are typed.
LEMMA StateIsState == IsPorts(ports) => IsState(State)
  BY DEF IsState, IsRecord, State, StateFields

\* What two changes keep, the two in a row keep.
LEMMA KeepsTransitive ==
    ASSUME NEW R, NEW S, NEW T, Keeps(R, S), Keeps(S, T) PROVE Keeps(R, T)
  BY DEF Keeps, SameModes

\* No change keeps everything.
LEMMA KeepsReflexive == ASSUME NEW S, IsState(S) PROVE Keeps(S, S)
  BY DEF Keeps, SameModes, IsState

\* A state changes in one of its fields.
LEMMA KeepsField ==
    ASSUME NEW S, IsState(S), NEW f \in {"ifs", "hw", "queue"}, NEW v
    PROVE  Keeps(S, [S EXCEPT ![f] = v])
<1>. DEFINE T == [S EXCEPT ![f] = v]
<1>1. IsRecord(T, StateFields)
  BY DEF IsState, IsRecord, StateFields
<1>2. T.ports = S.ports
  BY DEF IsState, IsRecord, StateFields
<1>. QED
  BY <1>1, <1>2 DEF Keeps, IsState, SameModes

\* A LAG changes in a field that is neither its mode nor its presence.
LEMMA KeepsPort ==
    ASSUME NEW P, IsPorts(P), NEW p, NEW f \in PortFields \ {"mode", "cached"}, NEW v
    PROVE  SameModes(P, [P EXCEPT ![p] = [P[p] EXCEPT ![f] = v]])
<1>. DEFINE Q == [P EXCEPT ![p] = [P[p] EXCEPT ![f] = v]]
<1>1. Q = [q \in Lags |-> Q[q]]
  BY DEF IsPorts
<1>2. ASSUME NEW q \in Lags
      PROVE  IsRecord(Q[q], PortFields) /\ Q[q].mode = P[q].mode /\ Q[q].cached = P[q].cached
  <2>1. CASE q # p
    BY <2>1 DEF IsPorts
  <2>2. CASE q = p
    <3>1. Q[q] = [P[p] EXCEPT ![f] = v]
      BY <2>2 DEF IsPorts
    <3>2. P[p] = [g \in PortFields |-> P[p][g]]
      BY <2>2 DEF IsPorts, IsRecord
    <3>. QED
      BY <2>2, <3>1, <3>2 DEF IsRecord, PortFields
  <2>. QED
    BY <2>1, <2>2
<1>. QED
  BY <1>1, <1>2 DEF SameModes, IsPorts

\* A change of all_ports that keeps the modes.
LEMMA KeepsPorts ==
    ASSUME NEW S, IsState(S), NEW Q, SameModes(S.ports, Q)
    PROVE  Keeps(S, [S EXCEPT !.ports = Q])
  BY DEF Keeps, IsState, IsRecord, StateFields, SameModes

\* A message to the protocol thread changes no LAG.
LEMMA SendKeeps == ASSUME NEW S, IsState(S), NEW m PROVE Keeps(S, Send(S, m))
  BY KeepsField DEF Send

\* Two fields at once.
LEMMA KeepsBoth ==
    ASSUME NEW S, IsState(S), NEW F, NEW Q, SameModes(S.ports, Q)
    PROVE  Keeps(S, [S EXCEPT !.ifs = F, !.ports = Q])
<1>. DEFINE T == [S EXCEPT !.ifs = F, !.ports = Q]
<1>1. S = [f \in StateFields |-> S[f]]
  BY DEF IsState, IsRecord
<1>2. T = [f \in StateFields |-> IF f = "ports" THEN Q ELSE IF f = "ifs" THEN F ELSE S[f]]
  BY <1>1 DEF StateFields
<1>3. T.ports = Q
  BY <1>2 DEF StateFields
<1>4. IsRecord(T, StateFields)
  <2>. DEFINE g == [f \in StateFields |-> IF f = "ports" THEN Q ELSE IF f = "ifs" THEN F ELSE S[f]]
  <2>1. g = [f \in StateFields |-> g[f]]
    OBVIOUS
  <2>. QED
    BY <1>2, <2>1 DEF IsRecord
<1>. QED
  BY <1>3, <1>4 DEF Keeps, IsState, SameModes

\* set_interface_lag_eligibility moves a member, not a mode.
LEMMA SetEligibilityKeeps ==
    ASSUME NEW S, IsState(S), NEW p, NEW i, NEW e
    PROVE  Keeps(S, set_interface_lag_eligibility(S, p, i, e))
<1>. DEFINE P == S.ports[p]
            T == [S EXCEPT !.ifs[i] = IF IsDynamic(P)
                                      THEN [@ EXCEPT !.enabled = e, !.fast = P.fast,
                                                     !.active = P.mode = "active"]
                                      ELSE @,
                           !.hw[i] = IF IsDynamic(P) /\ e THEN @
                                     ELSE [rx |-> e, tx |-> e]]
            U == IF IsDynamic(P) /\ (i \in P.cfg \/ i \notin recent)
                 THEN Send(T, <<ConfigLport(T, i)>>) ELSE T
            V == [U EXCEPT !.ifs[i].eligible = e,
                           !.ports[p].eligible = IF e THEN @ \cup {i} ELSE @ \ {i}]
<1>1. IsRecord(T, StateFields) /\ T.ports = S.ports
  BY DEF IsState, IsRecord, StateFields
<1>2. IsState(T)
  BY <1>1 DEF IsState
<1>3. IsState(U) /\ U.ports = S.ports
  <2>. HIDE DEF T
  <2>. QED
    BY <1>1, <1>2 DEF IsState, Send, IsRecord, StateFields
<1>4. Keeps(U, V)
  <2>. HIDE DEF U
  <2>. DEFINE s == IF e THEN U.ports[p].eligible \cup {i} ELSE U.ports[p].eligible \ {i}
              Q == [U.ports EXCEPT ![p] = [U.ports[p] EXCEPT !["eligible"] = s]]
              F == [U.ifs EXCEPT ![i] = [U.ifs[i] EXCEPT !["eligible"] = e]]
  <2>1. V = [U EXCEPT !.ifs = F, !.ports = Q]
    OBVIOUS
  <2>2. SameModes(U.ports, Q)
    <3>. HIDE DEF s
    <3>. QED
      BY <1>3, KeepsPort DEF IsState, PortFields
  <2>. HIDE DEF Q, F
  <2>. QED
    BY <1>3, <2>1, <2>2, KeepsBoth
<1>5. Keeps(S, V)
  BY <1>3, <1>4 DEF Keeps, SameModes
<1>. QED
  BY <1>5, KeepsReflexive DEF set_interface_lag_eligibility

\* update_interface_lag_eligibility neither.
LEMMA UpdateEligibilityKeeps ==
    ASSUME NEW S, IsState(S), NEW i
    PROVE  Keeps(S, update_interface_lag_eligibility(S, i))
<1>. DEFINE p == S.ifs[i].port
            T == [S EXCEPT !.ports[p].speed = lag_member_speed(S, i),
                           !.ifs[i].key = IF @ = NoLag THEN lag_id[p] ELSE @]
<1>1. Keeps(S, T)
  <2>. DEFINE v == lag_member_speed(S, i)
              Q == [S.ports EXCEPT ![p] = [S.ports[p] EXCEPT !["speed"] = v]]
              F == [S.ifs EXCEPT ![i] = [S.ifs[i] EXCEPT !["key"] =
                        IF S.ifs[i].key = NoLag THEN lag_id[p] ELSE S.ifs[i].key]]
  <2>1. T = [S EXCEPT !.ifs = F, !.ports = Q]
    OBVIOUS
  <2>2. SameModes(S.ports, Q)
    <3>. HIDE DEF v, p
    <3>. QED
      BY KeepsPort DEF IsState, PortFields
  <2>. HIDE DEF Q, F
  <2>. QED
    BY <2>1, <2>2, KeepsBoth
<1>2. Keeps(S, set_interface_lag_eligibility(T, p, i, new_eligible(S, i)))
  <2>1. Keeps(T, set_interface_lag_eligibility(T, p, i, new_eligible(S, i)))
    BY <1>1, SetEligibilityKeeps DEF Keeps
  <2>. QED
    BY <1>1, <2>1, KeepsTransitive
<1>. QED
  BY <1>1, <1>2, KeepsReflexive DEF update_interface_lag_eligibility

\* What keeps the modes as a pure change keeps them as a step.
LEMMA BecomesKeeps ==
    ASSUME NEW S, Keeps(State, S), Becomes(S) PROVE SameModes(ports, ports')
  BY DEF Becomes, Keeps, State

-----------------------------------------------------------------------------

PortSteps == {"removed", "mode", "added", "eligible"}

\* The inductive invariant: a run that changes the mode of a LAG does change it, and
\* a LAG without an entry in all_ports has no mode.
LagInv ==
    /\ IsPorts(ports) /\ IsRecord(task, TaskFields)
    /\ lag_id \in [Lags -> 0..MaxLagId]
    /\ LagIdsAreExclusive
    /\ \A p \in Lags : ports[p].mode # "off" => ports[p].cached
    /\ task.at # "idle" => \A p \in Lags : p \in task.ports => rows[p].present
    /\ task.at \in PortSteps => task.port \in Lags /\ ports[task.port].cached
    /\ task.at = "mode" => rows[task.port].lacp # ports[task.port].mode

\* A step that changes no mode and no id.
Steady ==
    /\ SameModes(ports, ports')
    /\ UNCHANGED <<lag_id, pool>>

\* A step that keeps modes, ids and pool keeps the ids exclusive.
LEMMA SteadyKeepsIds ==
    ASSUME LagInv, Steady
    PROVE  /\ IsPorts(ports') /\ lag_id' \in [Lags -> 0..MaxLagId]
           /\ LagIdsAreExclusive'
           /\ \A p \in Lags : ports'[p].mode # "off" => ports'[p].cached
  BY DEF LagInv, Steady, SameModes, LagIdsAreExclusive, IsDynamic

\* The run of lacpd_run goes on, or there is none.
LEMMA SteadyRun ==
    ASSUME LagInv, Steady, UNCHANGED rows, IsRecord(task', TaskFields),
           task'.at = "idle" \/ (task.at # "idle" /\ task'.ports \subseteq task.ports),
           task'.at \in PortSteps => task.at \in PortSteps /\ task'.port = task.port,
           task'.at = "mode" => task.at = "mode"
    PROVE  LagInv'
  BY SteadyKeepsIds DEF LagInv, Steady, SameModes, PortSteps

\* A step that leaves the rows and the run alone.
LEMMA SteadyTask ==
    ASSUME LagInv, Steady, UNCHANGED <<rows, task>> PROVE LagInv'
  BY SteadyKeepsIds DEF LagInv, Steady, SameModes, PortSteps

\* The rows change while no run is on.
LEMMA SteadyEdit ==
    ASSUME LagInv, Steady, UNCHANGED task, task.at = "idle" PROVE LagInv'
  BY SteadyKeepsIds DEF LagInv, PortSteps

\* An unchanged all_ports has the same modes.
LEMMA PortsKept == IsPorts(ports) /\ UNCHANGED ports => SameModes(ports, ports')
  BY DEF SameModes

\* A walk over the members.
LEMMA WalkRun ==
    ASSUME LagInv, Steady, UNCHANGED rows, NEW at \in {"run"} \cup PortSteps, NEW i, Walk(at, i)
    PROVE  LagInv'
<1>1. /\ IsRecord(task', TaskFields) /\ task'.at = task.at /\ task'.ports = task.ports
      /\ task'.port = task.port /\ task.at # "idle"
  BY DEF Walk, LagInv, IsRecord, TaskFields, PortSteps
<1>. QED
  BY <1>1, SteadyRun

-----------------------------------------------------------------------------
(* The steps of lacpd_run that change no mode. *)

\* A run of lacpd_run begins or ends.
LEMMA RunSteps ==
    ASSUME LagInv, BeginRun \/ EndRun PROVE LagInv'
<1>1. Steady /\ UNCHANGED rows
  BY PortsKept DEF BeginRun, EndRun, LagInv, Steady, table
<1>2. CASE BeginRun
  <2>1. /\ task' = [at |-> "run", ports |-> {p \in changed.ports : rows[p].present},
                    members |-> changed.ifs, port |-> NoLag, switched |-> FALSE,
                    moded |-> FALSE, timed |-> FALSE]
    BY <1>2 DEF BeginRun, Idle
  <2>2. IsRecord(task', TaskFields)
    BY <2>1 DEF IsRecord, TaskFields
  <2>3. /\ task'.at = "run" /\ \A p \in Lags : p \in task'.ports => rows'[p].present
    BY <1>1, <2>1
  <2>. QED
    BY <1>1, <2>2, <2>3, SteadyKeepsIds DEF LagInv, PortSteps
<1>3. CASE EndRun
  <2>1. task' = Idle /\ IsRecord(task', TaskFields) /\ task'.at = "idle"
    BY <1>3 DEF EndRun, Idle, IsRecord, TaskFields
  <2>. QED
    BY <1>1, <2>1, SteadyRun DEF PortSteps
<1>. QED
  BY <1>2, <1>3

\* lacpd_reconfigure: the pass over the interfaces.
LEMMA InterfaceSteps ==
    ASSUME LagInv, NEW i \in Ifaces, add_new_interface(i) \/ update_interface(i)
    PROVE  LagInv'
<1>1. CASE add_new_interface(i)
  <2>1. Steady /\ UNCHANGED rows /\ Walk("run", i)
    BY <1>1, PortsKept DEF add_new_interface, LagInv, Steady, table
  <2>. QED
    BY <2>1, WalkRun
<1>2. CASE update_interface(i)
  <2>. DEFINE A == State
              K == [A EXCEPT !.ifs[i].key = keys[i]]
              B == IF keys[i] \notin {NoLag, ifs[i].key}
                   THEN Send(K, <<ConfigLport(K, i)>>) ELSE A
              p == ifs[i].port
              C == [B EXCEPT !.ifs[i].link = links[i]]
              D == update_interface_lag_eligibility(C, i)
              E == IF ~EligibilityChanges(C, i) /\ p # NoLag /\ D.ifs[i].eligible
                      /\ IsDynamic(D.ports[p])
                   THEN Send(D, <<LinkChange(D.ifs[i], i), LportChange(D.ifs[i], i)>>) ELSE D
  <2>1. IsState(A)
    BY StateIsState DEF LagInv
  <2>2. Keeps(A, K)
    <3>. HIDE DEF A
    <3>1. K = [A EXCEPT !["ifs"] = [A.ifs EXCEPT ![i] = [A.ifs[i] EXCEPT !["key"] = keys[i]]]]
      OBVIOUS
    <3>. QED
      BY <2>1, <3>1, KeepsField
  <2>3. Keeps(A, B)
    <3>. HIDE DEF K
    <3>1. Keeps(K, Send(K, <<ConfigLport(K, i)>>))
      BY <2>2, SendKeeps DEF Keeps
    <3>. QED
      BY <2>1, <2>2, <3>1, KeepsTransitive, KeepsReflexive
  <2>4. Keeps(A, C)
    <3>. HIDE DEF B
    <3>1. C = [B EXCEPT !["ifs"] = [B.ifs EXCEPT ![i] = [B.ifs[i] EXCEPT !["link"] = links[i]]]]
      OBVIOUS
    <3>2. Keeps(B, C)
      BY <2>3, <3>1, KeepsField DEF Keeps
    <3>. QED
      BY <2>3, <3>2, KeepsTransitive
  <2>5. Keeps(A, D)
    <3>. HIDE DEF C
    <3>. QED
      BY <2>4, UpdateEligibilityKeeps, KeepsTransitive DEF Keeps
  <2>6. Keeps(A, E)
    <3>. HIDE DEF C, D
    <3>. QED
      BY <2>5, SendKeeps, KeepsTransitive DEF Keeps
  <2>7. SameModes(ports, ports') /\ Walk("run", i) /\ UNCHANGED <<lag_id, pool, rows>>
    <3>1. Becomes(IF links[i] # ifs[i].link THEN E ELSE B)
      BY <1>2 DEF update_interface
    <3>. HIDE DEF A, B, E
    <3>2. SameModes(ports, ports')
      BY <2>3, <2>6, <3>1, BecomesKeeps DEF A
    <3>. QED
      BY <1>2, <3>2 DEF update_interface, table
  <2>. QED
    BY <2>7, WalkRun DEF Steady
<1>. QED
  BY <1>1, <1>2

\* handle_port_config: the members that left, joined and stayed.
LEMMA MemberSteps ==
    ASSUME LagInv, NEW i \in Ifaces,
           RemoveMember(i) \/ MakeIneligible(i) \/ AddMember(i) \/ UpdateMember(i)
    PROVE  LagInv'
<1>0. IsPorts(ports) /\ IsState(State)
  BY StateIsState DEF LagInv
<1>1. CASE RemoveMember(i)
  <2>. DEFINE p == task.port
              Kept(S) == IF i \in recent THEN update_interface_lag_eligibility(S, i)
                         ELSE Send([S EXCEPT !.ifs[i].port = NoLag], <<Overrides(i, "default")>>)
              S == set_interface_lag_eligibility(State, p, i, FALSE)
              T == Kept(S)
              U == [T EXCEPT !.ports[p].cfg = @ \ {i}]
  <2>1. Becomes(U) /\ Walk("removed", i) /\ UNCHANGED <<lag_id, pool, rows>>
    BY <1>1 DEF RemoveMember, table
  <2>2. Keeps(State, S)
    BY <1>0, SetEligibilityKeeps
  <2>3. Keeps(S, T)
    <3>. HIDE DEF S
    <3>. DEFINE R == [S EXCEPT !.ifs[i].port = NoLag]
    <3>1. IsState(S)
      BY <2>2 DEF Keeps
    <3>2. R = [S EXCEPT !["ifs"] = [S.ifs EXCEPT ![i] = [S.ifs[i] EXCEPT !["port"] = NoLag]]]
      OBVIOUS
    <3>3. Keeps(S, R)
      BY <3>1, <3>2, KeepsField
    <3>. HIDE DEF R
    <3>4. Keeps(S, Send(R, <<Overrides(i, "default")>>))
      BY <3>3, SendKeeps, KeepsTransitive DEF Keeps
    <3>. QED
      BY <3>1, <3>4, UpdateEligibilityKeeps DEF R
  <2>4. Keeps(T, U)
    <3>. HIDE DEF T, p
    <3>. DEFINE Q == [T.ports EXCEPT ![p] = [T.ports[p] EXCEPT !["cfg"] = T.ports[p].cfg \ {i}]]
    <3>1. U = [T EXCEPT !.ports = Q]
      OBVIOUS
    <3>2. IsState(T) /\ SameModes(T.ports, Q)
      BY <2>3, KeepsPort DEF Keeps, IsState, PortFields
    <3>. HIDE DEF Q
    <3>. QED
      BY <3>1, <3>2, KeepsPorts
  <2>. HIDE DEF S, T, U
  <2>5. SameModes(ports, ports')
    BY <2>1, <2>2, <2>3, <2>4, KeepsTransitive, BecomesKeeps
  <2>. QED
    BY <2>1, <2>5, WalkRun DEF Steady, PortSteps
<1>2. CASE MakeIneligible(i)
  <2>1. /\ Becomes(set_interface_lag_eligibility(State, task.port, i, FALSE))
        /\ Walk("mode", i) /\ UNCHANGED <<lag_id, pool, rows>>
    BY <1>2 DEF MakeIneligible, table
  <2>2. SameModes(ports, ports')
    BY <1>0, <2>1, SetEligibilityKeeps, BecomesKeeps
  <2>. QED
    BY <2>1, <2>2, WalkRun DEF Steady, PortSteps
<1>3. CASE AddMember(i)
  <2>. DEFINE p == task.port
  <2>1. /\ ports' = [ports EXCEPT ![p] = [ports[p] EXCEPT !["cfg"] = ports[p].cfg \cup {i}]]
        /\ Walk("added", i) /\ UNCHANGED <<lag_id, pool, rows>>
    BY <1>3 DEF AddMember, table
  <2>2. SameModes(ports, ports')
    <3>. HIDE DEF p
    <3>. QED
      BY <1>0, <2>1, KeepsPort DEF PortFields
  <2>. QED
    BY <2>1, <2>2, WalkRun DEF Steady, PortSteps
<1>4. CASE UpdateMember(i)
  <2>. DEFINE A == State
              F == [A EXCEPT !.ifs[i].fast = ports[task.port].fast]
              B == IF task.switched THEN Send(A, <<ConfigLport(A, i)>>)
                   ELSE IF task.timed THEN Send(F, <<LportChange(F.ifs[i], i)>>) ELSE A
  <2>1. /\ Becomes(update_interface_lag_eligibility(B, i))
        /\ Walk("eligible", i) /\ UNCHANGED <<lag_id, pool, rows>>
    BY <1>4 DEF UpdateMember, table
  <2>2. Keeps(A, B)
    <3>. HIDE DEF A
    <3>1. IsState(A)
      BY <1>0 DEF A
    <3>2. F = [A EXCEPT !["ifs"] = [A.ifs EXCEPT ![i] =
                              [A.ifs[i] EXCEPT !["fast"] = ports[task.port].fast]]]
      OBVIOUS
    <3>3. Keeps(A, F)
      BY <3>1, <3>2, KeepsField
    <3>. HIDE DEF F
    <3>4. Keeps(A, Send(F, <<LportChange(F.ifs[i], i)>>))
      BY <3>3, SendKeeps, KeepsTransitive DEF Keeps
    <3>. QED
      BY <3>1, <3>4, SendKeeps, KeepsReflexive
  <2>. HIDE DEF B
  <2>3. Keeps(A, update_interface_lag_eligibility(B, i))
    BY <2>2, UpdateEligibilityKeeps, KeepsTransitive DEF Keeps
  <2>4. SameModes(ports, ports')
    BY <2>1, <2>3, BecomesKeeps
  <2>. QED
    BY <2>1, <2>4, WalkRun DEF Steady, PortSteps
<1>. QED
  BY <1>1, <1>2, <1>3, <1>4

\* handle_port_config starts on one LAG.
LEMMA PortStarts == ASSUME LagInv, NEW p \in Lags, StartPort(p) PROVE LagInv'
<1>1. /\ ports' = [ports EXCEPT ![p] = [ports[p] EXCEPT !["fast"] = rows[p].fast]]
      /\ UNCHANGED <<lag_id, pool, rows>>
  BY DEF StartPort, table
<1>2. Steady
  BY <1>1, KeepsPort DEF Steady, LagInv, PortFields
<1>3. /\ IsRecord(task', TaskFields) /\ task'.at = "removed" /\ task'.port = p
      /\ task'.ports = task.ports \ {p} /\ task.at # "idle"
  BY DEF StartPort, LagInv, IsRecord, TaskFields
<1>4. ports[p].cached
  BY DEF StartPort, LagInv, Added
<1>. QED
  BY <1>1, <1>2, <1>3, <1>4, SteadyKeepsIds DEF LagInv, Steady, SameModes, PortSteps

\* The pass goes on to the members that are new.
LEMMA ToAddedTask ==
    ASSUME LagInv, NEW p, NEW b, NEW c, task' = ToAdded(p, b, c)
    PROVE  /\ IsRecord(task', TaskFields) /\ task'.at = "added"
           /\ task'.ports = task.ports /\ task'.port = task.port
  BY DEF ToAdded, LagInv, IsRecord, TaskFields

\* handle_port_config: the mode compared, the eligibility pass started, the LAG done.
LEMMA PortGoesOn == ASSUME LagInv, CompareMode \/ StartEligible \/ FinishPort PROVE LagInv'
<1>1. CASE CompareMode
  <2>1. Steady /\ UNCHANGED rows /\ task.at = "removed"
    BY <1>1, PortsKept DEF CompareMode, LagInv, Steady, table
  <2>2. CASE rows[task.port].lacp = ports[task.port].mode
    <3>1. task' = ToAdded(task.port, FALSE, FALSE)
      BY <1>1, <2>2 DEF CompareMode
    <3>. QED
      BY <2>1, <3>1, ToAddedTask, SteadyRun DEF PortSteps
  <2>3. CASE rows[task.port].lacp # ports[task.port].mode
    <3>1. task' = [task EXCEPT !.at = "mode", !.members = ports[task.port].eligible]
      BY <1>1, <2>3 DEF CompareMode
    <3>2. /\ IsRecord(task', TaskFields) /\ task'.at = "mode"
          /\ task'.ports = task.ports /\ task'.port = task.port
      BY <3>1 DEF LagInv, IsRecord, TaskFields
    <3>. QED
      BY <2>1, <2>3, <3>2, SteadyKeepsIds DEF LagInv, Steady, SameModes, PortSteps
  <2>. QED
    BY <2>2, <2>3
<1>2. CASE StartEligible
  <2>1. Steady /\ UNCHANGED rows /\ task.at = "added"
    BY <1>2, PortsKept DEF StartEligible, LagInv, Steady, table
  <2>2. /\ IsRecord(task', TaskFields) /\ task'.at = "eligible"
        /\ task'.ports = task.ports /\ task'.port = task.port
    BY <1>2 DEF StartEligible, LagInv, IsRecord, TaskFields
  <2>. QED
    BY <2>1, <2>2, SteadyRun DEF PortSteps
<1>3. CASE FinishPort
  <2>. DEFINE p == task.port
              P == ports[p]
              R == rows[p]
              toSys  == R.lacp # "off" /\ R.sys # P.sys
              toFall == R.lacp # "off" /\ (R.fallback # P.fallback \/ task.moded)
              s == IF toSys THEN R.sys ELSE P.sys
              f == IF toFall THEN R.fallback ELSE P.fallback
              Q == [ports EXCEPT ![p] = [ports[p] EXCEPT !["sys"] = s]]
  <2>1. ports' = [ports EXCEPT ![p] = [[ports[p] EXCEPT !["sys"] = s] EXCEPT !["fallback"] = f]]
    BY <1>3 DEF FinishPort, LagInv, IsPorts
  <2>2. SameModes(ports, Q)
    <3>. HIDE DEF s, p
    <3>. QED
      BY KeepsPort DEF LagInv, PortFields
  <2>3. ports' = [Q EXCEPT ![p] = [Q[p] EXCEPT !["fallback"] = f]]
    <3>. HIDE DEF s, f
    <3>. QED
      BY <1>3, <2>1 DEF LagInv, IsPorts, PortSteps, FinishPort
  <2>4. SameModes(Q, ports')
    <3>. HIDE DEF Q, f, p
    <3>1. IsPorts(Q) /\ "fallback" \in PortFields \ {"mode", "cached"}
      BY <2>2 DEF SameModes, PortFields
    <3>2. SameModes(Q, [Q EXCEPT ![p] = [Q[p] EXCEPT !["fallback"] = f]])
      BY <3>1, KeepsPort
    <3>. QED
      BY <2>3, <3>2
  <2>5. Steady /\ UNCHANGED rows /\ task.at = "eligible"
    <3>. HIDE DEF Q
    <3>. QED
      BY <1>3, <2>2, <2>4 DEF FinishPort, SameModes, Steady, table
  <2>6. IsRecord(task', TaskFields) /\ task'.at = "run" /\ task'.ports = task.ports
    BY <1>3 DEF FinishPort, Idle, IsRecord, TaskFields
  <2>. QED
    BY <2>5, <2>6, SteadyRun DEF PortSteps
<1>. QED
  BY <1>1, <1>2, <1>3

-----------------------------------------------------------------------------
(* The steps that change modes or ids. *)

\* A set of ids that is not empty has a least one.
LEMMA Least ==
    ASSUME NEW T, T \subseteq Nat, T # {} PROVE \E x \in T : \A y \in T : x <= y
<1>. DEFINE R == {ss \in Nat \X Nat : ss[1] < ss[2]}
<1>1. IsWellFoundedOn(R, Nat)
  BY NatLessThanWellFounded DEF OpToRel
<1>2. PICK x \in T : \A y \in T : ~(<<y, x>> \in R)
  <2>. HIDE DEF R
  <2>. QED
    BY <1>1, WFMin, Zenon
<1>3. ASSUME NEW y \in T PROVE x <= y
  <2>1. x \in Nat /\ y \in Nat
    OBVIOUS
  <2>2. <<y, x>> \in Nat \X Nat /\ <<y, x>>[1] = y /\ <<y, x>>[2] = x
    BY <2>1
  <2>3. ~(y < x)
    BY <1>2, <2>2
  <2>. QED
    BY <2>1, <2>3
<1>. QED
  BY <1>3

\* alloc_lag_id returns an id that is free, or 0.
LEMMA AllocatesFree == alloc_lag_id = 0 \/ alloc_lag_id \in LagIds \ pool
<1>. DEFINE free == LagIds \ pool
<1>1. CASE free = {}
  BY <1>1 DEF alloc_lag_id
<1>2. CASE free # {}
  <2>1. free \subseteq Nat
    BY ConfigAssumption DEF LagIds
  <2>2. \E id \in free : \A k \in free : id <= k
    BY <1>2, <2>1, Least
  <2>3. alloc_lag_id = CHOOSE id \in free : \A k \in free : id <= k
    BY <1>2 DEF alloc_lag_id
  <2>. QED
    BY <2>2, <2>3
<1>. QED
  BY <1>1, <1>2

\* The mode of one LAG changes.
LEMMA OneMode ==
    ASSUME IsPorts(ports), NEW p \in Lags, NEW m,
           ports' = [ports EXCEPT ![p] = [ports[p] EXCEPT !["mode"] = m]]
    PROVE  /\ IsPorts(ports') /\ ports'[p].mode = m /\ ports'[p].cached = ports[p].cached
           /\ \A q \in Lags \ {p} : ports'[q] = ports[q]
  BY DEF IsPorts, IsRecord, PortFields

\* handle_port_config: the three changes of the LACP mode.
LEMMA ModeChanges == ASSUME LagInv, TurnOn \/ SwitchMode \/ TurnOff PROVE LagInv'
<1>. DEFINE p == task.port
<1>1. /\ p \in Lags /\ ports[p].cached /\ rows[p].lacp # ports[p].mode /\ task.at = "mode"
      /\ IsPorts(ports) /\ lag_id \in [Lags -> 0..MaxLagId]
  BY DEF LagInv, TurnOn, SwitchMode, TurnOff, PortSteps
<1>2. ports' = [ports EXCEPT ![p] = [ports[p] EXCEPT !["mode"] = rows[p].lacp]]
  BY DEF TurnOn, SwitchMode, TurnOff
<1>3. UNCHANGED rows /\ \E b, c : task' = ToAdded(p, b, c)
  BY DEF TurnOn, SwitchMode, TurnOff, table
<1>4. /\ IsPorts(ports') /\ ports'[p].mode = rows[p].lacp /\ ports'[p].cached
      /\ \A q \in Lags \ {p} : ports'[q] = ports[q]
  BY <1>1, <1>2, OneMode
<1>5. /\ IsRecord(task', TaskFields) /\ task'.at = "added"
      /\ task'.ports = task.ports /\ task'.port = p
  BY <1>3, ToAddedTask
<1>6. lag_id' \in [Lags -> 0..MaxLagId] /\ LagIdsAreExclusive'
  <2>1. CASE TurnOn
    <3>. DEFINE id == alloc_lag_id
    <3>1. lag_id[p] = 0 /\ rows[p].lacp # "off"
      BY <1>1, <2>1 DEF TurnOn, LagInv, LagIdsAreExclusive, IsDynamic
    <3>2. id = 0 \/ id \in LagIds \ pool
      BY AllocatesFree
    <3>3. lag_id' = [lag_id EXCEPT ![p] = id] /\ pool' = IF id = 0 THEN pool ELSE pool \cup {id}
      BY <2>1 DEF TurnOn
    <3>4. id \in 0..MaxLagId
      BY <3>2, ConfigAssumption DEF LagIds
    <3>. HIDE DEF id
    <3>5. lag_id' \in [Lags -> 0..MaxLagId]
      BY <1>1, <3>3, <3>4
    <3>6. pool' = {lag_id'[q] : q \in Lags} \ {0}
      BY <1>1, <3>1, <3>3 DEF LagInv, LagIdsAreExclusive
    <3>7. \A q, r \in Lags : lag_id'[q] = lag_id'[r] /\ lag_id'[q] # 0 => q = r
      BY <1>1, <3>2, <3>3 DEF LagInv, LagIdsAreExclusive
    <3>8. \A q \in Lags : lag_id'[q] # 0 => IsDynamic(ports'[q])
      BY <1>1, <1>4, <3>1, <3>3 DEF LagInv, LagIdsAreExclusive, IsDynamic
    <3>. QED
      BY <3>5, <3>6, <3>7, <3>8 DEF LagIdsAreExclusive
  <2>2. CASE SwitchMode
    BY <1>1, <1>4, <2>2 DEF SwitchMode, LagInv, LagIdsAreExclusive, IsDynamic
  <2>3. CASE TurnOff
    <3>1. lag_id' = [lag_id EXCEPT ![p] = 0] /\ pool' = pool \ {lag_id[p]}
      BY <2>3 DEF TurnOff
    <3>2. pool' = {lag_id'[q] : q \in Lags} \ {0}
      BY <1>1, <3>1 DEF LagInv, LagIdsAreExclusive
    <3>3. lag_id' \in [Lags -> 0..MaxLagId]
      BY <1>1, <3>1, ConfigAssumption
    <3>. QED
      BY <1>1, <1>4, <3>1, <3>2, <3>3 DEF LagInv, LagIdsAreExclusive, IsDynamic
  <2>. QED
    BY <2>1, <2>2, <2>3
<1>7. \A q \in Lags : ports'[q].mode # "off" => ports'[q].cached
  BY <1>4 DEF LagInv
<1>. HIDE DEF p
<1>. QED
  BY <1>1, <1>3, <1>4, <1>5, <1>6, <1>7 DEF LagInv, PortSteps

\* An entry of all_ports comes or goes: its LAG has no id before or after.
LEMMA EntryChanges == ASSUME LagInv, NEW p \in Lags, del_old_port(p) \/ add_new_port(p) PROVE LagInv'
<1>1. /\ task.at = "run" /\ UNCHANGED <<rows, task>>
      /\ IsPorts(ports) /\ lag_id \in [Lags -> 0..MaxLagId]
  BY DEF del_old_port, add_new_port, table, LagInv
<1>2. PICK r : ports' = [ports EXCEPT ![p] = r] /\ r.mode = "off" /\ IsRecord(r, PortFields)
  <2>1. CASE del_old_port(p)
    BY <2>1 DEF del_old_port, NoPort, IsRecord, PortFields
  <2>2. CASE add_new_port(p)
    <3>. DEFINE r == [NoPort EXCEPT !.cached = TRUE, !.cfg = rows[p].members]
    <3>1. r.mode = "off" /\ IsRecord(r, PortFields)
      BY DEF NoPort, IsRecord, PortFields
    <3>. QED
      BY <2>2, <3>1 DEF add_new_port
  <2>. QED
    BY <2>1, <2>2
<1>3. /\ IsPorts(ports') /\ ports'[p].mode = "off"
      /\ \A q \in Lags \ {p} : ports'[q] = ports[q]
  BY <1>1, <1>2 DEF IsPorts
<1>4. lag_id' = [lag_id EXCEPT ![p] = 0] /\ pool' = pool \ {lag_id[p]}
  <2>1. CASE del_old_port(p)
    BY <2>1 DEF del_old_port
  <2>2. CASE add_new_port(p)
    <3>1. UNCHANGED <<lag_id, pool>> /\ ~ports[p].cached
      BY <2>2 DEF add_new_port, Added
    <3>2. lag_id[p] = 0
      BY <3>1 DEF LagInv, LagIdsAreExclusive, IsDynamic
    <3>3. 0 \notin pool
      BY DEF LagInv, LagIdsAreExclusive
    <3>. QED
      BY <1>1, <3>1, <3>2, <3>3
  <2>. QED
    BY <2>1, <2>2
<1>5. pool' = {lag_id'[q] : q \in Lags} \ {0}
  BY <1>1, <1>4 DEF LagInv, LagIdsAreExclusive
<1>6. lag_id' \in [Lags -> 0..MaxLagId]
  BY <1>1, <1>4, ConfigAssumption
<1>7. LagIdsAreExclusive'
  BY <1>1, <1>3, <1>4, <1>5 DEF LagInv, LagIdsAreExclusive, IsDynamic
<1>. QED
  BY <1>1, <1>3, <1>6, <1>7 DEF LagInv, PortSteps

-----------------------------------------------------------------------------
(* The other thread, the rows and the whole. *)

\* db_add_lag_port and db_delete_lag_port change participants, not modes.
LEMMA ReportKeeps == ASSUME IsPorts(ports), CallReports PROVE SameModes(ports, ports')
<1>1. ASSUME NEW p \in Lags
      PROVE  /\ IsRecord(ports'[p], PortFields)
             /\ ports'[p].mode = ports[p].mode /\ ports'[p].cached = ports[p].cached
  <2>1. ports[p] = [f \in PortFields |-> ports[p][f]]
    BY DEF IsPorts, IsRecord
  <2>2. \/ ports'[p] = ports[p]
        \/ \E s : ports'[p] = [ports[p] EXCEPT !.participants = s]
    BY DEF CallReports
  <2>. QED
    BY <2>1, <2>2 DEF IsRecord, PortFields
<1>2. ports' = [p \in Lags |-> ports'[p]]
  BY DEF CallReports
<1>. QED
  BY <1>1, <1>2 DEF SameModes, IsPorts

\* The steps of the protocol thread.
LEMMA ProtocolSteps == ASSUME LagInv, Receive \/ Machines \/ HardwareCall PROVE LagInv'
<1>1. UNCHANGED <<rows, task, lag_id, pool>>
  BY DEF Receive, Machines, Attach, Egress, Detach, HardwareCall, CallWrites, CallReports,
         table, cache
<1>2. SameModes(ports, ports')
  <2>1. CASE CallReports
    BY <2>1, ReportKeeps DEF LagInv
  <2>2. CASE Receive \/ Machines \/ CallWrites
    BY <2>2, PortsKept DEF Receive, Machines, Attach, Egress, Detach, CallWrites, cache, LagInv
  <2>. QED
    BY <2>1, <2>2 DEF HardwareCall
<1>. QED
  BY <1>1, <1>2, SteadyTask DEF Steady

\* The daemon starts with no LAG.
LEMMA StartsEmpty ==
    ASSUME ports' = [p \in Lags |-> NoPort], lag_id' = [p \in Lags |-> 0], pool' = {},
           task' = Idle
    PROVE  LagInv'
<1>1. IsPorts(ports') /\ \A p \in Lags : ports'[p].mode = "off"
  BY DEF IsPorts, IsRecord, NoPort, PortFields
<1>2. IsRecord(task', TaskFields) /\ task'.at = "idle"
  BY DEF Idle, IsRecord, TaskFields
<1>3. lag_id' \in [Lags -> 0..MaxLagId] /\ LagIdsAreExclusive'
  BY ConfigAssumption DEF LagIdsAreExclusive
<1>. QED
  BY <1>1, <1>2, <1>3 DEF LagInv, PortSteps

\* The steps of the administrator.
LEMMA AdministrationSteps == ASSUME LagInv, Administration PROVE LagInv'
<1>1. CASE Restart
  BY <1>1, StartsEmpty DEF Restart, Started
<1>2. CASE \E command : Edit(command)
  <2>1. task.at = "idle" /\ UNCHANGED <<task, ports, lag_id, pool>>
    BY <1>2 DEF Edit, cache
  <2>. QED
    BY <2>1, PortsKept, SteadyEdit DEF Steady, LagInv
<1>3. Restart \/ \E command : Edit(command)
  BY DEF Administration, vtysh_intf_link_aggregation, delete_lag, lacp_set_mode,
         lacp_set_fallback, lacp_set_heartbeat_rate, SetSystemId, lacp_add_intf_to_lag,
         lacp_remove_intf_from_lag, LinkChanges, EditPort
<1>. QED
  BY <1>1, <1>2, <1>3

\* Every step preserves the invariant.
LEMMA LagNext == LagInv /\ [Next]_vars => LagInv'
<1>. SUFFICES ASSUME LagInv, [Next]_vars PROVE LagInv'
  OBVIOUS
<1>1. CASE lacpd_run
  BY <1>1, RunSteps, InterfaceSteps, MemberSteps, EntryChanges, PortStarts, PortGoesOn,
     ModeChanges DEF lacpd_run
<1>2. CASE UNCHANGED vars
  BY <1>2, PortsKept, SteadyTask DEF vars, table, cache, Steady, LagInv
<1>. QED
  BY <1>1, <1>2, ProtocolSteps, AdministrationSteps DEF Next

\* The invariant holds at start-up.
LEMMA LagInit == Init => LagInv
<1>. SUFFICES ASSUME Init PROVE LagInv
  OBVIOUS
<1>1. IsPorts(ports) /\ \A p \in Lags : ports[p].mode = "off"
  BY DEF Init, IsPorts, IsRecord, NoPort, PortFields
<1>2. IsRecord(task, TaskFields) /\ task.at = "idle"
  BY DEF Init, Idle, IsRecord, TaskFields
<1>3. lag_id \in [Lags -> 0..MaxLagId] /\ LagIdsAreExclusive
  BY ConfigAssumption DEF Init, LagIdsAreExclusive
<1>. QED
  BY <1>1, <1>2, <1>3 DEF LagInv, PortSteps

\* Whatever the administrator does and wherever lacpd dies, no two LAGs share an id
\* and an id is in use exactly while a dynamic LAG has it: alloc_lag_id and
\* free_lag_id are called in pairs (handle_port_config, del_old_port).
THEOREM LagIds_Exclusive == Spec => []LagIdsAreExclusive
<1>1. LagInv => LagIdsAreExclusive
  BY DEF LagInv
<1>. QED
  BY <1>1, LagInit, LagNext, PTL DEF Spec

-----------------------------------------------------------------------------
(* A port of the protocol thread is a TrunkPort. *)

LportFields == {"up", "key", "active", "fast", "link", "sys", "fallback", "trunk", "egress"}

\* A port that is stopped is in no trunk, and egress is open only inside one.
IsLport(l) ==
    /\ IsRecord(l, LportFields)
    /\ l.up \in BOOLEAN /\ l.egress \in BOOLEAN
    /\ ~l.up => l.trunk = 0
    /\ l.trunk = 0 => ~l.egress

\* What one step may do to a port.
Moves(l, k) ==
    /\ IsLport(k)
    /\ \/ k.up = l.up /\ k.trunk = l.trunk /\ k.egress = l.egress
       \/ k.up /\ k.trunk = 0
       \/ l.up /\ ~k.up
       \/ k.up = l.up /\ l.trunk # 0 /\ k.trunk = 0
       \/ l.up /\ k.up /\ l.trunk = 0 /\ k.trunk \in LagIds
       \/ k.up = l.up /\ l.trunk # 0 /\ k.trunk = l.trunk /\ ~l.egress /\ k.egress

LportInv == lports = [i \in Ifaces |-> lports[i]] /\ \A i \in Ifaces : IsLport(lports[i])

\* A port that is disabled moves as Stop.
LEMMA StopMoves == ASSUME NEW l, IsLport(l) PROVE Moves(l, NoLport)
<1>1. IsLport(NoLport) /\ NoLport.up = FALSE /\ NoLport.trunk = 0 /\ NoLport.egress = FALSE
  BY DEF NoLport, IsLport, IsRecord, LportFields
<1>. QED
  BY <1>1 DEF Moves, IsLport

\* A port that is initialized moves as Start.
LEMMA ConfiguredMoves == ASSUME NEW l, NEW m PROVE Moves(l, Configured(m))
<1>1. IsRecord(Configured(m), LportFields)
  BY DEF Configured, IsRecord, LportFields
<1>2. /\ Configured(m).up = TRUE /\ Configured(m).trunk = 0 /\ Configured(m).egress = FALSE
  BY DEF Configured
<1>. QED
  BY <1>1, <1>2 DEF Moves, IsLport

\* A field TrunkPort does not see changes.
LEMMA FieldMoves ==
    ASSUME NEW l, IsLport(l), NEW f \in LportFields \ {"up", "trunk", "egress"}, NEW v
    PROVE  Moves(l, [l EXCEPT ![f] = v])
  BY DEF Moves, IsLport, IsRecord, LportFields

\* A port outside every trunk changes.
LEMMA UntrunkedMoves ==
    ASSUME NEW l, IsLport(l), NEW k, Moves(l, k), k.up = l.up, k.trunk = l.trunk
    PROVE  Moves(l, Untrunked(k))
<1>. DEFINE u == [k EXCEPT !.trunk = 0, !.egress = FALSE]
<1>1. k = [f \in LportFields |-> k[f]]
  BY DEF Moves, IsLport, IsRecord
<1>2. IsRecord(u, LportFields) /\ u.up = k.up /\ u.trunk = 0 /\ u.egress = FALSE
  BY <1>1 DEF IsRecord, LportFields
<1>. HIDE DEF u
<1>3. Moves(l, u)
  BY <1>2 DEF Moves, IsLport
<1>. QED
  BY <1>3 DEF Untrunked, u

\* One port moves, the others stay.
LEMMA OneMoves ==
    ASSUME LportInv, NEW i, NEW l, i \in Ifaces => Moves(lports[i], l),
           lports' = [lports EXCEPT ![i] = l]
    PROVE  LportInv' /\ \A j \in Ifaces : Moves(lports[j], lports'[j])
  BY DEF LportInv, Moves

\* No port changes.
LEMMA NoneMoves ==
    ASSUME LportInv, UNCHANGED lports
    PROVE  LportInv' /\ \A j \in Ifaces : Moves(lports[j], lports'[j])
  BY DEF LportInv, Moves

\* A message of the configuration thread, as the protocol thread handles it.
LEMMA MessageMoves ==
    ASSUME LportInv, NEW m, LportMessage(m)
    PROVE  LportInv' /\ \A j \in Ifaces : Moves(lports[j], lports'[j])
<1>. DEFINE i == m.iface
            l == lports[i]
            c == IF m.enabled THEN Configured(m) ELSE NoLport
            u == IF ~m.enabled THEN NoLport ELSE IF l.up THEN [l EXCEPT !.fast = m.fast] ELSE l
            k == IF ~l.up THEN l ELSE IF l.link = m.link THEN l
                 ELSE Untrunked([l EXCEPT !.link = m.link])
            b == IF l.up THEN [l EXCEPT !.fallback = m.on] ELSE l
            o == IF l.up THEN [l EXCEPT !.sys = m.sys] ELSE l
<1>1. PICK n \in {c, u, k, b, o} : lports' = [lports EXCEPT ![i] = n]
  BY DEF LportMessage, Settle
<1>2. ASSUME i \in Ifaces PROVE Moves(l, n)
  <2>. HIDE DEF l
  <2>1. IsLport(l) /\ Moves(l, l)
    BY <1>2 DEF LportInv, Moves, l
  <2>2. Moves(l, c)
    BY <2>1, StopMoves, ConfiguredMoves
  <2>3. Moves(l, u)
    BY <2>1, StopMoves, FieldMoves DEF LportFields
  <2>4. Moves(l, k)
    <3>. DEFINE h == [l EXCEPT !.link = m.link]
    <3>1. Moves(l, h)
      BY <2>1, FieldMoves DEF LportFields
    <3>2. h.up = l.up /\ h.trunk = l.trunk
      BY <2>1 DEF IsLport, IsRecord, LportFields
    <3>. HIDE DEF h
    <3>3. Moves(l, Untrunked(h))
      BY <2>1, <3>1, <3>2, UntrunkedMoves
    <3>. QED
      BY <2>1, <3>3 DEF h
  <2>5. Moves(l, b) /\ Moves(l, o)
    BY <2>1, FieldMoves DEF LportFields
  <2>. QED
    BY <2>2, <2>3, <2>4, <2>5
<1>. HIDE DEF i
<1>. QED
  BY <1>1, <1>2, OneMoves

\* A step of the port's machines.
LEMMA MachineMoves ==
    ASSUME LportInv, NEW i \in Ifaces, Attach(i) \/ Egress(i) \/ Detach(i)
    PROVE  LportInv' /\ \A j \in Ifaces : Moves(lports[j], lports'[j])
<1>. DEFINE l == lports[i]
<1>1. IsLport(l) /\ l = [f \in LportFields |-> l[f]]
  BY DEF LportInv, IsLport, IsRecord
<1>2. CASE Attach(i)
  <2>1. PICK id \in LagIds : lports' = [lports EXCEPT ![i] = [l EXCEPT !.trunk = id]]
    BY <1>2 DEF Attach
  <2>2. l.up /\ l.trunk = 0 /\ id # 0
    BY <1>2, ConfigAssumption DEF Attach, LagIds
  <2>. HIDE DEF l
  <2>. DEFINE k == [l EXCEPT !.trunk = id]
  <2>3. IsRecord(k, LportFields) /\ k.up = l.up /\ k.trunk = id /\ k.egress = l.egress
    BY <1>1 DEF IsRecord, LportFields
  <2>. HIDE DEF k
  <2>4. Moves(l, k)
    BY <1>1, <2>2, <2>3 DEF Moves, IsLport
  <2>. QED
    BY <2>1, <2>4, OneMoves DEF k, l
<1>3. CASE Egress(i)
  <2>1. lports' = [lports EXCEPT ![i] = [l EXCEPT !.egress = TRUE]] /\ l.trunk # 0 /\ ~l.egress
    BY <1>3 DEF Egress
  <2>. HIDE DEF l
  <2>. DEFINE k == [l EXCEPT !.egress = TRUE]
  <2>2. IsRecord(k, LportFields) /\ k.up = l.up /\ k.trunk = l.trunk /\ k.egress = TRUE
    BY <1>1 DEF IsRecord, LportFields
  <2>. HIDE DEF k
  <2>3. Moves(l, k)
    BY <1>1, <2>1, <2>2 DEF Moves, IsLport
  <2>. QED
    BY <2>1, <2>3, OneMoves DEF k, l
<1>4. CASE Detach(i)
  <2>1. lports' = [lports EXCEPT ![i] = Untrunked(l)]
    BY <1>4 DEF Detach, Settle
  <2>2. Moves(l, l)
    BY <1>1 DEF Moves
  <2>3. Moves(l, Untrunked(l))
    BY <1>1, <2>2, UntrunkedMoves
  <2>. QED
    BY <2>1, <2>3, OneMoves
<1>. QED
  BY <1>2, <1>3, <1>4

\* Every step moves every port as TrunkPort may.
LEMMA NextMoves ==
    ASSUME LportInv, [Next]_vars
    PROVE  LportInv' /\ \A j \in Ifaces : Moves(lports[j], lports'[j])
<1>1. CASE Receive
  <2>1. CASE LportMessage(Head(queue))
    BY <2>1, MessageMoves
  <2>2. CASE SportMessage(Head(queue))
    BY <2>2, NoneMoves DEF SportMessage
  <2>. QED
    BY <1>1, <2>1, <2>2 DEF Receive
<1>2. CASE Machines
  BY <1>2, MachineMoves DEF Machines
<1>3. CASE Restart
  <2>1. lports' = [i \in Ifaces |-> NoLport]
    BY <1>3 DEF Restart, Started
  <2>2. \A j \in Ifaces : Moves(lports[j], lports'[j])
    BY <2>1, StopMoves DEF LportInv
  <2>. QED
    BY <2>1, <2>2 DEF LportInv, Moves
<1>4. CASE lacpd_run \/ HardwareCall \/ UNCHANGED vars
  <2>1. UNCHANGED lports
    BY <1>4 DEF lacpd_run, HardwareCall, vars, proto, BeginRun, add_new_interface, update_interface,
          RemoveMember, MakeIneligible, AddMember, UpdateMember, del_old_port, add_new_port,
          StartPort, CompareMode, TurnOn, SwitchMode, TurnOff, StartEligible, FinishPort, EndRun,
          CallWrites, CallReports
  <2>. QED
    BY <2>1, NoneMoves
<1>5. CASE Administration
  <2>1. Restart \/ \E command : Edit(command)
    BY <1>5 DEF Administration, vtysh_intf_link_aggregation, delete_lag, lacp_set_mode,
         lacp_set_fallback, lacp_set_heartbeat_rate, SetSystemId, lacp_add_intf_to_lag,
         lacp_remove_intf_from_lag, LinkChanges, EditPort
  <2>. QED
    BY <1>3, <2>1, NoneMoves DEF Edit, proto
<1>. QED
  BY <1>1, <1>2, <1>4, <1>5 DEF Next

\* What Moves allows is a step of TrunkPort or a stutter.
LEMMA MovesIsTrunk ==
    ASSUME LportInv, \A j \in Ifaces : Moves(lports[j], lports'[j])
    PROVE  [FirstTrunk!Next]_FirstTrunk!vars
<1>. DEFINE l == lports[i1]
            k == lports'[i1]
<1>1. IsLport(l) /\ Moves(l, k)
  BY InstanceAssumption DEF LportInv
<1>. QED
  BY <1>1 DEF Moves, IsLport, FirstTrunk!Next, FirstTrunk!vars, FirstTrunk!Start,
     FirstTrunk!Stop, FirstTrunk!Join, FirstTrunk!Open, FirstTrunk!Leave

\* Whatever the configuration thread queues and in whatever order the machines and
\* the messages meet, a port of the protocol thread does to the trunks only what
\* TrunkPort says: this holds of i1, that is of any interface.
THEOREM PortRefinesTrunkPort == Spec => PortIsTrunkPort
<1>1. Init => LportInv /\ FirstTrunk!Init
  <2>. SUFFICES ASSUME Init PROVE LportInv /\ FirstTrunk!Init
    OBVIOUS
  <2>1. lports = [i \in Ifaces |-> NoLport]
    BY DEF Init
  <2>2. IsLport(NoLport)
    BY DEF NoLport, IsLport, IsRecord, LportFields
  <2>3. LportInv
    BY <2>1, <2>2 DEF LportInv
  <2>4. FirstTrunk!Init
    BY <2>1, InstanceAssumption DEF FirstTrunk!Init, NoLport
  <2>. QED
    BY <2>3, <2>4
<1>2. LportInv /\ [Next]_vars => LportInv' /\ [FirstTrunk!Next]_FirstTrunk!vars
  BY NextMoves, MovesIsTrunk
<1>. QED
  BY <1>1, <1>2, PTL DEF Spec, PortIsTrunkPort, FirstTrunk!Spec

-----------------------------------------------------------------------------
(* What the threads say to each other. *)

\* What the main thread says of a port of the protocol thread.
LportMsg ==
    [type : {"config"}, iface : Ifaces, enabled : BOOLEAN, key : Nat, active : BOOLEAN,
     fast : BOOLEAN, link : Nat, sys : Systems]
    \cup [type : {"update"}, iface : Ifaces, enabled : BOOLEAN, fast : BOOLEAN]
    \cup [type : {"link"}, iface : Ifaces, link : Nat]
    \cup [type : {"fallback"}, iface : Ifaces, on : BOOLEAN]
    \cup [type : {"overrides"}, iface : Ifaces, sys : Systems]

\* What it says of a super port.
SportMsg == [type : {"create", "params", "unparams", "delete"}, lag : LagIds, key : Lags]

Message == LportMsg \cup SportMsg

\* The part of the state that eligibility changes, typed.
CState == [ports : [Lags -> LagPort], ifs : [Ifaces -> Iface], hw : [Ifaces -> Flags],
           queue : Seq(Message)]

\* From S to T the main thread may have spoken of ports, not of super ports.
Talks(S, T) ==
    /\ S \in CState /\ T \in CState
    /\ \E s \in Seq(LportMsg) : T.queue = S.queue \o s

\* Silence.
LEMMA TalksNothing ==
    ASSUME NEW S \in CState, NEW T \in CState, T.queue = S.queue PROVE Talks(S, T)
<1>1. <<>> \in Seq(LportMsg) /\ S.queue \in Seq(Message)
  BY DEF CState
<1>2. S.queue = S.queue \o <<>>
  BY <1>1, ConcatEmptySeq
<1>. QED
  BY <1>1, <1>2 DEF Talks

\* Appending is associative.
LEMMA Associative ==
    ASSUME NEW q \in Seq(Message), NEW s \in Seq(Message), NEW t \in Seq(Message)
    PROVE  (q \o s) \o t = q \o (s \o t)
<1>1. (q \o s) \o t \in Seq(Message) /\ q \o (s \o t) \in Seq(Message)
  OBVIOUS
<1>2. Len((q \o s) \o t) = Len(q \o (s \o t))
  OBVIOUS
<1>3. \A k \in 1..Len((q \o s) \o t) : ((q \o s) \o t)[k] = (q \o (s \o t))[k]
  OBVIOUS
<1>. QED
  BY <1>1, <1>2, <1>3, SeqEqual

\* One speech after another.
LEMMA TalksTransitive ==
    ASSUME NEW R, NEW S, NEW T, Talks(R, S), Talks(S, T) PROVE Talks(R, T)
<1>1. PICK s \in Seq(LportMsg) : S.queue = R.queue \o s
  BY DEF Talks
<1>2. PICK t \in Seq(LportMsg) : T.queue = S.queue \o t
  BY DEF Talks
<1>3. R.queue \in Seq(Message) /\ s \in Seq(Message) /\ t \in Seq(Message)
  <2>1. s \in Seq(Message) /\ t \in Seq(Message)
    BY DEF Message
  <2>. QED
    BY <2>1 DEF Talks, CState
<1>4. T.queue = R.queue \o (s \o t)
  <2>1. (R.queue \o s) \o t = R.queue \o (s \o t)
    BY <1>3, Associative
  <2>. QED
    BY <1>1, <1>2, <2>1
<1>5. s \o t \in Seq(LportMsg)
  OBVIOUS
<1>. QED
  BY <1>4, <1>5 DEF Talks

\* Send appends.
LEMMA SendTalks ==
    ASSUME NEW S \in CState, NEW s \in Seq(LportMsg) PROVE Talks(S, Send(S, s))
<1>1. s \in Seq(Message) /\ S.queue \in Seq(Message)
  BY DEF Message, CState
<1>2. S.queue \o s \in Seq(Message)
  BY <1>1
<1>3. Send(S, s) \in CState /\ Send(S, s).queue = S.queue \o s
  BY <1>2 DEF Send, CState
<1>. QED
  BY <1>3 DEF Talks

\* The messages have their fields.
LEMMA ConfigIsMsg == ASSUME NEW S \in CState, NEW i \in Ifaces PROVE ConfigLport(S, i) \in LportMsg
<1>. DEFINE f == S.ifs[i]
            y == IF f.port # NoLag /\ IsDynamic(S.ports[f.port])
                 THEN S.ports[f.port].sys ELSE "default"
<1>1. f \in Iface
  BY DEF CState
<1>2. y \in Systems
  <2>1. CASE f.port # NoLag
    <3>1. S.ports[f.port] \in LagPort
      BY <1>1, <2>1 DEF CState, Iface
    <3>. QED
      BY <3>1, ConfigAssumption DEF LagPort
  <2>2. CASE f.port = NoLag
    BY <2>2, ConfigAssumption
  <2>. QED
    BY <2>1, <2>2
<1>. HIDE DEF y, f
<1>3. ConfigLport(S, i) = [type |-> "config", iface |-> i, enabled |-> f.enabled,
         key |-> f.key, active |-> f.active, fast |-> f.fast, link |-> f.link, sys |-> y]
  BY DEF ConfigLport, y, f
<1>. QED
  BY <1>1, <1>2, <1>3 DEF LportMsg, Iface

\* The other messages about a port.
LEMMA OtherMsgs ==
    ASSUME NEW i \in Ifaces, NEW f \in Iface, NEW b \in BOOLEAN, NEW y \in Systems
    PROVE  /\ LportChange(f, i) \in LportMsg /\ LinkChange(f, i) \in LportMsg
           /\ Fallback(i, b) \in LportMsg /\ Overrides(i, y) \in LportMsg
  BY DEF LportChange, LinkChange, Fallback, Overrides, LportMsg, Iface

\* set_interface_lag_eligibility speaks of the interface at most.
LEMMA SetEligibilityTalks ==
    ASSUME NEW S \in CState, NEW p \in Lags, NEW i \in Ifaces, NEW e \in BOOLEAN
    PROVE  Talks(S, set_interface_lag_eligibility(S, p, i, e))
<1>. DEFINE P == S.ports[p]
            f == IF IsDynamic(P)
                 THEN [S.ifs[i] EXCEPT !.enabled = e, !.fast = P.fast,
                                       !.active = P.mode = "active"]
                 ELSE S.ifs[i]
            h == IF IsDynamic(P) /\ e THEN S.hw[i] ELSE [rx |-> e, tx |-> e]
            T == [S EXCEPT !.ifs[i] = f, !.hw[i] = h]
            U == IF IsDynamic(P) /\ (i \in P.cfg \/ i \notin recent)
                 THEN Send(T, <<ConfigLport(T, i)>>) ELSE T
            V == [U EXCEPT !.ifs[i].eligible = e,
                           !.ports[p].eligible = IF e THEN @ \cup {i} ELSE @ \ {i}]
<1>1. P \in LagPort /\ S.ifs[i] \in Iface /\ S.hw[i] \in Flags
  BY DEF CState
<1>2. f \in Iface /\ h \in Flags
  <2>. HIDE DEF P
  <2>. QED
    BY <1>1 DEF Iface, LagPort, Flags
<1>3. T \in CState /\ T.queue = S.queue
  <2>. HIDE DEF f, h
  <2>. QED
    BY <1>2 DEF CState
<1>4. Talks(S, T)
  <2>. HIDE DEF T
  <2>. QED
    BY <1>3, TalksNothing
<1>5. Talks(S, U)
  <2>. HIDE DEF T
  <2>1. <<ConfigLport(T, i)>> \in Seq(LportMsg)
    BY <1>3, ConfigIsMsg
  <2>2. Talks(T, Send(T, <<ConfigLport(T, i)>>))
    BY <1>3, <2>1, SendTalks
  <2>. QED
    BY <1>4, <2>2, TalksTransitive
<1>6. V \in CState /\ V.queue = U.queue
  <2>. HIDE DEF U
  <2>1. U \in CState
    BY <1>5 DEF Talks
  <2>2. U.ifs[i] \in Iface /\ U.ports[p] \in LagPort
    BY <2>1 DEF CState
  <2>. DEFINE g == [U.ifs[i] EXCEPT !.eligible = e]
              Q == [U.ports[p] EXCEPT !.eligible = IF e THEN @ \cup {i} ELSE @ \ {i}]
  <2>3. g \in Iface /\ Q \in LagPort
    BY <2>2 DEF Iface, LagPort
  <2>4. V = [U EXCEPT !.ifs[i] = g, !.ports[p] = Q]
    OBVIOUS
  <2>. HIDE DEF g, Q, V
  <2>. QED
    BY <2>1, <2>3, <2>4 DEF CState
<1>7. Talks(S, V)
  <2>. HIDE DEF U, V
  <2>1. Talks(U, V)
    BY <1>5, <1>6, TalksNothing DEF Talks
  <2>. QED
    BY <1>5, <2>1, TalksTransitive
<1>8. Talks(S, S)
  BY TalksNothing
<1>. QED
  BY <1>7, <1>8 DEF set_interface_lag_eligibility

\* The speed a LAG is to have, and whether a member is to be eligible.
LEMMA EligibilityValues ==
    ASSUME NEW S \in CState, NEW i \in Ifaces, S.ifs[i].port \in Lags
    PROVE  lag_member_speed(S, i) \in Nat /\ new_eligible(S, i) \in BOOLEAN
<1>1. S.ifs[i] \in Iface /\ S.ports[S.ifs[i].port] \in LagPort
  BY DEF CState
<1>2. S.ifs[i].link \in Nat /\ S.ports[S.ifs[i].port].speed \in Nat
  BY <1>1 DEF Iface, LagPort
<1>. QED
  BY <1>2 DEF lag_member_speed, new_eligible

\* update_interface_lag_eligibility neither.
LEMMA UpdateEligibilityTalks ==
    ASSUME NEW S \in CState, NEW i \in Ifaces, lag_id \in [Lags -> 0..MaxLagId]
    PROVE  Talks(S, update_interface_lag_eligibility(S, i))
<1>. DEFINE p == S.ifs[i].port
            v == lag_member_speed(S, i)
            e == new_eligible(S, i)
            T == [S EXCEPT !.ports[p].speed = v,
                           !.ifs[i].key = IF @ = NoLag THEN lag_id[p] ELSE @]
<1>0. p \in Lags \cup {NoLag} /\ S.ifs[i] \in Iface
  BY DEF CState, Iface
<1>1. CASE p = NoLag
  BY <1>1, TalksNothing DEF update_interface_lag_eligibility
<1>2. CASE p # NoLag
  <2>1. p \in Lags /\ v \in Nat /\ e \in BOOLEAN
    BY <1>0, <1>2, EligibilityValues
  <2>. HIDE DEF v, e
  <2>2. T \in CState /\ T.queue = S.queue
    <3>. DEFINE g == [S.ifs[i] EXCEPT !.key = IF @ = NoLag THEN lag_id[p] ELSE @]
                Q == [S.ports[p] EXCEPT !.speed = v]
    <3>1. lag_id[p] \in Nat /\ S.ports[p] \in LagPort
      BY <2>1, ConfigAssumption DEF CState
    <3>2. g \in Iface /\ Q \in LagPort
      <4>. HIDE DEF p
      <4>. QED
        BY <1>0, <2>1, <3>1 DEF Iface, LagPort
    <3>3. T = [S EXCEPT !.ports[p] = Q, !.ifs[i] = g]
      OBVIOUS
    <3>. HIDE DEF g, Q, p, T
    <3>. QED
      BY <2>1, <3>2, <3>3 DEF CState
  <2>. HIDE DEF T
  <2>3. Talks(S, T)
    BY <2>2, TalksNothing
  <2>4. Talks(S, set_interface_lag_eligibility(T, p, i, e))
    BY <2>1, <2>2, <2>3, SetEligibilityTalks, TalksTransitive
  <2>. QED
    BY <1>2, <2>3, <2>4 DEF update_interface_lag_eligibility, T, v, e
<1>. QED
  BY <1>1, <1>2

-----------------------------------------------------------------------------
(* The type invariant. *)

\* A hardware call under way is one of the three, for an interface.
CallOK == call.at # "done" => call.kind # "none" /\ call.iface \in Ifaces

\* The rows.
TypedTable ==
    /\ rows \in [Lags -> Row] /\ keys \in [Ifaces -> Lags \cup {NoLag}]
    /\ links \in [Ifaces -> Speeds \cup {0}] /\ budget \in 0..MaxCommands
    /\ changed \in [ports : SUBSET Lags, ifs : SUBSET Ifaces]

\* The main thread's caches and the queue.
TypedCache ==
    /\ State \in CState
    /\ lag_id \in [Lags -> 0..MaxLagId] /\ pool \subseteq LagIds
    /\ recent \subseteq Ifaces /\ task \in Task

\* The protocol thread's ports, super ports and call.
TypedProto ==
    /\ lports \in [Ifaces -> Lport]
    /\ sports \in [LagIds -> [state : {"none", "new", "set", "freed"}, key : Nat]]
    /\ call \in [kind : {"none", "attach", "egress", "detach"},
                 iface : Ifaces \cup {NoLag}, lag : 0..MaxLagId, allowed : BOOLEAN,
                 at : {"write", "report", "done"}]
    /\ CallOK

\* TypeOK, with the types of the messages and of a call that is under way.
Typed == TypedTable /\ TypedCache /\ TypedProto

\* The four variables behind State.
LEMMA StateFieldsTyped ==
    State \in CState <=> /\ ports \in [Lags -> LagPort] /\ ifs \in [Ifaces -> Iface]
                         /\ hw \in [Ifaces -> Flags] /\ queue \in Seq(Message)
  BY DEF State, CState

\* The same after a step.
LEMMA StateFieldsTypedNext ==
    State' \in CState <=> /\ ports' \in [Lags -> LagPort] /\ ifs' \in [Ifaces -> Iface]
                          /\ hw' \in [Ifaces -> Flags] /\ queue' \in Seq(Message)
  BY DEF State, CState

\* It is stronger than TypeOK.
LEMMA TypedIsTypeOK == Typed => TypeOK
  BY StateFieldsTyped DEF TypeOK, Typed, TypedTable, TypedCache, TypedProto

-----------------------------------------------------------------------------
(* The life of a super port, as the queue tells it. *)

\* The message is about the super port of id.
Concerns(m, id) == m \in SportMsg /\ m.lag = id

\* "unset": the parameters were to be unset and are, or could not be.
Stages == {"none", "new", "set", "unset"}

\* The message takes a super port from stage a to stage b.
Passes(m, a, b) ==
    \/ m.type = "create" /\ a = "none" /\ b = "new"
    \/ m.type = "params" /\ a = "new" /\ b = "set"
    \/ m.type = "unparams" /\ a = "set" /\ b = "unset"
    \/ m.type = "delete" /\ a = "unset" /\ b = "none"

\* g is the stage of the super port of id before each message of q and after the last.
Path(q, g, id) ==
    /\ g \in [0..Len(q) -> Stages]
    /\ \A k \in 1..Len(q) : IF Concerns(q[k], id) THEN Passes(q[k], g[k-1], g[k])
                            ELSE g[k] = g[k-1]

\* A super port in this state is at this stage.  Parameters may stay when they are to
\* be unset.
Meets(state, stage) ==
    \/ stage = "none" /\ state \in {"none", "freed"}
    \/ stage = "new" /\ state = "new"
    \/ stage = "set" /\ state = "set"
    \/ stage = "unset" /\ state \in {"new", "set"}

\* From the state it is in, the queue takes the super port of id to where it has
\* parameters if a LAG has the id and to where it is not if none has.
Orderly(q, state, id, owned) ==
    \E g : /\ Path(q, g, id) /\ Meets(state, g[0])
           /\ g[Len(q)] = IF owned THEN "set" ELSE "none"

\* Of every id.
Order == \A id \in LagIds : Orderly(queue, sports[id].state, id, id \in pool)

\* Messages about other things are appended.
LEMMA PathPasses ==
    ASSUME NEW q \in Seq(Message), NEW s \in Seq(Message), NEW id, NEW g, Path(q, g, id),
           \A k \in 1..Len(s) : ~Concerns(s[k], id)
    PROVE  \E h : /\ Path(q \o s, h, id)
                  /\ h[0] = g[0] /\ h[Len(q \o s)] = g[Len(q)]
<1>. DEFINE n == Len(q)
            h == [k \in 0..Len(q \o s) |-> IF k <= n THEN g[k] ELSE g[n]]
<1>1. n \in Nat /\ Len(s) \in Nat /\ Len(q \o s) = n + Len(s)
  OBVIOUS
<1>2. g \in [0..n -> Stages] /\ h \in [0..Len(q \o s) -> Stages]
  BY <1>1 DEF Path
<1>3. ASSUME NEW k \in 1..Len(q \o s)
      PROVE  IF Concerns((q \o s)[k], id) THEN Passes((q \o s)[k], h[k-1], h[k])
             ELSE h[k] = h[k-1]
  <2>1. CASE k <= n
    <3>1. (q \o s)[k] = q[k] /\ h[k] = g[k] /\ h[k-1] = g[k-1] /\ k \in 1..n
      BY <1>1, <2>1
    <3>. QED
      BY <3>1 DEF Path
  <2>2. CASE k > n
    <3>1. (q \o s)[k] = s[k - n] /\ k - n \in 1..Len(s)
      BY <1>1, <2>2
    <3>2. h[k] = g[n] /\ h[k-1] = g[n]
      BY <1>1, <2>2
    <3>. QED
      BY <3>1, <3>2
  <2>. QED
    BY <1>1, <2>1, <2>2
<1>4. h[0] = g[0] /\ h[Len(q \o s)] = g[n]
  BY <1>1
<1>. HIDE DEF h
<1>. QED
  BY <1>2, <1>3, <1>4 DEF Path

\* Two messages about it are appended.
LEMMA PathGrows ==
    ASSUME NEW q \in Seq(Message), NEW m \in Message, NEW l \in Message, NEW id, NEW g,
           Path(q, g, id), Concerns(m, id), Concerns(l, id),
           NEW b \in Stages, NEW c \in Stages, Passes(m, g[Len(q)], b), Passes(l, b, c)
    PROVE  \E h : /\ Path(q \o <<m, l>>, h, id)
                  /\ h[0] = g[0] /\ h[Len(q \o <<m, l>>)] = c
<1>. DEFINE n == Len(q)
            r == q \o <<m, l>>
            h == [k \in 0..n + 2 |-> IF k <= n THEN g[k] ELSE IF k = n + 1 THEN b ELSE c]
<1>1. n \in Nat /\ Len(r) = n + 2 /\ r[n+1] = m /\ r[n+2] = l
  OBVIOUS
<1>2. \A k \in 1..n : r[k] = q[k]
  OBVIOUS
<1>3. g \in [0..n -> Stages] /\ h \in [0..n+2 -> Stages]
  BY <1>1 DEF Path
<1>4. ASSUME NEW k \in 1..n+2
      PROVE  IF Concerns(r[k], id) THEN Passes(r[k], h[k-1], h[k]) ELSE h[k] = h[k-1]
  <2>. HIDE DEF r
  <2>1. CASE k <= n
    <3>1. r[k] = q[k] /\ h[k] = g[k] /\ h[k-1] = g[k-1] /\ k \in 1..n
      BY <1>1, <1>2, <2>1
    <3>. QED
      BY <3>1 DEF Path
  <2>2. CASE k = n + 1
    BY <1>1, <2>2
  <2>3. CASE k = n + 2
    BY <1>1, <2>3
  <2>. QED
    BY <1>1, <2>1, <2>2, <2>3
<1>5. h[0] = g[0] /\ h[n + 2] = c
  BY <1>1
<1>. HIDE DEF h, r
<1>6. Path(r, h, id) /\ h[Len(r)] = c
  BY <1>1, <1>3, <1>4, <1>5 DEF Path
<1>. QED
  BY <1>5, <1>6 DEF r

\* The first message is taken off.
LEMMA PathShrinks ==
    ASSUME NEW q \in Seq(Message), q # <<>>, NEW id, NEW g, Path(q, g, id)
    PROVE  /\ \E h : /\ Path(Tail(q), h, id)
                     /\ h[0] = g[1] /\ h[Len(Tail(q))] = g[Len(q)]
           /\ IF Concerns(Head(q), id) THEN Passes(Head(q), g[0], g[1]) ELSE g[1] = g[0]
<1>. DEFINE n == Len(q)
            h == [k \in 0..n - 1 |-> g[k + 1]]
<1>1. n \in Nat /\ n > 0 /\ Len(Tail(q)) = n - 1 /\ Head(q) = q[1]
  OBVIOUS
<1>2. \A k \in 1..n-1 : Tail(q)[k] = q[k+1]
  OBVIOUS
<1>3. g \in [0..n -> Stages] /\ h \in [0..n-1 -> Stages]
  BY <1>1 DEF Path
<1>4. ASSUME NEW k \in 1..n-1
      PROVE  IF Concerns(Tail(q)[k], id) THEN Passes(Tail(q)[k], h[k-1], h[k]) ELSE h[k] = h[k-1]
  <2>1. h[k] = g[k+1] /\ h[k-1] = g[(k+1)-1] /\ k+1 \in 1..n
    BY <1>1
  <2>. QED
    BY <1>2, <2>1 DEF Path
<1>5. h[0] = g[1] /\ h[n-1] = g[n]
  BY <1>1
<1>. HIDE DEF h
<1>6. Path(Tail(q), h, id) /\ h[Len(Tail(q))] = g[n]
  BY <1>1, <1>3, <1>4, <1>5 DEF Path
<1>7. IF Concerns(Head(q), id) THEN Passes(Head(q), g[0], g[1]) ELSE g[1] = g[0]
  BY <1>1 DEF Path
<1>. QED
  BY <1>5, <1>6, <1>7

\* A message about a port is not one about a super port.
LEMMA PortsAreNotSports == ASSUME NEW m \in LportMsg, NEW id PROVE ~Concerns(m, id)
  BY DEF LportMsg, SportMsg, Concerns

\* The same of a whole speech.
LEMMA SpeechPasses ==
    ASSUME NEW s \in Seq(LportMsg), NEW id
    PROVE  s \in Seq(Message) /\ \A k \in 1..Len(s) : ~Concerns(s[k], id)
<1>1. s \in Seq(Message)
  BY DEF Message
<1>2. \A k \in 1..Len(s) : s[k] \in LportMsg
  OBVIOUS
<1>. QED
  BY <1>1, <1>2, PortsAreNotSports

\* An orderly queue stays so when other things are said.
LEMMA OrderlyPasses ==
    ASSUME NEW q \in Seq(Message), NEW s \in Seq(Message), NEW id, NEW state, NEW owned,
           Orderly(q, state, id, owned), \A k \in 1..Len(s) : ~Concerns(s[k], id)
    PROVE  Orderly(q \o s, state, id, owned)
<1>1. PICK g : /\ Path(q, g, id) /\ Meets(state, g[0])
               /\ g[Len(q)] = IF owned THEN "set" ELSE "none"
  BY DEF Orderly
<1>2. PICK h : /\ Path(q \o s, h, id) /\ h[0] = g[0] /\ h[Len(q \o s)] = g[Len(q)]
  BY <1>1, PathPasses
<1>. QED
  BY <1>1, <1>2 DEF Orderly

\* The step says things of ports only.
Spoken == \E s \in Seq(LportMsg) : queue' = queue \o s

\* What is said of ports does not disturb the order.
LEMMA SpokenIsOrderly ==
    ASSUME Order, queue \in Seq(Message), Spoken, UNCHANGED <<pool, sports>> PROVE Order'
<1>1. PICK s \in Seq(LportMsg) : queue' = queue \o s
  BY DEF Spoken
<1>2. ASSUME NEW id \in LagIds
      PROVE  Orderly(queue \o s, sports[id].state, id, id \in pool)
  <2>1. s \in Seq(Message) /\ \A k \in 1..Len(s) : ~Concerns(s[k], id)
    BY SpeechPasses
  <2>2. Orderly(queue, sports[id].state, id, id \in pool)
    BY DEF Order
  <2>. QED
    BY <2>1, <2>2, OrderlyPasses
<1>. QED
  BY <1>1, <1>2 DEF Order

\* Nor does silence.
LEMMA SilenceIsOrderly ==
    ASSUME Order, UNCHANGED <<queue, pool, sports>> PROVE Order'
  BY DEF Order

\* A change of the caches is typed, and speaks of ports only.
LEMMA BecomesSpeaks ==
    ASSUME NEW S, Talks(State, S), Becomes(S)
    PROVE  State' \in CState /\ Spoken
<1>1. ports' = S.ports /\ ifs' = S.ifs /\ hw' = S.hw /\ queue' = S.queue
  BY DEF Becomes
<1>2. State' = [ports |-> S.ports, ifs |-> S.ifs, hw |-> S.hw, queue |-> S.queue]
  BY <1>1 DEF State
<1>3. S \in CState
  BY DEF Talks
<1>4. State' \in CState
  BY <1>2, <1>3 DEF CState
<1>5. Spoken
  BY <1>1 DEF Talks, Spoken, State
<1>. QED
  BY <1>4, <1>5

\* The inductive invariant: Order needs the messages typed and, for an id given or
\* taken, that it was in use exactly if a LAG had it (LagInv).
QueueInv == Typed /\ LagInv /\ Order

\* A walk of lacpd_run over interfaces, as far as the types go.
LEMMA WalkTyped ==
    ASSUME Typed, NEW at, NEW i, Walk(at, i) PROVE task' \in Task
  BY DEF Walk, Typed, TypedCache, Task

\* A step of lacpd_run that changes the state by what it says of ports.
LEMMA TalkStep ==
    ASSUME QueueInv, State' \in CState, Spoken, task' \in Task, recent' \subseteq Ifaces,
           UNCHANGED <<lag_id, pool, sports, lports, call, rows, keys, links, budget>>,
           changed' \in [ports : SUBSET Lags, ifs : SUBSET Ifaces]
    PROVE  Typed' /\ Order'
<1>1. TypedTable' /\ TypedCache' /\ TypedProto'
  BY DEF QueueInv, Typed, TypedTable, TypedCache, TypedProto, CallOK
<1>2. queue \in Seq(Message)
  BY StateFieldsTyped DEF QueueInv, Typed, TypedCache
<1>. QED
  BY <1>1, <1>2, SpokenIsOrderly DEF QueueInv, Typed

\* Nothing said is also spoken.
LEMMA SilenceSpeaks == queue \in Seq(Message) /\ UNCHANGED queue => Spoken
<1>1. <<>> \in Seq(LportMsg)
  OBVIOUS
<1>2. queue \in Seq(Message) => queue \o <<>> = queue
  BY ConcatEmptySeq
<1>. QED
  BY <1>1, <1>2 DEF Spoken

-----------------------------------------------------------------------------
(* The steps of lacpd_run. *)

\* The types a step starts from.
LEMMA TypesNow ==
    ASSUME QueueInv
    PROVE  /\ State \in CState /\ queue \in Seq(Message) /\ task \in Task
           /\ ports \in [Lags -> LagPort] /\ ifs \in [Ifaces -> Iface] /\ hw \in [Ifaces -> Flags]
           /\ rows \in [Lags -> Row] /\ keys \in [Ifaces -> Nat] /\ links \in [Ifaces -> Nat]
           /\ lag_id \in [Lags -> 0..MaxLagId]
           /\ recent \subseteq Ifaces
           /\ changed \in [ports : SUBSET Lags, ifs : SUBSET Ifaces]
           /\ task.at \in PortSteps => task.port \in Lags
<1>1. keys \in [Ifaces -> Lags \cup {NoLag}] /\ links \in [Ifaces -> Speeds \cup {0}]
  BY DEF QueueInv, Typed, TypedTable
<1>2. Lags \cup {NoLag} \subseteq Nat /\ Speeds \cup {0} \subseteq Nat
  BY ConfigAssumption DEF NoLag
<1>3. keys \in [Ifaces -> Nat] /\ links \in [Ifaces -> Nat]
  BY <1>1, <1>2
<1>4. task.at \in PortSteps => task.port \in Lags
  BY DEF QueueInv, LagInv
<1>. QED
  BY <1>3, <1>4, StateFieldsTyped DEF QueueInv, Typed, TypedTable, TypedCache

\* A run begins, goes from one pass to the next, or ends.
LEMMA PassesTyped ==
    ASSUME QueueInv, BeginRun \/ EndRun \/ CompareMode \/ StartEligible PROVE Typed' /\ Order'
<1>1. /\ UNCHANGED <<ports, ifs, hw, queue>>
      /\ UNCHANGED <<lag_id, pool, sports, lports, call, rows, keys, links, budget>>
  BY DEF BeginRun, EndRun, CompareMode, StartEligible, table, proto
<1>2. Spoken /\ State' \in CState
  BY <1>1, TypesNow, SilenceSpeaks, StateFieldsTypedNext
<1>3. task' \in Task
  <2>1. CASE BeginRun
    <3>1. /\ task' = [at |-> "run", ports |-> {p \in changed.ports : rows[p].present},
                      members |-> changed.ifs, port |-> NoLag, switched |-> FALSE,
                      moded |-> FALSE, timed |-> FALSE]
      BY <2>1 DEF BeginRun, Idle
    <3>. QED
      BY <3>1, TypesNow DEF Task
  <2>2. CASE EndRun
    BY <2>2 DEF EndRun, Idle, Task
  <2>3. CASE CompareMode
    <3>1. task.port \in Lags
      BY <2>3, TypesNow DEF CompareMode, PortSteps
    <3>2. rows[task.port].members \subseteq Ifaces /\ ports[task.port].eligible \subseteq Ifaces
      BY <3>1, TypesNow DEF Row, LagPort
    <3>. QED
      BY <2>3, <3>2, TypesNow DEF CompareMode, ToAdded, Task
  <2>4. CASE StartEligible
    <3>1. task.port \in Lags
      BY <2>4, TypesNow DEF StartEligible, PortSteps
    <3>2. ports[task.port].cfg \subseteq Ifaces
      BY <3>1, TypesNow DEF LagPort
    <3>. QED
      BY <2>4, <3>2, TypesNow DEF StartEligible, Task
  <2>. QED
    BY <2>1, <2>2, <2>3, <2>4
<1>4. recent' \subseteq Ifaces /\ changed' \in [ports : SUBSET Lags, ifs : SUBSET Ifaces]
  <2>1. recent' = recent \/ recent' = {}
    BY DEF BeginRun, EndRun, CompareMode, StartEligible
  <2>2. changed' = changed \/ changed' = [ports |-> {}, ifs |-> {}]
    BY DEF BeginRun, EndRun, CompareMode, StartEligible, table
  <2>. QED
    BY <2>1, <2>2, TypesNow
<1>. QED
  BY <1>1, <1>2, <1>3, <1>4, TalkStep

\* The pass over the interfaces.
LEMMA InterfacesTyped ==
    ASSUME QueueInv, NEW i \in Ifaces, add_new_interface(i) \/ update_interface(i)
    PROVE  Typed' /\ Order'
<1>1. CASE add_new_interface(i)
  <2>1. /\ UNCHANGED <<lag_id, pool, sports, lports, call, rows, keys, links, budget, changed,
                       recent, ports, queue>>
        /\ task' \in Task
    BY <1>1, WalkTyped DEF add_new_interface, table, proto, QueueInv
  <2>2. [NoIface EXCEPT !.cached = TRUE, !.key = keys[i], !.link = links[i]] \in Iface
    BY TypesNow DEF NoIface, Iface
  <2>3. ifs' \in [Ifaces -> Iface] /\ hw' \in [Ifaces -> Flags]
    BY <1>1, <2>2, TypesNow DEF add_new_interface, Flags
  <2>4. State' \in CState /\ Spoken
    BY <2>1, <2>3, TypesNow, StateFieldsTypedNext, SilenceSpeaks
  <2>. QED
    BY <2>1, <2>4, TypesNow, TalkStep
<1>2. CASE update_interface(i)
  <2>. DEFINE A == State
              K == [A EXCEPT !.ifs[i].key = keys[i]]
              B == IF keys[i] \notin {NoLag, ifs[i].key}
                   THEN Send(K, <<ConfigLport(K, i)>>) ELSE A
              p == ifs[i].port
              C == [B EXCEPT !.ifs[i].link = links[i]]
              D == update_interface_lag_eligibility(C, i)
              E == IF ~EligibilityChanges(C, i) /\ p # NoLag /\ D.ifs[i].eligible
                      /\ IsDynamic(D.ports[p])
                   THEN Send(D, <<LinkChange(D.ifs[i], i), LportChange(D.ifs[i], i)>>) ELSE D
  <2>1. A \in CState
    BY TypesNow
  <2>2. K \in CState /\ K.queue = A.queue
    <3>. HIDE DEF A
    <3>1. [A.ifs[i] EXCEPT !.key = keys[i]] \in Iface
      <4>1. A.ifs[i] \in Iface /\ keys[i] \in Nat
        BY <2>1, TypesNow DEF CState
      <4>. QED
        BY <4>1 DEF Iface
    <3>. QED
      BY <2>1, <3>1 DEF CState
  <2>3. Talks(A, B)
    <3>. HIDE DEF A, K
    <3>1. <<ConfigLport(K, i)>> \in Seq(LportMsg)
      BY <2>2, ConfigIsMsg
    <3>2. Talks(K, Send(K, <<ConfigLport(K, i)>>)) /\ Talks(A, K) /\ Talks(A, A)
      BY <2>1, <2>2, <3>1, SendTalks, TalksNothing
    <3>. QED
      BY <3>2, TalksTransitive
  <2>4. Talks(A, C)
    <3>. HIDE DEF A, B
    <3>1. B \in CState
      BY <2>3 DEF Talks
    <3>2. [B.ifs[i] EXCEPT !.link = links[i]] \in Iface
      <4>1. B.ifs[i] \in Iface /\ links[i] \in Nat
        BY <3>1, TypesNow DEF CState
      <4>. QED
        BY <4>1 DEF Iface
    <3>3. C \in CState /\ C.queue = B.queue
      BY <3>1, <3>2 DEF CState
    <3>. HIDE DEF C
    <3>. QED
      BY <2>3, <3>1, <3>3, TalksNothing, TalksTransitive
  <2>5. Talks(A, D)
    <3>. HIDE DEF A, C
    <3>1. C \in CState
      BY <2>4 DEF Talks
    <3>. QED
      BY <2>4, <3>1, TypesNow, UpdateEligibilityTalks, TalksTransitive
  <2>6. Talks(A, E)
    <3>. HIDE DEF A, C, D
    <3>. DEFINE s == <<LinkChange(D.ifs[i], i), LportChange(D.ifs[i], i)>>
    <3>1. D \in CState
      BY <2>5 DEF Talks
    <3>2. D.ifs[i] \in Iface
      BY <3>1 DEF CState
    <3>3. LinkChange(D.ifs[i], i) \in LportMsg /\ LportChange(D.ifs[i], i) \in LportMsg
      BY <3>2, OtherMsgs, ConfigAssumption
    <3>4. s \in Seq(LportMsg)
      BY <3>3
    <3>. HIDE DEF s
    <3>5. Talks(A, Send(D, s))
      BY <2>5, <3>1, <3>4, SendTalks, TalksTransitive
    <3>. QED
      BY <2>5, <3>5 DEF s
  <2>7. /\ Becomes(IF links[i] # ifs[i].link THEN E ELSE B) /\ Walk("run", i)
        /\ UNCHANGED <<lag_id, pool, sports, lports, call, rows, keys, links, budget, changed, recent>>
    BY <1>2 DEF update_interface, table, proto
  <2>. HIDE DEF A, B, E
  <2>8. State' \in CState /\ Spoken
    BY <2>3, <2>6, <2>7, BecomesSpeaks DEF A
  <2>9. task' \in Task
    BY <2>7, WalkTyped DEF QueueInv
  <2>. QED
    BY <2>7, <2>8, <2>9, TypesNow, TalkStep
<1>. QED
  BY <1>1, <1>2

\* The passes over the members of a LAG.
LEMMA MembersTyped ==
    ASSUME QueueInv, NEW i \in Ifaces,
           RemoveMember(i) \/ MakeIneligible(i) \/ AddMember(i) \/ UpdateMember(i)
    PROVE  Typed' /\ Order'
<1>. DEFINE p == task.port
<1>1. /\ UNCHANGED <<lag_id, pool, sports, lports, call, rows, keys, links, budget, changed>>
      /\ task' \in Task /\ p \in Lags
  <2>1. Walk("removed", i) \/ Walk("mode", i) \/ Walk("added", i) \/ Walk("eligible", i)
    BY DEF RemoveMember, MakeIneligible, AddMember, UpdateMember
  <2>2. task.at \in PortSteps
    BY <2>1 DEF Walk, PortSteps
  <2>. QED
    BY <2>1, <2>2, TypesNow, WalkTyped
    DEF QueueInv, RemoveMember, MakeIneligible, AddMember, UpdateMember, table, proto
<1>2. recent' \subseteq Ifaces
  BY TypesNow DEF RemoveMember, MakeIneligible, AddMember, UpdateMember
<1>3. State' \in CState /\ Spoken
  <2>1. CASE RemoveMember(i)
    <3>. DEFINE S == set_interface_lag_eligibility(State, p, i, FALSE)
                F == [S EXCEPT !.ifs[i].port = NoLag]
                X == IF i \in recent THEN update_interface_lag_eligibility(S, i)
                     ELSE Send(F, <<Overrides(i, "default")>>)
                Y == [X EXCEPT !.ports[p].cfg = @ \ {i}]
    <3>1. Talks(State, S)
      BY <1>1, TypesNow, SetEligibilityTalks
    <3>2. Becomes(Y)
      BY <2>1 DEF RemoveMember
    <3>. HIDE DEF S, p
    <3>3. S \in CState
      BY <3>1 DEF Talks
    <3>4. F \in CState /\ F.queue = S.queue
      <4>1. [S.ifs[i] EXCEPT !.port = NoLag] \in Iface
        BY <3>3 DEF CState, Iface
      <4>. QED
        BY <3>3, <4>1 DEF CState
    <3>. HIDE DEF F
    <3>5. Talks(S, X)
      <4>1. Overrides(i, "default") \in LportMsg
        BY ConfigAssumption DEF LportMsg, Overrides
      <4>2. <<Overrides(i, "default")>> \in Seq(LportMsg)
        BY <4>1
      <4>3. Talks(S, Send(F, <<Overrides(i, "default")>>))
        BY <3>3, <3>4, <4>2, SendTalks, TalksNothing, TalksTransitive
      <4>. QED
        BY <3>3, <4>3, TypesNow, UpdateEligibilityTalks
    <3>. HIDE DEF X
    <3>6. Y \in CState /\ Y.queue = X.queue /\ X \in CState
      <4>1. X \in CState
        BY <3>5 DEF Talks
      <4>2. [X.ports[p] EXCEPT !.cfg = @ \ {i}] \in LagPort
        BY <1>1, <4>1 DEF CState, LagPort
      <4>. QED
        BY <1>1, <4>1, <4>2 DEF CState
    <3>. HIDE DEF Y
    <3>7. Talks(State, Y)
      BY <3>1, <3>5, <3>6, TalksNothing, TalksTransitive
    <3>. QED
      BY <3>2, <3>7, BecomesSpeaks
  <2>2. CASE MakeIneligible(i)
    <3>1. Talks(State, set_interface_lag_eligibility(State, p, i, FALSE))
      BY <1>1, TypesNow, SetEligibilityTalks
    <3>. QED
      BY <2>2, <3>1, BecomesSpeaks DEF MakeIneligible
  <2>3. CASE AddMember(i)
    <3>1. Overrides(i, ports[p].sys) \in LportMsg
      BY <1>1, TypesNow DEF LportMsg, Overrides, LagPort
    <3>2. queue' = queue \o <<Overrides(i, ports[p].sys)>> /\ UNCHANGED hw
      BY <2>3, TypesNow DEF AddMember
    <3>3. <<Overrides(i, ports[p].sys)>> \in Seq(LportMsg) /\ queue' \in Seq(Message)
      BY <3>1, <3>2, TypesNow DEF Message
    <3>4. ports' \in [Lags -> LagPort]
      <4>0. ports[p] \in LagPort
        BY <1>1, TypesNow
      <4>1. [ports[p] EXCEPT !.cfg = @ \cup {i}] \in LagPort
        BY <4>0 DEF LagPort
      <4>. QED
        BY <2>3, <4>1, TypesNow DEF AddMember
    <3>5. ifs' \in [Ifaces -> Iface]
      <4>1. [ifs[i] EXCEPT !.port = p] \in Iface
        BY <1>1, TypesNow DEF Iface
      <4>. QED
        BY <2>3, <4>1, TypesNow DEF AddMember
    <3>. QED
      BY <3>2, <3>3, <3>4, <3>5, TypesNow, StateFieldsTypedNext DEF Spoken
  <2>4. CASE UpdateMember(i)
    <3>. DEFINE A == State
                T == [A EXCEPT !.ifs[i].fast = ports[p].fast]
                B == IF task.switched THEN Send(A, <<ConfigLport(A, i)>>)
                     ELSE IF task.timed THEN Send(T, <<LportChange(T.ifs[i], i)>>) ELSE A
    <3>1. Becomes(update_interface_lag_eligibility(B, i))
      BY <2>4 DEF UpdateMember
    <3>2. A \in CState /\ ports[p].fast \in BOOLEAN
      BY <1>1, TypesNow DEF LagPort
    <3>. HIDE DEF A
    <3>3. T \in CState /\ T.queue = A.queue
      <4>1. [A.ifs[i] EXCEPT !.fast = ports[p].fast] \in Iface
        BY <3>2 DEF CState, Iface
      <4>. QED
        BY <3>2, <4>1 DEF CState
    <3>. HIDE DEF T
    <3>4. Talks(A, B)
      <4>1. <<ConfigLport(A, i)>> \in Seq(LportMsg)
        BY <3>2, ConfigIsMsg
      <4>2. T.ifs[i] \in Iface
        BY <3>3 DEF CState
      <4>3. LportChange(T.ifs[i], i) \in LportMsg
        BY <4>2 DEF LportChange, LportMsg, Iface
      <4>4. <<LportChange(T.ifs[i], i)>> \in Seq(LportMsg)
        BY <4>3
      <4>5. Talks(A, Send(T, <<LportChange(T.ifs[i], i)>>))
        BY <3>2, <3>3, <4>4, SendTalks, TalksNothing, TalksTransitive
      <4>6. Talks(A, Send(A, <<ConfigLport(A, i)>>)) /\ Talks(A, A)
        BY <3>2, <4>1, SendTalks, TalksNothing
      <4>. QED
        BY <4>5, <4>6
    <3>. HIDE DEF B
    <3>5. B \in CState
      BY <3>4 DEF Talks
    <3>6. Talks(A, update_interface_lag_eligibility(B, i))
      BY <3>4, <3>5, TypesNow, UpdateEligibilityTalks, TalksTransitive
    <3>. QED
      BY <3>1, <3>6, BecomesSpeaks DEF A
  <2>. QED
    BY <2>1, <2>2, <2>3, <2>4
<1>. QED
  BY <1>1, <1>2, <1>3, TypesNow, TalkStep

\* What is said of each member in turn, in any order.
LEMMA EachIsSpoken ==
    ASSUME NEW M, M \subseteq Ifaces, NEW o \in Orders(M), NEW y \in Systems, NEW b \in BOOLEAN
    PROVE  /\ ToEach(o, LAMBDA i : Overrides(i, y)) \in Seq(LportMsg)
           /\ ToEach(o, LAMBDA i : Fallback(i, b)) \in Seq(LportMsg)
<1>1. IsFiniteSet(M)
  BY ConfigAssumption, FS_Subset
<1>2. Cardinality(M) \in Nat
  BY <1>1, FS_CardinalityType
<1>3. o \in [1..Cardinality(M) -> M]
  BY DEF Orders
<1>4. \A k \in 1..Cardinality(M) : Overrides(o[k], y) \in LportMsg /\ Fallback(o[k], b) \in LportMsg
  BY <1>3 DEF Overrides, Fallback, LportMsg
<1>5. [k \in 1..Cardinality(M) |-> Overrides(o[k], y)] \in Seq(LportMsg)
  BY <1>2, <1>4
<1>6. [k \in 1..Cardinality(M) |-> Fallback(o[k], b)] \in Seq(LportMsg)
  BY <1>2, <1>4
<1>. QED
  BY <1>3, <1>5, <1>6 DEF ToEach

\* A super port is spoken of, after what is said of ports: the one whose id is given
\* to a LAG or taken from it.
LEMMA SportTalk ==
    ASSUME Order, queue \in Seq(Message), NEW s \in Seq(LportMsg), NEW id \in LagIds,
           NEW m \in Message, NEW l \in Message, Concerns(m, id), Concerns(l, id),
           NEW b \in Stages, Passes(m, IF id \in pool THEN "set" ELSE "none", b),
           Passes(l, b, IF id \in pool' THEN "set" ELSE "none"),
           queue' = (queue \o s) \o <<m, l>>, UNCHANGED sports,
           \A d \in LagIds \ {id} : d \in pool' <=> d \in pool
    PROVE  Order'
<1>. DEFINE q == queue \o s
<1>1. q \in Seq(Message) /\ <<m, l>> \in Seq(Message)
  <2>1. s \in Seq(Message)
    BY SpeechPasses
  <2>. QED
    BY <2>1
<1>2. ASSUME NEW d \in LagIds PROVE Orderly(q, sports[d].state, d, d \in pool)
  <2>1. s \in Seq(Message) /\ \A k \in 1..Len(s) : ~Concerns(s[k], d)
    BY SpeechPasses
  <2>2. Orderly(queue, sports[d].state, d, d \in pool)
    BY DEF Order
  <2>. QED
    BY <2>1, <2>2, OrderlyPasses
<1>. HIDE DEF q
<1>3. ASSUME NEW d \in LagIds, d # id
      PROVE  Orderly(q \o <<m, l>>, sports[d].state, d, d \in pool')
  <2>1. ~Concerns(m, d) /\ ~Concerns(l, d)
    BY <1>3 DEF Concerns
  <2>2. \A k \in 1..Len(<<m, l>>) : ~Concerns(<<m, l>>[k], d)
    BY <2>1
  <2>3. Orderly(q \o <<m, l>>, sports[d].state, d, d \in pool)
    BY <1>1, <1>2, <2>2, OrderlyPasses
  <2>. QED
    BY <1>3, <2>3 DEF Orderly
<1>4. Orderly(q \o <<m, l>>, sports[id].state, id, id \in pool')
  <2>1. PICK g : /\ Path(q, g, id) /\ Meets(sports[id].state, g[0])
                 /\ g[Len(q)] = IF id \in pool THEN "set" ELSE "none"
    BY <1>2 DEF Orderly
  <2>. DEFINE c == IF id \in pool' THEN "set" ELSE "none"
  <2>2. c \in Stages /\ Passes(m, g[Len(q)], b) /\ Passes(l, b, c)
    BY <2>1 DEF Stages
  <2>. HIDE DEF c
  <2>3. PICK h : /\ Path(q \o <<m, l>>, h, id) /\ h[0] = g[0] /\ h[Len(q \o <<m, l>>)] = c
    BY <1>1, <2>1, <2>2, PathGrows
  <2>. QED
    BY <2>1, <2>3 DEF Orderly, c
<1>5. \A d \in LagIds : Orderly(q \o <<m, l>>, sports[d].state, d, d \in pool')
  BY <1>3, <1>4
<1>. QED
  BY <1>5 DEF Order, q

\* The two messages of a LAG that gets an id, and of one that loses it.
LEMMA LifeMsgs ==
    ASSUME NEW id \in LagIds, NEW p \in Lags
    PROVE  /\ \A t \in {"create", "params", "unparams", "delete"} :
                 LagMsg(t, id, p) \in Message /\ Concerns(LagMsg(t, id, p), id)
           /\ Passes(LagMsg("create", id, p), "none", "new")
           /\ Passes(LagMsg("params", id, p), "new", "set")
           /\ Passes(LagMsg("unparams", id, p), "set", "unset")
           /\ Passes(LagMsg("delete", id, p), "unset", "none")
<1>1. \A t \in {"create", "params", "unparams", "delete"} :
         LagMsg(t, id, p) \in SportMsg /\ LagMsg(t, id, p).lag = id /\ LagMsg(t, id, p).type = t
  BY DEF LagMsg, SportMsg
<1>. QED
  BY <1>1 DEF Message, Concerns, Passes

\* LACP is turned on, or not, for want of an id.
LEMMA GainsId ==
    ASSUME QueueInv, NEW p \in Lags, NEW s \in Seq(LportMsg), NEW id,
           id = 0 \/ id \in LagIds \ pool,
           queue' = queue \o s \o (IF id = 0 THEN <<>>
                                   ELSE <<LagMsg("create", id, p), LagMsg("params", id, p)>>),
           pool' = IF id = 0 THEN pool ELSE pool \cup {id}, UNCHANGED sports
    PROVE  queue' \in Seq(Message) /\ Order'
<1>1. queue \in Seq(Message) /\ s \in Seq(Message)
  BY TypesNow, SpeechPasses
<1>2. CASE id = 0
  <2>1. (queue \o s) \o <<>> = queue \o s
    BY <1>1, ConcatEmptySeq
  <2>2. queue' = queue \o s /\ pool' = pool
    BY <1>2, <2>1
  <2>3. Spoken
    BY <2>2 DEF Spoken
  <2>4. Order'
    BY <1>1, <2>2, <2>3, SpokenIsOrderly DEF QueueInv
  <2>. QED
    BY <1>1, <2>2, <2>4
<1>3. CASE id # 0
  <2>. DEFINE m == LagMsg("create", id, p)
              l == LagMsg("params", id, p)
  <2>1. id \in LagIds /\ id \notin pool /\ pool' = pool \cup {id}
    BY <1>3
  <2>2. queue' = (queue \o s) \o <<m, l>>
    BY <1>3
  <2>3. /\ m \in Message /\ l \in Message /\ Concerns(m, id) /\ Concerns(l, id)
        /\ Passes(m, "none", "new") /\ Passes(l, "new", "set")
    BY <2>1, LifeMsgs
  <2>. HIDE DEF m, l
  <2>4. "new" \in Stages
    BY DEF Stages
  <2>5. Order'
    BY <1>1, <2>1, <2>2, <2>3, <2>4, SportTalk DEF QueueInv
  <2>. QED
    BY <1>1, <2>2, <2>3, <2>5
<1>. QED
  BY <1>2, <1>3

\* A LAG with an id loses it; one without has nothing to lose.
LEMMA LosesId ==
    ASSUME QueueInv, NEW p \in Lags, NEW s \in Seq(LportMsg), NEW id, id = lag_id[p],
           queue' = queue \o s \o (IF id = 0 THEN <<>>
                                   ELSE <<LagMsg("unparams", id, p), LagMsg("delete", id, p)>>),
           pool' = pool \ {id}, UNCHANGED sports
    PROVE  queue' \in Seq(Message) /\ Order'
<1>1. queue \in Seq(Message) /\ s \in Seq(Message)
  BY TypesNow, SpeechPasses
<1>2. id \in 0..MaxLagId /\ pool \subseteq LagIds /\ 0 \notin LagIds
  BY TypesNow, ConfigAssumption DEF LagIds, QueueInv, Typed, TypedCache
<1>3. CASE id = 0
  <2>1. (queue \o s) \o <<>> = queue \o s
    BY <1>1, ConcatEmptySeq
  <2>2. queue' = queue \o s /\ pool' = pool
    BY <1>2, <1>3, <2>1
  <2>3. Spoken
    BY <2>2 DEF Spoken
  <2>4. Order'
    BY <1>1, <2>2, <2>3, SpokenIsOrderly DEF QueueInv
  <2>. QED
    BY <1>1, <2>2, <2>4
<1>4. CASE id # 0
  <2>. DEFINE m == LagMsg("unparams", id, p)
              l == LagMsg("delete", id, p)
  <2>1. id \in LagIds
    BY <1>2, <1>4, ConfigAssumption DEF LagIds
  <2>2. id \in pool
    BY <1>4 DEF QueueInv, LagInv, LagIdsAreExclusive
  <2>3. queue' = (queue \o s) \o <<m, l>>
    BY <1>4
  <2>4. /\ m \in Message /\ l \in Message /\ Concerns(m, id) /\ Concerns(l, id)
        /\ Passes(m, "set", "unset") /\ Passes(l, "unset", "none")
    BY <2>1, LifeMsgs
  <2>. HIDE DEF m, l
  <2>5. "unset" \in Stages
    BY DEF Stages
  <2>6. Order'
    BY <1>1, <2>1, <2>2, <2>3, <2>4, <2>5, SportTalk DEF QueueInv
  <2>. QED
    BY <1>1, <2>3, <2>4, <2>6
<1>. QED
  BY <1>3, <1>4

\* The LAG of the run changes its mode.
LEMMA ModesTyped == ASSUME QueueInv, TurnOn \/ SwitchMode \/ TurnOff PROVE Typed' /\ Order'
<1>. DEFINE p == task.port
<1>1. p \in Lags
  BY TypesNow DEF TurnOn, SwitchMode, TurnOff, PortSteps
<1>2. ports[p] \in LagPort /\ rows[p] \in Row
  BY <1>1, TypesNow
<1>3. /\ UNCHANGED <<hw, ifs, recent, sports, lports, call, rows, keys, links, budget, changed>>
      /\ task' \in {ToAdded(p, TRUE, FALSE), ToAdded(p, TRUE, TRUE)}
      /\ ports' \in {[ports EXCEPT ![p].mode = rows[p].lacp], [ports EXCEPT ![p].mode = "off"]}
  BY DEF TurnOn, SwitchMode, TurnOff, table, proto
<1>4. task' \in Task
  <2>1. rows[p].members \ ports[p].cfg \subseteq Ifaces
    BY <1>2 DEF Row
  <2>. HIDE DEF p
  <2>. QED
    BY <1>3, <2>1, TypesNow DEF ToAdded, Task
<1>5. ports' \in [Lags -> LagPort]
  <2>1. rows[p].lacp \in Modes /\ "off" \in Modes
    BY <1>2 DEF Row, Modes
  <2>2. [ports[p] EXCEPT !.mode = rows[p].lacp] \in LagPort /\ [ports[p] EXCEPT !.mode = "off"] \in LagPort
    BY <1>2, <2>1 DEF LagPort
  <2>. HIDE DEF p
  <2>. QED
    BY <1>1, <1>3, <2>2, TypesNow
<1>6. /\ queue' \in Seq(Message) /\ Order' /\ lag_id' \in [Lags -> 0..MaxLagId]
      /\ pool' \subseteq LagIds
  <2>0. ports[p].cfg \subseteq Ifaces /\ ports[p].sys \in Systems /\ pool \subseteq LagIds
        /\ lag_id \in [Lags -> 0..MaxLagId] /\ 0 \in 0..MaxLagId /\ LagIds \subseteq 0..MaxLagId
    BY <1>2, ConfigAssumption DEF LagPort, QueueInv, Typed, TypedCache, LagIds
  <2>1. CASE TurnOn
    <3>. DEFINE id == alloc_lag_id
    <3>1. PICK o \in Orders(ports[p].cfg) :
             queue' = queue \o ToEach(o, LAMBDA i : Overrides(i, ports[p].sys))
                            \o (IF id = 0 THEN <<>>
                                ELSE <<LagMsg("create", id, p), LagMsg("params", id, p)>>)
      BY <2>1 DEF TurnOn
    <3>. DEFINE s == ToEach(o, LAMBDA i : Overrides(i, ports[p].sys))
    <3>2. s \in Seq(LportMsg)
      BY <2>0, EachIsSpoken
    <3>3. /\ pool' = IF id = 0 THEN pool ELSE pool \cup {id}
          /\ lag_id' = [lag_id EXCEPT ![p] = id] /\ UNCHANGED sports
      BY <2>1 DEF TurnOn, proto
    <3>4. id = 0 \/ id \in LagIds \ pool
      BY AllocatesFree
    <3>5. queue' = queue \o s \o (IF id = 0 THEN <<>>
                                  ELSE <<LagMsg("create", id, p), LagMsg("params", id, p)>>)
      BY <3>1
    <3>. HIDE DEF id, s, p
    <3>6. queue' \in Seq(Message) /\ Order'
      BY <1>1, <3>2, <3>3, <3>4, <3>5, GainsId
    <3>. QED
      BY <2>0, <3>3, <3>4, <3>6
  <2>2. CASE TurnOff
    <3>. DEFINE id == lag_id[p]
    <3>1. PICK o \in Orders(ports[p].cfg) :
             queue' = queue \o ToEach(o, LAMBDA i : Overrides(i, "default"))
                            \o (IF id = 0 THEN <<>>
                                ELSE <<LagMsg("unparams", id, p), LagMsg("delete", id, p)>>)
      BY <2>2 DEF TurnOff
    <3>. DEFINE s == ToEach(o, LAMBDA i : Overrides(i, "default"))
    <3>2. s \in Seq(LportMsg)
      BY <2>0, EachIsSpoken, ConfigAssumption
    <3>3. /\ pool' = pool \ {id}
          /\ lag_id' = [lag_id EXCEPT ![p] = 0] /\ UNCHANGED sports
      BY <2>2 DEF TurnOff, proto
    <3>4. id = lag_id[p]
      OBVIOUS
    <3>5. queue' = queue \o s \o (IF id = 0 THEN <<>>
                                  ELSE <<LagMsg("unparams", id, p), LagMsg("delete", id, p)>>)
      BY <3>1
    <3>. HIDE DEF id, s, p
    <3>6. queue' \in Seq(Message) /\ Order'
      BY <1>1, <3>2, <3>3, <3>4, <3>5, LosesId
    <3>. QED
      BY <2>0, <3>3, <3>6
  <2>3. CASE SwitchMode
    <3>1. UNCHANGED <<queue, pool, sports, lag_id>>
      BY <2>3 DEF SwitchMode, proto
    <3>. QED
      BY <2>0, <3>1, TypesNow, SilenceIsOrderly DEF QueueInv
  <2>. QED
    BY <2>1, <2>2, <2>3
<1>7. State' \in CState
  BY <1>3, <1>5, <1>6, TypesNow, StateFieldsTypedNext
<1>8. TypedTable' /\ TypedCache' /\ TypedProto'
  BY <1>3, <1>4, <1>6, <1>7 DEF QueueInv, Typed, TypedTable, TypedCache, TypedProto, CallOK
<1>. QED
  BY <1>6, <1>8 DEF Typed

\* A LAG is taken into all_ports, or out of it, or its handling starts or ends.
LEMMA EntriesTyped ==
    ASSUME QueueInv, NEW p \in Lags, del_old_port(p) \/ add_new_port(p) PROVE Typed' /\ Order'
<1>1. /\ UNCHANGED <<hw, recent, task, sports, lports, call, rows, keys, links, budget, changed>>
  BY DEF del_old_port, add_new_port, table, proto
<1>2. rows[p] \in Row /\ ports[p] \in LagPort /\ NoPort \in LagPort
  BY TypesNow, ConfigAssumption DEF NoPort, LagPort, Modes
<1>3. ports' \in [Lags -> LagPort]
  <2>1. [NoPort EXCEPT !.cached = TRUE, !.cfg = rows[p].members] \in LagPort
    BY <1>2 DEF NoPort, LagPort, Row
  <2>. QED
    BY <1>2, <2>1, TypesNow DEF del_old_port, add_new_port
<1>4. ifs' \in [Ifaces -> Iface]
  <2>1. \A i \in Ifaces : ifs[i] \in Iface
    BY TypesNow
  <2>2. \A i \in Ifaces : [ifs[i] EXCEPT !.port = NoLag] \in Iface /\ [ifs[i] EXCEPT !.port = p] \in Iface
    BY <2>1 DEF Iface
  <2>3. ifs' = [i \in Ifaces |-> IF i \in ports[p].cfg THEN [ifs[i] EXCEPT !.port = NoLag] ELSE ifs[i]]
        \/ ifs' = [i \in Ifaces |-> IF i \in rows[p].members THEN [ifs[i] EXCEPT !.port = p] ELSE ifs[i]]
    BY DEF del_old_port, add_new_port
  <2>. QED
    BY <2>1, <2>2, <2>3
<1>5. /\ queue' \in Seq(Message) /\ Order' /\ lag_id' \in [Lags -> 0..MaxLagId]
      /\ pool' \subseteq LagIds
  <2>0. pool \subseteq LagIds /\ lag_id \in [Lags -> 0..MaxLagId] /\ 0 \in 0..MaxLagId
    BY ConfigAssumption DEF QueueInv, Typed, TypedCache
  <2>1. CASE del_old_port(p)
    <3>. DEFINE id == lag_id[p]
                w == IF id = 0 THEN <<>>
                     ELSE <<LagMsg("unparams", id, p), LagMsg("delete", id, p)>>
    <3>1. /\ pool' = pool \ {id} /\ lag_id' = [lag_id EXCEPT ![p] = 0] /\ UNCHANGED sports
          /\ queue' = IF id = 0 THEN queue ELSE queue \o w
      BY <2>1 DEF del_old_port, proto
    <3>2. queue \in Seq(Message) /\ <<>> \in Seq(LportMsg)
      BY TypesNow
    <3>3. queue \o <<>> = queue
      BY <3>2, ConcatEmptySeq
    <3>4. queue' = queue \o <<>> \o w
      BY <3>1, <3>3
    <3>5. id = lag_id[p]
      OBVIOUS
    <3>6. queue' = queue \o <<>> \o (IF id = 0 THEN <<>>
                     ELSE <<LagMsg("unparams", id, p), LagMsg("delete", id, p)>>)
      BY <3>4
    <3>. HIDE DEF w, id
    <3>7. queue' \in Seq(Message) /\ Order'
      BY <3>1, <3>2, <3>5, <3>6, LosesId
    <3>. QED
      BY <2>0, <3>1, <3>7
  <2>2. CASE add_new_port(p)
    <3>1. UNCHANGED <<queue, pool, sports, lag_id>>
      BY <2>2 DEF add_new_port, proto
    <3>. QED
      BY <2>0, <3>1, TypesNow, SilenceIsOrderly DEF QueueInv
  <2>. QED
    BY <2>1, <2>2
<1>6. State' \in CState
  BY <1>1, <1>3, <1>4, <1>5, TypesNow, StateFieldsTypedNext
<1>7. TypedTable' /\ TypedCache' /\ TypedProto'
  BY <1>1, <1>5, <1>6 DEF QueueInv, Typed, TypedTable, TypedCache, TypedProto, CallOK
<1>. QED
  BY <1>5, <1>7 DEF Typed

\* handle_port_config starts with a LAG.
LEMMA StartTyped == ASSUME QueueInv, NEW p \in Lags, StartPort(p) PROVE Typed' /\ Order'
<1>1. /\ UNCHANGED <<hw, ifs, queue, recent>>
      /\ UNCHANGED <<lag_id, pool, sports, lports, call, rows, keys, links, budget, changed>>
  BY DEF StartPort, table, proto
<1>2. ports[p] \in LagPort /\ rows[p] \in Row
  BY TypesNow
<1>3. ports' \in [Lags -> LagPort]
  <2>1. [ports[p] EXCEPT !.fast = rows[p].fast] \in LagPort
    BY <1>2 DEF LagPort, Row
  <2>. QED
    BY <2>1, TypesNow DEF StartPort
<1>4. task' \in Task
  <2>1. ports[p].cfg \ rows[p].members \subseteq Ifaces /\ (rows[p].fast # ports[p].fast) \in BOOLEAN
    BY <1>2 DEF LagPort
  <2>. QED
    BY <2>1, TypesNow DEF StartPort, Task
<1>5. State' \in CState /\ Spoken
  BY <1>1, <1>3, TypesNow, StateFieldsTypedNext, SilenceSpeaks
<1>. QED
  BY <1>1, <1>4, <1>5, TypesNow, TalkStep

\* The members of the LAG are told of its system id and its fallback flag.
LEMMA FinishSpeaks == ASSUME QueueInv, FinishPort PROVE Spoken /\ queue' \in Seq(Message)
<1>. DEFINE p == task.port
            P == ports[p]
            R == rows[p]
            toSys  == R.lacp # "off" /\ R.sys # P.sys
            toFall == R.lacp # "off" /\ (R.fallback # P.fallback \/ task.moded)
<1>1. p \in Lags
  BY TypesNow DEF FinishPort, PortSteps
<1>2. P \in LagPort /\ R \in Row
  BY <1>1, TypesNow
<1>3. PICK o1, o2 \in Orders(P.cfg) :
        queue' = queue
          \o (IF toSys THEN ToEach(o1, LAMBDA i : Overrides(i, R.sys)) ELSE <<>>)
          \o (IF toFall THEN ToEach(o2, LAMBDA i : Fallback(i, R.fallback)) ELSE <<>>)
  BY DEF FinishPort
<1>. DEFINE s == IF toSys THEN ToEach(o1, LAMBDA i : Overrides(i, R.sys)) ELSE <<>>
            t == IF toFall THEN ToEach(o2, LAMBDA i : Fallback(i, R.fallback)) ELSE <<>>
<1>4. P.cfg \subseteq Ifaces /\ R.sys \in Systems /\ R.fallback \in BOOLEAN
  BY <1>2 DEF LagPort, Row
<1>5. /\ ToEach(o1, LAMBDA i : Overrides(i, R.sys)) \in Seq(LportMsg)
      /\ ToEach(o2, LAMBDA i : Fallback(i, R.fallback)) \in Seq(LportMsg)
  BY <1>4, EachIsSpoken
<1>6. s \in Seq(LportMsg) /\ t \in Seq(LportMsg)
  BY <1>5
<1>7. queue' = (queue \o s) \o t
  BY <1>3
<1>. HIDE DEF s, t
<1>8. s \in Seq(Message) /\ t \in Seq(Message) /\ queue \in Seq(Message)
  BY <1>6, SpeechPasses, TypesNow
<1>9. s \o t \in Seq(LportMsg)
  BY <1>6
<1>10. queue' = queue \o (s \o t) /\ queue' \in Seq(Message)
  BY <1>7, <1>8, Associative
<1>. QED
  BY <1>9, <1>10 DEF Spoken

\* It ends with the overrides and the fallback flag.
LEMMA FinishTyped == ASSUME QueueInv, FinishPort PROVE Typed' /\ Order'
<1>. DEFINE p == task.port
            P == ports[p]
            R == rows[p]
            toSys  == R.lacp # "off" /\ R.sys # P.sys
            toFall == R.lacp # "off" /\ (R.fallback # P.fallback \/ task.moded)
<1>1. /\ UNCHANGED <<hw, ifs, recent>>
      /\ UNCHANGED <<lag_id, pool, sports, lports, call, rows, keys, links, budget, changed>>
  BY DEF FinishPort, table, proto
<1>2. p \in Lags
  BY TypesNow DEF FinishPort, PortSteps
<1>3. P \in LagPort /\ R \in Row
  BY <1>2, TypesNow
<1>4. ports' \in [Lags -> LagPort]
  <2>. DEFINE N == [P EXCEPT !.sys = IF toSys THEN R.sys ELSE @, !.fallback = IF toFall THEN R.fallback ELSE @]
  <2>1. N \in LagPort
    <3>. HIDE DEF P, R, toSys, toFall
    <3>. QED
      BY <1>3 DEF LagPort, Row
  <2>2. ports' = [ports EXCEPT ![p] = N]
    BY <1>2, TypesNow DEF FinishPort
  <2>. HIDE DEF N, p
  <2>. QED
    BY <1>2, <2>1, <2>2, TypesNow
<1>5. task' \in Task
  BY TypesNow DEF FinishPort, Idle, Task
<1>6. Spoken /\ queue' \in Seq(Message)
  BY FinishSpeaks
<1>7. State' \in CState
  BY <1>1, <1>4, <1>6, TypesNow, StateFieldsTypedNext
<1>. QED
  BY <1>1, <1>5, <1>6, <1>7, TypesNow, TalkStep

-----------------------------------------------------------------------------
(* The steps of the protocol thread and of the administrator. *)

Calls == [kind : {"none", "attach", "egress", "detach"}, iface : Ifaces \cup {NoLag},
          lag : 0..MaxLagId, allowed : BOOLEAN, at : {"write", "report", "done"}]

\* A step that leaves tables and caches alone but for the rows' flags.
LEMMA ProtoStep ==
    ASSUME QueueInv, State' \in CState, UNCHANGED <<table, lag_id, pool, recent, task>>,
           lports' \in [Ifaces -> Lport], call' \in Calls, CallOK',
           sports' \in [LagIds -> [state : {"none", "new", "set", "freed"}, key : Nat]]
    PROVE  Typed'
  BY DEF QueueInv, Typed, TypedTable, TypedCache, TypedProto, table, Calls

\* A hardware call is one of an interface and a LAG id, if any.
LEMMA CallTyped ==
    ASSUME QueueInv, NEW kind \in {"attach", "egress", "detach"}, NEW i \in Ifaces,
           NEW id \in 0..MaxLagId, call' = Call(kind, i, id)
    PROVE  call' \in Calls /\ CallOK'
<1>1. ifs[i].enabled \in BOOLEAN
  BY TypesNow DEF Iface
<1>. QED
  BY <1>1 DEF Call, Calls, CallOK

\* No call.
LEMMA NoCallTyped == ASSUME call' = NoCall PROVE call' \in Calls /\ CallOK'
<1>1. call' = [kind |-> "none", iface |-> NoLag, lag |-> 0, allowed |-> FALSE, at |-> "done"]
  BY DEF NoCall
<1>2. 0 \in 0..MaxLagId
  BY ConfigAssumption
<1>. QED
  BY <1>1, <1>2 DEF Calls, CallOK

\* Settle, for a typed port.
LEMMA SettleTyped ==
    ASSUME QueueInv, NEW i \in Ifaces, NEW l \in Lport, Settle(i, l)
    PROVE  lports' \in [Ifaces -> Lport] /\ call' \in Calls /\ CallOK'
<1>1. lports \in [Ifaces -> Lport]
  BY DEF QueueInv, Typed, TypedProto
<1>2. lports' \in [Ifaces -> Lport]
  BY <1>1 DEF Settle
<1>3. lports[i].trunk \in 0..MaxLagId
  BY <1>1 DEF Lport
<1>4. call' = Call("detach", i, lports[i].trunk) \/ call' = NoCall
  BY DEF Settle
<1>. QED
  BY <1>2, <1>3, <1>4, CallTyped, NoCallTyped

\* A port keeps its type, whatever message it gets.
LEMMA LportMessageTyped ==
    ASSUME QueueInv, NEW m \in Message, LportMessage(m)
    PROVE  lports' \in [Ifaces -> Lport] /\ call' \in Calls /\ CallOK'
<1>. DEFINE i == m.iface
            l == lports[i]
<1>0. lports \in [Ifaces -> Lport] /\ 0 \in 0..MaxLagId
  BY ConfigAssumption DEF QueueInv, Typed, TypedProto
<1>1. NoLport \in Lport
  BY <1>0, ConfigAssumption DEF NoLport, Lport, NoLag
<1>2. m.type \in {"config", "update", "link", "fallback", "overrides"} => i \in Ifaces
  BY DEF Message, LportMsg, SportMsg
<1>3. CASE m.type = "config"
  <2>1. m \in [type : {"config"}, iface : Ifaces, enabled : BOOLEAN, key : Nat, active : BOOLEAN,
               fast : BOOLEAN, link : Nat, sys : Systems]
    BY <1>3 DEF Message, LportMsg, SportMsg
  <2>2. Configured(m) \in Lport
    BY <1>0, <2>1 DEF Configured, Lport
  <2>3. Settle(i, IF m.enabled THEN Configured(m) ELSE NoLport)
    BY <1>3 DEF LportMessage
  <2>. QED
    BY <1>1, <1>2, <1>3, <2>2, <2>3, SettleTyped
<1>4. CASE m.type = "update"
  <2>1. m.fast \in BOOLEAN /\ i \in Ifaces
    BY <1>4 DEF Message, LportMsg, SportMsg
  <2>2. l \in Lport
    BY <1>0, <2>1
  <2>3. Settle(i, IF ~m.enabled THEN NoLport ELSE IF l.up THEN [l EXCEPT !.fast = m.fast] ELSE l)
    BY <1>4 DEF LportMessage
  <2>. HIDE DEF l
  <2>4. [l EXCEPT !.fast = m.fast] \in Lport
    BY <2>1, <2>2 DEF Lport
  <2>. QED
    BY <1>1, <2>1, <2>2, <2>3, <2>4, SettleTyped
<1>5. CASE m.type = "link"
  <2>1. m.link \in Nat /\ i \in Ifaces
    BY <1>5 DEF Message, LportMsg, SportMsg
  <2>2. l \in Lport
    BY <1>0, <2>1
  <2>3. Settle(i, IF ~l.up THEN l ELSE IF l.link = m.link THEN l
                  ELSE Untrunked([l EXCEPT !.link = m.link]))
    BY <1>5 DEF LportMessage
  <2>. HIDE DEF l
  <2>4. [l EXCEPT !.link = m.link] \in Lport
    BY <2>1, <2>2 DEF Lport
  <2>5. Untrunked([l EXCEPT !.link = m.link]) \in Lport
    <3>. DEFINE k == [l EXCEPT !.link = m.link]
    <3>. HIDE DEF k
    <3>1. k \in Lport => Untrunked(k) \in Lport
      BY <1>0 DEF Untrunked, Lport
    <3>. QED
      BY <2>4, <3>1 DEF k
  <2>. QED
    BY <2>1, <2>2, <2>3, <2>5, SettleTyped
<1>6. CASE m.type = "fallback"
  <2>1. m.on \in BOOLEAN /\ i \in Ifaces
    BY <1>6 DEF Message, LportMsg, SportMsg
  <2>2. l \in Lport
    BY <1>0, <2>1
  <2>3. Settle(i, IF l.up THEN [l EXCEPT !.fallback = m.on] ELSE l)
    BY <1>6 DEF LportMessage
  <2>. HIDE DEF l
  <2>4. [l EXCEPT !.fallback = m.on] \in Lport
    BY <2>1, <2>2 DEF Lport
  <2>. QED
    BY <2>1, <2>2, <2>3, <2>4, SettleTyped
<1>7. CASE m.type = "overrides"
  <2>1. m.sys \in Systems /\ i \in Ifaces
    BY <1>7 DEF Message, LportMsg, SportMsg
  <2>2. l \in Lport
    BY <1>0, <2>1
  <2>3. Settle(i, IF l.up THEN [l EXCEPT !.sys = m.sys] ELSE l)
    BY <1>7 DEF LportMessage
  <2>. HIDE DEF l
  <2>4. [l EXCEPT !.sys = m.sys] \in Lport
    BY <2>1, <2>2 DEF Lport
  <2>. QED
    BY <2>1, <2>2, <2>3, <2>4, SettleTyped
<1>. QED
  BY <1>3, <1>4, <1>5, <1>6, <1>7 DEF LportMessage

\* A super port moves on as the message at the head of the queue says: it is at the
\* stage the message expects.
LEMMA SportMessageMeets ==
    ASSUME NEW m \in SportMsg, m.lag \in LagIds, SportMessage(m),
           sports \in [LagIds -> [state : {"none", "new", "set", "freed"}, key : Nat]],
           NEW a, NEW b, Passes(m, a, b), Meets(sports[m.lag].state, a)
    PROVE  Meets(sports'[m.lag].state, b)
<1>1. CASE m.type = "create"
  BY <1>1 DEF SportMessage, Passes, Meets
<1>2. CASE m.type = "params"
  BY <1>2 DEF SportMessage, Passes, Meets
<1>3. CASE m.type = "unparams"
  BY <1>3 DEF SportMessage, Passes, Meets
<1>4. CASE m.type = "delete"
  BY <1>4 DEF SportMessage, Passes, Meets
<1>. QED
  BY <1>1, <1>2, <1>3, <1>4 DEF Passes

\* The super ports after it.
LEMMA SportMessageTyped ==
    ASSUME NEW m \in Message, SportMessage(m),
           sports \in [LagIds -> [state : {"none", "new", "set", "freed"}, key : Nat]]
    PROVE  /\ m \in SportMsg /\ m.lag \in LagIds
           /\ sports' \in [LagIds -> [state : {"none", "new", "set", "freed"}, key : Nat]]
           /\ \A id \in LagIds \ {m.lag} : sports'[id] = sports[id]
<1>1. m.type \in {"create", "params", "unparams", "delete"}
  BY DEF SportMessage
<1>2. m \in SportMsg
  BY <1>1 DEF Message, LportMsg, SportMsg
<1>3. m.lag \in LagIds /\ m.key \in Nat
  BY <1>2, ConfigAssumption DEF SportMsg
<1>4. UNCHANGED sports
      \/ \E st \in {"none", "new", "set", "freed"}, key \in {NoLag, m.key} :
            sports' = [sports EXCEPT ![m.lag] = [state |-> st, key |-> key]]
  BY DEF SportMessage
<1>. QED
  BY <1>2, <1>3, <1>4 DEF NoLag

\* The protocol thread takes a message off the queue.
LEMMA ReceiveTyped == ASSUME QueueInv, Receive PROVE Typed' /\ Order'
<1>. DEFINE m == Head(queue)
            n == Tail(queue)
<1>0. /\ sports \in [LagIds -> [state : {"none", "new", "set", "freed"}, key : Nat]]
      /\ lports \in [Ifaces -> Lport] /\ call \in Calls /\ CallOK
  BY DEF QueueInv, Typed, TypedProto, Calls
<1>1. /\ queue \in Seq(Message) /\ queue # <<>> /\ queue' = n /\ UNCHANGED <<table, hw, cache>>
      /\ LportMessage(m) \/ SportMessage(m)
  BY TypesNow DEF Receive
<1>2. m \in Message /\ n \in Seq(Message)
  BY <1>1
<1>. HIDE DEF m
<1>3. State' \in CState /\ UNCHANGED <<table, lag_id, pool, recent, task>>
  <2>1. UNCHANGED <<ports, ifs, hw, lag_id, pool, recent, task>>
    BY <1>1 DEF cache
  <2>. QED
    BY <1>1, <1>2, <2>1, TypesNow, StateFieldsTypedNext
<1>4. ASSUME NEW id \in LagIds, NEW st, sports'[id].state = st,
             \A a, b : /\ Meets(sports[id].state, a)
                       /\ IF Concerns(m, id) THEN Passes(m, a, b) ELSE a = b
                       => Meets(st, b)
      PROVE  Orderly(n, st, id, id \in pool)
  <2>1. PICK g : /\ Path(queue, g, id) /\ Meets(sports[id].state, g[0])
                 /\ g[Len(queue)] = IF id \in pool THEN "set" ELSE "none"
    BY DEF QueueInv, Order, Orderly
  <2>2. /\ \E h : /\ Path(n, h, id) /\ h[0] = g[1] /\ h[Len(n)] = g[Len(queue)]
        /\ IF Concerns(m, id) THEN Passes(m, g[0], g[1]) ELSE g[1] = g[0]
    BY <1>1, <2>1, PathShrinks DEF m
  <2>3. PICK h : /\ Path(n, h, id) /\ h[0] = g[1] /\ h[Len(n)] = g[Len(queue)]
    BY <2>2
  <2>4. Meets(st, g[1])
    BY <1>4, <2>1, <2>2
  <2>. HIDE DEF n
  <2>. QED
    BY <2>1, <2>3, <2>4 DEF Orderly
<1>5. CASE LportMessage(m)
  <2>1. lports' \in [Ifaces -> Lport] /\ call' \in Calls /\ CallOK'
    BY <1>2, <1>5, LportMessageTyped
  <2>2. UNCHANGED sports
    BY <1>5 DEF LportMessage, Settle
  <2>3. \A id : ~Concerns(m, id)
    BY <1>5 DEF LportMessage, Concerns, SportMsg
  <2>4. \A id \in LagIds : Orderly(n, sports'[id].state, id, id \in pool)
    BY <1>4, <2>2, <2>3
  <2>5. Order'
    <3>. HIDE DEF n
    <3>. QED
      BY <1>1, <1>3, <2>4 DEF Order
  <2>. QED
    BY <1>0, <1>3, <2>1, <2>2, <2>5, ProtoStep
<1>6. CASE SportMessage(m)
  <2>1. /\ m \in SportMsg /\ m.lag \in LagIds
        /\ sports' \in [LagIds -> [state : {"none", "new", "set", "freed"}, key : Nat]]
        /\ \A id \in LagIds \ {m.lag} : sports'[id] = sports[id]
    BY <1>0, <1>2, <1>6, SportMessageTyped
  <2>2. UNCHANGED <<lports, call>>
    BY <1>6 DEF SportMessage
  <2>3. ASSUME NEW id \in LagIds PROVE Orderly(n, sports'[id].state, id, id \in pool)
    <3>1. CASE id = m.lag
      <4>1. Concerns(m, id)
        BY <2>1, <3>1 DEF Concerns
      <4>2. ASSUME NEW a, NEW b, Passes(m, a, b), Meets(sports[id].state, a)
            PROVE  Meets(sports'[id].state, b)
        BY <1>0, <1>6, <2>1, <3>1, <4>2, SportMessageMeets
      <4>. QED
        BY <1>4, <4>1, <4>2
    <3>2. CASE id # m.lag
      <4>1. ~Concerns(m, id) /\ sports'[id] = sports[id]
        BY <2>1, <3>2 DEF Concerns
      <4>. QED
        BY <1>4, <4>1
    <3>. QED
      BY <3>1, <3>2
  <2>4. Order'
    <3>. HIDE DEF n
    <3>. QED
      BY <1>1, <1>3, <2>3 DEF Order
  <2>5. call' \in Calls /\ CallOK' /\ lports' \in [Ifaces -> Lport]
    BY <1>0, <2>2 DEF CallOK
  <2>. QED
    BY <1>3, <2>1, <2>4, <2>5, ProtoStep
<1>. QED
  BY <1>1, <1>5, <1>6

\* The machines attach and detach, and the calls that follow write and report.
LEMMA MachinesTyped == ASSUME QueueInv, Machines \/ HardwareCall PROVE Typed' /\ Order'
<1>0. /\ sports \in [LagIds -> [state : {"none", "new", "set", "freed"}, key : Nat]]
      /\ lports \in [Ifaces -> Lport] /\ call \in Calls /\ CallOK /\ 0 \in 0..MaxLagId
      /\ LagIds \subseteq 0..MaxLagId
  BY ConfigAssumption DEF QueueInv, Typed, TypedProto, Calls, LagIds
<1>1. UNCHANGED <<table, lag_id, pool, recent, task, queue, sports, ifs>>
  BY DEF Machines, HardwareCall, Attach, Egress, Detach, Settle, CallWrites, CallReports, cache
<1>2. Order'
  BY <1>1, SilenceIsOrderly DEF QueueInv
<1>3. CASE Machines
  <2>1. PICK i \in Ifaces : Attach(i) \/ Egress(i) \/ Detach(i)
    BY <1>3 DEF Machines
  <2>. DEFINE l == lports[i]
  <2>2. l \in Lport /\ l.trunk \in 0..MaxLagId
    BY <1>0 DEF Lport
  <2>3. UNCHANGED <<hw, ports>>
    BY <1>3 DEF Machines, Attach, Egress, Detach, cache
  <2>4. State' \in CState
    BY <1>1, <2>3, TypesNow, StateFieldsTypedNext
  <2>5. lports' \in [Ifaces -> Lport] /\ call' \in Calls /\ CallOK'
    <3>1. CASE Attach(i)
      <4>1. PICK id \in LagIds : lports' = [lports EXCEPT ![i] = [l EXCEPT !.trunk = id]]
                                 /\ call' = Call("attach", i, id)
        BY <3>1 DEF Attach
      <4>. HIDE DEF l
      <4>2. [l EXCEPT !.trunk = id] \in Lport /\ id \in 0..MaxLagId
        BY <1>0, <2>2 DEF Lport
      <4>. QED
        BY <1>0, <4>1, <4>2, CallTyped
    <3>2. CASE Egress(i)
      <4>1. /\ lports' = [lports EXCEPT ![i] = [l EXCEPT !.egress = TRUE]]
            /\ call' = Call("egress", i, l.trunk)
        BY <3>2 DEF Egress
      <4>. HIDE DEF l
      <4>2. [l EXCEPT !.egress = TRUE] \in Lport
        BY <2>2 DEF Lport
      <4>. QED
        BY <1>0, <2>2, <4>1, <4>2, CallTyped
    <3>3. CASE Detach(i)
      <4>1. Untrunked(l) \in Lport /\ Settle(i, Untrunked(l))
        <5>1. Settle(i, Untrunked(l))
          BY <3>3 DEF Detach
        <5>. HIDE DEF l
        <5>2. Untrunked(l) \in Lport
          BY <1>0, <2>2 DEF Untrunked, Lport
        <5>. QED
          BY <5>1, <5>2
      <4>. QED
        BY <4>1, SettleTyped
    <3>. QED
      BY <2>1, <3>1, <3>2, <3>3
  <2>. QED
    BY <1>0, <1>1, <1>2, <2>4, <2>5, ProtoStep
<1>4. CASE CallWrites
  <2>1. call.iface \in Ifaces /\ call.kind \in {"attach", "egress", "detach"}
    BY <1>0, <1>4 DEF CallWrites, CallOK, Calls
  <2>2. hw' \in [Ifaces -> Flags]
    <3>. DEFINE f == hw[call.iface]
                w == CASE call.kind = "attach" -> [f EXCEPT !.rx = TRUE]
                       [] call.kind = "egress" -> [f EXCEPT !.tx = TRUE]
                       [] call.kind = "detach" -> [rx |-> FALSE, tx |-> FALSE]
    <3>1. f \in Flags
      BY <2>1, TypesNow
    <3>2. hw' = [hw EXCEPT ![call.iface] = w]
      BY <1>4 DEF CallWrites
    <3>. HIDE DEF f
    <3>3. w \in Flags
      BY <2>1, <3>1 DEF Flags
    <3>. HIDE DEF w
    <3>. QED
      BY <2>1, <3>2, <3>3, TypesNow
  <2>3. call' \in Calls /\ CallOK'
    BY <1>0, <1>4, <2>1 DEF CallWrites, Calls, CallOK
  <2>4. UNCHANGED <<ports, lports>>
    BY <1>4 DEF CallWrites, cache
  <2>5. State' \in CState
    BY <1>1, <2>2, <2>4, TypesNow, StateFieldsTypedNext
  <2>. QED
    BY <1>0, <1>1, <1>2, <2>3, <2>4, <2>5, ProtoStep
<1>5. CASE CallReports
  <2>. DEFINE i == call.iface
  <2>1. i \in Ifaces
    BY <1>0, <1>5 DEF CallReports, CallOK, Calls
  <2>2. ports' \in [Lags -> LagPort]
    <3>1. \A p \in Lags : ports[p] \in LagPort
      BY TypesNow
    <3>2. \A p \in Lags : /\ [ports[p] EXCEPT !.participants = @ \cup {i}] \in LagPort
                          /\ [ports[p] EXCEPT !.participants = @ \ {i}] \in LagPort
      BY <2>1, <3>1 DEF LagPort
    <3>3. ports' = [p \in Lags |->
                        IF lag_id[p] # call.lag THEN ports[p]
                        ELSE CASE call.kind = "attach" -> [ports[p] EXCEPT !.participants = @ \cup {i}]
                               [] call.kind = "detach" -> [ports[p] EXCEPT !.participants = @ \ {i}]
                               [] OTHER -> ports[p]]
      BY <1>5 DEF CallReports
    <3>. QED
      BY <3>1, <3>2, <3>3
  <2>3. call' \in Calls /\ CallOK'
    BY <1>5, NoCallTyped DEF CallReports
  <2>4. UNCHANGED <<hw, lports>>
    BY <1>5 DEF CallReports
  <2>5. State' \in CState
    BY <1>1, <2>2, <2>4, TypesNow, StateFieldsTypedNext
  <2>. QED
    BY <1>0, <1>1, <1>2, <2>3, <2>4, <2>5, ProtoStep
<1>. QED
  BY <1>3, <1>4, <1>5 DEF HardwareCall

\* Nothing is left of what was under way when lacpd starts.
LEMMA FreshTyped ==
    ASSUME ports = [p \in Lags |-> NoPort], ifs = [i \in Ifaces |-> NoIface],
           hw \in [Ifaces -> Flags], queue = <<>>, lag_id = [p \in Lags |-> 0], pool = {},
           recent = {}, task = Idle, call = NoCall,
           sports = [id \in LagIds |-> NoSport], lports = [i \in Ifaces |-> NoLport]
    PROVE  TypedCache /\ TypedProto /\ Order
<1>0. 0 \in 0..MaxLagId /\ "default" \in Systems /\ <<>> \in Seq(Message) /\ NoLag \in Nat
  BY ConfigAssumption DEF NoLag
<1>1. NoPort \in LagPort /\ NoIface \in Iface /\ NoLport \in Lport
  <2>1. NoPort \in LagPort
    BY <1>0 DEF NoPort, LagPort, Modes
  <2>2. NoIface \in Iface
    BY <1>0 DEF NoIface, Iface
  <2>3. NoLport \in Lport
    BY <1>0 DEF NoLport, Lport
  <2>. QED
    BY <2>1, <2>2, <2>3
<1>2. State \in CState
  BY <1>0, <1>1, StateFieldsTyped
<1>3. Idle \in Task
  BY DEF Idle, Task
<1>4. TypedCache
  BY <1>0, <1>2, <1>3 DEF TypedCache
<1>5. NoSport \in [state : {"none", "new", "set", "freed"}, key : Nat]
  BY <1>0 DEF NoSport
<1>6. call \in [kind : {"none", "attach", "egress", "detach"},
                iface : Ifaces \cup {NoLag}, lag : 0..MaxLagId, allowed : BOOLEAN,
                at : {"write", "report", "done"}] /\ CallOK
  BY <1>0 DEF NoCall, CallOK
<1>7. TypedProto
  BY <1>1, <1>5, <1>6 DEF TypedProto
<1>8. ASSUME NEW id \in LagIds PROVE Orderly(<<>>, "none", id, FALSE)
  <2>. DEFINE g == [k \in 0..0 |-> "none"]
  <2>1. Len(<<>>) = 0 /\ g[0] = "none" /\ g \in [0..0 -> Stages]
    BY DEF Stages
  <2>2. 1..0 = {}
    OBVIOUS
  <2>. HIDE DEF g
  <2>3. Path(<<>>, g, id) /\ Meets("none", g[0]) /\ g[Len(<<>>)] = IF FALSE THEN "set" ELSE "none"
    BY <2>1, <2>2 DEF Path, Meets
  <2>. QED
    BY <2>3 DEF Orderly
<1>9. Order
  <2>1. \A id \in LagIds : sports[id].state = "none" /\ (id \in pool) = FALSE
    BY DEF NoSport
  <2>. QED
    BY <1>8, <2>1 DEF Order
<1>. QED
  BY <1>4, <1>7, <1>9

\* A command of the administrator, or a change of a link.
LEMMA EditTyped ==
    ASSUME QueueInv, NEW c, Edit(c), rows' \in [Lags -> Row], keys' \in [Ifaces -> Lags \cup {NoLag}],
           links' \in [Ifaces -> Speeds \cup {0}],
           changed' \in [ports : SUBSET Lags, ifs : SUBSET Ifaces]
    PROVE  Typed' /\ Order'
<1>1. UNCHANGED <<hw, cache, queue, proto>>
  BY DEF Edit
<1>2. budget' \in 0..MaxCommands
  BY ConfigAssumption DEF Edit, QueueInv, Typed, TypedTable
<1>3. TypedTable'
  BY <1>2 DEF TypedTable
<1>4. UNCHANGED State
  BY <1>1 DEF State, cache
<1>5. TypedCache' /\ TypedProto'
  BY <1>1, <1>4 DEF QueueInv, Typed, TypedCache, TypedProto, CallOK, cache, proto
<1>6. Order'
  BY <1>1, SilenceIsOrderly DEF QueueInv, cache, proto
<1>. QED
  BY <1>3, <1>5, <1>6 DEF Typed

\* The administrator, and a restart.
LEMMA AdministrationTyped == ASSUME QueueInv, Administration PROVE Typed' /\ Order'
<1>0. /\ rows \in [Lags -> Row] /\ keys \in [Ifaces -> Lags \cup {NoLag}]
      /\ links \in [Ifaces -> Speeds \cup {0}] /\ hw \in [Ifaces -> Flags]
      /\ changed \in [ports : SUBSET Lags, ifs : SUBSET Ifaces]
      /\ budget \in 0..MaxCommands
  BY TypesNow DEF QueueInv, Typed, TypedTable
<1>1. CASE Restart
  <2>1. /\ (ports = [p \in Lags |-> NoPort])' /\ (ifs = [i \in Ifaces |-> NoIface])'
        /\ (hw \in [Ifaces -> Flags])' /\ (queue = <<>>)' /\ (lag_id = [p \in Lags |-> 0])'
        /\ (pool = {})' /\ (recent = {})' /\ (task = Idle)' /\ (call = NoCall)'
        /\ (sports = [id \in LagIds |-> NoSport])' /\ (lports = [i \in Ifaces |-> NoLport])'
    BY <1>0, <1>1 DEF Restart, Started
  <2>2. TypedCache' /\ TypedProto' /\ Order'
    BY <2>1, FreshTyped, PTL
  <2>3. TypedTable'
    BY <1>0, <1>1, ConfigAssumption DEF TypedTable, Restart, Started
  <2>. QED
    BY <2>2, <2>3 DEF Typed
<1>2. ASSUME NEW p \in Lags, NEW c, NEW row \in Row, EditPort(c, p, row) PROVE Typed' /\ Order'
  <2>1. /\ rows' \in [Lags -> Row] /\ UNCHANGED <<keys, links>> /\ Edit(c)
        /\ changed' \in [ports : SUBSET Lags, ifs : SUBSET Ifaces]
    BY <1>0, <1>2 DEF EditPort
  <2>. QED
    BY <1>0, <2>1, EditTyped
<1>3. ASSUME NEW p \in Lags, vtysh_intf_link_aggregation(p) \/ delete_lag(p) PROVE Typed' /\ Order'
  <2>1. NoRow \in Row /\ [NoRow EXCEPT !.present = TRUE] \in Row
    BY ConfigAssumption DEF NoRow, Row, Modes
  <2>2. rows[p].members \subseteq Ifaces
    BY <1>0 DEF Row
  <2>3. /\ rows' \in [Lags -> Row] /\ UNCHANGED links /\ \E c : Edit(c)
        /\ changed' \in [ports : SUBSET Lags, ifs : SUBSET Ifaces]
    <3>1. rows' \in [Lags -> Row]
      BY <1>0, <1>3, <2>1 DEF vtysh_intf_link_aggregation, delete_lag
    <3>2. UNCHANGED links
      BY <1>3 DEF vtysh_intf_link_aggregation, delete_lag
    <3>3. \E c : Edit(c)
      BY <1>3 DEF vtysh_intf_link_aggregation, delete_lag
    <3>4. changed' \in [ports : SUBSET Lags, ifs : SUBSET Ifaces]
      BY <1>0, <1>3, <2>2 DEF vtysh_intf_link_aggregation, delete_lag
    <3>. QED
      BY <3>1, <3>2, <3>3, <3>4
  <2>4. keys' \in [Ifaces -> Lags \cup {NoLag}]
    BY <1>0, <1>3 DEF vtysh_intf_link_aggregation, delete_lag
  <2>. QED
    BY <1>0, <2>3, <2>4, EditTyped
<1>4. ASSUME NEW p \in Lags, NEW mode \in Modes, lacp_set_mode(p, mode) PROVE Typed' /\ Order'
  <2>1. [rows[p] EXCEPT !.lacp = mode] \in Row
    BY <1>0 DEF Row
  <2>. QED
    BY <1>2, <1>4, <2>1 DEF lacp_set_mode
<1>5. ASSUME NEW p \in Lags, lacp_set_fallback(p) \/ lacp_set_heartbeat_rate(p) PROVE Typed' /\ Order'
  <2>1. [rows[p] EXCEPT !.fallback = ~@] \in Row /\ [rows[p] EXCEPT !.fast = ~@] \in Row
    BY <1>0 DEF Row
  <2>. QED
    BY <1>2, <1>5, <2>1 DEF lacp_set_fallback, lacp_set_heartbeat_rate
<1>6. ASSUME NEW p \in Lags, NEW sys \in Systems, SetSystemId(p, sys) PROVE Typed' /\ Order'
  <2>1. [rows[p] EXCEPT !.sys = sys] \in Row
    BY <1>0 DEF Row
  <2>. QED
    BY <1>2, <1>6, <2>1 DEF SetSystemId
<1>7. ASSUME NEW p \in Lags, NEW i \in Ifaces,
             lacp_add_intf_to_lag(p, i) \/ lacp_remove_intf_from_lag(p, i)
      PROVE  Typed' /\ Order'
  <2>1. \A q \in Lags : /\ rows[q] \in Row
                        /\ [rows[q] EXCEPT !.members = @ \cup {i}] \in Row
                        /\ [rows[q] EXCEPT !.members = @ \ {i}] \in Row
    BY <1>0 DEF Row
  <2>2. rows' \in [Lags -> Row]
    BY <1>0, <1>7, <2>1 DEF lacp_add_intf_to_lag, lacp_remove_intf_from_lag
  <2>3. /\ keys' \in [Ifaces -> Lags \cup {NoLag}] /\ UNCHANGED links /\ \E c : Edit(c)
        /\ changed' \in [ports : SUBSET Lags, ifs : SUBSET Ifaces]
    BY <1>0, <1>7 DEF lacp_add_intf_to_lag, lacp_remove_intf_from_lag
  <2>. QED
    BY <1>0, <2>2, <2>3, EditTyped
<1>8. ASSUME NEW i \in Ifaces, NEW link \in Speeds \cup {0}, LinkChanges(i, link) PROVE Typed' /\ Order'
  <2>1. /\ links' \in [Ifaces -> Speeds \cup {0}] /\ UNCHANGED <<rows, keys>> /\ Edit("link")
        /\ changed' \in [ports : SUBSET Lags, ifs : SUBSET Ifaces]
    BY <1>0, <1>8 DEF LinkChanges
  <2>. QED
    BY <1>0, <2>1, EditTyped
<1>. QED
  BY <1>1, <1>3, <1>4, <1>5, <1>6, <1>7, <1>8 DEF Administration

-----------------------------------------------------------------------------

\* Every step preserves the invariant.
LEMMA QueueNext == QueueInv /\ [Next]_vars => QueueInv'
<1>. SUFFICES ASSUME QueueInv, [Next]_vars PROVE Typed' /\ Order'
  BY LagNext DEF QueueInv
<1>1. CASE lacpd_run
  BY <1>1, PassesTyped, InterfacesTyped, MembersTyped, EntriesTyped, StartTyped, ModesTyped,
     FinishTyped DEF lacpd_run
<1>2. CASE UNCHANGED vars
  <2>1. UNCHANGED <<State, table, cache, proto, queue>>
    BY <1>2 DEF vars, State, cache
  <2>2. Typed'
    BY <2>1 DEF QueueInv, Typed, TypedTable, TypedCache, TypedProto, CallOK, table, cache, proto
  <2>3. Order'
    BY <2>1, SilenceIsOrderly DEF QueueInv, cache, proto
  <2>. QED
    BY <2>2, <2>3
<1>. QED
  BY <1>1, <1>2, ReceiveTyped, MachinesTyped, AdministrationTyped DEF Next

\* It holds at start-up.
LEMMA QueueInit == Init => QueueInv
<1>. SUFFICES ASSUME Init PROVE QueueInv
  OBVIOUS
<1>1. hw \in [Ifaces -> Flags]
  BY DEF Init, Flags
<1>2. TypedCache /\ TypedProto /\ Order
  BY <1>1, FreshTyped DEF Init
<1>3. rows \in [Lags -> Row]
  BY ConfigAssumption DEF Init
<1>4. keys \in [Ifaces -> Lags \cup {NoLag}]
  <2>1. \A i \in Ifaces : LET in == {p \in Lags : i \in rows[p].members}
                          IN  (IF in = {} THEN NoLag ELSE CHOOSE p \in in : TRUE) \in Lags \cup {NoLag}
    OBVIOUS
  <2>. QED
    BY <2>1 DEF Init
<1>5. TypedTable
  BY <1>3, <1>4, ConfigAssumption DEF TypedTable, Init
<1>. QED
  BY <1>2, <1>5, LagInit DEF QueueInv, Typed

\* TypeOK, for any tables, commands and restarts: every call of ovsdb_if.c and of the
\* handlers behind the queue leaves rows, caches, ports and super ports what they are.
THEOREM ConfigTypes == Spec => []TypeOK
<1>1. QueueInv => TypeOK
  BY TypedIsTypeOK DEF QueueInv
<1>. QED
  BY <1>1, QueueInit, QueueNext, PTL DEF Spec

\* A super port is created where there is none, configured when it is new, and deleted
\* when it exists.
LEMMA MessagesFit == ASSUME QueueInv PROVE SportMessagesFit
<1>. SUFFICES ASSUME queue # <<>>
              PROVE  LET m == Head(queue)
                     IN  /\ m.type = "create" => sports[m.lag].state \in {"none", "freed"}
                         /\ m.type = "params" => sports[m.lag].state = "new"
                         /\ m.type = "unparams" => sports[m.lag].state = "set"
                         /\ m.type = "delete" => sports[m.lag].state \in {"new", "set"}
  BY DEF SportMessagesFit
<1>. DEFINE m == Head(queue)
<1>1. queue \in Seq(Message)
  BY TypesNow
<1>2. m \in Message
  BY <1>1
<1>3. CASE m \in SportMsg
  <2>1. m.lag \in LagIds /\ Concerns(m, m.lag)
    BY <1>3 DEF SportMsg, Concerns
  <2>2. PICK g : Path(queue, g, m.lag) /\ Meets(sports[m.lag].state, g[0])
    BY <2>1 DEF QueueInv, Order, Orderly
  <2>3. Passes(m, g[0], g[1])
    BY <1>1, <2>1, <2>2, PathShrinks
  <2>. HIDE DEF m
  <2>. QED
    BY <2>2, <2>3 DEF Passes, Meets, m
<1>4. CASE m \in LportMsg
  <2>. HIDE DEF m
  <2>1. m.type \notin {"create", "params", "unparams", "delete"}
    BY <1>4 DEF LportMsg
  <2>. QED
    BY <2>1 DEF m
<1>. QED
  BY <1>2, <1>3, <1>4 DEF Message

\* However many ids are freed and given again while their messages wait, the protocol
\* thread creates a super port where there is none, configures the one that is new and
\* deletes one that exists.
THEOREM SportLifeInOrder == Spec => []SportMessagesFit
<1>. QED
  BY MessagesFit, QueueInit, QueueNext, PTL DEF Spec
=============================================================================

--------------------------- MODULE MachineProofs ---------------------------
(***************************************************************************)
(* Lemmas about the periodic machine, the mux machine, selection and the   *)
(* receive machine, for every value of the constants: they map ports to    *)
(* ports, what they leave alone, that every call of theirs keeps the       *)
(* invariant of the port, and where it leaves the receive machine.         *)
(*                                                                         *)
(* A port has 33 fields, too many for the provers to treat as a record     *)
(* set.  IsPort says the same as p \in Port through one quantifier over    *)
(* the field names, so that a step that updates some fields needs only     *)
(* their types.                                                            *)
(***************************************************************************)
EXTENDS ReceiveFsm, TLAPS

BooleanFields ==
    {"lacp_up", "port_enabled", "selected", "ready_n", "fallback", "hw_attached",
     "ntt", "sync", "collecting", "distributing", "paggregation", "psync",
     "pcollecting", "egress"}

Fields == BooleanFields \cup
    {"port_type", "recv", "mux", "periodic", "lag", "sport", "actor", "activity",
     "pactivity", "timeout", "ptimeout", "psystem", "pport", "current_while",
     "wait_while", "periodic_timer", "async_tx", "trunk", "out"}

FieldType(f) ==
    CASE f \in BooleanFields -> BOOLEAN
      [] f = "port_type" -> PortTypes
      [] f = "recv" -> RecvState
      [] f = "mux" -> MuxState
      [] f = "periodic" -> PeriodicState
      [] f = "lag" -> LagId \cup {NoLag}
      [] f = "sport" -> Aggregators \cup {NoSport}
      [] f = "actor" -> ActorSystems
      [] f \in {"activity", "pactivity"} -> Activity
      [] f \in {"timeout", "ptimeout"} -> Timeout
      [] f = "psystem" -> Systems \cup {NoSystem}
      [] f = "pport" -> PortIds \cup {NoPort}
      [] f \in {"current_while", "wait_while", "periodic_timer"} -> Nat
      [] f = "async_tx" -> 0..MAX_ASYNC_TX
      [] f = "trunk" -> SUBSET Aggregators
      [] f = "out" -> Seq(SentPdu)

IsPort(p) ==
    /\ p = [f \in Fields |-> p[f]]
    /\ \A f \in Fields : p[f] \in FieldType(f)

\* The name and the type of each field of lacp_per_port_variables_t.
LEMMA FieldFacts ==
    /\ \A f \in BooleanFields : f \in Fields /\ FieldType(f) = BOOLEAN
    /\ "port_type" \in Fields /\ FieldType("port_type") = PortTypes
    /\ "recv" \in Fields /\ FieldType("recv") = RecvState
    /\ "mux" \in Fields /\ FieldType("mux") = MuxState
    /\ "periodic" \in Fields /\ FieldType("periodic") = PeriodicState
    /\ "lag" \in Fields /\ FieldType("lag") = LagId \cup {NoLag}
    /\ "sport" \in Fields /\ FieldType("sport") = Aggregators \cup {NoSport}
    /\ "actor" \in Fields /\ FieldType("actor") = ActorSystems
    /\ "activity" \in Fields /\ FieldType("activity") = Activity
    /\ "pactivity" \in Fields /\ FieldType("pactivity") = Activity
    /\ "timeout" \in Fields /\ FieldType("timeout") = Timeout
    /\ "ptimeout" \in Fields /\ FieldType("ptimeout") = Timeout
    /\ "psystem" \in Fields /\ FieldType("psystem") = Systems \cup {NoSystem}
    /\ "pport" \in Fields /\ FieldType("pport") = PortIds \cup {NoPort}
    /\ "current_while" \in Fields /\ FieldType("current_while") = Nat
    /\ "wait_while" \in Fields /\ FieldType("wait_while") = Nat
    /\ "periodic_timer" \in Fields /\ FieldType("periodic_timer") = Nat
    /\ "async_tx" \in Fields /\ FieldType("async_tx") = 0..MAX_ASYNC_TX
    /\ "trunk" \in Fields /\ FieldType("trunk") = SUBSET Aggregators
    /\ "out" \in Fields /\ FieldType("out") = Seq(SentPdu)
  BY DEF Fields, BooleanFields, FieldType

\* The same, field by field.
Typed(p) ==
    /\ p = [f \in Fields |-> p[f]]
    /\ \A f \in BooleanFields : p[f] \in BOOLEAN
    /\ p.port_type \in PortTypes
    /\ p.recv \in RecvState
    /\ p.mux \in MuxState
    /\ p.periodic \in PeriodicState
    /\ p.lag \in LagId \cup {NoLag}
    /\ p.sport \in Aggregators \cup {NoSport}
    /\ p.actor \in ActorSystems
    /\ p.activity \in Activity
    /\ p.pactivity \in Activity
    /\ p.timeout \in Timeout
    /\ p.ptimeout \in Timeout
    /\ p.psystem \in Systems \cup {NoSystem}
    /\ p.pport \in PortIds \cup {NoPort}
    /\ p.current_while \in Nat
    /\ p.wait_while \in Nat
    /\ p.periodic_timer \in Nat
    /\ p.async_tx \in 0..MAX_ASYNC_TX
    /\ p.trunk \in SUBSET Aggregators
    /\ p.out \in Seq(SentPdu)

\* The quantified and the field-by-field form of a port's type agree.
LEMMA TypedIsPort ==
    ASSUME NEW p
    PROVE  Typed(p) <=> IsPort(p)
<1>1. ASSUME IsPort(p) PROVE Typed(p)
  BY <1>1, FieldFacts DEF IsPort, Typed
<1>2. ASSUME Typed(p) PROVE IsPort(p)
  <2>1. \A f \in BooleanFields : p[f] \in FieldType(f)
    BY <1>2, FieldFacts DEF Typed
  <2>2. \A f \in Fields \ BooleanFields : p[f] \in FieldType(f)
    BY <1>2, FieldFacts DEF Typed, Fields
  <2>. QED
    BY <1>2, <2>1, <2>2 DEF Typed, IsPort
<1>. QED
  BY <1>1, <1>2

\* IsPort is membership in the record set Port.
LEMMA PortShape ==
    ASSUME NEW p
    PROVE  p \in Port <=> IsPort(p)
<1>1. ASSUME p \in Port PROVE Typed(p)
  <2>1. p = [f \in Fields |-> p[f]]
    BY <1>1 DEF Port, Fields, BooleanFields
  <2>2. \A f \in BooleanFields : p[f] \in BOOLEAN
    BY <1>1 DEF Port, BooleanFields
  <2>3. /\ p.port_type \in PortTypes
        /\ p.recv \in RecvState
        /\ p.mux \in MuxState
        /\ p.periodic \in PeriodicState
        /\ p.lag \in LagId \cup {NoLag}
        /\ p.sport \in Aggregators \cup {NoSport}
        /\ p.actor \in ActorSystems
        /\ p.activity \in Activity
        /\ p.pactivity \in Activity
        /\ p.timeout \in Timeout
        /\ p.ptimeout \in Timeout
        /\ p.psystem \in Systems \cup {NoSystem}
        /\ p.pport \in PortIds \cup {NoPort}
        /\ p.current_while \in Nat
        /\ p.wait_while \in Nat
        /\ p.periodic_timer \in Nat
        /\ p.async_tx \in 0..MAX_ASYNC_TX
        /\ p.trunk \in SUBSET Aggregators
        /\ p.out \in Seq(SentPdu)
    BY <1>1 DEF Port
  <2>. QED
    BY <2>1, <2>2, <2>3 DEF Typed
<1>2. ASSUME Typed(p) PROVE p \in Port
  BY <1>2 DEF Typed, Port, Fields, BooleanFields
<1>. QED
  BY <1>1, <1>2, TypedIsPort

(***************************************************************************)
(* Updates of one to seven fields.                                         *)
(***************************************************************************)

\* Assigning one field of the port a value of its type keeps it a port.
LEMMA Set1 ==
    ASSUME NEW p, IsPort(p),
           NEW f1 \in Fields, NEW v1 \in FieldType(f1)
    PROVE  IsPort([p EXCEPT ![f1] = v1])
  BY DEF IsPort

\* Assigning two fields values of their types keeps it a port.
LEMMA Set2 ==
    ASSUME NEW p, IsPort(p),
           NEW f1 \in Fields, NEW v1 \in FieldType(f1),
           NEW f2 \in Fields, NEW v2 \in FieldType(f2)
    PROVE  IsPort([p EXCEPT ![f1] = v1, ![f2] = v2])
  BY DEF IsPort

\* Assigning three fields values of their types keeps it a port.
LEMMA Set3 ==
    ASSUME NEW p, IsPort(p),
           NEW f1 \in Fields, NEW v1 \in FieldType(f1),
           NEW f2 \in Fields, NEW v2 \in FieldType(f2),
           NEW f3 \in Fields, NEW v3 \in FieldType(f3)
    PROVE  IsPort([p EXCEPT ![f1] = v1, ![f2] = v2, ![f3] = v3])
  BY DEF IsPort

\* Assigning six fields values of their types keeps it a port.
LEMMA Set6 ==
    ASSUME NEW p, IsPort(p),
           NEW f1 \in Fields, NEW v1 \in FieldType(f1),
           NEW f2 \in Fields, NEW v2 \in FieldType(f2),
           NEW f3 \in Fields, NEW v3 \in FieldType(f3),
           NEW f4 \in Fields, NEW v4 \in FieldType(f4),
           NEW f5 \in Fields, NEW v5 \in FieldType(f5),
           NEW f6 \in Fields, NEW v6 \in FieldType(f6)
    PROVE  IsPort([p EXCEPT ![f1] = v1, ![f2] = v2, ![f3] = v3,
                             ![f4] = v4, ![f5] = v5, ![f6] = v6])
  BY DEF IsPort

\* Assigning seven fields values of their types keeps it a port.
LEMMA Set7 ==
    ASSUME NEW p, IsPort(p),
           NEW f1 \in Fields, NEW v1 \in FieldType(f1),
           NEW f2 \in Fields, NEW v2 \in FieldType(f2),
           NEW f3 \in Fields, NEW v3 \in FieldType(f3),
           NEW f4 \in Fields, NEW v4 \in FieldType(f4),
           NEW f5 \in Fields, NEW v5 \in FieldType(f5),
           NEW f6 \in Fields, NEW v6 \in FieldType(f6),
           NEW f7 \in Fields, NEW v7 \in FieldType(f7)
    PROVE  IsPort([p EXCEPT ![f1] = v1, ![f2] = v2, ![f3] = v3, ![f4] = v4,
                             ![f5] = v5, ![f6] = v6, ![f7] = v7])
  BY DEF IsPort

\* The fields of a port hold values of their types.
LEMMA FieldValues ==
    ASSUME NEW p, IsPort(p)
    PROVE  /\ \A f \in BooleanFields : p[f] \in BOOLEAN
           /\ p.mux \in MuxState
           /\ p.recv \in RecvState
           /\ p.periodic \in PeriodicState
           /\ p.sport \in Aggregators \cup {NoSport}
           /\ p.lag \in LagId \cup {NoLag}
           /\ p.async_tx \in 0..MAX_ASYNC_TX
           /\ p.current_while \in Nat
           /\ p.wait_while \in Nat
           /\ p.periodic_timer \in Nat
           /\ p.trunk \in SUBSET Aggregators
           /\ p.timeout \in Timeout
  BY FieldFacts DEF IsPort

(***************************************************************************)
(* What a call leaves alone, from the calls that change least to those     *)
(* that change most.                                                       *)
(***************************************************************************)

\* The link, the receive machine's state, what it believes of the partner's
\* synchronization, the fallback setting.
Link(p) == <<p.lacp_up, p.port_enabled, p.recv, p.psync, p.fallback>>

\* Who the port and its partner are, which names the LAG they form.
Peer(p) == <<p.actor, p.psystem, p.pport, p.paggregation, p.port_type>>

\* What only selection changes.
Choice(p) == <<p.selected, p.lag>>

\* What only the mux machine and selection change.
Place(p) == <<p.mux, p.sport, p.hw_attached, p.trunk, p.egress>>

SameButTx(p, q) ==
    /\ IsPort(q)
    /\ Link(q) = Link(p) /\ Peer(q) = Peer(p)
    /\ Choice(q) = Choice(p) /\ Place(q) = Place(p)
    /\ q.periodic = p.periodic

SameButPeriodic(p, q) ==
    /\ IsPort(q)
    /\ Link(q) = Link(p) /\ Peer(q) = Peer(p)
    /\ Choice(q) = Choice(p) /\ Place(q) = Place(p)

SameButPlace(p, q) ==
    /\ IsPort(q)
    /\ Link(q) = Link(p) /\ Peer(q) = Peer(p)
    /\ Choice(q) = Choice(p)
    /\ q.periodic = p.periodic

SameLink(p, q) ==
    /\ IsPort(q)
    /\ Link(q) = Link(p) /\ Peer(q) = Peer(p)
    /\ q.periodic = p.periodic

(***************************** transmission ********************************)

\* LACP_build_lacpdu_payload builds a LACPDU.
LEMMA BuildType ==
    ASSUME NEW p, IsPort(p)
    PROVE  LACP_build_lacpdu_payload(p) \in SentPdu
  BY FieldFacts DEF IsPort, LACP_build_lacpdu_payload, SentPdu, BooleanFields

\* LACP_sync_transmit_lacpdu changes only ntt and what is on the wire.
LEMMA SyncTransmit ==
    ASSUME NEW p, IsPort(p)
    PROVE  SameButTx(p, LACP_sync_transmit_lacpdu(p))
<1>. DEFINE pdu == LACP_build_lacpdu_payload(p)
<1>1. /\ "ntt" \in Fields /\ FALSE \in FieldType("ntt")
      /\ "out" \in Fields /\ Append(p.out, pdu) \in FieldType("out")
  <2>1. pdu \in SentPdu /\ p.out \in Seq(SentPdu)
    BY FieldFacts, BuildType DEF IsPort
  <2>. HIDE DEF pdu
  <2>2. Append(p.out, pdu) \in Seq(SentPdu)
    BY <2>1
  <2>. QED
    BY <2>2, FieldFacts DEF BooleanFields
<1>2. IsPort(LACP_sync_transmit_lacpdu(p))
  BY <1>1, Set1, Set2, Zenon DEF LACP_sync_transmit_lacpdu
<1>3. SameButTx(p, LACP_sync_transmit_lacpdu(p))
  BY <1>2 DEF IsPort, SameButTx, Link, Peer, Choice, Place, Fields, BooleanFields,
      LACP_sync_transmit_lacpdu
<1>. QED
  BY <1>3

\* LACP_async_transmit_lacpdu changes besides only its budget, and keeps within it.
LEMMA AsyncTransmit ==
    ASSUME NEW p, IsPort(p)
    PROVE  SameButTx(p, LACP_async_transmit_lacpdu(p))
<1>. DEFINE a == [p EXCEPT !.async_tx = @ + 1]
<1>1. CASE p.async_tx < MAX_ASYNC_TX
  <2>1. "async_tx" \in Fields /\ p.async_tx + 1 \in FieldType("async_tx")
    BY <1>1, FieldFacts, FieldValues, CountAssumption DEF Positive
  <2>2. IsPort(a)
    BY <2>1, Set1, Zenon
  <2>3. SameButTx(p, a)
    BY <2>2 DEF IsPort, SameButTx, Link, Peer, Choice, Place, Fields, BooleanFields
  <2>4. SameButTx(a, LACP_async_transmit_lacpdu(p))
    BY <1>1, <2>2, SyncTransmit DEF LACP_async_transmit_lacpdu
  <2>. QED
    BY <2>3, <2>4 DEF SameButTx
<1>2. CASE ~(p.async_tx < MAX_ASYNC_TX)
  BY <1>2 DEF SameButTx, LACP_async_transmit_lacpdu
<1>. QED
  BY <1>1, <1>2

\* So does setting ntt and transmitting, as the mux states do.
LEMMA Transmit ==
    ASSUME NEW p, IsPort(p)
    PROVE  SameButTx(p, NeedToTransmit(p))
<1>. DEFINE a == [p EXCEPT !.ntt = TRUE]
<1>1. "ntt" \in Fields /\ TRUE \in FieldType("ntt")
  BY FieldFacts DEF BooleanFields
<1>2. IsPort(a)
  BY <1>1, Set1, Zenon
<1>3. SameButTx(p, a)
  BY <1>2 DEF IsPort, SameButTx, Link, Peer, Choice, Place, Fields, BooleanFields
<1>4. SameButTx(a, NeedToTransmit(p))
  BY <1>2, AsyncTransmit DEF NeedToTransmit
<1>. QED
  BY <1>3, <1>4 DEF SameButTx

(************************ periodic transmission ****************************)

\* LACP_slow_periodic_state_action changes only the periodic machine.
LEMMA SlowPeriodic ==
    ASSUME NEW p, IsPort(p)
    PROVE  SameButPeriodic(p, LACP_slow_periodic_state_action(p))
<1>1. /\ "periodic" \in Fields /\ "SLOW_PERIODIC" \in FieldType("periodic")
      /\ "periodic_timer" \in Fields
      /\ SLOW_PERIODIC_COUNT \in FieldType("periodic_timer")
  BY FieldFacts, CountAssumption DEF PeriodicState, Positive
<1>2. IsPort(LACP_slow_periodic_state_action(p))
  BY <1>1, Set2, Zenon DEF LACP_slow_periodic_state_action
<1>. QED
  BY <1>2 DEF IsPort, SameButPeriodic, Link, Peer, Choice, Place, Fields, BooleanFields,
              LACP_slow_periodic_state_action

\* LACP_fast_periodic_state_action changes only the periodic machine.
LEMMA FastPeriodic ==
    ASSUME NEW p, IsPort(p)
    PROVE  SameButPeriodic(p, LACP_fast_periodic_state_action(p))
<1>. DEFINE a == [p EXCEPT !.periodic = "FAST_PERIODIC",
                           !.periodic_timer = FAST_PERIODIC_COUNT]
<1>1. /\ "periodic" \in Fields /\ "FAST_PERIODIC" \in FieldType("periodic")
      /\ "periodic_timer" \in Fields
      /\ FAST_PERIODIC_COUNT \in FieldType("periodic_timer")
  BY FieldFacts, CountAssumption DEF PeriodicState, Positive
<1>2. IsPort(a)
  BY <1>1, Set2, Zenon
<1>3. SameButPeriodic(p, a)
  BY <1>2 DEF IsPort, SameButPeriodic, Link, Peer, Choice, Place, Fields, BooleanFields
<1>. QED
  BY <1>3, SlowPeriodic DEF LACP_fast_periodic_state_action

\* LACP_no_periodic_state_action changes only the periodic machine; with the link
\* down it stays in NO_PERIODIC.
LEMMA NoPeriodic ==
    ASSUME NEW p, IsPort(p)
    PROVE  /\ SameButPeriodic(p, LACP_no_periodic_state_action(p))
           /\ ~p.port_enabled => LACP_no_periodic_state_action(p).periodic = "NO_PERIODIC"
<1>. DEFINE a == [p EXCEPT !.periodic = "NO_PERIODIC", !.periodic_timer = 0]
<1>1. /\ "periodic" \in Fields /\ "NO_PERIODIC" \in FieldType("periodic")
      /\ "periodic_timer" \in Fields /\ 0 \in FieldType("periodic_timer")
  BY FieldFacts DEF PeriodicState
<1>2. IsPort(a)
  BY <1>1, Set2, Zenon
<1>3. SameButPeriodic(p, a) /\ a.periodic = "NO_PERIODIC"
  BY <1>2 DEF IsPort, SameButPeriodic, Link, Peer, Choice, Place, Fields, BooleanFields
<1>. QED
  BY <1>3, FastPeriodic DEF LACP_no_periodic_state_action

\* LACP_periodic_tx_state_action changes only the periodic machine and what is sent.
LEMMA PeriodicTx ==
    ASSUME NEW p, IsPort(p)
    PROVE  SameButPeriodic(p, LACP_periodic_tx_state_action(p))
<1>. DEFINE a == [p EXCEPT !.periodic = "PERIODIC_TX", !.ntt = TRUE]
            b == LACP_sync_transmit_lacpdu(a)
<1>1. /\ "periodic" \in Fields /\ "PERIODIC_TX" \in FieldType("periodic")
      /\ "ntt" \in Fields /\ TRUE \in FieldType("ntt")
  BY FieldFacts DEF PeriodicState, BooleanFields
<1>2. IsPort(a)
  BY <1>1, Set2, Zenon
<1>3. SameButPeriodic(p, a)
  BY <1>2 DEF IsPort, SameButPeriodic, Link, Peer, Choice, Place, Fields, BooleanFields
<1>4. SameButTx(a, b)
  BY <1>2, SyncTransmit
<1>5. SameButPeriodic(b, LACP_periodic_tx_state_action(p))
  BY <1>4, FastPeriodic, NoPeriodic DEF LACP_periodic_tx_state_action, SameButTx
<1>. QED
  BY <1>3, <1>4, <1>5 DEF SameButPeriodic, SameButTx

\* Every periodic event, and the tick, changes only when LACPDUs are sent; only
\* E2 leaves NO_PERIODIC.
LEMMA PeriodicEvents ==
    ASSUME NEW p, IsPort(p)
    PROVE  /\ SameButPeriodic(p, PeriodicE1(p))
           /\ SameButPeriodic(p, PeriodicE2(p))
           /\ SameButPeriodic(p, PeriodicE3(p))
           /\ SameButPeriodic(p, PeriodicE4(p))
           /\ SameButPeriodic(p, PeriodicE6(p))
           /\ ~p.port_enabled => PeriodicE1(p).periodic = "NO_PERIODIC"
           /\ p.periodic = "NO_PERIODIC" =>
                PeriodicE3(p) = p /\ PeriodicE4(p) = p /\ PeriodicE6(p) = p
<1>1. SameButPeriodic(p, p)
  BY DEF SameButPeriodic
<1>2. SameButPeriodic(p, PeriodicE1(p))
  BY NoPeriodic DEF PeriodicE1
<1>3. SameButPeriodic(p, PeriodicE2(p))
  BY <1>1, FastPeriodic DEF PeriodicE2
<1>4. SameButPeriodic(p, PeriodicE3(p)) /\ SameButPeriodic(p, PeriodicE6(p))
  BY <1>1, PeriodicTx DEF PeriodicE3, PeriodicE6
<1>5. SameButPeriodic(p, PeriodicE4(p))
  BY <1>1, SlowPeriodic DEF PeriodicE4
<1>6. ~p.port_enabled => PeriodicE1(p).periodic = "NO_PERIODIC"
  BY NoPeriodic DEF PeriodicE1
<1>7. p.periodic = "NO_PERIODIC" =>
        PeriodicE3(p) = p /\ PeriodicE4(p) = p /\ PeriodicE6(p) = p
  BY DEF PeriodicE3, PeriodicE4, PeriodicE6
<1>. QED
  BY <1>2, <1>3, <1>4, <1>5, <1>6, <1>7

\* One second of the periodic timer changes only when LACPDUs are sent, and nothing
\* in NO_PERIODIC.
LEMMA PeriodicTick ==
    ASSUME NEW p, IsPort(p)
    PROVE  /\ SameButPeriodic(p, periodic_tx_timer_expiry(p))
           /\ p.periodic = "NO_PERIODIC" => periodic_tx_timer_expiry(p) = p
<1>. DEFINE a == [p EXCEPT !.periodic_timer = @ - 1, !.async_tx = 0]
<1>1. CASE p.periodic # "NO_PERIODIC" /\ p.periodic_timer > 0
  <2>1. /\ "periodic_timer" \in Fields
        /\ p.periodic_timer - 1 \in FieldType("periodic_timer")
        /\ "async_tx" \in Fields /\ 0 \in FieldType("async_tx")
    BY <1>1, FieldFacts, FieldValues, CountAssumption DEF Positive
  <2>2. IsPort(a)
    BY <2>1, Set2, Zenon
  <2>3. SameButPeriodic(p, a)
    BY <2>2 DEF IsPort, SameButPeriodic, Link, Peer, Choice, Place, Fields, BooleanFields
  <2>4. SameButPeriodic(a, a)
    BY <2>2 DEF SameButPeriodic
  <2>5. SameButPeriodic(a, PeriodicE3(a))
    BY <2>2, PeriodicEvents
  <2>6. SameButPeriodic(a, LACP_async_transmit_lacpdu(a))
    BY <2>2, AsyncTransmit DEF SameButPeriodic, SameButTx
  <2>7. SameButPeriodic(a, periodic_tx_timer_expiry(p))
    BY <1>1, <2>4, <2>5, <2>6 DEF periodic_tx_timer_expiry
  <2>. QED
    BY <1>1, <2>3, <2>7 DEF SameButPeriodic
<1>2. CASE ~(p.periodic # "NO_PERIODIC" /\ p.periodic_timer > 0)
  BY <1>2 DEF SameButPeriodic, periodic_tx_timer_expiry
<1>. QED
  BY <1>1, <1>2

(******************************** the mux **********************************)

\* In no trunk.
Out(p) == ~p.hw_attached /\ p.trunk = {} /\ ~p.egress

\* In the trunk of its own aggregator, or in none.
OwnTrunk(p) ==
    /\ p.trunk = IF p.hw_attached THEN {p.sport} ELSE {}
    /\ p.egress => p.hw_attached

\* LacpPort!TrunkFollowsMux, of any port.
TrunkOK(p) ==
    /\ p.hw_attached <=> p.mux \in Forwarding
    /\ p.trunk = IF p.mux \in Forwarding THEN {p.sport} ELSE {}
    /\ p.egress <=> p.mux = "COLLECTING_DISTRIBUTING"

\* How the three statements about the trunk follow from each other.
LEMMA TrunkForms ==
    ASSUME NEW p
    PROVE  /\ TrunkOK(p) => OwnTrunk(p)
           /\ TrunkOK(p) /\ p.mux \notin Forwarding => Out(p)
           /\ Out(p) /\ p.mux \notin Forwarding => TrunkOK(p)
  BY DEF TrunkOK, OwnTrunk, Out, Forwarding

\* enable_collecting puts a port that is in no trunk into that of its aggregator.
LEMMA EnableCollecting ==
    ASSUME NEW p, IsPort(p), Out(p), p.sport \in Aggregators
    PROVE  LET q == enable_collecting(p)
           IN  /\ SameButPlace(p, q)
               /\ q.mux = p.mux /\ q.sport = p.sport
               /\ q.hw_attached /\ q.trunk = {p.sport} /\ ~q.egress
<1>. DEFINE a == [p EXCEPT !.trunk = @ \cup {p.sport}, !.hw_attached = TRUE]
<1>1. /\ "trunk" \in Fields /\ p.trunk \cup {p.sport} \in FieldType("trunk")
      /\ "hw_attached" \in Fields /\ TRUE \in FieldType("hw_attached")
  BY FieldFacts, FieldValues DEF BooleanFields
<1>2. IsPort(a)
  BY <1>1, Set2, Zenon
<1>3. a = enable_collecting(p)
  BY DEF Out, enable_collecting
<1>4. /\ SameButPlace(p, a) /\ a.mux = p.mux /\ a.sport = p.sport
      /\ a.hw_attached /\ a.trunk = {p.sport} /\ ~a.egress
  BY <1>2 DEF IsPort, SameButPlace, Link, Peer, Choice, Fields, BooleanFields, Out
<1>. QED
  BY <1>3, <1>4

\* disable_collecting_distributing takes the port out of every trunk, provided that
\* the LAG it leaves, named by sport_handle, is the one it had joined.
LEMMA DisableCollecting ==
    ASSUME NEW p, IsPort(p), OwnTrunk(p)
    PROVE  LET q == disable_collecting_distributing(p)
           IN  /\ SameButPlace(p, q)
               /\ q.mux = p.mux /\ q.sport = p.sport
               /\ Out(q)
<1>. DEFINE a == [p EXCEPT !.trunk = @ \ {p.sport}, !.egress = FALSE,
                           !.hw_attached = FALSE]
<1>1. CASE p.hw_attached
  <2>1. /\ "trunk" \in Fields /\ p.trunk \ {p.sport} \in FieldType("trunk")
        /\ "egress" \in Fields /\ FALSE \in FieldType("egress")
        /\ "hw_attached" \in Fields /\ FALSE \in FieldType("hw_attached")
    BY FieldFacts, FieldValues DEF BooleanFields
  <2>2. IsPort(a)
    BY <2>1, Set3, Zenon
  <2>3. a = disable_collecting_distributing(p)
    BY <1>1 DEF disable_collecting_distributing
  <2>4. SameButPlace(p, a) /\ a.mux = p.mux /\ a.sport = p.sport /\ Out(a)
    BY <1>1, <2>2 DEF IsPort, SameButPlace, Link, Peer, Choice, Fields, BooleanFields,
        Out,
                      OwnTrunk
  <2>. QED
    BY <2>3, <2>4
<1>2. CASE ~p.hw_attached
  BY <1>2 DEF disable_collecting_distributing, SameButPlace, Out, OwnTrunk
<1>. QED
  BY <1>1, <1>2

\* Entering ATTACHED takes the port out of every trunk and keeps its aggregator.
LEMMA AttachedEntryLemma ==
    ASSUME NEW p, IsPort(p), OwnTrunk(p)
    PROVE  LET q == AttachedEntry(p)
           IN  /\ SameButPlace(p, q)
               /\ q.mux = "ATTACHED" /\ q.sport = p.sport
               /\ Out(q)
<1>. DEFINE a == [p EXCEPT !.mux = "ATTACHED", !.sync = TRUE, !.collecting = FALSE]
            b == disable_collecting_distributing(a)
            c == [b EXCEPT !.distributing = FALSE]
<1>1. /\ "mux" \in Fields /\ "ATTACHED" \in FieldType("mux")
      /\ "sync" \in Fields /\ TRUE \in FieldType("sync")
      /\ "collecting" \in Fields /\ FALSE \in FieldType("collecting")
      /\ "distributing" \in Fields /\ FALSE \in FieldType("distributing")
  BY FieldFacts DEF BooleanFields, MuxState
<1>2. IsPort(a)
  BY <1>1, Set3, Zenon
<1>3. SameButPlace(p, a) /\ a.mux = "ATTACHED" /\ a.sport = p.sport /\ OwnTrunk(a)
  BY <1>2 DEF IsPort, SameButPlace, Link, Peer, Choice, Fields, BooleanFields, OwnTrunk
<1>4. SameButPlace(a, b) /\ b.mux = a.mux /\ b.sport = a.sport /\ Out(b)
  BY <1>2, <1>3, DisableCollecting
<1>. HIDE DEF a, b
<1>5. IsPort(c)
  BY <1>1, <1>4, Set1, Zenon DEF SameButPlace
<1>6. SameButTx(b, c)
  BY <1>4, <1>5 DEF IsPort, SameButPlace, SameButTx, Link, Peer, Choice, Place, Fields,
                    BooleanFields
<1>7. SameButTx(c, NeedToTransmit(c))
  BY <1>5, Transmit
<1>8. AttachedEntry(p) = NeedToTransmit(c)
  BY DEF AttachedEntry, a, b, c
<1>. HIDE DEF c
<1>. QED
  BY <1>3, <1>4, <1>6, <1>7, <1>8 DEF SameButPlace, SameButTx, Place, Out

\* Entering COLLECTING joins the trunk of the port's aggregator, without egress.
LEMMA CollectingEntryLemma ==
    ASSUME NEW p, IsPort(p), Out(p), p.sport \in Aggregators
    PROVE  LET q == CollectingEntry(p)
           IN  /\ SameButPlace(p, q)
               /\ q.mux = "COLLECTING" /\ q.sport = p.sport
               /\ TrunkOK(q)
<1>. DEFINE a == [p EXCEPT !.mux = "COLLECTING", !.distributing = FALSE]
            b == enable_collecting(a)
            c == [b EXCEPT !.collecting = TRUE]
<1>1. /\ "mux" \in Fields /\ "COLLECTING" \in FieldType("mux")
      /\ "collecting" \in Fields /\ TRUE \in FieldType("collecting")
      /\ "distributing" \in Fields /\ FALSE \in FieldType("distributing")
  BY FieldFacts DEF BooleanFields, MuxState
<1>2. IsPort(a)
  BY <1>1, Set2, Zenon
<1>3. SameButPlace(p, a) /\ a.mux = "COLLECTING" /\ a.sport = p.sport /\ Out(a)
  BY <1>2 DEF IsPort, SameButPlace, Link, Peer, Choice, Fields, BooleanFields, Out
<1>4. /\ SameButPlace(a, b) /\ b.mux = a.mux /\ b.sport = a.sport
      /\ b.hw_attached /\ b.trunk = {a.sport} /\ ~b.egress
  BY <1>2, <1>3, EnableCollecting
<1>. HIDE DEF a, b
<1>5. IsPort(c)
  BY <1>1, <1>4, Set1, Zenon DEF SameButPlace
<1>6. SameButTx(b, c)
  BY <1>4, <1>5 DEF IsPort, SameButPlace, SameButTx, Link, Peer, Choice, Place, Fields,
                    BooleanFields
<1>7. SameButTx(c, NeedToTransmit(c))
  BY <1>5, Transmit
<1>8. CollectingEntry(p) = NeedToTransmit(c)
  BY DEF CollectingEntry, a, b, c
<1>. HIDE DEF c
<1>. QED
  BY <1>3, <1>4, <1>6, <1>7, <1>8 DEF SameButPlace, SameButTx, Place, TrunkOK, Forwarding

\* Entering COLLECTING_DISTRIBUTING from COLLECTING adds egress to the same trunk.
LEMMA CollectingDistributingEntryLemma ==
    ASSUME NEW p, IsPort(p), TrunkOK(p), p.mux = "COLLECTING"
    PROVE  LET q == CollectingDistributingEntry(p)
           IN  /\ SameButPlace(p, q)
               /\ q.mux = "COLLECTING_DISTRIBUTING" /\ q.sport = p.sport
               /\ TrunkOK(q)
<1>. DEFINE a == [p EXCEPT !.mux = "COLLECTING_DISTRIBUTING", !.distributing = TRUE]
            b == [a EXCEPT !.egress = TRUE]
<1>1. /\ "mux" \in Fields /\ "COLLECTING_DISTRIBUTING" \in FieldType("mux")
      /\ "distributing" \in Fields /\ TRUE \in FieldType("distributing")
      /\ "egress" \in Fields /\ TRUE \in FieldType("egress")
  BY FieldFacts DEF BooleanFields, MuxState
<1>2. IsPort(a)
  BY <1>1, Set2, Zenon
<1>3. /\ SameButPlace(p, a) /\ a.mux = "COLLECTING_DISTRIBUTING" /\ a.sport = p.sport
      /\ a.hw_attached /\ a.trunk = {p.sport}
  BY <1>2 DEF IsPort, SameButPlace, Link, Peer, Choice, Fields, BooleanFields, TrunkOK,
              Forwarding
<1>4. CollectingDistributingEntry(p) = NeedToTransmit(b)
  BY <1>3 DEF CollectingDistributingEntry, enable_distributing
<1>. HIDE DEF a
<1>5. IsPort(b)
  BY <1>1, <1>2, Set1, Zenon
<1>6. /\ SameButPlace(a, b) /\ b.mux = a.mux /\ b.sport = a.sport
      /\ b.hw_attached /\ b.trunk = {a.sport} /\ b.egress
  BY <1>2, <1>3, <1>5 DEF IsPort, SameButPlace, Link, Peer, Choice, Fields, BooleanFields
<1>. HIDE DEF b
<1>7. SameButTx(b, NeedToTransmit(b))
  BY <1>5, Transmit
<1>. QED
  BY <1>3, <1>4, <1>6, <1>7 DEF SameButPlace, SameButTx, Place, TrunkOK, Forwarding

\* Entering DETACHED, out of every trunk and unselected, ends there: although the
\* aggregator is given up before collecting is disabled, nothing is left to disable.
LEMMA DetachedLemma ==
    ASSUME NEW p, IsPort(p), Out(p), ~p.selected, NEW sports
    PROVE  LET q == detached_state_action(p, sports)
           IN  /\ SameButPlace(p, q)
               /\ q.mux = "DETACHED" /\ Out(q)
<1>. DEFINE a == [p EXCEPT !.mux = "DETACHED"]
            b == detach_mux_from_aggregator(a, sports)
            c == [b EXCEPT !.sync = FALSE, !.collecting = FALSE]
            d == disable_collecting_distributing(c)
            e == [d EXCEPT !.distributing = FALSE]
<1>1. /\ "mux" \in Fields /\ "DETACHED" \in FieldType("mux")
      /\ "sport" \in Fields /\ NoSport \in FieldType("sport")
      /\ "sync" \in Fields /\ FALSE \in FieldType("sync")
      /\ "collecting" \in Fields /\ FALSE \in FieldType("collecting")
      /\ "distributing" \in Fields /\ FALSE \in FieldType("distributing")
  BY FieldFacts DEF BooleanFields, MuxState
<1>2. IsPort(a)
  BY <1>1, Set1, Zenon
<1>3. SameButPlace(p, a) /\ a.mux = "DETACHED" /\ Out(a)
  BY <1>2 DEF IsPort, SameButPlace, Link, Peer, Choice, Fields, BooleanFields, Out
<1>. HIDE DEF a
<1>4. IsPort(b)
  BY <1>1, <1>2, Set1, Zenon DEF detach_mux_from_aggregator
<1>5. SameButPlace(a, b) /\ b.mux = a.mux /\ Out(b)
  BY <1>2, <1>3, <1>4 DEF IsPort, SameButPlace, Link, Peer, Choice, Fields,
      BooleanFields, Out,
                          detach_mux_from_aggregator
<1>. HIDE DEF b
<1>6. IsPort(c)
  BY <1>1, <1>4, Set2, Zenon
<1>7. SameButPlace(b, c) /\ c.mux = b.mux /\ Out(c)
  BY <1>4, <1>5, <1>6 DEF IsPort, SameButPlace, Link, Peer, Choice, Fields,
      BooleanFields, Out
<1>. HIDE DEF c
<1>8. d = c
  BY <1>7 DEF disable_collecting_distributing, Out
<1>. HIDE DEF d
<1>9. IsPort(e)
  BY <1>1, <1>6, <1>8, Set1, Zenon
<1>10. SameButTx(c, e)
  BY <1>6, <1>8, <1>9 DEF IsPort, SameButTx, Link, Peer, Choice, Place, Fields,
      BooleanFields
<1>. HIDE DEF e
<1>11. SameButTx(e, NeedToTransmit(e))
  BY <1>9, Transmit
<1>12. /\ SameButPlace(p, NeedToTransmit(e))
       /\ NeedToTransmit(e).mux = "DETACHED" /\ Out(NeedToTransmit(e))
  BY <1>3, <1>5, <1>7, <1>10, <1>11 DEF SameButPlace, SameButTx, Place, Out
<1>13. ~NeedToTransmit(e).selected
  BY <1>12 DEF SameButPlace, Choice
<1>14. detached_state_action(p, sports) = NeedToTransmit(e)
  BY <1>13 DEF detached_state_action, a, b, c, d, e
<1>. QED
  BY <1>12, <1>14

(***************************************************************************)
(* What the mux states reached by a chain of events have in common: the    *)
(* trunk is right, a selected port keeps its aggregator, an unselected one *)
(* ends up detached, and nothing forwards to a partner out of sync.        *)
(***************************************************************************)
Settled(p, q) ==
    /\ SameButPlace(p, q)
    /\ TrunkOK(q)
    /\ p.selected => /\ q.sport = p.sport
                     /\ q.mux \in {"ATTACHED", "COLLECTING", "COLLECTING_DISTRIBUTING"}
    /\ ~p.selected => q.mux = "DETACHED"
    /\ ~p.psync => q.mux \notin Forwarding

\* Settled composes with calls that leave the rest of the port alone.
LEMMA SettledTrans ==
    ASSUME NEW p, NEW q, NEW r,
           SameButPlace(p, q), q.sport = p.sport, Settled(q, r)
    PROVE  Settled(p, r)
  BY DEF SameButPlace, Settled, Link, Peer, Choice

\* A backward transition settles in ATTACHED or DETACHED.
LEMMA FallBackLemma ==
    ASSUME NEW p, IsPort(p), OwnTrunk(p), NEW sports
    PROVE  Settled(p, FallBack(p, sports))
<1>. DEFINE q == AttachedEntry(p)
<1>1. SameButPlace(p, q) /\ q.mux = "ATTACHED" /\ q.sport = p.sport /\ Out(q)
  BY AttachedEntryLemma
<1>. HIDE DEF q
<1>2. CASE q.selected
  <2>1. FallBack(p, sports) = q
    BY <1>2 DEF FallBack, q
  <2>. QED
    BY <1>1, <1>2, <2>1, TrunkForms DEF Settled, SameButPlace, Choice, Forwarding
<1>3. CASE ~q.selected
  <2>1. FallBack(p, sports) = detached_state_action(q, sports)
    BY <1>3 DEF FallBack, q
  <2>2. /\ SameButPlace(q, detached_state_action(q, sports))
        /\ detached_state_action(q, sports).mux = "DETACHED"
        /\ Out(detached_state_action(q, sports))
    BY <1>1, <1>3, DetachedLemma DEF SameButPlace
  <2>. QED
    BY <1>1, <1>3, <2>1, <2>2, TrunkForms DEF Settled, SameButPlace, Choice, Forwarding
<1>. QED
  BY <1>2, <1>3

\* Entering COLLECTING_DISTRIBUTING settles, whichever of its exits is taken.
LEMMA CollectingDistributingLemma ==
    ASSUME NEW p, IsPort(p), TrunkOK(p), p.mux = "COLLECTING",
           p.selected, p.sport \in Aggregators, NEW sports
    PROVE  Settled(p, collecting_distributing_state_action(p, sports))
<1>. DEFINE q == CollectingDistributingEntry(p)
<1>1. /\ SameButPlace(p, q) /\ q.mux = "COLLECTING_DISTRIBUTING"
      /\ q.sport = p.sport /\ TrunkOK(q)
  BY CollectingDistributingEntryLemma
<1>. HIDE DEF q
<1>2. IsPort(q) /\ OwnTrunk(q)
  BY <1>1, TrunkForms DEF SameButPlace
<1>3. CASE ~q.selected \/ ~q.psync
  <2>1. collecting_distributing_state_action(p, sports) = FallBack(q, sports)
    BY <1>3 DEF collecting_distributing_state_action, q
  <2>2. Settled(q, FallBack(q, sports))
    BY <1>2, FallBackLemma
  <2>. QED
    BY <1>1, <2>1, <2>2, SettledTrans
<1>4. CASE q.selected /\ q.psync /\ ~q.pcollecting
  <2>. DEFINE a == AttachedEntry(q)
              b == CollectingEntry(a)
  <2>1. collecting_distributing_state_action(p, sports) = b
    BY <1>4 DEF collecting_distributing_state_action, q
  <2>2. SameButPlace(q, a) /\ a.mux = "ATTACHED" /\ a.sport = q.sport /\ Out(a)
    BY <1>2, AttachedEntryLemma
  <2>. HIDE DEF a
  <2>3. SameButPlace(a, b) /\ b.mux = "COLLECTING" /\ b.sport = a.sport /\ TrunkOK(b)
    BY <1>1, <2>2, CollectingEntryLemma DEF SameButPlace
  <2>. HIDE DEF b
  <2>. QED
    BY <1>1, <1>4, <2>1, <2>2, <2>3 DEF Settled, SameButPlace, Choice, Link, Peer
<1>5. CASE q.selected /\ q.psync /\ q.pcollecting
  <2>1. collecting_distributing_state_action(p, sports) = q
    BY <1>5 DEF collecting_distributing_state_action, q
  <2>. QED
    BY <1>1, <1>5, <2>1 DEF Settled, SameButPlace, Choice, Link, Peer
<1>. QED
  BY <1>3, <1>4, <1>5

\* Entering COLLECTING out of every trunk settles, whichever exit is taken.
LEMMA CollectingLemma ==
    ASSUME NEW p, IsPort(p), Out(p), p.selected, p.sport \in Aggregators, NEW sports
    PROVE  Settled(p, collecting_state_action(p, sports))
<1>. DEFINE q == CollectingEntry(p)
<1>1. SameButPlace(p, q) /\ q.mux = "COLLECTING" /\ q.sport = p.sport /\ TrunkOK(q)
  BY CollectingEntryLemma
<1>. HIDE DEF q
<1>2. IsPort(q) /\ OwnTrunk(q) /\ q.selected
  BY <1>1, TrunkForms DEF SameButPlace, Choice
<1>3. CASE ~q.selected \/ ~q.psync
  <2>1. collecting_state_action(p, sports) = FallBack(q, sports)
    BY <1>3 DEF collecting_state_action, q
  <2>2. Settled(q, FallBack(q, sports))
    BY <1>2, FallBackLemma
  <2>. QED
    BY <1>1, <2>1, <2>2, SettledTrans
<1>4. CASE q.psync /\ q.pcollecting
  <2>1. collecting_state_action(p, sports)
          = collecting_distributing_state_action(q, sports)
    BY <1>2, <1>4 DEF collecting_state_action, q
  <2>2. Settled(q, collecting_distributing_state_action(q, sports))
    BY <1>1, <1>2, CollectingDistributingLemma
  <2>. QED
    BY <1>1, <2>1, <2>2, SettledTrans
<1>5. CASE q.psync /\ ~q.pcollecting
  <2>1. collecting_state_action(p, sports) = q
    BY <1>2, <1>5 DEF collecting_state_action, q
  <2>. QED
    BY <1>1, <1>5, <2>1 DEF Settled, SameButPlace, Choice, Link, Peer
<1>. QED
  BY <1>2, <1>3, <1>4, <1>5

\* Entering ATTACHED settles, whichever exit is taken.
LEMMA AttachedLemma ==
    ASSUME NEW p, IsPort(p), OwnTrunk(p),
           p.selected => p.sport \in Aggregators, NEW sports
    PROVE  Settled(p, attached_state_action(p, sports))
<1>. DEFINE q == AttachedEntry(p)
<1>1. SameButPlace(p, q) /\ q.mux = "ATTACHED" /\ q.sport = p.sport /\ Out(q)
  BY AttachedEntryLemma
<1>. HIDE DEF q
<1>2. IsPort(q) /\ (q.selected <=> p.selected) /\ TrunkOK(q)
  BY <1>1, TrunkForms DEF SameButPlace, Choice, Forwarding
<1>3. CASE ~q.selected
  <2>1. attached_state_action(p, sports) = detached_state_action(q, sports)
    BY <1>3 DEF attached_state_action, q
  <2>2. /\ SameButPlace(q, detached_state_action(q, sports))
        /\ detached_state_action(q, sports).mux = "DETACHED"
        /\ Out(detached_state_action(q, sports))
    BY <1>1, <1>2, <1>3, DetachedLemma
  <2>. QED
    BY <1>1, <1>3, <2>1, <2>2, TrunkForms DEF Settled, SameButPlace, Choice, Forwarding
<1>4. CASE q.selected /\ q.psync
  <2>1. attached_state_action(p, sports) = collecting_state_action(q, sports)
    BY <1>4 DEF attached_state_action, q
  <2>2. Settled(q, collecting_state_action(q, sports))
    BY <1>1, <1>2, <1>4, CollectingLemma
  <2>. QED
    BY <1>1, <2>1, <2>2, SettledTrans
<1>5. CASE q.selected /\ ~q.psync
  <2>1. attached_state_action(p, sports) = q
    BY <1>5 DEF attached_state_action, q
  <2>. QED
    BY <1>1, <1>2, <1>5, <2>1 DEF Settled, SameButPlace, Choice, Link, Peer, Forwarding
<1>. QED
  BY <1>3, <1>4, <1>5

(***************************** mux events **********************************)

\* LacpPort!SelectionFollowsMux, of any port.
SelectionOK(p) ==
    /\ p.selected => /\ p.lag # NoLag
                     /\ p.sport # NoSport
                     /\ p.mux \in MuxState \ {"BEGIN", "DETACHED"}
    /\ ~p.selected => p.mux \notin Forwarding

\* A selected port is in the LAG its identity and its partner's name.
LagOK(p) ==
    p.selected => /\ p.lacp_up
                  /\ p.lag.partner = p.psystem
                  /\ p.lag.port = IF p.paggregation THEN NoPort ELSE p.pport
                  /\ p.lag.portType = p.port_type

\* The LAG with the default partner is for fallback only.
FallbackLag(p) == p.lag.partner = NoSystem => p.lag.fallback

\* What holds of the port before any call of the machines.
PortBase(p) ==
    /\ IsPort(p)
    /\ TrunkOK(p)
    /\ SelectionOK(p)
    /\ LagOK(p)
    /\ p.mux \in Forwarding => FallbackLag(p)
    /\ p.lacp_up => p.mux # "BEGIN"

\* What the mux needs besides: a port that may join a trunk is in a LAG that
\* may carry traffic.
PortOK(p) ==
    /\ PortBase(p)
    /\ p.selected /\ p.psync => FallbackLag(p)

\* No call takes the port into a trunk while its partner is out of sync.
NotJoining(p, q) == ~p.psync /\ p.mux \notin Forwarding => q.mux \notin Forwarding

Moved(p, q) == SameButPlace(p, q) /\ PortOK(q) /\ NotJoining(p, q)

\* An event the mux ignores moves nothing.
LEMMA MovedRefl ==
    ASSUME NEW p, PortOK(p)
    PROVE  Moved(p, p)
  BY DEF Moved, PortOK, PortBase, SameButPlace, NotJoining

\* Where a chain of mux events settles, the invariant of the port holds again.
LEMMA SettledIsMoved ==
    ASSUME NEW p, NEW q, PortOK(p), Settled(p, q)
    PROVE  Moved(p, q) /\ (~p.psync => q.mux \notin Forwarding)
<1>1. /\ IsPort(q) /\ TrunkOK(q)
      /\ SameButPlace(p, q) /\ NotJoining(p, q) /\ (~p.psync => q.mux \notin Forwarding)
  BY DEF Settled, SameButPlace, NotJoining
<1>2. /\ q.selected = p.selected /\ q.lag = p.lag /\ q.psync = p.psync
      /\ q.lacp_up = p.lacp_up /\ Peer(q) = Peer(p)
  BY DEF Settled, SameButPlace, Choice, Link
<1>3. SelectionOK(q) /\ q.mux # "BEGIN"
  BY <1>2 DEF Settled, PortOK, PortBase, SelectionOK, MuxState, Forwarding
<1>4. LagOK(q)
  BY <1>2 DEF PortOK, PortBase, LagOK, Peer
<1>5. q.mux \in Forwarding => p.selected /\ p.psync
  BY DEF Settled, Forwarding
<1>6. FallbackLag(p) = FallbackLag(q)
  BY <1>2 DEF FallbackLag
<1>. QED
  BY <1>1, <1>2, <1>3, <1>4, <1>5, <1>6 DEF Moved, PortOK, PortBase

\* A selected port holds an aggregator.
LEMMA SelectedSport ==
    ASSUME NEW p, PortOK(p), p.selected
    PROVE  p.sport \in Aggregators
  BY FieldValues DEF PortOK, PortBase, SelectionOK

\* None of this depends on what the other fields of the port hold.
LEMMA KeepsBase ==
    ASSUME NEW p, NEW q, PortBase(p), IsPort(q), q.lacp_up = p.lacp_up,
           Peer(q) = Peer(p), Place(q) = Place(p), Choice(q) = Choice(p)
    PROVE  PortBase(q) /\ FallbackLag(q) = FallbackLag(p)
<1>1. TrunkOK(q) /\ q.mux = p.mux
  BY DEF PortBase, TrunkOK, Place
<1>2. SelectionOK(q)
  BY DEF PortBase, SelectionOK, Place, Choice
<1>3. LagOK(q)
  BY DEF PortBase, LagOK, Peer, Choice
<1>4. FallbackLag(q) = FallbackLag(p)
  BY DEF FallbackLag, Choice
<1>. QED
  BY <1>1, <1>2, <1>3, <1>4 DEF PortBase

\* Nor does what the mux needs besides, if the partner's synchronization is kept.
LEMMA KeepsOK ==
    ASSUME NEW p, NEW q, PortOK(p), IsPort(q), q.lacp_up = p.lacp_up, q.psync = p.psync,
           Peer(q) = Peer(p), Place(q) = Place(p), Choice(q) = Choice(p)
    PROVE  PortOK(q)
  BY KeepsBase DEF PortOK, Choice

\* Giving up the selection and raising E2 takes the port out of every trunk and out
\* of ATTACHED and WAITING; the LAG is kept.
LEMMA Unselecting ==
    ASSUME NEW p, PortBase(p), NEW sports
    PROVE  LET q == Unselect(p, sports)
           IN  /\ SameLink(p, q) /\ PortOK(q)
               /\ q.lag = p.lag /\ ~q.selected /\ q.mux \notin Forwarding
<1>. DEFINE a == [p EXCEPT !.selected = FALSE]
            q == MuxE2(a, sports)
<1>1. "selected" \in Fields /\ FALSE \in FieldType("selected")
  BY FieldFacts DEF BooleanFields
<1>2. IsPort(a)
  BY <1>1, Set1, Zenon DEF PortBase
<1>3. SameLink(p, a) /\ a.lag = p.lag /\ Place(a) = Place(p) /\ ~a.selected
  BY <1>2 DEF IsPort, PortBase, SameLink, Link, Peer, Place, Fields, BooleanFields
<1>4. q = Unselect(p, sports)
  BY DEF Unselect
<1>. HIDE DEF a
<1>5. TrunkOK(a) /\ OwnTrunk(a) /\ (a.mux \notin Forwarding => Out(a))
  BY <1>3, TrunkForms DEF PortBase, TrunkOK, Place
<1>6. /\ SameLink(a, q) /\ q.lag = a.lag /\ ~q.selected /\ q.mux \notin Forwarding
      /\ TrunkOK(q) /\ (q.mux = "BEGIN" => a.mux = "BEGIN")
  <2>1. CASE a.mux \in {"WAITING", "ATTACHED"}
    <3>1. Out(a)
      BY <1>5, <2>1 DEF Forwarding
    <3>2. SameButPlace(a, q) /\ q.mux = "DETACHED" /\ Out(q)
      BY <1>2, <1>3, <2>1, <3>1, DetachedLemma DEF MuxE2
    <3>. QED
      BY <1>3, <3>2, TrunkForms DEF SameLink, SameButPlace, Choice, Forwarding
  <2>2. CASE a.mux \in Forwarding
    <3>1. Settled(a, q)
      BY <1>2, <1>3, <1>5, <2>2, AttachedLemma DEF MuxE2, Forwarding
    <3>. QED
      BY <1>3, <3>1 DEF SameLink, SameButPlace, Choice, Forwarding, Settled
  <2>3. CASE a.mux \notin {"WAITING", "ATTACHED"} \cup Forwarding
    <3>1. q = a
      BY <2>3 DEF MuxE2
    <3>. QED
      BY <1>2, <1>3, <1>5, <2>3, <3>1 DEF SameLink
  <2>. QED
    BY <2>1, <2>2, <2>3
<1>. HIDE DEF q
<1>7. SameLink(p, q) /\ q.lag = p.lag
  BY <1>3, <1>6 DEF SameLink
<1>8. q.mux = "BEGIN" => p.mux = "BEGIN"
  BY <1>3, <1>6 DEF Place
<1>9. PortOK(q)
  BY <1>6, <1>7, <1>8 DEF PortOK, PortBase, SelectionOK, LagOK, SameLink, Link
<1>. QED
  BY <1>4, <1>6, <1>7, <1>9

\* E3 keeps the invariant of the port.
LEMMA MuxE3Lemma ==
    ASSUME NEW p, PortOK(p), NEW sports
    PROVE  Moved(p, MuxE3(p, sports))
<1>1. IsPort(p) /\ OwnTrunk(p) /\ (p.selected => p.sport \in Aggregators)
  BY TrunkForms, SelectedSport DEF PortOK, PortBase
<1>2. Settled(p, attached_state_action(p, sports))
  BY <1>1, AttachedLemma
<1>. QED
  BY <1>2, SettledIsMoved, MovedRefl DEF MuxE3

\* E5, raised only on a selected port, keeps the invariant of the port.
LEMMA MuxE5Lemma ==
    ASSUME NEW p, PortOK(p), p.selected, NEW sports
    PROVE  Moved(p, MuxE5(p, sports))
<1>1. CASE p.mux = "ATTACHED"
  <2>1. IsPort(p) /\ Out(p) /\ p.sport \in Aggregators
    BY <1>1, TrunkForms, SelectedSport DEF PortOK, PortBase, Forwarding
  <2>2. Settled(p, collecting_state_action(p, sports))
    BY <2>1, CollectingLemma
  <2>. QED
    BY <1>1, <2>2, SettledIsMoved DEF MuxE5
<1>2. CASE p.mux # "ATTACHED"
  BY <1>2, MovedRefl DEF MuxE5
<1>. QED
  BY <1>1, <1>2

\* E6 and E9 keep the invariant; if the partner is out of sync the port stops
\* forwarding.
LEMMA MuxE6Lemma ==
    ASSUME NEW p, PortOK(p), NEW sports
    PROVE  /\ Moved(p, MuxE6(p, sports))
           /\ ~p.psync => MuxE6(p, sports).mux \notin Forwarding
<1>1. IsPort(p) /\ OwnTrunk(p) /\ (p.selected => p.sport \in Aggregators)
  BY TrunkForms, SelectedSport DEF PortOK, PortBase
<1>2. Settled(p, attached_state_action(p, sports))
  BY <1>1, AttachedLemma
<1>. QED
  BY <1>2, SettledIsMoved, MovedRefl DEF MuxE6

\* E8, raised only on a selected port, keeps the invariant of the port.
LEMMA MuxE8Lemma ==
    ASSUME NEW p, PortOK(p), p.selected, NEW sports
    PROVE  Moved(p, MuxE8(p, sports))
<1>1. CASE p.mux = "COLLECTING"
  <2>1. Settled(p, collecting_distributing_state_action(p, sports))
    BY <1>1, SelectedSport, CollectingDistributingLemma DEF PortOK, PortBase
  <2>. QED
    BY <1>1, <2>1, SettledIsMoved DEF MuxE8
<1>2. CASE p.mux # "COLLECTING"
  BY <1>2, MovedRefl DEF MuxE8
<1>. QED
  BY <1>1, <1>2

\* One second of the wait-while timer keeps the invariant and lets no port join a
\* trunk whose partner is out of sync.
LEMMA WaitTick ==
    ASSUME NEW p, PortOK(p), NEW sports, NEW othersReady
    PROVE  Moved(p, mux_wait_while_timer_expiry(p, sports, othersReady))
<1>. DEFINE a == [p EXCEPT !.wait_while = @ - 1]
            b == [a EXCEPT !.ready_n = TRUE]
            c == [b EXCEPT !.wait_while = AGGREGATE_WAIT_COUNT]
            q == mux_wait_while_timer_expiry(p, sports, othersReady)
<1>1. CASE p.lag # NoLag /\ p.wait_while > 0
  <2>1. /\ "wait_while" \in Fields /\ p.wait_while - 1 \in FieldType("wait_while")
        /\ AGGREGATE_WAIT_COUNT \in FieldType("wait_while")
        /\ "ready_n" \in Fields /\ TRUE \in FieldType("ready_n")
    <3>1. IsPort(p)
      BY DEF PortOK, PortBase
    <3>2. p.wait_while \in Nat
      BY <3>1, FieldValues
    <3>3. p.wait_while - 1 \in Nat /\ AGGREGATE_WAIT_COUNT \in Nat
      BY <1>1, <3>2, CountAssumption DEF Positive
    <3>. QED
      BY <3>3, FieldFacts DEF BooleanFields
  <2>2. IsPort(a)
    BY <2>1, Set1, Zenon DEF PortOK, PortBase
  <2>3. SameButTx(p, a)
    BY <2>2 DEF IsPort, PortOK, PortBase, SameButTx, Link, Peer, Choice, Place, Fields,
        BooleanFields
  <2>4. q = IF a.wait_while > 0 THEN a
            ELSE IF othersReady /\ b.selected THEN MuxE3(b, sports) ELSE c
    BY <1>1 DEF mux_wait_while_timer_expiry, start_wait_while_timer
  <2>. HIDE DEF a, q
  <2>5. IsPort(b)
    BY <2>1, <2>2, Set1, Zenon
  <2>6. SameButTx(a, b)
    BY <2>2, <2>5 DEF IsPort, SameButTx, Link, Peer, Choice, Place, Fields, BooleanFields
  <2>. HIDE DEF b
  <2>7. IsPort(c)
    BY <2>1, <2>5, Set1, Zenon
  <2>8. SameButTx(b, c)
    BY <2>5, <2>7 DEF IsPort, SameButTx, Link, Peer, Choice, Place, Fields, BooleanFields
  <2>. HIDE DEF c
  <2>9. SameButTx(p, a) /\ SameButTx(p, b) /\ SameButTx(p, c)
    BY <2>3, <2>6, <2>8 DEF SameButTx
  <2>10. ASSUME NEW r, SameButTx(p, r)
         PROVE  Moved(p, r) /\ PortOK(r)
    <3>1. PortOK(r)
      BY <2>10, KeepsOK DEF SameButTx, Link
    <3>. QED
      BY <2>10, <3>1 DEF SameButTx, Moved, SameButPlace, NotJoining, Place
  <2>11. Moved(p, MuxE3(b, sports))
    BY <2>9, <2>10, MuxE3Lemma DEF Moved, SameButTx, SameButPlace, Link, Peer, Choice,
        Place,
                                   NotJoining
  <2>. QED
    BY <2>4, <2>9, <2>10, <2>11 DEF q
<1>2. CASE ~(p.lag # NoLag /\ p.wait_while > 0)
  BY <1>2, MovedRefl DEF mux_wait_while_timer_expiry
<1>. QED
  BY <1>1, <1>2

(******************************* selection *********************************)

\* Selection may change the LAG, and lets the port wait for it or leave it,
\* but never join a trunk.
Reselected(p, q) ==
    /\ SameLink(p, q)
    /\ PortBase(q)
    /\ q.mux \in Forwarding => p.mux \in Forwarding
    /\ q.selected => q.lag = form_lag_id(q)

\* form_lag_id builds a LAG id, never the null LAG.
LEMMA LagIdType ==
    ASSUME NEW p, IsPort(p)
    PROVE  form_lag_id(p) \in LagId /\ form_lag_id(p) # NoLag
<1>1. form_lag_id(p) \in LagId
  BY FieldFacts DEF IsPort, form_lag_id, LagId, BooleanFields
<1>. QED
  BY <1>1, LagAssumption

\* The LAG id is a function of who the partners are.
LEMMA LagIdKept ==
    ASSUME NEW p, NEW q, SameLink(p, q)
    PROVE  form_lag_id(q) = form_lag_id(p)
  BY DEF SameLink, Link, Peer, form_lag_id

\* A port whose LAG has the id it forms is in the LAG of its partner.
LEMMA LagIdOK ==
    ASSUME NEW p, p.lacp_up, p.lag = form_lag_id(p)
    PROVE  LagOK(p)
  BY DEF LagOK, form_lag_id

\* Transmission and the periodic machine keep the invariant of the port.
LEMMA TxKeepsOK ==
    ASSUME NEW p, NEW q, PortOK(p), SameButTx(p, q) \/ SameButPeriodic(p, q)
    PROVE  PortOK(q)
  BY KeepsOK DEF SameButTx, SameButPeriodic, Link

\* A port that loses its super port is unselected and in no trunk.
LEMMA SportParams ==
    ASSUME NEW p, PortBase(p), NEW sports
    PROVE  LET q == mlacpVapiSportParamsChange(p, sports)
           IN  /\ SameLink(p, q) /\ PortOK(q)
               /\ q.lag = p.lag /\ ~q.selected /\ q.mux \notin Forwarding
<1>. DEFINE a == Unselect(p, sports)
            q == [a EXCEPT !.ready_n = FALSE]
<1>1. /\ SameLink(p, a) /\ PortOK(a)
      /\ a.lag = p.lag /\ ~a.selected /\ a.mux \notin Forwarding
  BY Unselecting
<1>2. q = mlacpVapiSportParamsChange(p, sports)
  BY DEF mlacpVapiSportParamsChange
<1>. HIDE DEF a
<1>3. "ready_n" \in Fields /\ FALSE \in FieldType("ready_n")
  BY FieldFacts DEF BooleanFields
<1>4. IsPort(q)
  BY <1>1, <1>3, Set1, Zenon DEF PortOK, PortBase
<1>5. SameButTx(a, q)
  BY <1>1, <1>4 DEF PortOK, PortBase, IsPort, SameButTx, Link, Peer, Choice, Place,
                    Fields, BooleanFields
<1>. HIDE DEF q
<1>6. PortOK(q)
  BY <1>1, <1>5, TxKeepsOK
<1>. QED
  BY <1>1, <1>2, <1>5, <1>6 DEF SameLink, SameButTx, Choice, Place

\* Settling on an aggregator in its own LAG leaves the port waiting, in no trunk.
LEMMA Settling ==
    ASSUME NEW p, PortBase(p), ~p.selected, p.lacp_up,
           p.lag # NoLag, p.lag = form_lag_id(p), NEW agg \in Aggregators
    PROVE  Reselected(p, Settle(p, agg))
<1>. DEFINE a == [p EXCEPT !.sport = agg, !.selected = TRUE]
            b == [a EXCEPT !.mux = "WAITING"]
            c == [b EXCEPT !.wait_while = AGGREGATE_WAIT_COUNT]
            q == Settle(p, agg)
<1>0. agg # NoSport
  BY IdentityAssumption
<1>1. /\ "sport" \in Fields /\ agg \in FieldType("sport")
      /\ "selected" \in Fields /\ TRUE \in FieldType("selected")
      /\ "mux" \in Fields /\ "WAITING" \in FieldType("mux")
      /\ "wait_while" \in Fields /\ AGGREGATE_WAIT_COUNT \in FieldType("wait_while")
  BY FieldFacts, CountAssumption DEF BooleanFields, MuxState, Positive
<1>2. IsPort(a)
  BY <1>1, Set2, Zenon DEF PortBase
<1>3. p.mux \notin Forwarding /\ Out(p)
  BY TrunkForms DEF PortBase, SelectionOK
<1>4. /\ SameLink(p, a) /\ a.lag = p.lag /\ a.selected /\ a.sport = agg
      /\ a.mux = p.mux /\ Out(a)
  BY <1>2, <1>3 DEF IsPort, PortBase, SameLink, Link, Peer, Fields, BooleanFields, Out
<1>5. q = IF a.mux = "DETACHED" THEN c ELSE a
  BY DEF Settle, MuxE1, waiting_state_action, start_wait_while_timer
<1>. HIDE DEF a, q
<1>6. IsPort(b)
  BY <1>1, <1>2, Set1, Zenon
<1>7. /\ SameLink(a, b) /\ b.lag = a.lag /\ b.selected /\ b.sport = a.sport
      /\ b.mux = "WAITING" /\ Out(b)
  BY <1>2, <1>4, <1>6 DEF IsPort, SameLink, Link, Peer, Fields, BooleanFields, Out
<1>. HIDE DEF b
<1>8. IsPort(c)
  BY <1>1, <1>6, Set1, Zenon
<1>9. /\ SameLink(b, c) /\ c.lag = b.lag /\ c.selected /\ c.sport = b.sport
      /\ c.mux = b.mux /\ Out(c)
  BY <1>6, <1>7, <1>8 DEF IsPort, SameLink, Link, Peer, Fields, BooleanFields, Out
<1>. HIDE DEF c
<1>10. p.mux \in MuxState /\ p.mux # "BEGIN"
  BY FieldValues DEF PortBase
<1>11. /\ SameLink(p, q) /\ q.lag = p.lag /\ q.selected /\ q.sport = agg /\ Out(q)
       /\ q.mux \in MuxState \ ({"BEGIN", "DETACHED"} \cup Forwarding)
  <2>1. CASE a.mux = "DETACHED"
    BY <1>4, <1>5, <1>7, <1>9, <2>1 DEF SameLink, MuxState, Forwarding
  <2>2. CASE a.mux # "DETACHED"
    BY <1>3, <1>4, <1>5, <1>10, <2>2
  <2>. QED
    BY <2>1, <2>2
<1>12. TrunkOK(q) /\ SelectionOK(q)
  BY <1>0, <1>11, TrunkForms DEF SelectionOK
<1>13. q.lag = form_lag_id(q) /\ q.lacp_up
  BY <1>11, LagIdKept DEF SameLink, Link
<1>14. LagOK(q)
  BY <1>13, LagIdOK
<1>. QED
  BY <1>11, <1>12, <1>13, <1>14 DEF q, Reselected, SameLink, PortBase

\* Selecting an aggregator does, too, also when the port first loses the super port
\* to itself.
LEMMA SelectAggregator ==
    ASSUME NEW p, PortBase(p), ~p.selected, p.lacp_up,
           p.lag # NoLag, p.lag = form_lag_id(p), NEW sports, NEW answer \in Answers
    PROVE  Reselected(p, LAG_select_aggregator(p, sports, answer))
<1>. DEFINE a == SelectSport(p, sports, answer)
            q == Settle(a, answer.agg)
<1>1. CASE answer.agg = NoSport
  BY <1>1 DEF LAG_select_aggregator, Reselected, SameLink, PortBase
<1>2. CASE answer.agg # NoSport
  <2>1. /\ SameLink(p, a) /\ PortBase(a) /\ a.lag = p.lag /\ ~a.selected
        /\ a.mux \in Forwarding => p.mux \in Forwarding
    BY SportParams DEF SelectSport, PortOK, SameLink, PortBase
  <2>2. q = LAG_select_aggregator(p, sports, answer)
    BY <1>2 DEF LAG_select_aggregator
  <2>. HIDE DEF a
  <2>3. a.lacp_up /\ a.lag = form_lag_id(a)
    BY <2>1, LagIdKept DEF SameLink, Link
  <2>4. answer.agg \in Aggregators
    BY <1>2 DEF Answers
  <2>5. Reselected(a, q)
    BY <2>1, <2>3, <2>4, Settling
  <2>. QED
    BY <2>1, <2>2, <2>5 DEF Reselected, SameLink
<1>. QED
  BY <1>1, <1>2

\* Joining or creating the LAG with the port's id keeps the invariant.
LEMMA Joining ==
    ASSUME NEW p, PortBase(p), ~p.selected, p.lacp_up, NEW sports,
           NEW answer \in Answers
    PROVE  Reselected(p, JoinLag(p, sports, answer))
<1>. DEFINE a == [p EXCEPT !.lag = form_lag_id(p)]
<1>1. "lag" \in Fields /\ form_lag_id(p) \in FieldType("lag")
  BY FieldFacts, LagIdType DEF PortBase
<1>2. IsPort(a)
  BY <1>1, Set1, Zenon DEF PortBase
<1>3. /\ SameLink(p, a) /\ Place(a) = Place(p) /\ ~a.selected /\ a.lacp_up
      /\ a.lag = form_lag_id(p)
  BY <1>2 DEF IsPort, PortBase, SameLink, Link, Peer, Place, Fields, BooleanFields
<1>4. a.lag # NoLag /\ a.lag = form_lag_id(a)
  BY <1>3, LagIdType, LagIdKept DEF PortBase
<1>5. LAG_select_aggregator(a, sports, answer) = JoinLag(p, sports, answer)
  BY DEF JoinLag
<1>. HIDE DEF a
<1>6. TrunkOK(a) /\ SelectionOK(a) /\ a.mux = p.mux /\ p.mux \notin Forwarding
  BY <1>3 DEF PortBase, TrunkOK, SelectionOK, Place
<1>7. PortBase(a)
  BY <1>2, <1>3, <1>6 DEF PortBase, LagOK
<1>8. Reselected(a, LAG_select_aggregator(a, sports, answer))
  BY <1>3, <1>4, <1>7, SelectAggregator
<1>. QED
  BY <1>3, <1>5, <1>6, <1>8 DEF Reselected, SameLink

\* Leaving a LAG first unselects, so the port is in no trunk when it has none.
LEMMA Leaving ==
    ASSUME NEW p, PortBase(p), NEW sports
    PROVE  LET q == LeaveLag(p, sports)
           IN  /\ SameLink(p, q) /\ PortBase(q)
               /\ q.mux \notin Forwarding /\ ~q.selected
<1>. DEFINE a == Unselect(p, sports)
            b == [a EXCEPT !.ready_n = FALSE, !.lag = NoLag]
<1>1. SameLink(p, a) /\ PortBase(a) /\ ~a.selected /\ a.mux \notin Forwarding
  BY Unselecting DEF PortOK
<1>2. b = LeaveLag(p, sports)
  BY DEF LeaveLag
<1>. HIDE DEF a
<1>3. /\ "ready_n" \in Fields /\ FALSE \in FieldType("ready_n")
      /\ "lag" \in Fields /\ NoLag \in FieldType("lag")
  BY FieldFacts DEF BooleanFields
<1>4. IsPort(b)
  BY <1>1, <1>3, Set2, Zenon DEF PortBase
<1>5. SameLink(a, b) /\ Place(b) = Place(a) /\ ~b.selected
  BY <1>1, <1>4 DEF IsPort, PortBase, SameLink, Link, Peer, Place, Fields, BooleanFields
<1>. HIDE DEF b
<1>6. /\ SameLink(p, b) /\ b.lacp_up = a.lacp_up /\ TrunkOK(b) /\ SelectionOK(b)
      /\ b.mux = a.mux
  BY <1>1, <1>5 DEF SameLink, Link, PortBase, TrunkOK, SelectionOK, Place
<1>7. PortBase(b)
  BY <1>1, <1>4, <1>5, <1>6 DEF PortBase, LagOK
<1>. QED
  BY <1>1, <1>2, <1>5, <1>6, <1>7

\* LAG_selection keeps the invariant and lets no port join a trunk; a port it
\* leaves selected is in the LAG it would form now.
LEMMA Selection ==
    ASSUME NEW p, PortBase(p), NEW sports, NEW answer \in Answers
    PROVE  Reselected(p, LAG_selection(p, sports, answer))
<1>1. SameLink(p, p)
  BY DEF SameLink, PortBase
<1>2. CASE ~p.lacp_up
  BY <1>1, <1>2 DEF LAG_selection, Reselected, PortBase, LagOK
<1>3. CASE p.lacp_up /\ p.lag = NoLag
  BY <1>3, Joining DEF LAG_selection, PortBase, SelectionOK
<1>4. CASE p.lacp_up /\ p.lag # NoLag /\ p.lag # form_lag_id(p)
  <2>. DEFINE a == LeaveLag(p, sports)
  <2>1. SameLink(p, a) /\ PortBase(a) /\ a.mux \notin Forwarding /\ ~a.selected
    BY Leaving
  <2>2. LAG_selection(p, sports, answer) = JoinLag(a, sports, answer)
    BY <1>4 DEF LAG_selection
  <2>. HIDE DEF a
  <2>3. a.lacp_up
    BY <1>4, <2>1 DEF SameLink, Link
  <2>4. Reselected(a, JoinLag(a, sports, answer))
    BY <2>1, <2>3, Joining
  <2>. QED
    BY <2>1, <2>2, <2>4 DEF Reselected, SameLink
<1>5. CASE p.lacp_up /\ p.lag # NoLag /\ p.lag = form_lag_id(p)
  BY <1>1, <1>5, SelectAggregator DEF LAG_selection, Reselected
<1>. QED
  BY <1>2, <1>3, <1>4, <1>5

\* Selection leaves the port fit for the mux if the partner, when it is the
\* default one, counts as in sync only for fallback.
LEMMA SelectionOKAfter ==
    ASSUME NEW p, PortBase(p), p.psync /\ p.psystem = NoSystem => p.fallback,
           NEW sports, NEW answer \in Answers
    PROVE  PortOK(LAG_selection(p, sports, answer))
<1>. DEFINE q == LAG_selection(p, sports, answer)
<1>1. Reselected(p, q)
  BY Selection
<1>. HIDE DEF q
<1>2. q.psync /\ q.psystem = NoSystem => q.fallback
  BY <1>1 DEF Reselected, SameLink, Link, Peer
<1>3. q.selected => q.lag = form_lag_id(q)
  BY <1>1 DEF Reselected
<1>4. q.selected => q.lag.partner = q.psystem /\ q.lag.fallback = q.fallback
  BY <1>3 DEF form_lag_id
<1>. QED
  BY <1>1, <1>2, <1>4 DEF q, Reselected, PortOK, FallbackLag

(***************************** receive machine *****************************)

\* What every call of the receive machine keeps.
Received(p, q) ==
    /\ PortOK(q)
    /\ q.lacp_up = p.lacp_up
    /\ q.port_enabled = p.port_enabled
    /\ q.fallback = p.fallback

\* Starting the current-while timer changes nothing else.
LEMMA StartCurrentWhile ==
    ASSUME NEW p, PortOK(p), NEW t
    PROVE  LET q == start_current_while_timer(p, t)
           IN  Received(p, q) /\ q.recv = p.recv
<1>. DEFINE v == IF t = "SHORT" THEN SHORT_TIMEOUT_COUNT ELSE LONG_TIMEOUT_COUNT
            q == [p EXCEPT !.current_while = v]
<1>1. v \in Nat
  BY CountAssumption DEF Positive
<1>2. start_current_while_timer(p, t) = q
  BY DEF start_current_while_timer
<1>. HIDE DEF v
<1>3. "current_while" \in Fields /\ v \in FieldType("current_while")
  BY <1>1, FieldFacts
<1>4. IsPort(q)
  BY <1>3, Set1, Zenon DEF PortOK, PortBase
<1>5. SameButTx(p, q)
  BY <1>4 DEF IsPort, PortOK, PortBase, SameButTx, Link, Peer, Choice, Place, Fields,
      BooleanFields
<1>. HIDE DEF q
<1>. QED
  BY <1>2, <1>5, TxKeepsOK DEF Received, SameButTx, Link, Peer

\* After update_Selected a port that is still selected has the LACPDU's sender as
\* its partner.
LEMMA UpdateSelected ==
    ASSUME NEW p, PortOK(p), NEW pdu, NEW sports
    PROVE  LET q == update_Selected(p, pdu, sports)
           IN  /\ SameLink(p, q) /\ PortOK(q)
               /\ q.selected => /\ q.psystem = pdu.system /\ q.pport = pdu.port
                               /\ q.paggregation = pdu.aggregation
<1>1. SameLink(p, p)
  BY DEF SameLink, PortOK, PortBase
<1>2. /\ SameLink(p, Unselect(p, sports)) /\ PortOK(Unselect(p, sports))
      /\ ~Unselect(p, sports).selected
  BY Unselecting DEF PortOK
<1>. QED
  BY <1>1, <1>2 DEF update_Selected

\* choose_Matched keeps the invariant: a partner that sent a LACPDU is not the
\* default one.
LEMMA ChooseMatched ==
    ASSUME NEW p, PortOK(p), NEW pdu \in Lacpdu,
           p.selected => p.psystem = pdu.system
    PROVE  LET q == choose_Matched(p, pdu)
           IN  /\ Received(p, q) /\ q.recv = p.recv
               /\ Peer(q) = Peer(p) /\ q.selected = p.selected
<1>. DEFINE v == pdu.sync /\ (pdu.knowsUs \/ ~pdu.aggregation)
            q == [p EXCEPT !.psync = v]
<1>1. v \in BOOLEAN
  OBVIOUS
<1>2. choose_Matched(p, pdu) = q
  BY DEF choose_Matched
<1>. HIDE DEF v
<1>3. "psync" \in Fields /\ v \in FieldType("psync")
  BY <1>1, FieldFacts DEF BooleanFields
<1>4. IsPort(q)
  BY <1>3, Set1, Zenon DEF PortOK, PortBase
<1>5. /\ Place(q) = Place(p) /\ Choice(q) = Choice(p) /\ Peer(q) = Peer(p)
      /\ q.lacp_up = p.lacp_up /\ q.port_enabled = p.port_enabled
      /\ q.recv = p.recv /\ q.fallback = p.fallback
  BY <1>4 DEF IsPort, PortOK, PortBase, Choice, Place, Peer, Fields, BooleanFields
<1>. HIDE DEF q
<1>6. PortBase(q)
  BY <1>4, <1>5, KeepsBase DEF PortOK
<1>7. q.selected => FallbackLag(q)
  <2>1. pdu.system # NoSystem
    BY IdentityAssumption DEF Lacpdu
  <2>2. q.selected => q.lag.partner = pdu.system
    BY <1>5, <1>6 DEF PortBase, LagOK, Choice, Peer
  <2>. QED
    BY <2>1, <2>2 DEF FallbackLag
<1>. QED
  BY <1>2, <1>5, <1>6, <1>7 DEF Received, PortOK, Choice

\* update_NTT only transmits.
LEMMA UpdateNTT ==
    ASSUME NEW p, PortOK(p), NEW pdu
    PROVE  SameButTx(p, update_NTT(p, pdu))
<1>1. SameButTx(p, NeedToTransmit(p))
  BY Transmit DEF PortOK, PortBase
<1>2. SameButTx(p, p)
  BY DEF SameButTx, PortOK, PortBase
<1>. QED
  BY <1>1, <1>2 DEF update_NTT

\* The four mux events after recordPDU keep the invariant, in the order raised.
LEMMA GenerateMuxEvent ==
    ASSUME NEW p, PortOK(p), NEW sports
    PROVE  LET q == generate_mux_event_from_recordPdu(p, sports)
           IN  SameButPlace(p, q) /\ PortOK(q)
<1>. DEFINE a == IF p.selected /\ p.psync THEN MuxE5(p, sports) ELSE p
            b == IF a.selected /\ a.psync /\ a.collecting /\ a.pcollecting
                 THEN MuxE8(a, sports) ELSE a
            c == IF b.psync /\ ~b.pcollecting /\ b.mux = "COLLECTING_DISTRIBUTING"
                 THEN MuxE6(b, sports) ELSE b
            d == IF ~c.psync THEN MuxE6(c, sports) ELSE c
<1>1. d = generate_mux_event_from_recordPdu(p, sports)
  BY DEF generate_mux_event_from_recordPdu, TestInSync, TestCollecting,
         TestNotCollecting, TestOutOfSync
<1>2. SameButPlace(p, a) /\ PortOK(a)
  BY MuxE5Lemma, MovedRefl DEF Moved
<1>. HIDE DEF a
<1>3. SameButPlace(a, b) /\ PortOK(b)
  BY <1>2, MuxE8Lemma, MovedRefl DEF Moved
<1>. HIDE DEF b
<1>4. SameButPlace(b, c) /\ PortOK(c)
  BY <1>3, MuxE6Lemma, MovedRefl DEF Moved
<1>. HIDE DEF c
<1>5. SameButPlace(c, d) /\ PortOK(d)
  BY <1>4, MuxE6Lemma, MovedRefl DEF Moved
<1>. HIDE DEF d
<1>. QED
  BY <1>1, <1>2, <1>3, <1>4, <1>5 DEF SameButPlace

\* recordPDU keeps the invariant, because update_Selected has unselected the port if
\* the partner it records is a new one.
LEMMA RecordPDU ==
    ASSUME NEW p, PortOK(p), NEW pdu \in Lacpdu, NEW sports,
           p.selected => /\ p.psystem = pdu.system /\ p.pport = pdu.port
                         /\ p.paggregation = pdu.aggregation
    PROVE  LET q == recordPDU(p, pdu, sports)
           IN  Received(p, q) /\ q.recv = p.recv /\ q.psystem = pdu.system
<1>. DEFINE a == [p EXCEPT !.psystem = pdu.system, !.pport = pdu.port,
                           !.paggregation = pdu.aggregation,
                           !.pactivity = pdu.activity, !.ptimeout = pdu.timeout,
                           !.pcollecting = pdu.collecting]
            b == IF BothPassive(a) THEN a ELSE PeriodicE2(a)
            c == IF b.ptimeout = "LONG" THEN PeriodicE4(b) ELSE PeriodicE6(b)
            d == generate_mux_event_from_recordPdu(c, sports)
<1>1. d = recordPDU(p, pdu, sports)
  BY DEF recordPDU
<1>2. /\ "psystem" \in Fields /\ pdu.system \in FieldType("psystem")
      /\ "pport" \in Fields /\ pdu.port \in FieldType("pport")
      /\ "paggregation" \in Fields /\ pdu.aggregation \in FieldType("paggregation")
      /\ "pactivity" \in Fields /\ pdu.activity \in FieldType("pactivity")
      /\ "ptimeout" \in Fields /\ pdu.timeout \in FieldType("ptimeout")
      /\ "pcollecting" \in Fields /\ pdu.collecting \in FieldType("pcollecting")
  BY FieldFacts DEF BooleanFields, Lacpdu
<1>3. IsPort(a)
  BY <1>2, Set6, Zenon DEF PortOK, PortBase
<1>4. /\ Link(a) = Link(p) /\ Choice(a) = Choice(p) /\ Place(a) = Place(p)
      /\ a.psystem = pdu.system /\ a.pport = pdu.port
      /\ a.paggregation = pdu.aggregation /\ a.port_type = p.port_type
  BY <1>3 DEF IsPort, PortOK, PortBase, Link, Choice, Place, Fields, BooleanFields
<1>. HIDE DEF a
<1>5. PortOK(a)
  <2>1. TrunkOK(a) /\ SelectionOK(a) /\ a.mux = p.mux
    BY <1>4 DEF PortOK, PortBase, TrunkOK, SelectionOK, Place, Choice
  <2>2. LagOK(a)
    BY <1>4 DEF PortOK, PortBase, LagOK, Link, Choice
  <2>3. FallbackLag(a) = FallbackLag(p)
    BY <1>4 DEF FallbackLag, Choice
  <2>. QED
    BY <1>3, <1>4, <2>1, <2>2, <2>3 DEF PortOK, PortBase, Link, Choice
<1>6. SameButPeriodic(a, b)
  BY <1>3, PeriodicEvents DEF SameButPeriodic
<1>. HIDE DEF b
<1>7. SameButPeriodic(b, c)
  BY <1>6, PeriodicEvents DEF SameButPeriodic
<1>. HIDE DEF c
<1>8. PortOK(b) /\ PortOK(c)
  BY <1>5, <1>6, <1>7, TxKeepsOK
<1>9. SameButPlace(c, d) /\ PortOK(d)
  BY <1>8, GenerateMuxEvent
<1>. HIDE DEF d
<1>. QED
  BY <1>1, <1>4, <1>6, <1>7, <1>9 DEF Received, SameButPeriodic, SameButPlace, Link, Peer

\* A LACPDU leaves the receive machine in CURRENT and keeps the invariant.
LEMMA CurrentLemma ==
    ASSUME NEW p, PortOK(p), NEW pdu \in Lacpdu, NEW sports,
           NEW answer \in Answers
    PROVE  LET q == current_state_action(p, pdu, sports, answer)
           IN  Received(p, q) /\ q.recv = "CURRENT"
<1>. DEFINE a == [p EXCEPT !.recv = "CURRENT"]
            b == update_Selected(a, pdu, sports)
            c == choose_Matched(b, pdu)
            d == update_NTT(c, pdu)
            e == recordPDU(d, pdu, sports)
            f == LAG_selection(e, sports, answer)
            g == start_current_while_timer(f, f.timeout)
<1>1. g = current_state_action(p, pdu, sports, answer)
  BY DEF current_state_action
<1>2. "recv" \in Fields /\ "CURRENT" \in FieldType("recv")
  BY FieldFacts DEF RecvState
<1>3. IsPort(a)
  BY <1>2, Set1, Zenon DEF PortOK, PortBase
<1>4. /\ Place(a) = Place(p) /\ Choice(a) = Choice(p) /\ Peer(a) = Peer(p)
      /\ a.lacp_up = p.lacp_up /\ a.port_enabled = p.port_enabled
      /\ a.psync = p.psync /\ a.fallback = p.fallback /\ a.recv = "CURRENT"
  BY <1>3 DEF IsPort, PortOK, PortBase, Choice, Place, Peer, Fields, BooleanFields
<1>. HIDE DEF a
<1>5. Received(p, a)
  BY <1>3, <1>4, KeepsOK DEF Received
<1>6. /\ Received(a, b) /\ b.recv = a.recv
      /\ b.selected => /\ b.psystem = pdu.system /\ b.pport = pdu.port
                      /\ b.paggregation = pdu.aggregation
  BY <1>5, UpdateSelected DEF Received, SameLink, Link
<1>. HIDE DEF b
<1>7. /\ Received(b, c) /\ c.recv = b.recv
      /\ Peer(c) = Peer(b) /\ c.selected = b.selected
  BY <1>6, ChooseMatched DEF Received
<1>. HIDE DEF c
<1>8. SameButTx(c, d) /\ Received(c, d)
  BY <1>7, UpdateNTT, TxKeepsOK DEF Received, SameButTx, Link
<1>. HIDE DEF d
<1>9. d.selected => /\ d.psystem = pdu.system /\ d.pport = pdu.port
                    /\ d.paggregation = pdu.aggregation
  BY <1>6, <1>7, <1>8 DEF SameButTx, Peer, Choice
<1>10. Received(d, e) /\ e.recv = d.recv /\ e.psystem = pdu.system
  BY <1>8, <1>9, RecordPDU DEF Received
<1>. HIDE DEF e
<1>11. pdu.system # NoSystem
  BY IdentityAssumption DEF Lacpdu
<1>12. Received(e, f) /\ f.recv = e.recv
  <2>1. PortBase(e) /\ e.psystem # NoSystem
    BY <1>10, <1>11 DEF Received, PortOK
  <2>. QED
    BY <2>1, Selection, SelectionOKAfter DEF Received, Reselected, SameLink, Link
<1>. HIDE DEF f
<1>13. Received(f, g) /\ g.recv = f.recv
  BY <1>12, StartCurrentWhile DEF Received
<1>. HIDE DEF g
<1>. QED
  BY <1>1, <1>4, <1>5, <1>6, <1>7, <1>8, <1>10, <1>12, <1>13
     DEF Received, SameButTx, Link

\* expired_state_action keeps the invariant and ends in EXPIRED.
LEMMA ExpiredLemma ==
    ASSUME NEW p, PortOK(p)
    PROVE  LET q == expired_state_action(p)
           IN  Received(p, q) /\ q.recv = "EXPIRED"
<1>. DEFINE a == [p EXCEPT !.recv = "EXPIRED", !.psync = FALSE, !.ptimeout = "SHORT"]
            b == PeriodicE6(a)
            c == start_current_while_timer(b, "SHORT")
<1>1. c = expired_state_action(p)
  BY DEF expired_state_action
<1>2. /\ "recv" \in Fields /\ "EXPIRED" \in FieldType("recv")
      /\ "psync" \in Fields /\ FALSE \in FieldType("psync")
      /\ "ptimeout" \in Fields /\ "SHORT" \in FieldType("ptimeout")
  BY FieldFacts DEF RecvState, BooleanFields, Timeout
<1>3. IsPort(a)
  BY <1>2, Set3, Zenon DEF PortOK, PortBase
<1>4. /\ Place(a) = Place(p) /\ Choice(a) = Choice(p) /\ Peer(a) = Peer(p)
      /\ a.lacp_up = p.lacp_up /\ a.port_enabled = p.port_enabled
      /\ ~a.psync /\ a.fallback = p.fallback /\ a.recv = "EXPIRED"
  BY <1>3 DEF IsPort, PortOK, PortBase, Choice, Place, Peer, Fields, BooleanFields
<1>. HIDE DEF a
<1>5. Received(p, a)
  BY <1>3, <1>4, KeepsBase DEF Received, PortOK
<1>6. Received(a, b) /\ b.recv = a.recv
  BY <1>3, <1>5, PeriodicEvents, TxKeepsOK DEF Received, SameButPeriodic, Link
<1>. HIDE DEF b
<1>7. Received(b, c) /\ c.recv = b.recv
  BY <1>6, StartCurrentWhile DEF Received
<1>. HIDE DEF c
<1>. QED
  BY <1>1, <1>4, <1>5, <1>6, <1>7 DEF Received

\* After update_Default_Selected a port that is still selected has the default
\* partner.
LEMMA UpdateDefaultSelected ==
    ASSUME NEW p, PortOK(p), NEW sports
    PROVE  LET q == update_Default_Selected(p, sports)
           IN  /\ SameLink(p, q) /\ PortOK(q)
               /\ q.selected => /\ q.psystem = NoSystem /\ q.pport = NoPort
                               /\ q.paggregation = TRUE
<1>1. SameLink(p, p)
  BY DEF SameLink, PortOK, PortBase
<1>2. /\ SameLink(p, Unselect(p, sports)) /\ PortOK(Unselect(p, sports))
      /\ ~Unselect(p, sports).selected
  BY Unselecting DEF PortOK
<1>. QED
  BY <1>1, <1>2 DEF update_Default_Selected

\* recordDefault keeps the invariant of a port unselected if its partner was not
\* the default one.
LEMMA RecordDefault ==
    ASSUME NEW p, PortOK(p),
           p.selected => /\ p.psystem = NoSystem /\ p.pport = NoPort
                         /\ p.paggregation = TRUE
    PROVE  LET q == recordDefault(p)
           IN  /\ Received(p, q) /\ q.recv = p.recv /\ Choice(q) = Choice(p)
               /\ Place(q) = Place(p) /\ q.psystem = NoSystem
<1>. DEFINE a == [p EXCEPT !.psystem = NoSystem, !.pport = NoPort,
                           !.paggregation = TRUE, !.pactivity = "PASSIVE",
                           !.ptimeout = "LONG", !.psync = FALSE,
                           !.pcollecting = FALSE]
<1>1. recordDefault(p) = IF BothPassive(a) THEN PeriodicE1(a) ELSE a
  BY DEF recordDefault
<1>2. /\ "psystem" \in Fields /\ NoSystem \in FieldType("psystem")
      /\ "pport" \in Fields /\ NoPort \in FieldType("pport")
      /\ "paggregation" \in Fields /\ TRUE \in FieldType("paggregation")
      /\ "pactivity" \in Fields /\ "PASSIVE" \in FieldType("pactivity")
      /\ "ptimeout" \in Fields /\ "LONG" \in FieldType("ptimeout")
      /\ "psync" \in Fields /\ FALSE \in FieldType("psync")
      /\ "pcollecting" \in Fields /\ FALSE \in FieldType("pcollecting")
  BY FieldFacts DEF BooleanFields, Activity, Timeout
<1>3. IsPort(a)
  <2>1. IsPort(p)
    BY DEF PortOK, PortBase
  <2>. QED
    BY ONLY <1>2, <2>1, Set7, ZenonT(30)
<1>4. /\ Place(a) = Place(p) /\ Choice(a) = Choice(p) /\ a.lacp_up = p.lacp_up
      /\ a.port_enabled = p.port_enabled /\ a.recv = p.recv /\ a.fallback = p.fallback
      /\ a.psystem = NoSystem /\ a.pport = NoPort /\ a.paggregation = TRUE
      /\ a.port_type = p.port_type /\ ~a.psync
  BY <1>3 DEF IsPort, PortOK, PortBase, Choice, Place, Fields, BooleanFields
<1>. HIDE DEF a
<1>5. PortOK(a)
  <2>1. TrunkOK(a) /\ SelectionOK(a) /\ a.mux = p.mux
    BY <1>4 DEF PortOK, PortBase, TrunkOK, SelectionOK, Place, Choice
  <2>2. LagOK(a)
    BY <1>4 DEF PortOK, PortBase, LagOK, Choice
  <2>3. FallbackLag(a) = FallbackLag(p)
    BY <1>4 DEF FallbackLag, Choice
  <2>. QED
    BY <1>3, <1>4, <2>1, <2>2, <2>3 DEF PortOK, PortBase
<1>6. SameButPeriodic(a, recordDefault(p))
  BY <1>1, <1>3, PeriodicEvents DEF SameButPeriodic
<1>. QED
  BY <1>4, <1>5, <1>6, TxKeepsOK DEF Received, SameButPeriodic, Link, Peer

\* Without fallback the port ends up in no trunk: a LAG it forwards in with the
\* default partner is a fallback LAG, so selection has made it leave.
LEMMA DefaultedLemma ==
    ASSUME NEW p, PortOK(p), NEW sports, NEW answer \in Answers
    PROVE  LET q == defaulted_state_action(p, sports, answer)
           IN  /\ Received(p, q) /\ q.recv = "DEFAULTED" /\ q.psync = q.fallback
               /\ ~q.fallback => q.mux \notin Forwarding
<1>. DEFINE a == [p EXCEPT !.recv = "DEFAULTED"]
            z == update_max_port_priority(a, sports, answer)
            b == update_Default_Selected(z, sports)
            c == recordDefault(b)
            d == [c EXCEPT !.psync = c.fallback, !.pcollecting = c.fallback]
            e == LAG_selection(d, sports, answer)
            f == [e EXCEPT !.selected = FALSE, !.ready_n = FALSE]
            q == IF e.selected /\ e.psync THEN MuxE5(e, sports) ELSE f
<1>1. q = defaulted_state_action(p, sports, answer)
  BY DEF defaulted_state_action
<1>2. /\ "recv" \in Fields /\ "DEFAULTED" \in FieldType("recv")
      /\ "psync" \in Fields /\ FieldType("psync") = BOOLEAN
      /\ "pcollecting" \in Fields /\ FieldType("pcollecting") = BOOLEAN
      /\ "selected" \in Fields /\ FALSE \in FieldType("selected")
      /\ "ready_n" \in Fields /\ FALSE \in FieldType("ready_n")
  BY FieldFacts DEF RecvState, BooleanFields
<1>3. IsPort(a)
  BY <1>2, Set1, Zenon DEF PortOK, PortBase
<1>4. /\ Place(a) = Place(p) /\ Choice(a) = Choice(p) /\ Peer(a) = Peer(p)
      /\ a.lacp_up = p.lacp_up /\ a.port_enabled = p.port_enabled
      /\ a.psync = p.psync /\ a.fallback = p.fallback /\ a.recv = "DEFAULTED"
  BY <1>3 DEF IsPort, PortOK, PortBase, Choice, Place, Peer, Fields, BooleanFields
<1>. HIDE DEF a
<1>5. Received(p, a)
  BY <1>3, <1>4, KeepsOK DEF Received
<1>5a. Received(a, z) /\ z.recv = a.recv
  BY <1>5, SportParams DEF update_max_port_priority, Received, PortOK, SameLink, Link
<1>. HIDE DEF z
<1>6. /\ Received(z, b) /\ b.recv = z.recv
      /\ b.selected => /\ b.psystem = NoSystem /\ b.pport = NoPort
                      /\ b.paggregation = TRUE
  BY <1>5a, UpdateDefaultSelected DEF Received, SameLink, Link
<1>. HIDE DEF b
<1>7. Received(b, c) /\ c.recv = b.recv /\ c.psystem = NoSystem
  BY <1>6, RecordDefault DEF Received
<1>. HIDE DEF c
<1>8. IsPort(c) /\ c.fallback \in BOOLEAN
  BY <1>7, FieldValues DEF Received, PortOK, PortBase, BooleanFields
<1>9. IsPort(d)
  BY <1>2, <1>8, Set2, Zenon
<1>10. /\ Place(d) = Place(c) /\ Choice(d) = Choice(c) /\ Peer(d) = Peer(c)
       /\ d.lacp_up = c.lacp_up /\ d.port_enabled = c.port_enabled
       /\ d.recv = c.recv /\ d.fallback = c.fallback /\ d.psync = c.fallback
  BY <1>8, <1>9 DEF IsPort, Choice, Place, Peer, Fields, BooleanFields
<1>. HIDE DEF d
<1>11. PortBase(d) /\ d.psystem = NoSystem
  BY <1>7, <1>9, <1>10, KeepsBase DEF Received, PortOK, Peer
<1>12. Reselected(d, e) /\ PortOK(e)
  BY <1>10, <1>11, Selection, SelectionOKAfter
<1>. HIDE DEF e
<1>13. /\ e.lacp_up = p.lacp_up /\ e.port_enabled = p.port_enabled
       /\ e.fallback = p.fallback /\ e.psync = e.fallback
       /\ e.recv = "DEFAULTED" /\ e.psystem = NoSystem
  BY <1>4, <1>5a, <1>6, <1>7, <1>10, <1>11, <1>12
     DEF Received, Reselected, SameLink, Link, Peer
<1>14. CASE e.selected /\ e.psync
  <2>1. Moved(e, q)
    BY <1>12, <1>14, MuxE5Lemma
  <2>. HIDE DEF q
  <2>. QED
    BY <1>1, <1>13, <1>14, <2>1 DEF Received, Moved, SameButPlace, Link
<1>15. CASE ~(e.selected /\ e.psync)
  <2>1. IsPort(f)
    BY <1>2, <1>12, Set2, Zenon DEF PortOK, PortBase
  <2>2. /\ Place(f) = Place(e) /\ ~f.selected /\ Link(f) = Link(e)
    BY <1>12, <2>1 DEF IsPort, PortOK, PortBase, Place, Link, Fields, BooleanFields
  <2>3. q = f
    BY <1>15
  <2>. HIDE DEF f, q
  <2>4. e.mux \notin Forwarding
    <3>1. CASE ~e.selected
      BY <1>12, <3>1 DEF PortOK, PortBase, SelectionOK
    <3>2. CASE e.selected /\ ~e.psync
      <4>1. e.lag.partner = NoSystem /\ e.lag.fallback = e.fallback
        BY <1>12, <1>13, <3>2 DEF Reselected, form_lag_id
      <4>2. ~FallbackLag(e)
        BY <1>13, <3>2, <4>1 DEF FallbackLag
      <4>. QED
        BY <1>12, <4>2 DEF PortOK, PortBase
    <3>. QED
      BY <1>15, <3>1, <3>2
  <2>5. TrunkOK(f) /\ f.mux = e.mux
    BY <1>12, <2>2 DEF PortOK, PortBase, TrunkOK, Place
  <2>6. f.lacp_up = e.lacp_up
    BY <2>2 DEF Link
  <2>7. PortOK(f)
    BY <1>12, <2>1, <2>2, <2>4, <2>5, <2>6 DEF PortOK, PortBase, SelectionOK, LagOK
  <2>. QED
    BY <1>1, <1>13, <2>2, <2>3, <2>4, <2>5, <2>7 DEF Received, Link
<1>. QED
  BY <1>14, <1>15

\* port_disabled_state_action with the link down leaves the port out of every trunk
\* and out of sync; with the link up it goes on to EXPIRED.
LEMMA PortDisabledLemma ==
    ASSUME NEW p, PortOK(p), NEW sports, NEW answer \in Answers
    PROVE  LET q == port_disabled_state_action(p, sports, answer)
           IN  /\ Received(p, q) /\ q.recv \in {"PORT_DISABLED", "EXPIRED"}
               /\ ~p.port_enabled => /\ q.recv = "PORT_DISABLED"
                                     /\ ~q.psync /\ q.mux \notin Forwarding
                                     /\ q.periodic = p.periodic
<1>. DEFINE a == [p EXCEPT !.recv = "PORT_DISABLED", !.psync = FALSE]
            b == MuxE6(a, sports)
            c == LAG_selection(b, sports, answer)
            q == IF c.port_enabled THEN expired_state_action(c) ELSE c
<1>1. q = port_disabled_state_action(p, sports, answer)
  BY DEF port_disabled_state_action
<1>2. /\ "recv" \in Fields /\ "PORT_DISABLED" \in FieldType("recv")
      /\ "psync" \in Fields /\ FALSE \in FieldType("psync")
  BY FieldFacts DEF RecvState, BooleanFields
<1>3. IsPort(a)
  BY <1>2, Set2, Zenon DEF PortOK, PortBase
<1>4. /\ Place(a) = Place(p) /\ Choice(a) = Choice(p) /\ Peer(a) = Peer(p)
      /\ a.lacp_up = p.lacp_up /\ a.port_enabled = p.port_enabled
      /\ ~a.psync /\ a.fallback = p.fallback /\ a.recv = "PORT_DISABLED"
      /\ a.periodic = p.periodic
  BY <1>3 DEF IsPort, PortOK, PortBase, Choice, Place, Peer, Fields, BooleanFields
<1>. HIDE DEF a
<1>5. PortOK(a)
  BY <1>3, <1>4, KeepsBase DEF PortOK
<1>6. Moved(a, b) /\ b.mux \notin Forwarding
  BY <1>4, <1>5, MuxE6Lemma
<1>. HIDE DEF b
<1>7. ~b.psync /\ PortBase(b)
  BY <1>4, <1>6 DEF Moved, SameButPlace, Link, PortOK
<1>8. Reselected(b, c) /\ PortOK(c)
  BY <1>7, Selection, SelectionOKAfter
<1>. HIDE DEF c
<1>9. /\ c.lacp_up = p.lacp_up /\ c.port_enabled = p.port_enabled
      /\ c.fallback = p.fallback /\ c.recv = "PORT_DISABLED" /\ ~c.psync
      /\ c.mux \notin Forwarding /\ c.periodic = p.periodic
  BY <1>4, <1>6, <1>8 DEF Moved, SameButPlace, Reselected, SameLink, Link
<1>10. CASE c.port_enabled
  <2>1. Received(c, expired_state_action(c)) /\ expired_state_action(c).recv = "EXPIRED"
    BY <1>8, ExpiredLemma
  <2>2. q = expired_state_action(c)
    BY <1>10
  <2>. HIDE DEF q
  <2>. QED
    BY <1>1, <1>9, <1>10, <2>1, <2>2 DEF Received
<1>11. CASE ~c.port_enabled
  BY <1>1, <1>8, <1>9, <1>11 DEF Received
<1>. QED
  BY <1>10, <1>11

\* Begin leads to PORT_DISABLED, and with the link up on to EXPIRED.
LEMMA InitializeLemma ==
    ASSUME NEW p, PortOK(p), NEW sports
    PROVE  LET q == initialize_state_action(p, sports)
           IN  /\ Received(p, q) /\ q.recv \in {"PORT_DISABLED", "EXPIRED"}
               /\ ~p.port_enabled => /\ q.recv = "PORT_DISABLED"
                                     /\ ~q.psync /\ q.mux \notin Forwarding
<1>. DEFINE a == Unselect(p, sports)
            b == recordDefault(a)
            c == port_disabled_state_action(b, sports, NoAnswer)
<1>1. c = initialize_state_action(p, sports)
  BY DEF initialize_state_action
<1>2. Received(p, a) /\ ~a.selected
  BY Unselecting DEF PortOK, Received, SameLink, Link
<1>. HIDE DEF a
<1>3. Received(a, b)
  BY <1>2, RecordDefault DEF Received
<1>. HIDE DEF b
<1>4. /\ Received(b, c) /\ c.recv \in {"PORT_DISABLED", "EXPIRED"}
      /\ ~b.port_enabled => /\ c.recv = "PORT_DISABLED"
                            /\ ~c.psync /\ c.mux \notin Forwarding
  <2>1. NoAnswer \in Answers
    BY DEF NoAnswer, Answers
  <2>. QED
    BY <1>3, <2>1, PortDisabledLemma DEF Received
<1>. HIDE DEF c
<1>. QED
  BY <1>1, <1>2, <1>3, <1>4 DEF Received

(***************************************************************************)
(* The receive machine at rest.  With the link down it is in PORT_DISABLED *)
(* and nothing it is told takes it out; in DEFAULTED only fallback counts  *)
(* as synchronization.                                                     *)
(***************************************************************************)
Quiet(p) ==
    ~p.port_enabled => /\ p.recv = "PORT_DISABLED"
                       /\ p.mux \notin Forwarding
                       /\ ~p.psync

DefaultedOK(p) ==
    p.recv = "DEFAULTED" => /\ p.psync = p.fallback
                            /\ ~p.fallback => p.mux \notin Forwarding

AtRest(p) == PortOK(p) /\ Quiet(p) /\ DefaultedOK(p) /\ p.recv # "BEGIN"

\* A LACPDU keeps the receive machine at rest, and is ignored with the link down.
LEMMA ReceiveE1Lemma ==
    ASSUME NEW p, AtRest(p), NEW pdu \in Lacpdu, NEW sports,
           NEW answer \in Answers
    PROVE  LET q == ReceiveE1(p, pdu, sports, answer)
           IN  Received(p, q) /\ AtRest(q) /\ (~p.port_enabled => q = p)
<1>. DEFINE q == current_state_action(p, pdu, sports, answer)
<1>1. CASE p.recv \in {"CURRENT", "EXPIRED", "DEFAULTED"}
  <2>1. Received(p, q) /\ q.recv = "CURRENT"
    BY CurrentLemma DEF AtRest
  <2>2. ReceiveE1(p, pdu, sports, answer) = q
    BY <1>1 DEF ReceiveE1
  <2>. HIDE DEF q
  <2>. QED
    BY <1>1, <2>1, <2>2 DEF AtRest, Received, Quiet, DefaultedOK
<1>2. CASE p.recv \notin {"CURRENT", "EXPIRED", "DEFAULTED"}
  BY <1>2 DEF ReceiveE1, Received, AtRest
<1>. QED
  BY <1>1, <1>2

\* So does a timeout of the current-while timer.
LEMMA ReceiveE2Lemma ==
    ASSUME NEW p, AtRest(p), NEW sports, NEW answer \in Answers
    PROVE  LET q == ReceiveE2(p, sports, answer)
           IN  Received(p, q) /\ AtRest(q) /\ (~p.port_enabled => q = p)
<1>. DEFINE q == defaulted_state_action(p, sports, answer)
            r == expired_state_action(p)
<1>1. CASE p.recv = "CURRENT"
  <2>1. Received(p, r) /\ r.recv = "EXPIRED"
    BY ExpiredLemma DEF AtRest
  <2>2. ReceiveE2(p, sports, answer) = r
    BY <1>1 DEF ReceiveE2
  <2>. HIDE DEF r
  <2>. QED
    BY <1>1, <2>1, <2>2 DEF AtRest, Received, Quiet, DefaultedOK
<1>2. CASE p.recv = "EXPIRED"
  <2>1. /\ Received(p, q) /\ q.recv = "DEFAULTED" /\ q.psync = q.fallback
        /\ ~q.fallback => q.mux \notin Forwarding
    BY DefaultedLemma DEF AtRest
  <2>2. ReceiveE2(p, sports, answer) = q
    BY <1>2 DEF ReceiveE2
  <2>. HIDE DEF q
  <2>. QED
    BY <1>2, <2>1, <2>2 DEF AtRest, Received, Quiet, DefaultedOK
<1>3. CASE p.recv \notin {"CURRENT", "EXPIRED"}
  BY <1>3 DEF ReceiveE2, Received, AtRest
<1>. QED
  BY <1>1, <1>2, <1>3

\* E4 is raised just after the link went down, before the machine knows.
LEMMA ReceiveE4Lemma ==
    ASSUME NEW p, PortOK(p), p.recv # "BEGIN", ~p.port_enabled,
           NEW sports, NEW answer \in Answers
    PROVE  LET q == ReceiveE4(p, sports, answer)
           IN  Received(p, q) /\ AtRest(q) /\ q.periodic = p.periodic
<1>. DEFINE q == port_disabled_state_action(p, sports, answer)
<1>1. /\ Received(p, q) /\ q.recv = "PORT_DISABLED"
      /\ ~q.psync /\ q.mux \notin Forwarding /\ q.periodic = p.periodic
  BY PortDisabledLemma
<1>2. ReceiveE4(p, sports, answer) = q
  BY DEF ReceiveE4
<1>. HIDE DEF q
<1>. QED
  BY <1>1, <1>2 DEF AtRest, Received, Quiet, DefaultedOK

\* E6 is raised when the link is up, whether or not it was before.
LEMMA ReceiveE6Lemma ==
    ASSUME NEW p, PortOK(p), DefaultedOK(p), p.recv # "BEGIN", p.port_enabled
    PROVE  LET q == ReceiveE6(p)
           IN  Received(p, q) /\ AtRest(q)
<1>. DEFINE q == expired_state_action(p)
<1>1. Received(p, q) /\ q.recv = "EXPIRED"
  BY ExpiredLemma
<1>2. ReceiveE6(p) = IF p.recv = "PORT_DISABLED" THEN q ELSE p
  BY DEF ReceiveE6
<1>. HIDE DEF q
<1>. QED
  BY <1>1, <1>2 DEF AtRest, Received, Quiet, DefaultedOK

\* E9 is raised just after the fallback setting changed.
LEMMA ReceiveE9Lemma ==
    ASSUME NEW p, PortOK(p), Quiet(p), p.recv # "BEGIN",
           NEW sports, NEW answer \in Answers
    PROVE  LET q == ReceiveE9(p, sports, answer)
           IN  Received(p, q) /\ AtRest(q) /\ (~p.port_enabled => q = p)
<1>. DEFINE q == defaulted_state_action(p, sports, answer)
<1>1. /\ Received(p, q) /\ q.recv = "DEFAULTED" /\ q.psync = q.fallback
      /\ ~q.fallback => q.mux \notin Forwarding
  BY DefaultedLemma
<1>2. ReceiveE9(p, sports, answer) = IF p.recv = "DEFAULTED" THEN q ELSE p
  BY DEF ReceiveE9
<1>. HIDE DEF q
<1>. QED
  BY <1>1, <1>2 DEF AtRest, Received, Quiet, DefaultedOK

\* One second of the current-while timer keeps the receive machine at rest.
LEMMA CurrentWhileTick ==
    ASSUME NEW p, AtRest(p), NEW sports, NEW answer \in Answers
    PROVE  LET q == current_while_timer_expiry(p, sports, answer)
           IN  /\ Received(p, q) /\ AtRest(q)
               /\ ~p.port_enabled => q.periodic = p.periodic
<1>. DEFINE a == [p EXCEPT !.current_while = @ - 1]
            b == ReceiveE2(a, sports, answer)
            q == IF a.current_while = 0 THEN b ELSE a
<1>1. CASE p.current_while > 0
  <2>1. IsPort(p) /\ p.current_while \in Nat
    BY FieldValues DEF AtRest, PortOK, PortBase
  <2>2. "current_while" \in Fields /\ p.current_while - 1 \in FieldType("current_while")
    BY <1>1, <2>1, FieldFacts
  <2>3. IsPort(a)
    BY <2>1, <2>2, Set1, Zenon
  <2>4. SameButTx(p, a)
    BY <2>1, <2>3 DEF IsPort, SameButTx, Link, Peer, Choice, Place, Fields, BooleanFields
  <2>5. q = current_while_timer_expiry(p, sports, answer)
    BY <1>1 DEF current_while_timer_expiry
  <2>. HIDE DEF a
  <2>6. Received(p, a) /\ AtRest(a) /\ a.periodic = p.periodic
    <3>1. PortOK(a)
      BY <2>4, TxKeepsOK DEF AtRest
    <3>. QED
      BY <2>4, <3>1 DEF AtRest, Received, SameButTx, Quiet, DefaultedOK, Link, Place
  <2>7. Received(a, b) /\ AtRest(b) /\ (~a.port_enabled => b = a)
    BY <2>6, ReceiveE2Lemma
  <2>. HIDE DEF b
  <2>8. Received(p, b)
    BY <2>6, <2>7 DEF Received
  <2>9. ~p.port_enabled => b.periodic = p.periodic
    BY <2>6, <2>7 DEF Received
  <2>. QED
    BY <2>5, <2>6, <2>7, <2>8, <2>9
<1>2. CASE ~(p.current_while > 0)
  BY <1>2 DEF current_while_timer_expiry, Received, AtRest
<1>. QED
  BY <1>1, <1>2
=============================================================================

--------------------------- MODULE LacpPortProofs ---------------------------
(***************************************************************************)
(* The safety invariants of a port, proved for every value of the          *)
(* constants, and what the calls of a handler do on the way.  Each handler *)
(* is a chain of calls of the machines.  MachineProofs says what every     *)
(* call needs and keeps, so the proof that a handler keeps the invariant   *)
(* follows its code line by line.  The second half compares the port after *)
(* a call with the port the handler began with: which fields the call may  *)
(* change, what it announces and opens, and to which aggregator it leaves  *)
(* the port bound.  This is what the action properties and the refinement  *)
(* of TrunkPort are about.  Transmission, the mux and selection are here,  *)
(* the receive machine and the handlers in PortStepProofs.                 *)
(***************************************************************************)
EXTENDS LacpPort, MachineProofs

\* The inductive invariant: the machines are at rest between two handlers, and
\* a removed port has left nothing behind.
Inv ==
    /\ sports \subseteq Aggregators
    /\ listed \subseteq Aggregators
    /\ PortOK(port)
    /\ port.lacp_up => /\ AtRest(port)
                       /\ ~port.port_enabled => port.periodic = "NO_PERIODIC"
    /\ ~port.lacp_up => port.mux = "BEGIN" /\ port.recv = "BEGIN"

\* What a handler has to establish of a running port.
Running(p) ==
    /\ p.lacp_up
    /\ AtRest(p)
    /\ ~p.port_enabled => p.periodic = "NO_PERIODIC"

\* There is a configuration to give an absent port's fields their values.
LEMMA NoConfigType == NoConfig \in LportConfig
<1>1. (CHOOSE a \in ActorSystems : TRUE) \in ActorSystems
  BY InputAssumption
<1>2. (CHOOSE t \in PortTypes : TRUE) \in PortTypes
  BY InputAssumption
<1>. QED
  BY <1>1, <1>2 DEF NoConfig, LportConfig, Activity, Timeout

\* A calloc'ed port satisfies the invariant if the hardware holds nothing of it.
LEMMA BlankLemma ==
    ASSUME NEW c \in LportConfig, NEW p,
           p.trunk = {}, p.egress = FALSE, p.out \in Seq(SentPdu)
    PROVE  LET q == Blank(c, p)
           IN  /\ PortOK(q) /\ Out(q) /\ ~q.lacp_up /\ q.out = p.out
               /\ q.recv = "BEGIN" /\ q.mux = "BEGIN"
<1>. DEFINE q == Blank(c, p)
<1>1. IsPort(q)
  <2>1. q = [f \in Fields |-> q[f]]
    <3>1. DOMAIN q = Fields
      BY DEF Blank, Fields, BooleanFields
    <3>2. q = [f \in DOMAIN q |-> q[f]]
      BY DEF Blank
    <3>. QED
      BY <3>1, <3>2
  <2>2. /\ q.lacp_up = FALSE /\ q.port_enabled = c.link_up /\ q.selected = FALSE
        /\ q.ready_n = FALSE /\ q.fallback = FALSE /\ q.hw_attached = FALSE
        /\ q.ntt = FALSE /\ q.sync = FALSE /\ q.collecting = FALSE
        /\ q.distributing = FALSE /\ q.paggregation = TRUE /\ q.psync = FALSE
        /\ q.pcollecting = FALSE /\ q.egress = p.egress
    BY DEF Blank
  <2>3. /\ q.port_type = c.port_type /\ q.recv = "BEGIN" /\ q.mux = "BEGIN"
        /\ q.periodic = "BEGIN" /\ q.lag = NoLag /\ q.sport = NoSport
        /\ q.actor = c.actor /\ q.activity = c.activity /\ q.pactivity = "PASSIVE"
        /\ q.timeout = c.timeout /\ q.ptimeout = "LONG" /\ q.psystem = NoSystem
        /\ q.pport = NoPort /\ q.current_while = 0 /\ q.wait_while = 0
        /\ q.periodic_timer = 0 /\ q.async_tx = 0 /\ q.trunk = p.trunk
        /\ q.out = p.out
    BY DEF Blank
  <2>. HIDE DEF q
  <2>4. \A f \in BooleanFields : q[f] \in BOOLEAN
    BY <2>2 DEF BooleanFields, LportConfig
  <2>5. q.out \in Seq(SentPdu)
    BY <2>3
  <2>6. /\ q.recv \in RecvState /\ q.mux \in MuxState /\ q.periodic \in PeriodicState
        /\ q.activity \in Activity /\ q.pactivity \in Activity
        /\ q.timeout \in Timeout /\ q.ptimeout \in Timeout
    BY <2>3 DEF LportConfig, RecvState, MuxState, PeriodicState, Activity, Timeout
  <2>7. /\ q.port_type \in PortTypes /\ q.lag \in LagId \cup {NoLag}
        /\ q.sport \in Aggregators \cup {NoSport} /\ q.actor \in ActorSystems
        /\ q.psystem \in Systems \cup {NoSystem} /\ q.pport \in PortIds \cup {NoPort}
    BY <2>3 DEF LportConfig
  <2>8. /\ q.current_while \in Nat /\ q.wait_while \in Nat /\ q.periodic_timer \in Nat
        /\ q.async_tx \in 0..MAX_ASYNC_TX /\ q.trunk \in SUBSET Aggregators
    BY <2>3, CountAssumption DEF Positive
  <2>. QED
    BY <2>1, <2>4, <2>5, <2>6, <2>7, <2>8, TypedIsPort, Zenon DEF Typed
<1>2. /\ ~q.lacp_up /\ ~q.selected /\ q.mux = "BEGIN" /\ q.recv = "BEGIN"
      /\ Out(q) /\ q.out = p.out
  BY DEF Blank, Out
<1>. HIDE DEF q
<1>3. PortOK(q)
  BY <1>1, <1>2, TrunkForms DEF PortOK, PortBase, SelectionOK, LagOK, Forwarding
<1>. QED
  BY <1>2, <1>3 DEF q

\* Forgetting what the previous handler sent keeps the invariant.
LEMMA StartLemma ==
    ASSUME PortOK(port)
    PROVE  SameButTx(port, Start) /\ PortOK(Start) /\ Start.out = <<>>
<1>1. IsPort(port)
  BY DEF PortOK, PortBase
<1>2. "out" \in Fields /\ <<>> \in FieldType("out")
  <2>1. \A S : <<>> \in Seq(S)
    OBVIOUS
  <2>. QED
    BY <2>1, FieldFacts, Zenon
<1>3. IsPort(Start)
  BY <1>1, <1>2, Set1, Zenon DEF Start
<1>4. SameButTx(port, Start) /\ Start.out = <<>>
  BY <1>1, <1>3 DEF Start, IsPort, SameButTx, Link, Peer, Choice, Place, Fields,
                    BooleanFields
<1>. QED
  BY <1>4, TxKeepsOK

\* The mux run by clearing the aggregator, on a port already taken out of its trunk,
\* does not put it back.
LEMMA UnselectOut ==
    ASSUME NEW p, IsPort(p), Out(p), NEW S
    PROVE  IsPort(Unselect(p, S)) /\ Out(Unselect(p, S))
<1>. DEFINE a == [p EXCEPT !.selected = FALSE]
            q == MuxE2(a, S)
<1>1. "selected" \in Fields /\ FALSE \in FieldType("selected")
  BY FieldFacts DEF BooleanFields
<1>2. IsPort(a)
  BY <1>1, Set1, Zenon
<1>3. Out(a) /\ ~a.selected
  BY <1>2 DEF IsPort, Out, Fields, BooleanFields
<1>4. q = Unselect(p, S)
  BY DEF Unselect
<1>. HIDE DEF a
<1>5. OwnTrunk(a)
  BY <1>3 DEF Out, OwnTrunk
<1>6. CASE a.mux \in {"WAITING", "ATTACHED"}
  BY <1>2, <1>3, <1>4, <1>6, DetachedLemma DEF MuxE2, SameButPlace
<1>7. CASE a.mux \in Forwarding
  <2>1. Settled(a, q)
    BY <1>2, <1>3, <1>5, <1>7, AttachedLemma DEF MuxE2, Forwarding
  <2>. QED
    BY <1>3, <1>4, <2>1, TrunkForms DEF Settled, SameButPlace, Forwarding
<1>8. CASE a.mux \notin {"WAITING", "ATTACHED"} \cup Forwarding
  BY <1>2, <1>3, <1>4, <1>8 DEF MuxE2
<1>. QED
  BY <1>6, <1>7, <1>8

\* A removed port is in no trunk.
LEMMA DisableLemma ==
    ASSUME NEW p, PortOK(p), NEW cleared
    PROVE  LET q == LACP_disable_lacp(p, cleared)
           IN  /\ PortOK(q) /\ Out(q) /\ ~q.lacp_up
               /\ q.recv = "BEGIN" /\ q.mux = "BEGIN"
<1>. DEFINE a == IF p.sport # NoSport THEN disable_collecting_distributing(p) ELSE p
            b == IF cleared /\ a.lag # NoLag /\ a.sport \in sports
                 THEN Unselect(a, sports) ELSE a
<1>1. LACP_disable_lacp(p, cleared) = Blank(NoConfig, b)
  BY DEF LACP_disable_lacp, Absent
<1>2. IsPort(a) /\ Out(a)
  <2>1. CASE p.sport # NoSport
    BY <2>1, DisableCollecting, TrunkForms DEF PortOK, PortBase, SameButPlace
  <2>2. CASE p.sport = NoSport
    BY <2>2, TrunkForms DEF PortOK, PortBase, SelectionOK
  <2>. QED
    BY <2>1, <2>2
<1>. HIDE DEF a
<1>3. IsPort(b) /\ Out(b)
  BY <1>2, UnselectOut
<1>. HIDE DEF b
<1>4. b.out \in Seq(SentPdu) /\ b.egress \in BOOLEAN
  BY <1>3, FieldFacts DEF IsPort, BooleanFields
<1>5. b.trunk = {} /\ b.egress = FALSE
  BY <1>3, <1>4 DEF Out
<1>. QED
  BY <1>1, <1>4, <1>5, NoConfigType, BlankLemma

\* LACP_initialize_port leaves a running port at rest, detached and unselected.
LEMMA InitializePortLemma ==
    ASSUME NEW c \in LportConfig, NEW p,
           p.trunk = {}, p.egress = FALSE, p.out \in Seq(SentPdu)
    PROVE  Running(LACP_initialize_port(c, p))
<1>. DEFINE z == Blank(c, p)
            a == ReceiveE8(z, sports)
            b == IF a.port_enabled THEN ReceiveE6(a) ELSE a
            e == PeriodicE1(b)
            f == MuxE7(e, sports)
            q == [f EXCEPT !.lacp_up = TRUE]
<1>1. q = LACP_initialize_port(c, p)
  BY DEF LACP_initialize_port
<1>2. PortOK(z) /\ ~z.lacp_up
  BY BlankLemma
<1>. HIDE DEF z
<1>3. /\ Received(z, a) /\ a.recv \in {"PORT_DISABLED", "EXPIRED"}
      /\ ~z.port_enabled => /\ a.recv = "PORT_DISABLED"
                            /\ ~a.psync
                            /\ a.mux \notin Forwarding
  BY <1>2, InitializeLemma DEF ReceiveE8
<1>. HIDE DEF a
<1>4. Received(a, b) /\ AtRest(b)
  <2>1. CASE a.port_enabled
    BY <1>3, <2>1, ReceiveE6Lemma DEF Received, DefaultedOK
  <2>2. CASE ~a.port_enabled
    BY <1>3, <2>2 DEF Received, AtRest, Quiet, DefaultedOK
  <2>. QED
    BY <2>1, <2>2
<1>. HIDE DEF b
<1>5. SameButPeriodic(b, e) /\ (~b.port_enabled => e.periodic = "NO_PERIODIC")
  BY <1>4, PeriodicEvents DEF AtRest, PortOK, PortBase
<1>. HIDE DEF e
<1>6. PortOK(e) /\ ~e.lacp_up
  BY <1>2, <1>3, <1>4, <1>5, TxKeepsOK DEF AtRest, Received, SameButPeriodic, Link
<1>7. IsPort(e) /\ Out(e) /\ ~e.selected
  BY <1>6, TrunkForms DEF PortOK, PortBase, LagOK, SelectionOK
<1>8. SameButPlace(e, f) /\ f.mux = "DETACHED" /\ Out(f)
  BY <1>7, DetachedLemma DEF MuxE7
<1>. HIDE DEF f
<1>9. "lacp_up" \in Fields /\ TRUE \in FieldType("lacp_up")
  BY FieldFacts DEF BooleanFields
<1>10. IsPort(q)
  BY <1>8, <1>9, Set1, Zenon DEF SameButPlace
<1>11. /\ q.lacp_up /\ q.port_enabled = f.port_enabled /\ q.recv = f.recv
       /\ q.psync = f.psync /\ q.fallback = f.fallback /\ q.periodic = f.periodic
       /\ q.selected = f.selected /\ q.mux = "DETACHED" /\ Out(q)
  BY <1>8, <1>10 DEF IsPort, SameButPlace, Out, Fields, BooleanFields
<1>. HIDE DEF q
<1>12. ~q.selected
  BY <1>7, <1>8, <1>11 DEF SameButPlace, Choice
<1>13. TrunkOK(q)
  BY <1>11, TrunkForms DEF Forwarding
<1>14. PortOK(q)
  BY <1>10, <1>11, <1>12, <1>13 DEF PortOK, PortBase, SelectionOK, LagOK, Forwarding
<1>15. /\ q.recv = b.recv /\ q.port_enabled = b.port_enabled /\ q.psync = b.psync
       /\ q.fallback = b.fallback
  BY <1>5, <1>8, <1>11 DEF SameButPeriodic, SameButPlace, Link
<1>16. ~q.port_enabled => q.periodic = "NO_PERIODIC"
  BY <1>5, <1>8, <1>11, <1>15 DEF SameButPlace
<1>17. AtRest(q)
  BY <1>4, <1>11, <1>14, <1>15 DEF AtRest, Quiet, DefaultedOK, Forwarding
<1>. QED
  BY <1>1, <1>11, <1>16, <1>17 DEF Running

(***************************************************************************)
(* The handlers.                                                           *)
(***************************************************************************)

\* What only moves the mux keeps a running port at rest.
LEMMA MovedRunning ==
    ASSUME NEW p, NEW q, Running(p), Moved(p, q)
    PROVE  Running(q)
<1>1. /\ PortOK(q) /\ Link(q) = Link(p) /\ q.periodic = p.periodic /\ NotJoining(p, q)
  BY DEF Moved, SameButPlace
<1>. QED
  BY <1>1 DEF Running, AtRest, Quiet, DefaultedOK, NotJoining, Link

\* What only transmits keeps a running port at rest.
LEMMA TxRunning ==
    ASSUME NEW p, NEW q, Running(p), SameButTx(p, q)
    PROVE  Running(q)
<1>1. PortOK(q)
  BY TxKeepsOK DEF Running, AtRest
<1>. QED
  BY <1>1 DEF Running, AtRest, Quiet, DefaultedOK, SameButTx, Link, Place

\* A handler starts from a running port at rest.
LEMMA StartRunning ==
    ASSUME Inv, port.lacp_up
    PROVE  Running(Start)
<1>1. Running(port)
  BY DEF Inv, Running
<1>2. SameButTx(port, Start)
  BY StartLemma DEF Inv
<1>. QED
  BY <1>1, <1>2, TxRunning

\* set_lacp_lport_params with LACP enabled, on a new or on a running port.
LEMMA InitializePortStep ==
    ASSUME Inv, NEW c \in Configs, NEW cleared, InitializePort(c, cleared)
    PROVE  Running(port')
<1>. DEFINE z == IF port.lacp_up THEN LACP_disable_lacp(Start, cleared) ELSE Start
<1>1. PortOK(Start) /\ SameButTx(port, Start)
  BY StartLemma DEF Inv
<1>2. PortOK(z) /\ Out(z)
  <2>1. CASE port.lacp_up
    BY <1>1, <2>1, DisableLemma
  <2>2. CASE ~port.lacp_up
    <3>1. Start.mux \notin Forwarding
      BY <1>1, <2>2 DEF Inv, SameButTx, Place, Forwarding
    <3>. QED
      BY <1>1, <2>2, <3>1, TrunkForms DEF PortOK, PortBase
  <2>. QED
    BY <2>1, <2>2
<1>3. port' = LACP_initialize_port(c, z)
  BY DEF InitializePort
<1>. HIDE DEF z
<1>4. z.out \in Seq(SentPdu) /\ z.egress \in BOOLEAN
  BY <1>2, FieldFacts DEF PortOK, PortBase, IsPort, BooleanFields
<1>5. z.trunk = {} /\ z.egress = FALSE
  BY <1>2, <1>4 DEF Out
<1>6. c \in LportConfig
  BY InputAssumption
<1>. QED
  BY <1>3, <1>4, <1>5, <1>6, InitializePortLemma

\* set_lacp_lport_params with LACP disabled.
LEMMA DisablePortStep ==
    ASSUME Inv, NEW cleared, DisablePort(cleared)
    PROVE  PortOK(port') /\ ~port'.lacp_up /\ port'.mux = "BEGIN" /\ port'.recv = "BEGIN"
  BY StartLemma, DisableLemma DEF Inv, DisablePort

\* set_lacp_lport_params with dynamic fields only.
LEMMA UpdateParamsStep ==
    ASSUME Inv, NEW t \in Timeout, NEW hwStatus, LACP_update_port_params(t, hwStatus)
    PROVE  Running(port')
<1>. DEFINE a == [Start EXCEPT !.timeout = t]
            b == IF hwStatus THEN [a EXCEPT !.collecting = FALSE] ELSE a
            d == IF hwStatus /\ b.selected /\ b.psync /\ b.pcollecting
                 THEN MuxE8(b, sports) ELSE b
            q == [d EXCEPT !.ntt = TRUE]
<1>1. port' = q
  BY DEF LACP_update_port_params
<1>2. Running(Start) /\ IsPort(Start)
  BY StartRunning DEF LACP_update_port_params, Running, AtRest, PortOK, PortBase
<1>3. /\ "timeout" \in Fields /\ t \in FieldType("timeout")
      /\ "collecting" \in Fields /\ FALSE \in FieldType("collecting")
      /\ "ntt" \in Fields /\ TRUE \in FieldType("ntt")
  BY FieldFacts DEF BooleanFields
<1>4. IsPort(a)
  BY <1>2, <1>3, Set1, Zenon
<1>5. SameButTx(Start, a)
  BY <1>2, <1>4 DEF IsPort, SameButTx, Link, Peer, Choice, Place, Fields, BooleanFields
<1>. HIDE DEF a
<1>6. IsPort(b)
  BY <1>3, <1>4, Set1, Zenon
<1>7. SameButTx(a, b)
  BY <1>4, <1>6 DEF IsPort, SameButTx, Link, Peer, Choice, Place, Fields, BooleanFields
<1>. HIDE DEF b
<1>8. Running(b)
  BY <1>2, <1>5, <1>7, TxRunning
<1>9. Running(d)
  BY <1>8, MuxE8Lemma, MovedRunning DEF Running, AtRest
<1>. HIDE DEF d
<1>10. IsPort(d)
  BY <1>9 DEF Running, AtRest, PortOK, PortBase
<1>11. IsPort(q)
  BY <1>3, <1>10, Set1, Zenon
<1>12. SameButTx(d, q)
  BY <1>10, <1>11 DEF IsPort, SameButTx, Link, Peer, Choice, Place, Fields, BooleanFields
<1>. QED
  BY <1>1, <1>9, <1>12, TxRunning

\* mlacpVapiLinkUp, at the old or at a new speed.
LEMMA LinkUpStep ==
    ASSUME Inv, NEW t \in PortTypes, mlacpVapiLinkUp(t)
    PROVE  Running(port')
<1>. DEFINE a == IF t # Start.port_type THEN Unselect(Start, sports) ELSE Start
            b == [a EXCEPT !.port_type = t, !.port_enabled = TRUE]
            d == ReceiveE6(b)
            q == IF BothPassive(d) THEN d ELSE PeriodicE2(d)
<1>1. port' = q
  BY DEF mlacpVapiLinkUp
<1>2. Running(Start) /\ PortOK(Start)
  BY StartRunning DEF mlacpVapiLinkUp, Running, AtRest
<1>3. /\ SameLink(Start, a) /\ PortOK(a) /\ (a.selected => a.port_type = t)
      /\ a.mux \in Forwarding => Start.mux \in Forwarding
  <2>1. CASE t # Start.port_type
    BY <1>2, <2>1, Unselecting DEF PortOK
  <2>2. CASE t = Start.port_type
    BY <1>2, <2>2 DEF SameLink, PortOK, PortBase
  <2>. QED
    BY <2>1, <2>2
<1>. HIDE DEF a
<1>4. /\ "port_type" \in Fields /\ t \in FieldType("port_type")
      /\ "port_enabled" \in Fields /\ TRUE \in FieldType("port_enabled")
  BY FieldFacts DEF BooleanFields
<1>5. IsPort(b)
  BY <1>3, <1>4, Set2, Zenon DEF PortOK, PortBase
<1>6. /\ Place(b) = Place(a) /\ Choice(b) = Choice(a) /\ b.port_type = t
      /\ b.psystem = a.psystem /\ b.pport = a.pport /\ b.paggregation = a.paggregation
      /\ b.lacp_up = a.lacp_up /\ b.psync = a.psync /\ b.recv = a.recv
      /\ b.fallback = a.fallback /\ b.port_enabled
  BY <1>3, <1>5 DEF IsPort, PortOK, PortBase, Place, Choice, Fields, BooleanFields
<1>. HIDE DEF b
<1>7. PortOK(b)
  <2>1. TrunkOK(b) /\ SelectionOK(b) /\ b.mux = a.mux /\ b.selected = a.selected
    BY <1>3, <1>6 DEF PortOK, PortBase, TrunkOK, SelectionOK, Place, Choice
  <2>2. LagOK(b)
    BY <1>3, <1>6 DEF PortOK, PortBase, LagOK, Choice
  <2>3. FallbackLag(b) = FallbackLag(a)
    BY <1>6 DEF FallbackLag, Choice
  <2>. QED
    BY <1>3, <1>5, <1>6, <2>1, <2>2, <2>3 DEF PortOK, PortBase
<1>8. DefaultedOK(b) /\ b.recv # "BEGIN" /\ b.lacp_up
  BY <1>2, <1>3, <1>6 DEF Running, AtRest, DefaultedOK, SameLink, Link, Place
<1>9. Received(b, d) /\ AtRest(d)
  BY <1>6, <1>7, <1>8, ReceiveE6Lemma
<1>. HIDE DEF d
<1>10. SameButPeriodic(d, q)
  BY <1>9, PeriodicEvents DEF AtRest, PortOK, PortBase, SameButPeriodic
<1>. HIDE DEF q
<1>11. PortOK(q)
  BY <1>9, <1>10, TxKeepsOK DEF AtRest
<1>. QED
  BY <1>1, <1>6, <1>8, <1>9, <1>10, <1>11
     DEF Running, AtRest, Received, SameButPeriodic, Quiet, DefaultedOK, Link, Place

\* mlacpVapiLinkDown.
LEMMA LinkDownStep ==
    ASSUME Inv, NEW answer \in Answers, mlacpVapiLinkDown(answer)
    PROVE  Running(port')
<1>. DEFINE a == [Start EXCEPT !.port_enabled = FALSE]
            b == PeriodicE1(a)
            q == ReceiveE4(b, sports, answer)
<1>1. port' = q
  BY DEF mlacpVapiLinkDown
<1>2. Running(Start) /\ PortOK(Start)
  BY StartRunning DEF mlacpVapiLinkDown, Running, AtRest
<1>3. "port_enabled" \in Fields /\ FALSE \in FieldType("port_enabled")
  BY FieldFacts DEF BooleanFields
<1>4. IsPort(a)
  BY <1>2, <1>3, Set1, Zenon DEF PortOK, PortBase
<1>5. /\ Place(a) = Place(Start) /\ Choice(a) = Choice(Start) /\ Peer(a) = Peer(Start)
      /\ a.lacp_up = Start.lacp_up /\ a.psync = Start.psync /\ a.recv = Start.recv
      /\ ~a.port_enabled
  BY <1>2, <1>4 DEF IsPort, PortOK, PortBase, Place, Choice, Peer, Fields, BooleanFields
<1>. HIDE DEF a
<1>6. PortOK(a)
  BY <1>2, <1>4, <1>5, KeepsOK
<1>7. SameButPeriodic(a, b) /\ b.periodic = "NO_PERIODIC"
  BY <1>4, <1>5, PeriodicEvents
<1>. HIDE DEF b
<1>8. PortOK(b) /\ b.recv # "BEGIN" /\ ~b.port_enabled /\ b.lacp_up
  BY <1>2, <1>5, <1>6, <1>7, TxKeepsOK DEF SameButPeriodic, Link, Running, AtRest
<1>9. Received(b, q) /\ AtRest(q) /\ q.periodic = b.periodic
  BY <1>8, ReceiveE4Lemma
<1>. HIDE DEF q
<1>. QED
  BY <1>1, <1>7, <1>8, <1>9 DEF Running, Received

\* LACP_process_lacpdu.
LEMMA PduStep ==
    ASSUME Inv, NEW pdu \in Pdus, NEW answer \in Answers,
           LACP_process_lacpdu(pdu, answer)
    PROVE  Running(port')
<1>. DEFINE q == ReceiveE1(Start, pdu, sports, answer)
<1>1. port' = q
  BY DEF LACP_process_lacpdu
<1>2. Running(Start)
  BY StartRunning DEF LACP_process_lacpdu
<1>3. pdu \in Lacpdu
  BY InputAssumption
<1>4. Received(Start, q) /\ AtRest(q) /\ (~Start.port_enabled => q = Start)
  BY <1>2, <1>3, ReceiveE1Lemma DEF Running
<1>. HIDE DEF q
<1>. QED
  BY <1>1, <1>2, <1>4 DEF Running, Received

\* set_lport_fallback_status.
LEMMA FallbackStep ==
    ASSUME Inv, NEW status \in BOOLEAN, NEW answer \in Answers,
           set_lport_fallback_status(status, answer)
    PROVE  Running(port')
<1>. DEFINE a == [Start EXCEPT !.fallback = status]
            q == ReceiveE9(a, sports, answer)
<1>1. port' = q
  BY DEF set_lport_fallback_status
<1>2. Running(Start) /\ PortOK(Start)
  BY StartRunning DEF set_lport_fallback_status, Running, AtRest
<1>3. "fallback" \in Fields /\ status \in FieldType("fallback")
  BY FieldFacts DEF BooleanFields
<1>4. IsPort(a)
  BY <1>2, <1>3, Set1, Zenon DEF PortOK, PortBase
<1>5. /\ Place(a) = Place(Start) /\ Choice(a) = Choice(Start) /\ Peer(a) = Peer(Start)
      /\ a.lacp_up = Start.lacp_up /\ a.psync = Start.psync /\ a.recv = Start.recv
      /\ a.port_enabled = Start.port_enabled /\ a.periodic = Start.periodic
  BY <1>2, <1>4 DEF IsPort, PortOK, PortBase, Place, Choice, Peer, Fields, BooleanFields
<1>. HIDE DEF a
<1>6. PortOK(a)
  BY <1>2, <1>4, <1>5, KeepsOK
<1>7. Quiet(a) /\ a.recv # "BEGIN"
  BY <1>2, <1>5 DEF Running, AtRest, Quiet, Place
<1>8. Received(a, q) /\ AtRest(q) /\ (~a.port_enabled => q = a)
  BY <1>6, <1>7, ReceiveE9Lemma
<1>. HIDE DEF q
<1>. QED
  BY <1>1, <1>2, <1>5, <1>8 DEF Running, Received

\* set_lport_overrides, which changes the actor but not the LAG.
LEMMA OverridesStep ==
    ASSUME Inv, NEW s \in ActorSystems, set_lport_overrides(s)
    PROVE  Running(port')
<1>. DEFINE q == [Start EXCEPT !.actor = s]
<1>1. port' = q
  BY DEF set_lport_overrides
<1>2. Running(Start) /\ PortOK(Start)
  BY StartRunning DEF set_lport_overrides, Running, AtRest
<1>3. "actor" \in Fields /\ s \in FieldType("actor")
  BY FieldFacts
<1>4. IsPort(q)
  BY <1>2, <1>3, Set1, Zenon DEF PortOK, PortBase
<1>5. /\ Place(q) = Place(Start) /\ Choice(q) = Choice(Start) /\ Link(q) = Link(Start)
      /\ q.periodic = Start.periodic /\ q.port_type = Start.port_type
      /\ q.psystem = Start.psystem /\ q.pport = Start.pport
      /\ q.paggregation = Start.paggregation
  BY <1>2, <1>4 DEF IsPort, PortOK, PortBase, Place, Choice, Link, Fields, BooleanFields
<1>. HIDE DEF q
<1>6. PortOK(q)
  <2>1. TrunkOK(q) /\ SelectionOK(q) /\ q.mux = Start.mux
    BY <1>2, <1>5 DEF PortOK, PortBase, TrunkOK, SelectionOK, Place, Choice
  <2>2. LagOK(q)
    BY <1>2, <1>5 DEF PortOK, PortBase, LagOK, Choice, Link
  <2>3. FallbackLag(q) = FallbackLag(Start)
    BY <1>5 DEF FallbackLag, Choice
  <2>. QED
    BY <1>2, <1>4, <1>5, <2>1, <2>2, <2>3 DEF PortOK, PortBase, Choice, Link
<1>. QED
  BY <1>1, <1>2, <1>5, <1>6 DEF Running, AtRest, Quiet, DefaultedOK, Link, Place

\* mlacpVapiSportParamsChange.
LEMMA SportParamsStep ==
    ASSUME Inv, NEW s \in Aggregators, SportParamsChange(s)
    PROVE  Running(port')
<1>. DEFINE q == mlacpVapiSportParamsChange(Start, sports)
<1>1. port' = q
  BY DEF SportParamsChange
<1>2. Running(Start) /\ PortBase(Start)
  BY StartRunning DEF SportParamsChange, Running, AtRest, PortOK
<1>3. SameLink(Start, q) /\ PortOK(q) /\ q.mux \notin Forwarding
  BY <1>2, SportParams
<1>. HIDE DEF q
<1>. QED
  BY <1>1, <1>2, <1>3 DEF Running, AtRest, SameLink, Link, Quiet, DefaultedOK

\* One second: the periodic, the wait-while and the current-while timer in turn.
LEMMA TickStep ==
    ASSUME Inv, NEW othersReady, NEW answer \in Answers,
           Tick(othersReady, answer)
    PROVE  Running(port')
<1>. DEFINE a == periodic_tx_timer_expiry(Start)
            b == mux_wait_while_timer_expiry(a, sports, othersReady)
            q == current_while_timer_expiry(b, sports, answer)
<1>1. port' = q
  BY DEF Tick
<1>2. Running(Start) /\ IsPort(Start)
  BY StartRunning DEF Tick, Running, AtRest, PortOK, PortBase
<1>3. SameButPeriodic(Start, a) /\ (Start.periodic = "NO_PERIODIC" => a = Start)
  BY <1>2, PeriodicTick
<1>. HIDE DEF a
<1>4. Running(a)
  <2>1. PortOK(a)
    BY <1>2, <1>3, TxKeepsOK DEF Running, AtRest
  <2>. QED
    BY <1>2, <1>3, <2>1 DEF Running, AtRest, SameButPeriodic, Quiet, DefaultedOK, Link,
                            Place
<1>5. Moved(a, b)
  BY <1>4, WaitTick DEF Running, AtRest
<1>. HIDE DEF b
<1>6. Running(b)
  BY <1>4, <1>5, MovedRunning
<1>7. /\ Received(b, q) /\ AtRest(q)
      /\ ~b.port_enabled => q.periodic = b.periodic
  BY <1>6, CurrentWhileTick DEF Running
<1>. HIDE DEF q
<1>. QED
  BY <1>1, <1>6, <1>7 DEF Running, Received

(***************************************************************************)
(* The invariant and what follows from it.                                 *)
(***************************************************************************)

\* The daemon starts with no port.
LEMMA InitInv == Init => Inv
<1>. SUFFICES ASSUME Init PROVE Inv
  OBVIOUS
<1>. DEFINE z == [trunk |-> {}, egress |-> FALSE, out |-> <<>>]
<1>1. z.trunk = {} /\ z.egress = FALSE /\ z.out \in Seq(SentPdu)
  OBVIOUS
<1>2. port = Blank(NoConfig, z)
  BY DEF Init, Absent
<1>. HIDE DEF z
<1>3. PortOK(port) /\ ~port.lacp_up /\ port.recv = "BEGIN" /\ port.mux = "BEGIN"
  BY <1>1, <1>2, NoConfigType, BlankLemma
<1>. QED
  BY <1>3 DEF Init, Inv

\* A handler that leaves a running port at rest keeps the invariant.
LEMMA RunningInv ==
    ASSUME Inv, Running(port'), UNCHANGED <<sports, listed>>
    PROVE  Inv'
  BY DEF Inv, Running, AtRest

\* Every handler keeps the invariant.
LEMMA NextInv == Inv /\ [Next]_vars => Inv'
<1>. SUFFICES ASSUME Inv, [Next]_vars PROVE Inv'
  OBVIOUS
<1>0. PlainOffers \subseteq Answers /\ Offers \subseteq Answers
  BY DEF PlainOffers, Offers
<1>1. ASSUME NEW c \in Configs, NEW cleared \in Clearings, InitializePort(c, cleared)
      PROVE  Inv'
  BY <1>1, InitializePortStep, RunningInv DEF InitializePort
<1>2. ASSUME NEW cleared \in Clearings, DisablePort(cleared)
      PROVE  Inv'
  BY <1>2, DisablePortStep DEF DisablePort, Inv
<1>3. ASSUME NEW t \in Timeout, NEW hwStatus \in BOOLEAN,
             LACP_update_port_params(t, hwStatus)
      PROVE  Inv'
  BY <1>3, UpdateParamsStep, RunningInv DEF LACP_update_port_params
<1>4. ASSUME NEW a \in ActorSystems, set_lport_overrides(a)
      PROVE  Inv'
  BY <1>4, OverridesStep, RunningInv DEF set_lport_overrides
<1>5. ASSUME NEW status \in BOOLEAN, NEW answer \in Offers,
             set_lport_fallback_status(status, answer)
      PROVE  Inv'
  BY <1>0, <1>5, FallbackStep, RunningInv DEF set_lport_fallback_status
<1>6. ASSUME NEW t \in PortTypes, mlacpVapiLinkUp(t)
      PROVE  Inv'
  BY <1>6, LinkUpStep, RunningInv DEF mlacpVapiLinkUp
<1>7. ASSUME NEW answer \in PlainOffers, mlacpVapiLinkDown(answer)
      PROVE  Inv'
  BY <1>0, <1>7, LinkDownStep, RunningInv DEF mlacpVapiLinkDown
<1>8. ASSUME NEW pdu \in Pdus, NEW answer \in PlainOffers,
             LACP_process_lacpdu(pdu, answer)
      PROVE  Inv'
  BY <1>0, <1>8, PduStep, RunningInv DEF LACP_process_lacpdu
<1>9. ASSUME NEW othersReady \in BOOLEAN, NEW answer \in Offers, Tick(othersReady, answer)
      PROVE  Inv'
  BY <1>0, <1>9, TickStep, RunningInv DEF Tick
<1>10. ASSUME NEW s \in Aggregators, SportParamsChange(s)
       PROVE  Inv'
  BY <1>10, SportParamsStep, RunningInv DEF SportParamsChange
<1>11. ASSUME NEW s \in Aggregators,
              ConfigureSport(s) \/ UnconfigureSport(s) \/ DestroySport(s)
       PROVE  Inv'
  BY <1>11 DEF ConfigureSport, UnconfigureSport, DestroySport, Inv
<1>12. CASE UNCHANGED vars
  BY <1>12 DEF vars, Inv
<1>. QED
  BY <1>1, <1>2, <1>3, <1>4, <1>5, <1>6, <1>7, <1>8, <1>9, <1>10, <1>11, <1>12
     DEF Next, LportMessage, LinkMessage, PduReceived, TimerTick, SportMessage

\* The invariant implies what the runs check.
LEMMA InvImplies ==
    Inv => /\ TypeOK /\ TrunkFollowsMux /\ SelectionFollowsMux /\ LinkDownIsQuiet
           /\ ForwardsToLagPartner /\ NoFallbackNoTraffic
<1>. SUFFICES ASSUME Inv
              PROVE  /\ TypeOK /\ TrunkFollowsMux /\ SelectionFollowsMux
                     /\ LinkDownIsQuiet /\ ForwardsToLagPartner /\ NoFallbackNoTraffic
  OBVIOUS
<1>1. TypeOK
  BY PortShape DEF TypeOK, Inv, PortOK, PortBase
<1>2. TrunkFollowsMux
  BY DEF TrunkFollowsMux, Inv, PortOK, PortBase, TrunkOK
<1>3. SelectionFollowsMux
  BY DEF SelectionFollowsMux, Inv, PortOK, PortBase, SelectionOK
<1>4. LinkDownIsQuiet
  BY DEF LinkDownIsQuiet, Inv, AtRest, Quiet
<1>5. ForwardsToLagPartner
  BY DEF ForwardsToLagPartner, Inv, PortOK, PortBase, SelectionOK, LagOK
<1>6. NoFallbackNoTraffic
  BY DEF NoFallbackNoTraffic, Inv, AtRest, DefaultedOK
<1>. QED
  BY <1>1, <1>2, <1>3, <1>4, <1>5, <1>6

\* The inductive invariant holds in every reachable state of a port, whatever
\* its configurations, its peer's LACPDUs and the timer counts of lacp_support.h.
THEOREM Invariance == Spec => []Inv
  BY InitInv, NextInv, PTL DEF Spec

\* Every field of lacp_per_port_variables_t always holds a value of its type: no
\* timer counts below zero, async_tx_count stays within its budget, and no
\* transition puts the port in the trunk of a null sport_handle.
THEOREM TypeCorrect == Spec => []TypeOK
  BY Invariance, InvImplies, PTL

\* The port is in the hardware trunk of exactly the LAG it is attached to while
\* its mux is COLLECTING or COLLECTING_DISTRIBUTING, and in none otherwise, also
\* after it was removed or initialized again: the calls of mlacp_send.c pair up.
THEOREM TrunkIsMux == Spec => []TrunkFollowsMux
  BY Invariance, InvImplies, PTL

\* selected and the mux state agree whenever no handler runs: every place that
\* gives up a selection has told the mux, and DEFAULTED, which gives one up
\* without telling, never does so while the mux forwards (receive_fsm.c:423-437).
THEOREM SelectionIsMux == Spec => []SelectionFollowsMux
  BY Invariance, InvImplies, PTL

\* With the link down nothing is sent or forwarded, whatever arrives late.
THEOREM LinkDown == Spec => []LinkDownIsQuiet
  BY Invariance, InvImplies, PTL

\* Traffic flows only in the LAG formed with the present partner at the present
\* speed; selection.c and update_Selected leave no stale LAG behind.
THEOREM LagPartner == Spec => []ForwardsToLagPartner
  BY Invariance, InvImplies, PTL

\* Without fallback a port whose partner timed out carries no traffic.
THEOREM NoFallback == Spec => []NoFallbackNoTraffic
  BY Invariance, InvImplies, PTL

(***************************************************************************)
(* What a call changes, as the set of the fields it may assign.            *)
(***************************************************************************)

\* A port, whatever set its trunk is.
Loose(p) ==
    /\ p = [f \in Fields |-> p[f]]
    /\ \A f \in Fields \ {"trunk"} : p[f] \in FieldType(f)

\* q is p but for the fields in S.
Only(S, p, q) == Loose(q) /\ \A f \in Fields \ S : q[f] = p[f]

TxFields  == {"ntt", "out", "async_tx"}

MuxFields == TxFields \cup
    {"mux", "sport", "hw_attached", "trunk", "egress", "sync", "collecting",
     "distributing", "wait_while"}

\* Every port is one.
LEMMA PortIsLoose ==
    ASSUME NEW p, IsPort(p)
    PROVE  Loose(p)
  BY DEF IsPort, Loose

\* A call that changes nothing changes no field of any set.
LEMMA OnlyRefl ==
    ASSUME NEW p, Loose(p), NEW S
    PROVE  Only(S, p, p)
  BY DEF Only

\* Two calls one after the other change what either may.
LEMMA OnlyTrans ==
    ASSUME NEW p, NEW q, NEW r, NEW S, NEW T, NEW U,
           Only(S, p, q), Only(T, q, r), S \subseteq U, T \subseteq U
    PROVE  Only(U, p, r)
  BY DEF Only

\* Assigning one field.
LEMMA Assign1 ==
    ASSUME NEW p, Loose(p), NEW f1 \in Fields, NEW v1, f1 = "trunk" \/ v1 \in FieldType(f1)
    PROVE  /\ Only({f1}, p, [p EXCEPT ![f1] = v1])
           /\ [p EXCEPT ![f1] = v1][f1] = v1
  BY DEF Loose, Only

(***************************** transmission ********************************)

\* The last LACPDU on the wire carries the flags the port has now.
OnWire(p) == p.out # <<>> /\ ActorFlags(p.out[Len(p.out)]) = ActorFlags(p)

\* Nothing is left unsaid: the port is silent, or has said or will say it.
Said(p) == p.periodic = "NO_PERIODIC" \/ p.ntt \/ OnWire(p)

\* A LACPDU waits only for lack of budget.
Flushed(p) == p.ntt => ~(p.async_tx < MAX_ASYNC_TX)

\* LACP_sync_transmit_lacpdu puts the present flags on the wire.
LEMMA SyncTransmitSays ==
    ASSUME NEW p, Loose(p)
    PROVE  LET q == LACP_sync_transmit_lacpdu(p)
           IN  /\ Only({"ntt", "out"}, p, q)
               /\ ~q.ntt
               /\ p.ntt => Said(q)
               /\ ~p.ntt /\ p.periodic # "NO_PERIODIC" => q = p
<1>. DEFINE pdu == LACP_build_lacpdu_payload(p)
            a == [p EXCEPT !.ntt = FALSE]
            b == [p EXCEPT !.out = Append(@, pdu), !.ntt = FALSE]
<1>1. pdu \in SentPdu
  BY FieldFacts DEF Loose, LACP_build_lacpdu_payload, SentPdu, BooleanFields
<1>2. ActorFlags(pdu) = ActorFlags(p)
  BY DEF LACP_build_lacpdu_payload, ActorFlags
<1>. HIDE DEF pdu
<1>3. p.out \in Seq(SentPdu) /\ p.ntt \in BOOLEAN
  BY FieldFacts DEF Loose, BooleanFields
<1>4. /\ Append(p.out, pdu) \in Seq(SentPdu)
      /\ Append(p.out, pdu) # <<>>
      /\ Append(p.out, pdu)[Len(Append(p.out, pdu))] = pdu
  BY <1>1, <1>3
<1>5. /\ "ntt" \in Fields /\ FALSE \in FieldType("ntt")
      /\ "out" \in Fields /\ Append(p.out, pdu) \in FieldType("out")
      /\ "out" # "ntt"
  BY <1>4, FieldFacts DEF BooleanFields
<1>6. Only({"ntt", "out"}, p, a) /\ ~a.ntt /\ a.periodic = p.periodic
  <2>1. Only({"ntt"}, p, a) /\ a.ntt = FALSE
    BY <1>5, Assign1, Zenon
  <2>. QED
    BY <2>1, FieldFacts DEF Only
<1>7. /\ Only({"ntt", "out"}, p, b) /\ ~b.ntt /\ b.out = Append(p.out, pdu)
      /\ ActorFlags(b) = ActorFlags(p)
  <2>1. Only({"out", "ntt"}, p, b) /\ b.out = Append(p.out, pdu) /\ b.ntt = FALSE
    BY <1>5 DEF Loose, Only
  <2>2. Only({"ntt", "out"}, p, b)
    BY <2>1 DEF Only
  <2>3. ActorFlags(b) = ActorFlags(p)
    BY <2>1, FieldFacts DEF Only, ActorFlags, BooleanFields
  <2>. QED
    BY <2>1, <2>2, <2>3
<1>8. LACP_sync_transmit_lacpdu(p) = IF p.periodic = "NO_PERIODIC" THEN a
                                     ELSE IF p.ntt THEN b ELSE p
  BY DEF LACP_sync_transmit_lacpdu, pdu
<1>9. Said(b)
  BY <1>2, <1>4, <1>7 DEF Said, OnWire
<1>. HIDE DEF a, b
<1>. QED
  BY <1>3, <1>6, <1>7, <1>8, <1>9, OnlyRefl DEF Said

\* NeedToTransmit says what there is to say, now or once there is budget again.
LEMMA TransmitSays ==
    ASSUME NEW p, Loose(p)
    PROVE  LET q == NeedToTransmit(p)
           IN  Only(TxFields, p, q) /\ Said(q) /\ Flushed(q)
<1>. DEFINE a == [p EXCEPT !.ntt = TRUE]
            b == [a EXCEPT !.async_tx = @ + 1]
<1>1. "ntt" \in Fields /\ TRUE \in FieldType("ntt")
  BY FieldFacts DEF BooleanFields
<1>2. Only({"ntt"}, p, a) /\ a.ntt
  BY <1>1, Assign1
<1>3. NeedToTransmit(p) = IF a.async_tx < MAX_ASYNC_TX
                          THEN LACP_sync_transmit_lacpdu(b) ELSE a
  BY DEF NeedToTransmit, LACP_async_transmit_lacpdu
<1>. HIDE DEF a
<1>4. CASE a.async_tx < MAX_ASYNC_TX
  <2>1. Loose(a) /\ a.async_tx \in 0..MAX_ASYNC_TX
    BY <1>2, FieldFacts DEF Only, Loose
  <2>2. "async_tx" \in Fields /\ a.async_tx + 1 \in FieldType("async_tx")
    BY <1>4, <2>1, FieldFacts, CountAssumption DEF Positive
  <2>3. Only({"async_tx"}, a, b)
    BY <2>1, <2>2, Assign1, Zenon
  <2>. HIDE DEF b
  <2>4. b.ntt = a.ntt /\ Loose(b)
    BY <1>1, <2>3 DEF Only
  <2>5. LET q == LACP_sync_transmit_lacpdu(b)
        IN  Only({"ntt", "out"}, b, q) /\ ~q.ntt /\ Said(q)
    BY <1>2, <2>4, SyncTransmitSays
  <2>6. Only(TxFields, p, b)
    BY <1>2, <2>3, OnlyTrans DEF TxFields
  <2>7. Only(TxFields, p, LACP_sync_transmit_lacpdu(b))
    BY <2>5, <2>6, OnlyTrans DEF TxFields
  <2>. QED
    BY <1>3, <1>4, <2>5, <2>7 DEF Flushed
<1>5. CASE ~(a.async_tx < MAX_ASYNC_TX)
  BY <1>2, <1>3, <1>5 DEF Only, TxFields, Said, Flushed
<1>. QED
  BY <1>4, <1>5

(************************ periodic transmission ****************************)

PeriodicFields == TxFields \cup {"periodic", "periodic_timer"}

\* LacpPort!PeriodicIsRunning of any port, and the states it may rest in.
PeriodicOK(p) ==
    /\ p.periodic \in {"NO_PERIODIC", "FAST_PERIODIC", "SLOW_PERIODIC"}
    /\ p.periodic \in {"FAST_PERIODIC", "SLOW_PERIODIC"} => p.periodic_timer > 0
    /\ p.port_enabled /\ ~BothPassive(p) => p.periodic # "NO_PERIODIC"
    /\ p.periodic = "SLOW_PERIODIC" => p.ptimeout = "LONG"

\* A periodic event keeps its promises to the mux: what was said stays said.
Speaks(p, q) ==
    /\ Only(PeriodicFields, p, q)
    /\ Said(p) => Said(q)
    /\ Flushed(p) => Flushed(q)

\* The fields the periodic machine reads are not among those it changes.
LEMMA PeriodicFrame ==
    ASSUME NEW p, NEW q, Only(PeriodicFields, p, q)
    PROVE  /\ q.port_enabled = p.port_enabled
           /\ BothPassive(q) = BothPassive(p)
           /\ q.ptimeout = p.ptimeout
           /\ ActorFlags(q) = ActorFlags(p)
  BY DEF Only, PeriodicFields, TxFields, Fields, BooleanFields, BothPassive, ActorFlags

\* A new periodic state takes nothing off the wire.
LEMMA StaysSaid ==
    ASSUME NEW p, NEW q, Only({"periodic", "periodic_timer"}, p, q)
    PROVE  /\ q.ntt = p.ntt
           /\ OnWire(q) = OnWire(p)
           /\ Flushed(q) = Flushed(p)
  BY DEF Only, Fields, BooleanFields, OnWire, Flushed, ActorFlags

\* LACP_slow_periodic_state_action starts the long interval.
LEMMA SlowRuns ==
    ASSUME NEW p, Loose(p)
    PROVE  LET q == LACP_slow_periodic_state_action(p)
           IN  /\ Only({"periodic", "periodic_timer"}, p, q)
               /\ q.periodic = "SLOW_PERIODIC" /\ q.periodic_timer > 0
<1>1. /\ "periodic" \in Fields /\ "SLOW_PERIODIC" \in FieldType("periodic")
      /\ "periodic_timer" \in Fields
      /\ SLOW_PERIODIC_COUNT \in FieldType("periodic_timer")
      /\ SLOW_PERIODIC_COUNT > 0
  BY FieldFacts, CountAssumption DEF PeriodicState, Positive
<1>. QED
  BY <1>1 DEF Loose, Only, LACP_slow_periodic_state_action

\* LACP_fast_periodic_state_action starts the interval the partner asks for.
LEMMA FastRuns ==
    ASSUME NEW p, Loose(p)
    PROVE  LET q == LACP_fast_periodic_state_action(p)
           IN  /\ Only({"periodic", "periodic_timer"}, p, q)
               /\ q.periodic \in {"FAST_PERIODIC", "SLOW_PERIODIC"}
               /\ q.periodic_timer > 0
               /\ PeriodicOK(q)
<1>. DEFINE a == [p EXCEPT !.periodic = "FAST_PERIODIC",
                           !.periodic_timer = FAST_PERIODIC_COUNT]
            b == LACP_slow_periodic_state_action(p)
            q == LACP_fast_periodic_state_action(p)
<1>1. /\ "periodic" \in Fields /\ "FAST_PERIODIC" \in FieldType("periodic")
      /\ "periodic_timer" \in Fields
      /\ FAST_PERIODIC_COUNT \in FieldType("periodic_timer")
      /\ FAST_PERIODIC_COUNT > 0
  BY FieldFacts, CountAssumption DEF PeriodicState, Positive
<1>2. /\ Only({"periodic", "periodic_timer"}, p, a)
      /\ a.periodic = "FAST_PERIODIC" /\ a.periodic_timer > 0
  BY <1>1 DEF Loose, Only
<1>3. /\ Only({"periodic", "periodic_timer"}, p, b)
      /\ b.periodic = "SLOW_PERIODIC" /\ b.periodic_timer > 0
  BY SlowRuns
<1>4. q = IF p.ptimeout = "LONG" THEN b ELSE a
  BY DEF LACP_fast_periodic_state_action
<1>. HIDE DEF a, b, q
<1>5. /\ Only({"periodic", "periodic_timer"}, p, q)
      /\ q.periodic \in {"FAST_PERIODIC", "SLOW_PERIODIC"}
      /\ q.periodic_timer > 0
      /\ q.periodic = "SLOW_PERIODIC" => p.ptimeout = "LONG"
  BY <1>2, <1>3, <1>4
<1>6. q.ptimeout = p.ptimeout
  BY <1>5, FieldFacts DEF Only
<1>. QED
  BY <1>5, <1>6 DEF PeriodicOK, q

\* LACP_no_periodic_state_action rests exactly where nothing is to be sent.
LEMMA NoPeriodicRests ==
    ASSUME NEW p, Loose(p)
    PROVE  LET q == LACP_no_periodic_state_action(p)
           IN  /\ Only({"periodic", "periodic_timer"}, p, q)
               /\ ~p.port_enabled \/ BothPassive(p) => q.periodic = "NO_PERIODIC"
               /\ PeriodicOK(q)
<1>. DEFINE a == [p EXCEPT !.periodic = "NO_PERIODIC", !.periodic_timer = 0]
<1>1. /\ "periodic" \in Fields /\ "NO_PERIODIC" \in FieldType("periodic")
      /\ "periodic_timer" \in Fields /\ 0 \in FieldType("periodic_timer")
  BY FieldFacts DEF PeriodicState
<1>2. Only({"periodic", "periodic_timer"}, p, a) /\ a.periodic = "NO_PERIODIC"
  BY <1>1 DEF Loose, Only
<1>. HIDE DEF a
<1>3. CASE ~p.port_enabled \/ BothPassive(p)
  <2>1. LACP_no_periodic_state_action(p) = a
    BY <1>3 DEF LACP_no_periodic_state_action, a
  <2>2. a.port_enabled = p.port_enabled /\ BothPassive(a) = BothPassive(p)
    BY <1>2 DEF Only, Fields, BooleanFields, BothPassive
  <2>. QED
    BY <1>2, <1>3, <2>1, <2>2 DEF PeriodicOK
<1>4. CASE ~(~p.port_enabled \/ BothPassive(p))
  BY <1>4, FastRuns DEF LACP_no_periodic_state_action
<1>. QED
  BY <1>3, <1>4

\* LACP_periodic_tx_state_action sends, and goes on as the partner asks.
LEMMA PeriodicTxSends ==
    ASSUME NEW p, Loose(p)
    PROVE  LET q == LACP_periodic_tx_state_action(p)
           IN  /\ Only(PeriodicFields, p, q)
               /\ Said(q) /\ Flushed(q)
               /\ PeriodicOK(q)
               /\ q.periodic = "NO_PERIODIC" => BothPassive(q)
<1>. DEFINE a == [p EXCEPT !.periodic = "PERIODIC_TX", !.ntt = TRUE]
            b == LACP_sync_transmit_lacpdu(a)
            q == LACP_periodic_tx_state_action(p)
<1>1. /\ "periodic" \in Fields /\ "PERIODIC_TX" \in FieldType("periodic")
      /\ "ntt" \in Fields /\ TRUE \in FieldType("ntt")
  BY FieldFacts DEF PeriodicState, BooleanFields
<1>2. Only({"periodic", "ntt"}, p, a) /\ a.periodic = "PERIODIC_TX" /\ a.ntt
  BY <1>1 DEF Loose, Only
<1>3. q = IF BothPassive(b) THEN LACP_no_periodic_state_action(b)
          ELSE LACP_fast_periodic_state_action(b)
  BY DEF LACP_periodic_tx_state_action
<1>. HIDE DEF a
<1>4. Only({"ntt", "out"}, a, b) /\ ~b.ntt /\ Said(b)
  BY <1>2, SyncTransmitSays DEF Only
<1>. HIDE DEF b
<1>5. OnWire(b)
  BY <1>1, <1>2, <1>4 DEF Said, Only
<1>6. /\ Only({"periodic", "periodic_timer"}, b, q)
      /\ PeriodicOK(q)
      /\ q.periodic = "NO_PERIODIC" => BothPassive(b)
  BY <1>3, <1>4, FastRuns, NoPeriodicRests DEF Only
<1>. HIDE DEF q
<1>7. OnWire(q) /\ ~q.ntt
  BY <1>4, <1>5, <1>6, StaysSaid
<1>8. Only(PeriodicFields, p, b) /\ Only(PeriodicFields, b, q)
  BY <1>2, <1>4, <1>6, OnlyTrans DEF PeriodicFields, TxFields, Only
<1>9. BothPassive(q) = BothPassive(b) /\ Only(PeriodicFields, p, q)
  BY <1>8, PeriodicFrame, OnlyTrans
<1>. QED
  BY <1>6, <1>7, <1>9 DEF Said, Flushed, q

\* E4, raised when the partner's timeout is long, and E6 lose nothing.
LEMMA IntervalEvents ==
    ASSUME NEW p, Loose(p)
    PROVE  /\ Speaks(p, PeriodicE4(p)) /\ Speaks(p, PeriodicE6(p))
           /\ PeriodicE4(p).periodic = "NO_PERIODIC" => PeriodicE4(p) = p
           /\ PeriodicE6(p).periodic = "NO_PERIODIC" =>
                  PeriodicE6(p) = p \/ BothPassive(PeriodicE6(p))
<1>1. Speaks(p, p)
  BY OnlyRefl DEF Speaks
<1>2. CASE p.periodic = "FAST_PERIODIC"
  <2>. DEFINE q == LACP_slow_periodic_state_action(p)
  <2>1. Only({"periodic", "periodic_timer"}, p, q) /\ q.periodic = "SLOW_PERIODIC"
    BY SlowRuns
  <2>2. PeriodicE4(p) = q /\ PeriodicE6(p) = p
    BY <1>2 DEF PeriodicE4, PeriodicE6
  <2>. HIDE DEF q
  <2>3. Only(PeriodicFields, p, q)
    BY <2>1 DEF Only, PeriodicFields
  <2>4. Speaks(p, q)
    BY <1>2, <2>1, <2>3, StaysSaid DEF Speaks, Said
  <2>. QED
    BY <1>1, <2>1, <2>2, <2>4
<1>3. CASE p.periodic = "SLOW_PERIODIC"
  BY <1>1, <1>3, PeriodicTxSends DEF PeriodicE4, PeriodicE6, Speaks
<1>4. CASE p.periodic \notin {"FAST_PERIODIC", "SLOW_PERIODIC"}
  BY <1>1, <1>4 DEF PeriodicE4, PeriodicE6
<1>. QED
  BY <1>2, <1>3, <1>4

\* A second of the periodic timer lets go of what the budget held back.
LEMMA PeriodicTickFlushes ==
    ASSUME NEW p, Loose(p), PeriodicOK(p)
    PROVE  LET q == periodic_tx_timer_expiry(p)
           IN  /\ Only(PeriodicFields, p, q)
               /\ PeriodicOK(q)
               /\ p.periodic # "NO_PERIODIC" => Flushed(q)
<1>. DEFINE q == periodic_tx_timer_expiry(p)
            a == [p EXCEPT !.periodic_timer = @ - 1, !.async_tx = 0]
            b == [a EXCEPT !.async_tx = @ + 1]
<1>1. CASE p.periodic # "NO_PERIODIC"
  <2>1. p.periodic \in {"FAST_PERIODIC", "SLOW_PERIODIC"} /\ p.periodic_timer > 0
    BY <1>1 DEF PeriodicOK
  <2>2. /\ "periodic_timer" \in Fields /\ p.periodic_timer - 1 \in FieldType("periodic_timer")
        /\ "async_tx" \in Fields /\ 0 \in FieldType("async_tx") /\ 1 \in FieldType("async_tx")
    <3>1. p.periodic_timer \in Nat
      BY FieldFacts DEF Loose
    <3>2. p.periodic_timer - 1 \in Nat /\ 0 \in 0..MAX_ASYNC_TX /\ 1 \in 0..MAX_ASYNC_TX
      BY <2>1, <3>1, CountAssumption DEF Positive
    <3>. QED
      BY <3>2, FieldFacts
  <2>3. /\ Only({"periodic_timer", "async_tx"}, p, a)
        /\ a.periodic_timer = p.periodic_timer - 1 /\ a.async_tx = 0
    BY <2>2 DEF Loose, Only
  <2>4. q = IF a.periodic_timer = 0 THEN PeriodicE3(a)
            ELSE IF a.ntt THEN LACP_async_transmit_lacpdu(a) ELSE a
    BY <1>1, <2>1 DEF periodic_tx_timer_expiry
  <2>. HIDE DEF a, q
  <2>5. Only(PeriodicFields, p, a) /\ a.periodic = p.periodic /\ Loose(a)
    BY <2>3, FieldFacts DEF Only, PeriodicFields, TxFields
  <2>6. CASE a.periodic_timer = 0
    <3>1. q = LACP_periodic_tx_state_action(a)
      BY <2>1, <2>4, <2>5, <2>6 DEF PeriodicE3
    <3>. QED
      BY <2>5, <3>1, PeriodicTxSends, OnlyTrans DEF q
  <2>7. CASE a.periodic_timer # 0
    <3>1. a.periodic_timer > 0
      <4>1. a.periodic_timer \in Nat
        BY <2>5, FieldFacts DEF Loose
      <4>. QED
        BY <2>7, <4>1
    <3>2. Only({"async_tx"}, a, b) /\ Loose(b)
      BY <2>2, <2>3, <2>5 DEF Loose, Only
    <3>3. LACP_async_transmit_lacpdu(a) = LACP_sync_transmit_lacpdu(b)
      BY <2>3, CountAssumption DEF LACP_async_transmit_lacpdu, Positive
    <3>. HIDE DEF b
    <3>4. LET r == LACP_sync_transmit_lacpdu(b)
          IN  Only(TxFields, a, r) /\ ~r.ntt
      BY <3>2, SyncTransmitSays, OnlyTrans DEF TxFields
    <3>5. Only(TxFields, a, q) /\ Flushed(q)
      BY <2>4, <2>5, <2>7, <3>3, <3>4, OnlyRefl DEF Flushed
    <3>6. /\ q.periodic = p.periodic /\ q.periodic_timer > 0
          /\ Only(PeriodicFields, p, q)
      BY <2>5, <3>1, <3>5, FieldFacts, OnlyTrans DEF Only, TxFields, PeriodicFields
    <3>7. /\ q.port_enabled = p.port_enabled /\ BothPassive(q) = BothPassive(p)
          /\ q.ptimeout = p.ptimeout
      BY <3>6, PeriodicFrame
    <3>. QED
      BY <3>5, <3>6, <3>7 DEF PeriodicOK, q
  <2>. QED
    BY <2>6, <2>7
<1>2. CASE p.periodic = "NO_PERIODIC"
  BY <1>2, OnlyRefl DEF periodic_tx_timer_expiry
<1>. QED
  BY <1>1, <1>2

(****************************** mux states *********************************)

\* Egress is open only in a trunk and only in COLLECTING_DISTRIBUTING.
Wired(p) == p.egress => p.hw_attached /\ p.mux = "COLLECTING_DISTRIBUTING"

\* Egress is open towards a partner that is in sync and collecting.
Earned(p) == p.egress => p.selected /\ p.psync /\ p.pcollecting

\* The states in which the mux is bound to its aggregator.
Bound == Forwarding \cup {"ATTACHED"}

\* Where a chain of mux states ends.
Arrived(p, q) ==
    /\ Only(MuxFields, p, q)
    /\ Wired(q) /\ Earned(q)
    /\ Said(q) /\ Flushed(q)
    /\ q.mux \in Bound => p.selected /\ q.sport = p.sport

\* What the exits of the mux states are decided by stays as it is.
LEMMA MuxFrame ==
    ASSUME NEW p, NEW q, Only(MuxFields, p, q)
    PROVE  /\ q.selected = p.selected /\ q.psync = p.psync
           /\ q.pcollecting = p.pcollecting /\ q.lag = p.lag
           /\ q.periodic = p.periodic
  BY DEF Only, MuxFields, TxFields, Fields, BooleanFields

\* A chain that continues another one arrives where the second one does.
LEMMA ArrivedTrans ==
    ASSUME NEW p, NEW q, NEW r, Only(MuxFields, p, q), q.sport = p.sport, Arrived(q, r)
    PROVE  Arrived(p, r)
<1>1. q.selected = p.selected
  BY MuxFrame
<1>2. Only(MuxFields, p, r)
  BY OnlyTrans DEF Arrived
<1>. QED
  BY <1>1, <1>2 DEF Arrived

\* Leaving the trunk closes egress and keeps the rest of the port.
LEMMA DisableCloses ==
    ASSUME NEW p, Loose(p), p.egress => p.hw_attached
    PROVE  LET q == disable_collecting_distributing(p)
           IN  /\ Only({"trunk", "egress", "hw_attached"}, p, q)
               /\ ~q.egress
<1>. DEFINE a == [p EXCEPT !.trunk = @ \ {p.sport}, !.egress = FALSE, !.hw_attached = FALSE]
<1>1. /\ {"trunk", "egress", "hw_attached"} \subseteq Fields
      /\ FALSE \in FieldType("egress") /\ FALSE \in FieldType("hw_attached")
  BY FieldFacts DEF BooleanFields
<1>2. Only({"trunk", "egress", "hw_attached"}, p, a) /\ ~a.egress
  BY <1>1 DEF Loose, Only
<1>. HIDE DEF a
<1>3. disable_collecting_distributing(p) = IF p.hw_attached THEN a ELSE p
  BY DEF disable_collecting_distributing, a
<1>. QED
  BY <1>2, <1>3, OnlyRefl

\* Transmitting changes nothing of where the port is.
LEMMA TransmitKeeps ==
    ASSUME NEW p, Loose(p)
    PROVE  LET q == NeedToTransmit(p)
           IN  /\ Only(MuxFields, p, q) /\ Said(q) /\ Flushed(q)
               /\ q.mux = p.mux /\ q.sport = p.sport
               /\ q.hw_attached = p.hw_attached /\ q.egress = p.egress
<1>. DEFINE q == NeedToTransmit(p)
<1>1. Only(TxFields, p, q) /\ Said(q) /\ Flushed(q)
  BY TransmitSays
<1>. HIDE DEF q
<1>2. Only(MuxFields, p, q)
  BY <1>1 DEF Only, MuxFields
<1>3. /\ q.mux = p.mux /\ q.sport = p.sport
      /\ q.hw_attached = p.hw_attached /\ q.egress = p.egress
  BY <1>1 DEF Only, TxFields, Fields, BooleanFields
<1>. QED
  BY <1>1, <1>2, <1>3 DEF q

\* ATTACHED is entered with egress closed.
LEMMA AttachedEnters ==
    ASSUME NEW p, Loose(p), p.egress => p.hw_attached
    PROVE  LET q == AttachedEntry(p)
           IN  /\ Only(MuxFields, p, q) /\ Said(q) /\ Flushed(q)
               /\ q.mux = "ATTACHED" /\ q.sport = p.sport /\ ~q.egress
<1>. DEFINE a == [p EXCEPT !.mux = "ATTACHED", !.sync = TRUE, !.collecting = FALSE]
            b == disable_collecting_distributing(a)
            c == [b EXCEPT !.distributing = FALSE]
            q == NeedToTransmit(c)
<1>1. /\ {"mux", "sync", "collecting", "distributing"} \subseteq Fields
      /\ "ATTACHED" \in FieldType("mux") /\ TRUE \in FieldType("sync")
      /\ FALSE \in FieldType("collecting") /\ FALSE \in FieldType("distributing")
  BY FieldFacts DEF BooleanFields, MuxState
<1>2. Only({"mux", "sync", "collecting"}, p, a) /\ a.mux = "ATTACHED"
  BY <1>1 DEF Loose, Only
<1>3. AttachedEntry(p) = q
  BY DEF AttachedEntry
<1>. HIDE DEF a
<1>4. /\ a.sport = p.sport /\ a.egress = p.egress /\ a.hw_attached = p.hw_attached
      /\ Loose(a) /\ Only(MuxFields, p, a)
  BY <1>2 DEF Only, Fields, BooleanFields, MuxFields
<1>5. Only({"trunk", "egress", "hw_attached"}, a, b) /\ ~b.egress
  BY <1>4, DisableCloses
<1>. HIDE DEF b
<1>6. b.mux = a.mux /\ b.sport = a.sport /\ Loose(b) /\ Only(MuxFields, a, b)
  BY <1>5 DEF Only, Fields, MuxFields
<1>7. Only({"distributing"}, b, c)
  BY <1>1, <1>6 DEF Loose, Only
<1>. HIDE DEF c
<1>8. /\ c.mux = b.mux /\ c.sport = b.sport /\ c.egress = b.egress
      /\ Loose(c) /\ Only(MuxFields, b, c)
  BY <1>7 DEF Only, Fields, BooleanFields, MuxFields
<1>9. /\ Only(MuxFields, c, q) /\ Said(q) /\ Flushed(q)
      /\ q.mux = c.mux /\ q.sport = c.sport /\ q.egress = c.egress
  BY <1>8, TransmitKeeps
<1>. HIDE DEF q
<1>10. Only(MuxFields, p, q)
  BY <1>4, <1>6, <1>8, <1>9, OnlyTrans
<1>. QED
  BY <1>2, <1>3, <1>4, <1>5, <1>6, <1>8, <1>9, <1>10

\* COLLECTING is entered through the hardware and leaves egress alone.
LEMMA CollectingEnters ==
    ASSUME NEW p, Loose(p)
    PROVE  LET q == CollectingEntry(p)
           IN  /\ Only(MuxFields, p, q) /\ Said(q) /\ Flushed(q)
               /\ q.mux = "COLLECTING" /\ q.sport = p.sport /\ q.egress = p.egress
               /\ q.hw_attached
<1>. DEFINE a == [p EXCEPT !.mux = "COLLECTING", !.distributing = FALSE]
            b == enable_collecting(a)
            c == [b EXCEPT !.collecting = TRUE]
            q == NeedToTransmit(c)
<1>1. /\ {"mux", "collecting", "distributing", "trunk", "hw_attached"} \subseteq Fields
      /\ "COLLECTING" \in FieldType("mux") /\ TRUE \in FieldType("collecting")
      /\ FALSE \in FieldType("distributing") /\ TRUE \in FieldType("hw_attached")
  BY FieldFacts DEF BooleanFields, MuxState
<1>2. Only({"mux", "distributing"}, p, a) /\ a.mux = "COLLECTING"
  BY <1>1 DEF Loose, Only
<1>3. CollectingEntry(p) = q
  BY DEF CollectingEntry
<1>. HIDE DEF a
<1>4. a.sport = p.sport /\ a.egress = p.egress /\ Loose(a) /\ Only(MuxFields, p, a)
  BY <1>2 DEF Only, Fields, BooleanFields, MuxFields
<1>5. Only({"trunk", "hw_attached"}, a, b) /\ b.hw_attached
  BY <1>1, <1>4 DEF Loose, Only, enable_collecting
<1>. HIDE DEF b
<1>6. /\ b.mux = a.mux /\ b.sport = a.sport /\ b.egress = a.egress
      /\ Loose(b) /\ Only(MuxFields, a, b)
  BY <1>5 DEF Only, Fields, BooleanFields, MuxFields
<1>7. Only({"collecting"}, b, c)
  BY <1>1, <1>6 DEF Loose, Only
<1>. HIDE DEF c
<1>8. /\ c.mux = b.mux /\ c.sport = b.sport /\ c.egress = b.egress
      /\ c.hw_attached = b.hw_attached
      /\ Loose(c) /\ Only(MuxFields, b, c)
  BY <1>7 DEF Only, Fields, BooleanFields, MuxFields
<1>9. /\ Only(MuxFields, c, q) /\ Said(q) /\ Flushed(q)
      /\ q.mux = c.mux /\ q.sport = c.sport /\ q.egress = c.egress
      /\ q.hw_attached = c.hw_attached
  BY <1>8, TransmitKeeps
<1>. HIDE DEF q
<1>10. Only(MuxFields, p, q)
  BY <1>4, <1>6, <1>8, <1>9, OnlyTrans
<1>. QED
  BY <1>2, <1>3, <1>4, <1>5, <1>6, <1>8, <1>9, <1>10

\* COLLECTING_DISTRIBUTING opens egress only in the hardware trunk.
LEMMA CollectingDistributingEnters ==
    ASSUME NEW p, Loose(p), p.egress => p.hw_attached
    PROVE  LET q == CollectingDistributingEntry(p)
           IN  /\ Only(MuxFields, p, q) /\ Said(q) /\ Flushed(q)
               /\ q.mux = "COLLECTING_DISTRIBUTING" /\ q.sport = p.sport
               /\ q.egress => q.hw_attached
<1>. DEFINE a == [p EXCEPT !.mux = "COLLECTING_DISTRIBUTING", !.distributing = TRUE]
            b == enable_distributing(a)
            q == NeedToTransmit(b)
<1>1. /\ {"mux", "distributing", "egress"} \subseteq Fields
      /\ "COLLECTING_DISTRIBUTING" \in FieldType("mux")
      /\ TRUE \in FieldType("distributing") /\ TRUE \in FieldType("egress")
  BY FieldFacts DEF BooleanFields, MuxState
<1>2. Only({"mux", "distributing"}, p, a) /\ a.mux = "COLLECTING_DISTRIBUTING"
  BY <1>1 DEF Loose, Only
<1>3. CollectingDistributingEntry(p) = q
  BY DEF CollectingDistributingEntry
<1>. HIDE DEF a
<1>4. /\ a.sport = p.sport /\ a.egress = p.egress /\ a.hw_attached = p.hw_attached
      /\ Loose(a) /\ Only(MuxFields, p, a)
  BY <1>2 DEF Only, Fields, BooleanFields, MuxFields
<1>5. Only({"egress"}, a, b) /\ (b.egress => a.egress \/ a.hw_attached)
  BY <1>1, <1>4 DEF Loose, Only, enable_distributing
<1>. HIDE DEF b
<1>6. /\ b.mux = a.mux /\ b.sport = a.sport /\ b.hw_attached = a.hw_attached
      /\ Loose(b) /\ Only(MuxFields, a, b)
  BY <1>5 DEF Only, Fields, BooleanFields, MuxFields
<1>7. /\ Only(MuxFields, b, q) /\ Said(q) /\ Flushed(q)
      /\ q.mux = b.mux /\ q.sport = b.sport /\ q.egress = b.egress
      /\ q.hw_attached = b.hw_attached
  BY <1>6, TransmitKeeps
<1>. HIDE DEF q
<1>8. Only(MuxFields, p, q)
  BY <1>4, <1>6, <1>7, OnlyTrans
<1>. QED
  BY <1>2, <1>3, <1>4, <1>5, <1>6, <1>7, <1>8

\* Waiting takes nothing back.
LEMMA WaitingKeeps ==
    ASSUME NEW p, Loose(p)
    PROVE  LET q == waiting_state_action(p)
           IN  /\ Only({"mux", "wait_while"}, p, q) /\ q.mux = "WAITING"
               /\ Said(q) = Said(p) /\ Flushed(q) = Flushed(p)
               /\ q.egress = p.egress /\ q.selected = p.selected
<1>. DEFINE a == [p EXCEPT !.mux = "WAITING"]
            q == [a EXCEPT !.wait_while = AGGREGATE_WAIT_COUNT]
<1>1. /\ "mux" \in Fields /\ "WAITING" \in FieldType("mux")
      /\ "wait_while" \in Fields /\ AGGREGATE_WAIT_COUNT \in FieldType("wait_while")
  BY FieldFacts, CountAssumption DEF MuxState, Positive
<1>2. waiting_state_action(p) = q
  BY DEF waiting_state_action, start_wait_while_timer
<1>3. Only({"mux", "wait_while"}, p, q) /\ q.mux = "WAITING"
  BY <1>1 DEF Loose, Only
<1>. HIDE DEF q
<1>4. /\ Said(q) = Said(p) /\ Flushed(q) = Flushed(p)
      /\ q.egress = p.egress /\ q.selected = p.selected
  BY <1>3 DEF Only, Fields, BooleanFields, Said, OnWire, Flushed, ActorFlags
<1>. QED
  BY <1>2, <1>3, <1>4

\* detached_state_action ends unbound and with egress closed.
LEMMA DetachedArrives ==
    ASSUME NEW p, Loose(p), p.egress => p.hw_attached, NEW ss
    PROVE  LET q == detached_state_action(p, ss)
           IN  /\ Arrived(p, q)
               /\ q.mux = IF p.selected THEN "WAITING" ELSE "DETACHED"
<1>. DEFINE m == [p EXCEPT !.mux = "DETACHED"]
            a == detach_mux_from_aggregator(m, ss)
            n == [a EXCEPT !.sync = FALSE, !.collecting = FALSE]
            b == disable_collecting_distributing(n)
            d == [b EXCEPT !.distributing = FALSE]
            c == NeedToTransmit(d)
            q == detached_state_action(p, ss)
<1>1. /\ {"mux", "sport", "sync", "collecting", "distributing"} \subseteq Fields
      /\ "DETACHED" \in FieldType("mux") /\ NoSport \in FieldType("sport")
      /\ FALSE \in FieldType("sync") /\ FALSE \in FieldType("collecting")
      /\ FALSE \in FieldType("distributing")
  BY FieldFacts DEF BooleanFields, MuxState
<1>2. Only({"mux"}, p, m) /\ m.mux = "DETACHED"
  BY <1>1 DEF Loose, Only
<1>3. q = IF c.selected THEN waiting_state_action(c) ELSE c
  BY DEF detached_state_action
<1>. HIDE DEF m
<1>4. Loose(m)
  BY <1>2 DEF Only
<1>5. Only({"sport"}, m, a)
  BY <1>1, <1>4 DEF Loose, Only, detach_mux_from_aggregator
<1>. HIDE DEF a
<1>6. Loose(a) /\ a.mux = m.mux
  BY <1>5, FieldFacts DEF Only
<1>7. Only({"sync", "collecting"}, a, n)
  BY <1>1, <1>6 DEF Loose, Only
<1>. HIDE DEF n
<1>8. Only({"mux", "sport", "sync", "collecting"}, p, n) /\ n.mux = "DETACHED" /\ Loose(n)
  BY <1>2, <1>5, <1>6, <1>7, FieldFacts, OnlyTrans DEF Only
<1>9. n.egress => n.hw_attached
  BY <1>8 DEF Only, Fields, BooleanFields
<1>10. Only({"trunk", "egress", "hw_attached"}, n, b) /\ ~b.egress
  BY <1>8, <1>9, DisableCloses
<1>. HIDE DEF b
<1>11. Loose(b) /\ b.mux = n.mux
  BY <1>10, FieldFacts DEF Only
<1>12. Only({"distributing"}, b, d)
  BY <1>1, <1>11 DEF Loose, Only
<1>. HIDE DEF d
<1>13. Loose(d) /\ d.mux = b.mux /\ d.egress = b.egress
  BY <1>12, FieldFacts DEF Only, BooleanFields
<1>14. /\ Only(MuxFields, d, c) /\ Said(c) /\ Flushed(c)
       /\ c.mux = d.mux /\ c.egress = d.egress
  BY <1>13, TransmitKeeps
<1>. HIDE DEF c
<1>15. Only(MuxFields, p, n) /\ Only(MuxFields, n, b) /\ Only(MuxFields, b, d)
  BY <1>8, <1>10, <1>12 DEF Only, MuxFields
<1>16. Only(MuxFields, p, c)
  BY <1>14, <1>15, OnlyTrans
<1>17. c.selected = p.selected /\ Loose(c) /\ ~c.egress /\ c.mux = "DETACHED"
  BY <1>8, <1>10, <1>11, <1>13, <1>14, <1>16, MuxFrame DEF Only
<1>18. CASE c.selected
  <2>1. /\ Only({"mux", "wait_while"}, c, q) /\ q.mux = "WAITING"
        /\ Said(q) /\ Flushed(q) /\ ~q.egress
    BY <1>3, <1>14, <1>17, <1>18, WaitingKeeps
  <2>. HIDE DEF q
  <2>2. Only(MuxFields, c, q)
    BY <2>1 DEF Only, MuxFields
  <2>3. Only(MuxFields, p, q)
    BY <1>16, <2>2, OnlyTrans
  <2>. QED
    BY <1>17, <1>18, <2>1, <2>3 DEF Arrived, Wired, Earned, Bound, Forwarding, q
<1>19. CASE ~c.selected
  <2>1. q = c
    BY <1>3, <1>19
  <2>. HIDE DEF q
  <2>. QED
    BY <1>14, <1>16, <1>17, <1>19, <2>1 DEF Arrived, Wired, Earned, Bound, Forwarding, q
<1>. QED
  BY <1>18, <1>19

\* FallBack arrives in ATTACHED or out of every aggregator.
LEMMA FallBackArrives ==
    ASSUME NEW p, Loose(p), p.egress => p.hw_attached, NEW ss
    PROVE  Arrived(p, FallBack(p, ss))
<1>. DEFINE q == AttachedEntry(p)
            r == FallBack(p, ss)
<1>1. /\ Only(MuxFields, p, q) /\ Said(q) /\ Flushed(q)
      /\ q.mux = "ATTACHED" /\ q.sport = p.sport /\ ~q.egress
  BY AttachedEnters
<1>2. r = IF q.selected THEN q ELSE detached_state_action(q, ss)
  BY DEF FallBack
<1>. HIDE DEF q, r
<1>3. Loose(q) /\ q.selected = p.selected
  BY <1>1, MuxFrame DEF Only
<1>4. Arrived(q, detached_state_action(q, ss))
  BY <1>1, <1>3, DetachedArrives
<1>5. q.selected => Arrived(q, q)
  BY <1>1, <1>3, OnlyRefl DEF Arrived, Wired, Earned
<1>. QED
  BY <1>1, <1>2, <1>4, <1>5, ArrivedTrans DEF r

\* collecting_distributing_state_action keeps egress open only if it was earned.
LEMMA CollectingDistributingArrives ==
    ASSUME NEW p, Loose(p), p.egress => p.hw_attached, NEW ss
    PROVE  Arrived(p, collecting_distributing_state_action(p, ss))
<1>. DEFINE q == CollectingDistributingEntry(p)
            a == AttachedEntry(q)
            b == CollectingEntry(a)
            r == collecting_distributing_state_action(p, ss)
<1>1. /\ Only(MuxFields, p, q) /\ Said(q) /\ Flushed(q)
      /\ q.mux = "COLLECTING_DISTRIBUTING" /\ q.sport = p.sport
      /\ q.egress => q.hw_attached
  BY CollectingDistributingEnters
<1>2. r = IF ~q.selected \/ ~q.psync THEN FallBack(q, ss)
          ELSE IF ~q.pcollecting THEN b ELSE q
  BY DEF collecting_distributing_state_action
<1>. HIDE DEF q, r
<1>3. Loose(q)
  BY <1>1 DEF Only
<1>4. Arrived(q, FallBack(q, ss))
  BY <1>1, <1>3, FallBackArrives
<1>5. q.selected => Arrived(q, b)
  <2>1. Only(MuxFields, q, a) /\ a.sport = q.sport /\ ~a.egress
    BY <1>1, <1>3, AttachedEnters
  <2>. HIDE DEF a
  <2>2. /\ Only(MuxFields, a, b) /\ Said(b) /\ Flushed(b)
        /\ b.mux = "COLLECTING" /\ b.sport = a.sport /\ ~b.egress
    BY <2>1, CollectingEnters DEF Only
  <2>. HIDE DEF b
  <2>3. Only(MuxFields, q, b)
    BY <2>1, <2>2, OnlyTrans
  <2>. QED
    BY <2>1, <2>2, <2>3 DEF Arrived, Wired, Earned
<1>6. q.selected /\ q.psync /\ q.pcollecting => Arrived(q, q)
  BY <1>1, <1>3, OnlyRefl DEF Arrived, Wired, Earned
<1>. HIDE DEF b
<1>7. Arrived(q, r)
  <2>1. CASE ~q.selected \/ ~q.psync
    BY <1>2, <1>4, <2>1
  <2>2. CASE q.selected /\ q.psync /\ ~q.pcollecting
    BY <1>2, <1>5, <2>2
  <2>3. CASE q.selected /\ q.psync /\ q.pcollecting
    BY <1>2, <1>6, <2>3
  <2>. QED
    BY <2>1, <2>2, <2>3
<1>. QED
  BY <1>1, <1>7, ArrivedTrans DEF r

\* collecting_state_action, entered with egress closed, arrives.
LEMMA CollectingArrives ==
    ASSUME NEW p, Loose(p), ~p.egress, NEW ss
    PROVE  Arrived(p, collecting_state_action(p, ss))
<1>. DEFINE q == CollectingEntry(p)
            r == collecting_state_action(p, ss)
<1>1. /\ Only(MuxFields, p, q) /\ Said(q) /\ Flushed(q)
      /\ q.mux = "COLLECTING" /\ q.sport = p.sport /\ ~q.egress
  BY CollectingEnters
<1>2. r = IF ~q.selected \/ ~q.psync THEN FallBack(q, ss)
          ELSE IF q.pcollecting THEN collecting_distributing_state_action(q, ss) ELSE q
  BY DEF collecting_state_action
<1>. HIDE DEF q, r
<1>3. Loose(q)
  BY <1>1 DEF Only
<1>4. /\ Arrived(q, FallBack(q, ss))
      /\ Arrived(q, collecting_distributing_state_action(q, ss))
  BY <1>1, <1>3, FallBackArrives, CollectingDistributingArrives
<1>5. q.selected => Arrived(q, q)
  BY <1>1, <1>3, OnlyRefl DEF Arrived, Wired, Earned
<1>6. Arrived(q, r)
  <2>1. CASE ~q.selected \/ ~q.psync
    BY <1>2, <1>4, <2>1
  <2>2. CASE q.selected /\ q.psync
    BY <1>2, <1>4, <1>5, <2>2
  <2>. QED
    BY <2>1, <2>2
<1>. QED
  BY <1>1, <1>6, ArrivedTrans DEF r

\* attached_state_action arrives, and unbound if the port is not selected.
LEMMA AttachedArrives ==
    ASSUME NEW p, Loose(p), p.egress => p.hw_attached, NEW ss
    PROVE  LET r == attached_state_action(p, ss)
           IN  /\ Arrived(p, r)
               /\ ~p.selected => r.mux = "DETACHED"
<1>. DEFINE q == AttachedEntry(p)
            r == attached_state_action(p, ss)
<1>1. /\ Only(MuxFields, p, q) /\ Said(q) /\ Flushed(q)
      /\ q.mux = "ATTACHED" /\ q.sport = p.sport /\ ~q.egress
  BY AttachedEnters
<1>2. r = IF ~q.selected THEN detached_state_action(q, ss)
          ELSE IF q.psync THEN collecting_state_action(q, ss) ELSE q
  BY DEF attached_state_action
<1>. HIDE DEF q, r
<1>3. Loose(q) /\ q.selected = p.selected
  BY <1>1, MuxFrame DEF Only
<1>4. /\ Arrived(q, detached_state_action(q, ss))
      /\ ~q.selected => detached_state_action(q, ss).mux = "DETACHED"
      /\ Arrived(q, collecting_state_action(q, ss))
  BY <1>1, <1>3, DetachedArrives, CollectingArrives
<1>5. q.selected => Arrived(q, q)
  BY <1>1, <1>3, OnlyRefl DEF Arrived, Wired, Earned
<1>6. Arrived(q, r)
  BY <1>2, <1>4, <1>5
<1>7. Arrived(p, r)
  BY <1>1, <1>6, ArrivedTrans
<1>. QED
  BY <1>2, <1>3, <1>4, <1>7 DEF r

(***************************************************************************)
(* A handler takes the port from s through a chain of calls.  OnCourse(s,  *)
(* p) is what holds of every port p on the way: egress was opened only     *)
(* where it was earned, a port that forwarded when the handler began is    *)
(* still bound to the same aggregator or to none, a changed flag has been  *)
(* or will be announced, and no budget has been wasted.                    *)
(***************************************************************************)

Steady(s, p) ==
    /\ Loose(p) /\ Wired(p)
    /\ p.selected => p.lag # NoLag
    /\ s.mux \in Forwarding /\ p.mux \in Bound => p.selected /\ p.sport = s.sport
    /\ s.periodic = "NO_PERIODIC" \/ Said(p) \/ ActorFlags(p) = ActorFlags(s)
    /\ Flushed(s) => Flushed(p)

Opened(s, p) == p.egress => s.egress \/ (p.selected /\ p.psync /\ p.pcollecting)

OnCourse(s, p) == Steady(s, p) /\ Opened(s, p)

PartnerFlags == {"psync", "pcollecting"}
CourseFields == MuxFields \cup {"selected", "lag", "periodic"}
SelectFields == MuxFields \cup {"selected", "lag", "ready_n"}

\* What the handler has said and promised is told by the fields of its course.
LEMMA CourseFrame ==
    ASSUME NEW p, NEW q, NEW S, Only(S, p, q), S \cap CourseFields = {}
    PROVE  /\ Loose(q) /\ Wired(q) = Wired(p)
           /\ q.selected = p.selected /\ q.lag = p.lag
           /\ q.mux = p.mux /\ q.sport = p.sport /\ q.egress = p.egress
           /\ Said(q) = Said(p) /\ Flushed(q) = Flushed(p)
           /\ ActorFlags(q) = ActorFlags(p)
<1>1. \A f \in CourseFields \cap Fields : q[f] = p[f]
  BY DEF Only
<1>2. /\ q.selected = p.selected /\ q.lag = p.lag /\ q.periodic = p.periodic
      /\ q.mux = p.mux /\ q.sport = p.sport /\ q.egress = p.egress
      /\ q.hw_attached = p.hw_attached
      /\ q.ntt = p.ntt /\ q.out = p.out /\ q.async_tx = p.async_tx
      /\ q.sync = p.sync /\ q.collecting = p.collecting
      /\ q.distributing = p.distributing
  BY <1>1, FieldFacts DEF CourseFields, MuxFields, TxFields, BooleanFields
<1>. QED
  BY <1>2 DEF Only, Wired, Said, OnWire, Flushed, ActorFlags

\* A change of other fields keeps the course.
LEMMA KeepsCourse ==
    ASSUME NEW s, NEW p, NEW q, NEW S, OnCourse(s, p), Only(S, p, q),
           S \cap (CourseFields \cup PartnerFlags) = {}
    PROVE  OnCourse(s, q)
<1>1. q.psync = p.psync /\ q.pcollecting = p.pcollecting
  BY FieldFacts DEF Only, PartnerFlags, BooleanFields
<1>2. S \cap CourseFields = {}
  OBVIOUS
<1>. QED
  BY <1>1, <1>2, CourseFrame DEF OnCourse, Steady, Opened

\* So does a new opinion of the partner before anything has been opened.
LEMMA NewOpinion ==
    ASSUME NEW s, NEW p, NEW q, NEW S, Steady(s, p), Only(S, p, q),
           S \cap CourseFields = {}
    PROVE  /\ Steady(s, q) /\ q.egress = p.egress
           /\ (p.egress => s.egress) => OnCourse(s, q) /\ (q.egress => s.egress)
  BY CourseFrame DEF OnCourse, Steady, Opened

\* So does a periodic event that keeps its promises.
LEMMA PeriodicKeepsCourse ==
    ASSUME NEW s, NEW p, NEW q, Steady(s, p), Speaks(p, q)
    PROVE  /\ Steady(s, q) /\ q.egress = p.egress
           /\ OnCourse(s, p) => OnCourse(s, q)
<1>1. /\ q.selected = p.selected /\ q.lag = p.lag
      /\ q.mux = p.mux /\ q.sport = p.sport /\ q.egress = p.egress
      /\ q.hw_attached = p.hw_attached
      /\ q.psync = p.psync /\ q.pcollecting = p.pcollecting
  BY DEF Speaks, Only, PeriodicFields, TxFields, Fields, BooleanFields
<1>2. ActorFlags(q) = ActorFlags(p)
  BY PeriodicFrame DEF Speaks
<1>. QED
  BY <1>1, <1>2 DEF OnCourse, Steady, Opened, Speaks, Only, Wired

\* So does a chain of mux states that does not bind a waiting port.
LEMMA ArrivedOnCourse ==
    ASSUME NEW s, NEW p, NEW q, OnCourse(s, p), Arrived(p, q),
           s.mux \in Forwarding => p.mux \in Bound \/ q.mux \notin Bound
    PROVE  OnCourse(s, q)
<1>1. q.selected = p.selected /\ q.lag = p.lag
  BY MuxFrame DEF Arrived
<1>. QED
  BY <1>1 DEF OnCourse, Steady, Opened, Arrived, Only, Earned

\* E5, E6 and E8 keep the course.
LEMMA MuxEvents ==
    ASSUME NEW s, NEW p, OnCourse(s, p), NEW ss
    PROVE  /\ OnCourse(s, MuxE5(p, ss)) /\ Only(MuxFields, p, MuxE5(p, ss))
           /\ OnCourse(s, MuxE6(p, ss)) /\ Only(MuxFields, p, MuxE6(p, ss))
           /\ OnCourse(s, MuxE8(p, ss)) /\ Only(MuxFields, p, MuxE8(p, ss))
<1>1. Loose(p) /\ (p.egress => p.hw_attached) /\ Only(MuxFields, p, p)
  BY OnlyRefl DEF OnCourse, Steady, Opened, Wired
<1>2. p.mux = "ATTACHED" => Arrived(p, collecting_state_action(p, ss))
  BY <1>1, CollectingArrives DEF OnCourse, Steady, Opened, Wired
<1>3. /\ Arrived(p, attached_state_action(p, ss))
      /\ Arrived(p, collecting_distributing_state_action(p, ss))
  BY <1>1, AttachedArrives, CollectingDistributingArrives
<1>4. OnCourse(s, MuxE5(p, ss)) /\ Only(MuxFields, p, MuxE5(p, ss))
  BY <1>1, <1>2, ArrivedOnCourse DEF MuxE5, Arrived, Bound
<1>5. OnCourse(s, MuxE6(p, ss)) /\ Only(MuxFields, p, MuxE6(p, ss))
  BY <1>1, <1>3, ArrivedOnCourse DEF MuxE6, Arrived, Bound
<1>6. OnCourse(s, MuxE8(p, ss)) /\ Only(MuxFields, p, MuxE8(p, ss))
  BY <1>1, <1>3, ArrivedOnCourse DEF MuxE8, Arrived, Bound, Forwarding
<1>. QED
  BY <1>4, <1>5, <1>6

\* Giving up the selection leaves the port unbound and egress closed.
LEMMA UnselectOnCourse ==
    ASSUME NEW s, NEW p, OnCourse(s, p), NEW ss
    PROVE  LET q == Unselect(p, ss)
           IN  /\ OnCourse(s, q) /\ Only(MuxFields \cup {"selected"}, p, q)
               /\ ~q.selected /\ q.mux \in {"BEGIN", "DETACHED"} /\ ~q.egress
<1>. DEFINE a == [p EXCEPT !.selected = FALSE]
            q == MuxE2(a, ss)
<1>1. "selected" \in Fields /\ FALSE \in FieldType("selected")
  BY FieldFacts DEF BooleanFields
<1>2. Only({"selected"}, p, a) /\ ~a.selected
  BY <1>1 DEF OnCourse, Steady, Opened, Loose, Only
<1>3. Unselect(p, ss) = q
  BY DEF Unselect
<1>. HIDE DEF a
<1>4. /\ a.mux = p.mux /\ a.egress = p.egress /\ a.hw_attached = p.hw_attached
      /\ Said(a) = Said(p) /\ Flushed(a) = Flushed(p) /\ ActorFlags(a) = ActorFlags(p)
      /\ a.lag = p.lag
  BY <1>2 DEF Only, Fields, BooleanFields, Said, OnWire, Flushed, ActorFlags
<1>5. Loose(a) /\ a.mux \in MuxState /\ (a.egress => a.hw_attached) /\ Wired(a)
  BY <1>2, <1>4, FieldFacts DEF OnCourse, Steady, Opened, Wired, Only, Loose
<1>6. CASE a.mux \in {"WAITING", "ATTACHED"} \cup Forwarding
  <2>1. Arrived(a, q) /\ q.mux = "DETACHED"
    <3>1. CASE a.mux \in {"WAITING", "ATTACHED"}
      BY <1>2, <1>5, <3>1, DetachedArrives DEF MuxE2
    <3>2. CASE a.mux \in Forwarding
      BY <1>2, <1>5, <3>2, AttachedArrives DEF MuxE2, Forwarding
    <3>. QED
      BY <1>6, <3>1, <3>2
  <2>. HIDE DEF q
  <2>2. Only(MuxFields \cup {"selected"}, p, q)
    BY <1>2, <2>1, OnlyTrans DEF Arrived
  <2>3. ~q.selected
    BY <1>2, <2>1, MuxFrame DEF Arrived
  <2>4. ~q.egress
    BY <2>1 DEF Arrived, Wired
  <2>5. OnCourse(s, q)
    BY <2>1, <2>3, <2>4 DEF OnCourse, Steady, Opened, Arrived, Only, Bound, Forwarding
  <2>. QED
    BY <1>3, <2>1, <2>2, <2>3, <2>4, <2>5
<1>7. CASE a.mux \notin {"WAITING", "ATTACHED"} \cup Forwarding
  <2>1. q = a
    BY <1>7 DEF MuxE2
  <2>. HIDE DEF q
  <2>2. a.mux \in {"BEGIN", "DETACHED"} /\ ~a.egress
    BY <1>5, <1>7 DEF Wired, MuxState, Forwarding
  <2>3. OnCourse(s, a)
    BY <1>2, <1>4, <1>5, <2>2 DEF OnCourse, Steady, Opened, Bound, Forwarding
  <2>4. Only(MuxFields \cup {"selected"}, p, a)
    BY <1>2 DEF Only
  <2>. QED
    BY <1>2, <1>3, <2>1, <2>2, <2>3, <2>4
<1>. QED
  BY <1>6, <1>7

\* One second of the wait-while timer keeps the course, E3 included: a port that
\* forwards is not waiting.
LEMMA WaitTickOnCourse ==
    ASSUME NEW s, NEW p, OnCourse(s, p), p.mux = s.mux, NEW ss, NEW ready
    PROVE  LET q == mux_wait_while_timer_expiry(p, ss, ready)
           IN  OnCourse(s, q) /\ Only(MuxFields \cup {"ready_n"}, p, q)
<1>. DEFINE a == [p EXCEPT !.wait_while = @ - 1]
            b == [a EXCEPT !.ready_n = TRUE]
            c == [b EXCEPT !.wait_while = AGGREGATE_WAIT_COUNT]
            d == MuxE3(b, ss)
            q == mux_wait_while_timer_expiry(p, ss, ready)
            S == MuxFields \cup {"ready_n"}
            T == {"wait_while", "ready_n"}
<1>1. CASE p.lag # NoLag /\ p.wait_while > 0
  <2>1. /\ "wait_while" \in Fields /\ p.wait_while - 1 \in FieldType("wait_while")
        /\ AGGREGATE_WAIT_COUNT \in FieldType("wait_while")
        /\ "ready_n" \in Fields /\ TRUE \in FieldType("ready_n")
    <3>1. p.wait_while \in Nat
      BY FieldFacts DEF OnCourse, Steady, Opened, Loose
    <3>2. p.wait_while - 1 \in Nat /\ AGGREGATE_WAIT_COUNT \in Nat
      BY <1>1, <3>1, CountAssumption DEF Positive
    <3>. QED
      BY <3>2, FieldFacts DEF BooleanFields
  <2>2. Only({"wait_while"}, p, a)
    BY <2>1 DEF OnCourse, Steady, Opened, Loose, Only
  <2>3. q = IF a.wait_while > 0 THEN a ELSE IF ready /\ b.selected THEN d ELSE c
    BY <1>1 DEF mux_wait_while_timer_expiry, start_wait_while_timer
  <2>. HIDE DEF a, q
  <2>4. Only({"ready_n"}, a, b)
    BY <2>1, <2>2 DEF Loose, Only
  <2>. HIDE DEF b
  <2>5. Only({"wait_while"}, b, c)
    BY <2>1, <2>4 DEF Loose, Only
  <2>. HIDE DEF c, d
  <2>6. Only(T, p, a) /\ Only(T, p, b) /\ Only(T, p, c)
    BY <2>2, <2>4, <2>5, OnlyTrans DEF Only
  <2>7. ASSUME NEW r, Only(T, p, r)
        PROVE  OnCourse(s, r) /\ r.mux = p.mux /\ Only(S, p, r)
    <3>1. /\ r.selected = p.selected /\ r.lag = p.lag
          /\ r.mux = p.mux /\ r.sport = p.sport /\ r.egress = p.egress
          /\ r.hw_attached = p.hw_attached
          /\ r.psync = p.psync /\ r.pcollecting = p.pcollecting
          /\ Said(r) = Said(p) /\ Flushed(r) = Flushed(p) /\ ActorFlags(r) = ActorFlags(p)
      BY <2>7 DEF Only, Fields, BooleanFields, Said, OnWire, Flushed, ActorFlags
    <3>2. OnCourse(s, r)
      BY <2>7, <3>1 DEF OnCourse, Steady, Opened, Only, Wired
    <3>3. Only(S, p, r)
      BY <2>7 DEF Only, MuxFields
    <3>. QED
      BY <3>1, <3>2, <3>3
  <2>8. OnCourse(s, b) /\ b.mux = s.mux
    BY <2>6, <2>7
  <2>9. Arrived(b, attached_state_action(b, ss))
    BY <2>8, AttachedArrives DEF OnCourse, Steady, Opened, Wired
  <2>10. CASE b.mux = "WAITING"
    <3>1. d = attached_state_action(b, ss)
      BY <2>10 DEF MuxE3, d
    <3>2. OnCourse(s, d)
      BY <2>8, <2>9, <2>10, <3>1, ArrivedOnCourse DEF Forwarding
    <3>3. Only(S, p, d)
      BY <2>6, <2>7, <2>9, <3>1, OnlyTrans DEF Arrived
    <3>. QED
      BY <2>3, <2>6, <2>7, <3>2, <3>3 DEF q
  <2>11. CASE b.mux # "WAITING"
    <3>1. d = b
      BY <2>11 DEF MuxE3, d
    <3>. QED
      BY <2>3, <2>6, <2>7, <3>1 DEF q
  <2>. QED
    BY <2>10, <2>11
<1>2. CASE ~(p.lag # NoLag /\ p.wait_while > 0)
  <2>1. q = p
    BY <1>2 DEF mux_wait_while_timer_expiry
  <2>. HIDE DEF q
  <2>. QED
    BY <2>1, OnlyRefl DEF q, OnCourse, Steady, Opened
<1>. QED
  BY <1>1, <1>2

(***************************** selection.c *********************************)

\* Selection changes none of what names the LAG of the port.
LEMMA SelectFrame ==
    ASSUME NEW p, NEW q, Only(SelectFields, p, q)
    PROVE  form_lag_id(q) = form_lag_id(p) /\ q.lacp_up = p.lacp_up
  BY DEF Only, SelectFields, MuxFields, TxFields, Fields, BooleanFields, form_lag_id

\* The LAG a port forms with its partner is a LAG.
LEMMA FormedLag ==
    ASSUME NEW p, Loose(p)
    PROVE  form_lag_id(p) \in LagId /\ form_lag_id(p) # NoLag
<1>1. form_lag_id(p) \in LagId
  BY FieldFacts DEF Loose, BooleanFields, form_lag_id, LagId
<1>. QED
  BY <1>1, LagAssumption

\* mlacpVapiSportParamsChange leaves the port unselected.
LEMMA ParamsChangeOnCourse ==
    ASSUME NEW s, NEW p, OnCourse(s, p), NEW ss
    PROVE  LET q == mlacpVapiSportParamsChange(p, ss)
           IN  /\ OnCourse(s, q) /\ Only(MuxFields \cup {"selected", "ready_n"}, p, q)
               /\ ~q.selected /\ q.mux \notin Bound /\ ~q.egress
<1>. DEFINE a == Unselect(p, ss)
            q == [a EXCEPT !.ready_n = FALSE]
<1>1. /\ OnCourse(s, a) /\ Only(MuxFields \cup {"selected"}, p, a)
      /\ ~a.selected /\ a.mux \notin Bound /\ ~a.egress
  BY UnselectOnCourse DEF Bound, Forwarding
<1>2. mlacpVapiSportParamsChange(p, ss) = q
  BY DEF mlacpVapiSportParamsChange
<1>. HIDE DEF a
<1>3. "ready_n" \in Fields /\ FALSE \in FieldType("ready_n")
  BY FieldFacts DEF BooleanFields
<1>4. Only({"ready_n"}, a, q)
  BY <1>1, <1>3 DEF OnCourse, Steady, Opened, Loose, Only
<1>. HIDE DEF q
<1>5. {"ready_n"} \cap (CourseFields \cup PartnerFlags) = {}
  BY DEF CourseFields, PartnerFlags, MuxFields, TxFields
<1>6. OnCourse(s, q)
  BY <1>1, <1>4, <1>5, KeepsCourse
<1>7. q.selected = a.selected /\ q.mux = a.mux /\ q.egress = a.egress
  BY <1>4, FieldFacts DEF Only, BooleanFields
<1>8. Only(MuxFields \cup {"selected", "ready_n"}, p, q)
  BY <1>1, <1>4, OnlyTrans
<1>. QED
  BY <1>1, <1>2, <1>6, <1>7, <1>8

\* Settling on an aggregator binds no port that forwarded: it was unbound before.
LEMMA SettleOnCourse ==
    ASSUME NEW s, NEW p, OnCourse(s, p), ~p.selected, p.lag # NoLag,
           NEW agg \in Aggregators
    PROVE  LET q == Settle(p, agg)
           IN  OnCourse(s, q) /\ Only(SelectFields, p, q) /\ q.lag = p.lag
<1>. DEFINE a == [p EXCEPT !.sport = agg, !.selected = TRUE]
            w == waiting_state_action(a)
            q == Settle(p, agg)
<1>1. /\ "sport" \in Fields /\ agg \in FieldType("sport")
      /\ "selected" \in Fields /\ TRUE \in FieldType("selected")
  BY FieldFacts DEF BooleanFields
<1>2. Only({"sport", "selected"}, p, a)
  BY <1>1 DEF OnCourse, Steady, Opened, Loose, Only
<1>3. q = IF a.mux = "DETACHED" THEN w ELSE a
  BY DEF Settle, MuxE1
<1>. HIDE DEF a, q
<1>4. /\ a.mux = p.mux /\ a.egress = p.egress /\ a.hw_attached = p.hw_attached
      /\ a.lag = p.lag /\ a.psync = p.psync /\ a.pcollecting = p.pcollecting
      /\ Said(a) = Said(p) /\ Flushed(a) = Flushed(p) /\ ActorFlags(a) = ActorFlags(p)
  BY <1>2 DEF Only, Fields, BooleanFields, Said, OnWire, Flushed, ActorFlags
<1>5. s.mux \in Forwarding => a.mux \notin Bound
  BY <1>4 DEF OnCourse, Steady, Opened
<1>6. OnCourse(s, a)
  BY <1>2, <1>4, <1>5 DEF OnCourse, Steady, Opened, Only, Wired
<1>7. Only(SelectFields, p, a)
  BY <1>2 DEF Only, SelectFields, MuxFields
<1>8. CASE a.mux = "DETACHED"
  <2>1. /\ Only({"mux", "wait_while"}, a, w) /\ w.mux = "WAITING"
        /\ Said(w) = Said(a) /\ Flushed(w) = Flushed(a)
        /\ w.egress = a.egress
    BY <1>6, WaitingKeeps DEF OnCourse, Steady, Opened
  <2>. HIDE DEF w
  <2>2. ActorFlags(w) = ActorFlags(a) /\ w.lag = a.lag
    BY <2>1 DEF Only, Fields, BooleanFields, ActorFlags
  <2>3. ~w.egress
    BY <1>6, <1>8, <2>1 DEF OnCourse, Steady, Opened, Wired
  <2>4. OnCourse(s, w)
    BY <1>4, <1>6, <2>1, <2>2, <2>3
       DEF OnCourse, Steady, Opened, Only, Wired, Bound, Forwarding
  <2>5. Only(SelectFields, a, w)
    BY <2>1 DEF Only, SelectFields, MuxFields
  <2>6. Only(SelectFields, p, w)
    BY <1>7, <2>5, OnlyTrans
  <2>. QED
    BY <1>3, <1>4, <1>8, <2>2, <2>4, <2>6 DEF q
<1>9. CASE a.mux # "DETACHED"
  BY <1>3, <1>4, <1>6, <1>7, <1>9 DEF q
<1>. QED
  BY <1>8, <1>9

\* LAG_select_aggregator keeps the course of a port in a LAG without aggregator.
LEMMA AggregatorOnCourse ==
    ASSUME NEW s, NEW p, OnCourse(s, p), ~p.selected, p.lag # NoLag, NEW ss,
           NEW answer \in Answers
    PROVE  LET q == LAG_select_aggregator(p, ss, answer)
           IN  OnCourse(s, q) /\ Only(SelectFields, p, q) /\ q.lag = p.lag
<1>. DEFINE a == SelectSport(p, ss, answer)
            q == LAG_select_aggregator(p, ss, answer)
<1>1. OnCourse(s, a) /\ Only(SelectFields, p, a) /\ a.lag = p.lag /\ ~a.selected
  <2>. DEFINE r == mlacpVapiSportParamsChange(p, ss)
  <2>1. OnCourse(s, r) /\ Only(MuxFields \cup {"selected", "ready_n"}, p, r) /\ ~r.selected
    BY ParamsChangeOnCourse
  <2>2. a = IF answer.takeover /\ p.sport = answer.agg THEN r ELSE p
    BY DEF SelectSport
  <2>. HIDE DEF r, a
  <2>3. Only(SelectFields, p, r) /\ r.lag = p.lag
    BY <2>1 DEF Only, SelectFields, MuxFields, TxFields, Fields, BooleanFields
  <2>. QED
    BY <2>1, <2>2, <2>3, OnlyRefl DEF OnCourse, Steady, Opened
<1>2. q = IF answer.agg = NoSport THEN p ELSE Settle(a, answer.agg)
  BY DEF LAG_select_aggregator
<1>. HIDE DEF a, q
<1>3. answer.agg # NoSport => answer.agg \in Aggregators
  BY DEF Answers
<1>4. CASE answer.agg = NoSport
  BY <1>2, <1>4, OnlyRefl DEF OnCourse, Steady, Opened, q
<1>5. CASE answer.agg # NoSport
  <2>1. /\ OnCourse(s, Settle(a, answer.agg)) /\ Only(SelectFields, a, Settle(a, answer.agg))
        /\ Settle(a, answer.agg).lag = a.lag
    BY <1>1, <1>3, <1>5, SettleOnCourse
  <2>. QED
    BY <1>1, <1>2, <1>5, <2>1, OnlyTrans DEF q
<1>. QED
  BY <1>4, <1>5

\* JoinLag puts the port in the LAG its identity and its partner's name.
LEMMA JoinOnCourse ==
    ASSUME NEW s, NEW p, OnCourse(s, p), ~p.selected, NEW ss, NEW answer \in Answers
    PROVE  LET q == JoinLag(p, ss, answer)
           IN  OnCourse(s, q) /\ Only(SelectFields, p, q) /\ q.lag = form_lag_id(q)
<1>. DEFINE a == [p EXCEPT !.lag = form_lag_id(p)]
            q == JoinLag(p, ss, answer)
<1>1. form_lag_id(p) # NoLag /\ "lag" \in Fields /\ form_lag_id(p) \in FieldType("lag")
  BY FormedLag, FieldFacts DEF OnCourse, Steady, Opened
<1>2. Only({"lag"}, p, a) /\ a.lag = form_lag_id(p)
  BY <1>1 DEF OnCourse, Steady, Opened, Loose, Only
<1>3. q = LAG_select_aggregator(a, ss, answer)
  BY DEF JoinLag
<1>. HIDE DEF a, q
<1>4. /\ a.selected = p.selected /\ a.mux = p.mux /\ a.sport = p.sport
      /\ a.egress = p.egress /\ a.hw_attached = p.hw_attached
      /\ a.psync = p.psync /\ a.pcollecting = p.pcollecting
      /\ Said(a) = Said(p) /\ Flushed(a) = Flushed(p) /\ ActorFlags(a) = ActorFlags(p)
  BY <1>2 DEF Only, Fields, BooleanFields, Said, OnWire, Flushed, ActorFlags
<1>5. OnCourse(s, a)
  BY <1>1, <1>2, <1>4 DEF OnCourse, Steady, Opened, Only, Wired
<1>6. Only(SelectFields, p, a)
  BY <1>2 DEF Only, SelectFields
<1>7. OnCourse(s, q) /\ Only(SelectFields, a, q) /\ q.lag = a.lag
  BY <1>1, <1>2, <1>3, <1>4, <1>5, AggregatorOnCourse
<1>8. Only(SelectFields, p, q)
  BY <1>6, <1>7, OnlyTrans
<1>9. q.lag = form_lag_id(q)
  BY <1>2, <1>7, <1>8, SelectFrame
<1>. QED
  BY <1>7, <1>8, <1>9 DEF q

\* LeaveLag keeps the course and gives up the selection first.
LEMMA LeaveOnCourse ==
    ASSUME NEW s, NEW p, OnCourse(s, p), NEW ss
    PROVE  LET q == LeaveLag(p, ss)
           IN  OnCourse(s, q) /\ Only(SelectFields, p, q) /\ ~q.selected
<1>. DEFINE a == Unselect(p, ss)
            q == [a EXCEPT !.ready_n = FALSE, !.lag = NoLag]
<1>1. /\ OnCourse(s, a) /\ Only(MuxFields \cup {"selected"}, p, a)
      /\ ~a.selected
  BY UnselectOnCourse
<1>2. LeaveLag(p, ss) = q
  BY DEF LeaveLag
<1>. HIDE DEF a
<1>3. /\ "ready_n" \in Fields /\ FALSE \in FieldType("ready_n")
      /\ "lag" \in Fields /\ NoLag \in FieldType("lag")
  BY FieldFacts DEF BooleanFields
<1>4. Only({"ready_n", "lag"}, a, q)
  BY <1>1, <1>3 DEF OnCourse, Steady, Opened, Loose, Only
<1>. HIDE DEF q
<1>5. /\ q.selected = a.selected /\ q.mux = a.mux /\ q.sport = a.sport
      /\ q.egress = a.egress /\ q.hw_attached = a.hw_attached
      /\ q.psync = a.psync /\ q.pcollecting = a.pcollecting
      /\ Said(q) = Said(a) /\ Flushed(q) = Flushed(a) /\ ActorFlags(q) = ActorFlags(a)
  BY <1>4 DEF Only, Fields, BooleanFields, Said, OnWire, Flushed, ActorFlags
<1>6. OnCourse(s, q)
  BY <1>1, <1>4, <1>5 DEF OnCourse, Steady, Opened, Only, Wired
<1>7. Only(SelectFields, p, q)
  BY <1>1, <1>4, OnlyTrans DEF SelectFields
<1>. QED
  BY <1>1, <1>2, <1>5, <1>6, <1>7

\* LAG_selection keeps the course, and leaves a selected port in the LAG that its
\* actor, its partner, its speed and its fallback form now.
LEMMA SelectionOnCourse ==
    ASSUME NEW s, NEW p, OnCourse(s, p), NEW ss, NEW answer \in Answers
    PROVE  LET q == LAG_selection(p, ss, answer)
           IN  /\ OnCourse(s, q) /\ Only(SelectFields, p, q)
               /\ p.lacp_up /\ q.selected => q.lag = form_lag_id(q)
<1>. DEFINE l == LeaveLag(p, ss)
            q == LAG_selection(p, ss, answer)
<1>1. CASE ~p.lacp_up \/ (p.lag = form_lag_id(p) /\ p.selected)
  <2>1. q = p
    BY <1>1, FormedLag DEF LAG_selection, OnCourse, Steady, Opened
  <2>. HIDE DEF q
  <2>. QED
    BY <1>1, <2>1, OnlyRefl DEF OnCourse, Steady, Opened, q
<1>2. CASE p.lacp_up /\ p.lag = NoLag
  <2>1. q = JoinLag(p, ss, answer)
    BY <1>2 DEF LAG_selection
  <2>2. ~p.selected
    BY <1>2 DEF OnCourse, Steady, Opened
  <2>. QED
    BY <2>1, <2>2, JoinOnCourse
<1>3. CASE p.lacp_up /\ p.lag # NoLag /\ p.lag # form_lag_id(p)
  <2>1. q = JoinLag(l, ss, answer)
    BY <1>3 DEF LAG_selection
  <2>2. OnCourse(s, l) /\ Only(SelectFields, p, l) /\ ~l.selected
    BY LeaveOnCourse
  <2>. HIDE DEF l, q
  <2>3. OnCourse(s, q) /\ Only(SelectFields, l, q) /\ q.lag = form_lag_id(q)
    BY <2>1, <2>2, JoinOnCourse
  <2>. QED
    BY <2>2, <2>3, OnlyTrans DEF q
<1>4. CASE p.lacp_up /\ p.lag = form_lag_id(p) /\ ~p.selected
  <2>1. p.lag # NoLag
    BY <1>4, FormedLag DEF OnCourse, Steady, Opened
  <2>2. q = LAG_select_aggregator(p, ss, answer)
    BY <1>4, <2>1 DEF LAG_selection
  <2>. HIDE DEF q
  <2>3. OnCourse(s, q) /\ Only(SelectFields, p, q) /\ q.lag = p.lag
    BY <1>4, <2>1, <2>2, AggregatorOnCourse
  <2>. QED
    BY <1>4, <2>3, SelectFrame DEF q
<1>. QED
  BY <1>1, <1>2, <1>3, <1>4
=============================================================================

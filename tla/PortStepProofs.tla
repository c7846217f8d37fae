--------------------------- MODULE PortStepProofs ---------------------------
(***************************************************************************)
(* The timers and the steps of a port, for every value of the constants:   *)
(* that the timers its states rely on run, the action properties of        *)
(* LacpPort, and that a port implements TrunkPort.  Every handler keeps    *)
(* OnCourse through its calls (LacpPortProofs) and therefore ends as       *)
(* Steps says.                                                             *)
(***************************************************************************)
EXTENDS LacpPortProofs

(**************************** receive_fsm.c ********************************)

\* PeriodicOK but for the demand that the machine runs at all, which a new partner
\* or a new link breaks until the machine is told.
PeriodicRuns(p) ==
    /\ p.periodic \in {"NO_PERIODIC", "FAST_PERIODIC", "SLOW_PERIODIC"}
    /\ p.periodic \in {"FAST_PERIODIC", "SLOW_PERIODIC"} => p.periodic_timer > 0
    /\ p.periodic = "SLOW_PERIODIC" => p.ptimeout = "LONG"

ClockFields ==
    {"periodic", "periodic_timer", "port_enabled", "activity", "pactivity", "ptimeout"}

\* A change of other fields keeps what the periodic machine promises.
LEMMA ClockFrame ==
    ASSUME NEW p, NEW q, NEW S, Only(S, p, q), S \cap ClockFields = {}
    PROVE  /\ PeriodicOK(q) = PeriodicOK(p) /\ PeriodicRuns(q) = PeriodicRuns(p)
           /\ BothPassive(q) = BothPassive(p)
           /\ q.port_enabled = p.port_enabled /\ q.periodic = p.periodic
<1>1. /\ q.periodic = p.periodic /\ q.periodic_timer = p.periodic_timer
      /\ q.port_enabled = p.port_enabled /\ q.activity = p.activity
      /\ q.pactivity = p.pactivity /\ q.ptimeout = p.ptimeout
  BY FieldFacts DEF Only, ClockFields, BooleanFields
<1>. QED
  BY <1>1 DEF PeriodicOK, PeriodicRuns, BothPassive

\* What neither the mux nor selection changes.
Same(p, q) ==
    /\ q.lacp_up = p.lacp_up /\ q.recv = p.recv /\ q.current_while = p.current_while
    /\ q.psync = p.psync /\ q.pcollecting = p.pcollecting /\ q.fallback = p.fallback
    /\ q.periodic = p.periodic /\ q.port_enabled = p.port_enabled
    /\ PeriodicOK(q) = PeriodicOK(p) /\ PeriodicRuns(q) = PeriodicRuns(p)
    /\ BothPassive(q) = BothPassive(p) /\ form_lag_id(q) = form_lag_id(p)

\* They change none of it.
LEMMA SelectSame ==
    ASSUME NEW p, NEW q, NEW S, Only(S, p, q), S \subseteq SelectFields
    PROVE  Same(p, q)
<1>1. Only(SelectFields, p, q)
  BY DEF Only
<1>2. SelectFields \cap ClockFields = {}
  BY DEF SelectFields, MuxFields, TxFields, ClockFields
<1>3. /\ q.lacp_up = p.lacp_up /\ q.recv = p.recv /\ q.current_while = p.current_while
      /\ q.psync = p.psync /\ q.pcollecting = p.pcollecting /\ q.fallback = p.fallback
  BY <1>1 DEF Only, SelectFields, MuxFields, TxFields, Fields, BooleanFields
<1>. QED
  BY <1>1, <1>2, <1>3, ClockFrame, SelectFrame DEF Same

\* Sending a LACPDU keeps the course.
LEMMA TransmitOnCourse ==
    ASSUME NEW s, NEW p, OnCourse(s, p)
    PROVE  LET q == NeedToTransmit(p)
           IN  OnCourse(s, q) /\ q.egress = p.egress /\ Only(MuxFields, p, q)
<1>. DEFINE q == NeedToTransmit(p)
<1>1. /\ Only(MuxFields, p, q) /\ Said(q) /\ Flushed(q)
      /\ q.mux = p.mux /\ q.sport = p.sport
      /\ q.hw_attached = p.hw_attached /\ q.egress = p.egress
  BY TransmitKeeps DEF OnCourse, Steady
<1>. HIDE DEF q
<1>2. /\ q.selected = p.selected /\ q.psync = p.psync
      /\ q.pcollecting = p.pcollecting /\ q.lag = p.lag
  BY <1>1, MuxFrame
<1>. QED
  BY <1>1, <1>2 DEF OnCourse, Steady, Opened, Only, Wired, q

\* The four tests of generate_mux_event_from_recordPdu keep the course.
LEMMA TestsOnCourse ==
    ASSUME NEW s, NEW p, OnCourse(s, p), NEW ss
    PROVE  LET q == generate_mux_event_from_recordPdu(p, ss)
           IN  OnCourse(s, q) /\ Only(MuxFields, p, q)
<1>. DEFINE a == TestInSync(p, ss)
            b == TestCollecting(a, ss)
            c == TestNotCollecting(b, ss)
            q == TestOutOfSync(c, ss)
<1>0. generate_mux_event_from_recordPdu(p, ss) = q
  BY DEF generate_mux_event_from_recordPdu
<1>1. OnCourse(s, a) /\ Only(MuxFields, p, a)
  BY MuxEvents, OnlyRefl DEF TestInSync, OnCourse, Steady
<1>. HIDE DEF a
<1>2. OnCourse(s, b) /\ Only(MuxFields, a, b)
  BY <1>1, MuxEvents, OnlyRefl DEF TestCollecting, OnCourse, Steady
<1>. HIDE DEF b
<1>3. OnCourse(s, c) /\ Only(MuxFields, b, c)
  BY <1>2, MuxEvents, OnlyRefl DEF TestNotCollecting, OnCourse, Steady
<1>. HIDE DEF c
<1>4. OnCourse(s, q) /\ Only(MuxFields, c, q)
  BY <1>3, MuxEvents, OnlyRefl DEF TestOutOfSync, OnCourse, Steady
<1>. HIDE DEF q
<1>5. Only(MuxFields, p, q)
  BY <1>1, <1>2, <1>3, <1>4, OnlyTrans
<1>. QED
  BY <1>0, <1>4, <1>5

RecordFields == PeriodicFields \cup MuxFields \cup
    {"psystem", "pport", "paggregation", "pactivity", "ptimeout", "pcollecting"}

\* recordPDU keeps the course and sets the periodic machine to what the partner
\* asks for now.
LEMMA RecordOnCourse ==
    ASSUME NEW s, NEW p, OnCourse(s, p), p.egress => s.egress, p.periodic = s.periodic,
           PeriodicOK(p), NEW pdu \in Lacpdu, NEW ss
    PROVE  LET q == recordPDU(p, pdu, ss)
           IN  OnCourse(s, q) /\ Only(RecordFields, p, q) /\ PeriodicOK(q)
<1>. DEFINE S == {"psystem", "pport", "paggregation", "pactivity", "ptimeout", "pcollecting"}
            a == [p EXCEPT !.psystem = pdu.system, !.pport = pdu.port,
                           !.paggregation = pdu.aggregation,
                           !.pactivity = pdu.activity, !.ptimeout = pdu.timeout,
                           !.pcollecting = pdu.collecting]
            b == IF BothPassive(a) THEN a ELSE PeriodicE2(a)
            c == IF b.ptimeout = "LONG" THEN PeriodicE4(b) ELSE PeriodicE6(b)
            q == generate_mux_event_from_recordPdu(c, ss)
<1>0. recordPDU(p, pdu, ss) = q
  BY DEF recordPDU
<1>1. Only(S, p, a)
  <2>1. /\ pdu.system \in Systems /\ pdu.port \in PortIds
        /\ pdu.aggregation \in BOOLEAN /\ pdu.activity \in Activity
        /\ pdu.timeout \in Timeout /\ pdu.collecting \in BOOLEAN
    BY DEF Lacpdu
  <2>2. /\ S \subseteq Fields
        /\ pdu.system \in FieldType("psystem") /\ pdu.port \in FieldType("pport")
        /\ pdu.aggregation \in FieldType("paggregation")
        /\ pdu.activity \in FieldType("pactivity") /\ pdu.timeout \in FieldType("ptimeout")
        /\ pdu.collecting \in FieldType("pcollecting")
    BY <2>1, FieldFacts DEF BooleanFields
  <2>. QED
    BY <2>2 DEF OnCourse, Steady, Loose, Only
<1>. HIDE DEF a
<1>2. S \cap CourseFields = {}
  BY DEF CourseFields, MuxFields, TxFields
<1>3. OnCourse(s, a) /\ (a.egress => s.egress)
  BY <1>1, <1>2, NewOpinion DEF OnCourse
<1>4. /\ a.periodic = p.periodic /\ a.periodic_timer = p.periodic_timer
      /\ a.port_enabled = p.port_enabled
  BY <1>1 DEF Only, Fields, BooleanFields
<1>5. /\ OnCourse(s, b) /\ Only(PeriodicFields, a, b)
      /\ b.periodic \in {"NO_PERIODIC", "FAST_PERIODIC", "SLOW_PERIODIC"}
      /\ b.periodic \in {"FAST_PERIODIC", "SLOW_PERIODIC"} => b.periodic_timer > 0
      /\ ~BothPassive(b) => b.periodic # "NO_PERIODIC"
  <2>1. CASE BothPassive(a) \/ a.periodic # "NO_PERIODIC"
    <3>1. b = a
      BY <2>1 DEF PeriodicE2
    <3>. HIDE DEF b
    <3>. QED
      BY <1>3, <1>4, <2>1, <3>1, OnlyRefl DEF PeriodicOK, OnCourse, Steady
  <2>2. CASE ~BothPassive(a) /\ a.periodic = "NO_PERIODIC"
    <3>1. b = LACP_fast_periodic_state_action(a)
      BY <2>2 DEF PeriodicE2
    <3>. HIDE DEF b
    <3>2. /\ Only({"periodic", "periodic_timer"}, a, b)
          /\ b.periodic \in {"FAST_PERIODIC", "SLOW_PERIODIC"} /\ b.periodic_timer > 0
      BY <1>3, <3>1, FastRuns DEF OnCourse, Steady
    <3>3. /\ b.selected = a.selected /\ b.lag = a.lag
          /\ b.mux = a.mux /\ b.sport = a.sport /\ b.egress = a.egress
          /\ b.hw_attached = a.hw_attached
          /\ b.psync = a.psync /\ b.pcollecting = a.pcollecting
      BY <3>2 DEF Only, Fields, BooleanFields
    <3>4. Flushed(b) = Flushed(a)
      BY <3>2, StaysSaid
    <3>5. s.periodic = "NO_PERIODIC"
      BY <1>4, <2>2
    <3>6. OnCourse(s, b)
      BY <1>3, <3>2, <3>3, <3>4, <3>5 DEF OnCourse, Steady, Opened, Wired, Only
    <3>7. Only(PeriodicFields, a, b)
      BY <3>2 DEF Only, PeriodicFields
    <3>. QED
      BY <3>2, <3>6, <3>7 DEF b
  <2>. QED
    BY <2>1, <2>2
<1>. HIDE DEF b
<1>6. OnCourse(s, c) /\ Only(PeriodicFields, b, c) /\ PeriodicOK(c)
  <2>1. Loose(b)
    BY <1>5 DEF Only
  <2>2. Speaks(b, PeriodicE4(b)) /\ Speaks(b, PeriodicE6(b))
    BY <2>1, IntervalEvents
  <2>3. OnCourse(s, c) /\ Only(PeriodicFields, b, c)
    BY <1>5, <2>2, PeriodicKeepsCourse DEF Speaks, OnCourse
  <2>4. CASE b.ptimeout = "LONG"
    <3>1. CASE b.periodic = "FAST_PERIODIC"
      <4>1. c = LACP_slow_periodic_state_action(b)
        BY <2>4, <3>1 DEF PeriodicE4
      <4>2. c.periodic = "SLOW_PERIODIC" /\ c.periodic_timer > 0
        BY <2>1, <4>1, SlowRuns
      <4>. HIDE DEF c
      <4>3. c.ptimeout = "LONG"
        BY <2>3, <2>4, PeriodicFrame
      <4>. QED
        BY <2>3, <4>2, <4>3 DEF PeriodicOK
    <3>2. CASE b.periodic # "FAST_PERIODIC"
      <4>1. c = b
        BY <2>4, <3>2 DEF PeriodicE4
      <4>. HIDE DEF c
      <4>. QED
        BY <1>5, <2>3, <2>4, <4>1 DEF PeriodicOK
    <3>. QED
      BY <3>1, <3>2
  <2>5. CASE b.ptimeout # "LONG"
    <3>1. CASE b.periodic = "SLOW_PERIODIC"
      <4>1. c = LACP_periodic_tx_state_action(b)
        BY <2>5, <3>1 DEF PeriodicE6
      <4>. QED
        BY <2>1, <2>3, <4>1, PeriodicTxSends
    <3>2. CASE b.periodic # "SLOW_PERIODIC"
      <4>1. c = b
        BY <2>5, <3>2 DEF PeriodicE6
      <4>. HIDE DEF c
      <4>. QED
        BY <1>5, <2>3, <3>2, <4>1 DEF PeriodicOK
    <3>. QED
      BY <3>1, <3>2
  <2>. QED
    BY <2>3, <2>4, <2>5
<1>. HIDE DEF c
<1>7. OnCourse(s, q) /\ Only(MuxFields, c, q)
  BY <1>6, TestsOnCourse
<1>. HIDE DEF q
<1>8. PeriodicOK(q)
  BY <1>6, <1>7, SelectSame DEF Same, SelectFields
<1>9. Only(RecordFields, p, a) /\ Only(RecordFields, a, b) /\ Only(RecordFields, b, c)
      /\ Only(RecordFields, c, q)
  BY <1>1, <1>5, <1>6, <1>7 DEF Only, RecordFields
<1>10. Only(RecordFields, p, q)
  BY <1>9, OnlyTrans
<1>. QED
  BY <1>0, <1>7, <1>8, <1>10

\* Restarting the current-while timer changes nothing else.
LEMMA TimerStarts ==
    ASSUME NEW p, Loose(p), NEW t
    PROVE  LET q == start_current_while_timer(p, t)
           IN  Only({"current_while"}, p, q) /\ q.current_while > 0
<1>1. "current_while" \in Fields
      /\ SHORT_TIMEOUT_COUNT \in FieldType("current_while") /\ SHORT_TIMEOUT_COUNT > 0
      /\ LONG_TIMEOUT_COUNT \in FieldType("current_while") /\ LONG_TIMEOUT_COUNT > 0
  BY FieldFacts, CountAssumption DEF Positive
<1>. QED
  BY <1>1 DEF Loose, Only, start_current_while_timer

\* A LACPDU keeps the course, restarts the timer and refreshes the LAG.
LEMMA CurrentOnCourse ==
    ASSUME NEW s, NEW p, OnCourse(s, p), p.egress => s.egress, p.periodic = s.periodic,
           PeriodicOK(p), NEW pdu \in Lacpdu, NEW ss, NEW answer \in Answers
    PROVE  LET q == current_state_action(p, pdu, ss, answer)
           IN  /\ OnCourse(s, q) /\ PeriodicOK(q)
               /\ q.recv = "CURRENT" /\ q.current_while > 0 /\ q.lacp_up = p.lacp_up
               /\ p.lacp_up /\ q.selected => q.lag = form_lag_id(q)
<1>. DEFINE z == [p EXCEPT !.recv = "CURRENT"]
            a == update_Selected(z, pdu, ss)
            m == choose_Matched(a, pdu)
            b == update_NTT(m, pdu)
            d == recordPDU(b, pdu, ss)
            c == LAG_selection(d, ss, answer)
            q == start_current_while_timer(c, c.timeout)
<1>0. current_state_action(p, pdu, ss, answer) = q
  BY DEF current_state_action
<1>1. /\ "recv" \in Fields /\ "CURRENT" \in FieldType("recv")
      /\ "psync" \in Fields
      /\ (pdu.sync /\ (pdu.knowsUs \/ ~pdu.aggregation)) \in FieldType("psync")
  BY FieldFacts DEF RecvState, BooleanFields, Lacpdu
<1>2. {"recv"} \cap CourseFields = {} /\ {"psync"} \cap CourseFields = {}
      /\ {"current_while"} \cap (CourseFields \cup PartnerFlags) = {}
      /\ {"recv"} \cap ClockFields = {} /\ {"psync"} \cap ClockFields = {}
      /\ {"current_while"} \cap ClockFields = {}
  BY DEF CourseFields, MuxFields, TxFields, PartnerFlags, ClockFields
<1>3. Only({"recv"}, p, z) /\ z.recv = "CURRENT"
  BY <1>1 DEF OnCourse, Steady, Loose, Only
<1>. HIDE DEF z
<1>4. /\ OnCourse(s, z) /\ (z.egress => s.egress) /\ PeriodicOK(z)
      /\ z.periodic = s.periodic /\ z.lacp_up = p.lacp_up
  <2>1. OnCourse(s, z) /\ (z.egress => s.egress)
    BY <1>2, <1>3, NewOpinion DEF OnCourse
  <2>2. PeriodicOK(z) = PeriodicOK(p) /\ z.periodic = p.periodic
    BY <1>2, <1>3, ClockFrame
  <2>3. z.lacp_up = p.lacp_up
    BY <1>3, FieldFacts DEF Only, BooleanFields
  <2>. QED
    BY <2>1, <2>2, <2>3
<1>5. /\ OnCourse(s, a) /\ (a.egress => s.egress) /\ PeriodicOK(a)
      /\ a.periodic = s.periodic /\ a.lacp_up = p.lacp_up /\ a.recv = "CURRENT"
  <2>1. LET r == Unselect(z, ss)
        IN  OnCourse(s, r) /\ Only(MuxFields \cup {"selected"}, z, r) /\ ~r.egress
    BY <1>4, UnselectOnCourse
  <2>2. Same(z, Unselect(z, ss))
    BY <2>1, SelectSame DEF SelectFields
  <2>. QED
    BY <1>3, <1>4, <2>1, <2>2 DEF update_Selected, Same
<1>. HIDE DEF a
<1>6. Only({"psync"}, a, m)
  BY <1>1, <1>5 DEF OnCourse, Steady, Loose, Only, choose_Matched
<1>. HIDE DEF m
<1>7. /\ OnCourse(s, m) /\ (m.egress => s.egress) /\ PeriodicOK(m)
      /\ m.periodic = s.periodic /\ m.lacp_up = p.lacp_up /\ m.recv = "CURRENT"
  <2>1. OnCourse(s, m) /\ (m.egress => s.egress)
    BY <1>2, <1>5, <1>6, NewOpinion DEF OnCourse
  <2>2. PeriodicOK(m) = PeriodicOK(a) /\ m.periodic = a.periodic
    BY <1>2, <1>6, ClockFrame
  <2>3. m.lacp_up = a.lacp_up /\ m.recv = a.recv
    BY <1>6, FieldFacts DEF Only, BooleanFields
  <2>. QED
    BY <1>5, <2>1, <2>2, <2>3
<1>8. /\ OnCourse(s, b) /\ (b.egress => s.egress) /\ PeriodicOK(b)
      /\ b.periodic = s.periodic /\ b.lacp_up = p.lacp_up /\ b.recv = "CURRENT"
  <2>1. LET r == NeedToTransmit(m)
        IN  OnCourse(s, r) /\ r.egress = m.egress /\ Only(MuxFields, m, r)
    BY <1>7, TransmitOnCourse
  <2>2. Same(m, NeedToTransmit(m))
    BY <2>1, SelectSame DEF SelectFields
  <2>. QED
    BY <1>7, <2>1, <2>2 DEF update_NTT, Same
<1>. HIDE DEF b
<1>9. OnCourse(s, d) /\ Only(RecordFields, b, d) /\ PeriodicOK(d)
  BY <1>8, RecordOnCourse
<1>. HIDE DEF d
<1>10. d.lacp_up = p.lacp_up /\ d.recv = "CURRENT"
  BY <1>8, <1>9 DEF Only, RecordFields, PeriodicFields, MuxFields, TxFields, Fields,
                    BooleanFields
<1>11. /\ OnCourse(s, c) /\ Only(SelectFields, d, c)
       /\ d.lacp_up /\ c.selected => c.lag = form_lag_id(c)
  BY <1>9, SelectionOnCourse
<1>12. Same(d, c)
  BY <1>11, SelectSame
<1>. HIDE DEF c
<1>13. Only({"current_while"}, c, q) /\ q.current_while > 0
  BY <1>11, TimerStarts DEF OnCourse, Steady
<1>. HIDE DEF q
<1>14. OnCourse(s, q) /\ PeriodicOK(q)
  BY <1>2, <1>9, <1>11, <1>12, <1>13, KeepsCourse, ClockFrame DEF Same
<1>15. /\ q.lacp_up = c.lacp_up /\ q.recv = c.recv /\ q.selected = c.selected
       /\ q.lag = c.lag /\ form_lag_id(q) = form_lag_id(c)
  BY <1>13 DEF Only, Fields, BooleanFields, form_lag_id
<1>. QED
  BY <1>0, <1>10, <1>11, <1>12, <1>13, <1>14, <1>15 DEF Same

\* expired_state_action keeps what was promised but for the partner's sync, starts
\* the timer and asks for fast LACPDUs.
LEMMA ExpiredSteady ==
    ASSUME NEW s, NEW p, Steady(s, p)
    PROVE  LET q == expired_state_action(p)
           IN  /\ Steady(s, q)
               /\ (p.egress => s.egress) => OnCourse(s, q) /\ (q.egress => s.egress)
               /\ q.egress = p.egress /\ q.selected = p.selected
               /\ q.pcollecting = p.pcollecting
               /\ q.lacp_up = p.lacp_up /\ q.port_enabled = p.port_enabled
               /\ q.recv = "EXPIRED" /\ ~q.psync /\ q.current_while > 0
               /\ PeriodicRuns(p) => PeriodicRuns(q)
               /\ PeriodicOK(p) => PeriodicOK(q)
               /\ q.periodic = "NO_PERIODIC" => p.periodic = "NO_PERIODIC" \/ BothPassive(q)
<1>. DEFINE a == [p EXCEPT !.recv = "EXPIRED", !.psync = FALSE, !.ptimeout = "SHORT"]
            b == PeriodicE6(a)
            q == start_current_while_timer(b, "SHORT")
            S == {"recv", "psync", "ptimeout"}
<1>0. expired_state_action(p) = q
  BY DEF expired_state_action
<1>1. /\ S \subseteq Fields
      /\ "EXPIRED" \in FieldType("recv") /\ FALSE \in FieldType("psync")
      /\ "SHORT" \in FieldType("ptimeout")
  BY FieldFacts DEF RecvState, Timeout, BooleanFields
<1>2. /\ S \cap CourseFields = {}
      /\ {"current_while"} \cap CourseFields = {}
      /\ {"current_while"} \cap ClockFields = {}
  BY DEF CourseFields, MuxFields, TxFields, ClockFields
<1>3. Only(S, p, a) /\ a.recv = "EXPIRED" /\ ~a.psync /\ a.ptimeout = "SHORT"
  BY <1>1 DEF Steady, Loose, Only
<1>. HIDE DEF a
<1>4. Steady(s, a) /\ a.egress = p.egress
  BY <1>2, <1>3, NewOpinion
<1>5. /\ a.selected = p.selected /\ a.pcollecting = p.pcollecting
      /\ a.lacp_up = p.lacp_up /\ a.port_enabled = p.port_enabled
      /\ a.periodic = p.periodic /\ a.periodic_timer = p.periodic_timer
      /\ BothPassive(a) = BothPassive(p)
  BY <1>3 DEF Only, Fields, BooleanFields, BothPassive
<1>6. /\ Speaks(a, b)
      /\ b.periodic = "NO_PERIODIC" => b = a \/ BothPassive(b)
  BY <1>4, IntervalEvents DEF Steady
<1>7. /\ PeriodicRuns(p) => PeriodicRuns(b)
      /\ PeriodicOK(p) => PeriodicOK(b)
  <2>1. CASE a.periodic = "SLOW_PERIODIC"
    <3>1. b = LACP_periodic_tx_state_action(a)
      BY <2>1 DEF PeriodicE6
    <3>2. PeriodicOK(b)
      BY <1>4, <3>1, PeriodicTxSends DEF Steady
    <3>. QED
      BY <3>2 DEF PeriodicOK, PeriodicRuns
  <2>2. CASE a.periodic # "SLOW_PERIODIC"
    <3>1. b = a
      BY <2>2 DEF PeriodicE6
    <3>. HIDE DEF b
    <3>. QED
      BY <1>5, <2>2, <3>1 DEF PeriodicOK, PeriodicRuns
  <2>. QED
    BY <2>1, <2>2
<1>. HIDE DEF b
<1>8. Steady(s, b) /\ b.egress = a.egress
  BY <1>4, <1>6, PeriodicKeepsCourse
<1>9. /\ b.recv = a.recv /\ b.psync = a.psync
      /\ b.selected = a.selected /\ b.pcollecting = a.pcollecting
      /\ b.lacp_up = a.lacp_up /\ b.port_enabled = a.port_enabled
  BY <1>6 DEF Speaks, Only, PeriodicFields, TxFields, Fields, BooleanFields
<1>10. Only({"current_while"}, b, q) /\ q.current_while > 0
  BY <1>8, TimerStarts DEF Steady
<1>. HIDE DEF q
<1>11. /\ Steady(s, q) /\ q.egress = b.egress
       /\ (b.egress => s.egress) => OnCourse(s, q) /\ (q.egress => s.egress)
  BY <1>2, <1>8, <1>10, NewOpinion
<1>12. /\ PeriodicOK(q) = PeriodicOK(b) /\ PeriodicRuns(q) = PeriodicRuns(b)
       /\ BothPassive(q) = BothPassive(b) /\ q.periodic = b.periodic
  BY <1>2, <1>10, ClockFrame
<1>13. /\ q.recv = b.recv /\ q.psync = b.psync
       /\ q.selected = b.selected /\ q.pcollecting = b.pcollecting
       /\ q.lacp_up = b.lacp_up /\ q.port_enabled = b.port_enabled
  BY <1>10 DEF Only, Fields, BooleanFields
<1>14. q.periodic = "NO_PERIODIC" => p.periodic = "NO_PERIODIC" \/ BothPassive(q)
  BY <1>5, <1>6, <1>12
<1>15. /\ PeriodicRuns(p) => PeriodicRuns(q)
       /\ PeriodicOK(p) => PeriodicOK(q)
  BY <1>7, <1>12
<1>16. /\ q.egress = p.egress
       /\ (p.egress => s.egress) => OnCourse(s, q) /\ (q.egress => s.egress)
  BY <1>4, <1>8, <1>11
<1>17. /\ q.selected = p.selected /\ q.pcollecting = p.pcollecting
       /\ q.lacp_up = p.lacp_up /\ q.port_enabled = p.port_enabled
       /\ q.recv = "EXPIRED" /\ ~q.psync
  BY <1>3, <1>5, <1>9, <1>13
<1>. QED
  BY <1>0, <1>10, <1>11, <1>14, <1>15, <1>16, <1>17

\* recordDefault falls silent if neither side is active, and keeps the course.
LEMMA DefaultOnCourse ==
    ASSUME NEW s, NEW p, Steady(s, p), p.egress => s.egress
    PROVE  LET q == recordDefault(p)
           IN  /\ OnCourse(s, q) /\ (q.egress => s.egress)
               /\ q.recv = p.recv /\ q.lacp_up = p.lacp_up
               /\ q.port_enabled = p.port_enabled /\ q.selected = p.selected
               /\ PeriodicOK(p) => PeriodicOK(q)
<1>. DEFINE S == {"psystem", "pport", "paggregation", "pactivity", "ptimeout", "psync",
                  "pcollecting"}
            a == [p EXCEPT !.psystem = NoSystem, !.pport = NoPort,
                           !.paggregation = TRUE, !.pactivity = "PASSIVE",
                           !.ptimeout = "LONG", !.psync = FALSE, !.pcollecting = FALSE]
            q == recordDefault(p)
<1>0. q = IF BothPassive(a) THEN LACP_no_periodic_state_action(a) ELSE a
  BY DEF recordDefault, PeriodicE1
<1>1. /\ S \subseteq Fields
      /\ NoSystem \in FieldType("psystem") /\ NoPort \in FieldType("pport")
      /\ TRUE \in FieldType("paggregation") /\ "PASSIVE" \in FieldType("pactivity")
      /\ "LONG" \in FieldType("ptimeout") /\ FALSE \in FieldType("psync")
      /\ FALSE \in FieldType("pcollecting")
  BY FieldFacts DEF BooleanFields, Activity, Timeout
<1>2. Only(S, p, a) /\ a.pactivity = "PASSIVE" /\ a.ptimeout = "LONG"
  BY <1>1 DEF Steady, Loose, Only
<1>. HIDE DEF a, q
<1>3. S \cap CourseFields = {}
  BY DEF CourseFields, MuxFields, TxFields
<1>4. OnCourse(s, a) /\ (a.egress => s.egress)
  BY <1>2, <1>3, NewOpinion
<1>5. /\ a.recv = p.recv /\ a.lacp_up = p.lacp_up /\ a.selected = p.selected
      /\ a.port_enabled = p.port_enabled /\ a.activity = p.activity
      /\ a.periodic = p.periodic /\ a.periodic_timer = p.periodic_timer
  BY <1>2 DEF Only, Fields, BooleanFields
<1>6. CASE BothPassive(a)
  <2>1. /\ Only({"periodic", "periodic_timer"}, a, q)
        /\ q.periodic = "NO_PERIODIC" /\ PeriodicOK(q)
    BY <1>0, <1>4, <1>6, NoPeriodicRests DEF OnCourse, Steady
  <2>2. Speaks(a, q)
    BY <2>1, StaysSaid DEF Speaks, Said, Only, PeriodicFields
  <2>3. OnCourse(s, q) /\ q.egress = a.egress
    BY <1>4, <2>2, PeriodicKeepsCourse DEF OnCourse
  <2>4. /\ q.recv = a.recv /\ q.lacp_up = a.lacp_up /\ q.selected = a.selected
        /\ q.port_enabled = a.port_enabled
    BY <2>1 DEF Only, Fields, BooleanFields
  <2>. QED
    BY <1>4, <1>5, <2>1, <2>3, <2>4 DEF q
<1>7. CASE ~BothPassive(a)
  <2>1. PeriodicOK(p) => PeriodicOK(a)
    BY <1>2, <1>5, <1>7 DEF PeriodicOK, BothPassive
  <2>. QED
    BY <1>0, <1>4, <1>5, <1>7, <2>1 DEF q
<1>. QED
  BY <1>6, <1>7

\* What is left of the course when the handler is done: DEFAULTED may have given
\* up the selection of a port that is still attached.
Landed(s, p) ==
    /\ Loose(p) /\ Wired(p)
    /\ s.mux \in Forwarding /\ p.mux \in Bound => p.sport = s.sport
    /\ s.periodic = "NO_PERIODIC" \/ Said(p) \/ ActorFlags(p) = ActorFlags(s)
    /\ Flushed(s) => Flushed(p)
    /\ Opened(s, p)

\* A course lands.
LEMMA CourseLands ==
    ASSUME NEW s, NEW p, OnCourse(s, p)
    PROVE  Landed(s, p)
  BY DEF OnCourse, Steady, Landed

\* defaulted_state_action lands.
LEMMA DefaultedLands ==
    ASSUME NEW s, NEW p, Steady(s, p), p.egress => s.egress, NEW ss,
           NEW answer \in Answers
    PROVE  LET q == defaulted_state_action(p, ss, answer)
           IN  /\ Landed(s, q)
               /\ q.recv = "DEFAULTED" /\ q.lacp_up = p.lacp_up
               /\ PeriodicOK(p) => PeriodicOK(q)
<1>. DEFINE z == [p EXCEPT !.recv = "DEFAULTED"]
            a == update_max_port_priority(z, ss, answer)
            u == update_Default_Selected(a, ss)
            b == recordDefault(u)
            c == [b EXCEPT !.psync = b.fallback, !.pcollecting = b.fallback]
            d == LAG_selection(c, ss, answer)
            e == [d EXCEPT !.selected = FALSE, !.ready_n = FALSE]
            q == IF d.selected /\ d.psync THEN MuxE5(d, ss) ELSE e
            Fit(x) == /\ OnCourse(s, x) /\ (x.egress => s.egress)
                      /\ x.recv = "DEFAULTED" /\ x.lacp_up = p.lacp_up
                      /\ PeriodicOK(p) => PeriodicOK(x)
<1>0. defaulted_state_action(p, ss, answer) = q
  BY DEF defaulted_state_action
<1>1. {"recv"} \cap CourseFields = {} /\ PartnerFlags \cap CourseFields = {}
      /\ {"recv"} \cap ClockFields = {} /\ PartnerFlags \cap ClockFields = {}
  BY DEF CourseFields, MuxFields, TxFields, ClockFields, PartnerFlags
<1>2. Fit(z)
  <2>1. "recv" \in Fields /\ "DEFAULTED" \in FieldType("recv")
    BY FieldFacts DEF RecvState
  <2>2. Only({"recv"}, p, z) /\ z.recv = "DEFAULTED"
    BY <2>1 DEF Steady, Loose, Only
  <2>. HIDE DEF z
  <2>3. OnCourse(s, z) /\ (z.egress => s.egress)
    BY <1>1, <2>2, NewOpinion
  <2>4. PeriodicOK(z) = PeriodicOK(p)
    BY <1>1, <2>2, ClockFrame
  <2>5. z.lacp_up = p.lacp_up
    BY <2>2, FieldFacts DEF Only, BooleanFields
  <2>. QED
    BY <2>2, <2>3, <2>4, <2>5
<1>. HIDE DEF z
<1>3. Fit(a)
  <2>. DEFINE r == mlacpVapiSportParamsChange(z, ss)
  <2>1. OnCourse(s, r) /\ Only(MuxFields \cup {"selected", "ready_n"}, z, r) /\ ~r.egress
    BY <1>2, ParamsChangeOnCourse
  <2>. HIDE DEF r
  <2>2. Same(z, r)
    BY <2>1, SelectSame DEF SelectFields
  <2>3. Fit(r)
    BY <1>2, <2>1, <2>2 DEF Same
  <2>4. a = r \/ a = z
    BY DEF update_max_port_priority, r
  <2>. QED
    BY <1>2, <2>3, <2>4
<1>. HIDE DEF a
<1>4. Fit(u)
  <2>. DEFINE r == Unselect(a, ss)
  <2>1. OnCourse(s, r) /\ Only(MuxFields \cup {"selected"}, a, r) /\ ~r.egress
    BY <1>3, UnselectOnCourse
  <2>. HIDE DEF r
  <2>2. Same(a, r)
    BY <2>1, SelectSame DEF SelectFields
  <2>3. Fit(r)
    BY <1>3, <2>1, <2>2 DEF Same
  <2>4. u = r \/ u = a
    BY DEF update_Default_Selected, r
  <2>. QED
    BY <1>3, <2>3, <2>4
<1>. HIDE DEF u
<1>5. Fit(b)
  BY <1>4, DefaultOnCourse DEF OnCourse
<1>. HIDE DEF b
<1>6. Fit(c)
  <2>1. PartnerFlags \subseteq Fields /\ b.fallback \in FieldType("psync")
        /\ b.fallback \in FieldType("pcollecting")
    BY <1>5, FieldFacts DEF PartnerFlags, BooleanFields, OnCourse, Steady, Loose
  <2>2. Only(PartnerFlags, b, c)
    BY <1>5, <2>1 DEF OnCourse, Steady, Loose, Only, PartnerFlags
  <2>. HIDE DEF c
  <2>3. OnCourse(s, c) /\ (c.egress => s.egress)
    BY <1>1, <1>5, <2>2, NewOpinion DEF OnCourse
  <2>4. PeriodicOK(c) = PeriodicOK(b)
    BY <1>1, <2>2, ClockFrame
  <2>5. c.lacp_up = b.lacp_up /\ c.recv = b.recv
    BY <2>2 DEF Only, PartnerFlags, Fields, BooleanFields
  <2>. QED
    BY <1>5, <2>3, <2>4, <2>5
<1>. HIDE DEF c
<1>7. /\ OnCourse(s, d) /\ d.recv = "DEFAULTED" /\ d.lacp_up = p.lacp_up
      /\ PeriodicOK(p) => PeriodicOK(d)
  <2>1. OnCourse(s, d) /\ Only(SelectFields, c, d)
    BY <1>6, SelectionOnCourse
  <2>2. Same(c, d)
    BY <2>1, SelectSame
  <2>. QED
    BY <1>6, <2>1, <2>2 DEF Same
<1>. HIDE DEF d
<1>8. CASE d.selected /\ d.psync
  <2>1. OnCourse(s, q) /\ Only(MuxFields, d, q)
    BY <1>7, <1>8, MuxEvents
  <2>2. Same(d, q)
    BY <2>1, SelectSame DEF SelectFields
  <2>. HIDE DEF q
  <2>. QED
    BY <1>0, <1>7, <2>1, <2>2, CourseLands DEF Same
<1>9. CASE ~(d.selected /\ d.psync)
  <2>1. /\ "selected" \in Fields /\ FALSE \in FieldType("selected")
        /\ "ready_n" \in Fields /\ FALSE \in FieldType("ready_n")
    BY FieldFacts DEF BooleanFields
  <2>2. Only({"selected", "ready_n"}, d, e)
    BY <1>7, <2>1 DEF OnCourse, Steady, Loose, Only
  <2>3. q = e
    BY <1>9
  <2>. HIDE DEF e, q
  <2>4. /\ e.mux = d.mux /\ e.sport = d.sport /\ e.egress = d.egress
        /\ e.hw_attached = d.hw_attached
        /\ Said(e) = Said(d) /\ Flushed(e) = Flushed(d) /\ ActorFlags(e) = ActorFlags(d)
    BY <2>2 DEF Only, Fields, BooleanFields, Said, OnWire, Flushed, ActorFlags
  <2>5. Same(d, e)
    BY <2>2, SelectSame DEF SelectFields
  <2>6. d.egress => s.egress
    BY <1>7, <1>9 DEF OnCourse, Opened
  <2>7. Landed(s, e)
    BY <1>7, <2>2, <2>4, <2>6 DEF OnCourse, Steady, Opened, Landed, Only, Wired
  <2>. QED
    BY <1>0, <1>7, <2>3, <2>5, <2>7 DEF Same
<1>. QED
  BY <1>8, <1>9

\* port_disabled_state_action up to its exit on port_enabled.
PortDown(p, ss, answer) ==
    LAG_selection(MuxE6([p EXCEPT !.recv = "PORT_DISABLED", !.psync = FALSE], ss),
                  ss, answer)

\* It keeps the course.
LEMMA PortDownOnCourse ==
    ASSUME NEW s, NEW p, Steady(s, p), p.egress => s.egress, NEW ss,
           NEW answer \in Answers
    PROVE  LET q == PortDown(p, ss, answer)
           IN  /\ OnCourse(s, q)
               /\ q.recv = "PORT_DISABLED" /\ q.lacp_up = p.lacp_up
               /\ q.port_enabled = p.port_enabled /\ q.periodic = p.periodic
               /\ PeriodicOK(q) = PeriodicOK(p)
               /\ p.lacp_up \/ q.selected = p.selected
<1>. DEFINE a == [p EXCEPT !.recv = "PORT_DISABLED", !.psync = FALSE]
            b == MuxE6(a, ss)
            q == LAG_selection(b, ss, answer)
            S == {"recv", "psync"}
<1>0. PortDown(p, ss, answer) = q
  BY DEF PortDown
<1>1. /\ S \subseteq Fields
      /\ "PORT_DISABLED" \in FieldType("recv") /\ FALSE \in FieldType("psync")
  BY FieldFacts DEF RecvState, BooleanFields
<1>2. S \cap CourseFields = {} /\ S \cap ClockFields = {}
  BY DEF CourseFields, MuxFields, TxFields, ClockFields
<1>3. Only(S, p, a) /\ a.recv = "PORT_DISABLED"
  BY <1>1 DEF Steady, Loose, Only
<1>. HIDE DEF a
<1>4. OnCourse(s, a)
  BY <1>2, <1>3, NewOpinion
<1>5. /\ PeriodicOK(a) = PeriodicOK(p) /\ a.port_enabled = p.port_enabled
      /\ a.periodic = p.periodic
  BY <1>2, <1>3, ClockFrame
<1>6. a.lacp_up = p.lacp_up /\ a.selected = p.selected
  BY <1>3, FieldFacts DEF Only, BooleanFields
<1>7. OnCourse(s, b) /\ Only(MuxFields, a, b)
  BY <1>4, MuxEvents
<1>. HIDE DEF b
<1>8. Same(a, b) /\ b.selected = a.selected
  BY <1>7, SelectSame, MuxFrame DEF SelectFields
<1>9. OnCourse(s, q) /\ Only(SelectFields, b, q)
  BY <1>7, SelectionOnCourse
<1>10. ~b.lacp_up => q = b
  BY DEF LAG_selection
<1>. HIDE DEF q
<1>11. Same(b, q)
  BY <1>9, SelectSame
<1>. QED
  BY <1>0, <1>3, <1>5, <1>6, <1>8, <1>9, <1>10, <1>11 DEF Same

(***************************************************************************)
(* The handlers.                                                           *)
(***************************************************************************)

\* The timers of a running port: LacpPort!AgingIsArmed and PeriodicIsRunning, and
\* that a partner whose information has expired is out of sync.
Clock(p) ==
    /\ PeriodicOK(p)
    /\ p.recv \in {"CURRENT", "EXPIRED"} => p.current_while > 0
    /\ p.recv = "EXPIRED" => ~p.psync

ClockInv == port.lacp_up => Clock(port)

\* What a handler does to a running port that goes on running.
Steps(q) ==
    /\ q.lacp_up /\ Clock(q)
    /\ port.mux \in Forwarding /\ q.mux \in Forwarding => q.sport = port.sport
    /\ ~port.egress /\ q.egress =>
           /\ q.selected /\ q.pcollecting
           /\ q.psync \/ (port.recv = "CURRENT" /\ q.recv = "EXPIRED")
    /\ /\ port.periodic # "NO_PERIODIC" /\ q.periodic # "NO_PERIODIC"
       /\ ActorFlags(q) # ActorFlags(port)
       => q.ntt \/ OnWire(q)

\* The handler starts with nothing on the wire, and on course.
LEMMA StartCourse ==
    ASSUME Inv, ClockInv, port.lacp_up
    PROVE  /\ OnCourse(Start, Start) /\ Clock(Start)
           /\ Start.lacp_up /\ Start.mux = port.mux /\ Start.sport = port.sport
           /\ Start.egress = port.egress /\ Start.recv = port.recv
           /\ Start.periodic = port.periodic /\ ActorFlags(Start) = ActorFlags(port)
           /\ Start.recv # "BEGIN" /\ Start.port_type = port.port_type
           /\ Start.fallback = port.fallback
<1>1. Loose(port)
  BY PortIsLoose DEF Inv, PortOK, PortBase
<1>2. "out" \in Fields /\ <<>> \in FieldType("out")
  <2>1. \A S : <<>> \in Seq(S)
    OBVIOUS
  <2>. QED
    BY <2>1, FieldFacts, Zenon
<1>3. Only({"out"}, port, Start)
  BY <1>1, <1>2 DEF Loose, Only, Start
<1>4. /\ Start.lacp_up = port.lacp_up /\ Start.mux = port.mux /\ Start.sport = port.sport
      /\ Start.egress = port.egress /\ Start.recv = port.recv
      /\ Start.periodic = port.periodic /\ ActorFlags(Start) = ActorFlags(port)
      /\ Start.hw_attached = port.hw_attached /\ Start.selected = port.selected
      /\ Start.lag = port.lag /\ Start.psync = port.psync
      /\ Start.current_while = port.current_while
      /\ Start.port_type = port.port_type /\ Start.fallback = port.fallback
  <2>1. \A f \in Fields \ {"out"} : Start[f] = port[f]
    BY <1>3 DEF Only
  <2>2. /\ Start.lacp_up = port.lacp_up /\ Start.mux = port.mux
        /\ Start.sport = port.sport /\ Start.egress = port.egress
        /\ Start.recv = port.recv /\ Start.periodic = port.periodic
    BY <2>1, FieldFacts DEF BooleanFields
  <2>3. ActorFlags(Start) = ActorFlags(port)
    BY <2>1, FieldFacts DEF BooleanFields, ActorFlags
  <2>4. /\ Start.hw_attached = port.hw_attached /\ Start.selected = port.selected
        /\ Start.lag = port.lag /\ Start.psync = port.psync
        /\ Start.current_while = port.current_while
        /\ Start.port_type = port.port_type /\ Start.fallback = port.fallback
    BY <2>1, FieldFacts DEF BooleanFields
  <2>. QED
    BY <2>2, <2>3, <2>4
<1>5. PeriodicOK(Start) = PeriodicOK(port)
  <2>1. {"out"} \cap ClockFields = {}
    BY DEF ClockFields
  <2>. QED
    BY <1>3, <2>1, ClockFrame
<1>6. Clock(Start) /\ port.recv # "BEGIN"
  BY <1>4, <1>5 DEF ClockInv, Clock, Inv, AtRest
<1>7. Wired(Start)
  BY <1>4 DEF Wired, Inv, PortOK, PortBase, TrunkOK, Forwarding
<1>8. (Start.selected => Start.lag # NoLag) /\ (Start.mux \in Forwarding => Start.selected)
  BY <1>4 DEF Inv, PortOK, PortBase, SelectionOK
<1>9. OnCourse(Start, Start)
  BY <1>3, <1>7, <1>8 DEF OnCourse, Steady, Opened, Only
<1>. QED
  BY <1>4, <1>6, <1>9

\* A handler that lands has done what a handler may.
LEMMA LandedSteps ==
    ASSUME Inv, ClockInv, port.lacp_up, NEW q, Landed(Start, q), Clock(q), q.lacp_up
    PROVE  Steps(q)
<1>1. /\ Start.mux = port.mux /\ Start.sport = port.sport
      /\ Start.egress = port.egress
      /\ Start.periodic = port.periodic /\ ActorFlags(Start) = ActorFlags(port)
  BY StartCourse
<1>. QED
  BY <1>1 DEF Steps, Landed, Opened, Said, Bound

\* set_lport_overrides.
LEMMA OverridesSteps ==
    ASSUME Inv, ClockInv, NEW a \in ActorSystems, set_lport_overrides(a)
    PROVE  Steps(port')
<1>. DEFINE q == [Start EXCEPT !.actor = a]
<1>1. OnCourse(Start, Start) /\ Clock(Start) /\ Start.lacp_up
  BY StartCourse DEF set_lport_overrides
<1>2. "actor" \in Fields /\ a \in FieldType("actor")
  BY FieldFacts
<1>3. Only({"actor"}, Start, q) /\ port' = q
  BY <1>1, <1>2 DEF OnCourse, Steady, Loose, Only, set_lport_overrides
<1>. HIDE DEF q
<1>4. {"actor"} \cap (CourseFields \cup PartnerFlags) = {} /\ {"actor"} \cap ClockFields = {}
  BY DEF CourseFields, PartnerFlags, MuxFields, TxFields, ClockFields
<1>5. Landed(Start, q)
  BY <1>1, <1>3, <1>4, KeepsCourse, CourseLands
<1>6. PeriodicOK(q) = PeriodicOK(Start)
  BY <1>3, <1>4, ClockFrame
<1>7. /\ q.lacp_up = Start.lacp_up /\ q.recv = Start.recv /\ q.psync = Start.psync
      /\ q.current_while = Start.current_while
  BY <1>3 DEF Only, Fields, BooleanFields
<1>. QED
  BY <1>1, <1>3, <1>5, <1>6, <1>7, LandedSteps DEF Clock, set_lport_overrides

\* set_lport_fallback_status.
LEMMA FallbackSteps ==
    ASSUME Inv, ClockInv, NEW status \in BOOLEAN, NEW answer \in Answers,
           set_lport_fallback_status(status, answer)
    PROVE  Steps(port')
<1>. DEFINE a == [Start EXCEPT !.fallback = status]
            q == ReceiveE9(a, sports, answer)
<1>1. OnCourse(Start, Start) /\ Clock(Start) /\ Start.lacp_up
  BY StartCourse DEF set_lport_fallback_status
<1>2. "fallback" \in Fields /\ status \in FieldType("fallback")
  BY FieldFacts DEF BooleanFields
<1>3. Only({"fallback"}, Start, a)
  BY <1>1, <1>2 DEF OnCourse, Steady, Loose, Only
<1>. HIDE DEF a
<1>4. /\ {"fallback"} \cap (CourseFields \cup PartnerFlags) = {}
      /\ {"fallback"} \cap ClockFields = {}
  BY DEF CourseFields, PartnerFlags, MuxFields, TxFields, ClockFields
<1>5. OnCourse(Start, a)
  BY <1>1, <1>3, <1>4, KeepsCourse
<1>6. PeriodicOK(a) = PeriodicOK(Start)
  BY <1>3, <1>4, ClockFrame
<1>7. /\ a.lacp_up = Start.lacp_up /\ a.recv = Start.recv /\ a.psync = Start.psync
      /\ a.current_while = Start.current_while /\ a.egress = Start.egress
  BY <1>3 DEF Only, Fields, BooleanFields
<1>8. port' = q
  BY DEF set_lport_fallback_status, a
<1>9. Landed(Start, q) /\ Clock(q) /\ q.lacp_up
  <2>1. CASE a.recv = "DEFAULTED"
    <3>1. q = defaulted_state_action(a, sports, answer)
      BY <2>1 DEF ReceiveE9
    <3>. HIDE DEF q
    <3>2. /\ Landed(Start, q) /\ q.recv = "DEFAULTED" /\ q.lacp_up = a.lacp_up
          /\ PeriodicOK(a) => PeriodicOK(q)
      BY <1>5, <1>7, <3>1, DefaultedLands DEF OnCourse
    <3>. QED
      BY <1>1, <1>6, <1>7, <3>2 DEF Clock
  <2>2. CASE a.recv # "DEFAULTED"
    <3>1. q = a
      BY <2>2 DEF ReceiveE9
    <3>. QED
      BY <1>1, <1>5, <1>6, <1>7, <3>1, CourseLands DEF Clock
  <2>. QED
    BY <2>1, <2>2
<1>. HIDE DEF q
<1>. QED
  BY <1>8, <1>9, LandedSteps DEF set_lport_fallback_status

\* LACP_process_lacpdu.
LEMMA PduSteps ==
    ASSUME Inv, ClockInv, NEW pdu \in Pdus, NEW answer \in Answers,
           LACP_process_lacpdu(pdu, answer)
    PROVE  /\ Steps(port')
           /\ port'.recv = "CURRENT" /\ port'.selected => port'.lag = form_lag_id(port')
<1>. DEFINE q == ReceiveE1(Start, pdu, sports, answer)
            c == current_state_action(Start, pdu, sports, answer)
<1>1. OnCourse(Start, Start) /\ Clock(Start) /\ Start.lacp_up
  BY StartCourse DEF LACP_process_lacpdu
<1>2. port' = q
  BY DEF LACP_process_lacpdu
<1>3. CASE Start.recv \in {"CURRENT", "EXPIRED", "DEFAULTED"}
  <2>1. q = c
    BY <1>3 DEF ReceiveE1
  <2>2. pdu \in Lacpdu
    BY InputAssumption
  <2>3. /\ OnCourse(Start, c) /\ PeriodicOK(c)
        /\ c.recv = "CURRENT" /\ c.current_while > 0 /\ c.lacp_up = Start.lacp_up
        /\ Start.lacp_up /\ c.selected => c.lag = form_lag_id(c)
    BY <1>1, <2>2, CurrentOnCourse DEF Clock
  <2>. HIDE DEF c, q
  <2>4. Steps(c)
    BY <1>1, <2>3, CourseLands, LandedSteps DEF Clock, LACP_process_lacpdu
  <2>. QED
    BY <1>1, <1>2, <2>1, <2>3, <2>4
<1>4. CASE Start.recv \notin {"CURRENT", "EXPIRED", "DEFAULTED"}
  <2>1. q = Start
    BY <1>4 DEF ReceiveE1
  <2>. HIDE DEF q
  <2>2. Steps(Start)
    BY <1>1, CourseLands, LandedSteps DEF LACP_process_lacpdu
  <2>. QED
    BY <1>2, <1>4, <2>1, <2>2
<1>. QED
  BY <1>3, <1>4

\* The parameters of the port's aggregator change on behalf of another port.
LEMMA SportParamsSteps ==
    ASSUME Inv, ClockInv, NEW s \in Aggregators, SportParamsChange(s)
    PROVE  Steps(port')
<1>. DEFINE q == mlacpVapiSportParamsChange(Start, sports)
<1>1. OnCourse(Start, Start) /\ Clock(Start) /\ Start.lacp_up
  BY StartCourse DEF SportParamsChange
<1>2. OnCourse(Start, q) /\ Only(MuxFields \cup {"selected", "ready_n"}, Start, q)
  BY <1>1, ParamsChangeOnCourse
<1>3. port' = q
  BY DEF SportParamsChange
<1>. HIDE DEF q
<1>4. Same(Start, q)
  BY <1>2, SelectSame DEF SelectFields
<1>. QED
  BY <1>1, <1>2, <1>3, <1>4, CourseLands, LandedSteps DEF Same, Clock, SportParamsChange

\* set_lacp_lport_params with dynamic fields only; ntt is set whatever was announced
\* on the way.
LEMMA UpdateParamsSteps ==
    ASSUME Inv, ClockInv, NEW t \in Timeout, NEW hwStatus \in BOOLEAN,
           LACP_update_port_params(t, hwStatus)
    PROVE  Steps(port')
<1>. DEFINE a == [Start EXCEPT !.timeout = t]
            b == IF hwStatus THEN [a EXCEPT !.collecting = FALSE] ELSE a
            d == IF hwStatus /\ b.selected /\ b.psync /\ b.pcollecting
                 THEN MuxE8(b, sports) ELSE b
            q == [d EXCEPT !.ntt = TRUE]
<1>1. /\ OnCourse(Start, Start) /\ Clock(Start) /\ Start.lacp_up
      /\ Start.mux = port.mux /\ Start.sport = port.sport /\ Start.egress = port.egress
  BY StartCourse DEF LACP_update_port_params
<1>2. /\ "timeout" \in Fields /\ t \in FieldType("timeout")
      /\ "collecting" \in Fields /\ FALSE \in FieldType("collecting")
      /\ "ntt" \in Fields /\ TRUE \in FieldType("ntt")
  BY FieldFacts DEF BooleanFields
<1>3. Only({"timeout"}, Start, a)
  BY <1>1, <1>2 DEF OnCourse, Steady, Loose, Only
<1>4. port' = q
  BY DEF LACP_update_port_params
<1>. HIDE DEF a
<1>5. Only({"collecting"}, a, b)
  BY <1>2, <1>3 DEF Loose, Only
<1>. HIDE DEF b
<1>6. Only({"timeout", "collecting"}, Start, b)
  BY <1>3, <1>5, OnlyTrans
<1>7. /\ b.selected = Start.selected /\ b.lag = Start.lag
      /\ b.mux = Start.mux /\ b.sport = Start.sport /\ b.egress = Start.egress
      /\ b.hw_attached = Start.hw_attached
      /\ b.lacp_up = Start.lacp_up /\ b.recv = Start.recv /\ b.psync = Start.psync
      /\ b.current_while = Start.current_while
  BY <1>6 DEF Only, Fields, BooleanFields
<1>8. Clock(b) /\ b.lacp_up
  BY <1>1, <1>6, <1>7, ClockFrame DEF Clock, ClockFields
<1>9. OnCourse(b, b)
  BY <1>1, <1>6, <1>7 DEF OnCourse, Steady, Opened, Only, Wired, Bound
<1>10. OnCourse(b, d) /\ Only(MuxFields, b, d)
  BY <1>9, MuxEvents, OnlyRefl DEF OnCourse, Steady
<1>. HIDE DEF d
<1>11. Only({"ntt"}, d, q) /\ q.ntt
  BY <1>2, <1>10 DEF Loose, Only
<1>. HIDE DEF q
<1>12. Only(MuxFields, d, q)
  BY <1>11 DEF Only, MuxFields, TxFields
<1>13. Same(b, d) /\ Same(d, q)
  BY <1>10, <1>12, SelectSame DEF SelectFields
<1>14. /\ q.mux = d.mux /\ q.sport = d.sport /\ q.egress = d.egress
       /\ q.selected = d.selected
  BY <1>11 DEF Only, Fields, BooleanFields
<1>15. Clock(q) /\ q.lacp_up
  BY <1>8, <1>13 DEF Same, Clock
<1>16. b.mux \in Forwarding /\ q.mux \in Forwarding => q.sport = b.sport
  BY <1>10, <1>14 DEF OnCourse, Steady, Bound
<1>17. ~b.egress /\ q.egress => q.selected /\ q.psync /\ q.pcollecting
  BY <1>10, <1>13, <1>14 DEF OnCourse, Opened, Same
<1>. QED
  BY <1>1, <1>4, <1>7, <1>11, <1>15, <1>16, <1>17 DEF Steps

\* mlacpVapiLinkDown.
LEMMA LinkDownSteps ==
    ASSUME Inv, ClockInv, NEW answer \in Answers, mlacpVapiLinkDown(answer)
    PROVE  Steps(port')
<1>. DEFINE a == [Start EXCEPT !.port_enabled = FALSE]
            b == PeriodicE1(a)
            q == PortDown(b, sports, answer)
<1>1. /\ OnCourse(Start, Start) /\ Clock(Start) /\ Start.lacp_up /\ Start.recv # "BEGIN"
  BY StartCourse DEF mlacpVapiLinkDown
<1>2. "port_enabled" \in Fields /\ FALSE \in FieldType("port_enabled")
  BY FieldFacts DEF BooleanFields
<1>3. Only({"port_enabled"}, Start, a) /\ ~a.port_enabled
  BY <1>1, <1>2 DEF OnCourse, Steady, Loose, Only
<1>4. port' = ReceiveE4(b, sports, answer)
  BY DEF mlacpVapiLinkDown
<1>. HIDE DEF a
<1>5. {"port_enabled"} \cap (CourseFields \cup PartnerFlags) = {}
  BY DEF CourseFields, PartnerFlags, MuxFields, TxFields
<1>6. OnCourse(Start, a) /\ Loose(a)
  BY <1>1, <1>3, <1>5, KeepsCourse DEF Only
<1>7. /\ Only({"periodic", "periodic_timer"}, a, b) /\ b.periodic = "NO_PERIODIC"
      /\ PeriodicOK(b)
  BY <1>3, <1>6, NoPeriodicRests DEF PeriodicE1
<1>. HIDE DEF b
<1>8. Speaks(a, b)
  BY <1>7, StaysSaid DEF Speaks, Said, Only, PeriodicFields
<1>9. OnCourse(Start, b)
  BY <1>6, <1>8, PeriodicKeepsCourse DEF OnCourse
<1>10. /\ b.recv = Start.recv /\ b.lacp_up = Start.lacp_up /\ b.egress = Start.egress
       /\ ~b.port_enabled
  <2>1. a.recv = Start.recv /\ a.lacp_up = Start.lacp_up /\ a.egress = Start.egress
    BY <1>3 DEF Only, Fields, BooleanFields
  <2>2. /\ b.recv = a.recv /\ b.lacp_up = a.lacp_up /\ b.egress = a.egress
        /\ b.port_enabled = a.port_enabled
    BY <1>7 DEF Only, Fields, BooleanFields
  <2>. QED
    BY <1>3, <2>1, <2>2
<1>11. /\ OnCourse(Start, q)
       /\ q.recv = "PORT_DISABLED" /\ q.lacp_up = b.lacp_up
       /\ q.port_enabled = b.port_enabled
       /\ PeriodicOK(q) = PeriodicOK(b)
  BY <1>9, <1>10, PortDownOnCourse DEF OnCourse
<1>12. port_disabled_state_action(b, sports, answer)
         = IF q.port_enabled THEN expired_state_action(q) ELSE q
  BY DEF port_disabled_state_action, PortDown
<1>. HIDE DEF q
<1>13. port' = q
  BY <1>1, <1>4, <1>10, <1>11, <1>12 DEF ReceiveE4
<1>14. Clock(q) /\ q.lacp_up
  BY <1>1, <1>7, <1>10, <1>11 DEF Clock
<1>. QED
  BY <1>11, <1>13, <1>14, CourseLands, LandedSteps DEF mlacpVapiLinkDown

\* mlacpVapiLinkUp: the periodic machine runs again unless nobody is active.
LEMMA LinkUpSteps ==
    ASSUME Inv, ClockInv, NEW t \in PortTypes, mlacpVapiLinkUp(t)
    PROVE  Steps(port')
<1>. DEFINE a == IF t # Start.port_type THEN Unselect(Start, sports) ELSE Start
            m == [a EXCEPT !.port_type = t, !.port_enabled = TRUE]
            b == ReceiveE6(m)
            q == IF BothPassive(b) THEN b ELSE PeriodicE2(b)
            Fit(x) == /\ OnCourse(Start, x) /\ (x.egress => Start.egress)
                      /\ x.lacp_up /\ PeriodicRuns(x)
                      /\ x.recv \in {"CURRENT", "EXPIRED"} => x.current_while > 0
                      /\ x.recv = "EXPIRED" => ~x.psync
<1>1. /\ OnCourse(Start, Start) /\ Clock(Start) /\ Start.lacp_up
  BY StartCourse DEF mlacpVapiLinkUp
<1>2. port' = q
  BY DEF mlacpVapiLinkUp
<1>3. PeriodicRuns(Start)
  BY <1>1 DEF Clock, PeriodicOK, PeriodicRuns
<1>4. Fit(Start)
  BY <1>1, <1>3 DEF Clock
<1>5. Fit(a) /\ a.periodic = Start.periodic
  <2>1. LET r == Unselect(Start, sports)
        IN  OnCourse(Start, r) /\ Only(MuxFields \cup {"selected"}, Start, r) /\ ~r.egress
    BY <1>1, UnselectOnCourse
  <2>2. Same(Start, Unselect(Start, sports))
    BY <2>1, SelectSame DEF SelectFields
  <2>3. Fit(Unselect(Start, sports)) /\ Unselect(Start, sports).periodic = Start.periodic
    BY <1>4, <2>1, <2>2 DEF Same
  <2>4. a = Unselect(Start, sports) \/ a = Start
    OBVIOUS
  <2>. HIDE DEF a
  <2>. QED
    BY <1>4, <2>3, <2>4
<1>. HIDE DEF a
<1>6. Fit(m) /\ m.periodic = Start.periodic
  <2>1. /\ "port_type" \in Fields /\ t \in FieldType("port_type")
        /\ "port_enabled" \in Fields /\ TRUE \in FieldType("port_enabled")
    BY FieldFacts DEF BooleanFields
  <2>2. Only({"port_type", "port_enabled"}, a, m)
    BY <1>5, <2>1 DEF OnCourse, Steady, Loose, Only
  <2>. HIDE DEF m
  <2>3. {"port_type", "port_enabled"} \cap (CourseFields \cup PartnerFlags) = {}
    BY DEF CourseFields, PartnerFlags, MuxFields, TxFields
  <2>4. OnCourse(Start, m)
    BY <1>5, <2>2, <2>3, KeepsCourse
  <2>5. /\ m.egress = a.egress /\ m.lacp_up = a.lacp_up /\ m.recv = a.recv
        /\ m.psync = a.psync /\ m.current_while = a.current_while
        /\ m.periodic = a.periodic
        /\ m.periodic_timer = a.periodic_timer /\ m.ptimeout = a.ptimeout
    BY <2>2 DEF Only, Fields, BooleanFields
  <2>. QED
    BY <1>5, <2>4, <2>5 DEF PeriodicRuns
<1>. HIDE DEF m
<1>7. /\ Fit(b)
      /\ b.periodic = "NO_PERIODIC" => Start.periodic = "NO_PERIODIC" \/ BothPassive(b)
  <2>1. CASE m.recv = "PORT_DISABLED"
    <3>1. b = expired_state_action(m)
      BY <2>1 DEF ReceiveE6
    <3>. HIDE DEF b
    <3>2. /\ OnCourse(Start, b) /\ (b.egress => Start.egress)
          /\ b.lacp_up = m.lacp_up /\ b.recv = "EXPIRED" /\ ~b.psync /\ b.current_while > 0
          /\ PeriodicRuns(m) => PeriodicRuns(b)
          /\ b.periodic = "NO_PERIODIC" => m.periodic = "NO_PERIODIC" \/ BothPassive(b)
      BY <1>6, <3>1, ExpiredSteady DEF OnCourse
    <3>. QED
      BY <1>6, <3>2
  <2>2. CASE m.recv # "PORT_DISABLED"
    <3>1. b = m
      BY <2>2 DEF ReceiveE6
    <3>. HIDE DEF b
    <3>. QED
      BY <1>6, <3>1
  <2>. QED
    BY <2>1, <2>2
<1>. HIDE DEF b
<1>8. CASE BothPassive(b) \/ b.periodic # "NO_PERIODIC"
  <2>1. q = b
    BY <1>8 DEF PeriodicE2
  <2>2. PeriodicOK(b)
    BY <1>7, <1>8 DEF PeriodicRuns, PeriodicOK
  <2>3. Steps(b)
    BY <1>7, <2>2, CourseLands, LandedSteps DEF Clock, mlacpVapiLinkUp
  <2>. HIDE DEF q
  <2>. QED
    BY <1>2, <2>1, <2>3
<1>9. CASE ~BothPassive(b) /\ b.periodic = "NO_PERIODIC"
  <2>1. q = LACP_fast_periodic_state_action(b)
    BY <1>9 DEF PeriodicE2
  <2>. HIDE DEF q
  <2>2. Only({"periodic", "periodic_timer"}, b, q) /\ PeriodicOK(q)
    BY <1>7, <2>1, FastRuns DEF OnCourse, Steady
  <2>3. /\ q.selected = b.selected /\ q.lag = b.lag
        /\ q.mux = b.mux /\ q.sport = b.sport /\ q.egress = b.egress
        /\ q.hw_attached = b.hw_attached
        /\ q.psync = b.psync /\ q.pcollecting = b.pcollecting
        /\ q.lacp_up = b.lacp_up /\ q.recv = b.recv /\ q.current_while = b.current_while
    BY <2>2 DEF Only, Fields, BooleanFields
  <2>4. Flushed(q) = Flushed(b)
    BY <2>2, StaysSaid
  <2>5. Start.periodic = "NO_PERIODIC"
    BY <1>7, <1>9
  <2>6. Landed(Start, q)
    BY <1>7, <2>2, <2>3, <2>4, <2>5 DEF OnCourse, Steady, Opened, Landed, Wired, Only
  <2>7. Steps(q)
    BY <1>7, <2>2, <2>3, <2>6, LandedSteps DEF Clock, mlacpVapiLinkUp
  <2>. QED
    BY <1>2, <2>7
<1>. QED
  BY <1>8, <1>9

\* One second: the periodic timer lets go of what the budget held back, the
\* wait-while timer may open egress, and the current-while timer may then expire.
LEMMA TickSteps ==
    ASSUME Inv, ClockInv, NEW ready, NEW answer \in Answers, Tick(ready, answer)
    PROVE  /\ Steps(port')
           /\ port.periodic # "NO_PERIODIC" => Flushed(port')
<1>. DEFINE a == periodic_tx_timer_expiry(Start)
            s == [a EXCEPT !.periodic = port.periodic]
            b == mux_wait_while_timer_expiry(a, sports, ready)
            c == [b EXCEPT !.current_while = @ - 1]
            q == current_while_timer_expiry(b, sports, answer)
            Fit(x) == /\ x.lacp_up /\ Clock(x)
                      /\ s.mux \in Forwarding /\ x.mux \in Forwarding => x.sport = s.sport
                      /\ ~s.egress /\ x.egress =>
                             /\ x.selected /\ x.pcollecting
                             /\ x.psync \/ (b.recv = "CURRENT" /\ x.recv = "EXPIRED")
                      /\ s.periodic = "NO_PERIODIC" \/ Said(x) \/ ActorFlags(x) = ActorFlags(s)
                      /\ Flushed(s) => Flushed(x)
<1>1. /\ OnCourse(Start, Start) /\ Clock(Start) /\ Start.lacp_up
      /\ Start.mux = port.mux /\ Start.sport = port.sport /\ Start.egress = port.egress
      /\ Start.recv = port.recv /\ Start.periodic = port.periodic
      /\ ActorFlags(Start) = ActorFlags(port)
  BY StartCourse DEF Tick
<1>2. port' = q
  BY DEF Tick
<1>3. /\ Only(PeriodicFields, Start, a) /\ PeriodicOK(a)
      /\ Start.periodic # "NO_PERIODIC" => Flushed(a)
  BY <1>1, PeriodicTickFlushes DEF OnCourse, Steady, Clock
<1>. HIDE DEF a
<1>4. /\ a.selected = Start.selected /\ a.lag = Start.lag
      /\ a.mux = Start.mux /\ a.sport = Start.sport /\ a.egress = Start.egress
      /\ a.hw_attached = Start.hw_attached
      /\ a.lacp_up = Start.lacp_up /\ a.recv = Start.recv /\ a.psync = Start.psync
      /\ a.current_while = Start.current_while
  BY <1>3 DEF Only, PeriodicFields, TxFields, Fields, BooleanFields
<1>5. ActorFlags(a) = ActorFlags(Start)
  BY <1>3, PeriodicFrame
<1>6. /\ s.periodic = port.periodic
      /\ s.mux = a.mux /\ s.sport = a.sport /\ s.egress = a.egress
      /\ ActorFlags(s) = ActorFlags(a) /\ Flushed(s) = Flushed(a)
  <2>1. "periodic" \in Fields /\ a = [f \in Fields |-> a[f]]
    BY <1>3, FieldFacts DEF Only, Loose
  <2>2. s.periodic = port.periodic /\ \A f \in Fields \ {"periodic"} : s[f] = a[f]
    BY <2>1
  <2>. HIDE DEF s
  <2>. QED
    BY <2>2, FieldFacts DEF ActorFlags, Flushed, BooleanFields
<1>. HIDE DEF s
<1>7. OnCourse(s, a)
  BY <1>1, <1>3, <1>4, <1>6 DEF OnCourse, Steady, Opened, Only, Wired
<1>8. Clock(a) /\ a.lacp_up
  BY <1>1, <1>3, <1>4 DEF Clock
<1>9. OnCourse(s, b) /\ Only(MuxFields \cup {"ready_n"}, a, b)
  BY <1>6, <1>7, WaitTickOnCourse
<1>. HIDE DEF b
<1>10. Same(a, b)
  BY <1>9, SelectSame DEF SelectFields
<1>11. Clock(b) /\ b.lacp_up /\ b.recv = port.recv
  BY <1>1, <1>4, <1>8, <1>10 DEF Same, Clock
<1>12. ASSUME NEW x, OnCourse(s, x), Clock(x), x.lacp_up
       PROVE  Fit(x)
  BY <1>12 DEF OnCourse, Steady, Opened, Bound
<1>13. ASSUME b.current_while > 0
       PROVE  Fit(q)
  <2>1. "current_while" \in Fields /\ b.current_while - 1 \in FieldType("current_while")
    <3>1. b.current_while \in Nat
      BY <1>9, FieldFacts DEF OnCourse, Steady, Loose
    <3>2. b.current_while - 1 \in Nat
      BY <1>13, <3>1
    <3>. QED
      BY <3>2, FieldFacts
  <2>2. q = IF c.current_while = 0 THEN ReceiveE2(c, sports, answer) ELSE c
    BY <1>13 DEF current_while_timer_expiry
  <2>3. Only({"current_while"}, b, c)
    BY <1>9, <2>1 DEF OnCourse, Steady, Loose, Only
  <2>. HIDE DEF c
  <2>4. /\ {"current_while"} \cap (CourseFields \cup PartnerFlags) = {}
        /\ {"current_while"} \cap ClockFields = {}
    BY DEF CourseFields, PartnerFlags, MuxFields, TxFields, ClockFields
  <2>5. OnCourse(s, c) /\ PeriodicOK(c) = PeriodicOK(b)
    BY <1>9, <2>3, <2>4, KeepsCourse, ClockFrame
  <2>6. c.lacp_up = b.lacp_up /\ c.recv = b.recv /\ c.psync = b.psync
    BY <2>3 DEF Only, Fields, BooleanFields
  <2>7. c.current_while \in Nat
    BY <2>3, FieldFacts DEF Only, Loose
  <2>8. CASE c.current_while = 0 /\ c.recv = "CURRENT"
    <3>1. q = expired_state_action(c)
      BY <2>2, <2>8 DEF ReceiveE2
    <3>. HIDE DEF q
    <3>2. /\ Steady(s, q) /\ q.egress = c.egress /\ q.selected = c.selected
          /\ q.pcollecting = c.pcollecting /\ q.lacp_up = c.lacp_up
          /\ q.recv = "EXPIRED" /\ ~q.psync /\ q.current_while > 0
          /\ PeriodicOK(c) => PeriodicOK(q)
      BY <2>5, <3>1, ExpiredSteady DEF OnCourse
    <3>3. Clock(q) /\ q.lacp_up
      BY <1>11, <2>5, <2>6, <3>2 DEF Clock
    <3>4. ~s.egress /\ q.egress => q.selected /\ q.pcollecting /\ b.recv = "CURRENT"
      BY <2>5, <2>6, <2>8, <3>2 DEF OnCourse, Opened
    <3>. QED
      BY <3>2, <3>3, <3>4 DEF Steady, Bound
  <2>9. CASE c.current_while = 0 /\ c.recv = "EXPIRED"
    <3>1. q = defaulted_state_action(c, sports, answer)
      BY <2>2, <2>9 DEF ReceiveE2
    <3>. HIDE DEF q
    <3>2. c.egress => s.egress
      BY <1>11, <2>5, <2>6, <2>9 DEF OnCourse, Opened, Clock
    <3>3. /\ Landed(s, q) /\ q.recv = "DEFAULTED" /\ q.lacp_up = c.lacp_up
          /\ PeriodicOK(c) => PeriodicOK(q)
      BY <2>5, <3>1, <3>2, DefaultedLands DEF OnCourse
    <3>4. Clock(q) /\ q.lacp_up
      BY <1>11, <2>5, <2>6, <3>3 DEF Clock
    <3>. QED
      BY <3>3, <3>4 DEF Landed, Opened, Bound
  <2>10. CASE ~(c.current_while = 0 /\ c.recv \in {"CURRENT", "EXPIRED"})
    <3>1. q = c
      BY <2>2, <2>10 DEF ReceiveE2
    <3>. HIDE DEF q
    <3>2. Clock(c) /\ c.lacp_up
      BY <1>11, <2>5, <2>6, <2>7, <2>10 DEF Clock
    <3>. QED
      BY <1>12, <2>5, <3>1, <3>2
  <2>. QED
    BY <2>8, <2>9, <2>10
<1>14. ASSUME ~(b.current_while > 0)
       PROVE  Fit(q)
  <2>1. q = b
    BY <1>14 DEF current_while_timer_expiry
  <2>. HIDE DEF q
  <2>. QED
    BY <1>9, <1>11, <1>12, <2>1
<1>15. Fit(q)
  BY <1>13, <1>14
<1>. HIDE DEF q
<1>16. Steps(q)
  BY <1>1, <1>4, <1>5, <1>6, <1>11, <1>15 DEF Steps, Said
<1>17. port.periodic # "NO_PERIODIC" => Flushed(q)
  BY <1>1, <1>3, <1>6, <1>15
<1>. QED
  BY <1>2, <1>16, <1>17

\* LACP_initialize_port leaves a port that is running, its timers too, whose first
\* flags have been announced and which is in no trunk.
LEMMA InitializePortSteps ==
    ASSUME Inv, NEW k \in Configs, NEW cleared, InitializePort(k, cleared)
    PROVE  /\ port'.lacp_up /\ Clock(port') /\ Said(port')
           /\ ~port'.egress /\ port'.mux \notin Forwarding
<1>. DEFINE y == IF port.lacp_up THEN LACP_disable_lacp(Start, cleared) ELSE Start
            z == Blank(k, y)
            a == ReceiveE8(z, sports)
            b == IF a.port_enabled THEN ReceiveE6(a) ELSE a
            e == PeriodicE1(b)
            d == MuxE7(e, sports)
            q == [d EXCEPT !.lacp_up = TRUE]
            u == Unselect(z, sports)
            r == recordDefault(u)
            m == PortDown(r, sports, NoAnswer)
            Fit(x) == /\ Steady(z, x) /\ (x.egress => z.egress)
                      /\ x.recv \in {"CURRENT", "EXPIRED"} => x.current_while > 0
                      /\ x.recv = "EXPIRED" => ~x.psync
                      /\ ~x.selected
<1>1. port' = q
  BY DEF InitializePort, LACP_initialize_port
<1>2. /\ PortOK(z) /\ Out(z) /\ ~z.lacp_up
      /\ z.recv = "BEGIN" /\ z.mux = "BEGIN"
  <2>1. PortOK(Start) /\ SameButTx(port, Start)
    BY StartLemma DEF Inv
  <2>2. PortOK(y) /\ Out(y)
    <3>1. CASE port.lacp_up
      BY <2>1, <3>1, DisableLemma
    <3>2. CASE ~port.lacp_up
      <4>1. Start.mux \notin Forwarding
        BY <2>1, <3>2 DEF Inv, SameButTx, Place, Forwarding
      <4>. QED
        BY <2>1, <3>2, <4>1, TrunkForms DEF PortOK, PortBase
    <3>. QED
      BY <3>1, <3>2
  <2>. HIDE DEF y
  <2>3. y.out \in Seq(SentPdu) /\ y.egress \in BOOLEAN
    BY <2>2, FieldFacts DEF PortOK, PortBase, IsPort, BooleanFields
  <2>4. y.trunk = {} /\ y.egress = FALSE
    BY <2>2, <2>3 DEF Out
  <2>5. k \in LportConfig
    BY InputAssumption
  <2>. QED
    BY <2>3, <2>4, <2>5, BlankLemma
<1>. HIDE DEF z
<1>3. ~z.egress /\ z.selected = FALSE
  BY <1>2 DEF Out, PortOK, PortBase, SelectionOK
<1>4. OnCourse(z, z)
  BY <1>2, <1>3, PortIsLoose
     DEF OnCourse, Steady, Opened, Wired, PortOK, PortBase, Forwarding
<1>5. OnCourse(z, u) /\ ~u.egress /\ ~u.selected
  BY <1>4, UnselectOnCourse
<1>6. u.lacp_up = z.lacp_up
  <2>1. Only(MuxFields \cup {"selected"}, z, u)
    BY <1>4, UnselectOnCourse
  <2>. HIDE DEF u
  <2>. QED
    BY <2>1, SelectSame DEF SelectFields, Same
<1>. HIDE DEF u
<1>7. OnCourse(z, r) /\ (r.egress => z.egress) /\ r.lacp_up = u.lacp_up /\ ~r.selected
  BY <1>5, DefaultOnCourse DEF OnCourse
<1>. HIDE DEF r
<1>8. /\ OnCourse(z, m) /\ m.recv = "PORT_DISABLED" /\ m.lacp_up = r.lacp_up
      /\ r.lacp_up \/ m.selected = r.selected
  <2>1. NoAnswer \in Answers
    BY DEF NoAnswer, Answers
  <2>. QED
    BY <1>7, <2>1, PortDownOnCourse DEF OnCourse
<1>9. a = IF m.port_enabled THEN expired_state_action(m) ELSE m
  BY DEF ReceiveE8, initialize_state_action, port_disabled_state_action, PortDown, m, r, u
<1>. HIDE DEF m
<1>10. Fit(m)
  BY <1>2, <1>3, <1>6, <1>7, <1>8 DEF OnCourse, Opened
<1>11. ASSUME NEW x, Fit(x)
       PROVE  Fit(expired_state_action(x))
  BY <1>11, ExpiredSteady
<1>12. Fit(a)
  BY <1>9, <1>10, <1>11
<1>. HIDE DEF a
<1>13. Fit(b)
  BY <1>11, <1>12 DEF ReceiveE6
<1>. HIDE DEF b
<1>14. Only({"periodic", "periodic_timer"}, b, e) /\ PeriodicOK(e)
  BY <1>13, NoPeriodicRests DEF Steady, PeriodicE1
<1>. HIDE DEF e
<1>15. /\ e.recv = b.recv /\ e.current_while = b.current_while /\ e.psync = b.psync
       /\ e.egress = b.egress /\ e.selected = b.selected
  BY <1>14 DEF Only, Fields, BooleanFields
<1>16. Arrived(e, d) /\ d.mux = "DETACHED"
  BY <1>3, <1>13, <1>14, <1>15, DetachedArrives DEF Only, MuxE7
<1>. HIDE DEF d
<1>17. Same(e, d) /\ ~d.egress
  BY <1>16, SelectSame DEF Arrived, SelectFields, Wired
<1>18. "lacp_up" \in Fields /\ TRUE \in FieldType("lacp_up")
  BY FieldFacts DEF BooleanFields
<1>19. Only({"lacp_up"}, d, q) /\ q.lacp_up
  BY <1>16, <1>18 DEF Arrived, Only, Loose
<1>. HIDE DEF q
<1>20. {"lacp_up"} \cap CourseFields = {} /\ {"lacp_up"} \cap ClockFields = {}
  BY DEF CourseFields, MuxFields, TxFields, ClockFields
<1>21. /\ q.mux = d.mux /\ q.egress = d.egress /\ Said(q) = Said(d)
       /\ PeriodicOK(q) = PeriodicOK(d)
  BY <1>19, <1>20, CourseFrame, ClockFrame
<1>22. q.recv = d.recv /\ q.current_while = d.current_while /\ q.psync = d.psync
  BY <1>19 DEF Only, Fields, BooleanFields
<1>23. Clock(q)
  BY <1>13, <1>14, <1>15, <1>17, <1>21, <1>22 DEF Clock, Same
<1>. QED
  BY <1>1, <1>16, <1>17, <1>19, <1>21, <1>23 DEF Arrived, Forwarding

(***************************************************************************)
(* The theorems.                                                           *)
(***************************************************************************)

\* A port that LACP_initialize_port has just started, and one LACP_disable_lacp has
\* just removed.
Fresh(q) ==
    /\ q.lacp_up /\ Clock(q) /\ Said(q)
    /\ ~q.egress /\ q.mux \notin Forwarding

Gone(q) == ~q.lacp_up /\ q.mux = "BEGIN" /\ q.recv = "BEGIN"

\* What any step does to the port.
LEMMA NextSteps ==
    ASSUME Inv, ClockInv, [Next]_vars
    PROVE  \/ UNCHANGED port
           \/ port.lacp_up /\ Gone(port')
           \/ Fresh(port')
           \/ port.lacp_up /\ Steps(port')
<1>0. PlainOffers \subseteq Answers /\ Offers \subseteq Answers
  BY DEF PlainOffers, Offers
<1>1. ASSUME NEW c \in Configs, NEW cleared \in Clearings, InitializePort(c, cleared)
      PROVE  Fresh(port')
  BY <1>1, InitializePortSteps DEF Fresh
<1>2. ASSUME NEW cleared \in Clearings, DisablePort(cleared)
      PROVE  port.lacp_up /\ Gone(port')
  BY <1>2, DisablePortStep DEF DisablePort, Gone
<1>3. ASSUME NEW t \in Timeout, NEW hwStatus \in BOOLEAN,
             LACP_update_port_params(t, hwStatus)
      PROVE  port.lacp_up /\ Steps(port')
  BY <1>3, UpdateParamsSteps DEF LACP_update_port_params
<1>4. ASSUME NEW a \in ActorSystems, set_lport_overrides(a)
      PROVE  port.lacp_up /\ Steps(port')
  BY <1>4, OverridesSteps DEF set_lport_overrides
<1>5. ASSUME NEW status \in BOOLEAN, NEW answer \in Offers,
             set_lport_fallback_status(status, answer)
      PROVE  port.lacp_up /\ Steps(port')
  BY <1>0, <1>5, FallbackSteps DEF set_lport_fallback_status
<1>6. ASSUME NEW t \in PortTypes, mlacpVapiLinkUp(t)
      PROVE  port.lacp_up /\ Steps(port')
  BY <1>6, LinkUpSteps DEF mlacpVapiLinkUp
<1>7. ASSUME NEW answer \in PlainOffers, mlacpVapiLinkDown(answer)
      PROVE  port.lacp_up /\ Steps(port')
  BY <1>0, <1>7, LinkDownSteps DEF mlacpVapiLinkDown
<1>8. ASSUME NEW pdu \in Pdus, NEW answer \in PlainOffers,
             LACP_process_lacpdu(pdu, answer)
      PROVE  port.lacp_up /\ Steps(port')
  BY <1>0, <1>8, PduSteps DEF LACP_process_lacpdu
<1>9. ASSUME NEW ready \in BOOLEAN, NEW answer \in Offers, Tick(ready, answer)
      PROVE  port.lacp_up /\ Steps(port')
  BY <1>0, <1>9, TickSteps DEF Tick
<1>10. ASSUME NEW s \in Aggregators, SportParamsChange(s)
       PROVE  port.lacp_up /\ Steps(port')
  BY <1>10, SportParamsSteps DEF SportParamsChange
<1>11. ASSUME NEW s \in Aggregators,
              ConfigureSport(s) \/ UnconfigureSport(s) \/ DestroySport(s)
       PROVE  UNCHANGED port
  BY <1>11 DEF ConfigureSport, UnconfigureSport, DestroySport
<1>12. CASE UNCHANGED vars
  BY <1>12 DEF vars
<1>. QED
  BY <1>1, <1>2, <1>3, <1>4, <1>5, <1>6, <1>7, <1>8, <1>9, <1>10, <1>11, <1>12
     DEF Next, LportMessage, LinkMessage, PduReceived, TimerTick, SportMessage

\* The clocks of a running port are kept by every handler: each one that leaves a
\* receive or a periodic state whose timer has to run has started that timer.
THEOREM ClockInvariance == Spec => []ClockInv
<1>1. Init => ClockInv
  BY DEF Init, Absent, Blank, ClockInv
<1>2. Inv /\ ClockInv /\ [Next]_vars => ClockInv'
  BY NextSteps DEF ClockInv, Clock, Gone, Fresh, Steps
<1>. QED
  BY <1>1, <1>2, Invariance, PTL DEF Spec

\* The information of the partner can always still go out of date: a port in
\* CURRENT or EXPIRED has a running current-while timer, whatever its counts are.
THEOREM AgingArmed == Spec => []AgingIsArmed
<1>1. Inv /\ ClockInv => AgingIsArmed
  BY DEF Inv, ClockInv, Clock, AgingIsArmed
<1>. QED
  BY <1>1, Invariance, ClockInvariance, PTL

\* A port with its link up and an active side never falls silent, and sends slowly
\* only to a partner that asked for it.
THEOREM PeriodicRunning == Spec => []PeriodicIsRunning
<1>1. ClockInv => PeriodicIsRunning
  BY DEF ClockInv, Clock, PeriodicOK, PeriodicIsRunning
<1>. QED
  BY <1>1, ClockInvariance, PTL

\* A LACPDU leaves no port selected in another LAG than the one its identity forms:
\* LAG_selection comes after recordPDU and compares what was recorded.
THEOREM LacpduRefreshes == Spec => LacpduRefreshesLag
<1>1. Inv /\ ClockInv /\ [Next]_vars =>
        [port'.recv = "CURRENT" /\ port'.selected /\ port'.lag # form_lag_id(port')
           => ~PduReceived]_vars
  <2>1. PlainOffers \subseteq Answers
    BY DEF PlainOffers, Offers
  <2>. QED
    BY <2>1, PduSteps DEF PduReceived
<1>. QED
  BY <1>1, Invariance, ClockInvariance, PTL DEF Spec, LacpduRefreshesLag

\* Egress opens only on a selected port with its link up, towards a partner that
\* collects and is in sync, or was until the very tick that opened it.
THEOREM DistributionEarned == Spec => DistributionIsEarned
<1>1. Inv /\ ClockInv /\ Inv' /\ [Next]_vars =>
        [~port.egress /\ port'.egress =>
           /\ port'.selected /\ port'.port_enabled
           /\ port'.pcollecting
           /\ \/ port'.psync
              \/ port.recv = "CURRENT" /\ port'.recv = "EXPIRED"]_vars
  <2>. SUFFICES ASSUME Inv, ClockInv, Inv', [Next]_vars, ~port.egress, port'.egress
                PROVE  /\ port'.selected /\ port'.port_enabled
                       /\ port'.pcollecting
                       /\ \/ port'.psync
                          \/ port.recv = "CURRENT" /\ port'.recv = "EXPIRED"
    OBVIOUS
  <2>1. port'.mux = "COLLECTING_DISTRIBUTING"
    BY DEF Inv, PortOK, PortBase, TrunkOK
  <2>2. port.lacp_up /\ Steps(port')
    BY <2>1, NextSteps DEF Gone, Fresh
  <2>3. port'.port_enabled
    BY <2>1, <2>2 DEF Steps, Inv, AtRest, Quiet, Forwarding
  <2>. QED
    BY <2>2, <2>3 DEF Steps
<1>. QED
  BY <1>1, Invariance, ClockInvariance, PTL DEF Spec, DistributionIsEarned

\* No change of sync, collecting or distributing is lost on a port that transmits:
\* the chain of mux states that makes it ends with the flags on the wire or with
\* ntt set.
THEOREM ChangesAnnounced == Spec => ChangesAreAnnounced
<1>1. Inv /\ ClockInv /\ [Next]_vars =>
        [/\ port.lacp_up /\ port'.lacp_up
         /\ port.periodic # "NO_PERIODIC" /\ port'.periodic # "NO_PERIODIC"
         /\ ActorFlags(port') # ActorFlags(port)
         => \/ port'.ntt
            \/ /\ port'.out # <<>>
               /\ ActorFlags(port'.out[Len(port'.out)]) = ActorFlags(port')]_vars
  <2>. SUFFICES ASSUME Inv, ClockInv, [Next]_vars, port.lacp_up, port'.lacp_up,
                       port.periodic # "NO_PERIODIC", port'.periodic # "NO_PERIODIC",
                       ActorFlags(port') # ActorFlags(port)
                PROVE  port'.ntt \/ OnWire(port')
    BY DEF OnWire
  <2>1. Fresh(port') \/ Steps(port')
    BY NextSteps DEF Gone
  <2>. QED
    BY <2>1 DEF Fresh, Steps, Said
<1>. QED
  BY <1>1, Invariance, ClockInvariance, PTL DEF Spec, ChangesAreAnnounced

\* A second never ends with a LACPDU held back that the budget would allow.
THEOREM TickFlushes == Spec => TickFlushesNtt
<1>1. Inv /\ ClockInv /\ [Next]_vars =>
        [/\ port'.ntt /\ port'.async_tx < MAX_ASYNC_TX
         /\ port.periodic # "NO_PERIODIC"
         => ~TimerTick]_vars
  <2>1. Offers \subseteq Answers
    BY DEF Offers
  <2>. QED
    BY <2>1, TickSteps DEF TimerTick, Flushed
<1>. QED
  BY <1>1, Invariance, ClockInvariance, PTL DEF Spec, TickFlushesNtt

\* The three machines implement TrunkPort: every step of the port is one step of the
\* trunk it is in, or leaves it alone.
THEOREM TrunkRefinement == Spec => ImplementsTrunkPort
<1>1. Init => Trunk!Init
  BY DEF Init, Absent, Blank, Trunk!Init
<1>2. Inv /\ ClockInv /\ Inv' /\ [Next]_vars => [Trunk!Next]_(Trunk!vars)
  <2>. SUFFICES ASSUME Inv, ClockInv, Inv', [Next]_vars
                PROVE  Trunk!Next \/ UNCHANGED Trunk!vars
    OBVIOUS
  <2>1. /\ TrunkOK(port) /\ TrunkOK(port')
        /\ port'.mux \in Forwarding => port'.sport \in Aggregators
        /\ port.lacp_up \in BOOLEAN /\ port'.lacp_up \in BOOLEAN
        /\ port.egress \in BOOLEAN /\ port'.egress \in BOOLEAN
    BY FieldFacts DEF Inv, PortOK, PortBase, SelectionOK, IsPort, BooleanFields
  <2>2. CASE UNCHANGED port
    BY <2>2 DEF Trunk!vars
  <2>3. CASE port.lacp_up /\ Gone(port')
    BY <2>1, <2>3 DEF Gone, TrunkOK, Forwarding, Trunk!Next, Trunk!Stop
  <2>4. CASE Fresh(port')
    BY <2>1, <2>4 DEF Fresh, TrunkOK, Forwarding, Trunk!Next, Trunk!Start
  <2>5. CASE port.lacp_up /\ Steps(port')
    <3>1. port'.lacp_up = port.lacp_up
      BY <2>1, <2>5 DEF Steps
    <3>2. CASE port.mux \notin Forwarding /\ port'.mux \notin Forwarding
      BY <2>1, <3>1, <3>2 DEF TrunkOK, Forwarding, Trunk!vars
    <3>3. CASE port.mux \notin Forwarding /\ port'.mux \in Forwarding
      <4>1. Trunk!Join(port'.sport)
        BY <2>1, <2>5, <3>1, <3>3 DEF TrunkOK, Trunk!Join
      <4>. QED
        BY <2>1, <3>3, <4>1 DEF Trunk!Next
    <3>4. CASE port.mux \in Forwarding /\ port'.mux \notin Forwarding
      BY <2>1, <3>1, <3>4 DEF TrunkOK, Forwarding, Trunk!Next, Trunk!Leave
    <3>5. CASE port.mux \in Forwarding /\ port'.mux \in Forwarding
      <4>1. port'.trunk = port.trunk /\ port.trunk # {}
        BY <2>1, <2>5, <3>5 DEF TrunkOK, Steps
      <4>2. CASE port'.egress = port.egress
        BY <3>1, <4>1, <4>2 DEF Trunk!vars
      <4>3. CASE port.egress /\ ~port'.egress
        BY <2>1, <3>1, <4>1, <4>3 DEF Trunk!Next, Trunk!Rejoin
      <4>4. CASE ~port.egress /\ port'.egress
        BY <2>1, <3>1, <4>1, <4>4 DEF Trunk!Next, Trunk!Open
      <4>. QED
        BY <2>1, <4>2, <4>3, <4>4
    <3>. QED
      BY <3>2, <3>3, <3>4, <3>5
  <2>. QED
    BY <2>2, <2>3, <2>4, <2>5, NextSteps
<1>. QED
  BY <1>1, <1>2, Invariance, ClockInvariance, PTL DEF Spec, ImplementsTrunkPort, Trunk!Spec
=============================================================================

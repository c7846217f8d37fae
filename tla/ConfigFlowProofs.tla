-------------------------- MODULE ConfigFlowProofs --------------------------
(***************************************************************************)
(* What is configured is what runs, for any number of LAGs, interfaces and *)
(* commands of a careful administrator: LACP follows the rows, the         *)
(* hardware serves whoever is in a trunk, and nobody has fallback where it *)
(* is off, whenever both threads are at rest.  Between two such moments    *)
(* Sound says for each setting of each port that the last word in the      *)
(* queue about it is what the caches hold, that an interface the hardware  *)
(* does not serve is about to stop, and that nobody is told of fallback    *)
(* but where the LAG allows it.                                            *)
(***************************************************************************)
EXTENDS ConfigTablesProofs
-----------------------------------------------------------------------------
(* What the protocol thread is told. *)

\* Every interface is sound.
AllSound == \A j \in Ifaces : Sound(State, lports[j], call, j)

\* The last walk over a LAG is one over its members.
Walked == task.at = "eligible" => task.members \subseteq ports[task.port].cfg

\* What the steps of both threads preserve together.
SoundInv == TablesInv /\ Walked /\ LportInv /\ AllSound

\* Nothing in s is said of j.
Silent(s, j) == \A k \in 1..Len(s) : \A f : ~Affects(s[k], j, f)

\* A change that is none of interface j's business leaves it sound.
LEMMA SoundAlike ==
    ASSUME NEW S \in CState, NEW T \in CState, NEW j \in Ifaces,
           \A q \in Lags : j \in T.ports[q].eligible <=> j \in S.ports[q].eligible,
           \A q \in Lags : j \in S.ports[q].eligible =>
               T.ports[q].mode = S.ports[q].mode /\ T.ports[q].fallback = S.ports[q].fallback,
           S.ifs[j].enabled /\ S.ifs[j].port \in Lags =>
               T.ports[S.ifs[j].port].sys = S.ports[S.ifs[j].port].sys,
           T.ifs[j] = S.ifs[j], T.hw[j] = S.hw[j],
           NEW s \in Seq(Message), T.queue = S.queue \o s, Silent(s, j),
           NEW l, NEW c, Sound(S, l, c, j)
    PROVE  Sound(T, l, c, j)
<1>1. \A q \in Lags : RunsIn(T, j, q) <=> RunsIn(S, j, q)
  BY DEF RunsIn, IsDynamic
<1>2. /\ \A f, v : LastWord(S.queue, l, j, f, v) => LastWord(T.queue, l, j, f, v)
      /\ ResetPends(S.queue, j) => ResetPends(T.queue, j)
  <2>1. S.queue \in Seq(Message)
    BY QueueTyped
  <2>2. ASSUME NEW f, NEW v, LastWord(S.queue, l, j, f, v) PROVE LastWord(T.queue, l, j, f, v)
    BY <2>1, <2>2, MoreWords DEF Silent
  <2>3. ResetPends(S.queue, j) => ResetPends(T.queue, j)
    BY <2>1, ResetStillPends
  <2>. QED
    BY <2>2, <2>3
<1>3. ListedOnce(T, j)
  BY DEF Sound, ListedOnce
<1>4. EnabledRuns(T, j)
  BY <1>1 DEF Sound, EnabledRuns, RunsIn
<1>5. Told(T, l, j)
  BY <1>2 DEF Sound, Told
<1>6. FallbackTold(T, l, j)
  <2>1. \/ ~S.ifs[j].enabled
        \/ LastWord(S.queue, l, j, "fallback", FALSE)
        \/ /\ LastWord(S.queue, l, j, "fallback", TRUE)
           /\ \E q \in Lags : RunsIn(S, j, q) /\ (S.ports[q].fallback \/ S.ifs[j].port # q)
    BY DEF Sound, FallbackTold
  <2>2. ASSUME NEW q \in Lags, RunsIn(S, j, q), S.ports[q].fallback \/ S.ifs[j].port # q
        PROVE  RunsIn(T, j, q) /\ (T.ports[q].fallback \/ T.ifs[j].port # q)
    BY <1>1, <2>2 DEF RunsIn
  <2>. QED
    BY <1>2, <2>1, <2>2 DEF FallbackTold
<1>7. Served(T, l, c, j)
  BY <1>2 DEF Sound, Served
<1>. QED
  BY <1>3, <1>4, <1>5, <1>6, <1>7 DEF Sound

\* Also when nothing is said at all.
LEMMA SoundUnsaid ==
    ASSUME NEW S \in CState, NEW T \in CState, NEW j \in Ifaces,
           \A q \in Lags : j \in T.ports[q].eligible <=> j \in S.ports[q].eligible,
           \A q \in Lags : j \in S.ports[q].eligible =>
               T.ports[q].mode = S.ports[q].mode /\ T.ports[q].fallback = S.ports[q].fallback,
           S.ifs[j].enabled /\ S.ifs[j].port \in Lags =>
               T.ports[S.ifs[j].port].sys = S.ports[S.ifs[j].port].sys,
           T.ifs[j] = S.ifs[j], T.hw[j] = S.hw[j], T.queue = S.queue,
           NEW l, NEW c, Sound(S, l, c, j)
    PROVE  Sound(T, l, c, j)
<1>1. <<>> \in Seq(Message) /\ T.queue = S.queue \o <<>> /\ Silent(<<>>, j)
  BY QueueTyped DEF Silent
<1>. QED
  BY <1>1, SoundAlike

\* The steps that change neither state nor ports.
LEMMA SoundStays == ASSUME SoundInv, UNCHANGED <<State, lports, call>> PROVE AllSound'
  BY DEF SoundInv, AllSound

\* An interface that neither runs nor is told to may change as it likes.
LEMMA SoundIdle ==
    ASSUME NEW S \in CState, NEW T \in CState, NEW j \in Ifaces,
           \A q \in Lags : j \in T.ports[q].eligible <=> j \in S.ports[q].eligible,
           \A q \in Lags : j \in S.ports[q].eligible => T.ports[q].mode = S.ports[q].mode,
           T.ifs[j].eligible = S.ifs[j].eligible,
           S.ifs[j].enabled = FALSE, T.ifs[j].enabled = FALSE,
           NEW s \in Seq(Message), T.queue = S.queue \o s,
           \A k \in 1..Len(s) : ~Affects(s[k], j, "up"),
           NEW l, IsLport(l), NEW c, Sound(S, l, c, j)
    PROVE  Sound(T, l, c, j)
<1>1. S.queue \in Seq(Message)
  BY QueueTyped
<1>2. ListedOnce(T, j)
  BY DEF Sound, ListedOnce
<1>3. EnabledRuns(T, j)
  <2>1. \A q \in Lags : ~RunsIn(S, j, q)
    BY DEF Sound, EnabledRuns
  <2>2. \A q \in Lags : ~RunsIn(T, j, q)
    BY <2>1 DEF RunsIn, IsDynamic
  <2>. QED
    BY <2>2 DEF EnabledRuns
<1>4. Told(T, l, j)
  <2>1. LastWord(S.queue, l, j, "up", FALSE)
    BY DEF Sound, Told
  <2>2. LastWord(T.queue, l, j, "up", FALSE)
    BY <1>1, <2>1, MoreWords
  <2>. QED
    BY <2>2 DEF Told
<1>5. FallbackTold(T, l, j)
  BY DEF FallbackTold
<1>6. Served(T, l, c, j)
  <2>1. CASE ResetPends(S.queue, j)
    BY <1>1, <2>1, ResetStillPends DEF Served
  <2>2. CASE ~ResetPends(S.queue, j)
    <3>1. l.trunk = 0 /\ ~l.egress
      BY <2>2, DisabledIsDown DEF Sound
    <3>. QED
      BY <3>1 DEF Served
  <2>. QED
    BY <2>1, <2>2
<1>. QED
  BY <1>2, <1>3, <1>4, <1>5, <1>6 DEF Sound

\* The same of a step of lacpd_run that is none of interface j's business.
LEMMA AsideSound ==
    ASSUME SoundInv, TablesInv', UNCHANGED <<lports, call>>, NEW j \in Ifaces,
           \A q \in Lags : j \in ports'[q].eligible <=> j \in ports[q].eligible,
           \A q \in Lags : j \in ports[q].eligible =>
               ports'[q].mode = ports[q].mode /\ ports'[q].fallback = ports[q].fallback,
           ifs[j].enabled /\ ifs[j].port \in Lags =>
               ports'[ifs[j].port].sys = ports[ifs[j].port].sys,
           ifs'[j] = ifs[j], hw'[j] = hw[j],
           NEW s \in Seq(Message), queue' = queue \o s, Silent(s, j)
    PROVE  Sound(State', lports'[j], call', j)
<1>1. State \in CState /\ State' \in CState
  BY DEF SoundInv, TablesInv, MembersInv, QueueInv, Typed, TypedCache
<1>2. /\ State.ports = ports /\ State.ifs = ifs /\ State.hw = hw /\ State.queue = queue
      /\ State'.ports = ports' /\ State'.ifs = ifs' /\ State'.hw = hw' /\ State'.queue = queue'
  BY DEF State
<1>3. Sound(State, lports[j], call, j)
  BY DEF SoundInv, AllSound
<1>4. Sound(State', lports[j], call, j)
  BY <1>1, <1>2, <1>3, SoundAlike
<1>. QED
  BY <1>4

\* And of a step in which it does not run.
LEMMA IdleSound ==
    ASSUME SoundInv, TablesInv', UNCHANGED <<lports, call>>, NEW j \in Ifaces,
           \A q \in Lags : j \in ports'[q].eligible <=> j \in ports[q].eligible,
           \A q \in Lags : j \in ports[q].eligible => ports'[q].mode = ports[q].mode,
           ifs'[j].eligible = ifs[j].eligible, ifs[j].enabled = FALSE, ifs'[j].enabled = FALSE,
           NEW s \in Seq(Message), queue' = queue \o s,
           \A k \in 1..Len(s) : ~Affects(s[k], j, "up")
    PROVE  Sound(State', lports'[j], call', j)
<1>1. State \in CState /\ State' \in CState
  BY DEF SoundInv, TablesInv, MembersInv, QueueInv, Typed, TypedCache
<1>2. /\ State.ports = ports /\ State.ifs = ifs /\ State.hw = hw /\ State.queue = queue
      /\ State'.ports = ports' /\ State'.ifs = ifs' /\ State'.hw = hw' /\ State'.queue = queue'
  BY DEF State
<1>3. Sound(State, lports[j], call, j) /\ IsLport(lports[j])
  BY DEF SoundInv, AllSound, LportInv
<1>4. Sound(State', lports[j], call, j)
  BY <1>1, <1>2, <1>3, SoundIdle
<1>. QED
  BY <1>4

\* No message: nothing affects anybody.
LEMMA NothingSaid ==
    ASSUME SoundInv, UNCHANGED queue
    PROVE  /\ <<>> \in Seq(Message) /\ queue' = queue \o <<>>
           /\ \A j : Silent(<<>>, j) /\ \A k \in 1..Len(<<>>) : ~Affects(<<>>[k], j, "up")
<1>1. queue \in Seq(Message)
  BY TypesNow DEF SoundInv, TablesInv, MembersInv
<1>. QED
  BY <1>1 DEF Silent

\* An interface lacp_state says runs is a member of the LAG it is eligible in.
LEMMA EnabledIsListed ==
    ASSUME SoundInv, NEW j \in Ifaces, ifs[j].enabled
    PROVE  \E q \in Lags : /\ j \in ports[q].eligible /\ IsDynamic(ports[q]) /\ j \in ports[q].cfg
                           /\ ports[q].cached /\ rows[q].present
                           /\ ifs[j].port = q \/ j \in recent
<1>1. EnabledRuns(State, j)
  BY DEF SoundInv, AllSound, Sound
<1>2. PICK q \in Lags : RunsIn(State, j, q)
  BY <1>1 DEF EnabledRuns, State
<1>3. j \in ports[q].eligible /\ IsDynamic(ports[q])
  BY <1>2 DEF RunsIn, State
<1>4. j \in ports[q].cfg
  BY <1>3 DEF SoundInv, TablesInv, MembersInv, Belongs, Listed
<1>5. ports[q].cached /\ rows[q].present /\ (ifs[j].port = q \/ j \in recent)
  BY <1>4 DEF SoundInv, TablesInv, MembersInv, Belongs, Placed, MembersAreCached
<1>. QED
  BY <1>3, <1>4, <1>5

\* handle_port_config takes the timeout over: nobody is told yet.
LEMMA StartSound ==
    ASSUME SoundInv, TablesInv', NEW p \in Lags, StartPort(p) PROVE AllSound'
<1>1. /\ UNCHANGED <<hw, ifs, queue, lports, call>>
      /\ ports' = [ports EXCEPT ![p].fast = rows[p].fast]
  BY DEF StartPort, proto
<1>2. ports \in [Lags -> LagPort]
  BY TypesNow DEF SoundInv, TablesInv, MembersInv
<1>3. ASSUME NEW q \in Lags
      PROVE  /\ ports'[q].eligible = ports[q].eligible /\ ports'[q].mode = ports[q].mode
             /\ ports'[q].fallback = ports[q].fallback /\ ports'[q].sys = ports[q].sys
  BY <1>1, <1>2 DEF LagPort
<1>4. ASSUME NEW j \in Ifaces PROVE Sound(State', lports'[j], call', j)
  <2>1. /\ <<>> \in Seq(Message) /\ queue' = queue \o <<>> /\ Silent(<<>>, j)
    BY <1>1, NothingSaid
  <2>2. ifs'[j] = ifs[j] /\ hw'[j] = hw[j] /\ UNCHANGED <<lports, call>>
    BY <1>1
  <2>. QED
    BY <1>3, <2>1, <2>2, AsideSound
<1>. QED
  BY <1>4 DEF AllSound

\* The messages about super ports say nothing of ports.
LEMMA SportsSilent ==
    ASSUME NEW id \in LagIds, NEW p \in Lags, NEW t \in {"create", "params", "unparams", "delete"},
           NEW j, NEW f
    PROVE  ~Affects(LagMsg(t, id, p), j, f)
  BY DEF Affects, LagMsg, LportMsg

\* A LAG that goes has no members by then.
LEMMA DeletedSound ==
    ASSUME SoundInv, TablesInv', NEW p \in Lags, del_old_port(p) PROVE AllSound'
<1>1. /\ ports[p].cfg = {} /\ ifs' = ifs /\ ports' = [ports EXCEPT ![p] = NoPort]
      /\ UNCHANGED <<hw, lports, call>>
  BY DeletedTables DEF SoundInv, del_old_port, proto
<1>2. /\ ports \in [Lags -> LagPort] /\ queue \in Seq(Message) /\ lag_id[p] \in 0..MaxLagId
      /\ MaxLagId \in Nat
  BY TypesNow, ConfigAssumption DEF SoundInv, TablesInv, MembersInv
<1>3. ports[p].eligible = {}
  BY <1>1, MemberTypes DEF SoundInv, TablesInv, MembersInv, Belongs, Listed
<1>4. \A q \in Lags : /\ ports'[q].eligible = ports[q].eligible
                      /\ q # p => ports'[q] = ports[q]
  BY <1>1, <1>2, <1>3 DEF NoPort
<1>5. PICK s \in Seq(Message) : queue' = queue \o s /\ \A j : Silent(s, j)
  <2>1. CASE lag_id[p] = 0
    <3>1. UNCHANGED queue
      BY <2>1 DEF del_old_port
    <3>. QED
      BY <3>1, NothingSaid
  <2>2. CASE lag_id[p] # 0
    <3>. DEFINE m == LagMsg("unparams", lag_id[p], p)
                n == LagMsg("delete", lag_id[p], p)
    <3>1. lag_id[p] \in LagIds
      BY <1>2, <2>2 DEF LagIds
    <3>2. m \in Message /\ n \in Message
      BY <3>1, LifeMsgs
    <3>3. \A j, f : ~Affects(m, j, f) /\ ~Affects(n, j, f)
      BY <3>1, SportsSilent
    <3>4. queue' = queue \o <<m, n>>
      BY <2>2 DEF del_old_port
    <3>. HIDE DEF m, n
    <3>5. <<m, n>> \in Seq(Message) /\ Len(<<m, n>>) = 2 /\ <<m, n>>[1] = m /\ <<m, n>>[2] = n
      BY <3>2
    <3>6. \A j : Silent(<<m, n>>, j)
      BY <3>3, <3>5 DEF Silent
    <3>. QED
      BY <3>4, <3>5, <3>6
  <2>. QED
    BY <2>1, <2>2
<1>6. ASSUME NEW j \in Ifaces PROVE Sound(State', lports'[j], call', j)
  <2>1. ifs[j].port # p
    BY <1>1, MemberTypes DEF SoundInv, TablesInv, MembersInv, Belongs, Placed
  <2>2. ifs'[j] = ifs[j] /\ hw'[j] = hw[j] /\ UNCHANGED <<lports, call>>
    BY <1>1
  <2>3. \A q \in Lags : j \in ports'[q].eligible <=> j \in ports[q].eligible
    BY <1>4
  <2>4. \A q \in Lags : j \in ports[q].eligible =>
            ports'[q].mode = ports[q].mode /\ ports'[q].fallback = ports[q].fallback
    BY <1>3, <1>4
  <2>5. ifs[j].enabled /\ ifs[j].port \in Lags =>
            ports'[ifs[j].port].sys = ports[ifs[j].port].sys
    BY <1>4, <2>1
  <2>. QED
    BY <1>5, <2>2, <2>3, <2>4, <2>5, AsideSound
<1>. QED
  BY <1>6 DEF AllSound

\* An interface seen for the first time runs nowhere.
LEMMA NewInterfaceSound ==
    ASSUME SoundInv, TablesInv', NEW i \in Ifaces, add_new_interface(i) PROVE AllSound'
<1>. DEFINE g == [NoIface EXCEPT !.cached = TRUE, !.key = keys[i], !.link = links[i]]
<1>1. /\ UNCHANGED <<ports, queue, lports, call>> /\ ~ifs[i].cached
      /\ ifs' = [ifs EXCEPT ![i] = g] /\ hw' = [hw EXCEPT ![i] = [rx |-> FALSE, tx |-> FALSE]]
  BY DEF add_new_interface, proto
<1>2. ifs \in [Ifaces -> Iface] /\ hw \in [Ifaces -> Flags]
  BY TypesNow DEF SoundInv, TablesInv, MembersInv
<1>3. g.enabled = FALSE /\ g.eligible = FALSE
  BY DEF NoIface
<1>. HIDE DEF g
<1>4. ifs[i].eligible = FALSE /\ ifs[i].enabled = FALSE
  <2>1. ifs[i].eligible \in BOOLEAN /\ ifs[i].enabled \in BOOLEAN
    BY <1>2 DEF Iface
  <2>2. ~ifs[i].eligible
    BY <1>1 DEF SoundInv, TablesInv, MembersInv, Underway, IfacesFirst
  <2>3. ~ifs[i].enabled
    BY <2>2, EnabledIsListed DEF SoundInv, TablesInv, MembersInv, Belongs, Listed
  <2>. QED
    BY <2>1, <2>2, <2>3
<1>5. ASSUME NEW j \in Ifaces PROVE Sound(State', lports'[j], call', j)
  <2>1. /\ <<>> \in Seq(Message) /\ queue' = queue \o <<>> /\ Silent(<<>>, j)
        /\ \A k \in 1..Len(<<>>) : ~Affects(<<>>[k], j, "up")
    BY <1>1, NothingSaid
  <2>2. UNCHANGED <<lports, call>> /\ \A q \in Lags : ports'[q] = ports[q]
    BY <1>1
  <2>3. CASE j = i
    <3>1. ifs'[j] = g
      BY <1>1, <1>2, <2>3
    <3>2. ifs'[j].eligible = ifs[j].eligible /\ ifs[j].enabled = FALSE /\ ifs'[j].enabled = FALSE
      BY <1>3, <1>4, <2>3, <3>1
    <3>. QED
      BY <2>1, <2>2, <3>2, IdleSound
  <2>4. CASE j # i
    <3>1. ifs'[j] = ifs[j] /\ hw'[j] = hw[j]
      BY <1>1, <1>2, <2>4
    <3>. QED
      BY <2>1, <2>2, <3>1, AsideSound
  <2>. QED
    BY <2>3, <2>4
<1>. QED
  BY <1>5 DEF AllSound

\* A new LAG takes interfaces that run nowhere.
LEMMA NewPortSound ==
    ASSUME SoundInv, TablesInv', NEW p \in Lags, add_new_port(p) PROVE AllSound'
<1>. DEFINE Q == [NoPort EXCEPT !.cached = TRUE, !.cfg = rows[p].members]
<1>1. /\ UNCHANGED <<hw, queue, lports, call>> /\ p \in Added
      /\ ports' = [ports EXCEPT ![p] = Q]
      /\ ifs' = [i \in Ifaces |-> IF i \in rows[p].members THEN [ifs[i] EXCEPT !.port = p]
                                  ELSE ifs[i]]
  BY DEF add_new_port, proto
<1>2. ifs \in [Ifaces -> Iface] /\ ports \in [Lags -> LagPort]
  BY TypesNow DEF SoundInv, TablesInv, MembersInv
<1>3. Q.eligible = {}
  BY DEF NoPort
<1>. HIDE DEF Q
<1>4. ~ports[p].cached /\ ports[p].cfg = {} /\ ports[p].eligible = {}
  <2>1. ~ports[p].cached
    BY <1>1 DEF Added
  <2>2. ports[p].cfg = {}
    BY <2>1 DEF SoundInv, TablesInv, MembersInv, Belongs, MembersAreCached
  <2>. QED
    BY <2>1, <2>2, MemberTypes DEF SoundInv, TablesInv, MembersInv, Belongs, Listed
<1>5. \A q \in Lags : /\ ports'[q].eligible = ports[q].eligible
                      /\ q # p => ports'[q] = ports[q]
  BY <1>1, <1>2, <1>3, <1>4
<1>6. ASSUME NEW j \in Ifaces, j \in rows[p].members PROVE ~ifs[j].enabled
  <2>1. SUFFICES ASSUME ifs[j].enabled PROVE FALSE
    OBVIOUS
  <2>2. PICK q \in Lags : j \in ports[q].cfg /\ ports[q].cached
    BY <2>1, EnabledIsListed
  <2>3. ports[q].cfg = rows[q].members
    BY <1>1, <1>6, <2>2 DEF SoundInv, TablesInv, MembersInv, Underway, UnseenAreEmpty
  <2>. QED
    BY <1>4, <1>6, <2>2, <2>3 DEF SoundInv, TablesInv, MembersInv, Belongs, RowsApart
<1>7. ASSUME NEW j \in Ifaces PROVE Sound(State', lports'[j], call', j)
  <2>1. /\ <<>> \in Seq(Message) /\ queue' = queue \o <<>> /\ Silent(<<>>, j)
        /\ \A k \in 1..Len(<<>>) : ~Affects(<<>>[k], j, "up")
    BY <1>1, NothingSaid
  <2>2. /\ UNCHANGED <<lports, call>> /\ hw'[j] = hw[j]
        /\ \A q \in Lags : j \in ports'[q].eligible <=> j \in ports[q].eligible
    BY <1>1, <1>5
  <2>3. \A q \in Lags : j \in ports[q].eligible =>
            ports'[q].mode = ports[q].mode /\ ports'[q].fallback = ports[q].fallback
    BY <1>4, <1>5
  <2>4. CASE j \in rows[p].members
    <3>1. ifs'[j] = [ifs[j] EXCEPT !.port = p] /\ ifs[j] \in Iface
      BY <1>1, <1>2, <2>4
    <3>2. ifs'[j].eligible = ifs[j].eligible /\ ifs[j].enabled = FALSE /\ ifs'[j].enabled = FALSE
      BY <1>6, <2>4, <3>1 DEF Iface
    <3>. QED
      BY <2>1, <2>2, <2>3, <3>2, IdleSound
  <2>5. CASE j \notin rows[p].members
    <3>1. ifs'[j] = ifs[j]
      BY <1>1, <2>5
    <3>2. ifs[j].port # p
      BY <1>4, MemberTypes DEF SoundInv, TablesInv, MembersInv, Belongs, Placed
    <3>3. ifs[j].enabled /\ ifs[j].port \in Lags =>
              ports'[ifs[j].port].sys = ports[ifs[j].port].sys
      BY <1>5, <3>2
    <3>. QED
      BY <2>1, <2>2, <2>3, <3>1, <3>3, AsideSound
  <2>. QED
    BY <2>4, <2>5
<1>. QED
  BY <1>7 DEF AllSound

\* A walk over a hash map meets every entry.
LEMMA OrdersMeetAll ==
    ASSUME NEW M, M \subseteq Ifaces, NEW o \in Orders(M)
    PROVE  /\ Cardinality(M) \in Nat /\ DOMAIN o = 1..Cardinality(M)
           /\ \A k \in 1..Cardinality(M) : o[k] \in M
           /\ \A j \in M : \E k \in 1..Cardinality(M) : o[k] = j
<1>. DEFINE n == Cardinality(M)
<1>1. IsFiniteSet(M)
  BY ConfigAssumption, FS_Subset
<1>2. n \in Nat
  BY <1>1, FS_CardinalityType
<1>3. o \in [1..n -> M] /\ \A j, k \in 1..n : o[j] = o[k] => j = k
  BY DEF Orders
<1>. HIDE DEF n
<1>4. o \in Injection(1..n, M)
  BY <1>3 DEF Injection, IsInjective
<1>5. Cardinality(1..n) = n
  <2>1. Cardinality(1..n) = IF 1 > n THEN 0 ELSE n - 1 + 1
    BY <1>2, FS_Interval
  <2>. QED
    BY <1>2, <2>1
<1>6. o \in Surjection(1..n, M)
  BY <1>1, <1>4, <1>5, FS_Injection DEF n
<1>. QED
  BY <1>2, <1>3, <1>6 DEF Surjection, n

\* The messages s give setting g of every interface in M the value v, and say nothing else.
TellsEach(s, M, g, v) ==
    /\ s \in Seq(Message) /\ \A j : j \notin M => Silent(s, j)
    /\ \A j, f : f # g => \A k \in 1..Len(s) : ~Affects(s[k], j, f)
    /\ \A j : \A k \in 1..Len(s) : Affects(s[k], j, g) => Says(s[k], g) = v
    /\ \A j \in M : \E k \in 1..Len(s) : Affects(s[k], j, g)

\* What is said to each of M of the system id: the same, and nothing else.
LEMMA OverridesBlock ==
    ASSUME NEW M, M \subseteq Ifaces, NEW n \in Nat, NEW o \in [1..n -> M],
           \A j \in M : \E k \in 1..n : o[k] = j,
           NEW y \in Systems, NEW s, s = [k \in 1..n |-> Overrides(o[k], y)]
    PROVE  TellsEach(s, M, "sys", y)
<1>1. ASSUME NEW k \in 1..n
      PROVE  /\ s[k] = Overrides(o[k], y) /\ s[k] \in LportMsg /\ s[k] \in Message
             /\ s[k].type = "overrides" /\ s[k].iface = o[k] /\ s[k].sys = y
  <2>1. s[k] = Overrides(o[k], y) /\ o[k] \in Ifaces
    OBVIOUS
  <2>2. s[k] \in LportMsg
    BY <2>1 DEF Overrides, LportMsg
  <2>. QED
    BY <2>1, <2>2 DEF Overrides, Message
<1>2. s \in Seq(Message) /\ Len(s) = n
  BY <1>1
<1>3. \A j : j \notin M => Silent(s, j)
  BY <1>1, <1>2 DEF Silent, Affects
<1>4. \A j, f : f # "sys" => \A k \in 1..Len(s) : ~Affects(s[k], j, f)
  BY <1>1, <1>2 DEF Affects
<1>5. \A j : \A k \in 1..Len(s) : Affects(s[k], j, "sys") => Says(s[k], "sys") = y
  BY <1>1, <1>2 DEF Says
<1>6. \A j \in M : \E k \in 1..Len(s) : Affects(s[k], j, "sys")
  BY <1>1, <1>2 DEF Affects
<1>. QED
  BY <1>2, <1>3, <1>4, <1>5, <1>6 DEF TellsEach

\* A walk says so.
LEMMA OverridesToEach ==
    ASSUME NEW M, M \subseteq Ifaces, NEW o \in Orders(M), NEW y \in Systems
    PROVE  TellsEach(ToEach(o, LAMBDA i : Overrides(i, y)), M, "sys", y)
<1>. DEFINE n == Cardinality(M)
            s == [k \in 1..n |-> Overrides(o[k], y)]
<1>1. /\ n \in Nat /\ DOMAIN o = 1..n /\ \A k \in 1..n : o[k] \in M
      /\ \A j \in M : \E k \in 1..n : o[k] = j
  BY OrdersMeetAll
<1>2. o \in [1..n -> M]
  BY DEF Orders
<1>3. s = ToEach(o, LAMBDA i : Overrides(i, y))
  BY <1>1 DEF ToEach
<1>0. s = [k \in 1..n |-> Overrides(o[k], y)]
  OBVIOUS
<1>. HIDE DEF n, s
<1>4. TellsEach(s, M, "sys", y)
  BY <1>0, <1>1, <1>2, OverridesBlock
<1>. QED
  BY <1>3, <1>4

\* The same of fallback.
LEMMA FallbackBlock ==
    ASSUME NEW M, M \subseteq Ifaces, NEW n \in Nat, NEW o \in [1..n -> M],
           \A j \in M : \E k \in 1..n : o[k] = j,
           NEW b \in BOOLEAN, NEW s, s = [k \in 1..n |-> Fallback(o[k], b)]
    PROVE  TellsEach(s, M, "fallback", b)
<1>1. ASSUME NEW k \in 1..n
      PROVE  /\ s[k] = Fallback(o[k], b) /\ s[k] \in LportMsg /\ s[k] \in Message
             /\ s[k].type = "fallback" /\ s[k].iface = o[k] /\ s[k].on = b
  <2>1. s[k] = Fallback(o[k], b) /\ o[k] \in Ifaces
    OBVIOUS
  <2>2. s[k] \in LportMsg
    BY <2>1 DEF Fallback, LportMsg
  <2>. QED
    BY <2>1, <2>2 DEF Fallback, Message
<1>2. s \in Seq(Message) /\ Len(s) = n
  BY <1>1
<1>3. \A j : j \notin M => Silent(s, j)
  BY <1>1, <1>2 DEF Silent, Affects
<1>4. \A j, f : f # "fallback" => \A k \in 1..Len(s) : ~Affects(s[k], j, f)
  BY <1>1, <1>2 DEF Affects
<1>5. \A j : \A k \in 1..Len(s) : Affects(s[k], j, "fallback") => Says(s[k], "fallback") = b
  BY <1>1, <1>2 DEF Says
<1>6. \A j \in M : \E k \in 1..Len(s) : Affects(s[k], j, "fallback")
  BY <1>1, <1>2 DEF Affects
<1>. QED
  BY <1>2, <1>3, <1>4, <1>5, <1>6 DEF TellsEach

\* A walk says so.
LEMMA FallbackToEach ==
    ASSUME NEW M, M \subseteq Ifaces, NEW o \in Orders(M), NEW b \in BOOLEAN
    PROVE  TellsEach(ToEach(o, LAMBDA i : Fallback(i, b)), M, "fallback", b)
<1>. DEFINE n == Cardinality(M)
            s == [k \in 1..n |-> Fallback(o[k], b)]
<1>1. /\ n \in Nat /\ DOMAIN o = 1..n /\ \A k \in 1..n : o[k] \in M
      /\ \A j \in M : \E k \in 1..n : o[k] = j
  BY OrdersMeetAll
<1>2. o \in [1..n -> M]
  BY DEF Orders
<1>3. s = ToEach(o, LAMBDA i : Fallback(i, b))
  BY <1>1 DEF ToEach
<1>0. s = [k \in 1..n |-> Fallback(o[k], b)]
  OBVIOUS
<1>. HIDE DEF n, s
<1>4. TellsEach(s, M, "fallback", b)
  BY <1>0, <1>1, <1>2, FallbackBlock
<1>. QED
  BY <1>3, <1>4

\* Once the members that left are taken out, the LAG in hand is that of all its members.
LEMMA HandHome ==
    ASSUME TablesInv, task.at \in {"mode", "added", "eligible"}, NEW j \in ports[task.port].cfg
    PROVE  j \in Ifaces /\ task.port \in Lags /\ ifs[j].port = task.port
<1>1. task.port \in Lags /\ j \in Ifaces
  BY MemberTypes DEF TablesInv, MembersInv, PortSteps
<1>2. j \in rows[task.port].members
  BY DEF TablesInv, MembersInv, Underway, InHand
<1>3. ifs[j].port = task.port \/ j \in recent
  BY <1>1 DEF TablesInv, MembersInv, Belongs, Placed
<1>4. CASE j \in recent
  <2>1. ifs[j].port \in Lags /\ j \in rows[ifs[j].port].members
    BY <1>4 DEF TablesInv, MembersInv, Underway, RecentAreHome
  <2>. QED
    BY <1>1, <1>2, <2>1 DEF TablesInv, MembersInv, Belongs, RowsApart
<1>. QED
  BY <1>1, <1>3, <1>4

\* None of them runs when the mode changes.
LEMMA ModeIdle ==
    ASSUME SoundInv, task.at = "mode", task.members = {}, NEW j \in ports[task.port].cfg
    PROVE  ifs[j].enabled = FALSE
<1>1. j \in Ifaces /\ task.port \in Lags /\ ifs[j].port = task.port
  BY HandHome DEF SoundInv
<1>2. j \notin recent
  BY <1>1 DEF SoundInv, TablesInv, Tables, RecentAreDone
<1>3. ports[task.port].eligible = {}
  BY DEF SoundInv, TablesInv, Tables, Emptied
<1>4. ifs[j].enabled \in BOOLEAN
  BY <1>1, TypesNow DEF SoundInv, TablesInv, MembersInv, Iface
<1>. QED
  BY <1>1, <1>2, <1>3, <1>4, EnabledIsListed

\* What the mode's change says: of the system ids of the members, and of super ports.
LEMMA ModeSays ==
    ASSUME SoundInv, TurnOn \/ SwitchMode \/ TurnOff
    PROVE  \E s \in Seq(Message) :
              /\ queue' = queue \o s
              /\ \A j : j \notin ports[task.port].cfg => Silent(s, j)
              /\ \A j : \A k \in 1..Len(s) : ~Affects(s[k], j, "up")
<1>. DEFINE p == task.port
            M == ports[p].cfg
<1>0. /\ p \in Lags /\ ports[p] \in LagPort /\ M \subseteq Ifaces /\ ports[p].sys \in Systems
      /\ "default" \in Systems
      /\ queue \in Seq(Message) /\ lag_id[p] \in 0..MaxLagId /\ MaxLagId \in Nat
  <2>1. p \in Lags
    BY ModeTables DEF SoundInv
  <2>2. ports[p] \in LagPort /\ queue \in Seq(Message) /\ lag_id[p] \in 0..MaxLagId
    BY <2>1, TypesNow DEF SoundInv, TablesInv, MembersInv
  <2>. QED
    BY <2>1, <2>2, ConfigAssumption DEF LagPort
<1>1. CASE SwitchMode
  <2>1. UNCHANGED queue
    BY <1>1 DEF SwitchMode
  <2>. QED
    BY <2>1, NothingSaid
<1>2. ASSUME NEW o \in Orders(M), NEW y \in Systems, NEW id \in 0..MaxLagId,
             NEW t \in {"create", "params", "unparams", "delete"},
             NEW u \in {"create", "params", "unparams", "delete"},
             queue' = queue \o ToEach(o, LAMBDA i : Overrides(i, y))
                            \o (IF id = 0 THEN <<>> ELSE <<LagMsg(t, id, p), LagMsg(u, id, p)>>)
      PROVE  \E s \in Seq(Message) :
                /\ queue' = queue \o s
                /\ \A j : j \notin M => Silent(s, j)
                /\ \A j : \A k \in 1..Len(s) : ~Affects(s[k], j, "up")
  <2>. DEFINE a == ToEach(o, LAMBDA i : Overrides(i, y))
              m == LagMsg(t, id, p)
              n == LagMsg(u, id, p)
              b == IF id = 0 THEN <<>> ELSE <<m, n>>
  <2>1. TellsEach(a, M, "sys", y)
    BY <1>0, OverridesToEach
  <2>2. queue' = (queue \o a) \o b
    BY <1>2
  <2>3. b \in Seq(Message) /\ \A j, f : \A k \in 1..Len(b) : ~Affects(b[k], j, f)
    <3>1. CASE id = 0
      BY <3>1
    <3>2. CASE id # 0
      <4>1. id \in LagIds
        BY <1>0, <3>2 DEF LagIds
      <4>2. m \in Message /\ n \in Message
        BY <1>0, <4>1, LifeMsgs
      <4>3. \A j, f : ~Affects(m, j, f) /\ ~Affects(n, j, f)
        BY <1>0, <4>1, SportsSilent
      <4>4. b = <<m, n>>
        BY <3>2
      <4>. HIDE DEF m, n, b
      <4>5. b \in Seq(Message) /\ Len(b) = 2 /\ b[1] = m /\ b[2] = n
        BY <4>2, <4>4
      <4>. QED
        BY <4>3, <4>5
    <3>. QED
      BY <3>1, <3>2
  <2>. HIDE DEF a, b, p
  <2>4. a \in Seq(Message)
    BY <2>1 DEF TellsEach
  <2>5. queue' = queue \o (a \o b)
    BY <1>0, <2>2, <2>3, <2>4, Associative
  <2>6. /\ a \o b \in Seq(Message) /\ Len(a \o b) = Len(a) + Len(b)
        /\ \A k \in 1..Len(a \o b) : \/ k \in 1..Len(a) /\ (a \o b)[k] = a[k]
                                     \/ k - Len(a) \in 1..Len(b) /\ (a \o b)[k] = b[k - Len(a)]
    BY <2>3, <2>4
  <2>7. ASSUME NEW j, NEW f, f # "sys" \/ j \notin M, NEW k \in 1..Len(a \o b)
        PROVE  ~Affects((a \o b)[k], j, f)
    <3>1. \A x \in 1..Len(a) : ~Affects(a[x], j, f)
      BY <2>1, <2>7 DEF TellsEach, Silent
    <3>. QED
      BY <2>3, <2>6, <3>1
  <2>8. \A j : j \notin M => Silent(a \o b, j)
    BY <2>7 DEF Silent
  <2>9. \A j : \A k \in 1..Len(a \o b) : ~Affects((a \o b)[k], j, "up")
    BY <2>7
  <2>. QED
    BY <2>5, <2>6, <2>8, <2>9
<1>3. CASE TurnOn
  <2>. DEFINE id == alloc_lag_id
  <2>1. id \in 0..MaxLagId
    BY <1>0, AllocatesFree DEF LagIds
  <2>2. PICK o \in Orders(M) :
           queue' = queue \o ToEach(o, LAMBDA i : Overrides(i, ports[p].sys))
                          \o (IF id = 0 THEN <<>>
                              ELSE <<LagMsg("create", id, p), LagMsg("params", id, p)>>)
    BY <1>3 DEF TurnOn
  <2>. HIDE DEF id, p, M
  <2>3. \E s \in Seq(Message) :
                /\ queue' = queue \o s
                /\ \A j : j \notin M => Silent(s, j)
                /\ \A j : \A k \in 1..Len(s) : ~Affects(s[k], j, "up")
    BY <1>0, <1>2, <2>1, <2>2
  <2>. QED
    BY <2>3 DEF p, M
<1>4. CASE TurnOff
  <2>. DEFINE id == lag_id[p]
  <2>1. id \in 0..MaxLagId
    BY <1>0
  <2>2. PICK o \in Orders(M) :
           queue' = queue \o ToEach(o, LAMBDA i : Overrides(i, "default"))
                          \o (IF id = 0 THEN <<>>
                              ELSE <<LagMsg("unparams", id, p), LagMsg("delete", id, p)>>)
    BY <1>4 DEF TurnOff
  <2>. HIDE DEF id, p, M
  <2>3. \E s \in Seq(Message) :
                /\ queue' = queue \o s
                /\ \A j : j \notin M => Silent(s, j)
                /\ \A j : \A k \in 1..Len(s) : ~Affects(s[k], j, "up")
    BY <1>0, <1>2, <2>1, <2>2
  <2>. QED
    BY <2>3 DEF p, M
<1>. QED
  BY <1>1, <1>3, <1>4

\* The mode changes while nobody runs in the LAG.
LEMMA ModeSound ==
    ASSUME SoundInv, TablesInv', TurnOn \/ SwitchMode \/ TurnOff PROVE AllSound'
<1>. DEFINE p == task.port
<1>1. /\ p \in Lags /\ ports[p].eligible = {} /\ task.at = "mode"
      /\ ports' = [ports EXCEPT ![p].mode = rows[p].lacp]
  BY ModeTables DEF SoundInv
<1>2. task.members = {} /\ UNCHANGED <<hw, ifs, lports, call>>
  BY DEF TurnOn, SwitchMode, TurnOff, proto
<1>3. PICK s \in Seq(Message) :
              /\ queue' = queue \o s
              /\ \A j : j \notin ports[p].cfg => Silent(s, j)
              /\ \A j : \A k \in 1..Len(s) : ~Affects(s[k], j, "up")
  BY ModeSays
<1>4. ports \in [Lags -> LagPort]
  BY TypesNow DEF SoundInv, TablesInv, MembersInv
<1>. HIDE DEF p
<1>5. ASSUME NEW q \in Lags
      PROVE  /\ ports'[q].eligible = ports[q].eligible /\ ports'[q].sys = ports[q].sys
             /\ ports'[q].fallback = ports[q].fallback
             /\ q # p => ports'[q] = ports[q]
  BY <1>1, <1>4 DEF LagPort
<1>6. ASSUME NEW j \in Ifaces PROVE Sound(State', lports'[j], call', j)
  <2>1. /\ \A q \in Lags : j \in ports'[q].eligible <=> j \in ports[q].eligible
        /\ \A q \in Lags : j \in ports[q].eligible =>
              ports'[q].mode = ports[q].mode /\ ports'[q].fallback = ports[q].fallback
    BY <1>1, <1>5
  <2>2. /\ ifs'[j] = ifs[j] /\ hw'[j] = hw[j] /\ UNCHANGED <<lports, call>>
    BY <1>2
  <2>3. CASE j \in ports[p].cfg
    <3>1. ifs[j].enabled = FALSE
      BY <1>1, <1>2, <2>3, ModeIdle DEF p
    <3>2. ifs'[j].eligible = ifs[j].eligible /\ ifs'[j].enabled = FALSE
      BY <2>2, <3>1
    <3>. QED
      BY <1>3, <2>1, <2>2, <3>1, <3>2, IdleSound
  <2>4. CASE j \notin ports[p].cfg
    <3>1. Silent(s, j)
      BY <1>3, <2>4
    <3>2. ifs[j].enabled /\ ifs[j].port \in Lags =>
              ports'[ifs[j].port].sys = ports[ifs[j].port].sys
      BY <1>5
    <3>. QED
      BY <1>3, <2>1, <2>2, <3>1, <3>2, AsideSound
  <2>. QED
    BY <2>3, <2>4
<1>. QED
  BY <1>6 DEF AllSound

\* update_interface_lag_eligibility is sound for a member of its LAG.
LEMMA UpdateSound ==
    ASSUME NEW S \in CState, NEW i \in Ifaces, lag_id \in [Lags -> 0..MaxLagId],
           S.ifs[i].port \in Lags => i \in S.ports[S.ifs[i].port].cfg /\ S.ifs[i].key # NoLag,
           NEW l, IsLport(l), NEW c, Sound(S, l, c, i),
           NEW T, T = update_interface_lag_eligibility(S, i)
    PROVE  Sound(T, l, c, i)
<1>1. S.ifs[i].port \in Lags \cup {NoLag} /\ S.ifs[i].eligible \in BOOLEAN
  BY DEF CState, Iface
<1>2. CASE S.ifs[i].port = NoLag
  <2>1. T = S
    BY <1>2 DEF update_interface_lag_eligibility
  <2>. QED
    BY <2>1
<1>3. CASE S.ifs[i].port \in Lags
  <2>1. PICK p \in Lags : p = S.ifs[i].port
    BY <1>3
  <2>2. PICK e \in BOOLEAN : IF e # (i \in S.ports[p].eligible) /\ e # S.ifs[i].eligible
                             THEN Settled(S, T, p, i, e) ELSE Calm(S, T)
    BY <2>1, UpdateEligibilityDoes
  <2>3. CASE Settled(S, T, p, i, e) /\ e # (i \in S.ports[p].eligible) /\ e # S.ifs[i].eligible
    <3>1. IF e THEN S.ifs[i].port = p ELSE i \in S.ports[p].eligible
      BY <2>1, <2>3
    <3>2. i \in S.ports[p].cfg
      BY <2>1
    <3>. QED
      BY <2>3, <3>1, <3>2, SoundSettled
  <2>4. CASE Calm(S, T)
    BY <2>4, SoundCalm
  <2>. QED
    BY <2>2, <2>3, <2>4
<1>. QED
  BY <1>1, <1>2, <1>3

\* A step that only does something to one interface.
LEMMA OneSound ==
    ASSUME SoundInv, NEW i \in Ifaces, Elsewhere(State, State', i), UNCHANGED <<lports, call>>,
           Sound(State', lports[i], call, i)
    PROVE  AllSound'
<1>1. ASSUME NEW j \in Ifaces PROVE Sound(State', lports'[j], call', j)
  <2>1. CASE j = i
    BY <2>1
  <2>2. CASE j # i
    <3>1. Sound(State, lports[j], call, j)
      BY DEF SoundInv, AllSound
    <3>2. Sound(State', lports[j], call, j)
      BY <2>2, <3>1, SoundElsewhere
    <3>. QED
      BY <3>2
  <2>. QED
    BY <2>1, <2>2
<1>. QED
  BY <1>1 DEF AllSound

\* A member of p that is eligible is so in p, and is made ineligible soundly.
LEMMA ClearSound ==
    ASSUME SoundInv, NEW p \in Lags, NEW i \in ports[p].cfg, i \in Ifaces,
           ifs[i].eligible => i \in ports[p].eligible,
           NEW T, T = set_interface_lag_eligibility(State, p, i, FALSE)
    PROVE  Sound(T, lports[i], call, i) /\ T.ifs[i].eligible = FALSE
<1>1. State \in CState /\ State.ifs = ifs /\ State.ports = ports /\ ifs[i].eligible \in BOOLEAN
  BY TypesNow DEF SoundInv, TablesInv, MembersInv, State, Iface
<1>2. IF FALSE = ifs[i].eligible THEN T = State ELSE Settled(State, T, p, i, FALSE)
  BY <1>1, SetEligibilityDoes
<1>3. Sound(State, lports[i], call, i) /\ IsLport(lports[i])
  BY DEF SoundInv, AllSound, LportInv
<1>4. CASE ifs[i].eligible = FALSE
  BY <1>1, <1>2, <1>3, <1>4
<1>5. CASE ifs[i].eligible = TRUE
  <2>1. Settled(State, T, p, i, FALSE)
    BY <1>2, <1>5
  <2>2. Sound(T, lports[i], call, i)
    BY <1>1, <1>3, <1>5, <2>1, SoundSettled
  <2>3. T.ifs[i].eligible = FALSE
    BY <2>1 DEF Settled, Marked
  <2>. QED
    BY <2>2, <2>3
<1>. QED
  BY <1>1, <1>4, <1>5

\* The members are made ineligible before the mode changes.
LEMMA IneligibleSound ==
    ASSUME SoundInv, NEW i \in Ifaces, MakeIneligible(i) PROVE AllSound'
<1>1. /\ State' = set_interface_lag_eligibility(State, task.port, i, FALSE)
      /\ Elsewhere(State, State', i) /\ UNCHANGED <<lports, call>>
  BY IneligibleTables DEF SoundInv, MakeIneligible, proto
<1>2. task.port \in Lags /\ i \in ports[task.port].eligible
  <2>1. task.at = "mode" /\ i \in task.members /\ task.port \in Lags
    BY MemberHand DEF SoundInv, TablesInv, HandStep
  <2>. QED
    BY <2>1 DEF SoundInv, TablesInv, MembersInv, Underway, InHand
<1>3. i \in ports[task.port].cfg
  BY <1>2 DEF SoundInv, TablesInv, MembersInv, Belongs, Listed
<1>4. Sound(State', lports[i], call, i)
  BY <1>1, <1>2, <1>3, ClearSound
<1>. QED
  BY <1>1, <1>4, OneSound

\* One that is not eligible does not run.
LEMMA IneligibleIsIdle ==
    ASSUME NEW S \in CState, NEW i \in Ifaces, NEW l, NEW c, Sound(S, l, c, i),
           S.ifs[i].eligible = FALSE
    PROVE  S.ifs[i].enabled = FALSE
<1>1. S.ifs[i].enabled \in BOOLEAN
  BY DEF CState, Iface
<1>2. \A q \in Lags : ~RunsIn(S, i, q)
  BY DEF Sound, ListedOnce, RunsIn
<1>. QED
  BY <1>1, <1>2 DEF Sound, EnabledRuns

\* A member that leaves is told to stop, and forgotten or taken over by its new LAG.
LEMMA RemoveSound ==
    ASSUME SoundInv, NEW i \in Ifaces, RemoveMember(i) PROVE AllSound'
<1>. DEFINE p == task.port
<1>1. /\ State' = ListWithout(Kept(i), p, i) /\ UNCHANGED <<lports, call>>
  BY RemoveTables DEF SoundInv, RemoveMember, proto
<1>2. p \in Lags /\ i \in ports[p].cfg
  <2>1. task.at = "removed" /\ i \in task.members /\ task.port \in Lags
    BY MemberHand DEF SoundInv, TablesInv, HandStep
  <2>. QED
    BY <2>1 DEF SoundInv, TablesInv, MembersInv, Underway, InHand
<1>3. ifs[i].eligible => i \in ports[p].eligible
  <2>1. CASE i \in recent
    BY <2>1, TakenOverTo DEF SoundInv, TablesInv
  <2>2. CASE i \notin recent
    BY <1>2, <2>2 DEF SoundInv, TablesInv, MembersInv, Belongs, Listed, Placed
  <2>. QED
    BY <2>1, <2>2
<1>. HIDE DEF p
<1>4. /\ Cleared(i) \in CState /\ Elsewhere(State, Cleared(i), i)
      /\ SameEntry(ifs[i], Cleared(i).ifs[i])
  BY <1>2, ClearedEntry DEF SoundInv, p
<1>5. Sound(Cleared(i), lports[i], call, i) /\ Cleared(i).ifs[i].eligible = FALSE
  BY <1>2, <1>3, ClearSound DEF Cleared, p
<1>6. IsLport(lports[i]) /\ lag_id \in [Lags -> 0..MaxLagId]
  BY TypesNow DEF SoundInv, LportInv, TablesInv, MembersInv
<1>7. Kept(i) \in CState /\ Elsewhere(State, Kept(i), i)
  BY <1>2, KeptEntry DEF SoundInv, p
<1>8. Sound(Kept(i), lports[i], call, i)
  <2>1. CASE i \in recent
    <3>1. Kept(i) = update_interface_lag_eligibility(Cleared(i), i)
      BY <2>1 DEF Kept
    <3>2. Cleared(i).ifs[i].port = ifs[i].port /\ Cleared(i).ifs[i].key = ifs[i].key
      BY <1>4 DEF SameEntry
    <3>3. \A q \in Lags : Cleared(i).ports[q].cfg = ports[q].cfg
      BY <1>4 DEF Elsewhere, SameLags, State
    <3>4. ifs[i].port \in Lags => i \in ports[ifs[i].port].cfg /\ ifs[i].key # NoLag
      BY MemberHasKey DEF SoundInv
    <3>. QED
      BY <1>4, <1>5, <1>6, <3>1, <3>2, <3>3, <3>4, UpdateSound
  <2>2. CASE i \notin recent
    <3>. DEFINE m == Overrides(i, "default")
    <3>1. Kept(i) = Dropped(i)
      BY <2>2 DEF Kept
    <3>2. /\ Dropped(i) \in CState /\ Dropped(i).ports = Cleared(i).ports
          /\ Dropped(i).queue = Cleared(i).queue \o <<m>>
          /\ Dropped(i).ifs[i] = [Cleared(i).ifs[i] EXCEPT !.port = NoLag]
      BY <1>2, DroppedEntry DEF SoundInv, p
    <3>3. Cleared(i).ifs[i].enabled = FALSE
      BY <1>4, <1>5, IneligibleIsIdle
    <3>4. /\ Dropped(i).ifs[i].enabled = FALSE
          /\ Dropped(i).ifs[i].eligible = Cleared(i).ifs[i].eligible
      BY <1>4, <3>2, <3>3 DEF CState, Iface
    <3>5. m \in LportMsg /\ m \in Message /\ m.type = "overrides"
      BY ConfigAssumption DEF Overrides, LportMsg, Message
    <3>. HIDE DEF m
    <3>6. <<m>> \in Seq(Message) /\ Len(<<m>>) = 1 /\ <<m>>[1] = m
      BY <3>5
    <3>7. \A k \in 1..Len(<<m>>) : ~Affects(<<m>>[k], i, "up")
      BY <3>5, <3>6 DEF Affects
    <3>8. Sound(Dropped(i), lports[i], call, i)
      BY <1>4, <1>5, <1>6, <3>2, <3>3, <3>4, <3>6, <3>7, SoundIdle
    <3>. QED
      BY <3>1, <3>8
  <2>. QED
    BY <2>1, <2>2
<1>9. ASSUME NEW j \in Ifaces PROVE Sound(Kept(i), lports[j], call, j)
  <2>1. CASE j = i
    BY <1>8, <2>1
  <2>2. CASE j # i
    <3>1. Sound(State, lports[j], call, j)
      BY DEF SoundInv, AllSound
    <3>. QED
      BY <1>7, <2>2, <3>1, SoundElsewhere
  <2>. QED
    BY <2>1, <2>2
<1>. DEFINE K == Kept(i)
            L == ListWithout(K, p, i)
<1>10. /\ L \in CState /\ L.ifs = K.ifs /\ L.hw = K.hw /\ L.queue = K.queue
       /\ \A q \in Lags : \E c \in SUBSET K.ports[q].cfg : L.ports[q] = [K.ports[q] EXCEPT !.cfg = c]
  BY <1>2, <1>7, ListEntry
<1>. HIDE DEF K, L
<1>11. K \in CState /\ \A j \in Ifaces : Sound(K, lports[j], call, j)
  BY <1>7, <1>9 DEF K
<1>12. ASSUME NEW q \in Lags
       PROVE  /\ L.ports[q].eligible = K.ports[q].eligible /\ L.ports[q].mode = K.ports[q].mode
              /\ L.ports[q].sys = K.ports[q].sys /\ L.ports[q].fallback = K.ports[q].fallback
  <2>1. PICK c \in SUBSET K.ports[q].cfg : L.ports[q] = [K.ports[q] EXCEPT !.cfg = c]
    BY <1>10
  <2>2. K.ports[q] \in LagPort
    BY <1>11 DEF CState
  <2>. QED
    BY <2>1, <2>2, ListOnly
<1>13. ASSUME NEW j \in Ifaces PROVE Sound(L, lports[j], call, j)
  <2>1. L.ifs[j] = K.ifs[j] /\ L.hw[j] = K.hw[j] /\ L.queue = K.queue
    BY <1>10
  <2>2. Sound(K, lports[j], call, j)
    BY <1>11
  <2>. QED
    BY <1>10, <1>11, <1>12, <2>1, <2>2, SoundUnsaid
<1>14. State' = L
  BY <1>1 DEF K, L
<1>15. ASSUME NEW j \in Ifaces PROVE Sound(State', lports'[j], call', j)
  BY <1>1, <1>13, <1>14
<1>. QED
  BY <1>15 DEF AllSound

\* A running interface that is entered in another LAG is told that LAG's system id.
LEMMA MoverSound ==
    ASSUME NEW S \in CState, NEW T \in CState, NEW i \in Ifaces, NEW p \in Lags,
           \A q \in Lags : /\ T.ports[q].eligible = S.ports[q].eligible
                           /\ T.ports[q].mode = S.ports[q].mode /\ T.ports[q].sys = S.ports[q].sys
                           /\ T.ports[q].fallback = S.ports[q].fallback,
           T.ifs[i] = [S.ifs[i] EXCEPT !.port = p], T.hw[i] = S.hw[i],
           i \notin S.ports[p].eligible,
           T.queue = S.queue \o <<Overrides(i, S.ports[p].sys)>>,
           NEW l, NEW c, Sound(S, l, c, i)
    PROVE  Sound(T, l, c, i)
<1>. DEFINE m == Overrides(i, S.ports[p].sys)
<1>1. S.queue \in Seq(Message) /\ S.ifs[i] \in Iface /\ S.ports[p].sys \in Systems
  BY QueueTyped DEF CState, LagPort
<1>2. /\ m \in LportMsg /\ m \in Message /\ m.type = "overrides" /\ m.iface = i
      /\ m.sys = S.ports[p].sys
  BY <1>1 DEF Overrides, LportMsg, Message
<1>3. T.queue = S.queue \o <<m>>
  OBVIOUS
<1>. HIDE DEF m
<1>4. (\A f : f # "sys" => ~Affects(m, i, f)) /\ Affects(m, i, "sys") /\ Says(m, "sys") = S.ports[p].sys
  BY <1>2 DEF Affects, Says
<1>5. ASSUME NEW f, NEW v, f # "sys", LastWord(S.queue, l, i, f, v)
      PROVE  LastWord(T.queue, l, i, f, v)
  BY <1>1, <1>2, <1>3, <1>4, <1>5, OneMoreWord
<1>6. LastWord(T.queue, l, i, "sys", S.ports[p].sys)
  BY <1>1, <1>2, <1>3, <1>4, OneMoreWord
<1>7. /\ T.ifs[i].port = p /\ T.ifs[i].enabled = S.ifs[i].enabled /\ T.ifs[i].key = S.ifs[i].key
      /\ T.ifs[i].active = S.ifs[i].active /\ T.ifs[i].fast = S.ifs[i].fast
      /\ T.ifs[i].link = S.ifs[i].link /\ T.ifs[i].eligible = S.ifs[i].eligible
  BY <1>1 DEF Iface
<1>8. \A q \in Lags : RunsIn(T, i, q) <=> RunsIn(S, i, q)
  BY DEF RunsIn, IsDynamic
<1>9. ListedOnce(T, i)
  BY <1>7 DEF Sound, ListedOnce
<1>10. EnabledRuns(T, i)
  BY <1>7, <1>8 DEF Sound, EnabledRuns
<1>11. Told(T, l, i)
  BY <1>5, <1>6, <1>7 DEF Sound, Told
<1>12. FallbackTold(T, l, i)
  <2>1. \/ ~S.ifs[i].enabled
        \/ LastWord(S.queue, l, i, "fallback", FALSE)
        \/ /\ LastWord(S.queue, l, i, "fallback", TRUE)
           /\ \E q \in Lags : RunsIn(S, i, q)
    BY DEF Sound, FallbackTold
  <2>2. \A q \in Lags : RunsIn(S, i, q) => q # p
    BY DEF RunsIn
  <2>3. ASSUME NEW q \in Lags, RunsIn(S, i, q) PROVE RunsIn(T, i, q) /\ T.ifs[i].port # q
    BY <1>7, <1>8, <2>2, <2>3
  <2>4. CASE LastWord(S.queue, l, i, "fallback", FALSE)
    BY <1>5, <2>4 DEF FallbackTold
  <2>5. CASE LastWord(S.queue, l, i, "fallback", TRUE) /\ \E q \in Lags : RunsIn(S, i, q)
    <3>1. LastWord(T.queue, l, i, "fallback", TRUE)
      BY <1>5, <2>5
    <3>2. \E q \in Lags : RunsIn(T, i, q) /\ (T.ports[q].fallback \/ T.ifs[i].port # q)
      BY <2>3, <2>5
    <3>. QED
      BY <3>1, <3>2 DEF FallbackTold
  <2>6. CASE ~S.ifs[i].enabled
    BY <1>7, <2>6 DEF FallbackTold
  <2>. QED
    BY <2>1, <2>4, <2>5, <2>6
<1>13. Served(T, l, c, i)
  <2>0. <<m>> \in Seq(Message)
    BY <1>2
  <2>1. ResetPends(S.queue, i) => ResetPends(T.queue, i)
    BY <1>1, <1>3, <2>0, ResetStillPends
  <2>. QED
    BY <2>1 DEF Sound, Served
<1>. QED
  BY <1>9, <1>10, <1>11, <1>12, <1>13 DEF Sound

\* A member that joins.
LEMMA AddSound ==
    ASSUME SoundInv, TablesInv', NEW i \in Ifaces, AddMember(i) PROVE AllSound'
<1>. DEFINE p == task.port
            m == Overrides(i, ports[p].sys)
            g == [ifs[i] EXCEPT !.port = p]
<1>1. /\ ports' = [ports EXCEPT ![p].cfg = @ \cup {i}] /\ ifs' = [ifs EXCEPT ![i] = g]
      /\ queue' = Append(queue, m) /\ UNCHANGED <<hw, lports, call>>
  BY DEF AddMember, proto
<1>2. /\ p \in Lags /\ i \notin ports[p].cfg
  <2>1. task.at = "added" /\ i \in task.members /\ task.port \in Lags
    BY MemberHand DEF SoundInv, TablesInv, HandStep
  <2>. QED
    BY <2>1 DEF SoundInv, TablesInv, MembersInv, Underway, InHand
<1>3. /\ State \in CState /\ ports \in [Lags -> LagPort] /\ ifs \in [Ifaces -> Iface]
      /\ queue \in Seq(Message)
  BY TypesNow DEF SoundInv, TablesInv, MembersInv
<1>4. State' \in CState
  BY DEF TablesInv, MembersInv, QueueInv, Typed, TypedCache
<1>5. m \in LportMsg /\ m \in Message /\ m.iface = i
  <2>1. ports[p].sys \in Systems
    BY <1>2, <1>3 DEF LagPort
  <2>. QED
    BY <2>1 DEF Overrides, LportMsg, Message
<1>6. i \notin ports[p].eligible
  BY <1>2 DEF SoundInv, TablesInv, MembersInv, Belongs, Listed
<1>. HIDE DEF p
<1>7. ASSUME NEW q \in Lags
      PROVE  /\ ports'[q].eligible = ports[q].eligible /\ ports'[q].mode = ports[q].mode
             /\ ports'[q].sys = ports[q].sys /\ ports'[q].fallback = ports[q].fallback
  BY <1>1, <1>2, <1>3 DEF LagPort
<1>8. queue' = queue \o <<m>> /\ <<m>> \in Seq(Message) /\ Len(<<m>>) = 1 /\ <<m>>[1] = m
  <2>. HIDE DEF m
  <2>. QED
    BY <1>1, <1>3, <1>5
<1>9. ASSUME NEW j \in Ifaces, j # i PROVE Sound(State', lports'[j], call', j)
  <2>1. Silent(<<m>>, j)
    <3>. HIDE DEF m
    <3>. QED
      BY <1>5, <1>8, <1>9 DEF Silent, Affects
  <2>2. ifs'[j] = ifs[j] /\ hw'[j] = hw[j] /\ UNCHANGED <<lports, call>>
    BY <1>1, <1>3, <1>9
  <2>3. /\ \A q \in Lags : j \in ports'[q].eligible <=> j \in ports[q].eligible
        /\ \A q \in Lags : j \in ports[q].eligible =>
              ports'[q].mode = ports[q].mode /\ ports'[q].fallback = ports[q].fallback
        /\ ifs[j].enabled /\ ifs[j].port \in Lags =>
              ports'[ifs[j].port].sys = ports[ifs[j].port].sys
    BY <1>7
  <2>. HIDE DEF m
  <2>. QED
    BY <1>8, <2>1, <2>2, <2>3, AsideSound
<1>10. Sound(State', lports[i], call, i)
  <2>1. ifs'[i] = [ifs[i] EXCEPT !.port = p] /\ hw'[i] = hw[i]
    BY <1>1, <1>3
  <2>2. /\ State.ports = ports /\ State.ifs = ifs /\ State.hw = hw /\ State.queue = queue
        /\ State'.ports = ports' /\ State'.ifs = ifs' /\ State'.hw = hw' /\ State'.queue = queue'
    BY DEF State
  <2>3. Sound(State, lports[i], call, i)
    BY DEF SoundInv, AllSound
  <2>. QED
    BY <1>2, <1>3, <1>4, <1>6, <1>7, <1>8, <2>1, <2>2, <2>3, MoverSound
<1>11. Sound(State', lports'[i], call', i)
  BY <1>1, <1>10
<1>. QED
  BY <1>9, <1>11 DEF AllSound

\* A change of the rate and the link of interface i that it is told is sound.
LEMMA RetoldSound ==
    ASSUME NEW S \in CState, NEW T \in CState, NEW i \in Ifaces,
           \A q \in Lags : /\ T.ports[q].eligible = S.ports[q].eligible
                           /\ T.ports[q].mode = S.ports[q].mode /\ T.ports[q].sys = S.ports[q].sys
                           /\ T.ports[q].fallback = S.ports[q].fallback,
           T.hw[i] = S.hw[i], T.ifs[i].port = S.ifs[i].port,
           T.ifs[i].enabled = S.ifs[i].enabled, T.ifs[i].active = S.ifs[i].active,
           T.ifs[i].eligible = S.ifs[i].eligible, T.ifs[i].key = S.ifs[i].key,
           NEW s \in Seq(Message), T.queue = S.queue \o s, NEW l, NEW c, Sound(S, l, c, i),
           S.ifs[i].enabled =>
               /\ \A k \in 1..Len(s) : \A f : f \notin {"fast", "link"} => ~Affects(s[k], i, f)
               /\ LastWord(T.queue, l, i, "fast", T.ifs[i].fast)
               /\ LastWord(T.queue, l, i, "link", T.ifs[i].link),
           S.ifs[i].enabled = FALSE =>
               \A k \in 1..Len(s) : Affects(s[k], i, "up") => Says(s[k], "up") = FALSE
    PROVE  Sound(T, l, c, i)
<1>1. S.queue \in Seq(Message) /\ S.ifs[i].enabled \in BOOLEAN
  BY QueueTyped DEF CState, Iface
<1>2. \A q \in Lags : RunsIn(T, i, q) <=> RunsIn(S, i, q)
  BY DEF RunsIn, IsDynamic
<1>3. ListedOnce(T, i)
  BY DEF Sound, ListedOnce
<1>4. EnabledRuns(T, i)
  BY <1>2 DEF Sound, EnabledRuns
<1>5. Served(T, l, c, i)
  <2>1. ResetPends(S.queue, i) => ResetPends(T.queue, i)
    BY <1>1, ResetStillPends
  <2>. QED
    BY <2>1 DEF Sound, Served
<1>6. CASE S.ifs[i].enabled = FALSE
  <2>1. LastWord(S.queue, l, i, "up", FALSE)
    BY <1>6 DEF Sound, Told
  <2>2. LastWord(T.queue, l, i, "up", FALSE)
    BY <1>1, <1>6, <2>1, MoreWords
  <2>3. Told(T, l, i) /\ FallbackTold(T, l, i)
    BY <1>6, <2>2 DEF Told, FallbackTold
  <2>. QED
    BY <1>3, <1>4, <1>5, <2>3 DEF Sound
<1>7. CASE S.ifs[i].enabled = TRUE
  <2>1. ASSUME NEW f, NEW v, f \notin {"fast", "link"}, LastWord(S.queue, l, i, f, v)
        PROVE  LastWord(T.queue, l, i, f, v)
    <3>1. \A k \in 1..Len(s) : ~Affects(s[k], i, f)
      BY <1>7, <2>1
    <3>. QED
      BY <1>1, <2>1, <3>1, MoreWords
  <2>2. /\ LastWord(S.queue, l, i, "up", TRUE) /\ LastWord(S.queue, l, i, "key", S.ifs[i].key)
        /\ LastWord(S.queue, l, i, "active", S.ifs[i].active) /\ S.ifs[i].port \in Lags
        /\ LastWord(S.queue, l, i, "sys", S.ports[S.ifs[i].port].sys)
    BY <1>7 DEF Sound, Told
  <2>3. /\ LastWord(T.queue, l, i, "up", TRUE) /\ LastWord(T.queue, l, i, "key", S.ifs[i].key)
        /\ LastWord(T.queue, l, i, "active", S.ifs[i].active)
        /\ LastWord(T.queue, l, i, "sys", S.ports[S.ifs[i].port].sys)
    BY <2>1, <2>2
  <2>4. Told(T, l, i)
    BY <1>7, <2>2, <2>3 DEF Told
  <2>5. FallbackTold(T, l, i)
    <3>1. \/ LastWord(S.queue, l, i, "fallback", FALSE)
          \/ /\ LastWord(S.queue, l, i, "fallback", TRUE)
             /\ \E q \in Lags : RunsIn(S, i, q) /\ (S.ports[q].fallback \/ S.ifs[i].port # q)
      BY <1>7 DEF Sound, FallbackTold
    <3>2. CASE LastWord(S.queue, l, i, "fallback", FALSE)
      BY <2>1, <3>2 DEF FallbackTold
    <3>3. CASE /\ LastWord(S.queue, l, i, "fallback", TRUE)
               /\ \E q \in Lags : RunsIn(S, i, q) /\ (S.ports[q].fallback \/ S.ifs[i].port # q)
      <4>1. LastWord(T.queue, l, i, "fallback", TRUE)
        BY <2>1, <3>3
      <4>2. \E q \in Lags : RunsIn(T, i, q) /\ (T.ports[q].fallback \/ T.ifs[i].port # q)
        BY <1>2, <3>3
      <4>. QED
        BY <4>1, <4>2 DEF FallbackTold
    <3>. QED
      BY <3>1, <3>2, <3>3
  <2>. QED
    BY <1>3, <1>4, <1>5, <2>4, <2>5 DEF Sound
<1>. QED
  BY <1>1, <1>6, <1>7

\* Message m gives the link of i the value v, and does nothing else.
TellsLink(m, i, v) ==
    /\ m \in LportMsg /\ m \in Message /\ m.iface = i
    /\ \A g : Affects(m, i, g) <=> g = "link"
    /\ Says(m, "link") = v

\* It does.
LEMMA LinkTells ==
    ASSUME NEW f \in Iface, NEW i \in Ifaces PROVE TellsLink(LinkChange(f, i), i, f.link)
<1>. DEFINE m == LinkChange(f, i)
<1>1. m \in LportMsg /\ m.type = "link" /\ m.iface = i /\ m.link = f.link
  BY DEF LinkChange, LportMsg, Iface
<1>. HIDE DEF m
<1>2. (\A g : Affects(m, i, g) <=> g = "link") /\ Says(m, "link") = f.link
  BY <1>1 DEF Affects, Says
<1>. QED
  BY <1>1, <1>2 DEF TellsLink, Message, m

\* Message n gives the rate of i the value v if i is enabled, and stops i otherwise.
TellsRate(n, i, enabled, v) ==
    /\ n \in LportMsg /\ n \in Message /\ n.iface = i
    /\ Affects(n, i, "fast") /\ (enabled => Says(n, "fast") = v)
    /\ \A g : enabled /\ g # "fast" => ~Affects(n, i, g)
    /\ Affects(n, i, "up") => Says(n, "up") = FALSE

\* It does.
LEMMA RateTells ==
    ASSUME NEW f \in Iface, NEW i \in Ifaces
    PROVE  TellsRate(LportChange(f, i), i, f.enabled, f.fast)
<1>. DEFINE n == LportChange(f, i)
<1>1. f.enabled \in BOOLEAN /\ f.fast \in BOOLEAN
  BY DEF Iface
<1>2. n \in LportMsg /\ n.type = "update" /\ n.iface = i /\ n.enabled = f.enabled /\ n.fast = f.fast
  BY <1>1 DEF LportChange, LportMsg
<1>. HIDE DEF n
<1>3. /\ Affects(n, i, "fast") /\ (f.enabled => Says(n, "fast") = f.fast)
      /\ \A g : f.enabled /\ g # "fast" => ~Affects(n, i, g)
  BY <1>1, <1>2 DEF Affects, Says
<1>4. Affects(n, i, "up") => Says(n, "up") = FALSE
  BY <1>1, <1>2 DEF Affects, Says, NoLport
<1>. QED
  BY <1>2, <1>3, <1>4 DEF TellsRate, Message, n

\* A member is told of a change of mode or rate.
LEMMA UpdatedSound ==
    ASSUME SoundInv, NEW i \in Ifaces, task.at = "eligible", task.port \in Lags,
           i \in ports[task.port].cfg
    PROVE  Sound(Updated(i), lports[i], call, i)
<1>. DEFINE U == Updated(i)
            p == task.port
<1>0. /\ State \in CState /\ State.ports = ports /\ State.ifs = ifs /\ State.hw = hw
      /\ State.queue = queue /\ queue \in Seq(Message)
  BY TypesNow DEF SoundInv, TablesInv, MembersInv, State
<1>1. Sound(State, lports[i], call, i) /\ ifs[i].port = p
  BY HandHome DEF SoundInv, AllSound
<1>2. /\ U \in CState /\ U.ports = ports /\ U.hw = hw /\ SameEntry(ifs[i], U.ifs[i])
      /\ U.ifs[i].enabled = ifs[i].enabled /\ U.ifs[i].active = ifs[i].active
      /\ U.ifs[i].eligible = ifs[i].eligible
  BY UpdatedEntry DEF SoundInv
<1>3. /\ task.switched => U.ifs = ifs /\ U.queue = queue \o <<ConfigLport(U, i)>>
      /\ ~task.switched /\ task.timed => U.queue = queue \o <<LportChange(U.ifs[i], i)>>
      /\ ~task.switched /\ ~task.timed => U = State
  BY UpdatedEntry DEF SoundInv
<1>. HIDE DEF U
<1>4. CASE task.switched
  <2>1. IsDynamic(ports[p])
    BY <1>4 DEF SoundInv, TablesInv, Tables, Emptied
  <2>2. Told(U, lports[i], i) /\ FallbackTold(U, lports[i], i) /\ ResetPends(U.queue, i)
    <3>1. U.ifs[i].enabled => U.ifs[i].port \in Lags /\ IsDynamic(U.ports[U.ifs[i].port])
      BY <1>1, <1>2, <1>3, <1>4, <2>1
    <3>2. U.queue = State.queue \o <<ConfigLport(U, i)>>
      BY <1>0, <1>3, <1>4
    <3>. QED
      BY <1>0, <1>2, <3>1, <3>2, ConfigTells
  <2>3. ListedOnce(U, i) /\ EnabledRuns(U, i)
    <3>1. \A q \in Lags : RunsIn(U, i, q) <=> RunsIn(State, i, q)
      BY <1>0, <1>2 DEF RunsIn
    <3>2. ListedOnce(U, i)
      BY <1>0, <1>1, <1>2 DEF Sound, ListedOnce
    <3>3. EnabledRuns(U, i)
      BY <1>0, <1>1, <1>2, <3>1 DEF Sound, EnabledRuns
    <3>. QED
      BY <3>2, <3>3
  <2>4. Served(U, lports[i], call, i)
    BY <2>2 DEF Served
  <2>. QED
    BY <2>2, <2>3, <2>4 DEF Sound, U
<1>5. CASE ~task.switched /\ task.timed
  <2>. DEFINE n == LportChange(U.ifs[i], i)
  <2>1. U.queue = queue \o <<n>> /\ U.ifs[i] \in Iface
    BY <1>2, <1>3, <1>5 DEF CState
  <2>0. TellsRate(n, i, U.ifs[i].enabled, U.ifs[i].fast)
    BY <2>1, RateTells
  <2>. HIDE DEF n
  <2>2. /\ n \in Message
        /\ Affects(n, i, "fast") /\ (U.ifs[i].enabled => Says(n, "fast") = U.ifs[i].fast)
        /\ \A g : U.ifs[i].enabled /\ g # "fast" => ~Affects(n, i, g)
        /\ Affects(n, i, "up") => Says(n, "up") = FALSE
    BY <2>0 DEF TellsRate
  <2>3. <<n>> \in Seq(Message) /\ Len(<<n>>) = 1 /\ <<n>>[1] = n
    BY <2>2
  <2>4. U.ifs[i].port = ifs[i].port /\ U.ifs[i].link = ifs[i].link /\ U.ifs[i].key = ifs[i].key
    BY <1>2 DEF SameEntry
  <2>5. ASSUME ifs[i].enabled
        PROVE  /\ LastWord(U.queue, lports[i], i, "fast", U.ifs[i].fast)
               /\ LastWord(U.queue, lports[i], i, "link", U.ifs[i].link)
    <3>1. LastWord(queue, lports[i], i, "link", ifs[i].link)
      BY <1>0, <1>1, <2>5 DEF Sound, Told
    <3>2. ~Affects(n, i, "link") /\ Says(n, "fast") = U.ifs[i].fast
      BY <1>2, <2>2, <2>5
    <3>3. LastWord(queue \o <<n>>, lports[i], i, "link", ifs[i].link)
      BY <1>0, <2>2, <3>1, <3>2, OneMoreWord
    <3>4. LastWord(queue \o <<n>>, lports[i], i, "fast", U.ifs[i].fast)
      BY <1>0, <2>2, <3>2, OneMoreWord
    <3>. QED
      BY <2>1, <2>4, <3>3, <3>4
  <2>6. ifs[i].enabled =>
            \A k \in 1..Len(<<n>>) : \A f : f \notin {"fast", "link"} => ~Affects(<<n>>[k], i, f)
    BY <1>2, <2>2, <2>3
  <2>7. \A k \in 1..Len(<<n>>) : Affects(<<n>>[k], i, "up") => Says(<<n>>[k], "up") = FALSE
    BY <2>2, <2>3
  <2>8. Sound(U, lports[i], call, i)
    BY <1>0, <1>1, <1>2, <2>1, <2>3, <2>4, <2>5, <2>6, <2>7, RetoldSound
  <2>. QED
    BY <2>8 DEF U
<1>6. CASE ~task.switched /\ ~task.timed
  BY <1>1, <1>3, <1>6 DEF U
<1>. QED
  BY <1>4, <1>5, <1>6

\* And its eligibility is decided.
LEMMA UpdateMemberSound ==
    ASSUME SoundInv, NEW i \in Ifaces, UpdateMember(i) PROVE AllSound'
<1>. DEFINE U == Updated(i)
            p == task.port
<1>1. /\ State' = update_interface_lag_eligibility(U, i) /\ UNCHANGED <<lports, call>>
  BY UpdateTables DEF SoundInv, UpdateMember, proto
<1>2. p \in Lags /\ task.at = "eligible" /\ i \in ports[p].cfg
  <2>1. task.at = "eligible" /\ i \in task.members /\ task.port \in Lags
    BY MemberHand DEF SoundInv, TablesInv, HandStep
  <2>. QED
    BY <2>1 DEF SoundInv, Walked
<1>3. Sound(U, lports[i], call, i)
  BY <1>2, UpdatedSound
<1>4. U \in CState /\ Elsewhere(State, U, i) /\ U.ports = ports /\ SameEntry(ifs[i], U.ifs[i])
  BY <1>2, UpdatedEntry DEF SoundInv
<1>5. IsLport(lports[i]) /\ lag_id \in [Lags -> 0..MaxLagId]
  BY TypesNow DEF SoundInv, LportInv, TablesInv, MembersInv
<1>6. U.ifs[i].port \in Lags => i \in U.ports[U.ifs[i].port].cfg /\ U.ifs[i].key # NoLag
  BY <1>4, MemberHasKey DEF SameEntry, SoundInv
<1>. HIDE DEF U
<1>7. Sound(State', lports[i], call, i)
  BY <1>1, <1>3, <1>4, <1>5, <1>6, UpdateSound
<1>8. Elsewhere(State, State', i)
  <2>1. Elsewhere(U, State', i)
    BY <1>1, <1>4, <1>5, <1>6, UpdateEntry
  <2>. QED
    BY <1>4, <2>1, ElsewhereTransitive
<1>. QED
  BY <1>1, <1>7, <1>8, OneSound

\* A new link is told together with the rate.
LEMMA RelinkSound ==
    ASSUME NEW S \in CState, NEW D \in CState, NEW i \in Ifaces,
           \A q \in Lags : /\ D.ports[q].eligible = S.ports[q].eligible
                           /\ D.ports[q].mode = S.ports[q].mode /\ D.ports[q].sys = S.ports[q].sys
                           /\ D.ports[q].fallback = S.ports[q].fallback,
           D.hw[i] = S.hw[i], D.ifs[i].port = S.ifs[i].port,
           D.ifs[i].enabled = S.ifs[i].enabled, D.ifs[i].active = S.ifs[i].active,
           D.ifs[i].eligible = S.ifs[i].eligible, D.ifs[i].key = S.ifs[i].key,
           D.queue = S.queue, NEW l, NEW c, Sound(S, l, c, i)
    PROVE  Sound(Send(D, <<LinkChange(D.ifs[i], i), LportChange(D.ifs[i], i)>>), l, c, i)
<1>. DEFINE m == LinkChange(D.ifs[i], i)
            n == LportChange(D.ifs[i], i)
            T == Send(D, <<m, n>>)
<1>1. D.ifs[i] \in Iface /\ D.queue \in Seq(Message) /\ D.ifs[i].enabled \in BOOLEAN
  BY QueueTyped DEF CState, Iface
<1>2. TellsLink(m, i, D.ifs[i].link) /\ TellsRate(n, i, D.ifs[i].enabled, D.ifs[i].fast)
  BY <1>1, LinkTells, RateTells
<1>. HIDE DEF m, n
<1>3. m \in LportMsg /\ n \in LportMsg /\ m \in Message /\ n \in Message /\ m.iface = i /\ n.iface = i
  BY <1>2 DEF TellsLink, TellsRate
<1>4. /\ T \in CState /\ T.ports = D.ports /\ T.ifs = D.ifs /\ T.hw = D.hw
      /\ T.queue = (D.queue \o <<m>>) \o <<n>>
  BY <1>3, TwoSaid
<1>. HIDE DEF T
<1>. DEFINE s == <<m>> \o <<n>>
<1>5. s \in Seq(Message) /\ Len(s) = 2 /\ s[1] = m /\ s[2] = n
  <2>1. s = <<m, n>>
    BY TwoInOne
  <2>. HIDE DEF s
  <2>. QED
    BY <1>3, <2>1
<1>6. T.queue = S.queue \o s
  <2>1. <<m>> \in Seq(Message) /\ <<n>> \in Seq(Message)
    BY <1>3
  <2>. QED
    BY <1>1, <1>4, <2>1, Associative
<1>. HIDE DEF s
<1>7. ASSUME S.ifs[i].enabled
      PROVE  /\ LastWord(T.queue, l, i, "fast", T.ifs[i].fast)
             /\ LastWord(T.queue, l, i, "link", T.ifs[i].link)
             /\ \A k \in 1..Len(s) : \A f : f \notin {"fast", "link"} => ~Affects(s[k], i, f)
  <2>1. /\ Affects(m, i, "link") /\ Says(m, "link") = D.ifs[i].link
        /\ \A f : f # "link" => ~Affects(m, i, f)
    BY <1>2 DEF TellsLink
  <2>2. /\ Affects(n, i, "fast") /\ Says(n, "fast") = D.ifs[i].fast
        /\ \A f : f # "fast" => ~Affects(n, i, f)
    BY <1>2, <1>7 DEF TellsRate
  <2>3. D.queue \o <<m>> \in Seq(Message)
    BY <1>1, <1>3
  <2>4. LastWord(D.queue \o <<m>>, l, i, "link", D.ifs[i].link)
    BY <1>1, <1>3, <2>1, OneMoreWord
  <2>5. LastWord((D.queue \o <<m>>) \o <<n>>, l, i, "link", D.ifs[i].link)
    BY <1>3, <2>2, <2>3, <2>4, OneMoreWord
  <2>6. LastWord((D.queue \o <<m>>) \o <<n>>, l, i, "fast", D.ifs[i].fast)
    BY <1>3, <2>2, <2>3, OneMoreWord
  <2>7. \A k \in 1..Len(s) : \A f : f \notin {"fast", "link"} => ~Affects(s[k], i, f)
    BY <1>5, <2>1, <2>2
  <2>. QED
    BY <1>4, <2>5, <2>6, <2>7
<1>8. \A k \in 1..Len(s) : Affects(s[k], i, "up") => Says(s[k], "up") = FALSE
  <2>1. ~Affects(m, i, "up") /\ (Affects(n, i, "up") => Says(n, "up") = FALSE)
    BY <1>2 DEF TellsLink, TellsRate
  <2>. QED
    BY <1>5, <2>1
<1>9. Sound(T, l, c, i)
  BY <1>4, <1>5, <1>6, <1>7, <1>8, RetoldSound
<1>. QED
  BY <1>9 DEF T, m, n

\* An interface that runs when its row is looked at runs where it is a member.
LEMMA EnabledAtHome ==
    ASSUME SoundInv, NEW i \in Ifaces, ifs[i].enabled, recent = {}
    PROVE  ifs[i].port \in Lags /\ IsDynamic(ports[ifs[i].port]) /\ i \in ports[ifs[i].port].eligible
  BY EnabledIsListed

\* A new key is told.
LEMMA KeyedSound ==
    ASSUME SoundInv, NEW i \in Ifaces, recent = {}
    PROVE  Sound(Keyed(i), lports[i], call, i)
<1>. DEFINE U == Keyed(i)
<1>0. /\ State \in CState /\ State.ports = ports /\ State.ifs = ifs /\ State.hw = hw
      /\ State.queue = queue
  BY TypesNow DEF SoundInv, TablesInv, MembersInv, State
<1>1. Sound(State, lports[i], call, i)
  BY DEF SoundInv, AllSound
<1>2. /\ U \in CState /\ U.ports = ports /\ U.hw = hw /\ U.ifs[i].port = ifs[i].port
      /\ U.ifs[i].enabled = ifs[i].enabled /\ U.ifs[i].active = ifs[i].active
      /\ U.ifs[i].eligible = ifs[i].eligible
      /\ U = State \/ U.queue = queue \o <<ConfigLport(U, i)>>
  BY KeyedEntry DEF SoundInv
<1>. HIDE DEF U
<1>3. CASE U = State
  BY <1>1, <1>3 DEF U
<1>4. CASE U.queue = queue \o <<ConfigLport(U, i)>>
  <2>1. U.ifs[i].enabled => U.ifs[i].port \in Lags /\ IsDynamic(U.ports[U.ifs[i].port])
    BY <1>2, EnabledAtHome
  <2>2. Told(U, lports[i], i) /\ FallbackTold(U, lports[i], i) /\ ResetPends(U.queue, i)
    BY <1>0, <1>2, <1>4, <2>1, ConfigTells
  <2>3. \A q \in Lags : RunsIn(U, i, q) <=> RunsIn(State, i, q)
    BY <1>0, <1>2 DEF RunsIn
  <2>4. ListedOnce(U, i)
    BY <1>0, <1>1, <1>2 DEF Sound, ListedOnce
  <2>5. EnabledRuns(U, i)
    BY <1>0, <1>1, <1>2, <2>3 DEF Sound, EnabledRuns
  <2>6. Served(U, lports[i], call, i)
    BY <2>2 DEF Served
  <2>. QED
    BY <2>2, <2>4, <2>5, <2>6 DEF Sound, U
<1>. QED
  BY <1>2, <1>3, <1>4

\* A new link of a running interface is told; that of another one matters to nobody.
LEMMA RelinkedSound ==
    ASSUME SoundInv, NEW i \in Ifaces, recent = {}
    PROVE  Sound(Relinked(i), lports[i], call, i)
<1>. DEFINE K == Keyed(i)
            L == Linked(i)
            D == update_interface_lag_eligibility(L, i)
            p == ifs[i].port
            m == LinkChange(D.ifs[i], i)
            n == LportChange(D.ifs[i], i)
            c == ~EligibilityChanges(L, i) /\ p # NoLag /\ D.ifs[i].eligible /\ IsDynamic(D.ports[p])
<1>1. Sound(K, lports[i], call, i) /\ IsLport(lports[i])
  BY KeyedSound DEF SoundInv, LportInv
<1>2. /\ K \in CState /\ K.ports = ports /\ K.hw = hw
      /\ K.ifs[i].port = ifs[i].port /\ K.ifs[i].enabled = ifs[i].enabled
      /\ K.ifs[i].active = ifs[i].active /\ K.ifs[i].eligible = ifs[i].eligible
  BY KeyedEntry DEF SoundInv
<1>3. /\ L \in CState /\ L.ports = ports /\ L.hw = hw /\ L.queue = K.queue
      /\ L.ifs[i].key = K.ifs[i].key
      /\ L.ifs[i].port = ifs[i].port /\ L.ifs[i].enabled = ifs[i].enabled
      /\ L.ifs[i].active = ifs[i].active /\ L.ifs[i].eligible = ifs[i].eligible
      /\ ifs[i].port \in Lags => i \in ports[ifs[i].port].cfg /\ L.ifs[i].key # NoLag
  BY LinkedEntry DEF SoundInv
<1>4. lag_id \in [Lags -> 0..MaxLagId] /\ ifs[i].enabled \in BOOLEAN /\ ifs[i].port \in Lags \cup {NoLag}
  BY TypesNow DEF SoundInv, TablesInv, MembersInv, Iface
<1>5. Relinked(i) = IF c THEN Send(D, <<m, n>>) ELSE D
  BY DEF Relinked
<1>. HIDE DEF K, L
<1>6. D \in CState
  BY <1>3, <1>4, UpdateEntry
<1>7. CASE ifs[i].enabled = TRUE
  <2>1. p \in Lags /\ IsDynamic(ports[p]) /\ i \in ports[p].eligible
    BY <1>7, EnabledAtHome
  <2>2. D = update_interface_lag_eligibility(L, i)
    OBVIOUS
  <2>. HIDE DEF D
  <2>3. PICK e \in BOOLEAN :
              /\ e = new_eligible(L, i)
              /\ i \in L.ports[p].cfg /\ IsDynamic(L.ports[p]) => e
              /\ IF e # (i \in L.ports[p].eligible) /\ e # L.ifs[i].eligible
                 THEN Settled(L, D, p, i, e) ELSE Calm(L, D)
    BY <1>3, <1>4, <2>1, <2>2, UpdateEligibilityDoes
  <2>4. e = TRUE /\ Calm(L, D)
    BY <1>3, <2>1, <2>3
  <2>5. ~EligibilityChanges(L, i)
    BY <1>3, <2>1, <2>3, <2>4 DEF EligibilityChanges
  <2>6. /\ D.ifs = L.ifs /\ D.hw = L.hw /\ D.queue = L.queue
        /\ \A q \in Lags : /\ D.ports[q].eligible = L.ports[q].eligible
                           /\ D.ports[q].mode = L.ports[q].mode /\ D.ports[q].sys = L.ports[q].sys
                           /\ D.ports[q].fallback = L.ports[q].fallback
    BY <2>4 DEF Calm, SameLags, SameMarks
  <2>7. ifs[i].eligible
    BY <2>1 DEF SoundInv, TablesInv, MembersInv, Belongs, Listed
  <2>8. c
    <3>1. p # NoLag
      BY <2>1, ConfigAssumption DEF NoLag
    <3>2. D.ifs[i].eligible
      BY <1>3, <2>6, <2>7
    <3>3. IsDynamic(D.ports[p])
      BY <1>3, <2>1, <2>6 DEF IsDynamic
    <3>. QED
      BY <2>5, <3>1, <3>2, <3>3
  <2>9. /\ \A q \in Lags : /\ D.ports[q].eligible = K.ports[q].eligible
                           /\ D.ports[q].mode = K.ports[q].mode /\ D.ports[q].sys = K.ports[q].sys
                           /\ D.ports[q].fallback = K.ports[q].fallback
        /\ D.hw[i] = K.hw[i] /\ D.ifs[i].port = K.ifs[i].port
        /\ D.ifs[i].enabled = K.ifs[i].enabled /\ D.ifs[i].active = K.ifs[i].active
        /\ D.ifs[i].eligible = K.ifs[i].eligible /\ D.ifs[i].key = K.ifs[i].key
        /\ D.queue = K.queue
    BY <1>2, <1>3, <2>6
  <2>10. Sound(Send(D, <<m, n>>), lports[i], call, i)
    BY <1>1, <1>2, <1>6, <2>9, RelinkSound
  <2>11. Relinked(i) = Send(D, <<m, n>>)
    BY <1>5, <2>8
  <2>. QED
    BY <2>10, <2>11
<1>8. CASE ifs[i].enabled = FALSE
  <2>1. Sound(L, lports[i], call, i)
    <3>1. <<>> \in Seq(Message) /\ L.queue = K.queue \o <<>>
      BY <1>2, <1>3, QueueTyped
    <3>2. \A k \in 1..Len(<<>>) : ~Affects(<<>>[k], i, "up")
      OBVIOUS
    <3>3. \A q \in Lags : L.ports[q] = K.ports[q]
      BY <1>2, <1>3
    <3>4. /\ L.ifs[i].eligible = K.ifs[i].eligible /\ K.ifs[i].enabled = FALSE
          /\ L.ifs[i].enabled = FALSE
      BY <1>2, <1>3, <1>8
    <3>. QED
      BY <1>1, <1>2, <1>3, <3>1, <3>2, <3>3, <3>4, SoundIdle
  <2>2. Sound(D, lports[i], call, i)
    BY <1>1, <1>3, <1>4, <2>1, UpdateSound
  <2>. HIDE DEF D
  <2>3. Sound(Send(D, <<m, n>>), lports[i], call, i)
    BY <1>6, <2>2, RelinkSound
  <2>. HIDE DEF m, n
  <2>. QED
    BY <1>5, <2>2, <2>3
<1>. QED
  BY <1>4, <1>7, <1>8

\* update_interface is sound.
LEMMA InterfaceSound ==
    ASSUME SoundInv, NEW i \in Ifaces, update_interface(i) PROVE AllSound'
<1>1. /\ State' = IF links[i] # ifs[i].link THEN Relinked(i) ELSE Keyed(i)
      /\ Elsewhere(State, State', i)
  BY InterfaceEntry DEF SoundInv
<1>2. UNCHANGED <<lports, call>> /\ recent = {}
  <2>1. task.at = "run" /\ i \in task.members
    BY DEF update_interface, Walk
  <2>2. recent = {}
    BY <2>1 DEF SoundInv, TablesInv, Tables, RecentAreDone
  <2>. QED
    BY <2>2 DEF update_interface, proto
<1>3. Sound(State', lports[i], call, i)
  BY <1>1, <1>2, KeyedSound, RelinkedSound
<1>. QED
  BY <1>1, <1>2, <1>3, OneSound

-----------------------------------------------------------------------------
(* The end of a LAG's turn. *)

\* To what q says of port l, r adds s, of the system id y, and t, of the fallback flag b.
RoundsTell(q, r, l, M, s, y, t, b) ==
    /\ s \o t \in Seq(Message) /\ r = q \o (s \o t)
    /\ \A j : j \notin M => Silent(s \o t, j)
    /\ \A j : \A k \in 1..Len(s \o t) : ~Affects((s \o t)[k], j, "up")
    /\ \A j, f, v : f \notin {"sys", "fallback"} /\ LastWord(q, l, j, f, v) => LastWord(r, l, j, f, v)
    /\ \A j \in M : LastWord(q, l, j, "sys", y) \/ s # <<>> => LastWord(r, l, j, "sys", y)
    /\ \A j \in M : t # <<>> => LastWord(r, l, j, "fallback", b)
    /\ \A j \in M : \A v : t = <<>> /\ LastWord(q, l, j, "fallback", v) => LastWord(r, l, j, "fallback", v)
    /\ \A j : ResetPends(q, j) => ResetPends(r, j)

\* Two rounds of messages to the members of M, of two settings or none.
LEMMA TwoRounds ==
    ASSUME NEW q \in Seq(Message), NEW M, NEW l, NEW y, NEW b,
           NEW s, s = <<>> \/ TellsEach(s, M, "sys", y),
           NEW t, t = <<>> \/ TellsEach(t, M, "fallback", b)
    PROVE  RoundsTell(q, (q \o s) \o t, l, M, s, y, t, b)
<1>1. <<>> \in Seq(Message) /\ Len(<<>>) = 0
  OBVIOUS
<1>2. s \in Seq(Message) /\ t \in Seq(Message) /\ q \o s \in Seq(Message)
  <2>1. s \in Seq(Message)
    BY <1>1 DEF TellsEach
  <2>2. t \in Seq(Message)
    BY <1>1 DEF TellsEach
  <2>. QED
    BY <2>1, <2>2
<1>3. /\ \A j, f : f # "sys" => \A k \in 1..Len(s) : ~Affects(s[k], j, f)
      /\ \A j : \A k \in 1..Len(s) : Affects(s[k], j, "sys") => Says(s[k], "sys") = y
      /\ \A j : j \notin M => Silent(s, j)
      /\ s # <<>> => \A j \in M : \E k \in 1..Len(s) : Affects(s[k], j, "sys")
  <2>1. CASE s = <<>>
    BY <1>1, <2>1 DEF Silent
  <2>2. CASE TellsEach(s, M, "sys", y)
    BY <2>2 DEF TellsEach
  <2>. QED
    BY <2>1, <2>2
<1>4. /\ \A j, f : f # "fallback" => \A k \in 1..Len(t) : ~Affects(t[k], j, f)
      /\ \A j : \A k \in 1..Len(t) : Affects(t[k], j, "fallback") => Says(t[k], "fallback") = b
      /\ \A j : j \notin M => Silent(t, j)
      /\ t # <<>> => \A j \in M : \E k \in 1..Len(t) : Affects(t[k], j, "fallback")
  <2>1. CASE t = <<>>
    BY <1>1, <2>1 DEF Silent
  <2>2. CASE TellsEach(t, M, "fallback", b)
    BY <2>2 DEF TellsEach
  <2>. QED
    BY <2>1, <2>2
<1>5. s \o t \in Seq(Message) /\ (q \o s) \o t = q \o (s \o t)
  <2>1. s \o t \in Seq(Message)
    BY <1>2
  <2>2. (q \o s) \o t = q \o (s \o t)
    BY <1>2, Associative
  <2>. QED
    BY <2>1, <2>2
<1>6. /\ Len(s \o t) = Len(s) + Len(t) /\ Len(s) \in Nat /\ Len(t) \in Nat
      /\ \A k \in 1..Len(s \o t) : \/ k \in 1..Len(s) /\ (s \o t)[k] = s[k]
                                   \/ k - Len(s) \in 1..Len(t) /\ (s \o t)[k] = t[k - Len(s)]
  BY <1>2
<1>7. ASSUME NEW j, NEW f, f \notin {"sys", "fallback"}, NEW k \in 1..Len(s \o t)
      PROVE  ~Affects((s \o t)[k], j, f)
  BY <1>3, <1>4, <1>6, <1>7
<1>8. \A j : j \notin M => Silent(s \o t, j)
  <2>1. ASSUME NEW j, j \notin M, NEW k \in 1..Len(s \o t), NEW f PROVE ~Affects((s \o t)[k], j, f)
    BY <1>3, <1>4, <1>6, <2>1 DEF Silent
  <2>. QED
    BY <2>1 DEF Silent
<1>9. ASSUME NEW j, NEW f, NEW v, f \notin {"sys", "fallback"}, LastWord(q, l, j, f, v)
      PROVE  LastWord((q \o s) \o t, l, j, f, v)
  <2>1. \A k \in 1..Len(s \o t) : ~Affects((s \o t)[k], j, f)
    BY <1>7, <1>9
  <2>2. LastWord(q \o (s \o t), l, j, f, v)
    BY <1>5, <1>9, <2>1, MoreWords
  <2>. QED
    BY <1>5, <2>2
<1>10. ASSUME NEW j \in M, LastWord(q, l, j, "sys", y) \/ s # <<>>
       PROVE  LastWord((q \o s) \o t, l, j, "sys", y)
  <2>1. LastWord(q \o s, l, j, "sys", y)
    BY <1>2, <1>3, <1>10, MoreWords
  <2>. QED
    BY <1>2, <1>4, <2>1, MoreWords
<1>11. ASSUME NEW j \in M, t # <<>> PROVE LastWord((q \o s) \o t, l, j, "fallback", b)
  BY <1>2, <1>4, <1>11, MoreWords
<1>12. ASSUME NEW j \in M, NEW v, t = <<>>, LastWord(q, l, j, "fallback", v)
       PROVE  LastWord((q \o s) \o t, l, j, "fallback", v)
  <2>1. LastWord(q \o s, l, j, "fallback", v)
    BY <1>2, <1>3, <1>12, MoreWords
  <2>2. (q \o s) \o t = q \o s
    BY <1>2, <1>12
  <2>. QED
    BY <2>1, <2>2
<1>13. \A j : ResetPends(q, j) => ResetPends((q \o s) \o t, j)
  BY <1>2, <1>5, ResetStillPends
<1>14. \A j : \A k \in 1..Len(s \o t) : ~Affects((s \o t)[k], j, "up")
  BY <1>7
<1>. QED
  BY <1>5, <1>8, <1>9, <1>10, <1>11, <1>12, <1>13, <1>14 DEF RoundsTell

\* A member that runs is told of its LAG's new system id and fallback flag.
LEMMA MemberFinished ==
    ASSUME NEW S \in CState, NEW T \in CState, NEW j \in Ifaces, NEW p \in Lags,
           \A q \in Lags : /\ T.ports[q].eligible = S.ports[q].eligible
                           /\ T.ports[q].mode = S.ports[q].mode
                           /\ q # p => T.ports[q].fallback = S.ports[q].fallback,
           T.ifs[j] = S.ifs[j], T.hw[j] = S.hw[j], S.ifs[j].port = p, S.ifs[j].enabled,
           NEW l, NEW c, Sound(S, l, c, j),
           \A f, v : f \notin {"sys", "fallback"} /\ LastWord(S.queue, l, j, f, v) =>
               LastWord(T.queue, l, j, f, v),
           ResetPends(S.queue, j) => ResetPends(T.queue, j),
           LastWord(T.queue, l, j, "sys", T.ports[p].sys),
           NEW b \in BOOLEAN,
           \/ LastWord(T.queue, l, j, "fallback", b) /\ T.ports[p].fallback = b
           \/ /\ \A v : LastWord(S.queue, l, j, "fallback", v) => LastWord(T.queue, l, j, "fallback", v)
              /\ T.ports[p].fallback = S.ports[p].fallback
    PROVE  Sound(T, l, c, j)
<1>1. \A q \in Lags : RunsIn(T, j, q) <=> RunsIn(S, j, q)
  BY DEF RunsIn, IsDynamic
<1>2. ListedOnce(T, j)
  BY DEF Sound, ListedOnce
<1>3. EnabledRuns(T, j)
  BY <1>1 DEF Sound, EnabledRuns
<1>4. Told(T, l, j)
  BY DEF Sound, Told
<1>5. FallbackTold(T, l, j)
  <2>1. CASE LastWord(T.queue, l, j, "fallback", b) /\ T.ports[p].fallback = b
    <3>1. CASE b = FALSE
      BY <2>1, <3>1 DEF FallbackTold
    <3>2. CASE b = TRUE
      <4>1. PICK q \in Lags : RunsIn(S, j, q)
        BY DEF Sound, EnabledRuns
      <4>2. RunsIn(T, j, q) /\ (T.ports[q].fallback \/ T.ifs[j].port # q)
        BY <1>1, <2>1, <3>2, <4>1
      <4>. QED
        BY <2>1, <3>2, <4>2 DEF FallbackTold
    <3>. QED
      BY <3>1, <3>2
  <2>2. CASE /\ \A v : LastWord(S.queue, l, j, "fallback", v) => LastWord(T.queue, l, j, "fallback", v)
             /\ T.ports[p].fallback = S.ports[p].fallback
    <3>1. \A q \in Lags : T.ports[q].fallback = S.ports[q].fallback
      BY <2>2
    <3>2. \/ LastWord(S.queue, l, j, "fallback", FALSE)
          \/ /\ LastWord(S.queue, l, j, "fallback", TRUE)
             /\ \E q \in Lags : RunsIn(S, j, q) /\ (S.ports[q].fallback \/ S.ifs[j].port # q)
      BY DEF Sound, FallbackTold
    <3>. QED
      BY <1>1, <2>2, <3>1, <3>2 DEF FallbackTold
  <2>. QED
    BY <2>1, <2>2
<1>6. Served(T, l, c, j)
  BY DEF Sound, Served
<1>. QED
  BY <1>2, <1>3, <1>4, <1>5, <1>6 DEF Sound

\* handle_port_config ends: its members are told.
LEMMA FinishSound == ASSUME SoundInv, TablesInv', FinishPort PROVE AllSound'
<1>. DEFINE p == task.port
            P == ports[p]
            R == rows[p]
            M == P.cfg
            toSys  == R.lacp # "off" /\ R.sys # P.sys
            toFall == R.lacp # "off" /\ (R.fallback # P.fallback \/ task.moded)
<1>0. /\ task.at = "eligible" /\ UNCHANGED <<hw, ifs, lports, call>>
  BY DEF FinishPort, proto
<1>1. /\ p \in Lags /\ ports \in [Lags -> LagPort] /\ P \in LagPort /\ queue \in Seq(Message)
      /\ R \in Row
  <2>1. p \in Lags
    BY <1>0, MemberTypes DEF SoundInv, TablesInv, MembersInv, PortSteps
  <2>. QED
    BY <2>1, TypesNow DEF SoundInv, TablesInv, MembersInv
<1>2. /\ M \subseteq Ifaces /\ R.sys \in Systems /\ R.fallback \in BOOLEAN
  BY <1>1 DEF LagPort, Row
<1>3. ports' = [ports EXCEPT ![p].sys = IF toSys THEN R.sys ELSE @,
                             ![p].fallback = IF toFall THEN R.fallback ELSE @]
  BY DEF FinishPort
<1>4. PICK o1, o2 \in Orders(M) :
         queue' = queue
                \o (IF toSys THEN ToEach(o1, LAMBDA i : Overrides(i, R.sys)) ELSE <<>>)
                \o (IF toFall THEN ToEach(o2, LAMBDA i : Fallback(i, R.fallback)) ELSE <<>>)
  BY DEF FinishPort
<1>. DEFINE s == IF toSys THEN ToEach(o1, LAMBDA i : Overrides(i, R.sys)) ELSE <<>>
            t == IF toFall THEN ToEach(o2, LAMBDA i : Fallback(i, R.fallback)) ELSE <<>>
            y == IF toSys THEN R.sys ELSE P.sys
            b == IF toFall THEN R.fallback ELSE P.fallback
<1>5. IF toSys THEN TellsEach(s, M, "sys", y) ELSE s = <<>>
  BY <1>2, OverridesToEach
<1>6. IF toFall THEN TellsEach(t, M, "fallback", b) ELSE t = <<>>
  BY <1>2, FallbackToEach
<1>7. queue' = (queue \o s) \o t
  BY <1>4
<1>8. /\ y \in Systems /\ b \in BOOLEAN /\ (~toSys => y = P.sys)
      /\ (~toFall => b = P.fallback)
  BY <1>1, <1>2 DEF LagPort
<1>. DEFINE Q == [P EXCEPT !.sys = y, !.fallback = b]
<1>9. ports' = [ports EXCEPT ![p] = Q]
  BY <1>1, <1>3
<1>. HIDE DEF s, t, y, b, toSys, toFall
<1>10. /\ Q.eligible = P.eligible /\ Q.mode = P.mode /\ Q.sys = y /\ Q.fallback = b
  BY <1>1 DEF LagPort
<1>. HIDE DEF Q
<1>11. \A q \in Lags : ports'[q] = IF q = p THEN Q ELSE ports[q]
  BY <1>1, <1>9
<1>12. \A q \in Lags : ports'[q].eligible = ports[q].eligible /\ ports'[q].mode = ports[q].mode
  BY <1>10, <1>11
<1>13. ASSUME NEW l PROVE RoundsTell(queue, queue', l, M, s, y, t, b)
  <2>. HIDE DEF M
  <2>1. s = <<>> \/ TellsEach(s, M, "sys", y)
    BY <1>5
  <2>2. t = <<>> \/ TellsEach(t, M, "fallback", b)
    BY <1>6
  <2>3. RoundsTell(queue, (queue \o s) \o t, l, M, s, y, t, b)
    BY <1>1, <2>1, <2>2, TwoRounds
  <2>. QED
    BY <1>7, <2>3
<1>14. \A j \in M : (toSys => s # <<>>) /\ (toFall => t # <<>>)
  <2>1. Len(<<>>) = 0
    OBVIOUS
  <2>. QED
    BY <1>5, <1>6, <2>1 DEF TellsEach
<1>15. State \in CState /\ State' \in CState
  BY DEF SoundInv, TablesInv, MembersInv, QueueInv, Typed, TypedCache
<1>16. /\ State.ports = ports /\ State.ifs = ifs /\ State.hw = hw /\ State.queue = queue
       /\ State'.ports = ports' /\ State'.ifs = ifs' /\ State'.hw = hw' /\ State'.queue = queue'
  BY DEF State
<1>17. ASSUME NEW j \in Ifaces PROVE Sound(State', lports'[j], call', j)
  <2>0. RoundsTell(queue, queue', lports[j], M, s, y, t, b)
    BY <1>13
  <2>1. UNCHANGED <<lports, call>> /\ ifs'[j] = ifs[j] /\ hw'[j] = hw[j]
    BY <1>0
  <2>2. Sound(State, lports[j], call, j) /\ ifs[j].enabled \in BOOLEAN
    BY TypesNow DEF SoundInv, AllSound, TablesInv, MembersInv, Iface
  <2>3. CASE j \notin M
    <3>1. j \notin P.eligible /\ ifs[j].port # p
      BY <1>1, <2>3 DEF SoundInv, TablesInv, MembersInv, Belongs, Listed, Placed
    <3>2. /\ \A q \in Lags : j \in ports'[q].eligible <=> j \in ports[q].eligible
          /\ \A q \in Lags : j \in ports[q].eligible =>
               ports'[q].mode = ports[q].mode /\ ports'[q].fallback = ports[q].fallback
          /\ ifs[j].enabled /\ ifs[j].port \in Lags =>
               ports'[ifs[j].port].sys = ports[ifs[j].port].sys
      BY <1>11, <1>12, <3>1
    <3>. QED
      BY <2>0, <2>1, <2>3, <3>2, AsideSound DEF RoundsTell
  <2>4. CASE j \in M /\ ifs[j].enabled = FALSE
    BY <1>12, <2>0, <2>1, <2>4, IdleSound DEF RoundsTell
  <2>5. CASE j \in M /\ ifs[j].enabled = TRUE
    <3>1. ifs[j].port = p
      BY <1>0, <2>5, HandHome DEF SoundInv
    <3>2. ports'[p].sys = y /\ ports'[p].fallback = b
      BY <1>1, <1>10, <1>11
    <3>. DEFINE l == lports[j]
    <3>3. LastWord(queue', l, j, "sys", y)
      <4>1. CASE toSys
        BY <1>14, <2>0, <2>5, <4>1 DEF RoundsTell
      <4>2. CASE ~toSys
        <5>1. LastWord(queue, l, j, "sys", y)
          BY <1>1, <1>8, <1>16, <2>2, <2>5, <3>1, <4>2 DEF Sound, Told
        <5>. QED
          BY <2>0, <2>5, <5>1 DEF RoundsTell
      <4>. QED
        BY <4>1, <4>2
    <3>4. \/ LastWord(queue', l, j, "fallback", b) /\ ports'[p].fallback = b
          \/ /\ \A v : LastWord(queue, l, j, "fallback", v) => LastWord(queue', l, j, "fallback", v)
             /\ ports'[p].fallback = ports[p].fallback
      <4>1. CASE toFall
        BY <1>14, <2>0, <2>5, <3>2, <4>1 DEF RoundsTell
      <4>2. CASE ~toFall
        <5>1. t = <<>>
          BY <1>6, <4>2
        <5>2. \A v : LastWord(queue, l, j, "fallback", v) => LastWord(queue', l, j, "fallback", v)
          BY <2>0, <2>5, <5>1 DEF RoundsTell
        <5>3. ports'[p].fallback = ports[p].fallback
          BY <1>8, <3>2, <4>2
        <5>. QED
          BY <5>2, <5>3
      <4>. QED
        BY <4>1, <4>2
    <3>5. \A q \in Lags : /\ ports'[q].eligible = ports[q].eligible
                          /\ ports'[q].mode = ports[q].mode
                          /\ q # p => ports'[q].fallback = ports[q].fallback
      BY <1>11, <1>12
    <3>6. /\ \A f, v : f \notin {"sys", "fallback"} /\ LastWord(queue, l, j, f, v) =>
                LastWord(queue', l, j, f, v)
          /\ ResetPends(queue, j) => ResetPends(queue', j)
      BY <2>0 DEF RoundsTell
    <3>. HIDE DEF p
    <3>8. /\ State.ifs[j].port = p /\ State.ifs[j].enabled /\ State'.ifs[j] = State.ifs[j]
          /\ State'.hw[j] = State.hw[j] /\ State'.ports[p].sys = y
      BY <1>16, <2>1, <2>5, <3>1, <3>2
    <3>9. \A q \in Lags : /\ State'.ports[q].eligible = State.ports[q].eligible
                          /\ State'.ports[q].mode = State.ports[q].mode
                          /\ q # p => State'.ports[q].fallback = State.ports[q].fallback
      BY <1>16, <3>5
    <3>10. /\ \A f, v : f \notin {"sys", "fallback"} /\ LastWord(State.queue, l, j, f, v) =>
                LastWord(State'.queue, l, j, f, v)
           /\ ResetPends(State.queue, j) => ResetPends(State'.queue, j)
           /\ LastWord(State'.queue, l, j, "sys", y)
      BY <1>16, <3>3, <3>6
    <3>11. \/ LastWord(State'.queue, l, j, "fallback", b) /\ State'.ports[p].fallback = b
           \/ /\ \A v : LastWord(State.queue, l, j, "fallback", v) =>
                      LastWord(State'.queue, l, j, "fallback", v)
              /\ State'.ports[p].fallback = State.ports[p].fallback
      BY <1>16, <3>4
    <3>12. Sound(State, l, call, j)
      BY <2>2
    <3>. HIDE DEF l
    <3>7. Sound(State', l, call, j)
      BY <1>1, <1>8, <1>15, <3>8, <3>9, <3>10, <3>11, <3>12, MemberFinished
    <3>. QED
      BY <2>1, <3>7 DEF l
  <2>. QED
    BY <2>2, <2>3, <2>4, <2>5
<1>. QED
  BY <1>17 DEF AllSound
-----------------------------------------------------------------------------
(* The protocol thread obeys. *)

\* What a message can change of a port that runs.
Settings == {"up", "key", "active", "fast", "link", "sys", "fallback"}

\* Port l becomes k on message m.
Obeys(m, l, k) ==
    \/ m.type = "config" /\ k = IF m.enabled THEN Configured(m) ELSE NoLport
    \/ m.type = "update" /\ k = IF ~m.enabled THEN NoLport
                                ELSE IF l.up THEN [l EXCEPT !.fast = m.fast] ELSE l
    \/ m.type = "link" /\ k = IF ~l.up \/ l.link = m.link THEN l
                              ELSE Untrunked([l EXCEPT !.link = m.link])
    \/ m.type = "fallback" /\ k = IF l.up THEN [l EXCEPT !.fallback = m.on] ELSE l
    \/ m.type = "overrides" /\ k = IF l.up THEN [l EXCEPT !.sys = m.sys] ELSE l

\* It takes what the message says, if it runs or is to start or stop; the rest stays, but
\* for the trunk, which it may leave.
LEMMA Obeyed ==
    ASSUME NEW m \in LportMsg, NEW l \in Lport, NEW k, Obeys(m, l, k), NEW i, m.iface = i
    PROVE  /\ \A f \in Settings :
                 /\ ~Affects(m, i, f) => k[f] = l[f]
                 /\ Affects(m, i, f) /\ (l.up \/ Affects(m, i, "up")) => k[f] = Says(m, f)
           /\ Affects(m, i, "up") => k.trunk = 0 /\ k.egress = FALSE
           /\ \/ k.trunk = 0 /\ k.egress = FALSE
              \/ k.trunk = l.trunk /\ k.egress = l.egress
<1>1. CASE m.type = "config"
  <2>1. k = IF m.enabled THEN Configured(m) ELSE NoLport
    BY <1>1 DEF Obeys
  <2>2. \A f : Affects(m, i, f)
    BY <1>1 DEF Affects
  <2>3. \A f : k[f] = Says(m, f)
    BY <1>1, <2>1 DEF Says
  <2>4. k.trunk = 0 /\ k.egress = FALSE
    BY <2>1 DEF Configured, NoLport
  <2>. QED
    BY <2>2, <2>3, <2>4
<1>2. CASE m.type = "update" /\ ~m.enabled
  <2>1. k = NoLport
    BY <1>2 DEF Obeys
  <2>2. \A f : Affects(m, i, f)
    BY <1>2 DEF Affects
  <2>3. \A f : k[f] = Says(m, f)
    BY <1>2, <2>1 DEF Says
  <2>4. k.trunk = 0 /\ k.egress = FALSE
    BY <2>1 DEF NoLport
  <2>. QED
    BY <2>2, <2>3, <2>4
<1>3. CASE m.type = "update" /\ m.enabled
  <2>1. k = IF l.up THEN [l EXCEPT !.fast = m.fast] ELSE l
    BY <1>3 DEF Obeys
  <2>2. \A f : Affects(m, i, f) <=> f = "fast"
    BY <1>3 DEF Affects
  <2>3. Says(m, "fast") = m.fast
    BY <1>3 DEF Says
  <2>4. \A f \in Settings : f # "fast" => k[f] = l[f]
    BY <2>1 DEF Settings, Lport
  <2>5. l.up => k["fast"] = m.fast
    BY <2>1 DEF Lport
  <2>6. k.trunk = l.trunk /\ k.egress = l.egress
    BY <2>1 DEF Lport
  <2>. QED
    BY <2>2, <2>3, <2>4, <2>5, <2>6
<1>4. CASE m.type = "link"
  <2>1. k = IF ~l.up \/ l.link = m.link THEN l
            ELSE [l EXCEPT !.link = m.link, !.trunk = 0, !.egress = FALSE]
    BY <1>4 DEF Obeys, Untrunked
  <2>2. \A f : Affects(m, i, f) <=> f = "link"
    BY <1>4 DEF Affects
  <2>3. Says(m, "link") = m.link
    BY <1>4 DEF Says
  <2>4. \A f \in Settings : f # "link" => k[f] = l[f]
    BY <2>1 DEF Settings, Lport
  <2>5. l.up => k["link"] = m.link
    BY <2>1 DEF Lport
  <2>6. \/ k.trunk = 0 /\ k.egress = FALSE
        \/ k.trunk = l.trunk /\ k.egress = l.egress
    BY <2>1 DEF Lport
  <2>. QED
    BY <2>2, <2>3, <2>4, <2>5, <2>6
<1>5. CASE m.type = "fallback"
  <2>1. k = IF l.up THEN [l EXCEPT !.fallback = m.on] ELSE l
    BY <1>5 DEF Obeys
  <2>2. \A f : Affects(m, i, f) <=> f = "fallback"
    BY <1>5 DEF Affects
  <2>3. Says(m, "fallback") = m.on
    BY <1>5 DEF Says
  <2>4. \A f \in Settings : f # "fallback" => k[f] = l[f]
    BY <2>1 DEF Settings, Lport
  <2>5. l.up => k["fallback"] = m.on
    BY <2>1 DEF Lport
  <2>6. k.trunk = l.trunk /\ k.egress = l.egress
    BY <2>1 DEF Lport
  <2>. QED
    BY <2>2, <2>3, <2>4, <2>5, <2>6
<1>6. CASE m.type = "overrides"
  <2>1. k = IF l.up THEN [l EXCEPT !.sys = m.sys] ELSE l
    BY <1>6 DEF Obeys
  <2>2. \A f : Affects(m, i, f) <=> f = "sys"
    BY <1>6 DEF Affects
  <2>3. Says(m, "sys") = m.sys
    BY <1>6 DEF Says
  <2>4. \A f \in Settings : f # "sys" => k[f] = l[f]
    BY <2>1 DEF Settings, Lport
  <2>5. l.up => k["sys"] = m.sys
    BY <2>1 DEF Lport
  <2>6. k.trunk = l.trunk /\ k.egress = l.egress
    BY <2>1 DEF Lport
  <2>. QED
    BY <2>2, <2>3, <2>4, <2>5, <2>6
<1>. QED
  BY <1>1, <1>2, <1>3, <1>4, <1>5, <1>6 DEF Obeys

\* The last word stays the last word when the first message is obeyed: a port told
\* something while it does not run is told everything when it starts.
LEMMA WordObeyed ==
    ASSUME NEW q \in Seq(Message), q # <<>>, Head(q) \in LportMsg, NEW i, Head(q).iface = i,
           NEW l \in Lport, NEW k, Obeys(Head(q), l, k), NEW f \in Settings, NEW v,
           LastWord(q, l, i, f, v), f = "up" \/ LastWord(q, l, i, "up", TRUE)
    PROVE  LastWord(Tail(q), k, i, f, v)
<1>. DEFINE m == Head(q)
<1>1. /\ ~Affects(m, i, f) => k[f] = l[f]
      /\ Affects(m, i, f) /\ (l.up \/ Affects(m, i, "up")) => k[f] = Says(m, f)
  BY Obeyed
<1>2. Len(q) \in Nat /\ Len(q) > 0 /\ m = q[1]
  OBVIOUS
<1>3. ASSUME Affects(m, i, f), \A n \in 1..Len(q) : n > 1 => ~Affects(q[n], i, f)
      PROVE  l.up \/ Affects(m, i, "up")
  <2>1. SUFFICES ASSUME f # "up", ~Affects(m, i, "up") PROVE l.up
    BY <1>3
  <2>2. \A n : Affects(n, i, "up") => Affects(n, i, f)
    BY DEF Affects
  <2>3. \A n \in 1..Len(q) : ~Affects(q[n], i, "up")
    BY <1>2, <1>3, <2>1, <2>2
  <2>4. l["up"] = TRUE
    BY <2>1, <2>3 DEF LastWord
  <2>. QED
    BY <2>4
<1>. HIDE DEF m
<1>. QED
  BY <1>1, <1>3, FirstWord DEF m

\* A reset that pends and is not the first message still does.
LEMMA ResetLater ==
    ASSUME NEW q \in Seq(Message), q # <<>>, NEW i, ResetPends(q, i), ~Affects(Head(q), i, "up")
    PROVE  ResetPends(Tail(q), i)
<1>1. /\ Len(q) \in Nat /\ Len(q) > 0 /\ Len(Tail(q)) = Len(q) - 1 /\ Head(q) = q[1]
      /\ \A n \in 1..Len(Tail(q)) : Tail(q)[n] = q[n + 1]
  OBVIOUS
<1>2. PICK k \in 1..Len(q) : Affects(q[k], i, "up")
  BY DEF ResetPends
<1>3. k # 1
  BY <1>1, <1>2
<1>4. k - 1 \in 1..Len(Tail(q)) /\ Tail(q)[k - 1] = q[k]
  BY <1>1, <1>3
<1>. QED
  BY <1>2, <1>4 DEF ResetPends

\* An interface stays sound when a message is received, its own or another's.
LEMMA SoundObeyed ==
    ASSUME NEW S \in CState, NEW T \in CState, NEW j \in Ifaces,
           S.queue # <<>>, T.queue = Tail(S.queue),
           T.ports = S.ports, T.ifs = S.ifs, T.hw = S.hw,
           NEW l \in Lport, NEW k, NEW c, c.kind = "none", NEW d, Sound(S, l, c, j),
           \/ k = l /\ \A f : ~Affects(Head(S.queue), j, f)
           \/ Head(S.queue) \in LportMsg /\ Head(S.queue).iface = j /\ Obeys(Head(S.queue), l, k)
    PROVE  Sound(T, k, d, j)
<1>. DEFINE q == S.queue
            m == Head(q)
<1>0. q \in Seq(Message) /\ S.ifs[j].enabled \in BOOLEAN
  BY QueueTyped DEF CState, Iface
<1>1. \A n \in Lags : RunsIn(T, j, n) <=> RunsIn(S, j, n)
  BY DEF RunsIn
<1>2. ListedOnce(T, j) /\ EnabledRuns(T, j)
  BY <1>1 DEF Sound, ListedOnce, EnabledRuns
<1>3. ASSUME NEW f \in Settings, NEW v, LastWord(q, l, j, f, v),
             f = "up" \/ S.ifs[j].enabled
      PROVE  LastWord(T.queue, k, j, f, v)
  <2>1. CASE k = l /\ \A x : ~Affects(m, j, x)
    BY <1>0, <1>3, <2>1, FirstWord
  <2>2. CASE m \in LportMsg /\ m.iface = j /\ Obeys(m, l, k)
    <3>1. f = "up" \/ LastWord(q, l, j, "up", TRUE)
      BY <1>0, <1>3 DEF Sound, Told
    <3>. QED
      BY <1>0, <1>3, <2>2, <3>1, WordObeyed
  <2>. QED
    BY <2>1, <2>2
<1>4. Told(T, k, j)
  <2>1. "up" \in Settings /\ "key" \in Settings /\ "active" \in Settings /\ "fast" \in Settings
        /\ "link" \in Settings /\ "sys" \in Settings
    BY DEF Settings
  <2>2. LastWord(T.queue, k, j, "up", S.ifs[j].enabled)
    BY <1>3, <2>1 DEF Sound, Told
  <2>3. ASSUME S.ifs[j].enabled
        PROVE  /\ LastWord(T.queue, k, j, "key", S.ifs[j].key)
               /\ LastWord(T.queue, k, j, "active", S.ifs[j].active)
               /\ LastWord(T.queue, k, j, "fast", S.ifs[j].fast)
               /\ LastWord(T.queue, k, j, "link", S.ifs[j].link)
               /\ S.ifs[j].port \in Lags
               /\ LastWord(T.queue, k, j, "sys", S.ports[S.ifs[j].port].sys)
    BY <1>3, <2>1, <2>3 DEF Sound, Told
  <2>. QED
    BY <2>2, <2>3 DEF Told
<1>5. FallbackTold(T, k, j)
  <2>1. "fallback" \in Settings
    BY DEF Settings
  <2>2. \/ ~S.ifs[j].enabled
        \/ LastWord(q, l, j, "fallback", FALSE)
        \/ /\ LastWord(q, l, j, "fallback", TRUE)
           /\ \E n \in Lags : RunsIn(S, j, n) /\ (S.ports[n].fallback \/ S.ifs[j].port # n)
    BY DEF Sound, FallbackTold
  <2>3. \A v : S.ifs[j].enabled /\ LastWord(q, l, j, "fallback", v) =>
               LastWord(T.queue, k, j, "fallback", v)
    BY <1>3, <2>1
  <2>. QED
    BY <1>1, <2>2, <2>3 DEF FallbackTold
<1>6. Served(T, k, d, j)
  <2>1. /\ l.trunk # 0 => S.hw[j].rx \/ ResetPends(q, j)
        /\ l.egress => S.hw[j].tx \/ ResetPends(q, j)
    BY DEF Sound, Served, Writes
  <2>2. CASE k.trunk = 0 /\ k.egress = FALSE
    BY <2>2 DEF Served
  <2>3. CASE ~Affects(m, j, "up") /\ k.trunk = l.trunk /\ k.egress = l.egress
    <3>1. ResetPends(q, j) => ResetPends(T.queue, j)
      BY <1>0, <2>3, ResetLater
    <3>. QED
      BY <2>1, <2>3, <3>1 DEF Served
  <2>4. \/ k.trunk = 0 /\ k.egress = FALSE
        \/ ~Affects(m, j, "up") /\ k.trunk = l.trunk /\ k.egress = l.egress
    BY Obeyed
  <2>. QED
    BY <2>2, <2>3, <2>4
<1>. QED
  BY <1>2, <1>4, <1>5, <1>6 DEF Sound

\* The protocol thread's calls: one that is to close a port in hardware finds it outside
\* every trunk.
CallFits ==
    call.kind = "detach" /\ call.iface \in Ifaces => lports[call.iface].trunk = 0

\* What the protocol thread does to a port on a message.
LEMMA MessageObeyed ==
    ASSUME SoundInv, Receive, NEW j \in Ifaces
    PROVE  /\ call.kind = "none" /\ queue # <<>> /\ queue' = Tail(queue)
           /\ UNCHANGED <<ports, ifs, hw>>
           /\ \/ lports'[j] = lports[j] /\ \A f : ~Affects(Head(queue), j, f)
              \/ /\ Head(queue) \in LportMsg /\ Head(queue).iface = j
                 /\ Obeys(Head(queue), lports[j], lports'[j])
           /\ CallFits'
<1>. DEFINE m == Head(queue)
<1>1. /\ call.kind = "none" /\ queue # <<>> /\ queue' = Tail(queue) /\ UNCHANGED <<ports, ifs, hw>>
  BY DEF Receive, cache
<1>2. queue \in Seq(Message) /\ m \in Message
  <2>1. queue \in Seq(Message)
    BY TypesNow DEF SoundInv, TablesInv, MembersInv
  <2>. QED
    BY <1>1, <2>1
<1>3. lports \in [Ifaces -> Lport]
  BY DEF SoundInv, TablesInv, MembersInv, QueueInv, Typed, TypedProto
<1>4. CASE SportMessage(m)
  <2>1. UNCHANGED <<lports, call>> /\ m.type \in {"create", "params", "unparams", "delete"}
    BY <1>4 DEF SportMessage
  <2>2. \A f : ~Affects(m, j, f)
    BY <2>1 DEF Affects
  <2>3. CallFits'
    BY <1>1, <2>1 DEF CallFits
  <2>. QED
    BY <1>1, <2>1, <2>2, <2>3
<1>5. CASE LportMessage(m)
  <2>. DEFINE i == m.iface
  <2>1. m.type \in {"config", "update", "link", "fallback", "overrides"}
    BY <1>5 DEF LportMessage
  <2>2. m \in LportMsg
    BY <1>2, <2>1 DEF Message, SportMsg
  <2>3. i \in Ifaces
    BY <2>2 DEF LportMsg
  <2>4. PICK k : Settle(i, k) /\ Obeys(m, lports[i], k)
    BY <1>5 DEF LportMessage, Obeys
  <2>5. /\ lports' = [lports EXCEPT ![i] = k]
        /\ call' = IF lports[i].trunk # 0 /\ k.trunk = 0
                   THEN Call("detach", i, lports[i].trunk) ELSE NoCall
    BY <2>4 DEF Settle
  <2>. HIDE DEF m, i
  <2>6. lports'[i] = k /\ \A n \in Ifaces : n # i => lports'[n] = lports[n]
    BY <1>3, <2>3, <2>5
  <2>7. CallFits'
    <3>1. CASE lports[i].trunk # 0 /\ k.trunk = 0
      <4>1. call'.iface = i
        BY <2>5, <3>1 DEF Call
      <4>. QED
        BY <2>6, <3>1, <4>1 DEF CallFits
    <3>2. CASE ~(lports[i].trunk # 0 /\ k.trunk = 0)
      BY <2>5, <3>2 DEF CallFits, NoCall
    <3>. QED
      BY <3>1, <3>2
  <2>8. CASE j = i
    BY <1>1, <2>2, <2>4, <2>6, <2>7, <2>8 DEF m, i
  <2>9. CASE j # i
    <3>1. \A f : ~Affects(m, j, f)
      BY <2>9 DEF Affects, i
    <3>. QED
      BY <1>1, <2>6, <2>7, <2>9, <3>1 DEF m
  <2>. QED
    BY <2>8, <2>9
<1>. QED
  BY <1>4, <1>5 DEF Receive

\* Every interface stays sound when a message is received.
LEMMA ReceiveSound == ASSUME SoundInv, TablesInv', Receive PROVE AllSound'
<1>1. State \in CState /\ State' \in CState
  BY DEF SoundInv, TablesInv, MembersInv, QueueInv, Typed, TypedCache
<1>2. /\ State.ports = ports /\ State.ifs = ifs /\ State.hw = hw /\ State.queue = queue
      /\ State'.ports = ports' /\ State'.ifs = ifs' /\ State'.hw = hw' /\ State'.queue = queue'
  BY DEF State
<1>3. ASSUME NEW j \in Ifaces PROVE Sound(State', lports'[j], call', j)
  <2>1. lports[j] \in Lport /\ Sound(State, lports[j], call, j)
    BY DEF SoundInv, AllSound, TablesInv, MembersInv, QueueInv, Typed, TypedProto
  <2>2. /\ call.kind = "none" /\ State.queue # <<>> /\ State'.queue = Tail(State.queue)
        /\ State'.ports = State.ports /\ State'.ifs = State.ifs /\ State'.hw = State.hw
        /\ \/ lports'[j] = lports[j] /\ \A f : ~Affects(Head(State.queue), j, f)
           \/ /\ Head(State.queue) \in LportMsg /\ Head(State.queue).iface = j
              /\ Obeys(Head(State.queue), lports[j], lports'[j])
    BY <1>2, MessageObeyed
  <2>. QED
    BY <1>1, <2>1, <2>2, SoundObeyed
<1>. QED
  BY <1>3 DEF AllSound
-----------------------------------------------------------------------------
(* The machines and the hardware. *)

\* A port whose settings stay stays sound if it is served.
LEMMA SoundMoved ==
    ASSUME NEW S, NEW j, NEW l, NEW k, \A f \in Settings : k[f] = l[f], NEW c, NEW d,
           Sound(S, l, c, j), Served(S, k, d, j)
    PROVE  Sound(S, k, d, j)
<1>1. ASSUME NEW f \in Settings, NEW v, LastWord(S.queue, l, j, f, v)
      PROVE  LastWord(S.queue, k, j, f, v)
  BY <1>1 DEF LastWord
<1>2. Told(S, k, j)
  BY <1>1 DEF Settings, Sound, Told
<1>3. FallbackTold(S, k, j)
  <2>1. "fallback" \in Settings
    BY DEF Settings
  <2>2. \A v : LastWord(S.queue, l, j, "fallback", v) => LastWord(S.queue, k, j, "fallback", v)
    BY <1>1, <2>1
  <2>. QED
    BY <2>2 DEF Sound, FallbackTold
<1>. QED
  BY <1>2, <1>3 DEF Sound

\* A call refused because lacp_state is down is for a port that is to be reset.
LEMMA RefusedResets ==
    ASSUME NEW S, NEW l, IsLport(l), NEW c, NEW j, Sound(S, l, c, j), l.up,
           S.ifs[j].enabled = FALSE
    PROVE  ResetPends(S.queue, j)
  BY DisabledIsDown DEF Sound

\* A port that joins a trunk, opens its egress or leaves: it is served, or will be.
LEMMA MachineSound ==
    ASSUME SoundInv, NEW i \in Ifaces, Attach(i) \/ Egress(i) \/ Detach(i)
    PROVE  AllSound' /\ CallFits'
<1>. DEFINE l == lports[i]
            k == lports'[i]
<1>1. /\ call.kind = "none" /\ UNCHANGED <<ports, ifs, hw, queue>>
      /\ lports \in [Ifaces -> Lport] /\ IsLport(l) /\ l \in Lport
      /\ ifs[i].enabled \in BOOLEAN
  <2>1. call.kind = "none" /\ UNCHANGED <<ports, ifs, hw, queue>>
    BY DEF Attach, Egress, Detach, cache
  <2>2. lports \in [Ifaces -> Lport] /\ IsLport(l)
    BY DEF SoundInv, TablesInv, MembersInv, QueueInv, Typed, TypedProto, LportInv
  <2>3. ifs[i].enabled \in BOOLEAN
    BY TypesNow DEF SoundInv, TablesInv, MembersInv, Iface
  <2>. QED
    BY <2>1, <2>2, <2>3
<1>2. UNCHANGED State
  BY <1>1 DEF State
<1>3. \A j \in Ifaces : Sound(State, lports[j], call, j)
  BY DEF SoundInv, AllSound
<1>4. ASSUME NEW j \in Ifaces
      PROVE  /\ lports[j].trunk # 0 => hw[j].rx \/ ResetPends(queue, j)
             /\ lports[j].egress => hw[j].tx \/ ResetPends(queue, j)
  BY <1>1, <1>3 DEF Sound, Served, Writes, State
<1>5. l.up => ifs[i].enabled \/ ResetPends(queue, i)
  <2>1. State.ifs[i].enabled = ifs[i].enabled /\ State.queue = queue
    BY DEF State
  <2>. QED
    BY <1>1, <1>3, <2>1, RefusedResets
<1>6. /\ \A j \in Ifaces : j # i => lports'[j] = lports[j]
      /\ \A f \in Settings : k[f] = l[f]
      /\ k.trunk # 0 => hw[i].rx \/ ResetPends(queue, i) \/ Writes(call', i, "attach")
      /\ k.egress => hw[i].tx \/ ResetPends(queue, i) \/ Writes(call', i, "egress")
      /\ CallFits'
  <2>1. CASE Attach(i)
    <3>1. PICK id \in LagIds : /\ lports' = [lports EXCEPT ![i].trunk = id]
                               /\ call' = Call("attach", i, id)
      BY <2>1 DEF Attach
    <3>2. l.up /\ l.trunk = 0
      BY <2>1 DEF Attach
    <3>3. k = [l EXCEPT !.trunk = id] /\ \A j \in Ifaces : j # i => lports'[j] = lports[j]
      BY <1>1, <3>1
    <3>4. k.egress = l.egress /\ \A f \in Settings : k[f] = l[f]
      BY <1>1, <3>3 DEF Settings, Lport
    <3>5. ~l.egress
      BY <1>1, <3>2 DEF IsLport
    <3>6. ifs[i].enabled => Writes(call', i, "attach")
      BY <3>1 DEF Call, Writes
    <3>7. call'.kind = "attach"
      BY <3>1 DEF Call
    <3>. QED
      BY <1>5, <3>2, <3>3, <3>4, <3>5, <3>6, <3>7 DEF CallFits
  <2>2. CASE Egress(i)
    <3>1. /\ lports' = [lports EXCEPT ![i].egress = TRUE] /\ l.trunk # 0
          /\ call' = Call("egress", i, lports[i].trunk)
      BY <2>2 DEF Egress
    <3>2. l.up
      BY <1>1, <3>1 DEF IsLport
    <3>3. k = [l EXCEPT !.egress = TRUE] /\ \A j \in Ifaces : j # i => lports'[j] = lports[j]
      BY <1>1, <3>1
    <3>4. k.trunk = l.trunk /\ \A f \in Settings : k[f] = l[f]
      BY <1>1, <3>3 DEF Settings, Lport
    <3>5. ifs[i].enabled => Writes(call', i, "egress")
      BY <3>1 DEF Call, Writes
    <3>6. call'.kind = "egress"
      BY <3>1 DEF Call
    <3>. QED
      BY <1>4, <1>5, <3>2, <3>3, <3>4, <3>5, <3>6 DEF CallFits
  <2>3. CASE Detach(i)
    <3>1. lports' = [lports EXCEPT ![i] = Untrunked(l)]
      BY <2>3 DEF Detach, Settle
    <3>2. call' \in {Call("detach", i, lports[i].trunk), NoCall}
      BY <2>3 DEF Detach, Settle
    <3>3. /\ k = [l EXCEPT !.trunk = 0, !.egress = FALSE]
          /\ \A j \in Ifaces : j # i => lports'[j] = lports[j]
      BY <1>1, <3>1 DEF Untrunked
    <3>4. k.trunk = 0 /\ k.egress = FALSE /\ \A f \in Settings : k[f] = l[f]
      BY <1>1, <3>3 DEF Settings, Lport
    <3>5. call'.kind = "none" \/ call'.iface = i
      BY <3>2 DEF Call, NoCall
    <3>. QED
      BY <3>3, <3>4, <3>5 DEF CallFits
  <2>. QED
    BY <2>1, <2>2, <2>3
<1>7. ASSUME NEW j \in Ifaces PROVE Sound(State', lports'[j], call', j)
  <2>1. Sound(State, lports[j], call, j)
    BY <1>3
  <2>2. \A f \in Settings : lports'[j][f] = lports[j][f]
    BY <1>6
  <2>3. Served(State, lports'[j], call', j)
    <3>1. State.hw = hw /\ State.queue = queue
      BY DEF State
    <3>2. CASE j = i
      BY <1>6, <3>1, <3>2 DEF Served
    <3>3. CASE j # i
      BY <1>4, <1>6, <3>1, <3>3 DEF Served
    <3>. QED
      BY <3>2, <3>3
  <2>4. Sound(State, lports'[j], call', j)
    BY <2>1, <2>2, <2>3, SoundMoved
  <2>. QED
    BY <1>2, <2>4
<1>. QED
  BY <1>6, <1>7 DEF AllSound

\* The protocol thread writes hw_bond_config, or who takes part.
LEMMA CallSound ==
    ASSUME SoundInv, TablesInv', CallFits, HardwareCall PROVE AllSound' /\ CallFits'
<1>0. /\ UNCHANGED <<ifs, queue, lports>> /\ State \in CState /\ State' \in CState
      /\ hw \in [Ifaces -> Flags]
  <2>1. UNCHANGED <<ifs, queue, lports>>
    BY DEF HardwareCall, CallWrites, CallReports, cache
  <2>2. hw \in [Ifaces -> Flags]
    BY TypesNow DEF SoundInv, TablesInv, MembersInv
  <2>. QED
    BY <2>1, <2>2 DEF SoundInv, TablesInv, MembersInv, QueueInv, Typed, TypedCache
<1>1. /\ State.ports = ports /\ State.ifs = ifs /\ State.hw = hw /\ State.queue = queue
      /\ State'.ports = ports' /\ State'.ifs = ifs' /\ State'.hw = hw' /\ State'.queue = queue'
  BY DEF State
<1>2. \A q \in Lags : /\ ports'[q].eligible = ports[q].eligible /\ ports'[q].mode = ports[q].mode
                      /\ ports'[q].sys = ports[q].sys /\ ports'[q].fallback = ports[q].fallback
  BY ProtocolSame DEF SameCaches, SoundInv, TablesInv, MembersInv
<1>3. CallFits'
  <2>1. call'.kind = "none" \/ (call'.kind = call.kind /\ call'.iface = call.iface)
    <3>1. CASE CallWrites
      <4>1. call' = [call EXCEPT !.at = "report"]
        BY <3>1 DEF CallWrites
      <4>2. call \in [kind : {"none", "attach", "egress", "detach"},
                 iface : Ifaces \cup {NoLag}, lag : 0..MaxLagId, allowed : BOOLEAN,
                 at : {"write", "report", "done"}]
        BY DEF SoundInv, TablesInv, MembersInv, QueueInv, Typed, TypedProto
      <4>. QED
        BY <4>1, <4>2
    <3>2. CASE CallReports
      <4>1. call' = NoCall
        BY <3>2 DEF CallReports
      <4>. QED
        BY <4>1 DEF NoCall
    <3>. QED
      BY <3>1, <3>2 DEF HardwareCall
  <2>. QED
    BY <1>0, <2>1 DEF CallFits
<1>4. ASSUME NEW j \in Ifaces PROVE Sound(State', lports'[j], call', j)
  <2>. DEFINE l == lports[j]
  <2>0. Sound(State, l, call, j) /\ IsLport(l)
    BY DEF SoundInv, AllSound, LportInv
  <2>1. \A q \in Lags : RunsIn(State', j, q) <=> RunsIn(State, j, q)
    BY <1>1, <1>2 DEF RunsIn, IsDynamic
  <2>2. ListedOnce(State', j) /\ EnabledRuns(State', j)
    BY <1>0, <1>1, <1>2, <2>0, <2>1 DEF Sound, ListedOnce, EnabledRuns
  <2>3. Told(State', l, j)
    BY <1>0, <1>1, <1>2, <2>0 DEF Sound, Told
  <2>4. FallbackTold(State', l, j)
    BY <1>0, <1>1, <1>2, <2>0, <2>1 DEF Sound, FallbackTold
  <2>5. /\ l.trunk # 0 => hw[j].rx \/ ResetPends(queue, j) \/ Writes(call, j, "attach")
        /\ l.egress => hw[j].tx \/ ResetPends(queue, j) \/ Writes(call, j, "egress")
    BY <1>1, <2>0 DEF Sound, Served
  <2>6. /\ l.trunk # 0 => hw'[j].rx \/ ResetPends(queue, j)
        /\ l.egress => hw'[j].tx \/ ResetPends(queue, j)
    <3>1. CASE CallReports
      <4>1. hw' = hw /\ call.at = "report"
        BY <3>1 DEF CallReports
      <4>. QED
        BY <2>5, <4>1 DEF Writes
    <3>2. CASE CallWrites /\ call.iface # j
      <4>1. hw'[j] = hw[j]
        BY <1>0, <3>2 DEF CallWrites
      <4>. QED
        BY <2>5, <3>2, <4>1 DEF Writes
    <3>3. CASE CallWrites /\ call.iface = j /\ call.kind = "attach"
      <4>1. hw'[j] = [hw[j] EXCEPT !.rx = TRUE]
        BY <1>0, <3>3 DEF CallWrites
      <4>2. hw'[j].rx /\ hw'[j].tx = hw[j].tx
        BY <1>0, <4>1 DEF Flags
      <4>. QED
        BY <2>5, <3>3, <4>2 DEF Writes
    <3>4. CASE CallWrites /\ call.iface = j /\ call.kind = "egress"
      <4>1. hw'[j] = [hw[j] EXCEPT !.tx = TRUE]
        BY <1>0, <3>4 DEF CallWrites
      <4>2. hw'[j].tx /\ hw'[j].rx = hw[j].rx
        BY <1>0, <4>1 DEF Flags
      <4>. QED
        BY <2>5, <3>4, <4>2 DEF Writes
    <3>5. CASE CallWrites /\ call.iface = j /\ call.kind = "detach"
      <4>1. l.trunk = 0
        BY <3>5 DEF CallFits
      <4>. QED
        BY <2>0, <4>1 DEF IsLport
    <3>6. CallWrites => call.kind \in {"attach", "egress", "detach"}
      BY DEF CallWrites, SoundInv, TablesInv, MembersInv, QueueInv, Typed, TypedProto, CallOK
    <3>. QED
      BY <3>1, <3>2, <3>3, <3>4, <3>5, <3>6 DEF HardwareCall
  <2>7. Served(State', l, call', j)
    BY <1>0, <1>1, <2>6 DEF Served
  <2>8. Sound(State', l, call', j)
    BY <2>2, <2>3, <2>4, <2>7 DEF Sound
  <2>. QED
    BY <1>0, <2>8
<1>. QED
  BY <1>3, <1>4 DEF AllSound
-----------------------------------------------------------------------------
(* Every step. *)

\* What the proofs about both threads rest on.
FlowInv == SoundInv /\ CallFits

\* lacpd as it starts: nobody runs, and nobody is told to.
LEMMA FreshSound ==
    ASSUME ports = [p \in Lags |-> NoPort], ifs = [i \in Ifaces |-> NoIface], queue = <<>>,
           lports = [i \in Ifaces |-> NoLport], call = NoCall, task = Idle
    PROVE  AllSound /\ Walked /\ CallFits /\ LportInv
<1>1. ASSUME NEW j \in Ifaces PROVE Sound(State, lports[j], call, j)
  <2>1. /\ State.ifs[j] = NoIface /\ State.queue = <<>> /\ lports[j] = NoLport
        /\ \A q \in Lags : State.ports[q] = NoPort
    BY DEF State
  <2>2. /\ NoIface.eligible = FALSE /\ NoIface.enabled = FALSE /\ NoPort.eligible = {}
        /\ NoLport.up = FALSE /\ NoLport.trunk = 0 /\ NoLport.egress = FALSE
    BY DEF NoIface, NoPort, NoLport
  <2>3. \A q \in Lags : ~RunsIn(State, j, q) /\ j \notin State.ports[q].eligible
    BY <2>1, <2>2 DEF RunsIn
  <2>4. ListedOnce(State, j) /\ EnabledRuns(State, j)
    BY <2>1, <2>2, <2>3 DEF ListedOnce, EnabledRuns
  <2>5. LastWord(<<>>, NoLport, j, "up", FALSE)
    <3>1. Len(<<>>) = 0
      OBVIOUS
    <3>. QED
      BY <2>2, <3>1 DEF LastWord
  <2>6. Told(State, lports[j], j) /\ FallbackTold(State, lports[j], j)
    BY <2>1, <2>2, <2>5 DEF Told, FallbackTold
  <2>7. Served(State, lports[j], call, j)
    BY <2>1, <2>2 DEF Served
  <2>. QED
    BY <2>4, <2>6, <2>7 DEF Sound
<1>2. Walked
  BY DEF Walked, Idle
<1>3. CallFits
  BY DEF CallFits, NoCall
<1>4. LportInv
  <2>1. IsLport(NoLport)
    BY DEF NoLport, IsLport, IsRecord, LportFields
  <2>. QED
    BY <2>1 DEF LportInv
<1>. QED
  BY <1>1, <1>2, <1>3, <1>4 DEF AllSound

\* The steps of lacpd_run.
LEMMA RunSound == ASSUME FlowInv, TablesInv', lacpd_run PROVE AllSound' /\ CallFits'
<1>0. SoundInv
  BY DEF FlowInv
<1>1. UNCHANGED <<lports, call>>
  BY DEF lacpd_run, proto, BeginRun, add_new_interface, update_interface,
          RemoveMember, MakeIneligible, AddMember, UpdateMember, del_old_port, add_new_port,
          StartPort, CompareMode, TurnOn, SwitchMode, TurnOff, StartEligible, FinishPort, EndRun
<1>2. CallFits'
  BY <1>1 DEF FlowInv, CallFits
<1>3. CASE BeginRun \/ EndRun \/ CompareMode \/ StartEligible
  <2>1. UNCHANGED State
    BY <1>3 DEF BeginRun, EndRun, CompareMode, StartEligible, State
  <2>. QED
    BY <1>0, <1>1, <1>2, <2>1, SoundStays
<1>4. CASE ~(BeginRun \/ EndRun \/ CompareMode \/ StartEligible)
  BY <1>0, <1>2, <1>4, NewInterfaceSound, InterfaceSound, RemoveSound, IneligibleSound, AddSound,
     UpdateMemberSound, DeletedSound, NewPortSound, StartSound, ModeSound, FinishSound
     DEF lacpd_run
<1>. QED
  BY <1>3, <1>4

\* Eligibility is not membership.
LEMMA UpdateKeepsLists ==
    ASSUME TablesInv, NEW i \in Ifaces, UpdateMember(i), NEW q \in Lags
    PROVE  ports'[q].cfg = ports[q].cfg
<1>1. /\ task.at = "eligible" /\ task.port \in Lags
  BY MemberHand DEF TablesInv, HandStep
<1>2. State' = update_interface_lag_eligibility(Updated(i), i)
  BY UpdateTables
<1>3. /\ Updated(i) \in CState /\ Elsewhere(State, Updated(i), i)
      /\ SameEntry(ifs[i], Updated(i).ifs[i])
  BY <1>1, UpdatedEntry
<1>4. Elsewhere(Updated(i), State', i)
  <2>1. lag_id \in [Lags -> 0..MaxLagId]
    BY TypesNow DEF TablesInv, MembersInv
  <2>2. Updated(i).ifs[i].port \in Lags => Updated(i).ifs[i].key # NoLag
    BY <1>3, MemberHasKey DEF SameEntry
  <2>. QED
    BY <1>2, <1>3, <2>1, <2>2, UpdateEntry
<1>. QED
  BY <1>3, <1>4 DEF Elsewhere, SameLags, State

\* The last walk stays one over members.
LEMMA WalkedNext == ASSUME SoundInv, [Next]_vars, [CarefulStep]_vars PROVE Walked'
<1>0. TablesInv /\ Walked /\ task \in Task
  BY TypesNow DEF SoundInv, TablesInv, MembersInv
<1>1. CASE StartEligible
  BY <1>0, <1>1 DEF StartEligible, Walked, Task
<1>2. ASSUME NEW i \in Ifaces, UpdateMember(i) PROVE Walked'
  <2>1. /\ task.at = "eligible" /\ task' = [task EXCEPT !.members = @ \ {i}]
    BY <1>2 DEF UpdateMember, Walk
  <2>2. task'.at = "eligible" /\ task'.members = task.members \ {i} /\ task'.port = task.port
    BY <1>0, <2>1 DEF Task
  <2>3. task.port \in Lags
    BY <1>0, <2>1, MemberTypes DEF TablesInv, MembersInv, PortSteps
  <2>4. ports'[task.port].cfg = ports[task.port].cfg
    BY <1>0, <1>2, <2>3, UpdateKeepsLists
  <2>. QED
    BY <1>0, <2>1, <2>2, <2>4 DEF Walked
<1>3. CASE Receive \/ Machines \/ HardwareCall
  <2>1. SameCaches
    BY <1>0, <1>3, ProtocolSame DEF TablesInv, MembersInv
  <2>2. task.at = "eligible" => task.port \in Lags
    BY <1>0, MemberTypes DEF TablesInv, MembersInv, PortSteps
  <2>. QED
    BY <1>0, <2>1, <2>2 DEF Walked, SameCaches
<1>4. CASE UNCHANGED vars
  BY <1>0, <1>4 DEF Walked, vars, cache
<1>5. CASE Administration
  <2>1. Restart \/ \E command : Edit(command)
    BY <1>5 DEF Administration, vtysh_intf_link_aggregation, delete_lag, lacp_set_mode,
         lacp_set_fallback, lacp_set_heartbeat_rate, SetSystemId, lacp_add_intf_to_lag,
         lacp_remove_intf_from_lag, LinkChanges, EditPort
  <2>2. task'.at = "idle"
    BY <2>1 DEF Restart, Started, Edit, cache, Idle
  <2>. QED
    BY <2>2 DEF Walked
<1>6. CASE lacpd_run /\ ~StartEligible /\ \A i \in Ifaces : ~UpdateMember(i)
  <2>1. task'.at # "eligible"
    <3>1. CASE BeginRun \/ EndRun \/ FinishPort
      <4>1. task'.at \in {"run", "idle"}
        <5>1. CASE BeginRun
          BY <5>1 DEF BeginRun, Idle
        <5>2. CASE EndRun
          BY <5>2 DEF EndRun, Idle
        <5>3. CASE FinishPort
          <6>1. task' = [Idle EXCEPT !.at = "run", !.ports = task.ports]
            BY <5>3 DEF FinishPort
          <6>. QED
            BY <6>1 DEF Idle
        <5>. QED
          BY <3>1, <5>1, <5>2, <5>3
      <4>. QED
        BY <4>1
    <3>2. ASSUME NEW i \in Ifaces, add_new_interface(i) \/ update_interface(i) PROVE task'.at # "eligible"
      BY <1>0, <3>2 DEF add_new_interface, update_interface, Walk, Task
    <3>3. ASSUME NEW i \in Ifaces, RemoveMember(i) \/ MakeIneligible(i) \/ AddMember(i)
          PROVE task'.at # "eligible"
      BY <1>0, <3>3 DEF RemoveMember, MakeIneligible, AddMember, Walk, Task
    <3>4. ASSUME NEW p \in Lags, del_old_port(p) \/ add_new_port(p) \/ StartPort(p)
          PROVE task'.at # "eligible"
      BY <1>0, <3>4 DEF del_old_port, add_new_port, StartPort, Task
    <3>5. CASE CompareMode \/ TurnOn \/ SwitchMode \/ TurnOff
      <4>1. \A p, m, s : ToAdded(p, m, s).at = "added"
        BY <1>0 DEF ToAdded, Task
      <4>2. CASE CompareMode
        BY <1>0, <4>1, <4>2 DEF CompareMode, Task
      <4>3. CASE TurnOn \/ SwitchMode \/ TurnOff
        <5>1. \E p, m, s : task' = ToAdded(p, m, s)
          <6>1. CASE TurnOn
            BY <6>1 DEF TurnOn
          <6>2. CASE SwitchMode
            BY <6>2 DEF SwitchMode
          <6>3. CASE TurnOff
            BY <6>3 DEF TurnOff
          <6>. QED
            BY <4>3, <6>1, <6>2, <6>3
        <5>. QED
          BY <4>1, <5>1
      <4>. QED
        BY <3>5, <4>2, <4>3
    <3>. QED
      BY <1>6, <3>1, <3>2, <3>3, <3>4, <3>5 DEF lacpd_run
  <2>. QED
    BY <2>1 DEF Walked
<1>. QED
  BY <1>1, <1>2, <1>3, <1>4, <1>5, <1>6 DEF Next

\* Every step preserves the invariant.
LEMMA FlowNext == FlowInv /\ [Next]_vars /\ [CarefulStep]_vars => FlowInv'
<1>. SUFFICES ASSUME FlowInv, [Next]_vars, [CarefulStep]_vars PROVE FlowInv'
  OBVIOUS
<1>0. SoundInv /\ CallFits
  BY DEF FlowInv
<1>1. TablesInv'
  BY <1>0, TablesNext DEF SoundInv
<1>2. LportInv'
  BY <1>0, NextMoves DEF SoundInv
<1>3. Walked'
  BY <1>0, WalkedNext
<1>4. AllSound' /\ CallFits'
  <2>1. CASE lacpd_run
    BY <1>1, <2>1, RunSound
  <2>2. CASE Receive
    <3>1. CallFits'
      <4>1. ASSUME NEW j \in Ifaces PROVE CallFits'
        BY <1>0, <2>2, MessageObeyed
      <4>. QED
        BY <4>1 DEF CallFits
    <3>. QED
      BY <1>0, <1>1, <2>2, <3>1, ReceiveSound
  <2>3. CASE Machines
    BY <1>0, <2>3, MachineSound DEF Machines
  <2>4. CASE HardwareCall
    BY <1>0, <1>1, <2>4, CallSound
  <2>5. CASE UNCHANGED vars \/ \E command : Edit(command)
    <3>1. UNCHANGED <<ports, ifs, hw, queue, lports, call>>
      BY <2>5 DEF vars, cache, proto, Edit
    <3>2. UNCHANGED State
      BY <3>1 DEF State
    <3>. QED
      BY <1>0, <3>1, <3>2, SoundStays DEF CallFits
  <2>6. CASE Restart
    <3>1. /\ (ports = [p \in Lags |-> NoPort])' /\ (ifs = [i \in Ifaces |-> NoIface])'
          /\ (queue = <<>>)' /\ (lports = [i \in Ifaces |-> NoLport])' /\ (call = NoCall)'
          /\ (task = Idle)'
      BY <2>6 DEF Restart, Started
    <3>. QED
      BY <3>1, FreshSound, PTL
  <2>7. CASE Administration
    <3>1. Restart \/ \E command : Edit(command)
      BY <2>7 DEF Administration, vtysh_intf_link_aggregation, delete_lag, lacp_set_mode,
           lacp_set_fallback, lacp_set_heartbeat_rate, SetSystemId, lacp_add_intf_to_lag,
           lacp_remove_intf_from_lag, LinkChanges, EditPort
    <3>. QED
      BY <2>5, <2>6, <3>1
  <2>. QED
    BY <2>1, <2>2, <2>3, <2>4, <2>5, <2>7 DEF Next
<1>. QED
  BY <1>1, <1>2, <1>3, <1>4 DEF FlowInv, SoundInv

\* It holds when lacpd starts.
LEMMA FlowInit == Init /\ RowsApart => FlowInv
  BY TablesInit, FreshSound DEF Init, FlowInv, SoundInv

-----------------------------------------------------------------------------
(* At rest. *)

\* A port that does not run has no fallback.
FallbackRuns == \A i \in Ifaces : lports[i].fallback => lports[i].up

\* A port keeps fallback only while it runs, whatever it is told.
LEMMA FallbackObeyed ==
    ASSUME NEW m \in LportMsg, NEW l \in Lport, NEW k, Obeys(m, l, k), l.fallback => l.up
    PROVE  k.fallback => k.up
<1>1. CASE m.type = "config"
  BY <1>1 DEF Obeys, Configured, NoLport
<1>2. CASE m.type = "update"
  <2>1. k = NoLport \/ k = l \/ k = [l EXCEPT !.fast = m.fast]
    BY <1>2 DEF Obeys
  <2>. QED
    BY <2>1 DEF NoLport, Lport
<1>3. CASE m.type = "link"
  <2>1. k = l \/ k = [l EXCEPT !.link = m.link, !.trunk = 0, !.egress = FALSE]
    BY <1>3 DEF Obeys, Untrunked
  <2>. QED
    BY <2>1 DEF Lport
<1>4. CASE m.type = "fallback"
  <2>1. k = IF l.up THEN [l EXCEPT !.fallback = m.on] ELSE l
    BY <1>4 DEF Obeys
  <2>. QED
    BY <2>1 DEF Lport
<1>5. CASE m.type = "overrides"
  <2>1. k = l \/ k = [l EXCEPT !.sys = m.sys]
    BY <1>5 DEF Obeys
  <2>. QED
    BY <2>1 DEF Lport
<1>. QED
  BY <1>1, <1>2, <1>3, <1>4, <1>5 DEF Obeys

\* Every step keeps it so.
LEMMA FallbackNext ==
    ASSUME SoundInv, FallbackRuns, [Next]_vars PROVE FallbackRuns'
<1>0. lports \in [Ifaces -> Lport]
  BY DEF SoundInv, TablesInv, MembersInv, QueueInv, Typed, TypedProto
<1>1. CASE Receive
  <2>1. ASSUME NEW j \in Ifaces PROVE lports'[j].fallback => lports'[j].up
    <3>1. \/ lports'[j] = lports[j]
          \/ /\ Head(queue) \in LportMsg /\ Obeys(Head(queue), lports[j], lports'[j])
      BY <1>1, MessageObeyed
    <3>2. lports[j].fallback => lports[j].up
      BY DEF FallbackRuns
    <3>3. lports[j] \in Lport
      BY <1>0
    <3>. QED
      BY <3>1, <3>2, <3>3, FallbackObeyed
  <2>. QED
    BY <2>1 DEF FallbackRuns
<1>2. ASSUME NEW i \in Ifaces, Attach(i) \/ Egress(i) \/ Detach(i) PROVE FallbackRuns'
  <2>. DEFINE l == lports[i]
  <2>1. PICK k : /\ lports' = [lports EXCEPT ![i] = k]
                 /\ \/ \E id : k = [l EXCEPT !.trunk = id]
                    \/ k = [l EXCEPT !.egress = TRUE]
                    \/ k = [l EXCEPT !.trunk = 0, !.egress = FALSE]
    <3>1. CASE Attach(i)
      BY <3>1 DEF Attach
    <3>2. CASE Egress(i)
      BY <3>2 DEF Egress
    <3>3. CASE Detach(i)
      BY <3>3 DEF Detach, Settle, Untrunked
    <3>. QED
      BY <1>2, <3>1, <3>2, <3>3
  <2>2. k.up = l.up /\ k.fallback = l.fallback
    BY <1>0, <2>1 DEF Lport
  <2>3. \A j \in Ifaces : lports'[j] = IF j = i THEN k ELSE lports[j]
    BY <1>0, <2>1
  <2>. QED
    BY <2>2, <2>3 DEF FallbackRuns
<1>3. CASE Restart
  <2>1. lports' = [i \in Ifaces |-> NoLport]
    BY <1>3 DEF Restart, Started
  <2>. QED
    BY <2>1 DEF FallbackRuns, NoLport
<1>4. CASE lacpd_run \/ HardwareCall \/ UNCHANGED vars \/ \E command : Edit(command)
  <2>1. UNCHANGED lports
    BY <1>4 DEF lacpd_run, HardwareCall, vars, proto, BeginRun, add_new_interface, update_interface,
          RemoveMember, MakeIneligible, AddMember, UpdateMember, del_old_port, add_new_port,
          StartPort, CompareMode, TurnOn, SwitchMode, TurnOff, StartEligible, FinishPort, EndRun,
          CallWrites, CallReports, Edit
  <2>. QED
    BY <2>1 DEF FallbackRuns
<1>5. CASE Administration
  <2>1. Restart \/ \E command : Edit(command)
    BY <1>5 DEF Administration, vtysh_intf_link_aggregation, delete_lag, lacp_set_mode,
         lacp_set_fallback, lacp_set_heartbeat_rate, SetSystemId, lacp_add_intf_to_lag,
         lacp_remove_intf_from_lag, LinkChanges, EditPort
  <2>. QED
    BY <1>3, <1>4, <2>1
<1>. QED
  BY <1>1, <1>2, <1>3, <1>4, <1>5 DEF Next, Machines

\* At rest lacp_state says who runs LACP: the members of the dynamic LAGs, which are as
\* their rows say.
LEMMA AtRest ==
    ASSUME FlowInv, Quiet, NEW i \in Ifaces
    PROVE  /\ lports[i].up = ifs[i].enabled
           /\ ifs[i].enabled => \E p \in Lags :
                 /\ p \in Home(i) /\ Dynamic(p) /\ ifs[i].port = p /\ RunsIn(State, i, p)
                 /\ ports[p].mode = rows[p].lacp /\ ports[p].fast = rows[p].fast
                 /\ ports[p].sys = rows[p].sys /\ ports[p].fallback = rows[p].fallback
           /\ (\E p \in Home(i) : Dynamic(p)) => ifs[i].enabled
<1>0. /\ SoundInv /\ TablesInv /\ Sound(State, lports[i], call, i) /\ task.at = "idle"
      /\ queue = <<>> /\ changed.ports = {} /\ changed.ifs = {} /\ call.kind = "none"
      /\ State.queue = queue /\ State.ports = ports /\ State.ifs = ifs
  BY DEF FlowInv, SoundInv, AllSound, Quiet, State
<1>1. lports[i].up = ifs[i].enabled
  <2>1. LastWord(<<>>, lports[i], i, "up", ifs[i].enabled)
    BY <1>0 DEF Sound, Told
  <2>2. lports[i]["up"] = ifs[i].enabled
    BY <2>1, NoMoreWords
  <2>. QED
    BY <2>2
<1>2. recent = {} /\ \A p \in Lags : ~Pends(p)
  BY <1>0 DEF TablesInv, MembersInv, Underway, RecentAreHome, Pends
<1>3. ASSUME NEW p \in Lags, i \in ports[p].cfg, IsDynamic(ports[p])
      PROVE  /\ p \in Home(i) /\ Dynamic(p) /\ ifs[i].port = p
             /\ ports[p].mode = rows[p].lacp /\ ports[p].fast = rows[p].fast
             /\ ports[p].sys = rows[p].sys /\ ports[p].fallback = rows[p].fallback
  <2>1. ports[p].cached /\ rows[p].present
    BY <1>0, <1>3 DEF TablesInv, MembersInv, Belongs, MembersAreCached
  <2>2. ports[p].cfg = rows[p].members
    BY <1>0, <2>1 DEF TablesInv, MembersInv, Underway, DifferencesPend, PortSteps
  <2>3. /\ ports[p].mode = rows[p].lacp /\ ports[p].fast = rows[p].fast
        /\ rows[p].lacp # "off" =>
              ports[p].sys = rows[p].sys /\ ports[p].fallback = rows[p].fallback
    BY <1>0, <1>2, <2>1 DEF TablesInv, Tables, RowsTold
  <2>4. ifs[i].port = p
    BY <1>0, <1>2, <1>3 DEF TablesInv, MembersInv, Belongs, Placed
  <2>. QED
    BY <1>3, <2>1, <2>2, <2>3, <2>4 DEF Home, Dynamic, IsDynamic
<1>4. ASSUME ifs[i].enabled
      PROVE  \E p \in Lags :
                 /\ p \in Home(i) /\ Dynamic(p) /\ ifs[i].port = p /\ RunsIn(State, i, p)
                 /\ ports[p].mode = rows[p].lacp /\ ports[p].fast = rows[p].fast
                 /\ ports[p].sys = rows[p].sys /\ ports[p].fallback = rows[p].fallback
  <2>1. PICK q \in Lags : i \in ports[q].eligible /\ IsDynamic(ports[q]) /\ i \in ports[q].cfg
    BY <1>0, <1>4, EnabledIsListed
  <2>2. RunsIn(State, i, q)
    BY <1>0, <2>1 DEF RunsIn
  <2>. QED
    BY <1>3, <2>1, <2>2
<1>5. ASSUME NEW p \in Home(i), Dynamic(p) PROVE ifs[i].enabled
  <2>1. p \in Lags /\ rows[p].present /\ i \in rows[p].members /\ rows[p].lacp # "off"
    BY <1>5 DEF Home, Dynamic
  <2>2. ports[p].cached
    BY <1>0, <1>2, <2>1 DEF TablesInv, Tables, RowsTold
  <2>3. i \in ports[p].cfg
    BY <1>0, <2>1, <2>2 DEF TablesInv, MembersInv, Underway, DifferencesPend, PortSteps
  <2>4. IsDynamic(ports[p])
    BY <1>0, <1>2, <2>1, <2>2 DEF TablesInv, Tables, RowsTold, IsDynamic
  <2>5. ~Waits(i, p)
    <3>1. ASSUME NEW q \in Lags, q # p PROVE i \notin ports[q].cfg \/ ifs[i].port # p
      BY <1>0, <1>2, <3>1 DEF TablesInv, MembersInv, Belongs, Placed
    <3>. QED
      BY <1>0, <3>1 DEF Waits
  <2>6. i \in ports[p].eligible
    BY <1>0, <2>1, <2>3, <2>4, <2>5 DEF TablesInv, MembersInv, Underway, MembersRun
  <2>. QED
    BY <1>0, <2>1, <2>4, <2>6 DEF Sound, EnabledRuns, RunsIn
<1>. QED
  BY <1>1, <1>4, <1>5

\* At rest a port in a trunk is enabled in hardware.
LEMMA ServedAtRest == ASSUME FlowInv PROVE HardwareServesTrunk
<1>1. SUFFICES ASSUME Quiet, NEW i \in Ifaces
               PROVE  (lports[i].trunk # 0 => hw[i].rx) /\ (lports[i].egress => hw[i].tx)
  BY DEF HardwareServesTrunk
<1>2. Served(State, lports[i], call, i) /\ State.hw = hw /\ State.queue = <<>> /\ call.kind = "none"
  BY <1>1 DEF FlowInv, SoundInv, AllSound, Sound, Quiet, State
<1>3. ~ResetPends(<<>>, i)
  <2>1. Len(<<>>) = 0
    OBVIOUS
  <2>. QED
    BY <2>1 DEF ResetPends
<1>. QED
  BY <1>2, <1>3 DEF Served, Writes

\* At rest only a member of a LAG with fallback has it.
LEMMA FallbackAtRest == ASSUME FlowInv, FallbackRuns PROVE FallbackIsAllowed
<1>1. SUFFICES ASSUME Quiet, NEW i \in Ifaces, lports[i].fallback
               PROVE  \E p \in Home(i) : Dynamic(p) /\ rows[p].fallback
  BY DEF FallbackIsAllowed
<1>2. ifs[i].enabled
  BY <1>1, AtRest DEF FallbackRuns
<1>3. PICK p \in Lags :
         /\ p \in Home(i) /\ Dynamic(p) /\ ifs[i].port = p /\ RunsIn(State, i, p)
         /\ ports[p].fallback = rows[p].fallback
  BY <1>1, <1>2, AtRest
<1>4. /\ State.queue = <<>> /\ State.ports = ports /\ State.ifs = ifs
      /\ Sound(State, lports[i], call, i)
  BY <1>1 DEF FlowInv, SoundInv, AllSound, Quiet, State
<1>5. ~LastWord(State.queue, lports[i], i, "fallback", FALSE)
  BY <1>1, <1>4, NoMoreWords
<1>6. PICK q \in Lags : RunsIn(State, i, q) /\ (ports[q].fallback \/ ifs[i].port # q)
  BY <1>2, <1>4, <1>5 DEF Sound, FallbackTold
<1>7. q = p
  BY <1>3, <1>4, <1>6 DEF Sound, ListedOnce, RunsIn
<1>. QED
  BY <1>3, <1>6, <1>7
-----------------------------------------------------------------------------
(* The rate. *)

\* An interface that runs in its LAG has its LAG's rate.
RateTold(S, i) ==
    \A q \in Lags : S.ifs[i].port = q /\ RunsIn(S, i, q) => S.ifs[i].fast = S.ports[q].fast

\* It will be told of the rate its LAG has just taken.
Untimed(i) ==
    /\ task.at \in PortSteps /\ ifs[i].port = task.port /\ task.timed
    /\ task.at = "eligible" => i \in task.members

\* One or the other.
Rates == \A i \in Ifaces : RateTold(State, i) \/ Untimed(i)

\* What happens to another interface says nothing of its rate.
LEMMA RateElsewhere ==
    ASSUME NEW S, NEW T, NEW i, NEW j \in Ifaces, j # i, Elsewhere(S, T, i), RateTold(S, j)
    PROVE  RateTold(T, j)
<1>1. /\ \A q \in Lags : /\ j \in T.ports[q].eligible <=> j \in S.ports[q].eligible
                         /\ T.ports[q].mode = S.ports[q].mode /\ T.ports[q].fast = S.ports[q].fast
      /\ T.ifs[j] = S.ifs[j]
  BY DEF Elsewhere, SameLags
<1>. QED
  BY <1>1 DEF RateTold, RunsIn, IsDynamic

\* Eligibility gives an interface the rate of its LAG.
LEMMA RateUpdate ==
    ASSUME NEW S \in CState, NEW i \in Ifaces, lag_id \in [Lags -> 0..MaxLagId],
           S.ifs[i].port \in Lags => S.ifs[i].key # NoLag, RateTold(S, i),
           NEW T, T = update_interface_lag_eligibility(S, i)
    PROVE  RateTold(T, i)
<1>1. S.ifs[i].port \in Lags \cup {NoLag}
  BY DEF CState, Iface
<1>2. CASE S.ifs[i].port = NoLag
  <2>1. T = S
    BY <1>2 DEF update_interface_lag_eligibility
  <2>. QED
    BY <2>1
<1>3. CASE S.ifs[i].port \in Lags
  <2>1. PICK p \in Lags : p = S.ifs[i].port
    BY <1>3
  <2>2. PICK e \in BOOLEAN : IF e # (i \in S.ports[p].eligible) /\ e # S.ifs[i].eligible
                             THEN Settled(S, T, p, i, e) ELSE Calm(S, T)
    BY <2>1, UpdateEligibilityDoes
  <2>3. CASE Settled(S, T, p, i, e)
    <3>1. /\ T.ifs[i].port = p /\ T.ports[p].mode = S.ports[p].mode
          /\ T.ports[p].fast = S.ports[p].fast
      BY <2>1, <2>3 DEF Settled, Elsewhere, SameLags
    <3>2. IsDynamic(S.ports[p]) => T.ifs[i].fast = S.ports[p].fast
      BY <2>3 DEF Settled
    <3>. QED
      BY <3>1, <3>2 DEF RateTold, RunsIn, IsDynamic
  <2>4. CASE Calm(S, T)
    <3>1. /\ \A q \in Lags : /\ T.ports[q].eligible = S.ports[q].eligible
                             /\ T.ports[q].mode = S.ports[q].mode
                             /\ T.ports[q].fast = S.ports[q].fast
          /\ T.ifs = S.ifs
      BY <2>4 DEF Calm, SameLags, SameMarks
    <3>. QED
      BY <3>1 DEF RateTold, RunsIn, IsDynamic
  <2>. QED
    BY <2>2, <2>3, <2>4
<1>. QED
  BY <1>1, <1>2, <1>3

\* An interface that is not eligible has no rate to be told of.
LEMMA IneligibleRate ==
    ASSUME NEW S, NEW i, ListedOnce(S, i), S.ifs[i].eligible = FALSE PROVE RateTold(S, i)
  BY DEF ListedOnce, RateTold, RunsIn

\* A step that is none of its business.
LEMMA RateAside ==
    ASSUME NEW j \in Ifaces, RateTold(State, j),
           \A q \in Lags : j \in ports'[q].eligible =>
              /\ j \in ports[q].eligible
              /\ ports'[q].mode = ports[q].mode /\ ports'[q].fast = ports[q].fast,
           ifs'[j].port = ifs[j].port, ifs'[j].fast = ifs[j].fast
    PROVE  RateTold(State, j)'
<1>1. /\ State.ports = ports /\ State.ifs = ifs /\ State'.ports = ports' /\ State'.ifs = ifs'
  BY DEF State
<1>2. ASSUME NEW q \in Lags, State'.ifs[j].port = q, RunsIn(State', j, q)
      PROVE  State'.ifs[j].fast = State'.ports[q].fast
  <2>1. j \in ports'[q].eligible /\ ports'[q].mode # "off"
    BY <1>1, <1>2 DEF RunsIn, IsDynamic
  <2>2. /\ j \in ports[q].eligible /\ ports'[q].mode = ports[q].mode
        /\ ports'[q].fast = ports[q].fast
    BY <2>1
  <2>3. RunsIn(State, j, q)
    BY <1>1, <2>1, <2>2 DEF RunsIn, IsDynamic
  <2>4. ifs[j].fast = ports[q].fast
    BY <1>1, <1>2, <2>3 DEF RateTold
  <2>. QED
    BY <1>1, <2>2, <2>4
<1>3. \A q \in Lags : State'.ifs[j].port = q /\ RunsIn(State', j, q) =>
          State'.ifs[j].fast = State'.ports[q].fast
  BY <1>2
<1>. QED
  BY <1>3 DEF RateTold

\* It still will be told after a walk past another.
LEMMA StillUntimed ==
    ASSUME NEW j, Untimed(j), HandStep, ifs'[j].port = ifs[j].port,
           task.at = "eligible" => j \in task'.members
    PROVE  Untimed(j)'
  BY DEF Untimed, HandStep

\* A walk past i.
LEMMA RateWalk ==
    ASSUME Rates, NEW i \in Ifaces, HandStep, task'.members = task.members \ {i},
           Elsewhere(State, State', i), RateTold(State, i)' \/ Untimed(i)'
    PROVE  Rates'
<1>1. ASSUME NEW j \in Ifaces, j # i PROVE RateTold(State, j)' \/ Untimed(j)'
  <2>1. CASE RateTold(State, j)
    <3>1. RateTold(State', j)
      BY <1>1, <2>1, RateElsewhere
    <3>. QED
      BY <3>1 DEF RateTold
  <2>2. CASE Untimed(j)
    <3>1. ifs'[j].port = ifs[j].port
      BY <1>1 DEF Elsewhere, State
    <3>2. task.at = "eligible" => j \in task'.members
      BY <1>1, <2>2 DEF Untimed
    <3>. QED
      BY <2>2, <3>1, <3>2, StillUntimed
  <2>. QED
    BY <1>1, <2>1, <2>2 DEF Rates
<1>. QED
  BY <1>1 DEF Rates

\* A step that leaves the rates and the LAGs of the interfaces alone.
LEMMA RateStep ==
    ASSUME Rates,
           \A q \in Lags : \A j \in ports'[q].eligible :
              /\ j \in ports[q].eligible
              /\ ports'[q].mode = ports[q].mode /\ ports'[q].fast = ports[q].fast,
           \A j \in Ifaces : ifs'[j].port = ifs[j].port /\ ifs'[j].fast = ifs[j].fast,
           \A j \in Ifaces : Untimed(j) => Untimed(j)'
    PROVE  Rates'
<1>1. ASSUME NEW j \in Ifaces PROVE RateTold(State, j)' \/ Untimed(j)'
  <2>1. CASE Untimed(j)
    BY <2>1
  <2>2. CASE RateTold(State, j)
    BY <2>2, RateAside
  <2>. QED
    BY <2>1, <2>2 DEF Rates
<1>. QED
  BY <1>1 DEF Rates

\* The protocol thread, the administrator, and the passes of the run.
LEMMA PassRates ==
    ASSUME FlowInv, Rates,
           \/ Receive \/ Machines \/ HardwareCall \/ UNCHANGED vars \/ \E command : Edit(command)
           \/ BeginRun \/ EndRun \/ CompareMode \/ StartEligible
    PROVE  Rates'
<1>0. TablesInv /\ QueueInv /\ task \in Task /\ (task.at \in PortSteps => task.port \in Lags)
  BY TypesNow DEF FlowInv, SoundInv, TablesInv, MembersInv
<1>1. CASE Receive \/ Machines \/ HardwareCall
  <2>1. SameCaches
    BY <1>0, <1>1, ProtocolSame
  <2>2. \A j \in Ifaces : Untimed(j) => Untimed(j)'
    BY <2>1 DEF SameCaches, Untimed
  <2>. QED
    BY <2>1, <2>2, RateStep DEF SameCaches
<1>2. CASE UNCHANGED vars \/ \E command : Edit(command)
  <2>1. UNCHANGED <<ports, ifs, task>>
    BY <1>2 DEF vars, cache, Edit
  <2>2. \A j \in Ifaces : Untimed(j) => Untimed(j)'
    BY <2>1 DEF Untimed
  <2>. QED
    BY <2>1, <2>2, RateStep
<1>3. CASE BeginRun \/ EndRun \/ CompareMode \/ StartEligible
  <2>1. UNCHANGED <<ports, ifs>>
    BY <1>3 DEF BeginRun, EndRun, CompareMode, StartEligible
  <2>2. ASSUME NEW j \in Ifaces, Untimed(j) PROVE Untimed(j)'
    <3>1. task.at \in PortSteps /\ ifs[j].port = task.port /\ task.timed /\ task.port \in Lags
      BY <1>0, <2>2 DEF Untimed
    <3>2. CASE CompareMode
      <4>1. task'.at \in {"added", "mode"} /\ task'.port = task.port /\ task'.timed = task.timed
        BY <1>0, <3>2 DEF CompareMode, ToAdded, Task
      <4>. QED
        BY <2>1, <3>1, <4>1 DEF Untimed, PortSteps
    <3>3. CASE StartEligible
      <4>1. /\ task'.at = "eligible" /\ task'.port = task.port /\ task'.timed = task.timed
            /\ task'.members = ports[task.port].cfg
        BY <1>0, <3>3 DEF StartEligible, Task
      <4>2. j \in ports[task.port].cfg
        BY <1>0, <3>1, MemberHasKey
      <4>. QED
        BY <2>1, <3>1, <4>1, <4>2 DEF Untimed, PortSteps
    <3>4. ~BeginRun /\ ~EndRun
      BY <3>1 DEF BeginRun, EndRun, PortSteps
    <3>. QED
      BY <1>3, <3>2, <3>3, <3>4
  <2>. QED
    BY <2>1, <2>2, RateStep
<1>. QED
  BY <1>1, <1>2, <1>3

\* lacpd as it starts.
LEMMA FreshRates == ASSUME ports = [p \in Lags |-> NoPort] PROVE Rates
<1>1. \A q \in Lags : State.ports[q].eligible = {}
  BY DEF State, NoPort
<1>. QED
  BY <1>1 DEF Rates, RateTold, RunsIn

\* Between LAGs nobody has still to be told.
LEMMA NoneUntimed ==
    ASSUME Rates, task.at \notin PortSteps, NEW j \in Ifaces PROVE RateTold(State, j)
  BY DEF Rates, Untimed

\* LAGs that come and go.
LEMMA LagRates ==
    ASSUME FlowInv, Rates, NEW p \in Lags, del_old_port(p) \/ add_new_port(p) PROVE Rates'
<1>0. /\ TablesInv /\ ports \in [Lags -> LagPort] /\ ifs \in [Ifaces -> Iface]
  BY TypesNow DEF FlowInv, SoundInv, TablesInv, MembersInv
<1>1. task.at \notin PortSteps
  BY DEF del_old_port, add_new_port, PortSteps
<1>2. ports'[p].eligible = {} /\ \A q \in Lags : q # p => ports'[q] = ports[q]
  <2>1. CASE del_old_port(p)
    BY <1>0, <2>1 DEF del_old_port, NoPort
  <2>2. CASE add_new_port(p)
    <3>. DEFINE Q == [NoPort EXCEPT !.cached = TRUE, !.cfg = rows[p].members]
    <3>1. ports' = [ports EXCEPT ![p] = Q]
      BY <2>2 DEF add_new_port
    <3>2. Q.eligible = {}
      BY DEF NoPort
    <3>. HIDE DEF Q
    <3>. QED
      BY <1>0, <3>1, <3>2
  <2>. QED
    BY <2>1, <2>2
<1>3. ASSUME NEW j \in Ifaces PROVE ifs'[j].fast = ifs[j].fast /\ ifs'[j].port \in {ifs[j].port, p}
  <2>1. CASE del_old_port(p)
    <3>1. ifs' = ifs
      BY <1>0, <2>1, DeletedTables
    <3>. QED
      BY <3>1
  <2>2. CASE add_new_port(p)
    <3>1. ifs'[j] = [ifs[j] EXCEPT !.port = p] \/ ifs'[j] = ifs[j]
      BY <2>2 DEF add_new_port
    <3>. QED
      BY <1>0, <3>1 DEF Iface
  <2>. QED
    BY <2>1, <2>2
<1>4. ASSUME NEW j \in Ifaces PROVE RateTold(State, j)'
  <2>1. RateTold(State, j)
    BY <1>1, NoneUntimed
  <2>2. /\ State.ports = ports /\ State.ifs = ifs /\ State'.ports = ports' /\ State'.ifs = ifs'
    BY DEF State
  <2>3. ASSUME NEW q \in Lags, State'.ifs[j].port = q, RunsIn(State', j, q)
        PROVE  State'.ifs[j].fast = State'.ports[q].fast
    <3>1. q # p
      BY <1>2, <2>2, <2>3 DEF RunsIn
    <3>2. ports'[q] = ports[q] /\ ifs[j].port = q /\ ifs'[j].fast = ifs[j].fast
      BY <1>2, <1>3, <2>2, <2>3, <3>1
    <3>3. RunsIn(State, j, q)
      BY <2>2, <2>3, <3>2 DEF RunsIn
    <3>4. ifs[j].fast = ports[q].fast
      BY <2>1, <2>2, <3>2, <3>3 DEF RateTold
    <3>. QED
      BY <2>2, <3>2, <3>4
  <2>4. RateTold(State', j)
    BY <2>3 DEF RateTold
  <2>. QED
    BY <2>4 DEF RateTold
<1>. QED
  BY <1>4 DEF Rates

\* A new interface has no LAG.
LEMMA NewInterfaceRates ==
    ASSUME FlowInv, Rates, NEW i \in Ifaces, add_new_interface(i) PROVE Rates'
<1>0. ifs \in [Ifaces -> Iface]
  BY TypesNow DEF FlowInv, SoundInv, TablesInv, MembersInv
<1>1. task.at \notin PortSteps /\ UNCHANGED ports
  BY DEF add_new_interface, Walk, PortSteps
<1>2. ASSUME NEW j \in Ifaces PROVE RateTold(State, j)'
  <2>1. CASE j = i
    <3>1. ifs'[i].port = NoLag
      <4>. DEFINE g == [NoIface EXCEPT !.cached = TRUE, !.key = keys[i], !.link = links[i]]
      <4>1. ifs' = [ifs EXCEPT ![i] = g]
        BY DEF add_new_interface
      <4>2. g.port = NoLag
        BY DEF NoIface
      <4>. HIDE DEF g
      <4>. QED
        BY <1>0, <4>1, <4>2
    <3>2. NoLag \notin Lags
      BY ConfigAssumption DEF NoLag
    <3>3. State'.ifs[j].port = NoLag
      BY <2>1, <3>1 DEF State
    <3>4. RateTold(State', j)
      BY <3>2, <3>3 DEF RateTold
    <3>. QED
      BY <3>4 DEF RateTold
  <2>2. CASE j # i
    <3>1. ifs'[j] = ifs[j]
      BY <1>0, <2>2 DEF add_new_interface
    <3>2. RateTold(State, j)
      BY <1>1, NoneUntimed
    <3>. QED
      BY <1>1, <3>1, <3>2, RateAside
  <2>. QED
    BY <2>1, <2>2
<1>. QED
  BY <1>2 DEF Rates


\* A LAG takes a new rate: its members have still to be told.
LEMMA StartRates ==
    ASSUME FlowInv, Rates, NEW p \in Lags, StartPort(p) PROVE Rates'
<1>0. task \in Task /\ ports \in [Lags -> LagPort]
  BY TypesNow DEF FlowInv, SoundInv, TablesInv, MembersInv
<1>1. /\ task.at \notin PortSteps /\ UNCHANGED ifs
      /\ ports' = [ports EXCEPT ![p].fast = rows[p].fast]
  BY DEF StartPort, PortSteps
<1>2. task'.at = "removed" /\ task'.port = p /\ task'.timed = (rows[p].fast # ports[p].fast)
  BY <1>0 DEF StartPort, Task
<1>3. \A q \in Lags : /\ ports'[q].mode = ports[q].mode /\ ports'[q].eligible = ports[q].eligible
                      /\ ports'[q].fast = IF q = p THEN rows[p].fast ELSE ports[q].fast
  BY <1>0, <1>1 DEF LagPort
<1>4. ASSUME NEW j \in Ifaces PROVE RateTold(State, j)' \/ Untimed(j)'
  <2>1. RateTold(State, j)
    BY <1>1, NoneUntimed
  <2>2. CASE ifs[j].port = p /\ rows[p].fast # ports[p].fast
    BY <1>1, <1>2, <2>2 DEF Untimed, PortSteps
  <2>3. CASE ifs[j].port # p \/ rows[p].fast = ports[p].fast
    <3>1. /\ State.ports = ports /\ State.ifs = ifs /\ State'.ports = ports' /\ State'.ifs = ifs'
      BY DEF State
    <3>2. ASSUME NEW q \in Lags, State'.ifs[j].port = q, RunsIn(State', j, q)
          PROVE  State'.ifs[j].fast = State'.ports[q].fast
      <4>1. RunsIn(State, j, q) /\ ifs[j].port = q
        BY <1>1, <1>3, <3>1, <3>2 DEF RunsIn, IsDynamic
      <4>2. ifs[j].fast = ports[q].fast
        BY <2>1, <3>1, <4>1 DEF RateTold
      <4>. QED
        BY <1>1, <1>3, <2>3, <3>1, <4>1, <4>2
    <3>3. RateTold(State', j)
      BY <3>2 DEF RateTold
    <3>. QED
      BY <3>3 DEF RateTold
  <2>. QED
    BY <2>2, <2>3
<1>. QED
  BY <1>4 DEF Rates

\* What update_interface says of an interface is not its rate.
LEMMA InterfaceRates ==
    ASSUME FlowInv, Rates, NEW i \in Ifaces, update_interface(i) PROVE Rates'
<1>0. /\ TablesInv /\ lag_id \in [Lags -> 0..MaxLagId] /\ State.ports = ports /\ State.ifs = ifs
  BY TypesNow DEF FlowInv, SoundInv, TablesInv, MembersInv, State
<1>1. task.at \notin PortSteps
  BY DEF update_interface, Walk, PortSteps
<1>2. /\ Elsewhere(State, State', i)
      /\ State' = IF links[i] # ifs[i].link THEN Relinked(i) ELSE Keyed(i)
  BY <1>0, InterfaceEntry
<1>3. RateTold(State, i)
  BY <1>1, NoneUntimed
<1>4. RateTold(Keyed(i), i)
  <2>1. /\ Keyed(i).ports = ports /\ Keyed(i).ifs[i].port = ifs[i].port
        /\ Keyed(i).ifs[i].fast = ifs[i].fast
    BY <1>0, KeyedEntry
  <2>. QED
    BY <1>0, <1>3, <2>1 DEF RateTold, RunsIn
<1>5. RateTold(Relinked(i), i)
  <2>. DEFINE L == Linked(i)
              D == update_interface_lag_eligibility(L, i)
  <2>1. /\ L \in CState /\ L.ports = ports /\ L.ifs[i].port = ifs[i].port
        /\ L.ifs[i].fast = ifs[i].fast /\ (L.ifs[i].port \in Lags => L.ifs[i].key # NoLag)
    BY <1>0, LinkedEntry
  <2>2. RateTold(L, i)
    BY <1>0, <1>3, <2>1 DEF RateTold, RunsIn
  <2>3. RateTold(D, i) /\ D \in CState
    <3>. HIDE DEF L
    <3>. QED
      BY <1>0, <2>1, <2>2, RateUpdate, UpdateEntry
  <2>4. \E s : Relinked(i) = Send(D, s) \/ Relinked(i) = D
    BY DEF Relinked
  <2>. HIDE DEF D
  <2>5. PICK s : Relinked(i) = Send(D, s) \/ Relinked(i) = D
    BY <2>4
  <2>6. Relinked(i).ports = D.ports /\ Relinked(i).ifs = D.ifs
    BY <2>3, <2>5 DEF Send, CState
  <2>. QED
    BY <2>3, <2>6 DEF RateTold, RunsIn
<1>6. ASSUME NEW j \in Ifaces PROVE RateTold(State, j)'
  <2>1. RateTold(State', j)
    <3>1. CASE j = i
      BY <1>2, <1>4, <1>5, <3>1
    <3>2. CASE j # i
      <4>1. RateTold(State, j)
        BY <1>1, NoneUntimed
      <4>. QED
        BY <1>2, <3>2, <4>1, RateElsewhere
    <3>. QED
      BY <3>1, <3>2
  <2>. QED
    BY <2>1 DEF RateTold
<1>. QED
  BY <1>6 DEF Rates

\* The mode changes while nobody runs.
LEMMA ModeRates ==
    ASSUME FlowInv, Rates, TurnOn \/ SwitchMode \/ TurnOff PROVE Rates'
<1>0. TablesInv /\ task \in Task /\ ports \in [Lags -> LagPort]
  BY TypesNow DEF FlowInv, SoundInv, TablesInv, MembersInv
<1>1. /\ task.port \in Lags /\ ports[task.port].eligible = {} /\ task.at = "mode"
      /\ ports' = [ports EXCEPT ![task.port].mode = rows[task.port].lacp]
  BY <1>0, ModeTables
<1>2. UNCHANGED ifs
  BY DEF TurnOn, SwitchMode, TurnOff
<1>3. task'.at = "added" /\ task'.port = task.port /\ task'.timed = task.timed
  <2>1. \A b, c : /\ ToAdded(task.port, b, c).at = "added"
                  /\ ToAdded(task.port, b, c).port = task.port
                  /\ ToAdded(task.port, b, c).timed = task.timed
    BY <1>0 DEF ToAdded, Task
  <2>2. \E b, c : task' = ToAdded(task.port, b, c)
    <3>1. CASE TurnOn
      BY <3>1 DEF TurnOn
    <3>2. CASE SwitchMode
      BY <3>2 DEF SwitchMode
    <3>3. CASE TurnOff
      BY <3>3 DEF TurnOff
    <3>. QED
      BY <3>1, <3>2, <3>3
  <2>. QED
    BY <2>1, <2>2
<1>4. \A q \in Lags : /\ ports'[q].eligible = ports[q].eligible /\ ports'[q].fast = ports[q].fast
                      /\ q # task.port => ports'[q].mode = ports[q].mode
  BY <1>0, <1>1 DEF LagPort
<1>5. \A j \in Ifaces : Untimed(j) => Untimed(j)'
  BY <1>2, <1>3 DEF Untimed, PortSteps
<1>6. \A q \in Lags : \A j \in ports'[q].eligible :
              /\ j \in ports[q].eligible
              /\ ports'[q].mode = ports[q].mode /\ ports'[q].fast = ports[q].fast
  BY <1>1, <1>4
<1>. QED
  BY <1>2, <1>5, <1>6, RateStep

\* The system id and the fallback flag are not rates, and everybody has been told.
LEMMA FinishRates ==
    ASSUME FlowInv, Rates, FinishPort PROVE Rates'
<1>. DEFINE p == task.port
            P == ports[p]
            R == rows[p]
            toSys  == R.lacp # "off" /\ R.sys # P.sys
            toFall == R.lacp # "off" /\ (R.fallback # P.fallback \/ task.moded)
<1>0. ports \in [Lags -> LagPort]
  BY TypesNow DEF FlowInv, SoundInv, TablesInv, MembersInv
<1>1. /\ task.at = "eligible" /\ task.members = {} /\ UNCHANGED ifs
      /\ ports' = [ports EXCEPT ![p].sys = IF toSys THEN R.sys ELSE @,
                                ![p].fallback = IF toFall THEN R.fallback ELSE @]
  BY DEF FinishPort
<1>. HIDE DEF toSys, toFall, p, P, R
<1>2. \A q \in Lags : /\ ports'[q].eligible = ports[q].eligible /\ ports'[q].fast = ports[q].fast
                      /\ ports'[q].mode = ports[q].mode
  BY <1>0, <1>1 DEF LagPort
<1>3. \A j \in Ifaces : ~Untimed(j)
  BY <1>1 DEF Untimed
<1>. QED
  BY <1>1, <1>2, <1>3, RateStep


\* One that is made ineligible.
LEMMA IneligibleRates ==
    ASSUME FlowInv, FlowInv', Rates, NEW i \in Ifaces, MakeIneligible(i) PROVE Rates'
<1>0. TablesInv /\ SoundInv
  BY DEF FlowInv, SoundInv
<1>1. /\ State' = set_interface_lag_eligibility(State, task.port, i, FALSE)
      /\ Elsewhere(State, State', i)
  BY <1>0, IneligibleTables
<1>2. HandStep /\ i \in task.members /\ task'.members = task.members \ {i} /\ task.at = "mode"
  BY <1>0, MemberHand DEF TablesInv
<1>3. task.port \in Lags /\ i \in ports[task.port].eligible
  BY <1>0, <1>2 DEF TablesInv, MembersInv, Underway, InHand, HandStep
<1>4. i \in ports[task.port].cfg
  BY <1>0, <1>3 DEF TablesInv, MembersInv, Belongs, Listed
<1>5. Sound(State', lports[i], call, i) /\ State'.ifs[i].eligible = FALSE
  BY <1>0, <1>1, <1>3, <1>4, ClearSound
<1>6. RateTold(State', i)
  BY <1>5, IneligibleRate DEF Sound
<1>7. RateTold(State, i)'
  BY <1>6 DEF RateTold
<1>. QED
  BY <1>1, <1>2, <1>7, RateWalk

\* One that is entered in the LAG does not run there yet.
LEMMA AddRates ==
    ASSUME FlowInv, Rates, NEW i \in Ifaces, AddMember(i) PROVE Rates'
<1>. DEFINE p == task.port
<1>0. /\ TablesInv /\ ports \in [Lags -> LagPort] /\ ifs \in [Ifaces -> Iface]
      /\ State.ports = ports /\ State.ifs = ifs /\ State'.ports = ports' /\ State'.ifs = ifs'
  BY TypesNow DEF FlowInv, SoundInv, TablesInv, MembersInv, State
<1>1. /\ HandStep /\ i \in task.members /\ task.at = "added" /\ p \in Lags
  BY <1>0, MemberHand DEF TablesInv, HandStep
<1>2. i \notin ports[p].cfg
  BY <1>0, <1>1 DEF TablesInv, MembersInv, Underway, InHand
<1>3. i \notin ports[p].eligible
  BY <1>0, <1>1, <1>2 DEF TablesInv, MembersInv, Belongs, Listed
<1>4. /\ ports' = [ports EXCEPT ![p].cfg = @ \cup {i}] /\ ifs' = [ifs EXCEPT ![i].port = p]
  BY DEF AddMember
<1>. HIDE DEF p
<1>5. \A q \in Lags : /\ ports'[q].eligible = ports[q].eligible /\ ports'[q].fast = ports[q].fast
                      /\ ports'[q].mode = ports[q].mode
  BY <1>0, <1>1, <1>4 DEF LagPort
<1>6. ifs'[i].port = p /\ \A j \in Ifaces : j # i => ifs'[j] = ifs[j]
  BY <1>0, <1>4 DEF Iface
<1>7. ASSUME NEW j \in Ifaces PROVE RateTold(State, j)' \/ Untimed(j)'
  <2>1. CASE j = i
    <3>1. RateTold(State', j)
      BY <1>0, <1>3, <1>5, <1>6, <2>1 DEF RateTold, RunsIn
    <3>. QED
      BY <3>1 DEF RateTold
  <2>2. CASE j # i /\ RateTold(State, j)
    BY <1>5, <1>6, <2>2, RateAside
  <2>3. CASE j # i /\ Untimed(j)
    BY <1>1, <1>6, <2>3, StillUntimed
  <2>. QED
    BY <2>1, <2>2, <2>3 DEF Rates
<1>. QED
  BY <1>7 DEF Rates

\* A member brought up to date has the rate of its LAG.
LEMMA UpdateRates ==
    ASSUME FlowInv, Rates, NEW i \in Ifaces, UpdateMember(i) PROVE Rates'
<1>. DEFINE U == Updated(i)
            p == task.port
<1>0. /\ TablesInv /\ lag_id \in [Lags -> 0..MaxLagId] /\ State.ports = ports /\ State.ifs = ifs
  BY TypesNow DEF FlowInv, SoundInv, TablesInv, MembersInv, State
<1>1. State' = update_interface_lag_eligibility(U, i)
  BY <1>0, UpdateTables
<1>2. /\ HandStep /\ i \in task.members /\ task'.members = task.members \ {i}
      /\ task.at = "eligible" /\ p \in Lags
  BY <1>0, MemberHand DEF TablesInv, HandStep
<1>3. ifs[i].port = p
  <2>1. i \in ports[p].cfg
    BY <1>2 DEF FlowInv, SoundInv, Walked
  <2>. QED
    BY <1>0, <1>2, <2>1, HandHome
<1>4. /\ U \in CState /\ Elsewhere(State, U, i) /\ U.ports = ports /\ SameEntry(ifs[i], U.ifs[i])
      /\ (U.ifs[i].port \in Lags => U.ifs[i].key # NoLag)
  <2>1. /\ U \in CState /\ Elsewhere(State, U, i) /\ U.ports = ports /\ SameEntry(ifs[i], U.ifs[i])
    BY <1>0, <1>2, UpdatedEntry
  <2>2. U.ifs[i].port \in Lags => U.ifs[i].key # NoLag
    BY <1>0, <2>1, MemberHasKey DEF SameEntry
  <2>. QED
    BY <2>1, <2>2
<1>5. RateTold(U, i)
  <2>1. CASE task.switched
    <3>1. i \notin ports[p].eligible
      BY <1>0, <1>2, <2>1 DEF TablesInv, Tables, Emptied
    <3>. QED
      BY <1>3, <1>4, <3>1 DEF RateTold, RunsIn, SameEntry
  <2>2. CASE ~task.switched /\ task.timed
    <3>1. U.ifs[i].fast = ports[p].fast
      BY <1>0, <1>2, <2>2, UpdatedEntry
    <3>. QED
      BY <1>3, <1>4, <3>1 DEF RateTold, SameEntry
  <2>3. CASE ~task.switched /\ ~task.timed
    <3>1. U = State
      BY <1>0, <1>2, <2>3, UpdatedEntry
    <3>2. ~Untimed(i)
      BY <2>3 DEF Untimed
    <3>3. RateTold(State, i)
      BY <3>2 DEF Rates
    <3>. HIDE DEF U
    <3>. QED
      BY <3>1, <3>3
  <2>. QED
    BY <2>1, <2>2, <2>3
<1>. HIDE DEF U
<1>6. RateTold(State', i) /\ Elsewhere(U, State', i)
  BY <1>0, <1>1, <1>4, <1>5, RateUpdate, UpdateEntry
<1>7. RateTold(State, i)' /\ Elsewhere(State, State', i)
  BY <1>4, <1>6, ElsewhereTransitive DEF RateTold
<1>. QED
  BY <1>2, <1>7, RateWalk


\* A member that leaves has no rate to be told of; one that was taken over has its new
\* LAG's.
LEMMA RemoveRates ==
    ASSUME FlowInv, Rates, NEW i \in Ifaces, RemoveMember(i) PROVE Rates'
<1>. DEFINE p == task.port
            K == Kept(i)
            L == ListWithout(K, p, i)
<1>0. /\ TablesInv /\ SoundInv /\ lag_id \in [Lags -> 0..MaxLagId]
      /\ State.ports = ports /\ State.ifs = ifs /\ State'.ports = ports' /\ State'.ifs = ifs'
  BY TypesNow DEF FlowInv, SoundInv, TablesInv, MembersInv, State
<1>1. State' = L
  BY <1>0, RemoveTables
<1>2. /\ HandStep /\ i \in task.members /\ task'.members = task.members \ {i}
      /\ task.at = "removed" /\ p \in Lags
  BY <1>0, MemberHand DEF TablesInv, HandStep
<1>3. i \in ports[p].cfg
  BY <1>0, <1>2 DEF TablesInv, MembersInv, Underway, InHand
<1>4. ifs[i].eligible => i \in ports[p].eligible
  <2>1. CASE i \in recent
    BY <1>0, <2>1, TakenOverTo DEF TablesInv
  <2>2. CASE i \notin recent
    BY <1>0, <1>2, <1>3, <2>2 DEF TablesInv, MembersInv, Belongs, Listed, Placed
  <2>. QED
    BY <2>1, <2>2
<1>5. /\ Cleared(i) \in CState /\ SameEntry(ifs[i], Cleared(i).ifs[i])
  BY <1>0, <1>2, ClearedEntry
<1>6. RateTold(Cleared(i), i)
  <2>1. Sound(Cleared(i), lports[i], call, i) /\ Cleared(i).ifs[i].eligible = FALSE
    BY <1>0, <1>2, <1>3, <1>4, ClearSound DEF Cleared
  <2>. QED
    BY <2>1, IneligibleRate DEF Sound
<1>7. /\ K \in CState /\ Elsewhere(State, K, i)
      /\ K.ifs[i].port = IF i \in recent THEN ifs[i].port ELSE NoLag
  BY <1>0, <1>2, KeptEntry
<1>8. RateTold(K, i)
  <2>1. CASE i \in recent
    <3>1. K = update_interface_lag_eligibility(Cleared(i), i)
      BY <2>1 DEF Kept
    <3>2. Cleared(i).ifs[i].port \in Lags => Cleared(i).ifs[i].key # NoLag
      BY <1>0, <1>5, MemberHasKey DEF SameEntry
    <3>. HIDE DEF K
    <3>. QED
      BY <1>0, <1>5, <1>6, <3>1, <3>2, RateUpdate
  <2>2. CASE i \notin recent
    <3>1. NoLag \notin Lags
      BY ConfigAssumption DEF NoLag
    <3>. QED
      BY <1>7, <2>2, <3>1 DEF RateTold
  <2>. QED
    BY <2>1, <2>2
<1>. HIDE DEF K, p
<1>9. /\ L.ifs = K.ifs
      /\ \A q \in Lags : \E c \in SUBSET K.ports[q].cfg : L.ports[q] = [K.ports[q] EXCEPT !.cfg = c]
  BY <1>2, <1>7, ListEntry
<1>. HIDE DEF L
<1>10. ASSUME NEW q \in Lags
       PROVE  /\ L.ports[q].eligible = K.ports[q].eligible /\ L.ports[q].mode = K.ports[q].mode
              /\ L.ports[q].fast = K.ports[q].fast
  <2>1. PICK c \in SUBSET K.ports[q].cfg : L.ports[q] = [K.ports[q] EXCEPT !.cfg = c]
    BY <1>9
  <2>2. K.ports[q] \in LagPort
    BY <1>7 DEF CState
  <2>. QED
    BY <2>1, <2>2, ListOnly
<1>11. ASSUME NEW j \in Ifaces, RateTold(K, j) PROVE RateTold(State, j)'
  <2>1. RateTold(L, j)
    BY <1>9, <1>10, <1>11 DEF RateTold, RunsIn, IsDynamic
  <2>2. RateTold(State', j)
    BY <1>1, <2>1
  <2>. QED
    BY <2>2 DEF RateTold
<1>12. ASSUME NEW j \in Ifaces PROVE RateTold(State, j)' \/ Untimed(j)'
  <2>1. CASE j = i
    BY <1>8, <1>11, <2>1
  <2>2. CASE j # i /\ RateTold(State, j)
    <3>1. RateTold(K, j)
      BY <1>7, <2>2, RateElsewhere
    <3>. QED
      BY <1>11, <3>1
  <2>3. CASE j # i /\ Untimed(j)
    <3>1. ifs'[j].port = ifs[j].port
      BY <1>0, <1>1, <1>7, <1>9, <2>3 DEF Elsewhere
    <3>. QED
      BY <1>2, <2>3, <3>1, StillUntimed
  <2>. QED
    BY <2>1, <2>2, <2>3 DEF Rates
<1>. QED
  BY <1>12 DEF Rates

\* Every step keeps the rates.
LEMMA RatesNext ==
    ASSUME FlowInv, FlowInv', Rates, [Next]_vars PROVE Rates'
<1>1. CASE \/ Receive \/ Machines \/ HardwareCall \/ UNCHANGED vars \/ \E command : Edit(command)
           \/ BeginRun \/ EndRun \/ CompareMode \/ StartEligible
  BY <1>1, PassRates
<1>2. CASE lacpd_run /\ ~(BeginRun \/ EndRun \/ CompareMode \/ StartEligible)
  BY <1>2, NewInterfaceRates, InterfaceRates, RemoveRates, IneligibleRates, AddRates, UpdateRates,
     LagRates, StartRates, ModeRates, FinishRates DEF lacpd_run
<1>3. CASE Restart
  <2>1. (ports = [p \in Lags |-> NoPort])'
    BY <1>3 DEF Restart, Started
  <2>. QED
    BY <2>1, FreshRates, PTL
<1>4. CASE Administration
  <2>1. Restart \/ \E command : Edit(command)
    BY <1>4 DEF Administration, vtysh_intf_link_aggregation, delete_lag, lacp_set_mode,
         lacp_set_fallback, lacp_set_heartbeat_rate, SetSystemId, lacp_add_intf_to_lag,
         lacp_remove_intf_from_lag, LinkChanges, EditPort
  <2>. QED
    BY <1>1, <1>3, <2>1
<1>. QED
  BY <1>1, <1>2, <1>4 DEF Next

-----------------------------------------------------------------------------
(* The keys of the super ports. *)

\* The last message of q about the super port of id gives it key p, or there is none and
\* super port s has it.
LastParams(q, s, id, p) ==
    \/ s.key = p /\ \A k \in 1..Len(q) : ~Concerns(q[k], id)
    \/ \E k \in 1..Len(q) :
          /\ Concerns(q[k], id) /\ q[k].type = "params" /\ q[k].key = p
          /\ \A n \in 1..Len(q) : n > k => ~Concerns(q[n], id)

\* The super port of a LAG has the LAG's key, or will have.
SportKeys ==
    \A p \in Lags : lag_id[p] # 0 => LastParams(queue, sports[lag_id[p]], lag_id[p], p)

\* This is so also when other things are said.
LEMMA ParamsStay ==
    ASSUME NEW q \in Seq(Message), NEW t \in Seq(Message), NEW s, NEW id, NEW p,
           LastParams(q, s, id, p), \A k \in 1..Len(t) : ~Concerns(t[k], id)
    PROVE  LastParams(q \o t, s, id, p)
<1>1. /\ Len(q) \in Nat /\ Len(t) \in Nat /\ Len(q \o t) = Len(q) + Len(t)
      /\ \A k \in 1..Len(q \o t) : (q \o t)[k] = IF k <= Len(q) THEN q[k] ELSE t[k - Len(q)]
  OBVIOUS
<1>2. ASSUME NEW k \in 1..Len(q \o t), k > Len(q) PROVE ~Concerns((q \o t)[k], id)
  <2>1. (q \o t)[k] = t[k - Len(q)] /\ k - Len(q) \in 1..Len(t)
    BY <1>1, <1>2
  <2>. QED
    BY <2>1
<1>3. ASSUME NEW k \in 1..Len(q) PROVE (q \o t)[k] = q[k] /\ k \in 1..Len(q \o t)
  BY <1>1
<1>4. CASE s.key = p /\ \A k \in 1..Len(q) : ~Concerns(q[k], id)
  <2>1. \A k \in 1..Len(q \o t) : ~Concerns((q \o t)[k], id)
    BY <1>1, <1>2, <1>3, <1>4
  <2>. QED
    BY <1>4, <2>1 DEF LastParams
<1>5. ASSUME NEW k \in 1..Len(q), Concerns(q[k], id), q[k].type = "params", q[k].key = p,
             \A n \in 1..Len(q) : n > k => ~Concerns(q[n], id)
      PROVE  LastParams(q \o t, s, id, p)
  <2>1. \A n \in 1..Len(q \o t) : n > k => ~Concerns((q \o t)[n], id)
    BY <1>1, <1>2, <1>3, <1>5
  <2>. QED
    BY <1>3, <1>5, <2>1 DEF LastParams
<1>. QED
  BY <1>4, <1>5 DEF LastParams

\* The last of two messages counts.
LEMMA ParamsSaid ==
    ASSUME NEW q \in Seq(Message), NEW m \in Message, NEW l \in Message, NEW s, NEW id, NEW p,
           Concerns(l, id), l.type = "params", l.key = p
    PROVE  LastParams(q \o <<m, l>>, s, id, p)
<1>. DEFINE r == q \o <<m, l>>
            n == Len(q) + 2
<1>1. Len(q) \in Nat /\ Len(r) = n /\ r[n] = l /\ n \in 1..n
  OBVIOUS
<1>. HIDE DEF r
<1>2. \A k \in 1..Len(r) : ~(k > n)
  BY <1>1
<1>3. LastParams(r, s, id, p)
  BY <1>1, <1>2 DEF LastParams
<1>. QED
  BY <1>3 DEF r

\* The first message is taken off.
LEMMA ParamsTaken ==
    ASSUME NEW q \in Seq(Message), q # <<>>, NEW s, NEW t, NEW id, NEW p,
           LastParams(q, s, id, p), ~Concerns(Head(q), id) => t = s,
           Concerns(Head(q), id) /\ Head(q).type = "params" => t.key = Head(q).key
    PROVE  LastParams(Tail(q), t, id, p)
<1>. DEFINE n == Len(q)
            r == Tail(q)
<1>1. n \in Nat /\ n > 0 /\ Len(r) = n - 1 /\ Head(q) = q[1]
  OBVIOUS
<1>2. \A k \in 1..n-1 : r[k] = q[k+1] /\ k + 1 \in 1..n
  BY <1>1
<1>. HIDE DEF r
<1>3. CASE s.key = p /\ \A k \in 1..n : ~Concerns(q[k], id)
  <2>1. \A k \in 1..Len(r) : ~Concerns(r[k], id)
    BY <1>1, <1>2, <1>3
  <2>2. t = s
    BY <1>1, <1>3
  <2>3. LastParams(r, t, id, p)
    BY <1>3, <2>1, <2>2 DEF LastParams
  <2>. QED
    BY <2>3 DEF r
<1>4. ASSUME NEW k \in 1..n, Concerns(q[k], id), q[k].type = "params", q[k].key = p,
             \A h \in 1..n : h > k => ~Concerns(q[h], id)
      PROVE  LastParams(r, t, id, p)
  <2>1. CASE k = 1
    <3>1. ASSUME NEW h \in 1..Len(r) PROVE ~Concerns(r[h], id)
      <4>1. h + 1 \in 1..n /\ h + 1 > k /\ r[h] = q[h + 1]
        BY <1>1, <1>2, <2>1
      <4>. QED
        BY <1>4, <4>1
    <3>2. t.key = p
      BY <1>1, <1>4, <2>1
    <3>. QED
      BY <3>1, <3>2 DEF LastParams
  <2>2. CASE k > 1
    <3>1. k - 1 \in 1..Len(r) /\ r[k-1] = q[k]
      BY <1>1, <1>2, <2>2
    <3>2. \A h \in 1..Len(r) : h > k - 1 => ~Concerns(r[h], id)
      BY <1>1, <1>2, <1>4
    <3>. QED
      BY <1>4, <3>1, <3>2 DEF LastParams
  <2>. QED
    BY <1>1, <2>1, <2>2
<1>. QED
  BY <1>3, <1>4 DEF LastParams, r

\* A step that speaks of ports only.
LEMMA SpokenKeys ==
    ASSUME QueueInv, SportKeys, Spoken, UNCHANGED <<lag_id, sports>> PROVE SportKeys'
<1>1. PICK t \in Seq(LportMsg) : queue' = queue \o t
  BY DEF Spoken
<1>2. ASSUME NEW p \in Lags, lag_id'[p] # 0
      PROVE  LastParams(queue', sports'[lag_id'[p]], lag_id'[p], p)
  <2>1. LastParams(queue, sports[lag_id[p]], lag_id[p], p)
    BY <1>2 DEF SportKeys
  <2>2. t \in Seq(Message) /\ \A k \in 1..Len(t) : ~Concerns(t[k], lag_id[p])
    BY SpeechPasses
  <2>3. LastParams(queue \o t, sports[lag_id[p]], lag_id[p], p)
    BY <2>1, <2>2, TypesNow, ParamsStay
  <2>. QED
    BY <1>1, <2>3
<1>. QED
  BY <1>2 DEF SportKeys

\* LAG p gets the id, or loses it, and m and l, said last, are about its super port.
IdChanges(p, t, id, m, l) ==
    /\ p \in Lags /\ t \in Seq(LportMsg) /\ id \in LagIds /\ m \in Message /\ l \in Message
    /\ Concerns(m, id) /\ Concerns(l, id)
    /\ queue' = (queue \o t) \o <<m, l>> /\ UNCHANGED sports
    /\ \A q \in Lags : q # p => lag_id'[q] = lag_id[q] /\ lag_id[q] # id
    /\ lag_id'[p] = 0 \/ (lag_id'[p] = id /\ l.type = "params" /\ l.key = p)

\* The others' super ports are not spoken of.
LEMMA IdKeys ==
    ASSUME QueueInv, SportKeys, NEW p, NEW t, NEW id, NEW m, NEW l, IdChanges(p, t, id, m, l)
    PROVE  SportKeys'
<1>. USE DEF IdChanges
<1>0. queue \in Seq(Message) /\ t \in Seq(Message)
  BY TypesNow, SpeechPasses
<1>. DEFINE r == queue \o t
            u == <<m, l>>
<1>1. r \in Seq(Message) /\ u \in Seq(Message) /\ Len(u) = 2 /\ u[1] = m /\ u[2] = l
  BY <1>0
<1>2. ASSUME NEW q \in Lags, lag_id'[q] # 0
      PROVE  LastParams(r \o u, sports'[lag_id'[q]], lag_id'[q], q)
  <2>1. CASE q = p
    BY <1>1, <1>2, <2>1, ParamsSaid
  <2>2. CASE q # p
    <3>1. lag_id'[q] = lag_id[q] /\ lag_id[q] # id
      BY <2>2
    <3>2. LastParams(queue, sports[lag_id[q]], lag_id[q], q)
      BY <1>2, <3>1 DEF SportKeys
    <3>3. \A k \in 1..Len(t) : ~Concerns(t[k], lag_id[q])
      BY SpeechPasses
    <3>4. LastParams(r, sports[lag_id[q]], lag_id[q], q)
      BY <1>0, <3>2, <3>3, ParamsStay
    <3>. HIDE DEF r, u
    <3>5. ~Concerns(m, lag_id[q]) /\ ~Concerns(l, lag_id[q])
      BY <3>1 DEF Concerns
    <3>6. \A k \in 1..Len(u) : ~Concerns(u[k], lag_id[q])
      BY <1>1, <3>5
    <3>7. LastParams(r \o u, sports[lag_id[q]], lag_id[q], q)
      BY <1>1, <3>4, <3>6, ParamsStay
    <3>. QED
      BY <3>1, <3>7
  <2>. QED
    BY <2>1, <2>2
<1>3. queue' = r \o u
  OBVIOUS
<1>. HIDE DEF r, u
<1>. QED
  BY <1>2, <1>3 DEF SportKeys

\* The mode of a LAG changes, or the LAG goes.
LEMMA ModeKeys ==
    ASSUME QueueInv, SportKeys, TurnOn \/ SwitchMode \/ TurnOff \/ \E p \in Lags : del_old_port(p)
    PROVE  SportKeys'
<1>0. /\ queue \in Seq(Message) /\ lag_id \in [Lags -> 0..MaxLagId] /\ LagIdsAreExclusive
      /\ \A q \in Lags : lag_id[q] # 0 => lag_id[q] \in LagIds
  BY TypesNow, ConfigAssumption DEF QueueInv, LagInv, LagIds
<1>1. ASSUME NEW p \in Lags, NEW t \in Seq(LportMsg), NEW id, NEW old, NEW new,
             NEW m, NEW l, m = LagMsg(old, id, p), l = LagMsg(new, id, p),
             queue' = queue \o t \o (IF id = 0 THEN <<>> ELSE <<m, l>>), UNCHANGED sports,
             \/ /\ id = lag_id[p] /\ lag_id' = [lag_id EXCEPT ![p] = 0]
                /\ old = "unparams" /\ new = "delete"
             \/ /\ id = 0 \/ id \in LagIds \ pool
                /\ lag_id' = [lag_id EXCEPT ![p] = id] /\ old = "create" /\ new = "params"
      PROVE  SportKeys'
  <2>1. CASE id = 0
    <3>1. queue' = queue \o t
      <4>1. queue \o t \in Seq(Message)
        <5>1. t \in Seq(Message)
          BY SpeechPasses
        <5>. QED
          BY <1>0, <5>1
      <4>2. queue' = (queue \o t) \o <<>>
        BY <1>1, <2>1
      <4>. QED
        BY <4>1, <4>2, ConcatEmptySeq
    <3>2. PICK s \in Seq(LportMsg) : queue' = queue \o s
      BY <3>1
    <3>3. ASSUME NEW q \in Lags, lag_id'[q] # 0
          PROVE  LastParams(queue', sports'[lag_id'[q]], lag_id'[q], q)
      <4>1. lag_id'[q] = lag_id[q]
        BY <1>0, <1>1, <2>1, <3>3
      <4>2. LastParams(queue, sports[lag_id[q]], lag_id[q], q)
        BY <3>3, <4>1 DEF SportKeys
      <4>3. s \in Seq(Message) /\ \A k \in 1..Len(s) : ~Concerns(s[k], lag_id[q])
        BY SpeechPasses
      <4>4. LastParams(queue \o s, sports[lag_id[q]], lag_id[q], q)
        BY <1>0, <4>2, <4>3, ParamsStay
      <4>. QED
        BY <1>1, <3>2, <4>1, <4>4
    <3>. QED
      BY <3>3 DEF SportKeys
  <2>2. CASE id # 0
    <3>1. id \in LagIds
      BY <1>0, <1>1, <2>2
    <3>2. m \in Message /\ l \in Message /\ Concerns(m, id) /\ Concerns(l, id)
      BY <1>1, <3>1, LifeMsgs
    <3>3. l.type = new /\ l.key = p
      BY <1>1 DEF LagMsg
    <3>4. queue' = (queue \o t) \o <<m, l>>
      BY <1>1, <2>2
    <3>5. lag_id'[p] = 0 \/ (lag_id'[p] = id /\ l.type = "params" /\ l.key = p)
      BY <1>0, <1>1, <3>3
    <3>6. ASSUME NEW q \in Lags, q # p PROVE lag_id'[q] = lag_id[q] /\ lag_id[q] # id
      <4>1. lag_id'[q] = lag_id[q]
        BY <1>0, <1>1, <3>6
      <4>0. lag_id[q] # 0 => lag_id[q] \in pool /\ (lag_id[q] = lag_id[p] => q = p)
        BY <1>0, <1>1 DEF LagIdsAreExclusive
      <4>2. CASE id = lag_id[p]
        <5>1. lag_id[q] # id
          BY <2>2, <3>6, <4>0, <4>2
        <5>. QED
          BY <4>1, <5>1
      <4>3. CASE id \in LagIds \ pool
        <5>1. lag_id[q] # id
          BY <2>2, <4>0, <4>3
        <5>. QED
          BY <4>1, <5>1
      <4>4. id = lag_id[p] \/ id \in LagIds \ pool
        BY <1>1, <2>2
      <4>. QED
        BY <4>2, <4>3, <4>4
    <3>7. t \in Seq(LportMsg) /\ p \in Lags /\ UNCHANGED sports
      BY <1>1
    <3>8. IdChanges(p, t, id, m, l)
      BY <3>1, <3>2, <3>4, <3>5, <3>6, <3>7 DEF IdChanges
    <3>. QED
      BY <3>8, IdKeys
  <2>. QED
    BY <2>1, <2>2
<1>2. ASSUME NEW p \in Lags, del_old_port(p) PROVE SportKeys'
  <2>. DEFINE id == lag_id[p]
              m == LagMsg("unparams", id, p)
              l == LagMsg("delete", id, p)
  <2>1. <<>> \in Seq(LportMsg) /\ queue \o <<>> = queue
    BY <1>0, ConcatEmptySeq
  <2>2. /\ queue' = IF id = 0 THEN queue ELSE queue \o <<m, l>>
        /\ lag_id' = [lag_id EXCEPT ![p] = 0] /\ UNCHANGED sports
    BY <1>2 DEF del_old_port, proto
  <2>. HIDE DEF m, l
  <2>3. queue' = queue \o <<>> \o (IF id = 0 THEN <<>> ELSE <<m, l>>)
    BY <2>1, <2>2
  <2>4. m = LagMsg("unparams", id, p) /\ l = LagMsg("delete", id, p)
    BY DEF m, l
  <2>. QED
    BY <1>1, <2>1, <2>2, <2>3, <2>4
<1>3. CASE TurnOn \/ SwitchMode \/ TurnOff
  <2>. DEFINE p == task.port
  <2>1. p \in Lags
    BY <1>3, TypesNow DEF TurnOn, SwitchMode, TurnOff, PortSteps
  <2>2. ports[p].cfg \subseteq Ifaces /\ ports[p].sys \in Systems /\ "default" \in Systems
    BY <2>1, TypesNow, ConfigAssumption DEF LagPort
  <2>3. CASE TurnOn
    <3>. DEFINE id == alloc_lag_id
                m == LagMsg("create", id, p)
                l == LagMsg("params", id, p)
    <3>1. PICK o \in Orders(ports[p].cfg) :
             queue' = queue \o ToEach(o, LAMBDA i : Overrides(i, ports[p].sys))
                            \o (IF id = 0 THEN <<>> ELSE <<m, l>>)
      BY <2>3 DEF TurnOn
    <3>. DEFINE t == ToEach(o, LAMBDA i : Overrides(i, ports[p].sys))
    <3>2. t \in Seq(LportMsg)
      BY <2>2, EachIsSpoken
    <3>3. lag_id' = [lag_id EXCEPT ![p] = id] /\ UNCHANGED sports
      BY <2>3 DEF TurnOn, proto
    <3>4. id = 0 \/ id \in LagIds \ pool
      BY AllocatesFree
    <3>5. queue' = queue \o t \o (IF id = 0 THEN <<>> ELSE <<m, l>>)
      BY <3>1
    <3>. HIDE DEF t, id, p
    <3>. QED
      BY <1>1, <2>1, <3>2, <3>3, <3>4, <3>5
  <2>4. CASE TurnOff
    <3>. DEFINE id == lag_id[p]
                m == LagMsg("unparams", id, p)
                l == LagMsg("delete", id, p)
    <3>1. PICK o \in Orders(ports[p].cfg) :
             queue' = queue \o ToEach(o, LAMBDA i : Overrides(i, "default"))
                            \o (IF id = 0 THEN <<>> ELSE <<m, l>>)
      BY <2>4 DEF TurnOff
    <3>. DEFINE t == ToEach(o, LAMBDA i : Overrides(i, "default"))
    <3>2. t \in Seq(LportMsg)
      BY <2>2, EachIsSpoken
    <3>3. lag_id' = [lag_id EXCEPT ![p] = 0] /\ UNCHANGED sports
      BY <2>4 DEF TurnOff, proto
    <3>5. queue' = queue \o t \o (IF id = 0 THEN <<>> ELSE <<m, l>>)
      BY <3>1
    <3>. HIDE DEF t, p
    <3>. QED
      BY <1>1, <2>1, <3>2, <3>3, <3>5
  <2>5. CASE SwitchMode
    BY <1>0, <2>5, SilenceSpeaks, SpokenKeys DEF SwitchMode, proto
  <2>. QED
    BY <1>3, <2>3, <2>4, <2>5
<1>. QED
  BY <1>2, <1>3

\* A message is taken off the queue.
LEMMA ReceiveKeys == ASSUME QueueInv, SportKeys, SportMessagesFit, Receive PROVE SportKeys'
<1>. DEFINE m == Head(queue)
<1>0. /\ sports \in [LagIds -> [state : {"none", "new", "set", "freed"}, key : Nat]]
      /\ queue \in Seq(Message) /\ queue # <<>> /\ queue' = Tail(queue) /\ UNCHANGED lag_id
      /\ LportMessage(m) \/ SportMessage(m)
  BY TypesNow DEF Receive, cache, QueueInv, Typed, TypedProto
<1>1. m \in Message
  BY <1>0
<1>. HIDE DEF m
<1>2. ASSUME NEW id \in LagIds
      PROVE  /\ ~Concerns(m, id) => sports'[id] = sports[id]
             /\ Concerns(m, id) /\ m.type = "params" => sports'[id].key = m.key
  <2>1. CASE LportMessage(m)
    <3>1. UNCHANGED sports /\ ~Concerns(m, id)
      BY <2>1 DEF LportMessage, Settle, Concerns, SportMsg
    <3>. QED
      BY <3>1
  <2>2. CASE SportMessage(m)
    <3>1. /\ m \in SportMsg /\ m.lag \in LagIds
          /\ \A d \in LagIds \ {m.lag} : sports'[d] = sports[d]
      BY <1>0, <1>1, <2>2, SportMessageTyped
    <3>2. CASE id # m.lag
      BY <3>1, <3>2 DEF Concerns
    <3>3. CASE id = m.lag
      <4>1. Concerns(m, id)
        BY <3>1, <3>3 DEF Concerns
      <4>2. m.type = "params" => sports[id].state = "new"
        BY <1>0, <3>3 DEF SportMessagesFit, m
      <4>3. m.type = "params" => sports' = [sports EXCEPT ![id] = [state |-> "set", key |-> m.key]]
        BY <2>2, <3>3, <4>2 DEF SportMessage
      <4>. QED
        BY <1>0, <4>1, <4>3
    <3>. QED
      BY <3>2, <3>3
  <2>. QED
    BY <1>0, <2>1, <2>2
<1>3. \A q \in Lags : lag_id[q] # 0 => lag_id[q] \in LagIds
  BY TypesNow, ConfigAssumption DEF LagIds
<1>4. ASSUME NEW q \in Lags, lag_id'[q] # 0
      PROVE  LastParams(queue', sports'[lag_id'[q]], lag_id'[q], q)
  <2>. DEFINE id == lag_id[q]
  <2>1. id \in LagIds /\ LastParams(queue, sports[id], id, q)
    BY <1>0, <1>3, <1>4 DEF SportKeys
  <2>. HIDE DEF id
  <2>2. /\ ~Concerns(m, id) => sports'[id] = sports[id]
        /\ Concerns(m, id) /\ m.type = "params" => sports'[id].key = m.key
    BY <1>2, <2>1
  <2>3. LastParams(Tail(queue), sports'[id], id, q)
    BY <1>0, <2>1, <2>2, ParamsTaken DEF m
  <2>. QED
    BY <1>0, <2>3 DEF id
<1>. QED
  BY <1>4 DEF SportKeys


\* A step that only does something to one interface speaks of ports only.
LEMMA ElsewhereSpeaks == ASSUME NEW T, NEW i, Elsewhere(State, T, i), queue' = T.queue PROVE Spoken
<1>1. PICK s \in Seq(LportMsg) : T.queue = State.queue \o s
  BY DEF Elsewhere
<1>. QED
  BY <1>1 DEF Spoken, State

\* The steps of the run that give and take no id.
LEMMA RunSpeaks ==
    ASSUME FlowInv, lacpd_run, ~(TurnOn \/ SwitchMode \/ TurnOff \/ \E p \in Lags : del_old_port(p))
    PROVE  Spoken /\ UNCHANGED <<lag_id, sports>>
<1>0. TablesInv /\ QueueInv /\ queue \in Seq(Message)
  BY TypesNow DEF FlowInv, SoundInv, TablesInv, MembersInv
<1>1. CASE \/ BeginRun \/ CompareMode \/ StartEligible \/ EndRun
           \/ (\E i \in Ifaces : add_new_interface(i))
           \/ \E p \in Lags : add_new_port(p) \/ StartPort(p)
  <2>1. UNCHANGED <<queue, lag_id, sports>>
    BY <1>1 DEF BeginRun, CompareMode, StartEligible, EndRun, add_new_interface, add_new_port,
                StartPort, proto
  <2>. QED
    BY <1>0, <2>1, SilenceSpeaks
<1>2. ASSUME NEW i \in Ifaces, update_interface(i) PROVE Spoken /\ UNCHANGED <<lag_id, sports>>
  <2>1. Elsewhere(State, State', i)
    BY <1>0, <1>2, InterfaceEntry
  <2>2. queue' = State'.queue
    BY DEF State
  <2>. QED
    BY <1>2, <2>1, <2>2, ElsewhereSpeaks DEF update_interface, proto
<1>3. ASSUME NEW i \in Ifaces, MakeIneligible(i) PROVE Spoken /\ UNCHANGED <<lag_id, sports>>
  <2>1. Elsewhere(State, State', i)
    BY <1>0, <1>3, IneligibleTables
  <2>2. queue' = State'.queue
    BY DEF State
  <2>. QED
    BY <1>3, <2>1, <2>2, ElsewhereSpeaks DEF MakeIneligible, proto
<1>4. ASSUME NEW i \in Ifaces, RemoveMember(i) PROVE Spoken /\ UNCHANGED <<lag_id, sports>>
  <2>. DEFINE K == Kept(i)
              p == task.port
  <2>1. State' = ListWithout(K, p, i) /\ p \in Lags
    BY <1>0, <1>4, RemoveTables, MemberHand DEF TablesInv, HandStep
  <2>2. K \in CState /\ Elsewhere(State, K, i)
    BY <1>0, <2>1, KeptEntry
  <2>. HIDE DEF K, p
  <2>3. queue' = K.queue
    <3>1. queue' = State'.queue
      BY DEF State
    <3>2. ListWithout(K, p, i).queue = K.queue
      BY <2>1, <2>2, ListEntry
    <3>. QED
      BY <2>1, <3>1, <3>2
  <2>. QED
    BY <1>4, <2>2, <2>3, ElsewhereSpeaks DEF RemoveMember, proto
<1>5. ASSUME NEW i \in Ifaces, UpdateMember(i) PROVE Spoken /\ UNCHANGED <<lag_id, sports>>
  <2>. DEFINE U == Updated(i)
  <2>1. /\ State' = update_interface_lag_eligibility(U, i) /\ task.port \in Lags
        /\ lag_id \in [Lags -> 0..MaxLagId]
    BY <1>0, <1>5, UpdateTables, MemberHand, TypesNow DEF TablesInv, HandStep
  <2>2. /\ U \in CState /\ Elsewhere(State, U, i)
        /\ (U.ifs[i].port \in Lags => U.ifs[i].key # NoLag)
    <3>1. U \in CState /\ Elsewhere(State, U, i) /\ SameEntry(ifs[i], U.ifs[i])
      BY <1>0, <2>1, UpdatedEntry
    <3>2. U.ifs[i].port \in Lags => U.ifs[i].key # NoLag
      BY <1>0, <3>1, MemberHasKey DEF SameEntry
    <3>. QED
      BY <3>1, <3>2
  <2>. HIDE DEF U
  <2>3. Elsewhere(U, State', i)
    BY <2>1, <2>2, UpdateEntry
  <2>4. Elsewhere(State, State', i)
    BY <2>2, <2>3, ElsewhereTransitive
  <2>5. queue' = State'.queue
    BY DEF State
  <2>. QED
    BY <1>5, <2>4, <2>5, ElsewhereSpeaks DEF UpdateMember, proto
<1>6. ASSUME NEW i \in Ifaces, AddMember(i) PROVE Spoken /\ UNCHANGED <<lag_id, sports>>
  <2>. DEFINE m == Overrides(i, ports[task.port].sys)
  <2>1. task.port \in Lags /\ queue' = Append(queue, m) /\ UNCHANGED <<lag_id, sports>>
    BY <1>0, <1>6, MemberHand DEF TablesInv, HandStep, AddMember, proto
  <2>2. ports[task.port].sys \in Systems
    BY <1>0, <2>1, TypesNow DEF LagPort
  <2>3. m \in LportMsg
    BY <2>2 DEF Overrides, LportMsg
  <2>. HIDE DEF m
  <2>4. <<m>> \in Seq(LportMsg) /\ m \in Message
    BY <2>3 DEF Message
  <2>5. Append(queue, m) = queue \o <<m>>
    BY <1>0, <2>4
  <2>. QED
    BY <2>1, <2>4, <2>5 DEF Spoken
<1>7. CASE FinishPort
  BY <1>0, <1>7, FinishSpeaks DEF FinishPort, proto
<1>. QED
  BY <1>1, <1>2, <1>3, <1>4, <1>5, <1>6, <1>7 DEF lacpd_run

\* Every step keeps the keys.
LEMMA KeysNext == ASSUME FlowInv, SportKeys, [Next]_vars PROVE SportKeys'
<1>0. QueueInv /\ SportMessagesFit /\ queue \in Seq(Message)
  BY TypesNow, MessagesFit DEF FlowInv, SoundInv, TablesInv, MembersInv
<1>1. CASE lacpd_run
  BY <1>0, <1>1, RunSpeaks, SpokenKeys, ModeKeys
<1>2. CASE Receive
  BY <1>0, <1>2, ReceiveKeys
<1>3. CASE Machines \/ HardwareCall \/ UNCHANGED vars \/ \E command : Edit(command)
  <2>1. UNCHANGED <<queue, lag_id, sports>>
    BY <1>3 DEF Machines, HardwareCall, Attach, Egress, Detach, Settle, CallWrites, CallReports, vars,
                cache, proto, Edit
  <2>. QED
    BY <1>0, <2>1, SilenceSpeaks, SpokenKeys
<1>4. CASE Restart
  <2>1. lag_id' = [p \in Lags |-> 0]
    BY <1>4 DEF Restart, Started
  <2>. QED
    BY <2>1 DEF SportKeys
<1>5. CASE Administration
  <2>1. Restart \/ \E command : Edit(command)
    BY <1>5 DEF Administration, vtysh_intf_link_aggregation, delete_lag, lacp_set_mode,
         lacp_set_fallback, lacp_set_heartbeat_rate, SetSystemId, lacp_add_intf_to_lag,
         lacp_remove_intf_from_lag, LinkChanges, EditPort
  <2>. QED
    BY <1>3, <1>4, <2>1
<1>. QED
  BY <1>1, <1>2, <1>3, <1>5 DEF Next
-----------------------------------------------------------------------------
(* The theorems. *)

\* At rest every interface runs LACP as the rows say.
LEMMA RunsAtRest == ASSUME FlowInv, Rates, SportKeys PROVE RunsAsConfigured
<1>1. SUFFICES ASSUME Quiet, NEW i \in Ifaces PROVE RunsAsRow(i)
  BY DEF RunsAsConfigured
<1>0. /\ SoundInv /\ TablesInv /\ QueueInv /\ Sound(State, lports[i], call, i)
      /\ task.at = "idle" /\ queue = <<>> /\ changed.ports = {} /\ changed.ifs = {}
      /\ State.queue = queue /\ State.ports = ports /\ State.ifs = ifs
  BY <1>1 DEF FlowInv, SoundInv, TablesInv, MembersInv, AllSound, Quiet, State
<1>2. lports[i].up <=> \E p \in Home(i) : Dynamic(p)
  BY <1>1, AtRest
<1>3. ASSUME NEW p \in Home(i), Dynamic(p)
      PROVE  /\ lports[i].key = keys[i] /\ lports[i].link = links[i]
             /\ lports[i].active = (rows[p].lacp = "active") /\ lports[i].fast = rows[p].fast
             /\ lports[i].sys = rows[p].sys
             /\ lag_id[p] # 0 => sports[lag_id[p]] = [state |-> "set", key |-> p]
  <2>1. p \in Lags /\ rows[p].present /\ i \in rows[p].members
    BY <1>3 DEF Home
  <2>2. ifs[i].enabled
    BY <1>1, <1>3, AtRest
  <2>3. PICK q \in Lags :
                 /\ q \in Home(i) /\ Dynamic(q) /\ ifs[i].port = q /\ RunsIn(State, i, q)
                 /\ ports[q].mode = rows[q].lacp /\ ports[q].fast = rows[q].fast
                 /\ ports[q].sys = rows[q].sys
    BY <1>1, <2>2, AtRest
  <2>4. q = p
    BY <1>0, <2>1, <2>3 DEF TablesInv, MembersInv, Belongs, RowsApart, Home
  <2>5. /\ LastWord(<<>>, lports[i], i, "key", ifs[i].key)
        /\ LastWord(<<>>, lports[i], i, "active", ifs[i].active)
        /\ LastWord(<<>>, lports[i], i, "fast", ifs[i].fast)
        /\ LastWord(<<>>, lports[i], i, "link", ifs[i].link)
        /\ LastWord(<<>>, lports[i], i, "sys", ports[ifs[i].port].sys)
    BY <1>0, <2>2 DEF Sound, Told
  <2>6. /\ lports[i]["key"] = ifs[i].key /\ lports[i]["active"] = ifs[i].active
        /\ lports[i]["fast"] = ifs[i].fast /\ lports[i]["link"] = ifs[i].link
        /\ lports[i]["sys"] = ports[ifs[i].port].sys
    BY <2>5, NoMoreWords
  <2>7. ifs[i].cached /\ ~Fresh(i)
    <3>1. ifs[i].eligible
      BY <1>0, <2>3 DEF RunsIn, Sound, ListedOnce
    <3>. QED
      BY <1>0, <3>1 DEF Fresh, TablesInv, MembersInv, Underway, IfacesFirst
  <2>8. /\ keys[i] = p /\ ifs[i].key = p /\ links[i] = ifs[i].link
    BY <1>0, <2>1, <2>7, RowKey DEF TablesInv, Tables, KeysTold
  <2>9. ifs[i].active = (rows[p].lacp = "active")
    BY <1>0, <2>3, <2>4 DEF Sound, EnabledRuns
  <2>10. ifs[i].fast = rows[p].fast
    <3>1. RateTold(State, i)
      BY <1>0, NoneUntimed DEF PortSteps
    <3>. QED
      BY <1>0, <2>3, <2>4, <3>1 DEF RateTold
  <2>11. ASSUME lag_id[p] # 0 PROVE sports[lag_id[p]] = [state |-> "set", key |-> p]
    <3>. DEFINE id == lag_id[p]
    <3>1. id \in LagIds /\ id \in pool
      <4>1. pool = {lag_id[r] : r \in Lags} \ {0}
        BY <1>0 DEF QueueInv, LagInv, LagIdsAreExclusive
      <4>2. lag_id \in [Lags -> 0..MaxLagId] /\ MaxLagId \in Nat
        BY <1>0, TypesNow, ConfigAssumption
      <4>3. id \in 0..MaxLagId /\ id # 0
        BY <2>1, <2>11, <4>2
      <4>. HIDE DEF id
      <4>4. id \in LagIds
        BY <4>2, <4>3 DEF LagIds
      <4>. QED
        BY <2>1, <4>1, <4>3, <4>4 DEF id
    <3>2. Len(<<>>) = 0
      OBVIOUS
    <3>3. sports[id].key = p
      BY <1>0, <2>1, <2>11, <3>2 DEF SportKeys, LastParams
    <3>4. sports[id].state = "set"
      <4>1. PICK g : Meets(sports[id].state, g[0]) /\ g[Len(<<>>)] = "set"
        BY <1>0, <3>1 DEF QueueInv, Order, Orderly
      <4>2. g[0] = "set"
        BY <3>2, <4>1
      <4>. QED
        BY <4>1, <4>2 DEF Meets
    <3>5. sports[id] \in [state : {"none", "new", "set", "freed"}, key : Nat]
      BY <1>0, <3>1 DEF QueueInv, Typed, TypedProto
    <3>. HIDE DEF id
    <3>6. sports[id] = [state |-> "set", key |-> p]
      BY <3>3, <3>4, <3>5
    <3>. QED
      BY <3>6 DEF id
  <2>12. lports[i].key = keys[i] /\ lports[i].link = links[i] /\ lports[i].sys = rows[p].sys
    BY <2>3, <2>4, <2>6, <2>8
  <2>. QED
    BY <2>6, <2>9, <2>10, <2>11, <2>12
<1>. QED
  BY <1>2, <1>3 DEF RunsAsRow

\* The invariant behind the theorems, of the careful administrator's runs.
RestInv == FlowInv /\ FallbackRuns /\ Rates /\ SportKeys

\* It holds when lacpd starts.
LEMMA RestInit == Init /\ RowsApart => RestInv
<1>. SUFFICES ASSUME Init, RowsApart PROVE RestInv
  OBVIOUS
<1>1. FlowInv
  BY FlowInit
<1>2. ports = [p \in Lags |-> NoPort] /\ lag_id = [p \in Lags |-> 0] /\ lports = [i \in Ifaces |-> NoLport]
  BY DEF Init
<1>3. Rates
  BY <1>2, FreshRates
<1>4. FallbackRuns /\ SportKeys
  BY <1>2 DEF FallbackRuns, SportKeys, NoLport
<1>. QED
  BY <1>1, <1>3, <1>4 DEF RestInv

\* Every step preserves it.
LEMMA RestNext == RestInv /\ [Next]_vars /\ [CarefulStep]_vars => RestInv'
<1>. SUFFICES ASSUME RestInv, [Next]_vars, [CarefulStep]_vars PROVE RestInv'
  OBVIOUS
<1>1. FlowInv /\ FallbackRuns /\ Rates /\ SportKeys /\ SoundInv
  BY DEF RestInv, FlowInv
<1>2. FlowInv'
  BY <1>1, FlowNext
<1>. QED
  BY <1>1, <1>2, FallbackNext, RatesNext, KeysNext DEF RestInv

\* Where the administrator is careful, LACP runs on exactly the members of dynamic LAGs,
\* with their key, link, mode, rate and system id, whenever both threads are at rest.
THEOREM LacpFollowsRows == CarefulSpec => []RunsAsConfigured
<1>1. RestInv => RunsAsConfigured
  BY RunsAtRest DEF RestInv
<1>. QED
  BY <1>1, RestInit, RestNext, PTL DEF CarefulSpec, Spec

\* A port that is in a trunk at rest is enabled in hardware.
THEOREM TrunkIsServed == CarefulSpec => []HardwareServesTrunk
<1>1. RestInv => HardwareServesTrunk
  BY ServedAtRest DEF RestInv
<1>. QED
  BY <1>1, RestInit, RestNext, PTL DEF CarefulSpec, Spec

\* No port has fallback at rest whose LAG has not.
THEOREM FallbackFollowsRows == CarefulSpec => []FallbackIsAllowed
<1>1. RestInv => FallbackIsAllowed
  BY FallbackAtRest DEF RestInv
<1>. QED
  BY <1>1, RestInit, RestNext, PTL DEF CarefulSpec, Spec
=============================================================================

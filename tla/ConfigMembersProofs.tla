------------------------ MODULE ConfigMembersProofs ------------------------
(***************************************************************************)
(* Who is a member of which LAG, and who is eligible: EligibilityAgrees,   *)
(* for any number of LAGs, interfaces and commands.  It is not true of     *)
(* every administrator: CarefulStep says which habits it takes, and each   *)
(* of the three is one without which TLC finds a counterexample.           *)
(***************************************************************************)
EXTENDS ConfigProofs
-----------------------------------------------------------------------------
(* Who is a member of what, and who is eligible. *)

\* Membership, modes and what is cached are the same in S and T.
SameMembers(S, T) ==
    /\ \A q \in Lags : /\ T.ports[q].cached = S.ports[q].cached
                       /\ T.ports[q].cfg = S.ports[q].cfg
                       /\ T.ports[q].mode = S.ports[q].mode
    /\ \A j \in Ifaces : /\ T.ifs[j].cached = S.ifs[j].cached
                         /\ T.ifs[j].port = S.ifs[j].port

\* Both records of eligibility are the same in S and T.
SameMarks(S, T) ==
    /\ \A q \in Lags : T.ports[q].eligible = S.ports[q].eligible
    /\ \A j \in Ifaces : T.ifs[j].eligible = S.ifs[j].eligible

\* From S to T the eligibility of i for p becomes e, in both records.
Marked(S, T, p, i, e) ==
    /\ \A q \in Lags : T.ports[q].eligible =
          IF q # p THEN S.ports[q].eligible
          ELSE IF e THEN S.ports[q].eligible \cup {i} ELSE S.ports[q].eligible \ {i}
    /\ \A j \in Ifaces : T.ifs[j].eligible = IF j = i THEN e ELSE S.ifs[j].eligible

\* Nothing said changes either.
LEMMA SendSame ==
    ASSUME NEW S \in CState, NEW s PROVE SameMembers(S, Send(S, s)) /\ SameMarks(S, Send(S, s))
<1>1. Send(S, s).ports = S.ports /\ Send(S, s).ifs = S.ifs
  BY DEF Send, CState
<1>. QED
  BY <1>1 DEF SameMembers, SameMarks

\* set_interface_lag_eligibility marks both records or, if the interface's flag has
\* the value already, neither.
LEMMA SetEligibilityMarks ==
    ASSUME NEW S \in CState, NEW p \in Lags, NEW i \in Ifaces, NEW e \in BOOLEAN,
           NEW T, T = set_interface_lag_eligibility(S, p, i, e)
    PROVE  /\ T \in CState /\ SameMembers(S, T)
           /\ IF e = S.ifs[i].eligible THEN SameMarks(S, T) ELSE Marked(S, T, p, i, e)
<1>0. T \in CState
  BY SetEligibilityTalks DEF Talks
<1>1. CASE e = S.ifs[i].eligible
  <2>1. T = S
    BY <1>1 DEF set_interface_lag_eligibility
  <2>. QED
    BY <1>0, <1>1, <2>1 DEF SameMembers, SameMarks
<1>2. CASE e # S.ifs[i].eligible
  <2>. DEFINE P == S.ports[p]
              f == IF IsDynamic(P)
                   THEN [S.ifs[i] EXCEPT !.enabled = e, !.fast = P.fast,
                                         !.active = P.mode = "active"]
                   ELSE S.ifs[i]
              h == IF IsDynamic(P) /\ e THEN S.hw[i] ELSE [rx |-> e, tx |-> e]
              R == [S EXCEPT !.ifs[i] = f, !.hw[i] = h]
              U == IF IsDynamic(P) /\ (i \in P.cfg \/ i \notin recent)
                   THEN Send(R, <<ConfigLport(R, i)>>) ELSE R
              V == [U EXCEPT !.ifs[i].eligible = e,
                             !.ports[p].eligible = IF e THEN @ \cup {i} ELSE @ \ {i}]
  <2>1. T = V
    BY <1>2 DEF set_interface_lag_eligibility
  <2>2. P \in LagPort /\ S.ifs[i] \in Iface /\ S.hw[i] \in Flags
    BY DEF CState
  <2>3. f.cached = S.ifs[i].cached /\ f.port = S.ifs[i].port /\ f \in Iface /\ h \in Flags
    <3>. HIDE DEF P
    <3>. QED
      BY <2>2 DEF Iface, Flags, LagPort
  <2>4. R \in CState /\ R.ports = S.ports /\ R.ifs = [S.ifs EXCEPT ![i] = f]
    <3>. HIDE DEF f, h
    <3>. QED
      BY <2>3 DEF CState
  <2>5. U.ports = S.ports /\ U.ifs = [S.ifs EXCEPT ![i] = f] /\ DOMAIN U = {"ports", "ifs", "hw", "queue"}
    <3>. HIDE DEF R
    <3>1. \A s : /\ Send(R, s).ports = R.ports /\ Send(R, s).ifs = R.ifs
                 /\ DOMAIN Send(R, s) = DOMAIN R /\ DOMAIN R = {"ports", "ifs", "hw", "queue"}
      BY <2>4 DEF Send, CState
    <3>. QED
      BY <2>4, <3>1
  <2>6. /\ V.ports = [S.ports EXCEPT ![p].eligible = IF e THEN @ \cup {i} ELSE @ \ {i}]
        /\ V.ifs = [S.ifs EXCEPT ![i] = [f EXCEPT !.eligible = e]]
    <3>. HIDE DEF U, f
    <3>1. /\ V.ports = [U.ports EXCEPT ![p].eligible = IF e THEN @ \cup {i} ELSE @ \ {i}]
          /\ V.ifs = [U.ifs EXCEPT ![i].eligible = e]
      BY <2>5
    <3>2. S.ifs \in [Ifaces -> Iface]
      BY DEF CState
    <3>. QED
      BY <2>5, <3>1, <3>2
  <2>. HIDE DEF V, f
  <2>7. /\ [f EXCEPT !.eligible = e].eligible = e
        /\ [f EXCEPT !.eligible = e].port = S.ifs[i].port
        /\ [f EXCEPT !.eligible = e].cached = S.ifs[i].cached
    BY <2>3 DEF Iface
  <2>8. S.ports \in [Lags -> LagPort] /\ S.ifs \in [Ifaces -> Iface]
    BY DEF CState
  <2>9. \A j \in Ifaces : /\ T.ifs[j].cached = S.ifs[j].cached
                          /\ T.ifs[j].port = S.ifs[j].port
                          /\ T.ifs[j].eligible = IF j = i THEN e ELSE S.ifs[j].eligible
    BY <2>1, <2>6, <2>7, <2>8
  <2>10. \A q \in Lags : /\ T.ports[q].cached = S.ports[q].cached
                         /\ T.ports[q].cfg = S.ports[q].cfg
                         /\ T.ports[q].mode = S.ports[q].mode
                         /\ T.ports[q].eligible =
                               IF q # p THEN S.ports[q].eligible
                               ELSE IF e THEN S.ports[q].eligible \cup {i}
                               ELSE S.ports[q].eligible \ {i}
    <3>. DEFINE Q == [S.ports[p] EXCEPT !.eligible = IF e THEN @ \cup {i} ELSE @ \ {i}]
    <3>1. T.ports = [S.ports EXCEPT ![p] = Q]
      BY <2>1, <2>6, <2>8
    <3>2. /\ Q.cached = S.ports[p].cached /\ Q.cfg = S.ports[p].cfg /\ Q.mode = S.ports[p].mode
          /\ Q.eligible = IF e THEN S.ports[p].eligible \cup {i} ELSE S.ports[p].eligible \ {i}
      BY <2>2 DEF LagPort
    <3>. HIDE DEF Q
    <3>. QED
      BY <2>8, <3>1, <3>2
  <2>. QED
    BY <1>0, <1>2, <2>9, <2>10 DEF SameMembers, Marked
<1>. QED
  BY <1>1, <1>2

\* update_interface_lag_eligibility marks both records if the LAG's set is to change
\* and the interface's flag does not have the value already.
LEMMA UpdateEligibilityMarks ==
    ASSUME NEW S \in CState, NEW i \in Ifaces, lag_id \in [Lags -> 0..MaxLagId],
           NEW T, T = update_interface_lag_eligibility(S, i), NEW p, p = S.ifs[i].port
    PROVE  /\ T \in CState /\ SameMembers(S, T) /\ p \in Lags \cup {NoLag}
           /\ p = NoLag => SameMarks(S, T)
           /\ p \in Lags =>
                 \E e \in BOOLEAN :
                    /\ e => i \in S.ports[p].cfg
                    /\ i \in S.ports[p].cfg /\ IsDynamic(S.ports[p]) => e
                    /\ IF e # (i \in S.ports[p].eligible) /\ e # S.ifs[i].eligible
                       THEN Marked(S, T, p, i, e) ELSE SameMarks(S, T)
<1>0. T \in CState
  BY UpdateEligibilityTalks DEF Talks
<1>1. p \in Lags \cup {NoLag} /\ S.ifs[i] \in Iface
  BY DEF CState, Iface
<1>2. CASE p = NoLag
  <2>1. T = S /\ p \notin Lags
    BY <1>2, ConfigAssumption DEF update_interface_lag_eligibility, NoLag
  <2>. QED
    BY <1>0, <1>1, <2>1 DEF SameMembers, SameMarks
<1>3. CASE p \in Lags
  <2>. DEFINE v == lag_member_speed(S, i)
              e == new_eligible(S, i)
              R == [S EXCEPT !.ports[p].speed = v,
                             !.ifs[i].key = IF @ = NoLag THEN lag_id[p] ELSE @]
  <2>1. v \in Nat /\ e \in BOOLEAN /\ p # NoLag
    BY <1>3, EligibilityValues, ConfigAssumption DEF NoLag
  <2>a. e => i \in S.ports[p].cfg
    BY DEF new_eligible
  <2>b. i \in S.ports[p].cfg /\ IsDynamic(S.ports[p]) => e
    BY DEF new_eligible
  <2>. HIDE DEF v, e
  <2>2. S.ports \in [Lags -> LagPort] /\ S.ifs \in [Ifaces -> Iface]
    BY DEF CState
  <2>3. /\ R.ports = [S.ports EXCEPT ![p] = [S.ports[p] EXCEPT !.speed = v]]
        /\ R.ifs = [S.ifs EXCEPT ![i] = [S.ifs[i] EXCEPT !.key = IF @ = NoLag THEN lag_id[p] ELSE @]]
    BY <1>3, <2>2 DEF CState
  <2>4. R \in CState
    <3>. DEFINE g == [S.ifs[i] EXCEPT !.key = IF @ = NoLag THEN lag_id[p] ELSE @]
                Q == [S.ports[p] EXCEPT !.speed = v]
    <3>1. lag_id[p] \in Nat /\ S.ports[p] \in LagPort
      BY <1>3, ConfigAssumption DEF CState
    <3>2. g \in Iface /\ Q \in LagPort
      BY <1>1, <2>1, <3>1 DEF Iface, LagPort
    <3>3. R = [S EXCEPT !.ports[p] = Q, !.ifs[i] = g]
      OBVIOUS
    <3>. HIDE DEF g, Q, R
    <3>. QED
      BY <1>3, <3>2, <3>3 DEF CState
  <2>. HIDE DEF R
  <2>5. SameMembers(S, R) /\ SameMarks(S, R)
    <3>. DEFINE Q == [S.ports[p] EXCEPT !.speed = v]
                g == [S.ifs[i] EXCEPT !.key = IF @ = NoLag THEN lag_id[p] ELSE @]
    <3>1. /\ Q.cached = S.ports[p].cached /\ Q.cfg = S.ports[p].cfg /\ Q.mode = S.ports[p].mode
          /\ Q.eligible = S.ports[p].eligible
      BY <1>3, <2>2 DEF LagPort
    <3>2. g.cached = S.ifs[i].cached /\ g.port = S.ifs[i].port /\ g.eligible = S.ifs[i].eligible
      BY <1>1 DEF Iface
    <3>3. R.ports = [S.ports EXCEPT ![p] = Q] /\ R.ifs = [S.ifs EXCEPT ![i] = g]
      BY <2>3
    <3>. HIDE DEF Q, g
    <3>4. \A q \in Lags : R.ports[q] = IF q = p THEN Q ELSE S.ports[q]
      BY <2>2, <3>3
    <3>5. \A j \in Ifaces : R.ifs[j] = IF j = i THEN g ELSE S.ifs[j]
      BY <2>2, <3>3
    <3>. QED
      BY <1>3, <3>1, <3>2, <3>4, <3>5 DEF SameMembers, SameMarks
  <2>6. T = IF e # (i \in S.ports[p].eligible)
            THEN set_interface_lag_eligibility(R, p, i, e) ELSE R
    BY <2>1 DEF update_interface_lag_eligibility, EligibilityChanges, R, v, e
  <2>7. CASE e # (i \in S.ports[p].eligible)
    <3>. DEFINE Q == set_interface_lag_eligibility(R, p, i, e)
    <3>1. T = Q
      BY <2>6, <2>7
    <3>. HIDE DEF Q
    <3>2. /\ T \in CState /\ SameMembers(R, T)
          /\ IF e = R.ifs[i].eligible THEN SameMarks(R, T) ELSE Marked(R, T, p, i, e)
      BY <1>3, <2>1, <2>4, <3>1, SetEligibilityMarks DEF Q
    <3>3. R.ifs[i].eligible = S.ifs[i].eligible
      BY <2>5 DEF SameMarks
    <3>4. SameMembers(S, T)
      BY <2>5, <3>2 DEF SameMembers
    <3>5. SameMarks(R, T) => SameMarks(S, T)
      BY <2>5 DEF SameMarks
    <3>6. Marked(R, T, p, i, e) => Marked(S, T, p, i, e)
      BY <2>5 DEF SameMarks, Marked
    <3>. QED
      BY <1>1, <1>3, <2>1, <2>a, <2>b, <2>7, <3>2, <3>3, <3>4, <3>5, <3>6
  <2>8. CASE e = (i \in S.ports[p].eligible)
    BY <1>0, <1>1, <1>3, <2>1, <2>a, <2>b, <2>5, <2>6, <2>8
  <2>. QED
    BY <2>1, <2>7, <2>8
<1>. QED
  BY <1>1, <1>2, <1>3
-----------------------------------------------------------------------------
(* What lacpd keeps true of members under a careful administrator. *)

\* Only LAGs that are cached and have a row have members in the cache.
MembersAreCached ==
    \A p \in Lags : ~ports[p].cached \/ ~rows[p].present => ports[p].cfg = {}

\* A LAG not cached yet is empty, or all are new (lacpd starts).
UnseenAreEmpty ==
    \/ \A p \in Added : rows[p].members = {}
    \/ \A q \in Lags : ports[q].cached => task.at = "run" /\ ports[q].cfg = rows[q].members

\* A run takes up the new interfaces before it does anything else.
IfacesFirst ==
    \A i \in Ifaces : ~ifs[i].cached =>
        /\ ifs[i].port = NoLag /\ ~ifs[i].eligible
        /\ task.at = "idle" => i \in changed.ifs
        /\ task.at # "idle" => task.at = "run" /\ i \in task.members

\* The interfaces added in this run point to the LAG their row says.
RecentAreHome ==
    /\ task.at = "idle" => recent = {}
    /\ \A i \in recent : ifs[i].port \in Lags /\ i \in rows[ifs[i].port].members

\* How far the LAG in hand is.
InHand ==
    LET p == task.port
    IN  /\ task.at = "removed" => task.members = ports[p].cfg \ rows[p].members
        /\ task.at = "mode" => /\ ports[p].cfg \subseteq rows[p].members
                               /\ task.members \subseteq ports[p].eligible
        /\ task.at = "added" => /\ ports[p].cfg \subseteq rows[p].members
                                /\ task.members = rows[p].members \ ports[p].cfg
        /\ task.at = "eligible" => ports[p].cfg = rows[p].members

\* Members that differ from the row's are known to differ, and will be handled.
DifferencesPend ==
    \A q \in Lags : ports[q].cached /\ ports[q].cfg # rows[q].members =>
        \/ task.at = "idle" /\ q \in changed.ports
        \/ task.at # "idle" /\ q \in task.ports
        \/ task.at \in PortSteps /\ q = task.port

\* A member points to its LAG; only one that moved in this run may still be a member
\* of the LAG it left.
Placed ==
    \A i \in Ifaces : \A q \in Lags :
        /\ i \in ports[q].cfg => ifs[i].port = q \/ i \in recent
        /\ ifs[i].port = q => i \in ports[q].cfg

\* An eligible interface is in the set of one LAG, and a member of it; the others are
\* in none.
Listed ==
    \A i \in Ifaces :
        /\ \A q \in Lags : i \in ports[q].eligible =>
              /\ ifs[i].eligible /\ i \in ports[q].cfg
              /\ \A r \in Lags : i \in ports[r].eligible => q = r
        /\ ifs[i].eligible => \E q \in Lags : i \in ports[q].eligible

\* One that is to move to another LAG is eligible in a dynamic one till it does.
MoversRun ==
    \A p \in Lags : \A q \in Lags : p # q => \A i \in ports[q].cfg \cap rows[p].members :
        IsDynamic(ports[q]) /\ i \in ports[q].eligible

\* i need not be eligible in p yet: it still is where it was, or p is in hand.
Waits(i, p) ==
    \/ \E q \in Lags : q # p /\ i \in ports[q].cfg /\ ifs[i].port = p
    \/ task.at \in {"mode", "added"} /\ p = task.port
    \/ task.at = "eligible" /\ p = task.port /\ i \in task.members

\* The members of a dynamic LAG are eligible, or will be when the run ends.
MembersRun ==
    \A p \in Lags : IsDynamic(ports[p]) =>
        \A i \in ports[p].cfg : i \in ports[p].eligible \/ Waits(i, p)

\* What the rows, the caches and the recently added interfaces have to do with each
\* other, wherever the run is.
Belongs == RowsApart /\ MembersAreCached /\ Placed /\ Listed /\ MoversRun

\* And what also depends on where it is.
Underway ==
    UnseenAreEmpty /\ IfacesFirst /\ RecentAreHome /\ InHand /\ DifferencesPend /\ MembersRun

\* The inductive invariant.
MembersInv == QueueInv /\ Belongs /\ Underway

\* Between runs nobody is recently added, so both records of eligibility agree.
LEMMA MembersAgree == MembersInv => EligibilityAgrees
<1>1. SUFFICES ASSUME MembersInv, task.at = "idle", NEW i \in Ifaces, NEW p \in Lags
               PROVE  i \in ports[p].eligible <=> ifs[i].eligible /\ ifs[i].port = p
  BY DEF EligibilityAgrees
<1>2. recent = {} /\ Placed /\ Listed
  BY <1>1 DEF MembersInv, Belongs, Underway, RecentAreHome
<1>. QED
  BY <1>2 DEF Placed, Listed

\* The types the following steps need.
LEMMA MemberTypes ==
    ASSUME QueueInv
    PROVE  /\ \A p \in Lags : /\ rows[p].members \subseteq Ifaces /\ rows[p].present \in BOOLEAN
                              /\ ports[p].cfg \subseteq Ifaces /\ ports[p].eligible \subseteq Ifaces
                              /\ ports[p].cached \in BOOLEAN
           /\ \A i \in Ifaces : /\ ifs[i].port \in Lags \cup {NoLag}
                                /\ ifs[i].cached \in BOOLEAN /\ ifs[i].eligible \in BOOLEAN
           /\ NoLag \notin Lags /\ recent \subseteq Ifaces
           /\ task.ports \subseteq Lags /\ task.members \subseteq Ifaces
           /\ task.at \in {"idle", "run"} \cup PortSteps
           /\ task.at \in PortSteps => task.port \in Lags
           /\ changed.ports \subseteq Lags /\ changed.ifs \subseteq Ifaces
<1>1. /\ rows \in [Lags -> Row] /\ ports \in [Lags -> LagPort] /\ ifs \in [Ifaces -> Iface]
      /\ task \in Task /\ changed \in [ports : SUBSET Lags, ifs : SUBSET Ifaces]
      /\ recent \subseteq Ifaces /\ (task.at \in PortSteps => task.port \in Lags)
  BY TypesNow
<1>2. \A p \in Lags : rows[p].members \subseteq Ifaces /\ rows[p].present \in BOOLEAN
  BY <1>1 DEF Row
<1>3. \A p \in Lags : /\ ports[p].cfg \subseteq Ifaces /\ ports[p].eligible \subseteq Ifaces
                      /\ ports[p].cached \in BOOLEAN
  BY <1>1 DEF LagPort
<1>4. \A i \in Ifaces : /\ ifs[i].port \in Lags \cup {NoLag}
                        /\ ifs[i].cached \in BOOLEAN /\ ifs[i].eligible \in BOOLEAN
  BY <1>1 DEF Iface
<1>5. NoLag \notin Lags
  BY ConfigAssumption DEF NoLag
<1>6. /\ task.ports \subseteq Lags /\ task.members \subseteq Ifaces
      /\ task.at \in {"idle", "run"} \cup PortSteps
  BY <1>1 DEF Task, PortSteps
<1>7. changed.ports \subseteq Lags /\ changed.ifs \subseteq Ifaces
  BY <1>1
<1>. QED
  BY <1>1, <1>2, <1>3, <1>4, <1>5, <1>6, <1>7

\* The step changes neither membership nor modes nor what is cached.
SameMembersNext ==
    /\ \A q \in Lags : /\ ports'[q].cached = ports[q].cached /\ ports'[q].cfg = ports[q].cfg
                       /\ ports'[q].mode = ports[q].mode
    /\ \A j \in Ifaces : ifs'[j].cached = ifs[j].cached /\ ifs'[j].port = ifs[j].port

\* Nor who is eligible.
SameMarksNext ==
    /\ \A q \in Lags : ports'[q].eligible = ports[q].eligible
    /\ \A j \in Ifaces : ifs'[j].eligible = ifs[j].eligible

\* It makes i eligible in p or not.
MarkedNext(p, i, e) ==
    /\ \A q \in Lags : ports'[q].eligible =
          IF q # p THEN ports[q].eligible
          ELSE IF e THEN ports[q].eligible \cup {i} ELSE ports[q].eligible \ {i}
    /\ \A j \in Ifaces : ifs'[j].eligible = IF j = i THEN e ELSE ifs[j].eligible

\* The caches become T.
LEMMA BecomesSame ==
    ASSUME NEW T, Becomes(T), NEW p, NEW i, NEW e
    PROVE  /\ SameMembers(State, T) => SameMembersNext
           /\ SameMarks(State, T) => SameMarksNext
           /\ Marked(State, T, p, i, e) => MarkedNext(p, i, e)
<1>1. ports' = T.ports /\ ifs' = T.ifs
  BY DEF Becomes
<1>2. State.ports = ports /\ State.ifs = ifs
  BY DEF State
<1>. QED
  BY <1>1, <1>2 DEF SameMembers, SameMarks, Marked, SameMembersNext, SameMarksNext, MarkedNext

\* What does not depend on the run stays.
LEMMA BelongsStays ==
    ASSUME MembersInv, SameMembersNext, SameMarksNext, UNCHANGED <<rows, recent>>
    PROVE  Belongs'
<1>1. RowsApart' /\ MembersAreCached'
  BY DEF MembersInv, Belongs, RowsApart, MembersAreCached, SameMembersNext
<1>2. Placed'
  BY DEF MembersInv, Belongs, Placed, SameMembersNext
<1>3. Listed'
  BY DEF MembersInv, Belongs, Listed, SameMembersNext, SameMarksNext
<1>4. MoversRun'
  BY DEF MembersInv, Belongs, MoversRun, SameMembersNext, SameMarksNext, IsDynamic
<1>. QED
  BY <1>1, <1>2, <1>3, <1>4 DEF Belongs

\* A step that changes none of this.
LEMMA NothingMoves ==
    ASSUME MembersInv, SameMembersNext, SameMarksNext, UNCHANGED <<rows, recent, task, changed>>
    PROVE  Belongs' /\ Underway'
<1>1. UnseenAreEmpty'
  BY DEF MembersInv, Underway, UnseenAreEmpty, Added, SameMembersNext
<1>2. IfacesFirst' /\ RecentAreHome'
  <2>1. recent \subseteq Ifaces
    BY MemberTypes DEF MembersInv
  <2>. QED
    BY <2>1 DEF MembersInv, Underway, IfacesFirst, RecentAreHome, SameMembersNext, SameMarksNext
<1>3. InHand'
  <2>1. task.at \in PortSteps => task.port \in Lags
    BY MemberTypes DEF MembersInv
  <2>. QED
    BY <2>1 DEF MembersInv, Underway, InHand, SameMembersNext, SameMarksNext, PortSteps
<1>4. DifferencesPend'
  BY DEF MembersInv, Underway, DifferencesPend, SameMembersNext
<1>5. MembersRun'
  <2>1. \A p \in Lags : ports[p].cfg \subseteq Ifaces
    BY MemberTypes DEF MembersInv
  <2>. QED
    BY <2>1 DEF MembersInv, Underway, MembersRun, Waits, SameMembersNext, SameMarksNext, IsDynamic
<1>. QED
  BY <1>1, <1>2, <1>3, <1>4, <1>5, BelongsStays DEF Underway

\* The protocol thread changes participants at most.
LEMMA ProtocolMembers ==
    ASSUME MembersInv, Receive \/ Machines \/ HardwareCall PROVE Belongs' /\ Underway'
<1>1. CASE CallReports
  <2>1. UNCHANGED <<rows, recent, task, changed, ifs>>
    BY <1>1 DEF CallReports, table
  <2>2. \A q \in Lags : /\ ports'[q].cached = ports[q].cached /\ ports'[q].cfg = ports[q].cfg
                        /\ ports'[q].mode = ports[q].mode
                        /\ ports'[q].eligible = ports[q].eligible
    <3>1. \A q \in Lags : ports[q] \in LagPort
      BY TypesNow DEF MembersInv
    <3>2. \A q \in Lags : \/ ports'[q] = ports[q]
                          \/ \E x : ports'[q] = [ports[q] EXCEPT !.participants = x]
      BY <1>1 DEF CallReports
    <3>. QED
      BY <3>1, <3>2 DEF LagPort
  <2>. QED
    BY <2>1, <2>2, NothingMoves DEF SameMembersNext, SameMarksNext
<1>2. CASE ~CallReports
  <2>1. UNCHANGED <<rows, recent, task, changed, ifs, ports>>
    BY <1>2 DEF Receive, Machines, HardwareCall, CallWrites, Attach, Egress, Detach, table, cache
  <2>. QED
    BY <2>1, NothingMoves DEF SameMembersNext, SameMarksNext
<1>. QED
  BY <1>1, <1>2

-----------------------------------------------------------------------------
(* The passes of a run. *)

\* What a run begins with, or ends with, changes neither members nor eligibility.
LEMMA BeginMembers == ASSUME MembersInv, BeginRun PROVE Belongs' /\ Underway'
<1>1. /\ UNCHANGED <<rows, recent, ports, ifs>> /\ task.at = "idle"
      /\ task'.at = "run" /\ task'.members = changed.ifs
      /\ task'.ports = {p \in changed.ports : rows[p].present}
  BY DEF BeginRun, Idle
<1>2. Belongs' /\ SameMembersNext /\ SameMarksNext
  BY <1>1, BelongsStays DEF SameMembersNext, SameMarksNext
<1>3. UnseenAreEmpty'
  BY <1>1 DEF MembersInv, Underway, UnseenAreEmpty, Added
<1>4. IfacesFirst'
  BY <1>1 DEF MembersInv, Underway, IfacesFirst
<1>5. RecentAreHome' /\ InHand'
  BY <1>1 DEF MembersInv, Underway, RecentAreHome, InHand
<1>6. DifferencesPend'
  <2>1. ASSUME NEW q \in Lags, ports[q].cached, ports[q].cfg # rows[q].members
        PROVE  q \in task'.ports
    <3>1. q \in changed.ports
      BY <1>1, <2>1 DEF MembersInv, Underway, DifferencesPend, PortSteps
    <3>2. rows[q].present
      BY <2>1 DEF MembersInv, Belongs, RowsApart, MembersAreCached
    <3>. QED
      BY <1>1, <3>1, <3>2
  <2>. QED
    BY <1>1, <2>1 DEF DifferencesPend
<1>7. MembersRun'
  <2>1. ASSUME NEW p \in Lags, NEW i \in ports[p].cfg, Waits(i, p) PROVE Waits(i, p)'
    BY <1>1, <2>1 DEF Waits
  <2>. QED
    BY <1>1, <2>1 DEF MembersInv, Underway, MembersRun
<1>. QED
  BY <1>2, <1>3, <1>4, <1>5, <1>6, <1>7 DEF Underway

\* When no LAG is left to handle, nobody is both where it was and where it is.
LEMMA EndMembers == ASSUME MembersInv, EndRun PROVE Belongs' /\ Underway'
<1>1. /\ UNCHANGED <<rows, ports, ifs, changed>> /\ recent' = {} /\ task.at = "run"
      /\ task.members = {} /\ task.ports = {} /\ Added = {} /\ task'.at = "idle"
  BY DEF EndRun, Idle, table
<1>2. \A q \in Lags : ports[q].cfg = rows[q].members
  <2>1. ASSUME NEW q \in Lags, ports[q].cached PROVE ports[q].cfg = rows[q].members
    BY <1>1, <2>1 DEF MembersInv, Underway, DifferencesPend, PortSteps
  <2>2. ASSUME NEW q \in Lags, ~ports[q].cached PROVE ports[q].cfg = rows[q].members
    BY <1>1, <2>2 DEF MembersInv, Belongs, RowsApart, MembersAreCached, Added
  <2>. QED
    BY <2>1, <2>2
<1>3. \A i \in Ifaces : \A q \in Lags : i \in ports[q].cfg => ifs[i].port = q
  <2>1. SUFFICES ASSUME NEW i \in Ifaces, NEW q \in Lags, i \in ports[q].cfg, i \in recent
                 PROVE  ifs[i].port = q
    BY DEF MembersInv, Belongs, Placed
  <2>2. ifs[i].port \in Lags /\ i \in rows[ifs[i].port].members
    BY <2>1 DEF MembersInv, Underway, RecentAreHome
  <2>. QED
    BY <1>2, <2>1, <2>2 DEF MembersInv, Belongs, RowsApart
<1>4. Belongs'
  <2>1. RowsApart' /\ MembersAreCached' /\ Listed'
    BY <1>1 DEF MembersInv, Belongs, RowsApart, MembersAreCached, Listed
  <2>2. Placed'
    BY <1>1, <1>3 DEF MembersInv, Belongs, Placed
  <2>3. MoversRun'
    BY <1>1 DEF MembersInv, Belongs, MoversRun
  <2>. QED
    BY <2>1, <2>2, <2>3 DEF Belongs
<1>5. UnseenAreEmpty' /\ RecentAreHome' /\ InHand'
  BY <1>1 DEF UnseenAreEmpty, RecentAreHome, InHand, Added
<1>6. IfacesFirst'
  BY <1>1 DEF MembersInv, Underway, IfacesFirst
<1>7. DifferencesPend'
  BY <1>1, <1>2 DEF DifferencesPend
<1>8. MembersRun'
  <2>1. ASSUME NEW p \in Lags, NEW i \in ports[p].cfg, Waits(i, p) PROVE FALSE
    <3>1. i \in Ifaces
      BY MemberTypes DEF MembersInv
    <3>. QED
      BY <1>1, <1>3, <2>1, <3>1 DEF Waits
  <2>. QED
    BY <1>1, <2>1 DEF MembersInv, Underway, MembersRun
<1>. QED
  BY <1>4, <1>5, <1>6, <1>7, <1>8 DEF Underway

\* A LAG is handled only when all interfaces and all LAGs are cached.
LEMMA AllCached ==
    ASSUME MembersInv, task.at \in PortSteps \/ (task.at = "run" /\ task.members = {})
    PROVE  \A i \in Ifaces : ifs[i].cached
  BY MemberTypes DEF MembersInv, Underway, IfacesFirst, PortSteps

\* A LAG is taken in hand.
LEMMA StartMembers ==
    ASSUME MembersInv, NEW p \in Lags, StartPort(p) PROVE Belongs' /\ Underway'
<1>1. /\ UNCHANGED <<rows, recent, ifs, changed>> /\ task.at = "run" /\ task.members = {}
      /\ Added = {} /\ p \in task.ports
      /\ ports' = [ports EXCEPT ![p].fast = rows[p].fast]
  BY DEF StartPort, table
<1>2. /\ task'.at = "removed" /\ task'.port = p /\ task'.ports = task.ports \ {p}
      /\ task'.members = ports[p].cfg \ rows[p].members
  <2>1. task \in Task
    BY TypesNow DEF MembersInv
  <2>. QED
    BY <2>1 DEF StartPort, Task
<1>3. SameMembersNext /\ SameMarksNext
  <2>1. ports \in [Lags -> LagPort]
    BY TypesNow DEF MembersInv
  <2>2. \A q \in Lags : /\ ports'[q].cached = ports[q].cached /\ ports'[q].cfg = ports[q].cfg
                        /\ ports'[q].mode = ports[q].mode
                        /\ ports'[q].eligible = ports[q].eligible
    BY <1>1, <2>1 DEF LagPort
  <2>. QED
    BY <1>1, <2>2 DEF SameMembersNext, SameMarksNext
<1>4. Belongs'
  BY <1>1, <1>3, BelongsStays
<1>5. UnseenAreEmpty' /\ InHand'
  BY <1>1, <1>2, <1>3 DEF UnseenAreEmpty, InHand, Added, SameMembersNext
<1>6. IfacesFirst'
  BY <1>1, <1>3, AllCached DEF IfacesFirst, SameMembersNext
<1>7. RecentAreHome'
  <2>1. recent \subseteq Ifaces
    BY MemberTypes DEF MembersInv
  <2>. QED
    BY <1>1, <1>2, <2>1 DEF MembersInv, Underway, RecentAreHome
<1>8. DifferencesPend'
  BY <1>1, <1>2, <1>3 DEF MembersInv, Underway, DifferencesPend, SameMembersNext, PortSteps
<1>9. MembersRun'
  BY <1>1, <1>2, <1>3 DEF MembersInv, Underway, MembersRun, Waits, SameMembersNext,
                          SameMarksNext, IsDynamic
<1>. QED
  BY <1>4, <1>5, <1>6, <1>7, <1>8, <1>9 DEF Underway

\* The run stays with the LAG in hand, and changes members of no other.
InHandStep ==
    /\ task.at \in PortSteps /\ task'.at \in PortSteps
    /\ task'.port = task.port /\ task'.ports = task.ports
    /\ UNCHANGED <<rows, changed>>
    /\ \A q \in Lags : /\ ports'[q].cached = ports[q].cached
                       /\ q # task.port => ports'[q].cfg = ports[q].cfg
    /\ \A j \in Ifaces : ifs'[j].cached = ifs[j].cached

\* What such a step cannot disturb.
LEMMA HandKeeps ==
    ASSUME MembersInv, InHandStep
    PROVE  RowsApart' /\ UnseenAreEmpty' /\ IfacesFirst' /\ DifferencesPend'
<1>1. RowsApart'
  BY DEF MembersInv, Belongs, RowsApart, InHandStep
<1>2. UnseenAreEmpty'
  <2>1. task.port \in Lags /\ ports[task.port].cached /\ task.at # "run"
    BY DEF MembersInv, QueueInv, LagInv, InHandStep, PortSteps
  <2>2. \A p \in Added : rows[p].members = {}
    BY <2>1 DEF MembersInv, Underway, UnseenAreEmpty
  <2>. QED
    BY <2>2 DEF UnseenAreEmpty, Added, InHandStep
<1>3. IfacesFirst'
  BY AllCached DEF IfacesFirst, InHandStep
<1>4. DifferencesPend'
  BY DEF MembersInv, Underway, DifferencesPend, InHandStep, PortSteps
<1>. QED
  BY <1>1, <1>2, <1>3, <1>4

\* The members taken out are gone; or the new ones are in.
LEMMA PassMembers == ASSUME MembersInv, CompareMode \/ StartEligible PROVE Belongs' /\ Underway'
<1>0. task \in Task /\ task.port \in Lags
  BY TypesNow DEF MembersInv, CompareMode, StartEligible, PortSteps
<1>1. /\ UNCHANGED <<rows, recent, ifs, changed, ports>> /\ task.members = {}
      /\ task.at \in PortSteps /\ task'.at \in PortSteps
      /\ task'.port = task.port /\ task'.ports = task.ports
  BY <1>0 DEF CompareMode, StartEligible, table, ToAdded, Task, PortSteps
<1>2. SameMembersNext /\ SameMarksNext /\ InHandStep
  BY <1>1 DEF SameMembersNext, SameMarksNext, InHandStep
<1>3. Belongs'
  BY <1>1, <1>2, BelongsStays
<1>4. UnseenAreEmpty' /\ IfacesFirst' /\ DifferencesPend'
  BY <1>2, HandKeeps
<1>5. RecentAreHome'
  BY <1>1 DEF MembersInv, Underway, RecentAreHome, PortSteps
<1>6. CASE CompareMode
  <2>1. /\ task.at = "removed"
        /\ \/ task'.at = "added" /\ task'.members = rows[task.port].members \ ports[task.port].cfg
           \/ task'.at = "mode" /\ task'.members = ports[task.port].eligible
    BY <1>0, <1>6 DEF CompareMode, ToAdded, Task
  <2>2. ports[task.port].cfg \subseteq rows[task.port].members
    BY <1>1, <2>1 DEF MembersInv, Underway, InHand
  <2>3. InHand'
    BY <1>1, <2>1, <2>2 DEF InHand
  <2>4. MembersRun'
    BY <1>1, <2>1 DEF MembersInv, Underway, MembersRun, Waits
  <2>. QED
    BY <1>3, <1>4, <1>5, <2>3, <2>4 DEF Underway
<1>7. CASE StartEligible
  <2>1. task.at = "added" /\ task'.at = "eligible" /\ task'.members = ports[task.port].cfg
    BY <1>0, <1>7 DEF StartEligible, Task
  <2>2. ports[task.port].cfg = rows[task.port].members
    <3>1. /\ ports[task.port].cfg \subseteq rows[task.port].members
          /\ {} = rows[task.port].members \ ports[task.port].cfg
      BY <1>1, <2>1 DEF MembersInv, Underway, InHand
    <3>. QED
      BY <3>1
  <2>a. InHand'
    BY <1>1, <2>1, <2>2 DEF InHand
  <2>3. MembersRun'
    BY <1>1, <2>1 DEF MembersInv, Underway, MembersRun, Waits
  <2>. QED
    BY <1>3, <1>4, <1>5, <2>a, <2>3 DEF Underway
<1>. QED
  BY <1>6, <1>7

\* A LAG is done with.
LEMMA FinishMembers == ASSUME MembersInv, FinishPort PROVE Belongs' /\ Underway'
<1>. DEFINE p == task.port
<1>0. task \in Task /\ task.port \in Lags
  BY TypesNow DEF MembersInv, FinishPort, PortSteps
<1>1. /\ UNCHANGED <<rows, recent, ifs, changed>> /\ task.members = {} /\ task.at = "eligible"
      /\ task'.at = "run" /\ task'.ports = task.ports /\ task'.members = {}
  BY DEF FinishPort, table, Idle
<1>2. SameMembersNext /\ SameMarksNext
  <2>1. ports \in [Lags -> LagPort]
    BY TypesNow DEF MembersInv
  <2>2. \E x, y : ports' = [ports EXCEPT ![p] = [ports[p] EXCEPT !.sys = x, !.fallback = y]]
    <3>. DEFINE toSys  == rows[p].lacp # "off" /\ rows[p].sys # ports[p].sys
                toFall == rows[p].lacp # "off" /\ (rows[p].fallback # ports[p].fallback \/ task.moded)
                x == IF toSys THEN rows[p].sys ELSE ports[p].sys
                y == IF toFall THEN rows[p].fallback ELSE ports[p].fallback
    <3>1. ports' = [ports EXCEPT ![p].sys = IF toSys THEN rows[p].sys ELSE @,
                                 ![p].fallback = IF toFall THEN rows[p].fallback ELSE @]
      BY DEF FinishPort
    <3>. HIDE DEF toSys, toFall
    <3>2. ports' = [ports EXCEPT ![p] = [ports[p] EXCEPT !.sys = x, !.fallback = y]]
      BY <1>0, <2>1, <3>1 DEF LagPort
    <3>. QED
      BY <3>2
  <2>3. \A q \in Lags : /\ ports'[q].cached = ports[q].cached /\ ports'[q].cfg = ports[q].cfg
                        /\ ports'[q].mode = ports[q].mode
                        /\ ports'[q].eligible = ports[q].eligible
    BY <2>1, <2>2 DEF LagPort
  <2>. QED
    BY <1>1, <2>3 DEF SameMembersNext, SameMarksNext
<1>3. Belongs'
  BY <1>1, <1>2, BelongsStays
<1>4. UnseenAreEmpty'
  <2>1. task.port \in Lags /\ ports[task.port].cached
    BY <1>1 DEF MembersInv, QueueInv, LagInv, PortSteps
  <2>2. \A q \in Added : rows[q].members = {}
    BY <1>1, <2>1 DEF MembersInv, Underway, UnseenAreEmpty
  <2>. QED
    BY <1>1, <1>2, <2>2 DEF UnseenAreEmpty, Added, SameMembersNext
<1>5. IfacesFirst'
  BY <1>1, AllCached DEF IfacesFirst, PortSteps
<1>6. RecentAreHome' /\ InHand'
  BY <1>1 DEF MembersInv, Underway, RecentAreHome, InHand
<1>7. DifferencesPend'
  <2>1. ports[p].cfg = rows[p].members
    BY <1>1 DEF MembersInv, Underway, InHand
  <2>. QED
    BY <1>1, <1>2, <2>1 DEF MembersInv, Underway, DifferencesPend, SameMembersNext, PortSteps
<1>8. MembersRun'
  BY <1>1, <1>2 DEF MembersInv, Underway, MembersRun, Waits, SameMembersNext, SameMarksNext,
                    IsDynamic
<1>. QED
  BY <1>3, <1>4, <1>5, <1>6, <1>7, <1>8 DEF Underway

\* The mode of the LAG in hand changes.
LEMMA ModeMembers == ASSUME MembersInv, TurnOn \/ SwitchMode \/ TurnOff PROVE Belongs' /\ Underway'
<1>. DEFINE p == task.port
<1>0. task \in Task /\ task.port \in Lags
  BY TypesNow DEF MembersInv, TurnOn, SwitchMode, TurnOff, PortSteps
<1>1. /\ UNCHANGED <<rows, recent, ifs, changed>> /\ task.members = {} /\ task.at = "mode"
      /\ task' = ToAdded(p, TRUE, FALSE) \/ task' = ToAdded(p, TRUE, TRUE)
      /\ ports' = [ports EXCEPT ![p].mode = rows[p].lacp] \/ ports' = [ports EXCEPT ![p].mode = "off"]
  BY DEF TurnOn, SwitchMode, TurnOff, table
<1>2. /\ task'.at = "added" /\ task'.port = task.port /\ task'.ports = task.ports
      /\ task'.members = rows[p].members \ ports[p].cfg
  BY <1>0, <1>1 DEF ToAdded, Task
<1>3. \A q \in Lags : /\ ports'[q].cached = ports[q].cached /\ ports'[q].cfg = ports[q].cfg
                      /\ q # p => ports'[q].mode = ports[q].mode
                      /\ ports'[q].eligible = ports[q].eligible
  <2>1. ports \in [Lags -> LagPort]
    BY TypesNow DEF MembersInv
  <2>. QED
    BY <1>1, <2>1 DEF LagPort
<1>4. InHandStep
  BY <1>1, <1>2, <1>3 DEF InHandStep, PortSteps
<1>5. UnseenAreEmpty' /\ IfacesFirst' /\ DifferencesPend' /\ RowsApart'
  BY <1>4, HandKeeps
<1>6. ports[p].cfg \subseteq rows[p].members
  BY <1>1 DEF MembersInv, Underway, InHand
<1>7. MembersAreCached' /\ Placed' /\ Listed'
  BY <1>1, <1>3 DEF MembersInv, Belongs, MembersAreCached, Placed, Listed
<1>8. MoversRun'
  <2>1. \A q \in Lags : p # q => ports[p].cfg \cap rows[q].members = {}
    BY <1>0, <1>6 DEF MembersInv, Belongs, RowsApart
  <2>. QED
    BY <1>1, <1>3, <2>1 DEF MembersInv, Belongs, MoversRun, IsDynamic
<1>9. RecentAreHome' /\ InHand'
  BY <1>0, <1>1, <1>2, <1>3, <1>6 DEF MembersInv, Underway, RecentAreHome, InHand
<1>10. MembersRun'
  BY <1>1, <1>2, <1>3 DEF MembersInv, Underway, MembersRun, Waits, IsDynamic
<1>. QED
  BY <1>5, <1>7, <1>8, <1>9, <1>10 DEF Belongs, Underway

-----------------------------------------------------------------------------
(* Eligibility decided anew. *)

\* The entry of an interface changes, but not its LAG and its eligibility.
LEMMA EntrySame ==
    ASSUME NEW S \in CState, NEW i \in Ifaces, NEW g \in Iface, g.cached = S.ifs[i].cached,
           g.port = S.ifs[i].port, g.eligible = S.ifs[i].eligible,
           NEW T, T = [S EXCEPT !.ifs[i] = g]
    PROVE  T \in CState /\ SameMembers(S, T) /\ SameMarks(S, T)
<1>1. S.ifs \in [Ifaces -> Iface]
  BY DEF CState
<1>2. T \in CState /\ T.ports = S.ports /\ T.ifs = [S.ifs EXCEPT ![i] = g]
  BY DEF CState
<1>. QED
  BY <1>1, <1>2 DEF SameMembers, SameMarks

\* Two such changes make one.
LEMMA SameTransitive ==
    ASSUME NEW R, NEW S, NEW T, SameMembers(R, S), SameMarks(R, S)
    PROVE  /\ SameMembers(S, T) => SameMembers(R, T)
           /\ SameMarks(S, T) => SameMarks(R, T)
           /\ \A p, i, e : Marked(S, T, p, i, e) => Marked(R, T, p, i, e)
  BY DEF SameMembers, SameMarks, Marked

\* What update_interface_lag_eligibility does of i.
Decides(i) ==
    /\ SameMembersNext
    /\ ifs[i].port = NoLag => SameMarksNext
    /\ \A p \in Lags : ifs[i].port = p =>
          \E e \in BOOLEAN :
             /\ e => i \in ports[p].cfg
             /\ i \in ports[p].cfg /\ IsDynamic(ports[p]) => e
             /\ IF e # (i \in ports[p].eligible) /\ e # ifs[i].eligible
                THEN MarkedNext(p, i, e) ELSE SameMarksNext

\* The caches become what it makes of them, with a few fields changed before and a
\* message sent after.
LEMMA UpdateDecides ==
    ASSUME QueueInv, NEW S \in CState, NEW i \in Ifaces, SameMembers(State, S),
           SameMarks(State, S), NEW T, T = update_interface_lag_eligibility(S, i),
           NEW U, SameMembers(T, U), SameMarks(T, U), Becomes(U)
    PROVE  Decides(i)
<1>0. lag_id \in [Lags -> 0..MaxLagId] /\ NoLag \notin Lags
  BY TypesNow, MemberTypes
<1>. DEFINE p == S.ifs[i].port
<1>1. p = ifs[i].port
  BY DEF SameMembers, State
<1>2. /\ SameMembers(S, T) /\ p \in Lags \cup {NoLag}
      /\ p = NoLag => SameMarks(S, T)
      /\ p \in Lags =>
            \E e \in BOOLEAN :
               /\ e => i \in S.ports[p].cfg
               /\ i \in S.ports[p].cfg /\ IsDynamic(S.ports[p]) => e
               /\ IF e # (i \in S.ports[p].eligible) /\ e # S.ifs[i].eligible
                  THEN Marked(S, T, p, i, e) ELSE SameMarks(S, T)
  BY <1>0, UpdateEligibilityMarks
<1>3. SameMembers(State, U)
  BY <1>2, SameTransitive DEF SameMembers
<1>4. SameMarks(S, T) => SameMarks(State, U)
  BY DEF SameMarks
<1>5. ASSUME NEW e, Marked(S, T, p, i, e) PROVE Marked(State, U, p, i, e)
  <2>. HIDE DEF p
  <2>1. \A q \in Lags : /\ U.ports[q].eligible = T.ports[q].eligible
                        /\ S.ports[q].eligible = State.ports[q].eligible
    BY DEF SameMarks
  <2>2. \A j \in Ifaces : /\ U.ifs[j].eligible = T.ifs[j].eligible
                          /\ S.ifs[j].eligible = State.ifs[j].eligible
    BY DEF SameMarks
  <2>3. \A q \in Lags : T.ports[q].eligible =
           IF q # p THEN S.ports[q].eligible
           ELSE IF e THEN S.ports[q].eligible \cup {i} ELSE S.ports[q].eligible \ {i}
    BY <1>5 DEF Marked
  <2>4. \A j \in Ifaces : T.ifs[j].eligible = IF j = i THEN e ELSE S.ifs[j].eligible
    BY <1>5 DEF Marked
  <2>5. ASSUME NEW q \in Lags
        PROVE  U.ports[q].eligible =
                 IF q # p THEN State.ports[q].eligible
                 ELSE IF e THEN State.ports[q].eligible \cup {i} ELSE State.ports[q].eligible \ {i}
    BY <2>1, <2>3
  <2>6. ASSUME NEW j \in Ifaces
        PROVE  U.ifs[j].eligible = IF j = i THEN e ELSE State.ifs[j].eligible
    BY <2>2, <2>4
  <2>. QED
    BY <2>5, <2>6 DEF Marked
<1>6. \A q \in Lags : /\ S.ports[q].cfg = ports[q].cfg /\ S.ports[q].mode = ports[q].mode
                      /\ S.ports[q].eligible = ports[q].eligible
  BY DEF SameMembers, SameMarks, State
<1>7. S.ifs[i].eligible = ifs[i].eligible
  BY DEF SameMarks, State
<1>8. SameMembersNext
  BY <1>3, BecomesSame
<1>9. ifs[i].port = NoLag => SameMarksNext
  BY <1>1, <1>2, <1>4, BecomesSame
<1>10. ASSUME NEW r \in Lags, ifs[i].port = r
       PROVE  \E e \in BOOLEAN :
                 /\ e => i \in ports[r].cfg
                 /\ i \in ports[r].cfg /\ IsDynamic(ports[r]) => e
                 /\ IF e # (i \in ports[r].eligible) /\ e # ifs[i].eligible
                    THEN MarkedNext(r, i, e) ELSE SameMarksNext
  <2>1. p = r
    BY <1>1, <1>10
  <2>. HIDE DEF p
  <2>2. PICK e \in BOOLEAN :
               /\ e => i \in S.ports[p].cfg
               /\ i \in S.ports[p].cfg /\ IsDynamic(S.ports[p]) => e
               /\ IF e # (i \in S.ports[p].eligible) /\ e # S.ifs[i].eligible
                  THEN Marked(S, T, p, i, e) ELSE SameMarks(S, T)
    BY <1>2, <1>10, <2>1
  <2>3. IF e # (i \in ports[r].eligible) /\ e # ifs[i].eligible
        THEN Marked(State, U, r, i, e) ELSE SameMarks(State, U)
    BY <1>4, <1>5, <1>6, <1>7, <2>1, <2>2
  <2>4. (e => i \in ports[r].cfg) /\ (i \in ports[r].cfg /\ IsDynamic(ports[r]) => e)
    BY <1>6, <2>1, <2>2 DEF IsDynamic
  <2>. QED
    BY <2>3, <2>4, BecomesSame
<1>. QED
  BY <1>8, <1>9, <1>10 DEF Decides

\* An interface that was not eligible anywhere becomes so in a LAG it is a member of.
LEMMA MarkAdds ==
    ASSUME MembersInv, SameMembersNext, UNCHANGED <<rows, recent>>,
           NEW i \in Ifaces, NEW p \in Lags, ~ifs[i].eligible, i \in ports[p].cfg,
           MarkedNext(p, i, TRUE)
    PROVE  Belongs'
<1>1. RowsApart' /\ MembersAreCached' /\ Placed'
  BY DEF MembersInv, Belongs, RowsApart, MembersAreCached, Placed, SameMembersNext
<1>2. \A q \in Lags : i \notin ports[q].eligible
  BY DEF MembersInv, Belongs, Listed
<1>3. Listed'
  <2>1. ASSUME NEW j \in Ifaces, j # i
        PROVE  /\ ifs'[j].eligible = ifs[j].eligible
               /\ \A q \in Lags : j \in ports'[q].eligible <=> j \in ports[q].eligible
    BY <2>1 DEF MarkedNext
  <2>2. /\ ifs'[i].eligible
        /\ \A q \in Lags : i \in ports'[q].eligible <=> q = p
    BY <1>2 DEF MarkedNext
  <2>3. \A q \in Lags : ports'[q].cfg = ports[q].cfg
    BY DEF SameMembersNext
  <2>. QED
    BY <2>1, <2>2, <2>3 DEF MembersInv, Belongs, Listed
<1>4. MoversRun'
  <2>1. \A q \in Lags : /\ ports[q].eligible \subseteq ports'[q].eligible
                        /\ ports'[q].cfg = ports[q].cfg /\ ports'[q].mode = ports[q].mode
    BY DEF MarkedNext, SameMembersNext
  <2>. QED
    BY <2>1 DEF MembersInv, Belongs, MoversRun, IsDynamic
<1>. QED
  BY <1>1, <1>3, <1>4 DEF Belongs

\* One eligible in a LAG, and not about to move, no longer is.
LEMMA MarkRemoves ==
    ASSUME MembersInv, SameMembersNext, UNCHANGED <<rows, recent>>,
           NEW i \in Ifaces, NEW p \in Lags, i \in ports[p].eligible,
           \A q \in Lags : p # q => i \notin rows[q].members,
           MarkedNext(p, i, FALSE)
    PROVE  Belongs'
<1>1. RowsApart' /\ MembersAreCached' /\ Placed'
  BY DEF MembersInv, Belongs, RowsApart, MembersAreCached, Placed, SameMembersNext
<1>2. \A q \in Lags : i \in ports[q].eligible <=> q = p
  BY DEF MembersInv, Belongs, Listed
<1>3. Listed'
  <2>1. ASSUME NEW j \in Ifaces, j # i
        PROVE  /\ ifs'[j].eligible = ifs[j].eligible
               /\ \A q \in Lags : j \in ports'[q].eligible <=> j \in ports[q].eligible
    BY <2>1 DEF MarkedNext
  <2>2. /\ ~ifs'[i].eligible
        /\ \A q \in Lags : i \notin ports'[q].eligible
    BY <1>2 DEF MarkedNext
  <2>3. \A q \in Lags : ports'[q].cfg = ports[q].cfg
    BY DEF SameMembersNext
  <2>. QED
    BY <2>1, <2>2, <2>3 DEF MembersInv, Belongs, Listed
<1>4. MoversRun'
  <2>1. ASSUME NEW a \in Lags, NEW q \in Lags, a # q, NEW j \in ports[q].cfg \cap rows[a].members
        PROVE  IsDynamic(ports'[q]) /\ j \in ports'[q].eligible
    <3>1. IsDynamic(ports[q]) /\ j \in ports[q].eligible /\ ports'[q].mode = ports[q].mode
      BY <2>1 DEF MembersInv, Belongs, MoversRun, SameMembersNext
    <3>2. ~(q = p /\ j = i)
      BY <2>1
    <3>. QED
      BY <3>1, <3>2 DEF MarkedNext, IsDynamic
  <2>. QED
    BY <2>1 DEF MoversRun, SameMembersNext
<1>. QED
  BY <1>1, <1>3, <1>4 DEF Belongs

\* A decision leaves everybody where it belongs; in a dynamic LAG nobody loses by it,
\* and who is decided about is in the set or still in another LAG's.
LEMMA DecidesWell ==
    ASSUME MembersInv, NEW i \in Ifaces, Decides(i), UNCHANGED <<rows, recent>>
    PROVE  /\ Belongs'
           /\ \A p \in Lags : IsDynamic(ports[p]) =>
                 /\ ports[p].eligible \subseteq ports'[p].eligible
                 /\ ifs[i].port = p => \/ i \in ports'[p].eligible
                                       \/ \E q \in Lags : q # p /\ i \in ports[q].cfg
<1>0. ifs[i].port \in Lags \cup {NoLag} /\ NoLag \notin Lags /\ ifs[i].eligible \in BOOLEAN
  BY MemberTypes DEF MembersInv
<1>1. CASE ifs[i].port = NoLag
  <2>1. SameMembersNext /\ SameMarksNext
    BY <1>1 DEF Decides
  <2>. QED
    BY <1>0, <1>1, <2>1, BelongsStays DEF SameMarksNext
<1>2. ASSUME NEW p \in Lags, ifs[i].port = p
      PROVE  /\ Belongs'
             /\ \A q \in Lags : IsDynamic(ports[q]) => ports[q].eligible \subseteq ports'[q].eligible
             /\ IsDynamic(ports[p]) => \/ i \in ports'[p].eligible
                                       \/ \E q \in Lags : q # p /\ i \in ports[q].cfg
  <2>1. PICK e \in BOOLEAN :
             /\ e => i \in ports[p].cfg
             /\ i \in ports[p].cfg /\ IsDynamic(ports[p]) => e
             /\ IF e # (i \in ports[p].eligible) /\ e # ifs[i].eligible
                THEN MarkedNext(p, i, e) ELSE SameMarksNext
    BY <1>2 DEF Decides
  <2>2. i \in ports[p].cfg /\ SameMembersNext
    BY <1>2 DEF MembersInv, Belongs, Placed, Decides
  <2>3. CASE e /\ i \notin ports[p].eligible /\ ~ifs[i].eligible
    <3>1. e = TRUE /\ MarkedNext(p, i, TRUE)
      BY <1>0, <2>1, <2>3
    <3>2. Belongs'
      BY <2>2, <2>3, <3>1, MarkAdds
    <3>. QED
      BY <3>1, <3>2 DEF MarkedNext
  <2>4. CASE ~e /\ i \in ports[p].eligible /\ ifs[i].eligible
    <3>1. e = FALSE /\ MarkedNext(p, i, FALSE) /\ ~IsDynamic(ports[p])
      BY <1>0, <2>1, <2>2, <2>4
    <3>2. \A q \in Lags : p # q => i \notin rows[q].members
      BY <2>2, <3>1 DEF MembersInv, Belongs, MoversRun
    <3>3. Belongs'
      BY <2>2, <2>4, <3>1, <3>2, MarkRemoves
    <3>. QED
      BY <3>1, <3>3 DEF MarkedNext
  <2>5. CASE ~(e # (i \in ports[p].eligible) /\ e # ifs[i].eligible)
    <3>1. SameMarksNext
      BY <2>1, <2>5
    <3>2. Belongs'
      BY <2>2, <3>1, BelongsStays
    <3>3. ASSUME IsDynamic(ports[p]), i \notin ports[p].eligible
          PROVE  \E q \in Lags : q # p /\ i \in ports[q].cfg
      <4>1. ifs[i].eligible
        BY <1>0, <2>1, <2>2, <2>5, <3>3
      <4>. QED
        BY <3>3, <4>1 DEF MembersInv, Belongs, Listed
    <3>. QED
      BY <3>1, <3>2, <3>3 DEF SameMarksNext
  <2>. QED
    BY <1>0, <2>3, <2>4, <2>5
<1>. QED
  BY <1>0, <1>1, <1>2

\* A step of the pass over the interfaces.
LEMMA InterfaceStep ==
    ASSUME MembersInv, NEW i \in Ifaces, task.at = "run", task'.at = "run",
           task'.ports = task.ports, task'.members = task.members \ {i},
           UNCHANGED <<rows, changed, recent>>,
           \A q \in Lags : /\ ports'[q].cached = ports[q].cached /\ ports'[q].cfg = ports[q].cfg
                           /\ ports'[q].mode = ports[q].mode,
           \A q \in Lags : IsDynamic(ports[q]) => ports[q].eligible \subseteq ports'[q].eligible,
           \A j \in Ifaces : ifs'[j].port = ifs[j].port,
           \A j \in Ifaces : j # i => /\ ifs'[j].cached = ifs[j].cached
                                      /\ ifs'[j].eligible = ifs[j].eligible,
           ifs'[i].cached
    PROVE  Underway'
<1>1. UnseenAreEmpty'
  BY DEF MembersInv, Underway, UnseenAreEmpty, Added
<1>2. IfacesFirst'
  BY DEF MembersInv, Underway, IfacesFirst
<1>3. RecentAreHome' /\ InHand'
  <2>1. recent \subseteq Ifaces
    BY MemberTypes DEF MembersInv
  <2>. QED
    BY <2>1 DEF MembersInv, Underway, RecentAreHome, InHand
<1>4. DifferencesPend'
  BY DEF MembersInv, Underway, DifferencesPend, PortSteps
<1>5. MembersRun'
  <2>1. ASSUME NEW p \in Lags, IsDynamic(ports'[p]), NEW j \in ports'[p].cfg
        PROVE  j \in ports'[p].eligible \/ Waits(j, p)'
    <3>1. IsDynamic(ports[p]) /\ j \in ports[p].cfg /\ j \in Ifaces
      BY <2>1, MemberTypes DEF IsDynamic, MembersInv
    <3>2. j \in ports[p].eligible \/ Waits(j, p)
      BY <3>1 DEF MembersInv, Underway, MembersRun
    <3>3. Waits(j, p) => Waits(j, p)'
      BY <3>1 DEF Waits
    <3>. QED
      BY <3>1, <3>2, <3>3
  <2>. QED
    BY <2>1 DEF MembersRun
<1>. QED
  BY <1>1, <1>2, <1>3, <1>4, <1>5 DEF Underway

\* A walk's position.
LEMMA WalkTask ==
    ASSUME QueueInv, NEW at, NEW i, Walk(at, i)
    PROVE  /\ task.at = at /\ i \in task.members /\ task'.at = at /\ task'.port = task.port
           /\ task'.ports = task.ports /\ task'.members = task.members \ {i}
<1>1. task \in Task
  BY TypesNow
<1>. QED
  BY <1>1 DEF Walk, Task

\* A new interface is nobody's member yet.
LEMMA NewInterfaceMembers ==
    ASSUME MembersInv, NEW i \in Ifaces, add_new_interface(i) PROVE Belongs' /\ Underway'
<1>1. /\ task.at = "run" /\ task'.at = "run" /\ task'.ports = task.ports
      /\ task'.members = task.members \ {i}
  BY WalkTask DEF add_new_interface, MembersInv
<1>2. /\ UNCHANGED <<rows, changed, recent, ports>> /\ ~ifs[i].cached
  BY DEF add_new_interface, table
<1>3. ifs[i].port = NoLag /\ ~ifs[i].eligible /\ ifs[i].eligible \in BOOLEAN
  BY <1>2, MemberTypes DEF MembersInv, Underway, IfacesFirst
<1>4. /\ ifs'[i].cached /\ ifs'[i].port = NoLag /\ ifs'[i].eligible = FALSE
      /\ \A j \in Ifaces : j # i => ifs'[j] = ifs[j]
  <2>1. ifs \in [Ifaces -> Iface]
    BY TypesNow DEF MembersInv
  <2>. QED
    BY <2>1 DEF add_new_interface, NoIface
<1>5. \A j \in Ifaces : ifs'[j].port = ifs[j].port /\ (ifs'[j].eligible <=> ifs[j].eligible)
  BY <1>3, <1>4
<1>6. Belongs'
  <2>1. RowsApart' /\ MembersAreCached' /\ MoversRun'
    BY <1>2 DEF MembersInv, Belongs, RowsApart, MembersAreCached, MoversRun
  <2>2. Placed' /\ Listed'
    BY <1>2, <1>5 DEF MembersInv, Belongs, Placed, Listed
  <2>. QED
    BY <2>1, <2>2 DEF Belongs
<1>7. Underway'
  BY <1>1, <1>2, <1>4, <1>5, InterfaceStep
<1>. QED
  BY <1>6, <1>7

\* The flag of an interface not decided about stays.
LEMMA DecidesOne ==
    ASSUME MembersInv, NEW i \in Ifaces, Decides(i), NEW j \in Ifaces, j # i
    PROVE  ifs'[j].eligible = ifs[j].eligible
<1>1. ifs[i].port \in Lags \cup {NoLag}
  BY MemberTypes DEF MembersInv
<1>2. SameMarksNext \/ \E p \in Lags, e \in BOOLEAN : MarkedNext(p, i, e)
  BY <1>1 DEF Decides
<1>. QED
  BY <1>2 DEF SameMarksNext, MarkedNext

\* A known interface: its key and link are taken over, and its eligibility is decided
\* anew if the link changed.
LEMMA InterfaceDecides ==
    ASSUME QueueInv, NEW i \in Ifaces, update_interface(i)
    PROVE  Decides(i) \/ (SameMembersNext /\ SameMarksNext)
<1>. DEFINE A == State
            K == [A EXCEPT !.ifs[i].key = keys[i]]
            B == IF keys[i] \notin {NoLag, ifs[i].key}
                 THEN Send(K, <<ConfigLport(K, i)>>) ELSE A
            p == ifs[i].port
            C == [B EXCEPT !.ifs[i].link = links[i]]
            D == update_interface_lag_eligibility(C, i)
            E == IF ~EligibilityChanges(C, i) /\ p # NoLag /\ D.ifs[i].eligible
                    /\ IsDynamic(D.ports[p])
                 THEN Send(D, <<LinkChange(D.ifs[i], i), LportChange(D.ifs[i], i)>>) ELSE D
<1>0. A \in CState /\ keys[i] \in Nat /\ links[i] \in Nat
  BY TypesNow
<1>1. Becomes(IF links[i] # ifs[i].link THEN E ELSE B)
  BY DEF update_interface
<1>. HIDE DEF A
<1>2. K \in CState /\ SameMembers(A, K) /\ SameMarks(A, K)
  <2>. DEFINE g == [A.ifs[i] EXCEPT !.key = keys[i]]
  <2>1. A.ifs[i] \in Iface
    BY <1>0 DEF CState
  <2>2. /\ g \in Iface /\ g.cached = A.ifs[i].cached
        /\ g.port = A.ifs[i].port /\ g.eligible = A.ifs[i].eligible
    BY <1>0, <2>1 DEF Iface
  <2>3. K = [A EXCEPT !.ifs[i] = g]
    OBVIOUS
  <2>. HIDE DEF g, K
  <2>. QED
    BY <1>0, <2>2, <2>3, EntrySame
<1>. HIDE DEF K
<1>3. B \in CState /\ SameMembers(A, B) /\ SameMarks(A, B)
  <2>1. <<ConfigLport(K, i)>> \in Seq(LportMsg)
    BY <1>2, ConfigIsMsg
  <2>2. Send(K, <<ConfigLport(K, i)>>) \in CState
    BY <1>2, <2>1, SendTalks DEF Talks
  <2>3. /\ SameMembers(K, Send(K, <<ConfigLport(K, i)>>))
        /\ SameMarks(K, Send(K, <<ConfigLport(K, i)>>))
    BY <1>2, SendSame
  <2>4. /\ SameMembers(A, Send(K, <<ConfigLport(K, i)>>))
        /\ SameMarks(A, Send(K, <<ConfigLport(K, i)>>))
    BY <1>2, <2>3, SameTransitive
  <2>5. SameMembers(A, A) /\ SameMarks(A, A)
    BY DEF SameMembers, SameMarks
  <2>. QED
    BY <1>0, <2>2, <2>4, <2>5
<1>. HIDE DEF B
<1>4. C \in CState /\ SameMembers(A, C) /\ SameMarks(A, C)
  <2>. DEFINE g == [B.ifs[i] EXCEPT !.link = links[i]]
  <2>1. B.ifs[i] \in Iface
    BY <1>3 DEF CState
  <2>2. /\ g \in Iface /\ g.cached = B.ifs[i].cached
        /\ g.port = B.ifs[i].port /\ g.eligible = B.ifs[i].eligible
    BY <1>0, <2>1 DEF Iface
  <2>3. C = [B EXCEPT !.ifs[i] = g]
    OBVIOUS
  <2>. HIDE DEF g, C
  <2>4. C \in CState /\ SameMembers(B, C) /\ SameMarks(B, C)
    BY <1>3, <2>2, <2>3, EntrySame
  <2>. QED
    BY <1>3, <2>4, SameTransitive
<1>. HIDE DEF C
<1>5. D \in CState
  BY <1>4, TypesNow, UpdateEligibilityTalks DEF Talks
<1>6. SameMembers(D, E) /\ SameMarks(D, E)
  <2>. HIDE DEF D
  <2>1. \A s : SameMembers(D, Send(D, s)) /\ SameMarks(D, Send(D, s))
    BY <1>5, SendSame
  <2>2. SameMembers(D, D) /\ SameMarks(D, D)
    BY DEF SameMembers, SameMarks
  <2>. QED
    BY <2>1, <2>2
<1>. HIDE DEF E
<1>7. CASE links[i] # ifs[i].link
  <2>1. Becomes(E)
    BY <1>1, <1>7
  <2>. QED
    BY <1>4, <1>6, <2>1, UpdateDecides DEF A
<1>8. CASE links[i] = ifs[i].link
  <2>1. Becomes(B)
    BY <1>1, <1>8
  <2>. QED
    BY <1>3, <2>1, BecomesSame DEF A
<1>. QED
  BY <1>7, <1>8

\* So the invariant stays.
LEMMA InterfaceMembers ==
    ASSUME MembersInv, NEW i \in Ifaces, update_interface(i) PROVE Belongs' /\ Underway'
<1>1. /\ task.at = "run" /\ task'.at = "run" /\ task'.ports = task.ports
      /\ task'.members = task.members \ {i}
  BY WalkTask DEF update_interface, MembersInv
<1>2. UNCHANGED <<rows, changed, recent>> /\ ifs[i].cached
  BY DEF update_interface, table
<1>3. Decides(i) \/ (SameMembersNext /\ SameMarksNext)
  BY InterfaceDecides DEF MembersInv
<1>4. SameMembersNext
  BY <1>3 DEF Decides
<1>5. /\ Belongs' /\ \A j \in Ifaces : j # i => ifs'[j].eligible = ifs[j].eligible
      /\ \A q \in Lags : IsDynamic(ports[q]) => ports[q].eligible \subseteq ports'[q].eligible
  <2>1. CASE Decides(i)
    BY <1>2, <2>1, DecidesWell, DecidesOne
  <2>2. CASE SameMembersNext /\ SameMarksNext
    BY <1>2, <2>2, BelongsStays DEF SameMarksNext
  <2>. QED
    BY <1>3, <2>1, <2>2
<1>6. Underway'
  BY <1>1, <1>2, <1>4, <1>5, InterfaceStep DEF SameMembersNext
<1>. QED
  BY <1>5, <1>6

-----------------------------------------------------------------------------
(* The members of the LAG in hand. *)

\* At a member's step the run stays with the LAG in hand.
LEMMA MemberTask ==
    ASSUME MembersInv, NEW i \in Ifaces,
           RemoveMember(i) \/ MakeIneligible(i) \/ AddMember(i) \/ UpdateMember(i)
    PROVE  /\ task.port \in Lags /\ task.at \in PortSteps /\ task'.at = task.at
           /\ task'.port = task.port /\ task'.ports = task.ports
           /\ i \in task.members /\ task'.members = task.members \ {i}
           /\ UNCHANGED <<rows, changed>>
<1>1. PICK at \in PortSteps : Walk(at, i)
  BY DEF RemoveMember, MakeIneligible, AddMember, UpdateMember, PortSteps
<1>2. UNCHANGED <<rows, changed>>
  BY DEF RemoveMember, MakeIneligible, AddMember, UpdateMember, table
<1>. QED
  BY <1>1, <1>2, WalkTask, MemberTypes DEF MembersInv

\* A member is made ineligible before the mode changes.
LEMMA IneligibleMembers ==
    ASSUME MembersInv, NEW i \in Ifaces, MakeIneligible(i) PROVE Belongs' /\ Underway'
<1>. DEFINE p == task.port
            T == set_interface_lag_eligibility(State, p, i, FALSE)
<1>1. /\ task.port \in Lags /\ task.at \in PortSteps /\ task'.at = task.at
      /\ task'.port = task.port /\ task'.ports = task.ports
      /\ i \in task.members /\ task'.members = task.members \ {i}
      /\ UNCHANGED <<rows, changed>>
  BY MemberTask
<1>2. task.at = "mode" /\ UNCHANGED recent /\ Becomes(T)
  BY DEF MakeIneligible, Walk
<1>3. i \in ports[p].eligible /\ ports[p].cfg \subseteq rows[p].members
  BY <1>1, <1>2 DEF MembersInv, Underway, InHand
<1>4. ifs[i].eligible /\ i \in rows[p].members /\ ifs[i].eligible \in BOOLEAN
  BY <1>1, <1>3, MemberTypes DEF MembersInv, Belongs, Listed
<1>5. SameMembers(State, T) /\ Marked(State, T, p, i, FALSE)
  <2>1. State \in CState /\ State.ifs[i].eligible # FALSE
    BY <1>4, TypesNow DEF MembersInv, State
  <2>. QED
    BY <1>1, <2>1, SetEligibilityMarks
<1>. HIDE DEF T
<1>6. SameMembersNext /\ MarkedNext(p, i, FALSE)
  BY <1>2, <1>5, BecomesSame
<1>7. Belongs'
  <2>1. \A q \in Lags : p # q => i \notin rows[q].members
    BY <1>1, <1>4 DEF MembersInv, Belongs, RowsApart
  <2>. QED
    BY <1>1, <1>2, <1>3, <1>6, <2>1, MarkRemoves
<1>8. UnseenAreEmpty' /\ IfacesFirst' /\ DifferencesPend'
  <2>1. InHandStep
    BY <1>1, <1>6 DEF InHandStep, SameMembersNext
  <2>. QED
    BY <2>1, HandKeeps
<1>9. RecentAreHome'
  <2>1. recent \subseteq Ifaces
    BY MemberTypes DEF MembersInv
  <2>. QED
    BY <1>1, <1>2, <1>6, <2>1 DEF MembersInv, Underway, RecentAreHome, SameMembersNext
<1>10. InHand'
  <2>1. task.members \subseteq ports[p].eligible
    BY <1>2 DEF MembersInv, Underway, InHand
  <2>2. ports'[p].cfg = ports[p].cfg /\ ports'[p].eligible = ports[p].eligible \ {i}
    BY <1>1, <1>6 DEF SameMembersNext, MarkedNext
  <2>. QED
    BY <1>1, <1>2, <1>3, <2>1, <2>2 DEF InHand
<1>11. MembersRun'
  <2>1. ASSUME NEW q \in Lags, IsDynamic(ports'[q]), NEW j \in ports'[q].cfg
        PROVE  j \in ports'[q].eligible \/ Waits(j, q)'
    <3>1. CASE q = p
      BY <1>1, <1>2, <3>1 DEF Waits
    <3>2. CASE q # p
      <4>1. IsDynamic(ports[q]) /\ j \in ports[q].cfg /\ j \in Ifaces
        BY <1>6, <2>1, MemberTypes DEF IsDynamic, SameMembersNext, MembersInv
      <4>2. j \in ports[q].eligible \/ \E r \in Lags : r # q /\ j \in ports[r].cfg /\ ifs[j].port = q
        BY <1>1, <1>2, <3>2, <4>1 DEF MembersInv, Underway, MembersRun, Waits
      <4>3. ports'[q].eligible = ports[q].eligible
        BY <1>6, <3>2 DEF MarkedNext
      <4>. QED
        BY <1>6, <4>1, <4>2, <4>3 DEF Waits, SameMembersNext
    <3>. QED
      BY <3>1, <3>2
  <2>. QED
    BY <2>1 DEF MembersRun
<1>. QED
  BY <1>7, <1>8, <1>9, <1>10, <1>11 DEF Underway

\* A member is decided about when the LAG's configuration is in place.
LEMMA UpdateMembers ==
    ASSUME MembersInv, NEW i \in Ifaces, UpdateMember(i) PROVE Belongs' /\ Underway'
<1>. DEFINE p == task.port
<1>1. /\ task.port \in Lags /\ task.at \in PortSteps /\ task'.at = task.at
      /\ task'.port = task.port /\ task'.ports = task.ports
      /\ i \in task.members /\ task'.members = task.members \ {i}
      /\ UNCHANGED <<rows, changed>>
  BY MemberTask
<1>2. task.at = "eligible" /\ UNCHANGED recent
  BY DEF UpdateMember, Walk
<1>3. Decides(i)
  <2>. DEFINE A == State
              T == [A EXCEPT !.ifs[i].fast = ports[p].fast]
              B == IF task.switched THEN Send(A, <<ConfigLport(A, i)>>)
                   ELSE IF task.timed THEN Send(T, <<LportChange(T.ifs[i], i)>>) ELSE A
              D == update_interface_lag_eligibility(B, i)
  <2>1. Becomes(D)
    BY DEF UpdateMember
  <2>2. A \in CState /\ ports[p].fast \in BOOLEAN
    BY <1>1, TypesNow DEF LagPort, MembersInv
  <2>. HIDE DEF A
  <2>3. T \in CState /\ SameMembers(A, T) /\ SameMarks(A, T)
    <3>. DEFINE g == [A.ifs[i] EXCEPT !.fast = ports[p].fast]
    <3>1. A.ifs[i] \in Iface
      BY <2>2 DEF CState
    <3>2. /\ g \in Iface /\ g.cached = A.ifs[i].cached
          /\ g.port = A.ifs[i].port /\ g.eligible = A.ifs[i].eligible
      BY <2>2, <3>1 DEF Iface
    <3>3. T = [A EXCEPT !.ifs[i] = g]
      OBVIOUS
    <3>. HIDE DEF g, T
    <3>. QED
      BY <2>2, <3>2, <3>3, EntrySame
  <2>. HIDE DEF T
  <2>4. B \in CState /\ SameMembers(A, B) /\ SameMarks(A, B)
    <3>1. <<ConfigLport(A, i)>> \in Seq(LportMsg)
      BY <2>2, ConfigIsMsg
    <3>2. T.ifs[i] \in Iface
      BY <2>3 DEF CState
    <3>3. LportChange(T.ifs[i], i) \in LportMsg
      BY <3>2 DEF LportChange, LportMsg, Iface
    <3>4. <<LportChange(T.ifs[i], i)>> \in Seq(LportMsg)
      BY <3>3
    <3>5. Send(A, <<ConfigLport(A, i)>>) \in CState /\ Send(T, <<LportChange(T.ifs[i], i)>>) \in CState
      BY <2>2, <2>3, <3>1, <3>4, SendTalks DEF Talks
    <3>6. \A s : SameMembers(A, Send(A, s)) /\ SameMarks(A, Send(A, s))
      BY <2>2, SendSame
    <3>7. \A s : SameMembers(A, Send(T, s)) /\ SameMarks(A, Send(T, s))
      BY <2>3, SendSame, SameTransitive
    <3>8. SameMembers(A, A) /\ SameMarks(A, A)
      BY DEF SameMembers, SameMarks
    <3>. QED
      BY <2>2, <3>5, <3>6, <3>7, <3>8
  <2>. HIDE DEF B
  <2>5. SameMembers(D, D) /\ SameMarks(D, D)
    BY DEF SameMembers, SameMarks
  <2>. QED
    BY <2>1, <2>4, <2>5, UpdateDecides DEF MembersInv, A
<1>4. SameMembersNext
  BY <1>3 DEF Decides
<1>5. /\ Belongs'
      /\ \A q \in Lags : IsDynamic(ports[q]) =>
            /\ ports[q].eligible \subseteq ports'[q].eligible
            /\ ifs[i].port = q => \/ i \in ports'[q].eligible
                                  \/ \E r \in Lags : r # q /\ i \in ports[r].cfg
  BY <1>1, <1>2, <1>3, DecidesWell
<1>6. UnseenAreEmpty' /\ IfacesFirst' /\ DifferencesPend'
  <2>1. InHandStep
    BY <1>1, <1>4 DEF InHandStep, SameMembersNext
  <2>. QED
    BY <2>1, HandKeeps
<1>7. RecentAreHome' /\ InHand'
  <2>1. recent \subseteq Ifaces
    BY MemberTypes DEF MembersInv
  <2>. QED
    BY <1>1, <1>2, <1>4, <2>1 DEF MembersInv, Underway, RecentAreHome, InHand, SameMembersNext
<1>8. ports[p].cfg = rows[p].members
  BY <1>2 DEF MembersInv, Underway, InHand
<1>9. i \in ports[p].cfg => ifs[i].port = p
  <2>1. SUFFICES ASSUME i \in ports[p].cfg, i \in recent PROVE ifs[i].port = p
    BY <1>1 DEF MembersInv, Belongs, Placed
  <2>2. ifs[i].port \in Lags /\ i \in rows[ifs[i].port].members
    BY <2>1 DEF MembersInv, Underway, RecentAreHome
  <2>. QED
    BY <1>1, <1>8, <2>1, <2>2 DEF MembersInv, Belongs, RowsApart
<1>10. MembersRun'
  <2>1. ASSUME NEW q \in Lags, IsDynamic(ports'[q]), NEW j \in ports'[q].cfg
        PROVE  j \in ports'[q].eligible \/ Waits(j, q)'
    <3>1. IsDynamic(ports[q]) /\ j \in ports[q].cfg /\ j \in Ifaces
      BY <1>4, <2>1, MemberTypes DEF IsDynamic, SameMembersNext, MembersInv
    <3>2. j \in ports[q].eligible \/ Waits(j, q)
      BY <3>1 DEF MembersInv, Underway, MembersRun
    <3>3. CASE j \in ports[q].eligible
      BY <1>5, <3>1, <3>3
    <3>4. CASE \E r \in Lags : r # q /\ j \in ports[r].cfg /\ ifs[j].port = q
      BY <1>4, <3>1, <3>4 DEF Waits, SameMembersNext
    <3>5. CASE q = p /\ j # i /\ j \in task.members
      BY <1>1, <1>2, <3>5 DEF Waits
    <3>6. CASE q = p /\ j = i
      BY <1>1, <1>4, <1>5, <1>9, <3>1, <3>6 DEF Waits, SameMembersNext
    <3>. QED
      BY <1>2, <3>2, <3>3, <3>4, <3>5, <3>6 DEF Waits
  <2>. QED
    BY <2>1 DEF MembersRun
<1>. QED
  BY <1>5, <1>6, <1>7, <1>10 DEF Underway

\* A member the row has and the cache has not.
LEMMA AddMembers ==
    ASSUME MembersInv, NEW i \in Ifaces, AddMember(i) PROVE Belongs' /\ Underway'
<1>. DEFINE p == task.port
<1>1. /\ p \in Lags /\ task.at \in PortSteps /\ task'.at = task.at
      /\ task'.port = p /\ task'.ports = task.ports
      /\ i \in task.members /\ task'.members = task.members \ {i}
      /\ UNCHANGED <<rows, changed>>
  BY MemberTask
<1>2. task.at = "added" /\ recent' = recent \cup {i}
  BY DEF AddMember, Walk
<1>3. /\ ports[p].cfg \subseteq rows[p].members
      /\ task.members = rows[p].members \ ports[p].cfg
  BY <1>2 DEF MembersInv, Underway, InHand
<1>4. /\ \A q \in Lags : /\ ports'[q].cached = ports[q].cached
                         /\ ports'[q].cfg = IF q = p THEN ports[q].cfg \cup {i} ELSE ports[q].cfg
                         /\ ports'[q].mode = ports[q].mode
                         /\ ports'[q].eligible = ports[q].eligible
      /\ \A j \in Ifaces : /\ ifs'[j].cached = ifs[j].cached
                           /\ ifs'[j].port = IF j = i THEN p ELSE ifs[j].port
                           /\ ifs'[j].eligible = ifs[j].eligible
  <2>1. ports \in [Lags -> LagPort] /\ ifs \in [Ifaces -> Iface]
    BY TypesNow DEF MembersInv
  <2>. DEFINE Q == [ports[p] EXCEPT !.cfg = @ \cup {i}]
              g == [ifs[i] EXCEPT !.port = p]
  <2>2. ports' = [ports EXCEPT ![p] = Q] /\ ifs' = [ifs EXCEPT ![i] = g]
    BY DEF AddMember
  <2>3. /\ Q.cached = ports[p].cached /\ Q.cfg = ports[p].cfg \cup {i}
        /\ Q.mode = ports[p].mode /\ Q.eligible = ports[p].eligible
    BY <1>1, <2>1 DEF LagPort
  <2>4. g.cached = ifs[i].cached /\ g.port = p /\ g.eligible = ifs[i].eligible
    BY <2>1 DEF Iface
  <2>. HIDE DEF Q, g
  <2>. QED
    BY <1>1, <2>1, <2>2, <2>3, <2>4
<1>a. /\ \A q \in Lags : q # p => ports'[q].cfg = ports[q].cfg
      /\ ports'[p].cfg = ports[p].cfg \cup {i} /\ ifs'[i].port = p
      /\ \A j \in Ifaces : j # i => ifs'[j].port = ifs[j].port
  BY <1>1, <1>4
<1>5. i \in rows[p].members /\ i \notin ports[p].cfg
  BY <1>1, <1>3
<1>6. \A q \in Lags : q # p => i \notin rows[q].members
  BY <1>1, <1>5 DEF MembersInv, Belongs, RowsApart
<1>7. UnseenAreEmpty' /\ IfacesFirst' /\ DifferencesPend' /\ RowsApart'
  <2>1. InHandStep
    BY <1>1, <1>4 DEF InHandStep
  <2>. QED
    BY <2>1, HandKeeps
<1>8. MembersAreCached'
  <2>1. ports[p].cached
    BY <1>1 DEF MembersInv, QueueInv, LagInv
  <2>2. rows[p].present
    BY <1>1, <1>5 DEF MembersInv, Belongs, RowsApart
  <2>. QED
    <3>1. ASSUME NEW q \in Lags, ~ports'[q].cached \/ ~rows'[q].present PROVE ports'[q].cfg = {}
      <4>1. ports'[q].cached = ports[q].cached /\ rows' = rows
        BY <1>1, <1>4
      <4>2. q # p
        BY <2>1, <2>2, <3>1, <4>1
      <4>3. ports'[q].cfg = ports[q].cfg
        BY <1>a, <4>2
      <4>. QED
        BY <3>1, <4>1, <4>3 DEF MembersInv, Belongs, MembersAreCached
    <3>. QED
      BY <3>1 DEF MembersAreCached
<1>9. Placed'
  <2>1. ASSUME NEW j \in Ifaces, NEW q \in Lags, j \in ports'[q].cfg
        PROVE  ifs'[j].port = q \/ j \in recent'
    <3>1. CASE j = i
      BY <1>2, <3>1
    <3>2. CASE j # i
      <4>1. j \in ports[q].cfg
        BY <1>a, <2>1, <3>2
      <4>. QED
        BY <1>2, <1>a, <3>2, <4>1 DEF MembersInv, Belongs, Placed
    <3>. QED
      BY <3>1, <3>2
  <2>2. ASSUME NEW j \in Ifaces, NEW q \in Lags, ifs'[j].port = q
        PROVE  j \in ports'[q].cfg
    <3>1. CASE j = i
      BY <1>a, <2>2, <3>1
    <3>2. CASE j # i
      <4>1. j \in ports[q].cfg
        BY <1>a, <2>2, <3>2 DEF MembersInv, Belongs, Placed
      <4>. QED
        BY <1>a, <4>1
    <3>. QED
      BY <3>1, <3>2
  <2>. QED
    BY <2>1, <2>2 DEF Placed
<1>10. Listed'
  <2>1. \A q \in Lags : ports[q].cfg \subseteq ports'[q].cfg /\ ports'[q].eligible = ports[q].eligible
    BY <1>4, <1>a
  <2>2. \A j \in Ifaces : ifs'[j].eligible = ifs[j].eligible
    BY <1>4
  <2>. QED
    BY <2>1, <2>2 DEF MembersInv, Belongs, Listed
<1>11. MoversRun'
  <2>1. ASSUME NEW a \in Lags, NEW q \in Lags, a # q, NEW j \in ports'[q].cfg \cap rows'[a].members
        PROVE  IsDynamic(ports'[q]) /\ j \in ports'[q].eligible
    <3>1. j \in ports[q].cfg \cap rows[a].members
      BY <1>1, <1>4, <1>6, <2>1
    <3>2. IsDynamic(ports[q]) /\ j \in ports[q].eligible
      BY <2>1, <3>1 DEF MembersInv, Belongs, MoversRun
    <3>. QED
      BY <1>4, <3>2 DEF IsDynamic
  <2>. QED
    BY <2>1 DEF MoversRun
<1>12. RecentAreHome'
  <2>1. recent \subseteq Ifaces
    BY MemberTypes DEF MembersInv
  <2>. QED
    BY <1>1, <1>2, <1>4, <1>5, <2>1 DEF MembersInv, Underway, RecentAreHome
<1>13. InHand'
  <2>1. ports'[p].cfg \subseteq rows'[p].members
    BY <1>1, <1>3, <1>5, <1>a
  <2>2. task'.members = rows'[p].members \ ports'[p].cfg
    <3>1. rows' = rows
      BY <1>1
    <3>. QED
      BY <1>1, <1>3, <1>5, <1>a, <3>1
  <2>. QED
    BY <1>1, <1>2, <2>1, <2>2 DEF InHand
<1>14. MembersRun'
  <2>1. ASSUME NEW q \in Lags, IsDynamic(ports'[q]), NEW j \in ports'[q].cfg
        PROVE  j \in ports'[q].eligible \/ Waits(j, q)'
    <3>1. CASE q = p
      BY <1>1, <1>2, <3>1 DEF Waits
    <3>2. CASE q # p
      <4>1. IsDynamic(ports[q]) /\ j \in ports[q].cfg /\ j \in Ifaces
        BY <1>4, <2>1, <3>2, MemberTypes DEF IsDynamic, MembersInv
      <4>2. j \in ports[q].eligible \/ \E r \in Lags : r # q /\ j \in ports[r].cfg /\ ifs[j].port = q
        BY <1>1, <1>2, <3>2, <4>1 DEF MembersInv, Underway, MembersRun, Waits
      <4>3. CASE j \in ports[q].eligible
        BY <1>4, <4>3
      <4>4. CASE j = i
        BY <1>1, <1>4, <1>5, <3>2, <4>1, <4>4 DEF MembersInv, Belongs, MoversRun
      <4>5. CASE j # i /\ \E r \in Lags : r # q /\ j \in ports[r].cfg /\ ifs[j].port = q
        BY <1>4, <4>1, <4>5 DEF Waits
      <4>. QED
        BY <4>2, <4>3, <4>4, <4>5
    <3>. QED
      BY <3>1, <3>2
  <2>. QED
    BY <2>1 DEF MembersRun
<1>. QED
  BY <1>7, <1>8, <1>9, <1>10, <1>11, <1>12, <1>13, <1>14 DEF Belongs, Underway

\* i is taken out of p; it then has LAG h, or none, and is eligible there or not.
TakenOut(p, i, h, e) ==
    /\ \A q \in Lags :
          /\ ports'[q].cached = ports[q].cached /\ ports'[q].mode = ports[q].mode
          /\ \A j \in Ifaces : j \in ports'[q].cfg <=> j \in ports[q].cfg /\ ~(j = i /\ q = p)
          /\ \A j \in Ifaces : j # i => (j \in ports'[q].eligible <=> j \in ports[q].eligible)
          /\ i \in ports'[q].eligible <=> (i \in ports[q].eligible /\ q # p) \/ (e /\ q = h)
    /\ \A j \in Ifaces :
          /\ ifs'[j].cached = ifs[j].cached
          /\ j # i => ifs'[j].port = ifs[j].port /\ ifs'[j].eligible = ifs[j].eligible
    /\ ifs'[i].port = h /\ ifs'[i].eligible = e

\* The member list is the last to change.
ListWithout(S, p, i) == [S EXCEPT !.ports[p].cfg = @ \ {i}]

\* It is all that changes then.
LEMMA ListShrinks ==
    ASSUME NEW S \in CState, NEW i \in Ifaces, NEW p \in Lags, NEW T, T = ListWithout(S, p, i)
    PROVE  /\ T.ifs = S.ifs
           /\ \A q \in Lags : /\ T.ports[q].cached = S.ports[q].cached
                              /\ T.ports[q].mode = S.ports[q].mode
                              /\ T.ports[q].eligible = S.ports[q].eligible
                              /\ q # p => T.ports[q].cfg = S.ports[q].cfg
           /\ T.ports[p].cfg = S.ports[p].cfg \ {i}
<1>1. S.ports \in [Lags -> LagPort]
  BY DEF CState
<1>. DEFINE Q == [S.ports[p] EXCEPT !.cfg = @ \ {i}]
<1>2. /\ Q.cached = S.ports[p].cached /\ Q.mode = S.ports[p].mode
      /\ Q.eligible = S.ports[p].eligible /\ Q.cfg = S.ports[p].cfg \ {i}
  BY <1>1 DEF LagPort
<1>3. T = [S EXCEPT !.ports[p] = Q]
  BY DEF ListWithout
<1>. HIDE DEF Q
<1>4. T.ports = [S.ports EXCEPT ![p] = Q] /\ T.ifs = S.ifs
  BY <1>3 DEF CState
<1>. QED
  BY <1>1, <1>2, <1>4

\* A member that left: it has no LAG.
LEMMA TakenOutForGood ==
    ASSUME MembersInv, NEW i \in Ifaces, RemoveMember(i), i \notin recent
    PROVE  TakenOut(task.port, i, NoLag, FALSE)
<1>. DEFINE p == task.port
            S == set_interface_lag_eligibility(State, p, i, FALSE)
            F == [S EXCEPT !.ifs[i].port = NoLag]
            X == Send(F, <<Overrides(i, "default")>>)
            Y == [X EXCEPT !.ports[p].cfg = @ \ {i}]
<1>0. p \in Lags /\ State \in CState /\ NoLag \notin Lags
  BY MemberTask, TypesNow, MemberTypes DEF MembersInv
<1>1. Becomes(Y)
  BY DEF RemoveMember
<1>2. /\ S \in CState /\ SameMembers(State, S)
      /\ IF FALSE = State.ifs[i].eligible THEN SameMarks(State, S) ELSE Marked(State, S, p, i, FALSE)
  BY <1>0, SetEligibilityMarks
<1>. HIDE DEF S
<1>3. /\ F \in CState /\ F.ports = S.ports
      /\ \A j \in Ifaces : /\ F.ifs[j].cached = S.ifs[j].cached
                           /\ F.ifs[j].eligible = S.ifs[j].eligible
                           /\ F.ifs[j].port = IF j = i THEN NoLag ELSE S.ifs[j].port
  <2>. DEFINE g == [S.ifs[i] EXCEPT !.port = NoLag]
  <2>1. S.ifs \in [Ifaces -> Iface] /\ S.ifs[i] \in Iface
    BY <1>2 DEF CState
  <2>2. /\ g \in Iface /\ g.cached = S.ifs[i].cached /\ g.eligible = S.ifs[i].eligible
        /\ g.port = NoLag
    BY <2>1 DEF Iface
  <2>3. F = [S EXCEPT !.ifs[i] = g]
    OBVIOUS
  <2>. HIDE DEF g, F
  <2>4. F \in CState /\ F.ports = S.ports /\ F.ifs = [S.ifs EXCEPT ![i] = g]
    BY <1>2, <2>2, <2>3 DEF CState
  <2>. QED
    BY <2>1, <2>2, <2>4
<1>. HIDE DEF F
<1>4. X \in CState /\ SameMembers(F, X) /\ SameMarks(F, X)
  <2>1. Overrides(i, "default") \in LportMsg
    BY ConfigAssumption DEF LportMsg, Overrides
  <2>2. <<Overrides(i, "default")>> \in Seq(LportMsg)
    BY <2>1
  <2>. QED
    BY <1>3, <2>2, SendTalks, SendSame DEF Talks
<1>. HIDE DEF X
<1>5. /\ Y.ifs = X.ifs
      /\ \A q \in Lags : /\ Y.ports[q].cached = X.ports[q].cached
                         /\ Y.ports[q].mode = X.ports[q].mode
                         /\ Y.ports[q].eligible = X.ports[q].eligible
                         /\ q # p => Y.ports[q].cfg = X.ports[q].cfg
      /\ Y.ports[p].cfg = X.ports[p].cfg \ {i}
  <2>1. Y = ListWithout(X, p, i)
    BY DEF ListWithout
  <2>. HIDE DEF Y, p
  <2>. QED
    BY <1>0, <1>4, <2>1, ListShrinks
<1>6. ports' = Y.ports /\ ifs' = Y.ifs /\ State.ports = ports /\ State.ifs = ifs
  BY <1>1 DEF Becomes, State
<1>. HIDE DEF Y
<1>7. \A q \in Lags : /\ Y.ports[q].cached = ports[q].cached /\ Y.ports[q].mode = ports[q].mode
                      /\ q # p => Y.ports[q].cfg = ports[q].cfg
                      /\ Y.ports[q].eligible = S.ports[q].eligible
  BY <1>2, <1>3, <1>4, <1>5, <1>6 DEF SameMembers, SameMarks
<1>8. Y.ports[p].cfg = ports[p].cfg \ {i}
  BY <1>0, <1>2, <1>3, <1>4, <1>5, <1>6 DEF SameMembers
<1>9. \A j \in Ifaces : /\ Y.ifs[j].cached = ifs[j].cached
                        /\ Y.ifs[j].eligible = S.ifs[j].eligible
                        /\ Y.ifs[j].port = IF j = i THEN NoLag ELSE ifs[j].port
  BY <1>2, <1>3, <1>4, <1>5, <1>6 DEF SameMembers, SameMarks
<1>10. ifs[i].eligible \in BOOLEAN /\ \A q \in Lags : i \in ports[q].eligible => ifs[i].eligible
  BY MemberTypes DEF MembersInv, Belongs, Listed
<1>11. /\ \A q \in Lags : /\ \A j \in Ifaces : j # i => (j \in S.ports[q].eligible <=> j \in ports[q].eligible)
                          /\ i \in S.ports[q].eligible <=> i \in ports[q].eligible /\ q # p
       /\ \A j \in Ifaces : S.ifs[j].eligible = IF j = i THEN FALSE ELSE ifs[j].eligible
  <2>1. CASE ifs[i].eligible = FALSE
    BY <1>2, <1>6, <1>10, <2>1 DEF SameMarks
  <2>2. CASE ifs[i].eligible = TRUE
    <3>1. Marked(State, S, p, i, FALSE)
      BY <1>2, <1>6, <2>2
    <3>. QED
      BY <1>6, <3>1 DEF Marked
  <2>. QED
    BY <1>10, <2>1, <2>2
<1>. HIDE DEF p
<1>12. TakenOut(p, i, NoLag, FALSE)
  <2>1. \A q \in Lags :
          /\ ports'[q].cached = ports[q].cached /\ ports'[q].mode = ports[q].mode
          /\ \A j \in Ifaces : j \in ports'[q].cfg <=> j \in ports[q].cfg /\ ~(j = i /\ q = p)
    BY <1>6, <1>7, <1>8
  <2>2. \A q \in Lags :
          /\ \A j \in Ifaces : j # i => (j \in ports'[q].eligible <=> j \in ports[q].eligible)
          /\ i \in ports'[q].eligible <=> (i \in ports[q].eligible /\ q # p)
    BY <1>6, <1>7, <1>11
  <2>3. \A j \in Ifaces :
          /\ ifs'[j].cached = ifs[j].cached
          /\ j # i => ifs'[j].port = ifs[j].port /\ ifs'[j].eligible = ifs[j].eligible
    BY <1>6, <1>9, <1>11
  <2>4. ifs'[i].port = NoLag /\ ifs'[i].eligible = FALSE
    BY <1>6, <1>9, <1>11
  <2>. QED
    BY <2>1, <2>2, <2>3, <2>4 DEF TakenOut
<1>. QED
  BY <1>12 DEF p

\* A member that moved in this run was eligible in the LAG it left and is decided
\* about anew in the one it is in now.
LEMMA TakenOverTo ==
    ASSUME MembersInv, NEW i \in Ifaces, RemoveMember(i), i \in recent
    PROVE  /\ ifs[i].port \in Lags \ {task.port} /\ i \in rows[ifs[i].port].members
           /\ i \in ports[task.port].eligible
           /\ \E e \in BOOLEAN : /\ IsDynamic(ports[ifs[i].port]) => e
                                 /\ TakenOut(task.port, i, ifs[i].port, e)
<1>. DEFINE p == task.port
            h == ifs[i].port
            S == set_interface_lag_eligibility(State, p, i, FALSE)
            X == update_interface_lag_eligibility(S, i)
            Y == [X EXCEPT !.ports[p].cfg = @ \ {i}]
<1>0. p \in Lags /\ State \in CState /\ NoLag \notin Lags /\ lag_id \in [Lags -> 0..MaxLagId]
  BY MemberTask, TypesNow, MemberTypes DEF MembersInv
<1>1. Becomes(Y)
  BY DEF RemoveMember
<1>a. i \in ports[p].cfg /\ i \notin rows[p].members
  <2>1. task.at = "removed" /\ i \in task.members
    BY DEF RemoveMember, Walk
  <2>2. task.members = ports[p].cfg \ rows[p].members
    BY <2>1 DEF MembersInv, Underway, InHand
  <2>. QED
    BY <2>1, <2>2
<1>b. h \in Lags /\ h # p /\ i \in rows[h].members
  <2>1. h \in Lags /\ i \in rows[h].members
    BY DEF MembersInv, Underway, RecentAreHome
  <2>. QED
    BY <1>a, <2>1
<1>c. i \in ports[p].eligible /\ i \in ports[h].cfg
  BY <1>0, <1>a, <1>b DEF MembersInv, Belongs, MoversRun, Placed
<1>d. ifs[i].eligible = TRUE /\ \A q \in Lags : i \in ports[q].eligible <=> q = p
  BY <1>0, <1>c, MemberTypes DEF MembersInv, Belongs, Listed
<1>e. State.ports = ports /\ State.ifs = ifs
  BY DEF State
<1>2. S \in CState /\ SameMembers(State, S) /\ Marked(State, S, p, i, FALSE)
  <2>1. State.ifs[i].eligible # FALSE
    BY <1>d, <1>e
  <2>. QED
    BY <1>0, <2>1, SetEligibilityMarks
<1>. HIDE DEF S
<1>3. /\ S.ifs[i].port = h /\ S.ifs[i].eligible = FALSE
      /\ \A q \in Lags : i \notin S.ports[q].eligible
      /\ S.ports[h].cfg = ports[h].cfg /\ S.ports[h].mode = ports[h].mode
  BY <1>0, <1>2, <1>b, <1>d, <1>e DEF SameMembers, Marked
<1>4. /\ X \in CState /\ SameMembers(S, X)
      /\ \E e \in BOOLEAN :
            /\ e => i \in S.ports[h].cfg
            /\ i \in S.ports[h].cfg /\ IsDynamic(S.ports[h]) => e
            /\ IF e # (i \in S.ports[h].eligible) /\ e # S.ifs[i].eligible
               THEN Marked(S, X, h, i, e) ELSE SameMarks(S, X)
  BY <1>0, <1>2, <1>3, <1>b, UpdateEligibilityMarks
<1>5. PICK e \in BOOLEAN :
            /\ i \in S.ports[h].cfg /\ IsDynamic(S.ports[h]) => e
            /\ IF e # (i \in S.ports[h].eligible) /\ e # S.ifs[i].eligible
               THEN Marked(S, X, h, i, e) ELSE SameMarks(S, X)
  BY <1>4
<1>. HIDE DEF X
<1>6. IsDynamic(ports[h]) => e
  BY <1>3, <1>5, <1>c DEF IsDynamic
<1>7. IF e THEN Marked(S, X, h, i, TRUE) ELSE SameMarks(S, X)
  BY <1>3, <1>5, <1>b
<1>8. /\ Y.ifs = X.ifs
      /\ \A q \in Lags : /\ Y.ports[q].cached = X.ports[q].cached
                         /\ Y.ports[q].mode = X.ports[q].mode
                         /\ Y.ports[q].eligible = X.ports[q].eligible
                         /\ q # p => Y.ports[q].cfg = X.ports[q].cfg
      /\ Y.ports[p].cfg = X.ports[p].cfg \ {i}
  <2>1. Y = ListWithout(X, p, i)
    BY DEF ListWithout
  <2>. HIDE DEF Y, p
  <2>. QED
    BY <1>0, <1>4, <2>1, ListShrinks
<1>9. ports' = Y.ports /\ ifs' = Y.ifs
  BY <1>1 DEF Becomes
<1>. HIDE DEF Y, p, h
<1>10. \A q \in Lags : /\ ports'[q].cached = ports[q].cached /\ ports'[q].mode = ports[q].mode
                       /\ q # p => ports'[q].cfg = ports[q].cfg
                       /\ ports'[q].eligible = X.ports[q].eligible
  BY <1>2, <1>4, <1>8, <1>9, <1>e DEF SameMembers
<1>11. ports'[p].cfg = ports[p].cfg \ {i}
  BY <1>0, <1>2, <1>4, <1>8, <1>9, <1>e DEF SameMembers
<1>12. \A j \in Ifaces : /\ ifs'[j].cached = ifs[j].cached /\ ifs'[j].port = ifs[j].port
                         /\ ifs'[j].eligible = X.ifs[j].eligible
  BY <1>2, <1>4, <1>8, <1>9, <1>e DEF SameMembers
<1>13. /\ \A q \in Lags : \A j \in Ifaces :
             j # i => (j \in X.ports[q].eligible <=> j \in ports[q].eligible)
       /\ \A j \in Ifaces : j # i => X.ifs[j].eligible = ifs[j].eligible
  <2>1. /\ \A q \in Lags : \A j \in Ifaces :
             j # i => (j \in S.ports[q].eligible <=> j \in ports[q].eligible)
        /\ \A j \in Ifaces : j # i => S.ifs[j].eligible = ifs[j].eligible
    BY <1>2, <1>e DEF Marked
  <2>2. /\ \A q \in Lags : \A j \in Ifaces :
             j # i => (j \in X.ports[q].eligible <=> j \in S.ports[q].eligible)
        /\ \A j \in Ifaces : j # i => X.ifs[j].eligible = S.ifs[j].eligible
    BY <1>7 DEF Marked, SameMarks
  <2>. QED
    BY <2>1, <2>2
<1>14. /\ \A q \in Lags : i \in X.ports[q].eligible <=> e /\ q = h
       /\ X.ifs[i].eligible = e
  <2>1. CASE e
    BY <1>3, <1>7, <2>1 DEF Marked
  <2>2. CASE ~e
    BY <1>3, <1>7, <2>2 DEF SameMarks
  <2>. QED
    BY <2>1, <2>2
<1>15. TakenOut(p, i, h, e)
  <2>1. \A q \in Lags :
          /\ ports'[q].cached = ports[q].cached /\ ports'[q].mode = ports[q].mode
          /\ \A j \in Ifaces : j \in ports'[q].cfg <=> j \in ports[q].cfg /\ ~(j = i /\ q = p)
    BY <1>10, <1>11
  <2>2. \A q \in Lags :
          /\ \A j \in Ifaces : j # i => (j \in ports'[q].eligible <=> j \in ports[q].eligible)
          /\ i \in ports'[q].eligible <=> (i \in ports[q].eligible /\ q # p) \/ (e /\ q = h)
    BY <1>10, <1>13, <1>14, <1>d
  <2>3. \A j \in Ifaces :
          /\ ifs'[j].cached = ifs[j].cached
          /\ j # i => ifs'[j].port = ifs[j].port /\ ifs'[j].eligible = ifs[j].eligible
    BY <1>12, <1>13
  <2>4. ifs'[i].port = h /\ ifs'[i].eligible = e
    BY <1>12, <1>14 DEF h
  <2>. QED
    BY <2>1, <2>2, <2>3, <2>4 DEF TakenOut
<1>. QED
  BY <1>6, <1>15, <1>b, <1>c DEF p, h

\* Taken out of one LAG, the interface is in the other or in none.
LEMMA RemoveMembers ==
    ASSUME MembersInv, NEW i \in Ifaces, RemoveMember(i) PROVE Belongs' /\ Underway'
<1>. DEFINE p == task.port
<1>1. /\ p \in Lags /\ task.at \in PortSteps /\ task'.at = task.at
      /\ task'.port = p /\ task'.ports = task.ports
      /\ i \in task.members /\ task'.members = task.members \ {i}
      /\ UNCHANGED <<rows, changed>>
  BY MemberTask
<1>2. task.at = "removed" /\ UNCHANGED recent
  BY DEF RemoveMember, Walk
<1>3. task.members = ports[p].cfg \ rows[p].members
  BY <1>2 DEF MembersInv, Underway, InHand
<1>0. /\ NoLag \notin Lags /\ recent \subseteq Ifaces
      /\ \A q \in Lags : /\ ports[q].cfg \subseteq Ifaces /\ ports'[q].cfg \subseteq Ifaces
                         /\ rows[q].members \subseteq Ifaces
  <2>1. QueueInv'
    BY QueueNext DEF MembersInv, Next, lacpd_run
  <2>2. \A q \in Lags : ports'[q].cfg \subseteq Ifaces
    <3>1. ports' \in [Lags -> LagPort]
      BY <2>1, StateFieldsTypedNext DEF QueueInv, Typed, TypedCache
    <3>. QED
      BY <3>1 DEF LagPort
  <2>. QED
    BY <2>2, MemberTypes DEF MembersInv
<1>4. \E h \in Lags \cup {NoLag}, e \in BOOLEAN :
         /\ TakenOut(p, i, h, e) /\ h # p
         /\ \A q \in Lags : i \in ports'[q].cfg <=> q = h
         /\ \A q \in Lags : i \in ports'[q].eligible <=> e /\ q = h
         /\ e => h \in Lags
         /\ h \in Lags => (IsDynamic(ports[h]) => e) /\ i \in rows[h].members
         /\ i \in recent => h = ifs[i].port
  <2>1. CASE i \notin recent
    <3>1. TakenOut(p, i, NoLag, FALSE)
      BY <2>1, TakenOutForGood
    <3>2. \A q \in Lags : i \in ports[q].cfg => q = p
      BY <1>1, <1>3, <2>1 DEF MembersInv, Belongs, Placed
    <3>3. \A q \in Lags : i \in ports[q].eligible => q = p
      BY <3>2 DEF MembersInv, Belongs, Listed
    <3>4. \A q \in Lags : i \notin ports'[q].cfg /\ i \notin ports'[q].eligible
      BY <3>1, <3>2, <3>3 DEF TakenOut
    <3>. QED
      BY <1>0, <1>1, <2>1, <3>1, <3>4
  <2>2. CASE i \in recent
    <3>. DEFINE h == ifs[i].port
    <3>1. /\ h \in Lags \ {p} /\ i \in rows[h].members /\ i \in ports[p].eligible
          /\ \E e \in BOOLEAN : (IsDynamic(ports[h]) => e) /\ TakenOut(p, i, h, e)
      BY <2>2, TakenOverTo
    <3>2. PICK e \in BOOLEAN : (IsDynamic(ports[h]) => e) /\ TakenOut(p, i, h, e)
      BY <3>1
    <3>. HIDE DEF h
    <3>3. \A q \in Lags : i \in ports[q].eligible <=> q = p
      BY <1>1, <3>1 DEF MembersInv, Belongs, Listed
    <3>4. \A q \in Lags : i \in ports[q].cfg => q = p \/ q = h
      BY <1>0, <1>1, <3>1, <3>3 DEF MembersInv, Belongs, MoversRun
    <3>5. i \in ports[h].cfg
      BY <3>1 DEF MembersInv, Belongs, Placed, h
    <3>6. /\ \A q \in Lags : i \in ports'[q].cfg <=> q = h
          /\ \A q \in Lags : i \in ports'[q].eligible <=> e /\ q = h
      BY <3>1, <3>2, <3>3, <3>4, <3>5 DEF TakenOut
    <3>. QED
      BY <3>1, <3>2, <3>6 DEF h
  <2>. QED
    BY <2>1, <2>2
<1>5. PICK h \in Lags \cup {NoLag}, e \in BOOLEAN :
         /\ TakenOut(p, i, h, e) /\ h # p
         /\ \A q \in Lags : i \in ports'[q].cfg <=> q = h
         /\ \A q \in Lags : i \in ports'[q].eligible <=> e /\ q = h
         /\ e => h \in Lags
         /\ h \in Lags => (IsDynamic(ports[h]) => e) /\ i \in rows[h].members
         /\ i \in recent => h = ifs[i].port
  BY <1>4
<1>6. \A q \in Lags : /\ ports'[q].cached = ports[q].cached /\ ports'[q].mode = ports[q].mode
                      /\ ports'[q].cfg \subseteq ports[q].cfg
                      /\ q # p => ports'[q].cfg = ports[q].cfg
  <2>1. \A q \in Lags : /\ ports'[q].cached = ports[q].cached /\ ports'[q].mode = ports[q].mode
                        /\ \A j \in Ifaces : j \in ports'[q].cfg <=> j \in ports[q].cfg /\ ~(j = i /\ q = p)
    BY <1>5 DEF TakenOut
  <2>2. ASSUME NEW q \in Lags, q # p PROVE ports'[q].cfg = ports[q].cfg
    BY <1>0, <2>1, <2>2
  <2>. QED
    BY <1>0, <2>1, <2>2
<1>7. ports'[p].cfg = ports[p].cfg \ {i}
  BY <1>0, <1>1, <1>5 DEF TakenOut
<1>8. \A j \in Ifaces : /\ ifs'[j].cached = ifs[j].cached
                        /\ j # i => ifs'[j].port = ifs[j].port /\ ifs'[j].eligible = ifs[j].eligible
  BY <1>5 DEF TakenOut
<1>9. ifs'[i].port = h /\ ifs'[i].eligible = e
  BY <1>5 DEF TakenOut
<1>10. \A q \in Lags : \A j \in Ifaces : j # i =>
          /\ j \in ports'[q].eligible <=> j \in ports[q].eligible
          /\ j \in ports'[q].cfg <=> j \in ports[q].cfg
  BY <1>5 DEF TakenOut
<1>11. UnseenAreEmpty' /\ IfacesFirst' /\ DifferencesPend' /\ RowsApart'
  <2>1. InHandStep
    BY <1>1, <1>6, <1>8 DEF InHandStep
  <2>. QED
    BY <2>1, HandKeeps
<1>12. MembersAreCached'
  <2>1. ASSUME NEW q \in Lags, ~ports'[q].cached \/ ~rows'[q].present PROVE ports'[q].cfg = {}
    <3>1. ports[q].cfg = {}
      BY <1>1, <1>6, <2>1 DEF MembersInv, Belongs, MembersAreCached
    <3>. QED
      BY <1>6, <3>1
  <2>. QED
    BY <2>1 DEF MembersAreCached
<1>13. Placed'
  <2>1. ASSUME NEW j \in Ifaces, NEW q \in Lags, j # i
        PROVE  /\ j \in ports'[q].cfg => ifs'[j].port = q \/ j \in recent'
               /\ ifs'[j].port = q => j \in ports'[q].cfg
    BY <1>2, <1>8, <1>10, <2>1 DEF MembersInv, Belongs, Placed
  <2>2. ASSUME NEW q \in Lags
        PROVE  i \in ports'[q].cfg <=> ifs'[i].port = q
    BY <1>5, <1>9
  <2>. QED
    BY <2>1, <2>2 DEF Placed
<1>14. Listed'
  <2>1. ASSUME NEW j \in Ifaces, j # i
        PROVE  /\ \A q \in Lags : j \in ports'[q].eligible =>
                    /\ ifs'[j].eligible /\ j \in ports'[q].cfg
                    /\ \A r \in Lags : j \in ports'[r].eligible => q = r
               /\ ifs'[j].eligible => \E q \in Lags : j \in ports'[q].eligible
    BY <1>8, <1>10, <2>1 DEF MembersInv, Belongs, Listed
  <2>2. /\ \A q \in Lags : i \in ports'[q].eligible =>
                    /\ ifs'[i].eligible /\ i \in ports'[q].cfg
                    /\ \A r \in Lags : i \in ports'[r].eligible => q = r
        /\ ifs'[i].eligible => \E q \in Lags : i \in ports'[q].eligible
    BY <1>5, <1>9
  <2>. QED
    BY <2>1, <2>2 DEF Listed
<1>15. MoversRun'
  <2>1. ASSUME NEW a \in Lags, NEW q \in Lags, a # q, NEW j \in ports'[q].cfg \cap rows'[a].members
        PROVE  IsDynamic(ports'[q]) /\ j \in ports'[q].eligible
    <3>1. CASE j = i
      BY <1>1, <1>5, <2>1, <3>1 DEF MembersInv, Belongs, RowsApart
    <3>2. CASE j # i
      <4>1. j \in Ifaces /\ j \in ports[q].cfg /\ j \in rows[a].members
        BY <1>0, <1>1, <1>6, <2>1
      <4>2. IsDynamic(ports[q]) /\ j \in ports[q].eligible
        BY <2>1, <4>1 DEF MembersInv, Belongs, MoversRun
      <4>. QED
        BY <1>6, <1>10, <3>2, <4>1, <4>2 DEF IsDynamic
    <3>. QED
      BY <3>1, <3>2
  <2>. QED
    BY <2>1 DEF MoversRun
<1>16. RecentAreHome'
  <2>1. ASSUME NEW j \in recent' PROVE ifs'[j].port \in Lags /\ j \in rows'[ifs'[j].port].members
    <3>1. j \in Ifaces /\ ifs[j].port \in Lags /\ j \in rows[ifs[j].port].members
      BY <1>0, <1>2, <2>1 DEF MembersInv, Underway, RecentAreHome
    <3>2. ifs'[j].port = ifs[j].port
      BY <1>2, <1>5, <1>8, <1>9, <2>1, <3>1
    <3>. QED
      BY <1>1, <3>1, <3>2
  <2>. QED
    BY <1>1, <1>2, <2>1 DEF RecentAreHome
<1>17. InHand'
  BY <1>1, <1>2, <1>3, <1>7 DEF InHand
<1>18. MembersRun'
  <2>1. ASSUME NEW q \in Lags, IsDynamic(ports'[q]), NEW j \in ports'[q].cfg
        PROVE  j \in ports'[q].eligible \/ Waits(j, q)'
    <3>0. IsDynamic(ports[q]) /\ j \in ports[q].cfg /\ j \in Ifaces
      BY <1>0, <1>6, <2>1 DEF IsDynamic
    <3>1. CASE j = i
      BY <1>5, <2>1, <3>0, <3>1
    <3>2. CASE j # i
      <4>1. j \in ports[q].eligible \/ \E r \in Lags : r # q /\ j \in ports[r].cfg /\ ifs[j].port = q
        BY <1>2, <3>0 DEF MembersInv, Underway, MembersRun, Waits
      <4>. QED
        BY <1>8, <1>10, <3>0, <3>2, <4>1 DEF Waits
    <3>. QED
      BY <3>1, <3>2
  <2>. QED
    BY <2>1 DEF MembersRun
<1>. QED
  BY <1>11, <1>12, <1>13, <1>14, <1>15, <1>16, <1>17, <1>18 DEF Belongs, Underway

-----------------------------------------------------------------------------
(* LAGs come and go. *)

\* A LAG is forgotten when it has no members.
LEMMA DeletedMembers ==
    ASSUME MembersInv, NEW p \in Lags, del_old_port(p) PROVE Belongs' /\ Underway'
<1>1. /\ UNCHANGED <<rows, changed, recent, task>> /\ ports[p].cached /\ ~rows[p].present
      /\ ports' = [ports EXCEPT ![p] = NoPort]
  BY DEF del_old_port, table, Deleted
<1>2. ports[p].cfg = {} /\ ports[p].eligible = {}
  <2>1. ports[p].cfg = {}
    BY <1>1 DEF MembersInv, Belongs, MembersAreCached
  <2>2. ports[p].eligible \subseteq Ifaces
    BY MemberTypes DEF MembersInv
  <2>. QED
    BY <2>1, <2>2 DEF MembersInv, Belongs, Listed
<1>3. /\ \A q \in Lags : /\ ports'[q].cfg = ports[q].cfg /\ ports'[q].eligible = ports[q].eligible
                         /\ q # p => /\ ports'[q].cached = ports[q].cached
                                     /\ ports'[q].mode = ports[q].mode
      /\ ports'[p].cached = FALSE /\ ports'[p].mode = "off"
  <2>1. ports \in [Lags -> LagPort]
    BY TypesNow DEF MembersInv
  <2>. QED
    BY <1>1, <1>2, <2>1 DEF NoPort
<1>4. \A j \in Ifaces : ifs'[j] = ifs[j]
  BY <1>2 DEF del_old_port
<1>5. Belongs'
  <2>1. RowsApart' /\ MembersAreCached'
    BY <1>1, <1>2, <1>3 DEF MembersInv, Belongs, RowsApart, MembersAreCached
  <2>2. Placed' /\ Listed'
    BY <1>1, <1>3, <1>4 DEF MembersInv, Belongs, Placed, Listed
  <2>3. MoversRun'
    BY <1>1, <1>2, <1>3 DEF MembersInv, Belongs, MoversRun, IsDynamic
  <2>. QED
    BY <2>1, <2>2, <2>3 DEF Belongs
<1>6. task.at = "run"
  BY DEF del_old_port
<1>7. UnseenAreEmpty'
  BY <1>1, <1>3 DEF MembersInv, Underway, UnseenAreEmpty, Added
<1>8. IfacesFirst'
  BY <1>1, <1>4 DEF MembersInv, Underway, IfacesFirst
<1>9. RecentAreHome' /\ InHand'
  <2>1. recent \subseteq Ifaces
    BY MemberTypes DEF MembersInv
  <2>. QED
    BY <1>1, <1>4, <1>6, <2>1 DEF MembersInv, Underway, RecentAreHome, InHand
<1>10. DifferencesPend'
  BY <1>1, <1>3 DEF MembersInv, Underway, DifferencesPend
<1>11. MembersRun'
  <2>1. ASSUME NEW q \in Lags, IsDynamic(ports'[q]), NEW j \in ports'[q].cfg
        PROVE  j \in ports'[q].eligible \/ Waits(j, q)'
    <3>1. q # p /\ IsDynamic(ports[q]) /\ j \in ports[q].cfg /\ j \in Ifaces
      BY <1>3, <2>1, MemberTypes DEF IsDynamic, MembersInv
    <3>2. j \in ports[q].eligible \/ \E r \in Lags : r # q /\ j \in ports[r].cfg /\ ifs[j].port = q
      BY <1>6, <3>1 DEF MembersInv, Underway, MembersRun, Waits
    <3>. QED
      BY <1>3, <1>4, <3>1, <3>2 DEF Waits
  <2>. QED
    BY <2>1 DEF MembersRun
<1>. QED
  BY <1>5, <1>7, <1>8, <1>9, <1>10, <1>11 DEF Underway

\* The members of a LAG that is cached were nobody's.
LEMMA NewPortMembers ==
    ASSUME MembersInv, NEW p \in Lags, add_new_port(p) PROVE Belongs' /\ Underway'
<1>0. recent \subseteq Ifaces /\ \A q \in Lags : /\ rows[q].members \subseteq Ifaces
                                                 /\ ports[q].cfg \subseteq Ifaces
                                                 /\ ports[q].eligible \subseteq Ifaces
  BY MemberTypes DEF MembersInv
<1>1. /\ UNCHANGED <<rows, changed, recent, task>> /\ ~ports[p].cached /\ rows[p].present
      /\ task.at = "run" /\ task.members = {} /\ p \in Added
  BY DEF add_new_port, table, Added
<1>2. ports[p].cfg = {} /\ ports[p].eligible = {}
  <2>1. ports[p].cfg = {}
    BY <1>1 DEF MembersInv, Belongs, MembersAreCached
  <2>. QED
    BY <1>0, <2>1 DEF MembersInv, Belongs, Listed
<1>3. ASSUME NEW i \in rows[p].members, NEW q \in Lags PROVE i \notin ports[q].cfg
  <2>1. CASE ~ports[q].cached
    BY <2>1 DEF MembersInv, Belongs, MembersAreCached
  <2>2. CASE ports[q].cached
    <3>1. ports[q].cfg = rows[q].members /\ q # p
      BY <1>1, <1>3, <2>2 DEF MembersInv, Underway, UnseenAreEmpty
    <3>. QED
      BY <1>3, <3>1 DEF MembersInv, Belongs, RowsApart
  <2>. QED
    BY <2>1, <2>2
<1>4. /\ \A q \in Lags : /\ ports'[q].eligible = ports[q].eligible
                         /\ q # p => /\ ports'[q].cached = ports[q].cached
                                     /\ ports'[q].mode = ports[q].mode
                                     /\ ports'[q].cfg = ports[q].cfg
      /\ ports'[p].cached = TRUE /\ ports'[p].mode = "off" /\ ports'[p].cfg = rows[p].members
  <2>1. ports \in [Lags -> LagPort]
    BY TypesNow DEF MembersInv
  <2>2. ports' = [ports EXCEPT ![p] = [NoPort EXCEPT !.cached = TRUE, !.cfg = rows[p].members]]
    BY DEF add_new_port
  <2>. QED
    BY <1>2, <2>1, <2>2 DEF NoPort
<1>5. \A j \in Ifaces : /\ ifs'[j].cached = ifs[j].cached /\ ifs'[j].eligible = ifs[j].eligible
                        /\ j \in rows[p].members => ifs'[j].port = p
                        /\ j \notin rows[p].members => ifs'[j].port = ifs[j].port
  <2>1. \A j \in Ifaces : ifs[j] \in Iface
    BY TypesNow DEF MembersInv
  <2>2. \A j \in Ifaces : ifs'[j] = IF j \in rows[p].members THEN [ifs[j] EXCEPT !.port = p] ELSE ifs[j]
    BY DEF add_new_port
  <2>. QED
    BY <2>1, <2>2 DEF Iface
<1>6. \A q \in Lags : ports[q].cfg \subseteq ports'[q].cfg
  BY <1>2, <1>4
<1>7. RowsApart' /\ MembersAreCached'
  BY <1>1, <1>4 DEF MembersInv, Belongs, RowsApart, MembersAreCached
<1>8. Placed'
  <2>1. ASSUME NEW j \in Ifaces, NEW q \in Lags, j \in rows[p].members
        PROVE  j \in ports'[q].cfg <=> ifs'[j].port = q
    <3>1. CASE q = p
      BY <1>4, <1>5, <2>1, <3>1
    <3>2. CASE q # p
      BY <1>3, <1>4, <1>5, <2>1, <3>2
    <3>. QED
      BY <3>1, <3>2
  <2>2. ASSUME NEW j \in Ifaces, NEW q \in Lags, j \notin rows[p].members
        PROVE  /\ j \in ports'[q].cfg => ifs'[j].port = q \/ j \in recent'
               /\ ifs'[j].port = q => j \in ports'[q].cfg
    <3>1. j \in ports'[q].cfg <=> j \in ports[q].cfg
      BY <1>2, <1>4, <2>2
    <3>. QED
      BY <1>1, <1>5, <2>2, <3>1 DEF MembersInv, Belongs, Placed
  <2>. QED
    BY <2>1, <2>2 DEF Placed
<1>9. Listed'
  BY <1>4, <1>5, <1>6 DEF MembersInv, Belongs, Listed
<1>10. MoversRun'
  <2>1. ASSUME NEW a \in Lags, NEW q \in Lags, a # q, NEW j \in ports'[q].cfg \cap rows'[a].members
        PROVE  IsDynamic(ports'[q]) /\ j \in ports'[q].eligible
    <3>1. CASE q = p
      BY <1>1, <1>4, <2>1, <3>1 DEF MembersInv, Belongs, RowsApart
    <3>2. CASE q # p
      BY <1>1, <1>4, <2>1, <3>2 DEF MembersInv, Belongs, MoversRun, IsDynamic
    <3>. QED
      BY <3>1, <3>2
  <2>. QED
    BY <2>1 DEF MoversRun
<1>11. UnseenAreEmpty'
  <2>1. CASE \A q \in Added : rows[q].members = {}
    BY <1>1, <1>4, <2>1 DEF UnseenAreEmpty, Added
  <2>2. CASE \A q \in Lags : ports[q].cached => task.at = "run" /\ ports[q].cfg = rows[q].members
    <3>1. \A q \in Lags : ports'[q].cached => task'.at = "run" /\ ports'[q].cfg = rows'[q].members
      BY <1>1, <1>4, <2>2
    <3>. QED
      BY <3>1 DEF UnseenAreEmpty
  <2>. QED
    BY <2>1, <2>2 DEF MembersInv, Underway, UnseenAreEmpty
<1>12. IfacesFirst'
  BY <1>1, <1>5, AllCached DEF IfacesFirst
<1>13. RecentAreHome' /\ InHand'
  <2>1. ASSUME NEW j \in recent PROVE ifs'[j].port \in Lags /\ j \in rows'[ifs'[j].port].members
    <3>1. j \in Ifaces /\ ifs[j].port \in Lags /\ j \in rows[ifs[j].port].members
      BY <1>0, <2>1 DEF MembersInv, Underway, RecentAreHome
    <3>2. j \in ports[ifs[j].port].cfg
      BY <3>1 DEF MembersInv, Belongs, Placed
    <3>3. ifs'[j].port = ifs[j].port
      BY <1>3, <1>5, <3>1, <3>2
    <3>. QED
      BY <1>1, <3>1, <3>3
  <2>. QED
    BY <1>1, <2>1 DEF RecentAreHome, InHand
<1>14. DifferencesPend'
  BY <1>1, <1>4 DEF MembersInv, Underway, DifferencesPend
<1>15. MembersRun'
  <2>1. ASSUME NEW q \in Lags, IsDynamic(ports'[q]), NEW j \in ports'[q].cfg
        PROVE  j \in ports'[q].eligible \/ Waits(j, q)'
    <3>1. q # p /\ IsDynamic(ports[q]) /\ j \in ports[q].cfg /\ j \in Ifaces
      BY <1>0, <1>4, <2>1 DEF IsDynamic
    <3>2. j \in ports[q].eligible \/ \E r \in Lags : r # q /\ j \in ports[r].cfg /\ ifs[j].port = q
      BY <1>1, <3>1 DEF MembersInv, Underway, MembersRun, Waits
    <3>3. ifs'[j].port = ifs[j].port
      BY <1>3, <1>5, <3>1
    <3>. QED
      BY <1>4, <1>6, <3>1, <3>2, <3>3 DEF Waits
  <2>. QED
    BY <2>1 DEF MembersRun
<1>. QED
  BY <1>7, <1>8, <1>9, <1>10, <1>11, <1>12, <1>13, <1>14, <1>15 DEF Belongs, Underway
-----------------------------------------------------------------------------
(* The administrator. *)

\* A change of rows between runs, of which lacpd learns, and after which an interface
\* is in one LAG at most.
LEMMA EditMembers ==
    ASSUME MembersInv, CarefulStep, task.at = "idle", UNCHANGED <<ports, ifs, task, recent>>,
           changed.ports \subseteq changed'.ports, changed.ifs \subseteq changed'.ifs,
           RowsApart',
           \A q \in Lags : rows'[q].members # rows[q].members => q \in changed'.ports,
           \A q \in Lags : ~rows[q].present /\ rows'[q].present => rows'[q].members = {}
    PROVE  Belongs' /\ Underway'
<1>0. recent = {}
  BY DEF MembersInv, Underway, RecentAreHome
<1>1. MembersAreCached'
  <2>1. ASSUME NEW p \in Lags, ~ports[p].cached \/ ~rows'[p].present PROVE ports[p].cfg = {}
    BY <2>1 DEF CarefulStep, MembersInv, Belongs, MembersAreCached
  <2>. QED
    BY <2>1 DEF MembersAreCached
<1>2. Placed' /\ Listed'
  BY DEF MembersInv, Belongs, Placed, Listed
<1>3. MoversRun'
  <2>1. ASSUME NEW p \in Lags, NEW q \in Lags, p # q, NEW i \in ports[q].cfg \cap rows'[p].members
        PROVE  IsDynamic(ports[q]) /\ i \in ports[q].eligible
    <3>1. CASE i \in rows[p].members
      BY <2>1, <3>1 DEF MembersInv, Belongs, MoversRun
    <3>2. CASE i \notin rows[p].members
      <4>1. IsDynamic(ports[q])
        BY <2>1, <3>2 DEF CarefulStep
      <4>2. i \in Ifaces
        BY MemberTypes DEF MembersInv
      <4>3. ~Waits(i, q)
        BY <1>0, <2>1, <4>2 DEF MembersInv, Belongs, Placed, Waits
      <4>. QED
        BY <4>1, <4>3 DEF MembersInv, Underway, MembersRun
    <3>. QED
      BY <3>1, <3>2
  <2>. QED
    BY <2>1 DEF MoversRun
<1>4. UnseenAreEmpty'
  <2>1. CASE \A q \in Lags : ~ports[q].cached
    BY <2>1 DEF UnseenAreEmpty
  <2>2. CASE \A p \in Added : rows[p].members = {}
    <3>1. ASSUME NEW p \in Lags, rows'[p].present, ~ports[p].cached, rows'[p].members # {}
          PROVE  \A q \in Lags : ~ports[q].cached
      <4>1. rows[p].present
        BY <3>1
      <4>2. rows[p].members = {}
        BY <2>2, <3>1, <4>1 DEF Added
      <4>. QED
        BY <3>1, <4>2 DEF CarefulStep
    <3>. QED
      BY <3>1 DEF UnseenAreEmpty, Added
  <2>. QED
    BY <2>1, <2>2 DEF MembersInv, Underway, UnseenAreEmpty
<1>5. IfacesFirst'
  BY DEF MembersInv, Underway, IfacesFirst
<1>6. RecentAreHome' /\ InHand'
  BY <1>0 DEF RecentAreHome, InHand
<1>7. DifferencesPend'
  BY DEF MembersInv, Underway, DifferencesPend, PortSteps
<1>8. MembersRun'
  <2>1. \A p \in Lags : \A i \in ports[p].cfg : Waits(i, p) => Waits(i, p)'
    BY DEF Waits
  <2>. QED
    BY <2>1 DEF MembersInv, Underway, MembersRun
<1>. QED
  BY <1>1, <1>2, <1>3, <1>4, <1>5, <1>6, <1>7, <1>8 DEF Belongs, Underway

\* The members of one row become less, or stay what they are; nobody's become more.
LEMMA NobodyJoins ==
    ASSUME MembersInv, NEW p \in Lags, NEW r \in Row, rows' = [rows EXCEPT ![p] = r],
           r.members \subseteq rows[p].members, ~r.present => r.members = {}
    PROVE  RowsApart'
<1>1. rows \in [Lags -> Row]
  BY TypesNow DEF MembersInv
<1>2. \A q \in Lags : /\ rows'[q].members \subseteq rows[q].members
                      /\ ~rows'[q].present => rows'[q].members = {}
  BY <1>1 DEF MembersInv, Belongs, RowsApart
<1>. QED
  BY <1>2 DEF MembersInv, Belongs, RowsApart

\* What lacpd is told of a row that changed is enough.
LEMMA RowMembers ==
    ASSUME MembersInv, CarefulStep, task.at = "idle", UNCHANGED <<ports, ifs, task, recent>>,
           changed.ifs \subseteq changed'.ifs,
           NEW p \in Lags, changed.ports \cup {p} \subseteq changed'.ports,
           NEW r \in Row, rows' = [rows EXCEPT ![p] = r],
           r.members \subseteq rows[p].members, ~r.present => r.members = {}
    PROVE  Belongs' /\ Underway'
<1>1. RowsApart'
  BY NobodyJoins
<1>2. rows \in [Lags -> Row]
  BY TypesNow DEF MembersInv
<1>3. \A q \in Lags : rows'[q].members # rows[q].members => q \in changed'.ports
  BY <1>2
<1>4. \A q \in Lags : ~rows[q].present /\ rows'[q].present => rows'[q].members = {}
  BY <1>2 DEF MembersInv, Belongs, RowsApart
<1>. QED
  BY <1>1, <1>3, <1>4, EditMembers

\* The commands that change one column of one row.
LEMMA EditPortMembers ==
    ASSUME MembersInv, CarefulStep, NEW p \in Lags, NEW r \in Row, NEW command,
           EditPort(command, p, r), r.members \subseteq rows[p].members, r.present
    PROVE  Belongs' /\ Underway'
<1>1. /\ task.at = "idle" /\ UNCHANGED <<ports, ifs, task, recent>>
      /\ rows' = [rows EXCEPT ![p] = r] /\ changed' = [changed EXCEPT !.ports = @ \cup {p}]
  BY DEF EditPort, Edit, cache
<1>2. changed'.ports = changed.ports \cup {p} /\ changed'.ifs = changed.ifs
  <2>1. changed \in [ports : SUBSET Lags, ifs : SUBSET Ifaces]
    BY TypesNow DEF MembersInv
  <2>. QED
    BY <1>1, <2>1
<1>. QED
  BY <1>1, <1>2, RowMembers

\* An interface joins a LAG and leaves the others in the same transaction.
LEMMA JoinMembers ==
    ASSUME MembersInv, CarefulStep, NEW p \in Lags, NEW i \in Ifaces, lacp_add_intf_to_lag(p, i)
    PROVE  Belongs' /\ Underway'
<1>. DEFINE left == {q \in Lags \ {p} : i \in rows[q].members}
<1>1. /\ task.at = "idle" /\ UNCHANGED <<ports, ifs, task, recent>> /\ rows[p].present
      /\ changed'.ports = changed.ports \cup {p} \cup left
      /\ changed'.ifs = changed.ifs \cup {i}
  BY DEF lacp_add_intf_to_lag, Edit, cache
<1>2. \A q \in Lags : /\ rows'[q].present = rows[q].present
                      /\ rows'[q].members = IF q = p THEN rows[q].members \cup {i}
                                            ELSE rows[q].members \ {i}
  <2>1. \A q \in Lags : rows[q] \in Row
    BY TypesNow DEF MembersInv
  <2>2. \A q \in Lags : rows'[q] = IF q = p THEN [rows[q] EXCEPT !.members = @ \cup {i}]
                                   ELSE [rows[q] EXCEPT !.members = @ \ {i}]
    BY DEF lacp_add_intf_to_lag
  <2>. QED
    BY <2>1, <2>2 DEF Row
<1>3. RowsApart'
  <2>1. ASSUME NEW q \in Lags, ~rows'[q].present PROVE rows'[q].members = {}
    BY <1>1, <1>2, <2>1 DEF MembersInv, Belongs, RowsApart
  <2>2. ASSUME NEW q \in Lags, NEW a \in Lags, q # a
        PROVE  rows'[q].members \cap rows'[a].members = {}
    <3>1. rows[q].members \cap rows[a].members = {}
      BY <2>2 DEF MembersInv, Belongs, RowsApart
    <3>2. CASE q = p
      BY <1>2, <2>2, <3>1, <3>2
    <3>3. CASE q # p
      BY <1>2, <2>2, <3>1, <3>3
    <3>. QED
      BY <3>2, <3>3
  <2>. QED
    BY <2>1, <2>2 DEF RowsApart
<1>4. \A q \in Lags : rows'[q].members # rows[q].members => q \in changed'.ports
  <2>1. ASSUME NEW q \in Lags, q # p, i \notin rows[q].members
        PROVE  rows'[q].members = rows[q].members
    <3>1. rows'[q].members = rows[q].members \ {i}
      BY <1>2, <2>1
    <3>. QED
      BY <2>1, <3>1
  <2>. QED
    BY <1>1, <2>1
<1>. HIDE DEF left
<1>5. \A q \in Lags : ~rows[q].present /\ rows'[q].present => rows'[q].members = {}
  BY <1>2
<1>. QED
  BY <1>1, <1>3, <1>4, <1>5, EditMembers

\* Nothing is cached when lacpd starts.
LEMMA FreshMembers ==
    ASSUME ports = [p \in Lags |-> NoPort], ifs = [i \in Ifaces |-> NoIface], recent = {},
           task = Idle, changed.ifs = Ifaces, RowsApart
    PROVE  Belongs /\ Underway
<1>1. \A p \in Lags : ~ports[p].cached /\ ports[p].cfg = {} /\ ports[p].eligible = {}
  BY DEF NoPort
<1>2. \A i \in Ifaces : ~ifs[i].cached /\ ifs[i].port = NoLag /\ ~ifs[i].eligible
  BY DEF NoIface
<1>3. NoLag \notin Lags /\ task.at = "idle"
  BY ConfigAssumption DEF NoLag, Idle
<1>4. Belongs
  BY <1>1, <1>2, <1>3 DEF Belongs, MembersAreCached, Placed, Listed, MoversRun
<1>5. UnseenAreEmpty /\ DifferencesPend /\ MembersRun
  BY <1>1 DEF UnseenAreEmpty, DifferencesPend, MembersRun
<1>6. IfacesFirst /\ RecentAreHome /\ InHand
  BY <1>2, <1>3 DEF IfacesFirst, RecentAreHome, InHand
<1>. QED
  BY <1>4, <1>5, <1>6 DEF Underway

\* The administrator, and a restart.
LEMMA AdministrationMembers ==
    ASSUME MembersInv, CarefulStep, Administration PROVE Belongs' /\ Underway'
<1>0. /\ rows \in [Lags -> Row] /\ changed \in [ports : SUBSET Lags, ifs : SUBSET Ifaces]
  BY TypesNow DEF MembersInv
<1>1. CASE Restart
  <2>1. /\ (ports = [p \in Lags |-> NoPort])' /\ (ifs = [i \in Ifaces |-> NoIface])'
        /\ (recent = {})' /\ (task = Idle)' /\ (changed.ifs = Ifaces)'
    BY <1>1 DEF Restart, Started
  <2>2. RowsApart'
    BY <1>1 DEF Restart, MembersInv, Belongs, RowsApart
  <2>. QED
    BY <2>1, <2>2, FreshMembers, PTL
<1>2. ASSUME NEW p \in Lags, vtysh_intf_link_aggregation(p) PROVE Belongs' /\ Underway'
  <2>. DEFINE r == [NoRow EXCEPT !.present = TRUE]
  <2>1. r \in Row /\ r.members = {}
    BY ConfigAssumption DEF NoRow, Row, Modes
  <2>2. /\ task.at = "idle" /\ UNCHANGED <<ports, ifs, task, recent>>
        /\ rows' = [rows EXCEPT ![p] = r] /\ changed' = [changed EXCEPT !.ports = @ \cup {p}]
    BY <1>2 DEF vtysh_intf_link_aggregation, Edit, cache
  <2>3. changed'.ports = changed.ports \cup {p} /\ changed'.ifs = changed.ifs
    BY <1>0, <2>2
  <2>. HIDE DEF r
  <2>. QED
    BY <2>1, <2>2, <2>3, RowMembers
<1>3. ASSUME NEW p \in Lags, delete_lag(p) PROVE Belongs' /\ Underway'
  <2>1. NoRow \in Row /\ NoRow.members = {}
    BY ConfigAssumption DEF NoRow, Row, Modes
  <2>2. /\ task.at = "idle" /\ UNCHANGED <<ports, ifs, task, recent>>
        /\ rows' = [rows EXCEPT ![p] = NoRow]
        /\ changed'.ports = changed.ports \cup {p} /\ changed.ifs \subseteq changed'.ifs
    BY <1>3 DEF delete_lag, Edit, cache
  <2>. QED
    BY <2>1, <2>2, RowMembers
<1>4. ASSUME NEW p \in Lags, NEW mode \in Modes, lacp_set_mode(p, mode) PROVE Belongs' /\ Underway'
  <2>. DEFINE r == [rows[p] EXCEPT !.lacp = mode]
  <2>1. r \in Row /\ r.members = rows[p].members /\ r.present = rows[p].present
    BY <1>0 DEF Row
  <2>2. rows[p].present /\ EditPort(IF mode = "off" THEN "off" ELSE "mode", p, r)
    BY <1>4 DEF lacp_set_mode, EditPort
  <2>. HIDE DEF r
  <2>. QED
    BY <2>1, <2>2, EditPortMembers
<1>5. ASSUME NEW p \in Lags, lacp_set_fallback(p) PROVE Belongs' /\ Underway'
  <2>. DEFINE r == [rows[p] EXCEPT !.fallback = ~@]
  <2>1. r \in Row /\ r.members = rows[p].members /\ r.present = rows[p].present
    BY <1>0 DEF Row
  <2>2. rows[p].present /\ EditPort("fallback", p, r)
    BY <1>5 DEF lacp_set_fallback, EditPort
  <2>. HIDE DEF r
  <2>. QED
    BY <2>1, <2>2, EditPortMembers
<1>6. ASSUME NEW p \in Lags, lacp_set_heartbeat_rate(p) PROVE Belongs' /\ Underway'
  <2>. DEFINE r == [rows[p] EXCEPT !.fast = ~@]
  <2>1. r \in Row /\ r.members = rows[p].members /\ r.present = rows[p].present
    BY <1>0 DEF Row
  <2>2. rows[p].present /\ EditPort("rate", p, r)
    BY <1>6 DEF lacp_set_heartbeat_rate, EditPort
  <2>. HIDE DEF r
  <2>. QED
    BY <2>1, <2>2, EditPortMembers
<1>7. ASSUME NEW p \in Lags, NEW sys \in Systems, SetSystemId(p, sys) PROVE Belongs' /\ Underway'
  <2>. DEFINE r == [rows[p] EXCEPT !.sys = sys]
  <2>1. r \in Row /\ r.members = rows[p].members /\ r.present = rows[p].present
    BY <1>0 DEF Row
  <2>2. rows[p].present /\ EditPort("sys", p, r)
    BY <1>7 DEF SetSystemId, EditPort
  <2>. HIDE DEF r
  <2>. QED
    BY <2>1, <2>2, EditPortMembers
<1>8. ASSUME NEW p \in Lags, NEW i \in Ifaces, lacp_remove_intf_from_lag(p, i)
      PROVE  Belongs' /\ Underway'
  <2>. DEFINE r == [rows[p] EXCEPT !.members = @ \ {i}]
  <2>1. r \in Row /\ r.members = rows[p].members \ {i} /\ r.present = rows[p].present
    BY <1>0 DEF Row
  <2>2. ~r.present => r.members = {}
    BY <2>1 DEF MembersInv, Belongs, RowsApart
  <2>3. /\ task.at = "idle" /\ UNCHANGED <<ports, ifs, task, recent>>
        /\ rows' = [rows EXCEPT ![p] = r]
        /\ changed'.ports = changed.ports \cup {p} /\ changed.ifs \subseteq changed'.ifs
    BY <1>0, <1>8 DEF lacp_remove_intf_from_lag, Edit, cache
  <2>. HIDE DEF r
  <2>. QED
    BY <2>1, <2>2, <2>3, RowMembers
<1>9. ASSUME NEW i \in Ifaces, NEW link \in Speeds \cup {0}, LinkChanges(i, link)
      PROVE  Belongs' /\ Underway'
  <2>1. /\ task.at = "idle" /\ UNCHANGED <<ports, ifs, task, recent, rows>>
        /\ changed' = [changed EXCEPT !.ifs = @ \cup {i}]
    BY <1>9 DEF LinkChanges, Edit, cache
  <2>2. changed.ports \subseteq changed'.ports /\ changed.ifs \subseteq changed'.ifs
    BY <1>0, <2>1
  <2>3. RowsApart'
    BY <2>1 DEF MembersInv, Belongs, RowsApart
  <2>. QED
    BY <2>1, <2>2, <2>3, EditMembers
<1>. QED
  BY <1>1, <1>2, <1>3, <1>4, <1>5, <1>6, <1>7, <1>8, <1>9, JoinMembers DEF Administration

-----------------------------------------------------------------------------

\* Every step of either thread, and every careful step of the administrator, preserves
\* the invariant.
LEMMA MembersNext == MembersInv /\ [Next]_vars /\ [CarefulStep]_vars => MembersInv'
<1>. SUFFICES ASSUME MembersInv, [Next]_vars, [CarefulStep]_vars PROVE Belongs' /\ Underway'
  BY QueueNext DEF MembersInv
<1>1. CASE lacpd_run
  BY <1>1, BeginMembers, NewInterfaceMembers, InterfaceMembers, RemoveMembers,
     IneligibleMembers, AddMembers, UpdateMembers, DeletedMembers, NewPortMembers, StartMembers,
     PassMembers, ModeMembers, FinishMembers, EndMembers DEF lacpd_run
<1>2. CASE UNCHANGED vars
  <2>1. UNCHANGED <<rows, recent, task, changed, ports, ifs>>
    BY <1>2 DEF vars, table, cache
  <2>. QED
    BY <2>1, NothingMoves DEF SameMembersNext, SameMarksNext
<1>3. CASE Administration /\ ~UNCHANGED vars
  BY <1>3, AdministrationMembers
<1>. QED
  BY <1>1, <1>2, <1>3, ProtocolMembers DEF Next

\* It holds when lacpd starts, if the rows are apart.
LEMMA MembersInit == Init /\ RowsApart => MembersInv
  BY QueueInit, FreshMembers DEF MembersInv, Init

\* The two records of eligibility, the interface's flag and the LAGs' sets, agree
\* between any two runs of lacpd_run, for any tables, any number of LAGs, interfaces and
\* changes, and whatever the order in which the hash maps are walked, if the
\* administrator is careful.
THEOREM EligibilityIsAgreed == CarefulSpec => []EligibilityAgrees
  BY MembersAgree, MembersInit, MembersNext, PTL DEF CarefulSpec, Spec
====

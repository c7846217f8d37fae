------------------------- MODULE ConfigTablesProofs -------------------------
(***************************************************************************)
(* What the main thread knows of the rows, and what it has said, for any   *)
(* number of LAGs, interfaces and commands.  LastWord is what the last     *)
(* message in the queue says of a setting of a port, or what the port has  *)
(* if there is none.  TablesInv says that a row and its cached copy differ *)
(* only where the change is still to be handled, and for each step of the  *)
(* run these lemmas say what it changes in the entries and what it queues. *)
(***************************************************************************)
EXTENDS ConfigMembersProofs
-----------------------------------------------------------------------------
(* The last word about a setting. *)

\* m changes the setting f of port i, if the port runs; "up" is whether it runs.
Affects(m, i, f) ==
    /\ m \in LportMsg /\ m.iface = i
    /\ \/ m.type = "config"
       \/ m.type = "update" /\ (~m.enabled \/ f = "fast")
       \/ m.type = "link" /\ f = "link"
       \/ m.type = "fallback" /\ f = "fallback"
       \/ m.type = "overrides" /\ f = "sys"

\* The value it gives it.
Says(m, f) ==
    CASE m.type = "config"    -> IF m.enabled THEN Configured(m)[f] ELSE NoLport[f]
      [] m.type = "update"    -> IF m.enabled THEN m.fast ELSE NoLport[f]
      [] m.type = "link"      -> m.link
      [] m.type = "fallback"  -> m.on
      [] m.type = "overrides" -> m.sys

\* Of port i, now l, setting f is v once the queue q is obeyed: the last message that
\* changes it says so or, if none does, it is v now.
LastWord(q, l, i, f, v) ==
    /\ \A k \in 1..Len(q) :
          Affects(q[k], i, f) /\ (\A n \in 1..Len(q) : n > k => ~Affects(q[n], i, f))
              => Says(q[k], f) = v
    /\ (\A n \in 1..Len(q) : ~Affects(q[n], i, f)) => l[f] = v

\* What is said later agrees, or is about something else.
LEMMA MoreWords ==
    ASSUME NEW q \in Seq(Message), NEW s \in Seq(Message), NEW l, NEW i, NEW f, NEW v,
           \A k \in 1..Len(s) : Affects(s[k], i, f) => Says(s[k], f) = v,
           LastWord(q, l, i, f, v) \/ \E k \in 1..Len(s) : Affects(s[k], i, f)
    PROVE  LastWord(q \o s, l, i, f, v)
<1>. DEFINE t == q \o s
<1>1. /\ Len(t) = Len(q) + Len(s) /\ Len(q) \in Nat /\ Len(s) \in Nat
      /\ \A k \in 1..Len(q) : t[k] = q[k]
      /\ \A k \in 1..Len(s) : t[Len(q) + k] = s[k]
  OBVIOUS
<1>. HIDE DEF t
<1>2. ASSUME NEW k \in 1..Len(t), Affects(t[k], i, f),
             \A n \in 1..Len(t) : n > k => ~Affects(t[n], i, f)
      PROVE  Says(t[k], f) = v
  <2>1. CASE k > Len(q)
    <3>1. k - Len(q) \in 1..Len(s) /\ t[k] = s[k - Len(q)]
      BY <1>1, <2>1
    <3>. QED
      BY <1>2, <3>1
  <2>2. CASE k <= Len(q)
    <3>1. k \in 1..Len(q) /\ t[k] = q[k]
      BY <1>1, <2>2
    <3>2. \A n \in 1..Len(s) : ~Affects(s[n], i, f)
      <4>1. ASSUME NEW n \in 1..Len(s) PROVE ~Affects(s[n], i, f)
        <5>1. Len(q) + n \in 1..Len(t) /\ Len(q) + n > k
          BY <1>1, <3>1
        <5>. QED
          BY <1>1, <1>2, <5>1
      <4>. QED
        BY <4>1
    <3>3. \A n \in 1..Len(q) : n > k => ~Affects(q[n], i, f)
      BY <1>1, <1>2
    <3>. QED
      BY <1>2, <3>1, <3>2, <3>3 DEF LastWord
  <2>. QED
    BY <1>1, <2>1, <2>2
<1>3. ASSUME \A n \in 1..Len(t) : ~Affects(t[n], i, f) PROVE l[f] = v
  <2>1. \A n \in 1..Len(q) : ~Affects(q[n], i, f)
    BY <1>1, <1>3
  <2>2. \A n \in 1..Len(s) : ~Affects(s[n], i, f)
    <3>1. ASSUME NEW n \in 1..Len(s) PROVE ~Affects(s[n], i, f)
      <4>1. Len(q) + n \in 1..Len(t)
        BY <1>1
      <4>. QED
        BY <1>1, <1>3, <4>1
    <3>. QED
      BY <3>1
  <2>. QED
    BY <2>1, <2>2 DEF LastWord
<1>. QED
  BY <1>2, <1>3 DEF LastWord, t

\* One more message.
LEMMA OneMoreWord ==
    ASSUME NEW q \in Seq(Message), NEW m \in Message, NEW l, NEW i, NEW f, NEW v,
           Affects(m, i, f) => Says(m, f) = v, LastWord(q, l, i, f, v) \/ Affects(m, i, f)
    PROVE  LastWord(q \o <<m>>, l, i, f, v)
<1>1. <<m>> \in Seq(Message) /\ Len(<<m>>) = 1 /\ <<m>>[1] = m
  OBVIOUS
<1>2. \A k \in 1..Len(<<m>>) : Affects(<<m>>[k], i, f) => Says(<<m>>[k], f) = v
  BY <1>1
<1>3. Affects(m, i, f) => \E k \in 1..Len(<<m>>) : Affects(<<m>>[k], i, f)
  BY <1>1
<1>. QED
  BY <1>1, <1>2, <1>3, MoreWords

\* The first message is obeyed.
LEMMA FirstWord ==
    ASSUME NEW q \in Seq(Message), q # <<>>, NEW l, NEW k, NEW i, NEW f, NEW v,
           LastWord(q, l, i, f, v),
           ~Affects(Head(q), i, f) => k[f] = l[f],
           Affects(Head(q), i, f) /\ (\A n \in 1..Len(q) : n > 1 => ~Affects(q[n], i, f)) =>
               k[f] = Says(Head(q), f)
    PROVE  LastWord(Tail(q), k, i, f, v)
<1>. DEFINE t == Tail(q)
<1>1. /\ Len(q) \in Nat /\ Len(q) > 0 /\ Len(t) = Len(q) - 1 /\ Head(q) = q[1]
      /\ \A n \in 1..Len(t) : t[n] = q[n + 1]
  OBVIOUS
<1>. HIDE DEF t
<1>2. ASSUME NEW n \in 1..Len(t), Affects(t[n], i, f),
             \A x \in 1..Len(t) : x > n => ~Affects(t[x], i, f)
      PROVE  Says(t[n], f) = v
  <2>1. n + 1 \in 1..Len(q) /\ t[n] = q[n + 1]
    BY <1>1
  <2>2. \A x \in 1..Len(q) : x > n + 1 => ~Affects(q[x], i, f)
    <3>1. ASSUME NEW x \in 1..Len(q), x > n + 1 PROVE ~Affects(q[x], i, f)
      <4>1. x - 1 \in 1..Len(t) /\ x - 1 > n /\ t[x - 1] = q[x]
        BY <1>1, <3>1
      <4>. QED
        BY <1>2, <4>1
    <3>. QED
      BY <3>1
  <2>. QED
    BY <1>2, <2>1, <2>2 DEF LastWord
<1>3. ASSUME \A n \in 1..Len(t) : ~Affects(t[n], i, f) PROVE k[f] = v
  <2>1. \A x \in 1..Len(q) : x > 1 => ~Affects(q[x], i, f)
    <3>1. ASSUME NEW x \in 1..Len(q), x > 1 PROVE ~Affects(q[x], i, f)
      <4>1. x - 1 \in 1..Len(t) /\ t[x - 1] = q[x]
        BY <1>1, <3>1
      <4>. QED
        BY <1>3, <4>1
    <3>. QED
      BY <3>1
  <2>2. CASE Affects(Head(q), i, f)
    <3>1. 1 \in 1..Len(q)
      BY <1>1
    <3>2. Says(q[1], f) = v
      BY <1>1, <2>1, <2>2, <3>1 DEF LastWord
    <3>. QED
      BY <1>1, <2>1, <2>2, <3>2
  <2>3. CASE ~Affects(Head(q), i, f)
    <3>1. \A x \in 1..Len(q) : ~Affects(q[x], i, f)
      BY <1>1, <2>1, <2>3
    <3>. QED
      BY <2>3, <3>1 DEF LastWord
  <2>. QED
    BY <2>2, <2>3
<1>. QED
  BY <1>2, <1>3 DEF LastWord, t

\* Everything is obeyed.
LEMMA NoMoreWords == ASSUME NEW l, NEW i, NEW f, NEW v, LastWord(<<>>, l, i, f, v) PROVE l[f] = v
<1>1. Len(<<>>) = 0
  OBVIOUS
<1>. QED
  BY <1>1 DEF LastWord
-----------------------------------------------------------------------------
(* What eligibility does, in full. *)

\* The LAGs are the same in S and T but for their speed and who is eligible.
SameLags(S, T) ==
    \A q \in Lags : /\ T.ports[q].cached = S.ports[q].cached /\ T.ports[q].cfg = S.ports[q].cfg
                    /\ T.ports[q].mode = S.ports[q].mode /\ T.ports[q].sys = S.ports[q].sys
                    /\ T.ports[q].fast = S.ports[q].fast
                    /\ T.ports[q].fallback = S.ports[q].fallback
                    /\ T.ports[q].participants = S.ports[q].participants

\* From S to T only things of interface i change, and only i is spoken of.
Elsewhere(S, T, i) ==
    /\ S \in CState /\ T \in CState /\ SameLags(S, T)
    /\ \A q \in Lags : \A j \in Ifaces :
          j # i => (j \in T.ports[q].eligible <=> j \in S.ports[q].eligible)
    /\ \A j \in Ifaces : j # i => T.ifs[j] = S.ifs[j] /\ T.hw[j] = S.hw[j]
    /\ \E s \in Seq(LportMsg) : /\ T.queue = S.queue \o s
                                /\ \A k \in 1..Len(s) : s[k].iface = i

\* Nothing but the speed of a LAG changes.
Calm(S, T) ==
    /\ S \in CState /\ T \in CState /\ SameLags(S, T) /\ SameMarks(S, T)
    /\ T.ifs = S.ifs /\ T.hw = S.hw /\ T.queue = S.queue

\* From S to T the eligibility of i for p becomes e, with all that follows from it.
Settled(S, T, p, i, e) ==
    /\ Elsewhere(S, T, i) /\ Marked(S, T, p, i, e)
    /\ T.ifs[i].port = S.ifs[i].port /\ T.ifs[i].key = S.ifs[i].key
    /\ T.ifs[i].link = S.ifs[i].link /\ T.ifs[i].cached = S.ifs[i].cached
    /\ IsDynamic(S.ports[p]) =>
          /\ T.ifs[i].enabled = e /\ T.ifs[i].fast = S.ports[p].fast
          /\ T.ifs[i].active = (S.ports[p].mode = "active")
          /\ e => T.hw[i] = S.hw[i]
          /\ i \in S.ports[p].cfg \/ i \notin recent => T.queue = S.queue \o <<ConfigLport(T, i)>>
    /\ ~IsDynamic(S.ports[p]) =>
          /\ T.ifs[i].enabled = S.ifs[i].enabled /\ T.ifs[i].fast = S.ifs[i].fast
          /\ T.ifs[i].active = S.ifs[i].active
          /\ T.hw[i] = [rx |-> e, tx |-> e]
          /\ T.queue = S.queue

\* The queue of a state.
LEMMA QueueTyped ==
    ASSUME NEW S \in CState PROVE S.queue \in Seq(Message) /\ S.queue \o <<>> = S.queue
<1>1. S.queue \in Seq(Message)
  BY DEF CState
<1>. QED
  BY <1>1, ConcatEmptySeq

\* One change of i after another.
LEMMA ElsewhereTransitive ==
    ASSUME NEW R, NEW S, NEW T, NEW i, Elsewhere(R, S, i), Elsewhere(S, T, i)
    PROVE  Elsewhere(R, T, i)
<1>1. PICK s \in Seq(LportMsg) : S.queue = R.queue \o s /\ \A k \in 1..Len(s) : s[k].iface = i
  BY DEF Elsewhere
<1>2. PICK t \in Seq(LportMsg) : T.queue = S.queue \o t /\ \A k \in 1..Len(t) : t[k].iface = i
  BY DEF Elsewhere
<1>3. s \in Seq(Message) /\ t \in Seq(Message) /\ R.queue \in Seq(Message)
  <2>1. R.queue \in Seq(Message)
    BY QueueTyped DEF Elsewhere
  <2>2. LportMsg \subseteq Message
    BY DEF Message
  <2>. QED
    BY <2>1, <2>2
<1>4. T.queue = R.queue \o (s \o t)
  <2>1. (R.queue \o s) \o t = R.queue \o (s \o t)
    BY <1>3, Associative
  <2>. QED
    BY <1>1, <1>2, <2>1
<1>5. s \o t \in Seq(LportMsg) /\ \A k \in 1..Len(s \o t) : (s \o t)[k].iface = i
  <2>1. /\ s \o t \in Seq(LportMsg) /\ Len(s \o t) = Len(s) + Len(t)
        /\ Len(s) \in Nat /\ Len(t) \in Nat
        /\ \A k \in 1..Len(s) : (s \o t)[k] = s[k]
        /\ \A k \in 1..Len(t) : (s \o t)[Len(s) + k] = t[k]
    OBVIOUS
  <2>2. ASSUME NEW k \in 1..Len(s \o t) PROVE (s \o t)[k].iface = i
    <3>1. CASE k <= Len(s)
      BY <1>1, <2>1, <3>1
    <3>2. CASE k > Len(s)
      <4>1. k - Len(s) \in 1..Len(t) /\ (s \o t)[k] = t[k - Len(s)]
        BY <2>1, <3>2
      <4>. QED
        BY <1>2, <4>1
    <3>. QED
      BY <2>1, <3>1, <3>2
  <2>. QED
    BY <2>1, <2>2
<1>6. SameLags(R, T)
  BY DEF Elsewhere, SameLags
<1>7. /\ \A q \in Lags : \A j \in Ifaces :
            j # i => (j \in T.ports[q].eligible <=> j \in R.ports[q].eligible)
      /\ \A j \in Ifaces : j # i => T.ifs[j] = R.ifs[j] /\ T.hw[j] = R.hw[j]
      /\ R \in CState /\ T \in CState
  BY DEF Elsewhere
<1>. QED
  BY <1>4, <1>5, <1>6, <1>7 DEF Elsewhere

\* A calm change is one elsewhere.
LEMMA CalmElsewhere == ASSUME NEW S, NEW T, NEW i, Calm(S, T) PROVE Elsewhere(S, T, i)
<1>1. <<>> \in Seq(LportMsg) /\ S.queue \o <<>> = S.queue /\ \A k \in 1..Len(<<>>) : FALSE
  BY QueueTyped DEF Calm
<1>2. \E s \in Seq(LportMsg) : T.queue = S.queue \o s /\ \A k \in 1..Len(s) : s[k].iface = i
  BY <1>1 DEF Calm
<1>. QED
  BY <1>2 DEF Calm, Elsewhere, SameMarks

\* The entry of i changes, or its flags in the row, and one thing may be said of it.
LEMMA EntryElsewhere ==
    ASSUME NEW S \in CState, NEW T \in CState, NEW i \in Ifaces, SameLags(S, T),
           \A q \in Lags : \A j \in Ifaces :
               j # i => (j \in T.ports[q].eligible <=> j \in S.ports[q].eligible),
           \A j \in Ifaces : j # i => T.ifs[j] = S.ifs[j] /\ T.hw[j] = S.hw[j],
           NEW m \in LportMsg, m.iface = i, T.queue \in {S.queue, S.queue \o <<m>>}
    PROVE  Elsewhere(S, T, i)
<1>1. /\ <<>> \in Seq(LportMsg) /\ S.queue \o <<>> = S.queue /\ \A k \in 1..Len(<<>>) : FALSE
      /\ <<m>> \in Seq(LportMsg) /\ \A k \in 1..Len(<<m>>) : <<m>>[k] = m
  BY QueueTyped
<1>2. \E s \in Seq(LportMsg) : T.queue = S.queue \o s /\ \A k \in 1..Len(s) : s[k].iface = i
  <2>1. CASE T.queue = S.queue
    BY <1>1, <2>1
  <2>2. CASE T.queue = S.queue \o <<m>>
    BY <1>1, <2>2
  <2>. QED
    BY <2>1, <2>2
<1>. QED
  BY <1>2 DEF Elsewhere

\* set_interface_lag_eligibility does this, or nothing.
LEMMA SetEligibilityDoes ==
    ASSUME NEW S \in CState, NEW p \in Lags, NEW i \in Ifaces, NEW e \in BOOLEAN,
           NEW T, T = set_interface_lag_eligibility(S, p, i, e)
    PROVE  IF e = S.ifs[i].eligible THEN T = S ELSE Settled(S, T, p, i, e)
<1>0. T \in CState
  BY SetEligibilityTalks DEF Talks
<1>1. CASE e = S.ifs[i].eligible
  BY <1>1 DEF set_interface_lag_eligibility
<1>2. CASE e # S.ifs[i].eligible
  <2>. DEFINE P == S.ports[p]
              f == IF IsDynamic(P)
                   THEN [S.ifs[i] EXCEPT !.enabled = e, !.fast = P.fast,
                                         !.active = P.mode = "active"]
                   ELSE S.ifs[i]
              h == IF IsDynamic(P) /\ e THEN S.hw[i] ELSE [rx |-> e, tx |-> e]
              R == [S EXCEPT !.ifs[i] = f, !.hw[i] = h]
              c == IsDynamic(P) /\ (i \in P.cfg \/ i \notin recent)
              m == ConfigLport(R, i)
              U == IF c THEN Send(R, <<m>>) ELSE R
              V == [U EXCEPT !.ifs[i].eligible = e,
                             !.ports[p].eligible = IF e THEN @ \cup {i} ELSE @ \ {i}]
  <2>1. T = V
    BY <1>2 DEF set_interface_lag_eligibility
  <2>2. P \in LagPort /\ S.ifs[i] \in Iface /\ S.hw[i] \in Flags
    BY DEF CState
  <2>3. /\ f.cached = S.ifs[i].cached /\ f.port = S.ifs[i].port /\ f \in Iface /\ h \in Flags
        /\ f.key = S.ifs[i].key /\ f.link = S.ifs[i].link
        /\ IsDynamic(P) => f.enabled = e /\ f.fast = P.fast /\ f.active = (P.mode = "active")
        /\ ~IsDynamic(P) => f = S.ifs[i]
    <3>. HIDE DEF P
    <3>. QED
      BY <2>2 DEF Iface, Flags, LagPort
  <2>4. /\ R \in CState /\ R.ports = S.ports /\ R.ifs = [S.ifs EXCEPT ![i] = f]
        /\ R.hw = [S.hw EXCEPT ![i] = h] /\ R.queue = S.queue
    <3>. HIDE DEF f, h
    <3>. QED
      BY <2>3 DEF CState
  <2>5. m \in LportMsg
    <3>. HIDE DEF R
    <3>. QED
      BY <2>4, ConfigIsMsg
  <2>6. /\ U.ports = S.ports /\ U.ifs = [S.ifs EXCEPT ![i] = f] /\ U.hw = [S.hw EXCEPT ![i] = h]
        /\ U.queue = IF c THEN S.queue \o <<m>> ELSE S.queue
        /\ DOMAIN U = {"ports", "ifs", "hw", "queue"}
    <3>. HIDE DEF R, m, c
    <3>1. \A s : /\ Send(R, s).ports = R.ports /\ Send(R, s).ifs = R.ifs /\ Send(R, s).hw = R.hw
                 /\ Send(R, s).queue = R.queue \o s
                 /\ DOMAIN Send(R, s) = DOMAIN R /\ DOMAIN R = {"ports", "ifs", "hw", "queue"}
      BY <2>4 DEF Send, CState
    <3>. QED
      BY <2>4, <3>1
  <2>7. /\ V.ports = [S.ports EXCEPT ![p].eligible = IF e THEN @ \cup {i} ELSE @ \ {i}]
        /\ V.ifs = [S.ifs EXCEPT ![i] = [f EXCEPT !.eligible = e]]
        /\ V.hw = [S.hw EXCEPT ![i] = h] /\ V.queue = IF c THEN S.queue \o <<m>> ELSE S.queue
    <3>. HIDE DEF U, f, h, c, m
    <3>1. /\ V.ports = [U.ports EXCEPT ![p].eligible = IF e THEN @ \cup {i} ELSE @ \ {i}]
          /\ V.ifs = [U.ifs EXCEPT ![i].eligible = e]
          /\ V.hw = U.hw /\ V.queue = U.queue
      BY <2>6
    <3>2. S.ifs \in [Ifaces -> Iface]
      BY DEF CState
    <3>. QED
      BY <2>6, <3>1, <3>2
  <2>. HIDE DEF V, R, U
  <2>. DEFINE g == [f EXCEPT !.eligible = e]
  <2>8. /\ g.eligible = e /\ g.port = f.port /\ g.cached = f.cached /\ g.enabled = f.enabled
        /\ g.key = f.key /\ g.link = f.link /\ g.fast = f.fast /\ g.active = f.active
    <3>. HIDE DEF f
    <3>. QED
      BY <2>3 DEF Iface
  <2>9. S.ports \in [Lags -> LagPort] /\ S.ifs \in [Ifaces -> Iface] /\ S.hw \in [Ifaces -> Flags]
    BY DEF CState
  <2>10. SameLags(S, T)
    <3>. DEFINE Q == [S.ports[p] EXCEPT !.eligible = IF e THEN @ \cup {i} ELSE @ \ {i}]
    <3>1. T.ports = [S.ports EXCEPT ![p] = Q]
      BY <2>1, <2>7, <2>9
    <3>2. /\ Q.cached = S.ports[p].cached /\ Q.cfg = S.ports[p].cfg /\ Q.mode = S.ports[p].mode
          /\ Q.sys = S.ports[p].sys /\ Q.fast = S.ports[p].fast
          /\ Q.fallback = S.ports[p].fallback /\ Q.participants = S.ports[p].participants
      BY <2>2 DEF LagPort
    <3>. HIDE DEF Q
    <3>3. \A q \in Lags : T.ports[q] = IF q = p THEN Q ELSE S.ports[q]
      BY <2>9, <3>1
    <3>. QED
      BY <3>2, <3>3 DEF SameLags
  <2>11. Marked(S, T, p, i, e)
    BY <1>2, SetEligibilityMarks
  <2>. HIDE DEF g, f, h, m, c
  <2>12. /\ T.ifs[i] = g /\ T.hw[i] = h
         /\ \A j \in Ifaces : j # i => T.ifs[j] = S.ifs[j] /\ T.hw[j] = S.hw[j]
    BY <2>1, <2>7, <2>9 DEF g
  <2>13. m = ConfigLport(T, i)
    <3>1. R.ifs[i] = f /\ R.ports = S.ports
      BY <2>4, <2>9
    <3>2. CASE f.port = NoLag
      BY <2>8, <2>12, <3>1, <3>2 DEF ConfigLport, m
    <3>3. CASE f.port # NoLag
      <4>1. f.port \in Lags
        BY <2>3, <3>3 DEF Iface
      <4>2. T.ports[f.port].mode = S.ports[f.port].mode /\ T.ports[f.port].sys = S.ports[f.port].sys
        BY <2>10, <4>1 DEF SameLags
      <4>. QED
        BY <2>8, <2>12, <3>1, <4>2 DEF ConfigLport, m, IsDynamic
    <3>. QED
      BY <3>2, <3>3
  <2>14. m.iface = i
    BY DEF m, ConfigLport
  <2>15. Elsewhere(S, T, i)
    <3>1. ASSUME NEW q \in Lags, NEW j \in Ifaces, j # i
          PROVE  j \in T.ports[q].eligible <=> j \in S.ports[q].eligible
      <4>1. T.ports[q].eligible = IF q # p THEN S.ports[q].eligible
                                  ELSE IF e THEN S.ports[q].eligible \cup {i}
                                  ELSE S.ports[q].eligible \ {i}
        BY <2>11 DEF Marked
      <4>. QED
        BY <3>1, <4>1
    <3>2. T.queue \in {S.queue, S.queue \o <<m>>}
      BY <2>1, <2>7
    <3>. QED
      BY <1>0, <2>5, <2>10, <2>12, <2>14, <3>1, <3>2, EntryElsewhere
  <2>16. CASE IsDynamic(P)
    <3>1. T.ifs[i].enabled = e /\ T.ifs[i].fast = P.fast /\ T.ifs[i].active = (P.mode = "active")
      BY <2>3, <2>8, <2>12, <2>16
    <3>2. e => T.hw[i] = S.hw[i]
      BY <2>12, <2>16 DEF h
    <3>3. i \in P.cfg \/ i \notin recent => T.queue = S.queue \o <<ConfigLport(T, i)>>
      BY <2>1, <2>7, <2>13, <2>16 DEF c
    <3>. QED
      BY <1>2, <2>3, <2>8, <2>11, <2>12, <2>15, <2>16, <3>1, <3>2, <3>3 DEF Settled
  <2>17. CASE ~IsDynamic(P)
    <3>1. /\ T.ifs[i].enabled = S.ifs[i].enabled /\ T.ifs[i].fast = S.ifs[i].fast
          /\ T.ifs[i].active = S.ifs[i].active
      BY <2>3, <2>8, <2>12, <2>17
    <3>2. T.hw[i] = [rx |-> e, tx |-> e]
      BY <2>12, <2>17 DEF h
    <3>3. T.queue = S.queue
      BY <2>1, <2>7, <2>17 DEF c
    <3>. QED
      BY <1>2, <2>3, <2>8, <2>11, <2>12, <2>15, <2>17, <3>1, <3>2, <3>3 DEF Settled
  <2>. QED
    BY <2>16, <2>17
<1>. QED
  BY <1>1, <1>2

\* Nothing but a speed before, and it is the same change.
LEMMA CalmSettled ==
    ASSUME NEW R, NEW S, NEW T, NEW p \in Lags, NEW i, NEW e, Calm(R, S), Settled(S, T, p, i, e)
    PROVE  Settled(R, T, p, i, e)
<1>1. Elsewhere(R, T, i)
  BY CalmElsewhere, ElsewhereTransitive DEF Settled
<1>2. Marked(R, T, p, i, e)
  BY DEF Calm, SameMarks, Settled, Marked
<1>3. /\ S.ports[p].mode = R.ports[p].mode /\ S.ports[p].fast = R.ports[p].fast
      /\ S.ports[p].cfg = R.ports[p].cfg /\ S.ifs = R.ifs /\ S.hw = R.hw /\ S.queue = R.queue
  BY DEF Calm, SameLags
<1>. QED
  BY <1>1, <1>2, <1>3 DEF Settled, IsDynamic

\* update_interface_lag_eligibility, for an interface that has a key.
LEMMA UpdateEligibilityDoes ==
    ASSUME NEW S \in CState, NEW i \in Ifaces, lag_id \in [Lags -> 0..MaxLagId],
           S.ifs[i].key # NoLag, NEW p \in Lags, p = S.ifs[i].port,
           NEW T, T = update_interface_lag_eligibility(S, i)
    PROVE  \E e \in BOOLEAN :
              /\ e = new_eligible(S, i)
              /\ e => i \in S.ports[p].cfg
              /\ i \in S.ports[p].cfg /\ IsDynamic(S.ports[p]) => e
              /\ IF e # (i \in S.ports[p].eligible) /\ e # S.ifs[i].eligible
                 THEN Settled(S, T, p, i, e) ELSE Calm(S, T)
<1>1. p # NoLag /\ S.ifs[i] \in Iface /\ S.ports[p] \in LagPort
  BY ConfigAssumption DEF NoLag, CState
<1>. DEFINE v == lag_member_speed(S, i)
            e == new_eligible(S, i)
            R == [S EXCEPT !.ports[p].speed = v,
                           !.ifs[i].key = IF @ = NoLag THEN lag_id[p] ELSE @]
            Q == [S.ports[p] EXCEPT !.speed = v]
<1>2. v \in Nat /\ e \in BOOLEAN
  BY EligibilityValues
<1>3. e => i \in S.ports[p].cfg
  BY DEF new_eligible
<1>4. i \in S.ports[p].cfg /\ IsDynamic(S.ports[p]) => e
  BY DEF new_eligible
<1>. HIDE DEF v, e
<1>5. S.ports \in [Lags -> LagPort] /\ S.ifs \in [Ifaces -> Iface]
  BY DEF CState
<1>6. [S.ifs[i] EXCEPT !.key = IF @ = NoLag THEN lag_id[p] ELSE @] = S.ifs[i]
  BY <1>1 DEF Iface
<1>7. Q \in LagPort
  BY <1>1, <1>2 DEF LagPort
<1>8. R = [S EXCEPT !.ports[p] = Q, !.ifs[i] = S.ifs[i]]
  BY <1>6
<1>9. /\ R \in CState /\ R.ports = [S.ports EXCEPT ![p] = Q] /\ R.ifs = S.ifs
      /\ R.hw = S.hw /\ R.queue = S.queue
  <2>. HIDE DEF Q, R
  <2>. QED
    BY <1>5, <1>7, <1>8 DEF CState
<1>10. Calm(S, R)
  <2>1. /\ Q.cached = S.ports[p].cached /\ Q.cfg = S.ports[p].cfg /\ Q.mode = S.ports[p].mode
        /\ Q.sys = S.ports[p].sys /\ Q.fast = S.ports[p].fast /\ Q.eligible = S.ports[p].eligible
        /\ Q.fallback = S.ports[p].fallback /\ Q.participants = S.ports[p].participants
    BY <1>1 DEF LagPort
  <2>. HIDE DEF Q, R
  <2>2. \A q \in Lags : R.ports[q] = IF q = p THEN Q ELSE S.ports[q]
    BY <1>5, <1>9
  <2>3. SameLags(S, R)
    BY <2>1, <2>2 DEF SameLags
  <2>4. SameMarks(S, R)
    BY <1>9, <2>1, <2>2 DEF SameMarks
  <2>. QED
    BY <1>9, <2>3, <2>4 DEF Calm
<1>. HIDE DEF R
<1>11. T = IF e # (i \in S.ports[p].eligible)
           THEN set_interface_lag_eligibility(R, p, i, e) ELSE R
  BY <1>1 DEF update_interface_lag_eligibility, EligibilityChanges, R, v, e
<1>12. IF e # (i \in S.ports[p].eligible) /\ e # S.ifs[i].eligible
       THEN Settled(S, T, p, i, e) ELSE Calm(S, T)
  <2>1. CASE e = (i \in S.ports[p].eligible)
    BY <1>2, <1>10, <1>11, <2>1
  <2>2. CASE e # (i \in S.ports[p].eligible)
    <3>1. T = set_interface_lag_eligibility(R, p, i, e)
      BY <1>11, <2>2
    <3>2. IF e = R.ifs[i].eligible THEN T = R ELSE Settled(R, T, p, i, e)
      BY <1>2, <1>9, <3>1, SetEligibilityDoes
    <3>3. R.ifs[i].eligible = S.ifs[i].eligible
      BY <1>9
    <3>4. CASE e = S.ifs[i].eligible
      BY <1>10, <3>2, <3>3, <3>4
    <3>5. CASE e # S.ifs[i].eligible
      BY <1>10, <2>2, <3>2, <3>3, <3>5, CalmSettled
    <3>. QED
      BY <3>4, <3>5
  <2>. QED
    BY <2>1, <2>2
<1>. QED
  BY <1>2, <1>3, <1>4, <1>12 DEF e
-----------------------------------------------------------------------------
(* What the main thread has said of a port, and what it knows. *)

\* LACP is to run on i as a member of q.
RunsIn(S, i, q) == i \in S.ports[q].eligible /\ IsDynamic(S.ports[q])

\* An eligible interface is in the set of one LAG, the others are in none.
ListedOnce(S, i) ==
    /\ \A q \in Lags : i \in S.ports[q].eligible =>
          /\ S.ifs[i].eligible
          /\ \A r \in Lags : i \in S.ports[r].eligible => q = r
    /\ S.ifs[i].eligible => \E q \in Lags : i \in S.ports[q].eligible

\* The flags lacp_state and "active" follow.
EnabledRuns(S, i) ==
    /\ S.ifs[i].enabled <=> \E q \in Lags : RunsIn(S, i, q)
    /\ \A q \in Lags : RunsIn(S, i, q) => S.ifs[i].active = (S.ports[q].mode = "active")

\* Port l of i will run if lacp_state says so, and then with these settings.
Told(S, l, i) ==
    /\ LastWord(S.queue, l, i, "up", S.ifs[i].enabled)
    /\ S.ifs[i].enabled =>
          /\ LastWord(S.queue, l, i, "key", S.ifs[i].key)
          /\ LastWord(S.queue, l, i, "active", S.ifs[i].active)
          /\ LastWord(S.queue, l, i, "fast", S.ifs[i].fast)
          /\ LastWord(S.queue, l, i, "link", S.ifs[i].link)
          /\ S.ifs[i].port \in Lags
          /\ LastWord(S.queue, l, i, "sys", S.ports[S.ifs[i].port].sys)

\* It will have fallback only if its LAG has, or if it is about to leave that LAG.
FallbackTold(S, l, i) ==
    S.ifs[i].enabled =>
        \/ LastWord(S.queue, l, i, "fallback", FALSE)
        \/ /\ LastWord(S.queue, l, i, "fallback", TRUE)
           /\ \E q \in Lags : RunsIn(S, i, q) /\ (S.ports[q].fallback \/ S.ifs[i].port # q)

\* The port will be stopped or started anew.
ResetPends(q, i) == \E k \in 1..Len(q) : Affects(q[k], i, "up")

\* Call c is about to write for i.
Writes(c, i, kind) == c.kind = kind /\ c.iface = i /\ c.at = "write"

\* A port in a trunk is enabled in hardware, or will be, or will leave.
Served(S, l, c, i) ==
    /\ l.trunk # 0 => S.hw[i].rx \/ ResetPends(S.queue, i) \/ Writes(c, i, "attach")
    /\ l.egress => S.hw[i].tx \/ ResetPends(S.queue, i) \/ Writes(c, i, "egress")

\* All of it.
Sound(S, l, c, i) ==
    /\ ListedOnce(S, i) /\ EnabledRuns(S, i)
    /\ Told(S, l, i) /\ FallbackTold(S, l, i) /\ Served(S, l, c, i)

\* A reset that pends still does when more is said.
LEMMA ResetStillPends ==
    ASSUME NEW q \in Seq(Message), NEW s \in Seq(Message), NEW i,
           ResetPends(q, i) \/ ResetPends(s, i)
    PROVE  ResetPends(q \o s, i)
<1>1. /\ Len(q \o s) = Len(q) + Len(s) /\ Len(q) \in Nat /\ Len(s) \in Nat
      /\ \A k \in 1..Len(q) : (q \o s)[k] = q[k]
      /\ \A k \in 1..Len(s) : (q \o s)[Len(q) + k] = s[k]
  OBVIOUS
<1>2. CASE ResetPends(q, i)
  <2>1. PICK k \in 1..Len(q) : Affects(q[k], i, "up")
    BY <1>2 DEF ResetPends
  <2>2. k \in 1..Len(q \o s) /\ Affects((q \o s)[k], i, "up")
    BY <1>1, <2>1
  <2>. QED
    BY <2>2 DEF ResetPends
<1>3. CASE ResetPends(s, i)
  <2>1. PICK k \in 1..Len(s) : Affects(s[k], i, "up")
    BY <1>3 DEF ResetPends
  <2>2. Len(q) + k \in 1..Len(q \o s) /\ Affects((q \o s)[Len(q) + k], i, "up")
    BY <1>1, <2>1
  <2>. QED
    BY <2>2 DEF ResetPends
<1>. QED
  BY <1>2, <1>3

\* What is said of one interface is nothing about another.
LEMMA WordsElsewhere ==
    ASSUME NEW S, NEW T, NEW i, NEW j \in Ifaces, j # i, Elsewhere(S, T, i), NEW l
    PROVE  /\ \A f, v : LastWord(S.queue, l, j, f, v) => LastWord(T.queue, l, j, f, v)
           /\ ResetPends(S.queue, j) => ResetPends(T.queue, j)
<1>1. PICK s \in Seq(LportMsg) : T.queue = S.queue \o s /\ \A k \in 1..Len(s) : s[k].iface = i
  BY DEF Elsewhere
<1>2. s \in Seq(Message) /\ S.queue \in Seq(Message)
  <2>1. S.queue \in Seq(Message)
    BY QueueTyped DEF Elsewhere
  <2>2. LportMsg \subseteq Message
    BY DEF Message
  <2>. QED
    BY <2>1, <2>2
<1>3. \A k \in 1..Len(s) : \A f : ~Affects(s[k], j, f)
  BY <1>1 DEF Affects
<1>4. ASSUME NEW f, NEW v, LastWord(S.queue, l, j, f, v) PROVE LastWord(T.queue, l, j, f, v)
  BY <1>1, <1>2, <1>3, <1>4, MoreWords
<1>5. ResetPends(S.queue, j) => ResetPends(T.queue, j)
  BY <1>1, <1>2, ResetStillPends
<1>. QED
  BY <1>4, <1>5

\* What happens to one interface leaves the others sound.
LEMMA SoundElsewhere ==
    ASSUME NEW S, NEW T, NEW i, NEW j \in Ifaces, j # i, Elsewhere(S, T, i),
           NEW l, NEW c, Sound(S, l, c, j)
    PROVE  Sound(T, l, c, j)
<1>1. /\ \A q \in Lags : /\ j \in T.ports[q].eligible <=> j \in S.ports[q].eligible
                         /\ T.ports[q].mode = S.ports[q].mode /\ T.ports[q].sys = S.ports[q].sys
                         /\ T.ports[q].fallback = S.ports[q].fallback
      /\ T.ifs[j] = S.ifs[j] /\ T.hw[j] = S.hw[j]
  BY DEF Elsewhere, SameLags
<1>2. \A q \in Lags : RunsIn(T, j, q) <=> RunsIn(S, j, q)
  BY <1>1 DEF RunsIn, IsDynamic
<1>3. ListedOnce(T, j)
  BY <1>1 DEF Sound, ListedOnce
<1>4. EnabledRuns(T, j)
  BY <1>1, <1>2 DEF Sound, EnabledRuns
<1>5. Told(T, l, j)
  <2>1. \A f, v : LastWord(S.queue, l, j, f, v) => LastWord(T.queue, l, j, f, v)
    BY WordsElsewhere
  <2>. QED
    BY <1>1, <2>1 DEF Sound, Told
<1>6. FallbackTold(T, l, j)
  <2>1. \/ ~S.ifs[j].enabled
        \/ LastWord(S.queue, l, j, "fallback", FALSE)
        \/ /\ LastWord(S.queue, l, j, "fallback", TRUE)
           /\ \E q \in Lags : RunsIn(S, j, q) /\ (S.ports[q].fallback \/ S.ifs[j].port # q)
    BY DEF Sound, FallbackTold
  <2>. QED
    BY <1>1, <1>2, <2>1, WordsElsewhere DEF FallbackTold
<1>7. Served(T, l, c, j)
  BY <1>1, WordsElsewhere DEF Sound, Served
<1>. QED
  BY <1>3, <1>4, <1>5, <1>6, <1>7 DEF Sound

\* A calm change leaves every interface sound.
LEMMA SoundCalm ==
    ASSUME NEW S, NEW T, Calm(S, T), NEW j \in Ifaces, NEW l, NEW c, Sound(S, l, c, j)
    PROVE  Sound(T, l, c, j)
<1>1. /\ \A q \in Lags : /\ T.ports[q].eligible = S.ports[q].eligible
                         /\ T.ports[q].mode = S.ports[q].mode /\ T.ports[q].sys = S.ports[q].sys
                         /\ T.ports[q].fallback = S.ports[q].fallback
      /\ T.ifs = S.ifs /\ T.hw = S.hw /\ T.queue = S.queue
  BY DEF Calm, SameLags, SameMarks
<1>2. \A q \in Lags : RunsIn(T, j, q) <=> RunsIn(S, j, q)
  BY <1>1 DEF RunsIn, IsDynamic
<1>3. ListedOnce(T, j)
  BY <1>1 DEF Sound, ListedOnce
<1>4. EnabledRuns(T, j)
  BY <1>1, <1>2 DEF Sound, EnabledRuns
<1>5. Told(T, l, j)
  BY <1>1 DEF Sound, Told
<1>6. FallbackTold(T, l, j)
  BY <1>1, <1>2 DEF Sound, FallbackTold
<1>7. Served(T, l, c, j)
  BY <1>1 DEF Sound, Served
<1>. QED
  BY <1>3, <1>4, <1>5, <1>6, <1>7 DEF Sound

\* send_config_lport_msg says everything.
LEMMA ConfigTells ==
    ASSUME NEW S \in CState, NEW T \in CState, NEW i \in Ifaces, NEW l,
           T.queue = S.queue \o <<ConfigLport(T, i)>>,
           T.ifs[i].enabled => T.ifs[i].port \in Lags /\ IsDynamic(T.ports[T.ifs[i].port])
    PROVE  Told(T, l, i) /\ FallbackTold(T, l, i) /\ ResetPends(T.queue, i)
<1>. DEFINE m == ConfigLport(T, i)
<1>1. m \in LportMsg /\ m \in Message /\ S.queue \in Seq(Message) /\ T.ifs[i] \in Iface
  <2>1. m \in LportMsg
    BY ConfigIsMsg
  <2>2. T.ifs[i] \in Iface
    BY DEF CState
  <2>. QED
    BY <2>1, <2>2, QueueTyped DEF Message
<1>2. /\ m.type = "config" /\ m.iface = i /\ m.enabled = T.ifs[i].enabled /\ m.key = T.ifs[i].key
      /\ m.active = T.ifs[i].active /\ m.fast = T.ifs[i].fast /\ m.link = T.ifs[i].link
  BY DEF ConfigLport
<1>3. T.ifs[i].enabled => m.sys = T.ports[T.ifs[i].port].sys
  BY ConfigAssumption DEF ConfigLport, NoLag
<1>. HIDE DEF m
<1>4. \A f : Affects(m, i, f)
  BY <1>1, <1>2 DEF Affects
<1>5. \A f : LastWord(S.queue \o <<m>>, l, i, f, Says(m, f))
  BY <1>1, <1>4, OneMoreWord
<1>6. Says(m, "up") = T.ifs[i].enabled
  BY <1>1, <1>2 DEF Says, Configured, NoLport, Iface
<1>7. T.ifs[i].enabled =>
         /\ Says(m, "key") = T.ifs[i].key /\ Says(m, "active") = T.ifs[i].active
         /\ Says(m, "fast") = T.ifs[i].fast /\ Says(m, "link") = T.ifs[i].link
         /\ Says(m, "sys") = T.ports[T.ifs[i].port].sys /\ Says(m, "fallback") = FALSE
  BY <1>2, <1>3 DEF Says, Configured
<1>8. \A f : LastWord(T.queue, l, i, f, Says(m, f))
  BY <1>5 DEF m
<1>9. Told(T, l, i)
  <2>1. LastWord(T.queue, l, i, "up", T.ifs[i].enabled)
    BY <1>6, <1>8
  <2>2. ASSUME T.ifs[i].enabled
        PROVE  /\ LastWord(T.queue, l, i, "key", T.ifs[i].key)
               /\ LastWord(T.queue, l, i, "active", T.ifs[i].active)
               /\ LastWord(T.queue, l, i, "fast", T.ifs[i].fast)
               /\ LastWord(T.queue, l, i, "link", T.ifs[i].link)
               /\ LastWord(T.queue, l, i, "sys", T.ports[T.ifs[i].port].sys)
    BY <1>7, <1>8, <2>2
  <2>. QED
    BY <2>1, <2>2 DEF Told
<1>10. FallbackTold(T, l, i)
  BY <1>7, <1>8 DEF FallbackTold
<1>11. ResetPends(T.queue, i)
  <2>1. <<m>> \in Seq(Message) /\ 1 \in 1..Len(<<m>>) /\ <<m>>[1] = m
    BY <1>1
  <2>2. ResetPends(<<m>>, i)
    BY <1>4, <2>1 DEF ResetPends
  <2>. QED
    BY <1>1, <2>1, <2>2, ResetStillPends DEF m
<1>. QED
  BY <1>9, <1>10, <1>11

\* A port that will not run and is not to be reset does not run, and is in no trunk.
LEMMA DisabledIsDown ==
    ASSUME NEW S, NEW l, IsLport(l), NEW i, Told(S, l, i), S.ifs[i].enabled = FALSE,
           ~ResetPends(S.queue, i)
    PROVE  ~l.up /\ l.trunk = 0 /\ ~l.egress
<1>1. l["up"] = FALSE
  BY DEF Told, LastWord, ResetPends
<1>. QED
  BY <1>1 DEF IsLport

\* Becoming eligible or not is sound: it happens where the interface is, or was.
LEMMA SoundSettled ==
    ASSUME NEW S, NEW T, NEW p \in Lags, NEW i \in Ifaces, NEW e \in BOOLEAN,
           Settled(S, T, p, i, e), e # S.ifs[i].eligible,
           IF e THEN S.ifs[i].port = p ELSE i \in S.ports[p].eligible,
           i \in S.ports[p].cfg \/ i \notin recent,
           NEW l, IsLport(l), NEW c, Sound(S, l, c, i)
    PROVE  Sound(T, l, c, i)
<1>1. /\ S \in CState /\ T \in CState /\ T.ifs[i] \in Iface /\ S.ifs[i] \in Iface
      /\ T.ifs[i].enabled \in BOOLEAN /\ S.ifs[i].enabled \in BOOLEAN
  BY DEF Settled, Elsewhere, CState, Iface
<1>2. /\ \A q \in Lags : /\ T.ports[q].mode = S.ports[q].mode /\ T.ports[q].sys = S.ports[q].sys
                         /\ T.ports[q].fallback = S.ports[q].fallback
                         /\ IsDynamic(T.ports[q]) = IsDynamic(S.ports[q])
  BY DEF Settled, Elsewhere, SameLags, IsDynamic
<1>3. T.ifs[i].eligible = e
  BY DEF Settled, Marked
<1>4. \A q \in Lags : i \in T.ports[q].eligible <=> e /\ q = p
  <2>1. ASSUME NEW q \in Lags
        PROVE  i \in T.ports[q].eligible <=> IF q # p THEN i \in S.ports[q].eligible ELSE e
    <3>1. T.ports[q].eligible = IF q # p THEN S.ports[q].eligible
                                ELSE IF e THEN S.ports[q].eligible \cup {i}
                                ELSE S.ports[q].eligible \ {i}
      BY DEF Settled, Marked
    <3>. QED
      BY <3>1
  <2>2. \A q \in Lags : q # p => i \notin S.ports[q].eligible
    BY <1>1 DEF Sound, ListedOnce, Iface
  <2>. QED
    BY <2>1, <2>2
<1>5. ListedOnce(T, i)
  BY <1>3, <1>4 DEF ListedOnce
<1>6. \A q \in Lags : RunsIn(T, i, q) <=> e /\ q = p /\ IsDynamic(S.ports[p])
  BY <1>2, <1>4 DEF RunsIn
<1>7. ~IsDynamic(S.ports[p]) => S.ifs[i].enabled = FALSE
  <2>1. SUFFICES ASSUME ~IsDynamic(S.ports[p]) PROVE \A q \in Lags : ~RunsIn(S, i, q)
    BY <1>1 DEF Sound, EnabledRuns
  <2>2. CASE e
    BY <1>1, <2>2 DEF Sound, ListedOnce, RunsIn, Iface
  <2>3. CASE ~e
    BY <2>1, <2>3 DEF Sound, ListedOnce, RunsIn
  <2>. QED
    BY <2>2, <2>3
<1>8. EnabledRuns(T, i)
  <2>1. CASE IsDynamic(S.ports[p])
    BY <1>2, <1>6, <2>1 DEF EnabledRuns, Settled
  <2>2. CASE ~IsDynamic(S.ports[p])
    BY <1>6, <1>7, <2>2 DEF EnabledRuns, Settled
  <2>. QED
    BY <2>1, <2>2
<1>9. CASE IsDynamic(S.ports[p])
  <2>1. T.queue = S.queue \o <<ConfigLport(T, i)>>
    BY <1>9 DEF Settled
  <2>2. T.ifs[i].enabled => T.ifs[i].port \in Lags /\ IsDynamic(T.ports[T.ifs[i].port])
    BY <1>2, <1>9 DEF Settled
  <2>3. Told(T, l, i) /\ FallbackTold(T, l, i) /\ ResetPends(T.queue, i)
    BY <1>1, <2>1, <2>2, ConfigTells
  <2>4. Served(T, l, c, i)
    BY <2>3 DEF Served
  <2>. QED
    BY <1>5, <1>8, <2>3, <2>4 DEF Sound
<1>10. CASE ~IsDynamic(S.ports[p])
  <2>1. S.ifs[i].enabled = FALSE /\ T.ifs[i].enabled = FALSE /\ T.queue = S.queue
    BY <1>7, <1>10 DEF Settled
  <2>2. Told(T, l, i) /\ FallbackTold(T, l, i)
    BY <2>1 DEF Sound, Told, FallbackTold
  <2>3. Served(T, l, c, i)
    <3>1. CASE ResetPends(S.queue, i)
      BY <2>1, <3>1 DEF Served
    <3>2. CASE ~ResetPends(S.queue, i)
      <4>1. l.trunk = 0 /\ ~l.egress
        BY <2>1, <3>2, DisabledIsDown DEF Sound
      <4>. QED
        BY <4>1 DEF Served
    <3>. QED
      BY <3>1, <3>2
  <2>. QED
    BY <1>5, <1>8, <2>2, <2>3 DEF Sound
<1>. QED
  BY <1>9, <1>10
-----------------------------------------------------------------------------
(* The tables and the course of a run. *)

\* lacpd has still to compare LAG p with its row.
Pends(p) ==
    IF task.at = "idle" THEN p \in changed.ports
    ELSE p \in task.ports \/ (task.at \in PortSteps /\ p = task.port)

\* It has still to look at the row of interface i.
Fresh(i) ==
    IF task.at = "idle" THEN i \in changed.ifs ELSE task.at = "run" /\ i \in task.members

\* A LAG that is not to be compared is cached, and as its row says; the system id and
\* the fallback flag of a static one are not taken over.
RowsTold ==
    /\ \A p \in Lags : rows[p].present /\ ~ports[p].cached => Pends(p)
    /\ \A p \in Lags : ports[p].cached /\ rows[p].present /\ ~Pends(p) =>
          /\ ports[p].mode = rows[p].lacp /\ ports[p].fast = rows[p].fast
          /\ rows[p].lacp # "off" =>
                ports[p].sys = rows[p].sys /\ ports[p].fallback = rows[p].fallback
    /\ task.at \in PortSteps =>
          rows[task.port].present /\ ports[task.port].fast = rows[task.port].fast
    /\ task.at \in {"added", "eligible"} => ports[task.port].mode = rows[task.port].lacp

\* The key of a member is its LAG's number; an interface that is not to be looked at has
\* its row's key, if the row has one, and its row's link; members have keys.
KeysTold ==
    /\ \A p \in Lags : \A i \in rows[p].members : keys[i] = p
    /\ \A i \in Ifaces : ifs[i].cached /\ ~Fresh(i) =>
          keys[i] \in {NoLag, ifs[i].key} /\ links[i] = ifs[i].link
    /\ \A q \in Lags : \A i \in ports[q].cfg : ifs[i].key # NoLag

\* A LAG is handled once, and the LAG an interface was added to in this run is past that.
RecentAreDone ==
    /\ task.at = "run" /\ task.members # {} => recent = {}
    /\ task.at \in PortSteps => task.port \notin task.ports
    /\ \A i \in recent : /\ ifs[i].port \notin task.ports
                         /\ task.at \in {"removed", "mode"} => ifs[i].port # task.port

\* When the mode of a LAG changes nobody is eligible in it.
Emptied ==
    /\ task.at = "mode" => ports[task.port].eligible = task.members
    /\ task.at = "added" /\ task.moded => ports[task.port].eligible = {}
    /\ task.at = "eligible" /\ task.moded => ports[task.port].eligible \cap task.members = {}
    /\ task.at \in {"added", "eligible"} /\ task.switched =>
          task.moded /\ IsDynamic(ports[task.port])

Tables == RowsTold /\ KeysTold /\ RecentAreDone /\ Emptied

TablesInv == MembersInv /\ Tables

\* What a step has to leave alone for the tables to be told.
SameTables ==
    /\ UNCHANGED <<rows, keys, links>>
    /\ \A q \in Lags : /\ ports'[q].cached = ports[q].cached /\ ports'[q].mode = ports[q].mode
                       /\ ports'[q].fast = ports[q].fast /\ ports'[q].sys = ports[q].sys
                       /\ ports'[q].fallback = ports[q].fallback
                       /\ ports'[q].cfg \subseteq
                             ports[q].cfg \cup {j \in Ifaces : ifs[j].key # NoLag}
    /\ \A j \in Ifaces : /\ ifs'[j].key = ifs[j].key /\ ifs'[j].link = ifs[j].link
                         /\ ifs'[j].cached = ifs[j].cached

\* A step of the run that forgets nothing.
LEMMA TablesStay ==
    ASSUME TablesInv, SameTables,
           \A p \in Lags : rows[p].present /\ Pends(p) => Pends(p)',
           \A i \in Ifaces : Fresh(i) => Fresh(i)',
           task'.at \in PortSteps => task.at \in PortSteps /\ task'.port = task.port,
           task'.at \in {"added", "eligible"} =>
               task.at \in {"added", "eligible"} \/ ports[task.port].mode = rows[task.port].lacp
    PROVE  RowsTold' /\ KeysTold'
<1>0. task.at \in PortSteps => task.port \in Lags
  BY TypesNow DEF TablesInv, MembersInv
<1>a. {"added", "eligible"} \subseteq PortSteps
  BY DEF PortSteps
<1>1. \A p \in Lags : rows'[p].present /\ ~ports'[p].cached => Pends(p)'
  BY DEF TablesInv, Tables, RowsTold, SameTables
<1>2. ASSUME NEW p \in Lags, ports'[p].cached, rows'[p].present, ~Pends(p)'
      PROVE  /\ ports'[p].mode = rows'[p].lacp /\ ports'[p].fast = rows'[p].fast
             /\ rows'[p].lacp # "off" =>
                   ports'[p].sys = rows'[p].sys /\ ports'[p].fallback = rows'[p].fallback
  BY <1>2 DEF TablesInv, Tables, RowsTold, SameTables
<1>3. task'.at \in PortSteps =>
         rows'[task'.port].present /\ ports'[task'.port].fast = rows'[task'.port].fast
  BY <1>0 DEF TablesInv, Tables, RowsTold, SameTables
<1>4. task'.at \in {"added", "eligible"} => ports'[task'.port].mode = rows'[task'.port].lacp
  BY <1>0, <1>a DEF TablesInv, Tables, RowsTold, SameTables
<1>5. RowsTold'
  BY <1>1, <1>2, <1>3, <1>4 DEF RowsTold
<1>6. \A p \in Lags : \A i \in rows'[p].members : keys'[i] = p
  BY DEF TablesInv, Tables, KeysTold, SameTables
<1>7. ASSUME NEW i \in Ifaces, ifs'[i].cached, ~Fresh(i)'
      PROVE  keys'[i] \in {NoLag, ifs'[i].key} /\ links'[i] = ifs'[i].link
  BY <1>7 DEF TablesInv, Tables, KeysTold, SameTables
<1>8. ASSUME NEW q \in Lags, NEW i \in ports'[q].cfg PROVE ifs'[i].key # NoLag
  <2>1. i \in ports[q].cfg \/ (i \in Ifaces /\ ifs[i].key # NoLag)
    BY DEF SameTables
  <2>2. i \in Ifaces
    BY <2>1, MemberTypes DEF TablesInv, MembersInv
  <2>. QED
    BY <2>1, <2>2 DEF TablesInv, Tables, KeysTold, SameTables
<1>9. KeysTold'
  BY <1>6, <1>7, <1>8 DEF KeysTold
<1>. QED
  BY <1>5, <1>9

\* Only who takes part in a LAG may change.
SameCaches ==
    /\ \A q \in Lags : /\ ports'[q].cached = ports[q].cached /\ ports'[q].mode = ports[q].mode
                       /\ ports'[q].fast = ports[q].fast /\ ports'[q].sys = ports[q].sys
                       /\ ports'[q].fallback = ports[q].fallback
                       /\ ports'[q].cfg = ports[q].cfg /\ ports'[q].eligible = ports[q].eligible
    /\ UNCHANGED <<rows, keys, links, changed, ifs, task, recent>>

\* The protocol thread changes nothing of this.
LEMMA ProtocolSame ==
    ASSUME QueueInv, Receive \/ Machines \/ HardwareCall PROVE SameCaches
<1>1. UNCHANGED <<rows, keys, links, changed, ifs, task, recent>>
  BY DEF Receive, Machines, HardwareCall, Attach, Egress, Detach, CallWrites, CallReports,
         table, cache
<1>2. CASE ports' = ports
  BY <1>1, <1>2 DEF SameCaches
<1>3. CASE CallReports
  <2>1. ASSUME NEW q \in Lags
        PROVE  /\ ports'[q].cached = ports[q].cached /\ ports'[q].mode = ports[q].mode
               /\ ports'[q].fast = ports[q].fast /\ ports'[q].sys = ports[q].sys
               /\ ports'[q].fallback = ports[q].fallback
               /\ ports'[q].cfg = ports[q].cfg /\ ports'[q].eligible = ports[q].eligible
    <3>1. ports[q] \in LagPort
      BY TypesNow
    <3>2. \/ ports'[q] = ports[q]
          \/ \E s : ports'[q] = [ports[q] EXCEPT !.participants = s]
      BY <1>3 DEF CallReports
    <3>. QED
      BY <3>1, <3>2 DEF LagPort
  <2>. QED
    BY <1>1, <2>1 DEF SameCaches
<1>. QED
  BY <1>2, <1>3 DEF Receive, Machines, HardwareCall, Attach, Egress, Detach, CallWrites, cache

\* So it leaves the tables told.
LEMMA ProtocolTables == ASSUME TablesInv, Receive \/ Machines \/ HardwareCall PROVE Tables'
<1>1. SameCaches
  BY ProtocolSame DEF TablesInv, MembersInv
<1>2. SameTables
  BY <1>1 DEF SameCaches, SameTables
<1>3. (\A p \in Lags : Pends(p) => Pends(p)') /\ (\A i \in Ifaces : Fresh(i) => Fresh(i)')
  BY <1>1 DEF SameCaches, Pends, Fresh
<1>4. RowsTold' /\ KeysTold'
  BY <1>1, <1>2, <1>3, TablesStay DEF SameCaches
<1>5. RecentAreDone'
  BY <1>1 DEF SameCaches, TablesInv, Tables, RecentAreDone
<1>6. task.at \in PortSteps => task.port \in Lags
  BY TypesNow DEF TablesInv, MembersInv
<1>7. Emptied'
  BY <1>1, <1>6 DEF SameCaches, TablesInv, Tables, Emptied, PortSteps, IsDynamic
<1>. QED
  BY <1>4, <1>5, <1>7 DEF Tables

\* The run begins, goes from one pass to the next, or ends.
LEMMA PassTables ==
    ASSUME TablesInv, BeginRun \/ EndRun \/ CompareMode \/ StartEligible PROVE Tables'
<1>0. /\ QueueInv /\ task \in Task /\ RowsTold /\ KeysTold /\ RecentAreDone /\ Emptied
      /\ (task.at \in PortSteps => task.port \in Lags)
  BY TypesNow DEF TablesInv, MembersInv, Tables
<1>1. SameTables
  BY DEF BeginRun, EndRun, CompareMode, StartEligible, SameTables, table
<1>2. UNCHANGED <<ports, ifs, rows>>
  BY DEF BeginRun, EndRun, CompareMode, StartEligible, table
<1>3. CASE BeginRun
  <2>1. /\ task.at = "idle" /\ task'.at = "run" /\ task'.members = changed.ifs
        /\ task'.ports = {p \in changed.ports : rows[p].present} /\ UNCHANGED recent
    BY <1>3 DEF BeginRun, Idle
  <2>2. recent = {}
    BY <2>1 DEF TablesInv, MembersInv, Underway, RecentAreHome
  <2>3. RowsTold' /\ KeysTold'
    BY <1>1, <2>1, TablesStay DEF Pends, Fresh, PortSteps
  <2>. QED
    BY <2>1, <2>2, <2>3 DEF Tables, RecentAreDone, Emptied, PortSteps
<1>4. CASE EndRun
  <2>1. /\ task.at = "run" /\ task.members = {} /\ task.ports = {} /\ task'.at = "idle" /\ recent' = {}
    BY <1>4 DEF EndRun, Idle
  <2>2. RowsTold' /\ KeysTold'
    BY <1>1, <2>1, TablesStay DEF Pends, Fresh, PortSteps
  <2>. QED
    BY <2>1, <2>2 DEF Tables, RecentAreDone, Emptied, PortSteps
<1>5. CASE CompareMode
  <2>1. /\ task.at = "removed" /\ task'.port = task.port /\ task'.ports = task.ports
        /\ UNCHANGED recent /\ task.port \in Lags
        /\ \/ /\ task'.at = "mode" /\ task'.members = ports[task.port].eligible
           \/ /\ task'.at = "added" /\ rows[task.port].lacp = ports[task.port].mode
              /\ ~task'.moded /\ ~task'.switched
    BY <1>0, <1>5 DEF CompareMode, ToAdded, Task, PortSteps
  <2>2. RowsTold' /\ KeysTold'
    BY <1>1, <2>1, TablesStay DEF Pends, Fresh, PortSteps
  <2>3. RecentAreDone'
    BY <1>0, <1>2, <2>1 DEF RecentAreDone, PortSteps
  <2>4. Emptied'
    BY <1>2, <2>1 DEF Emptied
  <2>. QED
    BY <2>2, <2>3, <2>4 DEF Tables
<1>6. CASE StartEligible
  <2>1. /\ task.at = "added" /\ task'.port = task.port /\ task'.ports = task.ports
        /\ UNCHANGED recent /\ task.port \in Lags /\ task'.at = "eligible"
        /\ task'.moded = task.moded /\ task'.switched = task.switched
    BY <1>0, <1>6 DEF StartEligible, Task, PortSteps
  <2>2. RowsTold' /\ KeysTold'
    BY <1>1, <2>1, TablesStay DEF Pends, Fresh, PortSteps
  <2>3. RecentAreDone'
    BY <1>0, <1>2, <2>1 DEF RecentAreDone, PortSteps
  <2>4. Emptied'
    BY <1>0, <1>2, <2>1 DEF Emptied, IsDynamic
  <2>. QED
    BY <2>2, <2>3, <2>4 DEF Tables
<1>. QED
  BY <1>3, <1>4, <1>5, <1>6
-----------------------------------------------------------------------------
(* One interface at a time. *)

\* What becomes of the caches is the next state.
LEMMA BecomesState == ASSUME NEW T \in CState, Becomes(T) PROVE State' = T
<1>1. ports' = T.ports /\ ifs' = T.ifs /\ hw' = T.hw /\ queue' = T.queue
  BY DEF Becomes
<1>2. T = [ports |-> T.ports, ifs |-> T.ifs, hw |-> T.hw, queue |-> T.queue]
  BY DEF CState
<1>. QED
  BY <1>1, <1>2 DEF State

\* S with g as the entry of i.
WithEntry(S, i, g) == [S EXCEPT !.ifs[i] = g]

\* The entry of an interface becomes g.
LEMMA EntryTaken ==
    ASSUME NEW S \in CState, NEW i \in Ifaces, NEW g \in Iface
    PROVE  /\ WithEntry(S, i, g) \in CState /\ WithEntry(S, i, g).ports = S.ports
           /\ WithEntry(S, i, g).hw = S.hw /\ WithEntry(S, i, g).queue = S.queue
           /\ WithEntry(S, i, g).ifs[i] = g /\ Elsewhere(S, WithEntry(S, i, g), i)
<1>. DEFINE T == WithEntry(S, i, g)
<1>1. /\ T \in CState /\ T.ports = S.ports /\ T.hw = S.hw /\ T.queue = S.queue
      /\ T.ifs[i] = g /\ \A j \in Ifaces : j # i => T.ifs[j] = S.ifs[j]
  BY DEF CState, WithEntry
<1>. HIDE DEF T
<1>2. SameLags(S, T)
  BY <1>1 DEF SameLags
<1>3. Elsewhere(S, T, i)
  <2>1. <<>> \in Seq(LportMsg) /\ S.queue \o <<>> = S.queue /\ \A k \in 1..Len(<<>>) : FALSE
    BY QueueTyped
  <2>2. \E s \in Seq(LportMsg) : T.queue = S.queue \o s /\ \A k \in 1..Len(s) : s[k].iface = i
    BY <1>1, <2>1
  <2>. QED
    BY <1>1, <1>2, <2>2 DEF Elsewhere
<1>. QED
  BY <1>1, <1>3 DEF T

\* One thing is said of an interface.
LEMMA OneSaid ==
    ASSUME NEW S \in CState, NEW i \in Ifaces, NEW m \in LportMsg, m.iface = i
    PROVE  /\ Send(S, <<m>>) \in CState /\ Send(S, <<m>>).ports = S.ports
           /\ Send(S, <<m>>).ifs = S.ifs /\ Send(S, <<m>>).hw = S.hw
           /\ Send(S, <<m>>).queue = S.queue \o <<m>> /\ Elsewhere(S, Send(S, <<m>>), i)
<1>. DEFINE U == Send(S, <<m>>)
<1>1. <<m>> \in Seq(LportMsg)
  OBVIOUS
<1>2. U \in CState
  BY <1>1, SendTalks DEF Talks
<1>3. U.ports = S.ports /\ U.hw = S.hw /\ U.ifs = S.ifs /\ U.queue = S.queue \o <<m>>
  BY DEF Send, CState
<1>. HIDE DEF U
<1>4. SameLags(S, U)
  BY <1>3 DEF SameLags
<1>5. Elsewhere(S, U, i)
  BY <1>2, <1>3, <1>4, EntryElsewhere
<1>. QED
  BY <1>2, <1>3, <1>5 DEF U

\* update_interface_lag_eligibility changes neither LAG nor key nor link.
SameEntry(f, g) ==
    g.port = f.port /\ g.key = f.key /\ g.link = f.link /\ g.cached = f.cached

\* This is so for every interface that has a key if it has a LAG.
LEMMA UpdateEntry ==
    ASSUME NEW S \in CState, NEW i \in Ifaces, lag_id \in [Lags -> 0..MaxLagId],
           S.ifs[i].port \in Lags => S.ifs[i].key # NoLag,
           NEW T, T = update_interface_lag_eligibility(S, i)
    PROVE  T \in CState /\ Elsewhere(S, T, i) /\ SameEntry(S.ifs[i], T.ifs[i])
<1>1. S.ifs[i].port \in Lags \cup {NoLag}
  BY DEF CState, Iface
<1>2. CASE S.ifs[i].port = NoLag
  <2>1. T = S
    BY <1>2 DEF update_interface_lag_eligibility
  <2>2. Calm(S, S)
    BY DEF Calm, SameLags, SameMarks
  <2>. QED
    BY <2>1, <2>2, CalmElsewhere DEF SameEntry
<1>3. CASE S.ifs[i].port \in Lags
  <2>. DEFINE p == S.ifs[i].port
  <2>1. PICK e \in BOOLEAN : IF e # (i \in S.ports[p].eligible) /\ e # S.ifs[i].eligible
                             THEN Settled(S, T, p, i, e) ELSE Calm(S, T)
    BY <1>3, UpdateEligibilityDoes
  <2>2. CASE Settled(S, T, p, i, e)
    BY <2>2 DEF Settled, SameEntry, Elsewhere
  <2>3. CASE Calm(S, T)
    BY <2>3, CalmElsewhere DEF Calm, SameEntry
  <2>. QED
    BY <2>1, <2>2, <2>3
<1>. QED
  BY <1>1, <1>2, <1>3

\* set_interface_lag_eligibility neither.
LEMMA SetEntry ==
    ASSUME NEW S \in CState, NEW p \in Lags, NEW i \in Ifaces, NEW e \in BOOLEAN,
           NEW T, T = set_interface_lag_eligibility(S, p, i, e)
    PROVE  T \in CState /\ Elsewhere(S, T, i) /\ SameEntry(S.ifs[i], T.ifs[i])
<1>1. IF e = S.ifs[i].eligible THEN T = S ELSE Settled(S, T, p, i, e)
  BY SetEligibilityDoes
<1>2. CASE T = S
  <2>1. Calm(S, S)
    BY DEF Calm, SameLags, SameMarks
  <2>. QED
    BY <1>2, <2>1, CalmElsewhere DEF SameEntry
<1>3. CASE Settled(S, T, p, i, e)
  BY <1>3 DEF Settled, SameEntry, Elsewhere
<1>. QED
  BY <1>1, <1>2, <1>3

\* A step of the run that changes one interface.
LEMMA ElsewhereTables ==
    ASSUME NEW i \in Ifaces, Elsewhere(State, State', i), SameEntry(ifs[i], ifs'[i]),
           UNCHANGED <<rows, keys, links>>
    PROVE  SameTables
<1>1. /\ State.ports = ports /\ State'.ports = ports' /\ State.ifs = ifs /\ State'.ifs = ifs'
  BY DEF State
<1>2. \A q \in Lags : /\ ports'[q].cached = ports[q].cached /\ ports'[q].mode = ports[q].mode
                      /\ ports'[q].fast = ports[q].fast /\ ports'[q].sys = ports[q].sys
                      /\ ports'[q].fallback = ports[q].fallback
                      /\ ports'[q].cfg = ports[q].cfg
  BY <1>1 DEF Elsewhere, SameLags
<1>3. \A j \in Ifaces : j # i => ifs'[j] = ifs[j]
  BY <1>1 DEF Elsewhere
<1>. QED
  BY <1>2, <1>3 DEF SameTables, SameEntry

\* An interface lacpd did not know.
LEMMA NewInterfaceTables == ASSUME TablesInv, NEW i \in Ifaces, add_new_interface(i) PROVE Tables'
<1>1. /\ task.at = "run" /\ i \in task.members /\ task'.at = "run" /\ task'.port = task.port
      /\ task'.ports = task.ports /\ task'.members = task.members \ {i}
  BY WalkTask DEF add_new_interface, TablesInv, MembersInv
<1>2. UNCHANGED <<rows, keys, links, changed, ports, recent>> /\ recent = {}
  BY <1>1 DEF add_new_interface, table, TablesInv, Tables, RecentAreDone
<1>3. /\ \A j \in Ifaces : j # i => ifs'[j] = ifs[j]
      /\ ifs'[i].key = keys[i] /\ ifs'[i].link = links[i] /\ ~ifs[i].cached
  <2>1. ifs \in [Ifaces -> Iface]
    BY TypesNow DEF TablesInv, MembersInv
  <2>. QED
    BY <2>1 DEF add_new_interface, NoIface
<1>4. \A q \in Lags : i \notin ports[q].cfg
  <2>1. ifs[i].port = NoLag
    BY <1>3 DEF TablesInv, MembersInv, Underway, IfacesFirst
  <2>. QED
    BY <1>2, <2>1, ConfigAssumption DEF TablesInv, MembersInv, Belongs, Placed, NoLag
<1>5. RowsTold'
  BY <1>1, <1>2 DEF TablesInv, Tables, RowsTold, Pends, PortSteps
<1>6. KeysTold'
  <2>1. \A j \in Ifaces : j # i /\ Fresh(j) => Fresh(j)'
    BY <1>1 DEF Fresh
  <2>2. \A p \in Lags : \A j \in rows'[p].members : keys'[j] = p
    BY <1>2 DEF TablesInv, Tables, KeysTold
  <2>3. ASSUME NEW j \in Ifaces, ifs'[j].cached, ~Fresh(j)'
        PROVE  keys'[j] \in {NoLag, ifs'[j].key} /\ links'[j] = ifs'[j].link
    <3>1. CASE j = i
      BY <1>2, <1>3, <3>1
    <3>2. CASE j # i
      BY <1>2, <1>3, <2>1, <2>3, <3>2 DEF TablesInv, Tables, KeysTold
    <3>. QED
      BY <3>1, <3>2
  <2>4. ASSUME NEW q \in Lags, NEW j \in ports'[q].cfg PROVE ifs'[j].key # NoLag
    <3>1. j \in Ifaces /\ j # i /\ j \in ports[q].cfg
      BY <1>2, <1>4, <2>4, MemberTypes DEF TablesInv, MembersInv
    <3>. QED
      BY <1>3, <3>1 DEF TablesInv, Tables, KeysTold
  <2>. QED
    BY <2>2, <2>3, <2>4 DEF KeysTold
<1>7. RecentAreDone' /\ Emptied'
  BY <1>1, <1>2 DEF RecentAreDone, Emptied, PortSteps
<1>. QED
  BY <1>5, <1>6, <1>7 DEF Tables

\* A member has a key.
LEMMA MemberHasKey ==
    ASSUME TablesInv, NEW i \in Ifaces, ifs[i].port \in Lags
    PROVE  i \in ports[ifs[i].port].cfg /\ ifs[i].key # NoLag
<1>1. i \in ports[ifs[i].port].cfg
  BY DEF TablesInv, MembersInv, Belongs, Placed
<1>. QED
  BY <1>1 DEF TablesInv, Tables, KeysTold

\* update_interface_cache: the key of the row.
Keyed(i) ==
    IF keys[i] \notin {NoLag, ifs[i].key}
    THEN Send([State EXCEPT !.ifs[i].key = keys[i]],
              <<ConfigLport([State EXCEPT !.ifs[i].key = keys[i]], i)>>)
    ELSE State

\* And its link.
Linked(i) == [Keyed(i) EXCEPT !.ifs[i].link = links[i]]

\* And what follows from that.
Relinked(i) ==
    LET D == update_interface_lag_eligibility(Linked(i), i)
        p == ifs[i].port
    IN  IF ~EligibilityChanges(Linked(i), i) /\ p # NoLag /\ D.ifs[i].eligible /\ IsDynamic(D.ports[p])
        THEN Send(D, <<LinkChange(D.ifs[i], i), LportChange(D.ifs[i], i)>>) ELSE D

\* These are the steps of it.
LEMMA InterfaceInSteps ==
    ASSUME NEW i, update_interface(i)
    PROVE  /\ Walk("run", i) /\ ifs[i].cached
           /\ Becomes(IF links[i] # ifs[i].link THEN Relinked(i) ELSE Keyed(i))
           /\ UNCHANGED <<table, lag_id, pool, recent, proto>>
  BY DEF update_interface, Relinked, Linked, Keyed, State

\* The key is the row's if the row has one.
LEMMA KeyedEntry ==
    ASSUME TablesInv, NEW i \in Ifaces
    PROVE  /\ Keyed(i) \in CState /\ Elsewhere(State, Keyed(i), i)
           /\ Keyed(i).ports = ports /\ Keyed(i).hw = hw
           /\ Keyed(i).ifs[i].key = (IF keys[i] = NoLag THEN ifs[i].key ELSE keys[i])
           /\ Keyed(i).ifs[i].port = ifs[i].port /\ Keyed(i).ifs[i].cached = ifs[i].cached
           /\ Keyed(i).ifs[i].link = ifs[i].link /\ Keyed(i).ifs[i].enabled = ifs[i].enabled
           /\ Keyed(i).ifs[i].active = ifs[i].active /\ Keyed(i).ifs[i].fast = ifs[i].fast
           /\ Keyed(i).ifs[i].eligible = ifs[i].eligible
           /\ Keyed(i) = State \/ Keyed(i).queue = queue \o <<ConfigLport(Keyed(i), i)>>
<1>0. /\ State \in CState /\ ifs[i] \in Iface /\ keys[i] \in Nat
      /\ State.ports = ports /\ State.ifs = ifs /\ State.hw = hw /\ State.queue = queue
  BY TypesNow DEF TablesInv, MembersInv, State
<1>1. CASE keys[i] \in {NoLag, ifs[i].key}
  <2>1. Keyed(i) = State
    BY <1>1 DEF Keyed
  <2>2. Calm(State, State)
    BY <1>0 DEF Calm, SameLags, SameMarks
  <2>3. (IF keys[i] = NoLag THEN ifs[i].key ELSE keys[i]) = ifs[i].key
    BY <1>1
  <2>. QED
    BY <1>0, <2>1, <2>2, <2>3, CalmElsewhere
<1>2. CASE keys[i] \notin {NoLag, ifs[i].key}
  <2>. DEFINE g == [ifs[i] EXCEPT !.key = keys[i]]
              T == WithEntry(State, i, g)
              m == ConfigLport(T, i)
  <2>1. /\ g \in Iface /\ g.key = keys[i] /\ g.port = ifs[i].port /\ g.cached = ifs[i].cached
        /\ g.link = ifs[i].link /\ g.enabled = ifs[i].enabled /\ g.active = ifs[i].active
        /\ g.fast = ifs[i].fast /\ g.eligible = ifs[i].eligible
    BY <1>0 DEF Iface
  <2>2. [State EXCEPT !.ifs[i].key = keys[i]] = T
    BY <1>0 DEF WithEntry
  <2>3. T \in CState
    <3>. HIDE DEF g
    <3>. QED
      BY <1>0, <2>1 DEF CState, WithEntry
  <2>. HIDE DEF T, g
  <2>4. m \in LportMsg /\ m.iface = i
    BY <2>3, ConfigIsMsg DEF ConfigLport
  <2>5. Keyed(i) = Send(T, <<m>>)
    BY <1>2, <2>2 DEF Keyed
  <2>. HIDE DEF m
  <2>6. /\ Keyed(i) \in CState /\ Elsewhere(State, Keyed(i), i) /\ T.ifs[i] = g
        /\ Keyed(i).ports = ports /\ Keyed(i).hw = hw /\ Keyed(i).queue = queue \o <<m>>
        /\ Keyed(i).ifs = T.ifs /\ T.ports = ports
    <3>1. /\ T.ports = State.ports /\ T.ifs[i] = g /\ T.hw = State.hw /\ T.queue = State.queue
          /\ Elsewhere(State, T, i)
      BY <1>0, <2>1, EntryTaken DEF T
    <3>2. /\ Keyed(i) \in CState /\ Keyed(i).ports = T.ports /\ Keyed(i).ifs = T.ifs
          /\ Keyed(i).hw = T.hw /\ Keyed(i).queue = T.queue \o <<m>>
          /\ Elsewhere(T, Keyed(i), i)
      BY <2>3, <2>4, <2>5, OneSaid
    <3>3. Elsewhere(State, Keyed(i), i)
      BY <3>1, <3>2, ElsewhereTransitive
    <3>. QED
      BY <1>0, <3>1, <3>2, <3>3
  <2>7. m = ConfigLport(Keyed(i), i)
    BY <2>6 DEF m, ConfigLport
  <2>8. (IF keys[i] = NoLag THEN ifs[i].key ELSE keys[i]) = keys[i]
    BY <1>2
  <2>9. Keyed(i).ifs[i] = g
    BY <2>6
  <2>10. /\ Keyed(i) \in CState /\ Elsewhere(State, Keyed(i), i)
         /\ Keyed(i).ports = ports /\ Keyed(i).hw = hw
         /\ Keyed(i).queue = queue \o <<ConfigLport(Keyed(i), i)>>
    BY <2>6, <2>7
  <2>. HIDE DEF Keyed
  <2>. QED
    BY <2>1, <2>8, <2>9, <2>10
<1>. QED
  BY <1>1, <1>2

\* The link is the row's.
LEMMA LinkedEntry ==
    ASSUME TablesInv, NEW i \in Ifaces
    PROVE  /\ Linked(i) \in CState /\ Elsewhere(Keyed(i), Linked(i), i)
           /\ Linked(i).ports = ports /\ Linked(i).hw = hw /\ Linked(i).queue = Keyed(i).queue
           /\ Linked(i).ifs[i] = [Keyed(i).ifs[i] EXCEPT !.link = links[i]]
           /\ Linked(i).ifs[i].link = links[i] /\ Linked(i).ifs[i].key = Keyed(i).ifs[i].key
           /\ Linked(i).ifs[i].port = ifs[i].port /\ Linked(i).ifs[i].cached = ifs[i].cached
           /\ Linked(i).ifs[i].enabled = ifs[i].enabled /\ Linked(i).ifs[i].active = ifs[i].active
           /\ Linked(i).ifs[i].fast = ifs[i].fast /\ Linked(i).ifs[i].eligible = ifs[i].eligible
           /\ ifs[i].port \in Lags => /\ i \in ports[ifs[i].port].cfg
                                      /\ Linked(i).ifs[i].key # NoLag
<1>. DEFINE B == Keyed(i)
            g == [B.ifs[i] EXCEPT !.link = links[i]]
<1>1. /\ B \in CState /\ B.ports = ports /\ B.hw = hw /\ B.ifs[i] \in Iface /\ links[i] \in Nat
      /\ B.ifs[i].port = ifs[i].port /\ B.ifs[i].cached = ifs[i].cached
      /\ B.ifs[i].enabled = ifs[i].enabled /\ B.ifs[i].active = ifs[i].active
      /\ B.ifs[i].fast = ifs[i].fast /\ B.ifs[i].eligible = ifs[i].eligible
      /\ B.ifs[i].key = (IF keys[i] = NoLag THEN ifs[i].key ELSE keys[i])
  <2>1. B \in CState
    BY KeyedEntry
  <2>2. links[i] \in Nat
    BY TypesNow DEF TablesInv, MembersInv
  <2>3. B.ifs[i] \in Iface
    BY <2>1 DEF CState
  <2>. QED
    BY <2>1, <2>2, <2>3, KeyedEntry
<1>. HIDE DEF B
<1>2. /\ g \in Iface /\ g.link = links[i] /\ g.port = B.ifs[i].port /\ g.cached = B.ifs[i].cached
      /\ g.key = B.ifs[i].key /\ g.enabled = B.ifs[i].enabled /\ g.active = B.ifs[i].active
      /\ g.fast = B.ifs[i].fast /\ g.eligible = B.ifs[i].eligible
  BY <1>1 DEF Iface
<1>3. Linked(i) = WithEntry(B, i, g)
  BY DEF Linked, B, WithEntry
<1>. HIDE DEF g
<1>5. /\ Linked(i) \in CState /\ Linked(i).ports = B.ports /\ Linked(i).hw = B.hw
      /\ Linked(i).queue = B.queue /\ Linked(i).ifs[i] = g /\ Elsewhere(B, Linked(i), i)
  <2>. DEFINE L == Linked(i)
  <2>1. L = WithEntry(B, i, g)
    BY <1>3
  <2>. HIDE DEF L
  <2>2. /\ L \in CState /\ L.ports = B.ports /\ L.hw = B.hw
        /\ L.queue = B.queue /\ L.ifs[i] = g /\ Elsewhere(B, L, i)
    BY <1>1, <1>2, <2>1, EntryTaken
  <2>. QED
    BY <2>2 DEF L
<1>6. ifs[i].port \in Lags => /\ i \in ports[ifs[i].port].cfg
                              /\ B.ifs[i].key # NoLag
  BY <1>1, MemberHasKey
<1>. QED
  BY <1>1, <1>2, <1>5, <1>6 DEF B, g

\* Two messages.
LEMMA TwoInOne == ASSUME NEW m, NEW n PROVE <<m>> \o <<n>> = <<m, n>>
<1>1. <<m>> \in Seq({m, n}) /\ <<n>> \in Seq({m, n}) /\ <<m, n>> \in Seq({m, n})
  OBVIOUS
<1>2. <<m>> \o <<n>> \in Seq({m, n}) /\ Len(<<m>> \o <<n>>) = 2 /\ Len(<<m, n>>) = 2
  BY <1>1
<1>3. (<<m>> \o <<n>>)[1] = m /\ (<<m>> \o <<n>>)[2] = n
  BY <1>1
<1>4. \A k \in 1..2 : (<<m>> \o <<n>>)[k] = <<m, n>>[k]
  BY <1>3
<1>. QED
  BY <1>1, <1>2, <1>4, SeqEqual

\* Two things are said of the interface.
LEMMA TwoSaid ==
    ASSUME NEW S \in CState, NEW i \in Ifaces, NEW m \in LportMsg, NEW n \in LportMsg,
           m.iface = i, n.iface = i
    PROVE  /\ Send(S, <<m, n>>) \in CState /\ Send(S, <<m, n>>).ports = S.ports
           /\ Send(S, <<m, n>>).ifs = S.ifs /\ Send(S, <<m, n>>).hw = S.hw
           /\ Send(S, <<m, n>>).queue = (S.queue \o <<m>>) \o <<n>>
           /\ Elsewhere(S, Send(S, <<m, n>>), i)
<1>. DEFINE T == Send(S, <<m, n>>)
<1>1. /\ <<m, n>> \in Seq(LportMsg) /\ Len(<<m, n>>) = 2 /\ <<m, n>>[1] = m /\ <<m, n>>[2] = n
  OBVIOUS
<1>2. T \in CState
  BY <1>1, SendTalks DEF Talks
<1>3. T.ports = S.ports /\ T.hw = S.hw /\ T.ifs = S.ifs /\ T.queue = S.queue \o <<m, n>>
  BY DEF Send, CState
<1>. HIDE DEF T
<1>4. \A k \in 1..Len(<<m, n>>) : <<m, n>>[k].iface = i
  BY <1>1
<1>5. SameLags(S, T)
  BY <1>3 DEF SameLags
<1>6. Elsewhere(S, T, i)
  BY <1>1, <1>2, <1>3, <1>4, <1>5 DEF Elsewhere
<1>7. S.queue \o <<m, n>> = (S.queue \o <<m>>) \o <<n>>
  <2>1. /\ S.queue \in Seq(Message) /\ <<m>> \in Seq(Message) /\ <<n>> \in Seq(Message)
        /\ <<m>> \o <<n>> = <<m, n>>
    <3>1. m \in Message /\ n \in Message
      BY DEF Message
    <3>2. <<m>> \in Seq(Message) /\ <<n>> \in Seq(Message) /\ <<m>> \o <<n>> = <<m, n>>
      BY <3>1, TwoInOne
    <3>. QED
      BY <3>2, QueueTyped
  <2>2. (S.queue \o <<m>>) \o <<n>> = S.queue \o (<<m>> \o <<n>>)
    BY <2>1, Associative
  <2>. QED
    BY <2>1, <2>2
<1>. QED
  BY <1>2, <1>3, <1>6, <1>7 DEF T

\* Eligibility, and what is said of the link, leave the entry with its LAG, key and link.
LEMMA RelinkedEntry ==
    ASSUME TablesInv, NEW i \in Ifaces
    PROVE  /\ Relinked(i) \in CState /\ Elsewhere(Linked(i), Relinked(i), i)
           /\ SameEntry(Linked(i).ifs[i], Relinked(i).ifs[i])
<1>. DEFINE L == Linked(i)
            D == update_interface_lag_eligibility(L, i)
            c == ~EligibilityChanges(L, i) /\ ifs[i].port # NoLag /\ D.ifs[i].eligible
                 /\ IsDynamic(D.ports[ifs[i].port])
            m == LinkChange(D.ifs[i], i)
            n == LportChange(D.ifs[i], i)
<1>1. L \in CState /\ L.ifs[i].port = ifs[i].port /\ (L.ifs[i].port \in Lags => L.ifs[i].key # NoLag)
  BY LinkedEntry
<1>2. lag_id \in [Lags -> 0..MaxLagId]
  BY TypesNow DEF TablesInv, MembersInv
<1>3. Relinked(i) = IF c THEN Send(D, <<m, n>>) ELSE D
  BY DEF Relinked
<1>. HIDE DEF L, D
<1>4. D \in CState /\ Elsewhere(L, D, i) /\ SameEntry(L.ifs[i], D.ifs[i])
  BY <1>1, <1>2, UpdateEntry DEF D
<1>5. D.ifs[i] \in Iface
  BY <1>4 DEF CState
<1>6. m \in LportMsg /\ n \in LportMsg /\ m.iface = i /\ n.iface = i
  <2>1. m.iface = i /\ n.iface = i
    BY DEF LinkChange, LportChange
  <2>2. TRUE \in BOOLEAN /\ "default" \in Systems
    BY ConfigAssumption
  <2>. QED
    BY <1>5, <2>1, <2>2, OtherMsgs
<1>. HIDE DEF m, n, c
<1>7. CASE c
  <2>1. /\ Send(D, <<m, n>>) \in CState /\ Send(D, <<m, n>>).ifs = D.ifs
        /\ Elsewhere(D, Send(D, <<m, n>>), i)
    BY <1>4, <1>6, TwoSaid
  <2>2. Elsewhere(L, Send(D, <<m, n>>), i)
    BY <1>4, <2>1, ElsewhereTransitive
  <2>. QED
    BY <1>3, <1>4, <1>7, <2>1, <2>2 DEF L
<1>8. CASE ~c
  BY <1>3, <1>4, <1>8 DEF L
<1>. QED
  BY <1>7, <1>8

\* update_interface_cache, as far as the entry goes.
LEMMA InterfaceEntry ==
    ASSUME TablesInv, NEW i \in Ifaces, update_interface(i)
    PROVE  /\ State' \in CState /\ Elsewhere(State, State', i)
           /\ State' = IF links[i] # ifs[i].link THEN Relinked(i) ELSE Keyed(i)
           /\ ifs'[i].port = ifs[i].port /\ ifs'[i].cached = ifs[i].cached
           /\ ifs'[i].link = links[i]
           /\ ifs'[i].key = (IF keys[i] = NoLag THEN ifs[i].key ELSE keys[i])
<1>. DEFINE T == IF links[i] # ifs[i].link THEN Relinked(i) ELSE Keyed(i)
<1>1. Becomes(T)
  BY InterfaceInSteps
<1>2. Keyed(i) \in CState /\ Elsewhere(State, Keyed(i), i)
  BY KeyedEntry
<1>3. /\ Keyed(i).ifs[i].key = (IF keys[i] = NoLag THEN ifs[i].key ELSE keys[i])
      /\ Keyed(i).ifs[i].port = ifs[i].port /\ Keyed(i).ifs[i].cached = ifs[i].cached
      /\ Keyed(i).ifs[i].link = ifs[i].link
  BY KeyedEntry
<1>4. /\ Linked(i) \in CState /\ Elsewhere(Keyed(i), Linked(i), i)
      /\ Linked(i).ifs[i].link = links[i] /\ Linked(i).ifs[i].key = Keyed(i).ifs[i].key
      /\ Linked(i).ifs[i].port = ifs[i].port /\ Linked(i).ifs[i].cached = ifs[i].cached
  BY LinkedEntry
<1>5. /\ Relinked(i) \in CState /\ Elsewhere(Linked(i), Relinked(i), i)
      /\ SameEntry(Linked(i).ifs[i], Relinked(i).ifs[i])
  BY RelinkedEntry
<1>6. Elsewhere(State, Relinked(i), i)
  <2>1. Elsewhere(State, Linked(i), i)
    BY <1>2, <1>4, ElsewhereTransitive
  <2>. QED
    BY <1>5, <2>1, ElsewhereTransitive
<1>7. T \in CState /\ Elsewhere(State, T, i)
  BY <1>2, <1>5, <1>6
<1>8. State' = T
  BY <1>1, <1>7, BecomesState
<1>9. ifs' = T.ifs
  BY <1>8 DEF State
<1>10. /\ T.ifs[i].port = ifs[i].port /\ T.ifs[i].cached = ifs[i].cached
       /\ T.ifs[i].link = links[i]
       /\ T.ifs[i].key = (IF keys[i] = NoLag THEN ifs[i].key ELSE keys[i])
  <2>1. CASE links[i] # ifs[i].link
    <3>1. T = Relinked(i)
      BY <2>1
    <3>. HIDE DEF T
    <3>. QED
      BY <1>3, <1>4, <1>5, <3>1 DEF SameEntry
  <2>2. CASE links[i] = ifs[i].link
    <3>1. T = Keyed(i)
      BY <2>2
    <3>. HIDE DEF T
    <3>. QED
      BY <1>3, <2>2, <3>1
  <2>. QED
    BY <2>1, <2>2
<1>. QED
  BY <1>7, <1>8, <1>9, <1>10

\* A known interface.
LEMMA InterfaceTables == ASSUME TablesInv, NEW i \in Ifaces, update_interface(i) PROVE Tables'
<1>1. /\ task.at = "run" /\ i \in task.members /\ task'.at = "run" /\ task'.port = task.port
      /\ task'.ports = task.ports /\ task'.members = task.members \ {i}
  BY WalkTask DEF update_interface, TablesInv, MembersInv
<1>2. UNCHANGED <<rows, keys, links, changed, recent>> /\ recent = {}
  BY <1>1 DEF update_interface, table, TablesInv, Tables, RecentAreDone
<1>3. /\ Elsewhere(State, State', i) /\ ifs'[i].cached = ifs[i].cached
      /\ ifs'[i].link = links[i]
      /\ ifs'[i].key = (IF keys[i] = NoLag THEN ifs[i].key ELSE keys[i])
  BY InterfaceEntry
<1>4. /\ \A q \in Lags : /\ ports'[q].cached = ports[q].cached /\ ports'[q].mode = ports[q].mode
                         /\ ports'[q].fast = ports[q].fast /\ ports'[q].sys = ports[q].sys
                         /\ ports'[q].fallback = ports[q].fallback
                         /\ ports'[q].cfg = ports[q].cfg
      /\ \A j \in Ifaces : j # i => ifs'[j] = ifs[j]
  BY <1>3 DEF Elsewhere, SameLags, State
<1>5. RowsTold'
  <2>1. \A q \in Lags : Pends(q)' <=> Pends(q)
    BY <1>1 DEF Pends, PortSteps
  <2>2. task'.at \notin PortSteps /\ task'.at \notin {"added", "eligible"}
    BY <1>1 DEF PortSteps
  <2>3. ASSUME NEW q \in Lags
        PROVE  /\ rows[q].present /\ ~ports'[q].cached => Pends(q)'
               /\ ports'[q].cached /\ rows[q].present /\ ~Pends(q)' =>
                     /\ ports'[q].mode = rows[q].lacp /\ ports'[q].fast = rows[q].fast
                     /\ rows[q].lacp # "off" =>
                           ports'[q].sys = rows[q].sys /\ ports'[q].fallback = rows[q].fallback
    BY <1>4, <2>1 DEF TablesInv, Tables, RowsTold
  <2>. QED
    BY <1>2, <2>2, <2>3 DEF RowsTold
<1>6. KeysTold'
  <2>1. \A j \in Ifaces : j # i /\ Fresh(j) => Fresh(j)'
    BY <1>1 DEF Fresh
  <2>2. \A p \in Lags : \A j \in rows'[p].members : keys'[j] = p
    BY <1>2 DEF TablesInv, Tables, KeysTold
  <2>3. ASSUME NEW j \in Ifaces, ifs'[j].cached, ~Fresh(j)'
        PROVE  keys'[j] \in {NoLag, ifs'[j].key} /\ links'[j] = ifs'[j].link
    <3>1. CASE j = i
      BY <1>2, <1>3, <3>1
    <3>2. CASE j # i
      BY <1>2, <1>4, <2>1, <2>3, <3>2 DEF TablesInv, Tables, KeysTold
    <3>. QED
      BY <3>1, <3>2
  <2>4. ASSUME NEW q \in Lags, NEW j \in ports'[q].cfg PROVE ifs'[j].key # NoLag
    <3>1. j \in Ifaces /\ j \in ports[q].cfg
      BY <1>4, <2>4, MemberTypes DEF TablesInv, MembersInv
    <3>2. ifs[j].key # NoLag
      BY <3>1 DEF TablesInv, Tables, KeysTold
    <3>. QED
      BY <1>3, <1>4, <3>1, <3>2
  <2>. QED
    BY <2>2, <2>3, <2>4 DEF KeysTold
<1>7. RecentAreDone' /\ Emptied'
  BY <1>1, <1>2 DEF RecentAreDone, Emptied, PortSteps
<1>. QED
  BY <1>5, <1>6, <1>7 DEF Tables

\* A step with one LAG in hand, before and after.
HandStep ==
    /\ task.at \in PortSteps /\ task.port \in Lags
    /\ task'.at = task.at /\ task'.port = task.port /\ task'.ports = task.ports
    /\ task'.switched = task.switched /\ task'.moded = task.moded /\ task'.timed = task.timed
    /\ UNCHANGED <<rows, keys, links, changed>>

\* The walks over its members are such steps.
LEMMA MemberHand ==
    ASSUME MembersInv, NEW i \in Ifaces,
           RemoveMember(i) \/ MakeIneligible(i) \/ AddMember(i) \/ UpdateMember(i)
    PROVE  /\ HandStep /\ i \in task.members /\ task'.members = task.members \ {i}
           /\ RemoveMember(i) => task.at = "removed"
           /\ MakeIneligible(i) => task.at = "mode"
           /\ AddMember(i) => task.at = "added"
           /\ UpdateMember(i) => task.at = "eligible"
<1>1. task \in Task /\ QueueInv
  BY TypesNow DEF MembersInv
<1>2. /\ task.port \in Lags /\ task.at \in PortSteps /\ task'.at = task.at
      /\ task'.port = task.port /\ task'.ports = task.ports
      /\ i \in task.members /\ task'.members = task.members \ {i}
      /\ UNCHANGED <<rows, changed>>
  BY MemberTask
<1>3. /\ RemoveMember(i) => task.at = "removed"
      /\ MakeIneligible(i) => task.at = "mode"
      /\ AddMember(i) => task.at = "added"
      /\ UpdateMember(i) => task.at = "eligible"
  BY DEF RemoveMember, MakeIneligible, AddMember, UpdateMember, Walk
<1>4. UNCHANGED <<keys, links>>
  BY DEF RemoveMember, MakeIneligible, AddMember, UpdateMember, table
<1>5. task'.switched = task.switched /\ task'.moded = task.moded /\ task'.timed = task.timed
  <2>1. task' = [task EXCEPT !.members = @ \ {i}]
    BY DEF RemoveMember, MakeIneligible, AddMember, UpdateMember, Walk
  <2>. QED
    BY <1>1, <2>1 DEF Task
<1>. QED
  BY <1>2, <1>3, <1>4, <1>5 DEF HandStep

\* They forget nothing.
LEMMA HandTables ==
    ASSUME TablesInv, HandStep, SameTables PROVE RowsTold' /\ KeysTold'
<1>1. \A q \in Lags : Pends(q) => Pends(q)'
  BY DEF HandStep, Pends
<1>2. \A j \in Ifaces : Fresh(j) => Fresh(j)'
  BY DEF HandStep, Fresh, PortSteps
<1>. QED
  BY <1>1, <1>2, TablesStay DEF HandStep, PortSteps

\* The LAGs of the interfaces added in this run stay.
LEMMA HandRecent ==
    ASSUME TablesInv, HandStep, UNCHANGED recent, \A j \in recent : ifs'[j].port = ifs[j].port
    PROVE  RecentAreDone'
<1>1. task'.at # "run"
  BY DEF HandStep, PortSteps
<1>. QED
  BY <1>1 DEF TablesInv, Tables, RecentAreDone, HandStep

\* A member is made ineligible before the mode changes.
LEMMA IneligibleTables ==
    ASSUME TablesInv, NEW i \in Ifaces, MakeIneligible(i)
    PROVE  /\ Tables' /\ State' = set_interface_lag_eligibility(State, task.port, i, FALSE)
           /\ Elsewhere(State, State', i)
<1>. DEFINE T == set_interface_lag_eligibility(State, task.port, i, FALSE)
<1>1. HandStep /\ i \in task.members /\ task'.members = task.members \ {i} /\ task.at = "mode"
  BY MemberHand DEF TablesInv
<1>2. State \in CState /\ Becomes(T) /\ UNCHANGED recent /\ task.port \in Lags
  BY <1>1, TypesNow DEF TablesInv, MembersInv, MakeIneligible, HandStep
<1>3. T \in CState /\ Elsewhere(State, T, i) /\ SameEntry(State.ifs[i], T.ifs[i])
  BY <1>2, SetEntry
<1>a. ports[task.port].eligible = task.members
  BY <1>1 DEF TablesInv, Tables, Emptied
<1>4. ifs[i].eligible
  BY <1>1, <1>2, <1>a DEF TablesInv, MembersInv, Belongs, Listed
<1>5. Marked(State, T, task.port, i, FALSE)
  <2>1. State.ifs[i].eligible # FALSE
    BY <1>4 DEF State
  <2>. QED
    BY <1>2, <2>1, SetEligibilityMarks
<1>6. State' = T
  BY <1>2, <1>3, BecomesState
<1>. HIDE DEF T
<1>7. ifs' = T.ifs /\ ports' = T.ports /\ ifs = State.ifs /\ ports = State.ports
  BY <1>6 DEF State
<1>8. SameTables
  BY <1>1, <1>3, <1>6, <1>7, ElsewhereTables DEF HandStep
<1>9. RecentAreDone'
  <2>1. \A j \in Ifaces : ifs'[j].port = ifs[j].port
    BY <1>3, <1>7 DEF Elsewhere, SameEntry
  <2>2. recent \subseteq Ifaces
    BY TypesNow DEF TablesInv, MembersInv
  <2>. QED
    BY <1>1, <1>2, <2>1, <2>2, HandRecent
<1>10. Emptied'
  <2>1. ports'[task.port].eligible = ports[task.port].eligible \ {i}
    BY <1>2, <1>5, <1>7 DEF Marked
  <2>2. task'.at = "mode" /\ task'.port = task.port
    BY <1>1 DEF HandStep
  <2>. QED
    BY <1>1, <1>a, <2>1, <2>2 DEF Emptied
<1>11. Tables'
  BY <1>1, <1>8, <1>9, <1>10, HandTables DEF Tables
<1>. QED
  BY <1>3, <1>6, <1>11 DEF T
-----------------------------------------------------------------------------
(* A member taken out. *)

\* It is made ineligible in the LAG it leaves.
Cleared(i) == set_interface_lag_eligibility(State, task.port, i, FALSE)

\* It has no LAG.
Dropped(i) ==
    Send([Cleared(i) EXCEPT !.ifs[i].port = NoLag], <<Overrides(i, "default")>>)

\* Or has one already.
Kept(i) == IF i \in recent THEN update_interface_lag_eligibility(Cleared(i), i) ELSE Dropped(i)

\* These are the steps of it.
LEMMA RemoveInSteps ==
    ASSUME NEW i, RemoveMember(i)
    PROVE  Becomes(ListWithout(Kept(i), task.port, i)) /\ UNCHANGED <<lag_id, recent>>
  BY DEF RemoveMember, ListWithout, Kept, Cleared, Dropped

\* The entry of a member made ineligible.
LEMMA ClearedEntry ==
    ASSUME TablesInv, NEW i \in Ifaces, task.port \in Lags
    PROVE  /\ Cleared(i) \in CState /\ Elsewhere(State, Cleared(i), i)
           /\ SameEntry(ifs[i], Cleared(i).ifs[i])
<1>1. State \in CState /\ State.ifs = ifs
  BY TypesNow DEF TablesInv, MembersInv, State
<1>. QED
  BY <1>1, SetEntry DEF Cleared

\* Of one that leaves for good.
LEMMA DroppedEntry ==
    ASSUME TablesInv, NEW i \in Ifaces, task.port \in Lags
    PROVE  /\ Dropped(i) \in CState /\ Elsewhere(Cleared(i), Dropped(i), i)
           /\ Dropped(i).ports = Cleared(i).ports /\ Dropped(i).hw = Cleared(i).hw
           /\ Dropped(i).queue = Cleared(i).queue \o <<Overrides(i, "default")>>
           /\ Dropped(i).ifs[i] = [Cleared(i).ifs[i] EXCEPT !.port = NoLag]
<1>. DEFINE S == Cleared(i)
            g == [S.ifs[i] EXCEPT !.port = NoLag]
            F == WithEntry(S, i, g)
            m == Overrides(i, "default")
<1>1. S \in CState /\ S.ifs[i] \in Iface
  BY ClearedEntry DEF CState
<1>2. g \in Iface
  BY <1>1 DEF Iface
<1>3. Dropped(i) = Send(F, <<m>>)
  BY DEF Dropped, WithEntry
<1>4. m \in LportMsg /\ m.iface = i
  BY ConfigAssumption DEF LportMsg, Overrides
<1>. HIDE DEF S, g, m
<1>5. /\ F \in CState /\ F.ports = S.ports /\ F.hw = S.hw /\ F.queue = S.queue
      /\ F.ifs[i] = g /\ Elsewhere(S, F, i)
  BY <1>1, <1>2, EntryTaken
<1>. HIDE DEF F
<1>6. /\ Dropped(i) \in CState /\ Dropped(i).ports = F.ports /\ Dropped(i).ifs = F.ifs
      /\ Dropped(i).hw = F.hw /\ Dropped(i).queue = F.queue \o <<m>>
      /\ Elsewhere(F, Dropped(i), i)
  BY <1>3, <1>4, <1>5, OneSaid
<1>7. Elsewhere(S, Dropped(i), i)
  BY <1>5, <1>6, ElsewhereTransitive
<1>8. Dropped(i).ifs[i] = g
  BY <1>5, <1>6
<1>. QED
  BY <1>5, <1>6, <1>7, <1>8 DEF S, g, m

\* Of both.
LEMMA KeptEntry ==
    ASSUME TablesInv, NEW i \in Ifaces, task.port \in Lags
    PROVE  /\ Kept(i) \in CState /\ Elsewhere(State, Kept(i), i)
           /\ Kept(i).ifs[i].key = ifs[i].key /\ Kept(i).ifs[i].link = ifs[i].link
           /\ Kept(i).ifs[i].cached = ifs[i].cached
           /\ Kept(i).ifs[i].port = IF i \in recent THEN ifs[i].port ELSE NoLag
<1>1. /\ Cleared(i) \in CState /\ Elsewhere(State, Cleared(i), i)
      /\ SameEntry(ifs[i], Cleared(i).ifs[i]) /\ Cleared(i).ifs[i] \in Iface
  BY ClearedEntry DEF CState
<1>2. CASE i \in recent
  <2>. DEFINE S == Cleared(i)
              K == update_interface_lag_eligibility(S, i)
  <2>1. S \in CState /\ Elsewhere(State, S, i) /\ SameEntry(ifs[i], S.ifs[i])
    BY <1>1
  <2>2. lag_id \in [Lags -> 0..MaxLagId]
    BY TypesNow DEF TablesInv, MembersInv
  <2>3. S.ifs[i].port \in Lags => S.ifs[i].key # NoLag
    BY <2>1, MemberHasKey DEF SameEntry
  <2>4. Kept(i) = K
    BY <1>2 DEF Kept
  <2>. HIDE DEF S
  <2>5. K \in CState /\ Elsewhere(S, K, i) /\ SameEntry(S.ifs[i], K.ifs[i])
    BY <2>1, <2>2, <2>3, UpdateEntry
  <2>. HIDE DEF K
  <2>6. Elsewhere(State, K, i)
    BY <2>1, <2>5, ElsewhereTransitive
  <2>. QED
    BY <1>2, <2>1, <2>4, <2>5, <2>6 DEF SameEntry
<1>3. CASE i \notin recent
  <2>. DEFINE K == Dropped(i)
              g == [Cleared(i).ifs[i] EXCEPT !.port = NoLag]
  <2>1. K \in CState /\ Elsewhere(Cleared(i), K, i) /\ K.ifs[i] = g
    BY DroppedEntry
  <2>2. g.port = NoLag /\ g.key = ifs[i].key /\ g.link = ifs[i].link /\ g.cached = ifs[i].cached
    BY <1>1 DEF SameEntry, Iface
  <2>3. Kept(i) = K
    BY <1>3 DEF Kept
  <2>. HIDE DEF K, g
  <2>4. Elsewhere(State, K, i)
    BY <1>1, <2>1, ElsewhereTransitive
  <2>. QED
    BY <1>3, <2>1, <2>2, <2>3, <2>4
<1>. QED
  BY <1>2, <1>3

\* The list of members, and nothing else, is shorter.
LEMMA ListEntry ==
    ASSUME NEW S \in CState, NEW i \in Ifaces, NEW p \in Lags
    PROVE  /\ ListWithout(S, p, i) \in CState /\ ListWithout(S, p, i).ifs = S.ifs
           /\ ListWithout(S, p, i).hw = S.hw /\ ListWithout(S, p, i).queue = S.queue
           /\ \A q \in Lags : \E c \in SUBSET S.ports[q].cfg :
                 ListWithout(S, p, i).ports[q] = [S.ports[q] EXCEPT !.cfg = c]
<1>1. S.ports \in [Lags -> LagPort] /\ S.ports[p] \in LagPort
  BY DEF CState
<1>. DEFINE c == S.ports[p].cfg \ {i}
            Q == [S.ports[p] EXCEPT !.cfg = c]
            T == ListWithout(S, p, i)
<1>2. Q \in LagPort
  BY <1>1 DEF LagPort
<1>3. T = [S EXCEPT !.ports[p] = Q]
  BY DEF ListWithout
<1>4. T \in CState /\ T.ports = [S.ports EXCEPT ![p] = Q] /\ T.ifs = S.ifs /\ T.hw = S.hw
      /\ T.queue = S.queue
  <2>. HIDE DEF Q, T
  <2>. QED
    BY <1>2, <1>3 DEF CState
<1>. HIDE DEF T
<1>5. ASSUME NEW q \in Lags
      PROVE  \E d \in SUBSET S.ports[q].cfg : T.ports[q] = [S.ports[q] EXCEPT !.cfg = d]
  <2>1. CASE q = p
    <3>1. T.ports[q] = Q
      BY <1>1, <1>4, <2>1
    <3>. QED
      BY <2>1, <3>1
  <2>2. CASE q # p
    <3>1. T.ports[q] = S.ports[q] /\ S.ports[q] \in LagPort
      BY <1>1, <1>4, <2>2
    <3>2. S.ports[q] = [S.ports[q] EXCEPT !.cfg = S.ports[q].cfg]
      BY <3>1 DEF LagPort
    <3>. QED
      BY <3>1, <3>2
  <2>. QED
    BY <2>1, <2>2
<1>. QED
  BY <1>4, <1>5 DEF T

\* What the members are says nothing of the rest of a LAG.
LEMMA ListOnly ==
    ASSUME NEW P \in LagPort, NEW c, NEW Q, Q = [P EXCEPT !.cfg = c]
    PROVE  /\ Q.cached = P.cached /\ Q.mode = P.mode /\ Q.eligible = P.eligible /\ Q.cfg = c
           /\ Q.fast = P.fast /\ Q.sys = P.sys /\ Q.fallback = P.fallback
           /\ Q.participants = P.participants
  BY DEF LagPort

\* A member is taken out.
LEMMA RemoveTables ==
    ASSUME TablesInv, NEW i \in Ifaces, RemoveMember(i)
    PROVE  Tables' /\ State' = ListWithout(Kept(i), task.port, i)
<1>. DEFINE T == ListWithout(Kept(i), task.port, i)
<1>1. HandStep /\ task.at = "removed" /\ task.port \in Lags /\ UNCHANGED recent /\ Becomes(T)
  BY MemberHand, RemoveInSteps DEF TablesInv, HandStep
<1>2. /\ Kept(i) \in CState /\ Elsewhere(State, Kept(i), i)
      /\ Kept(i).ifs[i].key = ifs[i].key /\ Kept(i).ifs[i].link = ifs[i].link
      /\ Kept(i).ifs[i].cached = ifs[i].cached
      /\ Kept(i).ifs[i].port = IF i \in recent THEN ifs[i].port ELSE NoLag
  BY <1>1, KeptEntry
<1>3. /\ T \in CState /\ T.ifs = Kept(i).ifs
      /\ \A q \in Lags : \E c \in SUBSET Kept(i).ports[q].cfg :
            T.ports[q] = [Kept(i).ports[q] EXCEPT !.cfg = c]
  BY <1>1, <1>2, ListEntry
<1>4. State' = T
  BY <1>1, <1>3, BecomesState
<1>. HIDE DEF T
<1>5. ifs' = T.ifs /\ ports' = T.ports /\ ifs = State.ifs /\ ports = State.ports
  BY <1>4 DEF State
<1>6. ASSUME NEW q \in Lags
      PROVE  /\ ports'[q].cached = ports[q].cached /\ ports'[q].mode = ports[q].mode
             /\ ports'[q].fast = ports[q].fast /\ ports'[q].sys = ports[q].sys
             /\ ports'[q].fallback = ports[q].fallback
             /\ ports'[q].cfg \subseteq ports[q].cfg
  <2>. DEFINE P == Kept(i).ports[q]
  <2>1. PICK c \in SUBSET P.cfg : T.ports[q] = [P EXCEPT !.cfg = c]
    BY <1>3
  <2>2. P \in LagPort
    BY <1>2 DEF CState
  <2>3. /\ P.cached = ports[q].cached /\ P.mode = ports[q].mode /\ P.fast = ports[q].fast
        /\ P.sys = ports[q].sys /\ P.fallback = ports[q].fallback /\ P.cfg = ports[q].cfg
    BY <1>2, <1>5 DEF Elsewhere, SameLags
  <2>. HIDE DEF P
  <2>. QED
    BY <1>5, <2>1, <2>2, <2>3, ListOnly
<1>7. \A j \in Ifaces : /\ ifs'[j].key = ifs[j].key /\ ifs'[j].link = ifs[j].link
                        /\ ifs'[j].cached = ifs[j].cached
                        /\ j \in recent => ifs'[j].port = ifs[j].port
  BY <1>2, <1>3, <1>5 DEF Elsewhere
<1>8. SameTables
  BY <1>1, <1>6, <1>7 DEF SameTables, HandStep
<1>9. RecentAreDone'
  <2>1. recent \subseteq Ifaces
    BY TypesNow DEF TablesInv, MembersInv
  <2>. QED
    BY <1>1, <1>7, <2>1, HandRecent
<1>10. Emptied'
  BY <1>1 DEF Emptied, HandStep
<1>11. Tables'
  BY <1>1, <1>8, <1>9, <1>10, HandTables DEF Tables
<1>. QED
  BY <1>4, <1>11 DEF T
-----------------------------------------------------------------------------
(* A member brought up to date. *)

\* It is told of a new mode, or of a new rate.
Updated(i) ==
    IF task.switched THEN Send(State, <<ConfigLport(State, i)>>)
    ELSE IF task.timed
    THEN Send([State EXCEPT !.ifs[i].fast = ports[task.port].fast],
              <<LportChange([ifs[i] EXCEPT !.fast = ports[task.port].fast], i)>>)
    ELSE State

\* These are the steps of it.
LEMMA UpdateInSteps ==
    ASSUME QueueInv, NEW i \in Ifaces, UpdateMember(i)
    PROVE  Becomes(update_interface_lag_eligibility(Updated(i), i)) /\ UNCHANGED <<lag_id, recent>>
<1>1. [State EXCEPT !.ifs[i].fast = ports[task.port].fast].ifs[i] =
          [ifs[i] EXCEPT !.fast = ports[task.port].fast]
  BY TypesNow DEF State
<1>. QED
  BY <1>1 DEF UpdateMember, Updated

\* Its entry.
LEMMA UpdatedEntry ==
    ASSUME TablesInv, NEW i \in Ifaces, task.port \in Lags
    PROVE  /\ Updated(i) \in CState /\ Elsewhere(State, Updated(i), i)
           /\ Updated(i).ports = ports /\ Updated(i).hw = hw
           /\ SameEntry(ifs[i], Updated(i).ifs[i])
           /\ Updated(i).ifs[i].enabled = ifs[i].enabled
           /\ Updated(i).ifs[i].active = ifs[i].active
           /\ Updated(i).ifs[i].eligible = ifs[i].eligible
           /\ task.switched => /\ Updated(i).ifs = ifs
                               /\ Updated(i).queue = queue \o <<ConfigLport(Updated(i), i)>>
           /\ ~task.switched /\ task.timed =>
                 /\ Updated(i).ifs[i].fast = ports[task.port].fast
                 /\ Updated(i).queue = queue \o <<LportChange(Updated(i).ifs[i], i)>>
           /\ ~task.switched /\ ~task.timed => Updated(i) = State
<1>0. /\ State \in CState /\ ifs[i] \in Iface /\ ports[task.port] \in LagPort
      /\ State.ports = ports /\ State.ifs = ifs /\ State.hw = hw /\ State.queue = queue
  BY TypesNow DEF TablesInv, MembersInv, State
<1>1. CASE task.switched
  <2>. DEFINE m == ConfigLport(State, i)
  <2>1. Updated(i) = Send(State, <<m>>)
    BY <1>1 DEF Updated
  <2>2. m \in LportMsg /\ m.iface = i
    BY <1>0, ConfigIsMsg DEF ConfigLport
  <2>. HIDE DEF m
  <2>3. /\ Updated(i) \in CState /\ Updated(i).ports = ports /\ Updated(i).ifs = ifs
        /\ Updated(i).hw = hw /\ Updated(i).queue = queue \o <<m>>
        /\ Elsewhere(State, Updated(i), i)
    BY <1>0, <2>1, <2>2, OneSaid
  <2>4. m = ConfigLport(Updated(i), i)
    BY <1>0, <2>3 DEF m, ConfigLport
  <2>. QED
    BY <1>1, <2>3, <2>4 DEF SameEntry
<1>2. CASE ~task.switched /\ task.timed
  <2>. DEFINE b == ports[task.port].fast
              g == [ifs[i] EXCEPT !.fast = b]
              F == WithEntry(State, i, g)
              m == LportChange(g, i)
  <2>1. Updated(i) = Send(F, <<m>>)
    <3>1. [State EXCEPT !.ifs[i].fast = b] = F
      BY <1>0 DEF WithEntry
    <3>. QED
      BY <1>2, <3>1 DEF Updated
  <2>2. b \in BOOLEAN
    BY <1>0 DEF LagPort
  <2>3. /\ g \in Iface /\ g.fast = b /\ SameEntry(ifs[i], g) /\ g.enabled = ifs[i].enabled
        /\ g.active = ifs[i].active /\ g.eligible = ifs[i].eligible
    <3>. HIDE DEF b
    <3>. QED
      BY <1>0, <2>2 DEF Iface, SameEntry
  <2>. HIDE DEF g
  <2>4. m \in LportMsg /\ m.iface = i
    BY <2>3 DEF LportChange, LportMsg, Iface
  <2>5. /\ F \in CState /\ F.ports = State.ports /\ F.hw = State.hw /\ F.queue = State.queue
        /\ F.ifs[i] = g /\ Elsewhere(State, F, i)
    BY <1>0, <2>3, EntryTaken
  <2>. HIDE DEF F, m
  <2>6. /\ Updated(i) \in CState /\ Updated(i).ports = F.ports /\ Updated(i).ifs = F.ifs
        /\ Updated(i).hw = F.hw /\ Updated(i).queue = F.queue \o <<m>>
        /\ Elsewhere(F, Updated(i), i)
    BY <2>1, <2>4, <2>5, OneSaid
  <2>7. Elsewhere(State, Updated(i), i)
    BY <2>5, <2>6, ElsewhereTransitive
  <2>8. Updated(i).ifs[i] = g /\ Updated(i).queue = queue \o <<LportChange(Updated(i).ifs[i], i)>>
    BY <1>0, <2>5, <2>6 DEF m
  <2>. QED
    BY <1>0, <1>2, <2>3, <2>5, <2>6, <2>7, <2>8
<1>3. CASE ~task.switched /\ ~task.timed
  <2>1. Updated(i) = State
    BY <1>3 DEF Updated
  <2>2. Calm(State, State)
    BY <1>0 DEF Calm, SameLags, SameMarks
  <2>. QED
    BY <1>0, <1>3, <2>1, <2>2, CalmElsewhere DEF SameEntry
<1>. QED
  BY <1>1, <1>2, <1>3

\* A member is brought up to date.
LEMMA UpdateTables ==
    ASSUME TablesInv, NEW i \in Ifaces, UpdateMember(i)
    PROVE  Tables' /\ State' = update_interface_lag_eligibility(Updated(i), i)
<1>. DEFINE T == update_interface_lag_eligibility(Updated(i), i)
<1>1. /\ HandStep /\ i \in task.members /\ task'.members = task.members \ {i} /\ task.at = "eligible"
      /\ task.port \in Lags
  BY MemberHand DEF TablesInv, HandStep
<1>2. Becomes(T) /\ UNCHANGED recent
  BY UpdateInSteps DEF TablesInv, MembersInv
<1>3. /\ Updated(i) \in CState /\ Elsewhere(State, Updated(i), i)
      /\ SameEntry(ifs[i], Updated(i).ifs[i])
  BY <1>1, UpdatedEntry
<1>4. T \in CState /\ Elsewhere(Updated(i), T, i) /\ SameEntry(Updated(i).ifs[i], T.ifs[i])
  <2>1. lag_id \in [Lags -> 0..MaxLagId]
    BY TypesNow DEF TablesInv, MembersInv
  <2>2. Updated(i).ifs[i].port \in Lags => Updated(i).ifs[i].key # NoLag
    BY <1>3, MemberHasKey DEF SameEntry
  <2>. QED
    BY <1>3, <2>1, <2>2, UpdateEntry
<1>5. State' = T
  BY <1>2, <1>4, BecomesState
<1>. HIDE DEF T
<1>6. Elsewhere(State, T, i) /\ SameEntry(ifs[i], T.ifs[i])
  BY <1>3, <1>4, ElsewhereTransitive DEF SameEntry
<1>7. ifs' = T.ifs /\ ports' = T.ports /\ ifs = State.ifs /\ ports = State.ports
  BY <1>5 DEF State
<1>8. SameTables
  BY <1>1, <1>5, <1>6, <1>7, ElsewhereTables DEF HandStep
<1>9. RecentAreDone'
  <2>1. \A j \in Ifaces : ifs'[j].port = ifs[j].port
    BY <1>6, <1>7 DEF Elsewhere, SameEntry
  <2>2. recent \subseteq Ifaces
    BY TypesNow DEF TablesInv, MembersInv
  <2>. QED
    BY <1>1, <1>2, <2>1, <2>2, HandRecent
<1>10. Emptied'
  <2>1. /\ task'.at = "eligible" /\ task'.port = task.port /\ task'.moded = task.moded
        /\ task'.switched = task.switched
    BY <1>1 DEF HandStep
  <2>2. task.members \subseteq Ifaces /\ ports'[task.port].mode = ports[task.port].mode
    BY <1>1, <1>8, TypesNow DEF TablesInv, MembersInv, Task, SameTables
  <2>3. \A j \in Ifaces : j # i =>
           (j \in ports'[task.port].eligible <=> j \in ports[task.port].eligible)
    BY <1>1, <1>6, <1>7 DEF Elsewhere
  <2>. QED
    BY <1>1, <2>1, <2>2, <2>3 DEF TablesInv, Tables, Emptied, IsDynamic
<1>11. Tables'
  BY <1>1, <1>8, <1>9, <1>10, HandTables DEF Tables
<1>. QED
  BY <1>5, <1>11 DEF T

\* The cached key of a member of LAG p is p, once its row was looked at.
LEMMA RowKey ==
    ASSUME TablesInv, NEW p \in Lags, NEW i \in rows[p].members, ~Fresh(i), ifs[i].cached
    PROVE  i \in Ifaces /\ ifs[i].key = p /\ ifs[i].key # NoLag
<1>1. i \in Ifaces /\ p # NoLag
  BY MemberTypes, ConfigAssumption DEF TablesInv, MembersInv, NoLag
<1>. QED
  BY <1>1 DEF TablesInv, Tables, KeysTold

\* A member is added.
LEMMA AddTables == ASSUME TablesInv, NEW i \in Ifaces, AddMember(i) PROVE Tables'
<1>. DEFINE p == task.port
<1>1. /\ HandStep /\ i \in task.members /\ task'.members = task.members \ {i} /\ task.at = "added"
      /\ p \in Lags
  BY MemberHand DEF TablesInv, HandStep
<1>2. /\ ports \in [Lags -> LagPort] /\ ifs \in [Ifaces -> Iface] /\ ifs[i] \in Iface
      /\ ports[p] \in LagPort /\ recent \subseteq Ifaces
  BY <1>1, TypesNow DEF TablesInv, MembersInv
<1>3. i \in rows[p].members
  BY <1>1 DEF TablesInv, MembersInv, Underway, InHand
<1>4. ifs[i].key # NoLag
  <2>1. ifs[i].cached
    BY <1>1, AllCached DEF HandStep, TablesInv
  <2>2. ~Fresh(i)
    BY <1>1 DEF Fresh
  <2>. QED
    BY <1>1, <1>3, <2>1, <2>2, RowKey
<1>. DEFINE Q == [ports[p] EXCEPT !.cfg = @ \cup {i}]
            g == [ifs[i] EXCEPT !.port = p]
<1>5. ports' = [ports EXCEPT ![p] = Q] /\ ifs' = [ifs EXCEPT ![i] = g] /\ recent' = recent \cup {i}
  BY <1>2 DEF AddMember
<1>6. /\ Q.cached = ports[p].cached /\ Q.mode = ports[p].mode /\ Q.cfg = ports[p].cfg \cup {i}
      /\ Q.fast = ports[p].fast /\ Q.sys = ports[p].sys /\ Q.fallback = ports[p].fallback
      /\ Q.eligible = ports[p].eligible
  BY <1>2 DEF LagPort
<1>7. /\ g.port = p /\ g.key = ifs[i].key /\ g.link = ifs[i].link /\ g.cached = ifs[i].cached
  BY <1>2 DEF Iface
<1>. HIDE DEF Q, g
<1>8. /\ \A q \in Lags : ports'[q] = IF q = p THEN Q ELSE ports[q]
      /\ \A j \in Ifaces : ifs'[j] = IF j = i THEN g ELSE ifs[j]
  BY <1>2, <1>5
<1>9. SameTables
  <2>1. ASSUME NEW q \in Lags
        PROVE  /\ ports'[q].cached = ports[q].cached /\ ports'[q].mode = ports[q].mode
               /\ ports'[q].fast = ports[q].fast /\ ports'[q].sys = ports[q].sys
               /\ ports'[q].fallback = ports[q].fallback
               /\ ports'[q].cfg \subseteq ports[q].cfg \cup {j \in Ifaces : ifs[j].key # NoLag}
    BY <1>4, <1>6, <1>8
  <2>2. \A j \in Ifaces : /\ ifs'[j].key = ifs[j].key /\ ifs'[j].link = ifs[j].link
                          /\ ifs'[j].cached = ifs[j].cached
    BY <1>7, <1>8
  <2>. QED
    BY <1>1, <2>1, <2>2 DEF SameTables, HandStep
<1>10. RecentAreDone'
  <2>1. /\ task'.at = "added" /\ task'.port = p /\ task'.ports = task.ports /\ p \notin task.ports
    BY <1>1 DEF HandStep, TablesInv, Tables, RecentAreDone
  <2>2. ASSUME NEW j \in recent' PROVE ifs'[j].port \notin task'.ports
    <3>1. CASE j = i
      BY <1>7, <1>8, <2>1, <3>1
    <3>2. CASE j # i
      <4>1. j \in recent /\ j \in Ifaces /\ ifs'[j] = ifs[j]
        BY <1>2, <1>5, <1>8, <2>2, <3>2
      <4>. QED
        BY <2>1, <4>1 DEF TablesInv, Tables, RecentAreDone
    <3>. QED
      BY <3>1, <3>2
  <2>. QED
    BY <2>1, <2>2 DEF RecentAreDone
<1>11. Emptied'
  <2>1. ports'[p].eligible = ports[p].eligible /\ ports'[p].mode = ports[p].mode
    BY <1>1, <1>6, <1>8
  <2>. QED
    BY <1>1, <2>1 DEF TablesInv, Tables, Emptied, HandStep, IsDynamic
<1>. QED
  BY <1>1, <1>9, <1>10, <1>11, HandTables DEF Tables

\* A LAG is deleted: it has no members left.
LEMMA DeletedTables ==
    ASSUME TablesInv, NEW p \in Lags, del_old_port(p)
    PROVE  /\ Tables' /\ ports[p].cfg = {} /\ ifs' = ifs
           /\ ports' = [ports EXCEPT ![p] = NoPort]
<1>1. /\ task.at = "run" /\ task.members = {} /\ ~rows[p].present
      /\ ports' = [ports EXCEPT ![p] = NoPort]
      /\ UNCHANGED <<rows, keys, links, changed, task, recent>>
  BY DEF del_old_port, Deleted, table
<1>2. ports[p].cfg = {}
  BY <1>1 DEF TablesInv, MembersInv, Belongs, MembersAreCached
<1>3. ifs' = ifs
  <2>1. ifs \in [Ifaces -> Iface]
    BY TypesNow DEF TablesInv, MembersInv
  <2>2. ifs' = [i \in Ifaces |-> ifs[i]]
    BY <1>2 DEF del_old_port
  <2>. QED
    BY <2>1, <2>2
<1>4. /\ \A q \in Lags \ {p} : ports'[q] = ports[q]
      /\ ports'[p].cached = FALSE /\ ports'[p].cfg = {}
  <2>1. ports \in [Lags -> LagPort]
    BY TypesNow DEF TablesInv, MembersInv
  <2>. QED
    BY <1>1, <2>1 DEF NoPort
<1>5. (\A q : Pends(q)' <=> Pends(q)) /\ (\A j : Fresh(j)' <=> Fresh(j))
  BY <1>1 DEF Pends, Fresh
<1>6. RowsTold'
  <2>1. ASSUME NEW q \in Lags
        PROVE  /\ rows[q].present /\ ~ports'[q].cached => Pends(q)'
               /\ ports'[q].cached /\ rows[q].present /\ ~Pends(q)' =>
                     /\ ports'[q].mode = rows[q].lacp /\ ports'[q].fast = rows[q].fast
                     /\ rows[q].lacp # "off" =>
                           ports'[q].sys = rows[q].sys /\ ports'[q].fallback = rows[q].fallback
    BY <1>1, <1>4, <1>5 DEF TablesInv, Tables, RowsTold
  <2>. QED
    BY <1>1, <2>1 DEF RowsTold, PortSteps
<1>7. KeysTold'
  BY <1>1, <1>3, <1>4, <1>5 DEF TablesInv, Tables, KeysTold
<1>8. RecentAreDone' /\ Emptied'
  BY <1>1, <1>3 DEF TablesInv, Tables, RecentAreDone, Emptied, PortSteps
<1>. QED
  BY <1>1, <1>2, <1>3, <1>6, <1>7, <1>8 DEF Tables

\* A LAG is new.
LEMMA NewPortTables == ASSUME TablesInv, NEW p \in Lags, add_new_port(p) PROVE Tables'
<1>. DEFINE Q == [NoPort EXCEPT !.cached = TRUE, !.cfg = rows[p].members]
<1>1. /\ task.at = "run" /\ task.members = {} /\ rows[p].present /\ ~ports[p].cached
      /\ ports' = [ports EXCEPT ![p] = Q]
      /\ ifs' = [i \in Ifaces |-> IF i \in rows[p].members THEN [ifs[i] EXCEPT !.port = p]
                                ELSE ifs[i]]
      /\ UNCHANGED <<rows, keys, links, changed, task, recent>>
  BY DEF add_new_port, Added, table
<1>2. Q.cfg = rows[p].members /\ ports \in [Lags -> LagPort] /\ recent \subseteq Ifaces
  BY TypesNow DEF NoPort, TablesInv, MembersInv
<1>. HIDE DEF Q
<1>3. \A q \in Lags : ports'[q] = IF q = p THEN Q ELSE ports[q]
  BY <1>1, <1>2
<1>4. ASSUME NEW j \in Ifaces
      PROVE  /\ ifs'[j].key = ifs[j].key /\ ifs'[j].link = ifs[j].link
             /\ ifs'[j].cached = ifs[j].cached
             /\ ifs'[j].port = IF j \in rows[p].members THEN p ELSE ifs[j].port
  <2>1. ifs[j] \in Iface
    BY TypesNow DEF TablesInv, MembersInv
  <2>2. ifs'[j] = IF j \in rows[p].members THEN [ifs[j] EXCEPT !.port = p] ELSE ifs[j]
    BY <1>1
  <2>. QED
    BY <2>1, <2>2 DEF Iface
<1>5. (\A q : Pends(q)' <=> Pends(q)) /\ (\A j : Fresh(j)' <=> Fresh(j)) /\ \A j : ~Fresh(j)
  BY <1>1 DEF Pends, Fresh
<1>6. RowsTold'
  <2>0. Pends(p)
    BY <1>1 DEF TablesInv, Tables, RowsTold
  <2>1. ASSUME NEW q \in Lags
        PROVE  /\ rows[q].present /\ ~ports'[q].cached => Pends(q)'
               /\ ports'[q].cached /\ rows[q].present /\ ~Pends(q)' =>
                     /\ ports'[q].mode = rows[q].lacp /\ ports'[q].fast = rows[q].fast
                     /\ rows[q].lacp # "off" =>
                           ports'[q].sys = rows[q].sys /\ ports'[q].fallback = rows[q].fallback
    <3>1. CASE q = p
      BY <1>5, <2>0, <3>1
    <3>2. CASE q # p
      BY <1>3, <1>5, <3>2 DEF TablesInv, Tables, RowsTold
    <3>. QED
      BY <3>1, <3>2
  <2>. QED
    BY <1>1, <2>1 DEF RowsTold, PortSteps
<1>7. KeysTold'
  <2>1. ASSUME NEW q \in Lags, NEW j \in ports'[q].cfg PROVE ifs'[j].key # NoLag
    <3>1. CASE q = p
      <4>1. j \in rows[p].members
        BY <1>2, <1>3, <2>1, <3>1
      <4>2. j \in Ifaces
        BY <4>1, MemberTypes DEF TablesInv, MembersInv
      <4>3. ifs[j].cached
        BY <1>1, <4>2, AllCached DEF TablesInv
      <4>. QED
        BY <1>4, <1>5, <4>1, <4>2, <4>3, RowKey
    <3>2. CASE q # p
      <4>1. j \in ports[q].cfg /\ j \in Ifaces
        BY <1>3, <2>1, <3>2, MemberTypes DEF TablesInv, MembersInv
      <4>. QED
        BY <1>4, <4>1 DEF TablesInv, Tables, KeysTold
    <3>. QED
      BY <3>1, <3>2
  <2>2. ASSUME NEW j \in Ifaces, ifs'[j].cached, ~Fresh(j)'
        PROVE  keys'[j] \in {NoLag, ifs'[j].key} /\ links'[j] = ifs'[j].link
    BY <1>1, <1>4, <1>5, <2>2 DEF TablesInv, Tables, KeysTold
  <2>3. \A q \in Lags : \A i \in rows'[q].members : keys'[i] = q
    BY <1>1 DEF TablesInv, Tables, KeysTold
  <2>. QED
    BY <2>1, <2>2, <2>3 DEF KeysTold
<1>8. RecentAreDone'
  <2>1. ASSUME NEW j \in recent PROVE ifs'[j].port = ifs[j].port
    <3>1. j \in Ifaces /\ ifs[j].port \in Lags /\ j \in rows[ifs[j].port].members
      BY <1>2 DEF TablesInv, MembersInv, Underway, RecentAreHome
    <3>2. j \in rows[p].members => ifs[j].port = p
      BY <3>1 DEF TablesInv, MembersInv, Belongs, RowsApart
    <3>. QED
      BY <1>4, <3>1, <3>2
  <2>. QED
    BY <1>1, <2>1 DEF TablesInv, Tables, RecentAreDone, PortSteps
<1>9. Emptied'
  BY <1>1 DEF Emptied
<1>. QED
  BY <1>6, <1>7, <1>8, <1>9 DEF Tables

\* A LAG is taken in hand.
LEMMA StartTables == ASSUME TablesInv, NEW p \in Lags, StartPort(p) PROVE Tables'
<1>0. task \in Task /\ ports \in [Lags -> LagPort] /\ LagInv
  BY TypesNow DEF TablesInv, MembersInv, QueueInv
<1>1. /\ task.at = "run" /\ task.members = {} /\ p \in task.ports
      /\ task'.at = "removed" /\ task'.port = p /\ task'.ports = task.ports \ {p}
      /\ UNCHANGED <<rows, keys, links, changed, ifs, recent>>
  BY <1>0 DEF StartPort, table, Task
<1>2. rows[p].present
  BY <1>0, <1>1 DEF LagInv
<1>3. /\ \A q \in Lags : /\ ports'[q].cached = ports[q].cached /\ ports'[q].mode = ports[q].mode
                         /\ ports'[q].sys = ports[q].sys /\ ports'[q].fallback = ports[q].fallback
                         /\ ports'[q].cfg = ports[q].cfg
                         /\ q # p => ports'[q].fast = ports[q].fast
      /\ ports'[p].fast = rows[p].fast
  BY <1>0 DEF StartPort, LagPort
<1>4. \A q \in Lags : Pends(q)' <=> Pends(q)
  BY <1>1 DEF Pends, PortSteps
<1>5. Pends(p)
  BY <1>1 DEF Pends
<1>6. RowsTold'
  <2>1. ASSUME NEW q \in Lags
        PROVE  /\ rows[q].present /\ ~ports'[q].cached => Pends(q)'
               /\ ports'[q].cached /\ rows[q].present /\ ~Pends(q)' =>
                     /\ ports'[q].mode = rows[q].lacp /\ ports'[q].fast = rows[q].fast
                     /\ rows[q].lacp # "off" =>
                           ports'[q].sys = rows[q].sys /\ ports'[q].fallback = rows[q].fallback
    BY <1>3, <1>4, <1>5 DEF TablesInv, Tables, RowsTold
  <2>. QED
    BY <1>1, <1>2, <1>3, <2>1 DEF RowsTold
<1>7. KeysTold'
  <2>1. \A j : ~Fresh(j)
    BY <1>1 DEF Fresh
  <2>. QED
    BY <1>1, <1>3, <2>1 DEF TablesInv, Tables, KeysTold
<1>8. RecentAreDone' /\ Emptied'
  BY <1>1 DEF TablesInv, Tables, RecentAreDone, Emptied
<1>. QED
  BY <1>6, <1>7, <1>8 DEF Tables

\* The mode of the LAG in hand changes.
LEMMA ModeTables ==
    ASSUME TablesInv, TurnOn \/ SwitchMode \/ TurnOff
    PROVE  /\ Tables' /\ task.port \in Lags /\ ports[task.port].eligible = {} /\ task.at = "mode"
           /\ ports' = [ports EXCEPT ![task.port].mode = rows[task.port].lacp]
<1>. DEFINE p == task.port
<1>0. task \in Task /\ task.port \in Lags /\ ports \in [Lags -> LagPort]
  BY TypesNow DEF TablesInv, MembersInv, TurnOn, SwitchMode, TurnOff, PortSteps
<1>1. /\ UNCHANGED <<rows, keys, links, recent, ifs, changed>> /\ task.members = {} /\ task.at = "mode"
      /\ ports' = [ports EXCEPT ![p].mode = rows[p].lacp]
  BY DEF TurnOn, SwitchMode, TurnOff, table
<1>2. /\ task'.at = "added" /\ task'.port = task.port /\ task'.ports = task.ports /\ task'.moded
      /\ task'.switched => rows[p].lacp # "off"
  <2>1. CASE SwitchMode
    BY <1>0, <2>1 DEF SwitchMode, ToAdded, Task
  <2>2. CASE TurnOn \/ TurnOff
    BY <1>0, <2>2 DEF TurnOn, TurnOff, ToAdded, Task
  <2>. QED
    BY <2>1, <2>2
<1>3. ports[p].eligible = {}
  BY <1>1 DEF TablesInv, Tables, Emptied
<1>4. /\ \A q \in Lags : /\ ports'[q].cached = ports[q].cached /\ ports'[q].fast = ports[q].fast
                         /\ ports'[q].sys = ports[q].sys /\ ports'[q].fallback = ports[q].fallback
                         /\ ports'[q].cfg = ports[q].cfg /\ ports'[q].eligible = ports[q].eligible
                         /\ q # p => ports'[q].mode = ports[q].mode
      /\ ports'[p].mode = rows[p].lacp
  BY <1>0, <1>1 DEF LagPort
<1>5. (\A q : Pends(q)' <=> Pends(q)) /\ (\A j : Fresh(j)' <=> Fresh(j)) /\ Pends(p)
  BY <1>1, <1>2 DEF Pends, Fresh, PortSteps
<1>6. RowsTold'
  <2>1. ASSUME NEW q \in Lags
        PROVE  /\ rows[q].present /\ ~ports'[q].cached => Pends(q)'
               /\ ports'[q].cached /\ rows[q].present /\ ~Pends(q)' =>
                     /\ ports'[q].mode = rows[q].lacp /\ ports'[q].fast = rows[q].fast
                     /\ rows[q].lacp # "off" =>
                           ports'[q].sys = rows[q].sys /\ ports'[q].fallback = rows[q].fallback
    BY <1>4, <1>5 DEF TablesInv, Tables, RowsTold
  <2>2. rows[p].present /\ ports[p].fast = rows[p].fast
    BY <1>1 DEF TablesInv, Tables, RowsTold, PortSteps
  <2>. QED
    BY <1>0, <1>1, <1>2, <1>4, <2>1, <2>2 DEF RowsTold
<1>7. KeysTold'
  BY <1>1, <1>4, <1>5 DEF TablesInv, Tables, KeysTold
<1>8. RecentAreDone'
  BY <1>1, <1>2 DEF TablesInv, Tables, RecentAreDone, PortSteps
<1>9. Emptied'
  <2>1. ports'[p].eligible = {} /\ (task'.switched => IsDynamic(ports'[p]))
    BY <1>0, <1>2, <1>3, <1>4 DEF IsDynamic
  <2>. QED
    BY <1>2, <2>1 DEF Emptied
<1>. QED
  BY <1>0, <1>1, <1>3, <1>6, <1>7, <1>8, <1>9 DEF Tables

\* The LAG in hand is done.
LEMMA FinishTables == ASSUME TablesInv, FinishPort PROVE Tables'
<1>. DEFINE p == task.port
            P == ports[p]
            R == rows[p]
            toSys  == R.lacp # "off" /\ R.sys # P.sys
            toFall == R.lacp # "off" /\ (R.fallback # P.fallback \/ task.moded)
<1>0. task \in Task /\ p \in Lags /\ ports \in [Lags -> LagPort] /\ P \in LagPort
  BY TypesNow DEF TablesInv, MembersInv, FinishPort, PortSteps
<1>1. /\ task.at = "eligible" /\ task'.at = "run" /\ task'.members = {} /\ task'.ports = task.ports
      /\ UNCHANGED <<rows, keys, links, changed, ifs, recent>>
  BY DEF FinishPort, Idle, table
<1>2. ports' = [ports EXCEPT ![p].sys = IF toSys THEN R.sys ELSE @,
                             ![p].fallback = IF toFall THEN R.fallback ELSE @]
  BY DEF FinishPort
<1>. DEFINE y == IF toSys THEN R.sys ELSE P.sys
            b == IF toFall THEN R.fallback ELSE P.fallback
            Q == [P EXCEPT !.sys = y, !.fallback = b]
<1>3. ports' = [ports EXCEPT ![p] = Q]
  BY <1>0, <1>2
<1>4. R.lacp # "off" => y = R.sys /\ b = R.fallback
  OBVIOUS
<1>. HIDE DEF y, b, toSys, toFall
<1>5. /\ Q.cached = P.cached /\ Q.mode = P.mode /\ Q.fast = P.fast /\ Q.cfg = P.cfg
      /\ Q.sys = y /\ Q.fallback = b
  BY <1>0 DEF LagPort
<1>. HIDE DEF Q
<1>6. \A q \in Lags : ports'[q] = IF q = p THEN Q ELSE ports[q]
  BY <1>0, <1>3
<1>7. \A q \in Lags : q # p => (Pends(q)' <=> Pends(q))
  BY <1>1 DEF Pends, PortSteps
<1>8. /\ P.mode = R.lacp /\ P.fast = R.fast
  BY <1>1 DEF TablesInv, Tables, RowsTold, PortSteps
<1>9. P.cached
  BY <1>1 DEF TablesInv, MembersInv, QueueInv, LagInv, PortSteps
<1>10. RowsTold'
  <2>1. ASSUME NEW q \in Lags
        PROVE  /\ rows[q].present /\ ~ports'[q].cached => Pends(q)'
               /\ ports'[q].cached /\ rows[q].present /\ ~Pends(q)' =>
                     /\ ports'[q].mode = rows[q].lacp /\ ports'[q].fast = rows[q].fast
                     /\ rows[q].lacp # "off" =>
                           ports'[q].sys = rows[q].sys /\ ports'[q].fallback = rows[q].fallback
    <3>1. CASE q = p
      BY <1>4, <1>5, <1>6, <1>8, <1>9, <3>1
    <3>2. CASE q # p
      BY <1>6, <1>7, <3>2 DEF TablesInv, Tables, RowsTold
    <3>. QED
      BY <3>1, <3>2
  <2>. QED
    BY <1>1, <2>1 DEF RowsTold, PortSteps
<1>11. KeysTold'
  <2>1. \A j : ~Fresh(j)
    BY <1>1 DEF Fresh
  <2>2. \A q \in Lags : ports'[q].cfg = ports[q].cfg
    BY <1>5, <1>6
  <2>. QED
    BY <1>1, <2>1, <2>2 DEF TablesInv, Tables, KeysTold
<1>12. RecentAreDone' /\ Emptied'
  BY <1>1 DEF TablesInv, Tables, RecentAreDone, Emptied, PortSteps
<1>. QED
  BY <1>10, <1>11, <1>12 DEF Tables
-----------------------------------------------------------------------------
(* The administrator. *)

\* A change of the tables is noted.
LEMMA EditTables ==
    ASSUME TablesInv, task.at = "idle", UNCHANGED <<ports, ifs, task, recent>>,
           changed.ports \subseteq changed'.ports, changed.ifs \subseteq changed'.ifs,
           \A q \in Lags : q \notin changed'.ports =>
               /\ rows'[q].present = rows[q].present /\ rows'[q].lacp = rows[q].lacp
               /\ rows'[q].fast = rows[q].fast /\ rows'[q].sys = rows[q].sys
               /\ rows'[q].fallback = rows[q].fallback,
           \A j \in Ifaces : j \notin changed'.ifs => keys'[j] = keys[j] /\ links'[j] = links[j],
           \A q \in Lags : \A j \in rows'[q].members : keys'[j] = q
    PROVE  Tables'
<1>1. \A q \in Lags : /\ Pends(q)' <=> q \in changed'.ports
                      /\ Pends(q) <=> q \in changed.ports
  BY DEF Pends
<1>2. \A j \in Ifaces : /\ Fresh(j)' <=> j \in changed'.ifs
                        /\ Fresh(j) <=> j \in changed.ifs
  BY DEF Fresh
<1>3. RowsTold'
  <2>1. ASSUME NEW q \in Lags
        PROVE  /\ rows'[q].present /\ ~ports'[q].cached => Pends(q)'
               /\ ports'[q].cached /\ rows'[q].present /\ ~Pends(q)' =>
                     /\ ports'[q].mode = rows'[q].lacp /\ ports'[q].fast = rows'[q].fast
                     /\ rows'[q].lacp # "off" =>
                           ports'[q].sys = rows'[q].sys /\ ports'[q].fallback = rows'[q].fallback
    BY <1>1 DEF TablesInv, Tables, RowsTold
  <2>. QED
    BY <2>1 DEF RowsTold, PortSteps
<1>4. KeysTold'
  <2>1. ASSUME NEW j \in Ifaces, ifs'[j].cached, ~Fresh(j)'
        PROVE  keys'[j] \in {NoLag, ifs'[j].key} /\ links'[j] = ifs'[j].link
    BY <1>2, <2>1 DEF TablesInv, Tables, KeysTold
  <2>2. \A q \in Lags : \A j \in ports'[q].cfg : ifs'[j].key # NoLag
    BY DEF TablesInv, Tables, KeysTold
  <2>. QED
    BY <2>1, <2>2 DEF KeysTold
<1>5. RecentAreDone' /\ Emptied'
  BY DEF TablesInv, Tables, RecentAreDone, Emptied, PortSteps
<1>. QED
  BY <1>3, <1>4, <1>5 DEF Tables

\* One row of the Port table is edited, its members stay.
LEMMA EditPortTables ==
    ASSUME TablesInv, NEW p \in Lags, NEW r \in Row, NEW command,
           EditPort(command, p, r), r.members = rows[p].members
    PROVE  Tables'
<1>1. /\ task.at = "idle" /\ UNCHANGED <<ports, ifs, task, recent, keys, links>>
      /\ rows' = [rows EXCEPT ![p] = r] /\ changed' = [changed EXCEPT !.ports = @ \cup {p}]
  BY DEF EditPort, Edit, cache
<1>2. changed'.ports = changed.ports \cup {p} /\ changed'.ifs = changed.ifs
  <2>1. changed \in [ports : SUBSET Lags, ifs : SUBSET Ifaces]
    BY TypesNow DEF TablesInv, MembersInv
  <2>. QED
    BY <1>1, <2>1
<1>3. \A q \in Lags : rows'[q] = IF q = p THEN r ELSE rows[q]
  <2>1. rows \in [Lags -> Row]
    BY TypesNow DEF TablesInv, MembersInv
  <2>. QED
    BY <1>1, <2>1
<1>4. \A q \in Lags : \A j \in rows'[q].members : keys'[j] = q
  BY <1>1, <1>3 DEF TablesInv, Tables, KeysTold
<1>. QED
  BY <1>1, <1>2, <1>3, <1>4, EditTables

\* An interface joins a LAG.
LEMMA JoinTables ==
    ASSUME TablesInv, NEW p \in Lags, NEW i \in Ifaces, lacp_add_intf_to_lag(p, i)
    PROVE  Tables'
<1>. DEFINE left == {q \in Lags \ {p} : i \in rows[q].members}
<1>1. /\ task.at = "idle" /\ UNCHANGED <<ports, ifs, task, recent, links>>
      /\ changed'.ports = changed.ports \cup {p} \cup left
      /\ changed'.ifs = changed.ifs \cup {i} /\ keys' = [keys EXCEPT ![i] = p]
  BY DEF lacp_add_intf_to_lag, Edit, cache
<1>2. \A j \in Ifaces : keys'[j] = IF j = i THEN p ELSE keys[j]
  <2>1. keys \in [Ifaces -> Nat]
    BY TypesNow DEF TablesInv, MembersInv
  <2>. QED
    BY <1>1, <2>1
<1>3. \A q \in Lags : /\ rows'[q].members = IF q = p THEN rows[q].members \cup {i}
                                            ELSE rows[q].members \ {i}
                      /\ rows'[q].present = rows[q].present /\ rows'[q].lacp = rows[q].lacp
                      /\ rows'[q].fast = rows[q].fast /\ rows'[q].sys = rows[q].sys
                      /\ rows'[q].fallback = rows[q].fallback
  <2>1. \A q \in Lags : rows[q] \in Row
    BY TypesNow DEF TablesInv, MembersInv
  <2>2. \A q \in Lags : rows'[q] = IF q = p THEN [rows[q] EXCEPT !.members = @ \cup {i}]
                                   ELSE [rows[q] EXCEPT !.members = @ \ {i}]
    BY DEF lacp_add_intf_to_lag
  <2>. QED
    BY <2>1, <2>2 DEF Row
<1>4. ASSUME NEW q \in Lags, NEW j \in rows'[q].members PROVE keys'[j] = q
  <2>1. CASE j = i
    <3>1. q = p
      BY <1>3, <1>4, <2>1
    <3>. QED
      BY <1>2, <2>1, <3>1
  <2>2. CASE j # i
    <3>1. j \in rows[q].members
      BY <1>3, <1>4, <2>2
    <3>2. j \in Ifaces
      BY <3>1, MemberTypes DEF TablesInv, MembersInv
    <3>. QED
      BY <1>2, <2>2, <3>1, <3>2 DEF TablesInv, Tables, KeysTold
  <2>. QED
    BY <2>1, <2>2
<1>. HIDE DEF left
<1>5. changed.ports \subseteq changed'.ports /\ changed.ifs \subseteq changed'.ifs
  BY <1>1
<1>6. \A j \in Ifaces : j \notin changed'.ifs => keys'[j] = keys[j] /\ links'[j] = links[j]
  BY <1>1, <1>2
<1>. QED
  BY <1>1, <1>3, <1>4, <1>5, <1>6, EditTables

\* Nothing is cached when lacpd starts, and every row counts as inserted.
LEMMA FreshTables ==
    ASSUME ports = [p \in Lags |-> NoPort], ifs = [i \in Ifaces |-> NoIface], recent = {},
           task = Idle, changed.ports = {p \in Lags : rows[p].present},
           \A p \in Lags : \A i \in rows[p].members : keys[i] = p
    PROVE  Tables
<1>1. \A p \in Lags : ~ports[p].cached /\ ports[p].cfg = {}
  BY DEF NoPort
<1>2. \A i \in Ifaces : ~ifs[i].cached
  BY DEF NoIface
<1>3. task.at = "idle"
  BY DEF Idle
<1>4. RowsTold
  BY <1>1, <1>3 DEF RowsTold, Pends, PortSteps
<1>5. KeysTold
  BY <1>1, <1>2 DEF KeysTold
<1>6. RecentAreDone /\ Emptied
  BY <1>3 DEF RecentAreDone, Emptied, PortSteps
<1>. QED
  BY <1>4, <1>5, <1>6 DEF Tables

\* The administrator, and a restart.
LEMMA AdministrationTables ==
    ASSUME TablesInv, CarefulStep, Administration PROVE Tables'
<1>0. /\ rows \in [Lags -> Row] /\ changed \in [ports : SUBSET Lags, ifs : SUBSET Ifaces]
      /\ keys \in [Ifaces -> Nat] /\ links \in [Ifaces -> Nat]
      /\ \A p \in Lags : \A i \in rows[p].members : keys[i] = p
  BY TypesNow DEF TablesInv, MembersInv, Tables, KeysTold
<1>1. CASE Restart
  <2>1. /\ (ports = [p \in Lags |-> NoPort])' /\ (ifs = [i \in Ifaces |-> NoIface])'
        /\ (recent = {})' /\ (task = Idle)' /\ (changed.ports = {p \in Lags : rows[p].present})'
        /\ (\A p \in Lags : \A i \in rows[p].members : keys[i] = p)'
    BY <1>0, <1>1 DEF Restart, Started
  <2>. QED
    BY <2>1, FreshTables, PTL
<1>2. ASSUME NEW p \in Lags, vtysh_intf_link_aggregation(p) PROVE Tables'
  <2>. DEFINE r == [NoRow EXCEPT !.present = TRUE]
  <2>1. r \in Row /\ r.members = {}
    BY ConfigAssumption DEF NoRow, Row, Modes
  <2>2. /\ task.at = "idle" /\ UNCHANGED <<ports, ifs, task, recent, keys, links>>
        /\ rows' = [rows EXCEPT ![p] = r] /\ changed' = [changed EXCEPT !.ports = @ \cup {p}]
    BY <1>2 DEF vtysh_intf_link_aggregation, Edit, cache
  <2>3. changed'.ports = changed.ports \cup {p} /\ changed'.ifs = changed.ifs
    BY <1>0, <2>2
  <2>. HIDE DEF r
  <2>4. \A q \in Lags : rows'[q] = IF q = p THEN r ELSE rows[q]
    BY <1>0, <2>2
  <2>5. \A q \in Lags : \A j \in rows'[q].members : keys'[j] = q
    BY <1>0, <2>1, <2>2, <2>4
  <2>. QED
    BY <2>2, <2>3, <2>4, <2>5, EditTables
<1>3. ASSUME NEW p \in Lags, delete_lag(p) PROVE Tables'
  <2>1. NoRow.members = {} /\ NoRow.present = FALSE
    BY DEF NoRow
  <2>2. /\ task.at = "idle" /\ UNCHANGED <<ports, ifs, task, recent, links>>
        /\ rows' = [rows EXCEPT ![p] = NoRow] /\ rows[p].present
        /\ keys' = [i \in Ifaces |-> IF i \in rows[p].members THEN NoLag ELSE keys[i]]
        /\ changed'.ports = changed.ports \cup {p} /\ changed.ifs \subseteq changed'.ifs
    BY <1>3 DEF delete_lag, Edit, cache
  <2>3. \A q \in Lags : rows'[q] = IF q = p THEN NoRow ELSE rows[q]
    BY <1>0, <2>2
  <2>4. rows[p].members = {}
    BY <2>1, <2>2, <2>3 DEF CarefulStep
  <2>5. \A j \in Ifaces : keys'[j] = keys[j]
    BY <2>2, <2>4
  <2>6. \A q \in Lags : rows[q].members \subseteq Ifaces
    BY <1>0 DEF Row
  <2>7. \A q \in Lags : \A j \in rows'[q].members : keys'[j] = q
    BY <1>0, <2>1, <2>3, <2>5, <2>6
  <2>. QED
    BY <2>2, <2>3, <2>5, <2>7, EditTables
<1>4. ASSUME NEW p \in Lags, NEW mode \in Modes, lacp_set_mode(p, mode) PROVE Tables'
  <2>. DEFINE r == [rows[p] EXCEPT !.lacp = mode]
  <2>1. r \in Row /\ r.members = rows[p].members
    BY <1>0 DEF Row
  <2>2. EditPort(IF mode = "off" THEN "off" ELSE "mode", p, r)
    BY <1>4 DEF lacp_set_mode
  <2>. HIDE DEF r
  <2>. QED
    BY <2>1, <2>2, EditPortTables
<1>5. ASSUME NEW p \in Lags, lacp_set_fallback(p) PROVE Tables'
  <2>. DEFINE r == [rows[p] EXCEPT !.fallback = ~@]
  <2>1. r \in Row /\ r.members = rows[p].members
    BY <1>0 DEF Row
  <2>2. EditPort("fallback", p, r)
    BY <1>5 DEF lacp_set_fallback
  <2>. HIDE DEF r
  <2>. QED
    BY <2>1, <2>2, EditPortTables
<1>6. ASSUME NEW p \in Lags, lacp_set_heartbeat_rate(p) PROVE Tables'
  <2>. DEFINE r == [rows[p] EXCEPT !.fast = ~@]
  <2>1. r \in Row /\ r.members = rows[p].members
    BY <1>0 DEF Row
  <2>2. EditPort("rate", p, r)
    BY <1>6 DEF lacp_set_heartbeat_rate
  <2>. HIDE DEF r
  <2>. QED
    BY <2>1, <2>2, EditPortTables
<1>7. ASSUME NEW p \in Lags, NEW sys \in Systems, SetSystemId(p, sys) PROVE Tables'
  <2>. DEFINE r == [rows[p] EXCEPT !.sys = sys]
  <2>1. r \in Row /\ r.members = rows[p].members
    BY <1>0 DEF Row
  <2>2. EditPort("sys", p, r)
    BY <1>7 DEF SetSystemId
  <2>. HIDE DEF r
  <2>. QED
    BY <2>1, <2>2, EditPortTables
<1>8. ASSUME NEW p \in Lags, NEW i \in Ifaces, lacp_remove_intf_from_lag(p, i) PROVE Tables'
  <2>. DEFINE r == [rows[p] EXCEPT !.members = @ \ {i}]
  <2>1. r.members = rows[p].members \ {i}
    BY <1>0 DEF Row
  <2>2. /\ task.at = "idle" /\ UNCHANGED <<ports, ifs, task, recent, links>>
        /\ rows' = [rows EXCEPT ![p] = r] /\ keys' = [keys EXCEPT ![i] = NoLag]
        /\ changed'.ports = changed.ports \cup {p} /\ changed'.ifs = changed.ifs \cup {i}
        /\ i \in rows[p].members
    BY <1>0, <1>8 DEF lacp_remove_intf_from_lag, Edit, cache
  <2>. HIDE DEF r
  <2>3. /\ \A q \in Lags : rows'[q] = IF q = p THEN r ELSE rows[q]
        /\ \A j \in Ifaces : keys'[j] = IF j = i THEN NoLag ELSE keys[j]
    BY <1>0, <2>2
  <2>4. \A q \in Lags : i \notin rows'[q].members
    BY <2>1, <2>2, <2>3 DEF TablesInv, MembersInv, Belongs, RowsApart
  <2>5. ASSUME NEW q \in Lags, NEW j \in rows'[q].members PROVE keys'[j] = q
    <3>1. j # i /\ j \in rows[q].members
      BY <2>1, <2>3, <2>4, <2>5
    <3>2. j \in Ifaces
      BY <1>0, <3>1 DEF Row
    <3>. QED
      BY <1>0, <2>3, <3>1, <3>2
  <2>. QED
    BY <2>2, <2>3, <2>5, EditTables
<1>9. ASSUME NEW i \in Ifaces, NEW link \in Speeds \cup {0}, LinkChanges(i, link) PROVE Tables'
  <2>1. /\ task.at = "idle" /\ UNCHANGED <<ports, ifs, task, recent, rows, keys>>
        /\ changed' = [changed EXCEPT !.ifs = @ \cup {i}] /\ links' = [links EXCEPT ![i] = link]
    BY <1>9 DEF LinkChanges, Edit, cache
  <2>2. changed'.ports = changed.ports /\ changed'.ifs = changed.ifs \cup {i}
    BY <1>0, <2>1
  <2>3. \A j \in Ifaces : j # i => links'[j] = links[j]
    BY <1>0, <2>1
  <2>. QED
    BY <1>0, <2>1, <2>2, <2>3, EditTables
<1>. QED
  BY <1>1, <1>2, <1>3, <1>4, <1>5, <1>6, <1>7, <1>8, <1>9, JoinTables DEF Administration

\* Every step preserves the invariant.
LEMMA TablesNext == TablesInv /\ [Next]_vars /\ [CarefulStep]_vars => TablesInv'
<1>. SUFFICES ASSUME TablesInv, [Next]_vars, [CarefulStep]_vars PROVE Tables'
  BY MembersNext DEF TablesInv
<1>1. CASE lacpd_run
  BY <1>1, NewInterfaceTables, InterfaceTables, RemoveTables, IneligibleTables, AddTables,
     UpdateTables, DeletedTables, NewPortTables, StartTables, PassTables, ModeTables, FinishTables
     DEF lacpd_run
<1>2. CASE UNCHANGED vars
  <2>1. UNCHANGED <<rows, keys, links, recent, task, changed, ports, ifs>>
    BY <1>2 DEF vars, table, cache
  <2>2. (\A q : Pends(q)' <=> Pends(q)) /\ (\A j : Fresh(j)' <=> Fresh(j))
    BY <2>1 DEF Pends, Fresh
  <2>. QED
    BY <2>1, <2>2 DEF TablesInv, Tables, RowsTold, KeysTold, RecentAreDone, Emptied
<1>3. CASE Administration /\ ~UNCHANGED vars
  BY <1>3, AdministrationTables
<1>. QED
  BY <1>1, <1>2, <1>3, ProtocolTables DEF Next

\* It holds when lacpd starts, if the rows are apart.
LEMMA TablesInit == Init /\ RowsApart => TablesInv
<1>. SUFFICES ASSUME Init, RowsApart PROVE Tables
  BY MembersInit DEF TablesInv
<1>1. ASSUME NEW p \in Lags, NEW i \in rows[p].members PROVE keys[i] = p
  <2>. DEFINE in == {q \in Lags : i \in rows[q].members}
  <2>1. in = {p}
    BY <1>1 DEF RowsApart
  <2>2. i \in Ifaces
    BY ConfigAssumption DEF Init, Row
  <2>3. keys[i] = IF in = {} THEN NoLag ELSE CHOOSE q \in in : TRUE
    BY <2>2 DEF Init
  <2>. HIDE DEF in
  <2>4. (CHOOSE q \in in : TRUE) \in in
    BY <2>1
  <2>. QED
    BY <2>1, <2>3, <2>4
<1>. QED
  BY <1>1, FreshTables DEF Init
=============================================================================

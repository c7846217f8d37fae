--------------------------- MODULE SuperPortProofs --------------------------
(***************************************************************************)
(* The safety invariants of SuperPort, for every number of ports, every    *)
(* assignment of priorities and speeds, and every set of partners.         *)
(*                                                                         *)
(* A handler of one port is a chain of calls, each of which maps a state   *)
(* to a state and may reach every other port.  The invariant is therefore  *)
(* a predicate on states, Fit(S), and a lemma says of each call that it    *)
(* keeps Fit, or one of the weaker predicates that hold in the middle of a *)
(* handler:                                                                *)
(*                                                                         *)
(*   Shape(S)    the super port's partner is being replaced: ports may be  *)
(*               selected whose partner is no longer the super port's;     *)
(*   Sound(S)    partner and selected ports agree again;                   *)
(*   Half(S, p)  sound, but p's partner is new and p is still in the LAG   *)
(*               of the old one, which LAG_selection is about to repair;   *)
(*   Fit(S)      what holds between two handlers.                          *)
(*                                                                         *)
(* Most calls only take something from ports (Eases); those lemmas come    *)
(* first.  A port gains something in one place only, Settle, and the LAGs  *)
(* change in two, JoinLag and QuitLag.                                     *)
(***************************************************************************)
EXTENDS SuperPort, FiniteSetTheorems, TLAPS

Lag == [id : LagId, members : SUBSET Ports, saved : BOOLEAN]

IsState(S) == S \in [ports : [Ports -> Lport], lags : SUBSET Lag, sport : Sport]

\* The LAGs: nonempty, of running ports, none of which is on two lists; and ports
\* with the same partner have found each other.
Listed(S) ==
    /\ \A lag \in S.lags : /\ lag.members # {}
                           /\ \A p \in lag.members : S.ports[p].lacp_up
    /\ \A lag, other \in S.lags : lag.members \cap other.members # {} => lag = other
    /\ \A lag, other \in S.lags :
           lag.id = other.id /\ lag.id.system # NoSystem => lag = other

\* The super port: its partner, if it has one, came with a speed, and is forgotten
\* with the parameters.
Known(S) ==
    /\ S.sport.known => S.sport.state \in {"SET", "FREED"} /\ S.sport.port_type # NoType
    /\ ~S.sport.known => S.sport.system = NoSystem

Released(S) == S.sport.known => \E lag \in S.lags : lag.saved

\* A port that holds the super port is in a LAG and past DETACHED.
Held(S, p) ==
    LET r == S.ports[p]
    IN  /\ r.mux # "DETACHED" <=> r.sport
        /\ r.sport => HasLag(S, p) /\ S.sport.known
        /\ r.selected => r.sport
        /\ r.peer.system = NoSystem => r.peer = NoPeer

\* The super port serves the partner of a selected port, at its speed.
Served(S, p) ==
    LET r == S.ports[p]
    IN  r.selected => /\ S.sport.system = r.peer.system
                      /\ S.sport.syspri = r.peer.syspri
                      /\ S.sport.key = r.peer.key
                      /\ S.sport.port_type = r.port_type

Silent(S, p) == S.ports[p].selected /\ S.ports[p].peer.system = NoSystem

\* The port is in a LAG with its own partner.
Named(S, p) == \A lag \in S.lags : p \in lag.members => lag.id.system = S.ports[p].peer.system

Joined(S) == {p \in Ports : S.ports[p].mux \in {"ATTACHED", "COLLECTING"}}

Counted(S, X) == S.sport.num_lports <= Cardinality(Joined(S) \ X)

\* What holds also while a call changes the super port's partner.
Shape(S) ==
    /\ IsState(S) /\ Listed(S) /\ Known(S)
    /\ \A p \in Ports : Held(S, p)

Sound(S) ==
    /\ Shape(S) /\ Released(S)
    /\ \A p \in Ports : Served(S, p)
    /\ \A p, q \in Ports : Silent(S, p) /\ Silent(S, q) => p = q

Fit(S) ==
    /\ Sound(S) /\ Counted(S, {})
    /\ \A p \in Ports : Named(S, p)

Inv == Fit(State)

(***************************************************************************)
(* Numbers and sets of ports.                                              *)
(***************************************************************************)

\* A set of priorities or of ports has a least one.
LEMMA LeastIn ==
    ASSUME NEW Q, Q \subseteq Nat, Q # {}
    PROVE  Least(Q) \in Q
<1>. DEFINE R == {ss \in Nat \X Nat : ss[1] < ss[2]}
<1>1. IsWellFoundedOn(R, Nat)
  BY NatLessThanWellFounded DEF OpToRel
<1>2. PICK x \in Q : \A y \in Q : ~(<<y, x>> \in R)
  <2>. HIDE DEF R
  <2>. QED
    BY <1>1, WFMin, Zenon
<1>3. ASSUME NEW y \in Q PROVE x <= y
  <2>1. x \in Nat /\ y \in Nat
    OBVIOUS
  <2>2. <<y, x>> \in Nat \X Nat /\ <<y, x>>[1] = y /\ <<y, x>>[2] = x
    BY <2>1
  <2>3. ~(y < x)
    BY <1>2, <2>2
  <2>. QED
    BY <2>1, <2>3
<1>. QED
  BY <1>2, <1>3 DEF Least

\* Sets of ports can be counted.
LEMMA PortSets ==
    ASSUME NEW Q \in SUBSET Ports
    PROVE  IsFiniteSet(Q) /\ Cardinality(Q) \in Nat
<1>1. IsFiniteSet(Ports)
  BY SuperPortAssumption, FS_Interval DEF Ports
<1>2. IsFiniteSet(Q)
  BY <1>1, FS_Subset
<1>. QED
  BY <1>2, FS_CardinalityType

\* A set of ports is no larger than two that cover it.
LEMMA Cover ==
    ASSUME NEW A \in SUBSET Ports, NEW B \in SUBSET Ports, NEW C \in SUBSET Ports,
           A \subseteq B \cup C
    PROVE  Cardinality(A) <= Cardinality(B) + Cardinality(C)
<1>1. /\ IsFiniteSet(B) /\ Cardinality(B) \in Nat
      /\ IsFiniteSet(C) /\ Cardinality(C) \in Nat
      /\ Cardinality(A) \in Nat
      /\ IsFiniteSet(B \cup C) /\ Cardinality(B \cup C) \in Nat
      /\ Cardinality(B \cap C) \in Nat
  BY PortSets
<1>2. Cardinality(B \cup C) = Cardinality(B) + Cardinality(C) - Cardinality(B \cap C)
  BY <1>1, FS_Union
<1>3. Cardinality(A) <= Cardinality(B \cup C)
  BY <1>1, FS_Subset
<1>. QED
  BY <1>1, <1>2, <1>3

(***************************************************************************)
(* Calls that take something from ports, or change what selection does not *)
(* read.                                                                   *)
(***************************************************************************)

\* What selection reads of a super port, besides the priorities and the count.
SameSport(s, t) ==
    /\ t.state = s.state /\ t.port_type = s.port_type
    /\ t.known = s.known /\ t.system = s.system /\ t.syspri = s.syspri /\ t.key = s.key

\* Port variables t come after r: nothing is gained, and a port that stays selected
\* has the same partner and speed.
Eased(r, t) ==
    /\ t.lacp_up = r.lacp_up
    /\ t.mux # "DETACHED" <=> t.sport
    /\ t.sport => r.sport
    /\ t.peer.system = NoSystem => t.peer = NoPeer
    /\ t.selected => /\ r.selected /\ t.sport
                     /\ t.peer = r.peer /\ t.port_type = r.port_type

Eases(S, T) ==
    /\ IsState(T) /\ T.lags = S.lags /\ SameSport(S.sport, T.sport)
    /\ \A p \in Ports : Eased(S.ports[p], T.ports[p])

\* Such a call keeps the shape of a state, and serves whom it served before.
LEMMA EasesShape ==
    ASSUME NEW S, NEW T, Shape(S), Eases(S, T)
    PROVE  /\ Shape(T)
           /\ Released(S) => Released(T)
           /\ \A q \in Ports : /\ HasLag(T, q) = HasLag(S, q)
                               /\ T.ports[q].peer = S.ports[q].peer
                                    => Named(T, q) = Named(S, q)
                               /\ Served(S, q) => Served(T, q)
                               /\ Silent(T, q) => Silent(S, q)
<1>1. \A q \in Ports : HasLag(T, q) = HasLag(S, q)
  BY DEF HasLag, Eases
<1>2. Listed(T)
  <2>1. \A lag \in S.lags : lag.members \subseteq Ports
    BY DEF Shape, IsState, Lag
  <2>2. \A q \in Ports : T.ports[q].lacp_up = S.ports[q].lacp_up
    BY DEF Eases, Eased
  <2>3. T.lags = S.lags /\ Listed(S)
    BY DEF Eases, Shape
  <2>. QED
    BY <2>1, <2>2, <2>3 DEF Listed
<1>3. Known(T)
  BY DEF Shape, Eases, SameSport, Known
<1>4. ASSUME NEW q \in Ports PROVE Held(T, q)
  BY <1>1 DEF Shape, Eases, Eased, SameSport, Held
<1>5. ASSUME NEW q \in Ports PROVE Served(S, q) => Served(T, q)
  BY DEF Eases, Eased, SameSport, Served
<1>6. ASSUME NEW q \in Ports PROVE Silent(T, q) => Silent(S, q)
  BY DEF Eases, Eased, Silent
<1>7. ASSUME NEW q \in Ports, T.ports[q].peer = S.ports[q].peer
      PROVE  Named(T, q) = Named(S, q)
  BY <1>7 DEF Eases, Named
<1>8. Shape(T)
  BY <1>2, <1>3, <1>4 DEF Shape, Eases
<1>9. Released(S) => Released(T)
  BY DEF Eases, SameSport, Released
<1>. QED
  BY <1>1, <1>5, <1>6, <1>7, <1>8, <1>9

\* A sound state stays sound.
LEMMA EasesSound ==
    ASSUME NEW S, NEW T, Sound(S), Eases(S, T)
    PROVE  Sound(T)
<1>1. Shape(S) /\ Released(S)
  BY DEF Sound
<1>2. /\ Shape(T) /\ Released(T)
      /\ \A q \in Ports : /\ Served(S, q) => Served(T, q)
                          /\ Silent(T, q) => Silent(S, q)
  BY <1>1, EasesShape
<1>. QED
  BY <1>2 DEF Sound

\* The count is right when every port that leaves has been counted down.
LEMMA CountDown ==
    ASSUME NEW S, NEW T, IsState(S), IsState(T), NEW X, Counted(S, X),
           NEW L \in SUBSET Ports,
           T.sport.num_lports = S.sport.num_lports - Cardinality(L),
           Joined(S) \subseteq Joined(T) \cup L
    PROVE  Counted(T, X)
<1>1. /\ Joined(S) \ X \in SUBSET Ports /\ Joined(T) \ X \in SUBSET Ports
      /\ Joined(S) \ X \subseteq (Joined(T) \ X) \cup L
  BY DEF Joined
<1>2. Cardinality(Joined(S) \ X) <= Cardinality(Joined(T) \ X) + Cardinality(L)
  BY <1>1, Cover
<1>3. /\ Cardinality(Joined(S) \ X) \in Nat /\ Cardinality(Joined(T) \ X) \in Nat
      /\ Cardinality(L) \in Nat
  BY <1>1, PortSets
<1>4. S.sport.num_lports \in Int
  BY DEF IsState, Sport
<1>. QED
  BY <1>2, <1>3, <1>4 DEF Counted

\* So it is when no port is attached or detached.
LEMMA CountKept ==
    ASSUME NEW S, NEW T, NEW X, Counted(S, X),
           T.sport.num_lports = S.sport.num_lports, Joined(T) = Joined(S)
    PROVE  Counted(T, X)
BY DEF Counted

\* S with r at port p.
Put(S, p, r) == [S EXCEPT !.ports[p] = r]

\* It is a state, and no other port changes.
LEMMA PutState ==
    ASSUME NEW S, IsState(S), NEW p \in Ports, NEW r \in Lport
    PROVE  /\ IsState(Put(S, p, r)) /\ Put(S, p, r).lags = S.lags
           /\ Put(S, p, r).sport = S.sport
           /\ Put(S, p, r).ports[p] = r
           /\ \A q \in Ports \ {p} : Put(S, p, r).ports[q] = S.ports[q]
BY DEF IsState, Put

\* A change of one port that gains nothing leaves a sound state, and the count right
\* if the port stays attached or detached.
LEMMA PutEases ==
    ASSUME NEW S, NEW T, Sound(S), NEW p \in Ports, NEW r \in Lport, T = Put(S, p, r),
           Eased(S.ports[p], r)
    PROVE  /\ Sound(T) /\ T.ports[p] = r
           /\ \A q \in Ports : HasLag(T, q) = HasLag(S, q)
           /\ \A q \in Ports \ {p} : Named(T, q) = Named(S, q)
           /\ r.peer = S.ports[p].peer => Named(T, p) = Named(S, p)
           /\ (r.mux \in {"ATTACHED", "COLLECTING"}
                 <=> S.ports[p].mux \in {"ATTACHED", "COLLECTING"})
              => \A X : Counted(S, X) => Counted(T, X)
<1>1. /\ T.ports[p] = r /\ \A q \in Ports \ {p} : T.ports[q] = S.ports[q]
      /\ T.lags = S.lags /\ T.sport = S.sport
  BY PutState DEF Sound, Shape
<1>2. IsState(T)
  BY PutState DEF Sound, Shape
<1>3. ASSUME NEW q \in Ports PROVE Eased(S.ports[q], T.ports[q])
  <2>1. CASE q = p
    BY <1>1, <2>1
  <2>2. CASE q # p
    <3>1. Held(S, q) /\ T.ports[q] = S.ports[q]
      BY <1>1, <2>2 DEF Sound, Shape
    <3>. QED
      BY <3>1 DEF Held, Eased
  <2>. QED
    BY <2>1, <2>2
<1>4. Eases(S, T)
  BY <1>1, <1>2, <1>3 DEF Eases, SameSport
<1>5. ASSUME NEW X, Counted(S, X),
             r.mux \in {"ATTACHED", "COLLECTING"}
               <=> S.ports[p].mux \in {"ATTACHED", "COLLECTING"}
      PROVE  Counted(T, X)
  <2>1. Joined(T) = Joined(S)
    BY <1>1, <1>5 DEF Joined
  <2>. QED
    BY <1>1, <1>5, <2>1, CountKept
<1>6. Sound(T) /\ Shape(S)
  BY <1>4, EasesSound DEF Sound
<1>. QED
  BY <1>1, <1>4, <1>5, <1>6, EasesShape

(***************************************************************************)
(* Ports that lose their selection.                                        *)
(***************************************************************************)

\* T comes from S by taking the super port from the ports of Q.
Lost(S, T, Q) ==
    /\ Eases(S, T)
    /\ \A q \in Ports : /\ T.ports[q].peer = S.ports[q].peer
                        /\ T.ports[q].port_type = S.ports[q].port_type
    /\ \A q \in Q : /\ ~T.ports[q].selected /\ ~T.ports[q].sport
                    /\ T.ports[q].mux = "DETACHED"
    /\ \A X : Counted(S, X) => Counted(T, X)

\* New port variables and a new count, and nothing else.
Moved(S, f, n) == [S EXCEPT !.ports = f, !.sport.num_lports = @ - n]

\* This is a state again.
LEMMA MovedState ==
    ASSUME NEW S, IsState(S), NEW f \in [Ports -> Lport], NEW n \in Int
    PROVE  /\ IsState(Moved(S, f, n))
           /\ Moved(S, f, n).lags = S.lags /\ Moved(S, f, n).ports = f
           /\ SameSport(S.sport, Moved(S, f, n).sport)
           /\ Moved(S, f, n).sport.num_lports = S.sport.num_lports - n
<1>. DEFINE t == [S.sport EXCEPT !.num_lports = @ - n]
<1>1. /\ t \in Sport /\ SameSport(S.sport, t) /\ t.num_lports = S.sport.num_lports - n
  <2>1. S.sport \in Sport
    BY DEF IsState
  <2>. QED
    BY <2>1 DEF Sport, SameSport
<1>2. /\ Moved(S, f, n).lags = S.lags /\ Moved(S, f, n).ports = f
      /\ Moved(S, f, n).sport = t
  BY DEF IsState, Moved
<1>3. Moved(S, f, n) = [S EXCEPT !.ports = f, !.sport = t]
  BY DEF Moved
<1>. HIDE DEF t
<1>4. IsState([S EXCEPT !.ports = f, !.sport = t])
  BY <1>1 DEF IsState
<1>. QED
  BY <1>1, <1>2, <1>3, <1>4

Posted(S, f) == [S EXCEPT !.ports = f]

\* So it is when the count stays.
LEMMA PostedState ==
    ASSUME NEW S, IsState(S), NEW f \in [Ports -> Lport]
    PROVE  /\ IsState(Posted(S, f)) /\ Posted(S, f).lags = S.lags
           /\ Posted(S, f).ports = f /\ Posted(S, f).sport = S.sport
BY DEF IsState, Posted

\* Detaching finds the super port for every port that holds it.
LEMMA UnselectLost ==
    ASSUME NEW S, Shape(S), S.sport.state # "FREED", NEW Q \in SUBSET Ports
    PROVE  /\ Lost(S, Unselect(S, Q), Q)
           /\ Lost(S, Evict(S, Q), Q)
<1>. DEFINE left == {p \in Q : /\ S.ports[p].mux # "DETACHED"
                               /\ HasLag(S, p) /\ Reaches(S, p)}
            Drop(p) == [S.ports[p] EXCEPT !.selected = FALSE, !.mux = "DETACHED",
                                          !.sport = @ /\ p \notin left]
            f == [p \in Ports |-> IF p \in Q THEN Drop(p) ELSE S.ports[p]]
            T == Unselect(S, Q)
            g == [p \in Ports |-> [T.ports[p] EXCEPT !.ready_n = @ /\ p \notin Q]]
            U == Evict(S, Q)
<1>0. IsState(S)
  BY DEF Shape
<1>1. left \in SUBSET Ports /\ Cardinality(left) \in Nat
  BY PortSets
<1>2. \A p \in Q : p \in left <=> S.ports[p].sport
  BY DEF Shape, Known, Held, Reaches, mvlan_get_sport
<1>3. f \in [Ports -> Lport]
  <2>1. ASSUME NEW p \in Ports PROVE Drop(p) \in Lport /\ S.ports[p] \in Lport
    <3>1. S.ports[p] \in Lport
      BY <1>0 DEF IsState
    <3>. HIDE DEF left
    <3>. QED
      BY <3>1 DEF Lport
  <2>. QED
    BY <2>1
<1>4. /\ IsState(T) /\ T.lags = S.lags /\ T.ports = f
      /\ SameSport(S.sport, T.sport)
      /\ T.sport.num_lports = S.sport.num_lports - Cardinality(left)
  <2>1. T = Moved(S, f, Cardinality(left))
    BY DEF Unselect, Moved
  <2>. HIDE DEF T, f, left
  <2>2. Cardinality(left) \in Int
    BY <1>1
  <2>. QED
    BY <1>0, <1>3, <2>1, <2>2, MovedState
<1>5. /\ IsState(U) /\ U.lags = S.lags /\ U.ports = g /\ U.sport = T.sport
  <2>1. U = Posted(T, g)
    BY DEF Evict, Posted
  <2>. HIDE DEF T, U
  <2>2. ASSUME NEW p \in Ports
        PROVE  [T.ports[p] EXCEPT !.ready_n = @ /\ p \notin Q] \in Lport
    <3>1. T.ports[p] \in Lport
      BY <1>4 DEF IsState
    <3>. QED
      BY <3>1 DEF Lport
  <2>3. g \in [Ports -> Lport]
    BY <2>2
  <2>. HIDE DEF g
  <2>. QED
    BY <1>4, <2>1, <2>3, PostedState
<1>. HIDE DEF T, U
<1>6. ASSUME NEW p \in Ports
      PROVE  /\ T.ports[p] \in Lport /\ Eased(S.ports[p], T.ports[p])
             /\ T.ports[p].peer = S.ports[p].peer
             /\ T.ports[p].port_type = S.ports[p].port_type
             /\ p \in Q => /\ ~T.ports[p].selected /\ ~T.ports[p].sport
                           /\ T.ports[p].mux = "DETACHED"
             /\ p \notin Q => T.ports[p] = S.ports[p]
  <2>0. S.ports[p] \in Lport /\ Held(S, p)
    BY <1>0 DEF IsState, Shape
  <2>1. CASE p \in Q
    <3>1. /\ T.ports[p] = [S.ports[p] EXCEPT !.selected = FALSE, !.mux = "DETACHED",
                                             !.sport = FALSE]
      BY <1>2, <1>4, <2>0, <2>1 DEF Lport
    <3>. QED
      BY <2>0, <2>1, <3>1 DEF Lport, Eased, Held
  <2>2. CASE p \notin Q
    <3>1. T.ports[p] = S.ports[p]
      BY <1>4, <2>2
    <3>. QED
      BY <2>0, <2>2, <3>1 DEF Eased, Held
  <2>. QED
    BY <2>1, <2>2
<1>7. ASSUME NEW p \in Ports
      PROVE  /\ U.ports[p] \in Lport /\ Eased(S.ports[p], U.ports[p])
             /\ U.ports[p].peer = S.ports[p].peer
             /\ U.ports[p].port_type = S.ports[p].port_type
             /\ U.ports[p].mux = T.ports[p].mux
             /\ p \in Q => /\ ~U.ports[p].selected /\ ~U.ports[p].sport
                           /\ U.ports[p].mux = "DETACHED"
  <2>1. U.ports[p] = [T.ports[p] EXCEPT !.ready_n = @ /\ p \notin Q]
    BY <1>5
  <2>. QED
    BY <1>6, <2>1 DEF Lport, Eased
<1>8. Eases(S, T) /\ Eases(S, U)
  BY <1>4, <1>5, <1>6, <1>7 DEF Eases
<1>9. Joined(S) \subseteq Joined(T) \cup left
  <2>1. ASSUME NEW p \in Joined(S), p \notin left PROVE p \in Joined(T)
    <3>1. p \in Ports /\ S.ports[p].mux \in {"ATTACHED", "COLLECTING"} /\ Held(S, p)
      BY DEF Joined, Shape
    <3>2. p \notin Q
      BY <1>2, <2>1, <3>1 DEF Held
    <3>. QED
      BY <1>6, <3>1, <3>2 DEF Joined
  <2>. QED
    BY <2>1
<1>10. Joined(U) = Joined(T) /\ U.sport = T.sport
  BY <1>5, <1>7 DEF Joined
<1>11. ASSUME NEW X, Counted(S, X) PROVE Counted(T, X) /\ Counted(U, X)
  <2>1. Counted(T, X)
    <3>. HIDE DEF left
    <3>. QED
      BY <1>0, <1>1, <1>4, <1>9, <1>11, CountDown
  <2>. QED
    BY <1>10, <2>1, CountKept
<1>12. Lost(S, T, Q)
  BY <1>6, <1>8, <1>11 DEF Lost
<1>13. Lost(S, U, Q)
  BY <1>7, <1>8, <1>11 DEF Lost
<1>. QED
  BY <1>12, <1>13 DEF T, U

\* When all holders lose the super port, no port has it.
LEMMA AllLost ==
    ASSUME NEW S, Shape(S), NEW T, Lost(S, T, Holders(S))
    PROVE  \A q \in Ports : ~T.ports[q].selected /\ ~T.ports[q].sport
<1>1. ASSUME NEW q \in Ports, q \notin Holders(S) PROVE ~S.ports[q].sport
  BY <1>1 DEF Holders, Shape, Held, HasLag, Listed
<1>2. ASSUME NEW q \in Ports PROVE ~T.ports[q].selected /\ ~T.ports[q].sport
  <2>1. Eased(S.ports[q], T.ports[q])
    BY DEF Lost, Eases
  <2>. QED
    BY <1>1, <2>1 DEF Lost, Eased
<1>. QED
  BY <1>2

\* Losing ports keeps all that holds of a state between two calls.
LEMMA LostFit ==
    ASSUME NEW S, NEW T, NEW Q, Sound(S), Lost(S, T, Q)
    PROVE  /\ Sound(T)
           /\ \A q \in Ports : /\ HasLag(T, q) = HasLag(S, q)
                               /\ Named(T, q) = Named(S, q)
           /\ Fit(S) => Fit(T)
<1>1. Eases(S, T) /\ Shape(S)
  BY DEF Lost, Sound
<1>2. Sound(T)
  BY <1>1, EasesSound
<1>3. \A q \in Ports : /\ HasLag(T, q) = HasLag(S, q)
                       /\ Named(T, q) = Named(S, q)
  BY <1>1, EasesShape DEF Lost
<1>4. Fit(S) => Fit(T)
  BY <1>2, <1>3 DEF Fit, Lost
<1>. QED
  BY <1>2, <1>3, <1>4

\* Priorities of the super port change nothing of this.
LEMMA RankFit ==
    ASSUME NEW S, NEW T, Sound(S), IsState(T), T.ports = S.ports, T.lags = S.lags,
           SameSport(S.sport, T.sport), T.sport.num_lports = S.sport.num_lports
    PROVE  Lost(S, T, {})
<1>1. Eases(S, T)
  BY DEF Sound, Shape, Held, Eases, Eased
<1>2. Joined(T) = Joined(S)
  BY DEF Joined
<1>3. \A X : Counted(S, X) => Counted(T, X)
  BY <1>2, CountKept
<1>. QED
  BY <1>1, <1>3 DEF Lost

(***************************************************************************)
(* The super port changes.                                                 *)
(***************************************************************************)

Resport(S, t) == [S EXCEPT !.sport = t]

\* S with another super port, whose ports and LAGs stay.
LEMMA ResportState ==
    ASSUME NEW S, IsState(S), NEW t \in Sport
    PROVE  /\ IsState(Resport(S, t)) /\ Resport(S, t).lags = S.lags
           /\ Resport(S, t).ports = S.ports /\ Resport(S, t).sport = t
BY DEF IsState, Resport

\* The fields that hold the partner.
Forgotten(s) ==
    [s EXCEPT !.known = FALSE, !.system = NoSystem, !.syspri = 0,
              !.key = 0, !.actor_max = 0, !.partner_max = 0]

\* They are typed, and the rest of the super port stays.
LEMMA ForgottenSport ==
    ASSUME NEW s \in Sport
    PROVE  /\ Forgotten(s) \in Sport /\ ~Forgotten(s).known
           /\ Forgotten(s).system = NoSystem
           /\ Forgotten(s).state = s.state /\ Forgotten(s).num_lports = s.num_lports
BY DEF Sport, Forgotten

\* A super port without a partner that nobody holds is sound, whatever it was.
LEMMA NobodyHolds ==
    ASSUME NEW S, NEW T, Shape(S), \A q \in Ports : ~S.ports[q].sport,
           IsState(T), T.ports = S.ports, T.lags = S.lags, Known(T), Released(T)
    PROVE  Sound(T)
<1>1. \A q \in Ports : HasLag(T, q) = HasLag(S, q)
  BY DEF HasLag
<1>2. Listed(T)
  BY DEF Shape, Listed
<1>3. \A q \in Ports : Held(T, q) /\ ~T.ports[q].selected
  BY <1>1 DEF Shape, Held
<1>. QED
  BY <1>2, <1>3 DEF Sound, Shape, Served, Silent

\* Clearing the super port takes it from all ports.
LEMMA ClearFit ==
    ASSUME NEW S, Sound(S), S.sport.state # "FREED",
           NEW T, T = mvlan_api_clear_sport_params(S)
    PROVE  /\ Sound(T) /\ ~T.sport.known /\ T.sport.state = S.sport.state
           /\ T.lags = S.lags
           /\ \A q \in Ports : /\ T.ports[q].peer = S.ports[q].peer
                               /\ T.ports[q].lacp_up = S.ports[q].lacp_up
                               /\ ~T.ports[q].sport
                               /\ Named(T, q) = Named(S, q)
           /\ \A X : Counted(S, X) => Counted(T, X)
<1>1. CASE S.sport.state # "SET"
  <2>1. T = S
    BY <1>1 DEF mvlan_api_clear_sport_params
  <2>2. ~S.sport.known /\ \A q \in Ports : ~S.ports[q].sport
    BY <1>1 DEF Sound, Shape, Known, Held
  <2>. QED
    BY <2>1, <2>2
<1>2. CASE S.sport.state = "SET"
  <2>. DEFINE U == Evict(S, Holders(S))
  <2>1. Shape(S) /\ Holders(S) \in SUBSET Ports
    BY DEF Sound, Holders
  <2>2. Lost(S, U, Holders(S))
    BY <2>1, UnselectLost
  <2>3. T = Resport(U, Forgotten(U.sport))
    BY <1>2 DEF mvlan_api_clear_sport_params, Resport, Forgotten
  <2>. HIDE DEF U
  <2>4. /\ Sound(U) /\ Shape(U)
        /\ \A q \in Ports : Named(U, q) = Named(S, q)
    BY <2>2, LostFit DEF Sound
  <2>5. \A q \in Ports : ~U.ports[q].sport
    BY <2>1, <2>2, AllLost
  <2>6. IsState(U) /\ U.sport \in Sport
    BY <2>4 DEF Shape, IsState
  <2>7. /\ IsState(T) /\ T.lags = U.lags /\ T.ports = U.ports
        /\ T.sport = Forgotten(U.sport)
    BY <2>3, <2>6, ForgottenSport, ResportState
  <2>8. /\ ~T.sport.known /\ T.sport.system = NoSystem /\ T.sport.state = U.sport.state
        /\ T.sport.num_lports = U.sport.num_lports
    BY <2>6, <2>7, ForgottenSport
  <2>9. Known(T) /\ Released(T)
    BY <2>8 DEF Known, Released
  <2>10. Sound(T)
    BY <2>4, <2>5, <2>7, <2>9, NobodyHolds
  <2>11. \A q \in Ports : Named(T, q) = Named(U, q)
    BY <2>7 DEF Named
  <2>12. \A X : Counted(S, X) => Counted(T, X)
    <3>1. Joined(T) = Joined(U)
      BY <2>7 DEF Joined
    <3>. QED
      BY <2>2, <2>8, <3>1, CountKept DEF Lost
  <2>13. /\ U.lags = S.lags /\ U.sport.state = S.sport.state
         /\ \A q \in Ports : /\ U.ports[q].peer = S.ports[q].peer
                             /\ U.ports[q].lacp_up = S.ports[q].lacp_up
    BY <2>2 DEF Lost, Eases, Eased, SameSport
  <2>. QED
    BY <2>4, <2>5, <2>7, <2>8, <2>10, <2>11, <2>12, <2>13
<1>. QED
  BY <1>1, <1>2

(***************************************************************************)
(* A port is selected.                                                     *)
(***************************************************************************)

Relag(S, L) == [S EXCEPT !.lags = L]

\* S with other LAGs, whose ports and super port stay.
LEMMA RelagState ==
    ASSUME NEW S, IsState(S), NEW L \in SUBSET Lag
    PROVE  /\ IsState(Relag(S, L)) /\ Relag(S, L).lags = L
           /\ Relag(S, L).ports = S.ports /\ Relag(S, L).sport = S.sport
BY DEF IsState, Relag

\* A port's match with the super port's partner and speed.
Fits(S, p) ==
    LET r == S.ports[p]
    IN  /\ S.sport.system = r.peer.system /\ S.sport.syspri = r.peer.syspri
        /\ S.sport.key = r.peer.key /\ S.sport.port_type = r.port_type

\* A selected port starts to wait; its LAG has saved the super port's handle.
LEMMA SettleFit ==
    ASSUME NEW S, Shape(S), NEW p \in Ports, HasLag(S, p), Fits(S, p), S.sport.known,
           \A q \in Ports : Served(S, q), ~S.ports[p].selected,
           \A q, o \in Ports : Silent(S, q) /\ Silent(S, o) => q = o,
           S.ports[p].peer.system = NoSystem => \A q \in Ports : ~S.ports[q].selected,
           NEW T, T = Settle(S, p)
    PROVE  /\ Sound(T)
           /\ \A q \in Ports : Named(S, q) => Named(T, q)
           /\ \A X : Counted(S, X) => Counted(T, X)
<1>. DEFINE Save(lag) == IF p \in lag.members THEN [lag EXCEPT !.saved = TRUE] ELSE lag
            L == {Save(lag) : lag \in S.lags}
            r == S.ports[p]
            a == [r EXCEPT !.sport = TRUE, !.selected = TRUE]
            A == Relag(Put(S, p, a), L)
            b == [a EXCEPT !.mux = "WAITING", !.waiting = TRUE]
<1>1. IsState(S) /\ r \in Lport /\ Held(S, p)
  BY DEF Shape, IsState
<1>2. \A lag \in S.lags : /\ Save(lag) \in Lag /\ Save(lag).id = lag.id
                          /\ Save(lag).members = lag.members
                          /\ lag.saved => Save(lag).saved
                          /\ p \in lag.members => Save(lag).saved
  <2>1. ASSUME NEW lag \in S.lags
        PROVE  /\ Save(lag) \in Lag /\ Save(lag).id = lag.id
               /\ Save(lag).members = lag.members
               /\ lag.saved => Save(lag).saved
               /\ p \in lag.members => Save(lag).saved
    <3>1. lag \in Lag
      BY <1>1 DEF IsState
    <3>. QED
      BY <3>1 DEF Lag
  <2>. QED
    BY <2>1
<1>3. L \in SUBSET Lag
  BY <1>2
<1>4. a \in Lport /\ b \in Lport
  BY <1>1 DEF Lport
<1>5. /\ IsState(A) /\ A.lags = L /\ A.sport = S.sport /\ A.ports[p] = a
      /\ \A q \in Ports \ {p} : A.ports[q] = S.ports[q]
  <2>. DEFINE B == Put(S, p, a)
  <2>. HIDE DEF L, a
  <2>1. /\ IsState(B) /\ B.sport = S.sport /\ B.ports[p] = a
        /\ \A q \in Ports \ {p} : B.ports[q] = S.ports[q]
    BY <1>1, <1>4, PutState
  <2>2. A = Relag(B, L)
    OBVIOUS
  <2>. HIDE DEF A, B
  <2>. QED
    BY <1>3, <2>1, <2>2, RelagState
<1>6. T = MuxE1(A, p)
  BY <1>1 DEF Settle, Relag, Put, IsState
<1>7. A.ports[p].mux = r.mux
  BY <1>1, <1>5 DEF Lport
<1>8. T = IF r.mux = "DETACHED" THEN Put(A, p, b) ELSE A
  <2>1. CASE r.mux # "DETACHED"
    BY <1>6, <1>7, <2>1 DEF MuxE1
  <2>2. CASE r.mux = "DETACHED"
    <3>1. T = [A EXCEPT !.ports[p].mux = "WAITING", !.ports[p].waiting = TRUE]
      BY <1>6, <1>7, <2>2 DEF MuxE1
    <3>. HIDE DEF A
    <3>2. T = Put(A, p, [A.ports[p] EXCEPT !.mux = "WAITING", !.waiting = TRUE])
      BY <1>5, <3>1 DEF Put, IsState
    <3>. QED
      BY <1>5, <2>2, <3>2
  <2>. QED
    BY <2>1, <2>2
<1>9. \E t \in Lport :
        /\ IsState(T) /\ T.lags = L /\ T.sport = S.sport /\ T.ports[p] = t
        /\ \A q \in Ports \ {p} : T.ports[q] = S.ports[q]
        /\ t.lacp_up = r.lacp_up /\ t.peer = r.peer /\ t.port_type = r.port_type
        /\ t.selected /\ t.sport /\ t.mux = IF r.mux = "DETACHED" THEN "WAITING" ELSE r.mux
  <2>1. CASE r.mux # "DETACHED"
    <3>1. /\ a.lacp_up = r.lacp_up /\ a.peer = r.peer /\ a.port_type = r.port_type
          /\ a.selected /\ a.sport /\ a.mux = r.mux
      BY <1>1 DEF Lport
    <3>. HIDE DEF A, a, r, L
    <3>. QED
      BY <1>4, <1>5, <1>8, <2>1, <3>1
  <2>2. CASE r.mux = "DETACHED"
    <3>1. /\ b.lacp_up = r.lacp_up /\ b.peer = r.peer /\ b.port_type = r.port_type
          /\ b.selected /\ b.sport /\ b.mux = "WAITING"
      BY <1>1 DEF Lport
    <3>. HIDE DEF A, a, b, r, L
    <3>2. /\ IsState(T) /\ T.lags = A.lags /\ T.sport = A.sport /\ T.ports[p] = b
          /\ \A q \in Ports \ {p} : T.ports[q] = A.ports[q]
      BY <1>4, <1>5, <1>8, <2>2, PutState
    <3>. QED
      BY <1>4, <1>5, <2>2, <3>1, <3>2
  <2>. QED
    BY <2>1, <2>2
<1>. HIDE DEF A
<1>10. PICK t \in Lport :
        /\ IsState(T) /\ T.lags = L /\ T.sport = S.sport /\ T.ports[p] = t
        /\ \A q \in Ports \ {p} : T.ports[q] = S.ports[q]
        /\ t.lacp_up = r.lacp_up /\ t.peer = r.peer /\ t.port_type = r.port_type
        /\ t.selected /\ t.sport /\ t.mux = IF r.mux = "DETACHED" THEN "WAITING" ELSE r.mux
  BY <1>9
<1>. HIDE DEF Save
<1>11. \A q \in Ports : HasLag(T, q) = HasLag(S, q)
  BY <1>2, <1>10 DEF HasLag
<1>12. Listed(T)
  <2>1. \A lag \in S.lags : lag.members \subseteq Ports
    BY <1>1 DEF IsState, Lag
  <2>2. \A q \in Ports : T.ports[q].lacp_up = S.ports[q].lacp_up
    BY <1>10
  <2>3. Listed(S)
    BY DEF Shape
  <2>4. \A lag \in T.lags : /\ lag.members # {}
                            /\ \A q \in lag.members : T.ports[q].lacp_up
    BY <1>2, <1>10, <2>1, <2>2, <2>3 DEF Listed
  <2>5. ASSUME NEW lag \in T.lags, NEW other \in T.lags,
               \/ lag.members \cap other.members # {}
               \/ lag.id = other.id /\ lag.id.system # NoSystem
        PROVE  lag = other
    <3>1. PICK l \in S.lags : lag = Save(l)
      BY <1>10
    <3>2. PICK o \in S.lags : other = Save(o)
      BY <1>10
    <3>3. l = o
      BY <1>2, <2>3, <2>5, <3>1, <3>2 DEF Listed
    <3>. QED
      BY <3>1, <3>2, <3>3
  <2>. QED
    BY <2>4, <2>5 DEF Listed
<1>13. Known(T)
  BY <1>10 DEF Known, Shape
<1>14. Released(T)
  <2>1. PICK lag \in S.lags : p \in lag.members
    BY DEF HasLag
  <2>2. Save(lag) \in T.lags /\ Save(lag).saved
    BY <1>2, <1>10, <2>1
  <2>. QED
    BY <2>2 DEF Released
<1>15. ASSUME NEW q \in Ports PROVE Held(T, q) /\ Served(T, q)
  <2>1. CASE q = p
    BY <1>1, <1>10, <1>11, <2>1 DEF Held, Served, Fits
  <2>2. CASE q # p
    BY <1>10, <1>11, <2>2 DEF Shape, Held, Served
  <2>. QED
    BY <2>1, <2>2
<1>16. ASSUME NEW q \in Ports, NEW o \in Ports, Silent(T, q), Silent(T, o)
       PROVE  q = o
  <2>1. \A x \in Ports \ {p} : Silent(T, x) => Silent(S, x)
    BY <1>10 DEF Silent
  <2>2. ASSUME Silent(T, p), NEW x \in Ports, Silent(T, x) PROVE x = p
    BY <1>10, <2>2 DEF Silent
  <2>. QED
    BY <1>16, <2>1, <2>2
<1>17. Sound(T)
  BY <1>10, <1>12, <1>13, <1>14, <1>15, <1>16 DEF Sound, Shape
<1>18. ASSUME NEW q \in Ports, Named(S, q) PROVE Named(T, q)
  <2>1. T.ports[q].peer = S.ports[q].peer
    BY <1>10
  <2>. QED
    BY <1>2, <1>10, <1>18, <2>1 DEF Named
<1>19. Joined(T) = Joined(S)
  BY <1>10 DEF Joined
<1>20. ASSUME NEW X, Counted(S, X) PROVE Counted(T, X)
  BY <1>10, <1>19, <1>20, CountKept
<1>. QED
  BY <1>17, <1>18, <1>20

\* What an exact and a partial match say of the super port.
LEMMA MatchMeans ==
    ASSUME NEW S, Shape(S), NEW p \in Ports
    PROVE  /\ \A match : Matches(S, p, match) => S.sport.state = "SET"
           /\ Matches(S, p, "EXACT")
              => Fits(S, p) /\ S.sport.known /\ S.ports[p].peer.system # NoSystem
           /\ Matches(S, p, "PARTIAL") /\ S.sport.known
              => Fits(S, p) /\ S.ports[p].peer.system # NoSystem
<1>1. Known(S) /\ S.sport.known \in BOOLEAN
  BY DEF Shape, IsState, Sport
<1>2. \A match : Matches(S, p, match) => S.sport.state = "SET"
  BY DEF Matches
<1>3. Matches(S, p, "EXACT")
      => Fits(S, p) /\ S.sport.known /\ S.ports[p].peer.system # NoSystem
  BY <1>1 DEF Matches, mvlan_match_aggregator, Fits, Known
<1>4. Matches(S, p, "PARTIAL") /\ S.sport.known
      => Fits(S, p) /\ S.ports[p].peer.system # NoSystem
  BY <1>1 DEF Matches, mvlan_match_aggregator, Fits, Known
<1>. QED
  BY <1>2, <1>3, <1>4

\* An exact match changes the best priorities only.
LEMMA ImproveFit ==
    ASSUME NEW S, Sound(S), NEW p \in Ports, NEW T, T = Improve(S, p)
    PROVE  /\ Lost(S, T, {}) /\ T.ports = S.ports
           /\ SameSport(S.sport, T.sport)
<1>. DEFINE x == Least({S.sport.actor_max, Priority[p]})
            y == Least({S.sport.partner_max, S.ports[p].peer.portpri})
            t == [S.sport EXCEPT !.actor_max = x, !.partner_max = y]
<1>1. IsState(S) /\ S.sport \in Sport /\ S.ports[p] \in Lport
  BY DEF Sound, Shape, IsState
<1>2. T = Resport(S, t)
  BY <1>1 DEF Improve, Resport, IsState
<1>3. /\ S.sport.actor_max \in Nat /\ S.sport.partner_max \in Nat
      /\ Priority[p] \in Nat /\ S.ports[p].peer.portpri \in Nat
  BY <1>1, SuperPortAssumption DEF Sport, Lport, Peer
<1>4. x \in Nat /\ y \in Nat
  <2>1. /\ {S.sport.actor_max, Priority[p]} \subseteq Nat
        /\ {S.sport.partner_max, S.ports[p].peer.portpri} \subseteq Nat
    BY <1>3
  <2>. QED
    BY <2>1, LeastIn
<1>. HIDE DEF x, y
<1>5. t \in Sport /\ SameSport(S.sport, t) /\ t.num_lports = S.sport.num_lports
  BY <1>1, <1>4 DEF Sport, SameSport
<1>. HIDE DEF t
<1>6. /\ IsState(T) /\ T.lags = S.lags /\ T.ports = S.ports /\ T.sport = t
  BY <1>1, <1>2, <1>5, ResportState
<1>. QED
  BY <1>5, <1>6, RankFit

\* Another match writes the port's partner and speed into the super port.
LEMMA AdoptShape ==
    ASSUME NEW S, Shape(S), NEW p \in Ports, S.sport.state = "SET",
           NEW match, NEW T, T = Adopt(S, p, match)
    PROVE  /\ Shape(T) /\ Fits(T, p) /\ T.sport.known /\ T.sport.state = "SET"
           /\ T.ports = S.ports /\ T.lags = S.lags
           /\ T.sport.num_lports = S.sport.num_lports
           /\ \A X : Counted(S, X) => Counted(T, X)
           /\ \A q \in Ports : /\ Named(T, q) = Named(S, q)
                               /\ HasLag(T, q) = HasLag(S, q)
<1>. DEFINE r == S.ports[p]
            y == IF match = "PARTIAL" THEN r.peer.portpri
                 ELSE Least({S.sport.partner_max, r.peer.portpri})
            t == [S.sport EXCEPT !.known = TRUE, !.system = r.peer.system,
                                 !.syspri = r.peer.syspri, !.key = r.peer.key,
                                 !.port_type = r.port_type, !.actor_max = Priority[p],
                                 !.partner_max = y]
<1>1. IsState(S) /\ S.sport \in Sport /\ r \in Lport
  BY DEF Shape, IsState
<1>2. T = Resport(S, t)
  BY DEF Adopt, Resport
<1>3. /\ r.peer.system \in {w.system : w \in Wires} \cup {NoSystem}
      /\ r.peer.syspri \in Nat /\ r.peer.key \in Nat /\ r.peer.portpri \in Nat
      /\ r.port_type \in PortTypes /\ r.port_type # NoType
      /\ Priority[p] \in Nat /\ S.sport.partner_max \in Nat
  BY <1>1, SuperPortAssumption DEF Sport, Lport, Peer
<1>4. y \in Nat
  <2>1. {S.sport.partner_max, r.peer.portpri} \subseteq Nat
    BY <1>3
  <2>. QED
    BY <1>3, <2>1, LeastIn
<1>. HIDE DEF y, r
<1>5. /\ t \in Sport /\ t.known /\ t.state = "SET" /\ t.num_lports = S.sport.num_lports
      /\ t.system = r.peer.system /\ t.syspri = r.peer.syspri /\ t.key = r.peer.key
      /\ t.port_type = r.port_type
  BY <1>1, <1>3, <1>4 DEF Sport
<1>. HIDE DEF t
<1>6. /\ IsState(T) /\ T.lags = S.lags /\ T.ports = S.ports /\ T.sport = t
  BY <1>1, <1>2, <1>5, ResportState
<1>7. \A q \in Ports : HasLag(T, q) = HasLag(S, q) /\ Named(T, q) = Named(S, q)
  BY <1>6 DEF HasLag, Named
<1>8. Listed(T) /\ Known(T)
  BY <1>3, <1>5, <1>6 DEF Shape, Listed, Known
<1>9. \A q \in Ports : Held(T, q)
  BY <1>5, <1>6, <1>7 DEF Shape, Held
<1>10. Shape(T)
  BY <1>6, <1>8, <1>9 DEF Shape
<1>11. Fits(T, p)
  BY <1>5, <1>6 DEF Fits, r
<1>12. Joined(T) = Joined(S)
  BY <1>6 DEF Joined
<1>. QED
  BY <1>5, <1>6, <1>7, <1>10, <1>11, <1>12, CountKept

\* Whatever the match, all selected ports have the partner of the super port.
LEMMA SelectFit ==
    ASSUME NEW S, Fit(S), NEW p \in Ports, HasLag(S, p), ~S.ports[p].selected,
           S.sport.state # "FREED"
    PROVE  Fit(LAG_select_aggregator(S, p))
<1>1. /\ Sound(S) /\ Shape(S) /\ Counted(S, {})
      /\ \A q \in Ports : Named(S, q) /\ Served(S, q)
      /\ \A q, o \in Ports : Silent(S, q) /\ Silent(S, o) => q = o
  BY DEF Fit, Sound
<1>2. CASE Matches(S, p, "EXACT")
  <2>. DEFINE A == Improve(S, p)
  <2>1. /\ Lost(S, A, {}) /\ A.ports = S.ports /\ SameSport(S.sport, A.sport)
    BY <1>1, ImproveFit
  <2>2. LAG_select_aggregator(S, p) = Settle(A, p)
    BY <1>2 DEF LAG_select_aggregator
  <2>. HIDE DEF A
  <2>3. Sound(A) /\ Fit(A) /\ HasLag(A, p)
    BY <1>1, <2>1, LostFit
  <2>4. Fits(S, p) /\ S.sport.known /\ S.ports[p].peer.system # NoSystem
    BY <1>1, <1>2, MatchMeans
  <2>5. Fits(A, p) /\ A.sport.known /\ A.ports[p].peer.system # NoSystem
        /\ ~A.ports[p].selected
    BY <2>1, <2>4 DEF Fits, SameSport
  <2>6. /\ Shape(A) /\ Counted(A, {})
        /\ \A q \in Ports : Named(A, q) /\ Served(A, q)
        /\ \A q, o \in Ports : Silent(A, q) /\ Silent(A, o) => q = o
    BY <2>3 DEF Fit, Sound
  <2>7. /\ Sound(Settle(A, p)) /\ Counted(Settle(A, p), {})
        /\ \A q \in Ports : Named(Settle(A, p), q)
    BY <2>3, <2>5, <2>6, SettleFit
  <2>. QED
    BY <2>2, <2>7 DEF Fit
<1>3. CASE ~Matches(S, p, "EXACT") /\ Matches(S, p, "PARTIAL")
  <2>. DEFINE A == Adopt(S, p, "PARTIAL")
  <2>1. S.sport.state = "SET"
    BY <1>1, <1>3, MatchMeans
  <2>2. /\ Shape(A) /\ Fits(A, p) /\ A.sport.known
        /\ A.ports = S.ports /\ A.lags = S.lags
        /\ \A X : Counted(S, X) => Counted(A, X)
        /\ \A q \in Ports : Named(A, q) = Named(S, q) /\ HasLag(A, q) = HasLag(S, q)
    BY <1>1, <2>1, AdoptShape
  <2>3. LAG_select_aggregator(S, p) = Settle(A, p)
    BY <1>3 DEF LAG_select_aggregator
  <2>. HIDE DEF A
  <2>4. \A q, o \in Ports : Silent(A, q) /\ Silent(A, o) => q = o
    BY <1>1, <2>2 DEF Silent
  <2>5. /\ \A q \in Ports : Served(A, q)
        /\ S.ports[p].peer.system = NoSystem => \A q \in Ports : ~S.ports[q].selected
    <3>1. CASE S.sport.known
      <4>1. Fits(S, p) /\ S.ports[p].peer.system # NoSystem
        BY <1>1, <1>3, <3>1, MatchMeans
      <4>. QED
        BY <1>1, <2>2, <4>1 DEF Fits, Served
    <3>2. CASE ~S.sport.known
      <4>1. \A q \in Ports : ~S.ports[q].selected
        BY <1>1, <3>2 DEF Shape, Held
      <4>. QED
        BY <2>2, <4>1 DEF Served
    <3>. QED
      BY <3>1, <3>2
  <2>6. /\ Sound(Settle(A, p)) /\ Counted(Settle(A, p), {})
        /\ \A q \in Ports : Named(Settle(A, p), q)
    BY <1>1, <2>2, <2>4, <2>5, SettleFit
  <2>. QED
    BY <2>3, <2>6 DEF Fit
<1>4. CASE /\ ~Matches(S, p, "EXACT") /\ ~Matches(S, p, "PARTIAL")
           /\ Matches(S, p, "PRIORITY")
  <2>. DEFINE A == Adopt(S, p, "PRIORITY")
              B == Evict(A, Holders(A))
  <2>1. S.sport.state = "SET"
    BY <1>1, <1>4, MatchMeans
  <2>2. /\ Shape(A) /\ Fits(A, p) /\ A.sport.known /\ A.sport.state = "SET"
        /\ A.ports = S.ports /\ A.lags = S.lags
        /\ \A X : Counted(S, X) => Counted(A, X)
        /\ \A q \in Ports : Named(A, q) = Named(S, q) /\ HasLag(A, q) = HasLag(S, q)
    BY <1>1, <2>1, AdoptShape
  <2>3. LAG_select_aggregator(S, p) = Settle(B, p)
    BY <1>4, <2>2 DEF LAG_select_aggregator, mlacpVapiSportParamsChange
  <2>. HIDE DEF A
  <2>4. Lost(A, B, Holders(A))
    <3>1. Holders(A) \in SUBSET Ports
      BY DEF Holders
    <3>. QED
      BY <2>2, <3>1, UnselectLost
  <2>. HIDE DEF B
  <2>5. \A q \in Ports : ~B.ports[q].selected
    BY <2>2, <2>4, AllLost
  <2>6. Eases(A, B) /\ \A q \in Ports : B.ports[q].peer = A.ports[q].peer
    BY <2>4 DEF Lost
  <2>7. Shape(B) /\ \A q \in Ports : HasLag(B, q) = HasLag(A, q) /\ Named(B, q) = Named(A, q)
    BY <2>2, <2>6, EasesShape
  <2>8. Counted(B, {})
    BY <1>1, <2>2, <2>4 DEF Lost
  <2>9. Fits(B, p) /\ B.sport.known
    BY <2>2, <2>4 DEF Lost, Eases, SameSport, Fits
  <2>10. /\ \A q \in Ports : Served(B, q)
         /\ \A q, o \in Ports : Silent(B, q) /\ Silent(B, o) => q = o
    BY <2>5 DEF Served, Silent
  <2>11. /\ Sound(Settle(B, p)) /\ Counted(Settle(B, p), {})
         /\ \A q \in Ports : Named(Settle(B, p), q)
    BY <1>1, <2>2, <2>5, <2>7, <2>8, <2>9, <2>10, SettleFit
  <2>. QED
    BY <2>3, <2>11 DEF Fit
<1>5. CASE /\ ~Matches(S, p, "EXACT") /\ ~Matches(S, p, "PARTIAL")
           /\ ~Matches(S, p, "PRIORITY")
  BY <1>5 DEF LAG_select_aggregator
<1>. QED
  BY <1>2, <1>3, <1>4, <1>5

(***************************************************************************)
(* LAGs.                                                                   *)
(***************************************************************************)

\* A port's LAG is the one that lists it.
LEMMA LagOfIs ==
    ASSUME NEW S, Listed(S), NEW p
    PROVE  /\ HasLag(S, p) => LagOf(S, p) \in S.lags /\ p \in LagOf(S, p).members
           /\ \A lag \in S.lags : p \in lag.members => HasLag(S, p) /\ lag = LagOf(S, p)
<1>1. HasLag(S, p) => LagOf(S, p) \in S.lags /\ p \in LagOf(S, p).members
  BY DEF HasLag, LagOf
<1>2. \A lag \in S.lags : p \in lag.members => HasLag(S, p)
  BY DEF HasLag
<1>. QED
  BY <1>1, <1>2 DEF Listed

\* A port enters a LAG of its partner, which takes the place of those that lack it.
LEMMA EnterFit ==
    ASSUME NEW S, Fit(S), NEW p \in Ports, ~HasLag(S, p), S.ports[p].lacp_up,
           NEW K \in SUBSET S.lags, NEW new \in Lag,
           p \in new.members,
           new.id.system = S.ports[p].peer.system,
           \A q \in new.members \ {p} : \E lag \in S.lags \ K : q \in lag.members,
           \A lag \in S.lags \ K : /\ lag.members \subseteq new.members
                                   /\ lag.id = new.id
                                   /\ lag.saved => new.saved,
           \A lag \in K : lag.id = new.id => lag.id.system = NoSystem,
           NEW T, T = Relag(S, K \cup {new})
    PROVE  /\ Fit(T) /\ T.ports = S.ports /\ T.sport = S.sport /\ HasLag(T, p)
<1>1. /\ Sound(S) /\ IsState(S) /\ Listed(S) /\ Known(S)
      /\ \A q \in Ports : Held(S, q) /\ Served(S, q) /\ Named(S, q)
  BY DEF Fit, Sound, Shape
<1>2. K \cup {new} \in SUBSET Lag
  BY <1>1 DEF IsState
<1>3. /\ IsState(T) /\ T.lags = K \cup {new} /\ T.ports = S.ports /\ T.sport = S.sport
  BY <1>1, <1>2, RelagState
<1>4. \A q \in Ports : HasLag(S, q) => HasLag(T, q)
  BY <1>3 DEF HasLag
<1>5. HasLag(T, p)
  BY <1>3 DEF HasLag
<1>6. \A lag \in K : lag.members \cap new.members = {}
  <2>1. ASSUME NEW lag \in K, NEW q \in lag.members \cap new.members PROVE FALSE
    <3>1. q # p
      BY DEF HasLag
    <3>2. PICK other \in S.lags \ K : q \in other.members
      BY <3>1
    <3>3. lag = other
      BY <1>1, <3>2 DEF Listed
    <3>. QED
      BY <3>2, <3>3
  <2>. QED
    BY <2>1
<1>7. Listed(T)
  <2>1. \A lag \in T.lags : /\ lag.members # {}
                            /\ \A q \in lag.members : T.ports[q].lacp_up
    BY <1>1, <1>3 DEF Listed
  <2>2. \A lag, other \in T.lags : lag.members \cap other.members # {} => lag = other
    BY <1>1, <1>3, <1>6 DEF Listed
  <2>3. ASSUME NEW lag \in T.lags, NEW other \in T.lags,
               lag.id = other.id, lag.id.system # NoSystem
        PROVE  lag = other
    <3>1. CASE lag \in K /\ other \in K
      BY <1>1, <2>3, <3>1 DEF Listed
    <3>2. CASE lag = new \/ other = new
      BY <1>3, <2>3, <3>2
    <3>. QED
      BY <1>3, <3>1, <3>2
  <2>. QED
    BY <2>1, <2>2, <2>3 DEF Listed
<1>8. Known(T) /\ Released(T)
  BY <1>1, <1>3 DEF Sound, Known, Released
<1>9. ASSUME NEW q \in Ports PROVE Held(T, q) /\ Served(T, q)
  <2>1. Held(T, q)
    BY <1>1, <1>3, <1>4 DEF Held
  <2>. QED
    BY <1>1, <1>3, <2>1 DEF Served
<1>10. \A q, o \in Ports : Silent(T, q) /\ Silent(T, o) => q = o
  BY <1>3 DEF Silent, Fit, Sound
<1>11. Sound(T)
  BY <1>3, <1>7, <1>8, <1>9, <1>10 DEF Sound, Shape
<1>12. ASSUME NEW q \in Ports PROVE Named(T, q)
  <2>1. ASSUME NEW lag \in T.lags, q \in lag.members
        PROVE  lag.id.system = S.ports[q].peer.system
    <3>1. CASE lag \in K
      BY <1>1, <2>1, <3>1 DEF Named
    <3>2. CASE lag = new /\ q = p
      BY <3>2
    <3>3. CASE lag = new /\ q # p
      <4>1. PICK other \in S.lags \ K : q \in other.members
        BY <2>1, <3>3
      <4>. QED
        BY <1>1, <3>3, <4>1 DEF Named
    <3>. QED
      BY <1>3, <3>1, <3>2, <3>3
  <2>. QED
    BY <1>3, <2>1 DEF Named
<1>13. Joined(T) = Joined(S)
  BY <1>3 DEF Joined
<1>14. Counted(T, {})
  BY <1>3, <1>13, CountKept DEF Fit
<1>. QED
  BY <1>3, <1>5, <1>11, <1>12, <1>14 DEF Fit

\* A LAG id is well formed, and names the partner of its port.
LEMMA LagIdOf ==
    ASSUME NEW r \in Lport, NEW p \in Ports
    PROVE  form_lag_id(r, p) \in LagId /\ form_lag_id(r, p).system = r.peer.system
<1>1. /\ r.peer \in Peer /\ r.fallback \in BOOLEAN /\ r.port_type \in PortTypes
      /\ p \in 0..N /\ 0 \in 0..N
  BY SuperPortAssumption DEF Lport, Ports
<1>2. /\ r.peer.system \in {w.system : w \in Wires} \cup {NoSystem}
      /\ r.peer.syspri \in Nat /\ r.peer.key \in Nat /\ r.peer.port \in Nat
      /\ r.peer.portpri \in Nat
  BY <1>1 DEF Peer
<1>. QED
  BY <1>1, <1>2 DEF form_lag_id, LagId

\* A port without a LAG finds the one of its partner, if there is one.
LEMMA JoinFit ==
    ASSUME NEW S, Fit(S), NEW p \in Ports, ~HasLag(S, p), S.ports[p].lacp_up,
           S.sport.state # "FREED"
    PROVE  Fit(JoinLag(S, p))
<1>. DEFINE id   == form_lag_id(S.ports[p], p)
            with == Companions(S, id)
            join == LagOf(S, Least(with))
            wide == [join EXCEPT !.members = @ \cup {p}]
            new  == [id |-> id, members |-> {p}, saved |-> FALSE]
<1>1. /\ IsState(S) /\ Listed(S) /\ S.ports[p] \in Lport
      /\ \A q \in Ports : Held(S, q) /\ Named(S, q)
  BY DEF Fit, Sound, Shape, IsState
<1>2. id \in LagId /\ id.system = S.ports[p].peer.system
  BY <1>1, LagIdOf
<1>3. ~S.ports[p].selected
  BY <1>1 DEF Held
<1>4. CASE with = {}
  <2>. DEFINE A == Relag(S, S.lags \cup {new})
  <2>1. JoinLag(S, p) = LAG_select_aggregator(A, p)
    BY <1>4 DEF JoinLag, Relag
  <2>. HIDE DEF id
  <2>2. /\ new \in Lag /\ p \in new.members /\ new.id = id
        /\ \A q \in new.members \ {p} : FALSE
    BY <1>2 DEF Lag
  <2>3. ASSUME NEW lag \in S.lags, lag.id = id PROVE lag.id.system = NoSystem
    <3>1. PICK q \in lag.members : TRUE
      BY <1>1 DEF Listed
    <3>2. q \in Ports /\ S.ports[q].lacp_up
      BY <1>1 DEF IsState, Lag, Listed
    <3>3. HasLag(S, q) /\ LagOf(S, q) = lag
      BY <1>1, LagOfIs
    <3>4. S.ports[q].peer.system = lag.id.system
      BY <1>1, <3>2 DEF Named
    <3>. QED
      BY <1>4, <2>3, <3>2, <3>3, <3>4 DEF Companions
  <2>4. Fit(A) /\ A.ports = S.ports /\ A.sport = S.sport /\ HasLag(A, p)
    <3>. HIDE DEF new
    <3>. QED
      BY <1>2, <2>2, <2>3, EnterFit
  <2>. HIDE DEF A
  <2>. QED
    BY <1>3, <2>1, <2>4, SelectFit
<1>5. CASE with # {}
  <2>1. with \subseteq Ports /\ with \subseteq Nat
    BY DEF Companions, Ports
  <2>. HIDE DEF id
  <2>2. Least(with) \in with
    <3>. HIDE DEF with
    <3>. QED
      BY <1>5, <2>1, LeastIn
  <2>3. HasLag(S, Least(with)) /\ join.id = id
    BY <2>2 DEF Companions
  <2>4. join \in S.lags
    BY <1>1, <2>3, LagOfIs
  <2>5. CASE S.ports[p].peer.aggregation /\ ~is_port_partner_port(S, join, p)
    <3>. DEFINE A == Relag(S, (S.lags \ {join}) \cup {wide})
    <3>1. JoinLag(S, p) = LAG_select_aggregator(A, p)
      BY <1>5, <2>5 DEF JoinLag, Relag, id
    <3>. HIDE DEF with, join
    <3>2. /\ wide \in Lag /\ wide.members = join.members \cup {p} /\ wide.id = id
          /\ wide.saved = join.saved
      <4>1. join \in Lag
        BY <1>1, <2>4 DEF IsState
      <4>. QED
        BY <2>3, <4>1 DEF Lag
    <3>. HIDE DEF wide
    <3>3. \A lag \in S.lags \ {join} : lag.id = wide.id => lag.id.system = NoSystem
      BY <1>1, <2>3, <2>4, <3>2 DEF Listed
    <3>4. S.lags \ (S.lags \ {join}) = {join}
      BY <2>4
    <3>5. Fit(A) /\ A.ports = S.ports /\ A.sport = S.sport /\ HasLag(A, p)
      <4>1. p \in wide.members /\ wide.id.system = S.ports[p].peer.system
        BY <1>2, <3>2
      <4>2. \A q \in wide.members \ {p} : \E lag \in S.lags \ (S.lags \ {join}) :
                q \in lag.members
        BY <3>2, <3>4
      <4>3. \A lag \in S.lags \ (S.lags \ {join}) :
                /\ lag.members \subseteq wide.members
                /\ lag.id = wide.id
                /\ lag.saved => wide.saved
        BY <2>3, <3>2, <3>4
      <4>4. S.lags \ {join} \in SUBSET S.lags
        OBVIOUS
      <4>. QED
        BY <3>2, <3>3, <4>1, <4>2, <4>3, <4>4, EnterFit
    <3>. HIDE DEF A
    <3>. QED
      BY <1>3, <3>1, <3>5, SelectFit
  <2>6. CASE ~(S.ports[p].peer.aggregation /\ ~is_port_partner_port(S, join, p))
    BY <1>5, <2>6 DEF JoinLag, id
  <2>. QED
    BY <2>5, <2>6
<1>. QED
  BY <1>4, <1>5

\* The LAGs of S when port p has left.
Without(S, p) ==
    LET lag == LagOf(S, p)
    IN  (S.lags \ {lag}) \cup
        IF lag.members = {p} THEN {} ELSE {[lag EXCEPT !.members = @ \ {p}]}

\* A port that loses the super port with its LAG leaves a sound state, unless the LAG
\* was the last to release the partner.
LEMMA LeaveSound ==
    ASSUME NEW S, Sound(S), NEW p \in Ports, HasLag(S, p),
           LagOf(S, p).members = {p} /\ LagOf(S, p).saved => ~S.sport.known,
           NEW r \in Lport, ~r.sport, ~r.selected, r.mux = "DETACHED",
           r.peer.system = NoSystem => r.peer = NoPeer,
           NEW T, IsState(T), T.lags = Without(S, p), T.sport = S.sport, T.ports[p] = r,
           \A q \in Ports \ {p} : T.ports[q] = S.ports[q]
    PROVE  /\ Sound(T) /\ ~HasLag(T, p)
           /\ \A q \in Ports \ {p} : Named(S, q) => Named(T, q)
           /\ Counted(S, {p}) => Counted(T, {})
<1>. DEFINE lag  == LagOf(S, p)
            rest == [lag EXCEPT !.members = @ \ {p}]
<1>1. /\ IsState(S) /\ Listed(S) /\ Known(S) /\ Released(S)
      /\ \A q \in Ports : Held(S, q) /\ Served(S, q)
  BY DEF Sound, Shape
<1>2. lag \in S.lags /\ p \in lag.members /\ lag \in Lag
  BY <1>1, LagOfIs DEF IsState
<1>3. \A l \in S.lags : p \in l.members => l = lag
  BY <1>1, LagOfIs
<1>. HIDE DEF lag
<1>4. /\ rest.members = lag.members \ {p} /\ rest.id = lag.id /\ rest.saved = lag.saved
  BY <1>2 DEF Lag
<1>5. T.lags = (S.lags \ {lag}) \cup IF lag.members = {p} THEN {} ELSE {rest}
  BY DEF Without, lag
<1>. HIDE DEF rest
<1>6. ~HasLag(T, p)
  BY <1>3, <1>4, <1>5 DEF HasLag
<1>7. \A q \in Ports \ {p} : HasLag(S, q) => HasLag(T, q)
  <2>1. ASSUME NEW q \in Ports \ {p}, NEW l \in S.lags, q \in l.members
        PROVE  HasLag(T, q)
    <3>1. CASE l # lag
      BY <1>5, <2>1, <3>1 DEF HasLag
    <3>2. CASE l = lag
      BY <1>4, <1>5, <2>1, <3>2 DEF HasLag
    <3>. QED
      BY <3>1, <3>2
  <2>. QED
    BY <2>1 DEF HasLag
<1>8. ASSUME NEW l \in T.lags
      PROVE  \E o \in S.lags : /\ l.id = o.id /\ l.saved = o.saved
                               /\ l.members = o.members \ {p} /\ l.members # {}
                               /\ o = lag => l = rest
                               /\ o # lag => l = o
  <2>1. CASE l \in S.lags \ {lag}
    <3>1. p \notin l.members /\ l.members # {}
      BY <1>1, <1>3, <2>1 DEF Listed
    <3>. QED
      BY <2>1, <3>1
  <2>2. CASE lag.members # {p} /\ l = rest
    BY <1>2, <1>4, <2>2
  <2>. QED
    BY <1>5, <2>1, <2>2
<1>9. Listed(T)
  <2>1. ASSUME NEW l \in T.lags
        PROVE  l.members # {} /\ \A q \in l.members : T.ports[q].lacp_up
    <3>1. PICK o \in S.lags : l.members = o.members \ {p} /\ l.members # {}
      BY <1>8
    <3>2. o.members \subseteq Ports /\ \A q \in o.members : S.ports[q].lacp_up
      BY <1>1 DEF IsState, Lag, Listed
    <3>. QED
      BY <3>1, <3>2
  <2>2. ASSUME NEW l \in T.lags, NEW m \in T.lags,
               \/ l.members \cap m.members # {}
               \/ l.id = m.id /\ l.id.system # NoSystem
        PROVE  l = m
    <3>1. PICK a \in S.lags : /\ l.id = a.id /\ l.members = a.members \ {p}
                              /\ (a = lag => l = rest) /\ (a # lag => l = a)
      BY <1>8
    <3>2. PICK b \in S.lags : /\ m.id = b.id /\ m.members = b.members \ {p}
                              /\ (b = lag => m = rest) /\ (b # lag => m = b)
      BY <1>8
    <3>3. a = b
      BY <1>1, <2>2, <3>1, <3>2 DEF Listed
    <3>. QED
      BY <3>1, <3>2, <3>3
  <2>. QED
    BY <2>1, <2>2 DEF Listed
<1>10. Known(T)
  BY <1>1 DEF Known
<1>11. Released(T)
  <2>1. ASSUME S.sport.known PROVE \E l \in T.lags : l.saved
    <3>1. PICK o \in S.lags : o.saved
      BY <1>1, <2>1 DEF Released
    <3>2. CASE o # lag
      BY <1>5, <3>1, <3>2
    <3>3. CASE o = lag
      <4>1. lag.members # {p}
        BY <2>1, <3>1, <3>3 DEF lag
      <4>. QED
        BY <1>4, <1>5, <3>1, <3>3, <4>1
    <3>. QED
      BY <3>2, <3>3
  <2>. QED
    BY <2>1 DEF Released
<1>12. ASSUME NEW q \in Ports PROVE Held(T, q) /\ Served(T, q)
  <2>1. CASE q = p
    BY <2>1 DEF Held, Served
  <2>2. CASE q # p
    <3>1. T.ports[q] = S.ports[q] /\ Held(S, q) /\ Served(S, q)
          /\ (HasLag(S, q) => HasLag(T, q))
      BY <1>1, <1>7, <2>2
    <3>2. Held(T, q)
      BY <3>1 DEF Held
    <3>. QED
      BY <3>1, <3>2 DEF Served
  <2>. QED
    BY <2>1, <2>2
<1>13. \A q \in Ports : Silent(T, q) => Silent(S, q)
  BY DEF Silent
<1>14. Sound(T)
  BY <1>9, <1>10, <1>11, <1>12, <1>13 DEF Sound, Shape
<1>15. ASSUME NEW q \in Ports \ {p}, Named(S, q) PROVE Named(T, q)
  <2>1. ASSUME NEW l \in T.lags, q \in l.members
        PROVE  l.id.system = T.ports[q].peer.system
    <3>1. PICK o \in S.lags : l.id = o.id /\ l.members = o.members \ {p}
      BY <1>8
    <3>. QED
      BY <1>15, <2>1, <3>1 DEF Named
  <2>. QED
    BY <2>1 DEF Named
<1>16. Joined(T) \ {} = Joined(S) \ {p}
  BY DEF Joined
<1>17. Counted(S, {p}) => Counted(T, {})
  BY <1>16 DEF Counted
<1>. QED
  BY <1>6, <1>14, <1>15, <1>17

\* What QuitLag does before it takes the port off the list: C is the state after the
\* super port may have been cleared.
LEMMA QuitParts ==
    ASSUME NEW S, Sound(S), NEW p \in Ports, HasLag(S, p), S.sport.state # "FREED"
    PROVE  \E C : /\ QuitLag(S, p) = Relag(C, Without(C, p))
                  /\ Sound(C) /\ C.lags = S.lags /\ HasLag(C, p)
                  /\ C.sport.state = S.sport.state
                  /\ LagOf(C, p).members = {p} /\ LagOf(C, p).saved => ~C.sport.known
                  /\ Without(C, p) \in SUBSET Lag
                  /\ C.ports[p].lacp_up = S.ports[p].lacp_up
                  /\ C.ports[p].sport => S.ports[p].sport
                  /\ \A q \in Ports : Named(C, q) = Named(S, q)
                  /\ \A X : Counted(S, X) => Counted(C, X)
<1>. DEFINE lag == LagOf(S, p)
            C   == IF lag.members = {p} /\ lag.saved
                   THEN mvlan_api_clear_sport_params(S) ELSE S
<1>1. /\ Sound(C) /\ C.lags = S.lags /\ C.sport.state = S.sport.state
      /\ lag.members = {p} /\ lag.saved => ~C.sport.known
      /\ C.ports[p].lacp_up = S.ports[p].lacp_up
      /\ C.ports[p].sport => S.ports[p].sport
      /\ \A q \in Ports : Named(C, q) = Named(S, q)
      /\ \A X : Counted(S, X) => Counted(C, X)
  <2>1. CASE lag.members = {p} /\ lag.saved
    <3>. DEFINE D == mvlan_api_clear_sport_params(S)
    <3>1. /\ Sound(D) /\ ~D.sport.known /\ D.sport.state = S.sport.state
          /\ D.lags = S.lags
          /\ \A q \in Ports : /\ D.ports[q].lacp_up = S.ports[q].lacp_up
                              /\ ~D.ports[q].sport
                              /\ Named(D, q) = Named(S, q)
          /\ \A X : Counted(S, X) => Counted(D, X)
      BY ClearFit
    <3>2. C = D
      BY <2>1
    <3>. HIDE DEF C, D
    <3>. QED
      BY <3>1, <3>2
  <2>2. CASE ~(lag.members = {p} /\ lag.saved)
    <3>1. C = S
      BY <2>2
    <3>. HIDE DEF C, lag
    <3>. QED
      BY <2>2, <3>1
  <2>. QED
    BY <2>1, <2>2
<1>2. LagOf(C, p) = lag /\ HasLag(C, p)
  <2>. HIDE DEF C
  <2>. QED
    BY <1>1 DEF LagOf, HasLag, lag
<1>3. QuitLag(S, p) = Relag(C, Without(C, p))
  <2>1. QuitLag(S, p) = [C EXCEPT !.lags = (C.lags \ {lag}) \cup
                            IF lag.members = {p} THEN {}
                            ELSE {[lag EXCEPT !.members = @ \ {p}]}]
    BY DEF QuitLag
  <2>. HIDE DEF C, lag
  <2>. QED
    BY <1>2, <2>1 DEF Relag, Without
<1>. HIDE DEF C
<1>4. Without(C, p) \in SUBSET Lag
  <2>1. IsState(C) /\ Listed(C)
    BY <1>1 DEF Sound, Shape
  <2>2. LagOf(C, p) \in Lag /\ C.lags \in SUBSET Lag
    BY <1>2, <2>1, LagOfIs DEF IsState
  <2>3. [LagOf(C, p) EXCEPT !.members = @ \ {p}] \in Lag
    BY <2>2 DEF Lag
  <2>. QED
    BY <2>2, <2>3 DEF Without
<1>5. LagOf(C, p).members = {p} /\ LagOf(C, p).saved => ~C.sport.known
  BY <1>1, <1>2
<1>. QED
  BY <1>1, <1>2, <1>3, <1>4, <1>5

\* A port that is detached is not counted.
LEMMA UncountedPort ==
    ASSUME NEW S, NEW p, S.ports[p].mux = "DETACHED"
    PROVE  Counted(S, {p}) = Counted(S, {})
<1>1. Joined(S) \ {p} = Joined(S) \ {}
  BY DEF Joined
<1>. QED
  BY <1>1 DEF Counted

\* A port that lost the super port leaves its LAG.
LEMMA QuitFit ==
    ASSUME NEW S, Sound(S), NEW p \in Ports, HasLag(S, p), S.sport.state # "FREED",
           ~S.ports[p].sport, Counted(S, {}), \A q \in Ports \ {p} : Named(S, q),
           NEW T, T = QuitLag(S, p)
    PROVE  /\ Fit(T) /\ ~HasLag(T, p) /\ T.ports[p].lacp_up = S.ports[p].lacp_up
           /\ T.sport.state = S.sport.state
<1>1. PICK C : /\ T = Relag(C, Without(C, p))
               /\ Sound(C) /\ C.lags = S.lags /\ HasLag(C, p)
               /\ C.sport.state = S.sport.state
               /\ LagOf(C, p).members = {p} /\ LagOf(C, p).saved => ~C.sport.known
               /\ Without(C, p) \in SUBSET Lag
               /\ C.ports[p].lacp_up = S.ports[p].lacp_up
               /\ C.ports[p].sport => S.ports[p].sport
               /\ \A q \in Ports : Named(C, q) = Named(S, q)
               /\ \A X : Counted(S, X) => Counted(C, X)
  BY QuitParts
<1>2. IsState(C) /\ Held(C, p) /\ C.ports[p] \in Lport
  BY <1>1 DEF Sound, Shape, IsState
<1>3. /\ IsState(T) /\ T.lags = Without(C, p) /\ T.sport = C.sport /\ T.ports = C.ports
  BY <1>1, <1>2, RelagState
<1>4. /\ ~C.ports[p].sport /\ ~C.ports[p].selected /\ C.ports[p].mux = "DETACHED"
      /\ C.ports[p].peer.system = NoSystem => C.ports[p].peer = NoPeer
  BY <1>1, <1>2 DEF Held
<1>5. /\ Sound(T) /\ ~HasLag(T, p)
      /\ \A q \in Ports \ {p} : Named(C, q) => Named(T, q)
      /\ Counted(C, {p}) => Counted(T, {})
  BY <1>1, <1>2, <1>3, <1>4, LeaveSound
<1>6. Counted(T, {})
  BY <1>1, <1>4, <1>5, UncountedPort
<1>7. Named(T, p)
  BY <1>5 DEF Named, HasLag
<1>. QED
  BY <1>1, <1>3, <1>5, <1>6, <1>7 DEF Fit

\* LAG_selection ends in a state in which every port is in a LAG of its partner,
\* also when the port it is called for was not.
LEMMA SelectionFit ==
    ASSUME NEW S, Sound(S), NEW p \in Ports, S.ports[p].lacp_up, Counted(S, {}),
           \A q \in Ports \ {p} : Named(S, q), S.sport.state # "FREED"
    PROVE  Fit(LAG_selection(S, p))
<1>1. IsState(S) /\ Listed(S) /\ Held(S, p) /\ S.ports[p] \in Lport
  BY DEF Sound, Shape, IsState
<1>2. CASE ~HasLag(S, p)
  <2>1. Fit(S)
    BY <1>2 DEF Fit, Named, HasLag
  <2>2. Fit(JoinLag(S, p))
    BY <1>2, <2>1, JoinFit
  <2>. QED
    BY <1>2, <2>2 DEF LAG_selection
<1>3. CASE HasLag(S, p) /\ LagOf(S, p).id # form_lag_id(S.ports[p], p)
  <2>. DEFINE A == Evict(S, {p})
              B == QuitLag(A, p)
  <2>1. Lost(S, A, {p})
    <3>1. {p} \in SUBSET Ports /\ Shape(S)
      BY DEF Sound
    <3>. QED
      BY <3>1, UnselectLost
  <2>2. LAG_selection(S, p) = JoinLag(B, p)
    BY <1>3 DEF LAG_selection
  <2>. HIDE DEF A
  <2>3. /\ Sound(A) /\ HasLag(A, p) /\ \A q \in Ports \ {p} : Named(A, q)
    BY <1>3, <2>1, LostFit
  <2>4. /\ ~A.ports[p].sport /\ A.ports[p].lacp_up /\ Counted(A, {})
        /\ A.sport.state # "FREED"
    BY <2>1 DEF Lost, Eases, Eased, SameSport
  <2>5. Fit(B) /\ ~HasLag(B, p) /\ B.ports[p].lacp_up /\ B.sport.state # "FREED"
    BY <2>3, <2>4, QuitFit
  <2>. HIDE DEF B
  <2>. QED
    BY <2>2, <2>5, JoinFit
<1>4. CASE HasLag(S, p) /\ LagOf(S, p).id = form_lag_id(S.ports[p], p)
  <2>1. LagOf(S, p).id.system = S.ports[p].peer.system
    BY <1>1, <1>4, LagIdOf
  <2>2. Named(S, p)
    BY <1>1, <2>1, LagOfIs DEF Named
  <2>3. Fit(S)
    BY <2>2 DEF Fit
  <2>4. CASE ~S.ports[p].selected
    <3>1. Fit(LAG_select_aggregator(S, p))
      BY <1>4, <2>3, <2>4, SelectFit
    <3>. QED
      BY <1>4, <2>4, <3>1 DEF LAG_selection
  <2>5. CASE S.ports[p].selected
    BY <1>4, <2>3, <2>5 DEF LAG_selection
  <2>. QED
    BY <2>4, <2>5
<1>. QED
  BY <1>2, <1>3, <1>4

(***************************************************************************)
(* Ports come and go.                                                      *)
(***************************************************************************)

\* A port without a LAG may be replaced by one that holds nothing.
LEMMA ReplaceFit ==
    ASSUME NEW S, Sound(S), NEW p \in Ports, ~HasLag(S, p), Counted(S, {p}),
           \A q \in Ports \ {p} : Named(S, q),
           NEW r \in Lport, ~r.sport, ~r.selected, r.mux = "DETACHED",
           r.peer.system = NoSystem => r.peer = NoPeer,
           NEW T, T = Put(S, p, r)
    PROVE  Fit(T) /\ ~HasLag(T, p) /\ T.sport = S.sport /\ T.ports[p] = r
<1>1. /\ IsState(S) /\ Listed(S) /\ Known(S) /\ Released(S)
      /\ \A q \in Ports : Held(S, q) /\ Served(S, q)
  BY DEF Sound, Shape
<1>2. /\ IsState(T) /\ T.lags = S.lags /\ T.sport = S.sport /\ T.ports[p] = r
      /\ \A q \in Ports \ {p} : T.ports[q] = S.ports[q]
  BY <1>1, PutState
<1>3. \A q \in Ports : HasLag(T, q) = HasLag(S, q)
  BY <1>2 DEF HasLag
<1>4. Listed(T)
  <2>1. \A lag \in S.lags : lag.members \subseteq Ports \ {p}
    BY <1>1 DEF IsState, Lag, HasLag
  <2>. QED
    BY <1>1, <1>2, <2>1 DEF Listed
<1>5. Known(T) /\ Released(T)
  BY <1>1, <1>2 DEF Known, Released
<1>6. ASSUME NEW q \in Ports PROVE Held(T, q) /\ Served(T, q)
  <2>1. CASE q = p
    BY <1>2, <2>1 DEF Held, Served
  <2>2. CASE q # p
    <3>1. Held(T, q)
      BY <1>1, <1>2, <1>3, <2>2 DEF Held
    <3>. QED
      BY <1>1, <1>2, <2>2, <3>1 DEF Served
  <2>. QED
    BY <2>1, <2>2
<1>7. \A q \in Ports : Silent(T, q) => Silent(S, q)
  BY <1>2 DEF Silent
<1>8. Sound(T)
  BY <1>2, <1>4, <1>5, <1>6, <1>7 DEF Sound, Shape
<1>9. \A q \in Ports : Named(T, q)
  BY <1>2, <1>3 DEF Named, HasLag
<1>10. Joined(T) \ {} = Joined(S) \ {p}
  BY <1>2 DEF Joined
<1>11. Counted(T, {})
  BY <1>2, <1>10 DEF Counted
<1>. QED
  BY <1>2, <1>3, <1>8, <1>9, <1>11 DEF Fit

\* A port that is not there.
LEMMA AbsentPort ==
    /\ Absent \in Lport /\ ~Absent.sport /\ ~Absent.selected /\ Absent.mux = "DETACHED"
    /\ NoPeer \in Peer /\ Absent.peer = NoPeer /\ ~Absent.lacp_up
<1>1. NoPeer \in Peer
  BY DEF NoPeer, Peer
<1>2. (CHOOSE t \in PortTypes : TRUE) \in PortTypes
  BY SuperPortAssumption
<1>. QED
  BY <1>1, <1>2 DEF Absent, Lport

\* LACP_disable_lacp: the port was counted down before its LAG, too, may clear the
\* super port and count it down again.
LEMMA DisableFit ==
    ASSUME NEW S, Fit(S), NEW p \in Ports, S.sport.state # "FREED",
           NEW T, T = LACP_disable_lacp(S, p)
    PROVE  Fit(T) /\ ~HasLag(T, p) /\ T.ports[p] = Absent
<1>. DEFINE t == [S.sport EXCEPT !.num_lports = @ - 1]
            a == IF Reaches(S, p) THEN [S EXCEPT !.sport.num_lports = @ - 1] ELSE S
            b == IF HasLag(a, p) THEN QuitLag(a, p) ELSE a
<1>1. /\ Sound(S) /\ Shape(S) /\ IsState(S) /\ S.sport \in Sport /\ Known(S)
      /\ Counted(S, {}) /\ \A q \in Ports : Held(S, q) /\ Named(S, q)
  BY DEF Fit, Sound, Shape, IsState
<1>2. T = Put(b, p, Absent)
  BY DEF LACP_disable_lacp, Put
<1>3. /\ Sound(a) /\ Counted(a, {p}) /\ a.sport.state # "FREED"
      /\ a.ports = S.ports /\ \A q \in Ports : Named(a, q)
  <2>1. CASE Reaches(S, p)
    <3>1. a = Resport(S, t)
      BY <1>1, <2>1 DEF Resport, IsState
    <3>2. /\ t \in Sport /\ SameSport(S.sport, t)
          /\ t.num_lports = S.sport.num_lports - 1 /\ S.sport.num_lports \in Int
      BY <1>1 DEF Sport, SameSport
    <3>. HIDE DEF a, t
    <3>3. /\ IsState(a) /\ a.lags = S.lags /\ a.ports = S.ports /\ a.sport = t
      BY <1>1, <3>1, <3>2, ResportState
    <3>4. Eases(S, a)
      BY <1>1, <3>2, <3>3 DEF Held, Eases, Eased
    <3>5. Sound(a) /\ \A q \in Ports : Named(a, q)
      BY <1>1, <3>3, <3>4, EasesSound, EasesShape
    <3>6. Counted(a, {p})
      <4>1. Joined(S) \ {} \subseteq (Joined(S) \ {p}) \cup {p}
        OBVIOUS
      <4>2. Joined(S) \ {} \in SUBSET Ports /\ Joined(S) \ {p} \in SUBSET Ports
        BY DEF Joined
      <4>3. Cardinality({p}) = 1
        BY FS_Singleton
      <4>4. Cardinality(Joined(S) \ {}) <= Cardinality(Joined(S) \ {p}) + 1
        BY <4>1, <4>2, <4>3, Cover
      <4>5. Cardinality(Joined(S) \ {}) \in Nat /\ Cardinality(Joined(S) \ {p}) \in Nat
        BY <4>2, PortSets
      <4>6. Joined(a) = Joined(S)
        BY <3>3 DEF Joined
      <4>. QED
        BY <1>1, <3>2, <3>3, <4>4, <4>5, <4>6 DEF Counted
    <3>. QED
      BY <3>2, <3>3, <3>5, <3>6 DEF SameSport
  <2>2. CASE ~Reaches(S, p)
    <3>1. S.ports[p].mux = "DETACHED"
      BY <1>1, <2>2 DEF Reaches, mvlan_get_sport, Known, Held
    <3>2. Counted(S, {p})
      BY <1>1, <3>1, UncountedPort
    <3>. QED
      BY <1>1, <2>2, <3>2
  <2>. QED
    BY <2>1, <2>2
<1>. HIDE DEF a
<1>4. Absent \in Lport /\ ~Absent.sport /\ ~Absent.selected /\ Absent.mux = "DETACHED"
      /\ Absent.peer = NoPeer
  BY AbsentPort
<1>5. CASE ~HasLag(a, p)
  <2>1. b = a
    BY <1>5
  <2>. QED
    BY <1>2, <1>3, <1>4, <1>5, <2>1, ReplaceFit
<1>6. CASE HasLag(a, p)
  <2>1. b = QuitLag(a, p)
    BY <1>6
  <2>. HIDE DEF b
  <2>2. PICK C : /\ b = Relag(C, Without(C, p))
                 /\ Sound(C) /\ C.lags = a.lags /\ HasLag(C, p)
                 /\ C.sport.state = a.sport.state
                 /\ LagOf(C, p).members = {p} /\ LagOf(C, p).saved => ~C.sport.known
                 /\ Without(C, p) \in SUBSET Lag
                 /\ \A q \in Ports : Named(C, q) = Named(a, q)
                 /\ \A X : Counted(a, X) => Counted(C, X)
    BY <1>3, <1>6, <2>1, QuitParts
  <2>3. IsState(C)
    BY <2>2 DEF Sound, Shape
  <2>4. IsState(b) /\ b.lags = Without(C, p) /\ b.sport = C.sport /\ b.ports = C.ports
    BY <2>2, <2>3, RelagState
  <2>5. /\ IsState(T) /\ T.lags = Without(C, p) /\ T.sport = C.sport
        /\ T.ports[p] = Absent /\ \A q \in Ports \ {p} : T.ports[q] = C.ports[q]
    BY <1>2, <1>4, <2>4, PutState
  <2>6. /\ Sound(T) /\ ~HasLag(T, p)
        /\ \A q \in Ports \ {p} : Named(C, q) => Named(T, q)
        /\ Counted(C, {p}) => Counted(T, {})
    BY <1>4, <2>2, <2>5, LeaveSound
  <2>7. \A q \in Ports : Named(T, q)
    BY <1>3, <2>2, <2>6 DEF Named, HasLag
  <2>. QED
    BY <1>3, <2>2, <2>5, <2>6, <2>7 DEF Fit
<1>. QED
  BY <1>5, <1>6

(***************************************************************************)
(* The handlers.                                                           *)
(***************************************************************************)

\* A handler of port p may be on its way to LAG_selection: p's partner is new.
Half(S, p) ==
    /\ Sound(S) /\ Counted(S, {}) /\ \A q \in Ports \ {p} : Named(S, q)
    /\ S.ports[p].lacp_up /\ S.sport.state # "FREED"

\* A change of port p that gains nothing keeps this.
LEMMA PutHalf ==
    ASSUME NEW S, NEW p \in Ports, Half(S, p), NEW r \in Lport, Eased(S.ports[p], r),
           r.mux \in {"ATTACHED", "COLLECTING"}
             <=> S.ports[p].mux \in {"ATTACHED", "COLLECTING"},
           NEW T, T = Put(S, p, r)
    PROVE  Half(T, p) /\ T.ports[p] = r
<1>1. /\ Sound(T) /\ T.ports[p] = r
      /\ \A q \in Ports \ {p} : Named(T, q) = Named(S, q)
      /\ \A X : Counted(S, X) => Counted(T, X)
  BY PutEases DEF Half
<1>2. T.sport = S.sport
  BY PutState DEF Half, Sound, Shape
<1>. QED
  BY <1>1, <1>2 DEF Half, Eased

\* With the same partner, p stays in its LAG.
LEMMA PutFit ==
    ASSUME NEW S, NEW p \in Ports, Fit(S), NEW r \in Lport, Eased(S.ports[p], r),
           r.mux \in {"ATTACHED", "COLLECTING"}
             <=> S.ports[p].mux \in {"ATTACHED", "COLLECTING"},
           r.peer = S.ports[p].peer,
           NEW T, T = Put(S, p, r)
    PROVE  Fit(T)
<1>1. /\ Sound(T)
      /\ \A q \in Ports : Named(T, q) = Named(S, q)
      /\ \A X : Counted(S, X) => Counted(T, X)
  BY PutEases DEF Fit
<1>. QED
  BY <1>1 DEF Fit

\* Losing ports keeps this, too.
LEMMA LostHalf ==
    ASSUME NEW S, NEW p \in Ports, Half(S, p), NEW Q, NEW T, Lost(S, T, Q)
    PROVE  /\ Half(T, p) /\ T.ports[p].peer = S.ports[p].peer
           /\ p \in Q => ~T.ports[p].selected
<1>1. Sound(T) /\ \A q \in Ports : Named(T, q) = Named(S, q)
  BY LostFit DEF Half
<1>. QED
  BY <1>1 DEF Half, Lost, Eases, Eased, SameSport

\* The mux machine on the way between ATTACHED and COLLECTING.
LEMMA MuxStays ==
    ASSUME NEW S, NEW p \in Ports, IsState(S), Held(S, p),
           NEW T, T \in {MuxE5(S, p), MuxE6(S, p)}
    PROVE  \E r \in Lport : /\ T = Put(S, p, r) /\ Eased(S.ports[p], r)
                            /\ r.mux \in {"ATTACHED", "COLLECTING"}
                               <=> S.ports[p].mux \in {"ATTACHED", "COLLECTING"}
                            /\ r.peer = S.ports[p].peer
<1>. DEFINE r(x) == [S.ports[p] EXCEPT !.mux = x]
<1>1. S.ports[p] \in Lport
  BY DEF IsState
<1>2. \A x \in {"ATTACHED", "COLLECTING"} :
        S.ports[p].mux \in {"ATTACHED", "COLLECTING"}
        => /\ r(x) \in Lport /\ Eased(S.ports[p], r(x))
           /\ r(x).mux = x /\ r(x).peer = S.ports[p].peer
  BY <1>1 DEF Lport, Eased, Held
<1>3. S.ports[p] = r(S.ports[p].mux)
  BY <1>1 DEF Lport
<1>4. Eased(S.ports[p], S.ports[p]) /\ S = Put(S, p, S.ports[p])
  BY DEF Eased, Held, Put, IsState
<1>5. CASE T = S
  BY <1>1, <1>4, <1>5
<1>6. CASE T = Put(S, p, r("COLLECTING")) /\ S.ports[p].mux = "ATTACHED"
  <2>. HIDE DEF r
  <2>. QED
    BY <1>2, <1>6
<1>7. CASE T = Put(S, p, r("ATTACHED")) /\ S.ports[p].mux = "COLLECTING"
  <2>. HIDE DEF r
  <2>. QED
    BY <1>2, <1>7
<1>. QED
  BY <1>5, <1>6, <1>7 DEF MuxE5, MuxE6, Put

\* The mux events E5 and E6 in the middle of a handler.
LEMMA MuxHalf ==
    ASSUME NEW S, NEW p \in Ports, Half(S, p)
    PROVE  Half(MuxE5(S, p), p) /\ Half(MuxE6(S, p), p)
<1>1. IsState(S) /\ Held(S, p)
  BY DEF Half, Sound, Shape
<1>2. ASSUME NEW T, T \in {MuxE5(S, p), MuxE6(S, p)} PROVE Half(T, p)
  <2>1. PICK r \in Lport : /\ T = Put(S, p, r) /\ Eased(S.ports[p], r)
                           /\ r.mux \in {"ATTACHED", "COLLECTING"}
                              <=> S.ports[p].mux \in {"ATTACHED", "COLLECTING"}
    BY <1>1, <1>2, MuxStays
  <2>. QED
    BY <2>1, PutHalf
<1>. QED
  BY <1>2

\* A new best priority of the super port.
LEMMA RankTo ==
    ASSUME NEW S, Sound(S), NEW x \in Nat,
           NEW T, T \in {[S EXCEPT !.sport.actor_max = x], [S EXCEPT !.sport.partner_max = x]}
    PROVE  Lost(S, T, {}) /\ T.ports = S.ports
<1>. DEFINE a == [S.sport EXCEPT !.actor_max = x]
            b == [S.sport EXCEPT !.partner_max = x]
<1>1. IsState(S) /\ S.sport \in Sport
  BY DEF Sound, Shape, IsState
<1>2. /\ a \in Sport /\ SameSport(S.sport, a) /\ a.num_lports = S.sport.num_lports
      /\ b \in Sport /\ SameSport(S.sport, b) /\ b.num_lports = S.sport.num_lports
  BY <1>1 DEF Sport, SameSport
<1>3. T = Resport(S, a) \/ T = Resport(S, b)
  BY DEF Resport
<1>. HIDE DEF a, b
<1>4. PICK t \in {a, b} : T = Resport(S, t)
  BY <1>3
<1>5. /\ IsState(T) /\ T.lags = S.lags /\ T.ports = S.ports /\ T.sport = t
  BY <1>1, <1>2, <1>4, ResportState
<1>. QED
  BY <1>2, <1>5, RankFit

\* The best of some priorities is a priority.
LEMMA BestIn ==
    ASSUME NEW Q, Q \subseteq Nat
    PROVE  Least(Q \cup {MAX_PORT_PRIORITY}) \in Nat
<1>1. Q \cup {MAX_PORT_PRIORITY} \subseteq Nat /\ Q \cup {MAX_PORT_PRIORITY} # {}
  BY SuperPortAssumption
<1>2. Least(Q \cup {MAX_PORT_PRIORITY}) \in Q \cup {MAX_PORT_PRIORITY}
  BY <1>1, LeastIn
<1>. QED
  BY <1>1, <1>2

\* update_max_port_priority: a change of the best priority evicts all holders.
LEMMA MaxHalf ==
    ASSUME NEW S, NEW p \in Ports, Half(S, p), NEW T, T = update_max_port_priority(S, p)
    PROVE  Half(T, p)
<1>. DEFINE heard == {Priority[q] : q \in {h \in Holders(S) : S.ports[h].recv # "DEFAULTED"}}
            best  == Least(heard \cup {MAX_PORT_PRIORITY})
            A     == [S EXCEPT !.sport.actor_max = best]
            B     == Evict(A, Holders(A))
<1>1. heard \subseteq Nat
  BY SuperPortAssumption DEF Holders
<1>2. best \in Nat
  <2>. HIDE DEF heard
  <2>. QED
    BY <1>1, BestIn
<1>3. T \in {S, A, B}
  BY DEF update_max_port_priority, mlacpVapiSportParamsChange
<1>. HIDE DEF best
<1>4. Sound(S)
  BY DEF Half
<1>5. Lost(S, A, {})
  BY <1>2, <1>4, RankTo
<1>. HIDE DEF A
<1>6. Half(A, p)
  BY <1>5, LostHalf
<1>7. Lost(A, B, Holders(A))
  <2>1. Shape(A) /\ A.sport.state # "FREED" /\ Holders(A) \in SUBSET Ports
    BY <1>6 DEF Half, Sound, Holders
  <2>. QED
    BY <2>1, UnselectLost
<1>. HIDE DEF B
<1>8. Half(B, p)
  BY <1>6, <1>7, LostHalf
<1>. QED
  BY <1>3, <1>6, <1>8

\* A port whose partner's variables change is not selected any more.
LEMMA SelectedHalf ==
    ASSUME NEW S, NEW p \in Ports, Half(S, p), NEW peer,
           NEW T, T = update_Selected(S, p, peer)
    PROVE  Half(T, p) /\ (T.ports[p].selected => T.ports[p].peer = peer)
<1>. DEFINE others == {S.ports[q].peer.portpri : q \in Holders(S) \ {p}} \ {0}
            best == Least(others \cup {MAX_PORT_PRIORITY})
            A == [S EXCEPT !.sport.partner_max = best]
<1>1. Sound(S) /\ IsState(S)
  BY DEF Half, Sound, Shape
<1>2. best \in Nat
  <2>1. \A q \in Ports : S.ports[q].peer.portpri \in Nat
    BY <1>1 DEF IsState, Lport, Peer
  <2>2. others \subseteq Nat
    BY <2>1 DEF Holders
  <2>. HIDE DEF others
  <2>. QED
    BY <2>2, BestIn
<1>3. IF peer # S.ports[p].peer THEN T \in {Unselect(A, {p}), Unselect(S, {p})} ELSE T = S
  BY DEF update_Selected
<1>. HIDE DEF best
<1>4. Lost(S, A, {})
  BY <1>1, <1>2, RankTo
<1>. HIDE DEF A
<1>5. Half(A, p)
  BY <1>4, LostHalf
<1>6. CASE peer = S.ports[p].peer
  BY <1>3, <1>6
<1>7. CASE peer # S.ports[p].peer
  <2>1. PICK B : Half(B, p) /\ T = Unselect(B, {p})
    BY <1>3, <1>5, <1>7
  <2>2. Shape(B) /\ B.sport.state # "FREED" /\ {p} \in SUBSET Ports
    BY <2>1 DEF Half, Sound
  <2>3. Lost(B, T, {p})
    BY <2>1, <2>2, UnselectLost
  <2>. QED
    BY <2>1, <2>3, LostHalf
<1>. QED
  BY <1>6, <1>7

\* current_state_action.
LEMMA CurrentFit ==
    ASSUME NEW S, NEW p \in Ports, Half(S, p), NEW w \in Wires
    PROVE  Fit(current_state_action(S, p, w))
<1>. DEFINE o == [S EXCEPT !.ports[p].recv = "CURRENT"]
            a == update_Selected(o, p, PeerOf(w))
            b == [a EXCEPT !.ports[p].peer = PeerOf(w), !.ports[p].psync = w.sync]
            c == IF b.ports[p].selected /\ w.sync THEN MuxE5(b, p) ELSE b
            d == IF w.sync THEN c ELSE MuxE6(c, p)
<1>1. current_state_action(S, p, w) = LAG_selection(d, p)
  BY DEF current_state_action
<1>2. /\ IsState(S) /\ Held(S, p) /\ S.ports[p] \in Lport
  BY DEF Half, Sound, Shape, IsState
<1>3. Half(o, p)
  <2>. DEFINE r == [S.ports[p] EXCEPT !.recv = "CURRENT"]
  <2>1. r \in Lport /\ Eased(S.ports[p], r) /\ r.mux = S.ports[p].mux
    BY <1>2 DEF Lport, Eased, Held
  <2>2. o = Put(S, p, r)
    BY <1>2 DEF Put, IsState
  <2>. HIDE DEF o, r
  <2>. QED
    BY <2>1, <2>2, PutHalf
<1>. HIDE DEF o
<1>4. Half(a, p) /\ (a.ports[p].selected => a.ports[p].peer = PeerOf(w))
  BY <1>3, SelectedHalf
<1>. HIDE DEF a
<1>5. Half(b, p)
  <2>. DEFINE r == [a.ports[p] EXCEPT !.peer = PeerOf(w), !.psync = w.sync]
  <2>1. IsState(a) /\ a.ports[p] \in Lport /\ Held(a, p)
    BY <1>4 DEF Half, Sound, Shape, IsState
  <2>2. PeerOf(w) \in Peer /\ w.sync \in BOOLEAN /\ PeerOf(w).system # NoSystem
    BY SuperPortAssumption DEF PeerOf
  <2>3. r \in Lport /\ Eased(a.ports[p], r) /\ r.mux = a.ports[p].mux
    BY <1>4, <2>1, <2>2 DEF Lport, Eased, Held
  <2>4. b = Put(a, p, r)
    BY <2>1 DEF Put, IsState
  <2>. HIDE DEF b, r
  <2>. QED
    BY <1>4, <2>3, <2>4, PutHalf
<1>. HIDE DEF b
<1>6. Half(c, p)
  BY <1>5, MuxHalf
<1>. HIDE DEF c
<1>7. Half(d, p)
  BY <1>6, MuxHalf
<1>. HIDE DEF d
<1>. QED
  BY <1>1, <1>7, SelectionFit DEF Half

\* defaulted_state_action.
LEMMA DefaultedFit ==
    ASSUME NEW S, NEW p \in Ports, Half(S, p)
    PROVE  Fit(defaulted_state_action(S, p))
<1>. DEFINE o == [S EXCEPT !.ports[p].recv = "DEFAULTED"]
            a == update_max_port_priority(o, p)
            b == IF a.ports[p].peer # NoPeer THEN Unselect(a, {p}) ELSE a
            r == b.ports[p]
            n == [r EXCEPT !.peer = NoPeer, !.psync = r.fallback]
            d == [b EXCEPT !.ports[p] = n]
            c == LAG_selection(d, p)
            e == [c EXCEPT !.ports[p].selected = FALSE, !.ports[p].ready_n = FALSE]
<1>1. defaulted_state_action(S, p) \in {MuxE5(c, p), e}
  BY DEF defaulted_state_action
<1>2. /\ IsState(S) /\ Held(S, p) /\ S.ports[p] \in Lport
  BY DEF Half, Sound, Shape, IsState
<1>3. Half(o, p)
  <2>. DEFINE x == [S.ports[p] EXCEPT !.recv = "DEFAULTED"]
  <2>1. x \in Lport /\ Eased(S.ports[p], x) /\ x.mux = S.ports[p].mux
    BY <1>2 DEF Lport, Eased, Held
  <2>2. o = Put(S, p, x)
    BY <1>2 DEF Put, IsState
  <2>. HIDE DEF o, x
  <2>. QED
    BY <2>1, <2>2, PutHalf
<1>. HIDE DEF o
<1>4. Half(a, p)
  BY <1>3, MaxHalf
<1>. HIDE DEF a
<1>5. Half(b, p) /\ (b.ports[p].selected => b.ports[p].peer = NoPeer)
  <2>1. CASE a.ports[p].peer = NoPeer
    BY <1>4, <2>1
  <2>2. CASE a.ports[p].peer # NoPeer
    <3>1. Shape(a) /\ a.sport.state # "FREED" /\ {p} \in SUBSET Ports
      BY <1>4 DEF Half, Sound
    <3>2. b = Unselect(a, {p})
      BY <2>2
    <3>. HIDE DEF b
    <3>3. Lost(a, b, {p})
      BY <3>1, <3>2, UnselectLost
    <3>. QED
      BY <1>4, <3>3, LostHalf
  <2>. QED
    BY <2>1, <2>2
<1>. HIDE DEF b
<1>6. Half(d, p)
  <2>1. r \in Lport /\ Held(b, p)
    BY <1>5 DEF Half, Sound, Shape, IsState
  <2>2. n \in Lport /\ Eased(r, n) /\ n.mux = r.mux
    BY <1>5, <2>1, AbsentPort DEF Lport, Eased, Held
  <2>3. d = Put(b, p, n)
    BY DEF Put
  <2>. HIDE DEF d, n
  <2>. QED
    BY <1>5, <2>2, <2>3, PutHalf
<1>. HIDE DEF d
<1>7. Fit(c)
  BY <1>6, SelectionFit DEF Half
<1>. HIDE DEF c
<1>8. IsState(c) /\ Held(c, p) /\ c.ports[p] \in Lport
  BY <1>7 DEF Fit, Sound, Shape, IsState
<1>9. Fit(MuxE5(c, p))
  BY <1>7, <1>8, MuxStays, PutFit
<1>10. Fit(e)
  <2>. DEFINE x == [c.ports[p] EXCEPT !.selected = FALSE, !.ready_n = FALSE]
  <2>1. x \in Lport /\ Eased(c.ports[p], x) /\ x.mux = c.ports[p].mux
        /\ x.peer = c.ports[p].peer
    BY <1>8 DEF Lport, Eased, Held
  <2>2. e = Put(c, p, x)
    BY <1>8 DEF Put, IsState
  <2>. HIDE DEF e, x
  <2>. QED
    BY <1>7, <2>1, <2>2, PutFit
<1>. QED
  BY <1>1, <1>9, <1>10

\* port_disabled_state_action.
LEMMA DisabledFit ==
    ASSUME NEW S, NEW p \in Ports, Half(S, p)
    PROVE  Fit(port_disabled_state_action(S, p))
<1>. DEFINE o == [S EXCEPT !.ports[p].recv = "PORT_DISABLED", !.ports[p].psync = FALSE]
            r == [S.ports[p] EXCEPT !.recv = "PORT_DISABLED", !.psync = FALSE]
            d == MuxE6(o, p)
<1>1. port_disabled_state_action(S, p) = LAG_selection(d, p)
  BY DEF port_disabled_state_action
<1>2. /\ IsState(S) /\ Held(S, p) /\ S.ports[p] \in Lport
  BY DEF Half, Sound, Shape, IsState
<1>3. Half(o, p)
  <2>1. r \in Lport /\ Eased(S.ports[p], r) /\ r.mux = S.ports[p].mux
    BY <1>2 DEF Lport, Eased, Held
  <2>2. o = Put(S, p, r)
    BY <1>2 DEF Put, IsState
  <2>. HIDE DEF o, r
  <2>. QED
    BY <2>1, <2>2, PutHalf
<1>. HIDE DEF o
<1>4. Half(d, p)
  BY <1>3, MuxHalf
<1>. HIDE DEF d
<1>. QED
  BY <1>1, <1>4, SelectionFit DEF Half

\* expired_state_action.
LEMMA ExpiredFit ==
    ASSUME NEW S, NEW p \in Ports, Fit(S)
    PROVE  Fit(expired_state_action(S, p))
<1>. DEFINE r == [S.ports[p] EXCEPT !.recv = "EXPIRED", !.psync = FALSE]
<1>1. IsState(S) /\ Held(S, p) /\ S.ports[p] \in Lport
  BY DEF Fit, Sound, Shape, IsState
<1>2. /\ r \in Lport /\ Eased(S.ports[p], r) /\ r.mux = S.ports[p].mux
      /\ r.peer = S.ports[p].peer
  BY <1>1 DEF Lport, Eased, Held
<1>3. expired_state_action(S, p) = Put(S, p, r)
  BY <1>1 DEF expired_state_action, Put, IsState
<1>. HIDE DEF r
<1>. QED
  BY <1>2, <1>3, PutFit

(***************************************************************************)
(* The actions.                                                            *)
(***************************************************************************)

\* A handler that ends in a fit state keeps the invariant.
LEMMA BecomesInv ==
    ASSUME NEW S, Fit(S), Becomes(S)
    PROVE  Inv'
<1>1. S = [ports |-> S.ports, lags |-> S.lags, sport |-> S.sport]
  BY DEF Fit, Sound, Shape, IsState
<1>2. State' = S
  BY <1>1 DEF Becomes, State
<1>. QED
  BY <1>2 DEF Inv

\* Between two handlers no handler is on its way.
LEMMA InvHalf ==
    ASSUME NEW S, Fit(S), NEW p \in Ports, S.ports[p].lacp_up, S.sport.state # "FREED"
    PROVE  Half(S, p)
BY DEF Fit, Half

\* The variables are the fields of State.
LEMMA StateIs ==
    State.ports = ports /\ State.lags = lags /\ State.sport = sport
BY DEF State

\* LACP_initialize_port: the old port is disabled before the new one is there.
LEMMA InitializeInv ==
    ASSUME Inv, NEW p \in Ports, NEW up \in BOOLEAN, NEW t \in PortTypes,
           LACP_initialize_port(p, up, t)
    PROVE  Inv'
<1>. DEFINE others == {Priority[q] : q \in Holders(State) \ {p}}
            best == Least(others \cup {MAX_PORT_PRIORITY})
            A == [State EXCEPT !.sport.actor_max = best]
            a == IF mvlan_get_sport(State, p) THEN A ELSE State
            b == IF ports[p].lacp_up THEN LACP_disable_lacp(a, p) ELSE a
            r == [Absent EXCEPT !.lacp_up = TRUE, !.port_enabled = up, !.port_type = t,
                                !.recv = IF up THEN "EXPIRED" ELSE "PORT_DISABLED"]
<1>1. Becomes(Put(b, p, r)) /\ sport.state # "FREED"
  BY DEF LACP_initialize_port, Put, Becomes
<1>2. best \in Nat
  <2>1. others \subseteq Nat
    BY SuperPortAssumption DEF Holders
  <2>. HIDE DEF others
  <2>. QED
    BY <2>1, BestIn
<1>. HIDE DEF best
<1>3. Fit(State) /\ Sound(State)
  BY DEF Inv, Fit
<1>4. Lost(State, A, {}) /\ A.ports = ports
  BY <1>2, <1>3, RankTo, StateIs
<1>. HIDE DEF A
<1>5. Fit(a) /\ a.sport.state # "FREED" /\ a.ports = ports
  <2>1. Fit(A)
    BY <1>3, <1>4, LostFit
  <2>2. A.sport.state = State.sport.state
    BY <1>4 DEF Lost, Eases, SameSport
  <2>. QED
    BY <1>1, <1>3, <1>4, <2>1, <2>2, StateIs
<1>. HIDE DEF a
<1>6. Fit(b) /\ ~HasLag(b, p) /\ b.ports[p].mux = "DETACHED"
  <2>1. CASE ports[p].lacp_up
    <3>1. Fit(b) /\ ~HasLag(b, p) /\ b.ports[p] = Absent
      BY <1>5, <2>1, DisableFit
    <3>. QED
      BY <3>1, AbsentPort
  <2>2. CASE ~ports[p].lacp_up
    <3>1. Listed(a) /\ Held(a, p) /\ IsState(a)
      BY <1>5 DEF Fit, Sound, Shape
    <3>2. ~HasLag(a, p)
      BY <1>5, <2>2, <3>1 DEF Listed, HasLag
    <3>3. a.ports[p].mux = "DETACHED"
      BY <3>1, <3>2 DEF Held
    <3>. QED
      BY <1>5, <2>2, <3>2, <3>3
  <2>. QED
    BY <2>1, <2>2
<1>. HIDE DEF b
<1>7. r \in Lport /\ ~r.sport /\ ~r.selected /\ r.mux = "DETACHED" /\ r.peer = NoPeer
  BY AbsentPort DEF Lport
<1>. HIDE DEF r
<1>8. Counted(b, {p}) /\ Sound(b) /\ \A q \in Ports \ {p} : Named(b, q)
  BY <1>6, UncountedPort DEF Fit
<1>9. Fit(Put(b, p, r))
  BY <1>6, <1>7, <1>8, ReplaceFit
<1>. QED
  BY <1>1, <1>9, BecomesInv

\* mlacpVapiLinkUp: a port that comes back at another speed loses its selection.
LEMMA LinkUpInv ==
    ASSUME Inv, NEW p \in Ports, NEW t \in PortTypes, mlacpVapiLinkUp(p, t)
    PROVE  Inv'
<1>. DEFINE a == IF t # ports[p].port_type THEN Unselect(State, {p}) ELSE State
            b == [a EXCEPT !.ports[p].port_type = t, !.ports[p].port_enabled = TRUE]
            r == [a.ports[p] EXCEPT !.port_type = t, !.port_enabled = TRUE]
<1>1. /\ ports[p].lacp_up /\ sport.state # "FREED"
      /\ Becomes(IF ports[p].recv = "PORT_DISABLED" THEN expired_state_action(b, p) ELSE b)
  BY DEF mlacpVapiLinkUp, Becomes
<1>2. Fit(State) /\ Shape(State) /\ Sound(State)
  BY DEF Inv, Fit, Sound
<1>3. Fit(a) /\ (a.ports[p].selected => a.ports[p].port_type = t)
  <2>1. CASE t = ports[p].port_type
    BY <1>2, <2>1, StateIs
  <2>2. CASE t # ports[p].port_type
    <3>1. {p} \in SUBSET Ports /\ State.sport.state # "FREED"
      BY <1>1, StateIs
    <3>2. a = Unselect(State, {p})
      BY <2>2
    <3>. HIDE DEF a
    <3>3. Lost(State, a, {p})
      BY <1>2, <3>1, <3>2, UnselectLost
    <3>4. Fit(a)
      BY <1>2, <3>3, LostFit
    <3>. QED
      BY <3>3, <3>4 DEF Lost
  <2>. QED
    BY <2>1, <2>2
<1>. HIDE DEF a
<1>4. IsState(a) /\ a.ports[p] \in Lport /\ Held(a, p)
  BY <1>3 DEF Fit, Sound, Shape, IsState
<1>5. /\ r \in Lport /\ Eased(a.ports[p], r) /\ r.mux = a.ports[p].mux
      /\ r.peer = a.ports[p].peer
  BY <1>3, <1>4 DEF Lport, Eased, Held
<1>6. b = Put(a, p, r)
  BY <1>4 DEF Put, IsState
<1>. HIDE DEF b, r
<1>7. Fit(b)
  BY <1>3, <1>5, <1>6, PutFit
<1>8. Fit(expired_state_action(b, p))
  BY <1>7, ExpiredFit
<1>. QED
  BY <1>1, <1>7, <1>8, BecomesInv

\* mlacpVapiLinkDown.
LEMMA LinkDownInv ==
    ASSUME Inv, NEW p \in Ports, mlacpVapiLinkDown(p)
    PROVE  Inv'
<1>. DEFINE b == [State EXCEPT !.ports[p].port_enabled = FALSE]
            r == [ports[p] EXCEPT !.port_enabled = FALSE]
<1>1. /\ ports[p].lacp_up /\ sport.state # "FREED"
      /\ Becomes(port_disabled_state_action(b, p))
  BY DEF mlacpVapiLinkDown, Becomes
<1>2. Half(State, p)
  BY <1>1, InvHalf, StateIs DEF Inv
<1>3. IsState(State) /\ ports[p] \in Lport /\ Held(State, p)
  BY <1>2, StateIs DEF Half, Sound, Shape, IsState
<1>4. r \in Lport /\ Eased(ports[p], r) /\ r.mux = ports[p].mux
  BY <1>3, StateIs DEF Lport, Eased, Held
<1>5. b = Put(State, p, r)
  BY <1>3, StateIs DEF Put, IsState
<1>. HIDE DEF b, r
<1>6. Half(b, p)
  BY <1>2, <1>4, <1>5, PutHalf, StateIs
<1>. QED
  BY <1>1, <1>6, DisabledFit, BecomesInv

\* set_lport_fallback_status.
LEMMA FallbackInv ==
    ASSUME Inv, NEW p \in Ports, NEW status \in Fallbacks,
           set_lport_fallback_status(p, status)
    PROVE  Inv'
<1>. DEFINE a == [State EXCEPT !.ports[p].fallback = status]
            r == [ports[p] EXCEPT !.fallback = status]
<1>1. /\ ports[p].lacp_up /\ sport.state # "FREED"
      /\ Becomes(IF ports[p].recv = "DEFAULTED" THEN defaulted_state_action(a, p) ELSE a)
  BY DEF set_lport_fallback_status, Becomes
<1>2. Half(State, p) /\ Fit(State)
  BY <1>1, InvHalf, StateIs DEF Inv
<1>3. IsState(State) /\ ports[p] \in Lport /\ Held(State, p)
  BY <1>2, StateIs DEF Half, Sound, Shape, IsState
<1>4. /\ r \in Lport /\ Eased(ports[p], r) /\ r.mux = ports[p].mux
      /\ r.peer = ports[p].peer
  BY <1>3, StateIs, SuperPortAssumption DEF Lport, Eased, Held
<1>5. a = Put(State, p, r)
  BY <1>3, StateIs DEF Put, IsState
<1>. HIDE DEF a, r
<1>6. Half(a, p) /\ Fit(a)
  BY <1>2, <1>4, <1>5, PutHalf, PutFit, StateIs
<1>7. Fit(defaulted_state_action(a, p))
  BY <1>6, DefaultedFit
<1>. QED
  BY <1>1, <1>6, <1>7, BecomesInv

\* The wait-while timer: the port that is attached is counted.
LEMMA WaitInv ==
    ASSUME Inv, NEW p \in Ports, mux_wait_while_timer_expiry(p)
    PROVE  Inv'
<1>. DEFINE a == [State EXCEPT !.ports[p].ready_n = TRUE]
            r == [ports[p] EXCEPT !.ready_n = TRUE]
            b == [a EXCEPT !.ports[p].waiting = FALSE]
            s == [r EXCEPT !.waiting = FALSE]
            c == MuxE3(b, p)
<1>1. /\ sport.state # "FREED"
      /\ \E d \in {a, c} : Becomes(d)
  BY DEF mux_wait_while_timer_expiry, Becomes
<1>2. Fit(State) /\ IsState(State) /\ ports[p] \in Lport /\ Held(State, p)
  BY StateIs DEF Inv, Fit, Sound, Shape, IsState
<1>3. /\ r \in Lport /\ Eased(ports[p], r) /\ r.mux = ports[p].mux
      /\ r.peer = ports[p].peer
  BY <1>2, StateIs DEF Lport, Eased, Held
<1>4. a = Put(State, p, r)
  BY <1>2, StateIs DEF Put, IsState
<1>. HIDE DEF a, r
<1>5. Fit(a)
  BY <1>2, <1>3, <1>4, PutFit, StateIs
<1>6. IsState(a) /\ a.ports[p] = r /\ Held(a, p)
  <2>1. IsState(a) /\ Held(a, p)
    BY <1>5 DEF Fit, Sound, Shape
  <2>. QED
    BY <1>2, <1>3, <1>4, <2>1, PutState
<1>7. /\ s \in Lport /\ Eased(r, s) /\ s.mux = r.mux /\ s.peer = r.peer
  BY <1>3, <1>6 DEF Lport, Eased, Held
<1>8. b = Put(a, p, s)
  BY <1>6 DEF Put, IsState
<1>. HIDE DEF b, s
<1>9. Fit(b)
  BY <1>5, <1>6, <1>7, <1>8, PutFit
<1>10. Fit(c)
  <2>. DEFINE x == [b.ports[p] EXCEPT !.mux = IF b.ports[p].psync THEN "COLLECTING"
                                              ELSE "ATTACHED"]
              n == IF HasLag(b, p) /\ Reaches(b, p) THEN 1 ELSE 0
              t == [b.sport EXCEPT !.num_lports = @ + n]
              P == Put(b, p, x)
  <2>1. CASE b.ports[p].mux # "WAITING"
    BY <1>9, <2>1 DEF MuxE3
  <2>2. CASE b.ports[p].mux = "WAITING"
    <3>1. /\ IsState(b) /\ b.ports[p] \in Lport /\ b.sport \in Sport /\ Held(b, p)
          /\ Sound(b) /\ Shape(b) /\ Counted(b, {}) /\ \A q \in Ports : Named(b, q)
      BY <1>9 DEF Fit, Sound, Shape, IsState
    <3>2. c = Resport(P, t)
      BY <2>2, <3>1 DEF MuxE3, Resport, Put, IsState
    <3>3. /\ x \in Lport /\ Eased(b.ports[p], x) /\ x.peer = b.ports[p].peer
          /\ x.mux \in {"ATTACHED", "COLLECTING"}
      BY <2>2, <3>1 DEF Lport, Eased, Held
    <3>. HIDE DEF x, c
    <3>4. /\ Sound(P) /\ \A q \in Ports : Named(P, q)
      BY <3>1, <3>3, PutEases
    <3>5. /\ IsState(P) /\ P.sport = b.sport /\ P.ports[p] = x
          /\ \A q \in Ports \ {p} : P.ports[q] = b.ports[q]
      BY <3>1, <3>3, PutState
    <3>6. n \in {0, 1} /\ b.sport.num_lports \in Int
      BY <3>1 DEF Sport
    <3>. HIDE DEF n, P
    <3>7. /\ t \in Sport /\ SameSport(P.sport, t)
          /\ t.num_lports = b.sport.num_lports + n
      BY <3>1, <3>5, <3>6 DEF Sport, SameSport
    <3>. HIDE DEF t
    <3>8. /\ IsState(c) /\ c.lags = P.lags /\ c.ports = P.ports /\ c.sport = t
      BY <3>2, <3>5, <3>7, ResportState
    <3>9. Eases(P, c)
      <4>1. \A q \in Ports : Held(P, q)
        BY <3>4 DEF Sound, Shape
      <4>. QED
        BY <3>7, <3>8, <4>1 DEF Held, Eases, Eased
    <3>10. Sound(c) /\ \A q \in Ports : Named(c, q)
      BY <3>4, <3>8, <3>9, EasesSound, EasesShape DEF Sound
    <3>11. Counted(c, {})
      <4>1. Joined(c) \ {} = Joined(b) \cup {p} /\ p \notin Joined(b)
            /\ Joined(b) \ {} = Joined(b)
        BY <2>2, <3>3, <3>5, <3>8 DEF Joined
      <4>2. Joined(b) \in SUBSET Ports
        BY DEF Joined
      <4>3. IsFiniteSet(Joined(b)) /\ Cardinality(Joined(b)) \in Nat
        BY <4>2, PortSets
      <4>4. Cardinality(Joined(b) \cup {p}) = Cardinality(Joined(b)) + 1
        BY <4>1, <4>3, FS_AddElement
      <4>5. b.sport.num_lports <= Cardinality(Joined(b))
        BY <3>1, <4>1 DEF Counted
      <4>6. c.sport.num_lports <= Cardinality(Joined(b) \cup {p})
        BY <3>6, <3>7, <3>8, <4>3, <4>4, <4>5
      <4>. QED
        BY <4>1, <4>6 DEF Counted
    <3>. QED
      BY <3>10, <3>11 DEF Fit
  <2>. QED
    BY <2>1, <2>2
<1>. HIDE DEF c
<1>. QED
  BY <1>1, <1>5, <1>10, BecomesInv

\* A message to the super port changes nothing else.
LEMMA SportIs ==
    ASSUME Inv, NEW t \in Sport, sport' = t, UNCHANGED <<ports, lags>>
    PROVE  State' = Resport(State, t) /\ IsState(State)
BY DEF Inv, Fit, Sound, Shape, Resport, State

\* While nobody holds it, a super port may be created, set up, cleared and destroyed.
LEMMA IdleInv ==
    ASSUME Inv, ~sport.known, NEW t \in Sport, sport' = t, UNCHANGED <<ports, lags>>,
           ~t.known, t.system = NoSystem,
           t.num_lports = sport.num_lports \/ t.num_lports = 0
    PROVE  Inv'
<1>. DEFINE T == Resport(State, t)
<1>1. State' = T /\ IsState(State)
  BY SportIs
<1>2. /\ IsState(T) /\ T.lags = lags /\ T.ports = ports /\ T.sport = t
  BY <1>1, ResportState, StateIs
<1>. HIDE DEF T
<1>3. Shape(State) /\ Counted(State, {}) /\ \A q \in Ports : Named(State, q)
  BY DEF Inv, Fit, Sound
<1>4. \A q \in Ports : ~State.ports[q].sport
  BY <1>3, StateIs DEF Shape, Held
<1>5. Known(T) /\ Released(T)
  BY <1>2 DEF Known, Released
<1>6. Sound(T)
  BY <1>2, <1>3, <1>4, <1>5, NobodyHolds, StateIs
<1>7. \A q \in Ports : Named(T, q)
  BY <1>2, <1>3, StateIs DEF Named
<1>8. Counted(T, {})
  <2>1. Joined(T) \ {} = Joined(State) \ {} /\ Joined(State) \ {} \in SUBSET Ports
    BY <1>2, StateIs DEF Joined
  <2>2. Cardinality(Joined(State) \ {}) \in Nat
    BY <2>1, PortSets
  <2>. QED
    BY <1>2, <1>3, <2>1, <2>2, StateIs DEF Counted
<1>9. Fit(T)
  BY <1>6, <1>7, <1>8 DEF Fit
<1>. QED
  BY <1>1, <1>9 DEF Inv

\* A super port destroyed before its parameters were unset keeps them.
LEMMA FreedInv ==
    ASSUME Inv, NEW t \in Sport, sport' = t, UNCHANGED <<ports, lags>>,
           t = [sport EXCEPT !.state = "FREED"]
    PROVE  Inv'
<1>. DEFINE T == Resport(State, t)
<1>1. State' = T /\ IsState(State) /\ sport \in Sport
  BY SportIs, StateIs DEF IsState
<1>2. /\ IsState(T) /\ T.lags = lags /\ T.ports = ports /\ T.sport = t
  BY <1>1, ResportState, StateIs
<1>3. /\ t.state = "FREED" /\ t.known = sport.known /\ t.system = sport.system
      /\ t.syspri = sport.syspri /\ t.key = sport.key /\ t.port_type = sport.port_type
      /\ t.num_lports = sport.num_lports
  BY <1>1 DEF Sport
<1>. HIDE DEF T
<1>4. /\ Fit(State) /\ Listed(State) /\ Known(State) /\ Released(State)
      /\ \A q \in Ports : Held(State, q) /\ Served(State, q) /\ Named(State, q)
      /\ \A p, q \in Ports : Silent(State, p) /\ Silent(State, q) => p = q
  BY DEF Inv, Fit, Sound, Shape
<1>5. \A q \in Ports : HasLag(T, q) = HasLag(State, q)
  BY <1>2, StateIs DEF HasLag
<1>6. Listed(T) /\ Released(T) /\ Known(T)
  BY <1>2, <1>3, <1>4, StateIs DEF Listed, Released, Known
<1>7. ASSUME NEW q \in Ports PROVE Held(T, q) /\ Served(T, q) /\ Named(T, q)
  <2>1. Held(T, q)
    BY <1>2, <1>3, <1>4, <1>5, StateIs DEF Held
  <2>2. Served(T, q)
    BY <1>2, <1>3, <1>4, StateIs DEF Served
  <2>3. Named(T, q)
    BY <1>2, <1>4, StateIs DEF Named
  <2>. QED
    BY <2>1, <2>2, <2>3
<1>8. \A q \in Ports : Silent(T, q) = Silent(State, q)
  BY <1>2, StateIs DEF Silent
<1>9. Joined(T) = Joined(State)
  BY <1>2, StateIs DEF Joined
<1>10. Counted(T, {})
  BY <1>2, <1>3, <1>4, <1>9, StateIs DEF Counted, Fit
<1>11. Fit(T)
  BY <1>2, <1>4, <1>6, <1>7, <1>8, <1>10 DEF Fit, Sound, Shape
<1>. QED
  BY <1>1, <1>11 DEF Inv

\* A super port without ports.
LEMMA EmptySport ==
    ASSUME NEW s \in Sport, NEW x \in {"NONE", "CREATED"}
    PROVE  [s EXCEPT !.state = x, !.num_lports = 0] \in Sport
<1>1. ASSUME NEW n \in Int PROVE [s EXCEPT !.state = x, !.num_lports = n] \in Sport
  BY DEF Sport
<1>2. 0 \in Int
  OBVIOUS
<1>. QED
  BY <1>1, <1>2, Zenon

\* The messages to the super port.
LEMMA SportInv ==
    ASSUME Inv, SportMessage
    PROVE  Inv'
<1>1. sport \in Sport /\ Known(State) /\ State.sport = sport
  BY StateIs DEF Inv, Fit, Sound, Shape, IsState
<1>2. CASE mvlan_sport_create
  <2>. DEFINE t == [sport EXCEPT !.state = "CREATED", !.num_lports = 0]
  <2>1. ~sport.known /\ sport.system = NoSystem
    BY <1>1, <1>2 DEF Known, mvlan_sport_create
  <2>2. t \in Sport /\ ~t.known /\ t.system = NoSystem /\ t.num_lports = 0
    <3>1. t \in Sport
      BY <1>1, EmptySport
    <3>2. t.known = sport.known /\ t.system = sport.system
      BY <1>1 DEF Sport
    <3>3. t.num_lports = 0
      BY <1>1 DEF Sport
    <3>. QED
      BY <2>1, <3>1, <3>2, <3>3
  <2>3. sport' = t /\ UNCHANGED <<ports, lags>>
    BY <1>2 DEF mvlan_sport_create
  <2>. HIDE DEF t
  <2>. QED
    BY <2>1, <2>2, <2>3, IdleInv
<1>3. CASE mvlan_set_sport_params
  <2>. DEFINE t == [sport EXCEPT !.state = "SET", !.port_type = NoType, !.known = FALSE,
                                 !.actor_max = 0, !.partner_max = 0]
  <2>1. ~sport.known /\ sport.system = NoSystem
    BY <1>1, <1>3 DEF Known, mvlan_set_sport_params
  <2>2. t \in Sport /\ ~t.known /\ t.system = NoSystem /\ t.num_lports = sport.num_lports
    BY <1>1, <2>1 DEF Sport
  <2>3. sport' = t /\ UNCHANGED <<ports, lags>>
    BY <1>3 DEF mvlan_set_sport_params
  <2>. HIDE DEF t
  <2>. QED
    BY <2>1, <2>2, <2>3, IdleInv
<1>4. CASE mvlan_unset_sport_params
  <2>. DEFINE t == [sport EXCEPT !.state = "CREATED", !.port_type = NoType, !.known = FALSE]
  <2>1. ~sport.known /\ sport.system = NoSystem
    BY <1>1, <1>4
    DEF Known, mvlan_unset_sport_params, mvlan_api_validate_unset_sport_params
  <2>2. t \in Sport /\ ~t.known /\ t.system = NoSystem /\ t.num_lports = sport.num_lports
    BY <1>1, <2>1 DEF Sport
  <2>3. sport' = t /\ UNCHANGED <<ports, lags>>
    BY <1>4 DEF mvlan_unset_sport_params
  <2>. HIDE DEF t
  <2>. QED
    BY <2>1, <2>2, <2>3, IdleInv
<1>5. CASE mvlan_destroy_sport /\ sport.state = "SET"
  <2>. DEFINE t == [sport EXCEPT !.state = "FREED"]
  <2>1. t \in Sport
    BY <1>1 DEF Sport
  <2>2. sport' = t /\ UNCHANGED <<ports, lags>>
    BY <1>5 DEF mvlan_destroy_sport
  <2>. QED
    BY <2>1, <2>2, FreedInv
<1>6. CASE mvlan_destroy_sport /\ sport.state # "SET"
  <2>. DEFINE t == [sport EXCEPT !.state = "NONE", !.num_lports = 0]
  <2>1. ~sport.known /\ sport.system = NoSystem
    BY <1>1, <1>6 DEF Known, mvlan_destroy_sport
  <2>2. t \in Sport /\ ~t.known /\ t.system = NoSystem /\ t.num_lports = 0
    <3>1. t \in Sport
      BY <1>1, EmptySport
    <3>2. t.known = sport.known /\ t.system = sport.system
      BY <1>1 DEF Sport
    <3>3. t.num_lports = 0
      BY <1>1 DEF Sport
    <3>. QED
      BY <2>1, <3>1, <3>2, <3>3
  <2>3. sport' = t /\ UNCHANGED <<ports, lags>>
    BY <1>6 DEF mvlan_destroy_sport
  <2>. HIDE DEF t
  <2>. QED
    BY <2>1, <2>2, <2>3, IdleInv
<1>. QED
  BY <1>2, <1>3, <1>4, <1>5, <1>6 DEF SportMessage

\* The invariant holds at the start.
LEMMA InitInv == Init => Inv
<1>. SUFFICES ASSUME Init PROVE Fit(State)
  BY DEF Inv
<1>1. /\ State.ports = [p \in Ports |-> Absent] /\ State.lags = {} /\ State.sport = sport
      /\ ~sport.known /\ sport.system = NoSystem /\ sport.num_lports = 0
  BY StateIs DEF Init
<1>2. sport \in Sport
  BY DEF Init, Sport
<1>3. IsState(State)
  <2>1. [p \in Ports |-> Absent] \in [Ports -> Lport] /\ {} \in SUBSET Lag
    BY AbsentPort
  <2>. QED
    BY <1>1, <1>2, <2>1 DEF IsState, State
<1>4. \A p \in Ports : State.ports[p] = Absent
  BY <1>1
<1>5. Listed(State) /\ Known(State) /\ Released(State) /\ \A p \in Ports : Named(State, p)
  BY <1>1 DEF Listed, Known, Released, Named
<1>6. \A p \in Ports : Held(State, p) /\ Served(State, p) /\ ~Silent(State, p)
  BY <1>4, AbsentPort DEF Held, Served, Silent
<1>7. Counted(State, {})
  <2>1. Joined(State) \ {} \in SUBSET Ports
    BY DEF Joined
  <2>. QED
    BY <1>1, <2>1, PortSets DEF Counted
<1>. QED
  BY <1>3, <1>5, <1>6, <1>7 DEF Fit, Sound, Shape

\* Every action keeps it.
LEMMA NextInv == Inv /\ [Next]_vars => Inv'
<1>. SUFFICES ASSUME Inv, [Next]_vars PROVE Inv'
  OBVIOUS
<1>1. CASE UNCHANGED vars
  BY <1>1 DEF vars, Inv, State
<1>2. CASE SportMessage
  BY <1>2, SportInv
<1>3. ASSUME NEW p \in Ports, PortMessage(p) PROVE Inv'
  <2>1. CASE \E up \in BOOLEAN, t \in PortTypes : LACP_initialize_port(p, up, t)
    BY <2>1, InitializeInv
  <2>2. CASE DisablePort(p)
    <3>1. Becomes(LACP_disable_lacp(State, p)) /\ State.sport.state # "FREED"
      BY <2>2, StateIs DEF DisablePort, Becomes
    <3>2. Fit(LACP_disable_lacp(State, p))
      BY <3>1, DisableFit DEF Inv
    <3>. QED
      BY <3>1, <3>2, BecomesInv
  <2>3. CASE \E t \in PortTypes : mlacpVapiLinkUp(p, t)
    BY <2>3, LinkUpInv
  <2>4. CASE mlacpVapiLinkDown(p)
    BY <2>4, LinkDownInv
  <2>5. ASSUME NEW w \in Wires, LACP_process_lacpdu(p, w) PROVE Inv'
    <3>1. /\ Becomes(current_state_action(State, p, w))
          /\ State.ports[p].lacp_up /\ State.sport.state # "FREED"
      BY <2>5, StateIs DEF LACP_process_lacpdu, Becomes
    <3>2. Half(State, p)
      BY <3>1, InvHalf DEF Inv
    <3>. QED
      BY <3>1, <3>2, CurrentFit, BecomesInv
  <2>6. CASE \E status \in Fallbacks : set_lport_fallback_status(p, status)
    BY <2>6, FallbackInv
  <2>. QED
    BY <1>3, <2>1, <2>2, <2>3, <2>4, <2>5, <2>6 DEF PortMessage
<1>4. ASSUME NEW p \in Ports, Timer(p) PROVE Inv'
  <2>1. CASE mux_wait_while_timer_expiry(p)
    BY <2>1, WaitInv
  <2>2. CASE current_while_timer_expiry(p)
    <3>1. /\ State.ports[p].lacp_up /\ State.sport.state # "FREED"
          /\ \E T \in {expired_state_action(State, p), defaulted_state_action(State, p)} :
                Becomes(T)
      BY <2>2, StateIs DEF current_while_timer_expiry, Becomes
    <3>2. Half(State, p)
      BY <3>1, InvHalf DEF Inv
    <3>3. Fit(expired_state_action(State, p)) /\ Fit(defaulted_state_action(State, p))
      BY <3>2, ExpiredFit, DefaultedFit DEF Inv
    <3>. QED
      BY <3>1, <3>3, BecomesInv
  <2>. QED
    BY <1>4, <2>1, <2>2 DEF Timer
<1>. QED
  BY <1>1, <1>2, <1>3, <1>4 DEF Next

(***************************************************************************)
(* Theorems.                                                               *)
(***************************************************************************)

\* The inductive invariant holds in every reachable state, for any number of ports,
\* whatever their priorities, their speeds and the LACPDUs they receive.
THEOREM Invariance == Spec => []Inv
<1>1. Init => Inv
  BY InitInv
<1>2. Inv /\ [Next]_vars => Inv'
  BY NextInv
<1>. QED
  BY <1>1, <1>2, PTL DEF Spec

\* Type correctness, with the partition of the running ports into LAGs: no handler of
\* selection.c leaves a freed port, or a port twice, on the lists.
THEOREM TypeCorrect == Spec => []TypeOK
<1>1. Inv => TypeOK
  <2>. SUFFICES ASSUME Inv PROVE TypeOK
    OBVIOUS
  <2>1. IsState(State) /\ Listed(State)
    BY DEF Inv, Fit, Sound, Shape
  <2>2. ports \in [Ports -> Lport] /\ sport \in Sport /\ lags \subseteq Lag
    BY <2>1, StateIs DEF IsState
  <2>. QED
    BY <2>1, <2>2, StateIs DEF TypeOK, Listed, Lag
<1>. QED
  BY <1>1, Invariance, PTL

\* receive_fsm.c and lacp_support.c never follow a missing placp_params: a port past
\* DETACHED is in a LAG and its super port has parameters and a partner.
THEOREM HeldSportsAreSet == Spec => []HoldersHaveParams
<1>1. Inv => HoldersHaveParams
  <2>. SUFFICES ASSUME Inv, NEW p \in Ports
                PROVE  /\ ports[p].mux # "DETACHED" <=> ports[p].sport
                       /\ ports[p].sport => /\ HasLag(State, p) /\ sport.known
                                            /\ sport.state \in {"SET", "FREED"}
    BY DEF HoldersHaveParams
  <2>1. Held(State, p) /\ Known(State)
    BY DEF Inv, Fit, Sound, Shape
  <2>. QED
    BY <2>1, StateIs DEF Held, Known
<1>. QED
  BY <1>1, Invariance, PTL

\* All selected ports have the super port's partner, through every takeover by priority,
\* clearing and late LACPDU.
THEOREM OnePartner == Spec => []SportServesPartner
<1>1. Inv => SportServesPartner
  BY StateIs DEF Inv, Fit, Sound, Served, SportServesPartner
<1>. QED
  BY <1>1, Invariance, PTL

\* All selected ports run at the super port's speed, also after a link came back at
\* another one.
THEOREM OneSpeed == Spec => []SportHasOneSpeed
<1>1. Inv => SportHasOneSpeed
  BY StateIs DEF Inv, Fit, Sound, Served, SportHasOneSpeed
<1>. QED
  BY <1>1, Invariance, PTL

\* At most one port that nobody answers is selected.
THEOREM SilentAlone == Spec => []SilentPortsStayAlone
<1>1. Inv => SilentPortsStayAlone
  BY StateIs DEF Inv, Fit, Sound, Silent, SilentPortsStayAlone
<1>. QED
  BY <1>1, Invariance, PTL

\* The super port's partner can always be released: a LAG has saved the handle.
THEOREM PartnerReleased == Spec => []PartnerIsReleased
<1>1. Inv => PartnerIsReleased
  BY StateIs DEF Inv, Fit, Sound, Released, PartnerIsReleased
<1>. QED
  BY <1>1, Invariance, PTL

\* LAG_selection and QuitLag never leave two LAGs of one partner.
THEOREM DistinctLags == Spec => []LagsAreDistinct
<1>1. Inv => LagsAreDistinct
  BY StateIs DEF Inv, Fit, Sound, Shape, Listed, LagsAreDistinct
<1>. QED
  BY <1>1, Invariance, PTL

\* A super port that all ports have left is never refused as in use.
THEOREM CountNotInflated == Spec => []CountIsNotInflated
<1>1. Inv => CountIsNotInflated
  <2>. SUFFICES ASSUME Inv PROVE CountIsNotInflated
    OBVIOUS
  <2>1. Counted(State, {}) /\ \A p \in Ports : Held(State, p)
    BY DEF Inv, Fit, Sound, Shape
  <2>2. Joined(State) \ {} = Attached
    BY <2>1, StateIs DEF Joined, Attached, Held
  <2>. QED
    BY <2>1, <2>2, StateIs DEF Counted, CountIsNotInflated
<1>. QED
  BY <1>1, Invariance, PTL
=============================================================================

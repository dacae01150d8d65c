------------------------- MODULE AddressBookProofs -------------------------
(***************************************************************************)
(* What the address book never does, for any ids, contacts, jobs, rooms,   *)
(* failures and cut-off sessions.                                          *)
(*                                                                         *)
(* First: what a move and a save write is what they should.  A plan says   *)
(* of each id which card and which alias it will have once everything is   *)
(* sent, and this stays so however much of it is sent (MovePlanIs,         *)
(* PlanSaveIs, SendMeans).                                                 *)
(*                                                                         *)
(* Second: everything is of its type, whoever writes beside whom (TInv);   *)
(* so what planSave promises holds of every room there is.                 *)
(*                                                                         *)
(* Third: a move that no save and no stray writes beside is verified, and  *)
(* changes what is read of no other contact (MInv); and the old events are *)
(* emptied of no card that the room in use does not have (CInv).           *)
(*                                                                         *)
(* Fourth: a save that alone writes does what it planned, also when the    *)
(* room has to be copied in the middle of it (WInv).                       *)
(***************************************************************************)
EXTENDS AddressBook, WellFoundedInduction, TLAPS

USE IdAssumption, RefAssumption, BoundAssumption, NoneIsNoVersion

IsRecord(b) == b = [room |-> b.room, card |-> b.card, alias |-> b.alias]

LEMMA RecordOfCard ==
    ASSUME NEW b, IsRecord(b), NEW i, NEW c
    PROVE  IsRecord([b EXCEPT !.card[i] = c]) /\ [b EXCEPT !.card[i] = c].room = b.room
<1>1. [b EXCEPT !.card[i] = c] = [room |-> b.room, card |-> [b.card EXCEPT ![i] = c], alias |-> b.alias]
  BY DEF IsRecord
<1> QED BY <1>1 DEF IsRecord

LEMMA RecordOfAlias ==
    ASSUME NEW b, IsRecord(b), NEW i, NEW c
    PROVE  IsRecord([b EXCEPT !.alias[i] = c]) /\ [b EXCEPT !.alias[i] = c].room = b.room
<1>1. [b EXCEPT !.alias[i] = c] = [room |-> b.room, card |-> b.card, alias |-> [b.alias EXCEPT ![i] = c]]
  BY DEF IsRecord
<1> QED BY <1>1 DEF IsRecord
----------------------------------------------------------------------------
(* Queues of writes.  Their least and greatest members are there because   *)
(* the order of the numbers is well-founded.                               *)

LEMMA FirstIs == ASSUME NEW S, S # {} PROVE First(S) \in S
BY DEF First

LEMMA LessIsWellFounded == IsWellFoundedOn({p \in Nat \X Nat : p[1] < p[2]}, Nat)
BY NatLessThanWellFounded DEF OpToRel

LEMMA LeastOf ==
    ASSUME NEW T, T \subseteq Nat, T # {} PROVE \E x \in T : \A y \in T : x <= y
<1> DEFINE R == {p \in Nat \X Nat : p[1] < p[2]}
<1>1. PICK x \in T : \A y \in T : ~(<<y, x>> \in R)
  <2>1. IsWellFoundedOn(R, Nat) BY LessIsWellFounded
  <2> HIDE DEF R
  <2> QED BY <2>1, WFMin
<1>2. \A y \in T : ~(y < x) BY <1>1
<1> QED BY <1>2

LEMMA GreatestOf ==
    ASSUME NEW n \in Nat, NEW T, T \subseteq 1..n, T # {}
    PROVE  \E x \in T : \A y \in T : y <= x
<1> DEFINE U == {m \in Nat : \A y \in T : y <= m}
<1>1. n \in U OBVIOUS
<1>2. PICK m \in U : \A k \in U : m <= k
  <2>1. U \subseteq Nat OBVIOUS
  <2> HIDE DEF U
  <2> QED BY <1>1, <2>1, LeastOf
<1>3. m \in T
  <2> SUFFICES ASSUME m \notin T PROVE FALSE OBVIOUS
  <2>1. \A y \in T : y < m BY <1>2
  <2>2. m # 0
    <3>1. PICK y \in T : TRUE OBVIOUS
    <3>2. y \in Nat /\ y < m BY <2>1, <3>1
    <3> QED BY <3>2
  <2>3. m - 1 \in Nat /\ m - 1 < m BY <1>2, <2>2
  <2>4. m - 1 \in U BY <2>1, <2>3
  <2> QED BY <1>2, <2>3, <2>4
<1> QED BY <1>2, <1>3

(* The writes to one state key: it is cleared, or given its versions.      *)
IsQueue(q) == q = {None} \/ q \subseteq Version

LEMMA EarliestIs ==
    ASSUME NEW q, IsQueue(q), q # {}
    PROVE  Earliest(q) \in q
<1>1. \E v \in q : \A w \in q : v = w \/ (v \in Nat /\ w \in Nat /\ v < w)
  <2>1. CASE q = {None} BY <2>1
  <2>2. CASE q \subseteq Version
    <3>1. q \subseteq Nat BY <2>2 DEF Version
    <3>2. PICK v \in q : \A w \in q : v <= w BY <3>1, LeastOf
    <3> QED BY <3>1, <3>2
  <2> QED BY <2>1, <2>2 DEF IsQueue
<1> QED BY <1>1 DEF Earliest

Tops(q, v) == v \in q /\ \A w \in q : v = w \/ (v \in Nat /\ w \in Nat /\ v > w)

LEMMA LatestIs ==
    ASSUME NEW q, IsQueue(q), q # {}
    PROVE  Tops(q, Latest(q))
<1>1. \E v \in q : \A w \in q : v = w \/ (v \in Nat /\ w \in Nat /\ v > w)
  <2>1. CASE q = {None} BY <2>1
  <2>2. CASE q \subseteq Version
    <3>1. q \subseteq Nat BY <2>2 DEF Version
    <3>2. PICK v \in q : \A w \in q : w <= v BY <2>2, GreatestOf DEF Version
    <3> QED BY <3>1, <3>2
  <2> QED BY <2>1, <2>2 DEF IsQueue
<1> QED BY <1>1 DEF Latest, Tops

LEMMA TopOf ==
    ASSUME NEW p, p \subseteq Version, NEW c \in Version, \A v \in p : v < c
    PROVE  Tops(p \cup {c}, c)
<1>1. c \in Nat /\ p \subseteq Nat BY DEF Version
<1>2. ASSUME NEW v \in p PROVE c = v \/ (c \in Nat /\ v \in Nat /\ c > v) BY <1>1
<1> QED BY <1>2 DEF Tops

LEMMA LatestIsOne == ASSUME NEW q, IsQueue(q), NEW v, Tops(q, v) PROVE Latest(q) = v
<1>1. Tops(q, Latest(q)) BY LatestIs DEF Tops
<1> QED BY <1>1 DEF Tops

LEMMA LatestOfOne == ASSUME NEW v PROVE Latest({v}) = v
BY DEF Latest

(* Sending the earliest write leaves the latest.                           *)
LEMMA LatestStays ==
    ASSUME NEW q, IsQueue(q), q # {}, q \ {Earliest(q)} # {}
    PROVE  Latest(q \ {Earliest(q)}) = Latest(q)
<1> DEFINE e == Earliest(q)
           l == Latest(q)
<1>1. q \subseteq Version BY EarliestIs DEF IsQueue
<1>2. Tops(q, l) BY LatestIs
<1>3. e \in q /\ \A w \in q : e = w \/ e < w
  <2>1. \E v \in q : \A w \in q : v = w \/ (v \in Nat /\ w \in Nat /\ v < w)
    <3>1. q \subseteq Nat BY <1>1 DEF Version
    <3>2. PICK v \in q : \A w \in q : v <= w BY <3>1, LeastOf
    <3> QED BY <3>1, <3>2
  <2> QED BY <2>1 DEF Earliest
<1>4. l # e
  <2>1. PICK w \in q : w # e OBVIOUS
  <2>2. e < w /\ (l = w \/ l > w) /\ e \in Nat /\ w \in Nat BY <1>1, <1>2, <1>3, <2>1 DEF Tops, Version
  <2> HIDE DEF e, l
  <2> QED BY <2>2, <1>1, <1>2 DEF Tops, Version
<1>5. Tops(q \ {e}, l) BY <1>2, <1>4 DEF Tops
<1>6. IsQueue(q \ {e}) BY <1>1 DEF IsQueue
<1> HIDE DEF e, l
<1>7. Latest(q \ {e}) = l BY <1>5, <1>6, LatestIsOne
<1> QED BY <1>7 DEF e, l

----------------------------------------------------------------------------
(* Plans.                                                                  *)

(* What a room or a book says of the ids.                                  *)
IsBook(b) ==
    /\ b.card \in [Id -> Card] /\ b.alias \in [Id -> Id \cup {None}]
    /\ \A i \in Id : b.alias[i] # i

Aliases(w) == \A i \in Id : w.alias[i] = {} \/ \E a \in (Id \cup {None}) \ {i} : w.alias[i] = {a}
IsPlan(w) ==
    /\ w = [card |-> w.card, alias |-> w.alias]
    /\ w.card = [i \in Id |-> w.card[i]] /\ w.alias = [i \in Id |-> w.alias[i]]
    /\ \A i \in Id : IsQueue(w.card[i])
    /\ Aliases(w)

(* What a book says once a plan is sent.                                   *)
CardOf(b, w, i) == IF w.card[i] = {} THEN b.card[i] ELSE Latest(w.card[i])
AliasOf(b, w, i) == IF w.alias[i] = {} THEN b.alias[i] ELSE Latest(w.alias[i])
ViewAt(b, w, i) ==
    IF CardOf(b, w, i) # None THEN CardOf(b, w, i)
    ELSE IF AliasOf(b, w, i) # None THEN CardOf(b, w, AliasOf(b, w, i)) ELSE None

(* What has been read of the old events: of one id, its card is the latest.*)
IsContent(t) ==
    /\ t.card \in [Id -> Card] /\ t.past \in [Id -> SUBSET Version]
    /\ \A i \in Id, v \in Version : v \in t.past[i] /\ t.card[i] # None => v < t.card[i]

(* What a queue q leaves of what was there.                                *)
Says(q, old, v) == q = {v} \/ (q = {} /\ old = v)

LEMMA SaysIs ==
    ASSUME NEW q, NEW old, NEW v, Says(q, old, v)
    PROVE  (IF q = {} THEN old ELSE Latest(q)) = v
<1>1. Latest({v}) = v BY LatestOfOne
<1> QED BY <1>1 DEF Says

LEMMA ClearIs == ASSUME NEW v PROVE Says(Clear(v), v, None)
BY DEF Clear, Says

LEMMA CanonicalIs ==
    ASSUME NEW b, NEW S, S # {} PROVE Canonical(b, S) \in S
BY FirstIs DEF Canonical, Held

LEMMA MovePlanIs ==
    ASSUME NEW t, IsContent(t), NEW b, IsBook(b), NEW f \in BOOLEAN
    PROVE  /\ IsPlan(MovePlan(t, b, f))
           /\ \A i \in Id :
                 /\ t.card[i] # None => ViewAt(b, MovePlan(t, b, f), i) = t.card[i]
                 /\ f /\ t.card[i] = None => ViewAt(b, MovePlan(t, b, f), i) = None
<1> DEFINE Group(i) == {j \in Id : t.card[j] = t.card[i]}
           Chief(i) == Canonical(b, Group(i))
           WithPast(i) == {j \in Group(i) : t.past[j] # {}}
           PastOf(i) == IF WithPast(i) = {} THEN {} ELSE t.past[First(WithPast(i))]
           cq(i) == IF t.card[i] = None THEN IF f THEN Clear(b.card[i]) ELSE {}
                    ELSE IF i # Chief(i) THEN Clear(b.card[i])
                    ELSE IF b.card[i] = None THEN PastOf(i) \cup {t.card[i]}
                    ELSE IF b.card[i] # t.card[i] THEN {t.card[i]} ELSE {}
           aq(i) == IF t.card[i] = None THEN IF f THEN Clear(b.alias[i]) ELSE {}
                    ELSE IF i # Chief(i) /\ b.alias[i] # Chief(i) THEN {Chief(i)} ELSE {}
           w == MovePlan(t, b, f)
<1>1. w = [card |-> [i \in Id |-> cq(i)], alias |-> [i \in Id |-> aq(i)]]
  BY DEF MovePlan
<1>2. ASSUME NEW i \in Id PROVE Chief(i) \in Group(i) /\ Chief(i) \in Id
  <2>1. i \in Group(i) OBVIOUS
  <2> QED BY <2>1, CanonicalIs
<1>3. ASSUME NEW i \in Id, NEW j \in Id, t.card[i] = t.card[j] PROVE Chief(i) = Chief(j)
  BY <1>3
<1>4. ASSUME NEW i \in Id
      PROVE  PastOf(i) \subseteq Version /\ \A v \in PastOf(i) : t.card[i] # None => v < t.card[i]
  <2>1. CASE WithPast(i) = {} BY <2>1
  <2>2. CASE WithPast(i) # {}
    <3>1. PICK j \in WithPast(i) : j = First(WithPast(i)) BY <2>2, FirstIs
    <3>2. PastOf(i) = t.past[j] /\ j \in Id /\ t.card[j] = t.card[i] BY <2>2, <3>1
    <3> HIDE DEF PastOf, WithPast, Group
    <3> QED BY <3>2 DEF IsContent
  <2> QED BY <2>1, <2>2
<1>5. ASSUME NEW i \in Id PROVE IsQueue(cq(i))
  <2>1. t.card[i] \in Card BY DEF IsContent
  <2> HIDE DEF PastOf, Chief
  <2> QED BY <1>4, <2>1 DEF Clear, IsQueue, Card
<1>6. ASSUME NEW i \in Id
      PROVE  aq(i) = {} \/ \E a \in (Id \cup {None}) \ {i} : aq(i) = {a}
  <2> HIDE DEF Chief
  <2> QED BY <1>2 DEF Clear
<1>7. ASSUME NEW i \in Id PROVE w.card[i] = cq(i) /\ w.alias[i] = aq(i)
  <2> HIDE DEF w, cq, aq
  <2> QED BY <1>1
<1>8. IsPlan(w)
  <2>1. /\ w = [card |-> w.card, alias |-> w.alias]
        /\ w.card = [i \in Id |-> w.card[i]] /\ w.alias = [i \in Id |-> w.alias[i]]
    <3> HIDE DEF w, cq, aq
    <3> QED BY <1>1
  <2> HIDE DEF w, cq, aq
  <2> QED BY <1>5, <1>6, <1>7, <2>1 DEF IsPlan, Aliases
<1>9. ASSUME NEW i \in Id, t.card[i] # None, i = Chief(i) PROVE CardOf(b, w, i) = t.card[i]
  <2>1. t.card[i] \in Version BY <1>9 DEF IsContent, Card
  <2>2. CASE b.card[i] = None
    <3>1. cq(i) = PastOf(i) \cup {t.card[i]} BY <1>9, <2>2
    <3>2. Tops(cq(i), t.card[i])
      <4> HIDE DEF PastOf, cq
      <4> QED BY <1>4, <1>9, <2>1, <3>1, TopOf
    <3>3. IsQueue(cq(i)) BY <1>5
    <3>4. cq(i) # {} BY <3>1
    <3> HIDE DEF cq, w
    <3>5. Latest(cq(i)) = t.card[i] BY <3>2, <3>3, LatestIsOne
    <3>6. w.card[i] = cq(i) BY <1>7
    <3> QED BY <3>4, <3>5, <3>6 DEF CardOf
  <2>3. CASE b.card[i] # None
    <3>1. cq(i) = IF b.card[i] # t.card[i] THEN {t.card[i]} ELSE {} BY <1>9, <2>3
    <3> HIDE DEF cq, w
    <3>2. Says(w.card[i], b.card[i], t.card[i]) BY <1>7, <3>1 DEF Says
    <3> QED BY <3>2, SaysIs DEF CardOf
  <2> QED BY <2>2, <2>3
<1>10. ASSUME NEW i \in Id, t.card[i] # None \/ f, t.card[i] = None \/ i # Chief(i)
       PROVE  CardOf(b, w, i) = None
  <2>1. cq(i) = Clear(b.card[i]) BY <1>10
  <2> HIDE DEF cq, w
  <2>2. Says(w.card[i], b.card[i], None) BY <1>7, <2>1, ClearIs
  <2> QED BY <2>2, SaysIs DEF CardOf
<1>11. ASSUME NEW i \in Id, t.card[i] # None, i # Chief(i) PROVE AliasOf(b, w, i) = Chief(i)
  <2>1. aq(i) = IF b.alias[i] # Chief(i) THEN {Chief(i)} ELSE {} BY <1>11
  <2> HIDE DEF aq, w, Chief
  <2>2. Says(w.alias[i], b.alias[i], Chief(i)) BY <1>7, <2>1 DEF Says
  <2> QED BY <2>2, SaysIs DEF AliasOf
<1>12. ASSUME NEW i \in Id, t.card[i] = None, f PROVE AliasOf(b, w, i) = None
  <2>1. aq(i) = Clear(b.alias[i]) BY <1>12
  <2> HIDE DEF aq, w
  <2>2. Says(w.alias[i], b.alias[i], None) BY <1>7, <2>1, ClearIs
  <2> QED BY <2>2, SaysIs DEF AliasOf
<1>13. ASSUME NEW i \in Id, t.card[i] # None PROVE ViewAt(b, w, i) = t.card[i]
  <2>1. CASE i = Chief(i)
    <3> HIDE DEF w, Chief
    <3> QED BY <1>9, <1>13, <2>1 DEF ViewAt
  <2>2. CASE i # Chief(i)
    <3> DEFINE m == Chief(i)
    <3>1. m \in Id /\ t.card[m] = t.card[i] BY <1>2
    <3>2. Chief(m) = m BY <1>3, <3>1
    <3>3. CardOf(b, w, m) = t.card[i]
      <4> HIDE DEF m, Chief, w
      <4> QED BY <1>9, <1>13, <3>1, <3>2
    <3>4. CardOf(b, w, i) = None
      <4> HIDE DEF w, Chief
      <4> QED BY <1>10, <1>13, <2>2
    <3>5. AliasOf(b, w, i) = m
      <4> HIDE DEF w, Chief
      <4> QED BY <1>11, <1>13, <2>2
    <3> HIDE DEF m, w, Chief
    <3> QED BY <3>1, <3>3, <3>4, <3>5 DEF ViewAt
  <2> QED BY <2>1, <2>2
<1>14. ASSUME NEW i \in Id, t.card[i] = None, f PROVE ViewAt(b, w, i) = None
  <2> HIDE DEF w, Chief
  <2> QED BY <1>10, <1>12, <1>14 DEF ViewAt
<1> HIDE DEF w
<1>15. w = MovePlan(t, b, f) BY DEF w
<1> QED BY <1>8, <1>13, <1>14, <1>15

(* A save: its ids say the new card, and every id that is not torn by an   *)
(* earlier save that was cut off says what it said.                        *)
LEMMA PlanSaveIs ==
    ASSUME NEW b, IsBook(b), NEW ids \in SUBSET Id, ids # {}, NEW c
    PROVE  /\ c \in Card => IsPlan(PlanSave(b, ids, c))
           /\ Aliases(PlanSave(b, ids, c))
           /\ \A i \in Id : IF i \in ids THEN ViewAt(b, PlanSave(b, ids, c), i) = c
                            ELSE i \in Unsure(b) \/ ViewAt(b, PlanSave(b, ids, c), i) = ViewOf(b)[i]
<1> DEFINE main == Canonical(b, ids)
           Heir(i) == First(Sharers(b, ids, i))
           Loses(x) == b.alias[x] \in Held(b, ids)
           Inherits(x) == Loses(x) /\ x = Heir(b.alias[x])
           cq(x) == IF x \notin ids THEN IF Inherits(x) THEN {b.card[b.alias[x]]} ELSE {}
                    ELSE IF c = None \/ x # main THEN Clear(b.card[x])
                    ELSE IF b.card[x] # c THEN {c} ELSE {}
           aq(x) == IF x \notin ids
                    THEN IF Inherits(x) THEN {None} ELSE IF Loses(x) THEN {Heir(b.alias[x])} ELSE {}
                    ELSE IF c = None \/ x = main THEN Clear(b.alias[x])
                    ELSE IF b.alias[x] # main THEN {main} ELSE {}
           w == PlanSave(b, ids, c)
<1>1. w = [card |-> [i \in Id |-> cq(i)], alias |-> [i \in Id |-> aq(i)]]
  BY DEF PlanSave
<1>2. main \in ids BY CanonicalIs
<1>3. ASSUME NEW x \in Id, x \notin ids, Loses(x)
      PROVE  /\ b.alias[x] \in ids /\ b.card[b.alias[x]] \in Version
             /\ Heir(b.alias[x]) \in Id \ ids /\ b.alias[Heir(b.alias[x])] = b.alias[x]
  <2>1. b.alias[x] \in ids /\ b.card[b.alias[x]] # None BY <1>3 DEF Held
  <2>2. x \in Sharers(b, ids, b.alias[x]) BY <1>3 DEF Sharers
  <2>3. Heir(b.alias[x]) \in Sharers(b, ids, b.alias[x]) BY <2>2, FirstIs
  <2> HIDE DEF Heir
  <2> QED BY <2>1, <2>3 DEF Sharers, IsBook, Card
<1>4. ASSUME NEW i \in Id PROVE w.card[i] = cq(i) /\ w.alias[i] = aq(i)
  <2> HIDE DEF w, cq, aq
  <2> QED BY <1>1
<1>5. ASSUME NEW i \in Id PROVE ViewOf(b)[i] = IF b.card[i] # None THEN b.card[i]
          ELSE IF b.alias[i] # None THEN b.card[b.alias[i]] ELSE None
  BY DEF ViewOf
<1>12. Aliases(w)
  <2>1. ASSUME NEW i \in Id
        PROVE  aq(i) = {} \/ \E a \in (Id \cup {None}) \ {i} : aq(i) = {a}
    <3>1. CASE i \in ids
      <4> HIDE DEF main
      <4> QED BY <1>2, <3>1 DEF Clear
    <3>2. CASE i \notin ids /\ Loses(i) /\ ~Inherits(i)
      <4>1. aq(i) = {Heir(b.alias[i])} /\ i # Heir(b.alias[i]) BY <3>2
      <4>2. Heir(b.alias[i]) \in Id BY <1>3, <3>2
      <4> HIDE DEF aq, Heir
      <4> QED BY <4>1, <4>2
    <3>3. CASE i \notin ids /\ (~Loses(i) \/ Inherits(i))
      <4>1. aq(i) = {None} \/ aq(i) = {} BY <3>3
      <4> HIDE DEF aq
      <4> QED BY <4>1
    <3> QED BY <3>1, <3>2, <3>3
  <2> HIDE DEF w, aq
  <2> QED BY <1>4, <2>1 DEF Aliases
<1>6. c \in Card => IsPlan(w)
  <2> SUFFICES ASSUME c \in Card PROVE IsPlan(w) OBVIOUS
  <2>1. ASSUME NEW i \in Id PROVE IsQueue(cq(i))
    <3>1. CASE i \in ids
      <4> HIDE DEF main
      <4> QED BY <3>1 DEF Clear, IsQueue, Card
    <3>2. CASE i \notin ids
      <4>1. cq(i) = IF Inherits(i) THEN {b.card[b.alias[i]]} ELSE {} BY <3>2
      <4>2. Inherits(i) => b.card[b.alias[i]] \in Version BY <1>3, <3>2
      <4> HIDE DEF cq, Inherits
      <4> QED BY <4>1, <4>2 DEF IsQueue
    <3> QED BY <3>1, <3>2
  <2>3. /\ w = [card |-> w.card, alias |-> w.alias]
        /\ w.card = [i \in Id |-> w.card[i]] /\ w.alias = [i \in Id |-> w.alias[i]]
    <3> HIDE DEF w, cq, aq
    <3> QED BY <1>1
  <2> HIDE DEF w, cq, aq
  <2> QED BY <1>4, <1>12, <2>1, <2>3 DEF IsPlan
<1>7. ASSUME NEW i \in ids PROVE ViewAt(b, w, i) = c
  <2>1. CASE c = None
    <3>1. cq(i) = Clear(b.card[i]) /\ aq(i) = Clear(b.alias[i]) BY <2>1
    <3> HIDE DEF cq, aq, w
    <3>2. Says(w.card[i], b.card[i], None) BY <1>4, <3>1, ClearIs
    <3>3. Says(w.alias[i], b.alias[i], None) BY <1>4, <3>1, ClearIs
    <3>4. CardOf(b, w, i) = None /\ AliasOf(b, w, i) = None BY <3>2, <3>3, SaysIs DEF CardOf, AliasOf
    <3> QED BY <2>1, <3>4 DEF ViewAt
  <2>2. CASE c # None
    <3>1. CardOf(b, w, main) = c
      <4>1. cq(main) = IF b.card[main] # c THEN {c} ELSE {} BY <1>2, <2>2
      <4>2. main \in Id BY <1>2
      <4> HIDE DEF cq, w, main
      <4>3. Says(w.card[main], b.card[main], c) BY <1>4, <4>1, <4>2 DEF Says
      <4> QED BY <4>3, SaysIs DEF CardOf
    <3>2. CASE i = main BY <2>2, <3>1, <3>2 DEF ViewAt
    <3>3. CASE i # main
      <4>1. cq(i) = Clear(b.card[i]) /\ aq(i) = IF b.alias[i] # main THEN {main} ELSE {}
        BY <2>2, <3>3
      <4>2. CardOf(b, w, i) = None /\ AliasOf(b, w, i) = main
        <5> HIDE DEF cq, aq, w, main
        <5>1. w.card[i] = cq(i) /\ w.alias[i] = aq(i) BY <1>4
        <5>2. Says(w.card[i], b.card[i], None) BY <4>1, <5>1, ClearIs
        <5>3. Says(w.alias[i], b.alias[i], main) BY <4>1, <5>1 DEF Says
        <5> QED BY <5>2, <5>3, SaysIs DEF CardOf, AliasOf
      <4> HIDE DEF w, main
      <4> QED BY <1>2, <2>2, <3>1, <4>2 DEF ViewAt
    <3> QED BY <3>2, <3>3
  <2> QED BY <2>1, <2>2
<1>8. ASSUME NEW i \in Id, i \notin ids, ~Loses(i)
      PROVE  CardOf(b, w, i) = b.card[i] /\ AliasOf(b, w, i) = b.alias[i]
  <2>1. cq(i) = {} /\ aq(i) = {} BY <1>8
  <2> HIDE DEF cq, aq, w
  <2> QED BY <1>4, <2>1 DEF CardOf, AliasOf
<1>9. ASSUME NEW i \in Id, i \notin ids, Inherits(i) PROVE CardOf(b, w, i) = b.card[b.alias[i]]
  <2>1. cq(i) = {b.card[b.alias[i]]} BY <1>9
  <2> HIDE DEF cq, w, Heir, Loses, Inherits
  <2>2. w.card[i] = {b.card[b.alias[i]]} BY <1>4, <2>1
  <2>3. Latest({b.card[b.alias[i]]}) = b.card[b.alias[i]] BY LatestOfOne
  <2> QED BY <2>2, <2>3 DEF CardOf
<1>10. ASSUME NEW i \in Id, i \notin ids, i \notin Unsure(b) PROVE ViewAt(b, w, i) = ViewOf(b)[i]
  <2>1. CASE b.alias[i] = None
    <3>1. ~Loses(i) BY <2>1 DEF Held
    <3> HIDE DEF w, Loses
    <3> QED BY <1>5, <1>8, <1>10, <2>1, <3>1 DEF ViewAt
  <2>2. CASE b.alias[i] # None
    <3> DEFINE a == b.alias[i]
    <3>1. a \in Id /\ i \notin Torn(b) /\ a \notin Torn(b)
      BY <1>10, <2>2 DEF Unsure, Through, IsBook
    <3>2. b.card[i] = None /\ b.card[a] # None /\ b.alias[a] = None
      BY <1>10, <2>2, <3>1 DEF Torn
    <3>3. ViewOf(b)[i] = b.card[a] BY <1>5, <2>2, <3>2
    <3>4. CASE ~Loses(i)
      <4>1. a \notin ids BY <3>2, <3>4 DEF Held
      <4>2. ~Loses(a) BY <3>2 DEF Held
      <4>3. CardOf(b, w, i) = None /\ AliasOf(b, w, i) = a
        <5> HIDE DEF w, Loses, a
        <5> QED BY <1>8, <1>10, <3>2, <3>4 DEF a
      <4>4. CardOf(b, w, a) = b.card[a]
        <5> HIDE DEF w, Loses, a
        <5> QED BY <1>8, <3>1, <4>1, <4>2
      <4> HIDE DEF w, Loses, a
      <4> QED BY <3>1, <3>3, <4>3, <4>4 DEF ViewAt
    <3>5. CASE Inherits(i)
      <4>1. CardOf(b, w, i) = b.card[a]
        <5> HIDE DEF w, Inherits
        <5> QED BY <1>9, <1>10, <3>5
      <4> HIDE DEF w, Inherits, Loses, a
      <4> QED BY <3>2, <3>3, <4>1 DEF ViewAt
    <3>6. CASE Loses(i) /\ ~Inherits(i)
      <4> DEFINE h == Heir(a)
      <4>1. h \in Id /\ h \notin ids /\ b.alias[h] = a BY <1>3, <1>10, <3>6
      <4>2. Inherits(h) BY <3>6, <4>1
      <4>3. CardOf(b, w, h) = b.card[a]
        <5>1. CardOf(b, w, h) = b.card[b.alias[h]]
          <6> HIDE DEF w, Inherits, h
          <6> QED BY <1>9, <4>1, <4>2
        <5> QED BY <4>1, <5>1
      <4>4. cq(i) = {} /\ aq(i) = {h} BY <1>10, <3>6
      <4>5. CardOf(b, w, i) = None /\ AliasOf(b, w, i) = h
        <5> HIDE DEF w, cq, aq, h, a
        <5>1. w.card[i] = {} /\ Says(w.alias[i], b.alias[i], h) BY <1>4, <4>4 DEF Says
        <5> QED BY <3>2, <5>1, SaysIs DEF CardOf, AliasOf
      <4> HIDE DEF w, h, a
      <4> QED BY <3>3, <4>1, <4>3, <4>5 DEF ViewAt
    <3> QED BY <3>4, <3>5, <3>6
  <2> QED BY <2>1, <2>2
<1>11. w = PlanSave(b, ids, c) OBVIOUS
<1> HIDE DEF w
<1> QED BY <1>6, <1>7, <1>10, <1>11, <1>12

LEMMA CopyPlanIs == ASSUME NEW b, IsBook(b) PROVE IsPlan(CopyPlan(b))
<1>1. ASSUME NEW i \in Id
      PROVE  /\ IsQueue({b.card[i]} \ {None})
             /\ {b.alias[i]} \ {None} = {}
                \/ \E a \in (Id \cup {None}) \ {i} : {b.alias[i]} \ {None} = {a}
  <2>1. CASE b.alias[i] = None BY <2>1 DEF IsBook, IsQueue, Card
  <2>2. CASE b.alias[i] # None
    <3>1. {b.alias[i]} \ {None} = {b.alias[i]} BY <2>2
    <3>2. b.alias[i] \in (Id \cup {None}) \ {i} BY DEF IsBook
    <3> QED BY <3>1, <3>2 DEF IsBook, IsQueue, Card
  <2> QED BY <2>1, <2>2
<1> QED BY <1>1 DEF CopyPlan, IsPlan, Aliases

LEMMA NoWritesIsPlan == IsPlan(NoWrites)
BY DEF IsPlan, Aliases, NoWrites, NoPast, IsQueue

(* An id has no alias to itself.                                           *)
LEMMA AliasIs ==
    ASSUME NEW b, IsBook(b), NEW w, Aliases(w), NEW i \in Id
    PROVE  AliasOf(b, w, i) \in (Id \cup {None}) \ {i}
<1>1. CASE w.alias[i] = {} BY <1>1 DEF AliasOf, IsBook
<1>2. CASE w.alias[i] # {}
  <2>1. PICK a \in (Id \cup {None}) \ {i} : w.alias[i] = {a} BY <1>2 DEF Aliases
  <2>2. Latest({a}) = a BY LatestOfOne
  <2> QED BY <2>1, <2>2 DEF AliasOf
<1> QED BY <1>1, <1>2

LEMMA SameView ==
    ASSUME NEW b, NEW w, NEW c, NEW x, IsBook(b), Aliases(w),
           \A j \in Id : CardOf(b, w, j) = CardOf(c, x, j) /\ AliasOf(b, w, j) = AliasOf(c, x, j)
    PROVE  \A i \in Id : ViewAt(b, w, i) = ViewAt(c, x, i)
BY AliasIs DEF ViewAt

LEMMA AppliedSays ==
    ASSUME NEW b, IsBook(b), b = [room |-> b.room, card |-> b.card, alias |-> b.alias],
           NEW w, Aliases(w), NEW i \in Id
    PROVE  ViewOf(Applied(b, w))[i] = ViewAt(b, w, i)
<1> DEFINE a == Applied(b, w)
<1>1. a.card = [j \in Id |-> CardOf(b, w, j)] /\ a.alias = [j \in Id |-> AliasOf(b, w, j)]
  BY DEF Applied, CardOf, AliasOf
<1>2. AliasOf(b, w, i) \in Id \cup {None} BY AliasIs
<1> HIDE DEF a
<1>3. ViewOf(a)[i] = ViewAt(b, w, i) BY <1>1, <1>2 DEF ViewOf, ViewAt
<1> QED BY <1>3 DEF a

LEMMA NothingSays ==
    ASSUME NEW b, NEW i \in Id, IsBook(b) PROVE ViewAt(b, NoWrites, i) = ViewOf(b)[i]
BY DEF ViewAt, CardOf, AliasOf, NoWrites, NoPast, ViewOf, IsBook

(* The write of an id goes from what is to be sent, w, to x, into a book b *)
(* that becomes c.                                                         *)
CardGoes(b, w, i, x, c) ==
    /\ w.card[i] # {}
    /\ x.card = [w.card EXCEPT ![i] = @ \ {Earliest(w.card[i])}] /\ x.alias = w.alias
    /\ x = [card |-> x.card, alias |-> x.alias]
    /\ c.card = [b.card EXCEPT ![i] = Earliest(w.card[i])] /\ c.alias = b.alias
AliasGoes(b, w, i, x, c) ==
    /\ w.alias[i] # {}
    /\ x.alias = [w.alias EXCEPT ![i] = {}] /\ x.card = w.card
    /\ x = [card |-> x.card, alias |-> x.alias]
    /\ c.alias = [b.alias EXCEPT ![i] = First(w.alias[i])] /\ c.card = b.card

(* A write that is sent is one that the plan promised.                     *)
LEMMA CardSends ==
    ASSUME NEW b, IsBook(b), NEW w, IsPlan(w), NEW i \in Id, NEW x, NEW c, CardGoes(b, w, i, x, c)
    PROVE  /\ IsBook(c) /\ IsPlan(x)
           /\ \A j \in Id : CardOf(c, x, j) = CardOf(b, w, j) /\ AliasOf(c, x, j) = AliasOf(b, w, j)
           /\ \A j \in Id : ViewAt(c, x, j) = ViewAt(b, w, j)
<1> DEFINE q == w.card[i]
           e == Earliest(q)
<1>0. /\ w.card[i] # {} /\ x.alias = w.alias /\ c.alias = b.alias
      /\ x.card = [w.card EXCEPT ![i] = @ \ {e}] /\ c.card = [b.card EXCEPT ![i] = e]
      /\ x = [card |-> x.card, alias |-> x.alias]
  BY DEF CardGoes
<1> USE <1>0
<1>1. e \in q /\ IsQueue(q) BY EarliestIs DEF IsPlan
<1>2. e \in Card BY <1>1 DEF IsQueue, Card
<1>3. IsBook(c)
  <2> HIDE DEF e
  <2> QED BY <1>2 DEF IsBook, e
<1>4. IsQueue(q \ {e}) BY <1>1 DEF IsQueue
<1>5. /\ \A j \in Id \ {i} : x.card[j] = w.card[j] /\ c.card[j] = b.card[j]
      /\ x.card[i] = q \ {e} /\ c.card[i] = e
      /\ x.card = [j \in Id |-> x.card[j]]
  BY DEF IsPlan, IsBook
<1>6. IsPlan(x)
  <2>1. \A j \in Id : IsQueue(x.card[j]) BY <1>4, <1>5 DEF IsPlan
  <2>2. Aliases(x) BY DEF IsPlan, Aliases
  <2>3. x.alias = [j \in Id |-> x.alias[j]] BY DEF IsPlan
  <2> QED BY <1>5, <2>1, <2>2, <2>3 DEF IsPlan
<1>7. CardOf(c, x, i) = CardOf(b, w, i)
  <2>1. CASE q \ {e} = {}
    <3>1. q = {e} BY <1>1, <2>1
    <3>2. Latest(q) = e BY <3>1, LatestOfOne
    <3> QED BY <1>5, <2>1, <3>2 DEF CardOf
  <2>2. CASE q \ {e} # {} BY <1>1, <1>5, <2>2, LatestStays DEF CardOf
  <2> QED BY <2>1, <2>2
<1>8. ASSUME NEW j \in Id
      PROVE  CardOf(c, x, j) = CardOf(b, w, j) /\ AliasOf(c, x, j) = AliasOf(b, w, j)
  <2>1. j # i => CardOf(c, x, j) = CardOf(b, w, j) BY <1>5 DEF CardOf
  <2> QED BY <1>7, <2>1 DEF AliasOf
<1>9. Aliases(x) BY <1>6 DEF IsPlan
<1> QED BY <1>3, <1>6, <1>8, <1>9, SameView

LEMMA AliasSends ==
    ASSUME NEW b, IsBook(b), NEW w, IsPlan(w), NEW i \in Id, NEW x, NEW c, AliasGoes(b, w, i, x, c)
    PROVE  /\ IsBook(c) /\ IsPlan(x)
           /\ \A j \in Id : CardOf(c, x, j) = CardOf(b, w, j) /\ AliasOf(c, x, j) = AliasOf(b, w, j)
           /\ \A j \in Id : ViewAt(c, x, j) = ViewAt(b, w, j)
<1>0. /\ w.alias[i] # {} /\ x.card = w.card /\ c.card = b.card
      /\ x.alias = [w.alias EXCEPT ![i] = {}]
      /\ c.alias = [b.alias EXCEPT ![i] = First(w.alias[i])]
      /\ x = [card |-> x.card, alias |-> x.alias]
  BY DEF AliasGoes
<1> USE <1>0
<1>1. PICK a \in (Id \cup {None}) \ {i} : w.alias[i] = {a} BY DEF IsPlan, Aliases
<1>2. First(w.alias[i]) = a BY <1>1 DEF First
<1>3. IsBook(c)
  <2>1. c.alias \in [Id -> Id \cup {None}] BY <1>1, <1>2 DEF IsBook
  <2>2. ASSUME NEW j \in Id PROVE c.alias[j] # j BY <1>1, <1>2 DEF IsBook
  <2> QED BY <2>1, <2>2 DEF IsBook
<1>4. /\ \A j \in Id \ {i} : x.alias[j] = w.alias[j] /\ c.alias[j] = b.alias[j]
      /\ x.alias[i] = {} /\ c.alias[i] = a
      /\ x.alias = [j \in Id |-> x.alias[j]]
  BY <1>2 DEF IsPlan, IsBook
<1>5. IsPlan(x)
  <2>1. Aliases(x) BY <1>4 DEF IsPlan, Aliases
  <2>2. \A j \in Id : IsQueue(x.card[j]) BY DEF IsPlan
  <2>3. x.card = [j \in Id |-> x.card[j]] BY DEF IsPlan
  <2> QED BY <1>4, <2>1, <2>2, <2>3 DEF IsPlan
<1>6. AliasOf(c, x, i) = AliasOf(b, w, i)
  <2>1. Latest({a}) = a BY LatestOfOne
  <2> QED BY <1>1, <1>4, <2>1 DEF AliasOf
<1>7. ASSUME NEW j \in Id
      PROVE  CardOf(c, x, j) = CardOf(b, w, j) /\ AliasOf(c, x, j) = AliasOf(b, w, j)
  <2>1. j # i => AliasOf(c, x, j) = AliasOf(b, w, j) BY <1>4 DEF AliasOf
  <2> QED BY <1>6, <2>1 DEF CardOf
<1>8. Aliases(x) BY <1>5 DEF IsPlan
<1> QED BY <1>3, <1>5, <1>7, <1>8, SameView

(* What a plan of a save, a move and a copy writes.                        *)
SameOf(b, w, c, x) ==
    \A i \in Id : CardOf(b, w, i) = CardOf(c, x, i) /\ AliasOf(b, w, i) = AliasOf(c, x, i)

Within(w, x) ==
    \A i \in Id : /\ w.card[i] # {} => x.card[i] # {}
                  /\ w.alias[i] # {} => x.alias[i] # {}

Writes(w, i) == w.card[i] # {} \/ w.alias[i] # {}

LEMMA PlanSaveWrites ==
    ASSUME NEW b, NEW ids \in SUBSET Id, NEW c, NEW x \in Id, Writes(PlanSave(b, ids, c), x)
    PROVE  x \in Through(b, ids)
<1> DEFINE w == PlanSave(b, ids, c)
<1> SUFFICES ASSUME x \notin ids, b.alias[x] \notin ids PROVE w.card[x] = {} /\ w.alias[x] = {}
  BY DEF Through, Writes
<1>1. b.alias[x] \notin Held(b, ids) BY DEF Held
<1> QED BY <1>1 DEF PlanSave

LEMMA MovePlanWrites ==
    ASSUME NEW t, NEW b, NEW x \in Id
    PROVE  /\ Writes(MovePlan(t, b, FALSE), x) => t.card[x] # None
           /\ None \notin MovePlan(t, b, FALSE).alias[x]
<1> DEFINE w == MovePlan(t, b, FALSE)
           Group == {j \in Id : t.card[j] = t.card[x]}
           m == Canonical(b, Group)
<1>1. m # None
  <2>1. x \in Group OBVIOUS
  <2> HIDE DEF Group
  <2>2. m \in Group BY <2>1, CanonicalIs
  <2> QED BY <2>2 DEF Group
<1>2. w.alias[x] = IF t.card[x] = None THEN {} ELSE IF x # m /\ b.alias[x] # m THEN {m} ELSE {}
  BY DEF MovePlan
<1>3. t.card[x] = None => w.card[x] = {} BY DEF MovePlan
<1> HIDE DEF w, m
<1> QED BY <1>1, <1>2, <1>3 DEF Writes, w

LEMMA CopyPlanSays ==
    ASSUME NEW b, IsBook(b) PROVE SameOf(EmptyRoom, CopyPlan(b), b, NoWrites)
<1> SUFFICES ASSUME NEW i \in Id
             PROVE  /\ CardOf(EmptyRoom, CopyPlan(b), i) = CardOf(b, NoWrites, i)
                    /\ AliasOf(EmptyRoom, CopyPlan(b), i) = AliasOf(b, NoWrites, i)
  BY DEF SameOf
<1>1. CardOf(b, NoWrites, i) = b.card[i] /\ AliasOf(b, NoWrites, i) = b.alias[i]
  BY DEF CardOf, AliasOf, NoWrites, NoPast
<1>2. CopyPlan(b).card[i] = {b.card[i]} \ {None} /\ CopyPlan(b).alias[i] = {b.alias[i]} \ {None}
  BY DEF CopyPlan
<1>3. EmptyRoom.card[i] = None /\ EmptyRoom.alias[i] = None BY DEF EmptyRoom, NoCards
<1>4. Says(CopyPlan(b).card[i], EmptyRoom.card[i], b.card[i]) BY <1>2, <1>3 DEF Says
<1>5. Says(CopyPlan(b).alias[i], EmptyRoom.alias[i], b.alias[i]) BY <1>2, <1>3 DEF Says
<1> QED BY <1>1, <1>4, <1>5, SaysIs DEF CardOf, AliasOf

(* Equal books say the same.                                               *)
LEMMA SameViews ==
    ASSUME NEW b, NEW w, NEW c, NEW x, IsBook(b), Aliases(w), SameOf(b, w, c, x), NEW i \in Id
    PROVE  ViewAt(b, w, i) = ViewAt(c, x, i)
BY SameView DEF SameOf

LEMMA SameContents ==
    ASSUME NEW b, NEW c, IsBook(b), IsBook(c), SameOf(b, NoWrites, c, NoWrites)
    PROVE  b.card = c.card /\ b.alias = c.alias
<1>1. ASSUME NEW i \in Id PROVE b.card[i] = c.card[i] /\ b.alias[i] = c.alias[i]
  BY DEF SameOf, CardOf, AliasOf, NoWrites, NoPast
<1> QED BY <1>1 DEF IsBook

(* A write that is sent: what it changes, and what not.                    *)
Goes(b, w, i, x, c) ==
    /\ IsBook(c) /\ IsPlan(x) /\ SameOf(c, x, b, w) /\ Within(x, w) /\ Writes(w, i)
    /\ \A j \in Id \ {i} : c.card[j] = b.card[j] /\ c.alias[j] = b.alias[j]
    /\ w.card[i] = {} => c.card = b.card
    /\ w.alias[i] = {} => c.alias = b.alias
    /\ c.card = b.card \/ c.alias = b.alias
    /\ \A j \in Id : None \notin w.alias[j] =>
          None \notin x.alias[j] /\ (c.alias[j] = None => b.alias[j] = None)

LEMMA CardGoesOn ==
    ASSUME NEW b, IsBook(b), NEW w, IsPlan(w), NEW i \in Id, NEW x, NEW c, CardGoes(b, w, i, x, c)
    PROVE  Goes(b, w, i, x, c)
<1>1. IsBook(c) /\ IsPlan(x) /\ SameOf(c, x, b, w) BY CardSends DEF SameOf
<1>2. /\ w.card[i] # {} /\ x.alias = w.alias /\ c.alias = b.alias
      /\ x.card = [w.card EXCEPT ![i] = @ \ {Earliest(w.card[i])}]
      /\ c.card = [b.card EXCEPT ![i] = Earliest(w.card[i])]
  BY DEF CardGoes
<1>3. Within(x, w)
  <2> SUFFICES ASSUME NEW j \in Id PROVE x.card[j] # {} => w.card[j] # {} BY <1>2 DEF Within
  <2> QED BY <1>2 DEF IsPlan
<1>4. \A j \in Id \ {i} : c.card[j] = b.card[j] BY <1>2 DEF IsBook
<1> QED BY <1>1, <1>2, <1>3, <1>4 DEF Goes, Writes

LEMMA AliasGoesOn ==
    ASSUME NEW b, IsBook(b), NEW w, IsPlan(w), NEW i \in Id, NEW x, NEW c, AliasGoes(b, w, i, x, c)
    PROVE  Goes(b, w, i, x, c)
<1>1. IsBook(c) /\ IsPlan(x) /\ SameOf(c, x, b, w) BY AliasSends DEF SameOf
<1>2. /\ w.alias[i] # {} /\ x.card = w.card /\ c.card = b.card
      /\ x.alias = [w.alias EXCEPT ![i] = {}]
      /\ c.alias = [b.alias EXCEPT ![i] = First(w.alias[i])]
  BY DEF AliasGoes
<1>3. First(w.alias[i]) \in w.alias[i] BY <1>2, FirstIs
<1>4. \A j \in Id : x.alias[j] = {} \/ x.alias[j] = w.alias[j]
  BY <1>2 DEF IsPlan
<1>5. \A j \in Id \ {i} : c.alias[j] = b.alias[j] BY <1>2 DEF IsBook
<1>6. c.alias[i] = First(w.alias[i]) BY <1>2 DEF IsBook
<1>7. Within(x, w) BY <1>2, <1>4 DEF Within
<1>8. ASSUME NEW j \in Id, None \notin w.alias[j]
      PROVE  None \notin x.alias[j] /\ (c.alias[j] = None => b.alias[j] = None)
  BY <1>3, <1>4, <1>5, <1>6, <1>8
<1> QED BY <1>1, <1>2, <1>5, <1>7, <1>8 DEF Goes, Writes

----------------------------------------------------------------------------
(* Types.  What is named has been made; what has not been made is empty.   *)
Writers == Planned \cup {"straying"}

(* A job is changed in some of its fields.                                 *)
JobOf(a, i, c, r, o, w, p) ==
    [at |-> a, ids |-> i, card |-> c, room |-> r, on |-> o, writes |-> w, plan |-> p]

LEMMA PutRoom ==
    ASSUME NEW x, x = JobOf(x.at, x.ids, x.card, x.room, x.on, x.writes, x.plan), NEW a, NEW r
    PROVE  [x EXCEPT !.at = a, !.room = r]
             = JobOf(a, x.ids, x.card, r, x.on, x.writes, x.plan)
<1> DEFINE y1 == [x EXCEPT !.at = a]
           y2 == [y1 EXCEPT !.room = r]
<1>0. [x EXCEPT !.at = a, !.room = r] = y2 OBVIOUS
<1> HIDE DEF y1, y2
<1>1. y1 = JobOf(a, x.ids, x.card, x.room, x.on, x.writes, x.plan) BY DEF JobOf, y1
<1>2. y2 = JobOf(a, x.ids, x.card, r, x.on, x.writes, x.plan) BY <1>1 DEF JobOf, y2
<1> QED BY <1>0, <1>2

LEMMA PutWrites ==
    ASSUME NEW x, x = JobOf(x.at, x.ids, x.card, x.room, x.on, x.writes, x.plan), NEW a, NEW w
    PROVE  [x EXCEPT !.at = a, !.writes = w]
             = JobOf(a, x.ids, x.card, x.room, x.on, w, x.plan)
<1> DEFINE y1 == [x EXCEPT !.at = a]
           y2 == [y1 EXCEPT !.writes = w]
<1>0. [x EXCEPT !.at = a, !.writes = w] = y2 OBVIOUS
<1> HIDE DEF y1, y2
<1>1. y1 = JobOf(a, x.ids, x.card, x.room, x.on, x.writes, x.plan) BY DEF JobOf, y1
<1>2. y2 = JobOf(a, x.ids, x.card, x.room, x.on, w, x.plan) BY <1>1 DEF JobOf, y2
<1> QED BY <1>0, <1>2

LEMMA AskedJob ==
    ASSUME NEW i, NEW c, NEW r, NEW a
    PROVE  [NoJob EXCEPT !.ids = i, !.card = c, !.room = r, !.at = a]
             = JobOf(a, i, c, r, NoRef, NoWrites, NoWrites)
<1> DEFINE y1 == [NoJob EXCEPT !.ids = i]
           y2 == [y1 EXCEPT !.card = c]
           y3 == [y2 EXCEPT !.room = r]
           y4 == [y3 EXCEPT !.at = a]
<1>0. [NoJob EXCEPT !.ids = i, !.card = c, !.room = r, !.at = a] = y4 OBVIOUS
<1> HIDE DEF y1, y2, y3, y4
<1>1. y1 = JobOf("free", i, None, 0, NoRef, NoWrites, NoWrites) BY DEF NoJob, JobOf, y1
<1>2. y2 = JobOf("free", i, c, 0, NoRef, NoWrites, NoWrites) BY <1>1 DEF JobOf, y2
<1>3. y3 = JobOf("free", i, c, r, NoRef, NoWrites, NoWrites) BY <1>2 DEF JobOf, y3
<1>4. y4 = JobOf(a, i, c, r, NoRef, NoWrites, NoWrites) BY <1>3 DEF JobOf, y4
<1> QED BY <1>0, <1>4

LEMMA StrayJob ==
    ASSUME NEW a, NEW o, NEW w
    PROVE  [NoJob EXCEPT !.at = a, !.on = o, !.writes = w]
             = JobOf(a, {}, None, 0, o, w, NoWrites)
<1> DEFINE y1 == [NoJob EXCEPT !.at = a]
           y2 == [y1 EXCEPT !.on = o]
           y3 == [y2 EXCEPT !.writes = w]
<1>0. [NoJob EXCEPT !.at = a, !.on = o, !.writes = w] = y3 OBVIOUS
<1> HIDE DEF y1, y2, y3
<1>1. y1 = JobOf(a, {}, None, 0, NoRef, NoWrites, NoWrites) BY DEF NoJob, JobOf, y1
<1>2. y2 = JobOf(a, {}, None, 0, o, NoWrites, NoWrites) BY <1>1 DEF JobOf, y2
<1>3. y3 = JobOf(a, {}, None, 0, o, w, NoWrites) BY <1>2 DEF JobOf, y3
<1> QED BY <1>0, <1>3

IsJob(x) ==
    /\ x = JobOf(x.at, x.ids, x.card, x.room, x.on, x.writes, x.plan)
    /\ x.at \in {"free", "waiting", "founding", "announcing", "loading"} \cup Writers
    /\ x.ids \in SUBSET Id /\ x.card \in Card /\ IsPlan(x.writes) /\ IsPlan(x.plan)
    /\ x.at \notin {"free", "straying"} => x.ids # {}
Placed(x, bs, m) ==
    /\ x.at \in {"announcing", "loading"} => x.room \in 1..m
    /\ x.at \in Writers => x.on \in Ref /\ bs[x.on].room \in 1..m
AreJobs(js, bs, m) ==
    /\ js = [j \in Job |-> js[j]]
    /\ \A j \in Job : IsJob(js[j]) /\ Placed(js[j], bs, m)

IsOne(b, m) == IsBook(b) /\ IsRecord(b) /\ b.room \in 0..m
AreBooks(bs, m) ==
    /\ bs = [o \in Ref |-> bs[o]]
    /\ \A o \in Ref : IsOne(bs[o], m)

AreRooms(rs, m) ==
    /\ rs = [r \in Room |-> rs[r]]
    /\ \A r \in Room : IsBook(rs[r]) /\ rs[r] = [card |-> rs[r].card, alias |-> rs[r].alias]
    /\ \A r \in Room : r > m => rs[r] = EmptyRoom

IsPointer(p, m) ==
    /\ p = [room |-> p.room, pending |-> p.pending, moved |-> p.moved]
    /\ p.room \in 0..m /\ p.pending \in BOOLEAN

Counts ==
    /\ left \subseteq Room /\ made \in 0..MaxRooms /\ faults \in 0..MaxFaults
    /\ next \in 1..(MaxVersion + 1) /\ held \in Ref \cup {NoRef}
    /\ scratch \in BOOLEAN /\ meddled \in BOOLEAN /\ checked \in BOOLEAN
    /\ watched = [j \in Job |-> watched[j]]

(* The versions of an id are older than its card, and than the next.       *)
OldTyped ==
    /\ IsContent(OldEvents) /\ IsContent(taken)
    /\ \A i \in Id, v \in Version : v = cards[i] \/ v \in past[i] => v < next

Targeting == {"pointing", "reading", "sending", "verifying", "finalising"}
MoveTyped ==
    /\ at \in {"closed", "idle"} \cup Moving
    /\ IsOne(book, made) /\ IsPlan(writes)
    /\ at \in Targeting => book.room # 0

TInv ==
    /\ Counts /\ OldTyped /\ MoveTyped /\ IsPointer(pointer, made) /\ AreRooms(rooms, made)
    /\ AreBooks(books, made) /\ AreJobs(jobs, books, made)

LEMMA NothingIsContent == IsContent(NothingOld)
BY DEF IsContent, NothingOld, NoCards, NoPast, Card

LEMMA NoBookIsOne == ASSUME NEW m \in Nat PROVE IsOne(NoBook, m)
BY DEF IsOne, IsBook, IsRecord, NoBook, NoCards, Card

LEMMA NoJobIsJob == IsJob(NoJob) /\ \A bs, m : Placed(NoJob, bs, m)
BY NoWritesIsPlan DEF IsJob, JobOf, Placed, NoJob, Card, Writers, Planned

LEMMA NoBooksAre == ASSUME NEW m \in Nat PROVE AreBooks([o \in Ref |-> NoBook], m)
BY NoBookIsOne DEF AreBooks

LEMMA NoJobsAre == ASSUME NEW bs, NEW m PROVE AreJobs([j \in Job |-> NoJob], bs, m)
BY NoJobIsJob DEF AreJobs

LEMMA RoomOfOne ==
    ASSUME NEW m, NEW b, IsBook(b), IsRecord(b), NEW r \in 0..m
    PROVE  IsOne([b EXCEPT !.room = r], m) /\ [b EXCEPT !.room = r].room = r
<1>1. [b EXCEPT !.room = r] = [room |-> r, card |-> b.card, alias |-> b.alias] BY DEF IsRecord
<1> QED BY <1>1 DEF IsOne, IsBook, IsRecord

LEMMA BookIsOne ==
    ASSUME TInv, NEW r \in 1..made
    PROVE  /\ r \in Room /\ IsOne(BookOf(r), made) /\ BookOf(r).room = r
           /\ IsBook(rooms[r]) /\ BookOf(r).card = rooms[r].card /\ BookOf(r).alias = rooms[r].alias
<1>1. r \in Room BY DEF TInv, Counts, Room
<1>2. r \in 0..made BY DEF TInv, Counts
<1> QED BY <1>1, <1>2 DEF TInv, AreRooms, BookOf, IsOne, IsBook, IsRecord

LEMMA FinalRoom ==
    ASSUME TInv, Final
    PROVE  /\ pointer.room \in 1..made /\ pointer.room \in Room
           /\ IsBook(rooms[pointer.room])
<1>1. pointer.room \in 1..made BY DEF TInv, IsPointer, Final, Counts
<1> QED BY <1>1, BookIsOne

(* There is room for more.                                                 *)
LEMMA Larger ==
    ASSUME NEW m \in Nat, NEW n \in Nat, m <= n
    PROVE  /\ \A p : IsPointer(p, m) => IsPointer(p, n)
           /\ \A rs : AreRooms(rs, m) => AreRooms(rs, n)
           /\ \A b : IsOne(b, m) => IsOne(b, n)
           /\ \A bs : AreBooks(bs, m) => AreBooks(bs, n)
           /\ \A x, bs : Placed(x, bs, m) => Placed(x, bs, n)
           /\ \A js, bs : AreJobs(js, bs, m) => AreJobs(js, bs, n)
<1>1. 0..m \subseteq 0..n /\ 1..m \subseteq 1..n OBVIOUS
<1>2. \A b : IsOne(b, m) => IsOne(b, n) BY <1>1 DEF IsOne
<1>3. \A x, bs : Placed(x, bs, m) => Placed(x, bs, n) BY <1>1 DEF Placed
<1>4. ASSUME NEW rs, AreRooms(rs, m) PROVE AreRooms(rs, n)
  <2>1. ASSUME NEW r \in Room, r > n PROVE r > m BY <2>1 DEF Room
  <2> QED BY <1>4, <2>1 DEF AreRooms
<1> QED BY <1>1, <1>2, <1>3, <1>4 DEF IsPointer, AreBooks, AreJobs

(* A job or a book is changed.                                             *)
LEMMA JobPut ==
    ASSUME NEW js, js = [j \in Job |-> js[j]], NEW j \in Job, NEW x
    PROVE  /\ [js EXCEPT ![j] = x][j] = x
           /\ \A k \in Job \ {j} : [js EXCEPT ![j] = x][k] = js[k]
           /\ [js EXCEPT ![j] = x] = [k \in Job |-> [js EXCEPT ![j] = x][k]]
OBVIOUS

LEMMA BookPut ==
    ASSUME NEW m, NEW bs, AreBooks(bs, m), NEW o \in Ref, NEW b
    PROVE  /\ [bs EXCEPT ![o] = b][o] = b
           /\ \A q \in Ref \ {o} : [bs EXCEPT ![o] = b][q] = bs[q]
           /\ IsOne(b, m) => AreBooks([bs EXCEPT ![o] = b], m)
<1>1. /\ [bs EXCEPT ![o] = b][o] = b
      /\ \A q \in Ref \ {o} : [bs EXCEPT ![o] = b][q] = bs[q]
      /\ [bs EXCEPT ![o] = b] = [q \in Ref |-> [bs EXCEPT ![o] = b][q]]
  BY DEF AreBooks
<1> QED BY <1>1 DEF AreBooks

(* What is referred to is remembered.                                      *)
LEMMA RememberedIs ==
    ASSUME NEW m \in Nat, NEW bs, AreBooks(bs, m), NEW js, NEW h
    PROVE  /\ AreBooks(Remembered(bs, js, h), m)
           /\ \A j \in Job : js[j].on \in Ref => Remembered(bs, js, h)[js[j].on] = bs[js[j].on]
           /\ h \in Ref => Remembered(bs, js, h)[h] = bs[h]
<1>1. \A o \in Ref : Remembered(bs, js, h)[o] = IF o \in InUse(js, h) THEN bs[o] ELSE NoBook
  BY DEF Remembered
<1>2. /\ \A j \in Job : js[j].on \in InUse(js, h)
      /\ h \in InUse(js, h)
  BY DEF InUse
<1>3. AreBooks(Remembered(bs, js, h), m)
  <2>1. Remembered(bs, js, h) = [o \in Ref |-> Remembered(bs, js, h)[o]] BY DEF Remembered
  <2>2. \A o \in Ref : IsOne(Remembered(bs, js, h)[o], m) BY <1>1, NoBookIsOne DEF AreBooks
  <2> QED BY <2>1, <2>2 DEF AreBooks
<1> QED BY <1>1, <1>2, <1>3

LEMMA SpareIs == ASSUME NEW used, NEW o \in Spare(used) PROVE o \in Ref \ used
<1>1. Ref \ used # {} /\ o = First(Ref \ used) BY DEF Spare
<1> QED BY <1>1, FirstIs

(* Jobs whose books keep their rooms.                                      *)
LEMMA SamePlaces ==
    ASSUME NEW m \in Nat, NEW js, NEW bs, AreJobs(js, bs, m), NEW bt,
           \A k \in Job : js[k].at \in Writers => bt[js[k].on].room \in 1..m
    PROVE  AreJobs(js, bt, m)
BY DEF AreJobs, Placed

LEMMA JobChanges ==
    ASSUME NEW m \in Nat, NEW n \in Nat, m <= n, NEW js, NEW bs, AreJobs(js, bs, m), NEW bt, NEW j \in Job,
           \A k \in Job \ {j} : js[k].at \in Writers => bt[js[k].on].room \in 1..n,
           NEW x, IsJob(x), Placed(x, bt, n)
    PROVE  AreJobs([js EXCEPT ![j] = x], bt, n)
<1> DEFINE jt == [js EXCEPT ![j] = x]
<1>1. /\ jt[j] = x /\ jt = [k \in Job |-> jt[k]]
      /\ \A k \in Job \ {j} : jt[k] = js[k]
  BY JobPut DEF AreJobs
<1> HIDE DEF jt
<1>2. ASSUME NEW k \in Job \ {j} PROVE IsJob(jt[k]) /\ Placed(jt[k], bt, n)
  <2>1. IsJob(js[k]) /\ Placed(js[k], bs, m) BY DEF AreJobs
  <2>2. 1..m \subseteq 1..n OBVIOUS
  <2> QED BY <1>1, <2>1, <2>2 DEF Placed
<1>3. AreJobs(jt, bt, n) BY <1>1, <1>2 DEF AreJobs
<1> QED BY <1>3 DEF jt

LEMMA InitIsTInv == Init => TInv
<1> SUFFICES ASSUME Init PROVE TInv OBVIOUS
<1>1. Counts
  <2>1. left \subseteq Room /\ watched = [j \in Job |-> watched[j]] BY DEF Init
  <2>2. 0 \in 0..MaxRooms /\ 0 \in 0..MaxFaults /\ 1 \in 1..(MaxVersion + 1) OBVIOUS
  <2>3. made = 0 /\ faults = 0 /\ next = 1 BY DEF Init
  <2> QED BY <2>1, <2>2, <2>3 DEF Init, Counts
<1>2. OldTyped
  <2>1. IsContent(OldEvents) BY NothingIsContent DEF Init, OldEvents, NothingOld
  <2> QED BY <2>1, NothingIsContent DEF Init, OldTyped, NoCards, NoPast, Version
<1>3. AreRooms(rooms, made) BY DEF Init, AreRooms, IsBook, EmptyRoom, NoCards, Card
<1>4. IsPointer(pointer, made) BY DEF Init, IsPointer
<1>5. MoveTyped BY NoBookIsOne, NoWritesIsPlan DEF Init, MoveTyped, Targeting
<1>6. AreBooks(books, made) /\ AreJobs(jobs, books, made) BY NoBooksAre, NoJobsAre DEF Init
<1> QED BY <1>1, <1>2, <1>3, <1>4, <1>5, <1>6 DEF TInv

(* What a step leaves alone stays what it is.                              *)
LEMMA OldStays ==
    ASSUME TInv, UNCHANGED <<cards, past>>, taken' \in {taken, Legacy, NothingOld},
           next' \in Nat, next <= next'
    PROVE  OldTyped'
<1>1. OldEvents' = OldEvents BY DEF OldEvents
<1>2. IsContent(taken') BY NothingIsContent DEF TInv, OldTyped, Legacy
<1> QED BY <1>1, <1>2 DEF TInv, OldTyped, Counts, Version

LEMMA Stays ==
    ASSUME TInv, made' \in 0..MaxRooms, made <= made'
    PROVE  /\ UNCHANGED pointer => IsPointer(pointer, made)'
           /\ UNCHANGED rooms => AreRooms(rooms, made)'
           /\ UNCHANGED move => MoveTyped'
           /\ UNCHANGED books => AreBooks(books, made)'
           /\ UNCHANGED <<jobs, books>> => AreJobs(jobs, books, made)'
<1>1. made \in Nat /\ made' \in Nat BY DEF TInv, Counts
<1>2. /\ IsPointer(pointer, made') /\ AreRooms(rooms, made') /\ IsOne(book, made')
      /\ AreBooks(books, made') /\ AreJobs(jobs, books, made')
  BY <1>1, Larger DEF TInv, MoveTyped
<1>3. UNCHANGED move => MoveTyped' BY <1>2 DEF TInv, MoveTyped, move
<1> QED BY <1>2, <1>3

(* A step of the session that writes to no room and makes none.            *)
LEMMA QuietKeepsTInv ==
    ASSUME TInv, UNCHANGED <<cards, past, pointer, rooms, left, made>>,
           taken' \in {taken, Legacy, NothingOld},
           faults' \in 0..MaxFaults, next' \in 1..(MaxVersion + 1), next <= next',
           held' \in Ref \cup {NoRef}, scratch' \in BOOLEAN, meddled' \in BOOLEAN, checked' \in BOOLEAN,
           watched' = [j \in Job |-> watched'[j]],
           MoveTyped', AreBooks(books', made), AreJobs(jobs', books', made)
    PROVE  TInv'
<1>1. Counts' BY DEF TInv, Counts
<1>2. made' \in 0..MaxRooms /\ made <= made' /\ next' \in Nat /\ next \in Nat
  BY DEF TInv, Counts
<1>3. IsPointer(pointer, made)' /\ AreRooms(rooms, made)' BY <1>2, Stays
<1>4. OldTyped' BY <1>2, OldStays
<1> QED BY <1>1, <1>3, <1>4 DEF TInv

(* A move begins.                                                          *)
LEMMA StartIs ==
    ASSUME TInv, StartMove, UNCHANGED <<pointer, made, writes>>
    PROVE  /\ at' \in {"emptyingCards", "creating", "pointing", "reading"}
           /\ taken' = Legacy /\ scratch' \in BOOLEAN /\ meddled' \in BOOLEAN
           /\ book'.room = pointer.room /\ MoveTyped'
<1>1. pointer.room \in 0..made /\ made \in Nat BY DEF TInv, IsPointer, Counts
<1>2. IsOne(book', made) /\ book'.room = pointer.room
  <2>1. IsBook(NoBook) /\ IsRecord(NoBook) BY NoBookIsOne DEF IsOne
  <2> QED BY <1>1, <2>1, RoomOfOne DEF StartMove
<1>3. /\ at' \in {"emptyingCards", "creating", "pointing", "reading"}
      /\ at' \in {"pointing", "reading"} => pointer.room # 0
  BY DEF StartMove, MoveBegins, Final
<1>4. MoveTyped' BY <1>2, <1>3 DEF TInv, MoveTyped, Moving, Targeting
<1> QED BY <1>2, <1>3, <1>4 DEF StartMove

LEMMA MoveWhenReadyKeepsTInv == ASSUME TInv, MoveWhenReady PROVE TInv'
<1>1. UNCHANGED <<cards, past, pointer, rooms, left, made, jobs, books, held, writes, next, faults, checked, watched>>
  BY DEF MoveWhenReady, server, shared
<1>2. /\ MoveTyped' /\ taken' \in {taken, Legacy}
      /\ scratch' \in BOOLEAN /\ meddled' \in BOOLEAN
  <2>1. CASE StartMove BY <1>1, <2>1, StartIs
  <2>2. CASE UNCHANGED <<at, taken, scratch, book, meddled>>
    BY <1>1, <2>2 DEF TInv, MoveTyped, Counts
  <2> QED BY <2>1, <2>2 DEF MoveWhenReady
<1> QED BY <1>1, <1>2, QuietKeepsTInv DEF TInv, Counts

LEMMA AskKeepsTInv ==
    ASSUME TInv, NEW j \in Job, NEW ids \in SUBSET Id, NEW c \in Card, Ask(j, ids, c) PROVE TInv'
<1> DEFINE r == IF Final THEN pointer.room ELSE 0
           a == IF Final /\ ~HasLegacy THEN "loading"
                ELSE IF HasLegacy \/ at # "idle" THEN "waiting" ELSE "founding"
           x == [NoJob EXCEPT !.ids = ids, !.card = c, !.room = r, !.at = a]
<1>1. /\ UNCHANGED <<cards, past, pointer, rooms, left, made, books, held, writes, faults, checked, watched>>
      /\ ids # {} /\ next <= MaxVersion /\ next' = next + 1
      /\ jobs' = [jobs EXCEPT ![j] = x]
  BY DEF Ask, server
<1>2. /\ MoveTyped' /\ taken' \in {taken, Legacy}
      /\ scratch' \in BOOLEAN /\ meddled' \in BOOLEAN
  <2>1. CASE StartMove BY <1>1, <2>1, StartIs
  <2>2. CASE UNCHANGED <<at, taken, scratch, book, meddled>>
    BY <1>1, <2>2 DEF TInv, MoveTyped, Counts
  <2> QED BY <2>1, <2>2 DEF Ask
<1>3. next' \in 1..(MaxVersion + 1) /\ next <= next' BY <1>1 DEF TInv, Counts
<1>5. a \in {"loading", "waiting", "founding"} /\ (a = "loading" => Final)
      /\ (Final => r = pointer.room)
  OBVIOUS
<1> HIDE DEF r, a
<1>4. x = JobOf(a, ids, c, r, NoRef, NoWrites, NoWrites) BY AskedJob
<1> HIDE DEF x
<1>6. IsJob(x) BY <1>1, <1>4, <1>5, NoWritesIsPlan DEF IsJob, JobOf, Writers, Planned
<1>7. Placed(x, books, made) BY <1>4, <1>5, FinalRoom DEF Placed, JobOf, Writers, Planned
<1>8. AreJobs(jobs', books', made)
  <2>1. \A k \in Job \ {j} : jobs[k].at \in Writers => books[jobs[k].on].room \in 1..made
    BY DEF TInv, AreJobs, Placed
  <2>2. made \in Nat /\ made <= made /\ AreJobs(jobs, books, made) BY DEF TInv, Counts
  <2>3. AreJobs([jobs EXCEPT ![j] = x], books, made) BY <1>6, <1>7, <2>1, <2>2, JobChanges
  <2> QED BY <1>1, <2>3
<1> QED BY <1>1, <1>2, <1>3, <1>8, QuietKeepsTInv DEF TInv, Counts

(* A room is made.                                                         *)
LEMMA OneMore ==
    ASSUME TInv, made < MaxRooms
    PROVE  made + 1 \in 1..MaxRooms /\ made + 1 \in Room /\ made \in Nat /\ made < made + 1
           /\ rooms[made + 1] = EmptyRoom
<1>1. made \in Nat /\ made + 1 \in 1..MaxRooms BY DEF TInv, Counts
<1> QED BY <1>1 DEF TInv, AreRooms, Room

LEMMA MadeKeepsTInv ==
    ASSUME TInv, made < MaxRooms, made' = made + 1,
           UNCHANGED <<cards, past, pointer, rooms, left, taken, scratch, held, checked, next, faults>>,
           meddled' \in BOOLEAN, watched' = [j \in Job |-> watched'[j]],
           MoveTyped', AreBooks(books', made + 1), AreJobs(jobs', books', made + 1)
    PROVE  TInv'
<1>1. made' \in 0..MaxRooms /\ made <= made' BY OneMore
<1>2. Counts' BY <1>1 DEF TInv, Counts
<1>3. IsPointer(pointer, made)' /\ AreRooms(rooms, made)' BY <1>1, Stays
<1>4. OldTyped' BY OldStays DEF TInv, Counts
<1> QED BY <1>2, <1>3, <1>4 DEF TInv

LEMMA MakeRoomKeepsTInv == ASSUME TInv, MakeRoom PROVE TInv'
<1>1. /\ at = "creating" /\ made < MaxRooms /\ made' = made + 1
      /\ book' = [book EXCEPT !.room = made + 1] /\ at' = "pointing"
      /\ UNCHANGED <<cards, past, pointer, rooms, left, taken, scratch, writes, jobs, books, held, meddled, checked,
                     watched, next, faults>>
  BY DEF MakeRoom, shared, ghosts
<1>2. IsOne(book', made + 1) /\ book'.room = made + 1
  <2>1. made + 1 \in 0..(made + 1) BY <1>1, OneMore
  <2> QED BY <1>1, <2>1, RoomOfOne DEF TInv, MoveTyped, IsOne
<1>3. MoveTyped' BY <1>1, <1>2, OneMore DEF TInv, MoveTyped, Moving
<1>4. AreBooks(books, made + 1) /\ AreJobs(jobs, books, made + 1)
  BY <1>1, OneMore, Larger DEF TInv
<1> QED BY <1>1, <1>3, <1>4, MadeKeepsTInv DEF TInv, Counts

LEMMA FoundKeepsTInv == ASSUME TInv, NEW j \in Job, Found(j) PROVE TInv'
<1> DEFINE x == [jobs[j] EXCEPT !.at = "announcing", !.room = made + 1]
<1>1. /\ jobs[j].at = "founding" /\ made < MaxRooms /\ made' = made + 1
      /\ jobs' = [jobs EXCEPT ![j] = x]
      /\ UNCHANGED <<cards, past, pointer, rooms, left, move, books, held, meddled, checked, watched, next, faults>>
  BY DEF Found, ghosts
<1>2. IsJob(jobs[j]) BY DEF TInv, AreJobs
<1>3. x = JobOf("announcing", jobs[j].ids, jobs[j].card, made + 1, jobs[j].on, jobs[j].writes, jobs[j].plan)
  BY <1>2, PutRoom DEF IsJob
<1> HIDE DEF x
<1>4. IsJob(x) BY <1>1, <1>2, <1>3 DEF IsJob, JobOf
<1>5. Placed(x, books, made + 1) BY <1>1, <1>3, OneMore DEF Placed, JobOf, Writers, Planned
<1>6. \A k \in Job \ {j} : jobs[k].at \in Writers => books[jobs[k].on].room \in 1..(made + 1)
  BY <1>1, OneMore DEF TInv, AreJobs, Placed
<1>7. AreJobs(jobs', books', made + 1)
  <2>1. made \in Nat /\ made + 1 \in Nat /\ made <= made + 1 BY <1>1, OneMore
  <2>2. AreJobs(jobs, books, made) BY DEF TInv
  <2>3. AreJobs([jobs EXCEPT ![j] = x], books, made + 1) BY <1>4, <1>5, <1>6, <2>1, <2>2, JobChanges
  <2> QED BY <1>1, <2>3
<1>8. AreBooks(books', made + 1) BY <1>1, OneMore, Larger DEF TInv
<1>9. MoveTyped' BY <1>1, OneMore, Stays
<1> QED BY <1>1, <1>7, <1>8, <1>9, MadeKeepsTInv DEF TInv, Counts, move

LEMMA RecreateKeepsTInv == ASSUME TInv, NEW j \in Job, Recreate(j) PROVE TInv'
<1> DEFINE x == [jobs[j] EXCEPT !.at = "copying"]
           b == [NoBook EXCEPT !.room = made + 1]
           o == jobs[j].on
<1>1. /\ jobs[j].at = "recreating" /\ made < MaxRooms /\ made' = made + 1
      /\ books' = [books EXCEPT ![o] = b] /\ jobs' = [jobs EXCEPT ![j] = x]
      /\ meddled' = TRUE /\ checked' = FALSE
      /\ watched' = [k \in Job |-> IF k = j THEN watched[k] ELSE Unwatched]
      /\ UNCHANGED <<cards, past, pointer, rooms, left, move, held, next, faults>>
  BY DEF Recreate, Meddle
<1>2. IsJob(jobs[j]) /\ Placed(jobs[j], books, made) BY DEF TInv, AreJobs
<1>3. x = JobOf("copying", jobs[j].ids, jobs[j].card, jobs[j].room, jobs[j].on, jobs[j].writes, jobs[j].plan)
  BY <1>2 DEF IsJob, JobOf
<1>4. IsOne(b, made + 1) /\ b.room = made + 1
  <2>1. IsBook(NoBook) /\ IsRecord(NoBook) BY NoBookIsOne DEF IsOne
  <2>2. made + 1 \in 0..(made + 1) BY <1>1, OneMore
  <2> QED BY <2>1, <2>2, RoomOfOne
<1>5. o \in Ref BY <1>1, <1>2 DEF Placed, Writers, Planned
<1> HIDE DEF x, b, o
<1>6. AreBooks(books, made + 1) /\ AreJobs(jobs, books, made + 1) BY <1>1, OneMore, Larger DEF TInv
<1>7. /\ AreBooks(books', made + 1) /\ books'[o] = b
      /\ \A q \in Ref \ {o} : books'[q] = books[q]
  <2>1. /\ AreBooks([books EXCEPT ![o] = b], made + 1) /\ [books EXCEPT ![o] = b][o] = b
        /\ \A q \in Ref \ {o} : [books EXCEPT ![o] = b][q] = books[q]
    BY <1>4, <1>5, <1>6, BookPut
  <2> QED BY <1>1, <2>1
<1>8. IsJob(x) BY <1>1, <1>2, <1>3 DEF IsJob, JobOf, Writers, Planned
<1>9. Placed(x, books', made + 1)
  BY <1>1, <1>3, <1>4, <1>5, <1>7, OneMore DEF Placed, JobOf, Writers, Planned, o
<1>10. \A k \in Job \ {j} : jobs[k].at \in Writers => books'[jobs[k].on].room \in 1..(made + 1)
  <2> SUFFICES ASSUME NEW k \in Job \ {j}, jobs[k].at \in Writers
               PROVE  books'[jobs[k].on].room \in 1..(made + 1)
    OBVIOUS
  <2>1. jobs[k].on \in Ref /\ books[jobs[k].on].room \in 1..(made + 1) BY <1>6 DEF AreJobs, Placed
  <2>2. made + 1 \in 1..(made + 1) BY <1>1, OneMore
  <2> QED BY <1>4, <1>7, <2>1, <2>2
<1>11. AreJobs(jobs', books', made + 1)
  <2>1. made + 1 \in Nat /\ made + 1 <= made + 1 BY <1>1, OneMore
  <2>2. AreJobs([jobs EXCEPT ![j] = x], books', made + 1)
    BY <1>6, <1>8, <1>9, <1>10, <2>1, JobChanges
  <2> QED BY <1>1, <2>2
<1>12. MoveTyped' BY <1>1, OneMore, Stays
<1>13. Counts'
  <2>1. made' \in 0..MaxRooms BY <1>1, OneMore
  <2> QED BY <1>1, <2>1 DEF TInv, Counts, move
<1>14. IsPointer(pointer, made)' /\ AreRooms(rooms, made)' BY <1>1, OneMore, Stays
<1>15. OldTyped' BY <1>1, OldStays DEF TInv, Counts, move
<1> QED BY <1>1, <1>7, <1>11, <1>12, <1>13, <1>14, <1>15 DEF TInv

----------------------------------------------------------------------------
(* A write that is sent, to the room and to the book that is held.         *)
RoomCard(rs, r, i, e) == [rs EXCEPT ![r].card[i] = e]
RoomAlias(rs, r, i, e) == [rs EXCEPT ![r].alias[i] = e]
CardIn(b, i, e) == [b EXCEPT !.card[i] = e]
AliasIn(b, i, e) == [b EXCEPT !.alias[i] = e]
CardOut(w, i, e) == [w EXCEPT !.card[i] = @ \ {e}]
AliasOut(w, i) == [w EXCEPT !.alias[i] = {}]

LEMMA CardIsSent ==
    ASSUME NEW m, NEW rs, AreRooms(rs, m), NEW r \in Room, ~(r > m),
           NEW b, IsBook(b), IsRecord(b), NEW w, IsPlan(w), NEW i \in Id, w.card[i] # {},
           NEW e, e = Earliest(w.card[i]), NEW x, x = CardOut(w, i, e),
           NEW rt, rt = RoomCard(rs, r, i, e), NEW c, c = CardIn(b, i, e)
    PROVE  /\ AreRooms(rt, m) /\ \A q \in Room \ {r} : rt[q] = rs[q]
           /\ Goes(rs[r], w, i, x, rt[r]) /\ Goes(b, w, i, x, c)
           /\ IsRecord(c) /\ c.room = b.room
           /\ b.card = rs[r].card /\ b.alias = rs[r].alias => c.card = rt[r].card /\ c.alias = rt[r].alias
<1> DEFINE d == [rs[r] EXCEPT !.card[i] = e]
<1>1. rs = [q \in Room |-> rs[q]] /\ IsBook(rs[r]) /\ rs[r] = [card |-> rs[r].card, alias |-> rs[r].alias]
  BY DEF AreRooms
<1>2. rt = [rs EXCEPT ![r] = d] BY DEF RoomCard
<1>3. d.card = [rs[r].card EXCEPT ![i] = e] /\ d.alias = rs[r].alias /\ d = [card |-> d.card, alias |-> d.alias]
  BY <1>1
<1>4. /\ x.card = [w.card EXCEPT ![i] = @ \ {e}] /\ x.alias = w.alias
      /\ x = [card |-> x.card, alias |-> x.alias]
  BY DEF IsPlan, CardOut
<1>5. IsRecord(c) /\ c.room = b.room BY RecordOfCard DEF CardIn
<1>6. c.card = [b.card EXCEPT ![i] = e] /\ c.alias = b.alias BY DEF IsRecord, CardIn
<1> HIDE DEF d
<1>7. rt[r] = d /\ (\A q \in Room \ {r} : rt[q] = rs[q]) /\ rt = [q \in Room |-> rt[q]]
  BY <1>1, <1>2
<1>8. CardGoes(rs[r], w, i, x, d) /\ CardGoes(b, w, i, x, c) BY <1>3, <1>4, <1>6 DEF CardGoes
<1>9. Goes(rs[r], w, i, x, d) /\ Goes(b, w, i, x, c) BY <1>1, <1>8, CardGoesOn
<1>10. AreRooms(rt, m) BY <1>3, <1>7, <1>9 DEF AreRooms, Goes
<1>11. b.card = rs[r].card /\ b.alias = rs[r].alias => c.card = d.card /\ c.alias = d.alias
  BY <1>3, <1>6
<1> QED BY <1>5, <1>7, <1>9, <1>10, <1>11

LEMMA AliasIsSent ==
    ASSUME NEW m, NEW rs, AreRooms(rs, m), NEW r \in Room, ~(r > m),
           NEW b, IsBook(b), IsRecord(b), NEW w, IsPlan(w), NEW i \in Id, w.alias[i] # {},
           NEW e, e = First(w.alias[i]), NEW x, x = AliasOut(w, i),
           NEW rt, rt = RoomAlias(rs, r, i, e), NEW c, c = AliasIn(b, i, e)
    PROVE  /\ AreRooms(rt, m) /\ \A q \in Room \ {r} : rt[q] = rs[q]
           /\ Goes(rs[r], w, i, x, rt[r]) /\ Goes(b, w, i, x, c)
           /\ IsRecord(c) /\ c.room = b.room
           /\ b.card = rs[r].card /\ b.alias = rs[r].alias => c.card = rt[r].card /\ c.alias = rt[r].alias
<1> DEFINE d == [rs[r] EXCEPT !.alias[i] = e]
<1>1. rs = [q \in Room |-> rs[q]] /\ IsBook(rs[r]) /\ rs[r] = [card |-> rs[r].card, alias |-> rs[r].alias]
  BY DEF AreRooms
<1>2. rt = [rs EXCEPT ![r] = d] BY DEF RoomAlias
<1>3. d.alias = [rs[r].alias EXCEPT ![i] = e] /\ d.card = rs[r].card /\ d = [card |-> d.card, alias |-> d.alias]
  BY <1>1
<1>4. /\ x.alias = [w.alias EXCEPT ![i] = {}] /\ x.card = w.card
      /\ x = [card |-> x.card, alias |-> x.alias]
  BY DEF IsPlan, AliasOut
<1>5. IsRecord(c) /\ c.room = b.room BY RecordOfAlias DEF AliasIn
<1>6. c.alias = [b.alias EXCEPT ![i] = e] /\ c.card = b.card BY DEF IsRecord, AliasIn
<1> HIDE DEF d
<1>7. rt[r] = d /\ (\A q \in Room \ {r} : rt[q] = rs[q]) /\ rt = [q \in Room |-> rt[q]]
  BY <1>1, <1>2
<1>8. AliasGoes(rs[r], w, i, x, d) /\ AliasGoes(b, w, i, x, c) BY <1>3, <1>4, <1>6 DEF AliasGoes
<1>9. Goes(rs[r], w, i, x, d) /\ Goes(b, w, i, x, c) BY <1>1, <1>8, AliasGoesOn
<1>10. AreRooms(rt, m) BY <1>3, <1>7, <1>9 DEF AreRooms, Goes
<1>11. b.card = rs[r].card /\ b.alias = rs[r].alias => c.card = d.card /\ c.alias = d.alias
  BY <1>3, <1>6
<1> QED BY <1>5, <1>7, <1>9, <1>10, <1>11

(* The room that a move writes to.                                         *)
LEMMA MoveTarget ==
    ASSUME TInv, at \in Targeting
    PROVE  /\ book.room \in 1..made /\ book.room \in Room /\ ~(book.room > made)
           /\ IsBook(book) /\ IsRecord(book) /\ IsPlan(writes) /\ IsBook(rooms[book.room])
<1>1. book.room \in 1..made /\ made \in Nat BY DEF TInv, MoveTyped, IsOne, Counts
<1> QED BY <1>1, BookIsOne DEF TInv, MoveTyped, IsOne

LEMMA SendIs ==
    ASSUME TInv, NEW i \in Id, SendCard(i) \/ SendAlias(i)
    PROVE  /\ at = "sending"
           /\ UNCHANGED <<cards, past, pointer, left, made, at, taken, scratch, due, cleared, jobs, books, held, next,
                          faults>>
           /\ meddled' = meddled /\ watched' = [j \in Job |-> Unwatched] /\ checked' = FALSE
           /\ AreRooms(rooms', made) /\ \A q \in Room \ {book.room} : rooms'[q] = rooms[q]
           /\ Goes(rooms[book.room], writes, i, writes', rooms'[book.room]) /\ Goes(book, writes, i, writes', book')
           /\ IsRecord(book') /\ book'.room = book.room
<1>1. /\ at = "sending"
      /\ UNCHANGED <<cards, past, pointer, left, made, at, taken, scratch, due, cleared, jobs, books, held, next, faults>>
      /\ meddled' = meddled /\ watched' = [j \in Job |-> Unwatched] /\ checked' = FALSE
  BY DEF SendCard, SendAlias, MoveMeddles
<1>2. /\ book.room \in Room /\ ~(book.room > made)
      /\ IsBook(book) /\ IsRecord(book) /\ IsPlan(writes) /\ AreRooms(rooms, made)
  BY <1>1, MoveTarget DEF Targeting, TInv
<1>3. CASE SendCard(i)
  <2>1. PICK e : e = Earliest(writes.card[i]) OBVIOUS
  <2>2. /\ writes.card[i] # {} /\ writes' = CardOut(writes, i, e)
        /\ rooms' = RoomCard(rooms, book.room, i, e) /\ book' = CardIn(book, i, e)
    BY <1>3, <2>1 DEF SendCard, CardOut, RoomCard, CardIn
  <2> QED BY <1>1, <1>2, <2>1, <2>2, CardIsSent
<1>4. CASE SendAlias(i)
  <2>1. PICK e : e = First(writes.alias[i]) OBVIOUS
  <2>2. /\ writes.alias[i] # {} /\ writes' = AliasOut(writes, i)
        /\ rooms' = RoomAlias(rooms, book.room, i, e) /\ book' = AliasIn(book, i, e)
    BY <1>4, <2>1 DEF SendAlias, AliasOut, RoomAlias, AliasIn
  <2> QED BY <1>1, <1>2, <2>1, <2>2, AliasIsSent
<1> QED BY <1>3, <1>4

LEMMA SendKeepsTInv == ASSUME TInv, NEW i \in Id, SendCard(i) \/ SendAlias(i) PROVE TInv'
<1>1. /\ UNCHANGED <<cards, past, pointer, left, made, at, taken, scratch, jobs, books, held, next, faults>>
      /\ meddled' = meddled /\ watched' = [j \in Job |-> Unwatched] /\ checked' = FALSE
      /\ AreRooms(rooms', made) /\ IsBook(book') /\ IsPlan(writes') /\ IsRecord(book') /\ book'.room = book.room
  BY SendIs DEF Goes
<1>2. Counts' BY <1>1 DEF TInv, Counts
<1>3. OldTyped' BY <1>1, OldStays DEF TInv, Counts
<1>4. MoveTyped' BY <1>1 DEF TInv, MoveTyped, IsOne
<1>5. IsPointer(pointer, made)' /\ AreBooks(books, made)' /\ AreJobs(jobs, books, made)' /\ AreRooms(rooms, made)'
  BY <1>1 DEF TInv
<1> QED BY <1>2, <1>3, <1>4, <1>5 DEF TInv

----------------------------------------------------------------------------
(* A book is put in a free place, and others are forgotten.                *)
BookAt(bs, o, b) == [bs EXCEPT ![o] = b]

LEMMA HoldIs ==
    ASSUME NEW m \in Nat, NEW bs, AreBooks(bs, m), NEW o \in Ref, NEW b, IsOne(b, m), NEW js, NEW h,
           NEW bt, bt = Remembered(BookAt(bs, o, b), js, h)
    PROVE  /\ AreBooks(bt, m)
           /\ o \in InUse(js, h) => bt[o] = b
           /\ \A j \in Job : js[j].on \in Ref \ {o} => bt[js[j].on] = bs[js[j].on]
<1> DEFINE bq == BookAt(bs, o, b)
<1>1. bq[o] = b /\ (\A q \in Ref \ {o} : bq[q] = bs[q]) /\ AreBooks(bq, m) BY BookPut DEF BookAt
<1> HIDE DEF bq
<1>2. bt = Remembered(bq, js, h) BY DEF bq
<1>3. /\ AreBooks(bt, m)
      /\ \A j \in Job : js[j].on \in Ref => bt[js[j].on] = bq[js[j].on]
  BY <1>1, <1>2, RememberedIs
<1>4. ASSUME o \in InUse(js, h) PROVE bt[o] = b BY <1>1, <1>2, <1>4 DEF Remembered
<1> QED BY <1>1, <1>3, <1>4

(* The jobs go on, or throw, when the move is over.                        *)
LEMMA OverIs ==
    ASSUME TInv
    PROVE  /\ AreJobs(Resumed, books, made) /\ AreJobs(Rejected, books, made)
           /\ \A j \in Job : jobs[j].at \in Planned \cup {"straying"} =>
                                Resumed[j] = jobs[j] /\ Rejected[j] = jobs[j]
           /\ \A j \in Job : Rejected[j].at \in Writers => Rejected[j] = jobs[j]
<1>1. ASSUME NEW j \in Job PROVE IsJob(Rejected[j]) /\ Placed(Rejected[j], books, made)
  <2>1. IsJob(jobs[j]) /\ Placed(jobs[j], books, made) BY DEF TInv, AreJobs
  <2> QED BY <2>1, NoJobIsJob DEF Rejected
<1>2. ASSUME NEW j \in Job PROVE IsJob(Resumed[j]) /\ Placed(Resumed[j], books, made)
  <2> DEFINE x == [jobs[j] EXCEPT !.at = "loading", !.room = pointer.room]
             y == [jobs[j] EXCEPT !.at = "founding"]
  <2>1. IsJob(jobs[j]) /\ Placed(jobs[j], books, made) BY DEF TInv, AreJobs
  <2>2. Resumed[j] = IF jobs[j].at # "waiting" THEN jobs[j] ELSE IF Final THEN x ELSE y BY DEF Resumed
  <2>3. x = JobOf("loading", jobs[j].ids, jobs[j].card, pointer.room, jobs[j].on, jobs[j].writes, jobs[j].plan)
    BY <2>1, PutRoom DEF IsJob
  <2>4. y = JobOf("founding", jobs[j].ids, jobs[j].card, jobs[j].room, jobs[j].on, jobs[j].writes, jobs[j].plan)
    BY <2>1 DEF IsJob, JobOf
  <2> HIDE DEF x, y
  <2>5. ASSUME jobs[j].at = "waiting", Final PROVE IsJob(x) /\ Placed(x, books, made)
    BY <2>1, <2>3, <2>5, FinalRoom DEF IsJob, JobOf, Placed, Writers, Planned
  <2>6. ASSUME jobs[j].at = "waiting" PROVE IsJob(y) /\ Placed(y, books, made)
    BY <2>1, <2>4, <2>6 DEF IsJob, JobOf, Placed, Writers, Planned
  <2> QED BY <2>1, <2>2, <2>5, <2>6
<1>3. Resumed = [j \in Job |-> Resumed[j]] /\ Rejected = [j \in Job |-> Rejected[j]]
  BY DEF Resumed, Rejected
<1>4. ASSUME NEW j \in Job
      PROVE  /\ jobs[j].at \in Planned \cup {"straying"} => Resumed[j] = jobs[j] /\ Rejected[j] = jobs[j]
             /\ Rejected[j].at \in Writers => Rejected[j] = jobs[j]
  BY DEF Resumed, Rejected, Planned, Writers, NoJob
<1> QED BY <1>1, <1>2, <1>3, <1>4 DEF AreJobs

LEMMA RestIs == ASSUME Rest, made \in Nat
    PROVE  taken' = NothingOld /\ scratch' = FALSE /\ at' = "idle"
           /\ (UNCHANGED made => MoveTyped')
BY NoBookIsOne, NoWritesIsPlan DEF Rest, MoveTyped, Targeting

LEMMA VerifyKeepsTInv == ASSUME TInv, Verify PROVE TInv'
<1>1. /\ UNCHANGED <<cards, past, pointer, rooms, left, made, books, held, meddled, checked, watched, next, faults>>
      /\ at = "verifying"
  BY DEF Verify, server, ghosts
<1>2. CASE /\ book' = BookOf(book.room) /\ at' = "finalising" /\ UNCHANGED <<taken, scratch, writes, jobs>>
  <2>1. book.room \in 1..made BY <1>1, MoveTarget DEF Targeting
  <2>2. IsOne(book', made) /\ book'.room = book.room BY <1>2, <2>1, BookIsOne
  <2>3. MoveTyped' BY <1>1, <1>2, <2>1, <2>2 DEF TInv, MoveTyped, Moving, Counts
  <2>4. taken' = taken /\ AreBooks(books', made) /\ AreJobs(jobs', books', made)
    BY <1>1, <1>2 DEF TInv
  <2> QED BY <1>1, <1>2, <2>3, <2>4, QuietKeepsTInv DEF TInv, Counts
<1>3. CASE Rest /\ jobs' = Resumed
  <2>1. made \in Nat BY DEF TInv, Counts
  <2>2. MoveTyped' /\ taken' = NothingOld /\ scratch' = FALSE BY <1>1, <1>3, <2>1, RestIs
  <2>3. AreJobs(jobs', books', made) /\ AreBooks(books', made) BY <1>1, <1>3, OverIs DEF TInv
  <2>4. /\ faults' \in 0..MaxFaults /\ next' \in 1..(MaxVersion + 1) /\ next <= next'
        /\ held' \in Ref \cup {NoRef} /\ meddled' \in BOOLEAN /\ checked' \in BOOLEAN
        /\ watched' = [j \in Job |-> watched'[j]]
    BY <1>1 DEF TInv, Counts
  <2>5. scratch' \in BOOLEAN BY <2>2
  <2> QED BY <1>1, <2>2, <2>3, <2>4, <2>5, QuietKeepsTInv
<1> QED BY <1>2, <1>3 DEF Verify

LEMMA SentKeepsTInv == ASSUME TInv, Sent \/ ReadRoom PROVE TInv'
<1>1. /\ UNCHANGED <<cards, past, pointer, rooms, left, made, taken, scratch, jobs, books, held, meddled, checked,
                     watched, next, faults>>
      /\ at \in {"sending", "reading"} /\ at' \in {"verifying", "sending"}
  BY DEF Sent, ReadRoom, server, shared, ghosts
<1>2. book.room \in 1..made BY <1>1, MoveTarget DEF Targeting
<1>3. IsOne(book', made) /\ book'.room = book.room /\ IsPlan(writes')
  <2>1. CASE Sent BY <2>1 DEF Sent, TInv, MoveTyped
  <2>2. CASE ReadRoom
    <3>1. IsOne(BookOf(book.room), made) /\ BookOf(book.room).room = book.room BY <1>2, BookIsOne
    <3>2. IsPlan(MovePlan(taken, BookOf(book.room), scratch))
      BY <3>1, MovePlanIs DEF TInv, OldTyped, Counts, IsOne
    <3> QED BY <2>2, <3>1, <3>2 DEF ReadRoom
  <2> QED BY <2>1, <2>2
<1>4. MoveTyped' BY <1>1, <1>2, <1>3 DEF TInv, MoveTyped, Moving, Counts
<1> QED BY <1>1, <1>4, QuietKeepsTInv DEF TInv, Counts

(* The pointer is written.                                                 *)
LEMMA PointerIs ==
    ASSUME TInv, NEW r \in 1..made, NEW p \in BOOLEAN, NEW h
    PROVE  IsPointer([room |-> r, pending |-> p, moved |-> h], made)
BY DEF IsPointer

LEMMA PointedKeepsTInv ==
    ASSUME TInv, IsPointer(pointer', made), UNCHANGED <<cards, past, rooms, left, made, taken, scratch, next, faults>>,
           held' \in Ref \cup {NoRef}, meddled' \in BOOLEAN, checked' \in BOOLEAN,
           watched' = [j \in Job |-> watched'[j]],
           MoveTyped', AreBooks(books', made), AreJobs(jobs', books', made)
    PROVE  TInv'
<1>1. Counts' BY DEF TInv, Counts
<1>2. OldTyped' BY OldStays DEF TInv, Counts
<1> QED BY <1>1, <1>2 DEF TInv

LEMMA WritePointerKeepsTInv == ASSUME TInv, WritePointer PROVE TInv'
<1>1. /\ UNCHANGED <<cards, past, rooms, left, made, taken, scratch, book, writes, jobs, next, faults>>
      /\ at \in {"pointing", "finalising"} /\ at' \in {"reading", "emptyingCards"}
      /\ meddled' = meddled /\ watched' = [j \in Job |-> Unwatched]
  BY DEF WritePointer, MoveMeddles
<1>2. book.room \in 1..made BY <1>1, MoveTarget DEF Targeting
<1>3. MoveTyped' BY <1>1, <1>2 DEF TInv, MoveTyped, Moving, Counts
<1>4. IsPointer(pointer', made)
  <2>1. \/ pointer' = [room |-> book.room, pending |-> TRUE, moved |-> None]
        \/ pointer' = [room |-> book.room, pending |-> FALSE, moved |-> taken]
    BY DEF WritePointer
  <2> QED BY <1>2, <2>1, PointerIs
<1>5. held' \in Ref \cup {NoRef} /\ AreBooks(books', made) /\ AreJobs(jobs', books', made) /\ checked' \in BOOLEAN
  <2>1. CASE checked' = FALSE /\ UNCHANGED <<books, held>> BY <1>1, <2>1 DEF TInv, Counts
  <2>2. CASE /\ checked' = ~meddled
             /\ \E o \in Spare({jobs[j].on : j \in Job}) :
                   held' = o /\ books' = Remembered([books EXCEPT ![o] = book], jobs, o)
    <3>1. PICK o \in Spare({jobs[j].on : j \in Job}) :
                 held' = o /\ books' = Remembered([books EXCEPT ![o] = book], jobs, o)
      BY <2>2
    <3>2. o \in Ref /\ \A j \in Job : jobs[j].on # o
      <4>1. o \in Ref \ {jobs[j].on : j \in Job} BY SpareIs
      <4> QED BY <4>1
    <3>3. books' = Remembered(BookAt(books, o, book), jobs, o) BY <3>1 DEF BookAt
    <3>4. made \in Nat /\ IsOne(book, made) /\ AreBooks(books, made) BY DEF TInv, MoveTyped, Counts
    <3>5. AreBooks(books', made) /\ \A j \in Job : jobs[j].on \in Ref \ {o} => books'[jobs[j].on] = books[jobs[j].on]
      BY <3>2, <3>3, <3>4, HoldIs
    <3>6. \A k \in Job : jobs[k].at \in Writers => books'[jobs[k].on].room \in 1..made
      BY <3>2, <3>5 DEF TInv, AreJobs, Placed
    <3>7. AreJobs(jobs, books', made) BY <3>4, <3>6, SamePlaces DEF TInv
    <3> QED BY <1>1, <2>2, <3>1, <3>2, <3>5, <3>7
  <2> QED BY <2>1, <2>2 DEF WritePointer
<1> QED BY <1>1, <1>3, <1>4, <1>5, PointedKeepsTInv DEF TInv, Counts

(* The old events change.                                                  *)
LEMMA OldEventsKeepTInv ==
    ASSUME TInv, IsContent(OldEvents'), taken' \in {taken, NothingOld},
           \A i \in Id, v \in Version : v = cards'[i] \/ v \in past'[i] => v < next',
           next' \in 1..(MaxVersion + 1), scratch' \in BOOLEAN,
           UNCHANGED <<pointer, rooms, left, made, books, held, meddled, checked, watched, faults>>,
           MoveTyped', AreJobs(jobs', books, made)
    PROVE  TInv'
<1>1. Counts' BY DEF TInv, Counts
<1>2. OldTyped' BY NothingIsContent DEF TInv, OldTyped
<1> QED BY <1>1, <1>2 DEF TInv

LEMMA EmptyCardsKeepsTInv == ASSUME TInv, EmptyCards PROVE TInv'
<1>1. /\ UNCHANGED <<past, pointer, rooms, left, made, taken, scratch, book, writes, jobs, books, held, meddled,
                     checked, watched, next, faults>>
      /\ cards' = NoCards /\ at' = "emptyingPast"
  BY DEF EmptyCards, shared, ghosts
<1>2. IsContent(OldEvents')
  BY <1>1 DEF TInv, OldTyped, IsContent, OldEvents, NoCards, Card
<1>3. MoveTyped' BY <1>1 DEF TInv, MoveTyped, Moving, Targeting
<1>4. \A i \in Id, v \in Version : v = cards'[i] \/ v \in past'[i] => v < next'
  BY <1>1 DEF TInv, OldTyped, NoCards, Version
<1> QED BY <1>1, <1>2, <1>3, <1>4, OldEventsKeepTInv DEF TInv, Counts

LEMMA EmptyPastKeepsTInv == ASSUME TInv, EmptyPast PROVE TInv'
<1>1. /\ UNCHANGED <<cards, pointer, rooms, left, made, books, held, meddled, checked, watched, next, faults>>
      /\ past' = NoPast /\ Rest /\ jobs' = Resumed
  BY DEF EmptyPast, ghosts
<1>2. IsContent(OldEvents')
  BY <1>1 DEF TInv, OldTyped, IsContent, OldEvents, NoPast
<1>3. MoveTyped' /\ taken' = NothingOld /\ scratch' = FALSE BY <1>1, RestIs DEF TInv, Counts
<1>4. \A i \in Id, v \in Version : v = cards'[i] \/ v \in past'[i] => v < next'
  BY <1>1 DEF TInv, OldTyped, NoPast
<1>5. AreJobs(jobs', books, made) BY <1>1, OverIs
<1> QED BY <1>1, <1>2, <1>3, <1>4, <1>5, OldEventsKeepTInv DEF TInv, Counts

LEMMA OldSaveKeepsTInv ==
    ASSUME TInv, NEW ids \in SUBSET Id, NEW c \in Card, OldSave(ids, c) PROVE TInv'
<1>1. /\ UNCHANGED <<pointer, rooms, left, made, at, taken, scratch, book, writes, jobs, books, held, meddled,
                     checked, watched, faults>>
      /\ c \in {next, None} /\ next <= MaxVersion /\ next' = next + 1
      /\ cards' = [i \in Id |-> IF i \in ids THEN c ELSE cards[i]]
      /\ past' = [i \in Id |-> IF i \in ids THEN past[i] \cup ({cards[i]} \ {None}) ELSE past[i]]
  BY DEF OldSave, move, shared, ghosts
<1>2. next' \in 1..(MaxVersion + 1) /\ next \in Nat /\ next < next' BY <1>1 DEF TInv, Counts
<1>3. cards \in [Id -> Card] /\ past \in [Id -> SUBSET Version] BY DEF TInv, OldTyped, IsContent, OldEvents
<1>4. cards' \in [Id -> Card] BY <1>1, <1>3
<1>5. past' \in [Id -> SUBSET Version] BY <1>1, <1>3 DEF Card
<1>6. \A i \in Id, v \in Version : v = cards[i] \/ v \in past[i] => v < next BY DEF TInv, OldTyped
<1>7. \A i \in Id, v \in Version : v = cards'[i] \/ v \in past'[i] => v < next'
  <2> SUFFICES ASSUME NEW i \in Id, NEW v \in Version, v = cards'[i] \/ v \in past'[i] PROVE v < next' OBVIOUS
  <2>1. v = next \/ v = cards[i] \/ v \in past[i] BY <1>1, NoneIsNoVersion DEF Version
  <2>2. v \in Nat BY DEF Version
  <2> QED BY <1>2, <1>6, <2>1, <2>2
<1>8. ASSUME NEW i \in Id, NEW v \in Version, v \in past'[i], cards'[i] # None PROVE v < cards'[i]
  <2>1. CASE i \in ids
    <3>1. cards'[i] = next /\ (v = cards[i] \/ v \in past[i]) BY <1>1, <1>8, <2>1
    <3> QED BY <1>6, <3>1
  <2>2. CASE i \notin ids
    <3>1. cards'[i] = cards[i] /\ past'[i] = past[i] BY <1>1, <2>2
    <3> QED BY <1>8, <3>1 DEF TInv, OldTyped, IsContent, OldEvents
  <2> QED BY <2>1, <2>2
<1>9. IsContent(OldEvents')
  <2>1. OldEvents'.card = cards' /\ OldEvents'.past = past' BY DEF OldEvents
  <2> QED BY <1>4, <1>5, <1>8, <2>1 DEF IsContent
<1>10. MoveTyped' /\ AreJobs(jobs', books, made) BY <1>1 DEF TInv, MoveTyped
<1> QED BY <1>1, <1>2, <1>7, <1>9, <1>10, OldEventsKeepTInv DEF TInv, Counts

----------------------------------------------------------------------------
(* A job changes and nothing else but the books.                           *)
LEMMA JobKeepsTInv ==
    ASSUME TInv, UNCHANGED <<cards, past, pointer, rooms, left, made, move, next>>,
           faults' \in 0..MaxFaults, held' \in Ref \cup {NoRef}, meddled' \in BOOLEAN, checked' \in BOOLEAN,
           watched' = [j \in Job |-> watched'[j]],
           AreBooks(books', made), AreJobs(jobs', books', made)
    PROVE  TInv'
<1>1. UNCHANGED <<at, taken, scratch, book, writes>> BY DEF move
<1>2. MoveTyped' BY <1>1 DEF TInv, MoveTyped
<1>3. /\ next' \in 1..(MaxVersion + 1) /\ next <= next' /\ scratch' \in BOOLEAN
      /\ taken' \in {taken, Legacy, NothingOld}
  BY <1>1 DEF TInv, Counts
<1> QED BY <1>2, <1>3, QuietKeepsTInv

(* Where a job is, and that it changes alone.                              *)
LEMMA JobIs ==
    ASSUME TInv, NEW j \in Job
    PROVE  /\ IsJob(jobs[j]) /\ jobs = [k \in Job |-> jobs[k]]
           /\ jobs[j] = JobOf(jobs[j].at, jobs[j].ids, jobs[j].card, jobs[j].room, jobs[j].on, jobs[j].writes,
                              jobs[j].plan)
           /\ jobs[j].ids \in SUBSET Id /\ jobs[j].card \in Card /\ IsPlan(jobs[j].writes) /\ IsPlan(jobs[j].plan)
           /\ jobs[j].at \in {"announcing", "loading"} => jobs[j].room \in 1..made
           /\ jobs[j].at \in Writers =>
                 /\ jobs[j].on \in Ref /\ Target(j) \in 1..made /\ Target(j) \in Room /\ ~(Target(j) > made)
                 /\ IsBook(books[jobs[j].on]) /\ IsRecord(books[jobs[j].on]) /\ IsBook(rooms[Target(j)])
           /\ jobs[j].at \notin {"free", "straying"} => jobs[j].ids # {}
<1>1. IsJob(jobs[j]) /\ Placed(jobs[j], books, made) /\ jobs = [k \in Job |-> jobs[k]] BY DEF TInv, AreJobs
<1>2. ASSUME jobs[j].at \in Writers
      PROVE  /\ jobs[j].on \in Ref /\ Target(j) \in 1..made /\ Target(j) \in Room /\ ~(Target(j) > made)
             /\ IsBook(books[jobs[j].on]) /\ IsRecord(books[jobs[j].on]) /\ IsBook(rooms[Target(j)])
  <2>1. jobs[j].on \in Ref /\ Target(j) \in 1..made BY <1>1, <1>2 DEF Placed, Target
  <2>2. made \in Nat BY DEF TInv, Counts
  <2>3. ~(Target(j) > made) BY <2>1, <2>2
  <2>4. IsOne(books[jobs[j].on], made) BY <2>1 DEF TInv, AreBooks
  <2> QED BY <2>1, <2>3, <2>4, BookIsOne DEF IsOne
<1> QED BY <1>1, <1>2 DEF IsJob, Placed

LEMMA JobPutIs ==
    ASSUME TInv, NEW j \in Job, NEW x, IsJob(x), NEW bt, Placed(x, bt, made),
           \A k \in Job \ {j} : jobs[k].at \in Writers => bt[jobs[k].on].room \in 1..made
    PROVE  AreJobs([jobs EXCEPT ![j] = x], bt, made)
<1>1. made \in Nat /\ made <= made /\ AreJobs(jobs, books, made) BY DEF TInv, Counts
<1> QED BY <1>1, JobChanges

LEMMA OthersStay ==
    ASSUME TInv PROVE \A k \in Job : jobs[k].at \in Writers => books[jobs[k].on].room \in 1..made
BY DEF TInv, AreJobs, Placed

LEMMA WatchedStays ==
    ASSUME TInv, NEW j \in Job
    PROVE  /\ \A x : [watched EXCEPT ![j] = x] = [k \in Job |-> [watched EXCEPT ![j] = x][k]]
           /\ Meddle(j) => meddled' \in BOOLEAN /\ checked' \in BOOLEAN /\ watched' = [k \in Job |-> watched'[k]]
BY DEF TInv, Counts, Meddle

LEMMA AnnounceKeepsTInv == ASSUME TInv, NEW j \in Job, Announce(j) PROVE TInv'
<1> DEFINE x == [jobs[j] EXCEPT !.at = "loading"]
<1>1. /\ jobs[j].at = "announcing" /\ jobs' = [jobs EXCEPT ![j] = x]
      /\ pointer' = [room |-> jobs[j].room, pending |-> FALSE, moved |-> None]
      /\ UNCHANGED <<cards, past, rooms, left, made, at, taken, scratch, book, writes, books, held, next, faults>>
      /\ Meddle(j)
  BY DEF Announce, move
<1>2. IsJob(jobs[j]) /\ jobs[j].room \in 1..made BY <1>1, JobIs
<1>3. x = JobOf("loading", jobs[j].ids, jobs[j].card, jobs[j].room, jobs[j].on, jobs[j].writes, jobs[j].plan)
  BY <1>2 DEF IsJob, JobOf
<1> HIDE DEF x
<1>4. IsJob(x) /\ Placed(x, books, made)
  BY <1>1, <1>2, <1>3 DEF IsJob, JobOf, Placed, Writers, Planned
<1>5. AreJobs([jobs EXCEPT ![j] = x], books, made) BY <1>4, OthersStay, JobPutIs
<1>6. AreJobs(jobs', books', made) /\ AreBooks(books', made) BY <1>1, <1>5 DEF TInv
<1>7. MoveTyped' BY <1>1 DEF TInv, MoveTyped
<1>8. IsPointer(pointer', made) BY <1>1, <1>2, PointerIs
<1>9. meddled' \in BOOLEAN /\ checked' \in BOOLEAN /\ watched' = [k \in Job |-> watched'[k]]
  BY <1>1, WatchedStays
<1>10. held' \in Ref \cup {NoRef} BY <1>1 DEF TInv, Counts
<1> QED BY <1>1, <1>6, <1>7, <1>8, <1>9, <1>10, PointedKeepsTInv

LEMMA PutPointer ==
    ASSUME NEW p, p = [room |-> p.room, pending |-> p.pending, moved |-> p.moved], NEW r
    PROVE  [p EXCEPT !.room = r, !.pending = FALSE] = [room |-> r, pending |-> FALSE, moved |-> p.moved]
<1> DEFINE f == FALSE
           y1 == [p EXCEPT !.room = r]
           y2 == [y1 EXCEPT !.pending = f]
<1>0. [p EXCEPT !.room = r, !.pending = f] = y2 OBVIOUS
<1> HIDE DEF y1, y2, f
<1>1. y1 = [room |-> r, pending |-> p.pending, moved |-> p.moved] BY DEF y1
<1>2. y2 = [room |-> r, pending |-> f, moved |-> p.moved] BY <1>1 DEF y2
<1>3. [p EXCEPT !.room = r, !.pending = f] = [room |-> r, pending |-> f, moved |-> p.moved] BY <1>0, <1>2
<1> QED BY <1>3 DEF f

LEMMA RepointIs ==
    ASSUME TInv, NEW j \in Job, Repoint(j)
    PROVE  /\ jobs[j].at = "repointing"
           /\ pointer' = [room |-> Target(j), pending |-> FALSE, moved |-> pointer.moved]
           /\ jobs' = [jobs EXCEPT ![j] = JobOf("resending", jobs[j].ids, jobs[j].card, jobs[j].room, jobs[j].on,
                                               jobs[j].plan, jobs[j].plan)]
           /\ UNCHANGED <<cards, past, rooms, left, made, move, due, cleared, books, held, next, faults>>
           /\ Meddle(j)
<1>1. jobs[j] = JobOf(jobs[j].at, jobs[j].ids, jobs[j].card, jobs[j].room, jobs[j].on, jobs[j].writes, jobs[j].plan)
  BY JobIs
<1>2. [jobs[j] EXCEPT !.at = "resending", !.writes = jobs[j].plan]
        = JobOf("resending", jobs[j].ids, jobs[j].card, jobs[j].room, jobs[j].on, jobs[j].plan, jobs[j].plan)
  BY <1>1, PutWrites
<1>3. pointer' = [room |-> Target(j), pending |-> FALSE, moved |-> pointer.moved]
  <2>1. pointer = [room |-> pointer.room, pending |-> pointer.pending, moved |-> pointer.moved]
    BY DEF TInv, IsPointer
  <2>2. pointer' = [pointer EXCEPT !.room = Target(j), !.pending = FALSE] BY DEF Repoint
  <2> QED BY <2>1, <2>2, PutPointer
<1> QED BY <1>2, <1>3 DEF Repoint

LEMMA RepointKeepsTInv == ASSUME TInv, NEW j \in Job, Repoint(j) PROVE TInv'
<1> DEFINE x == JobOf("resending", jobs[j].ids, jobs[j].card, jobs[j].room, jobs[j].on, jobs[j].plan, jobs[j].plan)
<1>1. /\ jobs[j].at = "repointing"
      /\ pointer' = [room |-> Target(j), pending |-> FALSE, moved |-> pointer.moved]
      /\ jobs' = [jobs EXCEPT ![j] = x]
      /\ UNCHANGED <<cards, past, rooms, left, made, at, taken, scratch, book, writes, books, held, next, faults>>
      /\ Meddle(j)
  BY RepointIs DEF move
<1>2. IsJob(jobs[j]) /\ jobs[j].on \in Ref /\ Target(j) \in 1..made BY <1>1, JobIs DEF Writers, Planned
<1>3. IsJob(x) /\ Placed(x, books, made)
  BY <1>1, <1>2 DEF IsJob, JobOf, Placed, Writers, Planned, Target
<1> HIDE DEF x
<1>5. AreJobs([jobs EXCEPT ![j] = x], books, made) BY <1>3, OthersStay, JobPutIs
<1>6. AreJobs(jobs', books', made) /\ AreBooks(books', made) BY <1>1, <1>5 DEF TInv
<1>7. MoveTyped' BY <1>1 DEF TInv, MoveTyped
<1>8. IsPointer(pointer', made) BY <1>1, <1>2, PointerIs
<1>9. meddled' \in BOOLEAN /\ checked' \in BOOLEAN /\ watched' = [k \in Job |-> watched'[k]]
  BY <1>1, WatchedStays
<1>10. held' \in Ref \cup {NoRef} BY <1>1 DEF TInv, Counts
<1> QED BY <1>1, <1>6, <1>7, <1>8, <1>9, <1>10, PointedKeepsTInv

LEMMA CopiedKeepsTInv == ASSUME TInv, NEW j \in Job, Copied(j) PROVE TInv'
<1> DEFINE x == [jobs[j] EXCEPT !.at = "repointing"]
<1>1. /\ jobs[j].at = "copying" /\ jobs' = [jobs EXCEPT ![j] = x]
      /\ UNCHANGED <<cards, past, pointer, rooms, left, made, move, books, held, meddled, checked, watched, next,
                     faults>>
  BY DEF Copied, server, ghosts
<1>2. IsJob(jobs[j]) /\ jobs[j].on \in Ref /\ books[jobs[j].on].room \in 1..made
  BY <1>1, JobIs DEF Writers, Planned, Target
<1>3. x = JobOf("repointing", jobs[j].ids, jobs[j].card, jobs[j].room, jobs[j].on, jobs[j].writes, jobs[j].plan)
  BY <1>2 DEF IsJob, JobOf
<1> HIDE DEF x
<1>4. IsJob(x) /\ Placed(x, books, made)
  BY <1>1, <1>2, <1>3 DEF IsJob, JobOf, Placed, Writers, Planned
<1>5. AreJobs([jobs EXCEPT ![j] = x], books, made) BY <1>4, OthersStay, JobPutIs
<1>6. AreJobs(jobs', books', made) /\ AreBooks(books', made) BY <1>1, <1>5 DEF TInv
<1>7. /\ faults' \in 0..MaxFaults /\ held' \in Ref \cup {NoRef} /\ meddled' \in BOOLEAN /\ checked' \in BOOLEAN
      /\ watched' = [k \in Job |-> watched'[k]]
  BY <1>1 DEF TInv, Counts
<1> QED BY <1>1, <1>6, <1>7, JobKeepsTInv

LEMMA EndedIs ==
    ASSUME TInv, NEW j \in Job, Ended(j)
    PROVE  /\ AreBooks(books', made) /\ AreJobs(jobs', books', made)
           /\ held' = held /\ meddled' = meddled /\ checked' = checked
           /\ watched' = [watched EXCEPT ![j] = Unwatched]
           /\ jobs'[j] = NoJob /\ \A k \in Job \ {j} : jobs'[k] = jobs[k]
           /\ \A k \in Job \ {j} : jobs[k].at \in Writers => books'[jobs[k].on] = books[jobs[k].on]
<1>1. /\ jobs' = [jobs EXCEPT ![j] = NoJob] /\ books' = Remembered(books, jobs', held)
      /\ held' = held /\ meddled' = meddled /\ checked' = checked
      /\ watched' = [watched EXCEPT ![j] = Unwatched]
  BY DEF Ended
<1>2. made \in Nat /\ AreBooks(books, made) BY DEF TInv, Counts
<1>3. jobs'[j] = NoJob /\ \A k \in Job \ {j} : jobs'[k] = jobs[k]
  <2>1. jobs = [k \in Job |-> jobs[k]] BY DEF TInv, AreJobs
  <2> QED BY <1>1, <2>1, JobPut
<1>4. AreBooks(books', made) /\ \A k \in Job : jobs'[k].on \in Ref => books'[jobs'[k].on] = books[jobs'[k].on]
  <2>1. books' = Remembered(books, jobs', held) BY DEF Ended
  <2> QED BY <1>2, <2>1, RememberedIs
<1>5. ASSUME NEW k \in Job \ {j}, jobs[k].at \in Writers
      PROVE  books'[jobs[k].on] = books[jobs[k].on] /\ books[jobs[k].on].room \in 1..made
  BY <1>3, <1>4, <1>5 DEF TInv, AreJobs, Placed
<1>6. AreJobs([jobs EXCEPT ![j] = NoJob], books', made)
  <2>1. IsJob(NoJob) /\ Placed(NoJob, books', made) BY NoJobIsJob
  <2>2. \A k \in Job \ {j} : jobs[k].at \in Writers => books'[jobs[k].on].room \in 1..made BY <1>5
  <2> QED BY <2>1, <2>2, JobPutIs
<1> QED BY <1>1, <1>3, <1>4, <1>5, <1>6

LEMMA EndedKeepsTInv ==
    ASSUME TInv, NEW j \in Job, Ended(j), UNCHANGED <<server, move, next>>, faults' \in 0..MaxFaults PROVE TInv'
<1>1. UNCHANGED <<cards, past, pointer, rooms, left, made, move, next>> BY DEF server
<1>2. /\ AreBooks(books', made) /\ AreJobs(jobs', books', made)
      /\ held' = held /\ meddled' = meddled /\ checked' = checked
      /\ watched' = [watched EXCEPT ![j] = Unwatched]
  BY EndedIs
<1>3. watched' = [k \in Job |-> watched'[k]] BY <1>2, WatchedStays
<1>4. held' \in Ref \cup {NoRef} /\ meddled' \in BOOLEAN /\ checked' \in BOOLEAN BY <1>2 DEF TInv, Counts
<1> QED BY <1>1, <1>2, <1>3, <1>4, JobKeepsTInv

LEMMA SavedKeepsTInv == ASSUME TInv, NEW j \in Job, Saved(j) PROVE TInv'
<1>1. Ended(j) /\ UNCHANGED <<server, move, next>> /\ faults' \in 0..MaxFaults
  BY DEF Saved, TInv, Counts
<1> QED BY <1>1, EndedKeepsTInv

LEMMA JobFailsKeepsTInv == ASSUME TInv, NEW j \in Job, JobFails(j) PROVE TInv'
<1>1. faults' \in 0..MaxFaults BY DEF JobFails, TInv, Counts
<1>2. Ended(j) /\ UNCHANGED <<server, move, next>> BY DEF JobFails
<1> QED BY <1>1, <1>2, EndedKeepsTInv

----------------------------------------------------------------------------
(* A save makes its plan.                                                  *)
PlannedFor(j, b) == PlanSave(b, jobs[j].ids, jobs[j].card)
PlannedJob(j, o, b) == JobOf("saving", jobs[j].ids, jobs[j].card, 0, o, PlannedFor(j, b), PlannedFor(j, b))
WatchedFrom(j, b) ==
    IF Final /\ b = BookOf(pointer.room)
    THEN [alone |-> TRUE, before |-> Reads, touches |-> Touched(b, jobs[j].ids),
          unsure |-> Unsure(b) \ jobs[j].ids]
    ELSE Unwatched

PutPlannedOf(x, o, w) == [x EXCEPT !.at = "saving", !.room = 0, !.on = o, !.writes = w, !.plan = w]

LEMMA PutPlanned ==
    ASSUME NEW x, x = JobOf(x.at, x.ids, x.card, x.room, x.on, x.writes, x.plan), NEW o, NEW w
    PROVE  PutPlannedOf(x, o, w) = JobOf("saving", x.ids, x.card, 0, o, w, w)
<1> DEFINE y1 == [x EXCEPT !.at = "saving"]
           y2 == [y1 EXCEPT !.room = 0]
           y3 == [y2 EXCEPT !.on = o]
           y4 == [y3 EXCEPT !.writes = w]
           y5 == [y4 EXCEPT !.plan = w]
<1>0. PutPlannedOf(x, o, w) = y5 BY DEF PutPlannedOf
<1> HIDE DEF y1, y2, y3, y4, y5
<1>1. y1 = JobOf("saving", x.ids, x.card, x.room, x.on, x.writes, x.plan) BY DEF JobOf, y1
<1>2. y2 = JobOf("saving", x.ids, x.card, 0, x.on, x.writes, x.plan) BY <1>1 DEF JobOf, y2
<1>3. y3 = JobOf("saving", x.ids, x.card, 0, o, x.writes, x.plan) BY <1>2 DEF JobOf, y3
<1>4. y4 = JobOf("saving", x.ids, x.card, 0, o, w, x.plan) BY <1>3 DEF JobOf, y4
<1>5. y5 = JobOf("saving", x.ids, x.card, 0, o, w, w) BY <1>4 DEF JobOf, y5
<1> QED BY <1>0, <1>5

LEMMA PlanIs ==
    ASSUME TInv, NEW j \in Job, jobs[j].at = "loading", NEW o \in Ref, NEW b, IsBook(b), Plan(j, o, b)
    PROVE  /\ jobs' = [jobs EXCEPT ![j] = PlannedJob(j, o, b)] /\ IsJob(PlannedJob(j, o, b))
           /\ jobs'[j] = PlannedJob(j, o, b) /\ \A k \in Job \ {j} : jobs'[k] = jobs[k]
           /\ watched' = [k \in Job |-> watched'[k]] /\ \A k \in Job \ {j} : watched'[k] = watched[k]
           /\ watched'[j] = WatchedFrom(j, b)
<1> DEFINE w == PlannedFor(j, b)
           x == PlannedJob(j, o, b)
           u == WatchedFrom(j, b)
<1>1. /\ jobs[j] = JobOf(jobs[j].at, jobs[j].ids, jobs[j].card, jobs[j].room, jobs[j].on, jobs[j].writes, jobs[j].plan)
      /\ jobs[j].ids \in SUBSET Id /\ jobs[j].ids # {} /\ jobs[j].card \in Card
      /\ jobs = [k \in Job |-> jobs[k]]
  BY JobIs
<1>2. jobs' = [jobs EXCEPT ![j] = PutPlannedOf(jobs[j], o, w)]
  BY DEF Plan, PlannedFor, PutPlannedOf
<1>3. watched' = [watched EXCEPT ![j] = u] BY DEF Plan, WatchedFrom
<1>4. IsPlan(w) BY <1>1, PlanSaveIs DEF PlannedFor
<1> HIDE DEF w, u
<1>5. jobs' = [jobs EXCEPT ![j] = x]
  <2>1. PutPlannedOf(jobs[j], o, w) = JobOf("saving", jobs[j].ids, jobs[j].card, 0, o, w, w)
    BY <1>1, PutPlanned
  <2>2. x = JobOf("saving", jobs[j].ids, jobs[j].card, 0, o, w, w) BY DEF PlannedJob, w
  <2> HIDE DEF x
  <2> QED BY <1>2, <2>1, <2>2
<1>6. IsJob(x) BY <1>1, <1>4 DEF PlannedJob, IsJob, JobOf, Writers, Planned, w
<1> HIDE DEF x
<1>7. jobs'[j] = x /\ \A k \in Job \ {j} : jobs'[k] = jobs[k] BY <1>1, <1>5
<1>8. watched' = [k \in Job |-> watched'[k]] /\ watched'[j] = u /\ \A k \in Job \ {j} : watched'[k] = watched[k]
  BY <1>3 DEF TInv, Counts
<1> QED BY <1>5, <1>6, <1>7, <1>8 DEF x, u

LEMMA LoadHeldKeepsTInv == ASSUME TInv, NEW j \in Job, LoadHeld(j) PROVE TInv'
<1>1. /\ jobs[j].at = "loading" /\ IsHeld /\ Plan(j, held, books[held])
      /\ UNCHANGED <<cards, past, pointer, rooms, left, made, move, books, held, meddled, checked, next, faults>>
  BY DEF LoadHeld, server
<1>2. held \in Ref /\ books[held].room \in 1..made /\ IsBook(books[held])
  <2>1. held \in Ref /\ books[held].room = pointer.room /\ Final BY <1>1 DEF IsHeld, TInv, Counts
  <2> QED BY <2>1, FinalRoom DEF TInv, AreBooks, IsOne
<1> DEFINE x == PlannedJob(j, held, books[held])
<1>3. jobs' = [jobs EXCEPT ![j] = x] /\ IsJob(x) /\ watched' = [k \in Job |-> watched'[k]]
  BY <1>1, <1>2, PlanIs
<1>4. Placed(x, books, made) BY <1>2 DEF PlannedJob, Placed, JobOf, Writers, Planned
<1> HIDE DEF x
<1>5. AreJobs([jobs EXCEPT ![j] = x], books, made) BY <1>3, <1>4, OthersStay, JobPutIs
<1>6. AreJobs(jobs', books', made) /\ AreBooks(books', made) BY <1>1, <1>3, <1>5 DEF TInv
<1>7. faults' \in 0..MaxFaults /\ held' \in Ref \cup {NoRef} /\ meddled' \in BOOLEAN /\ checked' \in BOOLEAN
  BY <1>1 DEF TInv, Counts
<1> QED BY <1>1, <1>3, <1>6, <1>7, JobKeepsTInv

(* A book is read, and held.                                               *)
LEMMA HeldIs ==
    ASSUME TInv, NEW j \in Job, jobs[j].at = "loading", NEW b, IsOne(b, made), b.room \in 1..made, Hold(j, b)
    PROVE  /\ AreBooks(books', made) /\ AreJobs(jobs', books', made)
           /\ held' \in Ref /\ meddled' = meddled /\ checked' = checked
           /\ watched' = [k \in Job |-> watched'[k]]
           /\ \A k \in Job \ {j} : jobs[k].at \in Writers => books'[jobs[k].on] = books[jobs[k].on]
           /\ Plan(j, held', b) /\ books'[held'] = b
<1>1. meddled' = meddled /\ checked' = checked BY DEF Hold
<1>2. PICK o \in Spare({jobs[k].on : k \in Job \ {j}}) :
              held' = o /\ Plan(j, o, b) /\ books' = Remembered([books EXCEPT ![o] = b], jobs', o)
  BY DEF Hold
<1>3. o \in Ref /\ \A k \in Job \ {j} : jobs[k].on # o
  <2>1. o \in Ref \ {jobs[k].on : k \in Job \ {j}} BY SpareIs
  <2> QED BY <2>1
<1> DEFINE x == PlannedJob(j, o, b)
<1>4. IsBook(b) BY DEF IsOne
<1>5. /\ jobs' = [jobs EXCEPT ![j] = x] /\ IsJob(x) /\ watched' = [k \in Job |-> watched'[k]]
      /\ \A k \in Job \ {j} : jobs'[k] = jobs[k]
  BY <1>2, <1>3, <1>4, PlanIs
<1>6. books' = Remembered(BookAt(books, o, b), jobs', o) BY <1>2 DEF BookAt
<1>7. made \in Nat /\ AreBooks(books, made) BY DEF TInv, Counts
<1>8. o \in InUse(jobs', o) BY DEF InUse
<1>9. /\ AreBooks(books', made) /\ books'[o] = b
      /\ \A k \in Job : jobs'[k].on \in Ref \ {o} => books'[jobs'[k].on] = books[jobs'[k].on]
  BY <1>3, <1>6, <1>7, <1>8, HoldIs
<1>10. ASSUME NEW k \in Job \ {j}, jobs[k].at \in Writers
       PROVE  books'[jobs[k].on] = books[jobs[k].on] /\ books[jobs[k].on].room \in 1..made
  BY <1>3, <1>5, <1>9, <1>10 DEF TInv, AreJobs, Placed
<1>11. Placed(x, books', made) BY <1>3, <1>9 DEF PlannedJob, Placed, JobOf, Writers, Planned
<1> HIDE DEF x
<1>12. \A k \in Job \ {j} : jobs[k].at \in Writers => books'[jobs[k].on].room \in 1..made BY <1>10
<1>13. AreJobs([jobs EXCEPT ![j] = x], books', made) BY <1>5, <1>11, <1>12, JobPutIs
<1> QED BY <1>1, <1>2, <1>3, <1>5, <1>9, <1>10, <1>13

LEMMA LoadedIs ==
    ASSUME TInv, NEW j \in Job, LoadRoom(j) \/ LoadNothing(j)
    PROVE  /\ jobs[j].at = "loading"
           /\ UNCHANGED <<cards, past, pointer, rooms, left, made, move, due, cleared, next>>
           /\ faults' \in 0..MaxFaults
           /\ \E b : IsOne(b, made) /\ b.room \in 1..made /\ Hold(j, b)
<1>1. /\ jobs[j].at = "loading" /\ UNCHANGED <<cards, past, pointer, rooms, left, made, move, due, cleared, next>>
      /\ faults' \in 0..MaxFaults
  BY DEF LoadRoom, LoadNothing, server, TInv, Counts
<1>2. CASE LoadRoom(j)
  <2>1. Final /\ Hold(j, BookOf(pointer.room)) BY <1>2 DEF LoadRoom
  <2>2. pointer.room \in 1..made BY <2>1, FinalRoom
  <2>3. IsOne(BookOf(pointer.room), made) /\ BookOf(pointer.room).room \in 1..made BY <2>2, BookIsOne
  <2> QED BY <1>1, <2>1, <2>3
<1>3. CASE LoadNothing(j)
  <2> DEFINE b == [NoBook EXCEPT !.room = jobs[j].room]
  <2>1. Hold(j, b) BY <1>3 DEF LoadNothing
  <2>2. jobs[j].room \in 1..made BY <1>1, JobIs
  <2>3. IsOne(b, made) /\ b.room \in 1..made
    <3>1. IsBook(NoBook) /\ IsRecord(NoBook) BY NoBookIsOne DEF IsOne
    <3>2. jobs[j].room \in 0..made BY <2>2 DEF TInv, Counts
    <3> QED BY <2>2, <3>1, <3>2, RoomOfOne
  <2> QED BY <1>1, <2>1, <2>3
<1> QED BY <1>2, <1>3

LEMMA LoadKeepsTInv == ASSUME TInv, NEW j \in Job, LoadRoom(j) \/ LoadNothing(j) PROVE TInv'
<1>1. /\ jobs[j].at = "loading" /\ UNCHANGED <<cards, past, pointer, rooms, left, made, move, next>>
      /\ faults' \in 0..MaxFaults
      /\ \E b : IsOne(b, made) /\ b.room \in 1..made /\ Hold(j, b)
  BY LoadedIs
<1>2. /\ AreBooks(books', made) /\ AreJobs(jobs', books', made)
      /\ held' \in Ref /\ meddled' = meddled /\ checked' = checked
      /\ watched' = [k \in Job |-> watched'[k]]
  <2>1. PICK b : IsOne(b, made) /\ b.room \in 1..made /\ Hold(j, b) BY <1>1
  <2> QED BY <1>1, <2>1, HeldIs
<1>3. held' \in Ref \cup {NoRef} /\ meddled' \in BOOLEAN /\ checked' \in BOOLEAN BY <1>2 DEF TInv, Counts
<1> QED BY <1>1, <1>2, <1>3, JobKeepsTInv

LEMMA LookIs ==
    ASSUME TInv, Look
    PROVE  /\ Final /\ held' \in Ref /\ AreBooks(books', made) /\ AreJobs(jobs', books', made)
           /\ UNCHANGED <<cards, past, pointer, rooms, left, made, move, due, cleared, jobs, meddled, checked,
                          watched, next, faults>>
           /\ \A k \in Job : jobs[k].at \in Writers => books'[jobs[k].on] = books[jobs[k].on]
<1>1. /\ Final
      /\ UNCHANGED <<cards, past, pointer, rooms, left, made, move, due, cleared, jobs, meddled, checked, watched,
                     next, faults>>
  BY DEF Look, server, ghosts
<1>2. PICK o \in Spare({jobs[j].on : j \in Job}) :
               held' = o /\ books' = Remembered([books EXCEPT ![o] = BookOf(pointer.room)], jobs, o)
  BY DEF Look
<1>3. o \in Ref /\ \A j \in Job : jobs[j].on # o
  <2>1. o \in Ref \ {jobs[j].on : j \in Job} BY SpareIs
  <2> QED BY <2>1
<1>4. books' = Remembered(BookAt(books, o, BookOf(pointer.room)), jobs, o) BY <1>2 DEF BookAt
<1>5. made \in Nat /\ IsOne(BookOf(pointer.room), made) /\ AreBooks(books, made)
  BY <1>1, FinalRoom, BookIsOne DEF TInv, Counts
<1>6. AreBooks(books', made) /\ \A j \in Job : jobs[j].on \in Ref \ {o} => books'[jobs[j].on] = books[jobs[j].on]
  BY <1>3, <1>4, <1>5, HoldIs
<1>7. \A k \in Job : jobs[k].at \in Writers =>
         books'[jobs[k].on] = books[jobs[k].on] /\ books'[jobs[k].on].room \in 1..made
  BY <1>3, <1>6 DEF TInv, AreJobs, Placed
<1>8. AreJobs(jobs, books', made) BY <1>5, <1>7, SamePlaces DEF TInv
<1> QED BY <1>1, <1>2, <1>3, <1>6, <1>7, <1>8

LEMMA LookKeepsTInv == ASSUME TInv, Look PROVE TInv'
<1>1. /\ held' \in Ref /\ AreBooks(books', made) /\ AreJobs(jobs', books', made)
      /\ UNCHANGED <<cards, past, pointer, rooms, left, made, move, meddled, checked, watched, next, faults>>
  BY LookIs
<1>2. /\ held' \in Ref \cup {NoRef} /\ meddled' \in BOOLEAN /\ checked' \in BOOLEAN /\ faults' \in 0..MaxFaults
      /\ watched' = [k \in Job |-> watched'[k]]
  BY <1>1 DEF TInv, Counts
<1> QED BY <1>1, <1>2, JobKeepsTInv

----------------------------------------------------------------------------
(* A job sends.                                                            *)
JobSends(j, i) == JobCard(j, i) \/ JobAlias(j, i)
WritesIn(x, w) == [x EXCEPT !.writes = w]

LEMMA JobSendIs ==
    ASSUME TInv, NEW j \in Job, NEW i \in Id, JobSends(j, i)
    PROVE  /\ jobs[j].at \in Sending /\ jobs[j].on \in Ref /\ Target(j) \in 1..made /\ Target(j) \notin left
           /\ UNCHANGED <<cards, past, pointer, left, made, move, due, cleared, held, next, faults>>
           /\ Meddle(j)
           /\ AreRooms(rooms', made) /\ \A q \in Room \ {Target(j)} : rooms'[q] = rooms[q]
           /\ AreBooks(books', made) /\ \A o \in Ref \ {jobs[j].on} : books'[o] = books[o]
           /\ books'[jobs[j].on].room = Target(j)
           /\ LET b == books[jobs[j].on]
                  c == books'[jobs[j].on]
                  r == rooms[Target(j)]
                  s == rooms'[Target(j)]
                  w == jobs[j].writes
                  x == jobs'[j].writes
              IN /\ Goes(r, w, i, x, s) /\ Goes(b, w, i, x, c)
                 /\ b.card = r.card /\ b.alias = r.alias => c.card = s.card /\ c.alias = s.alias
           /\ jobs' = [jobs EXCEPT ![j] = jobs'[j]]
           /\ jobs'[j] = JobOf(jobs[j].at, jobs[j].ids, jobs[j].card, jobs[j].room, jobs[j].on, jobs'[j].writes,
                               jobs[j].plan)
           /\ \A k \in Job \ {j} : jobs'[k] = jobs[k]
<1> DEFINE b == books[jobs[j].on]
           w == jobs[j].writes
<1>1. /\ jobs[j].at \in Sending /\ Target(j) \notin left
      /\ UNCHANGED <<cards, past, pointer, left, made, move, due, cleared, held, next, faults>>
      /\ Meddle(j)
  BY DEF JobSends, JobCard, JobAlias
<1>2. /\ jobs[j].on \in Ref /\ Target(j) \in 1..made /\ Target(j) \in Room /\ ~(Target(j) > made)
      /\ IsBook(b) /\ IsRecord(b) /\ IsPlan(w) /\ b.room = Target(j)
      /\ jobs = [k \in Job |-> jobs[k]]
      /\ jobs[j] = JobOf(jobs[j].at, jobs[j].ids, jobs[j].card, jobs[j].room, jobs[j].on, jobs[j].writes, jobs[j].plan)
  BY <1>1, JobIs DEF Sending, Writers, Planned, Target
<1>3. AreRooms(rooms, made) /\ AreBooks(books, made) /\ made \in Nat BY DEF TInv, Counts
<1>4. ASSUME NEW e, NEW x, NEW c, AreRooms(rooms', made), \A q \in Room \ {Target(j)} : rooms'[q] = rooms[q],
             Goes(rooms[Target(j)], w, i, x, rooms'[Target(j)]), Goes(b, w, i, x, c),
             IsRecord(c), c.room = b.room,
             b.card = rooms[Target(j)].card /\ b.alias = rooms[Target(j)].alias
               => c.card = rooms'[Target(j)].card /\ c.alias = rooms'[Target(j)].alias,
             books' = BookAt(books, jobs[j].on, c), jobs' = [jobs EXCEPT ![j] = WritesIn(jobs[j], x)]
      PROVE  /\ AreBooks(books', made) /\ \A o \in Ref \ {jobs[j].on} : books'[o] = books[o]
             /\ books'[jobs[j].on] = c /\ jobs'[j].writes = x
             /\ jobs' = [jobs EXCEPT ![j] = jobs'[j]]
             /\ jobs'[j] = JobOf(jobs[j].at, jobs[j].ids, jobs[j].card, jobs[j].room, jobs[j].on, x, jobs[j].plan)
             /\ \A k \in Job \ {j} : jobs'[k] = jobs[k]
  <2>1. IsOne(c, made) BY <1>2, <1>3, <1>4 DEF IsOne, Goes
  <2>2. /\ AreBooks(books', made) /\ \A o \in Ref \ {jobs[j].on} : books'[o] = books[o]
        /\ books'[jobs[j].on] = c
    <3>1. books' = [books EXCEPT ![jobs[j].on] = c] BY <1>4 DEF BookAt
    <3>2. PICK o : o = jobs[j].on OBVIOUS
    <3>3. /\ AreBooks([books EXCEPT ![o] = c], made) /\ [books EXCEPT ![o] = c][o] = c
          /\ \A q \in Ref \ {o} : [books EXCEPT ![o] = c][q] = books[q]
      BY <1>2, <1>3, <2>1, <3>2, BookPut
    <3> QED BY <3>1, <3>2, <3>3
  <2> DEFINE y == WritesIn(jobs[j], x)
  <2>3. y = JobOf(jobs[j].at, jobs[j].ids, jobs[j].card, jobs[j].room, jobs[j].on, x, jobs[j].plan)
    BY <1>2 DEF WritesIn, JobOf
  <2> HIDE DEF y
  <2>4. jobs'[j] = y /\ \A k \in Job \ {j} : jobs'[k] = jobs[k] BY <1>2, <1>4 DEF y
  <2>5. jobs' = [jobs EXCEPT ![j] = jobs'[j]] BY <1>4, <2>4 DEF y
  <2>6. y.writes = x BY <2>3 DEF JobOf
  <2> QED BY <2>2, <2>3, <2>4, <2>5, <2>6
<1>5. CASE JobCard(j, i)
  <2>1. PICK e : e = Earliest(w.card[i]) OBVIOUS
  <2>2. PICK x, c : x = CardOut(w, i, e) /\ c = CardIn(b, i, e) OBVIOUS
  <2>3. /\ w.card[i] # {} /\ rooms' = RoomCard(rooms, Target(j), i, e)
        /\ books' = BookAt(books, jobs[j].on, CardIn(b, i, e))
        /\ jobs' = [jobs EXCEPT ![j] = WritesIn(jobs[j], CardOut(w, i, e))]
    <3>1. w.card[i] # {} BY <1>5 DEF JobCard
    <3>2. rooms' = RoomCard(rooms, Target(j), i, Earliest(w.card[i])) BY <1>5 DEF JobCard, RoomCard
    <3>3. books' = BookAt(books, jobs[j].on, CardIn(b, i, Earliest(w.card[i])))
      BY <1>5 DEF JobCard, BookAt, CardIn
    <3>4. jobs' = [jobs EXCEPT ![j] = WritesIn(jobs[j], CardOut(w, i, Earliest(w.card[i])))]
      BY <1>5 DEF JobCard, WritesIn, CardOut
    <3> QED BY <2>1, <3>1, <3>2, <3>3, <3>4
  <2>4. /\ AreRooms(rooms', made) /\ \A q \in Room \ {Target(j)} : rooms'[q] = rooms[q]
        /\ Goes(rooms[Target(j)], w, i, x, rooms'[Target(j)]) /\ Goes(b, w, i, x, c)
        /\ IsRecord(c) /\ c.room = b.room
        /\ b.card = rooms[Target(j)].card /\ b.alias = rooms[Target(j)].alias
             => c.card = rooms'[Target(j)].card /\ c.alias = rooms'[Target(j)].alias
    BY <1>2, <1>3, <2>1, <2>2, <2>3, CardIsSent
  <2>5. books' = BookAt(books, jobs[j].on, c) /\ jobs' = [jobs EXCEPT ![j] = WritesIn(jobs[j], x)] BY <2>2, <2>3
  <2>6. /\ AreBooks(books', made) /\ \A o \in Ref \ {jobs[j].on} : books'[o] = books[o]
        /\ books'[jobs[j].on] = c /\ jobs'[j].writes = x
        /\ jobs' = [jobs EXCEPT ![j] = jobs'[j]]
        /\ jobs'[j] = JobOf(jobs[j].at, jobs[j].ids, jobs[j].card, jobs[j].room, jobs[j].on, x, jobs[j].plan)
        /\ \A k \in Job \ {j} : jobs'[k] = jobs[k]
    BY <1>4, <2>4, <2>5
  <2> QED BY <1>1, <1>2, <2>4, <2>6
<1>6. CASE JobAlias(j, i)
  <2>1. PICK e : e = First(w.alias[i]) OBVIOUS
  <2>2. PICK x, c : x = AliasOut(w, i) /\ c = AliasIn(b, i, e) OBVIOUS
  <2>3. /\ w.alias[i] # {} /\ rooms' = RoomAlias(rooms, Target(j), i, e)
        /\ books' = BookAt(books, jobs[j].on, AliasIn(b, i, e))
        /\ jobs' = [jobs EXCEPT ![j] = WritesIn(jobs[j], AliasOut(w, i))]
    BY <1>6, <2>1 DEF JobAlias, AliasOut, RoomAlias, AliasIn, BookAt, WritesIn
  <2>4. /\ AreRooms(rooms', made) /\ \A q \in Room \ {Target(j)} : rooms'[q] = rooms[q]
        /\ Goes(rooms[Target(j)], w, i, x, rooms'[Target(j)]) /\ Goes(b, w, i, x, c)
        /\ IsRecord(c) /\ c.room = b.room
        /\ b.card = rooms[Target(j)].card /\ b.alias = rooms[Target(j)].alias
             => c.card = rooms'[Target(j)].card /\ c.alias = rooms'[Target(j)].alias
    BY <1>2, <1>3, <2>1, <2>2, <2>3, AliasIsSent
  <2>5. books' = BookAt(books, jobs[j].on, c) /\ jobs' = [jobs EXCEPT ![j] = WritesIn(jobs[j], x)] BY <2>2, <2>3
  <2>6. /\ AreBooks(books', made) /\ \A o \in Ref \ {jobs[j].on} : books'[o] = books[o]
        /\ books'[jobs[j].on] = c /\ jobs'[j].writes = x
        /\ jobs' = [jobs EXCEPT ![j] = jobs'[j]]
        /\ jobs'[j] = JobOf(jobs[j].at, jobs[j].ids, jobs[j].card, jobs[j].room, jobs[j].on, x, jobs[j].plan)
        /\ \A k \in Job \ {j} : jobs'[k] = jobs[k]
    BY <1>4, <2>4, <2>5
  <2> QED BY <1>1, <1>2, <2>4, <2>6
<1> QED BY <1>5, <1>6 DEF JobSends

LEMMA JobSendKeepsTInv == ASSUME TInv, NEW j \in Job, NEW i \in Id, JobSends(j, i) PROVE TInv'
<1> DEFINE x == jobs'[j]
<1>1. /\ jobs[j].at \in Sending /\ jobs[j].on \in Ref /\ Target(j) \in 1..made
      /\ UNCHANGED <<cards, past, pointer, left, made, at, taken, scratch, book, writes, held, next, faults>>
      /\ Meddle(j) /\ AreRooms(rooms', made)
      /\ AreBooks(books', made) /\ (\A o \in Ref \ {jobs[j].on} : books'[o] = books[o])
      /\ books'[jobs[j].on].room = Target(j)
      /\ jobs' = [jobs EXCEPT ![j] = x]
      /\ x = JobOf(jobs[j].at, jobs[j].ids, jobs[j].card, jobs[j].room, jobs[j].on, x.writes, jobs[j].plan)
  BY JobSendIs DEF move
<1>2. IsPlan(x.writes) BY JobSendIs DEF Goes
<1>3. IsJob(jobs[j]) BY JobIs
<1> HIDE DEF x
<1>4. IsJob(x) BY <1>1, <1>2, <1>3 DEF IsJob, JobOf
<1>5. Placed(x, books', made)
  <2>1. x.at \in Writers /\ x.on = jobs[j].on BY <1>1 DEF JobOf, Sending, Writers, Planned
  <2> QED BY <1>1, <2>1 DEF Placed, Writers, Planned
<1>6. \A k \in Job \ {j} : jobs[k].at \in Writers => books'[jobs[k].on].room \in 1..made
  <2> SUFFICES ASSUME NEW k \in Job \ {j}, jobs[k].at \in Writers PROVE books'[jobs[k].on].room \in 1..made
    OBVIOUS
  <2>1. jobs[k].on \in Ref /\ books[jobs[k].on].room \in 1..made BY DEF TInv, AreJobs, Placed
  <2> QED BY <1>1, <2>1
<1>7. AreJobs([jobs EXCEPT ![j] = x], books', made) BY <1>4, <1>5, <1>6, JobPutIs
<1>8. meddled' \in BOOLEAN /\ checked' \in BOOLEAN /\ watched' = [k \in Job |-> watched'[k]]
  BY <1>1, WatchedStays
<1>9. Counts' BY <1>1, <1>8 DEF TInv, Counts
<1>10. OldTyped' BY <1>1, OldStays DEF TInv, Counts
<1>11. MoveTyped' /\ IsPointer(pointer, made)' /\ AreRooms(rooms, made)' /\ AreBooks(books, made)'
       /\ AreJobs(jobs, books, made)'
  BY <1>1, <1>7 DEF TInv, MoveTyped
<1> QED BY <1>9, <1>10, <1>11 DEF TInv

----------------------------------------------------------------------------
(* A write throws, and the rest goes astray.                               *)
LEMMA LeftOverIs == ASSUME NEW w, IsPlan(w), NEW i \in Id PROVE IsPlan(LeftOver(w, i))
<1>1. CASE w.card # NoPast
  <2>1. LeftOver(w, i) = [card |-> [w.card EXCEPT ![i] = {}], alias |-> NoPast] BY <1>1 DEF LeftOver
  <2> DEFINE c == [w.card EXCEPT ![i] = {}]
  <2>2. c = [k \in Id |-> c[k]] /\ \A k \in Id : IsQueue(c[k]) BY DEF IsPlan, IsQueue
  <2> HIDE DEF c
  <2>3. LeftOver(w, i).card = c /\ LeftOver(w, i).alias = NoPast BY <2>1 DEF c
  <2> QED BY <2>1, <2>2, <2>3 DEF IsPlan, Aliases, NoPast, c
<1>2. CASE w.card = NoPast
  <2>1. LeftOver(w, i) = [card |-> NoPast, alias |-> [w.alias EXCEPT ![i] = {}]] BY <1>2 DEF LeftOver
  <2> DEFINE c == [w.alias EXCEPT ![i] = {}]
  <2>2. c = [k \in Id |-> c[k]] /\ \A k \in Id : c[k] = {} \/ c[k] = w.alias[k] BY DEF IsPlan
  <2> HIDE DEF c
  <2>3. LeftOver(w, i).alias = c /\ LeftOver(w, i).card = NoPast BY <2>1 DEF c
  <2>4. LeftOver(w, i) = [card |-> NoPast, alias |-> c] BY <2>1 DEF c
  <2>5. Aliases(LeftOver(w, i)) BY <2>2, <2>3 DEF IsPlan, Aliases
  <2> QED BY <2>2, <2>3, <2>4, <2>5 DEF IsPlan, NoPast, IsQueue
<1> QED BY <1>1, <1>2

StrayAt(o, w) == [NoJob EXCEPT !.at = "straying", !.on = o, !.writes = w]

LEMMA StrayIs ==
    ASSUME NEW m \in Nat, AreBooks(books, m), NEW js, AreJobs(js, books, m),
           NEW places \in SUBSET Ref, NEW b, IsOne(b, m), b.room \in 1..m, NEW w, IsPlan(w), Stray(js, places, b, w),
           \A o \in places, k \in Job : js[k].at \in Writers /\ js[k].on = o => books[o] = b
    PROVE  /\ AreBooks(books', m) /\ AreJobs(jobs', books', m)
           /\ \A k \in Job : js[k].at \in Writers => jobs'[k] = js[k] /\ books'[js[k].on] = books[js[k].on]
           /\ \A k \in Job : jobs'[k] = js[k] \/ (js[k].at = "free" /\ jobs'[k].at = "straying")
<1>1. CASE jobs' = js /\ books' = Remembered(books, js, held)
  <2>1. AreBooks(books', m) /\ \A k \in Job : js[k].on \in Ref => books'[js[k].on] = books[js[k].on]
    BY <1>1, RememberedIs
  <2>2. \A k \in Job : js[k].at \in Writers =>
           books'[js[k].on] = books[js[k].on] /\ books'[js[k].on].room \in 1..m
    BY <2>1 DEF AreJobs, Placed
  <2>3. AreJobs(js, books', m) BY <2>2, SamePlaces
  <2> QED BY <1>1, <2>1, <2>2, <2>3
<1>2. CASE \E j \in Job, o \in places :
             /\ js[j].at = "free" /\ w # NoWrites
             /\ jobs' = [js EXCEPT ![j] = StrayAt(o, w)]
             /\ books' = Remembered(BookAt(books, o, b), jobs', held)
  <2>1. PICK j \in Job, o \in places :
             /\ js[j].at = "free"
             /\ jobs' = [js EXCEPT ![j] = StrayAt(o, w)]
             /\ books' = Remembered(BookAt(books, o, b), jobs', held)
    BY <1>2
  <2> DEFINE x == StrayAt(o, w)
  <2>2. x = JobOf("straying", {}, None, 0, o, w, NoWrites) BY StrayJob DEF StrayAt
  <2> HIDE DEF x
  <2>3. js = [k \in Job |-> js[k]] BY DEF AreJobs
  <2>4. jobs'[j] = x /\ \A k \in Job \ {j} : jobs'[k] = js[k] BY <2>1, <2>3 DEF x
  <2>5. x.on = o /\ x.at = "straying" BY <2>2 DEF JobOf
  <2>6. o \in InUse(jobs', held) BY <2>4, <2>5 DEF InUse
  <2>7. /\ AreBooks(books', m) /\ books'[o] = b
        /\ \A k \in Job : jobs'[k].on \in Ref \ {o} => books'[jobs'[k].on] = books[jobs'[k].on]
    <3>1. books' = Remembered(BookAt(books, o, b), jobs', held) BY <2>1
    <3> QED BY <2>6, <3>1, HoldIs
  <2>8. ASSUME NEW k \in Job, js[k].at \in Writers
        PROVE  jobs'[k] = js[k] /\ books'[js[k].on] = books[js[k].on] /\ books'[js[k].on].room \in 1..m
    <3>1. k # j BY <2>1, <2>8 DEF Writers, Planned
    <3>2. jobs'[k] = js[k] /\ js[k].on \in Ref /\ books[js[k].on].room \in 1..m
      BY <2>4, <2>8, <3>1 DEF AreJobs, Placed
    <3>3. js[k].on = o => books[js[k].on] = b BY <2>8
    <3> QED BY <2>7, <3>2, <3>3
  <2>9. IsJob(x) BY <2>2, NoWritesIsPlan DEF IsJob, JobOf, Writers, Planned, Card
  <2>10. Placed(x, books', m) BY <2>5, <2>7 DEF Placed, Writers, Planned
  <2>11. AreJobs(jobs', books', m)
    <3>1. m <= m OBVIOUS
    <3>2. \A k \in Job \ {j} : js[k].at \in Writers => books'[js[k].on].room \in 1..m BY <2>8
    <3>3. AreJobs([js EXCEPT ![j] = x], books', m) BY <2>9, <2>10, <3>1, <3>2, JobChanges
    <3> QED BY <2>1, <3>3 DEF x
  <2>12. \A k \in Job : jobs'[k] = js[k] \/ (js[k].at = "free" /\ jobs'[k].at = "straying")
    BY <2>1, <2>4, <2>5
  <2> QED BY <2>7, <2>8, <2>11, <2>12
<1> QED BY <1>1, <1>2 DEF Stray, StrayAt, BookAt

LEMMA SendFailsIs ==
    ASSUME TInv, NEW i \in Id, SendFails(i)
    PROVE  /\ at = "sending" /\ Rest
           /\ UNCHANGED <<cards, past, pointer, rooms, left, made, due, cleared, held, meddled, checked, watched, next>>
           /\ faults' \in 0..MaxFaults
           /\ AreBooks(books', made) /\ AreJobs(jobs', books', made)
           /\ \A k \in Job : jobs[k].at \in Writers => jobs'[k] = jobs[k] /\ books'[jobs[k].on] = books[jobs[k].on]
           /\ \A k \in Job : jobs'[k].at \in Planned => jobs'[k] = jobs[k]
<1>1. /\ at = "sending" /\ Rest
      /\ UNCHANGED <<cards, past, pointer, rooms, left, made, due, cleared, held, meddled, checked, watched, next>>
      /\ Stray(Rejected, Spare(InUse(Rejected, held)), book, LeftOver(writes, i))
  BY DEF SendFails, server, ghosts
<1>2. faults' \in 0..MaxFaults BY DEF SendFails, TInv, Counts
<1>3. book.room \in 1..made /\ IsPlan(writes) /\ IsOne(book, made)
  BY <1>1, MoveTarget DEF Targeting, TInv, MoveTyped
<1>4. IsPlan(LeftOver(writes, i)) BY <1>3, LeftOverIs
<1>5. AreJobs(Rejected, books, made) /\ AreBooks(books, made) /\ made \in Nat BY OverIs DEF TInv, Counts
<1>6. \A o \in Spare(InUse(Rejected, held)) : o \in Ref \ InUse(Rejected, held) BY SpareIs
<1>7. \A o \in Spare(InUse(Rejected, held)), k \in Job :
         Rejected[k].at \in Writers /\ Rejected[k].on = o => books[o] = book
  <2>1. \A k \in Job : Rejected[k].on \in InUse(Rejected, held) BY DEF InUse
  <2> QED BY <1>6, <2>1
<1>8. Spare(InUse(Rejected, held)) \in SUBSET Ref BY <1>6
<1>9. /\ AreBooks(books', made) /\ AreJobs(jobs', books', made)
      /\ \A k \in Job : Rejected[k].at \in Writers =>
            jobs'[k] = Rejected[k] /\ books'[Rejected[k].on] = books[Rejected[k].on]
      /\ \A k \in Job : jobs'[k] = Rejected[k] \/ (Rejected[k].at = "free" /\ jobs'[k].at = "straying")
  BY <1>1, <1>3, <1>4, <1>5, <1>7, <1>8, StrayIs
<1>10. \A k \in Job : /\ jobs[k].at \in Writers => Rejected[k] = jobs[k]
                      /\ Rejected[k].at \in Writers => Rejected[k] = jobs[k]
  BY OverIs DEF Writers
<1>11. \A k \in Job : jobs[k].at \in Writers => jobs'[k] = jobs[k] /\ books'[jobs[k].on] = books[jobs[k].on]
  BY <1>9, <1>10
<1>12. \A k \in Job : jobs'[k].at \in Planned => jobs'[k] = jobs[k]
  BY <1>9, <1>10 DEF Writers, Planned
<1> QED BY <1>1, <1>2, <1>9, <1>11, <1>12

LEMMA SendFailsKeepsTInv == ASSUME TInv, NEW i \in Id, SendFails(i) PROVE TInv'
<1>1. /\ Rest /\ UNCHANGED <<cards, past, pointer, rooms, left, made, held, meddled, checked, watched, next>>
      /\ faults' \in 0..MaxFaults
      /\ AreBooks(books', made) /\ AreJobs(jobs', books', made)
  BY SendFailsIs
<1>2. MoveTyped' /\ taken' = NothingOld /\ scratch' = FALSE BY <1>1, RestIs DEF TInv, Counts
<1>3. /\ next' \in 1..(MaxVersion + 1) /\ next <= next'
      /\ held' \in Ref \cup {NoRef} /\ meddled' \in BOOLEAN /\ checked' \in BOOLEAN
      /\ watched' = [j \in Job |-> watched'[j]]
  BY <1>1 DEF TInv, Counts
<1>4. scratch' \in BOOLEAN BY <1>2
<1> QED BY <1>1, <1>2, <1>3, <1>4, QuietKeepsTInv

LEMMA FailKeepsTInv == ASSUME TInv, Fail PROVE TInv'
<1>1. /\ Rest /\ UNCHANGED <<cards, past, pointer, rooms, left, made, books, held, meddled, checked, watched, next>>
      /\ jobs' = Rejected
  BY DEF Fail, server, ghosts
<1>2. faults' \in 0..MaxFaults BY DEF Fail, TInv, Counts
<1>3. MoveTyped' /\ taken' = NothingOld /\ scratch' = FALSE BY <1>1, RestIs DEF TInv, Counts
<1>4. /\ next' \in 1..(MaxVersion + 1) /\ next <= next'
      /\ held' \in Ref \cup {NoRef} /\ meddled' \in BOOLEAN /\ checked' \in BOOLEAN
      /\ watched' = [j \in Job |-> watched'[j]]
  BY <1>1 DEF TInv, Counts
<1>5. scratch' \in BOOLEAN BY <1>3
<1>6. AreBooks(books', made) /\ AreJobs(jobs', books', made) BY <1>1, OverIs DEF TInv
<1> QED BY <1>1, <1>2, <1>3, <1>4, <1>5, <1>6, QuietKeepsTInv

LEMMA ForbiddenIs ==
    ASSUME TInv, NEW j \in Job, NEW i \in Id, Forbidden(j, i)
    PROVE  /\ jobs[j].at = "saving" /\ jobs[j].on \in Ref
           /\ UNCHANGED <<cards, past, pointer, rooms, left, made, move, due, cleared, held, meddled, checked, watched,
                          next, faults>>
           /\ AreBooks(books', made) /\ AreJobs(jobs', books', made)
           /\ jobs'[j] = JobOf("recreating", jobs[j].ids, jobs[j].card, jobs[j].room, jobs[j].on,
                               CopyPlan(books[jobs[j].on]), jobs[j].plan)
           /\ books'[jobs[j].on] = books[jobs[j].on]
           /\ \A k \in Job \ {j} : jobs[k].at \in Writers =>
                 jobs'[k] = jobs[k] /\ books'[jobs[k].on] = books[jobs[k].on]
           /\ \A k \in Job \ {j} : jobs'[k].at \in Planned => jobs'[k] = jobs[k]
<1> DEFINE b == books[jobs[j].on]
           x == [jobs[j] EXCEPT !.at = "recreating", !.writes = CopyPlan(b)]
           js == [jobs EXCEPT ![j] = x]
<1>1. /\ jobs[j].at = "saving"
      /\ UNCHANGED <<cards, past, pointer, rooms, left, made, move, due, cleared, held, meddled, checked, watched,
                     next, faults>>
      /\ Stray(js, {jobs[j].on}, b, LeftOver(jobs[j].writes, i))
  BY DEF Forbidden, server, ghosts
<1>2. /\ jobs[j].on \in Ref /\ Target(j) \in 1..made /\ IsBook(b) /\ IsRecord(b) /\ b.room = Target(j)
      /\ IsPlan(jobs[j].writes) /\ IsJob(jobs[j]) /\ jobs = [k \in Job |-> jobs[k]]
      /\ jobs[j] = JobOf(jobs[j].at, jobs[j].ids, jobs[j].card, jobs[j].room, jobs[j].on, jobs[j].writes, jobs[j].plan)
  BY <1>1, JobIs DEF Writers, Planned, Target
<1>3. IsPlan(CopyPlan(b)) BY <1>2, CopyPlanIs
<1>4. x = JobOf("recreating", jobs[j].ids, jobs[j].card, jobs[j].room, jobs[j].on, CopyPlan(b), jobs[j].plan)
  BY <1>2, PutWrites
<1> HIDE DEF x
<1>5. IsJob(x) BY <1>1, <1>2, <1>3, <1>4 DEF IsJob, JobOf, Writers, Planned
<1>6. Placed(x, books, made)
  BY <1>2, <1>4 DEF Placed, JobOf, Writers, Planned, Target
<1>7. AreJobs(js, books, made) BY <1>5, <1>6, OthersStay, JobPutIs
<1>8. js[j] = x /\ \A k \in Job \ {j} : js[k] = jobs[k] BY <1>2
<1> HIDE DEF js
<1>9. IsPlan(LeftOver(jobs[j].writes, i)) BY <1>2, LeftOverIs
<1>10. made \in Nat /\ AreBooks(books, made) /\ IsOne(b, made) BY <1>2 DEF TInv, Counts, AreBooks
<1>11. /\ {jobs[j].on} \in SUBSET Ref
       /\ \A o \in {jobs[j].on}, k \in Job : js[k].at \in Writers /\ js[k].on = o => books[o] = b
  BY <1>2
<1>12. /\ AreBooks(books', made) /\ AreJobs(jobs', books', made)
       /\ \A k \in Job : js[k].at \in Writers => jobs'[k] = js[k] /\ books'[js[k].on] = books[js[k].on]
       /\ \A k \in Job : jobs'[k] = js[k] \/ (js[k].at = "free" /\ jobs'[k].at = "straying")
  <2>1. b.room \in 1..made BY <1>2
  <2> HIDE DEF b
  <2> QED BY <1>1, <1>7, <1>9, <1>10, <1>11, <2>1, StrayIs
<1>13. x.at = "recreating" /\ x.on = jobs[j].on BY <1>4 DEF JobOf
<1>14. jobs'[j] = x /\ books'[jobs[j].on] = books[jobs[j].on]
  BY <1>8, <1>12, <1>13 DEF Writers, Planned
<1>15. \A k \in Job \ {j} : jobs[k].at \in Writers =>
          jobs'[k] = jobs[k] /\ books'[jobs[k].on] = books[jobs[k].on]
  BY <1>8, <1>12
<1>16. \A k \in Job \ {j} : jobs'[k].at \in Planned => jobs'[k] = jobs[k]
  BY <1>8, <1>12 DEF Planned
<1> QED BY <1>1, <1>2, <1>4, <1>12, <1>14, <1>15, <1>16

LEMMA ForbiddenKeepsTInv == ASSUME TInv, NEW j \in Job, NEW i \in Id, Forbidden(j, i) PROVE TInv'
<1>1. /\ UNCHANGED <<cards, past, pointer, rooms, left, made, move, held, meddled, checked, watched, next, faults>>
      /\ AreBooks(books', made) /\ AreJobs(jobs', books', made)
  BY ForbiddenIs
<1>2. /\ faults' \in 0..MaxFaults /\ held' \in Ref \cup {NoRef} /\ meddled' \in BOOLEAN /\ checked' \in BOOLEAN
      /\ watched' = [k \in Job |-> watched'[k]]
  BY <1>1 DEF TInv, Counts
<1> QED BY <1>1, <1>2, JobKeepsTInv

LEMMA JobSendFailsIs ==
    ASSUME TInv, NEW j \in Job, NEW i \in Id, JobSendFails(j, i)
    PROVE  /\ jobs[j].at \in {"saving", "copying", "resending"}
           /\ UNCHANGED <<cards, past, pointer, left, made, move, due, cleared, held, next>>
           /\ faults' \in 0..MaxFaults
           /\ AreRooms(rooms', made)
           /\ \/ UNCHANGED <<rooms, meddled, checked>> /\ watched' = [watched EXCEPT ![j] = Unwatched]
              \/ meddled' = TRUE /\ checked' = FALSE /\ watched' = [k \in Job |-> Unwatched]
           /\ AreBooks(books', made) /\ AreJobs(jobs', books', made)
           /\ \A k \in Job \ {j} : jobs[k].at \in Writers =>
                 jobs'[k] = jobs[k] /\ books'[jobs[k].on] = books[jobs[k].on]
           /\ \A k \in Job : jobs'[k].at \in Planned => k # j /\ jobs'[k] = jobs[k]
<1> DEFINE b == books[jobs[j].on]
           js == [jobs EXCEPT ![j] = NoJob]
<1>1. /\ jobs[j].at \in {"saving", "copying", "resending"} /\ Pending(jobs[j].writes, i)
      /\ UNCHANGED <<cards, past, pointer, left, made, move, due, cleared, held, next>>
      /\ \/ UNCHANGED <<rooms, meddled, checked>> /\ watched' = [watched EXCEPT ![j] = Unwatched]
         \/ rooms' = Landed(j, i) /\ meddled' = TRUE /\ checked' = FALSE /\ watched' = [k \in Job |-> Unwatched]
      /\ Stray(js, {jobs[j].on}, b, LeftOver(jobs[j].writes, i))
  BY DEF JobSendFails
<1>2. faults' \in 0..MaxFaults BY DEF JobSendFails, TInv, Counts
<1>3. /\ jobs[j].on \in Ref /\ Target(j) \in 1..made /\ Target(j) \in Room /\ ~(Target(j) > made)
      /\ IsBook(b) /\ IsRecord(b) /\ b.room = Target(j)
      /\ IsPlan(jobs[j].writes) /\ jobs = [k \in Job |-> jobs[k]]
  BY <1>1, JobIs DEF Writers, Planned, Target
<1>4. AreJobs(js, books, made)
  <2>1. IsJob(NoJob) /\ Placed(NoJob, books, made) BY NoJobIsJob
  <2> QED BY <2>1, OthersStay, JobPutIs
<1>5. js[j] = NoJob /\ \A k \in Job \ {j} : js[k] = jobs[k] BY <1>3
<1> HIDE DEF js
<1>6. IsPlan(LeftOver(jobs[j].writes, i)) BY <1>3, LeftOverIs
<1>7. made \in Nat /\ AreBooks(books, made) /\ IsOne(b, made) BY <1>3 DEF TInv, Counts, AreBooks
<1>8. /\ {jobs[j].on} \in SUBSET Ref
      /\ \A o \in {jobs[j].on}, k \in Job : js[k].at \in Writers /\ js[k].on = o => books[o] = b
  BY <1>3
<1>9. /\ AreBooks(books', made) /\ AreJobs(jobs', books', made)
      /\ \A k \in Job : js[k].at \in Writers => jobs'[k] = js[k] /\ books'[js[k].on] = books[js[k].on]
      /\ \A k \in Job : jobs'[k] = js[k] \/ (js[k].at = "free" /\ jobs'[k].at = "straying")
  <2>1. b.room \in 1..made BY <1>3
  <2> HIDE DEF b
  <2> QED BY <1>1, <1>4, <1>6, <1>7, <1>8, <2>1, StrayIs
<1>10. \A k \in Job \ {j} : jobs[k].at \in Writers =>
          jobs'[k] = jobs[k] /\ books'[jobs[k].on] = books[jobs[k].on]
  BY <1>5, <1>9
<1>11. \A k \in Job : jobs'[k].at \in Planned => k # j /\ jobs'[k] = jobs[k]
  BY <1>5, <1>9 DEF Planned, NoJob
<1>12. AreRooms(rooms', made)
  <2>1. CASE UNCHANGED rooms BY <2>1 DEF TInv
  <2>2. CASE rooms' = Landed(j, i)
    <3> DEFINE w == jobs[j].writes
    <3>1. AreRooms(rooms, made) BY DEF TInv
    <3>2. CASE w.card # NoPast
      <4>1. w.card[i] # {} /\ rooms' = RoomCard(rooms, Target(j), i, Earliest(w.card[i]))
        BY <1>1, <2>2, <3>2 DEF Pending, Landed, RoomCard
      <4>2. PICK e : e = Earliest(w.card[i]) OBVIOUS
      <4>3. PICK x, c : x = CardOut(w, i, e) /\ c = CardIn(b, i, e) OBVIOUS
      <4> HIDE DEF w, b
      <4> QED BY <1>3, <3>1, <4>1, <4>2, <4>3, CardIsSent DEF w
    <3>3. CASE w.card = NoPast
      <4>1. w.alias[i] # {} /\ rooms' = RoomAlias(rooms, Target(j), i, First(w.alias[i]))
        BY <1>1, <2>2, <3>3 DEF Pending, Landed, RoomAlias
      <4>2. PICK e : e = First(w.alias[i]) OBVIOUS
      <4>3. PICK x, c : x = AliasOut(w, i) /\ c = AliasIn(b, i, e) OBVIOUS
      <4> HIDE DEF w, b
      <4> QED BY <1>3, <3>1, <4>1, <4>2, <4>3, AliasIsSent DEF w
    <3> QED BY <3>2, <3>3
  <2> QED BY <1>1, <2>1, <2>2
<1> QED BY <1>1, <1>2, <1>9, <1>10, <1>11, <1>12

LEMMA JobSendFailsKeepsTInv == ASSUME TInv, NEW j \in Job, NEW i \in Id, JobSendFails(j, i) PROVE TInv'
<1>1. /\ UNCHANGED <<cards, past, pointer, left, made, at, taken, scratch, book, writes, held, next>>
      /\ faults' \in 0..MaxFaults /\ AreRooms(rooms', made)
      /\ \/ UNCHANGED <<rooms, meddled, checked>> /\ watched' = [watched EXCEPT ![j] = Unwatched]
         \/ meddled' = TRUE /\ checked' = FALSE /\ watched' = [k \in Job |-> Unwatched]
      /\ AreBooks(books', made) /\ AreJobs(jobs', books', made)
  BY JobSendFailsIs DEF move
<1>2. meddled' \in BOOLEAN /\ checked' \in BOOLEAN /\ watched' = [k \in Job |-> watched'[k]]
  <2>1. meddled \in BOOLEAN /\ checked \in BOOLEAN BY DEF TInv, Counts
  <2>2. [watched EXCEPT ![j] = Unwatched] = [k \in Job |-> [watched EXCEPT ![j] = Unwatched][k]] BY WatchedStays
  <2> QED BY <1>1, <2>1, <2>2
<1>3. Counts' BY <1>1, <1>2 DEF TInv, Counts
<1>4. OldTyped' BY <1>1, OldStays DEF TInv, Counts
<1>5. MoveTyped' /\ IsPointer(pointer, made)' /\ AreRooms(rooms, made)' /\ AreBooks(books, made)'
       /\ AreJobs(jobs, books, made)'
  BY <1>1 DEF TInv, MoveTyped
<1> QED BY <1>3, <1>4, <1>5 DEF TInv

----------------------------------------------------------------------------
(* Sessions, and rooms that are left.                                      *)
LEMMA ClosedKeepsTInv ==
    ASSUME TInv, Closed, UNCHANGED <<server, meddled, checked, next>>, faults' \in 0..MaxFaults PROVE TInv'
<1>1. /\ UNCHANGED <<cards, past, pointer, rooms, left, made, meddled, checked, next>>
      /\ at' = "closed" /\ taken' = NothingOld /\ scratch' = FALSE /\ book' = NoBook /\ writes' = NoWrites
      /\ jobs' = [j \in Job |-> NoJob] /\ books' = [o \in Ref |-> NoBook] /\ held' = NoRef
      /\ watched' = [j \in Job |-> Unwatched]
  BY DEF Closed, server
<1>2. made \in Nat BY DEF TInv, Counts
<1>3. MoveTyped' BY <1>1, <1>2, NoBookIsOne, NoWritesIsPlan DEF MoveTyped, Targeting
<1>4. AreBooks(books', made) /\ AreJobs(jobs', books', made) BY <1>1, <1>2, NoBooksAre, NoJobsAre
<1>5. /\ next' \in 1..(MaxVersion + 1) /\ next <= next' /\ meddled' \in BOOLEAN /\ checked' \in BOOLEAN
      /\ watched' = [j \in Job |-> watched'[j]]
  BY <1>1 DEF TInv, Counts
<1>6. scratch' \in BOOLEAN BY <1>1
<1> QED BY <1>1, <1>3, <1>4, <1>5, <1>6, QuietKeepsTInv

LEMMA CrashKeepsTInv == ASSUME TInv, Crash PROVE TInv'
<1>1. Closed /\ UNCHANGED <<server, meddled, checked, next>> /\ faults' \in 0..MaxFaults
  BY DEF Crash, TInv, Counts
<1> QED BY <1>1, ClosedKeepsTInv

LEMMA CloseKeepsTInv == ASSUME TInv, Close PROVE TInv'
<1>1. Closed /\ UNCHANGED <<server, meddled, checked, next>> /\ faults' \in 0..MaxFaults
  BY DEF Close, TInv, Counts
<1> QED BY <1>1, ClosedKeepsTInv

LEMMA OpenKeepsTInv == ASSUME TInv, Open PROVE TInv'
<1>1. /\ UNCHANGED <<cards, past, pointer, rooms, left, made, taken, scratch, book, writes, jobs, books, held, meddled,
                     checked, watched, next, faults>>
      /\ at' = "idle"
  BY DEF Open, server, shared, ghosts
<1>2. MoveTyped' BY <1>1 DEF TInv, MoveTyped, Targeting
<1>3. AreBooks(books', made) /\ AreJobs(jobs', books', made) BY <1>1 DEF TInv
<1> QED BY <1>1, <1>2, <1>3, QuietKeepsTInv DEF TInv, Counts

LEMMA LeaveKeepsTInv == ASSUME TInv, NEW r \in Room, Leave(r) PROVE TInv'
<1>1. /\ UNCHANGED <<cards, past, pointer, rooms, made, at, taken, scratch, book, writes, jobs, books, held, meddled,
                     checked, watched, next, faults>>
      /\ left' = left \cup {r}
  BY DEF Leave, move, shared, ghosts
<1>2. Counts' BY <1>1 DEF TInv, Counts
<1>3. OldTyped' BY <1>1, OldStays DEF TInv, Counts
<1> QED BY <1>1, <1>2, <1>3 DEF TInv, MoveTyped

LEMMA MoveStepsKeepTInv == ASSUME TInv, MoveSteps PROVE TInv'
BY MakeRoomKeepsTInv, WritePointerKeepsTInv, SentKeepsTInv, VerifyKeepsTInv, EmptyCardsKeepsTInv, EmptyPastKeepsTInv,
   SendKeepsTInv, SendFailsKeepsTInv DEF MoveSteps

LEMMA SaveStepsKeepTInv == ASSUME TInv, NEW j \in Job, SaveSteps(j) PROVE TInv'
<1>1. \A i \in Id : JobCard(j, i) \/ JobAlias(j, i) => JobSends(j, i) BY DEF JobSends
<1> QED BY <1>1, FoundKeepsTInv, AnnounceKeepsTInv, LoadHeldKeepsTInv, LoadKeepsTInv, SavedKeepsTInv, RecreateKeepsTInv,
           CopiedKeepsTInv, RepointKeepsTInv, JobSendKeepsTInv, ForbiddenKeepsTInv, JobSendFailsKeepsTInv
        DEF SaveSteps

LEMMA NextKeepsTInv == ASSUME TInv, [Next]_vars PROVE TInv'
<1>1. CASE UNCHANGED vars
  BY <1>1 DEF vars, server, move, shared, ghosts, TInv, Counts, OldTyped, MoveTyped, OldEvents
<1>2. CASE Next
  <2>1. CASE MoveWhenReady \/ MoveSteps \/ Look \/ Fail \/ Crash \/ Close \/ Open \/ \E i \in Id : SendFails(i)
    BY <2>1, MoveWhenReadyKeepsTInv, MoveStepsKeepTInv, LookKeepsTInv, FailKeepsTInv, CrashKeepsTInv, CloseKeepsTInv,
       OpenKeepsTInv, SendFailsKeepsTInv
  <2>2. CASE \E j \in Job : SaveSteps(j) \/ JobFails(j) BY <2>2, SaveStepsKeepTInv, JobFailsKeepsTInv
  <2>3. CASE \E ids \in SUBSET Id, c \in Card : OldSave(ids, c) \/ \E j \in Job : Ask(j, ids, c)
    BY <2>3, OldSaveKeepsTInv, AskKeepsTInv
  <2>4. CASE \E r \in Room : Leave(r) BY <2>4, LeaveKeepsTInv
  <2> QED BY <1>2, <2>1, <2>2, <2>3, <2>4 DEF Next
<1> QED BY <1>1, <1>2

LEMMA TInvHolds == Spec => []TInv
BY InitIsTInv, NextKeepsTInv, PTL DEF Spec

(* Everything is of its type, and what a job or the move writes to is a    *)
(* room that was created, through whatever books the jobs share.           *)
THEOREM TypeCorrect == Spec => []TypeOK
<1>1. TInv => TypeOK
  <2> SUFFICES ASSUME TInv PROVE TypeOK OBVIOUS
  <2>1. cards \in [Id -> Card] /\ past \in [Id -> SUBSET Version]
    BY DEF TInv, OldTyped, IsContent, OldEvents
  <2>2. 0..made \subseteq 0..MaxRooms BY DEF TInv, Counts
  <2>3. pointer.room \in 0..MaxRooms /\ pointer.pending \in BOOLEAN BY <2>2 DEF TInv, IsPointer
  <2>4. rooms \in [Room -> Books] /\ \A r \in Room, i \in Id : rooms[r].alias[i] # i
    <3>1. rooms = [r \in Room |-> rooms[r]] BY DEF TInv, AreRooms
    <3>2. \A r \in Room : rooms[r] \in Books
      <4> SUFFICES ASSUME NEW r \in Room PROVE rooms[r] \in Books OBVIOUS
      <4>1. /\ rooms[r] = [card |-> rooms[r].card, alias |-> rooms[r].alias]
            /\ rooms[r].card \in [Id -> Card] /\ rooms[r].alias \in [Id -> Id \cup {None}]
        BY DEF TInv, AreRooms, IsBook
      <4> QED BY <4>1 DEF Books
    <3>3. \A r \in Room, i \in Id : rooms[r].alias[i] # i BY DEF TInv, AreRooms, IsBook
    <3> QED BY <3>1, <3>2, <3>3
  <2>5. at \in {"closed", "idle"} \cup Moving /\ book.room \in 0..MaxRooms
    BY <2>2 DEF TInv, MoveTyped, IsOne
  <2>6. ASSUME NEW j \in Job
        PROVE  /\ jobs[j].at \in {"free", "waiting", "founding", "announcing", "loading", "straying"} \cup Planned
               /\ jobs[j].at \in Planned \cup {"straying"} => jobs[j].on \in Ref /\ Target(j) \in Room
    BY JobIs DEF IsJob, Writers
  <2>7. /\ left \subseteq Room /\ made \in 0..MaxRooms /\ held \in Ref \cup {NoRef}
        /\ meddled \in BOOLEAN /\ checked \in BOOLEAN
        /\ next \in 1..(MaxVersion + 1) /\ faults \in 0..MaxFaults
    BY DEF TInv, Counts
  <2> QED BY <2>1, <2>3, <2>4, <2>5, <2>6, <2>7 DEF TypeOK
<1> QED BY <1>1, TInvHolds, PTL

(* planSave gives its ids the new card and leaves every other id what it   *)
(* had, on every room that moves, saves side by side, writes gone astray   *)
(* and cut-off sessions leave.                                             *)
THEOREM SavesDoAsPlanned == Spec => []SavesAsPlanned
<1>1. TInv => SavesAsPlanned
  <2> DEFINE b == BookOf(pointer.room)
             After(ids, c) == ViewOf(Applied(b, PlanSave(b, ids, c)))
  <2> SUFFICES ASSUME TInv, Final, NEW ids \in (SUBSET Id) \ {{}}, NEW c, NEW i \in Id
               PROVE  IF i \in ids THEN After(ids, c)[i] = c
                      ELSE i \in Unsure(b) \/ After(ids, c)[i] = ViewOf(b)[i]
    BY DEF SavesAsPlanned
  <2>1. IsBook(b) /\ IsRecord(b) BY FinalRoom, BookIsOne DEF IsOne
  <2> HIDE DEF b
  <2>2. /\ Aliases(PlanSave(b, ids, c))
        /\ IF i \in ids THEN ViewAt(b, PlanSave(b, ids, c), i) = c
           ELSE i \in Unsure(b) \/ ViewAt(b, PlanSave(b, ids, c), i) = ViewOf(b)[i]
    BY <2>1, PlanSaveIs
  <2>3. After(ids, c)[i] = ViewAt(b, PlanSave(b, ids, c), i)
    BY <2>1, <2>2, AppliedSays DEF IsRecord
  <2> QED BY <2>2, <2>3
<1> QED BY <1>1, TInvHolds, PTL

----------------------------------------------------------------------------
(* A move that writes alone.  It is from scratch just if no room is in     *)
(* use, goes on in that room otherwise, and has to send what makes the     *)
(* room say what was taken.                                                *)
Aiming == {"creating", "pointing"} \cup Targeting

Promises(b, w) ==
    \A i \in Id : /\ taken.card[i] # None => ViewAt(b, w, i) = taken.card[i]
                  /\ scratch /\ taken.card[i] = None => ViewAt(b, w, i) = None

Aims ==
    /\ at \in Aiming => (scratch <=> ~Final)
    /\ at \in {"creating", "pointing"} => scratch
    /\ at \in Targeting /\ ~scratch => book.room = pointer.room
    /\ at \in {"emptyingCards", "emptyingPast"} => Final
Sends ==
    at = "sending" =>
        /\ Promises(rooms[book.room], writes)
        /\ ~scratch => \A i \in Id : Writes(writes, i) => taken.card[i] # None
Checks == at \in {"verifying", "finalising"} => Verified
MInv == ~meddled => Aims /\ Sends /\ Checks

(* From a check to the next write of anybody, the room in use holds what   *)
(* was moved to it, and a move that only empties has taken just that.      *)
CInv ==
    checked =>
        /\ Final
        /\ \A i \in Id : pointer.moved.card[i] # None =>
              ViewOf(rooms[pointer.room])[i] = pointer.moved.card[i]
        /\ at = "emptyingCards" => pointer.moved = taken

LEMMA VerifiedIs ==
    ASSUME TInv, at \in Targeting PROVE Verified <=> Promises(rooms[book.room], NoWrites)
<1>1. IsBook(rooms[book.room]) BY MoveTarget
<1>2. \A i \in Id : ViewAt(rooms[book.room], NoWrites, i) = ViewOf(rooms[book.room])[i] BY <1>1, NothingSays
<1> QED BY <1>2 DEF Verified, Promises

(* What the jobs do to a move.                                             *)
LEMMA JobStepIs ==
    ASSUME TInv, NEW j \in Job, SaveSteps(j) \/ JobFails(j)
    PROVE  /\ UNCHANGED <<cards, past, left, at, taken, scratch, book, writes>>
           /\ UNCHANGED <<pointer, rooms, meddled, checked>> \/ (meddled' = TRUE /\ checked' = FALSE)
<1>1. CASE Found(j) BY <1>1 DEF Found, move, ghosts
<1>2. CASE Announce(j) BY <1>2 DEF Announce, move, Meddle
<1>3. CASE LoadHeld(j) BY <1>3 DEF LoadHeld, server, move
<1>4. CASE LoadRoom(j) BY <1>4 DEF LoadRoom, server, move, Hold
<1>5. CASE LoadNothing(j) BY <1>5 DEF LoadNothing, server, move, Hold
<1>6. CASE Saved(j) BY <1>6 DEF Saved, server, move, Ended
<1>7. CASE Recreate(j) BY <1>7 DEF Recreate, move, Meddle
<1>8. CASE Copied(j) BY <1>8 DEF Copied, server, move, ghosts
<1>9. CASE Repoint(j) BY <1>9 DEF Repoint, move, Meddle
<1>10. CASE JobFails(j) BY <1>10 DEF JobFails, server, move, Ended
<1>11. ASSUME NEW i \in Id, JobCard(j, i) \/ JobAlias(j, i)
       PROVE  /\ UNCHANGED <<cards, past, left, at, taken, scratch, book, writes>>
              /\ meddled' = TRUE /\ checked' = FALSE
  BY <1>11 DEF JobCard, JobAlias, move, Meddle
<1>12. ASSUME NEW i \in Id, Forbidden(j, i)
       PROVE  UNCHANGED <<cards, past, left, at, taken, scratch, book, writes, pointer, rooms, meddled, checked>>
  BY <1>12 DEF Forbidden, server, move, ghosts
<1>13. ASSUME NEW i \in Id, JobSendFails(j, i)
       PROVE  /\ UNCHANGED <<cards, past, left, at, taken, scratch, book, writes>>
              /\ UNCHANGED <<pointer, rooms, meddled, checked>> \/ (meddled' = TRUE /\ checked' = FALSE)
  BY <1>13 DEF JobSendFails, move
<1> QED BY <1>1, <1>2, <1>3, <1>4, <1>5, <1>6, <1>7, <1>8, <1>9, <1>10, <1>11, <1>12, <1>13 DEF SaveSteps

LEMMA JobsKeepMInv == ASSUME TInv, MInv, NEW j \in Job, SaveSteps(j) \/ JobFails(j) PROVE MInv'
<1>1. CASE meddled' = TRUE BY <1>1 DEF MInv
<1>2. CASE UNCHANGED <<at, taken, scratch, book, writes, pointer, rooms, meddled>>
  BY <1>2 DEF MInv, Aims, Final, Sends, Promises, Checks, Verified
<1> QED BY <1>1, <1>2, JobStepIs

LEMMA JobsKeepCInv == ASSUME TInv, CInv, NEW j \in Job, SaveSteps(j) \/ JobFails(j) PROVE CInv'
<1>1. CASE checked' = FALSE BY <1>1 DEF CInv
<1>2. CASE UNCHANGED <<at, taken, pointer, rooms, checked>>
  BY <1>2 DEF CInv, Final
<1> QED BY <1>1, <1>2, JobStepIs

LEMMA RestingIsMInv == ASSUME at' \in {"idle", "closed"} PROVE MInv'
BY DEF MInv, Aims, Sends, Checks, Aiming, Targeting

LEMMA RestingKeepsCInv == ASSUME CInv, at' # "emptyingCards", UNCHANGED <<pointer, rooms, checked>> PROVE CInv'
BY DEF CInv, Final

LEMMA StartIsMInv == ASSUME TInv, StartMove, UNCHANGED <<pointer, rooms>> PROVE MInv'
<1>1. /\ at' \in {"emptyingCards", "creating", "pointing", "reading"}
      /\ scratch' = ~Final /\ book'.room = pointer.room
      /\ at' = "emptyingCards" => Final
      /\ at' \in {"creating", "pointing"} => ~Final
  <2>1. book' = [NoBook EXCEPT !.room = pointer.room] BY DEF StartMove
  <2>2. book'.room = pointer.room BY <2>1 DEF NoBook
  <2> QED BY <2>2 DEF StartMove, MoveBegins, Final
<1>2. Final' = Final BY DEF Final
<1>3. Aims' BY <1>1, <1>2 DEF Aims, Aiming, Targeting
<1> QED BY <1>1, <1>3 DEF MInv, Sends, Checks

LEMMA StartKeepsCInv == ASSUME TInv, CInv, StartMove, UNCHANGED <<pointer, rooms, checked>> PROVE CInv'
<1>1. at' = "emptyingCards" => pointer.moved = taken' BY DEF StartMove, MoveBegins, Final
<1> QED BY <1>1 DEF CInv, Final

LEMMA ReadRoomKeepsMInv == ASSUME TInv, MInv, ReadRoom PROVE MInv'
<1>1. /\ at = "reading" /\ at' = "sending" /\ book' = BookOf(book.room)
      /\ writes' = MovePlan(taken, BookOf(book.room), scratch)
      /\ UNCHANGED <<pointer, rooms, taken, scratch, meddled>>
  BY DEF ReadRoom, server, ghosts
<1>2. book.room \in 1..made /\ IsBook(rooms[book.room]) BY <1>1, MoveTarget DEF Targeting
<1>3. /\ book'.room = book.room /\ IsBook(book') /\ book'.card = rooms[book.room].card
      /\ book'.alias = rooms[book.room].alias
  BY <1>1, <1>2, BookIsOne DEF IsOne
<1>4. Final' = Final BY <1>1 DEF Final
<1>5. ASSUME ~meddled PROVE Aims'
  <2>1. Aims BY <1>5 DEF MInv
  <2> QED BY <1>1, <1>3, <1>4, <2>1 DEF Aims, Aiming, Targeting
<1>6. Promises(rooms[book.room], writes)'
  <2>1. scratch \in BOOLEAN /\ IsContent(taken) BY DEF TInv, Counts, OldTyped
  <2>2. ASSUME NEW i \in Id
        PROVE  ViewAt(rooms[book.room], writes', i) = ViewAt(book', writes', i)
    BY <1>3 DEF ViewAt, CardOf, AliasOf
  <2>3. \A i \in Id : /\ taken.card[i] # None => ViewAt(book', writes', i) = taken.card[i]
                      /\ scratch /\ taken.card[i] = None => ViewAt(book', writes', i) = None
    BY <1>1, <1>3, <2>1, MovePlanIs
  <2> QED BY <1>1, <1>3, <2>2, <2>3 DEF Promises
<1>7. ~scratch => \A i \in Id : Writes(writes', i) => taken.card[i] # None
  <2> SUFFICES ASSUME ~scratch, NEW i \in Id, Writes(writes', i) PROVE taken.card[i] # None OBVIOUS
  <2>1. scratch = FALSE BY DEF TInv, Counts
  <2>2. writes' = MovePlan(taken, BookOf(book.room), FALSE) BY <1>1, <2>1
  <2> QED BY <2>2, MovePlanWrites
<1>8. Sends' BY <1>1, <1>6, <1>7 DEF Sends
<1>9. Checks' BY <1>1 DEF Checks
<1> QED BY <1>1, <1>5, <1>8, <1>9 DEF MInv

LEMMA SendKeepsMInv == ASSUME TInv, MInv, NEW i \in Id, SendCard(i) \/ SendAlias(i) PROVE MInv'
<1>1. /\ at = "sending"
      /\ UNCHANGED <<pointer, at, taken, scratch>> /\ meddled' = meddled
      /\ Goes(rooms[book.room], writes, i, writes', rooms'[book.room])
      /\ book'.room = book.room
  BY SendIs
<1> SUFFICES ASSUME ~meddled PROVE Aims' /\ Sends' /\ Checks' BY <1>1 DEF MInv
<1>2. Aims /\ Sends BY DEF MInv
<1>3. Final' = Final BY <1>1 DEF Final
<1>4. Aims' BY <1>1, <1>2, <1>3 DEF Aims
<1>5. Promises(rooms[book.room], writes)'
  <2>1. Promises(rooms[book.room], writes) BY <1>1, <1>2 DEF Sends
  <2>2. /\ IsBook(rooms'[book.room]) /\ IsPlan(writes')
        /\ SameOf(rooms'[book.room], writes', rooms[book.room], writes)
    BY <1>1 DEF Goes
  <2>3. \A k \in Id : ViewAt(rooms'[book.room], writes', k) = ViewAt(rooms[book.room], writes, k)
    BY <2>2, SameViews DEF IsPlan
  <2> QED BY <1>1, <2>1, <2>3 DEF Promises
<1>6. ~scratch => \A k \in Id : Writes(writes', k) => taken.card[k] # None
  <2>1. Within(writes', writes) BY <1>1 DEF Goes
  <2> QED BY <1>1, <1>2, <2>1 DEF Sends, Within, Writes
<1>7. Sends' BY <1>1, <1>5, <1>6 DEF Sends
<1> QED BY <1>1, <1>4, <1>7 DEF Checks

LEMMA SentKeepsMInv == ASSUME TInv, MInv, Sent PROVE MInv'
<1>1. /\ at = "sending" /\ writes = NoWrites /\ at' = "verifying"
      /\ UNCHANGED <<pointer, rooms, taken, scratch, book, writes, meddled>>
  BY DEF Sent, server, ghosts
<1> SUFFICES ASSUME ~meddled PROVE Aims' /\ Sends' /\ Checks' BY <1>1 DEF MInv
<1>2. Aims /\ Sends BY DEF MInv
<1>3. Final' = Final BY <1>1 DEF Final
<1>4. Aims' BY <1>1, <1>2, <1>3 DEF Aims, Aiming, Targeting
<1>5. Verified BY <1>1, <1>2, VerifiedIs DEF Sends, Targeting
<1>6. Verified' BY <1>1, <1>5 DEF Verified
<1> QED BY <1>1, <1>4, <1>6 DEF Sends, Checks

LEMMA VerifyKeepsMInv == ASSUME TInv, MInv, Verify PROVE MInv'
<1>1. CASE Rest BY <1>1, RestingIsMInv DEF Rest
<1>2. CASE Verified /\ book' = BookOf(book.room) /\ at' = "finalising" /\ UNCHANGED <<taken, scratch, writes, jobs>>
  <2>1. at = "verifying" /\ UNCHANGED <<pointer, rooms, meddled>> BY DEF Verify, server, ghosts
  <2> SUFFICES ASSUME ~meddled PROVE Aims' /\ Sends' /\ Checks' BY <2>1 DEF MInv
  <2>2. Aims BY DEF MInv
  <2>3. Final' = Final BY <2>1 DEF Final
  <2>4. book'.room = book.room BY <1>2, <2>1, MoveTarget, BookIsOne DEF Targeting
  <2>5. Aims' BY <1>2, <2>1, <2>2, <2>3, <2>4 DEF Aims, Aiming, Targeting
  <2>6. Verified' BY <1>2, <2>1, <2>4 DEF Verified
  <2> QED BY <1>2, <2>5, <2>6 DEF Sends, Checks
<1> QED BY <1>1, <1>2 DEF Verify

LEMMA WritePointerKeepsMInv == ASSUME TInv, MInv, WritePointer PROVE MInv'
<1>1. UNCHANGED <<rooms, taken, scratch, book, meddled>> BY DEF WritePointer, MoveMeddles
<1> SUFFICES ASSUME ~meddled PROVE Aims' /\ Sends' /\ Checks' BY <1>1 DEF MInv
<1>2. Aims BY DEF MInv
<1>3. CASE /\ at = "pointing" /\ at' = "reading"
           /\ pointer' = [room |-> book.room, pending |-> TRUE, moved |-> None]
  <2>1. ~Final' BY <1>3 DEF Final
  <2>2. scratch BY <1>2, <1>3 DEF Aims
  <2>3. Aims' BY <1>1, <1>3, <2>1, <2>2 DEF Aims, Aiming, Targeting
  <2> QED BY <1>3, <2>3 DEF Sends, Checks
<1>4. CASE /\ at = "finalising" /\ at' = "emptyingCards"
           /\ pointer' = [room |-> book.room, pending |-> FALSE, moved |-> taken]
  <2>1. book.room # 0 BY <1>4 DEF TInv, MoveTyped, Targeting
  <2>2. Final' BY <1>4, <2>1 DEF Final
  <2>3. Aims' BY <1>4, <2>2 DEF Aims, Aiming, Targeting
  <2> QED BY <1>4, <2>3 DEF Sends, Checks
<1> QED BY <1>3, <1>4 DEF WritePointer

LEMMA MakeRoomKeepsMInv == ASSUME TInv, MInv, MakeRoom PROVE MInv'
<1>1. /\ at = "creating" /\ at' = "pointing" /\ UNCHANGED <<pointer, rooms, taken, scratch, writes, meddled>>
  BY DEF MakeRoom, ghosts
<1> SUFFICES ASSUME ~meddled PROVE Aims' /\ Sends' /\ Checks' BY <1>1 DEF MInv
<1>2. Aims BY DEF MInv
<1>3. Final' = Final BY <1>1 DEF Final
<1>4. Aims' BY <1>1, <1>2, <1>3 DEF Aims, Aiming, Targeting
<1> QED BY <1>1, <1>4 DEF Sends, Checks

LEMMA EmptyCardsKeepsMInv == ASSUME TInv, MInv, EmptyCards PROVE MInv'
<1>1. /\ at = "emptyingCards" /\ at' = "emptyingPast" /\ UNCHANGED <<pointer, meddled>>
  BY DEF EmptyCards, ghosts
<1>2. Final' = Final BY <1>1 DEF Final
<1> QED BY <1>1, <1>2 DEF MInv, Aims, Sends, Checks, Aiming, Targeting

LEMMA NextKeepsMInv == ASSUME TInv, MInv, [Next]_vars PROVE MInv'
<1>1. CASE UNCHANGED <<at, taken, scratch, book, writes, pointer, rooms, meddled>>
  BY <1>1 DEF MInv, Aims, Final, Sends, Promises, Checks, Verified
<1>2. CASE UNCHANGED vars BY <1>1, <1>2 DEF vars, server, move, ghosts
<1>3. CASE MoveSteps
  <2>1. CASE EmptyPast BY <2>1, RestingIsMInv DEF EmptyPast, Rest
  <2>2. CASE \E i \in Id : SendFails(i) BY <2>2, RestingIsMInv DEF SendFails, Rest
  <2> QED BY <1>3, <2>1, <2>2, ReadRoomKeepsMInv, SendKeepsMInv, SentKeepsMInv, VerifyKeepsMInv, WritePointerKeepsMInv,
             MakeRoomKeepsMInv, EmptyCardsKeepsMInv DEF MoveSteps
<1>4. CASE MoveWhenReady
  <2>1. UNCHANGED <<pointer, rooms, writes>> BY <1>4 DEF MoveWhenReady, server
  <2>2. CASE StartMove BY <2>1, <2>2, StartIsMInv
  <2>3. CASE UNCHANGED <<at, taken, scratch, book, meddled>> BY <1>1, <2>1, <2>3
  <2> QED BY <1>4, <2>2, <2>3 DEF MoveWhenReady
<1>5. CASE Fail \/ Crash \/ Close \/ Open \/ \E i \in Id : SendFails(i)
  BY <1>5, RestingIsMInv DEF Fail, Crash, Close, Closed, Open, SendFails, Rest
<1>6. CASE Look BY <1>1, <1>6 DEF Look, server, move, ghosts
<1>7. CASE \E j \in Job : SaveSteps(j) \/ JobFails(j) BY <1>7, JobsKeepMInv
<1>8. ASSUME NEW ids \in SUBSET Id, NEW c \in Card, OldSave(ids, c) PROVE MInv'
  BY <1>1, <1>8 DEF OldSave, move, ghosts
<1>9. ASSUME NEW ids \in SUBSET Id, NEW c \in Card, NEW j \in Job, Ask(j, ids, c) PROVE MInv'
  <2>1. UNCHANGED <<pointer, rooms, writes>> BY <1>9 DEF Ask, server
  <2>2. CASE StartMove BY <2>1, <2>2, StartIsMInv
  <2>3. CASE UNCHANGED <<at, taken, scratch, book, meddled>> BY <1>1, <2>1, <2>3
  <2> QED BY <1>9, <2>2, <2>3 DEF Ask
<1>10. ASSUME NEW r \in Room, Leave(r) PROVE MInv' BY <1>1, <1>10 DEF Leave, move, ghosts
<1> QED BY <1>2, <1>3, <1>4, <1>5, <1>6, <1>7, <1>8, <1>9, <1>10 DEF Next

LEMMA MInvHolds == Spec => [](TInv /\ MInv)
<1>1. Init => MInv BY DEF Init, MInv, Aims, Sends, Checks, Aiming, Targeting
<1> QED BY <1>1, InitIsTInv, NextKeepsTInv, NextKeepsMInv, PTL DEF Spec

(* A move that nobody writes beside never finds that what it sent does not *)
(* fit: whatever earlier moves, saves and stray writes left in the room,   *)
(* when all is sent the room says what was taken.                          *)
THEOREM MovesAreVerified == Spec => []MovesVerify
<1>1. MInv => MovesVerify BY DEF MInv, Checks, MovesVerify
<1> QED BY <1>1, MInvHolds, PTL

LEMMA NextKeepsCInv == ASSUME TInv, MInv, CInv, [Next]_vars PROVE CInv'
<1>1. CASE UNCHANGED <<at, taken, pointer, rooms, checked>>
  BY <1>1 DEF CInv, Final
<1>2. CASE UNCHANGED vars BY <1>1, <1>2 DEF vars, server, move, ghosts
<1>3. CASE MoveSteps
  <2>1. CASE ReadRoom \/ Sent \/ Verify \/ EmptyCards \/ EmptyPast \/ MakeRoom \/ \E i \in Id : SendFails(i)
    <3>1. UNCHANGED <<pointer, rooms, checked>> /\ at' # "emptyingCards"
      BY <2>1 DEF ReadRoom, Sent, Verify, EmptyCards, EmptyPast, MakeRoom, SendFails, Rest, server, ghosts
    <3> QED BY <3>1, RestingKeepsCInv
  <2>2. CASE \E i \in Id : SendCard(i) \/ SendAlias(i) BY <2>2 DEF SendCard, SendAlias, CInv
  <2>3. CASE WritePointer
    <3>1. CASE checked' = FALSE BY <3>1 DEF CInv
    <3>2. CASE /\ at = "finalising" /\ checked' = ~meddled
               /\ pointer' = [room |-> book.room, pending |-> FALSE, moved |-> taken]
      <4>1. UNCHANGED <<rooms, taken>> BY <2>3 DEF WritePointer
      <4> SUFFICES ASSUME ~meddled PROVE CInv' BY <3>2 DEF CInv
      <4>2. Verified BY <3>2 DEF MInv, Checks
      <4>3. Final' BY <3>2 DEF Final, TInv, MoveTyped, Targeting
      <4>4. pointer'.room = book.room /\ pointer'.moved = taken BY <3>2
      <4>5. \A i \in Id : taken.card[i] # None => ViewOf(rooms[book.room])[i] = taken.card[i] BY <4>2 DEF Verified
      <4> QED BY <4>1, <4>3, <4>4, <4>5 DEF CInv
    <3> QED BY <2>3, <3>1, <3>2 DEF WritePointer
  <2> QED BY <1>3, <2>1, <2>2, <2>3 DEF MoveSteps
<1>4. CASE MoveWhenReady
  <2>1. UNCHANGED <<pointer, rooms, checked>> BY <1>4 DEF MoveWhenReady, server
  <2>2. CASE StartMove BY <2>1, <2>2, StartKeepsCInv
  <2>3. CASE UNCHANGED <<at, taken, scratch, book, meddled>> BY <1>1, <2>1, <2>3
  <2> QED BY <1>4, <2>2, <2>3 DEF MoveWhenReady
<1>5. CASE Fail \/ Crash \/ Close \/ Open \/ \E i \in Id : SendFails(i)
  BY <1>5, RestingKeepsCInv DEF Fail, Crash, Close, Closed, Open, SendFails, Rest, server, ghosts
<1>6. CASE Look BY <1>1, <1>6 DEF Look, server, move, ghosts
<1>7. CASE \E j \in Job : SaveSteps(j) \/ JobFails(j) BY <1>7, JobsKeepCInv
<1>8. ASSUME NEW ids \in SUBSET Id, NEW c \in Card, OldSave(ids, c) PROVE CInv'
  BY <1>1, <1>8 DEF OldSave, move, ghosts
<1>9. ASSUME NEW ids \in SUBSET Id, NEW c \in Card, NEW j \in Job, Ask(j, ids, c) PROVE CInv'
  <2>1. UNCHANGED <<pointer, rooms, checked>> BY <1>9 DEF Ask, server
  <2>2. CASE StartMove BY <2>1, <2>2, StartKeepsCInv
  <2>3. CASE UNCHANGED <<at, taken, scratch, book, meddled>> BY <1>1, <2>1, <2>3
  <2> QED BY <1>9, <2>2, <2>3 DEF Ask
<1>10. ASSUME NEW r \in Room, Leave(r) PROVE CInv' BY <1>1, <1>10 DEF Leave, move, ghosts
<1> QED BY <1>2, <1>3, <1>4, <1>5, <1>6, <1>7, <1>8, <1>9, <1>10 DEF Next

LEMMA CInvHolds == Spec => [](TInv /\ MInv /\ CInv)
<1>1. Init => MInv BY DEF Init, MInv, Aims, Sends, Checks, Aiming, Targeting
<1>2. Init => CInv BY DEF Init, CInv
<1> QED BY <1>1, <1>2, InitIsTInv, NextKeepsTInv, NextKeepsMInv, NextKeepsCInv, PTL DEF Spec

(* The old events are emptied of no card that was taken and that the room  *)
(* in use does not hold, in whichever session after the check, however     *)
(* many jobs go on and old clients write, as long as nobody has written to *)
(* a room since.                                                           *)
THEOREM NothingIsEmptiedAway == Spec => EmptyingLosesNothing
<1>1. TInv /\ CInv /\ [Next]_vars =>
         [EmptyCards /\ checked =>
             Final /\ \A i \in Id : cards[i] # None /\ cards[i] = taken.card[i]
                                     => ViewOf(rooms[pointer.room])[i] = cards[i]]_vars
  BY DEF CInv, EmptyCards
<1> QED BY <1>1, CInvHolds, PTL DEF Spec, EmptyingLosesNothing

(* A write changes what is read only of the id that it is sent for, and of *)
(* those that have that id for an alias.                                   *)
LEMMA SendSpares ==
    ASSUME NEW b, IsBook(b), NEW w, NEW i \in Id, NEW x, NEW c, Goes(b, w, i, x, c),
           NEW k \in Id, k # i, b.alias[k] # i
    PROVE  ViewOf(c)[k] = ViewOf(b)[k]
<1>1. /\ IsBook(c) /\ c.card[k] = b.card[k] /\ c.alias[k] = b.alias[k]
      /\ \A j \in Id \ {i} : c.card[j] = b.card[j]
  BY DEF Goes
<1>2. b.alias[k] \in Id \cup {None} BY DEF IsBook
<1> QED BY <1>1, <1>2 DEF ViewOf

(* A move that nobody writes beside changes what is read of no contact but *)
(* those that wait in the old events for a room in use, and those that     *)
(* share with one of them; and making the room the one to read changes     *)
(* what is read of none that no old client has changed since.              *)
THEOREM MovesLeaveReads == Spec => MovesKeepReads
<1>1. ASSUME TInv, MInv, MoveSteps, ~meddled, NEW k \in Id \ Disturbed PROVE Reads'[k] = Reads[k]
  <2>1. CASE UNCHANGED <<pointer, rooms, cards>> BY <2>1 DEF Reads, Final
  <2>2. CASE MakeRoom \/ ReadRoom \/ Sent \/ Verify \/ EmptyPast \/ \E i \in Id : SendFails(i)
    BY <2>1, <2>2 DEF MakeRoom, ReadRoom, Sent, Verify, EmptyPast, SendFails, server
  <2>3. CASE EmptyCards
    <3>1. Final /\ UNCHANGED <<pointer, rooms>> BY <1>1, <2>3 DEF EmptyCards, MInv, Aims
    <3> QED BY <3>1 DEF Reads, Final
  <2>4. ASSUME NEW i \in Id, SendCard(i) \/ SendAlias(i) PROVE Reads'[k] = Reads[k]
    <3>1. /\ at = "sending" /\ UNCHANGED <<cards, pointer>>
          /\ Goes(rooms[book.room], writes, i, writes', rooms'[book.room])
      BY <1>1, <2>4, SendIs
    <3>2. (scratch <=> ~Final) /\ (~scratch => book.room = pointer.room)
          /\ (~scratch => \A j \in Id : Writes(writes, j) => taken.card[j] # None)
      BY <1>1, <3>1 DEF MInv, Aims, Sends, Aiming, Targeting
    <3>3. Final' = Final BY <3>1 DEF Final
    <3>4. CASE ~Final BY <3>1, <3>3, <3>4 DEF Reads
    <3>5. CASE Final
      <4>1. ~scratch /\ book.room = pointer.room BY <3>2, <3>5
      <4>2. taken.card[i] # None BY <3>1, <3>2, <4>1 DEF Goes
      <4>3. IsBook(rooms[book.room]) /\ BookOf(book.room).alias = rooms[book.room].alias
        BY <1>1, <3>1, MoveTarget, BookIsOne DEF Targeting
      <4>4. k # i /\ rooms[book.room].alias[k] # i BY <4>1, <4>2, <4>3 DEF Disturbed, Through
      <4>5. ViewOf(rooms'[book.room])[k] = ViewOf(rooms[book.room])[k] BY <3>1, <4>3, <4>4, SendSpares
      <4> QED BY <3>1, <3>3, <3>5, <4>1, <4>5 DEF Reads
    <3> QED BY <3>4, <3>5
  <2>5. CASE WritePointer
    <3>0. UNCHANGED <<cards, rooms>> BY <2>5 DEF WritePointer
    <3>1. CASE at = "pointing" /\ pointer' = [room |-> book.room, pending |-> TRUE, moved |-> None]
      <4>1. ~Final' BY <3>1 DEF Final
      <4>2. ~Final BY <1>1, <3>1 DEF MInv, Aims, Aiming
      <4> QED BY <3>0, <4>1, <4>2 DEF Reads
    <3>2. CASE at = "finalising" /\ pointer' = [room |-> book.room, pending |-> FALSE, moved |-> taken]
      <4>1. (scratch <=> ~Final) /\ (~scratch => book.room = pointer.room) /\ Verified
        BY <1>1, <3>2 DEF MInv, Aims, Checks, Aiming, Targeting
      <4>2. book.room # 0 BY <1>1, <3>2 DEF TInv, MoveTyped, Targeting
      <4>3. Final' /\ pointer'.room = book.room BY <3>2, <4>2 DEF Final
      <4>4. Reads' = ViewOf(rooms[book.room]) BY <3>0, <4>3 DEF Reads
      <4>5. CASE Final BY <4>1, <4>4, <4>5 DEF Reads
      <4>6. CASE ~Final
        <5>1. scratch /\ cards[k] = taken.card[k] BY <1>1, <4>1, <4>6 DEF Disturbed
        <5>2. ViewOf(rooms[book.room])[k] = taken.card[k] BY <4>1, <5>1 DEF Verified
        <5> QED BY <4>4, <4>6, <5>1, <5>2 DEF Reads
      <4> QED BY <4>5, <4>6
    <3> QED BY <2>5, <3>1, <3>2 DEF WritePointer
  <2> QED BY <1>1, <2>2, <2>3, <2>4, <2>5 DEF MoveSteps
<1>2. TInv /\ MInv /\ [Next]_vars =>
         [MoveSteps /\ ~meddled => \A i \in Id \ Disturbed : Reads'[i] = Reads[i]]_vars
  BY <1>1
<1> QED BY <1>2, MInvHolds, PTL DEF Spec, MovesKeepReads

----------------------------------------------------------------------------
(* A save that alone has written since it made its plan: it means of each  *)
(* id what the room in use, R, will say once all of its plan, p, is sent,  *)
(* and writes to no id that others read through.                           *)
Meant(v, R, p, ids, c) ==
    \A i \in Id :
        /\ IF i \in ids THEN ViewAt(R, p, i) = c
           ELSE i \in v.unsure \/ ViewAt(R, p, i) = v.before[i]
        /\ i \notin v.touches =>
              ViewOf(R)[i] = v.before[i] /\ \A x \in Id : Writes(p, x) => i # x /\ R.alias[i] # x

(* Where it is: it writes its plan to the room in use; or what that room   *)
(* says to a new room, and then all of its plan once more.                 *)
Stands(x, r, t, R, T) ==
    /\ x.at \in Planned
    /\ x.at \in {"saving", "recreating", "resending"} => t = r
    /\ x.at \in {"copying", "repointing"} => t # r /\ SameOf(T, x.writes, R, NoWrites)
    /\ x.at = "recreating" => SameOf(EmptyRoom, x.writes, R, NoWrites)
    /\ x.at = "repointing" => x.writes = NoWrites
    /\ x.at \in {"saving", "resending"} => Within(x.writes, x.plan) /\ SameOf(R, x.writes, R, x.plan)

Guarded(j) ==
    LET R == rooms[pointer.room]
        T == rooms[Target(j)]
    IN /\ Final
       /\ books[jobs[j].on].card = T.card /\ books[jobs[j].on].alias = T.alias
       /\ Stands(jobs[j], pointer.room, Target(j), R, T)
       /\ Meant(watched[j], R, jobs[j].plan, jobs[j].ids, jobs[j].card)
WInv == \A j \in Job : watched[j].alone => Guarded(j)

(* A step that does nothing to a save, or after which it is not alone.      *)
Leaves(j) ==
    watched'[j].alone =>
        /\ watched'[j] = watched[j] /\ UNCHANGED <<pointer, rooms>>
        /\ jobs[j].at \in Planned => jobs'[j] = jobs[j] /\ books'[jobs[j].on] = books[jobs[j].on]

LEMMA GuardStays ==
    ASSUME NEW j \in Job, watched[j].alone => Guarded(j), Leaves(j)
    PROVE  watched'[j].alone => Guarded(j)'
<1> SUFFICES ASSUME watched'[j].alone PROVE Guarded(j)' OBVIOUS
<1>1. watched'[j] = watched[j] /\ UNCHANGED <<pointer, rooms>> BY DEF Leaves
<1>2. Guarded(j) BY <1>1
<1>3. jobs'[j] = jobs[j] /\ books'[jobs[j].on] = books[jobs[j].on] BY <1>2 DEF Guarded, Stands, Leaves
<1>4. Target(j)' = Target(j) /\ Final' = Final BY <1>1, <1>3 DEF Target, Final
<1> QED BY <1>1, <1>2, <1>3, <1>4 DEF Guarded

LEMMA NobodyIsAlone == ASSUME NEW j \in Job, watched'[j] = Unwatched PROVE Leaves(j)
BY DEF Unwatched, Leaves

LEMMA MeantStays ==
    ASSUME NEW v, NEW R, NEW S, IsBook(R), IsBook(S), R.card = S.card, R.alias = S.alias, NEW p, NEW ids, NEW c,
           Meant(v, R, p, ids, c)
    PROVE  Meant(v, S, p, ids, c)
<1>1. \A i \in Id : ViewAt(S, p, i) = ViewAt(R, p, i) BY DEF ViewAt, CardOf, AliasOf
<1>2. \A i \in Id : ViewOf(S)[i] = ViewOf(R)[i] BY DEF ViewOf
<1> QED BY <1>1, <1>2 DEF Meant

LEMMA SendMeans ==
    ASSUME NEW R, IsBook(R), NEW p, IsPlan(p), NEW w, Within(w, p), SameOf(R, w, R, p),
           NEW i \in Id, NEW x, NEW S, Goes(R, w, i, x, S), NEW v, NEW ids, NEW c, Meant(v, R, p, ids, c)
    PROVE  Meant(v, S, p, ids, c) /\ Within(x, p) /\ SameOf(S, x, S, p)
<1>1. /\ IsBook(S) /\ SameOf(S, x, R, w) /\ Within(x, w) /\ Writes(w, i)
      /\ \A k \in Id \ {i} : S.card[k] = R.card[k] /\ S.alias[k] = R.alias[k]
      /\ (w.card[i] = {} => S.card = R.card) /\ (w.alias[i] = {} => S.alias = R.alias)
  BY DEF Goes
<1>2. \A k \in Id : /\ p.card[k] = {} => S.card[k] = R.card[k]
                    /\ p.alias[k] = {} => S.alias[k] = R.alias[k]
  BY <1>1 DEF Within
<1>3. SameOf(S, p, R, p) BY <1>2 DEF SameOf, CardOf, AliasOf
<1>4. Within(x, p) BY <1>1 DEF Within
<1>5. SameOf(S, x, S, p) BY <1>1, <1>3 DEF SameOf
<1>6. Writes(p, i) BY <1>1 DEF Within, Writes
<1>7. \A k \in Id : ViewAt(S, p, k) = ViewAt(R, p, k) BY <1>1, <1>3, SameViews DEF IsPlan
<1>8. ASSUME NEW k \in Id, k \notin v.touches
      PROVE  ViewOf(S)[k] = v.before[k] /\ \A y \in Id : Writes(p, y) => k # y /\ S.alias[k] # y
  <2>1. /\ ViewOf(R)[k] = v.before[k]
        /\ \A y \in Id : Writes(p, y) => k # y /\ R.alias[k] # y
    BY <1>8 DEF Meant
  <2>2. k # i /\ R.alias[k] # i BY <1>6, <2>1
  <2>3. ViewOf(S)[k] = ViewOf(R)[k] BY <2>2, SendSpares
  <2>4. S.alias[k] = R.alias[k] BY <1>1, <2>2
  <2> QED BY <2>1, <2>3, <2>4
<1>9. Meant(v, S, p, ids, c) BY <1>7, <1>8 DEF Meant
<1> QED BY <1>4, <1>5, <1>9

(* A save begins with the room in use as it is read.                       *)
LEMMA PlanMeans ==
    ASSUME TInv, Final, NEW j \in Job, jobs[j].at = "loading", NEW o \in Ref, NEW b, b = BookOf(pointer.room),
           Plan(j, o, b), UNCHANGED <<pointer, rooms>>, books'[o] = b
    PROVE  Guarded(j)'
<1> DEFINE R == rooms[pointer.room]
           p == PlannedFor(j, b)
           x == PlannedJob(j, o, b)
           v == WatchedFrom(j, b)
<1>1. pointer.room \in 1..made /\ IsBook(R) BY FinalRoom
<1>2. IsBook(b) /\ b.room = pointer.room /\ b.card = R.card /\ b.alias = R.alias BY <1>1, BookIsOne DEF IsOne
<1>3. jobs'[j] = x /\ watched'[j] = v BY <1>2, PlanIs
<1>4. jobs[j].ids \in SUBSET Id /\ jobs[j].ids # {} /\ jobs[j].card \in Card BY JobIs
<1>5. /\ v.before = Reads /\ v.touches = Touched(b, jobs[j].ids) /\ v.unsure = Unsure(b) \ jobs[j].ids
  BY DEF WatchedFrom
<1>6. /\ x.at = "saving" /\ x.on = o /\ x.writes = p /\ x.plan = p /\ x.ids = jobs[j].ids /\ x.card = jobs[j].card
  BY DEF PlannedJob, JobOf
<1>7. Reads = ViewOf(R) BY DEF Reads
<1>8. \A i \in Id : ViewOf(R)[i] = ViewOf(b)[i] /\ ViewAt(R, p, i) = ViewAt(b, p, i)
  BY <1>2 DEF ViewOf, ViewAt, CardOf, AliasOf
<1>9. ASSUME NEW i \in Id
      PROVE  IF i \in jobs[j].ids THEN ViewAt(R, p, i) = jobs[j].card
             ELSE i \in v.unsure \/ ViewAt(R, p, i) = v.before[i]
  <2>1. IF i \in jobs[j].ids THEN ViewAt(b, p, i) = jobs[j].card
        ELSE i \in Unsure(b) \/ ViewAt(b, p, i) = ViewOf(b)[i]
    BY <1>2, <1>4, PlanSaveIs DEF PlannedFor
  <2> HIDE DEF p, v, R
  <2> QED BY <1>5, <1>7, <1>8, <2>1
<1>10. ASSUME NEW i \in Id, i \notin v.touches
       PROVE  ViewOf(R)[i] = v.before[i] /\ \A y \in Id : Writes(p, y) => i # y /\ R.alias[i] # y
  <2>1. i \notin Through(b, jobs[j].ids) /\ b.alias[i] \notin Through(b, jobs[j].ids)
    BY <1>5, <1>10 DEF Touched, Through
  <2>2. \A y \in Id : Writes(p, y) => y \in Through(b, jobs[j].ids) BY <1>4, PlanSaveWrites DEF PlannedFor
  <2> HIDE DEF p, v, R
  <2> QED BY <1>2, <1>5, <1>7, <2>1, <2>2
<1> HIDE DEF p, x, v
<1>11. Meant(v, R, p, jobs[j].ids, jobs[j].card) BY <1>9, <1>10 DEF Meant
<1>12. Target(j)' = pointer.room BY <1>2, <1>3, <1>6 DEF Target
<1>13. Stands(x, pointer.room, pointer.room, R, R) BY <1>6 DEF Stands, Planned, Within, SameOf
<1>14. Final' BY DEF Final
<1> QED BY <1>2, <1>3, <1>6, <1>11, <1>12, <1>13, <1>14 DEF Guarded

LEMMA LoadGuards == ASSUME TInv, NEW j \in Job, LoadHeld(j) \/ LoadRoom(j) \/ LoadNothing(j)
                    PROVE  watched'[j].alone => Guarded(j)'
<1>1. ASSUME NEW o \in Ref, NEW b, IsBook(b), jobs[j].at = "loading", Plan(j, o, b), watched'[j].alone
      PROVE  Final /\ b = BookOf(pointer.room)
  <2>1. watched'[j] = WatchedFrom(j, b) BY <1>1, PlanIs
  <2> QED BY <1>1, <2>1 DEF WatchedFrom, Unwatched
<1>2. UNCHANGED <<pointer, rooms>> /\ jobs[j].at = "loading"
  BY DEF LoadHeld, LoadRoom, LoadNothing, server
<1>3. CASE LoadHeld(j)
  <2>1. IsHeld /\ Plan(j, held, books[held]) /\ books' = books BY <1>3 DEF LoadHeld
  <2>2. held \in Ref /\ IsBook(books[held]) BY <2>1 DEF IsHeld, TInv, Counts, AreBooks, IsOne
  <2>3. PICK b : b = books[held] OBVIOUS
  <2>4. watched'[j].alone => Final /\ b = BookOf(pointer.room) BY <1>1, <1>2, <2>1, <2>2, <2>3
  <2>5. Plan(j, held, b) /\ books'[held] = b BY <2>1, <2>3
  <2> QED BY <1>2, <2>2, <2>4, <2>5, PlanMeans
<1>4. CASE LoadRoom(j) \/ LoadNothing(j)
  <2>1. PICK b : IsOne(b, made) /\ b.room \in 1..made /\ Hold(j, b) BY <1>4, LoadedIs
  <2>2. held' \in Ref /\ Plan(j, held', b) /\ books'[held'] = b BY <1>2, <2>1, HeldIs
  <2>3. PICK o : o = held' OBVIOUS
  <2>4. IsBook(b) BY <2>1 DEF IsOne
  <2>5. watched'[j].alone => Final /\ b = BookOf(pointer.room) BY <1>1, <1>2, <2>2, <2>3, <2>4
  <2> QED BY <1>2, <2>2, <2>3, <2>5, PlanMeans
<1> QED BY <1>3, <1>4

LEMMA ForbiddenGuards ==
    ASSUME TInv, NEW j \in Job, watched[j].alone => Guarded(j), NEW i \in Id, Forbidden(j, i)
    PROVE  watched'[j].alone => Guarded(j)'
<1> DEFINE b == books[jobs[j].on]
           x == jobs'[j]
<1>1. /\ jobs[j].at = "saving" /\ UNCHANGED <<pointer, rooms, watched>>
      /\ x = JobOf("recreating", jobs[j].ids, jobs[j].card, jobs[j].room, jobs[j].on, CopyPlan(b), jobs[j].plan)
      /\ books'[jobs[j].on] = b
  BY ForbiddenIs
<1> SUFFICES ASSUME Guarded(j) PROVE Guarded(j)' BY <1>1
<1>2. IsBook(b) BY <1>1, JobIs DEF Writers, Planned
<1>3. /\ x.at = "recreating" /\ x.on = jobs[j].on /\ x.writes = CopyPlan(b) /\ x.plan = jobs[j].plan
      /\ x.ids = jobs[j].ids /\ x.card = jobs[j].card
  BY <1>1 DEF JobOf
<1>4. Target(j)' = Target(j) /\ Final' = Final BY <1>1, <1>3 DEF Target, Final
<1>5. Target(j) = pointer.room BY <1>1 DEF Guarded, Stands
<1>6. SameOf(EmptyRoom, CopyPlan(b), rooms[pointer.room], NoWrites)
  <2>1. SameOf(EmptyRoom, CopyPlan(b), b, NoWrites) BY <1>2, CopyPlanSays
  <2>2. b.card = rooms[pointer.room].card /\ b.alias = rooms[pointer.room].alias BY <1>5 DEF Guarded
  <2> QED BY <2>1, <2>2 DEF SameOf, CardOf, AliasOf
<1> HIDE DEF x
<1>7. Stands(x, pointer.room, Target(j), rooms[pointer.room], rooms[Target(j)])
  BY <1>3, <1>5, <1>6 DEF Stands, Planned
<1> QED BY <1>1, <1>3, <1>4, <1>7 DEF Guarded, x

LEMMA RecreateGuards ==
    ASSUME TInv, NEW j \in Job, watched[j].alone => Guarded(j), Recreate(j) PROVE watched'[j].alone => Guarded(j)'
<1> DEFINE b == [NoBook EXCEPT !.room = made + 1]
<1>1. /\ jobs[j].at = "recreating" /\ made < MaxRooms
      /\ books' = [books EXCEPT ![jobs[j].on] = b]
      /\ jobs' = [jobs EXCEPT ![j] = [@ EXCEPT !.at = "copying"]]
      /\ UNCHANGED <<pointer, rooms>> /\ watched'[j] = watched[j]
  BY DEF Recreate, Meddle
<1> SUFFICES ASSUME Guarded(j) PROVE Guarded(j)' BY <1>1
<1>2. /\ jobs[j].on \in Ref /\ jobs = [k \in Job |-> jobs[k]]
      /\ jobs[j] = JobOf(jobs[j].at, jobs[j].ids, jobs[j].card, jobs[j].room, jobs[j].on, jobs[j].writes, jobs[j].plan)
  BY <1>1, JobIs DEF Writers, Planned
<1>3. b.room = made + 1 /\ b.card = NoCards /\ b.alias = NoCards BY DEF NoBook
<1> HIDE DEF b
<1>4. books'[jobs[j].on] = b BY <1>1, <1>2 DEF TInv, AreBooks
<1> DEFINE x == [jobs[j] EXCEPT !.at = "copying"]
<1>5. x = JobOf("copying", jobs[j].ids, jobs[j].card, jobs[j].room, jobs[j].on, jobs[j].writes, jobs[j].plan)
  BY <1>2 DEF JobOf
<1> HIDE DEF x
<1>6. jobs'[j] = x BY <1>1, <1>2 DEF x
<1>7. /\ x.at = "copying" /\ x.on = jobs[j].on /\ x.writes = jobs[j].writes /\ x.plan = jobs[j].plan
      /\ x.ids = jobs[j].ids /\ x.card = jobs[j].card
  BY <1>5 DEF JobOf
<1>8. Target(j)' = made + 1 /\ Final' = Final BY <1>1, <1>3, <1>4, <1>6, <1>7 DEF Target, Final
<1>9. rooms[made + 1] = EmptyRoom /\ made \in Nat BY <1>1, OneMore
<1>10. made + 1 # pointer.room
  <2>1. Final BY DEF Guarded
  <2>2. pointer.room \in 1..made BY <2>1, FinalRoom
  <2> QED BY <1>9, <2>2
<1>11. SameOf(EmptyRoom, jobs[j].writes, rooms[pointer.room], NoWrites) BY <1>1 DEF Guarded, Stands
<1>12. Stands(x, pointer.room, made + 1, rooms[pointer.room], EmptyRoom)
  BY <1>7, <1>10, <1>11 DEF Stands, Planned
<1>13. EmptyRoom.card = NoCards /\ EmptyRoom.alias = NoCards BY DEF EmptyRoom
<1> QED BY <1>1, <1>3, <1>4, <1>6, <1>7, <1>8, <1>9, <1>12, <1>13 DEF Guarded

LEMMA CopiedGuards ==
    ASSUME TInv, NEW j \in Job, watched[j].alone => Guarded(j), Copied(j) PROVE watched'[j].alone => Guarded(j)'
<1>1. /\ jobs[j].at = "copying" /\ jobs[j].writes = NoWrites
      /\ jobs' = [jobs EXCEPT ![j] = [@ EXCEPT !.at = "repointing"]]
      /\ UNCHANGED <<pointer, rooms, books, watched>>
  BY DEF Copied, server, ghosts
<1> SUFFICES ASSUME Guarded(j) PROVE Guarded(j)' BY <1>1
<1>2. /\ jobs = [k \in Job |-> jobs[k]]
      /\ jobs[j] = JobOf(jobs[j].at, jobs[j].ids, jobs[j].card, jobs[j].room, jobs[j].on, jobs[j].writes, jobs[j].plan)
  BY JobIs
<1> DEFINE x == [jobs[j] EXCEPT !.at = "repointing"]
<1>3. x = JobOf("repointing", jobs[j].ids, jobs[j].card, jobs[j].room, jobs[j].on, jobs[j].writes, jobs[j].plan)
  BY <1>2 DEF JobOf
<1> HIDE DEF x
<1>4. jobs'[j] = x BY <1>1, <1>2 DEF x
<1>5. /\ x.at = "repointing" /\ x.on = jobs[j].on /\ x.writes = jobs[j].writes /\ x.plan = jobs[j].plan
      /\ x.ids = jobs[j].ids /\ x.card = jobs[j].card
  BY <1>3 DEF JobOf
<1>6. Target(j)' = Target(j) /\ Final' = Final BY <1>1, <1>4, <1>5 DEF Target, Final
<1>7. Stands(x, pointer.room, Target(j), rooms[pointer.room], rooms[Target(j)])
  BY <1>1, <1>5 DEF Guarded, Stands, Planned
<1> QED BY <1>1, <1>4, <1>5, <1>6, <1>7 DEF Guarded

LEMMA RepointGuards ==
    ASSUME TInv, NEW j \in Job, watched[j].alone => Guarded(j), Repoint(j) PROVE watched'[j].alone => Guarded(j)'
<1> DEFINE x == JobOf("resending", jobs[j].ids, jobs[j].card, jobs[j].room, jobs[j].on, jobs[j].plan, jobs[j].plan)
           R == rooms[pointer.room]
           T == rooms[Target(j)]
<1>1. /\ jobs[j].at = "repointing"
      /\ pointer' = [room |-> Target(j), pending |-> FALSE, moved |-> pointer.moved]
      /\ jobs' = [jobs EXCEPT ![j] = x] /\ UNCHANGED <<rooms, books>> /\ Meddle(j)
  BY RepointIs
<1>2. watched'[j] = watched[j] BY <1>1 DEF Meddle
<1> SUFFICES ASSUME Guarded(j) PROVE Guarded(j)' BY <1>2
<1>3. jobs = [k \in Job |-> jobs[k]] /\ Target(j) \in 1..made /\ IsBook(T) BY <1>1, JobIs DEF Writers, Planned
<1>4. IsBook(R) BY FinalRoom DEF Guarded
<1>5. /\ x.at = "resending" /\ x.on = jobs[j].on /\ x.writes = jobs[j].plan /\ x.plan = jobs[j].plan
      /\ x.ids = jobs[j].ids /\ x.card = jobs[j].card
  BY DEF JobOf
<1> HIDE DEF x
<1>6. jobs'[j] = x BY <1>1, <1>3
<1>7. Target(j)' = Target(j) BY <1>1, <1>5, <1>6 DEF Target
<1>8. Final' /\ pointer'.room = Target(j)
  <2>1. Target(j) # 0 BY <1>3 DEF TInv, Counts
  <2> QED BY <1>1, <2>1 DEF Final
<1>9. T.card = R.card /\ T.alias = R.alias
  <2>1. SameOf(T, NoWrites, R, NoWrites) BY <1>1 DEF Guarded, Stands
  <2> QED BY <1>3, <1>4, <2>1, SameContents
<1>10. Meant(watched[j], R, jobs[j].plan, jobs[j].ids, jobs[j].card) BY DEF Guarded
<1>11. Meant(watched[j], T, jobs[j].plan, jobs[j].ids, jobs[j].card)
  <2> HIDE DEF R, T
  <2> QED BY <1>3, <1>4, <1>9, <1>10, MeantStays
<1>12. Stands(x, Target(j), Target(j), T, T) BY <1>5 DEF Stands, Planned, Within, SameOf
<1> QED BY <1>1, <1>2, <1>5, <1>6, <1>7, <1>8, <1>11, <1>12 DEF Guarded

LEMMA JobSendGuards ==
    ASSUME TInv, NEW j \in Job, watched[j].alone => Guarded(j), NEW i \in Id, JobSends(j, i)
    PROVE  watched'[j].alone => Guarded(j)'
<1> DEFINE R == rooms[pointer.room]
           T == rooms[Target(j)]
           S == rooms'[Target(j)]
           w == jobs[j].writes
           x == jobs'[j]
<1>1. /\ jobs[j].at \in Sending /\ jobs[j].on \in Ref /\ Target(j) \in 1..made
      /\ UNCHANGED pointer /\ Meddle(j)
      /\ \A q \in Room \ {Target(j)} : rooms'[q] = rooms[q]
      /\ books'[jobs[j].on].room = Target(j)
      /\ Goes(T, w, i, x.writes, S)
      /\ books[jobs[j].on].card = T.card /\ books[jobs[j].on].alias = T.alias
            => books'[jobs[j].on].card = S.card /\ books'[jobs[j].on].alias = S.alias
      /\ x = JobOf(jobs[j].at, jobs[j].ids, jobs[j].card, jobs[j].room, jobs[j].on, x.writes, jobs[j].plan)
  BY JobSendIs
<1>2. watched'[j] = watched[j] BY <1>1 DEF Meddle
<1> SUFFICES ASSUME Guarded(j) PROVE Guarded(j)' BY <1>2
<1>3. IsPlan(jobs[j].plan) BY JobIs
<1>4. Final /\ pointer.room \in Room /\ IsBook(R) BY FinalRoom DEF Guarded
<1>5. /\ x.at = jobs[j].at /\ x.on = jobs[j].on /\ x.plan = jobs[j].plan
      /\ x.ids = jobs[j].ids /\ x.card = jobs[j].card
  BY <1>1 DEF JobOf
<1>6. Target(j)' = Target(j) /\ Final' BY <1>1, <1>4, <1>5 DEF Target, Final
<1>7. books'[jobs[j].on].card = S.card /\ books'[jobs[j].on].alias = S.alias BY <1>1 DEF Guarded
<1>8. Meant(watched[j], R, jobs[j].plan, jobs[j].ids, jobs[j].card) BY DEF Guarded
<1>9. CASE jobs[j].at \in {"saving", "resending"}
  <2>1. Target(j) = pointer.room /\ Within(w, jobs[j].plan) /\ SameOf(R, w, R, jobs[j].plan)
    BY <1>9 DEF Guarded, Stands
  <2>2. Goes(R, w, i, x.writes, S) BY <1>1, <2>1
  <2>3. /\ Meant(watched[j], S, jobs[j].plan, jobs[j].ids, jobs[j].card)
        /\ Within(x.writes, jobs[j].plan) /\ SameOf(S, x.writes, S, jobs[j].plan)
    <3> HIDE DEF R, S, w, x
    <3> QED BY <1>3, <1>4, <1>8, <2>1, <2>2, SendMeans
  <2> HIDE DEF x
  <2>4. Stands(x, pointer.room, pointer.room, S, S) BY <1>5, <1>9, <2>3 DEF Stands, Planned
  <2> QED BY <1>1, <1>2, <1>5, <1>6, <1>7, <2>1, <2>3, <2>4 DEF Guarded, x
<1>10. CASE jobs[j].at = "copying"
  <2>1. Target(j) # pointer.room /\ SameOf(T, w, R, NoWrites) BY <1>10 DEF Guarded, Stands
  <2>2. rooms'[pointer.room] = R BY <1>1, <1>4, <2>1
  <2>3. SameOf(S, x.writes, T, w) BY <1>1 DEF Goes
  <2>4. SameOf(S, x.writes, R, NoWrites) BY <2>1, <2>3 DEF SameOf
  <2> HIDE DEF x
  <2>5. Stands(x, pointer.room, Target(j), R, S) BY <1>5, <1>10, <2>1, <2>4 DEF Stands, Planned
  <2> QED BY <1>1, <1>2, <1>5, <1>6, <1>7, <1>8, <2>2, <2>5 DEF Guarded, x
<1>11. jobs[j].at \in {"saving", "resending", "copying"} BY <1>1 DEF Guarded, Stands, Sending, Planned
<1> QED BY <1>9, <1>10, <1>11

(* What a save does to another.                                            *)
LEMMA OthersAreLeft ==
    ASSUME TInv, NEW j \in Job, SaveSteps(j) \/ JobFails(j), NEW k \in Job, k # j
    PROVE  Leaves(k)
<1> USE DEF Leaves
<1>0. /\ jobs = [x \in Job |-> jobs[x]] /\ watched = [x \in Job |-> watched[x]]
  BY DEF TInv, AreJobs, Counts
<1>1. CASE Meddle(j) BY <1>1, NobodyIsAlone DEF Meddle
<1>2. CASE Announce(j) \/ Recreate(j) \/ Repoint(j) \/ \E i \in Id : JobCard(j, i) \/ JobAlias(j, i)
  BY <1>1, <1>2 DEF Announce, Recreate, Repoint, JobCard, JobAlias
<1>3. CASE Found(j)
  <2>1. UNCHANGED <<pointer, rooms, books, watched>> BY <1>3 DEF Found, ghosts
  <2>2. jobs'[k] = jobs[k] BY <1>0, <1>3 DEF Found
  <2> QED BY <2>1, <2>2
<1>4. CASE LoadHeld(j)
  <2>1. /\ IsHeld /\ Plan(j, held, books[held]) /\ jobs[j].at = "loading"
        /\ UNCHANGED <<pointer, rooms, books>>
    BY <1>4 DEF LoadHeld, server
  <2>2. held \in Ref /\ IsBook(books[held]) BY <2>1 DEF IsHeld, TInv, Counts, AreBooks, IsOne
  <2>3. jobs'[k] = jobs[k] /\ watched'[k] = watched[k] BY <2>1, <2>2, PlanIs
  <2> QED BY <2>1, <2>3
<1>5. CASE LoadRoom(j) \/ LoadNothing(j)
  <2>1. UNCHANGED <<pointer, rooms>> /\ jobs[j].at = "loading" BY <1>5, LoadedIs
  <2>2. PICK b : IsOne(b, made) /\ b.room \in 1..made /\ Hold(j, b) BY <1>5, LoadedIs
  <2>3. /\ held' \in Ref /\ Plan(j, held', b)
        /\ jobs[k].at \in Writers => books'[jobs[k].on] = books[jobs[k].on]
    BY <2>1, <2>2, HeldIs
  <2>4. IsBook(b) BY <2>2 DEF IsOne
  <2>5. jobs'[k] = jobs[k] /\ watched'[k] = watched[k] BY <2>1, <2>3, <2>4, PlanIs
  <2> QED BY <2>1, <2>3, <2>5 DEF Writers
<1>6. CASE Saved(j) \/ JobFails(j)
  <2>1. Ended(j) /\ UNCHANGED <<pointer, rooms>> BY <1>6 DEF Saved, JobFails, server
  <2>2. /\ watched' = [watched EXCEPT ![j] = Unwatched] /\ jobs'[k] = jobs[k]
        /\ jobs[k].at \in Writers => books'[jobs[k].on] = books[jobs[k].on]
    BY <2>1, EndedIs
  <2>3. watched'[k] = watched[k] BY <1>0, <2>2
  <2> QED BY <2>1, <2>2, <2>3 DEF Writers
<1>7. CASE Copied(j)
  <2>1. UNCHANGED <<pointer, rooms, books, watched>> BY <1>7 DEF Copied, server, ghosts
  <2>2. jobs'[k] = jobs[k] BY <1>0, <1>7 DEF Copied
  <2> QED BY <2>1, <2>2
<1>8. ASSUME NEW i \in Id, Forbidden(j, i) PROVE Leaves(k)
  <2>1. /\ UNCHANGED <<pointer, rooms, watched>>
        /\ jobs[k].at \in Writers => jobs'[k] = jobs[k] /\ books'[jobs[k].on] = books[jobs[k].on]
    BY <1>8, ForbiddenIs
  <2> QED BY <2>1 DEF Writers
<1>9. ASSUME NEW i \in Id, JobSendFails(j, i) PROVE Leaves(k)
  <2>1. /\ UNCHANGED pointer
        /\ \/ UNCHANGED <<rooms, meddled, checked>> /\ watched' = [watched EXCEPT ![j] = Unwatched]
           \/ meddled' = TRUE /\ checked' = FALSE /\ watched' = [x \in Job |-> Unwatched]
        /\ jobs[k].at \in Writers => jobs'[k] = jobs[k] /\ books'[jobs[k].on] = books[jobs[k].on]
    BY <1>9, JobSendFailsIs
  <2>2. CASE watched' = [x \in Job |-> Unwatched] BY <2>2, NobodyIsAlone
  <2>3. CASE UNCHANGED rooms /\ watched' = [watched EXCEPT ![j] = Unwatched]
    <3>1. watched'[k] = watched[k] BY <1>0, <2>3
    <3> QED BY <2>1, <2>3, <3>1 DEF Writers
  <2> QED BY <2>1, <2>2, <2>3
<1> QED BY <1>2, <1>3, <1>4, <1>5, <1>6, <1>7, <1>8, <1>9 DEF SaveSteps

LEMMA SavesGuard ==
    ASSUME TInv, NEW j \in Job, watched[j].alone => Guarded(j), SaveSteps(j) \/ JobFails(j)
    PROVE  watched'[j].alone => Guarded(j)'
<1>0. watched = [x \in Job |-> watched[x]] BY DEF TInv, Counts
<1>1. ASSUME watched'[j] = Unwatched PROVE watched'[j].alone => Guarded(j)'
  BY <1>1 DEF Unwatched
<1>2. ASSUME jobs[j].at \notin Planned, watched'[j] = watched[j] PROVE watched'[j].alone => Guarded(j)'
  BY <1>2 DEF Guarded, Stands
<1>3. CASE Found(j) BY <1>2, <1>3 DEF Found, ghosts, Planned
<1>4. CASE Announce(j) BY <1>2, <1>4 DEF Announce, Meddle, Planned
<1>5. CASE Saved(j) \/ JobFails(j) BY <1>0, <1>1, <1>5 DEF Saved, JobFails, Ended
<1>6. ASSUME NEW i \in Id, JobSendFails(j, i) PROVE watched'[j].alone => Guarded(j)'
  BY <1>0, <1>1, <1>6, JobSendFailsIs
<1>7. ASSUME NEW i \in Id, JobCard(j, i) \/ JobAlias(j, i) PROVE watched'[j].alone => Guarded(j)'
  BY <1>7, JobSendGuards DEF JobSends
<1> QED BY <1>3, <1>4, <1>5, <1>6, <1>7, LoadGuards, ForbiddenGuards, RecreateGuards, CopiedGuards, RepointGuards
        DEF SaveSteps

(* What all else does to a save.                                           *)
LEMMA MoveLeaves ==
    ASSUME TInv, NEW k \in Job, MoveWhenReady \/ MoveSteps \/ Fail \/ \E i \in Id : SendFails(i)
    PROVE  Leaves(k)
<1> USE DEF Leaves
<1>1. CASE MoveMeddles BY <1>1, NobodyIsAlone DEF MoveMeddles
<1>2. CASE WritePointer \/ \E i \in Id : SendCard(i) \/ SendAlias(i)
  BY <1>1, <1>2 DEF WritePointer, SendCard, SendAlias
<1>3. CASE UNCHANGED <<pointer, rooms, books, watched>> /\ (jobs[k].at \in Planned => jobs'[k] = jobs[k])
  BY <1>3
<1>4. CASE MoveWhenReady \/ MakeRoom \/ ReadRoom \/ Sent \/ EmptyCards
  BY <1>3, <1>4 DEF MoveWhenReady, MakeRoom, ReadRoom, Sent, EmptyCards, server, shared, ghosts
<1>5. /\ jobs[k].at \in Planned => Resumed[k] = jobs[k] /\ Rejected[k] = jobs[k]
  BY DEF Resumed, Rejected, Planned
<1>6. CASE Verify \/ EmptyPast \/ Fail
  <2>1. UNCHANGED <<pointer, rooms, books, watched>> BY <1>6 DEF Verify, EmptyPast, Fail, server, ghosts
  <2>2. jobs' = jobs \/ jobs' = Resumed \/ jobs' = Rejected BY <1>6 DEF Verify, EmptyPast, Fail
  <2> QED BY <1>3, <1>5, <2>1, <2>2
<1>7. ASSUME NEW i \in Id, SendFails(i) PROVE Leaves(k)
  BY <1>7, SendFailsIs DEF Writers
<1> QED BY <1>2, <1>4, <1>6, <1>7 DEF MoveSteps

LEMMA NextKeepsWInv == ASSUME TInv, WInv, [Next]_vars PROVE WInv'
<1> SUFFICES ASSUME NEW k \in Job PROVE watched'[k].alone => Guarded(k)' BY DEF WInv
<1>1. watched[k].alone => Guarded(k) BY DEF WInv
<1>2. CASE Leaves(k) BY <1>1, <1>2, GuardStays
<1>3. ASSUME NEW j \in Job, SaveSteps(j) \/ JobFails(j) PROVE watched'[k].alone => Guarded(k)'
  <2>1. CASE k = j BY <1>1, <1>3, <2>1, SavesGuard
  <2>2. CASE k # j BY <1>2, <1>3, <2>2, OthersAreLeft
  <2> QED BY <2>1, <2>2
<1>4. CASE MoveWhenReady \/ MoveSteps \/ Fail \/ \E i \in Id : SendFails(i) BY <1>2, <1>4, MoveLeaves
<1>5. CASE UNCHANGED <<pointer, rooms, jobs, books, watched>> BY <1>2, <1>5 DEF Leaves
<1>6. CASE UNCHANGED vars \/ Open BY <1>5, <1>6 DEF vars, Open, server, shared, ghosts
<1>7. CASE Look BY <1>2, <1>7, LookIs DEF Leaves, Writers
<1>8. CASE Crash \/ Close
  <2>1. watched'[k] = Unwatched BY <1>8 DEF Crash, Close, Closed
  <2> QED BY <1>2, <2>1, NobodyIsAlone
<1>9. ASSUME NEW ids \in SUBSET Id, NEW c \in Card, OldSave(ids, c) PROVE watched'[k].alone => Guarded(k)'
  BY <1>5, <1>9 DEF OldSave, shared, ghosts
<1>10. ASSUME NEW ids \in SUBSET Id, NEW c \in Card, NEW j \in Job, Ask(j, ids, c)
       PROVE  watched'[k].alone => Guarded(k)'
  <2>1. jobs[j].at = "free" /\ UNCHANGED <<pointer, rooms, books, watched>> BY <1>10 DEF Ask, server
  <2>2. jobs = [x \in Job |-> jobs[x]] BY DEF TInv, AreJobs
  <2>3. k # j => jobs'[k] = jobs[k] BY <1>10, <2>2 DEF Ask
  <2>4. jobs[j].at \notin Planned BY <2>1 DEF Planned
  <2> QED BY <1>2, <2>1, <2>3, <2>4 DEF Leaves
<1>11. ASSUME NEW r \in Room, Leave(r) PROVE watched'[k].alone => Guarded(k)'
  BY <1>5, <1>11 DEF Leave, shared, ghosts
<1> QED BY <1>3, <1>4, <1>6, <1>7, <1>8, <1>9, <1>10, <1>11 DEF Next

LEMMA WInvHolds == Spec => [](TInv /\ WInv)
<1>1. Init => WInv BY DEF Init, WInv, Unwatched
<1> QED BY <1>1, InitIsTInv, NextKeepsTInv, NextKeepsWInv, PTL DEF Spec

(* A save that alone writes leaves the contacts that share nothing with    *)
(* its own as they read, wherever it is and wherever it is cut off, also   *)
(* while the room is copied and when the copy becomes the room in use.     *)
THEOREM SavesLeaveTheRest == Spec => []SavesKeepTheRest
<1>1. WInv => SavesKeepTheRest
  <2> SUFFICES ASSUME WInv, NEW j \in Job, watched[j].alone, NEW i \in Id \ watched[j].touches
               PROVE  Reads[i] = watched[j].before[i]
    BY DEF SavesKeepTheRest
  <2>1. Guarded(j) BY DEF WInv
  <2> QED BY <2>1 DEF Guarded, Meant, Reads
<1> QED BY <1>1, WInvHolds, PTL

(* When it has sent all, its ids read what was asked for, and all others   *)
(* but the unsure ones what they read before.                              *)
THEOREM SavesSayIt == Spec => []SavesSayWhatIsAsked
<1>1. TInv /\ WInv => SavesSayWhatIsAsked
  <2> SUFFICES ASSUME TInv, WInv, NEW j \in Job, watched[j].alone, jobs[j].at \in {"saving", "resending"},
                      jobs[j].writes = NoWrites, NEW i \in Id
               PROVE  IF i \in jobs[j].ids THEN Reads[i] = jobs[j].card
                      ELSE i \in watched[j].unsure \/ Reads[i] = watched[j].before[i]
    BY DEF SavesSayWhatIsAsked
  <2> DEFINE R == rooms[pointer.room]
             p == jobs[j].plan
  <2>1. Guarded(j) BY DEF WInv
  <2>2. IsBook(R) BY <2>1, FinalRoom DEF Guarded
  <2>3. SameOf(R, NoWrites, R, p) BY <2>1 DEF Guarded, Stands
  <2>4. IsPlan(p) /\ IsPlan(NoWrites) BY JobIs, NoWritesIsPlan
  <2>5. ViewAt(R, NoWrites, i) = ViewAt(R, p, i)
    <3> HIDE DEF R, p
    <3> QED BY <2>2, <2>3, <2>4, SameViews DEF IsPlan
  <2>6. ViewAt(R, NoWrites, i) = Reads[i] BY <2>1, <2>2, NothingSays DEF Guarded, Reads
  <2> QED BY <2>1, <2>5, <2>6 DEF Guarded, Meant
<1> QED BY <1>1, WInvHolds, PTL
=============================================================================

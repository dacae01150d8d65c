------------------------ MODULE RoomListStoreProofs ------------------------
(***************************************************************************)
(* The room list, whatever the rooms, the ranks and the tosses: its skip   *)
(* list stays one, and it lists what we have joined.                       *)
(***************************************************************************)
EXTENDS RoomListStore, RoomSkipListProofs

USE NoneAssumption, LevelAssumption, RoomAssumption

----------------------------------------------------------------------------
(* removeRoom for each of a set of rooms                                   *)

KeptLists == {m \in Shapes : Kept(m)}

LEMMA RemoveRoomStays ==
    ASSUME NEW m \in KeptLists, NEW x \in Room
    PROVE  RemoveRoom(m, x) \in KeptLists /\ RemoveRoom(m, x).nodes = m.nodes \ {x}
<1>1. Kept(m) BY DEF KeptLists
<1>2. Kept(RemoveRoom(m, x)) /\ RemoveRoom(m, x).nodes = m.nodes \ {x} BY <1>1, RemoveRoomKeeps
<1>3. RemoveRoom(m, x) \in Shapes BY <1>2 DEF Kept, IsKept
<1> QED BY <1>2, <1>3 DEF KeptLists

LEMMA RemoveAllIs ==
    ASSUME NEW l, Kept(l), NEW S \in SUBSET Room
    PROVE  Kept(RemoveAll(l, S)) /\ RemoveAll(l, S).nodes = l.nodes \ S
<1> DEFINE n == Cardinality(S)
           One(s) == CHOOSE x \in s : TRUE
           Step(G) == [s \in SUBSET S |-> IF s = {} THEN l ELSE RemoveRoom(G[s \ {One(s)}], One(s))]
           V == [SUBSET S -> KeptLists]
           F == [p \in (1..(n + 1)) \X V |-> Step(p[2])]
           v == [s \in SUBSET S |-> l]
           Is(f) == f = Step(f)
           g == CHOOSE f : Is(f)
<1>1. IsFiniteSet(S) /\ n \in Nat BY FS_Subset, FS_CardinalityType
<1>2. l \in KeptLists BY DEF KeptLists, Kept, IsKept
<1>3. \A s \in SUBSET S : s # {} =>
         /\ One(s) \in Room /\ One(s) \in s /\ s \ {One(s)} \in SUBSET S
         /\ Cardinality(s \ {One(s)}) = Cardinality(s) - 1
  <2>1. TAKE s \in SUBSET S
  <2>2. HAVE s # {}
  <2>3. One(s) \in s BY <2>2
  <2>4. IsFiniteSet(s) BY <1>1, FS_Subset
  <2> HIDE DEF One
  <2>5. Cardinality(s \ {One(s)}) = Cardinality(s) - 1 BY <2>3, <2>4, FS_RemoveElement
  <2> QED BY <2>3, <2>5
<1>4. \A s \in SUBSET S : Cardinality(s) \in Nat /\ Cardinality(s) <= n /\ (Cardinality(s) = 0 <=> s = {})
  <2>1. TAKE s \in SUBSET S
  <2>2. IsFiniteSet(s) /\ Cardinality(s) <= n BY <1>1, FS_Subset
  <2> QED BY <2>2, FS_CardinalityType, FS_EmptySet
<1> HIDE DEF One, n
<1>5. \A G \in V : Step(G) \in V
  <2>1. TAKE G \in V
  <2>2. \A s \in SUBSET S : s # {} => RemoveRoom(G[s \ {One(s)}], One(s)) \in KeptLists
    BY <1>3, RemoveRoomStays
  <2> QED BY <1>2, <2>2
<1> HIDE DEF Step
<1>6. Does(F, 1..(n + 1), V)
  <2> HIDE DEF V
  <2>1. \A p \in (1..(n + 1)) \X V : Step(p[2]) \in V BY <1>5
  <2> QED BY <2>1 DEF Does
<1>7. \A k \in 1..(n + 1), G \in V : F[<<k, G>>] = Step(G) OBVIOUS
<1>8. v \in V /\ n + 1 \in Nat BY <1>1, <1>2
<1> HIDE DEF F
<1>9. PICK f : /\ f \in [0..(n + 1) -> V] /\ f[0] = v
               /\ \A k \in 1..(n + 1) : f[k] = F[<<k, f[k - 1]>>]
  <2> HIDE DEF V, v
  <2>1. PICK c : c = n + 1 OBVIOUS
  <2>2. \E f : Iteration(f, c, V, v, F) BY <1>6, <1>8, <2>1, Iterates
  <2> QED BY <2>1, <2>2 DEF Iteration
<1>10. \A k \in 1..(n + 1) : f[k] = Step(f[k - 1])
  <2>1. TAKE k \in 1..(n + 1)
  <2>2. k - 1 \in 0..(n + 1) BY <1>1
  <2> HIDE DEF V
  <2>3. f[k - 1] \in V BY <1>9, <2>2
  <2>4. F[<<k, f[k - 1]>>] = Step(f[k - 1]) BY <1>7, <2>3
  <2> QED BY <1>9, <2>4
<1>11. /\ \A G : Step(G)[{}] = l
       /\ \A G : \A s \in SUBSET S : s # {} => Step(G)[s] = RemoveRoom(G[s \ {One(s)}], One(s))
  BY DEF Step
<1> DEFINE T == {k \in 0..n : \A s \in SUBSET S : Cardinality(s) <= k => f[k + 1][s] = f[k][s]}
<1>12. 0 \in T
  <2>1. ASSUME NEW s \in SUBSET S, Cardinality(s) <= 0 PROVE f[0 + 1][s] = f[0][s]
    <3>1. s = {} BY <1>4, <2>1
    <3>2. f[0 + 1] = Step(f[0]) BY <1>1, <1>10
    <3>3. f[0][s] = l BY <1>9, <3>1
    <3> QED BY <1>11, <3>1, <3>2, <3>3
  <2> QED BY <1>1, <2>1
<1>13. ASSUME NEW k \in 1..n, k - 1 \in T PROVE k \in T
  <2>1. k + 1 \in 1..(n + 1) /\ k \in 1..(n + 1) /\ (k + 1) - 1 = k /\ (k - 1) + 1 = k /\ k \in 0..n
    BY <1>1
  <2>2. f[k + 1] = Step(f[k]) /\ f[k] = Step(f[k - 1])
    <3>1. f[k + 1] = Step(f[(k + 1) - 1]) BY <1>10, <2>1
    <3> QED BY <1>10, <2>1, <3>1
  <2>3. ASSUME NEW s \in SUBSET S, Cardinality(s) <= k PROVE f[k + 1][s] = f[k][s]
    <3>1. CASE s = {} BY <1>11, <2>2, <3>1
    <3>2. CASE s # {}
      <4>1. PICK r : r = s \ {One(s)} OBVIOUS
      <4>2. r \in SUBSET S /\ Cardinality(r) <= k - 1 BY <1>3, <1>4, <2>3, <3>2, <4>1
      <4>3. f[(k - 1) + 1][r] = f[k - 1][r] BY <1>13, <4>2
      <4>4. f[k][r] = f[k - 1][r] BY <2>1, <4>3
      <4>5. f[k + 1][s] = RemoveRoom(f[k][r], One(s)) /\ f[k][s] = RemoveRoom(f[k - 1][r], One(s))
        <5>1. PICK a, b : a = f[k] /\ b = f[k - 1] OBVIOUS
        <5>2. f[k + 1] = Step(a) /\ a = Step(b) BY <2>2, <5>1
        <5>3. Step(a)[s] = RemoveRoom(a[r], One(s)) /\ Step(b)[s] = RemoveRoom(b[r], One(s))
          BY <1>11, <3>2, <4>1
        <5> QED BY <5>1, <5>2, <5>3
      <4> QED BY <4>4, <4>5
    <3> QED BY <3>1, <3>2
  <2> QED BY <2>1, <2>3
<1> HIDE DEF T
<1>14. n \in T
  <2>1. 0..n \subseteq T BY <1>1, <1>12, <1>13, StepsUp
  <2> QED BY <1>1, <2>1
<1>15. \E w : Is(w)
  <2>1. n \in 0..(n + 1) /\ n + 1 \in 1..(n + 1) /\ n + 1 \in 0..(n + 1) /\ (n + 1) - 1 = n BY <1>1
  <2>2. PICK a, b : a = f[n] /\ b = f[n + 1] OBVIOUS
  <2>3. a \in V /\ b \in V BY <1>9, <2>1, <2>2
  <2>4. \A s \in SUBSET S : b[s] = a[s] BY <1>4, <1>14, <2>2 DEF T
  <2>5. a = b BY <2>3, <2>4
  <2>6. b = Step(a) BY <1>10, <2>1, <2>2
  <2> QED BY <2>5, <2>6
<1>16. Is(g)
  <2> HIDE DEF Is
  <2> QED BY <1>15
<1>17. RemoveAll(l, S) = g[S]
  BY DEF RemoveAll, FoldSet, MapThenFoldSet, Step, One
<1> HIDE DEF g
<1> DEFINE Good(s) == Kept(g[s]) /\ g[s].nodes = l.nodes \ s
           U == {k \in 0..n : \A s \in SUBSET S : Cardinality(s) <= k => Good(s)}
<1>18. g[{}] = l /\ \A s \in SUBSET S : s # {} => g[s] = RemoveRoom(g[s \ {One(s)}], One(s))
  <2>1. g = Step(g) BY <1>16
  <2>2. PICK w : w = g OBVIOUS
  <2>3. w = Step(w) BY <2>1, <2>2
  <2>4. w[{}] = l BY <1>11, <2>3
  <2>5. \A s \in SUBSET S : s # {} => w[s] = RemoveRoom(w[s \ {One(s)}], One(s)) BY <1>11, <2>3
  <2> QED BY <2>2, <2>4, <2>5
<1>19. 0 \in U
  <2>1. ASSUME NEW s \in SUBSET S, Cardinality(s) <= 0 PROVE Good(s)
    <3>1. s = {} BY <1>4, <2>1
    <3> QED BY <1>18, <3>1
  <2> QED BY <1>1, <2>1
<1>20. ASSUME NEW k \in 1..n, k - 1 \in U PROVE k \in U
  <2>1. ASSUME NEW s \in SUBSET S, Cardinality(s) <= k PROVE Good(s)
    <3>1. CASE s = {} BY <1>18, <3>1
    <3>2. CASE s # {}
      <4>1. PICK x, r : x = One(s) /\ r = s \ {x} OBVIOUS
      <4>2. x \in Room /\ x \in s /\ r \in SUBSET S /\ Cardinality(r) <= k - 1
        BY <1>3, <1>4, <2>1, <3>2, <4>1
      <4>3. PICK m : m = g[r] OBVIOUS
      <4>4. Kept(m) /\ m.nodes = l.nodes \ r BY <1>20, <4>2, <4>3
      <4>5. g[s] = RemoveRoom(m, x) BY <1>18, <3>2, <4>1, <4>3
      <4>6. Kept(RemoveRoom(m, x)) /\ RemoveRoom(m, x).nodes = m.nodes \ {x}
        BY <4>2, <4>4, RemoveRoomKeeps
      <4>7. (l.nodes \ r) \ {x} = l.nodes \ s BY <4>1, <4>2
      <4> QED BY <4>4, <4>5, <4>6, <4>7
    <3> QED BY <3>1, <3>2
  <2>2. k \in 0..n BY <1>1
  <2> QED BY <2>1, <2>2
<1> HIDE DEF U, Good
<1>21. n \in U
  <2>1. 0..n \subseteq U BY <1>1, <1>19, <1>20, StepsUp
  <2> QED BY <1>1, <2>1
<1>22. Good(S)
  <2>1. S \in SUBSET S /\ Cardinality(S) <= n BY <1>1 DEF n
  <2> QED BY <1>21, <2>1 DEF U
<1> QED BY <1>17, <1>22 DEF Good

----------------------------------------------------------------------------
(* What is found going back from a room.                                   *)

LEMMA PredecessorsAre ==
    ASSUME NEW r \in Room
    PROVE  /\ Predecessors(r) \in SUBSET Room
           /\ Predecessor[r] # None => Predecessor[r] \in Predecessors(r)
           /\ \A x \in Predecessors(r) : \E s \in Room : Predecessor[s] = x
<1> DEFINE n == Cardinality(Room)
           Step(B) == [x \in Room |-> IF Predecessor[x] = None THEN {}
                                      ELSE {Predecessor[x]} \cup B[Predecessor[x]]]
           V == [Room -> SUBSET Room]
           v == [x \in Room |-> {}]
           F == [p \in (1..n) \X V |-> Step(p[2])]
           Back(f, k) == [x \in Room |-> IF k = 0 \/ Predecessor[x] = None THEN {}
                                          ELSE {Predecessor[x]} \cup f[k - 1][Predecessor[x]]]
           Is(f) == f = [k \in 0..n |-> Back(f, k)]
           g == CHOOSE f : Is(f)
<1>1. n \in Nat BY FS_CardinalityType
<1>2. n # 0 BY FS_EmptySet
<1>3. \A x \in Room : Predecessor[x] \in Room \cup {None} BY StoreAssumption
<1>4. \A B \in V : Step(B) \in V BY <1>3
<1> HIDE DEF n
<1>5. Does(F, 1..n, V)
  <2> HIDE DEF V, Step
  <2>1. \A p \in (1..n) \X V : Step(p[2]) \in V BY <1>4
  <2> QED BY <2>1 DEF Does
<1>6. \A k \in 1..n, B \in V : F[<<k, B>>] = Step(B) OBVIOUS
<1>7. v \in V OBVIOUS
<1> HIDE DEF F
<1>8. PICK f : f \in [0..n -> V] /\ f[0] = v /\ \A k \in 1..n : f[k] = F[<<k, f[k - 1]>>]
  <2> HIDE DEF V, v
  <2>2. \E f : Iteration(f, n, V, v, F) BY <1>1, <1>5, <1>7, Iterates
  <2> QED BY <2>2 DEF Iteration
<1>9. \A k \in 1..n : f[k] = Step(f[k - 1])
  <2>1. \A k \in 1..n : k - 1 \in 0..n BY <1>1
  <2> HIDE DEF V, Step
  <2> QED BY <1>6, <1>8, <2>1
<1>10. \E w : Is(w)
  <2>1. ASSUME NEW k \in 0..n PROVE f[k] = Back(f, k)
    <3>1. CASE k = 0 BY <1>8, <3>1
    <3>2. CASE k # 0
      <4>1. k \in 1..n BY <1>1, <3>2
      <4>2. f[k] = Step(f[k - 1]) BY <1>9, <4>1
      <4> QED BY <3>2, <4>2
    <3> QED BY <3>1, <3>2
  <2>2. f = [k \in 0..n |-> f[k]] BY <1>8
  <2> HIDE DEF Back
  <2>3. Is(f) BY <2>1, <2>2
  <2> QED BY <2>3
<1>11. Is(g)
  <2> HIDE DEF Is
  <2> QED BY <1>10
<1>12. Predecessors(r) = g[n][r] BY DEF Predecessors, n
<1> HIDE DEF g
<1>13. \A k \in 0..n, x \in Room : g[k][x] = IF k = 0 \/ Predecessor[x] = None THEN {}
                                            ELSE {Predecessor[x]} \cup g[k - 1][Predecessor[x]]
  <2>1. \A k \in 0..n : g[k] = Back(g, k)
    <3> HIDE DEF Back
    <3> QED BY <1>11
  <2> QED BY <2>1
<1> DEFINE T == {k \in 0..n : \A x \in Room :
                   g[k][x] \in SUBSET {y \in Room : \E s \in Room : Predecessor[s] = y}}
<1>14. 0 \in T
  <2>1. 0 \in 0..n BY <1>1
  <2>2. \A x \in Room : g[0][x] = {} BY <1>13, <2>1
  <2> QED BY <2>1, <2>2
<1>15. ASSUME NEW k \in 1..n, k - 1 \in T PROVE k \in T
  <2>1. k \in 0..n /\ k # 0 BY <1>1
  <2>2. ASSUME NEW x \in Room
        PROVE  g[k][x] \in SUBSET {y \in Room : \E s \in Room : Predecessor[s] = y}
    <3>1. CASE Predecessor[x] = None BY <1>13, <2>1, <3>1
    <3>2. CASE Predecessor[x] # None
      <4>1. Predecessor[x] \in Room BY <1>3, <3>2
      <4>2. g[k][x] = {Predecessor[x]} \cup g[k - 1][Predecessor[x]] BY <1>13, <2>1, <3>2
      <4>3. g[k - 1][Predecessor[x]] \in SUBSET {y \in Room : \E s \in Room : Predecessor[s] = y}
        BY <1>15, <4>1
      <4> QED BY <4>1, <4>2, <4>3
    <3> QED BY <3>1, <3>2
  <2> QED BY <2>1, <2>2
<1> HIDE DEF T
<1>16. n \in T
  <2>1. 0..n \subseteq T BY <1>1, <1>14, <1>15, StepsUp
  <2> QED BY <1>1, <2>1
<1>17. n \in 0..n BY <1>1
<1>18. Predecessor[r] # None => Predecessor[r] \in g[n][r] BY <1>2, <1>13, <1>17
<1>19. g[n][r] \in SUBSET {y \in Room : \E s \in Room : Predecessor[s] = y} BY <1>16 DEF T
<1> QED BY <1>12, <1>18, <1>19

----------------------------------------------------------------------------
(* The inductive invariant.  What the store does not know yet is on its    *)
(* way: a room that we are in, though a payload is to take it out, has one *)
(* behind it that brings it back; a room that no payload is to take out or *)
(* to bring in is listed; and a listed room that one we have joined        *)
(* replaces is to be removed when the store hears that we joined.          *)

In == {"invite", "join"}

Turns(p, r) == p.room = r /\ p.action # "changed"
TurnsOut(p, r) == Turns(p, r) /\ (p.action = "membership" => p.new \notin In)
ComesIn(p, r) == Turns(p, r) /\ (p.action = "membership" => p.old \notin In)
Joins(p, r) == p.action = "membership" /\ p.room = r /\ p.old # "join" /\ p.new = "join"

HasNoSuccessor(r) == \A s \in Room : Predecessor[s] # r

OutOrIn ==
    \A r \in Room, i \in 1..Len(pending) :
        TurnsOut(pending[i], r) =>
            \/ member[r] \notin In
            \/ \E k \in (i + 1)..Len(pending) : ComesIn(pending[k], r)

Settled(r) == \A i \in 1..Len(pending) : ~TurnsOut(pending[i], r) /\ ~ComesIn(pending[i], r)

SettledAreListed ==
    \A r \in Room : ready /\ member[r] \in In /\ Settled(r) /\ HasNoSuccessor(r) => r \in list.nodes

ReplacedAreKnown ==
    \A r \in Room :
        ready /\ member[r] = "join" /\ Predecessor[r] \in list.nodes
          => \E i \in 1..Len(pending) : Joins(pending[i], r)

Heard == OutOrIn /\ SettledAreListed /\ ReplacedAreKnown

IInv == TypeOK /\ Kept(list) /\ Heard

LEMMA KeyIsRanked ==
    ASSUME TypeOK PROVE key \in [Room -> Int]
BY StoreAssumption DEF TypeOK

LEMMA NodesAreRooms ==
    ASSUME NEW l, Kept(l) PROVE l.nodes \in SUBSET Room /\ None \notin l.nodes
<1>1. l \in Lists BY KeptIsList
<1> QED BY <1>1 DEF Lists

(* What the payload p does to the list.                                    *)
Outcome(p) ==
    /\ Kept(list') /\ list'.nodes \subseteq list.nodes \cup {p.room}
    /\ p.room \in list'.nodes \ list.nodes => ~IsReplaced(p.room)
    /\ \A r \in list.nodes :
         (p.room = r => member[r] \in In /\ ~TurnsOut(p, r)) /\ HasNoSuccessor(r) => r \in list'.nodes
    /\ \A r \in Room : /\ ComesIn(p, r) /\ ~TurnsOut(p, r) /\ member[r] \in In /\ HasNoSuccessor(r)
                         => r \in list'.nodes
                       /\ Joins(p, r) /\ member[r] = "join" => Predecessor[r] \notin list'.nodes

LEMMA ChangedDoes ==
    ASSUME IInv, NEW r \in Room, NEW p, p = [action |-> "changed", room |-> r],
           list' \in ReInsertRoom(list, r, key)
    PROVE  Outcome(p)
<1>1. Kept(list) /\ key \in [Room -> Int] BY KeyIsRanked DEF IInv
<1>2. Kept(list') /\ list'.nodes = list.nodes
  <2>1. PICK l, m : l = list /\ m = list' OBVIOUS
  <2>2. Kept(m) /\ m.nodes = l.nodes BY <1>1, <2>1, ReInsertRoomIs
  <2> QED BY <2>1, <2>2
<1>3. p.action = "changed" /\ p.room = r OBVIOUS
<1> QED BY <1>2, <1>3 DEF Outcome, ComesIn, Turns, Joins

LEMMA RemovalDoes ==
    ASSUME IInv, NEW p, p.room \in Room, ~Joins(p, p.room),
           member[p.room] \notin In \/ TurnsOut(p, p.room),
           list' = RemoveRoom(list, p.room)
    PROVE  Outcome(p)
<1>1. Kept(list') /\ list'.nodes = list.nodes \ {p.room}
  <2>1. PICK l, m, r : l = list /\ m = list' /\ r = p.room OBVIOUS
  <2>2. Kept(l) BY <2>1 DEF IInv
  <2>3. Kept(m) /\ m.nodes = l.nodes \ {r} BY <2>1, <2>2, RemoveRoomKeeps
  <2> QED BY <2>1, <2>3
<1> QED BY <1>1 DEF Outcome, ComesIn, TurnsOut, Turns, Joins

LEMMA EnteredDoes ==
    ASSUME IInv, NEW r \in Room, NEW old \in Memberships, NEW new \in Memberships, NEW p,
           p = [action |-> "membership", room |-> r, old |-> old, new |-> new],
           OnEntered(r, old, new)
    PROVE  Outcome(p)
<1> DEFINE joins == Effective(old) # "join" /\ Effective(new) = "join"
<1>1. PICK l : l = IF joins THEN RemoveAll(list, Predecessors(r)) ELSE list OBVIOUS
<1>2. list' \in IF Effective(old) # "leave" THEN ReInsertRoom(l, r, key)
                ELSE IF IsReplaced(r) THEN {l} ELSE AddNewRoom(l, r, key)
  BY <1>1 DEF OnEntered
<1>3. Kept(list) /\ key \in [Room -> Int] BY KeyIsRanked DEF IInv
<1>4. /\ p.action = "membership" /\ p.room = r /\ p.old = old /\ p.new = new
      /\ (Effective(old) # "leave" <=> old \in In) /\ (Effective(new) # "leave" <=> new \in In)
      /\ joins <=> (old # "join" /\ new = "join")
  BY DEF Effective, In
<1>5. /\ Kept(l) /\ l.nodes \subseteq list.nodes
      /\ \A x \in list.nodes : HasNoSuccessor(x) => x \in l.nodes
      /\ joins => Predecessor[r] \notin l.nodes
  <2>1. CASE ~joins BY <1>1, <1>3, <2>1
  <2>2. CASE joins
    <3>1. PICK S, k : S = Predecessors(r) /\ k = list OBVIOUS
    <3>2. /\ S \in SUBSET Room /\ (Predecessor[r] # None => Predecessor[r] \in S)
          /\ \A x \in S : \E s \in Room : Predecessor[s] = x
      BY <3>1, PredecessorsAre
    <3>3. l = RemoveAll(k, S) BY <1>1, <2>2, <3>1
    <3>4. Kept(l) /\ l.nodes = k.nodes \ S BY <1>3, <3>1, <3>2, <3>3, RemoveAllIs
    <3>5. None \notin l.nodes BY <3>4, NodesAreRooms
    <3> QED BY <3>1, <3>2, <3>4, <3>5 DEF HasNoSuccessor
  <2> QED BY <2>1, <2>2
<1> HIDE DEF joins
<1>6. CASE Effective(old) # "leave"
  <2>1. PICK m : m = list' OBVIOUS
  <2>2. m \in ReInsertRoom(l, r, key) BY <1>2, <1>6, <2>1
  <2>3. Kept(m) /\ m.nodes = l.nodes BY <1>3, <1>5, <2>2, ReInsertRoomIs
  <2>4. ~ComesIn(p, r) BY <1>4, <1>6 DEF ComesIn
  <2> QED BY <1>4, <1>5, <2>1, <2>3, <2>4 DEF Outcome, Joins, ComesIn, Turns
<1>7. CASE Effective(old) = "leave" /\ IsReplaced(r)
  <2>1. list' = l BY <1>2, <1>7
  <2>2. ~HasNoSuccessor(r) BY <1>7 DEF IsReplaced, Known, HasNoSuccessor
  <2> QED BY <1>4, <1>5, <2>1, <2>2 DEF Outcome, Joins, ComesIn, Turns
<1>8. CASE Effective(old) = "leave" /\ ~IsReplaced(r)
  <2>1. PICK m : m = list' OBVIOUS
  <2>2. m \in AddNewRoom(l, r, key) BY <1>2, <1>8, <2>1
  <2>3. Kept(m) /\ m.nodes = l.nodes \cup {r} BY <1>3, <1>5, <2>2, AddNewRoomIs
  <2>4. member[r] = "join" => Predecessor[r] # r BY <1>8 DEF IsReplaced, Known
  <2> QED BY <1>4, <1>5, <1>8, <2>1, <2>3, <2>4 DEF Outcome, Joins, ComesIn, Turns
<1> QED BY <1>6, <1>7, <1>8

LEMMA MembershipDoes ==
    ASSUME IInv, NEW r \in Room, NEW old \in Memberships, NEW new \in Memberships, NEW p,
           p = [action |-> "membership", room |-> r, old |-> old, new |-> new],
           OnKicked(r) \/ OnLeft(r, old, new) \/ OnEntered(r, old, new)
    PROVE  Outcome(p)
<1>1. p.action = "membership" /\ p.room = r /\ p.old = old /\ p.new = new OBVIOUS
<1>2. CASE OnKicked(r)
  <2>1. Kept(list) /\ key \in [Room -> Int] BY KeyIsRanked DEF IInv
  <2>2. PICK l, m : l = list /\ m = list' OBVIOUS
  <2>3. m \in ReInsertRoom(l, r, key) BY <1>2, <2>2 DEF OnKicked
  <2>4. Kept(m) /\ m.nodes = l.nodes BY <2>1, <2>2, <2>3, ReInsertRoomIs
  <2>5. member[r] \notin In /\ member[r] # "join" BY <1>2 DEF OnKicked, In
  <2> QED BY <1>1, <2>2, <2>4, <2>5 DEF Outcome, ComesIn, Turns, Joins
<1>3. CASE OnLeft(r, old, new)
  <2>1. new \notin In BY <1>3 DEF OnLeft, Effective, In
  <2>2. TurnsOut(p, r) /\ ~Joins(p, r) BY <1>1, <2>1 DEF TurnsOut, Turns, Joins, In
  <2>3. list' = RemoveRoom(list, r) BY <1>3 DEF OnLeft
  <2> QED BY <1>1, <2>2, <2>3, RemovalDoes
<1>4. CASE OnEntered(r, old, new) BY <1>4, EnteredDoes
<1> QED BY <1>2, <1>3, <1>4

LEMMA ActionDoes ==
    ASSUME IInv, OnAction
    PROVE  /\ ready /\ pending # <<>> /\ pending' = Tail(pending)
           /\ UNCHANGED <<member, key, ready, events>> /\ Outcome(Head(pending))
<1>1. CASE OnChanged
  <2>1. PICK r \in Room : /\ Handle([action |-> "changed", room |-> r])
                          /\ list' \in ReInsertRoom(list, r, key)
    BY <1>1 DEF OnChanged
  <2>2. PICK p : p = [action |-> "changed", room |-> r] OBVIOUS
  <2>3. Outcome(p) BY <2>1, <2>2, ChangedDoes
  <2> QED BY <2>1, <2>2, <2>3 DEF Handle, Take
<1>2. CASE OnMembership
  <2>1. PICK r \in Room, old \in Memberships, new \in Memberships :
          /\ Handle([action |-> "membership", room |-> r, old |-> old, new |-> new])
          /\ OnKicked(r) \/ OnLeft(r, old, new) \/ OnEntered(r, old, new)
    BY <1>2 DEF OnMembership
  <2>2. PICK p : p = [action |-> "membership", room |-> r, old |-> old, new |-> new] OBVIOUS
  <2>3. Outcome(p) BY <2>1, <2>2, MembershipDoes
  <2> QED BY <2>1, <2>2, <2>3 DEF Handle, Take
<1>3. CASE OnForgotten
  <2>1. PICK r \in Room : /\ Handle([action |-> "forgotten", room |-> r])
                          /\ list' = RemoveRoom(list, r)
    BY <1>3 DEF OnForgotten
  <2>2. PICK p : p = [action |-> "forgotten", room |-> r] OBVIOUS
  <2>3. p.room = r /\ TurnsOut(p, r) /\ ~Joins(p, r) BY <2>2 DEF TurnsOut, Turns, Joins
  <2>4. Outcome(p) BY <2>1, <2>3, RemovalDoes
  <2> QED BY <2>1, <2>2, <2>4 DEF Handle, Take
<1> QED BY <1>1, <1>2, <1>3 DEF OnAction

----------------------------------------------------------------------------
(* The three ways in which what is on its way changes.                     *)

LEMMA PendingIs ==
    ASSUME TypeOK
    PROVE  /\ Len(pending) \in Nat
           /\ \A i \in 1..Len(pending) : pending[i] \in Payloads /\ pending[i].room \in Room
<1>1. \A i \in 1..Len(pending) : pending[i] \in Payloads BY DEF TypeOK
<1>2. \A p \in Payloads : p.room \in Room BY DEF Payloads
<1> QED BY <1>1, <1>2 DEF TypeOK

(* The store takes the oldest payload.                                     *)
LEMMA Hears ==
    ASSUME TypeOK, Heard, pending # <<>>, pending' = Tail(pending),
           UNCHANGED <<member, ready>>, ready => Outcome(Head(pending))
    PROVE  Heard'
<1> DEFINE n == Len(pending)
<1>1. n \in Nat /\ n >= 1 /\ Len(pending') = n - 1 /\ Head(pending) = pending[1]
  BY DEF TypeOK
<1>2. \A i \in 1..(n - 1) : pending'[i] = pending[i + 1] BY DEF TypeOK
<1>3. \A i \in 2..n : i - 1 \in 1..(n - 1) /\ pending'[i - 1] = pending[i]
  <2>1. TAKE i \in 2..n
  <2>2. i - 1 \in 1..(n - 1) /\ (i - 1) + 1 = i BY <1>1
  <2> QED BY <1>2, <2>2
<1>4. pending[1].room \in Room BY <1>1, PendingIs
<1> HIDE DEF n
<1>5. OutOrIn'
  <2>1. ASSUME NEW r \in Room, NEW i \in 1..(n - 1), TurnsOut(pending'[i], r), member[r] \in In
        PROVE  \E k \in (i + 1)..(n - 1) : ComesIn(pending'[k], r)
    <3>1. i + 1 \in 1..n /\ TurnsOut(pending[i + 1], r) BY <1>1, <1>2, <2>1
    <3>2. PICK k \in ((i + 1) + 1)..n : ComesIn(pending[k], r)
      BY <2>1, <3>1 DEF Heard, OutOrIn, n
    <3>3. k \in 2..n /\ k - 1 \in (i + 1)..(n - 1) BY <1>1
    <3> QED BY <1>3, <3>2, <3>3
  <2> QED BY <1>1, <2>1 DEF OutOrIn, TurnsOut, ComesIn, Turns
<1>6. SettledAreListed'
  <2>1. ASSUME NEW r \in Room, ready, member[r] \in In, HasNoSuccessor(r), Settled(r)'
        PROVE  r \in list'.nodes
    <3>1. \A i \in 1..(n - 1) : ~TurnsOut(pending'[i], r) /\ ~ComesIn(pending'[i], r)
      BY <1>1, <2>1 DEF Settled, TurnsOut, ComesIn, Turns
    <3>2. \A i \in 2..n : ~TurnsOut(pending[i], r) /\ ~ComesIn(pending[i], r) BY <1>3, <3>1
    <3>3. 1 \in 1..n /\ 1 + 1 = 2 BY <1>1
    <3>4. ~TurnsOut(pending[1], r) BY <2>1, <3>2, <3>3 DEF Heard, OutOrIn, n
    <3>5. Outcome(pending[1]) BY <1>1, <2>1
    <3>6. CASE ComesIn(pending[1], r) BY <2>1, <3>4, <3>5, <3>6 DEF Outcome
    <3>7. CASE ~ComesIn(pending[1], r)
      <4>1. \A i \in 1..n : i = 1 \/ i \in 2..n BY <1>1
      <4>2. Settled(r) BY <3>2, <3>4, <3>7, <4>1 DEF Settled, n
      <4>3. r \in list.nodes BY <2>1, <4>2 DEF Heard, SettledAreListed
      <4> QED BY <2>1, <3>4, <3>5, <4>3 DEF Outcome
    <3> QED BY <3>6, <3>7
  <2> QED BY <2>1 DEF SettledAreListed, HasNoSuccessor
<1>7. ReplacedAreKnown'
  <2>1. ASSUME NEW r \in Room, ready, member[r] = "join", Predecessor[r] \in list'.nodes
        PROVE  \E i \in 1..(n - 1) : Joins(pending'[i], r)
    <3>1. Outcome(pending[1]) BY <1>1, <2>1
    <3>2. IsReplaced(Predecessor[r]) BY <2>1 DEF IsReplaced, Known
    <3>3. Predecessor[r] \in list.nodes BY <2>1, <3>1, <3>2 DEF Outcome
    <3>4. PICK i \in 1..n : Joins(pending[i], r) BY <2>1, <3>3 DEF Heard, ReplacedAreKnown, n
    <3>5. i # 1 BY <2>1, <3>1, <3>4 DEF Outcome
    <3>6. i \in 2..n BY <1>1, <3>5
    <3> QED BY <1>3, <3>4, <3>6
  <2> QED BY <1>1, <2>1 DEF ReplacedAreKnown, Joins
<1> QED BY <1>5, <1>6, <1>7 DEF Heard

(* The client sends another.                                               *)
Sends(p) ==
    /\ pending' = Append(pending, p) /\ UNCHANGED <<list, ready>>
    /\ \A r \in Room : member'[r] = member[r] \/ Turns(p, r)
    /\ \A r \in Room : TurnsOut(p, r) => member'[r] \notin In
    /\ \A r \in Room :
         Turns(p, r) /\ p.action = "membership" => p.old = member[r] /\ p.new = member'[r]

LEMMA Tells ==
    ASSUME TypeOK, Heard, NEW p, Sends(p)
    PROVE  Heard'
<1> DEFINE n == Len(pending)
<1>1. n \in Nat /\ Len(pending') = n + 1 /\ pending'[n + 1] = p
  BY DEF TypeOK, Sends
<1>2. \A i \in 1..n : i \in 1..(n + 1) /\ pending'[i] = pending[i] BY DEF TypeOK, Sends
<1>3. \A i \in 1..(n + 1) : i = n + 1 \/ i \in 1..n BY <1>1
<1>4. n + 1 \in 1..(n + 1) BY <1>1
<1> HIDE DEF n
<1>5. \A r \in Room : member'[r] \in In /\ member[r] \notin In => ComesIn(p, r)
  BY DEF Sends, ComesIn, TurnsOut
<1>6. OutOrIn'
  <2>1. ASSUME NEW r \in Room, NEW i \in 1..(n + 1), TurnsOut(pending'[i], r), member'[r] \in In
        PROVE  \E k \in (i + 1)..(n + 1) : ComesIn(pending'[k], r)
    <3>1. CASE i = n + 1 BY <1>1, <2>1, <3>1 DEF Sends
    <3>2. CASE i \in 1..n
      <4>1. TurnsOut(pending[i], r) BY <1>2, <2>1, <3>2
      <4>2. CASE member[r] \in In
        <5>1. PICK k \in (i + 1)..n : ComesIn(pending[k], r)
          BY <3>2, <4>1, <4>2 DEF Heard, OutOrIn, n
        <5>2. k \in 1..n /\ k \in (i + 1)..(n + 1) BY <1>1, <3>2
        <5> QED BY <1>2, <5>1, <5>2
      <4>3. CASE member[r] \notin In
        <5>1. ComesIn(pending'[n + 1], r) BY <1>1, <1>5, <2>1, <4>3
        <5>2. n + 1 \in (i + 1)..(n + 1) BY <1>1, <3>2
        <5> QED BY <5>1, <5>2
      <4> QED BY <4>2, <4>3
    <3> QED BY <1>3, <3>1, <3>2
  <2> QED BY <1>1, <2>1 DEF OutOrIn, TurnsOut, ComesIn, Turns
<1>7. SettledAreListed'
  <2>1. ASSUME NEW r \in Room, ready, member'[r] \in In, HasNoSuccessor(r), Settled(r)'
        PROVE  r \in list.nodes
    <3>1. \A i \in 1..(n + 1) : ~TurnsOut(pending'[i], r) /\ ~ComesIn(pending'[i], r)
      BY <1>1, <2>1 DEF Settled, TurnsOut, ComesIn, Turns
    <3>2. ~ComesIn(p, r) BY <1>1, <1>4, <3>1
    <3>3. member[r] \in In BY <1>5, <2>1, <3>2
    <3>4. Settled(r) BY <1>2, <3>1 DEF Settled, n
    <3> QED BY <2>1, <3>3, <3>4 DEF Heard, SettledAreListed
  <2>2. UNCHANGED <<list, ready>> BY DEF Sends
  <2> QED BY <2>1, <2>2 DEF SettledAreListed, HasNoSuccessor
<1>8. ReplacedAreKnown'
  <2>1. ASSUME NEW r \in Room, ready, member'[r] = "join", Predecessor[r] \in list.nodes
        PROVE  \E i \in 1..(n + 1) : Joins(pending'[i], r)
    <3>1. CASE member[r] = "join"
      <4>1. PICK i \in 1..n : Joins(pending[i], r)
        BY <2>1, <3>1 DEF Heard, ReplacedAreKnown, n
      <4> QED BY <1>2, <4>1
    <3>2. CASE member[r] # "join"
      <4>1. Turns(p, r) BY <2>1, <3>2 DEF Sends
      <4>2. p.action = "membership" BY <2>1, <4>1 DEF Sends, TurnsOut, In
      <4>3. Joins(p, r) BY <2>1, <3>2, <4>1, <4>2 DEF Sends, Joins, Turns
      <4> QED BY <1>1, <1>4, <4>3
    <3> QED BY <3>1, <3>2
  <2>2. UNCHANGED <<list, ready>> BY DEF Sends
  <2> QED BY <1>1, <2>1, <2>2 DEF ReplacedAreKnown, Joins
<1> QED BY <1>6, <1>7, <1>8 DEF Heard

(* The list is made anew of the rooms of the client.                       *)
LEMMA SeedsAnew ==
    ASSUME TypeOK, Heard, NEW k, list' \in Seeds(Rooms, k), UNCHANGED <<member, pending>>
    PROVE  Kept(list') /\ Heard'
<1>1. Rooms \in SUBSET Room BY DEF Rooms, Known
<1>2. Kept(list') /\ list'.nodes = Rooms
  <2>1. PICK m, S : m = list' /\ S = Rooms OBVIOUS
  <2>2. Kept(m) /\ m.nodes = S BY <1>1, <2>1, SeedsAre
  <2> QED BY <2>1, <2>2
<1>3. OutOrIn' BY DEF Heard, OutOrIn, TurnsOut, ComesIn, Turns
<1>4. SettledAreListed'
  <2>1. \A r \in Room : member[r] \in In /\ HasNoSuccessor(r) => r \in list'.nodes
    BY <1>2 DEF Rooms, Known, IsReplaced, HasNoSuccessor, In
  <2> QED BY <2>1 DEF SettledAreListed, HasNoSuccessor
<1>5. ReplacedAreKnown'
  <2>1. \A r \in Room : member[r] = "join" => Predecessor[r] \notin list'.nodes
    BY <1>2 DEF Rooms, Known, IsReplaced
  <2> QED BY <2>1 DEF ReplacedAreKnown
<1> QED BY <1>2, <1>3, <1>4, <1>5 DEF Heard

----------------------------------------------------------------------------

LEMMA ClientKeeps ==
    ASSUME IInv, NEW r \in Room,
           Changed(r) \/ (\E m \in Memberships \ {"unknown"} : Becomes(r, m)) \/ Forget(r)
    PROVE  IInv'
<1>1. TypeOK /\ Kept(list) /\ Heard BY DEF IInv
<1>2. ASSUME NEW p \in Payloads, Dispatch(p)
      PROVE  /\ pending' = Append(pending, p) /\ pending' \in Seq(Payloads)
             /\ Len(pending') <= MaxPending /\ events' \in 0..MaxEvents
  BY <1>1, <1>2, StoreAssumption DEF Dispatch, Event, TypeOK
<1>3. CASE Changed(r)
  <2>1. PICK p : p = [action |-> "changed", room |-> r] OBVIOUS
  <2>2. p \in Payloads /\ Dispatch(p) /\ ~Turns(p, r) /\ \A x \in Room : ~Turns(p, x)
    BY <1>3, <2>1 DEF Changed, Payloads, Turns
  <2>3. UNCHANGED <<member, list, ready>> /\ key' \in [Room -> Rank]
    BY <1>1, <1>3 DEF Changed, TypeOK
  <2>4. TypeOK' BY <1>1, <1>2, <2>2, <2>3 DEF TypeOK
  <2>5. Sends(p) BY <1>2, <2>2, <2>3 DEF Sends, TurnsOut
  <2>6. Heard' BY <1>1, <2>5, Tells
  <2> QED BY <1>1, <2>3, <2>4, <2>6 DEF IInv
<1>4. CASE \E m \in Memberships \ {"unknown"} : Becomes(r, m)
  <2>1. PICK m \in Memberships \ {"unknown"} : Becomes(r, m) BY <1>4
  <2>2. PICK p : p = [action |-> "membership", room |-> r, old |-> member[r], new |-> m] OBVIOUS
  <2>3. p.action = "membership" /\ p.room = r /\ p.old = member[r] /\ p.new = m BY <2>2
  <2>4. p \in Payloads /\ Dispatch(p)
    BY <1>1, <2>1, <2>2 DEF Becomes, Payloads, TypeOK
  <2>5. /\ UNCHANGED <<key, list, ready>> /\ member' \in [Room -> Memberships]
        /\ member'[r] = m /\ \A x \in Room : x # r => member'[x] = member[x]
    BY <1>1, <2>1 DEF Becomes, TypeOK
  <2>6. TypeOK' BY <1>1, <1>2, <2>4, <2>5 DEF TypeOK
  <2>7. Sends(p) BY <1>2, <2>3, <2>4, <2>5 DEF Sends, TurnsOut, Turns
  <2>8. Heard' BY <1>1, <2>7, Tells
  <2> QED BY <1>1, <2>5, <2>6, <2>8 DEF IInv
<1>5. CASE Forget(r)
  <2>1. PICK p : p = [action |-> "forgotten", room |-> r] OBVIOUS
  <2>2. p.action = "forgotten" /\ p.room = r BY <2>1
  <2>3. p \in Payloads /\ Dispatch(p) BY <1>5, <2>1 DEF Forget, Payloads
  <2>4. /\ UNCHANGED <<key, list, ready>> /\ member' \in [Room -> Memberships]
        /\ member'[r] = "unknown" /\ \A x \in Room : x # r => member'[x] = member[x]
    BY <1>1, <1>5 DEF Forget, TypeOK, Memberships
  <2>5. TypeOK' BY <1>1, <1>2, <2>3, <2>4 DEF TypeOK
  <2>6. Sends(p) BY <1>2, <2>2, <2>3, <2>4 DEF Sends, TurnsOut, Turns, In
  <2>7. Heard' BY <1>1, <2>6, Tells
  <2> QED BY <1>1, <2>4, <2>5, <2>7 DEF IInv
<1> QED BY <1>3, <1>4, <1>5

LEMMA StoreKeeps ==
    ASSUME IInv, OnReady \/ Drop \/ OnAction \/ Resort
    PROVE  IInv'
<1>1. TypeOK /\ Kept(list) /\ Heard BY DEF IInv
<1>2. ASSUME pending # <<>>, pending' = Tail(pending)
      PROVE  pending' \in Seq(Payloads) /\ Len(pending') <= MaxPending
  BY <1>1, <1>2, StoreAssumption DEF TypeOK
<1>3. ASSUME Kept(list') PROVE list' \in Lists
  <2>1. PICK m : m = list' OBVIOUS
  <2> QED BY <1>3, <2>1, KeptIsList
<1>4. CASE OnReady
  <2>1. PICK k : k = key OBVIOUS
  <2>2. list' \in Seeds(Rooms, k) /\ UNCHANGED <<member, key, pending, events>> /\ ready' = TRUE
    BY <1>4, <2>1 DEF OnReady
  <2>3. Kept(list') /\ Heard' BY <1>1, <2>2, SeedsAnew
  <2> QED BY <1>1, <1>3, <2>2, <2>3 DEF IInv, TypeOK
<1>5. CASE Drop
  <2>1. /\ ~ready /\ pending # <<>> /\ pending' = Tail(pending)
        /\ UNCHANGED <<member, key, list, ready, events>>
    BY <1>5 DEF Drop, Take
  <2>2. Heard' BY <1>1, <2>1, Hears
  <2>3. TypeOK' BY <1>1, <1>2, <2>1 DEF TypeOK
  <2> QED BY <1>1, <2>1, <2>2, <2>3 DEF IInv
<1>6. CASE OnAction
  <2>1. /\ ready /\ pending # <<>> /\ pending' = Tail(pending)
        /\ UNCHANGED <<member, key, ready, events>> /\ Outcome(Head(pending))
    BY <1>6, ActionDoes
  <2>2. Heard' BY <1>1, <2>1, Hears
  <2>3. Kept(list') BY <2>1 DEF Outcome
  <2>4. TypeOK' BY <1>1, <1>2, <1>3, <2>1, <2>3 DEF TypeOK
  <2> QED BY <2>2, <2>3, <2>4 DEF IInv
<1>7. CASE Resort
  <2>1. PICK k : k = key' OBVIOUS
  <2>2. list' \in Seeds(Rooms, k) /\ UNCHANGED <<member, ready, pending>> /\ key' \in [Room -> Rank]
    BY <1>7, <2>1 DEF Resort
  <2>3. events' \in 0..MaxEvents BY <1>1, <1>7, StoreAssumption DEF Resort, Event, TypeOK
  <2>4. Kept(list') /\ Heard' BY <1>1, <2>2, SeedsAnew
  <2> QED BY <1>1, <1>3, <2>2, <2>3, <2>4 DEF IInv, TypeOK
<1> QED BY <1>4, <1>5, <1>6, <1>7

(* The invariant is inductive.                                             *)
THEOREM Invariance == Spec => []IInv
<1>1. Init => IInv
  <2> SUFFICES ASSUME Init PROVE IInv OBVIOUS
  <2>1. Kept(list) /\ list \in Lists BY EmptyIs, KeptIsList DEF Init
  <2>2. TypeOK
    <3>1. member \in [Room -> Memberships] BY StoreAssumption DEF Init
    <3>2. pending \in Seq(Payloads) /\ Len(pending) <= MaxPending /\ events \in 0..MaxEvents
      BY StoreAssumption DEF Init
    <3> QED BY <2>1, <3>1, <3>2 DEF Init, TypeOK
  <2>3. Heard BY DEF Init, Heard, OutOrIn, SettledAreListed, ReplacedAreKnown
  <2> QED BY <2>1, <2>2, <2>3 DEF IInv
<1>2. IInv /\ [Next]_vars => IInv'
  <2> SUFFICES ASSUME IInv, [Next]_vars PROVE IInv' OBVIOUS
  <2>1. CASE \E r \in Room : \/ Changed(r)
                             \/ \E m \in Memberships \ {"unknown"} : Becomes(r, m)
                             \/ Forget(r)
    BY <2>1, ClientKeeps
  <2>2. CASE OnReady \/ Drop \/ OnAction \/ Resort BY <2>2, StoreKeeps
  <2>3. CASE UNCHANGED vars
    BY <2>3 DEF vars, IInv, TypeOK, Heard, OutOrIn, SettledAreListed, ReplacedAreKnown, Settled,
                TurnsOut, ComesIn, Turns, Joins, HasNoSuccessor
  <2> QED BY <2>1, <2>2, <2>3 DEF Next
<1> QED BY <1>1, <1>2, PTL DEF Spec

----------------------------------------------------------------------------

(* Every variable keeps its type: no size, head or link of the list is     *)
(* ever anything but a room or nothing, whatever is inserted and removed.  *)
THEOREM Types == Spec => []TypeOK
<1>1. IInv => TypeOK BY DEF IInv
<1> QED BY <1>1, Invariance, PTL

(* The skip list is one (RoomSkipList.ts, Level.ts): its links lead forth  *)
(* and back, each level is a part of the one below in the same order, and  *)
(* the lowest has each of its rooms once.                                  *)
THEOREM Nesting == Spec => []LevelsNest
<1>1. IInv => LevelsNest
  <2> SUFFICES ASSUME IInv PROVE LevelsNest OBVIOUS
  <2>1. PICK l, M, ord : l = list /\ IsKept(l, M, ord) BY DEF IInv, Kept
  <2>2. 0 \in Levels /\ 0..l.top \subseteq Levels BY <2>1, KeptLevels DEF Levels
  <2>3. ToSet(Level(l, 0)) = l.nodes
    <3>1. ToSet(Level(l, 0)) = M[0] BY <2>1, <2>2, KeptReads
    <3> QED BY <2>1, <3>1 DEF IsKept
  <2>4. ASSUME NEW j \in 0..l.top, NEW s, s = Level(l, j)
        PROVE  /\ l.size[j] = Len(s) /\ IsInjective(s)
               /\ \A i \in 1..Len(s) :
                    /\ l.previous[j][s[i]] = (IF i = 1 THEN None ELSE s[i - 1])
                    /\ l.next[j][s[i]] = (IF i = Len(s) THEN None ELSE s[i + 1])
               /\ j > 0 => IsSubSeq(s, Level(l, j - 1))
    <3>1. j \in Levels BY <2>2
    <3>2. IsInjective(s) /\ l.size[j] = Len(s) /\ LinksOf(s, l.next[j], l.previous[j])
      BY <2>1, <2>4, <3>1, KeptReads
    <3>3. j > 0 => IsSubSeq(s, Level(l, j - 1))
      <4>1. ASSUME j > 0 PROVE j \in Levels \ {0} BY <3>1, <4>1
      <4> QED BY <2>1, <2>4, <4>1, KeptNests DEF IsSubSeq
    <3> QED BY <3>2, <3>3 DEF LinksOf
  <2> QED BY <2>1, <2>3, <2>4 DEF LevelsNest
<1> QED BY <1>1, Invariance, PTL

(* A room we have joined, that none of the rooms replaces, is in the list  *)
(* once the store has heard of everything, in whatever order we came and   *)
(* went and however late the payloads are (RoomListStoreV3.ts, onAction).  *)
THEOREM Listing == Spec => []JoinedAreListed
<1>1. IInv => JoinedAreListed
  <2> SUFFICES ASSUME IInv, Rest, NEW r \in Room, member[r] = "join",
                      \A s \in Room : Predecessor[s] # r
               PROVE  r \in list.nodes
    BY DEF JoinedAreListed
  <2>1. Settled(r) BY DEF Rest, Settled
  <2> QED BY <2>1 DEF IInv, Heard, SettledAreListed, Rest, In, HasNoSuccessor
<1> QED BY <1>1, Invariance, PTL

(* Once the store has heard of everything, a room that we joined does not  *)
(* stand in the list beside the room it replaced (RoomListStoreV3.ts,      *)
(* onAction and the predecessors it removes).                              *)
THEOREM Replacing == Spec => []ReplacedAreNot
<1>1. IInv => ReplacedAreNot
  <2> SUFFICES ASSUME IInv, Rest, NEW r \in Room, member[r] = "join"
               PROVE  Predecessor[r] \notin list.nodes
    BY DEF ReplacedAreNot
  <2>1. ~\E i \in 1..Len(pending) : Joins(pending[i], r) BY DEF Rest
  <2> QED BY <2>1 DEF IInv, Heard, ReplacedAreKnown, Rest
<1> QED BY <1>1, Invariance, PTL

(* Hearing that a room has changed sorts a list in which that room was all *)
(* that was out of place, whatever was thrown (reInsertRoom).              *)
THEOREM Reinsertion == Spec => ReinsertionSorts
<1>1. ASSUME IInv, NEW r \in Room, ready, pending # <<>>,
             Head(pending) = [action |-> "changed", room |-> r], SortedBut(r), OnChanged
      PROVE  Sorted(Level(list, 0))'
  <2>1. PICK p : p = [action |-> "changed", room |-> r] OBVIOUS
  <2>2. PICK x \in Room : /\ Handle([action |-> "changed", room |-> x])
                          /\ list' \in ReInsertRoom(list, x, key)
    BY <1>1 DEF OnChanged
  <2>3. x = r /\ key' = key
    <3>1. [action |-> "changed", room |-> x] = p BY <1>1, <2>1, <2>2 DEF Handle, Take
    <3>2. key' = key BY <2>2 DEF Handle, Take
    <3> QED BY <2>1, <3>1, <3>2
  <2>4. PICK l, m, k : l = list /\ m = list' /\ k = key OBVIOUS
  <2>5. PICK M, ord : IsKept(l, M, ord) BY <1>1, <2>4 DEF IInv, Kept
  <2>6. k \in [Room -> Int] BY <1>1, <2>4, KeyIsRanked DEF IInv
  <2>7. Follows(ord, l.nodes \ {r}, k)
    <3>1. PICK S, s : S = Room \ {r} /\ s = Only(Level(l, 0), S) OBVIOUS
    <3>2. \A i \in 2..Len(s) : k[s[i - 1]] <= k[s[i]]
      BY <1>1, <2>4, <3>1 DEF SortedBut, Sorted
    <3>3. Follows(ord, l.nodes \cap S, k) BY <2>5, <2>6, <3>1, <3>2, SortedFollows
    <3>4. l.nodes \in SUBSET Room BY <2>5, NodesAreRooms DEF Kept
    <3>5. l.nodes \cap S = l.nodes \ {r} BY <3>1, <3>4
    <3> QED BY <3>3, <3>5
  <2>8. m \in ReInsertRoom(l, r, k) BY <2>2, <2>3, <2>4
  <2>9. PICK M2, o : IsKept(m, M2, o) /\ Follows(o, m.nodes, k)
    BY <2>5, <2>6, <2>7, <2>8, ReInsertionFollows
  <2>10. PICK s, t : t = Level(m, 0) /\ s = Only(t, Room) OBVIOUS
  <2>11. s = t
    <3>1. 0 \in Levels BY DEF Levels
    <3>2. t \in Seq(Room) /\ ToSet(t) = M2[0] /\ Increasing(t, o)
      BY <2>9, <2>10, <3>1, KeptReads
    <3>3. s \in Seq(Room) /\ ToSet(s) = ToSet(t) \cap Room /\ Increasing(s, o)
      BY <2>10, <3>2, OnlyIs
    <3>4. ToSet(t) \in SUBSET Room /\ IsOrder(o, ToSet(t))
      BY <2>9, <3>1, <3>2, KeptLevels
    <3>5. ToSet(s) = ToSet(t) BY <3>3, <3>4
    <3> QED BY <3>2, <3>3, <3>4, <3>5, IncreasingIsOne
  <2>12. m.nodes \in SUBSET Room BY <2>9, NodesAreRooms DEF Kept
  <2>13. Follows(o, m.nodes \cap Room, k)
    <3>1. m.nodes \cap Room = m.nodes BY <2>12
    <3> QED BY <2>9, <3>1
  <2>14. \A i \in 2..Len(s) : k[s[i - 1]] <= k[s[i]]
    BY <2>6, <2>9, <2>10, <2>13, SortedFollows
  <2> QED BY <2>3, <2>4, <2>10, <2>11, <2>14 DEF Sorted
<1>2. IInv => [\A r \in Room : ready /\ pending # <<>> /\ Head(pending) = [action |-> "changed", room |-> r]
                       /\ SortedBut(r) /\ OnChanged => Sorted(Level(list, 0))']_vars
  BY <1>1
<1> QED BY <1>2, Invariance, PTL DEF ReinsertionSorts
=============================================================================

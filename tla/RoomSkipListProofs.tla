------------------------- MODULE RoomSkipListProofs -------------------------
(***************************************************************************)
(* The skip list stays one, for any rooms, ranks and tosses.               *)
(*                                                                         *)
(* The argument: there is an order of the rooms (ord), and each level j    *)
(* has a set of rooms, M[j], that are linked in this order.  All levels    *)
(* use the same order, so that they nest if the sets do.  The operations   *)
(* are recursive; what they compute is found by least counterexamples.     *)
(***************************************************************************)
EXTENDS RoomSkipList, FiniteSetTheorems, WellFoundedInduction, TLAPS

USE NoneAssumption, LevelAssumption, RoomAssumption

----------------------------------------------------------------------------
(* Numbers                                                                 *)

LEMMA LessIsWellFounded == IsWellFoundedOn({p \in Nat \X Nat : p[1] < p[2]}, Nat)
BY NatLessThanWellFounded DEF OpToRel

LEMMA LeastOf ==
    ASSUME NEW T, T \subseteq Nat, T # {} PROVE \E x \in T : \A y \in T : x <= y
<1> DEFINE R == {p \in Nat \X Nat : p[1] < p[2]}
<1>1. PICK x \in T : \A y \in T : ~(<<y, x>> \in R)
  <2>1. IsWellFoundedOn(R, Nat) BY LessIsWellFounded
  <2> HIDE DEF R
  <2> QED BY <2>1, WFMin
<1>2. \A y \in T : ~(y < x) BY <1>1
<1> QED BY <1>2

(* A set of numbers that is left by no step up has them all.               *)
LEMMA StepsUp ==
    ASSUME NEW n \in Nat, NEW T, 0 \in T, \A k \in 1..n : k - 1 \in T => k \in T
    PROVE  0..n \subseteq T
<1> SUFFICES ASSUME ~(0..n \subseteq T) PROVE FALSE OBVIOUS
<1>1. PICK k \in (0..n) \ T : \A i \in (0..n) \ T : k <= i
  <2>1. (0..n) \ T \subseteq Nat /\ (0..n) \ T # {} OBVIOUS
  <2> QED BY <2>1, LeastOf
<1>2. k \in 1..n /\ k - 1 \in 0..n BY <1>1
<1>3. k - 1 \in T BY <1>1, <1>2
<1> QED BY <1>1, <1>2, <1>3

(* What is done over and over, F at each of the times in D, has a result.  *)
Does(F, D, V) == F \in [D \X V -> V]

Iteration(f, n, V, v, F) ==
    f \in [0..n -> V] /\ f[0] = v /\ \A k \in 1..n : f[k] = F[<<k, f[k - 1]>>]

LEMMA Iterates ==
    ASSUME NEW n \in Nat, NEW V, NEW v \in V, NEW F, Does(F, 1..n, V)
    PROVE  \E f : Iteration(f, n, V, v, F)
<1> DEFINE Is(f, m) == f[0] = v /\ \A k \in 1..m : f[k] = F[<<k, f[k - 1]>>]
           T == {m \in 0..n : \E f \in [0..m -> V] : Is(f, m)}
<1>1. 0 \in T
  <2> DEFINE g == [i \in 0..0 |-> v]
  <2>1. g \in [0..0 -> V] /\ g[0] = v /\ 1..0 = {} OBVIOUS
  <2>2. Is(g, 0) BY <2>1
  <2>3. \E f \in [0..0 -> V] : Is(f, 0) BY <2>1, <2>2
  <2> QED BY <2>3
<1>2. ASSUME NEW m \in 1..n, m - 1 \in T PROVE m \in T
  <2>1. PICK f \in [0..(m - 1) -> V] : Is(f, m - 1) BY <1>2
  <2> DEFINE g == [i \in 0..m |-> IF i = m THEN F[<<m, f[m - 1]>>] ELSE f[i]]
  <2>2. g \in [0..m -> V]
    <3>1. <<m, f[m - 1]>> \in (1..n) \X V BY <2>1
    <3> QED BY <2>1, <3>1 DEF Does
  <2>3. g[0] = v BY <2>1
  <2>4. ASSUME NEW k \in 1..m PROVE g[k] = F[<<k, g[k - 1]>>]
    <3>1. CASE k = m
      <4>1. k - 1 \in 0..m /\ k - 1 # m /\ k \in 0..m BY <3>1
      <4>2. g[k - 1] = f[k - 1] /\ g[k] = F[<<k, f[k - 1]>>] BY <3>1, <4>1
      <4> QED BY <4>2
    <3>2. CASE k # m
      <4>1. k \in 1..(m - 1) /\ k - 1 \in 0..(m - 1) /\ k - 1 # m BY <3>2
      <4>2. f[k] = F[<<k, f[k - 1]>>] BY <2>1, <4>1
      <4>3. g[k] = f[k] /\ g[k - 1] = f[k - 1] BY <3>2, <4>1
      <4> QED BY <4>2, <4>3
    <3> QED BY <3>1, <3>2
  <2> HIDE DEF g
  <2>5. Is(g, m) BY <2>3, <2>4
  <2> QED BY <2>2, <2>5
<1> HIDE DEF T
<1>3. 0..n \subseteq T BY <1>1, <1>2, StepsUp
<1>4. n \in T BY <1>3
<1> QED BY <1>4 DEF T, Iteration

----------------------------------------------------------------------------
(* Orders, and sequences that go up in them.                               *)

IsOrder(ord, S) ==
    /\ \A x \in S : <<x, x>> \notin ord
    /\ \A x, y \in S : x # y => <<x, y>> \in ord \/ <<y, x>> \in ord
    /\ \A x, y, z \in S : <<x, y>> \in ord /\ <<y, z>> \in ord => <<x, z>> \in ord

Increasing(s, ord) == \A i, k \in 1..Len(s) : i < k => <<s[i], s[k]>> \in ord

Tops(ord, S, x) == \A y \in S : y = x \/ <<y, x>> \in ord

LEMMA PartIsOrder ==
    ASSUME NEW ord, NEW S, IsOrder(ord, S), NEW T \in SUBSET S PROVE IsOrder(ord, T)
BY DEF IsOrder

(* A set of rooms has a last one: the one with the most before it.         *)
LEMMA LastOf ==
    ASSUME NEW S \in SUBSET Room, NEW ord, IsOrder(ord, S), S # {}
    PROVE  \E x \in S : Tops(ord, S, x)
<1> DEFINE Over(x) == {y \in S : <<x, y>> \in ord}
           T == {Cardinality(Over(x)) : x \in S}
<1>1. IsFiniteSet(S) BY FS_Subset
<1>2. \A x \in S : IsFiniteSet(Over(x)) /\ Cardinality(Over(x)) \in Nat
  BY <1>1, FS_Subset, FS_CardinalityType
<1>3. T \subseteq Nat /\ T # {} BY <1>2
<1>4. PICK c \in T : \A d \in T : c <= d BY <1>3, LeastOf
<1>5. PICK x \in S : c = Cardinality(Over(x)) BY <1>4
<1>6. ASSUME NEW y \in S, <<x, y>> \in ord PROVE FALSE
  <2>1. Over(y) \subseteq Over(x) BY <1>6 DEF IsOrder
  <2>2. y \in Over(x) /\ y \notin Over(y) BY <1>6 DEF IsOrder
  <2>3. Over(y) # Over(x) BY <2>2
  <2> HIDE DEF Over
  <2>4. Cardinality(Over(y)) < Cardinality(Over(x)) BY <1>2, <2>1, <2>3, FS_Subset
  <2>5. Cardinality(Over(x)) <= Cardinality(Over(y)) BY <1>4, <1>5
  <2> QED BY <1>2, <2>4, <2>5
<1> QED BY <1>6 DEF IsOrder, Tops

(* Each room once: as many as there are.                                   *)
LEMMA IncreasingCounts ==
    ASSUME NEW s \in Seq(Room), NEW ord, IsOrder(ord, ToSet(s)), Increasing(s, ord)
    PROVE  /\ \A i, k \in 1..Len(s) : s[i] = s[k] => i = k
           /\ IsFiniteSet(ToSet(s)) /\ Cardinality(ToSet(s)) = Len(s)
<1>1. \A i \in 1..Len(s) : s[i] \in ToSet(s) BY DEF ToSet
<1>2. ASSUME NEW i \in 1..Len(s), NEW k \in 1..Len(s), s[i] = s[k] PROVE i = k
  <2>1. i < k => <<s[i], s[k]>> \in ord BY DEF Increasing
  <2>2. k < i => <<s[k], s[i]>> \in ord BY DEF Increasing
  <2>3. <<s[i], s[i]>> \notin ord BY <1>1 DEF IsOrder
  <2> QED BY <1>2, <2>1, <2>2, <2>3
<1>3. s \in Bijection(1..Len(s), ToSet(s))
  <2>1. s \in [1..Len(s) -> ToSet(s)] BY <1>1
  <2>2. \A x \in ToSet(s) : \E i \in 1..Len(s) : s[i] = x BY DEF ToSet
  <2> QED BY <1>2, <2>1, <2>2 DEF Bijection, Injection, Surjection, IsInjective
<1>4. ExistsBijection(1..Len(s), ToSet(s)) BY <1>3 DEF ExistsBijection
<1>5. Len(s) \in Nat OBVIOUS
<1> QED BY <1>2, <1>4, <1>5, FS_CountingElements, FS_NatBijection

(* There is one way to put a set of rooms in order.                        *)
LEMMA IncreasingIsOne ==
    ASSUME NEW s \in Seq(Room), NEW t \in Seq(Room), ToSet(s) = ToSet(t),
           NEW ord, IsOrder(ord, ToSet(s)), Increasing(s, ord), Increasing(t, ord)
    PROVE  s = t
<1>1. Len(s) = Len(t) BY IncreasingCounts
<1>2. \A i \in 1..Len(s) : s[i] \in ToSet(s) /\ t[i] \in ToSet(s) BY <1>1 DEF ToSet
<1>3. \A x \in ToSet(s) : (\E i \in 1..Len(s) : s[i] = x) /\ (\E k \in 1..Len(s) : t[k] = x)
  <2>1. \A x \in ToSet(t) : \E k \in 1..Len(s) : t[k] = x BY <1>1 DEF ToSet
  <2>2. \A x \in ToSet(s) : \E i \in 1..Len(s) : s[i] = x BY DEF ToSet
  <2> QED BY <2>1, <2>2
<1>4. ASSUME NEW d \in 1..Len(s), s[d] # t[d], \A i \in 1..Len(s) : s[i] # t[i] => d <= i PROVE FALSE
  <2>1. PICK k \in 1..Len(s) : t[k] = s[d] BY <1>2, <1>3
  <2>2. PICK i \in 1..Len(s) : s[i] = t[d] BY <1>2, <1>3
  <2>3. d < k /\ d < i
    <3>1. k < d => t[k] = s[k] BY <1>4
    <3>2. i < d => s[i] = t[i] BY <1>4
    <3>3. \A a, b \in 1..Len(s) : (s[a] = s[b] => a = b) /\ (t[a] = t[b] => a = b)
      BY <1>1, IncreasingCounts
    <3> QED BY <1>4, <2>1, <2>2, <3>1, <3>2, <3>3
  <2>4. <<s[d], s[i]>> \in ord /\ <<t[d], t[k]>> \in ord BY <1>1, <2>3 DEF Increasing
  <2> QED BY <1>2, <2>1, <2>2, <2>4 DEF IsOrder
<1>5. \A i \in 1..Len(s) : s[i] = t[i]
  <2> DEFINE D == {i \in 1..Len(s) : s[i] # t[i]}
  <2>1. D # {} => \E d \in D : \A i \in D : d <= i
    <3>1. D \subseteq Nat OBVIOUS
    <3> HIDE DEF D
    <3> QED BY <3>1, LeastOf
  <2> QED BY <1>4, <2>1
<1> QED BY <1>1, <1>5

----------------------------------------------------------------------------
(* The links of a level: None stands for the place before the head.        *)

After(ord, p, y) == p = None \/ <<p, y>> \in ord
NextOf(h, nx, p) == IF p = None THEN h ELSE nx[p]

IsNext(n, p, M, ord) ==
    \/ n = None /\ \A y \in M : ~After(ord, p, y)
    \/ n \in M /\ After(ord, p, n) /\ \A y \in M : After(ord, p, y) => y = n \/ <<n, y>> \in ord

Linked(h, nx, pv, M, ord) ==
    /\ \A p \in M \cup {None} : IsNext(NextOf(h, nx, p), p, M, ord)
    /\ \A y \in M : pv[y] \in M \cup {None} /\ NextOf(h, nx, pv[y]) = y
    /\ \A x \in Room \ M : nx[x] = None /\ pv[x] = None

Links == [Room -> Room \cup {None}]

(* Nothing stands before itself, and two places have different nexts.      *)
LEMMA NextIsOne ==
    ASSUME NEW M \in SUBSET Room, NEW ord, IsOrder(ord, M), NEW h, NEW nx, NEW pv,
           Linked(h, nx, pv, M, ord),
           NEW p \in M \cup {None}, NEW q \in M \cup {None},
           NextOf(h, nx, p) = NextOf(h, nx, q), NextOf(h, nx, p) # None
    PROVE  p = q
<1> DEFINE n == NextOf(h, nx, p)
<1>1. n \in M /\ After(ord, p, n) /\ After(ord, q, n) BY DEF Linked, IsNext
<1>2. \A y \in M : After(ord, p, y) \/ After(ord, q, y) => y = n \/ <<n, y>> \in ord
  BY DEF Linked, IsNext
<1> HIDE DEF n
<1>3. p # None => ~After(ord, q, p) BY <1>1, <1>2 DEF After, IsOrder
<1>4. q # None => ~After(ord, p, q) BY <1>1, <1>2 DEF After, IsOrder
<1> QED BY <1>3, <1>4 DEF After, IsOrder

(* The links once a room x is taken out, and once it is put in after p.    *)
UnlinkNext(nx, pv, x) ==
    [y \in Room |-> IF y = x THEN None ELSE IF y = pv[x] THEN nx[x] ELSE nx[y]]
UnlinkPrevious(nx, pv, x) ==
    [y \in Room |-> IF y = x THEN None ELSE IF y = nx[x] THEN pv[x] ELSE pv[y]]
LinkNext(h, nx, p, x) ==
    [y \in Room |-> IF y = x THEN NextOf(h, nx, p) ELSE IF y = p THEN x ELSE nx[y]]
LinkPrevious(h, nx, pv, p, x) ==
    [y \in Room |-> IF y = x THEN p ELSE IF y = NextOf(h, nx, p) THEN x ELSE pv[y]]

(* Taking a room out.                                                      *)
LEMMA Unlinks ==
    ASSUME NEW M \in SUBSET Room, NEW ord, IsOrder(ord, M), NEW h, NEW nx \in Links, NEW pv \in Links,
           Linked(h, nx, pv, M, ord), NEW x \in M
    PROVE  Linked(IF pv[x] = None THEN nx[x] ELSE h,
                  UnlinkNext(nx, pv, x), UnlinkPrevious(nx, pv, x), M \ {x}, ord)
<1> DEFINE h2 == IF pv[x] = None THEN nx[x] ELSE h
           nx2 == UnlinkNext(nx, pv, x)
           pv2 == UnlinkPrevious(nx, pv, x)
<1>0. /\ \A y \in Room : nx2[y] = IF y = x THEN None ELSE IF y = pv[x] THEN nx[x] ELSE nx[y]
      /\ \A y \in Room : pv2[y] = IF y = x THEN None ELSE IF y = nx[x] THEN pv[x] ELSE pv[y]
      /\ h2 = IF pv[x] = None THEN nx[x] ELSE h
  BY DEF UnlinkNext, UnlinkPrevious
<1> HIDE DEF h2, nx2, pv2
<1> DEFINE N == M \ {x}
           b == pv[x]
           n == nx[x]
<1>1. b \in M \cup {None} /\ NextOf(h, nx, b) = x BY DEF Linked
<1>2. IsNext(x, b, M, ord) BY <1>1 DEF Linked
<1>3. IsNext(n, x, M, ord) BY DEF Linked, NextOf
<1>4. x # None /\ b # x BY <1>2 DEF IsNext, After, IsOrder
<1>5. ASSUME NEW p \in N \cup {None} PROVE IsNext(NextOf(h2, nx2, p), p, N, ord)
  <2>1. CASE p = b
    <3>1. NextOf(h2, nx2, p) = n BY <2>1, <1>0, <1>4 DEF NextOf
    <3>2. IsNext(n, b, N, ord)
      <4> HIDE DEF n, b
      <4>1. b = None \/ b \in M BY <1>1
      <4> QED BY <4>1, <1>2, <1>3, <1>4 DEF IsNext, After, IsOrder
    <3> QED BY <2>1, <3>1, <3>2
  <2>2. CASE p # b
    <3>1. NextOf(h2, nx2, p) = NextOf(h, nx, p) BY <1>0, <2>2 DEF NextOf
    <3>2. NextOf(h, nx, p) # x BY <1>1, <1>4, <2>2, NextIsOne
    <3>3. IsNext(NextOf(h, nx, p), p, M, ord) BY DEF Linked
    <3> QED BY <3>1, <3>2, <3>3 DEF IsNext
  <2> QED BY <2>1, <2>2
<1>6. ASSUME NEW y \in N PROVE pv2[y] \in N \cup {None} /\ NextOf(h2, nx2, pv2[y]) = y
  <2>1. CASE y = n
    <3>1. pv2[y] = b BY <1>0, <2>1
    <3>2. NextOf(h2, nx2, b) = n BY <1>1, <1>0, <1>4 DEF NextOf
    <3> QED BY <1>1, <1>4, <2>1, <3>1, <3>2
  <2>2. CASE y # n
    <3>1. pv2[y] = pv[y] /\ pv[y] \in M \cup {None} /\ NextOf(h, nx, pv[y]) = y BY <1>0, <2>2 DEF Linked
    <3>2. pv[y] # x BY <3>1, <2>2, <1>0, <1>4 DEF NextOf
    <3>3. pv[y] # b BY <1>1, <3>1
    <3> QED BY <1>0, <3>1, <3>2, <3>3 DEF NextOf
  <2> QED BY <2>1, <2>2
<1>7. ASSUME NEW y \in Room \ N PROVE nx2[y] = None /\ pv2[y] = None
  <2>1. y # x => y # b /\ y # n /\ nx[y] = None /\ pv[y] = None
    BY <1>1, <1>3 DEF Linked, IsNext
  <2> QED BY <1>0, <2>1
<1> QED BY <1>5, <1>6, <1>7 DEF Linked, h2, nx2, pv2

(* Putting a room in after the last one that is to stand before it.        *)
LEMMA LinksIn ==
    ASSUME NEW M \in SUBSET Room, NEW x \in Room \ M, NEW ord, IsOrder(ord, M \cup {x}),
           NEW h, NEW nx \in Links, NEW pv \in Links, Linked(h, nx, pv, M, ord),
           NEW p \in M \cup {None},
           \A y \in M : <<y, x>> \in ord <=> p # None /\ (y = p \/ <<y, p>> \in ord)
    PROVE  Linked(IF p = None THEN x ELSE h,
                  LinkNext(h, nx, p, x), LinkPrevious(h, nx, pv, p, x), M \cup {x}, ord)
<1> DEFINE h2 == IF p = None THEN x ELSE h
           nx2 == LinkNext(h, nx, p, x)
           pv2 == LinkPrevious(h, nx, pv, p, x)
<1>0. /\ \A y \in Room : nx2[y] = IF y = x THEN NextOf(h, nx, p) ELSE IF y = p THEN x ELSE nx[y]
      /\ \A y \in Room : pv2[y] = IF y = x THEN p ELSE IF y = NextOf(h, nx, p) THEN x ELSE pv[y]
      /\ h2 = IF p = None THEN x ELSE h
  BY DEF LinkNext, LinkPrevious
<1> HIDE DEF h2, nx2, pv2
<1> DEFINE N == M \cup {x}
           n == NextOf(h, nx, p)
<1>1. IsNext(n, p, M, ord) /\ n # x /\ p # x /\ x # None BY DEF Linked, IsNext
<1>2. ASSUME NEW q \in N \cup {None} PROVE IsNext(NextOf(h2, nx2, q), q, N, ord)
  <2>1. CASE q = x
    <3>1. NextOf(h2, nx2, q) = n BY <2>1, <1>0, <1>1 DEF NextOf
    <3>2. IsNext(n, x, N, ord)
      <4> HIDE DEF n
      <4> QED BY <1>1 DEF IsNext, After, IsOrder
    <3> QED BY <2>1, <3>1, <3>2
  <2>2. CASE q = p
    <3>1. NextOf(h2, nx2, q) = x BY <2>2, <1>0, <1>1 DEF NextOf
    <3>2. IsNext(x, p, N, ord)
      <4>1. \A y \in M : After(ord, p, y) => <<x, y>> \in ord BY <1>1 DEF After, IsOrder
      <4>2. After(ord, p, x) BY DEF After
      <4> QED BY <4>1, <4>2 DEF IsNext
    <3> QED BY <2>2, <3>1, <3>2
  <2>3. CASE q # x /\ q # p
    <3>1. NextOf(h2, nx2, q) = NextOf(h, nx, q) /\ q \in M \cup {None} BY <1>0, <2>3 DEF NextOf
    <3>2. IsNext(NextOf(h, nx, q), q, M, ord) BY <3>1 DEF Linked
    <3>3. After(ord, q, x) => NextOf(h, nx, q) \in M /\ <<NextOf(h, nx, q), x>> \in ord
      <4>1. CASE p = None BY <4>1, <2>3, <3>1 DEF After
      <4>2. CASE p # None
        <5>1. SUFFICES ASSUME After(ord, q, x)
                       PROVE  NextOf(h, nx, q) \in M /\ <<NextOf(h, nx, q), x>> \in ord
          OBVIOUS
        <5>2. After(ord, q, p) BY <2>3, <3>1, <4>2, <5>1 DEF After
        <5>3. NextOf(h, nx, q) \in M /\ (p = NextOf(h, nx, q) \/ <<NextOf(h, nx, q), p>> \in ord)
          BY <3>2, <4>2, <5>2 DEF IsNext
        <5> QED BY <4>2, <5>3
      <4> QED BY <4>1, <4>2
    <3> QED BY <3>1, <3>2, <3>3 DEF IsNext
  <2> QED BY <2>1, <2>2, <2>3
<1>3. ASSUME NEW y \in N PROVE pv2[y] \in N \cup {None} /\ NextOf(h2, nx2, pv2[y]) = y
  <2>1. CASE y = x BY <2>1, <1>0, <1>1 DEF NextOf
  <2>2. CASE y = n BY <2>2, <1>0, <1>1 DEF NextOf
  <2>3. CASE y # x /\ y # n
    <3>1. pv2[y] = pv[y] /\ pv[y] \in M \cup {None} /\ NextOf(h, nx, pv[y]) = y BY <1>0, <2>3 DEF Linked
    <3>2. pv[y] # p /\ pv[y] # x BY <2>3, <3>1
    <3> QED BY <1>0, <3>1, <3>2 DEF NextOf
  <2> QED BY <2>1, <2>2, <2>3
<1>4. ASSUME NEW y \in Room \ N PROVE nx2[y] = None /\ pv2[y] = None
  BY <1>0, <1>1 DEF Linked, IsNext
<1> QED BY <1>2, <1>3, <1>4 DEF Linked, h2, nx2, pv2

----------------------------------------------------------------------------
(* The operations of Level.ts on a list.                                   *)

Shapes ==
    [nodes : SUBSET Room, top : Levels, size : [Levels -> Int],
     head : [Levels -> Room \cup {None}],
     next : [Levels -> Links], previous : [Levels -> Links]]

LinkedAt(list, j, M, ord) ==
    /\ Linked(list.head[j], list.next[j], list.previous[j], M, ord)
    /\ list.size[j] = Cardinality(M)

SameLevel(l, m, j) ==
    /\ l.head[j] = m.head[j] /\ l.size[j] = m.size[j]
    /\ l.next[j] = m.next[j] /\ l.previous[j] = m.previous[j]

(* A step at one level.                                                    *)
ChangesOnly(m, l, j) ==
    /\ m \in Shapes /\ m.nodes = l.nodes /\ m.top = l.top
    /\ \A i \in Levels \ {j} : SameLevel(m, l, i)

Cleared(nx, x) == [y \in Room |-> IF y = x THEN None ELSE nx[y]]

(* Linked but for the links of a room that is thrown away.                 *)
LinkedBut(list, j, M, ord, x) ==
    /\ Linked(list.head[j], Cleared(list.next[j], x), Cleared(list.previous[j], x), M, ord)
    /\ list.size[j] = Cardinality(M)

LEMMA SizesAre ==
    ASSUME NEW M \in SUBSET Room, NEW x \in Room
    PROVE  /\ Cardinality(M) \in 0..Cardinality(Room) /\ Cardinality(Room) \in Nat
           /\ x \in M => Cardinality(M \ {x}) = Cardinality(M) - 1
           /\ x \notin M => M \ {x} = M /\ Cardinality(M \cup {x}) = Cardinality(M) + 1
<1>1. IsFiniteSet(M) /\ Cardinality(M) <= Cardinality(Room) BY FS_Subset
<1>2. Cardinality(M) \in Nat /\ Cardinality(Room) \in Nat BY <1>1, FS_CardinalityType
<1>3. x \in M => Cardinality(M \ {x}) = Cardinality(M) - 1 BY <1>1, FS_RemoveElement
<1>4. x \notin M => Cardinality(M \cup {x}) = Cardinality(M) + 1 BY <1>1, FS_AddElement
<1>5. x \notin M => M \ {x} = M OBVIOUS
<1> QED BY <1>1, <1>2, <1>3, <1>4, <1>5

Relinked(l, j, h, z, nx, pv) ==
    [l EXCEPT !.head[j] = h, !.size[j] = z, !.next[j] = nx, !.previous[j] = pv]

LEMMA RelinkedIs ==
    ASSUME NEW l \in Shapes, NEW j \in Levels, NEW h \in Room \cup {None}, NEW z \in Int,
           NEW nx \in Links, NEW pv \in Links
    PROVE  /\ ChangesOnly(Relinked(l, j, h, z, nx, pv), l, j)
           /\ Relinked(l, j, h, z, nx, pv).head[j] = h /\ Relinked(l, j, h, z, nx, pv).size[j] = z
           /\ Relinked(l, j, h, z, nx, pv).next[j] = nx
           /\ Relinked(l, j, h, z, nx, pv).previous[j] = pv
<1> DEFINE m == Relinked(l, j, h, z, nx, pv)
<1>1. m = [nodes |-> l.nodes, top |-> l.top, size |-> [l.size EXCEPT ![j] = z],
           head |-> [l.head EXCEPT ![j] = h], next |-> [l.next EXCEPT ![j] = nx],
           previous |-> [l.previous EXCEPT ![j] = pv]]
  <2>1. l = [nodes |-> l.nodes, top |-> l.top, size |-> l.size,
             head |-> l.head, next |-> l.next, previous |-> l.previous]
    BY DEF Shapes
  <2>0. PICK h1, z1, n1, p1 :
            /\ h1 = [l.head EXCEPT ![j] = h] /\ z1 = [l.size EXCEPT ![j] = z]
            /\ n1 = [l.next EXCEPT ![j] = nx] /\ p1 = [l.previous EXCEPT ![j] = pv]
    OBVIOUS
  <2> DEFINE m1 == [l EXCEPT !.size = z1]
             m2 == [m1 EXCEPT !.head = h1]
             m3 == [m2 EXCEPT !.next = n1]
             m4 == [m3 EXCEPT !.previous = p1]
  <2>3. m = m4
    <3>1. m = [l EXCEPT !.size = z1, !.head = h1, !.next = n1, !.previous = p1]
      BY <2>0, <2>1 DEF Relinked
    <3> QED BY <3>1
  <2>4. m1 = [nodes |-> l.nodes, top |-> l.top, size |-> z1,
              head |-> l.head, next |-> l.next, previous |-> l.previous]
    BY <2>1
  <2> HIDE DEF m1
  <2>5. m2 = [nodes |-> l.nodes, top |-> l.top, size |-> z1,
              head |-> h1, next |-> l.next, previous |-> l.previous]
    BY <2>4
  <2> HIDE DEF m2
  <2>6. m3 = [nodes |-> l.nodes, top |-> l.top, size |-> z1,
              head |-> h1, next |-> n1, previous |-> l.previous]
    BY <2>5
  <2> HIDE DEF m3
  <2>7. m4 = [nodes |-> l.nodes, top |-> l.top, size |-> z1,
              head |-> h1, next |-> n1, previous |-> p1]
    BY <2>6
  <2> HIDE DEF m4
  <2> QED BY <2>0, <2>3, <2>7
<1>2. /\ l.nodes \in SUBSET Room /\ l.top \in Levels /\ l.size \in [Levels -> Int]
      /\ l.head \in [Levels -> Room \cup {None}]
      /\ l.next \in [Levels -> Links] /\ l.previous \in [Levels -> Links]
  BY DEF Shapes
<1> HIDE DEF m
<1>3. m \in Shapes BY <1>1, <1>2 DEF Shapes
<1>4. ChangesOnly(m, l, j) BY <1>1, <1>2, <1>3 DEF ChangesOnly, SameLevel
<1>5. m.head[j] = h /\ m.size[j] = z /\ m.next[j] = nx /\ m.previous[j] = pv BY <1>1, <1>2
<1> QED BY <1>4, <1>5 DEF m

LEMMA RemoveNodeType ==
    ASSUME NEW l \in Shapes, NEW j \in Levels, NEW x \in Room
    PROVE  LET h == l.head[j]
               nx == l.next[j]
               pv == l.previous[j]
               m == RemoveNode(l, j, x)
           IN  /\ ChangesOnly(m, l, j)
               /\ h # x /\ pv[x] = None => m = l
               /\ ~(h # x /\ pv[x] = None) =>
                    /\ m.head[j] = IF pv[x] = None THEN nx[x] ELSE h
                    /\ m.size[j] = l.size[j] - 1
                    /\ m.next[j] = IF pv[x] = None THEN nx ELSE [nx EXCEPT ![pv[x]] = nx[x]]
                    /\ m.previous[j] = IF nx[x] = None THEN pv ELSE [pv EXCEPT ![nx[x]] = pv[x]]
<1> DEFINE h == l.head[j]
           nx == l.next[j]
           pv == l.previous[j]
           m == RemoveNode(l, j, x)
           h2 == IF pv[x] = None THEN nx[x] ELSE h
           nx2 == IF pv[x] = None THEN nx ELSE [nx EXCEPT ![pv[x]] = nx[x]]
           pv2 == IF nx[x] = None THEN pv ELSE [pv EXCEPT ![nx[x]] = pv[x]]
<1>1. h \in Room \cup {None} /\ nx \in Links /\ pv \in Links /\ l.size[j] \in Int BY DEF Shapes
<1>2. h2 \in Room \cup {None} /\ nx2 \in Links /\ pv2 \in Links /\ l.size[j] - 1 \in Int
  <2> HIDE DEF h, nx, pv
  <2> QED BY <1>1 DEF Links
<1>3. CASE h # x /\ pv[x] = None
  BY <1>3 DEF RemoveNode, ChangesOnly, SameLevel
<1>4. CASE ~(h # x /\ pv[x] = None)
  <2>1. m = Relinked(l, j, h2, l.size[j] - 1, nx2, pv2)
    BY <1>4 DEF RemoveNode, Shapes, Relinked
  <2> HIDE DEF m, h2, nx2, pv2
  <2>2. /\ ChangesOnly(m, l, j)
        /\ m.head[j] = h2 /\ m.size[j] = l.size[j] - 1 /\ m.next[j] = nx2 /\ m.previous[j] = pv2
    BY <1>2, <2>1, RelinkedIs
  <2> QED BY <1>4, <2>2 DEF m, h2, nx2, pv2
<1> QED BY <1>3, <1>4

LEMMA RemoveNodeIs ==
    ASSUME NEW l \in Shapes, NEW j \in Levels, NEW x \in Room,
           NEW M \in SUBSET Room, NEW ord, IsOrder(ord, M), LinkedAt(l, j, M, ord)
    PROVE  LinkedBut(RemoveNode(l, j, x), j, M \ {x}, ord, x)
<1> DEFINE h == l.head[j]
           nx == l.next[j]
           pv == l.previous[j]
           m == RemoveNode(l, j, x)
<1>1. h \in Room \cup {None} /\ nx \in Links /\ pv \in Links /\ l.size[j] \in Int BY DEF Shapes
<1>2. Linked(h, nx, pv, M, ord) /\ l.size[j] = Cardinality(M) BY DEF LinkedAt
<1>3. CASE h # x /\ pv[x] = None
  <2>1. m = l BY <1>3, RemoveNodeType
  <2>2. x \notin M BY <1>2, <1>3 DEF Linked, NextOf
  <2>3. Cleared(nx, x) = nx /\ Cleared(pv, x) = pv BY <1>1, <1>2, <2>2 DEF Cleared, Links, Linked
  <2>4. M \ {x} = M BY <2>2
  <2> QED BY <1>2, <2>1, <2>3, <2>4 DEF LinkedBut
<1>4. CASE ~(h # x /\ pv[x] = None)
  <2>1. x \in M BY <1>2, <1>4 DEF Linked, IsNext, NextOf
  <2>2. /\ m.head[j] = IF pv[x] = None THEN nx[x] ELSE h
        /\ m.size[j] = l.size[j] - 1
        /\ m.next[j] = IF pv[x] = None THEN nx ELSE [nx EXCEPT ![pv[x]] = nx[x]]
        /\ m.previous[j] = IF nx[x] = None THEN pv ELSE [pv EXCEPT ![nx[x]] = pv[x]]
    BY <1>4, RemoveNodeType
  <2>3. /\ Cleared(m.next[j], x) = UnlinkNext(nx, pv, x)
        /\ Cleared(m.previous[j], x) = UnlinkPrevious(nx, pv, x)
    <3> HIDE DEF m, h, nx, pv
    <3> QED BY <1>1, <2>2 DEF Cleared, UnlinkNext, UnlinkPrevious, Links
  <2>4. Linked(m.head[j], Cleared(m.next[j], x), Cleared(m.previous[j], x), M \ {x}, ord)
    <3>1. Linked(IF pv[x] = None THEN nx[x] ELSE h,
                 UnlinkNext(nx, pv, x), UnlinkPrevious(nx, pv, x), M \ {x}, ord)
      <4> HIDE DEF m, h, nx, pv
      <4> QED BY <1>1, <1>2, <2>1, Unlinks
    <3> DEFINE h2 == IF pv[x] = None THEN nx[x] ELSE h
    <3>2. m.head[j] = h2 /\ Linked(h2, UnlinkNext(nx, pv, x), UnlinkPrevious(nx, pv, x), M \ {x}, ord)
      BY <2>2, <3>1
    <3> HIDE DEF m, h, nx, pv, h2
    <3> QED BY <2>3, <3>2
  <2>5. m.size[j] = Cardinality(M \ {x}) BY <1>2, <2>1, <2>2, SizesAre
  <2> QED BY <2>4, <2>5 DEF LinkedBut
<1> QED BY <1>3, <1>4

LEMMA InsertAtHeadType ==
    ASSUME NEW l \in Shapes, NEW j \in Levels, NEW x \in Room
    PROVE  LET h == l.head[j]
               m == InsertAtHead(l, j, x)
           IN  /\ ChangesOnly(m, l, j)
               /\ m.head[j] = x /\ m.size[j] = l.size[j] + 1
               /\ m.next[j] = IF h = None THEN l.next[j] ELSE [l.next[j] EXCEPT ![x] = h]
               /\ m.previous[j] = IF h = None THEN l.previous[j] ELSE [l.previous[j] EXCEPT ![h] = x]
<1> DEFINE h == l.head[j]
           nx == l.next[j]
           pv == l.previous[j]
           m == InsertAtHead(l, j, x)
           nx2 == IF h = None THEN nx ELSE [nx EXCEPT ![x] = h]
           pv2 == IF h = None THEN pv ELSE [pv EXCEPT ![h] = x]
<1>1. h \in Room \cup {None} /\ nx \in Links /\ pv \in Links /\ l.size[j] \in Int BY DEF Shapes
<1>2. nx2 \in Links /\ pv2 \in Links /\ l.size[j] + 1 \in Int
  <2> HIDE DEF h, nx, pv
  <2> QED BY <1>1 DEF Links
<1>3. m = Relinked(l, j, x, l.size[j] + 1, nx2, pv2)
  BY DEF InsertAtHead, Shapes, Relinked
<1> HIDE DEF m, nx2, pv2
<1>4. /\ ChangesOnly(m, l, j)
      /\ m.head[j] = x /\ m.size[j] = l.size[j] + 1 /\ m.next[j] = nx2 /\ m.previous[j] = pv2
  BY <1>2, <1>3, RelinkedIs
<1> QED BY <1>4 DEF m, nx2, pv2

LEMMA InsertAfterType ==
    ASSUME NEW l \in Shapes, NEW j \in Levels, NEW x \in Room, NEW p \in Room
    PROVE  LET n == l.next[j][p]
               m == InsertAfter(l, j, p, x)
           IN  /\ ChangesOnly(m, l, j)
               /\ m.head[j] = l.head[j] /\ m.size[j] = l.size[j] + 1
               /\ m.next[j] = [l.next[j] EXCEPT ![x] = n, ![p] = x]
               /\ m.previous[j] = [y \in Room |-> IF y = x THEN p ELSE IF y = n THEN x
                                                  ELSE l.previous[j][y]]
<1> DEFINE h == l.head[j]
           nx == l.next[j]
           pv == l.previous[j]
           n == nx[p]
           m == InsertAfter(l, j, p, x)
           nx2 == [nx EXCEPT ![x] = n, ![p] = x]
           pv2 == [y \in Room |-> IF y = x THEN p ELSE IF y = n THEN x ELSE pv[y]]
<1>1. h \in Room \cup {None} /\ nx \in Links /\ pv \in Links /\ l.size[j] \in Int BY DEF Shapes
<1>2. nx2 \in Links /\ pv2 \in Links /\ l.size[j] + 1 \in Int
  <2>1. n \in Room \cup {None} BY <1>1 DEF Links
  <2> HIDE DEF h, nx, pv, n
  <2> QED BY <1>1, <2>1 DEF Links
<1>3. m = Relinked(l, j, h, l.size[j] + 1, nx2, pv2)
  BY DEF InsertAfter, Shapes, Relinked
<1> HIDE DEF m, nx2, pv2
<1>4. /\ ChangesOnly(m, l, j)
      /\ m.head[j] = h /\ m.size[j] = l.size[j] + 1 /\ m.next[j] = nx2 /\ m.previous[j] = pv2
  BY <1>1, <1>2, <1>3, RelinkedIs
<1> QED BY <1>4 DEF m, nx2, pv2

(* The place p at which a room is put in.                                  *)
PutIn(l, j, p, x) == IF p = None THEN InsertAtHead(l, j, x) ELSE InsertAfter(l, j, p, x)

IsPlace(p, x, M, ord) ==
    p \in M \cup {None} /\ \A y \in M : <<y, x>> \in ord <=> p # None /\ (y = p \/ <<y, p>> \in ord)

LEMMA InsertIs ==
    ASSUME NEW l \in Shapes, NEW j \in Levels, NEW M \in SUBSET Room, NEW x \in Room \ M,
           NEW ord, IsOrder(ord, M \cup {x}), LinkedAt(l, j, M, ord), NEW p, IsPlace(p, x, M, ord)
    PROVE  LinkedAt(PutIn(l, j, p, x), j, M \cup {x}, ord)
<1> DEFINE h == l.head[j]
           nx == l.next[j]
           pv == l.previous[j]
           m == PutIn(l, j, p, x)
           n == NextOf(h, nx, p)
<1>1. h \in Room \cup {None} /\ nx \in Links /\ pv \in Links /\ l.size[j] \in Int BY DEF Shapes
<1>2. Linked(h, nx, pv, M, ord) /\ l.size[j] = Cardinality(M) BY DEF LinkedAt
<1>3. p \in M \cup {None} /\ x # None /\ nx[x] = None /\ pv[x] = None
  BY <1>2 DEF IsPlace, Linked
<1>4. /\ m.head[j] = (IF p = None THEN x ELSE h)
      /\ m.size[j] = l.size[j] + 1
      /\ m.next[j] = LinkNext(h, nx, p, x) /\ m.previous[j] = LinkPrevious(h, nx, pv, p, x)
  <2>1. CASE p = None
    <3>1. /\ m.head[j] = x /\ m.size[j] = l.size[j] + 1
          /\ m.next[j] = IF h = None THEN nx ELSE [nx EXCEPT ![x] = h]
          /\ m.previous[j] = IF h = None THEN pv ELSE [pv EXCEPT ![h] = x]
      BY <1>3, <2>1, InsertAtHeadType DEF PutIn
    <3>2. n = h /\ h # x BY <1>2, <2>1 DEF NextOf, Linked, IsNext
    <3> HIDE DEF m, n, nx, pv, h
    <3>3. m.next[j] = LinkNext(h, nx, p, x)
      BY <1>1, <1>3, <2>1, <3>1, <3>2 DEF Links, LinkNext, NextOf
    <3>4. m.previous[j] = LinkPrevious(h, nx, pv, p, x)
      <4>1. NextOf(h, nx, p) = h BY <2>1 DEF NextOf
      <4>2. CASE h = None
        <5>1. pv = [y \in Room |-> IF y = x THEN p ELSE IF y = h THEN x ELSE pv[y]]
          BY <1>1, <1>3, <2>1, <4>2 DEF Links
        <5> QED BY <3>1, <4>1, <4>2, <5>1 DEF LinkPrevious
      <4>3. CASE h # None
        <5>1. [pv EXCEPT ![h] = x] = [y \in Room |-> IF y = x THEN p ELSE IF y = h THEN x ELSE pv[y]]
          BY <1>1, <1>3, <2>1, <3>2, <4>3 DEF Links
        <5> QED BY <3>1, <4>1, <4>3, <5>1 DEF LinkPrevious
      <4> QED BY <4>2, <4>3
    <3> QED BY <2>1, <3>1, <3>3, <3>4
  <2>2. CASE p # None
    <3>0. p \in Room BY <1>3, <2>2
    <3>1. /\ m.head[j] = h /\ m.size[j] = l.size[j] + 1
          /\ m.next[j] = [nx EXCEPT ![x] = nx[p], ![p] = x]
          /\ m.previous[j] = [y \in Room |-> IF y = x THEN p ELSE IF y = nx[p] THEN x ELSE pv[y]]
      BY <2>2, <3>0, InsertAfterType DEF PutIn
    <3>2. n = nx[p] /\ p \in Room /\ p # x BY <1>3, <2>2 DEF NextOf
    <3>3. n \in Room \cup {None} BY <1>1, <3>2 DEF Links
    <3> HIDE DEF m, n, nx, pv, h
    <3>4. m.next[j] = LinkNext(h, nx, p, x)
      BY <1>1, <2>2, <3>1, <3>2, <3>3 DEF Links, LinkNext, NextOf
    <3>5. m.previous[j] = LinkPrevious(h, nx, pv, p, x)
      <4>1. NextOf(h, nx, p) = nx[p] BY <2>2 DEF NextOf
      <4> QED BY <3>1, <4>1 DEF LinkPrevious
    <3> QED BY <2>2, <3>1, <3>4, <3>5
  <2> QED BY <2>1, <2>2
<1>5. Linked(m.head[j], m.next[j], m.previous[j], M \cup {x}, ord)
  <2>1. \A y \in M : <<y, x>> \in ord <=> p # None /\ (y = p \/ <<y, p>> \in ord) BY DEF IsPlace
  <2> DEFINE h2 == IF p = None THEN x ELSE h
  <2>2. Linked(h2, LinkNext(h, nx, p, x), LinkPrevious(h, nx, pv, p, x), M \cup {x}, ord)
    <3> HIDE DEF m, h, nx, pv, n
    <3> QED BY <1>1, <1>2, <1>3, <2>1, LinksIn
  <2>3. m.head[j] = h2 BY <1>4
  <2> HIDE DEF m, h, nx, pv, n, h2
  <2> QED BY <1>4, <2>2, <2>3
<1>6. m.size[j] = Cardinality(M \cup {x}) BY <1>2, <1>4, SizesAre
<1> QED BY <1>5, <1>6 DEF LinkedAt

----------------------------------------------------------------------------
(* A list is kept when each level links its rooms, M[j], in one order.     *)

IsKept(l, M, ord) ==
    /\ l \in Shapes
    /\ M \in [Levels -> SUBSET Room]
    /\ M[0] = l.nodes
    /\ \A i, j \in Levels : i <= j => M[j] \subseteq M[i]
    /\ \A j \in Levels : j > l.top => M[j] = {}
    /\ IsOrder(ord, l.nodes)
    /\ \A j \in Levels : LinkedAt(l, j, M[j], ord)

Kept(l) == \E M, ord : IsKept(l, M, ord)

(* The levels of a list are done one after another, from level 0.          *)
LevelIteration(f, n, V, v, F) ==
    /\ f \in [-1..(n - 1) -> V]
    /\ f = [k \in -1..(n - 1) |-> IF k = -1 THEN v ELSE F[<<k, f[k - 1]>>]]
    /\ f[-1] = v /\ \A k \in 0..(n - 1) : f[k] = F[<<k, f[k - 1]>>]

LEMMA IteratesLevels ==
    ASSUME NEW n \in Nat, NEW V, NEW v \in V, NEW F, Does(F, 0..(n - 1), V)
    PROVE  \E f : LevelIteration(f, n, V, v, F)
<1> DEFINE G == [p \in (1..n) \X V |-> F[<<p[1] - 1, p[2]>>]]
<1>1. Does(G, 1..n, V)
  <2>1. \A p \in (1..n) \X V : <<p[1] - 1, p[2]>> \in (0..(n - 1)) \X V OBVIOUS
  <2> QED BY <2>1 DEF Does
<1>2. \A k \in 1..n, u \in V : G[<<k, u>>] = F[<<k - 1, u>>] OBVIOUS
<1> HIDE DEF G
<1>3. PICK g : g \in [0..n -> V] /\ g[0] = v /\ \A k \in 1..n : g[k] = G[<<k, g[k - 1]>>]
  BY <1>1, Iterates DEF Iteration
<1> DEFINE f == [k \in -1..(n - 1) |-> g[k + 1]]
<1>4. f \in [-1..(n - 1) -> V]
  <2>1. \A k \in -1..(n - 1) : k + 1 \in 0..n OBVIOUS
  <2> QED BY <1>3, <2>1
<1>5. f[-1] = v BY <1>3
<1>6. ASSUME NEW k \in 0..(n - 1) PROVE f[k] = F[<<k, f[k - 1]>>]
  <2>1. k + 1 \in 1..n /\ k \in 0..n /\ k - 1 \in -1..(n - 1) /\ (k + 1) - 1 = k /\ (k - 1) + 1 = k
    OBVIOUS
  <2>2. f[k] = g[k + 1] /\ f[k - 1] = g[k] BY <2>1
  <2>3. g[k + 1] = G[<<k + 1, g[k]>>]
    <3>1. g[k + 1] = G[<<k + 1, g[(k + 1) - 1]>>] BY <1>3, <2>1
    <3> QED BY <2>1, <3>1
  <2>4. g[k] \in V BY <1>3, <2>1
  <2>5. G[<<k + 1, g[k]>>] = F[<<(k + 1) - 1, g[k]>>] BY <1>2, <2>1, <2>4
  <2> QED BY <2>1, <2>2, <2>3, <2>5
<1> HIDE DEF f
<1>7. f = [k \in -1..(n - 1) |-> IF k = -1 THEN v ELSE F[<<k, f[k - 1]>>]]
  <2>1. \A k \in -1..(n - 1) : f[k] = IF k = -1 THEN v ELSE F[<<k, f[k - 1]>>]
    <3>1. TAKE k \in -1..(n - 1)
    <3>2. k = -1 \/ k \in 0..(n - 1) OBVIOUS
    <3>3. k \in 0..(n - 1) => k # -1 OBVIOUS
    <3> QED BY <1>5, <1>6, <3>2, <3>3
  <2> QED BY <1>4, <2>1
<1> QED BY <1>4, <1>5, <1>6, <1>7 DEF LevelIteration

LEMMA SameLevelIs ==
    ASSUME NEW l, NEW m, NEW j, SameLevel(m, l, j), NEW M, NEW ord, NEW x
    PROVE  /\ LinkedAt(l, j, M, ord) => LinkedAt(m, j, M, ord)
           /\ LinkedBut(l, j, M, ord, x) => LinkedBut(m, j, M, ord, x)
BY DEF SameLevel, LinkedAt, LinkedBut

----------------------------------------------------------------------------
(* removeRoom                                                              *)

Without(M, x) == [j \in Levels |-> M[j] \ {x}]

(* The levels up to k are done.                                            *)
RemovedTo(m, l, k, M, ord, x) ==
    /\ m \in Shapes /\ m.nodes = l.nodes /\ m.top = l.top
    /\ \A i \in Levels : i <= k => LinkedBut(m, i, M[i] \ {x}, ord, x)
    /\ \A i \in Levels : i > k => SameLevel(m, l, i)

LEMMA RemovedStep ==
    ASSUME NEW l, NEW M, NEW ord, IsKept(l, M, ord), NEW x \in Room,
           NEW k \in Levels, NEW m, RemovedTo(m, l, k - 1, M, ord, x)
    PROVE  RemovedTo(RemoveNode(m, k, x), l, k, M, ord, x)
<1> DEFINE m2 == RemoveNode(m, k, x)
<1>0. m \in Shapes /\ M[k] \in SUBSET Room /\ IsOrder(ord, M[k])
  BY PartIsOrder DEF IsKept, RemovedTo, Levels
<1>1. ChangesOnly(m2, m, k) BY <1>0, RemoveNodeType
<1>2. LinkedAt(m, k, M[k], ord)
  <2>1. SameLevel(m, l, k) BY DEF RemovedTo, Levels
  <2> QED BY <2>1, SameLevelIs DEF IsKept
<1>3. LinkedBut(m2, k, M[k] \ {x}, ord, x) BY <1>0, <1>2, RemoveNodeIs
<1> HIDE DEF m2
<1>4. ASSUME NEW i \in Levels, i <= k PROVE LinkedBut(m2, i, M[i] \ {x}, ord, x)
  <2>1. CASE i = k BY <1>3, <2>1
  <2>2. CASE i # k
    <3>1. i <= k - 1 BY <1>4, <2>2 DEF Levels
    <3>2. LinkedBut(m, i, M[i] \ {x}, ord, x) BY <3>1 DEF RemovedTo
    <3>3. SameLevel(m2, m, i) BY <1>1, <2>2 DEF ChangesOnly
    <3> QED BY <3>2, <3>3, SameLevelIs
  <2> QED BY <2>1, <2>2
<1>5. ASSUME NEW i \in Levels, i > k PROVE SameLevel(m2, l, i)
  <2>1. i > k - 1 /\ i # k BY <1>5 DEF Levels
  <2>2. SameLevel(m, l, i) BY <2>1 DEF RemovedTo
  <2>3. SameLevel(m2, m, i) BY <1>1, <2>1 DEF ChangesOnly
  <2> QED BY <2>2, <2>3 DEF SameLevel
<1>6. m2 \in Shapes /\ m2.nodes = l.nodes /\ m2.top = l.top BY <1>1 DEF ChangesOnly, RemovedTo
<1> QED BY <1>4, <1>5, <1>6 DEF RemovedTo, m2

LEMMA RemoveRoomIs ==
    ASSUME NEW l, NEW M, NEW ord, IsKept(l, M, ord), NEW x \in Room
    PROVE  /\ IsKept(RemoveRoom(l, x), Without(M, x), ord)
           /\ RemoveRoom(l, x).nodes = l.nodes \ {x} /\ RemoveRoom(l, x).top = l.top
<1>0. l \in Shapes /\ l.top \in Levels /\ l.nodes \in SUBSET Room BY DEF IsKept, Shapes
<1>1. CASE x \notin l.nodes
  <2>1. \A j \in Levels : M[j] \subseteq l.nodes BY DEF IsKept, Levels
  <2>2. M = Without(M, x) BY <1>1, <2>1 DEF IsKept, Without
  <2>3. RemoveRoom(l, x) = l BY <1>1 DEF RemoveRoom
  <2> QED BY <1>1, <2>2, <2>3
<1>2. CASE x \in l.nodes
  <2> DEFINE n == l.top + 1
             F == [p \in (0..(n - 1)) \X Shapes |-> RemoveNode(p[2], p[1], x)]
  <2>1. n \in Nat /\ n - 1 = l.top /\ 0..l.top \subseteq Levels BY <1>0 DEF Levels
  <2>2. Does(F, 0..(n - 1), Shapes)
    <3>1. \A p \in (0..(n - 1)) \X Shapes : RemoveNode(p[2], p[1], x) \in Shapes
      <4>1. TAKE p \in (0..(n - 1)) \X Shapes
      <4>2. p[2] \in Shapes /\ p[1] \in Levels BY <2>1
      <4>3. ChangesOnly(RemoveNode(p[2], p[1], x), p[2], p[1]) BY <4>2, RemoveNodeType
      <4> QED BY <4>3 DEF ChangesOnly
    <3> QED BY <3>1 DEF Does
  <2>3. \A k \in 0..(n - 1), m \in Shapes : F[<<k, m>>] = RemoveNode(m, k, x) OBVIOUS
  <2> HIDE DEF F
  <2> DEFINE Is(f) == f = [j \in -1..l.top |-> IF j = -1 THEN l ELSE RemoveNode(f[j - 1], j, x)]
  <2>4. \E f : Is(f)
    <3>0. PICK f : LevelIteration(f, n, Shapes, l, F) BY <1>0, <2>1, <2>2, IteratesLevels
    <3>1. f \in [-1..(n - 1) -> Shapes]
          /\ f = [k \in -1..(n - 1) |-> IF k = -1 THEN l ELSE F[<<k, f[k - 1]>>]]
      BY <3>0 DEF LevelIteration
    <3>2. \A k \in -1..(n - 1) : k # -1 => k \in 0..(n - 1) /\ k - 1 \in -1..(n - 1) BY <2>1
    <3>3. \A k \in -1..(n - 1) : k # -1 => F[<<k, f[k - 1]>>] = RemoveNode(f[k - 1], k, x)
      BY <2>3, <3>1, <3>2
    <3>4. [k \in -1..(n - 1) |-> IF k = -1 THEN l ELSE F[<<k, f[k - 1]>>]]
            = [k \in -1..(n - 1) |-> IF k = -1 THEN l ELSE RemoveNode(f[k - 1], k, x)]
      BY <3>3
    <3> QED BY <2>1, <3>1, <3>4
  <2> DEFINE g == CHOOSE f : Is(f)
  <2>5. Is(g)
    <3> HIDE DEF Is
    <3> QED BY <2>4
  <2> HIDE DEF g
  <2>6. g[-1] = l /\ \A k \in 0..l.top : g[k] = RemoveNode(g[k - 1], k, x)
    <3>1. -1 \in -1..l.top /\ \A k \in 0..l.top : k \in -1..l.top /\ k # -1 BY <1>0 DEF Levels
    <3> QED BY <2>5, <3>1
  <2> DEFINE T == {k \in 0..n : RemovedTo(g[k - 1], l, k - 1, M, ord, x)}
  <2>7. 0 \in T
    <3>1. RemovedTo(l, l, -1, M, ord, x) BY <1>0 DEF RemovedTo, SameLevel, Levels
    <3> QED BY <2>1, <2>6, <3>1
  <2>8. ASSUME NEW k \in 1..n, k - 1 \in T PROVE k \in T
    <3>1. k - 1 \in Levels /\ k - 1 \in 0..l.top /\ k \in 0..n BY <2>1
    <3>2. RemovedTo(g[(k - 1) - 1], l, (k - 1) - 1, M, ord, x) BY <2>8
    <3>3. g[k - 1] = RemoveNode(g[(k - 1) - 1], k - 1, x) BY <2>6, <3>1
    <3>4. RemovedTo(g[k - 1], l, k - 1, M, ord, x) BY <3>1, <3>2, <3>3, RemovedStep
    <3> QED BY <3>1, <3>4
  <2> HIDE DEF T
  <2>9. n \in T
    <3>1. 0..n \subseteq T BY <2>1, <2>7, <2>8, StepsUp
    <3> QED BY <2>1, <3>1
  <2>10. PICK m : m = g[l.top] OBVIOUS
  <2>11. RemovedTo(m, l, l.top, M, ord, x) BY <2>1, <2>9, <2>10 DEF T
  <2> DEFINE r == RemoveRoom(l, x)
  <2>12. r = [m EXCEPT !.nodes = @ \ {x},
                       !.next = [j \in Levels |-> [@[j] EXCEPT ![x] = None]],
                       !.previous = [j \in Levels |-> [@[j] EXCEPT ![x] = None]]]
    BY <1>2, <2>10 DEF RemoveRoom, g
  <2> HIDE DEF r
  <2>13. m \in Shapes /\ m.next \in [Levels -> Links] /\ m.previous \in [Levels -> Links]
         /\ m.nodes = l.nodes /\ m.top = l.top /\ m.size \in [Levels -> Int]
         /\ m.head \in [Levels -> Room \cup {None}]
    BY <2>11 DEF RemovedTo, Shapes
  <2>14. r = [nodes |-> l.nodes \ {x}, top |-> l.top, size |-> m.size, head |-> m.head,
              next |-> [j \in Levels |-> Cleared(m.next[j], x)],
              previous |-> [j \in Levels |-> Cleared(m.previous[j], x)]]
    <3>1. PICK nx, pv : nx = [j \in Levels |-> [m.next[j] EXCEPT ![x] = None]]
                        /\ pv = [j \in Levels |-> [m.previous[j] EXCEPT ![x] = None]]
      OBVIOUS
    <3>2. \A j \in Levels : nx[j] = Cleared(m.next[j], x) /\ pv[j] = Cleared(m.previous[j], x)
      BY <2>13, <3>1 DEF Links, Cleared
    <3>3. nx = [j \in Levels |-> Cleared(m.next[j], x)] /\ pv = [j \in Levels |-> Cleared(m.previous[j], x)]
      BY <3>1, <3>2
    <3>4. r = [m EXCEPT !.nodes = l.nodes \ {x}, !.next = nx, !.previous = pv]
      BY <2>12, <2>13, <3>1
    <3> DEFINE m1 == [m EXCEPT !.nodes = l.nodes \ {x}]
               m2 == [m1 EXCEPT !.next = nx]
               m3 == [m2 EXCEPT !.previous = pv]
    <3>5. r = m3 BY <3>4
    <3>6. m1 = [nodes |-> l.nodes \ {x}, top |-> l.top, size |-> m.size, head |-> m.head,
                next |-> m.next, previous |-> m.previous]
      BY <2>13 DEF Shapes
    <3> HIDE DEF m1
    <3>7. m2 = [nodes |-> l.nodes \ {x}, top |-> l.top, size |-> m.size, head |-> m.head,
                next |-> nx, previous |-> m.previous]
      BY <3>6
    <3> HIDE DEF m2
    <3>8. m3 = [nodes |-> l.nodes \ {x}, top |-> l.top, size |-> m.size, head |-> m.head,
                next |-> nx, previous |-> pv]
      BY <3>7
    <3> HIDE DEF m3
    <3> QED BY <3>3, <3>5, <3>8
  <2>15. r \in Shapes
    <3>1. \A j \in Levels : Cleared(m.next[j], x) \in Links /\ Cleared(m.previous[j], x) \in Links
      BY <2>13 DEF Links, Cleared
    <3> QED BY <1>0, <2>13, <2>14, <3>1 DEF Shapes
  <2>16. ASSUME NEW j \in Levels PROVE LinkedAt(r, j, M[j] \ {x}, ord)
    <3>1. LinkedBut(m, j, M[j] \ {x}, ord, x)
      <4>1. CASE j <= l.top BY <2>11, <4>1 DEF RemovedTo
      <4>2. CASE ~(j <= l.top)
        <5>0. j > l.top BY <4>2, <1>0 DEF Levels
        <5>1. M[j] \ {x} = M[j] BY <5>0 DEF IsKept
        <5>2. SameLevel(m, l, j) BY <2>11, <5>0 DEF RemovedTo
        <5>3. LinkedAt(m, j, M[j], ord) BY <5>2, SameLevelIs DEF IsKept
        <5>4. x \in Room \ M[j] BY <5>1
        <5>5. m.next[j] \in Links /\ m.previous[j] \in Links BY <2>13
        <5>6. Linked(m.head[j], m.next[j], m.previous[j], M[j], ord) BY <5>3 DEF LinkedAt
        <5>7. Cleared(m.next[j], x) = m.next[j] /\ Cleared(m.previous[j], x) = m.previous[j]
          BY <5>4, <5>5, <5>6 DEF Cleared, Links, Linked
        <5> QED BY <5>1, <5>3, <5>7 DEF LinkedBut, LinkedAt
      <4> QED BY <4>1, <4>2
    <3>2. r.head[j] = m.head[j] /\ r.size[j] = m.size[j] /\ r.next[j] = Cleared(m.next[j], x)
          /\ r.previous[j] = Cleared(m.previous[j], x)
      BY <2>14
    <3> QED BY <3>1, <3>2 DEF LinkedBut, LinkedAt
  <2>17. r.nodes = l.nodes \ {x} /\ r.top = l.top BY <2>14
  <2>18. IsKept(r, Without(M, x), ord)
    <3>1. Without(M, x) \in [Levels -> SUBSET Room] /\ \A j \in Levels : Without(M, x)[j] = M[j] \ {x}
      BY DEF IsKept, Without
    <3>2. IsOrder(ord, r.nodes) BY <2>17, PartIsOrder DEF IsKept
    <3>3. 0 \in Levels BY DEF Levels
    <3> QED BY <2>15, <2>16, <2>17, <3>1, <3>2, <3>3 DEF IsKept
  <2> QED BY <2>17, <2>18 DEF r
<1> QED BY <1>1, <1>2

----------------------------------------------------------------------------
(* The search of a level goes on as long as the next room ranks lower.     *)

Goes(l, j, x, key, p) ==
    LET c == NextOf(l.head[j], l.next[j], p) IN c # None /\ key[c] < key[x]

(* Where a search from p stops: what it passes ranks lower, the next does  *)
(* not.                                                                    *)
Stops(q, l, j, M, ord, x, key, p) ==
    /\ q = p \/ (q \in M /\ After(ord, p, q))
    /\ \A y \in M : After(ord, p, y) /\ q # None /\ (y = q \/ <<y, q>> \in ord) => key[y] < key[x]
    /\ ~Goes(l, j, x, key, q)

(* What is passed on to the next room is passed on for ever.               *)
LEMMA WalksEnd ==
    ASSUME NEW M \in SUBSET Room, NEW ord, IsOrder(ord, M), NEW h, NEW nx, NEW pv,
           Linked(h, nx, pv, M, ord), NEW B \in SUBSET (M \cup {None}),
           \A p \in B : NextOf(h, nx, p) \in B \cap M
    PROVE  B = {}
<1> SUFFICES ASSUME B # {} PROVE FALSE OBVIOUS
<1>1. B \cap M # {} OBVIOUS
<1>2. B \cap M \in SUBSET Room /\ IsOrder(ord, B \cap M) BY PartIsOrder
<1>3. PICK t \in B \cap M : Tops(ord, B \cap M, t) BY <1>1, <1>2, LastOf
<1>4. PICK n : n = NextOf(h, nx, t) OBVIOUS
<1>5. n \in B \cap M /\ IsNext(n, t, M, ord) BY <1>4 DEF Linked
<1>6. <<t, n>> \in ord BY <1>5 DEF IsNext, After
<1>7. n = t \/ <<n, t>> \in ord BY <1>3, <1>5 DEF Tops
<1> QED BY <1>5, <1>6, <1>7 DEF IsOrder

LEMMA StopIsOne ==
    ASSUME NEW l, NEW j, NEW M \in SUBSET Room, NEW ord, IsOrder(ord, M), LinkedAt(l, j, M, ord),
           NEW x, NEW key, NEW p \in M \cup {None}, NEW q, NEW r,
           Stops(q, l, j, M, ord, x, key, p), Stops(r, l, j, M, ord, x, key, p)
    PROVE  q = r
<1>1. \A p1 \in M \cup {None} : IsNext(NextOf(l.head[j], l.next[j], p1), p1, M, ord)
  BY DEF LinkedAt, Linked
<1>2. ASSUME NEW a, NEW b, Stops(a, l, j, M, ord, x, key, p), Stops(b, l, j, M, ord, x, key, p),
             b \in M, After(ord, a, b)
      PROVE  FALSE
  <2>1. a \in M \cup {None} /\ b # None BY <1>2 DEF Stops
  <2>2. PICK n : n = NextOf(l.head[j], l.next[j], a) OBVIOUS
  <2>3. IsNext(n, a, M, ord) BY <1>1, <2>1, <2>2
  <2>4. n \in M /\ After(ord, a, n) /\ (b = n \/ <<n, b>> \in ord) BY <1>2, <2>3 DEF IsNext
  <2>5. After(ord, p, n) BY <1>2, <2>1, <2>4 DEF Stops, After, IsOrder
  <2>6. key[n] < key[x] BY <1>2, <2>1, <2>4, <2>5 DEF Stops
  <2>7. n # None BY <2>4
  <2> QED BY <1>2, <2>2, <2>6, <2>7 DEF Stops, Goes
<1>3. q \in M \cup {None} /\ r \in M \cup {None} BY DEF Stops
<1>4. q = r \/ (r \in M /\ After(ord, q, r)) \/ (q \in M /\ After(ord, r, q))
  BY <1>3 DEF After, IsOrder
<1> QED BY <1>2, <1>4

LEMMA StopsThere ==
    ASSUME NEW l, NEW j, NEW M \in SUBSET Room, NEW ord, IsOrder(ord, M),
           NEW x, NEW key, NEW p \in M \cup {None}, ~Goes(l, j, x, key, p)
    PROVE  Stops(p, l, j, M, ord, x, key, p)
<1>1. \A y \in M : ~(After(ord, p, y) /\ p # None /\ (y = p \/ <<y, p>> \in ord))
  BY DEF After, IsOrder
<1> QED BY <1>1 DEF Stops

(* A search that goes on stops where it would from the next room.          *)
LEMMA StopGoesOn ==
    ASSUME NEW l, NEW j, NEW M \in SUBSET Room, NEW ord, IsOrder(ord, M), LinkedAt(l, j, M, ord),
           NEW x, NEW key, NEW p \in M \cup {None}, Goes(l, j, x, key, p), NEW q
    PROVE  LET c == NextOf(l.head[j], l.next[j], p)
           IN  c \in M /\ (Stops(q, l, j, M, ord, x, key, c) => Stops(q, l, j, M, ord, x, key, p))
<1>1. PICK c : c = NextOf(l.head[j], l.next[j], p) OBVIOUS
<1>2. IsNext(c, p, M, ord) /\ c # None /\ key[c] < key[x] BY <1>1 DEF LinkedAt, Linked, Goes
<1>3. c \in M /\ After(ord, p, c) /\ \A y \in M : After(ord, p, y) => y = c \/ <<c, y>> \in ord
  BY <1>2 DEF IsNext
<1>4. ASSUME Stops(q, l, j, M, ord, x, key, c) PROVE Stops(q, l, j, M, ord, x, key, p)
  <2>1. q \in M BY <1>3, <1>4 DEF Stops
  <2>2. After(ord, p, q) BY <1>2, <1>3, <1>4, <2>1 DEF Stops, After, IsOrder
  <2>3. \A y \in M : y # c /\ After(ord, p, y) /\ q # None /\ (y = q \/ <<y, q>> \in ord) => key[y] < key[x]
    BY <1>2, <1>3, <1>4 DEF Stops, After
  <2> QED BY <1>2, <1>4, <2>1, <2>2, <2>3 DEF Stops
<1> QED BY <1>1, <1>3, <1>4

LEMMA StopIs ==
    ASSUME NEW l, NEW j, NEW M \in SUBSET Room, NEW ord, IsOrder(ord, M), LinkedAt(l, j, M, ord),
           NEW x, NEW key, NEW p \in M \cup {None}
    PROVE  \E q : Stops(q, l, j, M, ord, x, key, p)
<1> DEFINE B == {b \in M \cup {None} : ~ \E q : Stops(q, l, j, M, ord, x, key, b)}
<1>1. ASSUME NEW b \in B PROVE NextOf(l.head[j], l.next[j], b) \in B \cap M
  <2>1. Goes(l, j, x, key, b) BY StopsThere
  <2>2. PICK c : c = NextOf(l.head[j], l.next[j], b) OBVIOUS
  <2>3. c \in M /\ \A q : Stops(q, l, j, M, ord, x, key, c) => Stops(q, l, j, M, ord, x, key, b)
    BY <2>1, <2>2, StopGoesOn
  <2> QED BY <2>2, <2>3
<1> HIDE DEF B
<1>2. B \in SUBSET (M \cup {None}) BY DEF B
<1>3. Linked(l.head[j], l.next[j], l.previous[j], M, ord) BY DEF LinkedAt
<1>4. B = {} BY <1>1, <1>2, <1>3, WalksEnd
<1> QED BY <1>4 DEF B

LEMMA SearchIs ==
    ASSUME NEW l \in Shapes, NEW j \in Levels, NEW M \in SUBSET Room, NEW ord, IsOrder(ord, M),
           LinkedAt(l, j, M, ord), NEW x \in Room, NEW key, NEW p \in Room \cup {None}
    PROVE  /\ Search(l, j, p, x, key) \in Room \cup {None}
           /\ p \in M \cup {None} => Stops(Search(l, j, p, x, key), l, j, M, ord, x, key, p)
<1> DEFINE h == l.head[j]
           nx == l.next[j]
           Is(w) == w = [b \in Room \cup {None} |->
                           LET c == IF b = None THEN l.head[j] ELSE l.next[j][b]
                           IN IF c # None /\ key[c] < key[x] THEN w[c] ELSE b]
           w1 == [b \in Room \cup {None} |->
                    IF b \in M \cup {None} THEN CHOOSE q : Stops(q, l, j, M, ord, x, key, b) ELSE b]
           g == CHOOSE w : Is(w)
           N(b) == NextOf(h, nx, b)
<1>0. h \in Room \cup {None} /\ nx \in Links BY DEF Shapes
<1>1. \A b \in M \cup {None} : Stops(w1[b], l, j, M, ord, x, key, b) BY StopIs
<1>2. \A b \in Room \ M : w1[b] = b /\ N(b) = None BY DEF LinkedAt, Linked, NextOf
<1> HIDE DEF w1
<1>3. ASSUME NEW b \in Room \cup {None}
      PROVE  w1[b] = IF Goes(l, j, x, key, b) THEN w1[N(b)] ELSE b
  <2>1. CASE b \in M \cup {None} /\ Goes(l, j, x, key, b)
    <3>1. PICK c : c = N(b) OBVIOUS
    <3>2. c \in M /\ \A q : Stops(q, l, j, M, ord, x, key, c) => Stops(q, l, j, M, ord, x, key, b)
      BY <2>1, <3>1, StopGoesOn
    <3>3. Stops(w1[c], l, j, M, ord, x, key, b) BY <1>1, <3>2
    <3>4. w1[c] = w1[b] BY <1>1, <2>1, <3>3, StopIsOne
    <3> QED BY <2>1, <3>1, <3>4
  <2>2. CASE b \in M \cup {None} /\ ~Goes(l, j, x, key, b)
    <3>2. Stops(b, l, j, M, ord, x, key, b) BY <2>2, StopsThere
    <3>3. w1[b] = b BY <1>1, <2>2, <3>2, StopIsOne
    <3> QED BY <2>2, <3>3
  <2>3. CASE b \in Room \ M BY <2>3, <1>2 DEF Goes
  <2> QED BY <2>1, <2>2, <2>3
<1>4. Is(w1)
  <2>1. w1 = [b \in Room \cup {None} |-> w1[b]] BY DEF w1
  <2>2. w1 = [b \in Room \cup {None} |-> IF Goes(l, j, x, key, b) THEN w1[N(b)] ELSE b]
    BY <1>3, <2>1
  <2> QED BY <2>2 DEF Goes, NextOf
<1>5. Is(g)
  <2> HIDE DEF Is
  <2> QED BY <1>4
<1> HIDE DEF g
<1>6. \A b \in Room \cup {None} : g[b] = IF Goes(l, j, x, key, b) THEN g[N(b)] ELSE b
  BY <1>5 DEF Goes, NextOf
<1>7. \A b \in M \cup {None} : Stops(g[b], l, j, M, ord, x, key, b)
  <2> DEFINE B == {b \in M \cup {None} : ~Stops(g[b], l, j, M, ord, x, key, b)}
  <2>1. ASSUME NEW b \in B PROVE NextOf(h, nx, b) \in B \cap M
    <3>1. Goes(l, j, x, key, b)
      <4>1. b \in M \cup {None} /\ b \in Room \cup {None} OBVIOUS
      <4>2. ~Goes(l, j, x, key, b) => Stops(b, l, j, M, ord, x, key, b) BY <4>1, StopsThere
      <4> QED BY <1>6, <4>1, <4>2
    <3>2. PICK c : c = N(b) OBVIOUS
    <3>3. c \in M /\ \A q : Stops(q, l, j, M, ord, x, key, c) => Stops(q, l, j, M, ord, x, key, b)
      BY <3>1, <3>2, StopGoesOn
    <3>4. g[b] = g[c] BY <1>6, <3>1, <3>2
    <3> QED BY <3>2, <3>3, <3>4
  <2> HIDE DEF B
  <2>2. B \in SUBSET (M \cup {None}) BY DEF B
  <2>3. Linked(h, nx, l.previous[j], M, ord) BY DEF LinkedAt
  <2> HIDE DEF h, nx
  <2>4. B = {} BY <2>1, <2>2, <2>3, WalksEnd
  <2> QED BY <2>4 DEF B
<1>8. \A b \in Room \ M : g[b] = b BY <1>2, <1>6 DEF Goes
<1>9. Search(l, j, p, x, key) = g[p] BY DEF Search, g
<1>10. g[p] \in Room \cup {None}
  <2>1. p \in M \cup {None} => g[p] \in M \cup {None} BY <1>7 DEF Stops
  <2> QED BY <1>8, <2>1
<1> QED BY <1>7, <1>9, <1>10

----------------------------------------------------------------------------
(* The search of all levels, from the top one down.                        *)

FromAbove(at, l, j) == IF j = l.top THEN None ELSE at[j + 1]

Descends(at, l, M, ord, x, key) ==
    \A j \in 0..l.top :
        /\ at[j] \in M[j] \cup {None} /\ FromAbove(at, l, j) \in M[j] \cup {None}
        /\ Stops(at[j], l, j, M[j], ord, x, key, FromAbove(at, l, j))

LEMMA KeptLevels ==
    ASSUME NEW l, NEW M, NEW ord, IsKept(l, M, ord)
    PROVE  /\ l \in Shapes /\ l.top \in Nat /\ l.top <= MaxLevel /\ 0..l.top \subseteq Levels
           /\ \A j \in Levels : /\ M[j] \in SUBSET Room /\ M[j] \subseteq l.nodes
                                /\ IsOrder(ord, M[j]) /\ LinkedAt(l, j, M[j], ord)
<1>1. l \in Shapes /\ l.top \in Levels /\ 0 \in Levels BY DEF IsKept, Shapes, Levels
<1>2. \A j \in Levels : M[j] \in SUBSET Room /\ M[j] \subseteq l.nodes /\ LinkedAt(l, j, M[j], ord)
  BY <1>1 DEF IsKept, Levels
<1>3. \A j \in Levels : IsOrder(ord, M[j]) BY <1>2, PartIsOrder DEF IsKept
<1> QED BY <1>1, <1>2, <1>3 DEF Levels

LEMMA InsertionNodesIs ==
    ASSUME NEW l, NEW M, NEW ord, IsKept(l, M, ord), NEW x \in Room, NEW key
    PROVE  Descends(InsertionNodes(l, x, key), l, M, ord, x, key)
<1> DEFINE t == l.top
           V == Room \cup {None}
           F == [p \in (1..t) \X V |-> Search(l, t - p[1], p[2], x, key)]
           Is(w) == w = [j \in 0..l.top |-> Search(l, j, IF j = l.top THEN None ELSE w[j + 1], x, key)]
           at == CHOOSE w : Is(w)
<1>1. l \in Shapes /\ t \in Nat /\ 0..t \subseteq Levels
      /\ \A j \in Levels : M[j] \in SUBSET Room /\ IsOrder(ord, M[j]) /\ LinkedAt(l, j, M[j], ord)
  BY KeptLevels
<1> HIDE DEF t
<1>2. \A j \in 0..t, p \in V :
         /\ Search(l, j, p, x, key) \in V
         /\ p \in M[j] \cup {None} => Stops(Search(l, j, p, x, key), l, j, M[j], ord, x, key, p)
  <2>1. TAKE j \in 0..t, p \in V
  <2>2. j \in Levels BY <1>1
  <2> QED BY <1>1, <2>2, SearchIs
<1>3. Does(F, 1..t, V)
  <2>1. \A p \in (1..t) \X V : t - p[1] \in 0..t /\ p[2] \in V BY <1>1
  <2> QED BY <1>2, <2>1 DEF Does
<1>4. \A k \in 1..t, p \in V : F[<<k, p>>] = Search(l, t - k, p, x, key) OBVIOUS
<1> HIDE DEF F
<1>5. Search(l, t, None, x, key) \in V BY <1>1, <1>2
<1>6. PICK f : f \in [0..t -> V] /\ f[0] = Search(l, t, None, x, key)
               /\ \A k \in 1..t : f[k] = F[<<k, f[k - 1]>>]
  <2> HIDE DEF V
  <2> QED BY <1>1, <1>3, <1>5, Iterates DEF Iteration
<1>7. \E w : Is(w)
  <2> DEFINE w == [j \in 0..t |-> f[t - j]]
  <2>1. \A j \in 0..t : w[j] = f[t - j] OBVIOUS
  <2>2. ASSUME NEW j \in 0..t PROVE w[j] = Search(l, j, IF j = t THEN None ELSE w[j + 1], x, key)
    <3>1. CASE j = t BY <1>1, <1>6, <2>1, <3>1
    <3>2. CASE j # t
      <4>1. t - j \in 1..t /\ j + 1 \in 0..t /\ (t - j) - 1 = t - (j + 1) /\ t - (t - j) = j
            /\ (t - j) - 1 \in 0..t
        BY <1>1, <3>2
      <4>2. f[t - j] = F[<<t - j, f[(t - j) - 1]>>] BY <1>6, <4>1
      <4>3. f[(t - j) - 1] \in V BY <1>6, <4>1
      <4>4. f[t - j] = Search(l, t - (t - j), f[(t - j) - 1], x, key) BY <1>4, <4>1, <4>2, <4>3
      <4>5. w[j] = f[t - j] /\ w[j + 1] = f[t - (j + 1)] BY <2>1, <4>1
      <4>6. w[j] = Search(l, j, w[j + 1], x, key) BY <4>1, <4>4, <4>5
      <4> QED BY <3>2, <4>6
    <3> QED BY <3>1, <3>2
  <2>3. w = [j \in 0..t |-> w[j]] OBVIOUS
  <2> HIDE DEF w
  <2>4. w = [j \in 0..t |-> Search(l, j, IF j = t THEN None ELSE w[j + 1], x, key)] BY <2>2, <2>3
  <2> QED BY <2>4 DEF t
<1>8. Is(at)
  <2> HIDE DEF Is
  <2> QED BY <1>7
<1> HIDE DEF at
<1>9. \A j \in 0..t : at[j] = Search(l, j, FromAbove(at, l, j), x, key)
  BY <1>8 DEF FromAbove, t
<1> DEFINE Good(j) == /\ at[j] \in M[j] \cup {None} /\ FromAbove(at, l, j) \in M[j] \cup {None}
                      /\ Stops(at[j], l, j, M[j], ord, x, key, FromAbove(at, l, j))
           T == {k \in 0..t : Good(t - k)}
<1>10. ASSUME NEW j \in 0..t, FromAbove(at, l, j) \in M[j] \cup {None} PROVE Good(j)
  <2>1. PICK p : p = FromAbove(at, l, j) OBVIOUS
  <2>2. j \in Levels /\ p \in M[j] \cup {None} /\ p \in V BY <1>1, <1>10, <2>1
  <2>3. Stops(at[j], l, j, M[j], ord, x, key, p) BY <1>2, <1>9, <2>1, <2>2
  <2>4. at[j] \in M[j] \cup {None} BY <2>2, <2>3 DEF Stops
  <2> QED BY <2>1, <2>2, <2>3, <2>4
<1>11. 0 \in T
  <2>1. t - 0 = t /\ t \in 0..t BY <1>1
  <2>2. FromAbove(at, l, t) = None BY DEF FromAbove, t
  <2>3. Good(t) BY <1>10, <2>1, <2>2
  <2> QED BY <1>1, <2>1, <2>3
<1>12. ASSUME NEW k \in 1..t, k - 1 \in T PROVE k \in T
  <2>1. t - k \in 0..t /\ t - k # t /\ (t - k) + 1 = t - (k - 1) /\ (t - k) + 1 \in 0..t BY <1>1
  <2>2. Good(t - (k - 1)) BY <1>12
  <2>3. FromAbove(at, l, t - k) = at[(t - k) + 1] BY <2>1 DEF FromAbove, t
  <2>4. M[(t - k) + 1] \subseteq M[t - k]
    <3>1. t - k \in Levels /\ (t - k) + 1 \in Levels /\ t - k <= (t - k) + 1 BY <1>1, <2>1
    <3> QED BY <3>1 DEF IsKept
  <2>5. FromAbove(at, l, t - k) \in M[t - k] \cup {None} BY <2>1, <2>2, <2>3, <2>4
  <2>6. Good(t - k) BY <1>10, <2>1, <2>5
  <2> QED BY <1>1, <2>6
<1> HIDE DEF Good, T
<1>13. 0..t \subseteq T BY <1>1, <1>11, <1>12, StepsUp
<1>14. \A j \in 0..t : Good(j)
  <2>1. TAKE j \in 0..t
  <2>2. t - j \in T /\ t - (t - j) = j BY <1>1, <1>13
  <2> QED BY <2>2 DEF T
<1>15. InsertionNodes(l, x, key) = at BY DEF InsertionNodes, at
<1> QED BY <1>14, <1>15 DEF Descends, Good, t

----------------------------------------------------------------------------
(* The order that a room x comes into after q.                             *)

UpTo(ord, q, y) == q # None /\ (y = q \/ <<y, q>> \in ord)

With(ord, S, q, x) ==
    {p \in Room \X Room :
        \/ p[1] \in S /\ p[2] \in S /\ p \in ord
        \/ p[2] = x /\ p[1] \in S /\ UpTo(ord, q, p[1])
        \/ p[1] = x /\ p[2] \in S /\ ~UpTo(ord, q, p[2])}

LEMMA WithIs ==
    ASSUME NEW S \in SUBSET Room, NEW ord, IsOrder(ord, S), NEW x \in Room \ S, NEW q \in S \cup {None}
    PROVE  /\ \A y, z \in S : <<y, z>> \in With(ord, S, q, x) <=> <<y, z>> \in ord
           /\ \A y \in S : <<y, x>> \in With(ord, S, q, x) <=> UpTo(ord, q, y)
           /\ \A y \in S : <<x, y>> \in With(ord, S, q, x) <=> ~UpTo(ord, q, y)
           /\ IsOrder(With(ord, S, q, x), S \cup {x})
<1> DEFINE o == With(ord, S, q, x)
<1>1. \A y, z \in S : <<y, z>> \in o <=> <<y, z>> \in ord BY DEF With
<1>2. \A y \in S : <<y, x>> \in o <=> UpTo(ord, q, y) BY DEF With
<1>3. \A y \in S : <<x, y>> \in o <=> ~UpTo(ord, q, y) BY DEF With
<1>4. <<x, x>> \notin o BY DEF With
<1> HIDE DEF o
<1>5. \A y, z \in S : <<y, z>> \in ord /\ UpTo(ord, q, z) => UpTo(ord, q, y) BY DEF UpTo, IsOrder
<1>6. IsOrder(o, S \cup {x})
  <2>1. \A y \in S \cup {x} : <<y, y>> \notin o BY <1>1, <1>4 DEF IsOrder
  <2>2. \A y, z \in S \cup {x} : y # z => <<y, z>> \in o \/ <<z, y>> \in o
    BY <1>1, <1>2, <1>3 DEF IsOrder
  <2>3. ASSUME NEW a \in S \cup {x}, NEW b \in S \cup {x}, NEW c \in S \cup {x},
               <<a, b>> \in o, <<b, c>> \in o
        PROVE  <<a, c>> \in o
    <3>1. CASE a = x
      <4>1. b \in S /\ ~UpTo(ord, q, b) BY <1>3, <1>4, <2>3, <3>1
      <4>2. c \in S /\ <<b, c>> \in ord BY <1>1, <1>2, <2>3, <4>1
      <4>3. ~UpTo(ord, q, c) BY <1>5, <4>1, <4>2
      <4> QED BY <1>3, <3>1, <4>2, <4>3
    <3>2. CASE b = x
      <4>1. a \in S /\ c \in S /\ UpTo(ord, q, a) /\ ~UpTo(ord, q, c)
        BY <1>2, <1>3, <1>4, <2>3, <3>2
      <4>2. a # c /\ <<c, a>> \notin ord BY <1>5, <4>1
      <4> QED BY <1>1, <4>1, <4>2 DEF IsOrder
    <3>3. CASE c = x
      <4>1. b \in S /\ UpTo(ord, q, b) BY <1>2, <1>4, <2>3, <3>3
      <4>2. a \in S /\ <<a, b>> \in ord BY <1>1, <1>3, <2>3, <4>1
      <4> QED BY <1>2, <1>5, <3>3, <4>1, <4>2
    <3>4. CASE a \in S /\ b \in S /\ c \in S BY <1>1, <2>3, <3>4 DEF IsOrder
    <3> QED BY <3>1, <3>2, <3>3, <3>4
  <2> QED BY <2>1, <2>2, <2>3 DEF IsOrder
<1> QED BY <1>1, <1>2, <1>3, <1>6 DEF o

(* A level is linked in any order that agrees on its rooms.                *)
LEMMA SameOrder ==
    ASSUME NEW l, NEW j, NEW M, NEW ord, LinkedAt(l, j, M, ord),
           NEW o, \A y, z \in M : <<y, z>> \in o <=> <<y, z>> \in ord
    PROVE  LinkedAt(l, j, M, o)
<1>1. PICK h, nx, pv : h = l.head[j] /\ nx = l.next[j] /\ pv = l.previous[j] OBVIOUS
<1>2. Linked(h, nx, pv, M, ord) BY <1>1 DEF LinkedAt
<1>3. \A n, p : p \in M \cup {None} /\ IsNext(n, p, M, ord) => IsNext(n, p, M, o)
  BY DEF IsNext, After
<1>4. Linked(h, nx, pv, M, o) BY <1>2, <1>3 DEF Linked
<1> QED BY <1>1, <1>4 DEF LinkedAt

(* What the search finds at a level is the last room of that level that    *)
(* does not come after what it finds at the lowest.                        *)
LEMMA PlacesAgree ==
    ASSUME NEW l, NEW M, NEW ord, IsKept(l, M, ord), NEW x, NEW key, NEW at,
           Descends(at, l, M, ord, x, key)
    PROVE  \A j \in 0..l.top : \A y \in M[j] : UpTo(ord, at[0], y) <=> UpTo(ord, at[j], y)
<1> DEFINE t == l.top
           T == {j \in 0..t : \A y \in M[j] : UpTo(ord, at[0], y) <=> UpTo(ord, at[j], y)}
<1>1. t \in Nat /\ 0..t \subseteq Levels BY KeptLevels
<1>2. 0 \in T BY <1>1
<1>3. ASSUME NEW k \in 1..t, k - 1 \in T PROVE k \in T
  <2>0. k \in 0..t /\ k - 1 \in 0..t /\ k \in Levels /\ k - 1 \in Levels /\ k - 1 # t
        /\ (k - 1) + 1 = k /\ k - 1 <= k
    BY <1>1
  <2>1. M[k] \subseteq M[k - 1] BY <2>0 DEF IsKept
  <2>2. PICK q, p : q = at[k - 1] /\ p = at[k] OBVIOUS
  <2>3. p \in M[k] \cup {None} /\ q \in M[k - 1] \cup {None}
        /\ Stops(q, l, k - 1, M[k - 1], ord, x, key, p) /\ ~Goes(l, k, x, key, p)
    <3>1. FromAbove(at, l, k - 1) = p BY <2>0, <2>2 DEF FromAbove
    <3> QED BY <2>0, <2>2, <3>1 DEF Descends, Stops
  <2>4. IsOrder(ord, M[k - 1]) /\ M[k - 1] \in SUBSET Room /\ M[k] \in SUBSET Room
        /\ LinkedAt(l, k, M[k], ord)
    BY <2>0, KeptLevels
  <2>5. ASSUME NEW y \in M[k] PROVE UpTo(ord, q, y) <=> UpTo(ord, p, y)
    <3>1. ASSUME UpTo(ord, p, y) PROVE UpTo(ord, q, y)
      BY <2>1, <2>3, <2>4, <3>1 DEF UpTo, Stops, After, IsOrder
    <3>2. ASSUME UpTo(ord, q, y), ~UpTo(ord, p, y) PROVE FALSE
      <4>1. After(ord, p, y) BY <2>1, <2>3, <2>4, <3>2 DEF UpTo, After, IsOrder
      <4>2. PICK n : n = NextOf(l.head[k], l.next[k], p) OBVIOUS
      <4>3. IsNext(n, p, M[k], ord) BY <2>3, <2>4, <4>2 DEF LinkedAt, Linked
      <4>4. n \in M[k] /\ After(ord, p, n) /\ (y = n \/ <<n, y>> \in ord) BY <4>1, <4>3 DEF IsNext
      <4>5. n # None /\ ~(key[n] < key[x]) BY <2>3, <2>4, <4>2, <4>4 DEF Goes
      <4>6. UpTo(ord, q, n) BY <2>1, <2>3, <2>4, <3>2, <4>4 DEF UpTo, IsOrder
      <4>7. n \in M[k - 1] BY <2>1, <4>4
      <4>8. key[n] < key[x] BY <2>3, <4>4, <4>6, <4>7 DEF Stops, UpTo
      <4> QED BY <4>5, <4>8
    <3> QED BY <3>1, <3>2
  <2>6. \A y \in M[k] : UpTo(ord, at[0], y) <=> UpTo(ord, q, y) BY <1>3, <2>1, <2>2
  <2> QED BY <2>0, <2>2, <2>5, <2>6
<1> HIDE DEF T
<1>4. 0..t \subseteq T BY <1>1, <1>2, <1>3, StepsUp
<1> QED BY <1>4 DEF T

(* What the search finds ranks lower.                                      *)
LEMMA PlacesRankLower ==
    ASSUME NEW l, NEW M, NEW ord, IsKept(l, M, ord), NEW x, NEW key, NEW at,
           Descends(at, l, M, ord, x, key)
    PROVE  at[0] # None => key[at[0]] < key[x]
<1> DEFINE t == l.top
           Below(j) == at[j] # None => key[at[j]] < key[x]
           T == {k \in 0..t : Below(t - k)}
<1>1. t \in Nat BY KeptLevels
<1>2. ASSUME NEW j \in 0..t, FromAbove(at, l, j) # None => key[FromAbove(at, l, j)] < key[x]
      PROVE  Below(j)
  <2>1. PICK p, q : p = FromAbove(at, l, j) /\ q = at[j] OBVIOUS
  <2>2. Stops(q, l, j, M[j], ord, x, key, p) /\ q \in M[j] \cup {None} BY <2>1 DEF Descends
  <2>3. q # None /\ q # p => key[q] < key[x] BY <2>2 DEF Stops
  <2> QED BY <1>2, <2>1, <2>3
<1>3. 0 \in T
  <2>1. FromAbove(at, l, t) = None /\ t - 0 = t /\ t \in 0..t /\ 0 \in 0..t BY <1>1 DEF FromAbove
  <2>2. Below(t) BY <1>2, <2>1
  <2> QED BY <2>1, <2>2
<1>4. ASSUME NEW k \in 1..t, k - 1 \in T PROVE k \in T
  <2>1. t - k \in 0..t /\ t - k # t /\ (t - k) + 1 = t - (k - 1) /\ k \in 0..t BY <1>1
  <2>2. FromAbove(at, l, t - k) = at[t - (k - 1)] BY <2>1 DEF FromAbove
  <2>3. Below(t - (k - 1)) BY <1>4
  <2>4. Below(t - k) BY <1>2, <2>1, <2>2, <2>3
  <2> QED BY <2>1, <2>4
<1> HIDE DEF Below, T
<1>5. t \in T
  <2>1. 0..t \subseteq T BY <1>1, <1>3, <1>4, StepsUp
  <2> QED BY <1>1, <2>1
<1>6. Below(t - t) /\ t - t = 0 BY <1>1, <1>5 DEF T
<1> QED BY <1>6 DEF Below

----------------------------------------------------------------------------
(* insertRoom                                                              *)

(* The levels up to k have the new room x.                                 *)
InsertedTo(m, l, k, M, ord, x) ==
    /\ m \in Shapes
    /\ \A i \in Levels : i <= k => LinkedAt(m, i, M[i] \cup {x}, ord)
    /\ \A i \in Levels : i > k => SameLevel(m, l, i)

LEMMA InsertedStep ==
    ASSUME NEW l, NEW M \in [Levels -> SUBSET Room], NEW ord, NEW x \in Room,
           NEW k \in Levels, NEW m, InsertedTo(m, l, k - 1, M, ord, x),
           x \notin M[k], IsOrder(ord, M[k] \cup {x}), LinkedAt(l, k, M[k], ord),
           NEW p, IsPlace(p, x, M[k], ord)
    PROVE  /\ InsertedTo(PutIn(m, k, p, x), l, k, M, ord, x)
           /\ PutIn(m, k, p, x).nodes = m.nodes /\ PutIn(m, k, p, x).top = m.top
<1> DEFINE m2 == PutIn(m, k, p, x)
<1>0. m \in Shapes /\ M[k] \in SUBSET Room /\ x \in Room \ M[k] BY DEF InsertedTo
<1>1. ChangesOnly(m2, m, k)
  <2>1. CASE p = None BY <1>0, <2>1, InsertAtHeadType DEF PutIn
  <2>2. CASE p # None
    <3>1. p \in Room BY <1>0, <2>2 DEF IsPlace
    <3> QED BY <1>0, <2>2, <3>1, InsertAfterType DEF PutIn
  <2> QED BY <2>1, <2>2
<1>2. LinkedAt(m, k, M[k], ord)
  <2>1. SameLevel(m, l, k) BY DEF InsertedTo, Levels
  <2> QED BY <2>1, SameLevelIs
<1>3. LinkedAt(m2, k, M[k] \cup {x}, ord) BY <1>0, <1>2, InsertIs
<1> HIDE DEF m2
<1>4. ASSUME NEW i \in Levels, i <= k PROVE LinkedAt(m2, i, M[i] \cup {x}, ord)
  <2>1. CASE i = k BY <1>3, <2>1
  <2>2. CASE i # k
    <3>1. i <= k - 1 BY <1>4, <2>2 DEF Levels
    <3>2. LinkedAt(m, i, M[i] \cup {x}, ord) BY <3>1 DEF InsertedTo
    <3>3. SameLevel(m2, m, i) BY <1>1, <2>2 DEF ChangesOnly
    <3> QED BY <3>2, <3>3, SameLevelIs
  <2> QED BY <2>1, <2>2
<1>5. ASSUME NEW i \in Levels, i > k PROVE SameLevel(m2, l, i)
  <2>1. i > k - 1 /\ i # k BY <1>5 DEF Levels
  <2>2. SameLevel(m, l, i) BY <2>1 DEF InsertedTo
  <2>3. SameLevel(m2, m, i) BY <1>1, <2>1 DEF ChangesOnly
  <2> QED BY <2>2, <2>3 DEF SameLevel
<1>6. m2 \in Shapes /\ m2.nodes = m.nodes /\ m2.top = m.top BY <1>1 DEF ChangesOnly
<1> QED BY <1>4, <1>5, <1>6 DEF InsertedTo, m2

(* An order goes by the ranks.                                             *)
Follows(ord, S, key) == \A y, z \in S : <<y, z>> \in ord => key[y] <= key[z]

LEMMA InsertionFollows ==
    ASSUME NEW l, NEW M, NEW ord, IsKept(l, M, ord), NEW x \in Room \ l.nodes,
           NEW key \in [Room -> Int], Follows(ord, l.nodes, key),
           NEW at, Descends(at, l, M, ord, x, key)
    PROVE  Follows(With(ord, l.nodes, at[0], x), l.nodes \cup {x}, key)
<1> DEFINE S == l.nodes
           q == at[0]
           o == With(ord, S, q, x)
<1>1. S \in SUBSET Room /\ IsOrder(ord, S) /\ M[0] = S /\ 0 \in 0..l.top /\ LinkedAt(l, 0, S, ord)
  BY KeptLevels DEF IsKept, Shapes, Levels
<1>2. q \in S \cup {None} /\ ~Goes(l, 0, x, key, q) BY <1>1 DEF Descends, Stops
<1>3. q # None => key[q] < key[x] BY PlacesRankLower
<1>4. /\ \A y, z \in S : <<y, z>> \in o <=> <<y, z>> \in ord
      /\ \A y \in S : <<y, x>> \in o <=> UpTo(ord, q, y)
      /\ \A y \in S : <<x, y>> \in o <=> ~UpTo(ord, q, y)
      /\ IsOrder(o, S \cup {x})
  <2>1. x \in Room \ S OBVIOUS
  <2> HIDE DEF S, q
  <2> QED BY <1>1, <1>2, <2>1, WithIs
<1> HIDE DEF o, q, S
<1>5. \A y \in S : key[y] \in Int BY <1>1
<1>6. key[x] \in Int OBVIOUS
<1>7. ASSUME NEW y \in S, UpTo(ord, q, y) PROVE key[y] <= key[x]
  <2>1. q \in S /\ key[q] < key[x] BY <1>2, <1>3, <1>7 DEF UpTo
  <2>2. y = q \/ key[y] <= key[q] BY <1>7, <2>1 DEF UpTo, Follows, S
  <2> QED BY <1>5, <1>6, <2>1, <2>2
<1>8. ASSUME NEW y \in S, ~UpTo(ord, q, y) PROVE key[x] <= key[y]
  <2>1. PICK n : n = NextOf(l.head[0], l.next[0], q) OBVIOUS
  <2>2. IsNext(n, q, S, ord) BY <1>1, <1>2, <2>1 DEF LinkedAt, Linked
  <2>3. After(ord, q, y) BY <1>1, <1>2, <1>8 DEF UpTo, After, IsOrder
  <2>4. n \in S /\ (y = n \/ <<n, y>> \in ord) BY <2>2, <2>3 DEF IsNext
  <2>5. ~(key[n] < key[x]) BY <1>1, <1>2, <2>1, <2>4 DEF Goes
  <2>6. y = n \/ key[n] <= key[y] BY <2>4 DEF Follows, S
  <2> QED BY <1>5, <1>6, <2>4, <2>5, <2>6
<1>9. ASSUME NEW y \in S \cup {x}, NEW z \in S \cup {x}, <<y, z>> \in o PROVE key[y] <= key[z]
  <2>1. CASE y = x
    <3>1. z \in S BY <1>4, <1>9, <2>1 DEF IsOrder
    <3> QED BY <1>4, <1>8, <1>9, <2>1, <3>1
  <2>2. CASE z = x
    <3>1. y \in S BY <1>4, <1>9, <2>2 DEF IsOrder
    <3> QED BY <1>4, <1>7, <1>9, <2>2, <3>1
  <2>3. CASE y \in S /\ z \in S BY <1>4, <1>9, <2>3 DEF Follows, S
  <2> QED BY <2>1, <2>2, <2>3
<1> QED BY <1>9 DEF Follows, o, q, S

LEMMA InsertRoomIs ==
    ASSUME NEW l, NEW M, NEW ord, IsKept(l, M, ord), NEW x \in Room \ l.nodes,
           NEW height \in 1..(MaxLevel + 1), NEW key \in [Room -> Int]
    PROVE  \E M2, o : /\ IsKept(InsertRoom(l, x, height, key), M2, o)
                      /\ InsertRoom(l, x, height, key).nodes = l.nodes \cup {x}
                      /\ Follows(ord, l.nodes, key) => Follows(o, l.nodes \cup {x}, key)
<1> DEFINE at == InsertionNodes(l, x, key)
           t == l.top
           S == l.nodes
           o == With(ord, S, at[0], x)
           place(k) == IF k <= t /\ at[k] # None THEN at[k] ELSE None
           base == [l EXCEPT !.nodes = @ \cup {x}, !.top = IF height - 1 > @ THEN height - 1 ELSE @]
           M2 == [j \in Levels |-> IF j <= height - 1 THEN M[j] \cup {x} ELSE M[j]]
<1>1. Descends(at, l, M, ord, x, key) BY InsertionNodesIs
<1> HIDE DEF at
<1>2. /\ l \in Shapes /\ t \in Nat /\ 0..t \subseteq Levels /\ t \in Levels /\ M[0] = S
      /\ S \in SUBSET Room /\ IsOrder(ord, S) /\ M \in [Levels -> SUBSET Room] /\ 0 \in Levels
      /\ \A j \in Levels : M[j] \in SUBSET Room /\ M[j] \subseteq S /\ LinkedAt(l, j, M[j], ord)
  BY KeptLevels DEF IsKept, Shapes, Levels
<1>3. at[0] \in S \cup {None}
  <2>1. 0 \in 0..t BY <1>2
  <2> QED BY <1>1, <1>2, <2>1 DEF Descends
<1>4. /\ \A y, z \in S : <<y, z>> \in o <=> <<y, z>> \in ord
      /\ \A y \in S : <<y, x>> \in o <=> UpTo(ord, at[0], y)
      /\ IsOrder(o, S \cup {x})
  BY <1>2, <1>3, WithIs
<1>5. Follows(ord, S, key) => Follows(o, S \cup {x}, key) BY <1>1, InsertionFollows
<1> HIDE DEF o
<1>6. ASSUME NEW k \in Levels
      PROVE  /\ x \notin M[k] /\ IsOrder(o, M[k] \cup {x}) /\ LinkedAt(l, k, M[k], o)
             /\ IsPlace(place(k), x, M[k], o)
  <2>1. M[k] \in SUBSET S /\ x \notin M[k] BY <1>2
  <2>2. IsOrder(o, M[k] \cup {x})
    <3>1. M[k] \cup {x} \in SUBSET (S \cup {x}) BY <2>1
    <3> QED BY <1>4, <3>1, PartIsOrder
  <2>3. LinkedAt(l, k, M[k], o)
    <3>1. \A y, z \in M[k] : <<y, z>> \in o <=> <<y, z>> \in ord BY <1>4, <2>1
    <3> QED BY <1>2, <3>1, SameOrder
  <2>4. IsPlace(place(k), x, M[k], o)
    <3>1. CASE k <= t
      <4>1. k \in 0..t BY <3>1 DEF Levels
      <4>2. PICK q : q = at[k] OBVIOUS
      <4>3. q \in M[k] \cup {None} BY <1>1, <4>1, <4>2 DEF Descends
      <4>4. \A y \in M[k] : UpTo(ord, at[0], y) <=> UpTo(ord, q, y) BY <1>1, <4>1, <4>2, PlacesAgree
      <4>5. \A y \in M[k] : <<y, x>> \in o <=> UpTo(ord, q, y) BY <1>4, <2>1, <4>4
      <4>6. place(k) = q BY <3>1, <4>2
      <4>7. \A y \in M[k] : q # None => (<<y, q>> \in ord <=> <<y, q>> \in o) BY <1>4, <2>1, <4>3
      <4> QED BY <4>3, <4>5, <4>6, <4>7 DEF IsPlace, UpTo
    <3>2. CASE ~(k <= t)
      <4>1. k > t BY <3>2, <1>2 DEF Levels
      <4>2. M[k] = {} BY <4>1 DEF IsKept
      <4> QED BY <3>2, <4>2 DEF IsPlace
    <3> QED BY <3>1, <3>2
  <2> QED BY <2>1, <2>2, <2>3, <2>4
<1>7. height \in Nat /\ height - 1 \in Levels /\ 0..(height - 1) \subseteq Levels BY DEF Levels
<1>8. PICK top : top = IF height - 1 > t THEN height - 1 ELSE t OBVIOUS
<1>9. top \in Levels /\ t <= top /\ height - 1 <= top
  BY <1>2, <1>7, <1>8 DEF Levels
<1>10. /\ base \in Shapes /\ base.nodes = S \cup {x} /\ base.top = top
       /\ \A i \in Levels : SameLevel(base, l, i)
  <2>1. base = [l EXCEPT !.nodes = S \cup {x}, !.top = top] BY <1>2, <1>8 DEF Shapes
  <2> DEFINE b1 == [l EXCEPT !.nodes = S \cup {x}]
             b2 == [b1 EXCEPT !.top = top]
  <2>2. base = b2 BY <2>1
  <2>21. l \in Shapes BY <1>2
  <2>22. l = [nodes |-> l.nodes, top |-> l.top, size |-> l.size,
              head |-> l.head, next |-> l.next, previous |-> l.previous]
    BY <2>21 DEF Shapes
  <2>3. b1 = [nodes |-> S \cup {x}, top |-> t, size |-> l.size, head |-> l.head,
              next |-> l.next, previous |-> l.previous]
    BY <2>22
  <2> HIDE DEF b1, base
  <2>4. base = [nodes |-> S \cup {x}, top |-> top, size |-> l.size, head |-> l.head,
                next |-> l.next, previous |-> l.previous]
    BY <2>2, <2>3
  <2>5. S \cup {x} \in SUBSET Room BY <1>2
  <2> QED BY <1>2, <1>9, <2>4, <2>5 DEF Shapes, SameLevel
<1> HIDE DEF base, place
<1> DEFINE F == [p \in (0..(height - 1)) \X Shapes |->
                   IF place(p[1]) # None THEN InsertAfter(p[2], p[1], place(p[1]), x)
                   ELSE InsertAtHead(p[2], p[1], x)]
           Is(f) == f = [j \in -1..(height - 1) |->
                           IF j = -1 THEN base
                           ELSE IF place(j) # None THEN InsertAfter(f[j - 1], j, place(j), x)
                           ELSE InsertAtHead(f[j - 1], j, x)]
           g == CHOOSE f : Is(f)
<1>11. \A k \in 0..(height - 1) : k \in Levels /\ place(k) \in Room \cup {None}
  BY <1>2, <1>6, <1>7 DEF IsPlace
<1>12. Does(F, 0..(height - 1), Shapes)
  <2>1. ASSUME NEW p \in (0..(height - 1)) \X Shapes
        PROVE  IF place(p[1]) # None THEN InsertAfter(p[2], p[1], place(p[1]), x) \in Shapes
               ELSE InsertAtHead(p[2], p[1], x) \in Shapes
    <3>1. PICK m, j, q : m = p[2] /\ j = p[1] /\ q = place(p[1]) OBVIOUS
    <3>2. m \in Shapes /\ j \in Levels /\ q \in Room \cup {None} BY <1>11, <3>1
    <3>3. q # None => ChangesOnly(InsertAfter(m, j, q, x), m, j) BY <3>2, InsertAfterType
    <3>4. ChangesOnly(InsertAtHead(m, j, x), m, j) BY <3>2, InsertAtHeadType
    <3> QED BY <3>1, <3>3, <3>4 DEF ChangesOnly
  <2> QED BY <2>1 DEF Does
<1>13. \A k \in 0..(height - 1), m \in Shapes :
          F[<<k, m>>] = IF place(k) # None THEN InsertAfter(m, k, place(k), x) ELSE InsertAtHead(m, k, x)
  OBVIOUS
<1> HIDE DEF F
<1>14. \E f : Is(f)
  <2>0. PICK f : LevelIteration(f, height, Shapes, base, F) BY <1>7, <1>10, <1>12, IteratesLevels
  <2>1. f \in [-1..(height - 1) -> Shapes]
        /\ f = [k \in -1..(height - 1) |-> IF k = -1 THEN base ELSE F[<<k, f[k - 1]>>]]
    BY <2>0 DEF LevelIteration
  <2>2. \A k \in -1..(height - 1) : k # -1 => k \in 0..(height - 1) /\ k - 1 \in -1..(height - 1)
    BY <1>7
  <2>3. \A k \in -1..(height - 1) : k # -1 =>
           F[<<k, f[k - 1]>>] = IF place(k) # None THEN InsertAfter(f[k - 1], k, place(k), x)
                                ELSE InsertAtHead(f[k - 1], k, x)
    BY <1>13, <2>1, <2>2
  <2>4. [k \in -1..(height - 1) |-> IF k = -1 THEN base ELSE F[<<k, f[k - 1]>>]]
          = [k \in -1..(height - 1) |->
               IF k = -1 THEN base
               ELSE IF place(k) # None THEN InsertAfter(f[k - 1], k, place(k), x)
               ELSE InsertAtHead(f[k - 1], k, x)]
    BY <2>3
  <2> QED BY <2>1, <2>4
<1>15. Is(g)
  <2> HIDE DEF Is
  <2> QED BY <1>14
<1>16. InsertRoom(l, x, height, key) = g[height - 1]
  <2>1. \A j : (j <= t /\ at[j] # None) <=> place(j) # None BY DEF place
  <2>2. \A j : place(j) # None => place(j) = at[j] BY DEF place
  <2> DEFINE Is2(f) == f = [j \in -1..(height - 1) |->
                           IF j = -1 THEN base
                           ELSE IF j <= t /\ at[j] # None THEN InsertAfter(f[j - 1], j, at[j], x)
                           ELSE InsertAtHead(f[j - 1], j, x)]
  <2>3. \A f : Is(f) <=> Is2(f)
    <3>1. TAKE f
    <3>2. [j \in -1..(height - 1) |->
                           IF j = -1 THEN base
                           ELSE IF place(j) # None THEN InsertAfter(f[j - 1], j, place(j), x)
                           ELSE InsertAtHead(f[j - 1], j, x)]
          = [j \in -1..(height - 1) |->
                           IF j = -1 THEN base
                           ELSE IF j <= t /\ at[j] # None THEN InsertAfter(f[j - 1], j, at[j], x)
                           ELSE InsertAtHead(f[j - 1], j, x)]
      BY <2>1, <2>2
    <3> QED BY <3>2
  <2>4. InsertRoom(l, x, height, key) = (CHOOSE f : Is2(f))[height - 1]
    BY DEF InsertRoom, at, base
  <2>5. (CHOOSE f : Is2(f)) = (CHOOSE f : Is(f))
    <3> HIDE DEF Is, Is2
    <3> QED BY <2>3
  <2> QED BY <2>4, <2>5
<1> HIDE DEF g
<1>17. g[-1] = base /\ \A k \in 0..(height - 1) : g[k] = PutIn(g[k - 1], k, place(k), x)
  <2>1. -1 \in -1..(height - 1) /\ \A k \in 0..(height - 1) : k \in -1..(height - 1) /\ k # -1
    BY <1>7
  <2> QED BY <1>15, <2>1 DEF PutIn
<1> DEFINE Good(m, k) == InsertedTo(m, l, k, M, o, x) /\ m.nodes = S \cup {x} /\ m.top = top
           T == {k \in 0..height : Good(g[k - 1], k - 1)}
<1>18. 0 \in T
  <2>1. \A i \in Levels : ~(i <= -1) BY DEF Levels
  <2>2. Good(base, -1) BY <1>10, <2>1 DEF InsertedTo
  <2>3. g[0 - 1] = base BY <1>17
  <2> QED BY <1>7, <2>2, <2>3
<1>19. ASSUME NEW k \in 1..height, k - 1 \in T PROVE k \in T
  <2>1. k - 1 \in Levels /\ k - 1 \in 0..(height - 1) /\ k \in 0..height BY <1>7
  <2>2. PICK m : m = g[(k - 1) - 1] OBVIOUS
  <2>3. Good(m, (k - 1) - 1) BY <1>19, <2>2
  <2>4. g[k - 1] = PutIn(m, k - 1, place(k - 1), x) BY <1>17, <2>1, <2>2
  <2>5. PICK j, p : j = k - 1 /\ p = place(k - 1) OBVIOUS
  <2>6. x \notin M[j] /\ IsOrder(o, M[j] \cup {x}) /\ LinkedAt(l, j, M[j], o) /\ IsPlace(p, x, M[j], o)
    BY <1>6, <2>1, <2>5
  <2>7. j \in Levels /\ InsertedTo(m, l, j - 1, M, o, x) BY <2>1, <2>3, <2>5
  <2>8. /\ InsertedTo(PutIn(m, j, p, x), l, j, M, o, x)
        /\ PutIn(m, j, p, x).nodes = m.nodes /\ PutIn(m, j, p, x).top = m.top
    BY <1>2, <2>6, <2>7, InsertedStep
  <2>9. Good(g[k - 1], k - 1) BY <2>3, <2>4, <2>5, <2>8
  <2> QED BY <2>1, <2>9
<1> HIDE DEF T
<1>20. height \in T
  <2>1. 0..height \subseteq T BY <1>7, <1>18, <1>19, StepsUp
  <2> QED BY <1>7, <2>1
<1>21. PICK r : r = g[height - 1] OBVIOUS
<1>22. Good(r, height - 1) BY <1>20, <1>21 DEF T
<1>23. \A j \in Levels : M2[j] = IF j <= height - 1 THEN M[j] \cup {x} ELSE M[j] OBVIOUS
<1>24. M2 \in [Levels -> SUBSET Room] BY <1>2
<1> HIDE DEF M2
<1>25. ASSUME NEW j \in Levels PROVE LinkedAt(r, j, M2[j], o)
  <2>1. CASE j <= height - 1 BY <1>22, <1>23, <2>1 DEF InsertedTo
  <2>2. CASE ~(j <= height - 1)
    <3>1. j > height - 1 BY <1>7, <2>2 DEF Levels
    <3>2. SameLevel(r, l, j) BY <1>22, <3>1 DEF InsertedTo
    <3>3. LinkedAt(r, j, M[j], o) BY <1>6, <3>2, SameLevelIs
    <3> QED BY <1>23, <2>2, <3>3
  <2> QED BY <2>1, <2>2
<1>26. IsKept(r, M2, o)
  <2>1. M2[0] = r.nodes
    <3>1. 0 <= height - 1 BY <1>7
    <3> QED BY <1>2, <1>22, <1>23, <3>1
  <2>2. ASSUME NEW i \in Levels, NEW j \in Levels, i <= j PROVE M2[j] \subseteq M2[i]
    <3>1. M[j] \subseteq M[i] BY <2>2 DEF IsKept
    <3>2. j <= height - 1 => i <= height - 1 BY <1>7, <2>2 DEF Levels
    <3> QED BY <1>23, <3>1, <3>2
  <2>3. ASSUME NEW j \in Levels, j > r.top PROVE M2[j] = {}
    <3>1. j > t /\ ~(j <= height - 1) BY <1>2, <1>7, <1>9, <1>22, <2>3 DEF Levels
    <3>2. M[j] = {} BY <3>1 DEF IsKept
    <3> QED BY <1>23, <3>1, <3>2
  <2>4. IsOrder(o, r.nodes) BY <1>4, <1>22
  <2>5. r \in Shapes BY <1>22 DEF InsertedTo
  <2> QED BY <1>24, <1>25, <2>1, <2>2, <2>3, <2>4, <2>5 DEF IsKept
<1> QED BY <1>5, <1>16, <1>21, <1>22, <1>26

----------------------------------------------------------------------------
(* addNewRoom and reInsertRoom                                             *)

LEMMA AddNewRoomIs ==
    ASSUME NEW l, Kept(l), NEW x \in Room, NEW key \in [Room -> Int], NEW m \in AddNewRoom(l, x, key)
    PROVE  Kept(m) /\ m.nodes = l.nodes \cup {x}
<1>1. PICK M, ord : IsKept(l, M, ord) BY DEF Kept
<1>2. CASE x \in l.nodes
  <2>1. m = l BY <1>2 DEF AddNewRoom
  <2> QED BY <1>2, <2>1
<1>3. CASE x \notin l.nodes
  <2>1. PICK height \in Heights(l) : m = InsertRoom(l, x, height, key) BY <1>3 DEF AddNewRoom
  <2>2. height \in 1..(MaxLevel + 1) BY DEF Heights
  <2>3. x \in Room \ l.nodes BY <1>3
  <2>4. \E M2, o : IsKept(m, M2, o) /\ m.nodes = l.nodes \cup {x}
    BY <1>1, <2>1, <2>2, <2>3, InsertRoomIs
  <2> QED BY <2>4 DEF Kept
<1> QED BY <1>2, <1>3

LEMMA RemoveRoomKeeps ==
    ASSUME NEW l, Kept(l), NEW x \in Room
    PROVE  Kept(RemoveRoom(l, x)) /\ RemoveRoom(l, x).nodes = l.nodes \ {x}
BY RemoveRoomIs DEF Kept

LEMMA ReInsertRoomIs ==
    ASSUME NEW l, Kept(l), NEW x \in Room, NEW key \in [Room -> Int], NEW m \in ReInsertRoom(l, x, key)
    PROVE  Kept(m) /\ m.nodes = l.nodes
<1>1. CASE x \notin l.nodes BY <1>1 DEF ReInsertRoom
<1>2. CASE x \in l.nodes
  <2>1. PICK r : r = RemoveRoom(l, x) OBVIOUS
  <2>2. m \in AddNewRoom(r, x, key) BY <1>2, <2>1 DEF ReInsertRoom
  <2>3. Kept(r) /\ r.nodes = l.nodes \ {x} BY <2>1, RemoveRoomKeeps
  <2>4. Kept(m) /\ m.nodes = r.nodes \cup {x} BY <2>2, <2>3, AddNewRoomIs
  <2> QED BY <1>2, <2>3, <2>4
<1> QED BY <1>1, <1>2

----------------------------------------------------------------------------
(* Of a sequence, what is in S: in the same order.                         *)

OnlyTo(u, s, S, n, ord) ==
    /\ u \in Seq(Room)
    /\ \A i \in 1..Len(u) : u[i] \in S /\ \E a \in 1..n : s[a] = u[i]
    /\ \A a \in 1..n : s[a] \in S => \E i \in 1..Len(u) : u[i] = s[a]
    /\ Increasing(s, ord) => Increasing(u, ord)

LEMMA OnlyStep ==
    ASSUME NEW s \in Seq(Room), NEW S, NEW ord, NEW n \in 1..Len(s), NEW u, OnlyTo(u, s, S, n - 1, ord)
    PROVE  OnlyTo(IF s[n] \in S THEN Append(u, s[n]) ELSE u, s, S, n, ord)
<1>1. u \in Seq(Room) /\ s[n] \in Room BY DEF OnlyTo
<1>2. CASE s[n] \notin S
  <2>1. \A a \in 1..n : s[a] \in S => a \in 1..(n - 1) BY <1>2
  <2> QED BY <1>2, <2>1 DEF OnlyTo
<1>3. CASE s[n] \in S
  <2> DEFINE v == Append(u, s[n])
             c == Len(u)
  <2>1. v \in Seq(Room) /\ Len(v) = c + 1 /\ v[c + 1] = s[n] /\ c \in Nat
        /\ \A i \in 1..c : v[i] = u[i]
    BY <1>1
  <2> HIDE DEF v
  <2>2. ASSUME NEW i \in 1..(c + 1) PROVE v[i] \in S /\ \E a \in 1..n : s[a] = v[i]
    <3>1. CASE i = c + 1 BY <1>3, <2>1, <3>1
    <3>2. CASE i # c + 1
      <4>1. i \in 1..c BY <2>1, <3>2
      <4>2. PICK a \in 1..(n - 1) : s[a] = u[i] BY <4>1 DEF OnlyTo
      <4>3. a \in 1..n /\ u[i] \in S BY <4>1 DEF OnlyTo
      <4> QED BY <2>1, <4>1, <4>2, <4>3
    <3> QED BY <3>1, <3>2
  <2>3. ASSUME NEW a \in 1..n, s[a] \in S PROVE \E i \in 1..(c + 1) : v[i] = s[a]
    <3>1. CASE a = n
      <4>1. c + 1 \in 1..(c + 1) BY <2>1
      <4> QED BY <2>1, <3>1, <4>1
    <3>2. CASE a # n
      <4>1. a \in 1..(n - 1) BY <3>2
      <4>2. PICK i \in 1..c : u[i] = s[a] BY <2>3, <4>1 DEF OnlyTo
      <4>3. i \in 1..(c + 1) BY <2>1
      <4> QED BY <2>1, <4>2, <4>3
    <3> QED BY <3>1, <3>2
  <2>4. ASSUME Increasing(s, ord), NEW i \in 1..(c + 1), NEW k \in 1..(c + 1), i < k
        PROVE  <<v[i], v[k]>> \in ord
    <3>1. i \in 1..c BY <2>1, <2>4
    <3>2. CASE k = c + 1
      <4>1. PICK a \in 1..(n - 1) : s[a] = u[i] BY <3>1 DEF OnlyTo
      <4>2. a \in 1..Len(s) /\ a < n OBVIOUS
      <4>3. <<s[a], s[n]>> \in ord BY <2>4, <4>2 DEF Increasing
      <4> QED BY <2>1, <3>1, <3>2, <4>1, <4>3
    <3>3. CASE k # c + 1
      <4>1. k \in 1..c BY <2>1, <3>3
      <4>2. <<u[i], u[k]>> \in ord BY <2>4, <3>1, <4>1 DEF OnlyTo, Increasing
      <4> QED BY <2>1, <3>1, <4>1, <4>2
    <3> QED BY <3>2, <3>3
  <2>5. Increasing(s, ord) => Increasing(v, ord) BY <2>1, <2>4 DEF Increasing
  <2>6. OnlyTo(v, s, S, n, ord) BY <2>1, <2>2, <2>3, <2>5 DEF OnlyTo
  <2> QED BY <1>3, <2>6 DEF v
<1> QED BY <1>2, <1>3

LEMMA OnlyIs ==
    ASSUME NEW s \in Seq(Room), NEW S, NEW ord
    PROVE  /\ Only(s, S) \in Seq(Room) /\ ToSet(Only(s, S)) = ToSet(s) \cap S
           /\ Increasing(s, ord) => Increasing(Only(s, S), ord)
<1> DEFINE n == Len(s)
           V == Seq(Room)
           F == [p \in (1..n) \X V |-> IF s[p[1]] \in S THEN Append(p[2], s[p[1]]) ELSE p[2]]
           Is(f) == f = [k \in 0..n |-> IF k = 0 THEN <<>>
                                        ELSE IF s[k] \in S THEN Append(f[k - 1], s[k]) ELSE f[k - 1]]
           g == CHOOSE f : Is(f)
<1>1. n \in Nat /\ \A k \in 1..n : s[k] \in Room OBVIOUS
<1>2. <<>> \in V OBVIOUS
<1>3. Does(F, 1..n, V)
  <2>1. \A p \in (1..n) \X V : (IF s[p[1]] \in S THEN Append(p[2], s[p[1]]) ELSE p[2]) \in V
    BY <1>1
  <2> QED BY <2>1 DEF Does
<1>4. \A k \in 1..n, u \in V : F[<<k, u>>] = IF s[k] \in S THEN Append(u, s[k]) ELSE u OBVIOUS
<1> HIDE DEF F, n
<1>5. PICK f : f \in [0..n -> V] /\ f[0] = <<>> /\ \A k \in 1..n : f[k] = F[<<k, f[k - 1]>>]
  <2> HIDE DEF V
  <2> QED BY <1>1, <1>2, <1>3, Iterates DEF Iteration
<1>6. Is(f)
  <2>1. \A k \in 0..n : k # 0 => k \in 1..n /\ k - 1 \in 0..n BY <1>1
  <2>2. \A k \in 0..n : k # 0 => f[k - 1] \in V BY <1>5, <2>1
  <2>3. \A k \in 0..n : k # 0 => f[k] = IF s[k] \in S THEN Append(f[k - 1], s[k]) ELSE f[k - 1]
    BY <1>4, <1>5, <2>1, <2>2
  <2>4. \A k \in 0..n : f[k] = IF k = 0 THEN <<>>
                               ELSE IF s[k] \in S THEN Append(f[k - 1], s[k]) ELSE f[k - 1]
    BY <1>5, <2>3
  <2>5. f = [k \in 0..n |-> f[k]] BY <1>5
  <2> QED BY <2>4, <2>5
<1>7. Is(g)
  <2> HIDE DEF Is
  <2> QED BY <1>6
<1> HIDE DEF g
<1>8. g[0] = <<>> /\ \A k \in 1..n : g[k] = IF s[k] \in S THEN Append(g[k - 1], s[k]) ELSE g[k - 1]
  <2>1. 0 \in 0..n /\ \A k \in 1..n : k \in 0..n /\ k # 0 BY <1>1
  <2> QED BY <1>7, <2>1
<1> DEFINE T == {k \in 0..n : OnlyTo(g[k], s, S, k, ord)}
<1>9. 0 \in T
  <2>1. OnlyTo(<<>>, s, S, 0, ord) BY DEF OnlyTo, Increasing
  <2> QED BY <1>1, <1>8, <2>1
<1>10. ASSUME NEW k \in 1..n, k - 1 \in T PROVE k \in T
  <2>1. k \in 0..n /\ k \in 1..Len(s) BY <1>1 DEF n
  <2>2. OnlyTo(g[k], s, S, k, ord) BY <1>8, <1>10, <2>1, OnlyStep
  <2> QED BY <2>1, <2>2
<1> HIDE DEF T
<1>11. n \in T
  <2>1. 0..n \subseteq T BY <1>1, <1>9, <1>10, StepsUp
  <2> QED BY <1>1, <2>1
<1>12. PICK u : u = g[n] OBVIOUS
<1>13. OnlyTo(u, s, S, n, ord) BY <1>11, <1>12 DEF T
<1>14. Only(s, S) = u BY <1>12 DEF Only, g, n
<1>15. u \in Seq(Room) /\ ToSet(u) = ToSet(s) \cap S
  <2>1. \A y : y \in ToSet(u) <=> \E i \in 1..Len(u) : u[i] = y BY <1>13 DEF ToSet, OnlyTo
  <2>2. \A y : y \in ToSet(s) <=> \E a \in 1..n : s[a] = y BY DEF ToSet, n
  <2> QED BY <1>13, <2>1, <2>2 DEF OnlyTo
<1> QED BY <1>13, <1>14, <1>15 DEF OnlyTo

----------------------------------------------------------------------------
(* Link                                                                    *)

Place(s, r) == SelectInSeq(s, LAMBDA x : x = r)

LEMMA PlaceIs ==
    ASSUME NEW s \in Seq(Room), \A i, k \in 1..Len(s) : s[i] = s[k] => i = k
    PROVE  /\ \A i \in 1..Len(s) : Place(s, s[i]) = i
           /\ \A r : r \notin ToSet(s) => Place(s, r) = 0
<1>1. ASSUME NEW i \in 1..Len(s) PROVE Place(s, s[i]) = i
  <2>1. {k \in 1..Len(s) : s[k] = s[i]} = {i} OBVIOUS
  <2>2. (CHOOSE x \in {i} : \A y \in {i} : x <= y) = i OBVIOUS
  <2> QED BY <2>1, <2>2 DEF Place, SelectInSeq, Min
<1>2. ASSUME NEW r, r \notin ToSet(s) PROVE Place(s, r) = 0
  <2>1. {k \in 1..Len(s) : s[k] = r} = {} BY <1>2 DEF ToSet
  <2> QED BY <2>1 DEF Place, SelectInSeq
<1> QED BY <1>1, <1>2

InSeq(s, i) == IF i \in 1..Len(s) THEN s[i] ELSE None

LEMMA LinkIs ==
    ASSUME NEW l \in Shapes, NEW j \in Levels, NEW s \in Seq(Room), NEW ord,
           IsOrder(ord, ToSet(s)), Increasing(s, ord)
    PROVE  ChangesOnly(Link(l, j, s), l, j) /\ LinkedAt(Link(l, j, s), j, ToSet(s), ord)
<1> DEFINE nx == [r \in Room |-> IF Place(s, r) = 0 THEN None ELSE InSeq(s, Place(s, r) + 1)]
           pv == [r \in Room |-> InSeq(s, Place(s, r) - 1)]
           h == InSeq(s, 1)
           m == Link(l, j, s)
           c == Len(s)
           S == ToSet(s)
<1>1. m = Relinked(l, j, h, Len(s), nx, pv) BY DEF Link, Relinked, Place, InSeq
<1>2. c \in Nat /\ \A i \in 1..c : s[i] \in Room /\ s[i] \in S BY DEF ToSet
<1>3. \A y \in S : \E i \in 1..c : y = s[i] BY DEF ToSet
<1>4. /\ \A i, k \in 1..c : s[i] = s[k] => i = k
      /\ Cardinality(S) = c
  BY IncreasingCounts
<1>5. /\ \A i \in 1..c : Place(s, s[i]) = i
      /\ \A r : r \notin S => Place(s, r) = 0
  BY <1>4, PlaceIs
<1>6. \A i, k \in 1..c : <<s[i], s[k]>> \in ord <=> i < k
  <2>1. \A i, k \in 1..c : i < k => <<s[i], s[k]>> \in ord BY DEF Increasing
  <2>2. \A i, k \in 1..c : <<s[i], s[k]>> \in ord => ~(k < i) /\ k # i
    BY <1>2, <2>1 DEF IsOrder
  <2> QED BY <1>2, <2>1, <2>2
<1>7. \A i : InSeq(s, i) \in Room \cup {None} BY <1>2 DEF InSeq
<1>8. h \in Room \cup {None} /\ nx \in Links /\ pv \in Links /\ c \in Int BY <1>2, <1>7 DEF Links
<1>9. h = InSeq(s, 1) /\ \A i \in 1..c : nx[s[i]] = InSeq(s, i + 1) /\ pv[s[i]] = InSeq(s, i - 1)
  BY <1>2, <1>5
<1>10. \A r \in Room \ S : nx[r] = None /\ pv[r] = None
  <2>1. ~(0 - 1 \in 1..c) OBVIOUS
  <2> QED BY <1>5, <2>1 DEF InSeq
<1> HIDE DEF nx, pv, m, h, S, c
<1>11. ASSUME NEW p \in S \cup {None} PROVE IsNext(NextOf(h, nx, p), p, S, ord)
  <2>0. \E a \in 0..c : /\ NextOf(h, nx, p) = InSeq(s, a + 1)
                        /\ \A i \in 1..c : After(ord, p, s[i]) <=> a < i
    <3>1. CASE p = None
      <4>1. NextOf(h, nx, p) = InSeq(s, 0 + 1) BY <1>9, <3>1 DEF NextOf
      <4>2. \A i \in 1..c : After(ord, p, s[i]) <=> 0 < i BY <1>2, <3>1 DEF After
      <4> QED BY <1>2, <4>1, <4>2
    <3>2. CASE p # None
      <4>1. PICK a \in 1..c : p = s[a] BY <1>3, <3>2
      <4>2. NextOf(h, nx, p) = InSeq(s, a + 1) BY <1>9, <3>2, <4>1 DEF NextOf
      <4>3. \A i \in 1..c : After(ord, p, s[i]) <=> a < i BY <1>6, <3>2, <4>1 DEF After
      <4>4. a \in 0..c BY <1>2
      <4> QED BY <4>2, <4>3, <4>4
    <3> QED BY <3>1, <3>2
  <2>1. PICK a \in 0..c : /\ NextOf(h, nx, p) = InSeq(s, a + 1)
                          /\ \A i \in 1..c : After(ord, p, s[i]) <=> a < i
    BY <2>0
  <2>2. CASE a = c
    <3>1. ~(a + 1 \in 1..c) /\ \A i \in 1..c : ~(a < i) BY <1>2, <2>2
    <3>2. NextOf(h, nx, p) = None BY <2>1, <3>1 DEF InSeq, c
    <3>3. \A y \in S : ~After(ord, p, y) BY <1>3, <2>1, <3>1
    <3> QED BY <3>2, <3>3 DEF IsNext
  <2>3. CASE a # c
    <3>1. a + 1 \in 1..c /\ a < a + 1 BY <1>2, <2>3
    <3>2. NextOf(h, nx, p) = s[a + 1] BY <2>1, <3>1 DEF InSeq, c
    <3>3. s[a + 1] \in S /\ After(ord, p, s[a + 1]) BY <1>2, <2>1, <3>1
    <3>4. ASSUME NEW y \in S, After(ord, p, y) PROVE y = s[a + 1] \/ <<s[a + 1], y>> \in ord
      <4>1. PICK i \in 1..c : y = s[i] BY <1>3
      <4>2. a < i BY <2>1, <3>4, <4>1
      <4>3. i = a + 1 \/ a + 1 < i BY <1>2, <4>2
      <4> QED BY <1>6, <3>1, <4>1, <4>3
    <3> QED BY <3>2, <3>3, <3>4 DEF IsNext
  <2> QED BY <2>2, <2>3
<1>12. ASSUME NEW y \in S PROVE pv[y] \in S \cup {None} /\ NextOf(h, nx, pv[y]) = y
  <2>1. PICK i \in 1..c : y = s[i] BY <1>3
  <2>2. CASE i = 1
    <3>1. pv[y] = None BY <1>9, <2>1, <2>2 DEF InSeq
    <3>2. h = y BY <1>9, <2>1, <2>2 DEF InSeq, c
    <3> QED BY <3>1, <3>2 DEF NextOf
  <2>3. CASE i # 1
    <3>1. i - 1 \in 1..c /\ (i - 1) + 1 = i BY <1>2, <2>3
    <3>2. pv[y] = s[i - 1] BY <1>9, <2>1, <3>1 DEF InSeq, c
    <3>3. nx[s[i - 1]] = InSeq(s, (i - 1) + 1) BY <1>9, <3>1
    <3>4. InSeq(s, i) = y BY <2>1 DEF InSeq, c
    <3>5. s[i - 1] \in S /\ s[i - 1] # None BY <1>2, <3>1
    <3> QED BY <3>1, <3>2, <3>3, <3>4, <3>5 DEF NextOf
  <2> QED BY <2>2, <2>3
<1>13. Linked(h, nx, pv, S, ord) BY <1>10, <1>11, <1>12 DEF Linked
<1>14. m = Relinked(l, j, h, c, nx, pv) BY <1>1 DEF c
<1>15. /\ ChangesOnly(m, l, j)
       /\ m.head[j] = h /\ m.size[j] = c /\ m.next[j] = nx /\ m.previous[j] = pv
  BY <1>8, <1>14, RelinkedIs
<1>16. LinkedAt(m, j, S, ord) BY <1>4, <1>13, <1>15 DEF LinkedAt
<1> QED BY <1>15, <1>16 DEF m, S

----------------------------------------------------------------------------
(* What is read of a level.                                                *)

ReadTo(s, n, M, ord) ==
    /\ s \in Seq(Room) /\ Len(s) <= n /\ Increasing(s, ord) /\ ToSet(s) \subseteq M
    /\ \A y \in M, i \in 1..Len(s) : <<y, s[i]>> \in ord => y \in ToSet(s)
    /\ Len(s) < n => ToSet(s) = M

ReadNext(l, j, s, n) ==
    LET r == IF s = <<>> THEN l.head[j] ELSE l.next[j][Last(s)]
    IN  IF r = None \/ Len(s) < n - 1 THEN s ELSE Append(s, r)

LEMMA ReadStep ==
    ASSUME NEW l \in Shapes, NEW j \in Levels, NEW M \in SUBSET Room, NEW ord, IsOrder(ord, M),
           LinkedAt(l, j, M, ord), NEW n \in Nat \ {0}, NEW s, ReadTo(s, n - 1, M, ord)
    PROVE  ReadTo(ReadNext(l, j, s, n), n, M, ord)
<1> DEFINE c == Len(s)
           p == IF s = <<>> THEN None ELSE Last(s)
           r == NextOf(l.head[j], l.next[j], p)
<1>1. s \in Seq(Room) /\ c \in Nat /\ c <= n - 1 /\ Increasing(s, ord) /\ ToSet(s) \subseteq M
  BY DEF ReadTo
<1>2. \A y : y \in ToSet(s) <=> \E i \in 1..c : s[i] = y BY <1>1 DEF ToSet
<1>3. s # <<>> => c \in 1..c /\ Last(s) = s[c] /\ Last(s) \in Room /\ Last(s) \in ToSet(s)
  BY <1>1, <1>2 DEF Last
<1>4. p \in M \cup {None} /\ (s = <<>> <=> p = None) BY <1>1, <1>3
<1>5. ReadNext(l, j, s, n) = IF r = None \/ c < n - 1 THEN s ELSE Append(s, r)
  BY <1>4 DEF ReadNext, NextOf
<1>6. IsNext(r, p, M, ord) BY <1>4 DEF LinkedAt, Linked
<1>7. \A y \in M : ~After(ord, p, y) <=> p # None /\ (y = p \/ <<y, p>> \in ord)
  BY <1>4 DEF After, IsOrder
<1>8. \A y \in M : ~After(ord, p, y) => y \in ToSet(s)
  <2>1. TAKE y \in M
  <2>2. HAVE ~After(ord, p, y)
  <2>3. p # None /\ (y = p \/ <<y, p>> \in ord) BY <1>7, <2>2
  <2>4. p = s[c] /\ c \in 1..c /\ p \in ToSet(s) BY <1>3, <1>4, <2>3
  <2> QED BY <2>3, <2>4 DEF ReadTo
<1>9. CASE r = None \/ c < n - 1
  <2>1. ToSet(s) = M
    <3>1. CASE c < n - 1 BY <3>1 DEF ReadTo
    <3>2. CASE r = None
      <4>1. \A y \in M : ~After(ord, p, y) BY <1>6, <3>2 DEF IsNext
      <4> QED BY <1>1, <1>8, <4>1
    <3> QED BY <1>9, <3>1, <3>2
  <2>2. c <= n BY <1>1
  <2>3. ReadTo(s, n, M, ord) BY <1>1, <2>1, <2>2 DEF ReadTo
  <2> QED BY <1>5, <1>9, <2>3
<1>10. CASE ~(r = None \/ c < n - 1)
  <2>0. PICK x, v : x = r /\ v = Append(s, r) OBVIOUS
  <2>1. x \in M /\ x \in Room /\ After(ord, p, x) /\ \A y \in M : After(ord, p, y) => y = x \/ <<x, y>> \in ord
    BY <1>6, <1>10, <2>0 DEF IsNext
  <2>2. c + 1 = n BY <1>1, <1>10
  <2>3. v \in Seq(Room) /\ Len(v) = c + 1 /\ v[c + 1] = x /\ \A i \in 1..c : v[i] = s[i]
    BY <1>1, <2>0, <2>1
  <2>4. \A i \in 1..(c + 1) : i = c + 1 \/ i \in 1..c BY <1>1
  <2>5. \A y : y \in ToSet(v) <=> y \in ToSet(s) \/ y = x
    <3>1. \A y : y \in ToSet(v) <=> \E i \in 1..(c + 1) : v[i] = y BY <2>3 DEF ToSet
    <3>2. c + 1 \in 1..(c + 1) /\ \A i \in 1..c : i \in 1..(c + 1) BY <1>1
    <3> QED BY <1>2, <2>3, <2>4, <3>1, <3>2
  <2>6. Increasing(v, ord)
    <3>1. SUFFICES ASSUME NEW i \in 1..(c + 1), NEW k \in 1..(c + 1), i < k
                   PROVE  <<v[i], v[k]>> \in ord
      BY <2>3 DEF Increasing
    <3>2. i \in 1..c BY <1>1, <3>1
    <3>3. CASE k = c + 1
      <4>1. s # <<>> /\ p = s[c] /\ c \in 1..c BY <1>1, <1>3, <3>2
      <4>2. <<p, x>> \in ord BY <1>4, <2>1, <4>1 DEF After
      <4>3. i = c \/ <<s[i], s[c]>> \in ord BY <1>1, <3>2, <4>1 DEF Increasing
      <4>4. s[i] \in M /\ p \in M BY <1>1, <1>2, <1>4, <3>2, <4>1
      <4>5. <<s[i], x>> \in ord BY <2>1, <4>1, <4>2, <4>3, <4>4 DEF IsOrder
      <4> QED BY <2>3, <3>2, <3>3, <4>5
    <3>4. CASE k # c + 1
      <4>1. k \in 1..c BY <2>4, <3>4
      <4>2. <<s[i], s[k]>> \in ord BY <1>1, <3>1, <3>2, <4>1 DEF Increasing
      <4> QED BY <2>3, <3>2, <4>1, <4>2
    <3> QED BY <3>3, <3>4
  <2>7. ASSUME NEW y \in M, NEW i \in 1..(c + 1), <<y, v[i]>> \in ord PROVE y \in ToSet(v)
    <3>1. CASE i = c + 1
      <4>1. <<y, x>> \in ord BY <2>3, <2>7, <3>1
      <4>2. ~(y = x \/ <<x, y>> \in ord) BY <2>1, <4>1 DEF IsOrder
      <4>3. ~After(ord, p, y) BY <2>1, <4>2
      <4> QED BY <1>8, <2>5, <4>3
    <3>2. CASE i # c + 1
      <4>1. i \in 1..c BY <2>4, <3>2
      <4> QED BY <2>3, <2>5, <2>7, <4>1 DEF ReadTo
    <3> QED BY <3>1, <3>2
  <2>8. ToSet(v) \subseteq M /\ Len(v) <= n /\ ~(Len(v) < n) BY <1>1, <2>1, <2>2, <2>3, <2>5
  <2>9. ReadTo(v, n, M, ord) BY <2>3, <2>6, <2>7, <2>8 DEF ReadTo
  <2> QED BY <1>5, <1>10, <2>0, <2>9
<1> QED BY <1>9, <1>10

LEMMA LevelIs ==
    ASSUME NEW l \in Shapes, NEW j \in Levels, NEW M \in SUBSET Room, NEW ord, IsOrder(ord, M),
           LinkedAt(l, j, M, ord)
    PROVE  Level(l, j) \in Seq(Room) /\ ToSet(Level(l, j)) = M /\ Increasing(Level(l, j), ord)
<1> DEFINE n == Cardinality(Room)
           V == Seq(Room)
           F == [p \in (1..n) \X V |-> ReadNext(l, j, p[2], p[1])]
           Is(f) == f = [k \in 0..n |-> IF k = 0 THEN <<>> ELSE ReadNext(l, j, f[k - 1], k)]
           g == CHOOSE f : Is(f)
<1>1. n \in Nat BY FS_CardinalityType
<1>2. <<>> \in V OBVIOUS
<1>3. Does(F, 1..n, V)
  <2>1. ASSUME NEW u \in V, NEW k PROVE ReadNext(l, j, u, k) \in V
    <3>1. l.head[j] \in Room \cup {None} /\ l.next[j] \in [Room -> Room \cup {None}] BY DEF Shapes, Links
    <3>2. u # <<>> => Last(u) \in Room BY DEF Last
    <3> QED BY <3>1, <3>2 DEF ReadNext
  <2> QED BY <2>1 DEF Does
<1>4. \A k \in 1..n, u \in V : F[<<k, u>>] = ReadNext(l, j, u, k) OBVIOUS
<1> HIDE DEF F, n
<1>5. PICK f : f \in [0..n -> V] /\ f[0] = <<>> /\ \A k \in 1..n : f[k] = F[<<k, f[k - 1]>>]
  <2>1. PICK v : v = <<>> OBVIOUS
  <2> HIDE DEF V
  <2>2. \E f : Iteration(f, n, V, v, F) BY <1>1, <1>2, <1>3, <2>1, Iterates
  <2> QED BY <2>1, <2>2 DEF Iteration
<1>6. Is(f)
  <2>1. \A k \in 0..n : k # 0 => k \in 1..n /\ k - 1 \in 0..n BY <1>1
  <2>2. \A k \in 0..n : k # 0 => f[k - 1] \in V BY <1>5, <2>1
  <2>3. \A k \in 0..n : f[k] = IF k = 0 THEN <<>> ELSE ReadNext(l, j, f[k - 1], k)
    BY <1>4, <1>5, <2>1, <2>2
  <2>4. f = [k \in 0..n |-> f[k]] BY <1>5
  <2> QED BY <2>3, <2>4
<1>7. Is(g)
  <2> HIDE DEF Is
  <2> QED BY <1>6
<1>8. Level(l, j) = g[n] BY DEF Level, ReadNext, n
<1> HIDE DEF g
<1>9. g[0] = <<>> /\ \A k \in 1..n : g[k] = ReadNext(l, j, g[k - 1], k)
  <2>1. 0 \in 0..n /\ \A k \in 1..n : k \in 0..n /\ k # 0 BY <1>1
  <2> QED BY <1>7, <2>1
<1> DEFINE T == {k \in 0..n : ReadTo(g[k], k, M, ord)}
<1>10. 0 \in T
  <2>1. ReadTo(<<>>, 0, M, ord) BY DEF ReadTo, Increasing, ToSet
  <2> QED BY <1>1, <1>9, <2>1
<1>11. ASSUME NEW k \in 1..n, k - 1 \in T PROVE k \in T
  <2>1. k \in 0..n /\ k \in Nat \ {0} BY <1>1
  <2>2. ReadTo(g[k], k, M, ord) BY <1>9, <1>11, <2>1, ReadStep
  <2> QED BY <2>1, <2>2
<1> HIDE DEF T
<1>12. n \in T
  <2>1. 0..n \subseteq T BY <1>1, <1>10, <1>11, StepsUp
  <2> QED BY <1>1, <2>1
<1>13. PICK s : s = g[n] OBVIOUS
<1>14. ReadTo(s, n, M, ord) BY <1>12, <1>13 DEF T
<1>15. s \in Seq(Room) /\ Increasing(s, ord) /\ ToSet(s) \subseteq M /\ Len(s) \in Nat /\ Len(s) <= n
  BY <1>14 DEF ReadTo
<1>16. ToSet(s) = M
  <2>1. CASE Len(s) < n BY <1>14, <2>1 DEF ReadTo
  <2>2. CASE Len(s) = n
    <3>1. IsOrder(ord, ToSet(s)) BY <1>15, PartIsOrder
    <3>2. Cardinality(ToSet(s)) = n BY <1>15, <2>2, <3>1, IncreasingCounts
    <3>3. ToSet(s) \in SUBSET Room BY <1>15
    <3>4. ToSet(s) = Room BY <3>2, <3>3, FS_Subset DEF n
    <3> QED BY <1>15, <3>4
  <2> QED BY <1>1, <1>15, <2>1, <2>2
<1> QED BY <1>8, <1>13, <1>15, <1>16

----------------------------------------------------------------------------
(* seed                                                                    *)

LEMMA EmptyIs == Kept(Empty) /\ Empty.nodes = {} /\ Empty \in Shapes
<1> DEFINE M == [j \in Levels |-> {}]
<1>1. Empty \in Shapes BY DEF Empty, Shapes, Links, Unlinked, Levels
<1>2. Cardinality({}) = 0 BY FS_EmptySet
<1>3. \A j \in Levels : /\ Empty.head[j] = None /\ Empty.size[j] = 0
                        /\ Empty.next[j] = Unlinked /\ Empty.previous[j] = Unlinked
  BY DEF Empty
<1>4. ASSUME NEW j \in Levels PROVE LinkedAt(Empty, j, {}, {})
  <2>1. Linked(None, Unlinked, Unlinked, {}, {}) BY DEF Linked, IsNext, NextOf, Unlinked
  <2> QED BY <1>2, <1>3, <2>1 DEF LinkedAt
<1>5. Empty.nodes = {} BY DEF Empty
<1>6. IsKept(Empty, M, {}) BY <1>1, <1>4, <1>5 DEF IsKept, IsOrder, Levels
<1> QED BY <1>1, <1>5, <1>6 DEF Kept

(* The levels that are kept are those up to the top.                       *)
LEMMA LevelsKept ==
    ASSUME NEW K \in SUBSET Levels, 0 \in K, \A j \in K, i \in Levels : i <= j => i \in K
    PROVE  Cardinality(K) - 1 \in Levels /\ K = 0..(Cardinality(K) - 1)
<1>1. \E t \in Levels : K = 0..t
  <2>1. CASE K = Levels BY <2>1 DEF Levels
  <2>2. CASE K # Levels
    <3>0. \E d \in Levels : d \notin K BY <2>2
    <3>1. Levels \ K \subseteq Nat /\ Levels \ K # {} BY <3>0 DEF Levels
    <3>2. PICK d \in Levels \ K : \A e \in Levels \ K : d <= e BY <3>1, LeastOf
    <3>3. d - 1 \in Levels BY <3>2 DEF Levels
    <3>4. \A i \in Levels : i \in K <=> i < d
      <4>1. TAKE i \in Levels
      <4>2. i \notin K => ~(i < d) BY <3>2 DEF Levels
      <4>3. i \in K => ~(d <= i) BY <3>2
      <4> QED BY <4>2, <4>3 DEF Levels
    <3>5. \A i \in Levels : i < d <=> i \in 0..(d - 1) BY <3>2 DEF Levels
    <3>6. \A i \in 0..(d - 1) : i \in Levels BY <3>2 DEF Levels
    <3>7. K = 0..(d - 1) BY <3>4, <3>5, <3>6
    <3> QED BY <3>3, <3>7
  <2> QED BY <2>1, <2>2
<1>2. PICK t \in Levels : K = 0..t BY <1>1
<1>3. t \in Nat BY DEF Levels
<1>4. Cardinality(0..t) = t - 0 + 1 BY <1>3, FS_Interval
<1> QED BY <1>2, <1>3, <1>4

LEMMA SeqOfSet ==
    ASSUME NEW S \in SUBSET Room, NEW s \in SetToSeqs(S)
    PROVE  /\ s \in Seq(Room) /\ ToSet(s) = S
           /\ \A i, k \in 1..Len(s) : s[i] = s[k] => i = k
<1> DEFINE c == Cardinality(S)
<1>1. IsFiniteSet(S) /\ c \in Nat BY FS_Subset, FS_CardinalityType
<1>2. s \in [1..c -> S] /\ \A i, k \in 1..c : i # k => s[i] # s[k] BY DEF SetToSeqs
<1>3. Cardinality(1..c) = c /\ IsFiniteSet(1..c)
  <2> HIDE DEF c
  <2>1. Cardinality(1..c) = (IF 1 > c THEN 0 ELSE c - 1 + 1) /\ IsFiniteSet(1..c) BY <1>1, FS_Interval
  <2> QED BY <1>1, <2>1
<1>4. s \in Injection(1..c, S) BY <1>2 DEF Injection, IsInjective
<1>5. s \in Surjection(1..c, S) BY <1>1, <1>3, <1>4, FS_Injection
<1>6. \A y \in S : \E i \in 1..c : s[i] = y BY <1>5 DEF Surjection
<1>7. s \in Seq(Room) /\ Len(s) = c BY <1>1, <1>2
<1> QED BY <1>2, <1>6, <1>7 DEF ToSet

(* The levels up to k are linked.                                          *)
SeededTo(m, k, K, N, S, t, ord) ==
    /\ m \in Shapes /\ m.nodes = S /\ m.top = t
    /\ \A i \in Levels : LinkedAt(m, i, IF i <= k /\ i \in K THEN N[i] ELSE {}, ord)

LEMMA SeededStep ==
    ASSUME NEW k \in Levels, NEW K \in SUBSET Levels, NEW N, NEW S, NEW t, NEW ord,
           NEW m, SeededTo(m, k - 1, K, N, S, t, ord),
           NEW s \in Seq(Room), IsOrder(ord, ToSet(s)), Increasing(s, ord), N[k] = ToSet(s)
    PROVE  SeededTo(IF k \notin K THEN m ELSE Link(m, k, s), k, K, N, S, t, ord)
<1>1. \A i \in Levels : (i <= k <=> i <= k - 1 \/ i = k) /\ ~(k <= k - 1) BY DEF Levels
<1>2. CASE k \notin K
  <2>1. \A i \in Levels : (i <= k /\ i \in K) <=> (i <= k - 1 /\ i \in K) BY <1>1, <1>2
  <2>2. \A i \in Levels : LinkedAt(m, i, IF i <= k /\ i \in K THEN N[i] ELSE {}, ord)
    BY <2>1 DEF SeededTo
  <2> QED BY <1>2, <2>2 DEF SeededTo
<1>3. CASE k \in K
  <2> DEFINE m2 == Link(m, k, s)
  <2>1. ChangesOnly(m2, m, k) /\ LinkedAt(m2, k, N[k], ord) BY LinkIs DEF SeededTo
  <2> HIDE DEF m2
  <2>2. ASSUME NEW i \in Levels PROVE LinkedAt(m2, i, IF i <= k /\ i \in K THEN N[i] ELSE {}, ord)
    <3>1. CASE i = k BY <1>1, <1>3, <2>1, <3>1
    <3>2. CASE i # k
      <4>1. LinkedAt(m, i, IF i <= k /\ i \in K THEN N[i] ELSE {}, ord) BY <1>1, <3>2 DEF SeededTo
      <4>2. SameLevel(m2, m, i) BY <2>1, <3>2 DEF ChangesOnly
      <4> QED BY <4>1, <4>2, SameLevelIs
    <3> QED BY <3>1, <3>2
  <2>3. SeededTo(m2, k, K, N, S, t, ord) BY <2>1, <2>2 DEF SeededTo, ChangesOnly
  <2> QED BY <1>3, <2>3 DEF m2
<1> QED BY <1>2, <1>3

LEMMA SeedsAre ==
    ASSUME NEW S \in SUBSET Room, NEW key, NEW m \in Seeds(S, key)
    PROVE  Kept(m) /\ m.nodes = S
<1> DEFINE Up(up, j) == {r \in S : up[r] >= j}
           K(up) == {j \in Levels : j = 0 \/ Cardinality({r \in S : up[r] >= j}) > 1}
           base(up) == [Empty EXCEPT !.nodes = S, !.top = Cardinality(K(up)) - 1]
           Is(f, s, up) == f = [j \in -1..MaxLevel |->
                IF j = -1 THEN base(up)
                ELSE IF j \notin K(up) THEN f[j - 1]
                ELSE Link(f[j - 1], j, Only(s, {r \in S : up[r] >= j}))]
<1>1. PICK s \in SetToSeqs(S), up \in [S -> Levels] :
        m = (CHOOSE f : Is(f, s, up))[MaxLevel]
  <2>1. PICK q \in SetToSeqs(S), v \in [S -> Levels] : m = Seeded(S, q, v) BY DEF Seeds
  <2>2. m = (CHOOSE f : Is(f, q, v))[MaxLevel] BY <2>1 DEF Seeded
  <2> QED BY <2>2
<1> DEFINE U(j) == Up(up, j)
           kk == K(up)
           b == base(up)
           t == Cardinality(kk) - 1
<1>2. s \in Seq(Room) /\ ToSet(s) = S /\ \A i, k \in 1..Len(s) : s[i] = s[k] => i = k
  BY SeqOfSet
<1> DEFINE ord == {<<s[p[1]], s[p[2]]>> : p \in {q \in (1..Len(s)) \X (1..Len(s)) : q[1] < q[2]}}
<1>3. \A i, k \in 1..Len(s) : <<s[i], s[k]>> \in ord <=> i < k
  <2>1. ASSUME NEW i \in 1..Len(s), NEW k \in 1..Len(s), i < k PROVE <<s[i], s[k]>> \in ord
    <3>1. <<i, k>> \in {q \in (1..Len(s)) \X (1..Len(s)) : q[1] < q[2]} BY <2>1
    <3> QED BY <3>1
  <2>2. ASSUME NEW i \in 1..Len(s), NEW k \in 1..Len(s), <<s[i], s[k]>> \in ord PROVE i < k
    <3>1. PICK q \in (1..Len(s)) \X (1..Len(s)) : q[1] < q[2] /\ <<s[i], s[k]>> = <<s[q[1]], s[q[2]]>>
      BY <2>2
    <3>2. q[1] = i /\ q[2] = k BY <1>2, <3>1
    <3> QED BY <3>1, <3>2
  <2> QED BY <2>1, <2>2
<1> HIDE DEF ord
<1>4. \A y \in S : \E i \in 1..Len(s) : y = s[i] BY <1>2 DEF ToSet
<1>5. IsOrder(ord, S)
  <2>1. \A y \in S : <<y, y>> \notin ord BY <1>3, <1>4
  <2>2. ASSUME NEW y \in S, NEW z \in S, y # z PROVE <<y, z>> \in ord \/ <<z, y>> \in ord
    <3>1. PICK i \in 1..Len(s) : y = s[i] BY <1>4
    <3>2. PICK k \in 1..Len(s) : z = s[k] BY <1>4
    <3>3. i < k \/ k < i BY <2>2, <3>1, <3>2
    <3> QED BY <1>3, <3>1, <3>2, <3>3
  <2>3. ASSUME NEW x \in S, NEW y \in S, NEW z \in S, <<x, y>> \in ord, <<y, z>> \in ord
        PROVE  <<x, z>> \in ord
    <3>1. PICK a \in 1..Len(s) : x = s[a] BY <1>4
    <3>2. PICK i \in 1..Len(s) : y = s[i] BY <1>4
    <3>3. PICK k \in 1..Len(s) : z = s[k] BY <1>4
    <3>4. a < i /\ i < k BY <1>3, <2>3, <3>1, <3>2, <3>3
    <3>5. a < k BY <3>4
    <3> QED BY <1>3, <3>1, <3>3, <3>5
  <2> QED BY <2>1, <2>2, <2>3 DEF IsOrder
<1>6. Increasing(s, ord) BY <1>3 DEF Increasing
<1>7. \A j : /\ Only(s, U(j)) \in Seq(Room) /\ ToSet(Only(s, U(j))) = U(j)
             /\ Increasing(Only(s, U(j)), ord) /\ IsOrder(ord, U(j)) /\ U(j) \in SUBSET S
  <2>1. TAKE j
  <2>2. U(j) \in SUBSET S OBVIOUS
  <2> HIDE DEF U
  <2>3. ToSet(s) \cap U(j) = U(j) BY <1>2, <2>2
  <2> QED BY <1>2, <1>5, <1>6, <2>2, <2>3, OnlyIs, PartIsOrder
<1>8. kk \in SUBSET Levels /\ 0 \in kk /\ \A j \in kk, i \in Levels : i <= j => i \in kk
  <2>1. kk \in SUBSET Levels /\ 0 \in kk BY DEF Levels
  <2>2. ASSUME NEW j \in kk, NEW i \in Levels, i <= j PROVE i \in kk
    <3>1. U(j) \subseteq U(i) BY <2>2 DEF Levels
    <3>2. IsFiniteSet(U(i)) BY <1>7, FS_Subset
    <3>3. Cardinality(U(j)) <= Cardinality(U(i)) /\ Cardinality(U(i)) \in Nat /\ Cardinality(U(j)) \in Nat
      <4>1. U(j) \in SUBSET U(i) BY <3>1
      <4> HIDE DEF U
      <4>2. IsFiniteSet(U(j)) BY <3>2, <4>1, FS_Subset
      <4> QED BY <3>2, <4>1, <4>2, FS_Subset, FS_CardinalityType
    <3>4. j = 0 => i = 0 BY <2>2 DEF Levels
    <3>5. j # 0 => Cardinality(U(j)) > 1 OBVIOUS
    <3>6. Cardinality(U(i)) > 1 => i \in kk OBVIOUS
    <3> HIDE DEF U, kk
    <3> QED BY <2>1, <3>3, <3>4, <3>5, <3>6
  <2> QED BY <2>1, <2>2
<1>9. t \in Levels /\ kk = 0..t
  <2> HIDE DEF kk
  <2> QED BY <1>8, LevelsKept
<1>10. /\ b \in Shapes /\ b.nodes = S /\ b.top = t
       /\ \A i \in Levels : SameLevel(b, Empty, i)
  <2> HIDE DEF t, kk
  <2>1. b = [Empty EXCEPT !.nodes = S, !.top = t] BY DEF t, kk
  <2> HIDE DEF b
  <2>2. b = [nodes |-> S, top |-> t, size |-> Empty.size, head |-> Empty.head,
             next |-> Empty.next, previous |-> Empty.previous]
    BY <2>1 DEF Empty
  <2>3. Empty \in Shapes BY EmptyIs
  <2> QED BY <1>9, <2>2, <2>3 DEF Shapes, SameLevel
<1> HIDE DEF b, t
<1> DEFINE F == [p \in (0..MaxLevel) \X Shapes |->
                    IF p[1] \notin kk THEN p[2] ELSE Link(p[2], p[1], Only(s, U(p[1])))]
           n == MaxLevel + 1
           g == CHOOSE f : Is(f, s, up)
<1>11. n \in Nat /\ n - 1 = MaxLevel /\ Levels = 0..MaxLevel BY DEF Levels
<1>12. \A k \in Levels, u \in Shapes :
          (IF k \notin kk THEN u ELSE Link(u, k, Only(s, U(k)))) \in Shapes
  <2>1. TAKE k \in Levels, u \in Shapes
  <2>2. PICK v : v = Only(s, U(k)) OBVIOUS
  <2>3. v \in Seq(Room) /\ IsOrder(ord, ToSet(v)) /\ Increasing(v, ord)
    <3> HIDE DEF U
    <3> QED BY <1>7, <2>2
  <2>4. ChangesOnly(Link(u, k, v), u, k) BY <2>3, LinkIs
  <2> QED BY <2>2, <2>4 DEF ChangesOnly
<1>13. Does(F, 0..(n - 1), Shapes)
  <2> HIDE DEF U, kk, K
  <2>1. \A p \in (0..MaxLevel) \X Shapes :
          (IF p[1] \notin kk THEN p[2] ELSE Link(p[2], p[1], Only(s, U(p[1])))) \in Shapes
    BY <1>11, <1>12
  <2> QED BY <1>11, <2>1 DEF Does
<1>14. \A k \in 0..MaxLevel, u \in Shapes :
          F[<<k, u>>] = IF k \notin kk THEN u ELSE Link(u, k, Only(s, U(k)))
  OBVIOUS
<1> HIDE DEF F
<1>15. \E f : Is(f, s, up)
  <2>0. PICK f : LevelIteration(f, n, Shapes, b, F)
    <3> HIDE DEF n
    <3> QED BY <1>10, <1>11, <1>13, IteratesLevels
  <2>1. f \in [-1..MaxLevel -> Shapes]
        /\ f = [k \in -1..MaxLevel |-> IF k = -1 THEN b ELSE F[<<k, f[k - 1]>>]]
    BY <1>11, <2>0 DEF LevelIteration
  <2>2. \A k \in -1..MaxLevel : k # -1 => k \in 0..MaxLevel /\ k - 1 \in -1..MaxLevel OBVIOUS
  <2>3. \A k \in -1..MaxLevel : k # -1 =>
          F[<<k, f[k - 1]>>] = IF k \notin kk THEN f[k - 1] ELSE Link(f[k - 1], k, Only(s, U(k)))
    <3> HIDE DEF U, kk, K
    <3> QED BY <1>14, <2>1, <2>2
  <2>4. [k \in -1..MaxLevel |-> IF k = -1 THEN b ELSE F[<<k, f[k - 1]>>]]
          = [k \in -1..MaxLevel |->
               IF k = -1 THEN b
               ELSE IF k \notin kk THEN f[k - 1] ELSE Link(f[k - 1], k, Only(s, U(k)))]
    <3> HIDE DEF U, kk, K
    <3> QED BY <2>3
  <2> QED BY <2>1, <2>4 DEF b
<1>16. Is(g, s, up)
  <2> HIDE DEF Is
  <2> QED BY <1>15
<1>17. m = g[MaxLevel] BY <1>1
<1> HIDE DEF g
<1>18. g[-1] = b /\ \A k \in 0..MaxLevel :
          g[k] = IF k \notin kk THEN g[k - 1] ELSE Link(g[k - 1], k, Only(s, U(k)))
  <2>1. -1 \in -1..MaxLevel /\ \A k \in 0..MaxLevel : k \in -1..MaxLevel /\ k # -1 OBVIOUS
  <2> QED BY <1>16, <2>1 DEF b
<1> DEFINE N == [j \in Levels |-> U(j)]
           T == {k \in 0..n : SeededTo(g[k - 1], k - 1, kk, N, S, t, ord)}
<1>19. \A j \in Levels : N[j] = U(j) OBVIOUS
<1> HIDE DEF N, U, kk, K, Is, n
<1>20. 0 \in T
  <2>1. ASSUME NEW i \in Levels PROVE LinkedAt(b, i, IF i <= -1 /\ i \in kk THEN N[i] ELSE {}, ord)
    <3>1. ~(i <= -1) BY DEF Levels
    <3>2. LinkedAt(b, i, {}, ord)
      <4>1. Linked(None, Unlinked, Unlinked, {}, ord) BY DEF Linked, IsNext, NextOf, Unlinked
      <4>2. /\ Empty.head[i] = None /\ Empty.size[i] = 0
            /\ Empty.next[i] = Unlinked /\ Empty.previous[i] = Unlinked
        BY DEF Empty
      <4>3. LinkedAt(Empty, i, {}, ord) BY <4>1, <4>2, FS_EmptySet DEF LinkedAt
      <4> QED BY <1>10, <4>3, SameLevelIs
    <3> QED BY <3>1, <3>2
  <2>2. SeededTo(b, -1, kk, N, S, t, ord) BY <1>10, <2>1 DEF SeededTo
  <2>3. g[0 - 1] = b /\ 0 \in 0..n BY <1>11, <1>18
  <2> QED BY <2>2, <2>3
<1>21. ASSUME NEW k \in 1..n, k - 1 \in T PROVE k \in T
  <2>1. PICK j, u, v : j = k - 1 /\ u = g[(k - 1) - 1] /\ v = Only(s, U(k - 1)) OBVIOUS
  <2>2. j \in Levels /\ j \in 0..MaxLevel /\ k \in 0..n BY <1>11, <2>1
  <2>3. SeededTo(u, j - 1, kk, N, S, t, ord) BY <1>21, <2>1
  <2>4. g[j] = IF j \notin kk THEN u ELSE Link(u, j, v) BY <1>18, <2>1, <2>2
  <2>5. v \in Seq(Room) /\ ToSet(v) = N[j] /\ Increasing(v, ord) /\ IsOrder(ord, ToSet(v))
    BY <1>7, <1>19, <2>1, <2>2
  <2>6. SeededTo(g[j], j, kk, N, S, t, ord) BY <1>8, <2>2, <2>3, <2>4, <2>5, SeededStep
  <2> QED BY <2>1, <2>2, <2>6
<1> HIDE DEF T
<1>22. n \in T
  <2>1. 0..n \subseteq T BY <1>11, <1>20, <1>21, StepsUp
  <2> QED BY <1>11, <2>1
<1>23. SeededTo(m, MaxLevel, kk, N, S, t, ord) BY <1>11, <1>17, <1>22 DEF T
<1> DEFINE M == [j \in Levels |-> IF j \in kk THEN U(j) ELSE {}]
<1>24. \A j \in Levels : M[j] = IF j \in kk THEN U(j) ELSE {} OBVIOUS
<1>25. M \in [Levels -> SUBSET Room]
  <2>1. \A j : U(j) \in SUBSET Room BY <1>7
  <2> QED BY <2>1
<1> HIDE DEF M
<1>26. IsKept(m, M, ord)
  <2>1. m \in Shapes /\ m.nodes = S /\ m.top = t BY <1>23 DEF SeededTo
  <2>2. M[0] = S
    <3>1. U(0) = S BY DEF U, Levels
    <3> QED BY <1>8, <1>24, <3>1
  <2>3. ASSUME NEW i \in Levels, NEW j \in Levels, i <= j PROVE M[j] \subseteq M[i]
    <3>1. U(j) \subseteq U(i) BY <2>3 DEF U, Levels
    <3>2. j \in kk => i \in kk BY <1>8, <2>3
    <3> QED BY <1>24, <3>1, <3>2
  <2>4. \A j \in Levels : j > t => M[j] = {}
    <3>1. \A j \in Levels : j > t => j \notin kk BY <1>9 DEF Levels
    <3> QED BY <1>24, <3>1
  <2>5. ASSUME NEW j \in Levels PROVE LinkedAt(m, j, M[j], ord)
    <3>1. j <= MaxLevel BY DEF Levels
    <3>2. LinkedAt(m, j, IF j \in kk THEN N[j] ELSE {}, ord) BY <1>23, <3>1 DEF SeededTo
    <3> QED BY <1>19, <1>24, <3>2
  <2> QED BY <1>5, <1>25, <2>1, <2>2, <2>3, <2>4, <2>5 DEF IsKept
<1> QED BY <1>23, <1>26 DEF Kept, SeededTo

----------------------------------------------------------------------------
(* What is kept is a list, and its levels nest.                            *)

LEMMA KeptIsList ==
    ASSUME NEW l, Kept(l) PROVE l \in Lists
<1>1. PICK M, ord : IsKept(l, M, ord) BY DEF Kept
<1>2. \A j \in Levels : l.size[j] \in 0..Cardinality(Room)
  <2>1. TAKE j \in Levels
  <2>2. M[j] \in SUBSET Room /\ l.size[j] = Cardinality(M[j]) BY <1>1, KeptLevels DEF LinkedAt
  <2>3. IsFiniteSet(M[j]) /\ Cardinality(M[j]) <= Cardinality(Room) BY <2>2, FS_Subset
  <2>4. Cardinality(M[j]) \in Nat /\ Cardinality(Room) \in Nat BY <2>3, FS_CardinalityType
  <2> QED BY <2>2, <2>3, <2>4
<1>3. l \in Shapes BY <1>1 DEF IsKept
<1>4. l.size \in [Levels -> 0..Cardinality(Room)] BY <1>2, <1>3 DEF Shapes
<1> QED BY <1>3, <1>4 DEF Shapes, Lists, Links

LinksOf(s, nx, pv) ==
    \A i \in 1..Len(s) :
        /\ pv[s[i]] = (IF i = 1 THEN None ELSE s[i - 1])
        /\ nx[s[i]] = (IF i = Len(s) THEN None ELSE s[i + 1])

LEMMA ReadingIs ==
    ASSUME NEW M \in SUBSET Room, NEW ord, IsOrder(ord, M), NEW h, NEW nx, NEW pv,
           Linked(h, nx, pv, M, ord), NEW s \in Seq(Room), ToSet(s) = M, Increasing(s, ord)
    PROVE  LinksOf(s, nx, pv)
<1> DEFINE c == Len(s)
<1>1. c \in Nat /\ \A i \in 1..c : s[i] \in M /\ s[i] # None BY DEF ToSet
<1>2. \A y \in M : \E i \in 1..c : y = s[i] BY DEF ToSet
<1>3. \A i, k \in 1..c : <<s[i], s[k]>> \in ord <=> i < k
  <2>1. \A i, k \in 1..c : i < k => <<s[i], s[k]>> \in ord BY DEF Increasing
  <2>2. \A i, k \in 1..c : <<s[i], s[k]>> \in ord => ~(k < i) /\ k # i
    BY <1>1, <2>1 DEF IsOrder
  <2> QED BY <1>1, <2>1, <2>2
<1> HIDE DEF c
<1>4. ASSUME NEW i \in 1..c PROVE nx[s[i]] = IF i = c THEN None ELSE s[i + 1]
  <2>1. PICK n : n = nx[s[i]] OBVIOUS
  <2>2. IsNext(n, s[i], M, ord) BY <1>1, <2>1 DEF Linked, NextOf
  <2>3. CASE i = c
    <3>1. ASSUME NEW y \in M, <<s[i], y>> \in ord PROVE FALSE
      <4>1. PICK k \in 1..c : y = s[k] BY <1>2
      <4>2. c < k BY <1>3, <2>3, <3>1, <4>1
      <4> QED BY <1>1, <4>2
    <3>2. n = None BY <1>1, <2>2, <3>1 DEF IsNext, After
    <3> QED BY <2>1, <2>3, <3>2
  <2>4. CASE i # c
    <3>1. i + 1 \in 1..c BY <1>1, <2>4
    <3>2. s[i + 1] \in M /\ After(ord, s[i], s[i + 1]) BY <1>1, <1>3, <3>1 DEF After
    <3>3. n \in M /\ <<s[i], n>> \in ord /\ (s[i + 1] = n \/ <<n, s[i + 1]>> \in ord)
      BY <1>1, <2>2, <3>2 DEF IsNext, After
    <3>4. PICK k \in 1..c : n = s[k] BY <1>2, <3>3
    <3>5. i < k BY <1>3, <3>3, <3>4
    <3>6. ~(k < i + 1) BY <1>1, <3>5
    <3>7. s[i + 1] = n BY <1>3, <3>1, <3>3, <3>4, <3>6
    <3> QED BY <2>1, <2>4, <3>7
  <2> QED BY <2>3, <2>4
<1>5. ASSUME NEW i \in 1..c PROVE pv[s[i]] = IF i = 1 THEN None ELSE s[i - 1]
  <2>1. PICK p : p = pv[s[i]] OBVIOUS
  <2>2. p \in M \cup {None} /\ NextOf(h, nx, p) = s[i] BY <1>1, <2>1 DEF Linked
  <2>3. CASE i = 1
    <3>1. p # None => FALSE
      <4>1. HAVE p # None
      <4>2. PICK k \in 1..c : p = s[k] BY <1>2, <2>2, <4>1
      <4>3. nx[s[k]] = s[1] BY <2>2, <2>3, <4>1, <4>2 DEF NextOf
      <4>4. k # c /\ s[k + 1] = s[1] BY <1>1, <1>4, <4>3
      <4>5. k + 1 \in 1..c /\ 1 \in 1..c /\ 1 < k + 1 BY <1>1, <4>4
      <4> QED BY <1>1, <1>3, <4>4, <4>5 DEF IsOrder
    <3> QED BY <2>1, <2>3, <3>1
  <2>4. CASE i # 1
    <3>1. i - 1 \in 1..c /\ i - 1 # c /\ (i - 1) + 1 = i BY <1>1, <2>4
    <3>2. nx[s[i - 1]] = s[i]
      <4>1. PICK k : k = i - 1 OBVIOUS
      <4>2. nx[s[k]] = s[k + 1] BY <1>4, <3>1, <4>1
      <4> QED BY <3>1, <4>1, <4>2
    <3>3. PICK q : q = s[i - 1] OBVIOUS
    <3>4. q \in M /\ q # None /\ NextOf(h, nx, q) = s[i] BY <1>1, <3>1, <3>2, <3>3 DEF NextOf
    <3>5. NextOf(h, nx, p) = NextOf(h, nx, q) /\ NextOf(h, nx, p) # None BY <1>1, <2>2, <3>4
    <3>6. p = q BY <2>2, <3>4, <3>5, NextIsOne
    <3> QED BY <2>1, <2>4, <3>3, <3>6
  <2> QED BY <2>3, <2>4
<1> QED BY <1>4, <1>5 DEF c, LinksOf

(* A level is read in the order, and is a part of each level below.        *)
LEMMA KeptReads ==
    ASSUME NEW l, NEW M, NEW ord, IsKept(l, M, ord), NEW j \in Levels
    PROVE  /\ Level(l, j) \in Seq(Room) /\ ToSet(Level(l, j)) = M[j] /\ Increasing(Level(l, j), ord)
           /\ IsInjective(Level(l, j)) /\ l.size[j] = Len(Level(l, j))
           /\ LinksOf(Level(l, j), l.next[j], l.previous[j])
<1>1. PICK s : s = Level(l, j) OBVIOUS
<1>2. l \in Shapes /\ M[j] \in SUBSET Room /\ IsOrder(ord, M[j]) /\ LinkedAt(l, j, M[j], ord)
  BY KeptLevels
<1>3. s \in Seq(Room) /\ ToSet(s) = M[j] /\ Increasing(s, ord) BY <1>1, <1>2, LevelIs
<1>4. (\A i, k \in 1..Len(s) : s[i] = s[k] => i = k) /\ Cardinality(ToSet(s)) = Len(s)
  BY <1>2, <1>3, IncreasingCounts
<1>5. IsInjective(s) BY <1>3, <1>4 DEF IsInjective
<1>6. l.size[j] = Len(s) BY <1>2, <1>3, <1>4 DEF LinkedAt
<1>7. PICK h, nx, pv, N : h = l.head[j] /\ nx = l.next[j] /\ pv = l.previous[j] /\ N = M[j]
  OBVIOUS
<1>8. LinksOf(s, l.next[j], l.previous[j])
  <2>1. N \in SUBSET Room /\ IsOrder(ord, N) /\ Linked(h, nx, pv, N, ord) /\ ToSet(s) = N
    BY <1>2, <1>3, <1>7 DEF LinkedAt
  <2>2. LinksOf(s, nx, pv) BY <1>3, <2>1, ReadingIs
  <2> QED BY <1>7, <2>2
<1> QED BY <1>1, <1>3, <1>5, <1>6, <1>8

LEMMA KeptNests ==
    ASSUME NEW l, NEW M, NEW ord, IsKept(l, M, ord), NEW j \in Levels \ {0}
    PROVE  Only(Level(l, j - 1), ToSet(Level(l, j))) = Level(l, j)
<1>1. PICK s, t, u : s = Level(l, j) /\ t = Level(l, j - 1) /\ u = Only(t, ToSet(s)) OBVIOUS
<1>2. j - 1 \in Levels /\ j - 1 <= j BY DEF Levels
<1>3. s \in Seq(Room) /\ ToSet(s) = M[j] /\ Increasing(s, ord) BY <1>1, KeptReads
<1>4. t \in Seq(Room) /\ ToSet(t) = M[j - 1] /\ Increasing(t, ord) BY <1>1, <1>2, KeptReads
<1>5. M[j] \subseteq M[j - 1] BY <1>2 DEF IsKept
<1>6. u \in Seq(Room) /\ ToSet(u) = ToSet(t) \cap ToSet(s) /\ Increasing(u, ord)
  BY <1>1, <1>4, OnlyIs
<1>7. ToSet(u) = ToSet(s) BY <1>3, <1>4, <1>5, <1>6
<1>8. IsOrder(ord, ToSet(s)) BY <1>3, KeptLevels
<1>9. u = s BY <1>3, <1>6, <1>7, <1>8, IncreasingIsOne
<1> QED BY <1>1, <1>9

----------------------------------------------------------------------------
(* Rooms in the order of their ranks.                                      *)

LEMMA RanksRise ==
    ASSUME NEW s \in Seq(Room), NEW key \in [Room -> Int],
           \A i \in 2..Len(s) : key[s[i - 1]] <= key[s[i]]
    PROVE  \A i, k \in 1..Len(s) : i <= k => key[s[i]] <= key[s[k]]
<1> SUFFICES ASSUME NEW i \in 1..Len(s) PROVE \A k \in 1..Len(s) : i <= k => key[s[i]] <= key[s[k]]
  OBVIOUS
<1> DEFINE n == Len(s) - i
           T == {d \in 0..n : key[s[i]] <= key[s[i + d]]}
<1>0. \A k \in 1..Len(s) : key[s[k]] \in Int OBVIOUS
<1>1. n \in Nat /\ \A d \in 0..n : i + d \in 1..Len(s) OBVIOUS
<1>2. 0 \in T BY <1>0, <1>1
<1>3. ASSUME NEW d \in 1..n, d - 1 \in T PROVE d \in T
  <2>1. i + d \in 2..Len(s) /\ (i + d) - 1 = i + (d - 1) /\ d \in 0..n /\ d - 1 \in 0..n BY <1>1
  <2>2. key[s[(i + d) - 1]] <= key[s[i + d]] BY <2>1
  <2>3. key[s[i]] <= key[s[i + (d - 1)]] BY <1>3
  <2>4. key[s[i + (d - 1)]] \in Int /\ key[s[i + d]] \in Int /\ key[s[i]] \in Int BY <1>0, <1>1, <2>1
  <2> QED BY <2>1, <2>2, <2>3, <2>4
<1> HIDE DEF T
<1>4. 0..n \subseteq T BY <1>1, <1>2, <1>3, StepsUp
<1>5. ASSUME NEW k \in 1..Len(s), i <= k PROVE key[s[i]] <= key[s[k]]
  <2>1. k - i \in 0..n /\ i + (k - i) = k BY <1>5
  <2>2. k - i \in T BY <1>4, <2>1
  <2> QED BY <2>1, <2>2 DEF T
<1> QED BY <1>5

(* A list is sorted, but for what is not in S, when its order goes by the  *)
(* ranks.                                                                  *)
LEMMA SortedFollows ==
    ASSUME NEW l, NEW M, NEW ord, IsKept(l, M, ord), NEW key \in [Room -> Int], NEW S,
           NEW s, s = Only(Level(l, 0), S)
    PROVE  (\A i \in 2..Len(s) : key[s[i - 1]] <= key[s[i]]) <=> Follows(ord, l.nodes \cap S, key)
<1>1. PICK t : t = Level(l, 0) OBVIOUS
<1>2. 0 \in Levels BY DEF Levels
<1>3. t \in Seq(Room) /\ ToSet(t) = l.nodes /\ Increasing(t, ord)
  <2>1. t \in Seq(Room) /\ ToSet(t) = M[0] /\ Increasing(t, ord) BY <1>1, <1>2, KeptReads
  <2> QED BY <2>1 DEF IsKept
<1>4. s \in Seq(Room) /\ ToSet(s) = l.nodes \cap S /\ Increasing(s, ord) BY <1>1, <1>3, OnlyIs
<1>5. IsOrder(ord, ToSet(s))
  <2>1. ToSet(s) \in SUBSET l.nodes BY <1>4
  <2> QED BY <2>1, PartIsOrder DEF IsKept
<1>6. \A i \in 1..Len(s) : s[i] \in ToSet(s) /\ key[s[i]] \in Int BY <1>4 DEF ToSet
<1>7. ASSUME \A i \in 2..Len(s) : key[s[i - 1]] <= key[s[i]],
             NEW y \in ToSet(s), NEW z \in ToSet(s), <<y, z>> \in ord
      PROVE  key[y] <= key[z]
  <2>1. PICK i \in 1..Len(s) : y = s[i] BY <1>4, <1>7 DEF ToSet
  <2>2. PICK k \in 1..Len(s) : z = s[k] BY <1>4, <1>7 DEF ToSet
  <2>3. k < i => <<z, y>> \in ord BY <1>4, <2>1, <2>2 DEF Increasing
  <2>4. ~(k < i) BY <1>5, <1>7, <2>3 DEF IsOrder
  <2>5. i <= k BY <2>4
  <2> QED BY <1>4, <1>7, <2>1, <2>2, <2>5, RanksRise
<1>8. ASSUME Follows(ord, ToSet(s), key), NEW i \in 2..Len(s) PROVE key[s[i - 1]] <= key[s[i]]
  <2>1. i - 1 \in 1..Len(s) /\ i \in 1..Len(s) /\ i - 1 < i BY <1>4
  <2>2. <<s[i - 1], s[i]>> \in ord BY <1>4, <2>1 DEF Increasing
  <2> QED BY <1>6, <1>8, <2>1, <2>2 DEF Follows
<1> QED BY <1>4, <1>7, <1>8 DEF Follows

(* Inserting a room again puts in order a list that only it was out of     *)
(* place in.                                                               *)
LEMMA ReInsertionFollows ==
    ASSUME NEW l, NEW M, NEW ord, IsKept(l, M, ord), NEW x \in Room, NEW key \in [Room -> Int],
           Follows(ord, l.nodes \ {x}, key), NEW m \in ReInsertRoom(l, x, key)
    PROVE  \E M2, o : IsKept(m, M2, o) /\ Follows(o, m.nodes, key)
<1>1. CASE x \notin l.nodes
  <2>1. m = l /\ l.nodes \ {x} = l.nodes BY <1>1 DEF ReInsertRoom
  <2> QED BY <2>1
<1>2. CASE x \in l.nodes
  <2>1. PICK r : r = RemoveRoom(l, x) OBVIOUS
  <2>2. m \in AddNewRoom(r, x, key) BY <1>2, <2>1 DEF ReInsertRoom
  <2>3. PICK N : N = Without(M, x) OBVIOUS
  <2>4. IsKept(r, N, ord) /\ r.nodes = l.nodes \ {x} BY <2>1, <2>3, RemoveRoomIs
  <2>5. x \in Room \ r.nodes BY <2>4
  <2>6. PICK height \in Heights(r) : m = InsertRoom(r, x, height, key) BY <2>2, <2>5 DEF AddNewRoom
  <2>7. height \in 1..(MaxLevel + 1) BY DEF Heights
  <2>8. PICK M2, o : /\ IsKept(m, M2, o) /\ m.nodes = r.nodes \cup {x}
                     /\ Follows(ord, r.nodes, key) => Follows(o, r.nodes \cup {x}, key)
    BY <2>4, <2>5, <2>6, <2>7, InsertRoomIs
  <2> QED BY <2>4, <2>8
<1> QED BY <1>1, <1>2
=============================================================================

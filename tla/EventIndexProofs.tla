-------------------------- MODULE EventIndexProofs --------------------------
(***************************************************************************)
(* The types of the crawler: whatever the sizes of rooms and pages, a      *)
(* token that the crawler holds or stores is a place within its room.      *)
(***************************************************************************)
EXTENDS EventIndex, FiniteSetTheorems, SequenceTheorems, TLAPS

USE BoundsAssumption

(* What the crawler and the adders hold.                                   *)
IsCrawler(c) ==
    /\ c.at \in {"off", "sleep", "fetch", "add", "added"}
    /\ c.at \in {"fetch", "add", "added"} => c.cp \in Checkpoints
    /\ c.at \in {"add", "added"} => c.next \subseteq Checkpoints /\ IsFiniteSet(c.next)
    /\ c.at = "add" => c.events \subseteq Events

IsAdder(a) ==
    a.at = "store" =>
        a = [at |-> "store", sync |-> a.sync, todo |-> a.todo] /\ a.todo \subseteq Checkpoints

IsSpent(s) ==
    s = [b \in DOMAIN Limit |-> s[b]] /\ \A b \in DOMAIN Limit : s[b] \in 0..Limit[b]

ServerOK ==
    /\ head \in [Room -> 0..MaxHead] /\ liveFrom \in [Room -> 0..MaxHead]
    /\ redacts \in [Room -> [Events -> 0..MaxHead]]

DbOK ==
    /\ indexed \in [Room -> SUBSET Events] /\ queued \in [Room -> SUBSET Events]
    /\ stored \subseteq Checkpoints /\ IsFiniteSet(stored)

PageOK ==
    /\ queue \in Seq(Checkpoints) /\ commit \in BOOLEAN /\ needs \in BOOLEAN /\ force \in BOOLEAN
    /\ resets \subseteq Checkpoints /\ excused \subseteq Room

AddersOK == adders = [s \in Adders |-> adders[s]] /\ \A s \in Adders : IsAdder(adders[s])

TInv == ServerOK /\ DbOK /\ PageOK /\ AddersOK /\ IsCrawler(crawler) /\ IsSpent(spent)

----------------------------------------------------------------------------
LEMMA LimitIs ==
    /\ DOMAIN Limit = {"live", "redact", "reset", "missed", "error", "crash"}
    /\ \A b \in DOMAIN Limit : Limit[b] \in Nat
BY DEF Limit

LEMMA SpendKeeps == ASSUME IsSpent(spent), NEW b \in DOMAIN Limit, Spend(b) PROVE IsSpent(spent')
<1>1. spent[b] \in 0..Limit[b] /\ Limit[b] \in Nat /\ spent[b] < Limit[b]
  BY LimitIs DEF IsSpent, Spend
<1>2. spent[b] + 1 \in 0..Limit[b] BY <1>1
<1>3. spent' = [spent EXCEPT ![b] = spent[b] + 1] BY DEF Spend
<1> QED BY <1>2, <1>3 DEF IsSpent

(* A finite set is put in some order.                                      *)
LEMMA SetToSeqIs ==
    ASSUME NEW T, NEW S \in SUBSET T, IsFiniteSet(S) PROVE SetToSeq(S) \in Seq(T)
<1>1. Cardinality(S) \in Nat /\ ExistsBijection(1..Cardinality(S), S) BY FS_CardinalityType
<1>2. \E f \in [1..Cardinality(S) -> S] : IsInjective(f)
  BY <1>1 DEF ExistsBijection, Bijection, Injection
<1>3. SetToSeq(S) \in [1..Cardinality(S) -> S] BY <1>2 DEF SetToSeq
<1> QED BY <1>1, <1>3

LEMMA InitialIs ==
    ASSUME ServerOK
    PROVE  InitialOf(Room) \subseteq Checkpoints /\ IsFiniteSet(InitialOf(Room))
<1>1. InitialOf(Room) \subseteq Checkpoints
  <2> SUFFICES ASSUME NEW r \in Room, NEW d \in Dirs PROVE Initial(r, d) \in Checkpoints
    BY DEF InitialOf
  <2>1. liveFrom[r] \in 0..MaxHead BY DEF ServerOK
  <2> QED BY <2>1 DEF Initial, Checkpoints
<1> DEFINE P == Room \X Dirs
           f == [p \in P |-> Initial(p[1], p[2])]
           T == {f[p] : p \in P}
<1>2. IsFiniteSet(P)
  <2>1. IsFiniteSet({"b"} \cup {"f"}) BY FS_Singleton, FS_Union
  <2>2. Dirs = {"b"} \cup {"f"} BY DEF Dirs
  <2>3. IsFiniteSet(Room) /\ IsFiniteSet(Dirs) BY <2>1, <2>2
  <2> QED BY <2>3, FS_Product
<1>3. f \in Surjection(P, T) BY DEF Surjection
<1>4. IsFiniteSet(T) BY <1>2, <1>3, FS_Surjection
<1>5. InitialOf(Room) \subseteq T
  <2> SUFFICES ASSUME NEW r \in Room, NEW d \in Dirs PROVE Initial(r, d) \in T
    BY DEF InitialOf
  <2>1. <<r, d>> \in P /\ f[<<r, d>>] = Initial(r, d) OBVIOUS
  <2> QED BY <2>1
<1> QED BY <1>1, <1>4, <1>5, FS_Subset

LEMMA SizeIs ==
    ASSUME NEW a \in Nat, NEW b \in Nat, NEW S \in SUBSET ((a + 1)..b)
    PROVE  Cardinality(S) \in Nat /\ (Cardinality(S) = 0 \/ a + Cardinality(S) <= b)
<1> DEFINE lo == a + 1
<1>1. lo \in Int /\ b \in Int OBVIOUS
<1>2. IsFiniteSet(lo..b) /\ Cardinality(lo..b) = IF lo > b THEN 0 ELSE b - lo + 1
  <2> HIDE DEF lo
  <2> QED BY <1>1, FS_Interval
<1>3. Cardinality(S) \in Nat /\ Cardinality(S) <= Cardinality(lo..b)
  BY <1>2, FS_Subset, FS_CardinalityType
<1> QED BY <1>2, <1>3

(* A page lies between its token and its end, and its end is in the room.  *)
LEMMA PageIs ==
    ASSUME ServerOK, NEW cp \in Checkpoints
    PROVE  PageOf(cp).all \subseteq Events /\ PageOf(cp).end \in 0..MaxHead
<1> DEFINE hi == head[cp.room]
           all == PageOf(cp).all
           t == cp.token
<1>1. hi \in 0..MaxHead /\ t \in 0..MaxHead /\ MaxHead \in Nat
  BY DEF ServerOK, Checkpoints
<1>2. all \subseteq 1..hi BY DEF PageOf
<1>3. all \subseteq Events BY <1>1, <1>2 DEF Events
<1>4. CASE cp.dir = "b"
  <2>1. all \in SUBSET ((0 + 1)..t) BY <1>1, <1>4 DEF PageOf
  <2>2. PageOf(cp).end = t - Cardinality(all) BY <1>4 DEF PageOf
  <2> HIDE DEF all, t
  <2>3. Cardinality(all) \in Nat /\ (Cardinality(all) = 0 \/ 0 + Cardinality(all) <= t)
    BY <1>1, <2>1, SizeIs
  <2>4. PageOf(cp).end \in 0..MaxHead BY <1>1, <2>2, <2>3
  <2> QED BY <1>3, <2>4 DEF all
<1>5. CASE cp.dir # "b"
  <2>1. all \in SUBSET ((t + 1)..hi) BY <1>1, <1>2, <1>5 DEF PageOf
  <2>2. PageOf(cp).end = t + Cardinality(all) BY <1>5 DEF PageOf
  <2> HIDE DEF all, t, hi
  <2>3. Cardinality(all) \in Nat /\ (Cardinality(all) = 0 \/ t + Cardinality(all) <= hi)
    BY <1>1, <2>1, SizeIs
  <2>4. PageOf(cp).end \in 0..MaxHead BY <1>1, <2>2, <2>3
  <2> QED BY <1>3, <2>4 DEF all
<1> QED BY <1>4, <1>5

LEMMA NextIs ==
    ASSUME ServerOK, NEW cp \in Checkpoints, NEW next \in NextCheckpoints(cp)
    PROVE  next \subseteq Checkpoints /\ IsFiniteSet(next)
<1> DEFINE n == [cp EXCEPT !.token = PageOf(cp).end]
<1>1. n \in Checkpoints BY PageIs DEF Checkpoints
<1>2. next = {} \/ next = {n} BY DEF NextCheckpoints
<1> HIDE DEF n
<1>3. IsFiniteSet({}) /\ IsFiniteSet({n}) BY FS_EmptySet, FS_Singleton
<1> QED BY <1>1, <1>2, <1>3

LEMMA TypesFollow == ASSUME TInv PROVE TypeOK
BY DEF TInv, ServerOK, DbOK, PageOK, IsSpent, TypeOK

----------------------------------------------------------------------------
LEMMA Initially == Init => TInv
<1> SUFFICES ASSUME Init PROVE TInv OBVIOUS
<1>1. ServerOK
  <2>1. History \in 0..MaxHead /\ History - Shown \in 0..MaxHead /\ 0 \in 0..MaxHead OBVIOUS
  <2> QED BY <2>1 DEF Init, ServerOK
<1>2. PICK start \in Starts, x \in Adders :
         /\ indexed = [r \in Room |-> IF start = "resume" THEN {History} ELSE {}]
         /\ stored = IF start = "resume" THEN InitialOf(Room) ELSE {}
         /\ queue = SetToSeq(stored)
         /\ force = (start # "resume") /\ needs = (start = "sync")
         /\ adders = [s \in Adders |->
                        IF s = x /\ start = "enable" THEN [at |-> "filter", sync |-> FALSE]
                                                     ELSE NoAdder]
  BY DEF Init
<1>3. DbOK
  <2>1. InitialOf(Room) \subseteq Checkpoints /\ IsFiniteSet(InitialOf(Room))
    BY <1>1, InitialIs DEF ServerOK
  <2>2. stored \subseteq Checkpoints /\ IsFiniteSet(stored) BY <1>2, <2>1, FS_EmptySet
  <2>3. start = "resume" => History \in Events BY DEF Events
  <2>4. indexed \in [Room -> SUBSET Events] BY <1>2, <2>3
  <2> QED BY <2>2, <2>4 DEF Init, DbOK
<1>4. PageOK
  <2>1. queue \in Seq(Checkpoints) BY <1>2, <1>3, SetToSeqIs DEF DbOK
  <2> QED BY <1>2, <2>1 DEF Init, PageOK
<1>5. AddersOK BY <1>2 DEF AddersOK, IsAdder, NoAdder
<1>6. IsCrawler(crawler) BY DEF Init, IsCrawler, Off
<1>7. IsSpent(spent) BY LimitIs DEF Init, IsSpent
<1> QED BY <1>1, <1>3, <1>4, <1>5, <1>6, <1>7 DEF TInv

(* The end of a sync starts an adder or the crawler.                       *)
LEMMA OnSyncKeeps ==
    ASSUME TInv, OnSync
    PROVE  AddersOK' /\ IsCrawler(crawler') /\ commit' \in BOOLEAN /\ needs' \in BOOLEAN
<1>1. CASE /\ needs' = FALSE /\ UNCHANGED <<crawler, commit>>
           /\ \E x \in Adders : adders' = [adders EXCEPT ![x] = [at |-> "filter", sync |-> TRUE]]
  <2>1. PICK x \in Adders : adders' = [adders EXCEPT ![x] = [at |-> "filter", sync |-> TRUE]]
    BY <1>1
  <2>2. AddersOK' BY <2>1 DEF TInv, AddersOK, IsAdder
  <2> QED BY <1>1, <2>2 DEF TInv, PageOK
<1>2. CASE crawler' = Started(crawler) /\ commit' = TRUE /\ UNCHANGED <<adders, needs>>
  <2>1. IsCrawler(crawler') BY <1>2 DEF TInv, IsCrawler, Started
  <2> QED BY <1>2, <2>1 DEF TInv, PageOK, AddersOK
<1> QED BY <1>1, <1>2 DEF OnSync

LEMMA SyncEventKeeps == ASSUME TInv, NEW r \in Room, SyncEvent(r) PROVE TInv'
<1>1. /\ UNCHANGED <<liveFrom, redacts, indexed, stored, queue, force, resets, excused>>
      /\ head[r] < MaxHead /\ Spend("live") /\ OnSync
      /\ head' = [head EXCEPT ![r] = @ + 1]
      /\ queued' = [queued EXCEPT ![r] = @ \cup {head[r] + 1}]
  BY DEF SyncEvent
<1>2. head[r] + 1 \in 0..MaxHead /\ head[r] + 1 \in Events BY <1>1 DEF TInv, ServerOK, Events
<1>3. ServerOK' BY <1>1, <1>2 DEF TInv, ServerOK
<1>4. DbOK' BY <1>1, <1>2 DEF TInv, DbOK
<1>5. PageOK' BY <1>1, OnSyncKeeps DEF TInv, PageOK
<1>6. IsSpent(spent') BY <1>1, SpendKeeps, LimitIs DEF TInv
<1> QED BY <1>1, <1>3, <1>4, <1>5, <1>6, OnSyncKeeps DEF TInv

LEMMA SyncRedactionKeeps == ASSUME TInv, NEW r \in Room, SyncRedaction(r) PROVE TInv'
<1>1. /\ UNCHANGED <<liveFrom, queued, stored, queue, force, resets, excused>>
      /\ head[r] < MaxHead /\ Spend("redact") /\ OnSync
      /\ head' = [head EXCEPT ![r] = @ + 1]
  BY DEF SyncRedaction
<1>2. PICK e \in 1..head[r] : /\ redacts' = [redacts EXCEPT ![r][head[r] + 1] = e]
                              /\ indexed' = [indexed EXCEPT ![r] = @ \ {e}]
  BY DEF SyncRedaction
<1>3. head[r] + 1 \in 0..MaxHead /\ e \in 0..MaxHead BY <1>1 DEF TInv, ServerOK
<1>4. redacts' \in [Room -> [Events -> 0..MaxHead]] BY <1>2, <1>3 DEF TInv, ServerOK
<1>5. ServerOK' BY <1>1, <1>3, <1>4 DEF TInv, ServerOK
<1>6. DbOK' BY <1>1, <1>2 DEF TInv, DbOK
<1>7. PageOK' BY <1>1, OnSyncKeeps DEF TInv, PageOK
<1>8. IsSpent(spent') BY <1>1, SpendKeeps, LimitIs DEF TInv
<1> QED BY <1>1, <1>5, <1>6, <1>7, <1>8, OnSyncKeeps DEF TInv

LEMMA SyncLimitedKeeps == ASSUME TInv, NEW r \in Room, SyncLimited(r) PROVE TInv'
<1>1. UNCHANGED <<indexed, stored, queue, force, excused>> /\ OnSync /\ spent["reset"] < MaxResets
  BY DEF SyncLimited
<1>2. PICK n \in (head[r] + 2)..MaxHead :
         /\ head' = [head EXCEPT ![r] = n]
         /\ liveFrom' = [liveFrom EXCEPT ![r] = n - 1]
         /\ queued' = [queued EXCEPT ![r] = @ \cup {n}]
         /\ resets' = resets \cup
              {[room |-> r, token |-> n - 1, dir |-> "b", full |-> FALSE]}
         /\ \/ /\ spent' = [spent EXCEPT !["reset"] = @ + 1]
               /\ UNCHANGED redacts
            \/ /\ spent["missed"] < MaxMissed
               /\ spent' = [spent EXCEPT !["reset"] = @ + 1, !["missed"] = @ + 1]
               /\ \E x \in (head[r] + 1)..(n - 1) :
                    \E e \in (1..(x - 1)) \ (Redactions(r) \cup queued[r]) :
                        redacts' = [redacts EXCEPT ![r][x] = e]
  BY DEF SyncLimited
<1>3. n \in 0..MaxHead /\ n - 1 \in 0..MaxHead /\ n \in Events
  <2>1. head[r] \in Nat /\ MaxHead \in Nat BY DEF TInv, ServerOK
  <2>2. n \in 2..MaxHead BY <2>1
  <2> QED BY <2>1, <2>2 DEF Events
<1>4. redacts' \in [Room -> [Events -> 0..MaxHead]]
  <2>1. CASE UNCHANGED redacts BY <2>1 DEF TInv, ServerOK
  <2>2. CASE \E x \in (head[r] + 1)..(n - 1) : \E e \in 1..(x - 1) :
                 redacts' = [redacts EXCEPT ![r][x] = e]
    <3>1. PICK x \in (head[r] + 1)..(n - 1) : \E e \in 1..(x - 1) :
                 redacts' = [redacts EXCEPT ![r][x] = e]
      BY <2>2
    <3>2. PICK e \in 1..(x - 1) : redacts' = [redacts EXCEPT ![r][x] = e] BY <3>1
    <3>3. e \in 0..MaxHead BY <1>3 DEF TInv, ServerOK
    <3> QED BY <3>2, <3>3 DEF TInv, ServerOK
  <2> QED BY <1>2, <2>1, <2>2
<1>5. ServerOK' BY <1>1, <1>2, <1>3, <1>4 DEF TInv, ServerOK
<1>6. DbOK' BY <1>1, <1>2, <1>3 DEF TInv, DbOK
<1>7. PageOK'
  <2>1. [room |-> r, token |-> n - 1, dir |-> "b", full |-> FALSE] \in Checkpoints
    BY <1>3 DEF Checkpoints, Dirs
  <2> QED BY <1>1, <1>2, <2>1, OnSyncKeeps DEF TInv, PageOK
<1>8. IsSpent(spent')
  <2>1. /\ spent = [b \in DOMAIN Limit |-> spent[b]]
        /\ spent["reset"] \in 0..MaxResets /\ spent["missed"] \in 0..MaxMissed
        /\ \A b \in DOMAIN Limit : spent[b] \in 0..Limit[b]
    BY LimitIs DEF TInv, IsSpent, Limit
  <2>2. spent["reset"] + 1 \in 0..Limit["reset"] BY <1>1, <2>1 DEF Limit
  <2>3. spent["missed"] < MaxMissed => spent["missed"] + 1 \in 0..Limit["missed"]
    BY <2>1 DEF Limit
  <2>4. CASE spent' = [spent EXCEPT !["reset"] = @ + 1] BY <2>1, <2>2, <2>4 DEF IsSpent
  <2>5. CASE spent["missed"] < MaxMissed
             /\ spent' = [spent EXCEPT !["reset"] = @ + 1, !["missed"] = @ + 1]
    BY <2>1, <2>2, <2>3, <2>5 DEF IsSpent
  <2> QED BY <1>2, <2>4, <2>5
<1> QED BY <1>1, <1>5, <1>6, <1>7, <1>8, OnSyncKeeps DEF TInv

(* Steps that are no sync and leave the server alone.                      *)
LEMMA CommitKeeps == ASSUME TInv, Commit PROVE TInv'
<1>1. /\ UNCHANGED <<head, liveFrom, redacts, stored, queue, needs, force, adders, resets, crawler,
                     excused, spent>>
      /\ indexed' = [r \in Room |-> indexed[r] \cup queued[r]]
      /\ queued' = [r \in Room |-> {}] /\ commit' = FALSE
  BY DEF Commit, server
<1>2. DbOK' BY <1>1 DEF TInv, DbOK
<1> QED BY <1>1, <1>2 DEF TInv, ServerOK, PageOK, AddersOK

LEMMA StoresKeep ==
    ASSUME NEW cp \in Checkpoints, stored \subseteq Checkpoints, IsFiniteSet(stored)
    PROVE  /\ stored \cup {cp} \subseteq Checkpoints /\ IsFiniteSet(stored \cup {cp})
           /\ stored \ {cp} \subseteq Checkpoints /\ IsFiniteSet(stored \ {cp})
BY FS_Singleton, FS_Union, FS_Subset

LEMMA QueuesKeep ==
    ASSUME NEW q \in Seq(Checkpoints), NEW cp \in Checkpoints PROVE Append(q, cp) \in Seq(Checkpoints)
OBVIOUS

LEMMA AddRoomCheckpointKeeps ==
    ASSUME TInv, NEW cp \in resets, AddRoomCheckpoint(cp) PROVE TInv'
<1>1. /\ UNCHANGED <<head, liveFrom, redacts, commit, indexed, queued, needs, force, adders, crawler,
                     excused>>
      /\ resets' = resets \ {cp} /\ queue' = Append(queue, cp)
      /\ \/ stored' = stored \cup {cp} /\ UNCHANGED spent
         \/ Spend("error") /\ UNCHANGED stored
  BY DEF AddRoomCheckpoint, server
<1>2. cp \in Checkpoints BY DEF TInv, PageOK
<1>3. DbOK' BY <1>1, <1>2, StoresKeep DEF TInv, DbOK
<1>4. PageOK' BY <1>1, <1>2 DEF TInv, PageOK
<1>5. IsSpent(spent') BY <1>1, SpendKeeps, LimitIs DEF TInv
<1> QED BY <1>1, <1>3, <1>4, <1>5 DEF TInv, ServerOK, AddersOK

LEMMA AdderKeeps == ASSUME TInv, NEW s \in Adders, Adder(s) PROVE TInv'
<1>1. CASE AdderFilter(s)
  <2>1. /\ UNCHANGED <<head, liveFrom, redacts, commit, indexed, queued, stored, queue, needs, force,
                       resets, crawler, excused, spent>>
        /\ adders' = [adders EXCEPT ![s] =
               [at |-> "store", sync |-> adders[s].sync, todo |-> InitialOf(Room)]]
    BY <1>1 DEF AdderFilter, server, db
  <2>2. AddersOK' BY <2>1, InitialIs DEF TInv, AddersOK, IsAdder
  <2> QED BY <2>1, <2>2 DEF TInv, ServerOK, DbOK, PageOK
<1>2. ASSUME NEW cp \in adders[s].todo, adders[s].at = "store", AdderStore(s, cp) PROVE TInv'
  <2>1. /\ UNCHANGED <<head, liveFrom, redacts, commit, indexed, queued, needs, force, resets, crawler>>
        /\ \/ /\ stored' = stored \cup {cp} /\ queue' = Append(queue, cp)
              /\ adders' = [adders EXCEPT ![s].todo = @ \ {cp}]
              /\ UNCHANGED <<excused, spent>>
           \/ /\ Spend("error")
              /\ adders' = [adders EXCEPT ![s].todo = {x \in @ : x.room # cp.room}]
              /\ excused' = excused \cup {cp.room}
              /\ UNCHANGED <<stored, queue>>
    BY <1>2 DEF AdderStore, server
  <2>2. /\ adders[s] = [at |-> "store", sync |-> adders[s].sync, todo |-> adders[s].todo]
        /\ adders[s].todo \subseteq Checkpoints
    BY <1>2 DEF TInv, AddersOK, IsAdder
  <2>3. cp \in Checkpoints /\ cp.room \in Room BY <2>2 DEF Checkpoints
  <2>4. PICK todo \in SUBSET adders[s].todo : adders' = [adders EXCEPT ![s].todo = todo]
    <3>1. CASE adders' = [adders EXCEPT ![s].todo = @ \ {cp}] BY <3>1
    <3>2. CASE adders' = [adders EXCEPT ![s].todo = {x \in @ : x.room # cp.room}] BY <3>2
    <3> QED BY <2>1, <3>1, <3>2
  <2>5. adders' = [adders EXCEPT ![s] = [at |-> "store", sync |-> adders[s].sync, todo |-> todo]]
    <3>1. [adders[s] EXCEPT !.todo = todo] = [at |-> "store", sync |-> adders[s].sync, todo |-> todo]
      BY <2>2
    <3>2. adders' = [adders EXCEPT ![s] = [adders[s] EXCEPT !.todo = todo]] BY <2>4
    <3> QED BY <3>1, <3>2
  <2>6. AddersOK' BY <2>2, <2>4, <2>5 DEF TInv, AddersOK, IsAdder
  <2>7. DbOK' BY <2>1, <2>3, StoresKeep DEF TInv, DbOK
  <2>8. queue' \in Seq(Checkpoints) BY <2>1, <2>3, QueuesKeep DEF TInv, PageOK
  <2>9. PageOK' BY <2>1, <2>3, <2>8 DEF TInv, PageOK
  <2>10. IsSpent(spent') BY <2>1, SpendKeeps, LimitIs DEF TInv
  <2> QED BY <2>1, <2>6, <2>7, <2>9, <2>10 DEF TInv, ServerOK
<1>3. CASE AdderDone(s)
  <2>1. /\ UNCHANGED <<head, liveFrom, redacts, indexed, queued, stored, queue, needs, resets, excused,
                       spent>>
        /\ adders' = [adders EXCEPT ![s] = NoAdder] /\ crawler' = Started(crawler)
        /\ (force' = FALSE /\ commit' = TRUE) \/ UNCHANGED <<force, commit>>
    BY <1>3 DEF AdderDone, server, db
  <2>2. AddersOK' BY <2>1 DEF TInv, AddersOK, IsAdder, NoAdder
  <2>3. IsCrawler(crawler') BY <2>1 DEF TInv, IsCrawler, Started
  <2> QED BY <2>1, <2>2, <2>3 DEF TInv, ServerOK, DbOK, PageOK
<1> QED BY <1>1, <1>2, <1>3 DEF Adder

(* The crawler goes on with some of its checkpoints.                       *)
LEMMA CrawlTakeKeeps == ASSUME TInv, CrawlTake PROVE TInv'
<1>1. /\ UNCHANGED <<head, liveFrom, redacts, commit, indexed, queued, stored, needs, force, adders,
                     resets, excused, spent>>
      /\ queue # <<>> /\ crawler' = [at |-> "fetch", cp |-> Head(queue)] /\ queue' = Tail(queue)
  BY DEF CrawlTake, server, db
<1>2. Head(queue) \in Checkpoints /\ Tail(queue) \in Seq(Checkpoints)
  BY <1>1, HeadTailProperties DEF TInv, PageOK
<1>3. IsCrawler(crawler') BY <1>1, <1>2 DEF IsCrawler
<1> QED BY <1>1, <1>2, <1>3 DEF TInv, ServerOK, DbOK, PageOK, AddersOK

(* It fetches a page, and sleeps or has events to add.                     *)
LEMMA FetchKeeps ==
    ASSUME TInv, FetchFails \/ FetchForbidden \/ FetchEmpty \/ FetchPage PROVE TInv'
<1>1. crawler.cp \in Checkpoints /\ crawler.cp.room \in Room
  BY DEF FetchFails, FetchForbidden, FetchEmpty, FetchPage, TInv, IsCrawler, Checkpoints
<1>2. /\ UNCHANGED <<head, liveFrom, redacts, commit, indexed, queued, needs, force, adders, resets>>
      /\ queue' = queue \/ queue' = Append(queue, crawler.cp)
      /\ stored' = stored \/ stored' = stored \ {crawler.cp}
      /\ excused' = excused \/ excused' = excused \cup {crawler.cp.room}
      /\ spent' = spent \/ Spend("error")
  BY DEF FetchFails, FetchForbidden, FetchEmpty, FetchPage, server, db
<1>3. IsCrawler(crawler')
  <2>1. CASE crawler' = [at |-> "sleep"] BY <2>1 DEF IsCrawler
  <2>2. CASE FetchPage
    <3>1. PICK next \in NextCheckpoints(crawler.cp) :
             crawler' = [at |-> "add", cp |-> crawler.cp, next |-> next,
                         deletes |-> {redacts[crawler.cp.room][e] :
                                        e \in PageOf(crawler.cp).all} \ {0},
                         events |-> PageOf(crawler.cp).all \
                                        (Redacted(crawler.cp.room) \cup Redactions(crawler.cp.room))]
      BY <2>2 DEF FetchPage
    <3>2. next \subseteq Checkpoints /\ IsFiniteSet(next) BY <1>1, NextIs DEF TInv
    <3>3. PageOf(crawler.cp).all \subseteq Events BY <1>1, PageIs DEF TInv
    <3> QED BY <1>1, <3>1, <3>2, <3>3 DEF IsCrawler
  <2> QED BY <2>1, <2>2 DEF FetchFails, FetchForbidden, FetchEmpty
<1>4. DbOK' BY <1>1, <1>2, StoresKeep DEF TInv, DbOK
<1>5. queue' \in Seq(Checkpoints) BY <1>1, <1>2, QueuesKeep DEF TInv, PageOK
<1>6. PageOK' BY <1>1, <1>2, <1>5 DEF TInv, PageOK
<1>7. IsSpent(spent') BY <1>2, SpendKeeps, LimitIs DEF TInv
<1> QED BY <1>2, <1>3, <1>4, <1>6, <1>7 DEF TInv, ServerOK, AddersOK

LEMMA AddKeeps == ASSUME TInv, CrawlAdd \/ CrawlAddFails PROVE TInv'
<1>1. /\ crawler.cp \in Checkpoints /\ crawler.cp.room \in Room /\ crawler.next \subseteq Checkpoints
      /\ IsFiniteSet(crawler.next) /\ crawler.events \subseteq Events
  BY DEF CrawlAdd, CrawlAddFails, TInv, IsCrawler, Checkpoints
<1>2. UNCHANGED <<head, liveFrom, redacts, commit, queued, needs, force, adders, resets, excused>>
  BY DEF CrawlAdd, CrawlAddFails, server
<1>3. CASE CrawlAdd
  <2>1. /\ indexed' = [indexed EXCEPT ![crawler.cp.room] = (@ \ crawler.deletes) \cup crawler.events]
        /\ stored' = (stored \ {crawler.cp}) \cup crawler.next /\ UNCHANGED <<queue, spent>>
        /\ crawler' = [at |-> "added", cp |-> crawler.cp, next |-> crawler.next,
                       known |-> crawler.events \subseteq indexed[crawler.cp.room]]
    BY <1>3 DEF CrawlAdd
  <2>2. stored' \subseteq Checkpoints /\ IsFiniteSet(stored')
    BY <1>1, <2>1, StoresKeep, FS_Union DEF TInv, DbOK
  <2>3. DbOK' BY <1>1, <1>2, <2>1, <2>2 DEF TInv, DbOK
  <2>4. IsCrawler(crawler') BY <1>1, <2>1 DEF IsCrawler
  <2> QED BY <1>2, <2>1, <2>3, <2>4 DEF TInv, ServerOK, PageOK, AddersOK
<1>4. CASE CrawlAddFails
  <2>1. /\ \E gone : indexed' = [indexed EXCEPT ![crawler.cp.room] = @ \ gone]
        /\ queue' = Append(queue, crawler.cp) /\ UNCHANGED stored /\ Spend("error")
        /\ crawler' = [at |-> "sleep"]
    BY <1>4 DEF CrawlAddFails
  <2>2. DbOK' BY <1>1, <1>2, <2>1 DEF TInv, DbOK
  <2>3. PageOK' BY <1>1, <1>2, <2>1 DEF TInv, PageOK
  <2>4. IsSpent(spent') BY <2>1, SpendKeeps, LimitIs DEF TInv
  <2>5. IsCrawler(crawler') BY <2>1 DEF IsCrawler
  <2> QED BY <1>2, <2>2, <2>3, <2>4, <2>5 DEF TInv, ServerOK, AddersOK
<1> QED BY <1>3, <1>4

LEMMA CrawlNextKeeps == ASSUME TInv, CrawlNext \/ CrawlNextFails PROVE TInv'
<1>1. crawler.cp \in Checkpoints /\ crawler.next \subseteq Checkpoints /\ IsFiniteSet(crawler.next)
  BY DEF CrawlNext, CrawlNextFails, TInv, IsCrawler
<1>2. /\ UNCHANGED <<head, liveFrom, redacts, commit, indexed, queued, needs, force, adders, resets,
                     excused>>
      /\ stored' = stored \/ stored' = stored \ crawler.next
      /\ \/ queue' = queue \/ queue' = queue \o SetToSeq(crawler.next)
         \/ queue' = Append(queue, crawler.cp)
      /\ spent' = spent \/ Spend("error")
      /\ crawler' = [at |-> "sleep"]
  BY DEF CrawlNext, CrawlNextFails, server, db
<1>3. SetToSeq(crawler.next) \in Seq(Checkpoints) BY <1>1, SetToSeqIs
<1>4. queue' \in Seq(Checkpoints)
  <2>1. queue \in Seq(Checkpoints) BY DEF TInv, PageOK
  <2>2. queue \o SetToSeq(crawler.next) \in Seq(Checkpoints) BY <1>3, <2>1, ConcatProperties
  <2>3. Append(queue, crawler.cp) \in Seq(Checkpoints) BY <1>1, <2>1, QueuesKeep
  <2> QED BY <1>2, <2>1, <2>2, <2>3
<1>5. PageOK' BY <1>2, <1>4 DEF TInv, PageOK
<1>6. DbOK' BY <1>2, FS_Subset DEF TInv, DbOK
<1>7. IsSpent(spent') BY <1>2, SpendKeeps, LimitIs DEF TInv
<1>8. IsCrawler(crawler') BY <1>2 DEF IsCrawler
<1> QED BY <1>2, <1>5, <1>6, <1>7, <1>8 DEF TInv, ServerOK, AddersOK

(* The queue is what the database has.                                     *)
LEMMA RestartKeeps == ASSUME TInv, Restart PROVE TInv'
<1>1. /\ UNCHANGED <<head, liveFrom, redacts, indexed, queued, stored, resets, excused>>
      /\ Spend("crash") /\ queue' = SetToSeq(stored) /\ commit' = FALSE
      /\ needs' = IsEmpty /\ force' = IsEmpty
      /\ adders' = [s \in Adders |-> NoAdder] /\ crawler' = Off
  BY DEF Restart, server, db
<1>2. queue' \in Seq(Checkpoints) BY <1>1, SetToSeqIs DEF TInv, DbOK
<1>3. needs' \in BOOLEAN /\ force' \in BOOLEAN BY <1>1 DEF IsEmpty
<1>4. PageOK' BY <1>1, <1>2, <1>3 DEF TInv, PageOK
<1>5. AddersOK' BY <1>1 DEF AddersOK, IsAdder, NoAdder
<1>6. IsSpent(spent') BY <1>1, SpendKeeps, LimitIs DEF TInv
<1>7. IsCrawler(crawler') BY <1>1 DEF IsCrawler, Off
<1> QED BY <1>1, <1>4, <1>5, <1>6, <1>7 DEF TInv, ServerOK, DbOK

LEMMA NextKeeps == ASSUME TInv, [Next]_vars PROVE TInv'
<1>1. CASE SyncNothing
  <2>1. OnSync /\ UNCHANGED <<head, liveFrom, redacts, indexed, queued, stored, queue, force, resets,
                              excused, spent>>
    BY <1>1 DEF SyncNothing, server, db
  <2> QED BY <2>1, OnSyncKeeps DEF TInv, ServerOK, DbOK, PageOK
<1>2. CASE UNCHANGED vars
  BY <1>2 DEF vars, server, db, TInv, ServerOK, DbOK, PageOK, AddersOK
<1>3. CASE Crawl
  BY <1>3, CrawlTakeKeeps, FetchKeeps, AddKeeps, CrawlNextKeeps DEF Crawl
<1> QED BY <1>1, <1>2, <1>3, SyncEventKeeps, SyncLimitedKeeps, SyncRedactionKeeps, CommitKeeps,
           AddRoomCheckpointKeeps, AdderKeeps, RestartKeeps
        DEF Next

(* Events, checkpoints and flags are well-typed, and no page, of any size, *)
(* ends at a token outside of its room.                                    *)
THEOREM TypeCorrect == Spec => []TypeOK
<1> QED BY Initially, NextKeeps, TypesFollow, PTL DEF Spec
=============================================================================

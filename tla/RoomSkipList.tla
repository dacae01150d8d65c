---------------------------- MODULE RoomSkipList ----------------------------
(***************************************************************************)
(* The skip list that keeps the rooms of the room list in order, with the  *)
(* links of its nodes:                                                     *)
(* apps/web/src/stores/room-list-v3/skip-list/RoomSkipList.ts and Level.ts.*)
(*                                                                         *)
(* A list is a record: the rooms it has a node of (roomNodeMap), and for   *)
(* each level its head and size and the next and previous links of the     *)
(* nodes.  Levels count from 0.  A room is its own node, for a room has    *)
(* one node at a time.  The sorter is the rank, key[r], it gives a room:   *)
(* comparator(a, b) < 0 is key[a] < key[b], of the rooms as they are then. *)
(***************************************************************************)
EXTENDS Integers, Sequences, FiniteSets, SequencesExt

CONSTANTS
    Room,
    None,       \* undefined, null
    MaxLevel    \* bound: the highest level of a list

ASSUME NoneAssumption == None \notin Room
ASSUME LevelAssumption == MaxLevel \in Nat
ASSUME RoomAssumption == IsFiniteSet(Room)

Levels == 0..MaxLevel

Lists ==
    [nodes : SUBSET Room, top : Levels, size : [Levels -> 0..Cardinality(Room)],
     head : [Levels -> Room \cup {None}],
     next : [Levels -> [Room -> Room \cup {None}]],
     previous : [Levels -> [Room -> Room \cup {None}]]]

(* Of a sequence, what is in S.                                            *)
Only(s, S) ==
    LET only[n \in 0..Len(s)] ==
          IF n = 0 THEN <<>>
          ELSE IF s[n] \in S THEN Append(only[n - 1], s[n]) ELSE only[n - 1]
    IN only[Len(s)]

Unlinked == [r \in Room |-> None]

Empty ==
    [nodes |-> {}, top |-> 0,
     size |-> [j \in Levels |-> 0],
     head |-> [j \in Levels |-> None],
     next |-> [j \in Levels |-> Unlinked],
     previous |-> [j \in Levels |-> Unlinked]]

(* The rooms of a level, read from its head by following next.  A list     *)
(* whose links go in a circle is cut off after as many rooms as there are. *)
Level(list, j) ==
    LET read[n \in 0..Cardinality(Room)] ==
          IF n = 0 THEN <<>>
          ELSE LET s == read[n - 1]
                   r == IF s = <<>> THEN list.head[j] ELSE list.next[j][Last(s)]
               IN IF r = None \/ Len(s) < n - 1 THEN s ELSE Append(s, r)
    IN read[Cardinality(Room)]

-----------------------------------------------------------------------------
(* Level.ts                                                                *)

(* Mutant: the old head does not learn of the node before it.              *)
MutInsertAtHead(list, j, new) ==
    LET old == list.head[j] IN
    [list EXCEPT !.head[j] = new,
                 !.size[j] = @ + 1,
                 !.next[j] = IF old = None THEN @ ELSE [@ EXCEPT ![new] = old]]

InsertAtHead(list, j, new) ==
    LET old == list.head[j] IN
    [list EXCEPT !.head[j] = new,
                 !.size[j] = @ + 1,
                 !.next[j] = IF old = None THEN @ ELSE [@ EXCEPT ![new] = old],
                 !.previous[j] = IF old = None THEN @ ELSE [@ EXCEPT ![old] = new]]

InsertAfter(list, j, node, new) ==
    LET next == list.next[j][node] IN
    [list EXCEPT !.size[j] = @ + 1,
                 !.next[j] = [@ EXCEPT ![new] = next, ![node] = new],
                 !.previous[j] = [x \in Room |-> IF x = new THEN node
                                                 ELSE IF x = next THEN new ELSE @[x]]]

(* Mutant: it is not looked up whether the node is in the level.           *)
MutRemoveNode(list, j, node) ==
    LET next == list.next[j][node]
        prev == list.previous[j][node]
    IN [list EXCEPT
          !.size[j] = @ - 1,
          !.head[j] = IF prev = None THEN next ELSE @,
          !.next[j] = IF prev = None THEN @ ELSE [@ EXCEPT ![prev] = next],
          !.previous[j] = IF next = None THEN @ ELSE [@ EXCEPT ![next] = prev]]

(* The node is in a level when it is its head or has a previous node.      *)
RemoveNode(list, j, node) ==
    LET next == list.next[j][node]
        prev == list.previous[j][node]
    IN IF list.head[j] # node /\ prev = None THEN list
       ELSE [list EXCEPT
               !.size[j] = @ - 1,
               !.head[j] = IF prev = None THEN next ELSE @,
               !.next[j] = IF prev = None THEN @ ELSE [@ EXCEPT ![prev] = next],
               !.previous[j] = IF next = None THEN @ ELSE [@ EXCEPT ![next] = prev]]

-----------------------------------------------------------------------------
(* RoomSkipList.ts                                                         *)

(* removeRoom.  The node and its own links are thrown away with it.        *)
RemoveRoom(list, room) ==
    IF room \notin list.nodes THEN list
    ELSE LET removed[j \in -1..list.top] ==
               IF j = -1 THEN list ELSE RemoveNode(removed[j - 1], j, room)
         IN [removed[list.top] EXCEPT
               !.nodes = @ \ {room},
               !.next = [j \in Levels |-> [@[j] EXCEPT ![room] = None]],
               !.previous = [j \in Levels |-> [@[j] EXCEPT ![room] = None]]]

(* Mutant: the levels below the top one keep what the level above found.   *)
MutSearch(list, j, start, room, key) ==
    LET walk[p \in Room \cup {None}] ==
          LET c == IF p = None THEN list.head[j] ELSE list.next[j][p]
          IN IF c # None /\ key[c] < key[room] THEN walk[c] ELSE p
    IN IF j < list.top /\ start # None THEN start ELSE walk[start]

(* The node after which room belongs in level j, None for the head, when   *)
(* the search comes down with start from the level above.                  *)
Search(list, j, start, room, key) ==
    LET walk[p \in Room \cup {None}] ==
          LET c == IF p = None THEN list.head[j] ELSE list.next[j][p]
          IN IF c # None /\ key[c] < key[room] THEN walk[c] ELSE p
    IN walk[start]

(* insertionNodes                                                          *)
InsertionNodes(list, room, key) ==
    LET node[j \in 0..list.top] ==
          Search(list, j, IF j = list.top THEN None ELSE node[j + 1], room, key)
    IN node

(* maxLevels: the ceiling of log2(size + 1), and at least one.             *)
MaxLevels(list) ==
    CHOOSE n \in 1..(list.size[0] + 1) :
        /\ 2^n >= list.size[0] + 1
        /\ n = 1 \/ 2^(n - 1) < list.size[0] + 1

(* insertRoom with height tosses of the coin won; a level that did not     *)
(* exist during the search is empty.                                       *)
InsertRoom(list, room, height, key) ==
    LET at == InsertionNodes(list, room, key)
        inserted[j \in -1..(height - 1)] ==
          IF j = -1 THEN [list EXCEPT !.nodes = @ \cup {room},
                                      !.top = IF height - 1 > @ THEN height - 1 ELSE @]
          ELSE IF j <= list.top /\ at[j] # None
                 THEN InsertAfter(inserted[j - 1], j, at[j], room)
                 ELSE InsertAtHead(inserted[j - 1], j, room)
    IN inserted[height - 1]

Heights(list) == {h \in 1..(MaxLevel + 1) : h <= MaxLevels(list)}

(* addNewRoom and reInsertRoom: the lists that the tosses may lead to.     *)
AddNewRoom(list, room, key) ==
    IF room \in list.nodes THEN {list}
    ELSE {InsertRoom(list, room, h, key) : h \in Heights(list)}

ReInsertRoom(list, room, key) ==
    IF room \notin list.nodes THEN {list}
    ELSE AddNewRoom(RemoveRoom(list, room), room, key)

(* setNext for each of the rooms.                                          *)
Link(list, j, rooms) ==
    LET place(r) == SelectInSeq(rooms, LAMBDA x : x = r)
        at(i) == IF i \in 1..Len(rooms) THEN rooms[i] ELSE None
    IN [list EXCEPT
          !.head[j] = at(1),
          !.size[j] = Len(rooms),
          !.next[j] = [r \in Room |-> IF place(r) = 0 THEN None ELSE at(place(r) + 1)],
          !.previous[j] = [r \in Room |-> at(place(r) - 1)]]

(* seed with the rooms in the order s.  A room is promoted up to some      *)
(* level, and levels are kept as long as they have more than one room.     *)
Seeded(rooms, s, up) ==
    LET kept == {j \in Levels : j = 0 \/ Cardinality({r \in rooms : up[r] >= j}) > 1}
        linked[j \in -1..MaxLevel] ==
          IF j = -1 THEN [Empty EXCEPT !.nodes = rooms, !.top = Cardinality(kept) - 1]
          ELSE IF j \notin kept THEN linked[j - 1]
          ELSE Link(linked[j - 1], j, Only(s, {r \in rooms : up[r] >= j}))
    IN linked[MaxLevel]

(* The rooms sorted, with any tosses.                                      *)
Seeds(rooms, key) ==
    LET sorted == {s \in SetToSeqs(rooms) : \A i \in 2..Len(s) : key[s[i - 1]] <= key[s[i]]}
    IN {Seeded(rooms, s, up) : s \in sorted, up \in [rooms -> Levels]}
=============================================================================

--------------------------- MODULE RoomListStore ---------------------------
(***************************************************************************)
(* The room list: apps/web/src/stores/room-list-v3/RoomListStoreV3.ts with *)
(* its skip list, the rooms of the client and the dispatcher between them. *)
(*                                                                         *)
(* Whatever happens to a room happens in the client first.  The client's   *)
(* event is dispatched by a timer of its own (MatrixActionCreators.ts and  *)
(* dispatcher.ts), so that the store hears of it later, in order, while    *)
(* the rank that the sorter gives a room is always that of the client.     *)
(*                                                                         *)
(* Spaces, sections and filters only choose from the list and are not      *)
(* modelled.                                                               *)
(***************************************************************************)
EXTENDS RoomSkipList

CONSTANTS
    Predecessor,\* the room that each room replaces by an upgrade, or None
    Rank,       \* the ranks that a sorter gives
    First,      \* bound: the memberships that rooms have when the store gets ready
    MaxPending, \* bound: dispatches on their way
    MaxEvents   \* bound: events of the client and changes of the algorithm

Memberships == {"unknown", "invite", "join", "leave", "kicked"}

ASSUME StoreAssumption ==
    /\ Predecessor \in [Room -> Room \cup {None}]
    /\ Rank \subseteq Int
    /\ First \subseteq Memberships
    /\ MaxPending \in Nat /\ MaxEvents \in Nat

VARIABLES
    member,     \* our membership of each room, "unknown" if the client has none
    key,        \* the rank of each room
    list,       \* roomSkipList
    ready,      \* roomSkipList.initialized
    pending,    \* payloads on their way to onAction
    events      \* how many events there were

vars == <<member, key, list, ready, pending, events>>

Payloads ==
    [action : {"changed", "forgotten"}, room : Room]
      \cup [action : {"membership"}, room : Room, old : Memberships, new : Memberships]

TypeOK ==
    /\ member \in [Room -> Memberships]
    /\ key \in [Room -> Rank]
    /\ list \in Lists /\ ready \in BOOLEAN
    /\ pending \in Seq(Payloads) /\ Len(pending) <= MaxPending
    /\ events \in 0..MaxEvents

Known == {r \in Room : member[r] # "unknown"}

(* isReplaced: a room that we know has replaced this one.                  *)
IsReplaced(r) == \E s \in Known : Predecessor[s] = r

(* getRooms                                                                *)
Rooms == {r \in Known : ~IsReplaced(r)}

(* getEffectiveMembership: JOIN, INVITE or LEAVE.                          *)
Effective(m) == IF m \in {"join", "invite"} THEN m ELSE "leave"

Event == events < MaxEvents /\ events' = events + 1

Dispatch(p) ==
    /\ Event
    /\ Len(pending) < MaxPending
    /\ pending' = Append(pending, p)

-----------------------------------------------------------------------------
Init ==
    /\ member \in [Room -> First]
    /\ key \in [Room -> Rank]
    /\ list = Empty /\ ready = FALSE
    /\ pending = <<>>
    /\ events = 0

(* onReady: once the spaces are there too, the list is seeded with the     *)
(* rooms of the client.                                                    *)
OnReady ==
    /\ ~ready /\ ready' = TRUE
    /\ list' \in Seeds(Rooms, key)
    /\ UNCHANGED <<member, key, pending, events>>

(* A message, a receipt, a tag or a push rule gives a room another rank.   *)
Changed(r) ==
    /\ member[r] \in {"invite", "join"}
    /\ \E k \in Rank : key' = [key EXCEPT ![r] = k]
    /\ Dispatch([action |-> "changed", room |-> r])
    /\ UNCHANGED <<member, list, ready>>

(* We are invited, join, leave or are kicked.                              *)
Becomes(r, m) ==
    /\ m = "invite" => member[r] \in {"unknown", "leave", "kicked"}
    /\ m = "join" => member[r] # "join"
    /\ m \in {"leave", "kicked"} => member[r] \in {"invite", "join"}
    /\ member' = [member EXCEPT ![r] = m]
    /\ Dispatch([action |-> "membership", room |-> r, old |-> member[r], new |-> m])
    /\ UNCHANGED <<key, list, ready>>

(* MatrixChat.forgetRoom: the client has forgotten the room.               *)
Forget(r) ==
    /\ member[r] \in {"leave", "kicked"}
    /\ member' = [member EXCEPT ![r] = "unknown"]
    /\ Dispatch([action |-> "forgotten", room |-> r])
    /\ UNCHANGED <<key, list, ready>>

-----------------------------------------------------------------------------
(* onAction takes the oldest payload, and drops it before the store is     *)
(* ready.                                                                  *)

Take(p) ==
    /\ pending # <<>> /\ p = Head(pending)
    /\ pending' = Tail(pending)
    /\ UNCHANGED <<member, key, ready, events>>

Drop ==
    /\ ~ready
    /\ pending # <<>> /\ Take(Head(pending))
    /\ UNCHANGED list

Handle(p) == ready /\ Take(p)

(* A room that changed is inserted again.                                  *)
OnChanged ==
    \E r \in Room :
        /\ Handle([action |-> "changed", room |-> r])
        /\ list' \in ReInsertRoom(list, r, key)

(* Mutant: the room just before this one is left out.                      *)
MutPredecessors(r) ==
    LET back[n \in 0..Cardinality(Room)] ==
          [x \in Room |-> IF n = 0 \/ Predecessor[x] = None THEN {}
                          ELSE {Predecessor[x]} \cup back[n - 1][Predecessor[x]]]
    IN back[Cardinality(Room)][r] \ {Predecessor[r]}

(* The predecessors of a room.                                             *)
Predecessors(r) ==
    LET back[n \in 0..Cardinality(Room)] ==
          [x \in Room |-> IF n = 0 \/ Predecessor[x] = None THEN {}
                          ELSE {Predecessor[x]} \cup back[n - 1][Predecessor[x]]]
    IN back[Cardinality(Room)][r]

(* removeRoom for each of them.                                            *)
RemoveAll(l, rooms) == FoldSet(LAMBDA r, x : RemoveRoom(x, r), l, rooms)

(* myMembership.  isKicked asks the client how things are by now, while    *)
(* the payload tells how they were.                                        *)
OnKicked(r) ==
    /\ member[r] = "kicked"
    /\ list' \in ReInsertRoom(list, r, key)

OnLeft(r, old, new) ==
    /\ member[r] # "kicked"
    /\ Effective(old) # "leave" /\ Effective(new) = "leave"
    /\ list' = RemoveRoom(list, r)

(* Mutant: a room that we were not in is taken to be in the list.          *)
MutOnEntered(r, old, new) ==
    /\ member[r] # "kicked"
    /\ ~(Effective(old) # "leave" /\ Effective(new) = "leave")
    /\ list' \in ReInsertRoom(list, r, key)

(* Joining removes the rooms that this one replaced.  A room we were not   *)
(* in is new to the list, unless it has been replaced itself.              *)
OnEntered(r, old, new) ==
    /\ member[r] # "kicked"
    /\ ~(Effective(old) # "leave" /\ Effective(new) = "leave")
    /\ LET l == IF Effective(old) # "join" /\ Effective(new) = "join"
                  THEN RemoveAll(list, Predecessors(r)) ELSE list
       IN list' \in IF Effective(old) # "leave" THEN ReInsertRoom(l, r, key)
                    ELSE IF IsReplaced(r) THEN {l}
                    ELSE AddNewRoom(l, r, key)

OnMembership ==
    \E r \in Room, old, new \in Memberships :
        /\ Handle([action |-> "membership", room |-> r, old |-> old, new |-> new])
        /\ OnKicked(r) \/ OnLeft(r, old, new) \/ OnEntered(r, old, new)

OnForgotten ==
    \E r \in Room :
        /\ Handle([action |-> "forgotten", room |-> r])
        /\ list' = RemoveRoom(list, r)

(* resort: another algorithm ranks the rooms in another way, and the list  *)
(* is seeded again.                                                        *)
Resort ==
    /\ ready
    /\ Event
    /\ key' \in [Room -> Rank]
    /\ list' \in Seeds(Rooms, key')
    /\ UNCHANGED <<member, ready, pending>>

OnAction == OnChanged \/ OnMembership \/ OnForgotten

Next ==
    \/ \E r \in Room :
         \/ Changed(r)
         \/ \E m \in Memberships \ {"unknown"} : Becomes(r, m)
         \/ Forget(r)
    \/ OnReady
    \/ Drop
    \/ OnAction
    \/ Resort

Spec == Init /\ [][Next]_vars

-----------------------------------------------------------------------------
IsSubSeq(s, t) == Only(t, ToSet(s)) = s

(* The skip list is one: the links of every level lead forth and back, the *)
(* lowest level has each room once, and a level holds rooms of the level   *)
(* below in the same order, whatever the ranks were when they came in.     *)
LevelsNest ==
    /\ ToSet(Level(list, 0)) = list.nodes
    /\ \A j \in 0..list.top :
         LET s == Level(list, j) IN
           /\ list.size[j] = Len(s) /\ IsInjective(s)
           /\ \A i \in 1..Len(s) :
                /\ list.previous[j][s[i]] = (IF i = 1 THEN None ELSE s[i - 1])
                /\ list.next[j][s[i]] = (IF i = Len(s) THEN None ELSE s[i + 1])
           /\ j > 0 => IsSubSeq(s, Level(list, j - 1))

Sorted(s) == \A i \in 2..Len(s) : key[s[i - 1]] <= key[s[i]]

SortedBut(r) == Sorted(Only(Level(list, 0), Room \ {r}))

(* If a room is all that is out of place, hearing of its change puts the   *)
(* list in order (RoomListStoreV3.ts:271-276).                             *)
ReinsertionSorts ==
    [][\A r \in Room : ready /\ pending # <<>> /\ Head(pending) = [action |-> "changed", room |-> r]
                       /\ SortedBut(r) /\ OnChanged => Sorted(Level(list, 0))']_vars

(* The store has heard of everything.                                      *)
Rest == ready /\ pending = <<>>

(* When the store has heard of everything, the list is in order.           *)
SortedAtRest == Rest => Sorted(Level(list, 0))

(* When the store has heard of everything, each room we have joined is in  *)
(* the list, but for those that another has replaced.                      *)
JoinedAreListed ==
    Rest =>
        \A r \in Room : member[r] = "join" /\ (\A s \in Room : Predecessor[s] # r)
                         => r \in list.nodes

(* A room we have joined is never listed together with one it replaced.    *)
ReplacedAreNot ==
    Rest => \A r \in Room : member[r] = "join" => Predecessor[r] \notin list.nodes
=============================================================================

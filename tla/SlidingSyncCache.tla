-------------------------- MODULE SlidingSyncCache --------------------------
(***************************************************************************)
(* What sliding sync keeps for the next session:                           *)
(* apps/web/src/utils/sync/slidingSyncCache.ts, as MatrixClientPeg sets it *)
(* up and as the SDK and the server use it.                                *)
(*                                                                         *)
(* What happens in a room is numbered: event 1 creates it, and each event  *)
(* is a part of its state and of its timeline.  A position of a connection *)
(* is what it stands for: up to which event each room has been sent.  A    *)
(* server resumes from a position and sends only what came since.          *)
(***************************************************************************)
EXTENDS Integers, Sequences, Functions

CONSTANTS
    Room,
    None,             \* undefined
    Messages,         \* the events that a line of the chat list can show
    Limit,            \* timeline_limit: how many events of a room are asked for
    Cached,           \* CACHED_TIMELINE: the events that are kept
    MaxEvents,        \* bound: the events of each room
    MaxFaults         \* bound: sessions that are cut off, positions that expire

ASSUME LimitAssumption == Limit \in Nat \ {0} /\ Cached \in Nat \ {0}
ASSUME BoundAssumption == MaxEvents \in [Room -> Nat] /\ MaxFaults \in Nat
ASSUME NoneIsNoEvent == None \notin Nat

VARIABLES
    happened,  \* the events of each room so far
    leave,     \* the event by which the reader left the room, the last there is
    stored,    \* the two records of the database
    phase,     \* closed, recording, and loading until both records are read
    loading,   \* what loadedRest will give
    rooms,     \* this.rooms
    pos,       \* this.pos
    conn,      \* the position that the SDK asks from
    response,  \* the position of the response that is taken in, as conn if none is
    todo,      \* the rooms of the response that are not taken in yet
    due,       \* whether saveTimer runs
    early,     \* rooms whose leave came before the second record was read
    again,     \* rooms sent once more with events from before those kept of them
    forgotten, \* rooms of the second record when a save wrote it anew without having read it
    faults     \* sessions cut off and positions expired

server == <<happened, leave>>
session == <<phase, loading, rooms, pos, conn, response, todo, due>>
vars == <<server, stored, session, early, again, forgotten, faults>>

Event(r) == 1..MaxEvents[r]
Fresh == [r \in Room |-> 0]

(* A room that is not kept.                                                *)
NoRoom == [state |-> {}, timeline |-> <<>>, token |-> None]
NoRooms == [r \in Room |-> NoRoom]
Kept(rs) == {r \in Room : rs[r] # NoRoom}

Largest(S) == CHOOSE x \in S : \A y \in S : y <= x
From(a, b) == [i \in 1..(b - a + 1) |-> a + i - 1]

----------------------------------------------------------------------------
(* What the server says of a room that a connection was sent up to event   *)
(* sent: everything if that is nothing, else what came since.              *)
Data(sent, upTo) ==
    LET start == IF sent + Limit < upTo THEN upTo - Limit + 1 ELSE sent + 1
    IN [state |-> (sent + 1)..upTo, timeline |-> From(start, upTo),
        limited |-> start > sent + 1, token |-> start]

(* mergeRoomData.  A token leads back from the event it is the number of.  *)
Latest(s) == SubSeq(s, IF Len(s) > Cached THEN Len(s) - Cached + 1 ELSE 1, Len(s))
HeadOf(s) == IF s = <<>> THEN None ELSE Head(s)
Unseen(s, seen) ==
    LET unseen[n \in 0..Len(s)] ==
            IF n = 0 THEN <<>>
            ELSE IF s[n] \in seen THEN unseen[n - 1] ELSE Append(unseen[n - 1], s[n])
    IN unseen[Len(s)]
MutMerged(kept, data) ==
    LET timeline == kept.timeline
        merged == Latest(timeline \o Unseen(data.timeline, Range(timeline)))
        first == HeadOf(merged)
    IN [state |-> kept.state \cup data.state, timeline |-> merged,
        token |-> IF first = Head(data.timeline) THEN data.token
                  ELSE IF first # HeadOf(timeline) THEN None ELSE kept.token]
MutMergedAll(kept, data) ==
    LET carries == ~data.limited \/ HeadOf(kept.timeline) \in Range(data.timeline)
        timeline == IF carries THEN kept.timeline ELSE <<>>
        merged == timeline \o Unseen(data.timeline, Range(timeline))
        first == HeadOf(merged)
    IN [state |-> kept.state \cup data.state, timeline |-> merged,
        token |-> IF first = Head(data.timeline) THEN data.token
                  ELSE IF first # HeadOf(timeline) THEN None ELSE kept.token]
Merged(kept, data) ==
    LET carries == ~data.limited \/ HeadOf(kept.timeline) \in Range(data.timeline)
        timeline == IF carries THEN kept.timeline ELSE <<>>
        merged == Latest(timeline \o Unseen(data.timeline, Range(timeline)))
        first == HeadOf(merged)
    IN [state |-> kept.state \cup data.state, timeline |-> merged,
        token |-> IF first = Head(data.timeline) THEN data.token
                  ELSE IF first # HeadOf(timeline) THEN None ELSE kept.token]

(* fromNewestMessage: what is written of a room.                           *)
FromNewestMessage(room) ==
    LET shown == {i \in DOMAIN room.timeline : room.timeline[i] \in Messages}
    IN IF shown = {} \/ Largest(shown) = 1 THEN room
       ELSE [state |-> room.state, token |-> None,
             timeline |-> SubSeq(room.timeline, Largest(shown), Len(room.timeline))]

LacksCreation(room) == room # NoRoom /\ 1 \notin room.state

(* Both records, written in one transaction.                               *)
MutSnapshot(inFirst) ==
    [rooms |-> [r \in Room |-> FromNewestMessage(rooms[r])], first |-> inFirst, pos |-> pos]
Snapshot(inFirst) ==
    [rooms |-> [r \in Room |-> FromNewestMessage(rooms[r])], first |-> inFirst,
     pos |-> IF \E r \in Room : LacksCreation(rooms[r]) THEN None ELSE pos]

Part(rs, S) == [r \in Room |-> IF r \in S THEN rs[r] ELSE NoRoom]

----------------------------------------------------------------------------
Init ==
    /\ happened = Fresh /\ leave = Fresh
    /\ stored = [rooms |-> NoRooms, first |-> {}, pos |-> None]
    /\ phase = "closed" /\ loading = NoRooms /\ rooms = NoRooms /\ pos = None
    /\ conn = Fresh /\ response = Fresh /\ todo = {} /\ due = FALSE
    /\ early = {} /\ again = {} /\ forgotten = {} /\ faults = 0

(* Something happens in a room; the last may be that the reader leaves.    *)
Happens(r) ==
    /\ leave[r] = 0 /\ happened[r] < MaxEvents[r]
    /\ happened' = [happened EXCEPT ![r] = @ + 1]
    /\ leave' \in {leave, [leave EXCEPT ![r] = happened[r] + 1]}
    /\ happened[r] = 0 => leave' = leave
    /\ UNCHANGED <<stored, session, early, again, forgotten, faults>>

(* A new store: record is called before the SDK is started.                *)
Open ==
    /\ phase = "closed"
    /\ phase' = "recording"
    /\ UNCHANGED <<server, stored, loading, rooms, pos, conn, response, todo, due, early, again, forgotten, faults>>

(* loadFirst reads both records and gives the first.  The SDK goes on from *)
(* its position.                                                           *)
LoadFirst ==
    /\ phase = "recording"
    /\ phase' = "loading"
    /\ rooms' = Part(stored.rooms, stored.first)
    /\ loading' = Part(stored.rooms, Room \ stored.first)
    /\ pos' = stored.pos
    /\ conn' = (IF stored.pos = None THEN Fresh ELSE stored.pos) /\ response' = conn'
    /\ UNCHANGED <<server, stored, todo, due, early, again, forgotten, faults>>

(* loadRest: what the live sync has said of a room meanwhile stays.        *)
MutLoadRest ==
    /\ phase = "loading"
    /\ phase' = "loaded"
    /\ rooms' = [r \in Room |-> IF r \in Kept(loading) THEN loading[r] ELSE rooms[r]]
    /\ loading' = NoRooms
    /\ UNCHANGED <<server, stored, pos, conn, response, todo, due, early, again, forgotten, faults>>
LoadRest ==
    /\ phase = "loading"
    /\ phase' = "loaded"
    /\ rooms' = [r \in Room |-> IF rooms[r] # NoRoom THEN rooms[r] ELSE loading[r]]
    /\ loading' = NoRooms
    /\ UNCHANGED <<server, stored, pos, conn, response, todo, due, early, again, forgotten, faults>>

Live == phase \in {"loading", "loaded"}
Idle == Live /\ response = conn

(* The rooms the server has something to say of; a room that was left is   *)
(* never described for the first time.                                     *)
News == {r \in Room : conn[r] < happened[r] /\ (leave[r] # 0 => conn[r] > 0)}

(* A response: the lists cover some of the rooms at a time.                *)
Respond(R) ==
    /\ Idle /\ R # {} /\ R \subseteq News
    /\ response' = [r \in Room |-> IF r \in R THEN happened[r] ELSE conn[r]]
    /\ todo' = R
    /\ UNCHANGED <<server, stored, phase, loading, rooms, pos, conn, due, early, again, forgotten, faults>>

Leaves(r) == leave[r] # 0 /\ response[r] = leave[r]

SentAgain(r) == \E i, j \in Event(r) :
    /\ i < j /\ i \notin Range(rooms[r].timeline) /\ HeadOf(rooms[r].timeline) = j
    /\ {i, j} \subseteq Range(Data(conn[r], response[r]).timeline)

(* onRoomData, and onMembership if the room is left.                       *)
MutTakeRoom(r) ==
    /\ r \in todo
    /\ todo' = todo \ {r}
    /\ \E data \in {Data(conn[r], response[r])} : rooms' = [rooms EXCEPT ![r] = Merged(@, data)]
    /\ early' = IF Leaves(r) /\ phase = "loading" THEN early \cup {r} ELSE early
    /\ again' = IF SentAgain(r) THEN again \cup {r} ELSE again
    /\ due' = TRUE
    /\ UNCHANGED <<server, stored, phase, loading, pos, conn, response, forgotten, faults>>
TakeRoom(r) ==
    /\ r \in todo
    /\ todo' = todo \ {r}
    /\ \E data \in {Data(conn[r], response[r])} :
           rooms' = [rooms EXCEPT ![r] = IF Leaves(r) THEN NoRoom ELSE Merged(@, data)]
    /\ early' = IF Leaves(r) /\ phase = "loading" THEN early \cup {r} ELSE early
    /\ again' = IF SentAgain(r) THEN again \cup {r} ELSE again
    /\ due' = TRUE
    /\ UNCHANGED <<server, stored, phase, loading, pos, conn, response, forgotten, faults>>

(* onLifecycle: SlidingSyncState.Complete.                                 *)
Complete ==
    /\ response # conn /\ todo = {}
    /\ conn' = response /\ pos' = response
    /\ due' = TRUE
    /\ UNCHANGED <<server, stored, phase, loading, rooms, response, todo, early, again, forgotten, faults>>

(* The server does not know the position any more: the SDK starts anew.    *)
Expire ==
    /\ Idle /\ conn # Fresh /\ faults < MaxFaults
    /\ conn' = Fresh /\ response' = Fresh
    /\ faults' = faults + 1
    /\ UNCHANGED <<server, stored, phase, loading, rooms, pos, todo, due, early, again, forgotten>>

(* A save before the second record is read writes it without its rooms.    *)
Save ==
    /\ phase # "closed"
    /\ \E inFirst \in SUBSET Kept(rooms) : stored' = Snapshot(inFirst)
    /\ forgotten' = IF stored'.pos = None THEN forgotten ELSE forgotten \cup (Kept(loading) \ Kept(rooms))
    /\ UNCHANGED <<server, phase, loading, rooms, pos, conn, response, todo, early, again, faults>>

SaveTimer == due /\ due' = FALSE /\ Save
OnHide == due' = due /\ Save

Ended ==
    /\ phase' = "closed" /\ loading' = NoRooms /\ rooms' = NoRooms /\ pos' = None
    /\ conn' = Fresh /\ response' = Fresh /\ todo' = {} /\ due' = FALSE
    /\ UNCHANGED <<server, stored, early, again, forgotten>>

(* A session ends with all it has heard written, or is cut off.            *)
Close == phase = "loaded" /\ Idle /\ News = {} /\ ~due /\ Ended /\ faults' = faults
Crash == phase # "closed" /\ faults < MaxFaults /\ Ended /\ faults' = faults + 1

Steps ==
    \/ LoadFirst \/ LoadRest
    \/ (\E R \in SUBSET Room : Respond(R))
    \/ (\E r \in Room : TakeRoom(r))
    \/ Complete \/ SaveTimer

Next ==
    \/ Steps \/ OnHide \/ Open \/ Expire \/ Close \/ Crash
    \/ (\E r \in Room : Happens(r))

Spec == Init /\ [][Next]_vars

(* A session goes on with what it has to do, and the app is opened again   *)
(* and again.                                                              *)
FairSpec == Spec /\ WF_vars(Steps) /\ WF_vars(Open) /\ WF_vars(Close)

----------------------------------------------------------------------------
IsPosition(p) == DOMAIN p = Room /\ \A r \in Room : p[r] \in 0..MaxEvents[r]

TypeOK ==
    /\ \A p \in {happened, leave, conn, response} : IsPosition(p)
    /\ \A rs \in {stored.rooms, loading, rooms}, r \in Room :
           /\ rs[r].state \subseteq Event(r) /\ rs[r].token \in Event(r) \cup {None}
           /\ Len(rs[r].timeline) <= Cached /\ Range(rs[r].timeline) \subseteq Event(r)
    /\ \A p \in {stored.pos, pos} : p # None => IsPosition(p)
    /\ stored.first \subseteq Kept(stored.rooms)
    /\ phase \in {"closed", "recording", "loading", "loaded"}
    /\ todo \subseteq Room

(* What is stored with a position holds, of the rooms the reader is in,    *)
(* all that a connection resumed from there will not send again: whatever  *)
(* was cut off, dropped or saved when.  The one exception are the rooms of *)
(* the second record of a session that was hidden before it had read it.   *)
NothingIsMissing ==
    stored.pos # None =>
        \A r \in Room \ forgotten : leave[r] = 0 => 1..stored.pos[r] \subseteq stored.rooms[r].state

(* The comment at slidingSyncCache.ts:322: a session writes the next one   *)
(* what it was given from the same position, so that no room is missing.   *)
(* The code does not do so when the page is hidden between the records.    *)
GivenIsCarriedOver ==
    stored.pos # None =>
        \A r \in Room : leave[r] = 0 => 1..stored.pos[r] \subseteq stored.rooms[r].state

(* A room whose leave is behind the position is not shown again by any     *)
(* later session, unless it was in the record not yet read when it came.   *)
LeftStaysGone ==
    stored.pos # None =>
        \A r \in Room \ early : leave[r] # 0 /\ stored.pos[r] = leave[r] => stored.rooms[r] = NoRoom

(* Whatever was cut, limited and dropped, the events kept of a room are    *)
(* its latest, in order and without a gap, and their token leads back from *)
(* the earliest of them; but for rooms that a new connection described     *)
(* once more with events from before those kept.                           *)
WholeTimeline(room) ==
    room # NoRoom =>
        /\ room.timeline # <<>>
        /\ room.timeline = From(Head(room.timeline), Largest(room.state))
        /\ room.token \in {None, Head(room.timeline)}
KeptIsWhole == \A r \in Room \ again : WholeTimeline(rooms[r]) /\ WholeTimeline(stored.rooms[r])

(* What is written of a room is its newest message and what came after.    *)
(* The code does not ensure it of a room that was described again.         *)
NewestIsWritten ==
    \A r \in Room :
        LET written == Range(stored.rooms[r].timeline)
        IN written \cap Messages # {} => \A e \in written : e >= Largest(written \cap Messages)

(* Again and again, the reader has all of every room that was not lost to  *)
(* the next session by a save before the second record was read.           *)
EventuallyWhole ==
    []<>(\A r \in Room \ forgotten :
            happened[r] > 0 /\ leave[r] = 0 => rooms[r].state = 1..happened[r])
=============================================================================

----------------------- MODULE SlidingSyncCacheProofs -----------------------
(***************************************************************************)
(* What the sliding sync cache keeps, for any rooms, events and sessions.  *)
(*                                                                         *)
(* What is stored with a position is complete, but for rooms that a save   *)
(* wrote away unread (Inv): whatever another room is held as, in memory or *)
(* in the half that is still read, it has all that the position in use and *)
(* the one to be stored have been sent of it, or it lacks its creation;    *)
(* and with a room that lacks its creation no position is stored.  From    *)
(* the same invariant, a room that was left stays gone (Gone).             *)
(*                                                                         *)
(* What is kept of a room is whole, whenever the page is hidden (Whole): a *)
(* response goes on from the events kept, or begins anew.                  *)
(***************************************************************************)
EXTENDS SlidingSyncCache, WellFoundedInduction, TLAPS

(* What is held of a room: what the live sync made of it, or else what the *)
(* second record says.                                                     *)
Held(r) == IF rooms[r] # NoRoom THEN rooms[r] ELSE loading[r]
Has(r, n) ==
    leave[r] = 0 /\ r \notin forgotten => 1..n \subseteq Held(r).state \/ LacksCreation(Held(r))

IsRoom(x) == x = [state |-> x.state, timeline |-> x.timeline, token |-> x.token]
AreRooms(rs) == rs = [r \in Room |-> rs[r]] /\ \A r \in Room : IsRoom(rs[r])
Positions == [Room -> Nat]

Shape ==
    /\ happened \in Positions /\ leave \in Positions
    /\ conn \in Positions /\ response \in Positions
    /\ pos # None => pos \in Positions
    /\ stored.pos # None => stored.pos \in Positions
    /\ AreRooms(rooms) /\ AreRooms(loading) /\ AreRooms(stored.rooms)
    /\ todo \subseteq Room

Phases ==
    /\ phase # "loading" => loading = NoRooms
    /\ ~Live => rooms = NoRooms /\ pos = None /\ conn = Fresh /\ response = Fresh /\ todo = {}

(* No position is ahead of what has happened, and a response brings news.  *)
Ordered ==
    \A r \in Room :
        /\ conn[r] <= response[r] /\ response[r] <= happened[r]
        /\ r \in todo => conn[r] < response[r]
        /\ pos # None => pos[r] <= happened[r] /\ (r \in todo => pos[r] <= response[r])
        /\ stored.pos # None => stored.pos[r] <= happened[r]

Covered ==
    \A r \in Room :
        /\ Has(r, conn[r])
        /\ r \notin todo => Has(r, response[r])
        /\ pos # None => Has(r, pos[r])

Frame == Shape /\ Phases /\ Ordered
Inv == Frame /\ Covered /\ NothingIsMissing

----------------------------------------------------------------------------
(* Rooms.                                                                  *)

LEMMA NoRoomIsEmpty == IsRoom(NoRoom) /\ NoRoom.state = {} /\ AreRooms(NoRooms)
BY DEF IsRoom, AreRooms, NoRoom, NoRooms

(* What is written of a room has the state of the room.                    *)
LEMMA WrittenState ==
    ASSUME NEW x, IsRoom(x)
    PROVE  IsRoom(FromNewestMessage(x)) /\ FromNewestMessage(x).state = x.state
BY DEF IsRoom, FromNewestMessage

(* What a response makes of a room.                                        *)
LEMMA MergedState ==
    ASSUME NEW x, NEW a \in Nat, NEW b \in Nat
    PROVE  IsRoom(Merged(x, Data(a, b))) /\ Merged(x, Data(a, b)).state = x.state \cup ((a + 1)..b)
BY DEF IsRoom, Merged, Data

(* After a room's part of a response it is held up to there, or lacks its  *)
(* creation, whatever was held of it.                                      *)
LEMMA MergedCovers ==
    ASSUME NEW x, NEW a \in Nat, NEW b \in Nat, a < b,
           NEW n \in Nat, n <= b,
           1..a \subseteq x.state \/ 1 \notin x.state
    PROVE  LET y == Merged(x, Data(a, b)) IN y # NoRoom /\ (1..n \subseteq y.state \/ LacksCreation(y))
<1> DEFINE y == Merged(x, Data(a, b))
<1>1. y.state = x.state \cup ((a + 1)..b) BY MergedState
<1> HIDE DEF y
<1>2. b \in y.state BY <1>1
<1>3. y # NoRoom BY <1>2, NoRoomIsEmpty
<1>4. CASE a = 0
  <2>1. 1..n \subseteq (a + 1)..b BY <1>4
  <2> QED BY <2>1, <1>1, <1>3 DEF y
<1>5. CASE a > 0 /\ 1 \notin x.state
  <2>1. 1 \notin (a + 1)..b BY <1>5
  <2>2. 1 \notin y.state BY <2>1, <1>5, <1>1
  <2> QED BY <2>2, <1>3 DEF LacksCreation, y
<1>6. CASE 1..a \subseteq x.state
  <2>1. 1..n \subseteq 1..a \cup (a + 1)..b OBVIOUS
  <2>2. 1..n \subseteq y.state BY <2>1, <1>6, <1>1
  <2> QED BY <2>2, <1>3 DEF y
<1> QED BY <1>4, <1>5, <1>6

LEMMA PartRooms ==
    ASSUME NEW rs, AreRooms(rs), NEW S PROVE AreRooms(Part(rs, S))
BY NoRoomIsEmpty DEF Part, AreRooms

----------------------------------------------------------------------------
LEMMA Initially == Init => Inv
<1> SUFFICES ASSUME Init PROVE Inv OBVIOUS
<1> USE NoRoomIsEmpty DEF Init, Fresh, Positions
<1>1. Shape BY DEF Shape
<1>2. Phases BY DEF Phases, Live
<1>3. Ordered BY DEF Ordered
<1>4. \A r \in Room : 1..0 \subseteq Held(r).state OBVIOUS
<1>5. Covered BY <1>4 DEF Covered, Has
<1>6. NothingIsMissing BY DEF NothingIsMissing
<1> QED BY <1>1, <1>2, <1>3, <1>5, <1>6 DEF Inv, Frame

(* A step that leaves alone what is held and how far the connection is.    *)
LEMMA HeldStays ==
    ASSUME rooms' = rooms, loading' = loading, NEW r, NEW n, leave'[r] = 0 => leave[r] = 0,
           forgotten \subseteq forgotten', Has(r, n)
    PROVE  Has(r, n)'
BY DEF Has, Held, LacksCreation

LEMMA CoveredStays ==
    ASSUME UNCHANGED <<rooms, loading, pos, conn, response, todo>>, Covered,
           forgotten \subseteq forgotten', \A r \in Room : leave'[r] = 0 => leave[r] = 0
    PROVE  Covered'
<1> SUFFICES ASSUME NEW r \in Room
             PROVE  /\ Has(r, conn[r])'
                    /\ r \notin todo => Has(r, response[r])'
                    /\ pos # None => Has(r, pos[r])'
  BY DEF Covered
<1>1. Has(r, conn[r]) /\ (r \notin todo => Has(r, response[r])) /\ (pos # None => Has(r, pos[r]))
  BY DEF Covered
<1> QED BY <1>1 DEF Has, Held, LacksCreation

----------------------------------------------------------------------------
(* What the steps make of the variables, whatever is lost.                 *)

LEMMA HappensFrames == ASSUME Frame, NEW q \in Room, Happens(q) PROVE Frame'
<1> USE DEF Frame, Positions
<1>1. UNCHANGED <<stored, phase, loading, rooms, pos, conn, response, todo>>
  BY DEF Happens, session
<1>2. /\ happened' \in Positions /\ leave' \in Positions
      /\ \A r \in Room : happened[r] <= happened'[r] /\ (leave'[r] = 0 => leave[r] = 0)
  BY DEF Happens, Shape
<1>3. Shape' BY <1>1, <1>2 DEF Shape, AreRooms
<1>4. Phases' BY <1>1 DEF Phases, Live
<1>5. Ordered' BY <1>1, <1>2 DEF Ordered, Shape
<1> QED BY <1>3, <1>4, <1>5

LEMMA OpenFrames == ASSUME Frame, Open PROVE Frame'
<1> USE DEF Frame
<1>1. UNCHANGED <<happened, leave, stored, loading, rooms, pos, conn, response, todo>>
  BY DEF Open, server
<1>2. phase = "closed" /\ phase' = "recording" BY DEF Open
<1>3. Shape' BY <1>1 DEF Shape, AreRooms
<1>4. Phases' BY <1>1, <1>2 DEF Phases, Live
<1>5. Ordered' BY <1>1 DEF Ordered
<1> QED BY <1>3, <1>4, <1>5

LEMMA LoadFirstFrames == ASSUME Frame, LoadFirst PROVE Frame'
<1> USE DEF Frame
<1>1. /\ UNCHANGED <<happened, leave, stored, todo>> /\ todo = {}
      /\ phase = "recording" /\ phase' = "loading"
      /\ rooms' = Part(stored.rooms, stored.first) /\ loading' = Part(stored.rooms, Room \ stored.first)
      /\ pos' = stored.pos /\ response' = conn'
      /\ conn' = IF stored.pos = None THEN Fresh ELSE stored.pos
  BY DEF LoadFirst, server, Phases, Live
<1>2. Shape'
  <2>1. AreRooms(rooms') /\ AreRooms(loading') BY <1>1, PartRooms DEF Shape
  <2>2. AreRooms(stored'.rooms) BY <1>1 DEF Shape
  <2>3. conn' \in Positions /\ response' \in Positions BY <1>1 DEF Shape, Fresh, Positions
  <2> QED BY <1>1, <2>1, <2>2, <2>3 DEF Shape, AreRooms
<1>3. Phases' BY <1>1 DEF Phases, Live
<1>4. Ordered' BY <1>1 DEF Ordered, Fresh, Shape, Positions
<1> QED BY <1>2, <1>3, <1>4

LEMMA LoadRestFrames == ASSUME Frame, LoadRest PROVE Frame'
<1> USE DEF Frame
<1>1. /\ UNCHANGED <<happened, leave, stored, pos, conn, response, todo>>
      /\ phase = "loading" /\ phase' = "loaded" /\ loading' = NoRooms
      /\ rooms' = [r \in Room |-> Held(r)]
  BY DEF LoadRest, server, Held
<1>2. AreRooms(rooms') BY <1>1 DEF AreRooms, Held, Shape
<1>3. Shape' BY <1>1, <1>2, NoRoomIsEmpty DEF Shape, AreRooms
<1>4. Phases' BY <1>1 DEF Phases, Live
<1>5. Ordered' BY <1>1 DEF Ordered
<1> QED BY <1>3, <1>4, <1>5

LEMMA RespondFrames == ASSUME Frame, NEW R \in SUBSET Room, Respond(R) PROVE Frame'
<1> USE DEF Frame
<1>1. /\ UNCHANGED <<happened, leave, stored, phase, loading, rooms, pos, conn>>
      /\ R \subseteq News /\ Live /\ response = conn /\ todo' = R
      /\ response' = [r \in Room |-> IF r \in R THEN happened[r] ELSE conn[r]]
  BY DEF Respond, server, Idle
<1>2. Shape' BY <1>1 DEF Shape, AreRooms, Positions
<1>3. Phases' BY <1>1 DEF Phases, Live
<1>4. Ordered' BY <1>1 DEF Ordered, News, Shape, Positions
<1> QED BY <1>2, <1>3, <1>4

LEMMA CompleteFrames == ASSUME Frame, Complete PROVE Frame'
<1> USE DEF Frame
<1>1. /\ UNCHANGED <<happened, leave, stored, phase, loading, rooms, response, todo>>
      /\ response # conn /\ todo = {} /\ conn' = response /\ pos' = response
  BY DEF Complete, server
<1>2. Shape' BY <1>1 DEF Shape, AreRooms
<1>3. Phases' BY <1>1 DEF Phases, Live
<1>4. Ordered' BY <1>1 DEF Ordered, Shape, Positions
<1> QED BY <1>2, <1>3, <1>4

LEMMA ExpireFrames == ASSUME Frame, Expire PROVE Frame'
<1> USE DEF Frame
<1>1. /\ UNCHANGED <<happened, leave, stored, phase, loading, rooms, pos, todo>>
      /\ Live /\ response = conn /\ conn' = Fresh /\ response' = Fresh
  BY DEF Expire, server, Idle
<1>2. todo = {} BY <1>1 DEF Ordered, Shape, Positions
<1>3. Shape' BY <1>1 DEF Shape, AreRooms, Fresh, Positions
<1>4. Phases' BY <1>1 DEF Phases, Live
<1>5. Ordered' BY <1>1, <1>2 DEF Ordered, Fresh, Shape, Positions
<1> QED BY <1>3, <1>4, <1>5

LEMMA EndedFrames == ASSUME Frame, Ended PROVE Frame'
<1> USE DEF Frame
<1>1. /\ UNCHANGED <<happened, leave, stored>>
      /\ phase' = "closed" /\ loading' = NoRooms /\ rooms' = NoRooms /\ pos' = None
      /\ conn' = Fresh /\ response' = Fresh /\ todo' = {}
  BY DEF Ended, server
<1>2. Shape' BY <1>1, NoRoomIsEmpty DEF Shape, Fresh, Positions
<1>3. Phases' BY <1>1 DEF Phases, Live
<1>4. Ordered' BY <1>1 DEF Ordered, Fresh, Shape, Positions
<1> QED BY <1>2, <1>3, <1>4

LEMMA TakeRoomFrames == ASSUME Frame, NEW q \in Room, TakeRoom(q) PROVE Frame'
<1> USE DEF Frame
<1> DEFINE new == IF Leaves(q) THEN NoRoom ELSE Merged(rooms[q], Data(conn[q], response[q]))
<1>1. /\ UNCHANGED <<happened, leave, stored, phase, loading, pos, conn, response>>
      /\ q \in todo /\ todo' = todo \ {q} /\ rooms' = [rooms EXCEPT ![q] = new]
  BY DEF TakeRoom, server
<1>2. conn[q] \in Nat /\ response[q] \in Nat /\ conn[q] < response[q]
  BY <1>1 DEF Ordered, Shape, Positions
<1>3. IsRoom(new) BY <1>2, NoRoomIsEmpty, MergedState
<1>4. rooms' = [r \in Room |-> IF r = q THEN new ELSE rooms[r]]
  BY <1>1 DEF Shape, AreRooms
<1>5. Shape'
  <2> HIDE DEF new
  <2>1. AreRooms(rooms') BY <1>3, <1>4 DEF AreRooms, Shape
  <2> QED BY <1>1, <2>1 DEF Shape, AreRooms
<1>6. Phases' BY <1>1 DEF Phases, Live
<1>7. Ordered' BY <1>1 DEF Ordered
<1> QED BY <1>5, <1>6, <1>7

LEMMA SaveFrames == ASSUME Frame, Save PROVE Frame'
<1> USE DEF Frame
<1>1. UNCHANGED <<happened, leave, phase, loading, rooms, pos, conn, response, todo>>
  BY DEF Save, server
<1>2. PICK S : stored' = Snapshot(S) BY DEF Save
<1>3. /\ stored'.rooms = [r \in Room |-> FromNewestMessage(rooms[r])]
      /\ stored'.pos = IF \E r \in Room : LacksCreation(rooms[r]) THEN None ELSE pos
  BY <1>2 DEF Snapshot
<1>4. \A r \in Room : IsRoom(stored'.rooms[r]) /\ stored'.rooms[r].state = rooms[r].state
  BY <1>3, WrittenState DEF Shape, AreRooms
<1>5. Shape' BY <1>1, <1>3, <1>4 DEF Shape, AreRooms
<1>6. Phases' BY <1>1 DEF Phases, Live
<1>7. Ordered' BY <1>1, <1>3 DEF Ordered
<1> QED BY <1>5, <1>6, <1>7

----------------------------------------------------------------------------
(* The steps.                                                              *)

LEMMA HappensKeeps == ASSUME Inv, NEW q \in Room, Happens(q) PROVE Inv'
<1> USE DEF Inv, Frame, Positions
<1>1. UNCHANGED <<stored, phase, loading, rooms, pos, conn, response, todo, forgotten>>
  BY DEF Happens, session
<1>2. /\ happened' \in Positions /\ leave' \in Positions
      /\ \A r \in Room : happened[r] <= happened'[r] /\ (leave'[r] = 0 => leave[r] = 0)
  BY DEF Happens, Shape
<1>3. Covered' BY <1>1, <1>2, CoveredStays
<1>4. NothingIsMissing' BY <1>1, <1>2 DEF NothingIsMissing
<1> QED BY <1>3, <1>4, HappensFrames

LEMMA OpenKeeps == ASSUME Inv, Open PROVE Inv'
<1> USE DEF Inv, Frame
<1>1. UNCHANGED <<happened, leave, stored, forgotten, loading, rooms, pos, conn, response, todo>>
  BY DEF Open, server
<1>2. Covered' BY <1>1, CoveredStays
<1>3. NothingIsMissing' BY <1>1 DEF NothingIsMissing
<1> QED BY <1>2, <1>3, OpenFrames

LEMMA LoadFirstKeeps == ASSUME Inv, LoadFirst PROVE Inv'
<1> USE DEF Inv, Frame
<1>1. /\ UNCHANGED <<happened, leave, stored, forgotten, todo>> /\ todo = {}
      /\ phase = "recording" /\ phase' = "loading"
      /\ rooms' = Part(stored.rooms, stored.first) /\ loading' = Part(stored.rooms, Room \ stored.first)
      /\ pos' = stored.pos /\ response' = conn'
      /\ conn' = IF stored.pos = None THEN Fresh ELSE stored.pos
  BY DEF LoadFirst, server, Phases, Live
<1>2. \A r \in Room : Held(r)'.state = stored.rooms[r].state
  BY <1>1, NoRoomIsEmpty DEF Held, Part
<1>3. ASSUME NEW r \in Room, stored.pos # None PROVE Has(r, stored.pos[r])'
  BY <1>1, <1>2, <1>3 DEF Has, NothingIsMissing
<1>4. ASSUME NEW r \in Room PROVE Has(r, 0)' BY DEF Has
<1>5. Covered' BY <1>1, <1>3, <1>4 DEF Covered, Fresh
<1>6. NothingIsMissing' BY <1>1 DEF NothingIsMissing
<1> QED BY <1>5, <1>6, LoadFirstFrames

LEMMA LoadRestKeeps == ASSUME Inv, LoadRest PROVE Inv'
<1> USE DEF Inv, Frame
<1>1. /\ UNCHANGED <<happened, leave, stored, forgotten, pos, conn, response, todo>>
      /\ phase = "loading" /\ phase' = "loaded" /\ loading' = NoRooms
      /\ rooms' = [r \in Room |-> Held(r)]
  BY DEF LoadRest, server, Held
<1>2. \A r \in Room : Held(r)' = Held(r) BY <1>1 DEF Held, NoRooms
<1>3. Covered' BY <1>1, <1>2 DEF Covered, Has
<1>4. NothingIsMissing' BY <1>1 DEF NothingIsMissing
<1> QED BY <1>3, <1>4, LoadRestFrames

LEMMA RespondKeeps == ASSUME Inv, NEW R \in SUBSET Room, Respond(R) PROVE Inv'
<1> USE DEF Inv, Frame
<1>1. /\ UNCHANGED <<happened, leave, stored, forgotten, phase, loading, rooms, pos, conn>>
      /\ R \subseteq News /\ Live /\ response = conn /\ todo' = R
      /\ response' = [r \in Room |-> IF r \in R THEN happened[r] ELSE conn[r]]
  BY DEF Respond, server, Idle
<1>2. Covered' BY <1>1 DEF Covered, Has, Held, LacksCreation
<1>3. NothingIsMissing' BY <1>1 DEF NothingIsMissing
<1> QED BY <1>2, <1>3, RespondFrames

LEMMA CompleteKeeps == ASSUME Inv, Complete PROVE Inv'
<1> USE DEF Inv, Frame
<1>1. /\ UNCHANGED <<happened, leave, stored, forgotten, phase, loading, rooms, response, todo>>
      /\ response # conn /\ todo = {} /\ conn' = response /\ pos' = response
  BY DEF Complete, server
<1>2. Covered' BY <1>1 DEF Covered, Has, Held, LacksCreation
<1>3. NothingIsMissing' BY <1>1 DEF NothingIsMissing
<1> QED BY <1>2, <1>3, CompleteFrames

LEMMA ExpireKeeps == ASSUME Inv, Expire PROVE Inv'
<1> USE DEF Inv, Frame
<1>1. /\ UNCHANGED <<happened, leave, stored, forgotten, phase, loading, rooms, pos, todo>>
      /\ Live /\ response = conn /\ conn' = Fresh /\ response' = Fresh
  BY DEF Expire, server, Idle
<1>2. \A r \in Room : Has(r, 0)' BY DEF Has
<1>3. \A r \in Room : pos # None => Has(r, pos[r])' BY <1>1 DEF Covered, Has, Held, LacksCreation
<1>4. Covered' BY <1>1, <1>2, <1>3 DEF Covered, Fresh
<1>5. NothingIsMissing' BY <1>1 DEF NothingIsMissing
<1> QED BY <1>4, <1>5, ExpireFrames

LEMMA EndedKeeps == ASSUME Inv, Ended PROVE Inv'
<1> USE DEF Inv, Frame
<1>1. /\ UNCHANGED <<happened, leave, stored, forgotten>>
      /\ phase' = "closed" /\ loading' = NoRooms /\ rooms' = NoRooms /\ pos' = None
      /\ conn' = Fresh /\ response' = Fresh /\ todo' = {}
  BY DEF Ended, server
<1>2. \A r \in Room : Has(r, 0)' BY DEF Has
<1>3. Covered' BY <1>1, <1>2 DEF Covered, Fresh
<1>4. NothingIsMissing' BY <1>1 DEF NothingIsMissing
<1> QED BY <1>3, <1>4, EndedFrames

(* onRoomData: the room of a response that is taken in.                    *)
LEMMA TakeRoomKeeps == ASSUME Inv, NEW q \in Room, TakeRoom(q) PROVE Inv'
<1> USE DEF Inv, Frame
<1> DEFINE new == IF Leaves(q) THEN NoRoom ELSE Merged(rooms[q], Data(conn[q], response[q]))
<1>1. /\ UNCHANGED <<happened, leave, stored, forgotten, phase, loading, pos, conn, response>>
      /\ q \in todo /\ todo' = todo \ {q} /\ rooms' = [rooms EXCEPT ![q] = new]
  BY DEF TakeRoom, server
<1>2. conn[q] \in Nat /\ response[q] \in Nat /\ conn[q] < response[q]
  BY <1>1 DEF Ordered, Shape, Positions
<1>3. rooms' = [r \in Room |-> IF r = q THEN new ELSE rooms[r]]
  BY <1>1 DEF Shape, AreRooms
<1>4. Covered'
  <2>1. ASSUME NEW r \in Room, r # q
        PROVE  /\ Has(r, conn[r])' /\ (r \notin todo' => Has(r, response[r])')
               /\ (pos # None => Has(r, pos[r])')
    <3> HIDE DEF new
    <3>1. Held(r)' = Held(r) BY <1>1, <1>3, <2>1 DEF Held
    <3> QED BY <1>1, <2>1, <3>1 DEF Covered, Has
  <2>2. ASSUME NEW n \in Nat, n <= response[q] PROVE Has(q, n)'
    <3>1. CASE leave[q] # 0 \/ q \in forgotten BY <3>1, <1>1 DEF Has
    <3>2. CASE leave[q] = 0 /\ q \notin forgotten
      <4>1. new = Merged(rooms[q], Data(conn[q], response[q])) BY <3>2 DEF Leaves
      <4>2. 1..conn[q] \subseteq rooms[q].state \/ 1 \notin rooms[q].state
        <5>1. CASE rooms[q] = NoRoom BY <5>1, NoRoomIsEmpty
        <5>2. CASE rooms[q] # NoRoom
          BY <5>2, <3>2 DEF Covered, Has, Held, LacksCreation
        <5> QED BY <5>1, <5>2
      <4>3. new # NoRoom /\ (1..n \subseteq new.state \/ LacksCreation(new))
        BY <1>2, <2>2, <4>1, <4>2, MergedCovers
      <4>4. Held(q)' = new
        <5> HIDE DEF new
        <5> QED BY <1>3, <4>3 DEF Held
      <4> HIDE DEF new
      <4> QED BY <4>3, <4>4 DEF Has, LacksCreation
    <3> QED BY <3>1, <3>2
  <2>3. conn[q] <= response[q] /\ (pos # None => pos[q] \in Nat /\ pos[q] <= response[q])
    BY <1>1, <1>2 DEF Ordered, Shape, Positions
  <2>4. /\ Has(q, conn[q])' /\ Has(q, response[q])' /\ (pos # None => Has(q, pos[q])')
    <3>1. ASSUME NEW n \in Nat, n <= response[q], NEW p, p' = p, p[q] = n PROVE Has(q, p[q])'
      BY <2>2, <3>1 DEF Has
    <3> QED BY <1>1, <1>2, <2>2, <2>3 DEF Has
  <2> HIDE DEF new
  <2> QED BY <1>1, <2>1, <2>4 DEF Covered
<1>5. NothingIsMissing' BY <1>1 DEF NothingIsMissing
<1> QED BY <1>4, <1>5, TakeRoomFrames

(* save: with a position only if nothing of a room is missing.             *)
LEMMA SaveKeeps == ASSUME Inv, Save, phase' = phase PROVE Inv'
<1> USE DEF Inv, Frame
<1>1. UNCHANGED <<happened, leave, phase, loading, rooms, pos, conn, response, todo>>
  BY DEF Save, server
<1>2. PICK S : stored' = Snapshot(S) BY DEF Save
<1>3. /\ stored'.rooms = [r \in Room |-> FromNewestMessage(rooms[r])]
      /\ stored'.pos = IF \E r \in Room : LacksCreation(rooms[r]) THEN None ELSE pos
  BY <1>2 DEF Snapshot
<1>4. \A r \in Room : IsRoom(stored'.rooms[r]) /\ stored'.rooms[r].state = rooms[r].state
  BY <1>3, WrittenState DEF Shape, AreRooms
<1>5. /\ forgotten \subseteq forgotten'
      /\ stored'.pos # None => \A r \in Room \ forgotten' : rooms[r] # NoRoom \/ loading[r] = NoRoom
  BY DEF Save, Kept
<1>6. Covered' BY <1>1, <1>5, CoveredStays
<1>7. NothingIsMissing'
  <2> SUFFICES ASSUME stored'.pos # None, NEW r \in Room, r \notin forgotten', leave'[r] = 0
               PROVE  1..stored'.pos[r] \subseteq stored'.rooms[r].state
    BY DEF NothingIsMissing
  <2>1. pos # None /\ stored'.pos = pos /\ ~LacksCreation(rooms[r]) BY <1>3
  <2>2. Held(r) = rooms[r] BY <1>5 DEF Held
  <2>3. 1..pos[r] \subseteq rooms[r].state BY <1>1, <1>5, <2>1, <2>2 DEF Covered, Has
  <2> QED BY <2>1, <2>3, <1>4
<1> QED BY <1>6, <1>7, SaveFrames

LEMMA NextKeeps == ASSUME Inv, [Next]_vars PROVE Inv'
<1>1. CASE Steps
  <2>1. CASE SaveTimer BY <2>1, SaveKeeps DEF SaveTimer, Save
  <2> QED BY <1>1, <2>1, LoadFirstKeeps, LoadRestKeeps, RespondKeeps, TakeRoomKeeps, CompleteKeeps
          DEF Steps
<1>2. CASE OnHide BY <1>2, SaveKeeps DEF OnHide, Save
<1>3. CASE Open \/ Expire BY <1>3, OpenKeeps, ExpireKeeps
<1>4. CASE Close \/ Crash BY <1>4, EndedKeeps DEF Close, Crash
<1>5. CASE \E r \in Room : Happens(r) BY <1>5, HappensKeeps
<1>6. CASE UNCHANGED vars
  <2>1. UNCHANGED <<happened, leave, stored, forgotten, phase, loading, rooms, pos, conn, response, todo>>
    BY <1>6 DEF vars, server, session
  <2>2. Covered' BY <2>1, CoveredStays DEF Inv
  <2> QED BY <2>1, <2>2 DEF Inv, Frame, Shape, AreRooms, Phases, Live, Ordered, NothingIsMissing
<1> QED BY <1>1, <1>2, <1>3, <1>4, <1>5, <1>6 DEF Next

(* A session that resumes from what is stored misses nothing, for any      *)
(* rooms and events, however often sessions are cut off and positions      *)
(* expire, but of rooms of the second record that a save between loadFirst *)
(* and loadRest wrote away.                                                *)
THEOREM NothingIsLost == Spec => []NothingIsMissing
<1>1. Init => Inv BY Initially
<1>2. Inv /\ [Next]_vars => Inv' BY NextKeeps
<1>3. Inv => NothingIsMissing BY DEF Inv
<1> QED BY <1>1, <1>2, <1>3, PTL DEF Spec

----------------------------------------------------------------------------
(* Rooms that were left.  A room whose leave a position has been sent is   *)
(* not held, and as no connection describes it again it is not held later. *)

GoneAt(r, n) == leave[r] # 0 /\ r \notin early /\ n = leave[r] => Held(r) = NoRoom

Gone ==
    /\ \A r \in Room :
           /\ leave[r] # 0 => happened[r] = leave[r]
           /\ GoneAt(r, conn[r])
           /\ r \notin todo => GoneAt(r, response[r])
           /\ pos # None => GoneAt(r, pos[r])
    /\ LeftStaysGone

LEMMA GoneStays ==
    ASSUME UNCHANGED <<leave, stored, rooms, loading, pos, conn, response, todo, early, happened>>, Gone
    PROVE  Gone'
BY DEF Gone, GoneAt, Held, LeftStaysGone

LEMMA HappensKeepsGone == ASSUME Inv, Gone, NEW q \in Room, Happens(q) PROVE Gone'
<1>1. /\ UNCHANGED <<stored, rooms, loading, pos, conn, response, todo, early>>
      /\ leave[q] = 0
      /\ happened' = [happened EXCEPT ![q] = @ + 1]
      /\ leave' \in {leave, [leave EXCEPT ![q] = happened[q] + 1]}
  BY DEF Happens, session
<1>2. \A r \in Room : conn[r] \in Nat /\ response[r] \in Nat /\ happened[r] \in Nat /\ leave[r] \in Nat
  BY DEF Inv, Frame, Shape, Positions
<1>3. \A r \in Room : /\ conn[r] <= happened[r] /\ response[r] <= happened[r]
                      /\ pos # None => pos[r] \in Nat /\ pos[r] <= happened[r]
                      /\ stored.pos # None => stored.pos[r] \in Nat /\ stored.pos[r] <= happened[r]
  BY <1>2 DEF Inv, Frame, Ordered, Shape, Positions
<1>4. /\ happened'[q] = happened[q] + 1 /\ leave'[q] \in {0, happened[q] + 1}
      /\ \A r \in Room \ {q} : happened'[r] = happened[r] /\ leave'[r] = leave[r]
  BY <1>1 DEF Inv, Frame, Shape, Positions
<1>5. ASSUME NEW r \in Room, NEW n \in Nat, n <= happened[r], GoneAt(r, n) PROVE GoneAt(r, n)'
  BY <1>1, <1>2, <1>4, <1>5 DEF GoneAt, Held
<1>6. \A r \in Room : leave'[r] # 0 => happened'[r] = leave'[r] BY <1>1, <1>4 DEF Gone
<1>7. \A r \in Room : /\ GoneAt(r, conn[r])' /\ (r \notin todo => GoneAt(r, response[r])')
                      /\ (pos # None => GoneAt(r, pos[r])')
  BY <1>1, <1>2, <1>3, <1>5 DEF Gone, GoneAt
<1>8. LeftStaysGone' BY <1>1, <1>2, <1>3, <1>4 DEF Gone, LeftStaysGone
<1> QED BY <1>1, <1>6, <1>7, <1>8 DEF Gone

LEMMA TakeRoomKeepsGone == ASSUME Inv, Gone, NEW q \in Room, TakeRoom(q) PROVE Gone'
<1> DEFINE new == IF Leaves(q) THEN NoRoom ELSE Merged(rooms[q], Data(conn[q], response[q]))
<1>1. /\ UNCHANGED <<happened, leave, stored, phase, loading, pos, conn, response>>
      /\ q \in todo /\ todo' = todo \ {q} /\ rooms' = [rooms EXCEPT ![q] = new]
      /\ early' = IF Leaves(q) /\ phase = "loading" THEN early \cup {q} ELSE early
  BY DEF TakeRoom, server
<1>2. rooms' = [r \in Room |-> IF r = q THEN new ELSE rooms[r]]
  BY <1>1 DEF Inv, Frame, Shape, AreRooms
<1>3. /\ conn[q] \in Nat /\ response[q] \in Nat /\ conn[q] < response[q] /\ response[q] <= happened[q]
      /\ pos # None => pos[q] \in Nat /\ pos[q] <= response[q]
      /\ happened[q] \in Nat /\ leave[q] \in Nat
  BY <1>1 DEF Inv, Frame, Ordered, Shape, Positions
<1>4. ASSUME NEW n \in Nat, n <= response[q] PROVE GoneAt(q, n)'
  <2> SUFFICES ASSUME leave'[q] # 0, q \notin early', n = leave'[q] PROVE Held(q)' = NoRoom
    BY DEF GoneAt
  <2>1. Leaves(q) BY <1>1, <1>3, <1>4 DEF Gone, Leaves
  <2>2. phase # "loading" BY <1>1, <2>1
  <2>3. loading'[q] = NoRoom BY <1>1, <2>2 DEF Inv, Frame, Phases, NoRooms
  <2> QED BY <1>2, <2>1, <2>3 DEF Held
<1>5. ASSUME NEW r \in Room, r # q, NEW n, GoneAt(r, n) PROVE GoneAt(r, n)'
  <2> HIDE DEF new
  <2> QED BY <1>1, <1>2, <1>5 DEF GoneAt, Held
<1> HIDE DEF new
<1>6. \A r \in Room : leave'[r] # 0 => happened'[r] = leave'[r] BY <1>1 DEF Gone
<1>7. /\ GoneAt(q, conn[q])' /\ GoneAt(q, response[q])' /\ (pos # None => GoneAt(q, pos[q])')
  BY <1>1, <1>3, <1>4 DEF GoneAt
<1>8. \A r \in Room \ {q} : /\ GoneAt(r, conn[r])' /\ (r \notin todo' => GoneAt(r, response[r])')
                            /\ (pos # None => GoneAt(r, pos[r])')
  BY <1>1, <1>5 DEF Gone, GoneAt
<1>9. LeftStaysGone' BY <1>1 DEF Gone, LeftStaysGone
<1> QED BY <1>1, <1>6, <1>7, <1>8, <1>9 DEF Gone

LEMMA SaveKeepsGone == ASSUME Inv, Gone, Save PROVE Gone'
<1>1. /\ UNCHANGED <<happened, leave, loading, rooms, pos, conn, response, todo, early>>
  BY DEF Save, server
<1>2. PICK S : stored' = Snapshot(S) BY DEF Save
<1>3. FromNewestMessage(NoRoom) = NoRoom BY DEF FromNewestMessage, NoRoom
<1>4. LeftStaysGone'
  <2> SUFFICES ASSUME stored'.pos # None, NEW r \in Room, r \notin early, leave[r] # 0,
                      stored'.pos[r] = leave[r]
               PROVE  stored'.rooms[r] = NoRoom
    BY <1>1 DEF LeftStaysGone
  <2>1. stored'.pos = pos /\ stored'.rooms[r] = FromNewestMessage(rooms[r]) BY <1>2 DEF Snapshot
  <2>2. Held(r) = NoRoom BY <2>1 DEF Gone, GoneAt
  <2> QED BY <1>3, <2>1, <2>2 DEF Held
<1> QED BY <1>1, <1>4 DEF Gone, GoneAt, Held

LEMMA LoadFirstKeepsGone == ASSUME Inv, Gone, LoadFirst PROVE Gone'
<1>1. /\ UNCHANGED <<happened, leave, stored, todo, early>>
      /\ rooms' = Part(stored.rooms, stored.first) /\ loading' = Part(stored.rooms, Room \ stored.first)
      /\ pos' = stored.pos /\ response' = conn'
      /\ conn' = IF stored.pos = None THEN Fresh ELSE stored.pos
  BY DEF LoadFirst, server
<1>2. \A r \in Room : Held(r)' = stored.rooms[r] BY <1>1 DEF Held, Part
<1> QED BY <1>1, <1>2 DEF Gone, GoneAt, LeftStaysGone, Fresh

LEMMA OthersKeepGone ==
    ASSUME Inv, Gone, Open \/ LoadRest \/ (\E R \in SUBSET Room : Respond(R)) \/ Complete \/ Expire \/ Ended
    PROVE  Gone'
<1>1. CASE Open BY <1>1, GoneStays DEF Open, server
<1>2. CASE LoadRest
  <2>1. /\ UNCHANGED <<happened, leave, stored, pos, conn, response, todo, early>>
        /\ \A r \in Room : Held(r)' = Held(r)
    BY <1>2 DEF LoadRest, server, Held, NoRooms
  <2> QED BY <2>1 DEF Gone, GoneAt, LeftStaysGone
<1>3. ASSUME NEW R \in SUBSET Room, Respond(R) PROVE Gone'
  <2>1. /\ UNCHANGED <<happened, leave, stored, loading, rooms, pos, conn, early>> /\ todo' = R
        /\ response' = [r \in Room |-> IF r \in R THEN happened[r] ELSE conn[r]]
    BY <1>3 DEF Respond, server
  <2> QED BY <2>1 DEF Gone, GoneAt, Held, LeftStaysGone
<1>4. CASE Complete
  <2>1. /\ UNCHANGED <<happened, leave, stored, loading, rooms, response, todo, early>>
        /\ todo = {} /\ conn' = response /\ pos' = response
    BY <1>4 DEF Complete, server
  <2> QED BY <2>1 DEF Gone, GoneAt, Held, LeftStaysGone
<1>5. CASE Expire
  <2>1. /\ UNCHANGED <<happened, leave, stored, loading, rooms, pos, todo, early>>
        /\ conn' = Fresh /\ response' = Fresh
    BY <1>5 DEF Expire, server
  <2> QED BY <2>1 DEF Gone, GoneAt, Held, LeftStaysGone, Fresh
<1>6. CASE Ended
  <2>1. /\ UNCHANGED <<happened, leave, stored, early>>
        /\ pos' = None /\ conn' = Fresh /\ response' = Fresh
    BY <1>6 DEF Ended, server
  <2> QED BY <2>1 DEF Gone, GoneAt, LeftStaysGone, Fresh
<1> QED BY <1>1, <1>2, <1>3, <1>4, <1>5, <1>6

(* A room that was left, and whose leave a stored position has been sent,  *)
(* is not stored, and so not shown by any later session.                   *)
THEOREM TheLeftStayGone == Spec => []LeftStaysGone
<1>1. Init => Inv /\ Gone
  <2>1. Init => Gone BY DEF Init, Gone, GoneAt, LeftStaysGone, Fresh
  <2> QED BY <2>1, Initially
<1>2. Inv /\ Gone /\ [Next]_vars => Inv' /\ Gone'
  <2> SUFFICES ASSUME Inv, Gone, [Next]_vars PROVE Gone' BY NextKeeps
  <2>1. CASE Steps
    BY <2>1, LoadFirstKeepsGone, TakeRoomKeepsGone, SaveKeepsGone, OthersKeepGone DEF Steps, SaveTimer
  <2>2. CASE OnHide BY <2>2, SaveKeepsGone DEF OnHide
  <2>3. CASE Open \/ Expire \/ Close \/ Crash BY <2>3, OthersKeepGone DEF Close, Crash
  <2>4. CASE \E r \in Room : Happens(r) BY <2>4, HappensKeepsGone
  <2>5. CASE UNCHANGED vars BY <2>5, GoneStays DEF vars, server, session
  <2> QED BY <2>1, <2>2, <2>3, <2>4, <2>5 DEF Next
<1>3. Gone => LeftStaysGone BY DEF Gone
<1> QED BY <1>1, <1>2, <1>3, PTL DEF Spec
----------------------------------------------------------------------------
(* Timelines.  What a filter gives and that a set of numbers has a largest *)
(* member are shown by least counterexamples.                              *)

LEMMA LessIsWellFounded == IsWellFoundedOn({p \in Nat \X Nat : p[1] < p[2]}, Nat)
BY NatLessThanWellFounded DEF OpToRel

LEMMA LeastOf ==
    ASSUME NEW T, T \subseteq Nat, T # {} PROVE \E x \in T : \A y \in T : x <= y
<1> DEFINE R == {p \in Nat \X Nat : p[1] < p[2]}
<1>1. PICK x \in T : \A y \in T : ~(<<y, x>> \in R)
  <2>1. IsWellFoundedOn(R, Nat) BY LessIsWellFounded
  <2> HIDE DEF R
  <2> QED BY <2>1, WFMin
<1>2. \A y \in T : ~(y < x) BY <1>1
<1> QED BY <1>2

LEMMA LargestIs ==
    ASSUME NEW n \in Nat, NEW T, T \subseteq 1..n, T # {}
    PROVE  Largest(T) \in T /\ \A y \in T : y <= Largest(T)
<1> DEFINE U == {m \in Nat : \A y \in T : y <= m}
<1>1. n \in U OBVIOUS
<1>2. PICK m \in U : \A k \in U : m <= k
  <2>1. U \subseteq Nat OBVIOUS
  <2> HIDE DEF U
  <2> QED BY <1>1, <2>1, LeastOf
<1>3. m \in T
  <2> SUFFICES ASSUME m \notin T PROVE FALSE OBVIOUS
  <2>1. \A y \in T : y < m BY <1>2
  <2>2. m # 0
    <3>1. PICK y \in T : TRUE OBVIOUS
    <3>2. y \in Nat /\ y < m BY <2>1, <3>1
    <3> QED BY <3>2
  <2>3. m - 1 \in Nat /\ m - 1 < m BY <1>2, <2>2
  <2>4. m - 1 \in U BY <2>1, <2>3
  <2> QED BY <1>2, <2>3, <2>4
<1>4. \E x \in T : \A y \in T : y <= x BY <1>2, <1>3
<1> QED BY <1>4 DEF Largest

(* What holds of 0 and of each number after one it holds of holds of n.    *)
LEMMA StepsUp ==
    ASSUME NEW n \in Nat, NEW T, 0 \in T, \A k \in 1..n : k - 1 \in T => k \in T
    PROVE  n \in T
<1> SUFFICES ASSUME n \notin T PROVE FALSE OBVIOUS
<1>1. PICK k \in (0..n) \ T : \A i \in (0..n) \ T : k <= i
  <2>1. (0..n) \ T \subseteq Nat /\ (0..n) \ T # {} OBVIOUS
  <2> QED BY <2>1, LeastOf
<1>2. k \in 1..n /\ k - 1 \in 0..n BY <1>1
<1>3. k - 1 \in T BY <1>1, <1>2
<1> QED BY <1>1, <1>2, <1>3

(* A filter's results: f[k] is what is left of the first k events.         *)
IsFilter(f, s, seen, V, m) ==
    /\ f \in [0..m -> V] /\ f[0] = <<>>
    /\ \A k \in 1..m : f[k] = IF s[k] \in seen THEN f[k - 1] ELSE Append(f[k - 1], s[k])

(* A filter has a result, and it is of the same things.                    *)
LEMMA FilterExists ==
    ASSUME NEW T, NEW s \in Seq(T), NEW seen
    PROVE  \E f : IsFilter(f, s, seen, Seq(T), Len(s))
<1> DEFINE V == Seq(T)
           D == {m \in 0..Len(s) : \E f : IsFilter(f, s, seen, V, m)}
<1>1. 0 \in D
  <2> DEFINE g == [i \in 0..0 |-> <<>>]
  <2>1. g \in [0..0 -> V] /\ g[0] = <<>> /\ 1..0 = {} OBVIOUS
  <2>2. IsFilter(g, s, seen, V, 0) BY <2>1 DEF IsFilter
  <2> QED BY <2>2
<1>2. ASSUME NEW m \in 1..Len(s), m - 1 \in D PROVE m \in D
  <2>1. PICK f : IsFilter(f, s, seen, V, m - 1) BY <1>2
  <2> DEFINE last == IF s[m] \in seen THEN f[m - 1] ELSE Append(f[m - 1], s[m])
             g == [i \in 0..m |-> IF i = m THEN last ELSE f[i]]
  <2>2. f \in [0..(m - 1) -> V] /\ f[0] = <<>> BY <2>1 DEF IsFilter
  <2>3. g \in [0..m -> V]
    <3>1. s[m] \in T /\ f[m - 1] \in V BY <2>2
    <3>2. last \in V BY <3>1
    <3> HIDE DEF last
    <3> QED BY <2>2, <3>2
  <2>4. g[0] = <<>> BY <2>2
  <2>5. ASSUME NEW k \in 1..m
        PROVE  g[k] = IF s[k] \in seen THEN g[k - 1] ELSE Append(g[k - 1], s[k])
    <3>1. CASE k = m
      <4>1. g[k - 1] = f[m - 1] /\ g[k] = last BY <3>1
      <4> QED BY <3>1, <4>1
    <3>2. CASE k # m
      <4>1. k \in 1..(m - 1) /\ k \in 0..m /\ k - 1 \in 0..m /\ k - 1 # m BY <3>2
      <4>2. f[k] = IF s[k] \in seen THEN f[k - 1] ELSE Append(f[k - 1], s[k])
        BY <2>1, <4>1 DEF IsFilter
      <4>3. g[k] = f[k] /\ g[k - 1] = f[k - 1] BY <3>2, <4>1
      <4> QED BY <4>2, <4>3
    <3> QED BY <3>1, <3>2
  <2> HIDE DEF g
  <2>6. IsFilter(g, s, seen, V, m) BY <2>3, <2>4, <2>5 DEF IsFilter
  <2> QED BY <2>6
<1> HIDE DEF D
<1>3. Len(s) \in D BY <1>1, <1>2, StepsUp
<1> QED BY <1>3 DEF D

(* What mergeRoomData's filter is defined to be is such a result.          *)
LEMMA UnseenIs ==
    ASSUME NEW T, NEW s \in Seq(T), NEW seen
    PROVE  \E f : IsFilter(f, s, seen, Seq(T), Len(s)) /\ Unseen(s, seen) = f[Len(s)]
<1> DEFINE Is(f) == f = [n \in 0..Len(s) |->
                             IF n = 0 THEN <<>>
                             ELSE IF s[n] \in seen THEN f[n - 1] ELSE Append(f[n - 1], s[n])]
           g == CHOOSE f : Is(f)
<1>1. PICK h : IsFilter(h, s, seen, Seq(T), Len(s)) BY FilterExists
<1>2. Is(h)
  <2>1. h = [n \in 0..Len(s) |-> h[n]] BY <1>1 DEF IsFilter
  <2>2. \A n \in 0..Len(s) :
            h[n] = IF n = 0 THEN <<>>
                   ELSE IF s[n] \in seen THEN h[n - 1] ELSE Append(h[n - 1], s[n])
    <3>1. h[0] = <<>> BY <1>1 DEF IsFilter
    <3>2. \A n \in 1..Len(s) : h[n] = IF s[n] \in seen THEN h[n - 1] ELSE Append(h[n - 1], s[n])
      BY <1>1 DEF IsFilter
    <3>3. \A n \in 0..Len(s) : n = 0 \/ n \in 1..Len(s) OBVIOUS
    <3> QED BY <3>1, <3>2, <3>3
  <2> QED BY <2>1, <2>2
<1>3. Is(g) BY <1>2
<1>4. Unseen(s, seen) = g[Len(s)] BY DEF Unseen
<1> HIDE DEF g
<1>5. /\ DOMAIN g = 0..Len(s) /\ g[0] = <<>>
      /\ \A k \in 1..Len(s) : g[k] = IF s[k] \in seen THEN g[k - 1] ELSE Append(g[k - 1], s[k])
  <2>1. Len(s) \in Nat OBVIOUS
  <2>2. 0 \in 0..Len(s) /\ \A k \in 1..Len(s) : k \in 0..Len(s) /\ k # 0 BY <2>1
  <2>3. g = [n \in 0..Len(s) |-> IF n = 0 THEN <<>>
                             ELSE IF s[n] \in seen THEN g[n - 1] ELSE Append(g[n - 1], s[n])]
    BY <1>3
  <2>4. DOMAIN g = 0..Len(s) BY <2>3
  <2>5. g[0] = <<>> BY <2>2, <2>3
  <2>6. ASSUME NEW k \in 1..Len(s)
        PROVE  g[k] = IF s[k] \in seen THEN g[k - 1] ELSE Append(g[k - 1], s[k])
    <3>1. k \in 0..Len(s) /\ k # 0 BY <2>2
    <3> QED BY <2>3, <3>1
  <2> QED BY <2>4, <2>5, <2>6
<1>6. \A k \in 0..Len(s) : g[k] \in Seq(T)
  <2> DEFINE D == {k \in 0..Len(s) : g[k] = h[k]}
  <2>1. 0 \in D BY <1>1, <1>5 DEF IsFilter
  <2>2. ASSUME NEW k \in 1..Len(s), k - 1 \in D PROVE k \in D
    BY <1>1, <1>5, <2>2 DEF IsFilter
  <2> HIDE DEF D
  <2>3. ASSUME NEW n \in 0..Len(s) PROVE n \in D
    <3>1. \A k \in 1..n : k - 1 \in D => k \in D BY <2>2
    <3> QED BY <2>1, <3>1, StepsUp
  <2>4. h \in [0..Len(s) -> Seq(T)] BY <1>1 DEF IsFilter
  <2> QED BY <2>3, <2>4 DEF D
<1>7. g = [n \in 0..Len(s) |-> g[n]]
  <2>1. g = [n \in 0..Len(s) |-> IF n = 0 THEN <<>>
                             ELSE IF s[n] \in seen THEN g[n - 1] ELSE Append(g[n - 1], s[n])]
    BY <1>3
  <2> QED BY <2>1
<1>8. IsFilter(g, s, seen, Seq(T), Len(s)) BY <1>5, <1>6, <1>7 DEF IsFilter
<1> QED BY <1>4, <1>8

LEMMA UnseenIsSeq == ASSUME NEW T, NEW s \in Seq(T), NEW seen PROVE Unseen(s, seen) \in Seq(T)
<1>1. PICK f : IsFilter(f, s, seen, Seq(T), Len(s)) /\ Unseen(s, seen) = f[Len(s)] BY UnseenIs
<1> QED BY <1>1 DEF IsFilter

(* The sequence of the numbers from a to b.                                *)
LEMMA FromIsSeq ==
    ASSUME NEW n, NEW a \in Nat \ {0}, NEW b \in Nat, b <= n, n \in Nat, a <= b + 1
    PROVE  /\ From(a, b) \in Seq(1..n) /\ Len(From(a, b)) = b - a + 1
           /\ \A i \in 1..(b - a + 1) : From(a, b)[i] = a + i - 1
           /\ Range(From(a, b)) = a..b
<1>1. /\ From(a, b) \in Seq(1..n) /\ Len(From(a, b)) = b - a + 1
      /\ \A i \in 1..(b - a + 1) : From(a, b)[i] = a + i - 1
      /\ DOMAIN From(a, b) = 1..(b - a + 1)
  BY DEF From
<1>2. ASSUME NEW e \in a..b PROVE e \in Range(From(a, b))
  <2>1. e - a + 1 \in 1..(b - a + 1) /\ a + (e - a + 1) - 1 = e OBVIOUS
  <2> QED BY <1>1, <2>1 DEF Range
<1>3. Range(From(a, b)) \subseteq a..b BY <1>1 DEF Range
<1> QED BY <1>1, <1>2, <1>3

(* Sequences that are put together, and those of consecutive numbers.      *)
LEMMA AppendIs ==
    ASSUME NEW s \in Seq(Nat), NEW t \in Seq(Nat), NEW e \in Nat, Len(t) = Len(s) + 1,
           \A i \in 1..Len(s) : t[i] = s[i], t[Len(s) + 1] = e
    PROVE  Append(s, e) = t
OBVIOUS

LEMMA AppendFrom ==
    ASSUME NEW a \in Nat \ {0}, NEW b \in Nat \ {0}, a <= b
    PROVE  Append(From(a, b - 1), b) = From(a, b)
<1>1. /\ From(a, b - 1) \in Seq(Nat) /\ Len(From(a, b - 1)) = b - a
      /\ \A i \in 1..(b - a) : From(a, b - 1)[i] = a + i - 1
  BY DEF From
<1>2. /\ From(a, b) \in Seq(Nat) /\ Len(From(a, b)) = b - a + 1
      /\ \A i \in 1..(b - a + 1) : From(a, b)[i] = a + i - 1
  BY DEF From
<1>3. /\ Len(From(a, b)) = Len(From(a, b - 1)) + 1 /\ b \in Nat
      /\ \A i \in 1..Len(From(a, b - 1)) : From(a, b)[i] = From(a, b - 1)[i]
      /\ From(a, b)[Len(From(a, b - 1)) + 1] = b
  <2>1. Len(From(a, b)) = Len(From(a, b - 1)) + 1 BY <1>1, <1>2
  <2>2. ASSUME NEW i \in 1..(b - a) PROVE From(a, b)[i] = From(a, b - 1)[i]
    <3>1. i \in 1..(b - a + 1) OBVIOUS
    <3> QED BY <1>1, <1>2, <3>1
  <2>3. b - a + 1 \in 1..(b - a + 1) /\ a + (b - a + 1) - 1 = b OBVIOUS
  <2>4. From(a, b)[b - a + 1] = b BY <1>2, <2>3
  <2> QED BY <1>1, <2>1, <2>2, <2>4
<1> QED BY <1>1, <1>2, <1>3, AppendIs

(* A filter that has seen what comes before n leaves what comes after it.  *)
LEMMA UnseenOfFrom ==
    ASSUME NEW a \in Nat \ {0}, NEW b \in Nat, NEW n \in Nat, NEW seen, a <= n + 1, n <= b, a <= b,
           \A e \in a..b : e \in seen <=> e <= n
    PROVE  Unseen(From(a, b), seen) = From(n + 1, b)
<1> DEFINE s == From(a, b)
           top(k) == IF a + k - 1 <= n THEN n ELSE a + k - 1
<1>1. /\ s \in Seq(1..b) /\ Len(s) = b - a + 1 /\ \A i \in 1..(b - a + 1) : s[i] = a + i - 1
  <2>1. b <= b /\ a <= b + 1 OBVIOUS
  <2> QED BY <2>1, FromIsSeq
<1>2. PICK f : IsFilter(f, s, seen, Seq(1..b), Len(s)) /\ Unseen(s, seen) = f[Len(s)]
  BY <1>1, UnseenIs
<1> HIDE DEF s
<1> DEFINE D == {k \in 0..Len(s) : f[k] = From(n + 1, top(k))}
<1>3. 0 \in D
  <2>1. top(0) = n BY DEF top
  <2>2. From(n + 1, n) = <<>> BY DEF From
  <2> QED BY <1>1, <1>2, <2>1, <2>2 DEF IsFilter
<1>4. ASSUME NEW k \in 1..Len(s), k - 1 \in D PROVE k \in D
  <2>1. s[k] = a + k - 1 /\ s[k] \in a..b BY <1>1
  <2>2. f[k] = IF s[k] \in seen THEN f[k - 1] ELSE Append(f[k - 1], s[k]) BY <1>2 DEF IsFilter
  <2>3. f[k - 1] = From(n + 1, top(k - 1)) BY <1>4
  <2>4. CASE s[k] <= n
    <3>1. top(k) = n /\ top(k - 1) = n BY <2>1, <2>4, <1>1
    <3> HIDE DEF top
    <3> QED BY <2>1, <2>2, <2>3, <2>4, <3>1
  <2>5. CASE s[k] > n
    <3>1. top(k) = s[k] /\ top(k - 1) = s[k] - 1 /\ s[k] \in Nat BY <2>1, <2>5, <1>1
    <3>2. Append(From(n + 1, s[k] - 1), s[k]) = From(n + 1, s[k])
      <4>1. n + 1 \in Nat \ {0} /\ s[k] \in Nat \ {0} /\ n + 1 <= s[k] BY <2>5, <3>1
      <4> QED BY <4>1, AppendFrom
    <3>3. s[k] \notin seen BY <2>1, <2>5, <3>1
    <3>4. f[k - 1] = From(n + 1, s[k] - 1) BY <2>3, <3>1
    <3>5. f[k] = From(n + 1, s[k]) BY <2>2, <3>2, <3>3, <3>4
    <3> HIDE DEF top
    <3> QED BY <3>1, <3>5
  <2> QED BY <2>1, <2>4, <2>5
<1> HIDE DEF D
<1>5. Len(s) \in D BY <1>1, <1>3, <1>4, StepsUp
<1>6. top(Len(s)) = b BY <1>1
<1> QED BY <1>2, <1>5, <1>6 DEF D, s

LEMMA SameSeq ==
    ASSUME NEW s \in Seq(Nat), NEW t \in Seq(Nat), Len(s) = Len(t), \A i \in 1..Len(s) : s[i] = t[i]
    PROVE  s = t
OBVIOUS

LEMMA ConcatIs ==
    ASSUME NEW s \in Seq(Nat), NEW t \in Seq(Nat), NEW u \in Seq(Nat), Len(u) = Len(s) + Len(t),
           \A i \in 1..Len(s) : u[i] = s[i], \A i \in 1..Len(t) : u[Len(s) + i] = t[i]
    PROVE  s \o t = u
<1>1. s \o t \in Seq(Nat) /\ Len(s \o t) = Len(u) OBVIOUS
<1>2. ASSUME NEW i \in 1..Len(u) PROVE (s \o t)[i] = u[i]
  <2>1. CASE i <= Len(s)
    <3>1. i \in 1..Len(s) BY <2>1
    <3> QED BY <3>1
  <2>2. CASE i > Len(s)
    <3>1. i - Len(s) \in 1..Len(t) /\ Len(s) + (i - Len(s)) = i BY <2>2
    <3>2. u[i] = t[i - Len(s)] BY <3>1
    <3>3. (s \o t)[i] = t[i - Len(s)] BY <2>2
    <3> QED BY <3>2, <3>3
  <2> QED BY <2>1, <2>2
<1> QED BY <1>1, <1>2, SameSeq

LEMMA ConcatFrom ==
    ASSUME NEW a \in Nat \ {0}, NEW n \in Nat, NEW b \in Nat, a <= n + 1, n <= b
    PROVE  From(a, n) \o From(n + 1, b) = From(a, b)
<1> DEFINE s == From(a, n)
           t == From(n + 1, b)
           u == From(a, b)
<1>1. s \in Seq(Nat) /\ Len(s) = n - a + 1 /\ \A i \in 1..(n - a + 1) : s[i] = a + i - 1 BY DEF From
<1>2. t \in Seq(Nat) /\ Len(t) = b - n /\ \A i \in 1..(b - n) : t[i] = n + i BY DEF From
<1>3. u \in Seq(Nat) /\ Len(u) = b - a + 1 /\ \A i \in 1..(b - a + 1) : u[i] = a + i - 1 BY DEF From
<1> HIDE DEF s, t, u
<1>4. /\ Len(u) = Len(s) + Len(t)
      /\ \A i \in 1..Len(s) : u[i] = s[i]
      /\ \A i \in 1..Len(t) : u[Len(s) + i] = t[i]
  <2>1. Len(u) = Len(s) + Len(t) BY <1>1, <1>2, <1>3
  <2>2. ASSUME NEW i \in 1..(n - a + 1) PROVE u[i] = s[i]
    <3>1. i \in 1..(b - a + 1) OBVIOUS
    <3> QED BY <1>1, <1>3, <3>1
  <2>3. ASSUME NEW i \in 1..(b - n) PROVE u[n - a + 1 + i] = t[i]
    <3>1. n - a + 1 + i \in 1..(b - a + 1) /\ a + (n - a + 1 + i) - 1 = n + i OBVIOUS
    <3> QED BY <1>2, <1>3, <3>1
  <2> QED BY <1>1, <1>2, <2>1, <2>2, <2>3
<1> QED BY <1>1, <1>2, <1>3, <1>4, ConcatIs DEF s, t, u

LEMMA SubFrom ==
    ASSUME NEW a \in Nat \ {0}, NEW b \in Nat, a <= b, NEW k \in 1..(b - a + 1)
    PROVE  SubSeq(From(a, b), k, Len(From(a, b))) = From(a + k - 1, b)
<1> DEFINE s == From(a, b)
           u == From(a + k - 1, b)
<1>1. s \in Seq(Nat) /\ Len(s) = b - a + 1 /\ \A i \in 1..(b - a + 1) : s[i] = a + i - 1 BY DEF From
<1>2. /\ u \in Seq(Nat) /\ Len(u) = b - a - k + 2
      /\ \A i \in 1..(b - a - k + 2) : u[i] = a + k + i - 2
  BY DEF From
<1> HIDE DEF s, u
<1>3. SubSeq(s, k, Len(s)) \in Seq(Nat) /\ Len(SubSeq(s, k, Len(s))) = b - a - k + 2 BY <1>1
<1>4. ASSUME NEW i \in 1..(b - a - k + 2) PROVE SubSeq(s, k, Len(s))[i] = u[i]
  <2>1. k + i - 1 \in 1..(b - a + 1) OBVIOUS
  <2>2. SubSeq(s, k, Len(s))[i] = s[k + i - 1] BY <1>1
  <2>3. s[k + i - 1] = a + (k + i - 1) - 1 BY <1>1, <2>1
  <2> QED BY <1>2, <2>2, <2>3
<1> QED BY <1>2, <1>3, <1>4, SameSeq DEF s, u

LEMMA HeadFrom ==
    ASSUME NEW a \in Nat \ {0}, NEW b \in Nat, a <= b
    PROVE  From(a, b) # <<>> /\ Head(From(a, b)) = a /\ HeadOf(From(a, b)) = a
BY DEF From, HeadOf

(* The latest CACHED_TIMELINE events.                                      *)
LEMMA LatestIsSeq ==
    ASSUME NEW T, NEW s \in Seq(T) PROVE Latest(s) \in Seq(T) /\ Len(Latest(s)) <= Cached
BY LimitAssumption DEF Latest

LEMMA LatestFrom ==
    ASSUME NEW a \in Nat \ {0}, NEW b \in Nat, a <= b
    PROVE  \E c \in a..b : Latest(From(a, b)) = From(c, b)
<1> DEFINE n == Len(From(a, b))
           k == IF n > Cached THEN n - Cached + 1 ELSE 1
<1>1. n = b - a + 1 /\ n \in Nat BY DEF From
<1>2. k \in 1..(b - a + 1) /\ a + k - 1 \in a..b BY <1>1, LimitAssumption
<1>3. Latest(From(a, b)) = SubSeq(From(a, b), k, n) BY DEF Latest
<1> HIDE DEF k
<1> QED BY <1>2, <1>3, SubFrom

(* What a connection that was sent up to a is sent up to b: the timeline   *)
(* begins somewhere after a, and is limited if not right after it.         *)
LEMMA DataIs ==
    ASSUME NEW a \in Nat, NEW b \in Nat, a < b
    PROVE  \E c \in (a + 1)..b :
               Data(a, b) = [state |-> (a + 1)..b, timeline |-> From(c, b), limited |-> c > a + 1, token |-> c]
<1> DEFINE c == IF a + Limit < b THEN b - Limit + 1 ELSE a + 1
<1>1. c \in (a + 1)..b BY LimitAssumption
<1>2. Data(a, b) = [state |-> (a + 1)..b, timeline |-> From(c, b), limited |-> c > a + 1, token |-> c]
  BY DEF Data
<1> QED BY <1>1, <1>2

(* What is kept of a room is made of the room's events.                    *)
IsKept(x, n) ==
    /\ IsRoom(x) /\ x.state \subseteq 1..n
    /\ x.timeline \in Seq(1..n) /\ Len(x.timeline) <= Cached
    /\ x.token \in (1..n) \cup {None}

LEMMA NoRoomIsKept == ASSUME NEW n \in Nat PROVE IsKept(NoRoom, n)
BY NoRoomIsEmpty, LimitAssumption DEF IsKept, NoRoom

LEMMA MergedIsKept ==
    ASSUME NEW n \in Nat, NEW x, IsKept(x, n), NEW a \in Nat, NEW b \in Nat, a < b, b <= n
    PROVE  IsKept(Merged(x, Data(a, b)), n)
<1>1. PICK c \in (a + 1)..b :
          Data(a, b) = [state |-> (a + 1)..b, timeline |-> From(c, b), limited |-> c > a + 1, token |-> c]
  BY DataIs
<1> DEFINE d == Data(a, b)
           carries == ~d.limited \/ HeadOf(x.timeline) \in Range(d.timeline)
           timeline == IF carries THEN x.timeline ELSE <<>>
           fresh == Unseen(d.timeline, Range(timeline))
           merged == Latest(timeline \o fresh)
           token == IF HeadOf(merged) = Head(d.timeline) THEN d.token
                    ELSE IF HeadOf(merged) # HeadOf(timeline) THEN None ELSE x.token
<1>2. Merged(x, d) = [state |-> x.state \cup d.state, timeline |-> merged, token |-> token]
  BY DEF Merged
<1>3. c \in Nat \ {0} /\ c <= b + 1 BY <1>1
<1>4. d.timeline \in Seq(1..n) /\ d.state \subseteq 1..n /\ d.token \in 1..n
  <2>1. From(c, b) \in Seq(1..n) BY <1>3, FromIsSeq
  <2>2. (a + 1)..b \subseteq 1..n /\ c \in 1..n BY <1>1
  <2>3. d.timeline = From(c, b) /\ d.state = (a + 1)..b /\ d.token = c BY <1>1
  <2> HIDE DEF d
  <2> QED BY <2>1, <2>2, <2>3
<1>5. timeline \in Seq(1..n)
  <2>1. x.timeline \in Seq(1..n) /\ <<>> \in Seq(1..n) BY DEF IsKept
  <2> HIDE DEF carries
  <2> QED BY <2>1
<1> HIDE DEF d, carries, timeline
<1>6. fresh \in Seq(1..n) BY <1>4, UnseenIsSeq
<1> HIDE DEF fresh
<1>7. timeline \o fresh \in Seq(1..n) BY <1>5, <1>6
<1>8. merged \in Seq(1..n) /\ Len(merged) <= Cached BY <1>7, LatestIsSeq
<1>9. token \in (1..n) \cup {None} BY <1>4 DEF IsKept
<1> HIDE DEF merged, token
<1>10. IsKept([state |-> x.state \cup d.state, timeline |-> merged, token |-> token], n)
  BY <1>4, <1>8, <1>9 DEF IsKept, IsRoom
<1> QED BY <1>2, <1>10 DEF d

(* fromNewestMessage leaves what is kept well-formed, and without a gap.   *)
LEMMA WrittenIsKept ==
    ASSUME NEW n \in Nat, NEW x, IsKept(x, n) PROVE IsKept(FromNewestMessage(x), n)
<1> DEFINE shown == {i \in DOMAIN x.timeline : x.timeline[i] \in Messages}
           k == Largest(shown)
<1>1. CASE shown = {} \/ k = 1 BY <1>1 DEF FromNewestMessage
<1>2. CASE shown # {} /\ k # 1
  <2>1. x.timeline \in Seq(1..n) /\ Len(x.timeline) \in Nat BY DEF IsKept
  <2>2. shown \subseteq 1..Len(x.timeline) BY <2>1
  <2> HIDE DEF shown
  <2>3. k \in 1..Len(x.timeline) BY <1>2, <2>1, <2>2, LargestIs
  <2> HIDE DEF k
  <2> DEFINE t == SubSeq(x.timeline, k, Len(x.timeline))
  <2>4. t \in Seq(1..n) /\ Len(t) <= Cached
    <3>1. t \in Seq(1..n) /\ Len(t) = Len(x.timeline) - k + 1 BY <2>1, <2>3
    <3>2. Len(x.timeline) <= Cached BY DEF IsKept
    <3> HIDE DEF t
    <3> QED BY <2>1, <2>3, <3>1, <3>2, LimitAssumption
  <2>5. FromNewestMessage(x) = [state |-> x.state, token |-> None, timeline |-> t]
    BY <1>2 DEF FromNewestMessage, shown, k
  <2> HIDE DEF t
  <2>6. IsKept([state |-> x.state, token |-> None, timeline |-> t], n) BY <2>4 DEF IsKept, IsRoom
  <2> QED BY <2>5, <2>6
<1> QED BY <1>1, <1>2

(* The events kept of a room are its latest, and the token fits.           *)
EndsIn(x, n) == n \in x.state /\ \A y \in x.state : y <= n
Unbroken(x) ==
    x # NoRoom => \E n \in Nat, h \in Nat \ {0} :
                      /\ EndsIn(x, n) /\ h <= n
                      /\ x.timeline = From(h, n) /\ x.token \in {None, h}

LEMMA UnbrokenIsWhole ==
    ASSUME NEW x, NEW m \in Nat, IsKept(x, m), Unbroken(x) PROVE WholeTimeline(x)
<1> SUFFICES ASSUME x # NoRoom PROVE x.timeline # <<>> /\ x.timeline = From(Head(x.timeline), Largest(x.state))
                                     /\ x.token \in {None, Head(x.timeline)}
  BY DEF WholeTimeline
<1>1. PICK n \in Nat, h \in Nat \ {0} :
          EndsIn(x, n) /\ h <= n /\ x.timeline = From(h, n) /\ x.token \in {None, h}
  BY DEF Unbroken
<1>2. Largest(x.state) = n
  <2>1. x.state \subseteq 1..m /\ x.state # {} BY <1>1 DEF EndsIn, IsKept
  <2>2. Largest(x.state) \in x.state /\ \A y \in x.state : y <= Largest(x.state) BY <2>1, LargestIs
  <2> QED BY <1>1, <2>1, <2>2 DEF EndsIn
<1>3. x.timeline # <<>> /\ Head(x.timeline) = h BY <1>1, HeadFrom
<1> QED BY <1>1, <1>2, <1>3

LEMMA WrittenIsUnbroken ==
    ASSUME NEW x, Unbroken(x) PROVE Unbroken(FromNewestMessage(x))
<1> DEFINE shown == {i \in DOMAIN x.timeline : x.timeline[i] \in Messages}
           k == Largest(shown)
<1>1. CASE shown = {} \/ k = 1 BY <1>1 DEF FromNewestMessage
<1>2. CASE shown # {} /\ k # 1
  <2>1. x # NoRoom BY <1>2 DEF NoRoom
  <2>2. PICK n \in Nat, h \in Nat \ {0} :
            EndsIn(x, n) /\ h <= n /\ x.timeline = From(h, n) /\ x.token \in {None, h}
    BY <2>1 DEF Unbroken
  <2>3. shown \subseteq 1..(n - h + 1) BY <2>2 DEF From
  <2>4. FromNewestMessage(x) =
            [state |-> x.state, token |-> None, timeline |-> SubSeq(x.timeline, k, Len(x.timeline))]
    BY <1>2 DEF FromNewestMessage
  <2> HIDE DEF shown
  <2>5. k \in 1..(n - h + 1)
    <3>1. n - h + 1 \in Nat BY <2>2
    <3> QED BY <1>2, <2>3, <3>1, LargestIs
  <2> HIDE DEF k
  <2>6. SubSeq(x.timeline, k, Len(x.timeline)) = From(h + k - 1, n) BY <2>2, <2>5, SubFrom
  <2>7. h + k - 1 \in Nat \ {0} /\ h + k - 1 <= n BY <2>5
  <2>8. EndsIn(FromNewestMessage(x), n) BY <2>2, <2>4 DEF EndsIn
  <2>9. FromNewestMessage(x).timeline = From(h + k - 1, n) /\ FromNewestMessage(x).token = None
    BY <2>4, <2>6
  <2> QED BY <2>7, <2>8, <2>9 DEF Unbroken
<1> QED BY <1>1, <1>2

(* A response goes on from the events that are kept, unless it sends some  *)
(* from before them once more.                                             *)
LEMMA MergedIsUnbroken ==
    ASSUME NEW m \in Nat, NEW x, IsKept(x, m), Unbroken(x), NEW a \in Nat, NEW b \in Nat, a < b, b <= m,
           \A y \in x.state : y <= b,
           x # NoRoom => \E y \in x.state : a <= y,
           ~ \E i, j \in 1..m : /\ i < j /\ i \notin Range(x.timeline) /\ HeadOf(x.timeline) = j
                                /\ {i, j} \subseteq Range(Data(a, b).timeline)
    PROVE  Unbroken(Merged(x, Data(a, b)))
<1>1. PICK c \in (a + 1)..b :
          Data(a, b) = [state |-> (a + 1)..b, timeline |-> From(c, b), limited |-> c > a + 1, token |-> c]
  BY DataIs
<1> DEFINE d == Data(a, b)
           carries == ~d.limited \/ HeadOf(x.timeline) \in Range(d.timeline)
           timeline == IF carries THEN x.timeline ELSE <<>>
           merged == Latest(timeline \o Unseen(d.timeline, Range(timeline)))
           token == IF HeadOf(merged) = Head(d.timeline) THEN d.token
                    ELSE IF HeadOf(merged) # HeadOf(timeline) THEN None ELSE x.token
<1>2. Merged(x, d) = [state |-> x.state \cup d.state, timeline |-> merged, token |-> token]
  BY DEF Merged
<1>3. c \in Nat \ {0} /\ c <= b + 1 /\ c <= b BY <1>1
<1>4. /\ d.timeline = From(c, b) /\ Head(d.timeline) = c /\ d.token = c /\ d.state = (a + 1)..b
      /\ d.limited = (c > a + 1) /\ Range(d.timeline) = c..b
  <2>1. Head(From(c, b)) = c /\ Range(From(c, b)) = c..b BY <1>3, HeadFrom, FromIsSeq
  <2> QED BY <1>1, <2>1
<1> HIDE DEF d
<1>5. ASSUME NEW h \in Nat \ {0}, h <= c, timeline \o Unseen(d.timeline, Range(timeline)) = From(h, b),
             HeadOf(timeline) # h => timeline = <<>>,
             HeadOf(timeline) = h => x.token \in {None, h}
      PROVE  Unbroken(Merged(x, d))
  <2>1. PICK g \in h..b : merged = From(g, b)
    <3>1. h <= b BY <1>3, <1>5
    <3>2. PICK g \in h..b : Latest(From(h, b)) = From(g, b) BY <3>1, LatestFrom
    <3>3. merged = Latest(From(h, b)) BY <1>5 DEF merged
    <3> QED BY <3>2, <3>3
  <2>2. g \in Nat \ {0} /\ g <= b /\ HeadOf(merged) = g
    <3>1. g \in Nat \ {0} /\ g <= b OBVIOUS
    <3>2. HeadOf(From(g, b)) = g BY <3>1, HeadFrom
    <3> HIDE DEF merged
    <3> QED BY <2>1, <3>1, <3>2
  <2>3. token \in {None, g}
    <3>1. CASE g = c BY <3>1, <1>4, <2>2
    <3>2. CASE g # c /\ g # HeadOf(timeline) BY <3>2, <1>4, <2>2
    <3>3. CASE g # c /\ g = HeadOf(timeline)
      <4>1. g = h
        <5>1. timeline = <<>> => HeadOf(timeline) = None BY DEF HeadOf
        <5>2. g # None BY <2>2, NoneIsNoEvent
        <5> HIDE DEF timeline
        <5> QED BY <3>3, <1>5, <5>1, <5>2
      <4>2. token = x.token BY <3>3, <1>4, <2>2
      <4> QED BY <1>5, <3>3, <4>1, <4>2
    <3> QED BY <3>1, <3>2, <3>3
  <2> HIDE DEF merged, token, timeline
  <2>4. EndsIn(Merged(x, d), b) BY <1>2, <1>4 DEF EndsIn
  <2>5. Merged(x, d).timeline = From(g, b) /\ Merged(x, d).token \in {None, g} BY <1>2, <2>1, <2>3
  <2> QED BY <2>2, <2>4, <2>5 DEF Unbroken
<1>6. CASE timeline = <<>>
  <2>1. Range(<<>>) = {} BY DEF Range
  <2>2. Unseen(From(c, b), {}) = From(c, b)
    <3>1. c - 1 \in Nat /\ c <= c - 1 + 1 /\ c - 1 <= b /\ (c - 1) + 1 = c BY <1>3
    <3>2. \A e \in c..b : e \in {} <=> e <= c - 1 BY <1>3
    <3> QED BY <1>3, <3>1, <3>2, UnseenOfFrom
  <2>3. <<>> \o From(c, b) = From(c, b)
    <3>1. From(c, b) \in Seq(1..b)
      <4>1. b <= b OBVIOUS
      <4> QED BY <1>3, <4>1, FromIsSeq
    <3> QED BY <3>1
  <2>4. HeadOf(timeline) # c BY <1>6, <1>3, NoneIsNoEvent DEF HeadOf
  <2> HIDE DEF timeline
  <2>5. timeline \o Unseen(d.timeline, Range(timeline)) = From(c, b) BY <1>4, <1>6, <2>1, <2>2, <2>3
  <2> QED BY <1>3, <1>5, <1>6, <2>4, <2>5 DEF d
<1>7. CASE timeline # <<>>
  <2>1. carries /\ timeline = x.timeline /\ x # NoRoom BY <1>7 DEF NoRoom
  <2>2. PICK n \in Nat, h \in Nat \ {0} :
            EndsIn(x, n) /\ h <= n /\ x.timeline = From(h, n) /\ x.token \in {None, h}
    BY <2>1 DEF Unbroken
  <2>3. n <= b /\ a <= n
    <3>1. x.state \subseteq 1..m BY DEF IsKept
    <3> QED BY <2>1, <2>2, <3>1 DEF EndsIn
  <2>4. HeadOf(x.timeline) = h /\ Range(x.timeline) = h..n
    <3>1. h <= n + 1 /\ n <= n BY <2>2
    <3> QED BY <2>2, <3>1, HeadFrom, FromIsSeq
  <2>5. h <= c
    <3> SUFFICES ASSUME c < h PROVE FALSE BY <1>3
    <3>1. c \in 1..m /\ h \in 1..m /\ c \notin h..n /\ {c, h} \subseteq c..b BY <1>3, <2>2, <2>3
    <3> QED BY <1>4, <2>4, <3>1 DEF d
  <2>6. c <= n + 1
    <3>1. CASE ~d.limited
      <4>1. ~(c > a + 1)
        <5> HIDE DEF timeline, carries
        <5> QED BY <3>1, <1>4 DEF d
      <4> QED BY <4>1, <1>3, <2>3
    <3>2. CASE HeadOf(x.timeline) \in Range(d.timeline)
      <4>1. h \in c..b BY <3>2, <1>4, <2>4
      <4> QED BY <4>1, <2>2, <1>3
    <3> QED BY <2>1, <3>1, <3>2 DEF carries
  <2>7. Unseen(From(c, b), h..n) = From(n + 1, b)
    <3>1. \A e \in c..b : e \in h..n <=> e <= n BY <1>3, <2>2, <2>5
    <3> QED BY <1>3, <2>2, <2>3, <2>6, <3>1, UnseenOfFrom
  <2>8. From(h, n) \o From(n + 1, b) = From(h, b)
    <3>1. h <= n + 1 BY <2>2
    <3> QED BY <2>2, <2>3, <3>1, ConcatFrom
  <2> HIDE DEF timeline, carries
  <2>9. timeline \o Unseen(d.timeline, Range(timeline)) = From(h, b) BY <1>4, <2>1, <2>2, <2>4, <2>7, <2>8
  <2> QED BY <1>5, <2>1, <2>2, <2>4, <2>5, <2>9 DEF d
<1> QED BY <1>6, <1>7

----------------------------------------------------------------------------
(* Timelines that are kept.  A room's next response goes on from the       *)
(* events that are kept of it, because the connection was sent nothing     *)
(* after them: what is held of a room reaches to where the connection and  *)
(* the position to be stored stand, unless all that can still come of the  *)
(* room is that the reader left it.                                        *)

(* A room with events up to m of which h have happened; spoilt is whether  *)
(* it was sent events from before those kept.                              *)
Sound(x, m, h, spoilt) ==
    /\ IsKept(x, m) /\ (x # NoRoom => x.state # {})
    /\ \A y \in x.state : y <= h
    /\ spoilt \/ Unbroken(x)

AllSound ==
    \A r \in Room : \A x \in {rooms[r], loading[r], stored.rooms[r]} :
        Sound(x, MaxEvents[r], happened[r], r \in again)

Bounds ==
    /\ \A r \in Room : happened[r] <= MaxEvents[r] /\ leave[r] \in {0, happened[r]}
    /\ stored.first \subseteq Kept(stored.rooms)
    /\ phase \in {"closed", "recording", "loading", "loaded"}

Reaches(x, n) == x # NoRoom => \E y \in x.state : n <= y
Stays(r) == leave[r] = 0 \/ (r \in todo /\ response[r] < leave[r])
Upto(x, n) == \A y \in x.state : y <= n

Extents ==
    \A r \in Room :
        /\ Stays(r) => /\ Reaches(Held(r), conn[r])
                       /\ r \notin todo => Reaches(Held(r), response[r])
                       /\ pos # None => Reaches(Held(r), pos[r])
        /\ leave[r] = 0 /\ stored.pos # None => Reaches(stored.rooms[r], stored.pos[r])
        /\ r \in todo => Upto(rooms[r], response[r]) /\ Upto(loading[r], response[r])

Whole == AllSound /\ Bounds /\ Extents

LEMMA NoRoomIsSound == ASSUME NEW m \in Nat, NEW h, NEW spoilt PROVE Sound(NoRoom, m, h, spoilt)
BY NoRoomIsEmpty, NoRoomIsKept DEF Sound, Unbroken

(* More may happen, and more rooms may be sent old events again.           *)
LEMMA SoundStays ==
    ASSUME NEW x, NEW m \in Nat, NEW h \in Nat, NEW i \in Nat, h <= i, NEW r, NEW S, NEW T,
           r \in S => r \in T, Sound(x, m, h, r \in S)
    PROVE  Sound(x, m, i, r \in T)
<1>1. \A y \in x.state : y \in Nat BY DEF Sound, IsKept
<1> QED BY <1>1 DEF Sound

LEMMA SoundReaches ==
    ASSUME NEW x, NEW m, NEW h, NEW s, Sound(x, m, h, s) PROVE Reaches(x, 0)
BY DEF Sound, IsKept, Reaches

LEMMA WrittenIsSound ==
    ASSUME NEW x, NEW m \in Nat, NEW h, NEW s, Sound(x, m, h, s)
    PROVE  /\ Sound(FromNewestMessage(x), m, h, s)
           /\ x # NoRoom => FromNewestMessage(x) # NoRoom
<1>1. IsKept(FromNewestMessage(x), m) /\ FromNewestMessage(x).state = x.state
  BY WrittenIsKept, WrittenState DEF Sound, IsKept
<1>2. FromNewestMessage(NoRoom) = NoRoom BY DEF FromNewestMessage, NoRoom
<1>3. s \/ Unbroken(FromNewestMessage(x)) BY WrittenIsUnbroken DEF Sound
<1>4. x # NoRoom => FromNewestMessage(x) # NoRoom
  BY <1>1, NoRoomIsEmpty DEF Sound
<1> QED BY <1>1, <1>2, <1>3, <1>4 DEF Sound

(* The steps.                                                              *)
LEMMA WholeStays ==
    ASSUME UNCHANGED <<happened, leave, stored, loading, rooms, pos, conn, response, todo, again>>,
           phase' \in {"closed", "recording", "loading", "loaded"}, Whole
    PROVE  Whole'
BY DEF Whole, AllSound, Bounds, Extents, Stays, Held

LEMMA HappensKeepsWhole == ASSUME Frame, Whole, NEW q \in Room, Happens(q) PROVE Whole'
<1>1. /\ UNCHANGED <<stored, rooms, loading, pos, conn, response, todo, phase, again>>
      /\ leave[q] = 0 /\ happened[q] < MaxEvents[q]
      /\ happened' = [happened EXCEPT ![q] = @ + 1]
      /\ leave' \in {leave, [leave EXCEPT ![q] = happened[q] + 1]}
  BY DEF Happens, session
<1>2. \A r \in Room : happened[r] \in Nat /\ MaxEvents[r] \in Nat
  BY BoundAssumption DEF Frame, Shape, Positions
<1>3. /\ happened'[q] = happened[q] + 1 /\ leave'[q] \in {0, happened[q] + 1}
      /\ \A r \in Room \ {q} : happened'[r] = happened[r] /\ leave'[r] = leave[r]
  BY <1>1 DEF Frame, Shape, Positions
<1>4. \A r \in Room : happened'[r] \in Nat /\ happened[r] <= happened'[r] BY <1>2, <1>3
<1>5. AllSound'
  <2> SUFFICES ASSUME NEW r \in Room, NEW x \in {rooms'[r], loading'[r], stored'.rooms[r]}
               PROVE  Sound(x, MaxEvents[r], happened'[r], r \in again')
    BY DEF AllSound
  <2>1. Sound(x, MaxEvents[r], happened[r], r \in again) BY <1>1 DEF Whole, AllSound
  <2>2. r \in again => r \in again' BY <1>1
  <2> QED BY <1>2, <1>4, <2>1, <2>2, SoundStays
<1>6. Bounds' BY <1>1, <1>2, <1>3 DEF Whole, Bounds
<1>7. Extents' BY <1>1, <1>3 DEF Whole, Extents, Stays, Held
<1> QED BY <1>5, <1>6, <1>7 DEF Whole

LEMMA LoadFirstKeepsWhole == ASSUME Frame, Whole, LoadFirst PROVE Whole'
<1>1. /\ UNCHANGED <<happened, leave, stored, todo, again>> /\ todo = {}
      /\ phase' = "loading"
      /\ rooms' = Part(stored.rooms, stored.first) /\ loading' = Part(stored.rooms, Room \ stored.first)
      /\ pos' = stored.pos /\ response' = conn'
      /\ conn' = IF stored.pos = None THEN Fresh ELSE stored.pos
  BY DEF LoadFirst, server, Frame, Phases, Live
<1>2. \A r \in Room : rooms'[r] \in {stored.rooms[r], NoRoom} /\ loading'[r] \in {stored.rooms[r], NoRoom}
  BY <1>1 DEF Part
<1>3. \A r \in Room : Held(r)' = stored.rooms[r] BY <1>1 DEF Held, Part
<1>4. \A r \in Room : Sound(stored.rooms[r], MaxEvents[r], happened[r], r \in again)
  BY DEF Whole, AllSound
<1>5. \A r \in Room : Sound(NoRoom, MaxEvents[r], happened[r], r \in again)
  BY NoRoomIsSound, BoundAssumption
<1>6. AllSound' BY <1>1, <1>2, <1>4, <1>5 DEF AllSound
<1>7. Bounds' BY <1>1 DEF Whole, Bounds
<1>8. \A r \in Room : Reaches(stored.rooms[r], 0) BY <1>4, SoundReaches
<1>9. Extents' BY <1>1, <1>3, <1>8 DEF Whole, Extents, Stays, Fresh
<1> QED BY <1>6, <1>7, <1>9 DEF Whole

LEMMA LoadRestKeepsWhole == ASSUME Frame, Whole, LoadRest PROVE Whole'
<1>1. /\ UNCHANGED <<happened, leave, stored, pos, conn, response, todo, again>>
      /\ phase' = "loaded" /\ loading' = NoRooms
      /\ rooms' = [r \in Room |-> Held(r)]
  BY DEF LoadRest, server, Held
<1>2. \A r \in Room : rooms'[r] \in {rooms[r], loading[r]} /\ loading'[r] = NoRoom
  BY <1>1 DEF Held, NoRooms
<1>3. \A r \in Room : Held(r)' = Held(r) BY <1>1 DEF Held, NoRooms
<1>4. \A r \in Room : Sound(NoRoom, MaxEvents[r], happened[r], r \in again)
  BY NoRoomIsSound, BoundAssumption
<1>5. AllSound' BY <1>1, <1>2, <1>4 DEF Whole, AllSound
<1>6. Bounds' BY <1>1 DEF Whole, Bounds
<1>7. Extents' BY <1>1, <1>2, <1>3, NoRoomIsEmpty DEF Whole, Extents, Stays, Upto
<1> QED BY <1>5, <1>6, <1>7 DEF Whole

LEMMA RespondKeepsWhole == ASSUME Frame, Whole, NEW R \in SUBSET Room, Respond(R) PROVE Whole'
<1>1. /\ UNCHANGED <<happened, leave, stored, phase, loading, rooms, pos, conn, again>>
      /\ response = conn /\ todo' = R
      /\ response' = [r \in Room |-> IF r \in R THEN happened[r] ELSE conn[r]]
  BY DEF Respond, server, Idle
<1>2. AllSound' BY <1>1 DEF Whole, AllSound
<1>3. Bounds' BY <1>1 DEF Whole, Bounds
<1>4. \A r \in Room : Stays(r)' => leave[r] = 0
  BY <1>1 DEF Stays, Whole, Bounds, Frame, Shape, Positions
<1>5. \A r \in Room : Upto(rooms[r], happened[r]) /\ Upto(loading[r], happened[r])
  BY DEF Whole, AllSound, Sound, Upto
<1>6. Extents' BY <1>1, <1>4, <1>5 DEF Whole, Extents, Stays, Held
<1> QED BY <1>2, <1>3, <1>6 DEF Whole

LEMMA CompleteKeepsWhole == ASSUME Frame, Whole, Complete PROVE Whole'
<1>1. /\ UNCHANGED <<happened, leave, stored, phase, loading, rooms, response, todo, again>>
      /\ todo = {} /\ conn' = response /\ pos' = response
  BY DEF Complete, server
<1>2. AllSound' BY <1>1 DEF Whole, AllSound
<1>3. Bounds' BY <1>1 DEF Whole, Bounds
<1>4. Extents' BY <1>1 DEF Whole, Extents, Stays, Held
<1> QED BY <1>2, <1>3, <1>4 DEF Whole

LEMMA ExpireKeepsWhole == ASSUME Frame, Whole, Expire PROVE Whole'
<1>1. /\ UNCHANGED <<happened, leave, stored, phase, loading, rooms, pos, todo, again>>
      /\ response = conn /\ conn' = Fresh /\ response' = Fresh
  BY DEF Expire, server, Idle
<1>2. todo = {} BY <1>1 DEF Frame, Ordered, Shape, Positions
<1>3. AllSound' BY <1>1 DEF Whole, AllSound
<1>4. Bounds' BY <1>1 DEF Whole, Bounds
<1>5. \A r \in Room : Reaches(Held(r), 0)
  BY SoundReaches DEF Whole, AllSound, Held
<1>6. Extents' BY <1>1, <1>2, <1>5 DEF Whole, Extents, Stays, Held, Fresh
<1> QED BY <1>3, <1>4, <1>6 DEF Whole

LEMMA EndedKeepsWhole == ASSUME Frame, Whole, Ended PROVE Whole'
<1>1. /\ UNCHANGED <<happened, leave, stored, again>>
      /\ phase' = "closed" /\ loading' = NoRooms /\ rooms' = NoRooms /\ pos' = None
      /\ conn' = Fresh /\ response' = Fresh /\ todo' = {}
  BY DEF Ended, server
<1>2. \A r \in Room : rooms'[r] = NoRoom /\ loading'[r] = NoRoom BY <1>1 DEF NoRooms
<1>3. \A r \in Room : Sound(NoRoom, MaxEvents[r], happened[r], r \in again)
  BY NoRoomIsSound, BoundAssumption
<1>4. AllSound' BY <1>1, <1>2, <1>3 DEF Whole, AllSound
<1>5. Bounds' BY <1>1 DEF Whole, Bounds
<1>6. Extents' BY <1>1, <1>2 DEF Whole, Extents, Stays, Held, Reaches
<1> QED BY <1>4, <1>5, <1>6 DEF Whole

LEMMA SaveKeepsWhole == ASSUME Frame, Whole, Save PROVE Whole'
<1>1. UNCHANGED <<happened, leave, phase, loading, rooms, pos, conn, response, todo, again>>
  BY DEF Save, server
<1>2. PICK S \in SUBSET Kept(rooms) : stored' = Snapshot(S) BY DEF Save
<1>3. /\ \A r \in Room : stored'.rooms[r] = FromNewestMessage(rooms[r])
      /\ stored'.first = S
      /\ stored'.pos # None => stored'.pos = pos
  BY <1>2 DEF Snapshot
<1>4. \A r \in Room : MaxEvents[r] \in Nat /\ Sound(rooms[r], MaxEvents[r], happened[r], r \in again)
  BY BoundAssumption DEF Whole, AllSound
<1>5. \A r \in Room : /\ Sound(stored'.rooms[r], MaxEvents[r], happened[r], r \in again)
                      /\ rooms[r] # NoRoom => stored'.rooms[r] # NoRoom
  BY <1>3, <1>4, WrittenIsSound
<1>6. AllSound' BY <1>1, <1>5 DEF Whole, AllSound
<1>7. Bounds' BY <1>1, <1>2, <1>3, <1>5 DEF Whole, Bounds, Kept
<1>8. ASSUME NEW r \in Room, leave[r] = 0, stored'.pos # None PROVE Reaches(stored'.rooms[r], pos[r])
  <2>1. pos # None /\ Stays(r) BY <1>3, <1>8 DEF Stays
  <2>2. Reaches(Held(r), pos[r]) BY <2>1 DEF Whole, Extents
  <2>3. CASE rooms[r] = NoRoom
    <3>1. FromNewestMessage(NoRoom) = NoRoom BY DEF FromNewestMessage, NoRoom
    <3> QED BY <1>3, <2>3, <3>1 DEF Reaches
  <2>4. CASE rooms[r] # NoRoom
    <3>1. stored'.rooms[r].state = rooms[r].state BY <1>3, WrittenState DEF Frame, Shape, AreRooms
    <3> QED BY <2>2, <2>4, <3>1 DEF Reaches, Held
  <2> QED BY <2>3, <2>4
<1>9. Extents' BY <1>1, <1>3, <1>8 DEF Whole, Extents, Stays, Held
<1> QED BY <1>6, <1>7, <1>9 DEF Whole

LEMMA TakeRoomKeepsWhole == ASSUME Frame, Whole, NEW q \in Room, TakeRoom(q) PROVE Whole'
<1> DEFINE a == conn[q]
           b == response[q]
           new == IF Leaves(q) THEN NoRoom ELSE Merged(rooms[q], Data(a, b))
<1>1. /\ UNCHANGED <<happened, leave, stored, phase, loading, pos, conn, response>>
      /\ q \in todo /\ todo' = todo \ {q} /\ rooms' = [rooms EXCEPT ![q] = new]
      /\ again' = IF SentAgain(q) THEN again \cup {q} ELSE again
  BY DEF TakeRoom, server
<1>2. rooms' = [r \in Room |-> IF r = q THEN new ELSE rooms[r]]
  BY <1>1 DEF Frame, Shape, AreRooms
<1>3. /\ a \in Nat /\ b \in Nat /\ a < b /\ b <= happened[q] /\ happened[q] \in Nat
      /\ pos # None => pos[q] \in Nat /\ pos[q] <= b
      /\ MaxEvents[q] \in Nat /\ happened[q] <= MaxEvents[q] /\ leave[q] \in {0, happened[q]}
  BY <1>1, BoundAssumption DEF Frame, Ordered, Shape, Positions, Whole, Bounds
<1>4. /\ Sound(rooms[q], MaxEvents[q], happened[q], q \in again) /\ Upto(rooms[q], b)
  BY <1>1 DEF Whole, AllSound, Extents
<1>5. ASSUME ~Leaves(q) PROVE new = Merged(rooms[q], Data(a, b)) /\ new.state = rooms[q].state \cup ((a + 1)..b)
                              /\ new # NoRoom /\ b \in new.state
  <2>1. new = Merged(rooms[q], Data(a, b)) BY <1>5
  <2>2. new.state = rooms[q].state \cup ((a + 1)..b)
    <3>1. a \in Nat /\ b \in Nat BY <1>3
    <3> HIDE DEF a, b
    <3>2. Merged(rooms[q], Data(a, b)).state = rooms[q].state \cup ((a + 1)..b) BY <3>1, MergedState
    <3> HIDE DEF new
    <3> QED BY <2>1, <3>2
  <2> HIDE DEF new
  <2>3. b \in new.state BY <1>3, <2>2
  <2>4. new # NoRoom BY <2>3, NoRoomIsEmpty
  <2> QED BY <2>1, <2>2, <2>3, <2>4
<1>6. Sound(new, MaxEvents[q], happened[q], q \in again')
  <2>1. CASE Leaves(q) BY <2>1, <1>3, NoRoomIsSound
  <2>2. CASE ~Leaves(q)
    <3>1. IsKept(new, MaxEvents[q])
      <4>1. IsKept(rooms[q], MaxEvents[q]) /\ b <= MaxEvents[q] BY <1>3, <1>4 DEF Sound
      <4>2. IsKept(Merged(rooms[q], Data(a, b)), MaxEvents[q]) BY <1>3, <4>1, MergedIsKept
      <4> QED BY <4>2, <1>5, <2>2
    <3>2. \A y \in new.state : y <= happened[q]
      <4> HIDE DEF new
      <4> QED BY <1>3, <1>4, <1>5, <2>2 DEF Sound
    <3>3. ASSUME q \notin again' PROVE Unbroken(new)
      <4>1. q \notin again /\ ~SentAgain(q) BY <1>1, <3>3
      <4>2. IsKept(rooms[q], MaxEvents[q]) /\ Unbroken(rooms[q]) /\ b <= MaxEvents[q]
        BY <1>3, <1>4, <4>1 DEF Sound
      <4>3. Stays(q) BY <1>1, <1>3, <2>2 DEF Stays, Leaves
      <4>4. rooms[q] # NoRoom => \E y \in rooms[q].state : a <= y
        BY <4>3 DEF Whole, Extents, Reaches, Held
      <4>5. \A y \in rooms[q].state : y <= b BY <1>4 DEF Upto
      <4>6. ~ \E i, j \in 1..MaxEvents[q] :
                  /\ i < j /\ i \notin Range(rooms[q].timeline) /\ HeadOf(rooms[q].timeline) = j
                  /\ {i, j} \subseteq Range(Data(a, b).timeline)
        BY <4>1 DEF SentAgain, Event
      <4> HIDE DEF a, b
      <4>7. Unbroken(Merged(rooms[q], Data(a, b)))
        BY <1>3, <4>2, <4>4, <4>5, <4>6, MergedIsUnbroken
      <4> QED BY <4>7, <1>5, <2>2
    <3> HIDE DEF new
    <3> QED BY <1>5, <2>2, <3>1, <3>2, <3>3 DEF Sound
  <2> QED BY <2>1, <2>2
<1> HIDE DEF new
<1>7. AllSound'
  <2> SUFFICES ASSUME NEW r \in Room, NEW x \in {rooms'[r], loading'[r], stored'.rooms[r]}
               PROVE  Sound(x, MaxEvents[r], happened'[r], r \in again')
    BY DEF AllSound
  <2>1. CASE r = q /\ x = new BY <1>1, <1>6, <2>1
  <2>2. CASE ~(r = q /\ x = new)
    <3>1. x \in {rooms[r], loading[r], stored.rooms[r]} BY <1>1, <1>2, <2>2
    <3>2. Sound(x, MaxEvents[r], happened[r], r \in again) BY <3>1 DEF Whole, AllSound
    <3>3. /\ r \in again => r \in again'
          /\ MaxEvents[r] \in Nat /\ happened[r] \in Nat /\ happened[r] <= happened[r]
      BY <1>1, BoundAssumption DEF Frame, Shape, Positions
    <3>4. Sound(x, MaxEvents[r], happened[r], r \in again') BY <3>2, <3>3, SoundStays
    <3> QED BY <1>1, <3>4
  <2> QED BY <2>1, <2>2
<1>8. Bounds' BY <1>1 DEF Whole, Bounds
<1>9. Extents'
  <2> SUFFICES ASSUME NEW r \in Room
               PROVE  /\ Stays(r)' => /\ Reaches(Held(r)', conn'[r])
                                      /\ r \notin todo' => Reaches(Held(r)', response'[r])
                                      /\ pos' # None => Reaches(Held(r)', pos'[r])
                      /\ leave'[r] = 0 /\ stored'.pos # None => Reaches(stored'.rooms[r], stored'.pos[r])
                      /\ r \in todo' => Upto(rooms'[r], response'[r]) /\ Upto(loading'[r], response'[r])
    BY DEF Extents
  <2>1. CASE r # q
    <3>1. Held(r)' = Held(r) /\ rooms'[r] = rooms[r] BY <1>1, <1>2, <2>1 DEF Held
    <3> QED BY <1>1, <2>1, <3>1 DEF Whole, Extents, Stays
  <2>2. CASE r = q
    <3>1. ASSUME Stays(q)' PROVE /\ Reaches(Held(q)', a) /\ Reaches(Held(q)', b)
                                 /\ pos # None => Reaches(Held(q)', pos[q])
      <4>1. ~Leaves(q) BY <1>1, <3>1 DEF Stays, Leaves
      <4>2. Held(q)' = new BY <1>2, <1>5, <4>1 DEF Held
      <4>3. b \in new.state BY <1>5, <4>1
      <4>4. \A n \in Nat : n <= b => Reaches(new, n) BY <4>3 DEF Reaches
      <4> HIDE DEF a, b
      <4> QED BY <1>3, <4>2, <4>4
    <3>2. q \notin todo' BY <1>1
    <3> QED BY <1>1, <2>2, <3>1, <3>2 DEF Whole, Extents
  <2> QED BY <2>1, <2>2
<1> QED BY <1>7, <1>8, <1>9 DEF Whole

(* The invariant holds at first and is kept.                               *)
LEMMA InitIsWhole == Init => Frame /\ Whole
<1> SUFFICES ASSUME Init PROVE Frame /\ Whole OBVIOUS
<1>1. Frame BY Initially DEF Inv
<1>2. \A r \in Room : /\ rooms[r] = NoRoom /\ loading[r] = NoRoom /\ stored.rooms[r] = NoRoom
                      /\ happened[r] = 0 /\ leave[r] = 0 /\ MaxEvents[r] \in Nat
  BY BoundAssumption DEF Init, NoRooms, Fresh
<1>3. \A r \in Room : Sound(NoRoom, MaxEvents[r], happened[r], r \in again) BY <1>2, NoRoomIsSound
<1>4. AllSound BY <1>2, <1>3 DEF AllSound
<1>5. Bounds BY <1>2 DEF Bounds, Init
<1>6. Extents BY <1>2 DEF Extents, Held, Reaches, Init
<1> QED BY <1>1, <1>4, <1>5, <1>6 DEF Whole

LEMMA NextKeepsWhole == Frame /\ Whole /\ [Next]_vars => Frame' /\ Whole'
<1> SUFFICES ASSUME Frame, Whole, [Next]_vars PROVE Frame' /\ Whole' OBVIOUS
<1>1. CASE LoadFirst BY <1>1, LoadFirstFrames, LoadFirstKeepsWhole
<1>2. CASE LoadRest BY <1>2, LoadRestFrames, LoadRestKeepsWhole
<1>3. CASE \E R \in SUBSET Room : Respond(R) BY <1>3, RespondFrames, RespondKeepsWhole
<1>4. CASE \E r \in Room : TakeRoom(r) BY <1>4, TakeRoomFrames, TakeRoomKeepsWhole
<1>5. CASE Complete BY <1>5, CompleteFrames, CompleteKeepsWhole
<1>6. CASE SaveTimer \/ OnHide BY <1>6, SaveFrames, SaveKeepsWhole DEF SaveTimer, OnHide
<1>7. CASE Open
  <2>1. Whole' BY <1>7, WholeStays DEF Open, server
  <2> QED BY <1>7, <2>1, OpenFrames
<1>8. CASE Expire BY <1>8, ExpireFrames, ExpireKeepsWhole
<1>9. CASE Close \/ Crash BY <1>9, EndedFrames, EndedKeepsWhole DEF Close, Crash
<1>10. CASE \E r \in Room : Happens(r) BY <1>10, HappensFrames, HappensKeepsWhole
<1>11. CASE UNCHANGED vars
  <2>1. UNCHANGED <<happened, leave, stored, phase, loading, rooms, pos, conn, response, todo, again>>
    BY <1>11 DEF vars, server, session
  <2>2. Frame' BY <2>1 DEF Frame, Shape, AreRooms, Phases, Live, Ordered
  <2>3. phase' \in {"closed", "recording", "loading", "loaded"} BY <2>1 DEF Whole, Bounds
  <2> QED BY <2>1, <2>2, <2>3, WholeStays
<1> QED BY <1>1, <1>2, <1>3, <1>4, <1>5, <1>6, <1>7, <1>8, <1>9, <1>10, <1>11 DEF Next, Steps

(* Every position is one of the rooms' events, and what is kept of a room  *)
(* is made of its events, no more of them than CACHED_TIMELINE: whether or *)
(* not the page is hidden between the two halves.                          *)
THEOREM TypeCorrect == Spec => []TypeOK
<1>1. Frame /\ Whole => TypeOK
  <2> SUFFICES ASSUME Frame, Whole PROVE TypeOK OBVIOUS
  <2>1. ASSUME NEW p \in Positions, \A r \in Room : p[r] <= happened[r] PROVE IsPosition(p)
    BY <2>1, BoundAssumption DEF IsPosition, Positions, Whole, Bounds, Frame, Shape
  <2>2. \A p \in {happened, leave, conn, response} : IsPosition(p)
    <3>1. \A r \in Room : /\ happened[r] <= happened[r] /\ leave[r] <= happened[r]
                          /\ conn[r] <= happened[r] /\ response[r] <= happened[r]
      BY DEF Frame, Shape, Positions, Ordered, Whole, Bounds
    <3> QED BY <2>1, <3>1 DEF Frame, Shape
  <2>3. \A p \in {stored.pos, pos} : p # None => IsPosition(p)
    BY <2>1 DEF Frame, Shape, Ordered
  <2>4. ASSUME NEW m \in Nat, NEW x, IsKept(x, m)
        PROVE  /\ x.state \subseteq 1..m /\ x.token \in (1..m) \cup {None}
               /\ Len(x.timeline) <= Cached /\ Range(x.timeline) \subseteq 1..m
    BY <2>4 DEF IsKept, Range
  <2>5. \A rs \in {stored.rooms, loading, rooms}, r \in Room :
            /\ rs[r].state \subseteq Event(r) /\ rs[r].token \in Event(r) \cup {None}
            /\ Len(rs[r].timeline) <= Cached /\ Range(rs[r].timeline) \subseteq Event(r)
    <3> SUFFICES ASSUME NEW rs \in {stored.rooms, loading, rooms}, NEW r \in Room
                 PROVE  /\ rs[r].state \subseteq Event(r) /\ rs[r].token \in Event(r) \cup {None}
                        /\ Len(rs[r].timeline) <= Cached /\ Range(rs[r].timeline) \subseteq Event(r)
      OBVIOUS
    <3>1. MaxEvents[r] \in Nat /\ IsKept(rs[r], MaxEvents[r])
      BY BoundAssumption DEF Whole, AllSound, Sound
    <3> QED BY <2>4, <3>1 DEF Event
  <2> QED BY <2>2, <2>3, <2>5 DEF TypeOK, Whole, Bounds, Frame, Shape
<1> QED BY <1>1, InitIsWhole, NextKeepsWhole, PTL DEF Spec

(* The events kept of a room are its latest, in order and without a gap,   *)
(* and its token leads back from the earliest of them, in memory and in    *)
(* the database, for any rooms, events and limits; only of a room that was *)
(* sent events from before those kept of it this is not said.              *)
THEOREM KeptStaysWhole == Spec => []KeptIsWhole
<1>1. Frame /\ Whole => KeptIsWhole
  <2> SUFFICES ASSUME Frame, Whole, NEW r \in Room, r \notin again
               PROVE  WholeTimeline(rooms[r]) /\ WholeTimeline(stored.rooms[r])
    BY DEF KeptIsWhole
  <2>1. \A x \in {rooms[r], stored.rooms[r]} : IsKept(x, MaxEvents[r]) /\ Unbroken(x)
    BY DEF Whole, AllSound, Sound
  <2> QED BY <2>1, BoundAssumption, UnbrokenIsWhole
<1> QED BY <1>1, InitIsWhole, NextKeepsWhole, PTL DEF Spec
=============================================================================

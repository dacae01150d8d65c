---------------------------- MODULE AddressBook ----------------------------
(***************************************************************************)
(* The reader's contacts, and their move out of two account data events    *)
(* (the old events) into a room of their own:                              *)
(* apps/web/src/utils/contacts/addressBook.ts and moveAddressBook.ts.      *)
(*                                                                         *)
(* One session at a time runs one move, and beside it saves, which no lock *)
(* keeps apart, and what is left of sendWrites that threw: its workers go  *)
(* on.  Saves and these strays are the jobs.  A session may die, and a     *)
(* request may throw, at any point; a client from before the room writes   *)
(* the old events whenever it likes.  Cards are numbered in the order they *)
(* are asked for, so a card's earlier versions are smaller numbers.  A     *)
(* request is one step, with its effect.                                   *)
(***************************************************************************)
EXTENDS Naturals, FiniteSets

CONSTANTS
    Id,         \* what a card is found under: Matrix IDs and vcard:... keys
    None,       \* undefined
    Job,        \* bound: the saves and strays that there are at a time
    Ref,        \* bound: the books that jobs share; one more than Job is enough
    NoRef,      \* no book
    MaxVersion, \* bound: what is ever asked for, cards and deletions
    MaxRooms,   \* bound: the rooms that are ever created
    MaxLeaves,  \* bound: how often the reader leaves a room
    MaxFaults   \* bound: crashes and failed requests

ASSUME IdAssumption == None \notin Id
ASSUME RefAssumption == NoRef \notin Ref
ASSUME BoundAssumption ==
    MaxVersion \in Nat /\ MaxRooms \in Nat /\ MaxLeaves \in Nat /\ MaxFaults \in Nat
ASSUME NoneIsNoVersion == None \notin Nat
ASSUME NoneIsNoContent ==
    \A c \in [Id -> (1..MaxVersion) \cup {None}], p \in [Id -> SUBSET (1..MaxVersion)] :
        None # [card |-> c, past |-> p]

VARIABLES
    cards,    \* im.mxg.contact_cards: the old events' card by id
    past,     \* im.mxg.contact_history: the earlier versions by id
    pointer,  \* im.mxg.contacts_room: the room, whether it is pending, and moved_hash
    rooms,    \* the state of each room that was created
    left,     \* the rooms that the reader has left
    made,     \* how many rooms were created
    at,       \* the request that the move waits for, "idle" without one
    taken,    \* the old events as the move has read them
    scratch,  \* fromScratch of the move
    book,     \* the book that is moved to
    writes,   \* what the move has still to send
    due,      \* whether the timer of moveWhenReady has still to fire
    cleared,  \* legacyCleared
    jobs,     \* the saves, and what is left of the writes of a failed one
    books,    \* the books that jobs write to, several of them to the same one
    held,     \* heldBy(client).book
    meddled,  \* whether a job has written since the move began
    checked,  \* whether nothing has written since a move that wrote alone was verified
    watched,  \* of a save: whether it alone has written since its plan, and what was read then
    next,     \* the next version
    faults    \* crashes and failures so far

server == <<cards, past, pointer, rooms, left, made>>
move == <<at, taken, scratch, book, writes>>
shared == <<jobs, books, held>>
ghosts == <<meddled, checked, watched>>
vars == <<server, move, due, cleared, shared, ghosts, next, faults>>

Version == 1..MaxVersion
Room == 1..MaxRooms
Card == Version \cup {None}

(* Some member of a set: the code takes the first in the order of the keys. *)
First(S) == CHOOSE x \in S : TRUE

NoCards == [i \in Id |-> None]
NoPast == [i \in Id |-> {}]
NothingOld == [card |-> NoCards, past |-> NoPast]
EmptyRoom == [card |-> NoCards, alias |-> NoCards]
NoBook == [room |-> 0, card |-> NoCards, alias |-> NoCards]
NoWrites == [card |-> NoPast, alias |-> NoPast]
NoJob == [at |-> "free", ids |-> {}, card |-> None, room |-> 0, on |-> NoRef,
          writes |-> NoWrites, plan |-> NoWrites]
Unwatched == [alone |-> FALSE, before |-> NoCards, touches |-> {}, unsure |-> {}]

BookOf(r) == [room |-> r, card |-> rooms[r].card, alias |-> rooms[r].alias]

(* Every card by every id it is found under.                               *)
ViewOf(b) == [i \in Id |->
    IF b.card[i] # None THEN b.card[i]
    ELSE IF b.alias[i] # None THEN b.card[b.alias[i]] ELSE None]

(* The room that reads use, and what a reader finds.                       *)
Final == pointer.room # 0 /\ ~pointer.pending
MutReads == IF pointer.room # 0 THEN ViewOf(rooms[pointer.room]) ELSE cards
Reads == IF Final THEN ViewOf(rooms[pointer.room]) ELSE cards

OldEvents == [card |-> cards, past |-> past]
Legacy == IF cleared THEN NothingOld ELSE OldEvents
HasLegacy == Legacy # NothingOld

----------------------------------------------------------------------------
(* What to write.  A queue of writes to one state key is a set: versions   *)
(* are sent in their order, and None clears the key.                       *)

Held(b, S) == {i \in S : b.card[i] # None}

(* The id whose card a group of ids shares: one that has a card already.   *)
Canonical(b, S) == IF Held(b, S) # {} THEN First(Held(b, S)) ELSE First(S)

Clear(old) == IF old # None THEN {None} ELSE {}

(* move: one card for the ids with equal cards, with their history if the  *)
(* room has none of them, and what is left over cleared away.              *)
MutMovePlan(t, b, fromScratch) ==
    LET Group(i) == {j \in Id : t.card[j] = t.card[i]}
        Main(i) == First(Group(i))
    IN [card |-> [i \in Id |->
            IF t.card[i] = None THEN IF fromScratch THEN Clear(b.card[i]) ELSE {}
            ELSE IF i = Main(i) THEN {t.card[i]} ELSE {}],
        alias |-> [i \in Id |->
            IF t.card[i] # None /\ i # Main(i) /\ b.alias[i] # Main(i) THEN {Main(i)} ELSE {}]]
MovePlan(t, b, fromScratch) ==
    LET Group(i) == {j \in Id : t.card[j] = t.card[i]}
        Main(i) == Canonical(b, Group(i))
        Remembered(i) == {j \in Group(i) : t.past[j] # {}}
        PastOf(i) == IF Remembered(i) = {} THEN {} ELSE t.past[First(Remembered(i))]
    IN [card |-> [i \in Id |->
            IF t.card[i] = None THEN IF fromScratch THEN Clear(b.card[i]) ELSE {}
            ELSE IF i # Main(i) THEN Clear(b.card[i])
            ELSE IF b.card[i] = None THEN PastOf(i) \cup {t.card[i]}
            ELSE IF b.card[i] # t.card[i] THEN {t.card[i]} ELSE {}],
        alias |-> [i \in Id |->
            IF t.card[i] = None THEN IF fromScratch THEN Clear(b.alias[i]) ELSE {}
            ELSE IF i # Main(i) /\ b.alias[i] # Main(i) THEN {Main(i)} ELSE {}]]

(* planSave: every one of ids says c, and each of the others that shares a *)
(* card with them keeps it, under the first of them.                       *)
Sharers(b, ids, i) == {x \in Id \ ids : b.alias[x] = i}
MutPlanSave(b, ids, c) ==
    LET main == Canonical(b, ids)
    IN [card |-> [x \in Id |->
            IF x \notin ids THEN {}
            ELSE IF c = None \/ x # main THEN Clear(b.card[x])
            ELSE IF b.card[x] # c THEN {c} ELSE {}],
        alias |-> [x \in Id |->
            IF x \notin ids THEN {}
            ELSE IF c = None \/ x = main THEN Clear(b.alias[x])
            ELSE IF b.alias[x] # main THEN {main} ELSE {}]]
PlanSave(b, ids, c) ==
    LET main == Canonical(b, ids)
        Heir(i) == First(Sharers(b, ids, i))
        Loses(x) == b.alias[x] \in Held(b, ids)
        Inherits(x) == Loses(x) /\ x = Heir(b.alias[x])
    IN [card |-> [x \in Id |->
            IF x \notin ids THEN IF Inherits(x) THEN {b.card[b.alias[x]]} ELSE {}
            ELSE IF c = None \/ x # main THEN Clear(b.card[x])
            ELSE IF b.card[x] # c THEN {c} ELSE {}],
        alias |-> [x \in Id |->
            IF x \notin ids
            THEN IF Inherits(x) THEN {None} ELSE IF Loses(x) THEN {Heir(b.alias[x])} ELSE {}
            ELSE IF c = None \/ x = main THEN Clear(b.alias[x])
            ELSE IF b.alias[x] # main THEN {main} ELSE {}]]

(* relocate: the whole book.                                               *)
MutCopyPlan(b) == NoWrites
CopyPlan(b) == [card |-> [i \in Id |-> {b.card[i]} \ {None}],
                alias |-> [i \in Id |-> {b.alias[i]} \ {None}]]

(* The write of a queue that is sent first, and the one that stays.        *)
Earliest(q) == CHOOSE v \in q : \A w \in q : v = w \/ (v \in Nat /\ w \in Nat /\ v < w)
Latest(q) == CHOOSE v \in q : \A w \in q : v = w \/ (v \in Nat /\ w \in Nat /\ v > w)

(* applyWrites: a book when all the writes have landed.                    *)
Applied(b, w) ==
    [b EXCEPT !.card = [i \in Id |-> IF w.card[i] = {} THEN b.card[i] ELSE Latest(w.card[i])],
              !.alias = [i \in Id |-> IF w.alias[i] = {} THEN b.alias[i] ELSE Latest(w.alias[i])]]

(* A save disturbs its ids and those that share a card with one of them.   *)
(* An alias is torn, by a save or a move that was cut off, if its id has a *)
(* card of its own as well or it points at no card.  A save takes it for   *)
(* an alias all the same, so that its id, and whoever reads through that,  *)
(* may get another card.                                                   *)
Through(b, S) == S \cup {x \in Id : b.alias[x] \in S}
Touched(b, ids) == Through(b, Through(b, ids))
Torn(b) == {x \in Id : b.alias[x] # None /\ (b.card[x] # None \/ b.card[b.alias[x]] = None)}
Unsure(b) == Through(b, Torn(b))

----------------------------------------------------------------------------
Init ==
    /\ cards = NoCards /\ past = NoPast
    /\ pointer = [room |-> 0, pending |-> FALSE, moved |-> None]
    /\ rooms = [r \in Room |-> EmptyRoom] /\ left = {} /\ made = 0
    /\ at = "closed" /\ taken = NothingOld /\ scratch = FALSE
    /\ book = NoBook /\ writes = NoWrites
    /\ due = FALSE /\ cleared = FALSE
    /\ jobs = [j \in Job |-> NoJob] /\ books = [o \in Ref |-> NoBook] /\ held = NoRef
    /\ meddled = FALSE /\ checked = FALSE /\ watched = [j \in Job |-> Unwatched]
    /\ next = 1 /\ faults = 0

(* The stages of a move, and those of a save that has made its plan.       *)
Moving == {"creating", "pointing", "reading", "sending", "verifying",
           "finalising", "emptyingCards", "emptyingPast"}
Planned == {"saving", "recreating", "copying", "repointing", "resending"}
Sending == {"saving", "copying", "resending", "straying"}

(* The books that are referred to; any other is forgotten, and makes place *)
(* for a new one.                                                          *)
InUse(js, h) == {js[j].on : j \in Job} \cup {h}
Remembered(bs, js, h) == [o \in Ref |-> IF o \in InUse(js, h) THEN bs[o] ELSE NoBook]
Spare(used) == IF Ref \ used = {} THEN {} ELSE {First(Ref \ used)}

(* A job, or the move, writes to a room, the pointer or a book: nobody     *)
(* else is alone.                                                          *)
Meddle(j) ==
    /\ meddled' = TRUE /\ checked' = FALSE
    /\ watched' = [k \in Job |-> IF k = j THEN watched[k] ELSE Unwatched]
MoveMeddles == meddled' = meddled /\ watched' = [j \in Job |-> Unwatched]

----------------------------------------------------------------------------
(* The move.                                                               *)

Rest == at' = "idle" /\ taken' = NothingOld /\ scratch' = FALSE /\ book' = NoBook /\ writes' = NoWrites

(* Where a move begins: with only the emptying left, with a room to make,  *)
(* with a pending one, or over a room in use.                              *)
MutMoveBegins ==
    IF Final THEN "emptyingCards"
    ELSE IF pointer.room = 0 THEN "creating" ELSE "pointing"
MoveBegins ==
    IF Final /\ pointer.moved = Legacy THEN "emptyingCards"
    ELSE IF pointer.room = 0 THEN "creating"
    ELSE IF pointer.pending THEN "pointing" ELSE "reading"

StartMove ==
    /\ at' = MoveBegins
    /\ taken' = Legacy
    /\ scratch' = ~Final
    /\ book' = [NoBook EXCEPT !.room = pointer.room]
    /\ meddled' = FALSE

(* moveWhenReady, once in a session; with a move under way it joins that.  *)
MoveWhenReady ==
    /\ due /\ due' = FALSE
    /\ IF HasLegacy /\ at = "idle" THEN StartMove
       ELSE UNCHANGED <<at, taken, scratch, book, meddled>>
    /\ UNCHANGED <<server, writes, cleared, shared, checked, watched, next, faults>>

(* The saves that waited for the move go on, whatever it did, and make a   *)
(* room if none is in use; if it threw, they throw as well.                *)
Resumed == [j \in Job |->
    IF jobs[j].at # "waiting" THEN jobs[j]
    ELSE IF Final THEN [jobs[j] EXCEPT !.at = "loading", !.room = pointer.room]
    ELSE [jobs[j] EXCEPT !.at = "founding"]]
Rejected == [j \in Job |-> IF jobs[j].at = "waiting" THEN NoJob ELSE jobs[j]]

(* createBookRoom for a move.                                              *)
MakeRoom ==
    /\ at = "creating" /\ made < MaxRooms
    /\ made' = made + 1
    /\ book' = [book EXCEPT !.room = made + 1]
    /\ at' = "pointing"
    /\ UNCHANGED <<cards, past, pointer, rooms, left, taken, scratch, writes, due, cleared, shared,
                   ghosts, next, faults>>

(* writePointer: pending, and final after the check, when what was read    *)
(* back becomes the held book.                                             *)
WritePointer ==
    /\ \/ /\ at = "pointing"
          /\ pointer' = [room |-> book.room, pending |-> TRUE, moved |-> None]
          /\ at' = "reading" /\ checked' = FALSE /\ UNCHANGED <<books, held>>
       \/ /\ at = "finalising"
          /\ pointer' = [room |-> book.room, pending |-> FALSE, moved |-> taken]
          /\ at' = "emptyingCards" /\ checked' = ~meddled
          /\ \E o \in Spare({jobs[j].on : j \in Job}) :
                /\ held' = o
                /\ books' = Remembered([books EXCEPT ![o] = book], jobs, o)
    /\ MoveMeddles
    /\ UNCHANGED <<cards, past, rooms, left, made, taken, scratch, book, writes, due, cleared, jobs,
                   next, faults>>

(* roomState, and the plan of the move.                                    *)
ReadRoom ==
    /\ at = "reading"
    /\ book' = BookOf(book.room)
    /\ writes' = MovePlan(taken, BookOf(book.room), scratch)
    /\ at' = "sending"
    /\ UNCHANGED <<server, taken, scratch, due, cleared, shared, ghosts, next, faults>>

(* sendWrites: every queue at once, the cards before the aliases.          *)
SendCard(i) ==
    /\ at = "sending" /\ book.room \notin left /\ writes.card[i] # {}
    /\ LET c == Earliest(writes.card[i])
       IN /\ rooms' = [rooms EXCEPT ![book.room].card[i] = c]
          /\ book' = [book EXCEPT !.card[i] = c]
          /\ writes' = [writes EXCEPT !.card[i] = @ \ {c}]
    /\ MoveMeddles /\ checked' = FALSE
    /\ UNCHANGED <<cards, past, pointer, left, made, at, taken, scratch, due, cleared, jobs, books,
                   held, next, faults>>

MutSendAlias(i) ==
    /\ at = "sending" /\ book.room \notin left /\ writes.card = NoPast /\ writes.alias[i] # {}
    /\ rooms' = [rooms EXCEPT ![book.room].alias[i] = i]
    /\ writes' = [writes EXCEPT !.alias[i] = {}]
    /\ MoveMeddles /\ checked' = FALSE
    /\ UNCHANGED <<cards, past, pointer, left, made, at, taken, scratch, book, due, cleared, jobs, books,
                   held, next, faults>>
SendAlias(i) ==
    /\ at = "sending" /\ book.room \notin left /\ writes.card = NoPast /\ writes.alias[i] # {}
    /\ LET a == First(writes.alias[i])
       IN /\ rooms' = [rooms EXCEPT ![book.room].alias[i] = a]
          /\ book' = [book EXCEPT !.alias[i] = a]
          /\ writes' = [writes EXCEPT !.alias[i] = {}]
    /\ MoveMeddles /\ checked' = FALSE
    /\ UNCHANGED <<cards, past, pointer, left, made, at, taken, scratch, due, cleared, jobs, books,
                   held, next, faults>>

Sent ==
    /\ at = "sending" /\ writes = NoWrites
    /\ at' = "verifying"
    /\ UNCHANGED <<server, taken, scratch, book, writes, due, cleared, shared, ghosts, next, faults>>

(* Reads the room back: every card as it should be, and in a move from     *)
(* scratch no other.                                                       *)
Verified ==
    LET view == ViewOf(rooms[book.room])
    IN /\ \A i \in Id : taken.card[i] # None => view[i] = taken.card[i]
       /\ scratch => \A i \in Id : view[i] # None => taken.card[i] # None

Verify ==
    /\ at = "verifying"
    /\ IF Verified
       THEN /\ book' = BookOf(book.room) /\ at' = "finalising"
            /\ UNCHANGED <<taken, scratch, writes, jobs>>
       ELSE Rest /\ jobs' = Resumed
    /\ UNCHANGED <<server, due, cleared, books, held, ghosts, next, faults>>

(* clearLegacy: the cards, then the history.                               *)
EmptyCards ==
    /\ at = "emptyingCards"
    /\ cards' = NoCards
    /\ at' = "emptyingPast"
    /\ UNCHANGED <<past, pointer, rooms, left, made, taken, scratch, book, writes, due, cleared,
                   shared, ghosts, next, faults>>

EmptyPast ==
    /\ at = "emptyingPast"
    /\ past' = NoPast
    /\ cleared' = TRUE
    /\ Rest /\ jobs' = Resumed
    /\ UNCHANGED <<cards, pointer, rooms, left, made, due, books, held, ghosts, next, faults>>

(* The queues beside that of i which the workers are about to send.        *)
LeftOver(w, i) ==
    IF w.card # NoPast THEN [card |-> [w.card EXCEPT ![i] = {}], alias |-> NoPast]
    ELSE [card |-> NoPast, alias |-> [w.alias EXCEPT ![i] = {}]]
Pending(w, i) == IF w.card # NoPast THEN w.card[i] # {} ELSE w.alias[i] # {}

(* What is left over becomes a stray in a free place; without one it ends, *)
(* as it does when its requests throw as well.                             *)
Stray(js, places, b, w) ==
    \/ jobs' = js /\ books' = Remembered(books, js, held)
    \/ \E j \in Job, o \in places :
          /\ js[j].at = "free" /\ w # NoWrites
          /\ jobs' = [js EXCEPT ![j] = [NoJob EXCEPT !.at = "straying", !.on = o, !.writes = w]]
          /\ books' = Remembered([books EXCEPT ![o] = b], jobs', held)

(* A write of the move throws: the room was left, or the request failed.   *)
SendFails(i) ==
    /\ at = "sending" /\ Pending(writes, i)
    /\ \/ book.room \in left /\ faults' = faults
       \/ faults < MaxFaults /\ faults' = faults + 1
    /\ Stray(Rejected, Spare(InUse(Rejected, held)), book, LeftOver(writes, i))
    /\ Rest
    /\ UNCHANGED <<server, due, cleared, held, ghosts, next>>

(* Another request of the move throws.                                     *)
Fail ==
    /\ at \in Moving \ {"sending"} /\ faults < MaxFaults
    /\ faults' = faults + 1
    /\ Rest /\ jobs' = Rejected
    /\ UNCHANGED <<server, due, cleared, books, held, ghosts, next>>

----------------------------------------------------------------------------
(* Saves.                                                                  *)

(* saveCardFor: the cards are moved before anything is written; a save     *)
(* that comes in the middle of a move waits for it.                        *)
Ask(j, ids, c) ==
    /\ at # "closed" /\ jobs[j].at = "free" /\ ids # {}
    /\ next <= MaxVersion /\ c \in {next, None}
    /\ next' = next + 1
    /\ jobs' = [jobs EXCEPT ![j] = [NoJob EXCEPT !.ids = ids, !.card = c,
          !.room = IF Final THEN pointer.room ELSE 0,
          !.at = IF Final /\ ~HasLegacy THEN "loading"
                 ELSE IF HasLegacy \/ at # "idle" THEN "waiting" ELSE "founding"]]
    /\ IF HasLegacy /\ at = "idle" THEN StartMove
       ELSE UNCHANGED <<at, taken, scratch, book, meddled>>
    /\ UNCHANGED <<server, writes, due, cleared, books, held, checked, watched, faults>>

(* The first card ever: a room, and the pointer to it.                     *)
Found(j) ==
    /\ jobs[j].at = "founding" /\ made < MaxRooms
    /\ made' = made + 1
    /\ jobs' = [jobs EXCEPT ![j] = [@ EXCEPT !.at = "announcing", !.room = made + 1]]
    /\ UNCHANGED <<cards, past, pointer, rooms, left, move, due, cleared, books, held, ghosts,
                   next, faults>>

Announce(j) ==
    /\ jobs[j].at = "announcing"
    /\ pointer' = [room |-> jobs[j].room, pending |-> FALSE, moved |-> None]
    /\ jobs' = [jobs EXCEPT ![j] = [@ EXCEPT !.at = "loading"]]
    /\ Meddle(j)
    /\ UNCHANGED <<cards, past, rooms, left, made, move, due, cleared, books, held, next, faults>>

(* planSave on a book.                                                     *)
Plan(j, o, b) ==
    LET plan == PlanSave(b, jobs[j].ids, jobs[j].card)
    IN /\ jobs' = [jobs EXCEPT ![j] = [@ EXCEPT !.at = "saving", !.room = 0, !.on = o,
                                               !.writes = plan, !.plan = plan]]
       /\ watched' = [watched EXCEPT ![j] =
              IF Final /\ b = BookOf(pointer.room)
              THEN [alone |-> TRUE, before |-> Reads, touches |-> Touched(b, jobs[j].ids),
                    unsure |-> Unsure(b) \ jobs[j].ids]
              ELSE Unwatched]

(* loadAddressBook: the held book if it is recent, or if the room could    *)
(* not be read; or else the room.                                          *)
IsHeld == Final /\ held # NoRef /\ books[held].room = pointer.room
LoadHeld(j) ==
    /\ jobs[j].at = "loading" /\ IsHeld
    /\ Plan(j, held, books[held])
    /\ UNCHANGED <<server, move, due, cleared, books, held, meddled, checked, next, faults>>

Hold(j, b) ==
    /\ \E o \in Spare({jobs[k].on : k \in Job \ {j}}) :
          /\ held' = o
          /\ Plan(j, o, b)
          /\ books' = Remembered([books EXCEPT ![o] = b], jobs', o)
    /\ UNCHANGED <<meddled, checked>>

LoadRoom(j) ==
    /\ jobs[j].at = "loading" /\ Final
    /\ Hold(j, BookOf(pointer.room))
    /\ UNCHANGED <<server, move, due, cleared, next, faults>>

(* The list of people reads the room, too.                                 *)
Look ==
    /\ at # "closed" /\ Final
    /\ \E o \in Spare({jobs[j].on : j \in Job}) :
          /\ held' = o
          /\ books' = Remembered([books EXCEPT ![o] = BookOf(pointer.room)], jobs, o)
    /\ UNCHANGED <<server, move, due, cleared, jobs, ghosts, next, faults>>

(* No room could be read and none is held: the save goes on from nothing.  *)
LoadNothing(j) ==
    /\ jobs[j].at = "loading" /\ ~IsHeld
    /\ \/ ~Final /\ faults' = faults
       \/ Final /\ faults < MaxFaults /\ faults' = faults + 1
    /\ Hold(j, [NoBook EXCEPT !.room = jobs[j].room])
    /\ UNCHANGED <<server, move, due, cleared, next>>

(* sendWrites of a job, to the room that its book is of by then.           *)
Target(j) == books[jobs[j].on].room

JobCard(j, i) ==
    /\ jobs[j].at \in Sending /\ Target(j) \notin left /\ jobs[j].writes.card[i] # {}
    /\ LET c == Earliest(jobs[j].writes.card[i])
       IN /\ rooms' = [rooms EXCEPT ![Target(j)].card[i] = c]
          /\ books' = [books EXCEPT ![jobs[j].on].card[i] = c]
          /\ jobs' = [jobs EXCEPT ![j].writes.card[i] = @ \ {c}]
    /\ Meddle(j)
    /\ UNCHANGED <<cards, past, pointer, left, made, move, due, cleared, held, next, faults>>

JobAlias(j, i) ==
    /\ jobs[j].at \in Sending /\ Target(j) \notin left
    /\ jobs[j].writes.card = NoPast /\ jobs[j].writes.alias[i] # {}
    /\ LET a == First(jobs[j].writes.alias[i])
       IN /\ rooms' = [rooms EXCEPT ![Target(j)].alias[i] = a]
          /\ books' = [books EXCEPT ![jobs[j].on].alias[i] = a]
          /\ jobs' = [jobs EXCEPT ![j].writes.alias[i] = {}]
    /\ Meddle(j)
    /\ UNCHANGED <<cards, past, pointer, left, made, move, due, cleared, held, next, faults>>

Ended(j) ==
    /\ jobs' = [jobs EXCEPT ![j] = NoJob]
    /\ books' = Remembered(books, jobs', held)
    /\ watched' = [watched EXCEPT ![j] = Unwatched]
    /\ UNCHANGED <<held, meddled, checked>>

Saved(j) ==
    /\ jobs[j].at \in {"saving", "resending", "straying"} /\ jobs[j].writes = NoWrites
    /\ Ended(j)
    /\ UNCHANGED <<server, move, due, cleared, next, faults>>

(* M_FORBIDDEN: the reader is not in the room any more.  relocate takes    *)
(* the cards of the book, makes a room, empties the book and makes it one  *)
(* of the new room, copies, and points there, keeping moved_hash.  Then    *)
(* the whole plan is sent once more.                                       *)
Forbidden(j, i) ==
    /\ jobs[j].at = "saving" /\ Target(j) \in left /\ Pending(jobs[j].writes, i)
    /\ Stray([jobs EXCEPT ![j] = [@ EXCEPT !.at = "recreating", !.writes = CopyPlan(books[jobs[j].on])]],
             {jobs[j].on}, books[jobs[j].on], LeftOver(jobs[j].writes, i))
    /\ UNCHANGED <<server, move, due, cleared, held, ghosts, next, faults>>

Recreate(j) ==
    /\ jobs[j].at = "recreating" /\ made < MaxRooms
    /\ made' = made + 1
    /\ books' = [books EXCEPT ![jobs[j].on] = [NoBook EXCEPT !.room = made + 1]]
    /\ jobs' = [jobs EXCEPT ![j] = [@ EXCEPT !.at = "copying"]]
    /\ Meddle(j)
    /\ UNCHANGED <<cards, past, pointer, rooms, left, move, due, cleared, held, next, faults>>

Copied(j) ==
    /\ jobs[j].at = "copying" /\ jobs[j].writes = NoWrites
    /\ jobs' = [jobs EXCEPT ![j] = [@ EXCEPT !.at = "repointing"]]
    /\ UNCHANGED <<server, move, due, cleared, books, held, ghosts, next, faults>>

Repoint(j) ==
    /\ jobs[j].at = "repointing"
    /\ pointer' = [pointer EXCEPT !.room = Target(j), !.pending = FALSE]
    /\ jobs' = [jobs EXCEPT ![j] = [@ EXCEPT !.at = "resending", !.writes = jobs[j].plan]]
    /\ Meddle(j)
    /\ UNCHANGED <<cards, past, rooms, left, made, move, due, cleared, books, held, next, faults>>

(* A write of a save throws, though it may have reached the room; so it    *)
(* does when the room was left and is not the first one.                   *)
Landed(j, i) ==
    IF jobs[j].writes.card # NoPast
    THEN [rooms EXCEPT ![Target(j)].card[i] = Earliest(jobs[j].writes.card[i])]
    ELSE [rooms EXCEPT ![Target(j)].alias[i] = First(jobs[j].writes.alias[i])]
JobSendFails(j, i) ==
    /\ jobs[j].at \in {"saving", "copying", "resending"} /\ Pending(jobs[j].writes, i)
    /\ \/ /\ jobs[j].at # "saving" /\ Target(j) \in left
          /\ UNCHANGED <<rooms, faults, meddled, checked>> /\ watched' = [watched EXCEPT ![j] = Unwatched]
       \/ /\ faults < MaxFaults /\ faults' = faults + 1
          /\ UNCHANGED <<rooms, meddled, checked>> /\ watched' = [watched EXCEPT ![j] = Unwatched]
       \/ /\ Target(j) \notin left /\ faults < MaxFaults /\ faults' = faults + 1
          /\ rooms' = Landed(j, i) /\ meddled' = TRUE /\ checked' = FALSE /\ watched' = [k \in Job |-> Unwatched]
    /\ Stray([jobs EXCEPT ![j] = NoJob], {jobs[j].on}, books[jobs[j].on], LeftOver(jobs[j].writes, i))
    /\ UNCHANGED <<cards, past, pointer, left, made, move, due, cleared, held, next>>

(* Another request of a save throws, or all that strays have yet to send.  *)
JobFails(j) ==
    /\ \/ jobs[j].at \in {"founding", "announcing", "recreating", "repointing"}
          /\ faults < MaxFaults /\ faults' = faults + 1
       \/ jobs[j].at = "straying" /\ faults' = faults
    /\ Ended(j)
    /\ UNCHANGED <<server, move, due, cleared, next>>

----------------------------------------------------------------------------
(* Sessions, other clients.                                                *)

Closed ==
    /\ at' = "closed" /\ taken' = NothingOld /\ scratch' = FALSE /\ book' = NoBook /\ writes' = NoWrites
    /\ due' = FALSE /\ cleared' = FALSE
    /\ jobs' = [j \in Job |-> NoJob] /\ books' = [o \in Ref |-> NoBook] /\ held' = NoRef
    /\ watched' = [j \in Job |-> Unwatched]

Crash ==
    /\ at # "closed" /\ faults < MaxFaults
    /\ faults' = faults + 1
    /\ Closed
    /\ UNCHANGED <<server, meddled, checked, next>>

(* The app is closed; a session that ends before its timer is a crash.     *)
Close ==
    /\ at = "idle" /\ ~due /\ \A j \in Job : jobs[j].at \in {"free", "straying"}
    /\ Closed
    /\ UNCHANGED <<server, meddled, checked, next, faults>>

MutOpen ==
    /\ at = "closed"
    /\ at' = "idle" /\ due' = (pointer.room = 0)
    /\ UNCHANGED <<server, taken, scratch, book, writes, cleared, shared, ghosts, next, faults>>
Open ==
    /\ at = "closed"
    /\ at' = "idle" /\ due' = TRUE
    /\ UNCHANGED <<server, taken, scratch, book, writes, cleared, shared, ghosts, next, faults>>

(* A client from before the room saves a card for the ids of one person,   *)
(* or deletes it.                                                          *)
OldSave(ids, c) ==
    /\ ids # {} /\ next <= MaxVersion
    /\ c = next \/ (c = None /\ \E i \in ids : cards[i] # None)
    /\ cards' = [i \in Id |-> IF i \in ids THEN c ELSE cards[i]]
    /\ past' = [i \in Id |-> IF i \in ids THEN past[i] \cup ({cards[i]} \ {None}) ELSE past[i]]
    /\ next' = next + 1
    /\ UNCHANGED <<pointer, rooms, left, made, move, due, cleared, shared, ghosts, faults>>

(* Leaving a room from a client that lists it.                             *)
Leave(r) ==
    /\ r \in 1..made \ left /\ Cardinality(left) < MaxLeaves
    /\ left' = left \cup {r}
    /\ UNCHANGED <<cards, past, pointer, rooms, made, move, due, cleared, shared, ghosts, next, faults>>

MoveSteps ==
    \/ MakeRoom \/ WritePointer \/ ReadRoom \/ Sent \/ Verify \/ EmptyCards \/ EmptyPast
    \/ \E i \in Id : SendCard(i) \/ SendAlias(i) \/ (book.room \in left /\ SendFails(i))

SaveSteps(j) ==
    \/ Found(j) \/ Announce(j) \/ LoadHeld(j) \/ LoadRoom(j) \/ LoadNothing(j)
    \/ Saved(j) \/ Recreate(j) \/ Copied(j) \/ Repoint(j)
    \/ \E i \in Id : JobCard(j, i) \/ JobAlias(j, i) \/ Forbidden(j, i) \/ JobSendFails(j, i)

Next ==
    \/ MoveWhenReady \/ MoveSteps \/ Look \/ Fail \/ Crash \/ Close \/ Open
    \/ (\E i \in Id : SendFails(i))
    \/ (\E j \in Job : SaveSteps(j) \/ JobFails(j))
    \/ (\E ids \in SUBSET Id, c \in Card : OldSave(ids, c) \/ \E j \in Job : Ask(j, ids, c))
    \/ (\E r \in Room : Leave(r))

Spec == Init /\ [][Next]_vars

(* A session goes on with each thing it does, except for strays, and the   *)
(* app is opened again and again.                                          *)
FairSpec ==
    /\ Spec /\ WF_vars(MoveWhenReady) /\ WF_vars(MoveSteps) /\ WF_vars(Open) /\ WF_vars(Close)
    /\ \A j \in Job : WF_vars(jobs[j].at # "straying" /\ SaveSteps(j))

----------------------------------------------------------------------------
Books == [card : [Id -> Card], alias : [Id -> Id \cup {None}]]

TypeOK ==
    /\ cards \in [Id -> Card] /\ past \in [Id -> SUBSET Version]
    /\ pointer.room \in 0..MaxRooms /\ pointer.pending \in BOOLEAN
    /\ rooms \in [Room -> Books] /\ (\A r \in Room, i \in Id : rooms[r].alias[i] # i)
    /\ left \subseteq Room /\ made \in 0..MaxRooms
    /\ at \in {"closed", "idle"} \cup Moving /\ book.room \in 0..MaxRooms
    /\ held \in Ref \cup {NoRef} /\ meddled \in BOOLEAN /\ checked \in BOOLEAN
    /\ \A j \in Job :
           /\ jobs[j].at \in {"free", "waiting", "founding", "announcing", "loading", "straying"} \cup Planned
           /\ jobs[j].at \in Planned \cup {"straying"} => jobs[j].on \in Ref /\ Target(j) \in Room
    /\ next \in 1..(MaxVersion + 1) /\ faults \in 0..MaxFaults

(* Whatever an earlier move left in the room, what a move sends makes the  *)
(* room say what the old events said: unless a save or a stray writes      *)
(* beside it, its check fails for no fault of its own.                     *)
MovesVerify == at \in {"verifying", "finalising"} /\ ~meddled => Verified

(* "Moving again is safe": the same when nothing but the strays of an      *)
(* earlier sendWrites writes beside it.  The code does not ensure it.      *)
MovingAgainIsSafe ==
    at = "verifying" /\ pointer.pending /\ (\A j \in Job : jobs[j].at \in {"free", "straying"}) => Verified

(* planSave, on every book that moves, saves and crashes leave: its ids    *)
(* say the new card and every other id says what it said before.           *)
SavesAsPlanned ==
    Final =>
        LET b == BookOf(pointer.room)
        IN \A ids \in (SUBSET Id) \ {{}}, c \in {None, MaxVersion + 1} :
               LET after == ViewOf(Applied(b, PlanSave(b, ids, c)))
               IN \A i \in Id : IF i \in ids THEN after[i] = c
                                ELSE i \in Unsure(b) \/ after[i] = ViewOf(b)[i]

(* A save that alone writes, wherever it is and wherever it is cut off,    *)
(* also in the middle of the copy to a new room, leaves the contacts that  *)
(* share nothing with its own as they read.                                *)
SavesKeepTheRest ==
    \A j \in Job : watched[j].alone =>
        \A i \in Id \ watched[j].touches : Reads[i] = watched[j].before[i]

(* When it has sent all, also over a copy, its ids read what was asked for *)
(* and all others what they read before.                                   *)
SavesSayWhatIsAsked ==
    \A j \in Job :
        watched[j].alone /\ jobs[j].at \in {"saving", "resending"} /\ jobs[j].writes = NoWrites =>
            \A i \in Id : IF i \in jobs[j].ids THEN Reads[i] = jobs[j].card
                          ELSE i \in watched[j].unsure \/ Reads[i] = watched[j].before[i]

(* "Saves a card against every one of ids": while other saves, of other    *)
(* ids, are under way, too.  The code does not ensure it: two first saves. *)
SavedIsFound ==
    \A j \in Job :
        /\ jobs[j].at \in {"saving", "resending"} /\ jobs[j].writes = NoWrites
        /\ \A k \in Job \ {j} : jobs[k].ids # {} /\ jobs[k].ids \cap jobs[j].ids = {}
        => \A i \in jobs[j].ids : Reads[i] = jobs[j].card

(* Of planSave: "every other id says what it said before".  What a save    *)
(* without a held book has planned would leave the others as they read.    *)
(* The code does not ensure it: it may have planned on an empty book.      *)
OthersSayWhatTheySaid ==
    [][\A j \in Job : jobs[j].at = "loading" /\ jobs'[j].at = "saving" /\ Final /\ ~IsHeld =>
          LET b == BookOf(pointer.room)
          IN \A i \in Id : \/ i \in jobs[j].ids \cup Unsure(b)
                           \/ ViewOf(Applied(b, jobs'[j].plan))[i] = ViewOf(b)[i]]_vars

(* The old events are emptied of no card that the move took and that the   *)
(* room in use does not hold.  The emptying may come sessions after the    *)
(* check; the property is about the time until something writes again.     *)
EmptyingLosesNothing ==
    [][EmptyCards /\ checked =>
        Final /\ \A i \in Id : cards[i] # None /\ cards[i] = taken.card[i]
                                => ViewOf(rooms[pointer.room])[i] = cards[i]]_vars

(* Of clearLegacy: the old events are emptied "once everything in them is  *)
(* verified to be in the room".  The code does not ensure it of what an    *)
(* old client has written since.                                           *)
EverythingIsInTheRoom ==
    [][EmptyCards /\ checked => \A i \in Id : cards[i] # None => Reads[i] = cards[i]]_vars

(* A move that writes alone changes what is read of no contact but those   *)
(* that wait in the old events for a room in use, and those that share     *)
(* with one of them; switching to the room changes none.                   *)
Disturbed ==
    IF scratch THEN {i \in Id : cards[i] # taken.card[i]}
    ELSE Through(BookOf(book.room), {i \in Id : taken.card[i] # None})
MovesKeepReads ==
    [][MoveSteps /\ ~meddled => \A i \in Id \ Disturbed : Reads'[i] = Reads[i]]_vars

(* The old events end up empty, however many sessions are cut off, unless  *)
(* the reader has left the room that they are to be moved to.              *)
EventuallyMoved == <>[](OldEvents = NothingOld \/ pointer.room \in left)

(* What an old client wrote since "is moved over the room's copy".  The    *)
(* code does not ensure it when the room was left.                         *)
EventuallyAllMoved == <>[](OldEvents = NothingOld)
============================================================================

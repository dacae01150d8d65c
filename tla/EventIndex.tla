----------------------------- MODULE EventIndex -----------------------------
(***************************************************************************)
(* The message crawler of apps/web/src/indexing/EventIndex.ts, which fills *)
(* the search index of the encrypted rooms.                                *)
(*                                                                         *)
(* The events of a room are numbered 1..head from the oldest.  A pagination*)
(* token is a place between two events, named by the number of the event   *)
(* before it: going back from token p a page holds the events up to p,     *)
(* going forward those after p.  The live timeline starts at liveFrom.     *)
(*                                                                         *)
(* The database (seshat, behind the IPC of apps/desktop/src/seshat.ts)     *)
(* keeps the committed events and the stored checkpoints over a restart;   *)
(* the queue of checkpoints, the crawler and the flags live in the page.   *)
(* A step is what the page does between two awaits; a database call takes  *)
(* effect in a step of its own, before the page goes on with its answer.   *)
(***************************************************************************)
EXTENDS Integers, Sequences, FiniteSets, SequencesExt

CONSTANTS
    Room,       \* the encrypted rooms of the user
    Unreachable,\* rooms whose /messages requests never succeed
    History,    \* number of events in each room before the index exists
    Shown,      \* how many of those are in the live timeline
    Page,       \* EVENTS_PER_CRAWL
    Starts,     \* how the run may begin: "enable", "sync" or "resume"
    Adders,     \* the concurrent calls of addInitialCheckpoints
    MaxHead,    \* bound: events in a room
    MaxLive,    \* bound: live events
    MaxRedact,  \* bound: live redactions
    MaxResets,  \* bound: limited syncs
    MaxMissed,  \* bound: redactions in the gap of a limited sync
    MaxErrors,  \* bound: failed requests and database calls
    MaxCrashes  \* bound: restarts

ASSUME BoundsAssumption ==
    /\ IsFiniteSet(Room) /\ Unreachable \subseteq Room
    /\ {History, Shown, MaxHead, MaxLive, MaxRedact, MaxResets, MaxMissed,
        MaxErrors, MaxCrashes} \subseteq Nat
    /\ Shown <= History /\ History <= MaxHead
    /\ Starts \subseteq {"enable", "sync", "resume"}
    /\ "resume" \in Starts => History > 0
    /\ Page \in Nat \ {0}

VARIABLES
    head,       \* events of each room on the server
    liveFrom,   \* the back-pagination token of each live timeline
    redacts,    \* the event that each event redacts, 0 for one that is no redaction
    indexed,    \* events in the database
    queued,     \* live events handed to the database and not yet committed
    stored,     \* checkpoints in the database
    queue,      \* crawlerCheckpoints
    commit,     \* is a commitLiveEvents on its way to the database?
    needs,      \* needsInitialCheckpoints
    force,      \* forceAddInitialCheckpoints
    adders,     \* what each call of addInitialCheckpoints has left to do
    resets,     \* checkpoints on their way from onTimelineReset to the database
    crawler,    \* where the crawler is: its place, its checkpoint, its page
    excused,    \* rooms given up: an error was logged or the server said 403
    spent       \* how much of each bound is used up

server == <<head, liveFrom, redacts>>
db == <<indexed, queued, stored>>
vars == <<server, db, queue, commit, needs, force, adders, resets, crawler, excused, spent>>

Dirs == {"b", "f"}
Checkpoints ==
    [room : Room, token : 0..MaxHead, dir : Dirs, full : BOOLEAN]
Events == 1..MaxHead

Off == [at |-> "off"]
NoAdder == [at |-> "none"]
Limit == [live |-> MaxLive, redact |-> MaxRedact, reset |-> MaxResets,
          missed |-> MaxMissed, error |-> MaxErrors, crash |-> MaxCrashes]

Redactions(r) == {e \in 1..head[r] : redacts[r][e] # 0}
Redacted(r) == {redacts[r][e] : e \in Redactions(r)}

TypeOK ==
    /\ head \in [Room -> 0..MaxHead]
    /\ liveFrom \in [Room -> 0..MaxHead]
    /\ redacts \in [Room -> [Events -> 0..MaxHead]]
    /\ indexed \in [Room -> SUBSET Events]
    /\ queued \in [Room -> SUBSET Events]
    /\ stored \subseteq Checkpoints
    /\ queue \in Seq(Checkpoints)
    /\ commit \in BOOLEAN /\ needs \in BOOLEAN /\ force \in BOOLEAN
    /\ resets \subseteq Checkpoints
    /\ excused \subseteq Room
    /\ \A b \in DOMAIN Limit : spent[b] \in 0..Limit[b]

Spend(b) ==
    /\ spent[b] < Limit[b]
    /\ spent' = [spent EXCEPT ![b] = @ + 1]

-----------------------------------------------------------------------------
Initial(r, dir) ==
    [room |-> r, token |-> liveFrom[r], dir |-> dir, full |-> dir = "b"]

InitialOf(rooms) == {Initial(r, d) : r \in {x \in rooms : liveFrom[x] > 0}, d \in Dirs}

(* Either the index was created just now, and EventIndexPanel.onEnable has *)
(* called addInitialCheckpoints ("enable") or leaves that to the next sync *)
(* ("sync"); or it is opened again with the newest event and all initial   *)
(* checkpoints in it ("resume").                                           *)
Init ==
    /\ head = [r \in Room |-> History]
    /\ liveFrom = [r \in Room |-> History - Shown]
    /\ redacts = [r \in Room |-> [e \in Events |-> 0]]
    /\ queued = [r \in Room |-> {}]
    /\ commit = FALSE
    /\ \E start \in Starts, s \in Adders :
         /\ indexed = [r \in Room |-> IF start = "resume" THEN {History} ELSE {}]
         /\ stored = IF start = "resume" THEN InitialOf(Room) ELSE {}
         /\ queue = SetToSeq(stored)
         /\ force = (start # "resume")
         /\ needs = (start = "sync")
         /\ adders = [x \in Adders |->
                        IF x = s /\ start = "enable" THEN [at |-> "filter", sync |-> FALSE]
                                                     ELSE NoAdder]
    /\ resets = {}
    /\ crawler = Off
    /\ excused = {}
    /\ spent = [b \in DOMAIN Limit |-> 0]

(* isEventIndexEmpty                                                       *)
IsEmpty == \A r \in Room : indexed[r] = {}

(* startCrawler: there is never a second crawler.                          *)
Started(c) == IF c.at = "off" THEN [at |-> "sleep"] ELSE c

-----------------------------------------------------------------------------
(* What a sync brings.  The page listens to each of these.                 *)

(* The end of a sync: onSync starts addInitialCheckpoints, or the crawler. *)
OnSync ==
    \/ /\ needs \/ force
       /\ \E s \in Adders :
            /\ adders[s] = NoAdder
            /\ adders' = [adders EXCEPT ![s] = [at |-> "filter", sync |-> TRUE]]
       /\ needs' = FALSE
       /\ UNCHANGED <<crawler, commit>>
    \/ /\ ~needs /\ ~force
       /\ crawler' = Started(crawler)
       /\ commit' = TRUE
       /\ UNCHANGED <<adders, needs>>

SyncNothing ==
    /\ OnSync
    /\ UNCHANGED <<server, db, queue, force, resets, excused, spent>>

(* onRoomTimeline queues a live event.                                     *)
SyncEvent(r) ==
    /\ head[r] < MaxHead
    /\ Spend("live")
    /\ head' = [head EXCEPT ![r] = @ + 1]
    /\ queued' = [queued EXCEPT ![r] = @ \cup {head[r] + 1}]
    /\ OnSync
    /\ UNCHANGED <<liveFrom, redacts, indexed, stored, queue, force, resets, excused>>

(* A live redaction: redactEvent deletes the event from the index.  What   *)
(* the database makes of the deletion of an event that it has queued and   *)
(* not committed is not in the source, so that is left out.                *)
SyncRedaction(r) ==
    /\ head[r] < MaxHead
    /\ Spend("redact")
    /\ head' = [head EXCEPT ![r] = @ + 1]
    /\ \E e \in (1..head[r]) \ (Redactions(r) \cup queued[r]) :
         /\ redacts' = [redacts EXCEPT ![r][head[r] + 1] = e]
         /\ indexed' = [indexed EXCEPT ![r] = @ \ {e}]
    /\ OnSync
    /\ UNCHANGED <<liveFrom, queued, stored, queue, force, resets, excused>>

(* A limited sync leaves a gap before the newest event.  onTimelineReset   *)
(* asks for a checkpoint there, and the event itself is live.  An event of *)
(* the gap may be a redaction, which only the crawler will meet.           *)
SyncLimited(r) ==
    /\ spent["reset"] < MaxResets
    /\ \E n \in (head[r] + 2)..MaxHead :
         /\ head' = [head EXCEPT ![r] = n]
         /\ liveFrom' = [liveFrom EXCEPT ![r] = n - 1]
         /\ queued' = [queued EXCEPT ![r] = @ \cup {n}]
         /\ resets' = resets \cup
              {[room |-> r, token |-> n - 1, dir |-> "b", full |-> FALSE]}
         /\ \/ /\ spent' = [spent EXCEPT !["reset"] = @ + 1]
               /\ UNCHANGED redacts
            \/ /\ spent["missed"] < MaxMissed
               /\ spent' = [spent EXCEPT !["reset"] = @ + 1, !["missed"] = @ + 1]
               /\ \E x \in (head[r] + 1)..(n - 1) : 
                    \E e \in (1..(x - 1)) \ (Redactions(r) \cup queued[r]) :
                        redacts' = [redacts EXCEPT ![r][x] = e]
    /\ OnSync
    /\ UNCHANGED <<indexed, stored, queue, force, excused>>

(* onSync ends with commitLiveEvents.                                      *)
Commit ==
    /\ commit
    /\ indexed' = [r \in Room |-> indexed[r] \cup queued[r]]
    /\ queued' = [r \in Room |-> {}]
    /\ commit' = FALSE
    /\ UNCHANGED <<server, stored, queue, needs, force, adders, resets, crawler,
                   excused, spent>>

(* addRoomCheckpoint after the reset; the checkpoint is used even when the *)
(* database did not take it.                                               *)
AddRoomCheckpoint(cp) ==
    /\ cp \in resets
    /\ resets' = resets \ {cp}
    /\ queue' = Append(queue, cp)
    /\ \/ stored' = stored \cup {cp} /\ UNCHANGED spent
       \/ Spend("error") /\ UNCHANGED stored
    /\ UNCHANGED <<server, commit, indexed, queued, needs, force, adders, crawler, excused>>

-----------------------------------------------------------------------------
(* addInitialCheckpoints                                                   *)

(* The encrypted rooms are known: read the token of each live timeline,    *)
(* and skip the rooms that have none.                                      *)
AdderFilter(s) ==
    /\ adders[s].at = "filter"
    /\ adders' = [adders EXCEPT ![s] =
         [at |-> "store", sync |-> adders[s].sync,
          todo |-> InitialOf(Room)]]
    /\ UNCHANGED <<server, commit, db, queue, needs, force, resets, crawler, excused, spent>>

(* One checkpoint of one room, the back one first; an error skips the rest *)
(* of that room.                                                           *)
AdderStore(s, cp) ==
    /\ adders[s].at = "store"
    /\ cp \in adders[s].todo
    /\ cp.dir = "f" => ~\E x \in adders[s].todo : x.room = cp.room /\ x.dir = "b"
    /\ \/ /\ stored' = stored \cup {cp}
          /\ queue' = Append(queue, cp)
          /\ adders' = [adders EXCEPT ![s].todo = @ \ {cp}]
          /\ UNCHANGED <<excused, spent>>
       \/ /\ Spend("error")
          /\ adders' = [adders EXCEPT ![s].todo = {x \in @ : x.room # cp.room}]
          /\ excused' = excused \cup {cp.room}
          /\ UNCHANGED <<stored, queue>>
    /\ UNCHANGED <<server, commit, indexed, queued, needs, force, resets, crawler>>

(* All are stored: start the crawler.  onSync also takes the flag back,    *)
(* and commits; EventIndexPanel does neither.                              *)
AdderDone(s) ==
    /\ adders[s].at = "store" /\ adders[s].todo = {}
    /\ adders' = [adders EXCEPT ![s] = NoAdder]
    /\ IF adders[s].sync THEN force' = FALSE /\ commit' = TRUE
                        ELSE UNCHANGED <<force, commit>>
    /\ crawler' = Started(crawler)
    /\ UNCHANGED <<server, db, queue, needs, resets, excused, spent>>

-----------------------------------------------------------------------------
(* crawlerFunc                                                             *)

(* The sleep is over: take the next checkpoint, or sleep again.            *)
CrawlTake ==
    /\ crawler.at = "sleep"
    /\ queue # <<>>
    /\ crawler' = [at |-> "fetch", cp |-> Head(queue)]
    /\ queue' = Tail(queue)
    /\ UNCHANGED <<server, commit, db, needs, force, adders, resets, excused, spent>>

(* Mutant: the end of a page is computed and not taken from the answer.   *)
MutPageOf(cp) ==
    LET hi == head[cp.room]
        all == IF cp.dir = "b" THEN {e \in 1..hi : e <= cp.token /\ e > cp.token - Page}
                               ELSE {e \in 1..hi : e > cp.token /\ e <= cp.token + Page}
    IN [all |-> all, end |-> IF cp.dir = "b" THEN cp.token - Page ELSE cp.token + Page]

(* What /messages returns from cp: the events of a page, and its end.      *)
PageOf(cp) ==
    LET hi == head[cp.room]
        all == IF cp.dir = "b" THEN {e \in 1..hi : e <= cp.token /\ e > cp.token - Page}
                               ELSE {e \in 1..hi : e > cp.token /\ e <= cp.token + Page}
    IN [all |-> all, end |-> IF cp.dir = "b" THEN cp.token - Cardinality(all)
                                             ELSE cp.token + Cardinality(all)]

(* The checkpoint to go on with: none when the server names no end, which  *)
(* it need not do once there is nothing beyond.                            *)
NextCheckpoints(cp) ==
    LET end == PageOf(cp).end
        next == {[cp EXCEPT !.token = end]}
    IN IF end = (IF cp.dir = "b" THEN 0 ELSE head[cp.room]) THEN {{}, next} ELSE {next}

(* Mutant: a failed request goes back to the front of the queue.          *)
MutFetchFails ==
    /\ crawler.at = "fetch"
    /\ crawler.cp.room \in Unreachable \/ spent["error"] < MaxErrors
    /\ IF crawler.cp.room \in Unreachable THEN UNCHANGED spent ELSE Spend("error")
    /\ queue' = <<crawler.cp>> \o queue
    /\ crawler' = [at |-> "sleep"]
    /\ UNCHANGED <<server, commit, db, needs, force, adders, resets, excused>>

FetchFails ==
    /\ crawler.at = "fetch"
    /\ crawler.cp.room \in Unreachable \/ spent["error"] < MaxErrors
    /\ IF crawler.cp.room \in Unreachable THEN UNCHANGED spent ELSE Spend("error")
    /\ queue' = Append(queue, crawler.cp)
    /\ crawler' = [at |-> "sleep"]
    /\ UNCHANGED <<server, commit, db, needs, force, adders, resets, excused>>

(* 403: the checkpoint is dropped; so is its place in the database.        *)
FetchForbidden ==
    /\ crawler.at = "fetch"
    /\ Spend("error")
    /\ stored' \in {stored, stored \ {crawler.cp}}
    /\ excused' = excused \cup {crawler.cp.room}
    /\ crawler' = [at |-> "sleep"]
    /\ UNCHANGED <<server, commit, indexed, queued, queue, needs, force, adders, resets>>

(* Mutant: an empty page is taken for a failure.                          *)
MutFetchEmpty ==
    /\ crawler.at = "fetch" /\ crawler.cp.room \notin Unreachable
    /\ PageOf(crawler.cp).all = {}
    /\ queue' = Append(queue, crawler.cp)
    /\ crawler' = [at |-> "sleep"]
    /\ UNCHANGED <<server, commit, db, needs, force, adders, resets, excused, spent>>

(* An empty page: the crawl got to the start or the end of the room.       *)
FetchEmpty ==
    /\ crawler.at = "fetch" /\ crawler.cp.room \notin Unreachable
    /\ PageOf(crawler.cp).all = {}
    /\ \/ stored' = stored \ {crawler.cp} /\ UNCHANGED spent
       \/ Spend("error") /\ UNCHANGED stored
    /\ crawler' = [at |-> "sleep"]
    /\ UNCHANGED <<server, commit, indexed, queued, queue, needs, force, adders, resets, excused>>

(* A page of events, which are now decrypted and filtered: neither a       *)
(* redaction nor a redacted event is indexed.                              *)
FetchPage ==
    /\ crawler.at = "fetch" /\ crawler.cp.room \notin Unreachable
    /\ PageOf(crawler.cp).all # {}
    /\ \E next \in NextCheckpoints(crawler.cp) :
         crawler' = [at |-> "add", cp |-> crawler.cp, next |-> next,
                     deletes |-> {redacts[crawler.cp.room][e] :
                                    e \in PageOf(crawler.cp).all} \ {0},
                     events |-> PageOf(crawler.cp).all \
                                    (Redacted(crawler.cp.room) \cup Redactions(crawler.cp.room))]
    /\ UNCHANGED <<server, commit, db, queue, needs, force, adders, resets, excused, spent>>

(* Mutant: the continuation is not stored with the events.                *)
MutCrawlAddUnsaved ==
    /\ crawler.at = "add"
    /\ LET r == crawler.cp.room IN
         /\ indexed' = [indexed EXCEPT ![r] = (@ \ crawler.deletes) \cup crawler.events]
         /\ stored' = stored \ {crawler.cp}
         /\ crawler' = [at |-> "added", cp |-> crawler.cp, next |-> crawler.next,
                        known |-> crawler.events \subseteq indexed[r]]
    /\ UNCHANGED <<server, commit, queued, queue, needs, force, adders, resets, excused, spent>>

(* Mutant: the redactions of the page are filtered out and forgotten.     *)
MutCrawlAddForgets ==
    /\ crawler.at = "add"
    /\ LET r == crawler.cp.room IN
         /\ indexed' = [indexed EXCEPT ![r] = @ \cup crawler.events]
         /\ stored' = (stored \ {crawler.cp}) \cup crawler.next
         /\ crawler' = [at |-> "added", cp |-> crawler.cp, next |-> crawler.next,
                        known |-> crawler.events \subseteq indexed[r]]
    /\ UNCHANGED <<server, commit, queued, queue, needs, force, adders, resets, excused, spent>>

(* What the page redacts is deleted; then addHistoricEvents, one           *)
(* transaction that adds the events and swaps the checkpoints, and answers *)
(* whether all events were there already.                                  *)
CrawlAdd ==
    /\ crawler.at = "add"
    /\ LET r == crawler.cp.room IN
         /\ indexed' = [indexed EXCEPT ![r] = (@ \ crawler.deletes) \cup crawler.events]
         /\ stored' = (stored \ {crawler.cp}) \cup crawler.next
         /\ crawler' = [at |-> "added", cp |-> crawler.cp, next |-> crawler.next,
                        known |-> crawler.events \subseteq indexed[r]]
    /\ UNCHANGED <<server, commit, queued, queue, needs, force, adders, resets, excused, spent>>

(* A deletion or addHistoricEvents throws: the checkpoint is tried again.  *)
CrawlAddFails ==
    /\ crawler.at = "add"
    /\ Spend("error")
    /\ \E gone \in SUBSET crawler.deletes :
         indexed' = [indexed EXCEPT ![crawler.cp.room] = @ \ gone]
    /\ queue' = Append(queue, crawler.cp)
    /\ crawler' = [at |-> "sleep"]
    /\ UNCHANGED <<server, commit, queued, stored, needs, force, adders, resets, excused>>

CaughtUp == crawler.known /\ ~crawler.cp.full

(* The answer: queue the next checkpoint, or remove it again when the      *)
(* crawl has caught up with what is indexed.                               *)
CrawlNext ==
    /\ crawler.at = "added"
    /\ IF CaughtUp
         THEN stored' = stored \ crawler.next /\ UNCHANGED queue
         ELSE queue' = queue \o SetToSeq(crawler.next) /\ UNCHANGED stored
    /\ crawler' = [at |-> "sleep"]
    /\ UNCHANGED <<server, commit, indexed, queued, needs, force, adders, resets, excused, spent>>

(* The removal throws: the checkpoint that was just done is tried again.   *)
CrawlNextFails ==
    /\ crawler.at = "added" /\ CaughtUp /\ crawler.next # {}
    /\ Spend("error")
    /\ queue' = Append(queue, crawler.cp)
    /\ crawler' = [at |-> "sleep"]
    /\ UNCHANGED <<server, commit, db, needs, force, adders, resets, excused>>

-----------------------------------------------------------------------------
(* The application is killed and started again: what is left is the        *)
(* database.  The sync that was not saved yet is received again, with the  *)
(* live events and the resets that were on their way.                      *)
Restart ==
    /\ Spend("crash")
    /\ queue' = SetToSeq(stored)
    /\ needs' = IsEmpty /\ force' = IsEmpty
    /\ commit' = FALSE
    /\ adders' = [s \in Adders |-> NoAdder]
    /\ crawler' = Off
    /\ UNCHANGED <<server, db, resets, excused>>

Crawl ==
    \/ CrawlTake \/ FetchFails \/ FetchForbidden \/ FetchEmpty \/ FetchPage
    \/ CrawlAdd \/ CrawlAddFails \/ CrawlNext \/ CrawlNextFails

Adder(s) ==
    \/ AdderFilter(s)
    \/ adders[s].at = "store" /\ \E cp \in adders[s].todo : AdderStore(s, cp)
    \/ AdderDone(s)

Next ==
    \/ SyncNothing
    \/ \E r \in Room : SyncEvent(r) \/ SyncLimited(r) \/ SyncRedaction(r)
    \/ Commit
    \/ \E cp \in resets : AddRoomCheckpoint(cp)
    \/ \E s \in Adders : Adder(s)
    \/ Crawl
    \/ Restart

(* Syncs go on, database calls are answered, and the crawler wakes up.     *)
Fairness ==
    /\ WF_vars(SyncNothing) /\ WF_vars(Commit) /\ WF_vars(Crawl)
    /\ WF_vars(\E cp \in resets : AddRoomCheckpoint(cp))
    /\ \A s \in Adders : WF_vars(Adder(s))

Spec == Init /\ [][Next]_vars
FairSpec == Spec /\ Fairness
-----------------------------------------------------------------------------
(* Everything the user could read is searchable in the end: the events of  *)
(* every room that is not given up, but for the redacted ones and the      *)
(* redactions, end up in the index for good.                               *)
EventuallyIndexed ==
    \A r \in Room \ Unreachable :
        <>[](r \in excused \/ (1..head[r]) \ (Redacted(r) \cup Redactions(r)) \subseteq indexed[r])

(* The crawl ends: the crawler is done with every room it can reach, and   *)
(* stays so, however many rooms it cannot reach it still has to try.       *)
CrawlEnds ==
    \A r \in Room \ Unreachable :
        <>[](/\ \A cp \in ToSet(queue) : cp.room # r
             /\ crawler.at \notin {"off", "sleep"} => crawler.cp.room # r)

(* What is redacted is not found: a redacted event leaves the index for    *)
(* good, also when the redaction itself is only met by the crawler.        *)
RedactedGoes ==
    \A r \in Room \ Unreachable :
        <>[](r \in excused \/ indexed[r] \cap Redacted(r) = {})
=============================================================================

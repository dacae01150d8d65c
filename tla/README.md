# A verification of element-web

This directory holds TLA+ models of the parts of element-web whose correctness
depends on the order in which things happen: what two tabs do at the same time,
what a page does between two `await`s, what a database has when the page dies.
TLC checks the models on small instances. TLAPS proves every invariant that a passing
run checks, and the properties of single steps, for every instance; liveness is left
to TLC.

Every model was translated from the TypeScript source. `PROJECT.json` maps each
definition to the lines it stands for. Paths below are relative to
`apps/web/src/` unless they begin with `apps/`.

Contents: [1 the system](#1-the-system) · [2 the modules](#2-the-modules) ·
[3 the runs](#3-the-runs) · [4 fairness](#4-fairness) · [5 what the checks
found](#5-what-the-checks-found) · [6 proofs](#6-proofs) · [7 what is
assumed and left out](#7-what-is-assumed-and-left-out) · [8 the
plan](#8-the-plan)

## 1 The system

element-web is a Matrix client: a single-page application, a thin Electron shell
around it (`apps/desktop`), and the library matrix-js-sdk under it, which is not
part of this repository. A page is single-threaded. Its concurrency is that of
JavaScript: a function runs to its next `await`, and then anything else may run
before it goes on. Between tabs there is real concurrency, with `localStorage`
and its `storage` events as the only shared state.

### Components that are modelled

**Session lock** (`utils/SessionLock.ts`).
*State*: three localStorage items: PING (a timestamp), OWNER and CLAIMANT; in each
tab the promise it waits for, the interval `lockServicer` and its listeners.
*Operations*: `getSessionLock` (claim, look, wait, take), `serviceLock`,
`onStorageEvent`, `releaseLock`, `onPagehideEvent`, `checkSessionLockFree`.
*Interactions*: `MatrixChat` calls it before it loads the session;
`onNewInstance` calls `Lifecycle.onSessionLockStolen`, which stops the client;
`Lifecycle.clearStorage` clears its items away.
*Hard*: two tabs between every read and write; storage events that are late or
overtaken by timers; tabs that die, or sleep in the back/forward cache; the
system clock.
*Correct when*: at most one instance runs (in a browser that keeps up), the latest
claim wins, no tab waits for ever, no superseded tab goes on unnoticed.

**Search index crawler** (`indexing/EventIndex.ts`, `EventIndexPeg.ts`,
`components/views/settings/EventIndexPanel.tsx`; the database behind
`apps/desktop/src/seshat.ts`).
*State*: in the page the queue of checkpoints, the crawler, the two flags
`needsInitialCheckpoints` and `forceAddInitialCheckpoints`; in the database the
events, the events that wait for a commit and the checkpoints.
*Operations*: `addInitialCheckpoints`, `onSync`, `onRoomTimeline`,
`onTimelineReset`, `redactEvent`, `addRoomCheckpoint`, `crawlerFunc`, the
restart.
*Interactions*: the client's sync events, the server's `/messages`, the database.
*Hard*: the crawl is a loop of requests and transactions during which syncs,
redactions, limited syncs, errors and restarts come in.
*Correct when*: every event that can be read is searchable in the end, what is
redacted is not found, a broken room does not starve the others.

**Room list** (`stores/room-list-v3/RoomListStoreV3.ts`,
`skip-list/RoomSkipList.ts`, `skip-list/Level.ts`).
*State*: a skip list of linked nodes in random levels; the payloads on their way
from the client to the store through the dispatcher.
*Operations*: `seed`, `addNewRoom`, `reInsertRoom`, `removeRoom`, `resort`, and
the payloads that `onAction` handles.
*Interactions*: the client changes first; the payload follows in a timer; the
sorter always looks at the client.
*Hard*: the list is searched with an order that has changed under it;
memberships that change again before the first change is handled; room upgrades.
*Correct when*: the links are whole, the list has the joined rooms and no
replaced one, and it is sorted.

**Client lifecycle** (`Lifecycle.ts`, `MatrixClientPeg.ts`,
`device-listener/DeviceListener.ts`, `components/structures/MatrixChat.tsx`).
*State*: the client of the peg, whether it syncs, the services that were started,
`sessionLockStolen`, `mx_soft_logout`, `_isLoggingOut`.
*Operations*: restoring a session, logging in, overwriting and hydrating a login,
soft and hard logout, losing the lock, `whilePaused`.
*Interactions*: the session lock steals; the server ends sessions; services are
started before, with and after the client.
*Hard*: a login passes six awaits, and at each of them the client may be stopped
or replaced behind its back; only some of the stops tell the login.
*Correct when*: no client or service is left running that `stopMatrixClient` would
not stop.

**Presence** (`utils/presence/PresenceSyncLoop.ts`,
`utils/presence/PresencePoller.ts`, started and stopped in `Lifecycle.ts`).
*State*: the loop's token, generation, timer, failures in a row and whether it is in
fallback; the poller's two timers and its backoff.
*Operations*: `start`, `stop`, `onVisibilityChange`, `loop`, `onSuccess`,
`onError`, `runLoop`, `poll`.
*Interactions*: a second `/sync` connection beside the sliding sync, on the same
device; the poller takes over while it fails.
*Hard*: a request of an earlier generation returns beside the current one; a
`since` that is sent deletes to-device messages, which carry the room keys and are
the sliding sync's to receive; the tab is hidden and shown under both.
*Correct when*: no room key is deleted unread, there is one loop and not two or
none, the poller runs exactly in fallback, what is shown becomes true.

**Sliding sync cache** (`utils/sync/slidingSyncCache.ts`, set up by
`MatrixClientPeg.ts`).
*State*: what is kept of each room, the position, the save timer; in IndexedDB two
records, the rooms at the top of the list and the rest.
*Operations*: `record`, `loadFirst`, `loadRest`, `mergeRoomData`, `onMembership`,
`onLifecycle`, `save` from the timer and whenever the page is hidden.
*Interactions*: the SDK resumes the connection from the stored position, and the
server then sends only what came since.
*Hard*: the second record is read while the live sync runs; a save falls between
the two records, or between the rooms of a response and its end; limited, repeated and cut timelines are joined.
*Correct when*: what is stored with a position is complete, a room that was left
does not come back, a kept timeline has no gap.

**Address book** (`utils/contacts/addressBook.ts`, `moveAddressBook.ts`).
*State*: the old account data (cards, history), a pointer to a room and whether it
is pending, the room's state events: a card, or an alias to the id with the card.
*Operations*: `moveWhenReady`, `moveAddressBook`, `saveCardFor`, `planSave`,
`sendWrites`, `relocate`, `clearLegacy`.
*Interactions*: a dozen requests to the server in a row; older clients that know only
the account data.
*Hard*: the move may die at any request and is begun again over what is left; the
old data is emptied in the end, sessions after it was checked; saves have no lock, and
run beside the move and beside each other; when one write throws, the others that were
in flight go on; a book may be held, or empty when the room could not be read; a save
overwrites a card others read through.
*Correct when*: what a move or a save alone writes is what it should, at each of its
requests, and disturbs no other contact; nothing is emptied that the room does not hold;
the move ends.

### How they interact

```
  other tabs --storage events--> SessionLock --onNewInstance--> Lifecycle.onSessionLockStolen
                                    ^                               |
                                    | localStorage.clear()          v
  server --Session.logged_out--> Lifecycle (login, logout) --> MatrixClientPeg --> client
                                                                                    |
                     +------------------------- events of the client ---------------+
                     v                                    v
              EventIndex (at once)           dispatcher (by timer) --> RoomListStoreV3
                     |                                                      |
              database of the index                                    RoomSkipList

  Lifecycle.startMatrixClient / stopMatrixClient --> PresenceSyncLoop --fallback--> PresencePoller
                                                          |  /sync (presence)          | /presence
  server --sliding sync--> client --> SlidingSyncCache    +----------- server ---------+
```

Modelled together: the skip list, the store, the dispatcher and the client's
rooms (`RoomListStore`); the long-poll, the poller, the sliding sync and the
server's inbox (`PresenceSyncLoop`, which extends `PresencePoller`); the cache, the
SDK's connection and the server (`SlidingSyncCache`); the session, the server and an
old client (`AddressBook`). The loss of the lock is an action of
`ClientLifecycle`.

### Components that are not modelled

| Component | Source | Why, or when |
|---|---|---|
| Session credentials and tokens | `utils/tokens/`, `utils/StorageManager.ts` | planned: the token in two stores, the pickle key |
| Inviting many users | `utils/MultiInviter.ts` | planned: rate limits, cancellation, retries |
| Local echo of room settings | `stores/local-echo/` | planned: optimistic value, failure and retry against the server's value |
| Timers and single flights | `utils/Timer.ts`, `utils/Singleflight.ts` | planned with their users |
| The reader's own presence | `Presence.ts`, `UserActivity.ts` | timers of one actor, which tests reach |
| Resending unsent messages | `utils/room/unsentResender.ts` | planned, after the local echo |
| Location sharing | `stores/OwnBeaconStore.ts` | a candidate: publish interval, errors, stopping |
| Room view store, uploads, playback queue | `stores/RoomViewStore.tsx`, `ContentMessages.ts`, `audio/` | candidates; much view state around a few requests |
| Space store, settings | `stores/spaces/SpaceStore.ts`, `settings/SettingsStore.ts` | sequential recomputation, which tests reach well |
| Encryption setup | `device-listener/`, `SecurityManager.ts` | requests to matrix-js-sdk; only start, stop and pause of the listener are modelled |
| Calls | `models/Call.ts`, `LegacyCallHandler.tsx` | most of the protocol is in matrix-js-sdk and the call widget |
| Decryption failure tracker | `DecryptionFailureTracker.ts` | statistics, of no effect on the application |
| History database | `utils/history/` | a cache of timelines; the indexer's start and stop are in `ClientLifecycle` |
| Widgets, notifications, toasts, dialogs, panels | `stores/widgets/`, `Notifier.ts`, `Modal.tsx`, ... | view state; a notification reaches the room list as a change of rank |
| Desktop shell | `apps/desktop/src/` | windows and updates; only the search database is modelled, as the crawler uses it |
| User interface | `components/` | React components |

The models cover about half a percent of the lines of `src/`. The repository is an
application of 2 278 files, and most of its lines are React components, view
models, style and settings: code that computes what to show from what it is
given, in one go. It is not in the nature of such code to be modelled as a state
machine, and no larger share of it was aimed at. The modules are of the places
where several actors meet, and of those, the ones where a mistake would lose
something: a session, a message, a key, a contact.

The hazards of the modelled components, each at its line and with the properties
that would notice it, are listed in `PROJECT.json` under `hazards`; those that no
property covers say why.

## 2 The modules

| Module | Models | Extends or uses |
|---|---|---|
| `SessionHandover` | the promise: the latest claim wins | |
| `SessionLock` | the lock, with any delay, crash, page hide and clock jump | `SessionHandover` (refinement) |
| `SessionLockTimely` | the same lock in a browser that keeps up | `SessionLock` |
| `EventIndex` | crawler, server, database, restarts | |
| `RoomSkipList` | the linked levels of the skip list | |
| `RoomListStore` | store, dispatcher and client | `RoomSkipList` |
| `ClientLifecycle` | logins and logouts of one page | |
| `PresencePoller` | the poller and its polls | |
| `PresenceSyncLoop` | the long-poll, the server and the sliding sync | `PresencePoller` |
| `SlidingSyncCache` | the cache, its records, the connection and the server | |
| `AddressBook` | the move, the saves, the server and an old client | |
| `*Proofs` | theorems about the module they are named after | |
| `MC*` | instances for TLC | |

One step of a model is what the code does from one `await` to the next. A
definition `MutX` beside a definition `X` is X with a plausible mistake in it; no
specification uses it. It is there so that one can replace X by it and see the
property that it is meant for fail.

### SessionLock

A member of `Tab` is one page, and so one call of `getSessionLock`; a reload is
another member. Session identifiers are random and never equal, so a tab stands
for its own.

| In the model | In the code |
|---|---|
| `ping` | the *age* of STORAGE_ITEM_PING, `Date.now() - ping`; negative after the clock was set back, capped at `Expiry`, past which nothing changes |
| `owner`, `claimant` | the other two items |
| `pc[t]` | where the tab is: `waiting` in the `Promise.race`, `bailing` and `releasing` in an await of `onNewInstance`, `held` once it returned true |
| `sleep[t]` | what is left of `sleepPromise` |
| `servicing[t]`, `elapsed[t]` | the interval `lockServicer` |
| `frozen[t]` | the page is in the back/forward cache |
| `inbox[t]` | the keys for which a storage event is queued |
| `Start`, `Wake`, `SleepExpires` | a call of `getSessionLock`, and the two ways its wait ends; each goes up to the next await (`WaitLoop`, `Acquire`) |
| `Superseded`, `Ignore` | `onStorageEvent` |
| `Service`, `Released`, `Pagehide` | `serviceLock`, the end of `releaseLock`, `onPagehideEvent` |
| `Resume`, `Crash`, `Tick`, `ClockBack`, `ClockForward` | the browser |

Events are kept as a *set* of keys and delivered in any order. A listener never
uses the event's value, only the key, and reads the storage again, so that two
queued events of one key have the effect of one.

`SessionHandover` knows only who claimed last and how far each tab is; with
`latest <- claimant` and `phase <- stage` the lock implements it.

`SessionLockTimely` restricts when things happen, not what they do: time passes
only when no tab has an event or a timer left over, and a tab looks at its queued
events before its sleep may end. `RacySpec` is the same without the last
condition.

### EventIndex

The events of a room are numbered from the oldest. A pagination token is a place
between two events. Going back from token p a page holds the events up to p,
going forward those after p. The database keeps `indexed`, `queued` and `stored`
over a restart; `queue`, `crawler`, `needs`, `force`, `adders` and `resets` are in
the page.

`OnSync` is the end of a sync; `SyncEvent`, `SyncRedaction` and `SyncLimited` are
a sync with something in it. `Commit`, `AddRoomCheckpoint` and `AdderStore` are
database calls that take effect in a step of their own. The crawler's loop is
`CrawlTake` (the sleep is over), `FetchFails`, `FetchForbidden`, `FetchEmpty`,
`FetchPage` (the request and the filtering of its page), `CrawlAdd` (the
deletions and the transaction of `addHistoricEvents`), `CrawlNext` (the answer),
and the error paths `CrawlAddFails` and `CrawlNextFails`. The server may or may
not name an end once there is nothing beyond (`NextCheckpoints`).

A room is *excused* when the code gave it up and said so: the server answered
403, or an initial checkpoint could not be stored, which is logged.

### RoomSkipList and RoomListStore

A list is a record with the links of every level, as `Level.ts` keeps them:
`head`, `size`, `next`, `previous`. Searching, inserting and removing follow the
links, so that a link that the code forgets is forgotten in the model. Coin tosses
are nondeterministic. The sorter is `key`, a rank for each room, which is what a
comparator says of the rooms *at that moment*.

`Changed`, `Becomes` and `Forget` are the client: they change `member` or `key`
and put a payload into `pending`. `OnChanged`, `OnMembership` and `OnForgotten`
are `onAction` with the oldest payload; `Drop` is `onAction` before the store is
ready. `OnReady` seeds the list, `Resort` seeds it again in another order.

### ClientLifecycle

`at[l]` is the await in which login `l` is: `restoring` or `replacing` (the pickle
key), `preparing` (the storage), `persisting`, `indexing`, `assigning`,
`starting`. `peg` is the client of `MatrixClientPeg`, named after the login that
created it, and `running` the clients that sync. The services that
`startMatrixClient` starts are grouped by when that is: `before` the client,
`after` it, the `history` indexer, the device `listener`. `Stop` is
`stopMatrixClient`. `Steal`, `SoftLogout`, `LogOut`, `LoggedOut`, `Cleared`,
`Pause` and `Unpause` may come between any two steps of a login.

A login that throws is `failed`. It throws where the code dereferences a client
that is gone: nothing else keeps such a login from going on, which is why these
places are modelled one by one (`AssignFails`, `StartFails`, and the conditions
`peg = None` of `Persisted` and `Indexed`).

### PresencePoller and PresenceSyncLoop

The server numbers what happens: to-device messages (`inbox`) and the changes of
one user's presence. A request of the long-poll is a record in `flight`: its `since`,
how far it is (`sent`, `waiting`, `answered`) and whether its generation is over
(`stale`). `Serve` is the moment the server reads the request, and deletes the
to-device messages up to its `since`, which happens to aborted requests too; `Answer`
is its answer, `Return` the code that goes on with it (`onSuccess`), `Fails` and
`FailsOnce` are `onError`. `timer` is `retryTimer`, which waits for the next round
(`hold`, with to-device messages pending) or after an error. `Start` and `Stop` are
`PresenceSyncLoop.start` and `stop` with what `Lifecycle` calls beside them.
`Receive` and `Acknowledge` are the sliding sync.

A poll of a stopped poller is `late`: its answer is applied all the same. `timers` has
the loops whose `setTimeout` is pending; `Rescheduled` is the end of `runLoop`.

### SlidingSyncCache

What happens in a room is numbered, and each event is part of its state and of its
timeline. A position of the connection is identified with what it stands for: up
to which event each room was sent. `Data` is what the server then says of a room: all
of it, or what came since, with the last `Limit` events (`limited` if that
leaves some out). `Merged` is `mergeRoomData`, `FromNewestMessage` what is written of
a room, `Snapshot` the transaction of both records (`Unseen` is the filter of
`mergeRoomData`, which keeps the incoming events that are not kept yet). `LoadFirst` and `LoadRest` are the
two halves of loading, `Respond`, `TakeRoom` and `Complete` a response, of which each
room is an event of its own to the cache; `SaveTimer` saves when a save is due, `OnHide`
at any moment of a session, before the second record is read too. Which rooms
go into the first record is any choice. Three sets are not in the code: the rooms whose
leave came `early`, before the second record was read; those sent `again` with earlier
events; and those `forgotten`, which were in the second record when a save wrote it anew
without having read it.

### AddressBook

Cards are numbers in the order they are asked for, so that a card's earlier versions
are smaller ones. The variables are in four groups.

| In the model | In the code |
|---|---|
| `server`: `cards`, `past`, `pointer`, `rooms`, `left`, `made` | both old events, the pointer, the state of each room, the rooms left |
| `move`: `at`, `taken`, `scratch`, `book`, `writes` | the request that `moveAddressBook` waits for, what it has read, and what its `sendWrites` has still to send |
| `jobs[j]` | a save, at `waiting` (for the move), `founding`, `announcing` (the first room and the pointer to it), `loading`, `saving`, `recreating`, `copying`, `repointing`, `resending`; or, at `straying`, what the workers of a `sendWrites` that threw have still to send |
| `books`, `held` | the books that jobs write to and change as they do, several jobs the same one; `heldBy(client).book` |
| `due`, `cleared` | the timer of `moveWhenReady`; `legacyCleared` |
| `MovePlan`, `PlanSave`, `CopyPlan` | the planners of `move`, `planSave`, `relocate`, for any number of ids |
| `SendCard`, `SendAlias`, `JobCard`, `JobAlias` | the requests of `sendWrites`, of all queues at once, the cards before the aliases |
| `SendFails`, `JobSendFails`, `Stray` | a write that throws: the move or save ends, while what is left in the queues of the other workers may be sent beside whatever comes next |
| `Fail`, `JobFails` | another request that throws |
| `Ask`, `Found`, `Announce` | `saveCardFor` up to its book; any number of saves, of any ids, at a time |
| `LoadHeld`, `LoadRoom`, `LoadNothing`, `Look` | `loadAddressBook`: the held book, the room, or neither, in which case the save goes on from an empty book |
| `Forbidden`, `Recreate`, `Copied`, `Repoint` | `relocate` when the reader has left the room |

Nothing waits for anything else, but that saves wait for a move as `writableBook` does.
`OldSave`, a client from before the room, writes whenever it likes; `Leave` is another
client that leaves a room, `Crash` the page closed at any point.

Three variables are not in the code. `meddled`: a job has written since the move
began. `checked`: nothing has written since a move that wrote alone was verified.
`watched[j]`: whether save j has written *alone* since it made its plan from what the
room says, what was read then (`before`), and which ids it touches. A job or the move that
writes to a room, to the pointer or to a book ends this for all others, a failed
write also for its own save.

An alias is *torn* when its id has a card as well, or the alias leads to no card: a save
or a move that was cut off, or that strays write beside, leaves such ids behind. `Unsure`
are these and the ids that read through them.

## 3 The runs

| Run | Instance | Distinct states |
|---|---|---|
| `lock` | 2 tabs, expiry 2, interval 1, clock back by 1 | 3 498 |
| `lock_timely` | 3 tabs, expiry 4, interval 2, clock back by 1, symmetry | 4 565 |
| `crawl_rooms` | 2 rooms of up to 4 events, one unreachable, pages of 2; a live event, a limited sync, a missed redaction, a failed call | 642 382 |
| `crawl_gaps` | 1 room of up to 6 events, pages of 2; 2 limited syncs, a live redaction, a restart | 338 198 |
| `room_list` | 3 rooms, one replaces another; 2 levels, 2 ranks, 3 events of which 2 may be pending | 237 973 |
| `lifecycle` | 3 logins, symmetry | 12 939 |
| `presence` | 1 client, 2 polls at a time, 3 positions, 1 hiding, 1 flip of `/sync`, 1 fault, fallback after 2 | 413 054 |
| `sync_cache` | 2 rooms of 3 and 1 events, limit 1, 2 kept, 1 fault | 574 608 |
| `book_move` | 2 ids, 1 job, 2 versions, 5 rooms, 1 leave, 2 faults | 487 352 |
| `book_saves` | 2 ids, 2 jobs, 2 versions, 2 rooms, 1 leave, no fault | 500 287 |
| `crawl_restart`, `cache_hidden` | find a violation, see section 5 | |

**`lock`**: what holds whatever the browser does.
`NoForgottenHolder`: a tab that waits or runs and is not the latest claimant has
a later claim's event queued. `LatestNeverYields`: the tab whose claim is in the
storage is not told to stop, however late older events are. `HandsOver`: the
refinement. `EveryClaimSettles`: no tab waits for ever. `EventuallySole`: in the
end at most one tab runs.
*Bounds*: the claims and events of two tabs already meet in every order; a third
tab is in the other runs and in the proofs, which have any number. Expiry 2 with
interval 1 leaves a ping that is fresh, ageing and stale; with the clock back by 1
it is also in the future.

**`lock_timely`**: in a browser that keeps up, `MutualExclusion` (the promise of
`SessionLock.ts:93-96`) and `LiveHolderIsSeen` (`checkSessionLockFree` never calls
the lock of a running tab free).
*Bounds*: three tabs, so that one may hold, one release and one wait. In the code
the expiry is three intervals; here it is two, which is harder, and the proof only
needs it to be longer than one.

**`crawl_rooms`**: `EventuallyIndexed`, `CrawlEnds` and `RedactedGoes` with one room
whose requests always fail: it does not keep the other from being indexed, or its
crawl from ending. A request or a database call of the other may fail too, and a
limited sync may swallow a redaction, which the crawler then meets alone.
*Bounds*: two rooms are enough for one to starve the other; one failed call at
any point, each path of `catch` included.

**`crawl_gaps`**: `EventuallyIndexed` when limited syncs leave gaps during the first
crawl or after it, with a live redaction, and when the page is killed at any
point. `TypeOK` is not only typing here: that a token stays within the room
depends on the end of every page.
*Bounds*: with six events and pages of two, a second gap can open before the first
is crawled, and one gap can take two pages, so that its crawl has to go on from a
stored continuation. One restart at every point: what a second one meets after it
is a state like the first.

**`room_list`**: `LevelsNest`: each level's links lead forth and back, the sizes
agree, and a level is a sublist of the level below it, though ranks change between
the insertions. `JoinedAreListed` and `ReplacedAreNot` when the store has heard of
everything. `ReinsertionSorts`: a room that alone is out of place is put in order.
*Bounds*: three rooms are the fewest in which a room is taken out from between two
others; two levels are the fewest that can disagree; two pending payloads are the
fewest that can be handled in a state that a later one has made. Deadlock is not
checked: when the events are used up and handled, the model rests.

**`lifecycle`**: `StolenHasNoClient`: a tab that lost the lock has no client and
starts none. `NoClientIsLost`: no client syncs but the one `stopMatrixClient` would
stop. `AbandonedIsQuiet`: no login starts services after its client was given up.
`SoftIsQuiet`: after a soft logout nothing runs once the login under way is over. That
the state is well-typed is only proved.
*Bounds*: with three logins one may be in its last awaits, one in its first, and
one to come. The proofs have any number. Deadlock is not checked: the user may log
in no more.

**`presence`**: `KeysAreKept`: every to-device message is with the server or was
received by the sliding sync. `OneDriver`: a loop that should run has exactly one
request or timer, one that should not has none. `PollsInFallback`, `PollerLives`: the
poller runs exactly in fallback, with both its loops and each once.
`EventuallyShown`: in a tab that ends up open and logged in, what is shown ends up as
it is on the server.
*Bounds*: one flip breaks `/sync` or mends it, and it may begin broken; one hiding
puts a stale request beside every stage of a current one. With fallback after two
failures there is a failure that is not the last. Larger instances were checked
once: two clients without hiding, two clients with two positions, two flips. Deadlock
is not checked: once the bounds are used up in a hidden tab, nothing happens.

**`sync_cache`**: `NothingIsMissing`: what is stored with a position holds, of each room
the reader is in, all that the server will not send again from there; except for the
rooms of a second record that a save wrote away unread (`forgotten`, section 5).
`LeftStaysGone`: a room whose leave is behind the position is not stored, unless it was
left before the second record was read. `KeptIsWhole`: kept events are the latest, in
order and without a gap, and the token leads back from the earliest, but for rooms sent
`again`. `EventuallyWhole`: again and again, the reader has all of every room that was not
forgotten, however sessions are cut off and positions expire.
*Bounds*: with 3 events, a limit of 1 and 2 kept, a response can be limited by one or
by two events, and what is kept is cut; the second room is what a save, a hidden page or a
crash comes between. `KeptIsWhole` was also checked once for one room of 5 events, with a
limit of 2 and 3 kept (176 607 states). Deadlock is not checked: with every event sent
and the app closed after its last crash, it is only opened again.

**`book_move`**: `MovesVerify`: the check at the end of a move fails for no fault of the
move, whatever an earlier one left in the room. `MovesKeepReads`: no step of a move that
writes alone, the switch to the room and the emptying among them, changes what is read of
another contact. `EmptyingLosesNothing`: the old events are emptied of no card that was
taken and that the room does not hold. `EventuallyMoved`: they end up empty, however often
sessions are cut off, unless the reader has left the room.
*Bounds*: two ids are the fewest that share a card; of two versions one replaces the
other; five rooms are never used up by two faults and one leave; two faults cut a move off
and then its repetition, or let a write throw and the strays meet the next move. The one
job is a save or a stray. Deadlock is not checked, for the bounds end what can be saved.

**`book_saves`**: two saves at a time, of the same ids or others, beside a move and an old
client. `SavesKeepTheRest`: while a save alone writes, wherever it is, what the contacts
read that share nothing with its ids stays as it was, also in the middle of the copy to a
new room. `SavesSayWhatIsAsked`: when it has sent everything, its ids read what was asked
for, and the others what they read before, also those that lost their card to it.
*Bounds*: two ids share a card or do not; the second room is the one that is copied to.
No fault, for a save is not followed beyond its failure, and every state in which it can be
cut off is one of the run; the proofs have any number of faults, jobs and ids.

## 4 Fairness

`SessionLock.Fairness`: time passes, due timers fire, queued storage events are
delivered and `onNewInstance` resolves (it stops the client and shows another
page). `Superseded` and `Released` get strong fairness: they do not happen while
the page is frozen, and a page that the user leaves and shows again and again is
shown often enough to get its event. Nothing is assumed of the user, of crashes or
of the clock.

`EventIndex.Fairness`: syncs go on (the client polls for ever), the database
answers, and the crawler's sleep ends; its steps are one fairness condition, for
the crawler is always in one place. A request may fail for ever only in rooms that
are `Unreachable`, and elsewhere as often as `MaxErrors` says. Live events, gaps
and redactions are bounded, so that they end.

`PresenceSyncLoop.FairSpec`: timers fire, requests are answered or fail, backoff ends and
the sliding sync goes on. `/sync` may be broken for ever; then every request fails and
the poller has to do. A fault of its own happens to a request as often as `MaxFaults`
says.

`SlidingSyncCache.FairSpec`: a session goes on with what it has to do (`Steps`, one
condition: nothing in it waits for ever while the rest goes on), and the app is opened
again and closed when it has nothing to do. Only crashes and failures are bounded. That a
page is hidden is not required.

`AddressBook.FairSpec`: the timer of `moveWhenReady` fires, a move goes on (`MoveSteps`,
one condition: it waits for one thing at a time, or for the queues of `sendWrites`), so
does each save (`SaveSteps`, one condition for each), and the app is closed when nothing is
to be done, and opened again. The conditions are apart because saves and the move do not
wait for each other's requests. Nothing is required of strays, which may end at any point,
nor of the reader and of other clients.

The room list and the lifecycle have safety properties only.

## 5 What the checks found

Two runs end in a counterexample on purpose. Each shows the code doing something
else than a comment of the repository says; `PROJECT.json` quotes the lines.

* **`crawl_restart`** (`EventuallyIndexed`). Enabling the index in the settings adds
  the initial checkpoints, and the next sync adds them again. The forward
  checkpoint's second copy finds its page indexed and removes the continuation
  that the first copy stored; a restart then knows nothing of the rest of the room.
* **`cache_hidden`** (`GivenIsCarriedOver`). A page that is hidden after `loadFirst` and
  before `loadRest` saves: the second record is written anew without its rooms, and with
  the position (`slidingSyncCache.ts:382-384`). If the session is cut off before it saves
  again, the next resumes from a position after which the server does not send those rooms
  again.

More properties are stated in the modules that a comment of the repository claims or
suggests and that TLC finds violated, with the constants named here; to see it, put the
property into the `.cfg` of a run with these constants:

* `StoppedStaysStopped` (`ClientLifecycle`; as `lifecycle`). `whilePaused` takes the client
  before its await and starts the listener with it after it, even if the client was
  stopped meanwhile (`DeviceListener.ts:131`).
* `NewestIsWritten` (`SlidingSyncCache`; as `cache_hidden`). "What is written of a room's
  timeline: its newest message and what came after it" (`slidingSyncCache.ts:151`). After a
  new connection a room is described again, and the description reaches back behind the
  events that are kept. They stay in front and the earlier ones are put after them
  (`slidingSyncCache.ts:128`).
* `MovingAgainIsSafe` (`AddressBook`; 2 ids, 1 job, 3 versions, 2 rooms, 1 fault). "Moving
  again is safe" (`moveAddressBook.ts:23`). When a write throws, `Promise.all` rejects while
  the other workers go on (`addressBook.ts:331`); the next move of the session may be
  overtaken by an older version that they send, and its check fails.
* `OthersSayWhatTheySaid` (`AddressBook`; 2 ids, 1 job, 2 versions, 2 rooms, 1 fault). "every
  other id says what it said before" (`addressBook.ts:238`). If the room could not be read
  and no book is held, a save plans on an empty book (`addressBook.ts:374`) and overwrites a
  card that others read through their aliases.
* `EverythingIsInTheRoom` (`AddressBook`; 2 ids, 1 job, 2 versions, 2 rooms). "once
  everything in them is verified to be in the room" (`addressBook.ts:118`). What an old
  client writes between the check of a move and the emptying is emptied away.
* `EventuallyAllMoved` (`AddressBook` with `FairSpec`; 1 id, 1 job, 2 versions, 2 rooms, 1
  leave). What an old client wrote "is moved over the room's copy"
  (`moveAddressBook.ts:27`). Only a save makes a new room when the reader has left the one in
  use; a move to it throws each time, and so does each save, which waits for the move.
* `SavedIsFound` (`AddressBook`; 2 ids, 2 jobs, 2 versions, 2 rooms). "Saves a card against
  every one of `ids`" (`addressBook.ts:416`). Two saves before there is a room make a room
  each (`addressBook.ts:371`), and one card is in the room that nothing points to.

Seen while modelling, without a run of their own:

* When the sleep wins the race in `getSessionLock`, the lock is taken without looking
  again (`utils/SessionLock.ts:256-263`). The event loop may run a due timer before a
  queued storage event, and then two tabs run until the event arrives:
  `MutualExclusion` fails under `RacySpec` of `SessionLockTimely`, which differs from
  `TimelySpec` in nothing else.
* `clearStorage` clears the lock's items with all others, and a tab that waits reads
  null in place of its claim and gives up, though nobody claimed after it.
* A page of which every event was filtered out counts as "already added", and the
  crawl of a gap ends there: `EventuallyIndexed` fails with pages of one event and a
  redaction that is missed.
* When two rooms change before the room list hears of the first, both are out of place
  when the first is inserted again; its search stops at the other, and the list stays
  unsorted (`SortedAtRest` of `RoomListStore` fails in the instance of `room_list`).
* A save that is cut off can leave an id with a card and an alias. A later save of the
  card it points to takes it for an alias and overwrites its card
  (`addressBook.ts:256`).
* A move over a room in use clears the card of an id whose contact has another id's card,
  and overwrites cards, without looking who reads them through an alias
  (`moveAddressBook.ts:148`).
* A poll that is answered after its poller was stopped is applied, and shows an older
  presence than the long-poll has shown, until the next change of that user.
* `addRoomCheckpoint` keeps a checkpoint that the database refused in memory only
  (`EventIndex.ts:442`); a room whose whole history is in its live timeline gets no
  checkpoint (`EventIndex.ts:162`); a crawler that waits for a decryption does not look
  at `cancel` after it, and may write into the index that was opened next.
* When the room that replaced another is forgotten, the other is not listed again until
  the list is seeded (`RoomListStoreV3.ts:488`).
* `OverwriteLogin` that comes while a login is between `EventIndexPeg.init` and
  `startClient` replaces its client, which is then started and never stopped
  (`Lifecycle.ts:98`).

The passing runs do not contain these cases: `crawl_rooms` and `crawl_gaps` begin
with at most one addition of initial checkpoints on its way, and in their instances
no page of a gap is blank that has unindexed events of the gap below it;
`AbandonedIsQuiet` and `SoftIsQuiet` leave the device listener out, and
`ReinsertionSorts` is about a room that alone is out of place; `KeptIsWhole` leaves out
rooms that were sent `again` with earlier events, `LeftStaysGone` those left before the
second record was read (`early`), `NothingIsMissing` and `EventuallyWhole` those that a save
wrote away unread (`forgotten`), and `EventuallyShown` a late poll (`outdated`). Of the
address book: `MovesVerify` and `MovesKeepReads` hold until a save or a stray writes beside
the move (`meddled`), and `MovesKeepReads` leaves out what the old events hold for a room in
use, with those that share a card with it, and before that what an old client has written
since (`Disturbed`); `EmptyingLosesNothing` is about what the move took, until somebody
writes (`checked`); `SavesKeepTheRest` and `SavesSayWhatIsAsked` hold for a save that was
planned on what the room said, until something else writes (`watched`), the second not for
ids that were torn, or read through such, before.

## 6 Proofs

Eight modules hold theorems that `tlapm` checks with Z3, Zenon and LS4. Nothing is
assumed but the named assumptions on the constants (that they are numbers, that
`None` is not one, nor a room or a job, that there are finitely many rooms, that the
interval of the lock is shorter than its expiry: 5 s and 15 s in the code, ...).

The theorems on induction of the library take an operator, which the installed provers
cannot instantiate. What a recursive definition computes is shown by a least
counterexample instead (`LeastOf`, from the well-foundedness of the numbers): the
function is shown to exist step by step (`Iterates`, `FilterExists`), the `CHOOSE` that a
recursive definition stands for is such a function, and a first number at which it does
not have the property leads to a contradiction. To make this possible the search, the
seeding and the chains of predecessors are functions of one argument in the models,
and the filter of `mergeRoomData` is `Unseen` and not `SelectSeq`, of which the provers
know nothing.

| Theorem | States |
|---|---|
| `SessionLockProofs!TypeCorrect` | `Spec => []TypeOK` |
| `SessionLockProofs!NoHolderIsForgotten` | `Spec => []NoForgottenHolder` |
| `SessionLockProofs!TheLatestNeverYields` | `Spec => []LatestNeverYields` |
| `SessionLockProofs!LockHandsOver` | `Spec => HandsOver`: the lock implements `SessionHandover` |
| `SessionLockProofs!TheLockExcludes` | `TimelySpec => []MutualExclusion` |
| `SessionLockProofs!TheHolderIsSeen` | `TimelySpec => []LiveHolderIsSeen` |
| `ClientLifecycleProofs!LifecycleTypes` | `Spec => []TypeOK` |
| `ClientLifecycleProofs!TheStolenHaveNoClient` | `Spec => []StolenHasNoClient` |
| `ClientLifecycleProofs!TheClientCanBeStopped` | `Spec => []NoClientIsLost` |
| `ClientLifecycleProofs!TheAbandonedAreQuiet` | `Spec => []AbandonedIsQuiet` |
| `ClientLifecycleProofs!SoftLogoutsAreQuiet` | `Spec => []SoftIsQuiet` |
| `PresenceSyncLoopProofs!TypeCorrect` | `Spec => []TypeOK` |
| `PresenceSyncLoopProofs!NoKeyIsLost` | `Spec => []KeysAreKept` |
| `PresenceSyncLoopProofs!TheLoopHasOneDriver` | `Spec => []OneDriver` |
| `PresenceSyncLoopProofs!TheFallbackFollows` | `Spec => []PollsInFallback` |
| `PresenceSyncLoopProofs!ThePollerLives` | `Spec => []PollerLives` |
| `SlidingSyncCacheProofs!NothingIsLost` | `Spec => []NothingIsMissing` |
| `SlidingSyncCacheProofs!TheLeftStayGone` | `Spec => []LeftStaysGone` |
| `SlidingSyncCacheProofs!TypeCorrect` | `Spec => []TypeOK` |
| `SlidingSyncCacheProofs!KeptStaysWhole` | `Spec => []KeptIsWhole` |
| `AddressBookProofs!TypeCorrect` | `Spec => []TypeOK` |
| `AddressBookProofs!SavesDoAsPlanned` | `Spec => []SavesAsPlanned` |
| `AddressBookProofs!MovesAreVerified` | `Spec => []MovesVerify` |
| `AddressBookProofs!NothingIsEmptiedAway` | `Spec => EmptyingLosesNothing` |
| `AddressBookProofs!MovesLeaveReads` | `Spec => MovesKeepReads` |
| `AddressBookProofs!SavesLeaveTheRest` | `Spec => []SavesKeepTheRest` |
| `AddressBookProofs!SavesSayIt` | `Spec => []SavesSayWhatIsAsked` |
| `RoomListStoreProofs!Types` | `Spec => []TypeOK` |
| `RoomListStoreProofs!Nesting` | `Spec => []LevelsNest` |
| `RoomListStoreProofs!Listing` | `Spec => []JoinedAreListed` |
| `RoomListStoreProofs!Replacing` | `Spec => []ReplacedAreNot` |
| `RoomListStoreProofs!Reinsertion` | `Spec => ReinsertionSorts` |
| `EventIndexProofs!TypeCorrect` | `Spec => []TypeOK` |

**The lock, whatever the browser does.** `NoForgottenHolder` is inductive with
`TypeOK`: a claim is written in the same step in which its event is queued at every
other tab, an event is consumed only in a step that looks at the claim, and a tab
whose own claim is the newest cannot have been superseded. The refinement needs no
more than the invariant `LatestNeverYields` and the way each action moves `pc`.

**The lock excludes.** `MutualExclusion` alone is not inductive: in a state in
which a tab runs and another's sleep is about to end, the next step breaks it. The
strengthening `TimelyInv` says why that state is not reached:

* `HolderPings`: whoever runs is the owner, serves the lock, and its ping is no
  older than its interval. As the interval is shorter than the expiry, no tab
  that *looks* takes the lock.
* `SleepersOutlast`: whoever waits without news has slept since a ping of that
  holder: what is left of its sleep and what has passed of the holder's interval
  make up an expiry. As time passes only when no timer is due, no sleep ends
  before the holder's next ping, whose event starts it anew.
* `OnlyHoldersServe`: nobody else refreshes the ping.

`RacySpec` shows that the guard this rests on (news first) is not for free.

**The lifecycle.** `IInv` adds to the four properties what keeps a login's first
awaits safe. `EarlyAreAlone`: a login without its client is the only one, no
service runs whose events could end the session, and no client runs that the new
one would hide. `SoftStops` says what is left to stop between a soft logout and
the end of the login. `IInv` was also checked with TLC.

**The long-poll.** `KeysAreKept` is inductive with `UnreadIsAhead`: every token that the
loop has, a request in flight carries or a current answer brings is older than every
message the sliding sync has not received. An answer with messages pending does not
bring its token into the loop; an answer without them was made when the inbox was
empty, so that what is unread is newer. `OneDriver` is inductive with `TypeOK`, and
`PollsInFallback` and `PollerLives` with the two.

**The room list.** A list is `Kept` when there is one order of the rooms (`ord`) and for
each level j a set of rooms, `M[j]`, that the level links in this order, `next` and
`previous` both; the sets nest. The order is not that of the ranks, which change under
the list. Because every level uses the same order, one level is a sublist of the one
below as soon as its set is a subset (`Nesting`). `RoomSkipListProofs` follows each
operation of `Level.ts` on such links (`Unlinks`, `LinksIn`), then level by
level through `removeRoom` and `insertRoom`: where the search of a level stops (`Stops`)
the room can be put into the order, whatever the ranks are, and the place is the same
for all levels, as a search goes on where the one above has stopped. If all other rooms
are in the order of their ranks, the room is after the last that ranks lower, which is
`Reinsertion`. `seed` begins with an empty list. In the store `Heard` says what it has
not heard of yet is on its way: `OutOrIn` (a room that we are in, though a payload takes
it out, has a later one that brings it in), `SettledAreListed` and `ReplacedAreKnown` (a
listed room that one we have joined replaces is taken out by the payload of the
joining). `IInv` was checked with TLC too.

**The sliding sync cache.** `Covered`: whatever a room is held as, in memory or in the
record that is still to be read, has all that the connection has been sent of it
(and the position to be stored), or it lacks its creation; and a snapshot with a
room that lacks its creation has no position. The lemma `MergedCovers` says that
merging keeps it. `LeftStaysGone` is proved from `Gone`, the same for rooms that were
left.

`KeptIsWhole` needs the opposite bound (`Whole`): the connection and the position to be
stored are not ahead of the events that are kept, so that an update of a room that is
not limited begins right after these, or earlier (`Extents`). This fails for a room
whose leave came before the second record was read, but then nothing more can come of
it than the leave (`Stays`). `MergedIsUnbroken`: an update that begins no later than
right after the kept events, and no earlier than they do (else the room is in `again`),
leaves consecutive events; one that is limited and does not have the earliest kept
event replaces them. None of this
depends on when a page is hidden: that loses rooms, but does not damage one. `Covered` does,
and leaves out the rooms that were `forgotten`.

**The plans of the address book.** The two planners are for any number of ids that share
cards and aliases in any way. `ViewAt` is what an id reads once all of a plan is sent.
`MovePlanIs` and `PlanSaveIs` prove of it what the planners promise, on any book in which
no id is its own alias. `CardSends` and `AliasSends`: sending a write changes no `ViewAt`,
because of a queue of versions the earliest goes first and the latest stays
(`LatestStays`; that a set of versions has an earliest and a latest comes from the
well-foundedness of the numbers, since an induction is out of reach). With what they are
typed by (`TInv`: every room, book and plan, whoever writes it, has no id that is its own
alias, and versions in a history are older than their card) the planners' promises hold
of every room that is reached (`SavesAsPlanned`: planSave changes what its ids read and, but
for torn ids, nobody else's).

**The moves of the address book.** `MInv` says what is left of a move's promise at each
request, as long as nobody `meddled`: where it aims (`Aims`), that the room read through what
is still to be sent says what was taken (`Sends`), and after the check that the room does
(`Checks`). `MovesVerify` is its last part; `MovesKeepReads` follows because a move over a
room in use writes only to ids of the old events. `EmptyingLosesNothing` speaks of one step,
but what it needs may have been settled sessions before: `CInv` keeps, from the check until
somebody writes (`checked`), that the room in use holds what its pointer says was moved, so
that a session that finds the hash of the old events there may empty them at once.

**The saves of the address book.** `WInv` follows a save that alone writes (`Guarded`): it
stands at a place where its own book is what its room says, and what it has still to send
leads to the plan's result, in the room in use or, while it copies, in a room that nobody
reads yet (`Stands`); and all of the plan, sent to the room in use, would leave every id that
it does not ask for as it was read, and it writes to nothing that an id reads through that
it does not touch (`Meant`). `SendMeans` is the step of one request, `RepointGuards` the one
in which the copy becomes the room in use. Any number of other saves and strays may be there
as long as they do not write; when one does, or a request fails, the promise ends, as there is
none in the code.

**The crawler's tokens.** `TInv` types what the crawler, the adders and the database
hold. What takes an argument in it is the token at the end of a page: `PageIs` bounds
it by the room from the number of events a page can have between its token and the
end of the room (`SizeIs`), so that a crawl in either direction never steps out of its
room, whatever the size of a page. That the database's checkpoints can be put into the
queue at a restart (`SetToSeqIs`) needs their set to be finite, and so the set of rooms.
`BoundsAssumption` says that, and that a run that starts in the middle of a crawl has
history to crawl.

**Only model-checked.** Liveness (`EveryClaimSettles`, `EventuallySole`,
`EventuallyIndexed`, `RedactedGoes`, `CrawlEnds`, `EventuallyShown`,
`EventuallyWhole`, `EventuallyMoved`): the proof system does not reason about fairness
and `ENABLED`. The coverage that is behind `EventuallyIndexed`: not attempted, section 8
says how. The properties that are violated.

## 7 What is assumed and left out

*Session lock.* In `SessionLock` no timing is assumed, only, for liveness, that
`onNewInstance` resolves: one that rejects or hangs leaves the lock with its interval
running (`SessionLock.ts:176-178`, 205) and is not modelled. `SessionLockTimely` assumes that no timer
or event is a whole tick late, that no page comes back from the back/forward
cache and that the clock is not set forward: with any of these two tabs may run
for a while, by the design of the lock; `lock` says what still holds then.
`localStorage` is taken to be atomic and shared at once.

*Search index.* A sync that was not saved when the page died is received again, so
`resets` and `queued` outlive a restart. What the database does with the deletion
of an event that it has queued but not committed is not in this repository;
such deletions are left out. Not in the passing runs, though in the code (see the
hazards): a live redaction between the filtering of a page and its transaction,
which puts the event back; a room with no back-pagination token, which gets no
checkpoint; a second adder; blank pages of a gap. Not modelled: closing, deleting
and reopening the index, stopping the crawler, a room that becomes encrypted
(`onRoomStateEvent`), searching, file events. Failing calls and a restart are in
different runs. The deletions and the transaction that follows them (`EventIndex.ts:632-643`)
are one step, `CrawlAdd`. A token names a place, the same in every answer of the server;
in a larger instance a gap's continuation can therefore be the very checkpoint of
an older gap, which matters only for a server that names its tokens like that.

*Room list.* A rank stands for all of a sorter. `MaxLevel` bounds the levels.
Spaces, sections and filters choose among the listed rooms. A logout
(`onNotReady`) is not modelled. Knocking counts as being in a room only with
`feature_ask_to_join` (`membership.ts:49-52`) and is left out. Whether the client still returns left rooms
is not known from this repository; the model lets it, and no property says that
left rooms are absent.

*Presence.* One user and one room's poll stand for all. `snapshot()` and which users a
poll asks for are left out, as are the times: a timer fires at some time. An answer of
`/sync` has the latest presence if it changed after the `since`. `sent` counts
to-device messages only, and the sliding sync acknowledges what it has received.

*Sliding sync cache.* An event is a state event and a message at the same time. A
position is what it stands for; the SDK and the server are modelled from how this code
uses them. A leave is the last event of its room; invites, account data and
previews are left out. Saves are at any time, from the
timer only when one is due. Hiding the page before the first record is read empties the cache,
which costs a new connection only.

*Address book.* A request is one step with its effect. A write of a save may throw though
it has reached the room; of all other requests an answer that is lost is a failure of the
next one, so that a pointer that was written though its request threw, with the held pointer
staying what it was, is not modelled. Requests are sent again when the server limits them, up
to eight times (`addressBook.ts:304`); that is part of the request. A stray may end early.
`Job` bounds how many saves and strays there are at once: without a free job a stray ends
and no save is asked for. One session at a time runs: a second tab is kept out by the session
lock, a second new client on another device is not modelled. A session is closed only after
the timer of `moveWhenReady`, or is cut off. The hash of the old events is taken to tell all
contents apart: what an old client writes is a new version, so that it does not bring back
contents that were moved before. Photos, backups, the history of a card in the room and merging
suggestions are left out.

*Lifecycle.* The application offers no login while another is without its client.
`OverwriteLogin`, which a module sends, is taken to come when no login is between
`EventIndexPeg.init` and `startClient`, since there is no page of the application
then; were it to come there, a client would be lost (see the hazards).
`stopClient` is taken to stop the client. That `stopMatrixClient` stops and unsets the index
(`Lifecycle.ts:1233`, 1241) has no counterpart: the index is not one of the services. How credentials are found, encrypted and
stored, and what services do, is left out.

## 8 The plan

Done, in this order: the lock with its abstract specification, its timely variant
and proofs; the crawler; the skip list and the store; the lifecycle and proofs; the
presence loop with its fallback and proofs; the sliding sync cache and proofs; the
address book and proofs; then the proofs of the room list and of what the cache keeps;
then the address book again, with saves beside each other and beside the move, writes that
go on after one has thrown and books that could not be read, and its proofs anew.

To do, models first:

1. `EventIndex`: `stopCrawler`, `close`, deleting and reopening the index, the
   crawler that outlives its index, `onRoomStateEvent`. Run `crawl_gaps` extended
   by a stop; property: a closed index is not written to.
2. `RoomListStore`: `onNotReady` and the second `onReady` on an old list; sections.
3. `ClientLifecycle` composed with `SessionHandover`: a page per tab, the client of
   each; property: at most one client on the encryption store, which follows from
   `MutualExclusion` and `StolenHasNoClient` and is to be proved from them.
4. `SessionTokens`: the token in `localStorage` and IndexedDB, the pickle key, a
   restart between the two writes; property: a stored session can be restored or
   is recognised as broken.
5. `LocalEcho`: transactions, failure and retry; property: the shown value is the
   server's once nothing is pending.
6. `MultiInviter`: rate limits, cancellation, retry; property: every address is
   decided once, and the inviter ends.

Bounds as now: two actors for what two can race, a third where a third changes
the matter, and every kind of failure once.

To prove:

1. `EventIndex`: the coverage invariant that is behind `EventuallyIndexed`, with the
   gap pages left out that come back blank (section 5): whatever is neither indexed
   nor queued is below or above a checkpoint that is stored and is queued or in the
   crawler's hands, or was handed to an adder.
2. The refinement of the composition in item 3 above, and the invariants of the modules
   to come.

---------------------------- MODULE SessionLock ----------------------------
(***************************************************************************)
(* The cross-tab session lock of apps/web/src/utils/SessionLock.ts.        *)
(*                                                                         *)
(* Every member of Tab is one page of the application, and so one call of  *)
(* getSessionLock with its own random session identifier; a reload is      *)
(* another member.  The tabs share three localStorage items and hear of    *)
(* each other's writes through `storage' events, which the browser         *)
(* delivers later, one by one, to every tab but the writer.                *)
(*                                                                         *)
(* JavaScript runs to completion between two awaits, so a step of the      *)
(* model is everything a tab does from one await to the next.  The session *)
(* identifiers of two tabs are never equal, so a tab stands for its own.   *)
(*                                                                         *)
(* Time is counted in ticks.  The value of STORAGE_ITEM_PING is kept as    *)
(* its age, Date.now() - ping, which is negative after the system clock    *)
(* was wound back, and is capped at Expiry, past which nothing changes.    *)
(***************************************************************************)
EXTENDS Integers, FiniteSets

CONSTANTS
    Tab,        \* the pages of the application that are ever opened
    None,       \* null, as localStorage.getItem returns it
    Expiry,     \* LOCK_EXPIRY_TIME_MS, in ticks
    Interval,   \* the period of the lock servicer, in ticks
    MaxBack     \* bound: how far the system clock can be wound back

ASSUME NoneAssumption == None \notin Tab /\ None \notin Int
ASSUME TimeAssumption ==
    /\ Expiry \in Nat \ {0}
    /\ Interval \in Nat \ {0}
    /\ MaxBack \in Nat

VARIABLES
    ping,       \* age of STORAGE_ITEM_PING, or None
    owner,      \* STORAGE_ITEM_OWNER
    claimant,   \* STORAGE_ITEM_CLAIMANT
    pc,         \* where each tab is in getSessionLock
    sleep,      \* ticks left of a waiting tab's sleepPromise
    servicing,  \* does the tab hold an interval (lockServicer # null)?
    elapsed,    \* ticks since the tab's interval last fired
    frozen,     \* is the page hidden in the back/forward cache?
    inbox       \* keys of the storage events queued for each tab

storage == <<ping, owner, claimant>>
vars == <<ping, owner, claimant, pc, sleep, servicing, elapsed, frozen, inbox>>

Ages == (-MaxBack)..Expiry

(* The storage items whose events have a listener; OWNER is diagnostic.    *)
Keys == {"ping", "claimant"}

(* idle       loaded, getSessionLock not yet called                        *)
(* waiting    in the Promise.race of sleepPromise and storageUpdatePromise *)
(* bailing    awaiting onNewInstance before returning false                *)
(* held       returned true: the application is running                    *)
(* releasing  in releaseLock, awaiting onNewInstance                       *)
(* done       returned false, or released the lock                         *)
(* gone       closed, discarded or crashed                                 *)
Phases == {"idle", "waiting", "bailing", "held", "releasing", "done", "gone"}

TypeOK ==
    /\ ping \in Ages \cup {None}
    /\ owner \in Tab \cup {None}
    /\ claimant \in Tab \cup {None}
    /\ pc \in [Tab -> Phases]
    /\ sleep \in [Tab -> 0..Expiry]
    /\ servicing \in [Tab -> BOOLEAN]
    /\ elapsed \in [Tab -> 0..Interval]
    /\ frozen \in [Tab -> BOOLEAN]
    /\ inbox \in [Tab -> SUBSET Keys]

Init ==
    /\ ping = None /\ owner = None /\ claimant = None
    /\ pc = [t \in Tab |-> "idle"]
    /\ sleep = [t \in Tab |-> 0]
    /\ servicing = [t \in Tab |-> FALSE]
    /\ elapsed = [t \in Tab |-> 0]
    /\ frozen = [t \in Tab |-> FALSE]
    /\ inbox = [t \in Tab |-> {}]

-----------------------------------------------------------------------------
(* Storage                                                                 *)

(* The application runs in t: it may use the session's stores.             *)
Running(t) == pc[t] \in {"held", "releasing"} /\ ~frozen[t]

(* The inboxes once t has consumed the keys `read' and written `wrote'.    *)
(* A write is announced to every other page that is still there.           *)
Mail(t, read, wrote) ==
    [u \in Tab |-> IF u = t THEN inbox[u] \ read
                   ELSE IF pc[u] = "gone" THEN {}
                   ELSE inbox[u] \cup wrote]

(* removeItem announces nothing when the item is not there.                *)
Removed == IF ping = None THEN {} ELSE {"ping"}

(* Mutant: Math.max(timeAgo, 0) forgotten.                                 *)
MutRemaining == IF ping = None THEN 0 ELSE Expiry - ping

(* Ticks until the current ping is stale; a ping from the future counts as *)
(* one of just now.                                                        *)
Remaining ==
    IF ping = None THEN 0
    ELSE IF ping < 0 THEN Expiry
    ELSE Expiry - ping

(* Mutant: the sign of the comparison is swapped.                          *)
MutLockFree == ping = None \/ ping < Expiry

(* What a page that is only looking is told: unlike checkLock, this does   *)
(* not clip a ping from the future, and finds it taken as well.            *)
LockFree == ping = None \/ ping >= Expiry

-----------------------------------------------------------------------------
(* getSessionLock                                                          *)

(* Mutant: the interval is started, and serviceLock not called at once.    *)
MutAcquire(t, read, wrote) ==
    /\ pc' = [pc EXCEPT ![t] = "held"]
    /\ sleep' = [sleep EXCEPT ![t] = 0]
    /\ servicing' = [servicing EXCEPT ![t] = TRUE]
    /\ elapsed' = [elapsed EXCEPT ![t] = 0]
    /\ inbox' = Mail(t, read, wrote)
    /\ UNCHANGED <<ping, owner>>

(* The critical section: serviceLock, the interval and the listeners.      *)
Acquire(t, read, wrote) ==
    /\ ping' = 0
    /\ owner' = t
    /\ pc' = [pc EXCEPT ![t] = "held"]
    /\ sleep' = [sleep EXCEPT ![t] = 0]
    /\ servicing' = [servicing EXCEPT ![t] = TRUE]
    /\ elapsed' = [elapsed EXCEPT ![t] = 0]
    /\ inbox' = Mail(t, read, wrote \cup {"ping"})

(* One turn of the wait loop: checkLock, whose claimant is c by now, and   *)
(* what it leads to up to the next await.                                  *)
WaitLoop(t, c, read, wrote) ==
    \/ /\ c # t
       /\ pc' = [pc EXCEPT ![t] = "bailing"]
       /\ sleep' = [sleep EXCEPT ![t] = 0]
       /\ inbox' = Mail(t, read, wrote)
       /\ UNCHANGED <<ping, owner, servicing, elapsed>>
    \/ /\ c = t
       /\ Remaining > 0
       /\ pc' = [pc EXCEPT ![t] = "waiting"]
       /\ sleep' = [sleep EXCEPT ![t] = Remaining]
       /\ inbox' = Mail(t, read, wrote)
       /\ UNCHANGED <<ping, owner, servicing, elapsed>>
    \/ /\ c = t
       /\ Remaining = 0
       /\ Acquire(t, read, wrote)

(* Mutant: no claim is staked when the lock is free.                       *)
MutStart(t) ==
    /\ pc[t] = "idle"
    /\ IF Remaining = 0
         THEN Acquire(t, {}, {}) /\ UNCHANGED claimant
         ELSE claimant' = t /\ WaitLoop(t, t, {}, {"claimant"})
    /\ UNCHANGED frozen

(* getSessionLock is called: stake a claim and look at the lock.           *)
Start(t) ==
    /\ pc[t] = "idle"
    /\ claimant' = t
    /\ WaitLoop(t, t, {}, {"claimant"})
    /\ UNCHANGED frozen

(* onStorageUpdate wins the race: go round the loop.                       *)
Wake(t, key) ==
    /\ pc[t] = "waiting"
    /\ key \in inbox[t]
    /\ WaitLoop(t, claimant, {key}, {})
    /\ UNCHANGED <<claimant, frozen>>

(* sleepPromise wins the race: take the lock without another checkLock.    *)
SleepExpires(t) ==
    /\ pc[t] = "waiting"
    /\ sleep[t] = 0
    /\ Acquire(t, {}, {})
    /\ UNCHANGED <<claimant, frozen>>

(* onNewInstance is finished and getSessionLock returns false.             *)
Bailed(t) ==
    /\ pc[t] = "bailing"
    /\ pc' = [pc EXCEPT ![t] = "done"]
    /\ UNCHANGED <<storage, sleep, servicing, elapsed, frozen, inbox>>

-----------------------------------------------------------------------------
(* The listeners of a holder                                               *)

(* The interval fires.                                                     *)
Service(t) ==
    /\ servicing[t] /\ ~frozen[t]
    /\ pc[t] # "gone"
    /\ elapsed[t] = Interval
    /\ ping' = 0
    /\ owner' = t
    /\ elapsed' = [elapsed EXCEPT ![t] = 0]
    /\ inbox' = Mail(t, {}, {"ping"})
    /\ UNCHANGED <<claimant, pc, sleep, servicing, frozen>>

(* Mutant: the event is believed, and the storage not read again.          *)
MutSuperseded(t) ==
    /\ pc[t] = "held" /\ ~frozen[t]
    /\ "claimant" \in inbox[t]
    /\ pc' = [pc EXCEPT ![t] = "releasing"]
    /\ inbox' = Mail(t, {"claimant"}, {})
    /\ UNCHANGED <<storage, sleep, servicing, elapsed, frozen>>

(* onStorageEvent, for a claim that is not our own: no more listening, and *)
(* releaseLock tells the application to shut down.                         *)
Superseded(t) ==
    /\ pc[t] = "held" /\ ~frozen[t]
    /\ "claimant" \in inbox[t]
    /\ claimant # t
    /\ pc' = [pc EXCEPT ![t] = "releasing"]
    /\ inbox' = Mail(t, {"claimant"}, {})
    /\ UNCHANGED <<storage, sleep, servicing, elapsed, frozen>>

(* Mutant: the listener is only there for a while and misses claims.       *)
MutIgnore(t, key) ==
    /\ key \in inbox[t] /\ ~frozen[t]
    /\ pc[t] # "waiting"
    /\ inbox' = Mail(t, {key}, {})
    /\ UNCHANGED <<storage, pc, sleep, servicing, elapsed, frozen>>

(* An event that has no listener, or that the listener ignores.            *)
Ignore(t, key) ==
    /\ key \in inbox[t] /\ ~frozen[t]
    /\ pc[t] # "waiting"
    /\ pc[t] = "held" => key = "ping" \/ claimant = t
    /\ inbox' = Mail(t, {key}, {})
    /\ UNCHANGED <<storage, pc, sleep, servicing, elapsed, frozen>>

(* Mutant: the interval is not cleared when the lock is released.          *)
MutReleased(t) ==
    /\ pc[t] = "releasing" /\ ~frozen[t]
    /\ pc' = [pc EXCEPT ![t] = "done"]
    /\ ping' = None
    /\ owner' = None
    /\ inbox' = Mail(t, {}, Removed)
    /\ UNCHANGED <<claimant, sleep, servicing, elapsed, frozen>>

(* onNewInstance is finished: stop pinging, and remove the items, whoever  *)
(* wrote them last.                                                        *)
Released(t) ==
    /\ pc[t] = "releasing" /\ ~frozen[t]
    /\ pc' = [pc EXCEPT ![t] = "done"]
    /\ ping' = None
    /\ owner' = None
    /\ servicing' = [servicing EXCEPT ![t] = FALSE]
    /\ elapsed' = [elapsed EXCEPT ![t] = 0]
    /\ inbox' = Mail(t, {}, Removed)
    /\ UNCHANGED <<claimant, sleep, frozen>>

(* onPagehideEvent: the page is left, and may be kept to be shown again.   *)
Pagehide(t) ==
    /\ Running(t)
    /\ frozen' = [frozen EXCEPT ![t] = TRUE]
    /\ IF servicing[t]
         THEN /\ ping' = None
              /\ owner' = None
              /\ servicing' = [servicing EXCEPT ![t] = FALSE]
              /\ elapsed' = [elapsed EXCEPT ![t] = 0]
              /\ inbox' = Mail(t, {}, Removed)
         ELSE UNCHANGED <<ping, owner, servicing, elapsed, inbox>>
    /\ UNCHANGED <<claimant, pc, sleep>>

-----------------------------------------------------------------------------
(* The browser                                                             *)

(* The page comes back to life out of the back/forward cache.              *)
Resume(t) ==
    /\ frozen[t]
    /\ frozen' = [frozen EXCEPT ![t] = FALSE]
    /\ UNCHANGED <<storage, pc, sleep, servicing, elapsed, inbox>>

(* The page is killed, or discarded from the cache, with no event.         *)
Crash(t) ==
    /\ pc[t] # "gone"
    /\ pc' = [pc EXCEPT ![t] = "gone"]
    /\ sleep' = [sleep EXCEPT ![t] = 0]
    /\ servicing' = [servicing EXCEPT ![t] = FALSE]
    /\ elapsed' = [elapsed EXCEPT ![t] = 0]
    /\ frozen' = [frozen EXCEPT ![t] = FALSE]
    /\ inbox' = [inbox EXCEPT ![t] = {}]
    /\ UNCHANGED storage

Older(age) == IF age = None \/ age = Expiry THEN age ELSE age + 1

Tick ==
    /\ ping' = Older(ping)
    /\ sleep' = [t \in Tab |-> IF sleep[t] > 0 THEN sleep[t] - 1 ELSE 0]
    /\ elapsed' = [t \in Tab |-> IF servicing[t] /\ elapsed[t] < Interval
                                   THEN elapsed[t] + 1 ELSE elapsed[t]]
    /\ UNCHANGED <<owner, claimant, pc, servicing, frozen, inbox>>

(* The system clock is set, which moves the age of the ping and no timer.  *)
ClockBack ==
    /\ ping # None
    /\ \E age \in Ages : age < ping /\ ping' = age
    /\ UNCHANGED <<owner, claimant, pc, sleep, servicing, elapsed, frozen, inbox>>

ClockForward ==
    /\ ping # None
    /\ \E age \in Ages : age > ping /\ ping' = age
    /\ UNCHANGED <<owner, claimant, pc, sleep, servicing, elapsed, frozen, inbox>>

-----------------------------------------------------------------------------
TabStep(t) ==
    \/ Start(t)
    \/ \E key \in Keys : Wake(t, key) \/ Ignore(t, key)
    \/ SleepExpires(t) \/ Bailed(t)
    \/ Service(t) \/ Superseded(t) \/ Released(t)
    \/ Pagehide(t) \/ Resume(t) \/ Crash(t)

Next ==
    \/ \E t \in Tab : TabStep(t)
    \/ Tick \/ ClockBack \/ ClockForward

(* Nothing makes a user open, leave or revisit a page or a clock jump.     *)
(* Timers fire, queued events are delivered, and onNewInstance resolves;   *)
(* a page that is frozen again and again still gets its event in the end.  *)
Fairness ==
    /\ WF_vars(Tick)
    /\ \A t \in Tab :
         /\ WF_vars(SleepExpires(t))
         /\ WF_vars(Bailed(t))
         /\ WF_vars(Service(t))
         /\ SF_vars(Superseded(t))
         /\ SF_vars(Released(t))
         /\ \A key \in Keys : WF_vars(Wake(t, key)) /\ WF_vars(Ignore(t, key))

Spec == Init /\ [][Next]_vars
FairSpec == Spec /\ Fairness
-----------------------------------------------------------------------------
(* Properties                                                              *)

(* The claims of older tabs are answered: a tab that runs or waits but is  *)
(* no longer the latest claimant has the news of a later claim queued, so  *)
(* that no delay, early timer or listener switch can make it be forgotten. *)
Informed(t) ==
    pc[t] \in {"waiting", "held"} /\ claimant # t => "claimant" \in inbox[t]
NoForgottenHolder == \A t \in Tab : Informed(t)

(* Only the superseded yield: the tab whose claim is in storage is never   *)
(* asked to stop, however late the events of older claims reach it.        *)
LatestNeverYields ==
    \A t \in Tab : claimant = t => pc[t] \notin {"idle", "bailing", "releasing", "done"}

(* Every claim is settled: a tab does not wait for ever, whether the older *)
(* tabs yield, leave, crash or are frozen, and whatever the clock does.    *)
EveryClaimSettles == \A t \in Tab : pc[t] = "waiting" ~> pc[t] # "waiting"

(* However many tabs are started, in the end at most one is running, but   *)
(* for those that sleep in the back/forward cache.                         *)
EventuallySole ==
    <>[](\A t, u \in Tab : Running(t) /\ Running(u) => t = u)
-----------------------------------------------------------------------------
(* Refinement                                                              *)

StageOf(phase) ==
    CASE phase = "idle"    -> "out"
      [] phase = "waiting" -> "asked"
      [] phase = "held"    -> "running"
      [] phase \in {"bailing", "releasing"} -> "yielding"
      [] phase = "done"    -> "over"
      [] phase = "gone"    -> "gone"

stage == [t \in Tab |-> StageOf(pc[t])]

Handover == INSTANCE SessionHandover WITH latest <- claimant, phase <- stage

(* Whatever is delayed, frozen, crashed or set wrong, the lock hands the   *)
(* session over: the latest claim wins and only the superseded yield.      *)
HandsOver == Handover!HSpec
=============================================================================

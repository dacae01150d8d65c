------------------------- MODULE SessionLockTimely -------------------------
(***************************************************************************)
(* The session lock in a browser that keeps up: no timer and no storage    *)
(* event is ever a whole tick late, and a queued storage event is          *)
(* dispatched before a timer that is due.  No page comes back out of the   *)
(* back/forward cache, and the system clock is not set forward (setting it *)
(* back is allowed).  This is where the lock excludes.                     *)
(***************************************************************************)
EXTENDS SessionLock

(* The servicer has to be able to refresh the ping before it goes stale.   *)
ASSUME ServicedAssumption == Interval < Expiry

Attentive(t) == pc[t] # "gone" /\ ~frozen[t]

(* Nothing that t has to do is left over when time passes.                 *)
Idle(t) ==
    Attentive(t) =>
        /\ inbox[t] = {}
        /\ pc[t] = "waiting" => sleep[t] > 0
        /\ servicing[t] => elapsed[t] < Interval

TimelyTabStep(t) ==
    \/ Start(t)
    \/ \E key \in Keys : Wake(t, key) \/ Ignore(t, key)
    \/ inbox[t] = {} /\ SleepExpires(t)
    \/ Bailed(t)
    \/ Service(t) \/ Superseded(t) \/ Released(t)
    \/ Pagehide(t) \/ Crash(t)

TimelyNext ==
    \/ \E t \in Tab : TimelyTabStep(t)
    \/ (\A t \in Tab : Idle(t)) /\ Tick
    \/ ClockBack

TimelySpec == Init /\ [][TimelyNext]_vars

(* The same, but a timer that is due may overtake a queued event, as the   *)
(* event loop is free to choose between its task sources.                  *)
RacyNext == TimelyNext \/ \E t \in Tab : SleepExpires(t)
RacySpec == Init /\ [][RacyNext]_vars

-----------------------------------------------------------------------------
(* At most one instance runs at a time, from the return of getSessionLock  *)
(* to the end of onNewInstance (the promise of SessionLock.ts:93-96).      *)
MutualExclusion == \A t, u \in Tab : Running(t) /\ Running(u) => t = u

(* The ping of a live holder is never taken for stale: a tab that only     *)
(* looks (checkSessionLockFree) finds the lock taken as long as some tab   *)
(* runs the application.                                                   *)
LiveHolderIsSeen == (\E t \in Tab : Running(t)) => ~LockFree

(* The strengthening of both.  A live holder is protected by its own ping, *)
(* no older than its interval; and whoever waits has, unless news of a     *)
(* newer ping is queued, measured its sleep from that ping or a later one. *)
HolderPings ==
    \A t \in Tab : Running(t) =>
        /\ servicing[t]
        /\ owner = t
        /\ ping # None /\ ping <= elapsed[t]
SleepersOutlast ==
    \A h, w \in Tab :
        Running(h) /\ pc[w] = "waiting" /\ "ping" \notin inbox[w]
            => sleep[w] + elapsed[h] >= Expiry
OnlyHoldersServe ==
    \A t \in Tab : servicing[t] /\ ~frozen[t] => Running(t)
TimelyInv == MutualExclusion /\ HolderPings /\ SleepersOutlast /\ OnlyHoldersServe
=============================================================================

-------------------------- MODULE PresenceSyncLoop --------------------------
(***************************************************************************)
(* The /sync long-poll that carries only presence, beside the sliding sync *)
(* of the app, and the poller that stands in for it:                       *)
(* apps/web/src/utils/presence/PresenceSyncLoop.ts, with the client of     *)
(* both in apps/web/src/Lifecycle.ts.                                      *)
(*                                                                         *)
(* The server numbers what happens.  A request with a since deletes this   *)
(* device's to-device messages up to it, which belong to the sliding sync; *)
(* it is answered later, on a wake-up or when its time is over.            *)
(***************************************************************************)
EXTENDS PresencePoller

CONSTANTS
    MaxPos,     \* bound: what happens on the server
    MaxHides,   \* bound: how often the tab is hidden
    MaxStarts,  \* bound: how many clients are started
    MaxFlips,   \* bound: how often /sync breaks or is mended
    Fallback    \* FAILURES_BEFORE_FALLBACK

ASSUME LoopBounds == {MaxPos, MaxHides, MaxStarts, MaxFlips} \subseteq Nat
ASSUME FallbackAssumption == Fallback \in Nat \ {0}

VARIABLES
    pos,        \* the last position of the stream
    inbox,      \* the to-device messages that the server keeps
    received,   \* those that the sliding sync has received
    sent,       \* all that were sent
    up,         \* whether /sync works
    running,    \* running of the current loop
    since,      \* its token
    flight,     \* its requests that have not returned, and those of earlier generations
    timer,      \* retryTimer: what the loop waits for between two requests
    failures,   \* in a row, at most Fallback
    inFallback,
    bounds      \* the counts behind the bounds

server == <<pos, inbox, received, sent, up, presence>>
loop == <<running, since, flight, timer, failures, inFallback>>
vars == <<server, loop, poller, screen, visible, faults, bounds>>

(* A request: its token, whether its generation is over, how far it is and *)
(* what it was answered with.                                              *)
Request(t) == [since |-> t, stale |-> FALSE, stage |-> "sent",
               next |-> 0, toDevice |-> FALSE, presence |-> None]
Aborted(r) == [since |-> r.since, stale |-> TRUE, stage |-> r.stage,
               next |-> 0, toDevice |-> FALSE, presence |-> None]
Waiting(r) == [r EXCEPT !.stage = "waiting"]
Answered(r, p) == [since |-> r.since, stale |-> r.stale, stage |-> "answered",
                   next |-> pos, toDevice |-> inbox # {}, presence |-> p]
Live(F) == {r \in F : ~r.stale}
Stale(F) == {Aborted(r) : r \in F}
Replace(r, new) == flight' = (flight \ {r}) \cup {new}

UpTo(t) == IF t = None THEN {} ELSE 0..t

Init ==
    /\ presence = 1 /\ shown = 0 /\ outdated = FALSE /\ visible = TRUE /\ faults = 0
    /\ PollerInit
    /\ pos = 1 /\ inbox = {} /\ received = {} /\ sent = {} /\ up \in BOOLEAN
    /\ running = FALSE /\ since = None /\ flight = {} /\ timer = "none"
    /\ failures = 0 /\ inFallback = FALSE
    /\ bounds = [hides |-> 0, starts |-> 0, flips |-> 0]

----------------------------------------------------------------------------
(* The loop.                                                               *)

(* PresenceSyncLoop.start: the loop of an earlier client is stopped, and   *)
(* with it its fallback.                                                   *)
Start ==
    /\ bounds.starts < MaxStarts
    /\ bounds' = [bounds EXCEPT !.starts = @ + 1]
    /\ running' = TRUE /\ since' = None /\ timer' = "none"
    /\ failures' = 0 /\ inFallback' = FALSE
    /\ flight' = Stale(flight) \cup (IF visible THEN {Request(None)} ELSE {})
    /\ IF inFallback THEN StopPoller ELSE UNCHANGED poller
    /\ UNCHANGED <<server, screen, visible, faults>>

(* stop, when the client stops, which stops the poller too, whatever the   *)
(* loop has made of it.                                                    *)
Stop ==
    /\ running
    /\ running' = FALSE /\ inFallback' = FALSE /\ timer' = "none" /\ flight' = Stale(flight)
    /\ StopPoller
    /\ UNCHANGED <<server, since, failures, screen, visible, faults, bounds>>

(* onVisibilityChange of the loop and of the poller.                       *)
Hide ==
    /\ visible /\ bounds.hides < MaxHides
    /\ bounds' = [bounds EXCEPT !.hides = @ + 1]
    /\ visible' = FALSE
    /\ timer' = "none" /\ flight' = Stale(flight)
    /\ PollerSees(FALSE)
    /\ UNCHANGED <<server, running, since, failures, inFallback, screen, faults>>

MutShow ==
    /\ ~visible
    /\ visible' = TRUE
    /\ UNCHANGED <<timer, flight>>
    /\ PollerSees(TRUE)
    /\ UNCHANGED <<server, running, since, failures, inFallback, screen, faults, bounds>>
Show ==
    /\ ~visible
    /\ visible' = TRUE
    /\ timer' = "none"
    /\ flight' = Stale(flight) \cup (IF running THEN {Request(since)} ELSE {})
    /\ PollerSees(TRUE)
    /\ UNCHANGED <<server, running, since, failures, inFallback, screen, faults, bounds>>

(* onSuccess, and the rest of a round: with to-device messages pending the *)
(* token stays, and the loop waits.                                        *)
MutReturn(r) ==
    /\ r \in flight /\ r.stage = "answered" /\ ~r.stale
    /\ failures' = 0 /\ inFallback' = FALSE
    /\ IF inFallback THEN StopPoller ELSE UNCHANGED poller
    /\ IF r.presence = None THEN UNCHANGED screen ELSE Apply(r.presence, FALSE)
    /\ since' = r.next
    /\ IF r.toDevice THEN timer' = "hold" /\ flight' = flight \ {r}
       ELSE timer' = timer /\ Replace(r, Request(r.next))
    /\ UNCHANGED <<server, running, visible, faults, bounds>>
MutReturnPolling(r) ==
    /\ r \in flight /\ r.stage = "answered" /\ ~r.stale
    /\ failures' = 0 /\ inFallback' = FALSE
    /\ IF r.presence = None THEN UNCHANGED screen ELSE Apply(r.presence, FALSE)
    /\ IF r.toDevice
       THEN timer' = "hold" /\ since' = since /\ flight' = flight \ {r}
       ELSE timer' = timer /\ since' = r.next /\ Replace(r, Request(r.next))
    /\ UNCHANGED <<server, running, poller, visible, faults, bounds>>
Return(r) ==
    /\ r \in flight /\ r.stage = "answered" /\ ~r.stale
    /\ failures' = 0 /\ inFallback' = FALSE
    /\ IF inFallback THEN StopPoller ELSE UNCHANGED poller
    /\ IF r.presence = None THEN UNCHANGED screen ELSE Apply(r.presence, FALSE)
    /\ IF r.toDevice
       THEN timer' = "hold" /\ since' = since /\ flight' = flight \ {r}
       ELSE timer' = timer /\ since' = r.next /\ Replace(r, Request(r.next))
    /\ UNCHANGED <<server, running, visible, faults, bounds>>

(* The answer, or the rejection, of a request that was aborted or whose    *)
(* generation is over.                                                     *)
ReturnStale(r) ==
    /\ r \in flight /\ r.stale
    /\ flight' = flight \ {r}
    /\ UNCHANGED <<server, running, since, timer, failures, inFallback, poller, screen, visible,
                   faults, bounds>>

(* onError.                                                                *)
Throws(r) ==
    /\ r \in flight /\ ~r.stale
    /\ flight' = flight \ {r}
    /\ failures' = IF failures < Fallback THEN failures + 1 ELSE failures
    /\ inFallback' = (inFallback \/ failures + 1 >= Fallback)
    /\ IF failures + 1 >= Fallback /\ ~inFallback THEN StartPoller ELSE UNCHANGED poller
    /\ timer' = "retry"
    /\ UNCHANGED <<server, running, since, screen, visible, bounds>>

(* Because /sync is broken, or for once.                                   *)
Fails(r) == ~up /\ Throws(r) /\ UNCHANGED faults
FailsOnce(r) == up /\ faults < MaxFaults /\ faults' = faults + 1 /\ Throws(r)

(* The timer of sleep or of onError.                                       *)
TimerFires ==
    /\ timer # "none"
    /\ timer' = "none"
    /\ flight' = flight \cup (IF running /\ visible THEN {Request(since)} ELSE {})
    /\ UNCHANGED <<server, running, since, failures, inFallback, poller, screen, visible, faults,
                   bounds>>

----------------------------------------------------------------------------
(* The server and the sliding sync.                                        *)

Serve(r) ==
    /\ up /\ r \in flight /\ r.stage = "sent"
    /\ inbox' = inbox \ UpTo(r.since)
    /\ Replace(r, Waiting(r))
    /\ UNCHANGED <<pos, received, sent, up, presence, running, since, timer, failures, inFallback,
                   poller, screen, visible, faults, bounds>>

Answer(r) ==
    /\ up /\ r \in flight /\ r.stage = "waiting" /\ ~r.stale
    /\ Replace(r, Answered(r, IF presence \in UpTo(r.since) THEN None ELSE presence))
    /\ UNCHANGED <<server, running, since, timer, failures, inFallback, poller, screen, visible,
                   faults, bounds>>

Flip ==
    /\ bounds.flips < MaxFlips
    /\ bounds' = [bounds EXCEPT !.flips = @ + 1]
    /\ up' = ~up
    /\ UNCHANGED <<pos, inbox, received, sent, presence, loop, poller, screen, visible, faults>>

(* A room key for this device; the user comes or goes.                     *)
ToDevice ==
    /\ pos < MaxPos
    /\ pos' = pos + 1 /\ inbox' = inbox \cup {pos + 1} /\ sent' = sent \cup {pos + 1}
    /\ UNCHANGED <<received, up, presence, loop, poller, screen, visible, faults, bounds>>
Changes ==
    /\ pos < MaxPos
    /\ pos' = pos + 1 /\ presence' = pos + 1
    /\ UNCHANGED <<inbox, received, sent, up, loop, poller, screen, visible, faults, bounds>>

(* The sliding sync receives what is there, and then acknowledges it.      *)
Receive ==
    /\ inbox \ received # {}
    /\ received' = received \cup inbox
    /\ UNCHANGED <<pos, inbox, sent, up, presence, loop, poller, screen, visible, faults, bounds>>
Acknowledge ==
    /\ inbox \cap received # {}
    /\ inbox' = inbox \ received
    /\ UNCHANGED <<pos, received, sent, up, presence, loop, poller, screen, visible, faults, bounds>>

----------------------------------------------------------------------------
Rest == <<pos, inbox, received, sent, up, loop, bounds>>

LoopSteps ==
    \/ TimerFires
    \/ \E r \in flight : Serve(r) \/ Answer(r) \/ Return(r) \/ ReturnStale(r) \/ Fails(r)
PollerStep(l) == RunLoop(l) /\ UNCHANGED Rest
PollStep == (\E q \in polls : PollServed(q) \/ PollAnswered(q)) /\ UNCHANGED Rest
TimePasses == BackoffOver /\ UNCHANGED Rest

Next ==
    \/ LoopSteps \/ (\E r \in flight : FailsOnce(r))
    \/ Start \/ Stop \/ Hide \/ Show
    \/ Flip \/ ToDevice \/ Changes \/ Receive \/ Acknowledge
    \/ (\E l \in Loop : PollerStep(l))
    \/ PollStep \/ ((\E q \in polls : PollFails(q)) /\ UNCHANGED Rest)
    \/ TimePasses

Spec == Init /\ [][Next]_vars

(* Timers fire, requests return, the sliding sync goes on.                 *)
FairSpec ==
    /\ Spec
    /\ WF_vars(LoopSteps) /\ WF_vars(TimePasses)
    /\ WF_vars(Receive) /\ WF_vars(Acknowledge)
    /\ \A l \in Loop : WF_vars(PollerStep(l))
    /\ WF_vars(PollStep)

----------------------------------------------------------------------------
Token == 0..pos \cup {None}
Requests == [since : Token, stale : BOOLEAN, stage : {"sent", "waiting", "answered"},
             next : 0..pos, toDevice : BOOLEAN, presence : Token]

TypeOK ==
    /\ PollerTypeOK
    /\ pos \in Nat /\ presence \in 1..pos /\ shown \in 0..pos /\ outdated \in BOOLEAN
    /\ visible \in BOOLEAN
    /\ inbox \subseteq sent /\ received \subseteq sent /\ sent \subseteq 1..pos
    /\ up \in BOOLEAN /\ running \in BOOLEAN /\ since \in Token
    /\ flight \subseteq Requests /\ timer \in {"none", "hold", "retry"}
    /\ failures \in 0..Fallback /\ inFallback \in BOOLEAN

(* No room key is lost: whatever requests are under way, aborted or late,  *)
(* the server deletes no message for a since before the sliding sync has   *)
(* received it.                                                            *)
KeysAreKept == sent \subseteq inbox \cup received

(* A loop that should run has one request or one timer that drives it, and *)
(* one that should not has neither, however the tab is hidden, shown,      *)
(* logged out and in under its requests.                                   *)
OneDriver ==
    /\ running /\ visible =>
          IF timer = "none" THEN \E r \in flight : Live(flight) = {r} ELSE Live(flight) = {}
    /\ ~running \/ ~visible => timer = "none" /\ Live(flight) = {}

(* The poller runs exactly while the loop is in fallback, and so never     *)
(* after the client has stopped.                                           *)
PollsInFallback == (polling <=> inFallback) /\ (polling => running)

(* In a tab that ends up open and logged in, what is shown ends up as it   *)
(* is on the server, with /sync or without: unless the last that was shown *)
(* is the answer to a poll that came after the poller had been stopped.    *)
EventuallyShown == <>[](running /\ visible) => <>[](shown = presence \/ outdated)
=============================================================================

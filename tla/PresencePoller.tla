--------------------------- MODULE PresencePoller ---------------------------
(***************************************************************************)
(* The fallback that asks for the presence of one user at a time:          *)
(* apps/web/src/utils/presence/PresencePoller.ts.                          *)
(*                                                                         *)
(* One user, whose presence is the position in the server's stream of its  *)
(* last change.  A poll is of one poller; when that is stopped its answer  *)
(* is late, but it is applied all the same.                                *)
(***************************************************************************)
EXTENDS Naturals, FiniteSets

CONSTANTS
    None,       \* undefined
    MaxPolls,   \* bound: the polls under way at one time
    MaxFaults   \* bound: how many requests fail by themselves

ASSUME NoneAssumption == None \notin Nat /\ None \notin {"open", "list"}
ASSUME PollerBounds == MaxPolls \in Nat /\ MaxFaults \in Nat

VARIABLES
    presence,   \* the user's presence on the server
    shown,      \* the presence of the js-sdk User object
    outdated,   \* whether that is from a poller that had been stopped
    visible,    \* document.visibilityState
    polling,    \* running of the current poller
    timers,     \* the loops that wait for a timer
    polls,      \* the polls under way
    backing,    \* whether backoffUntil is ahead
    faults      \* requests that failed by themselves

screen == <<shown, outdated>>
poller == <<polling, timers, polls, backing>>

Loop == {"open", "list"}
Poll(l) == [loop |-> l, late |-> FALSE, value |-> None]

PollerInit ==
    /\ polling = FALSE /\ timers = {} /\ polls = {} /\ backing = FALSE

(* applyPresenceEvent.                                                     *)
Apply(value, late) == shown' = value /\ outdated' = late

Orphaned == {[q EXCEPT !.loop = None, !.late = TRUE] : q \in polls}

(* PresencePoller.stop, and start with a new poller.                       *)
StopPoller ==
    /\ polling' = FALSE /\ timers' = {} /\ backing' = FALSE /\ polls' = Orphaned
StartPoller ==
    /\ polling' = TRUE /\ timers' = Loop /\ backing' = FALSE /\ polls' = Orphaned

(* onVisibilityChange.                                                     *)
PollerSees(v) ==
    /\ timers' = IF polling /\ v THEN Loop ELSE {}
    /\ UNCHANGED <<polling, polls, backing>>

Rescheduled(l) == IF polling /\ visible THEN timers \cup {l} ELSE timers

(* runLoop: the timer fires.  Not every round of the open room has         *)
(* somebody to ask for.                                                    *)
MutRunLoop(l) ==
    /\ l \in timers /\ (backing \/ Cardinality(polls) < MaxPolls)
    /\ polls' = IF backing THEN polls ELSE polls \cup {Poll(l)}
    /\ timers' = timers \ {l}
    /\ UNCHANGED <<presence, screen, visible, polling, backing, faults>>
RunLoop(l) ==
    /\ l \in timers
    /\ \/ /\ ~backing /\ Cardinality(polls) < MaxPolls
          /\ polls' = polls \cup {Poll(l)}
          /\ timers' = timers \ {l}
       \/ /\ backing \/ l = "open"
          /\ timers' = Rescheduled(l)
          /\ UNCHANGED polls
    /\ UNCHANGED <<presence, screen, visible, polling, backing, faults>>

(* The server answers /presence.                                           *)
PollServed(q) ==
    /\ q \in polls /\ q.value = None
    /\ polls' = (polls \ {q}) \cup {[q EXCEPT !.value = presence]}
    /\ UNCHANGED <<presence, screen, visible, polling, timers, backing, faults>>

(* The poll of a poller that still runs is followed by another.            *)
MutPollEndsLate(q) ==
    /\ polls' = polls \ {q}
    /\ timers' = timers \cup {q.loop}
MutPollEnds(q) ==
    /\ polls' = polls \ {q}
    /\ timers' = IF q.late THEN timers ELSE timers \cup {q.loop}
PollEnds(q) ==
    /\ polls' = polls \ {q}
    /\ timers' = IF q.late THEN timers ELSE Rescheduled(q.loop)

PollAnswered(q) ==
    /\ q \in polls /\ q.value # None
    /\ Apply(q.value, q.late)
    /\ PollEnds(q)
    /\ UNCHANGED <<presence, visible, polling, backing, faults>>

(* onError: not every error is one to back off from.                       *)
PollFails(q) ==
    /\ q \in polls /\ faults < MaxFaults
    /\ faults' = faults + 1
    /\ backing' \in IF q.late THEN {backing} ELSE {backing, TRUE}
    /\ PollEnds(q)
    /\ UNCHANGED <<presence, screen, visible, polling>>

(* backoffUntil has come.                                                  *)
BackoffOver ==
    /\ backing
    /\ backing' = FALSE
    /\ UNCHANGED <<presence, screen, visible, polling, timers, polls, faults>>

----------------------------------------------------------------------------
PollerTypeOK ==
    /\ polling \in BOOLEAN /\ timers \subseteq Loop /\ backing \in BOOLEAN
    /\ polls \subseteq [loop : Loop \cup {None}, late : BOOLEAN, value : 0..presence \cup {None}]
    /\ \A q \in polls : q.late <=> q.loop = None

(* A poller that should poll goes on with each of its loops, and one that  *)
(* should not has nothing that would start again: hiding and showing the   *)
(* tab under a request neither ends a loop nor starts a second timer.      *)
PollerLives ==
    /\ polling /\ visible => \A l \in Loop : l \in timers \/ \E q \in polls : q.loop = l
    /\ ~polling \/ ~visible => timers = {}
    /\ ~polling => \A q \in polls : q.late
=============================================================================

-------------------------- MODULE SessionHandover --------------------------
(***************************************************************************)
(* What the session lock promises whatever the browser delays: the latest  *)
(* claim wins.  A session yields only when it has been superseded by a     *)
(* later claim, and no session is entered twice.  SessionLock implements   *)
(* this with three localStorage items and their events.                    *)
(***************************************************************************)
CONSTANTS Tab, None

VARIABLES
    latest,     \* the tab that claimed the session last
    phase       \* how far each tab is

hvars == <<latest, phase>>

Stages == {"out", "asked", "running", "yielding", "over", "gone"}

HInit ==
    /\ latest = None
    /\ phase = [t \in Tab |-> "out"]

(* t claims the session, and may find it free at once.                     *)
Claim(t) ==
    /\ phase[t] = "out"
    /\ latest' = t
    /\ \E s \in {"asked", "running"} : phase' = [phase EXCEPT ![t] = s]

Enter(t) ==
    /\ phase[t] = "asked"
    /\ phase' = [phase EXCEPT ![t] = "running"]
    /\ UNCHANGED latest

Yield(t) ==
    /\ phase[t] \in {"asked", "running"}
    /\ latest # t
    /\ phase' = [phase EXCEPT ![t] = "yielding"]
    /\ UNCHANGED latest

Leave(t) ==
    /\ phase[t] = "yielding"
    /\ phase' = [phase EXCEPT ![t] = "over"]
    /\ UNCHANGED latest

Die(t) ==
    /\ phase[t] # "gone"
    /\ phase' = [phase EXCEPT ![t] = "gone"]
    /\ UNCHANGED latest

HNext == \E t \in Tab : Claim(t) \/ Enter(t) \/ Yield(t) \/ Leave(t) \/ Die(t)

HSpec == HInit /\ [][HNext]_hvars
=============================================================================

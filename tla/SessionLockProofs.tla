------------------------- MODULE SessionLockProofs -------------------------
(***************************************************************************)
(* Theorems about the session lock, for any number of tabs and any delays, *)
(* and about the lock in a browser that keeps up.                          *)
(***************************************************************************)
EXTENDS SessionLockTimely, TLAPS

-----------------------------------------------------------------------------
(* Type correctness                                                        *)

LEMMA RemainingType == TypeOK => Remaining \in 0..Expiry
  BY NoneAssumption, TimeAssumption DEF TypeOK, Remaining, Ages

LEMMA MailType ==
  ASSUME TypeOK, NEW t \in Tab,
         NEW read \in SUBSET Keys, NEW wrote \in SUBSET Keys
  PROVE  Mail(t, read, wrote) \in [Tab -> SUBSET Keys]
  BY DEF TypeOK, Mail

LEMMA AcquireType ==
  ASSUME TypeOK, NEW t \in Tab,
         NEW read \in SUBSET Keys, NEW wrote \in SUBSET Keys,
         Acquire(t, read, wrote), claimant' \in Tab \cup {None}, UNCHANGED frozen
  PROVE  TypeOK'
<1>1. wrote \cup {"ping"} \in SUBSET Keys
  BY DEF Keys
<1>2. inbox' \in [Tab -> SUBSET Keys]
  BY <1>1, MailType DEF Acquire
<1>3. pc' \in [Tab -> Phases]
  BY DEF TypeOK, Acquire, Phases
<1>4. /\ sleep' \in [Tab -> 0..Expiry] /\ elapsed' \in [Tab -> 0..Interval]
      /\ servicing' \in [Tab -> BOOLEAN] /\ frozen' \in [Tab -> BOOLEAN]
  BY TimeAssumption DEF TypeOK, Acquire
<1>5. ping' \in Ages /\ owner' \in Tab
  BY TimeAssumption DEF Acquire, Ages
<1> QED BY <1>2, <1>3, <1>4, <1>5 DEF TypeOK

LEMMA WaitLoopType ==
  ASSUME TypeOK, NEW t \in Tab, NEW c,
         NEW read \in SUBSET Keys, NEW wrote \in SUBSET Keys,
         WaitLoop(t, c, read, wrote), claimant' \in Tab \cup {None}, UNCHANGED frozen
  PROVE  TypeOK'
<1>1. CASE Acquire(t, read, wrote)
  BY <1>1, AcquireType
<1>2. CASE ~Acquire(t, read, wrote)
  <2>1. inbox' \in [Tab -> SUBSET Keys]
    BY <1>2, MailType DEF WaitLoop
  <2>2. pc' \in [Tab -> Phases] /\ sleep' \in [Tab -> 0..Expiry]
    BY <1>2, RemainingType, TimeAssumption DEF TypeOK, WaitLoop, Phases
  <2>3. UNCHANGED <<ping, owner, servicing, elapsed>>
    BY <1>2 DEF WaitLoop
  <2> QED BY <2>1, <2>2, <2>3 DEF TypeOK
<1> QED BY <1>1, <1>2

(* Every variable keeps its type: ages, sleeps and intervals in bounds.    *)
LEMMA TypeInductive == TypeOK /\ [Next]_vars => TypeOK'
<1> SUFFICES ASSUME TypeOK, [Next]_vars PROVE TypeOK'
  OBVIOUS
<1> USE TimeAssumption
<1>1. ASSUME NEW t \in Tab, Start(t) PROVE TypeOK'
  BY <1>1, WaitLoopType DEF Start, Keys
<1>2. ASSUME NEW t \in Tab, NEW key \in Keys, Wake(t, key) PROVE TypeOK'
  <2>1. {key} \in SUBSET Keys /\ {} \in SUBSET Keys /\ claimant' \in Tab \cup {None}
    BY <1>2 DEF Wake, TypeOK
  <2> QED BY <1>2, <2>1, WaitLoopType DEF Wake
<1>3. ASSUME NEW t \in Tab, NEW key \in Keys, Ignore(t, key) PROVE TypeOK'
  <2>1. inbox' \in [Tab -> SUBSET Keys]
    BY <1>3, MailType DEF Ignore
  <2> QED BY <1>3, <2>1 DEF Ignore, storage, TypeOK
<1>4. ASSUME NEW t \in Tab, SleepExpires(t) PROVE TypeOK'
  <2>1. {} \in SUBSET Keys /\ claimant' \in Tab \cup {None}
    BY <1>4 DEF SleepExpires, TypeOK
  <2> QED BY <1>4, <2>1, AcquireType DEF SleepExpires
<1>5. ASSUME NEW t \in Tab, Bailed(t) PROVE TypeOK'
  BY <1>5 DEF Bailed, TypeOK, storage, Phases
<1>6. ASSUME NEW t \in Tab, Service(t) PROVE TypeOK'
  <2>1. inbox' \in [Tab -> SUBSET Keys]
    BY <1>6, MailType DEF Service, Keys
  <2> QED BY <1>6, <2>1 DEF Service, TypeOK, Ages
<1>7. ASSUME NEW t \in Tab, Superseded(t) PROVE TypeOK'
  <2>1. inbox' \in [Tab -> SUBSET Keys]
    BY <1>7, MailType DEF Superseded, Keys
  <2> QED BY <1>7, <2>1 DEF Superseded, TypeOK, storage, Phases
<1>8. Removed \in SUBSET Keys
  BY DEF Removed, Keys
<1>9. ASSUME NEW t \in Tab, Released(t) PROVE TypeOK'
  <2>1. inbox' \in [Tab -> SUBSET Keys]
    BY <1>9, <1>8, MailType DEF Released
  <2> QED BY <1>9, <2>1 DEF Released, TypeOK, Phases
<1>10. ASSUME NEW t \in Tab, Pagehide(t) PROVE TypeOK'
  <2>1. CASE servicing[t]
    <3>1. {} \in SUBSET Keys /\ inbox' = Mail(t, {}, Removed)
      BY <1>10, <2>1 DEF Pagehide
    <3>2. inbox' \in [Tab -> SUBSET Keys]
      BY <3>1, <1>8, MailType
    <3>3. ping' = None /\ owner' = None
      BY <1>10, <2>1 DEF Pagehide
    <3>4. servicing' \in [Tab -> BOOLEAN] /\ frozen' \in [Tab -> BOOLEAN]
      BY <1>10, <2>1 DEF Pagehide, TypeOK
    <3>5. elapsed' = [elapsed EXCEPT ![t] = 0]
      BY <1>10, <2>1 DEF Pagehide
    <3>6. elapsed' \in [Tab -> 0..Interval]
      BY <3>5 DEF TypeOK
    <3> QED BY <1>10, <3>2, <3>3, <3>4, <3>6 DEF Pagehide, TypeOK
  <2>2. CASE ~servicing[t]
    BY <1>10, <2>2 DEF Pagehide, TypeOK
  <2> QED BY <2>1, <2>2
<1>11. ASSUME NEW t \in Tab, Resume(t) PROVE TypeOK'
  BY <1>11 DEF Resume, TypeOK, storage
<1>12. ASSUME NEW t \in Tab, Crash(t) PROVE TypeOK'
  BY <1>12 DEF Crash, TypeOK, storage, Phases
<1>13. CASE Tick
  <2>1. ping' \in Ages \cup {None}
    BY <1>13, NoneAssumption DEF Tick, Older, TypeOK, Ages
  <2>2. sleep' \in [Tab -> 0..Expiry] /\ elapsed' \in [Tab -> 0..Interval]
    BY <1>13 DEF Tick, TypeOK
  <2> QED BY <1>13, <2>1, <2>2 DEF Tick, TypeOK
<1>14. CASE ClockBack \/ ClockForward
  BY <1>14 DEF ClockBack, ClockForward, TypeOK
<1>15. CASE UNCHANGED vars
  BY <1>15 DEF vars, TypeOK
<1> QED
  BY <1>1, <1>2, <1>3, <1>4, <1>5, <1>6, <1>7, <1>9, <1>10, <1>11, <1>12,
     <1>13, <1>14, <1>15 DEF Next, TabStep

(* The storage, the timers and the queues of every tab stay in their types *)
(* for any number of tabs, any expiry and interval, and any clock jumps.   *)
THEOREM TypeCorrect == Spec => []TypeOK
<1>1. Init => TypeOK
  BY TimeAssumption DEF Init, TypeOK, Phases
<1> QED BY <1>1, TypeInductive, PTL DEF Spec

-----------------------------------------------------------------------------
(* The news of a later claim is never lost                                 *)

(* What a step that keeps the claim does for a tab's being informed: the   *)
(* tab's place and its queued news of a claim are kept, or it leaves.      *)
LEMMA InformedKept ==
  ASSUME NoForgottenHolder, UNCHANGED claimant,
         \A t \in Tab : pc'[t] \in {"waiting", "held"} /\ claimant # t =>
             /\ pc[t] \in {"waiting", "held"}
             /\ "claimant" \in inbox[t] => "claimant" \in inbox'[t]
  PROVE  NoForgottenHolder'
  BY DEF NoForgottenHolder, Informed

(* A turn of the loop that keeps the claim puts only the claimant back in  *)
(* line, and takes no other tab's news away.                               *)
LEMMA LoopInforms ==
  ASSUME TypeOK, NoForgottenHolder, NEW t \in Tab, pc[t] = "waiting",
         NEW read \in SUBSET Keys, UNCHANGED claimant,
         WaitLoop(t, claimant, read, {})
  PROVE  NoForgottenHolder'
<1>1. ASSUME NEW u \in Tab, pc'[u] \in {"waiting", "held"}, claimant # u
      PROVE  pc[u] \in {"waiting", "held"}
             /\ ("claimant" \in inbox[u] => "claimant" \in inbox'[u])
  <2>1. u # t
    BY <1>1 DEF TypeOK, WaitLoop, Acquire
  <2>2. pc'[u] = pc[u]
    BY <2>1 DEF TypeOK, WaitLoop, Acquire
  <2>3. inbox[u] \subseteq inbox'[u]
    BY <1>1, <2>1, <2>2 DEF TypeOK, WaitLoop, Acquire, Mail
  <2> QED BY <1>1, <2>2, <2>3
<1> QED BY <1>1, InformedKept

LEMMA InformedInductive ==
  TypeOK /\ NoForgottenHolder /\ [Next]_vars => NoForgottenHolder'
<1> SUFFICES ASSUME TypeOK, NoForgottenHolder, [Next]_vars
             PROVE  NoForgottenHolder'
  OBVIOUS
<1>1. ASSUME NEW t \in Tab, Start(t) PROVE NoForgottenHolder'
  <2>1. ASSUME NEW u \in Tab, u # t, pc'[u] \in {"waiting", "held"}
        PROVE  "claimant" \in inbox'[u]
    <3>1. pc[u] = pc'[u]
      BY <1>1, <2>1 DEF Start, WaitLoop, Acquire, TypeOK
    <3> QED BY <1>1, <2>1, <3>1 DEF Start, WaitLoop, Acquire, Mail
  <2>2. claimant' = t
    BY <1>1 DEF Start
  <2> QED BY <2>1, <2>2 DEF NoForgottenHolder, Informed
<1>2. ASSUME NEW t \in Tab, NEW key \in Keys, Wake(t, key)
      PROVE  NoForgottenHolder'
  BY <1>2, LoopInforms DEF Wake
<1>3. ASSUME NEW t \in Tab, NEW key \in Keys, Ignore(t, key)
      PROVE  NoForgottenHolder'
  <2>1. UNCHANGED <<claimant, pc>>
    BY <1>3 DEF Ignore, storage
  <2>2. ASSUME NEW u \in Tab, pc[u] \in {"waiting", "held"}, claimant # u,
               "claimant" \in inbox[u]
        PROVE  "claimant" \in inbox'[u]
    BY <1>3, <2>2 DEF Ignore, Mail, TypeOK
  <2> QED BY <2>1, <2>2, InformedKept
<1>4. ASSUME NEW t \in Tab, SleepExpires(t) PROVE NoForgottenHolder'
  <2>1. ASSUME NEW u \in Tab, pc'[u] \in {"waiting", "held"}
        PROVE  pc[u] \in {"waiting", "held"} /\ inbox[u] \subseteq inbox'[u]
    BY <1>4, <2>1 DEF SleepExpires, Acquire, Mail, TypeOK
  <2> QED BY <1>4, <2>1, InformedKept DEF SleepExpires
<1>5. ASSUME NEW t \in Tab, Bailed(t) \/ Superseded(t) \/ Released(t) \/ Crash(t)
      PROVE  NoForgottenHolder'
  <2>1. UNCHANGED claimant
    BY <1>5 DEF Bailed, Superseded, Released, Crash, storage
  <2>2. pc'[t] \notin {"waiting", "held"}
    BY <1>5 DEF Bailed, Superseded, Released, Crash, TypeOK
  <2>3. ASSUME NEW u \in Tab, u # t
        PROVE  pc'[u] = pc[u] /\ (pc[u] # "gone" => inbox[u] \subseteq inbox'[u])
    BY <1>5, <2>3 DEF Bailed, Superseded, Released, Crash, TypeOK, Mail
  <2> QED BY <2>1, <2>2, <2>3, InformedKept
<1>6. ASSUME NEW t \in Tab, Service(t) \/ Pagehide(t) \/ Resume(t)
      PROVE  NoForgottenHolder'
  <2>1. UNCHANGED <<claimant, pc>>
    BY <1>6 DEF Service, Pagehide, Resume, storage
  <2>2. ASSUME NEW u \in Tab, pc[u] # "gone"
        PROVE  inbox[u] \subseteq inbox'[u]
    BY <1>6, <2>2 DEF Service, Pagehide, Resume, Mail
  <2> QED BY <2>1, <2>2, InformedKept
<1>7. CASE Tick \/ ClockBack \/ ClockForward \/ UNCHANGED vars
  BY <1>7 DEF Tick, ClockBack, ClockForward, vars, NoForgottenHolder, Informed
<1> QED
  BY <1>1, <1>2, <1>3, <1>4, <1>5, <1>6, <1>7 DEF Next, TabStep

(* A tab that waits or runs without being the latest claimant always has   *)
(* the news of a later claim queued: no delay or order of events, timers,  *)
(* crashes and clock jumps lets two tabs run unknown to each other.        *)
THEOREM NoHolderIsForgotten == Spec => []NoForgottenHolder
<1>1. Init => TypeOK /\ NoForgottenHolder
  BY TimeAssumption DEF Init, TypeOK, Phases, NoForgottenHolder, Informed
<1> QED BY <1>1, TypeInductive, InformedInductive, PTL DEF Spec

-----------------------------------------------------------------------------
(* Only the superseded yield                                               *)

LEMMA LatestInductive ==
  TypeOK /\ LatestNeverYields /\ [Next]_vars => LatestNeverYields'
<1> SUFFICES ASSUME TypeOK, LatestNeverYields, [Next]_vars
             PROVE  LatestNeverYields'
  OBVIOUS
<1> DEFINE Yielding == {"idle", "bailing", "releasing", "done"}
<1>1. ASSUME NEW t \in Tab, Start(t) PROVE LatestNeverYields'
  <2>1. claimant' = t /\ pc'[t] \in {"waiting", "held"}
    BY <1>1 DEF Start, WaitLoop, Acquire, TypeOK
  <2> QED BY <2>1 DEF LatestNeverYields
<1>2. SUFFICES ASSUME UNCHANGED claimant,
                      NEW u \in Tab, claimant = u, pc'[u] \in Yielding
               PROVE  FALSE
  BY <1>1 DEF LatestNeverYields, Next, TabStep, Wake, Ignore, SleepExpires,
     Bailed, Service, Superseded, Released, Pagehide, Resume, Crash, Tick,
     ClockBack, ClockForward, vars, storage
<1>3. pc[u] \notin Yielding
  BY <1>2 DEF LatestNeverYields
<1>4. ASSUME NEW t \in Tab, Start(t) PROVE FALSE
  BY <1>2, <1>3, <1>4 DEF Start, TypeOK, WaitLoop, Acquire
<1>5. ASSUME NEW t \in Tab, NEW key \in Keys, Wake(t, key) PROVE FALSE
  BY <1>2, <1>3, <1>5 DEF Wake, WaitLoop, Acquire, TypeOK
<1>6. ASSUME NEW t \in Tab, SleepExpires(t) PROVE FALSE
  BY <1>2, <1>3, <1>6 DEF SleepExpires, Acquire, TypeOK
<1>7. ASSUME NEW t \in Tab, Bailed(t) \/ Superseded(t) \/ Released(t) \/ Crash(t)
      PROVE  FALSE
  BY <1>2, <1>3, <1>7 DEF Bailed, Superseded, Released, Crash, TypeOK
<1>8. ASSUME UNCHANGED pc PROVE FALSE
  BY <1>2, <1>3, <1>8
<1> QED
  BY <1>4, <1>5, <1>6, <1>7, <1>8 DEF Next, TabStep, Ignore, Service, Pagehide,
     Resume, Tick, ClockBack, ClockForward, vars

(* The tab that claimed the lock last is never asked to stop, whatever     *)
(* events of earlier claims are still on their way to it.                  *)
THEOREM TheLatestNeverYields == Spec => []LatestNeverYields
<1>1. Init => TypeOK /\ LatestNeverYields
  BY NoneAssumption, TimeAssumption
  DEF Init, TypeOK, Phases, LatestNeverYields
<1> QED BY <1>1, TypeInductive, LatestInductive, PTL DEF Spec

-----------------------------------------------------------------------------
(* The lock implements the handover                                        *)

LEMMA StageIs ==
  ASSUME TypeOK, NEW t \in Tab
  PROVE  /\ stage[t] = "out" <=> pc[t] = "idle"
         /\ stage[t] = "asked" <=> pc[t] = "waiting"
         /\ stage[t] = "running" <=> pc[t] = "held"
         /\ stage[t] = "yielding" <=> pc[t] \in {"bailing", "releasing"}
         /\ stage[t] = "over" <=> pc[t] = "done"
         /\ stage[t] = "gone" <=> pc[t] = "gone"
  BY DEF TypeOK, Phases, stage, StageOf

(* A tab that moves alone is a tab whose stage alone is replaced.          *)
LEMMA StageMoves ==
  ASSUME TypeOK, TypeOK', NEW t \in Tab, NEW p,
         pc' = [pc EXCEPT ![t] = p]
  PROVE  \A s : stage'[t] = s => stage' = [stage EXCEPT ![t] = s]
<1>1. \A u \in Tab : u # t => pc'[u] = pc[u]
  BY DEF TypeOK
<1>2. \A u \in Tab : u # t => stage'[u] = stage[u]
  BY <1>1 DEF stage
<1>3. stage = [u \in Tab |-> stage[u]] /\ stage' = [u \in Tab |-> stage'[u]]
  BY DEF stage
<1> QED BY <1>2, <1>3

(* Every step of the lock is a step of the handover, or none.              *)
LEMMA StepHandsOver ==
  TypeOK /\ TypeOK' /\ [Next]_vars => [Handover!HNext]_(Handover!hvars)
<1> SUFFICES ASSUME TypeOK, TypeOK', [Next]_vars
             PROVE  Handover!HNext \/ UNCHANGED <<claimant, stage>>
  BY DEF Handover!hvars
<1>1. ASSUME NEW t \in Tab, Start(t) PROVE Handover!Claim(t)
  <2>1. pc[t] = "idle" /\ claimant' = t
    BY <1>1 DEF Start
  <2>2. PICK p \in {"waiting", "held"} : pc' = [pc EXCEPT ![t] = p]
    BY <1>1 DEF Start, WaitLoop, Acquire
  <2>3. pc'[t] = p
    BY <2>2 DEF TypeOK
  <2>4. stage'[t] \in {"asked", "running"}
    BY <2>2, <2>3 DEF stage, StageOf
  <2> QED BY <2>1, <2>2, <2>4, StageIs, StageMoves DEF Handover!Claim
<1>2. ASSUME NEW t \in Tab, UNCHANGED claimant,
             pc[t] = "waiting" /\ pc' = [pc EXCEPT ![t] = "held"]
      PROVE  Handover!Enter(t)
  <2>1. stage'[t] = "running"
    BY <1>2 DEF TypeOK, stage, StageOf
  <2> QED BY <1>2, <2>1, StageIs, StageMoves DEF Handover!Enter
<1>3. ASSUME NEW t \in Tab, UNCHANGED claimant, claimant # t,
             pc[t] \in {"waiting", "held"},
             NEW p \in {"bailing", "releasing"}, pc' = [pc EXCEPT ![t] = p]
      PROVE  Handover!Yield(t)
  <2>1. stage'[t] = "yielding"
    BY <1>3 DEF TypeOK, stage, StageOf
  <2>2. stage[t] \in {"asked", "running"}
    BY <1>3, StageIs
  <2> QED BY <1>3, <2>1, <2>2, StageMoves DEF Handover!Yield
<1>4. ASSUME NEW t \in Tab, Bailed(t) \/ Released(t) PROVE Handover!Leave(t)
  <2>1. pc[t] \in {"bailing", "releasing"} /\ pc' = [pc EXCEPT ![t] = "done"]
    BY <1>4 DEF Bailed, Released
  <2>2. stage'[t] = "over"
    BY <2>1 DEF TypeOK, stage, StageOf
  <2> QED BY <1>4, <2>1, <2>2, StageIs, StageMoves
          DEF Handover!Leave, Bailed, Released, storage
<1>5. ASSUME NEW t \in Tab, Crash(t) PROVE Handover!Die(t)
  <2>1. pc[t] # "gone" /\ pc' = [pc EXCEPT ![t] = "gone"]
    BY <1>5 DEF Crash
  <2>2. stage'[t] = "gone"
    BY <2>1 DEF TypeOK, stage, StageOf
  <2> QED BY <1>5, <2>1, <2>2, StageIs, StageMoves DEF Handover!Die, Crash, storage
<1>6. ASSUME UNCHANGED <<claimant, pc>> PROVE UNCHANGED <<claimant, stage>>
  BY <1>6 DEF stage
<1>7. ASSUME NEW t \in Tab, NEW key \in Keys, Wake(t, key)
      PROVE  Handover!Yield(t) \/ Handover!Enter(t) \/ UNCHANGED <<claimant, pc>>
  <2>1. UNCHANGED claimant /\ pc[t] = "waiting" /\ WaitLoop(t, claimant, {key}, {})
    BY <1>7 DEF Wake
  <2>2. CASE claimant # t
    BY <1>3, <2>1, <2>2 DEF WaitLoop, Acquire
  <2>3. CASE claimant = t
    <3>1. CASE pc' = [pc EXCEPT ![t] = "held"]
      BY <1>2, <2>1, <3>1
    <3>2. CASE pc' = [pc EXCEPT ![t] = "waiting"]
      BY <2>1, <3>2 DEF TypeOK
    <3> QED BY <2>1, <2>3, <3>1, <3>2 DEF WaitLoop, Acquire
  <2> QED BY <2>2, <2>3
<1>8. ASSUME NEW t \in Tab, SleepExpires(t) PROVE Handover!Enter(t)
  BY <1>2, <1>8 DEF SleepExpires, Acquire
<1>9. ASSUME NEW t \in Tab, Superseded(t) PROVE Handover!Yield(t)
  BY <1>3, <1>9 DEF Superseded, storage
<1>10. Handover!HNext \/ UNCHANGED <<claimant, pc>>
  BY <1>1, <1>4, <1>5, <1>7, <1>8, <1>9
  DEF Next, TabStep, Handover!HNext, Ignore, Service, Pagehide, Resume, Tick,
      ClockBack, ClockForward, vars, storage
<1> QED BY <1>6, <1>10

(* The lock hands the session over as SessionHandover promises, whatever   *)
(* is delayed, frozen, crashed or set wrong, and for any number of tabs.   *)
THEOREM LockHandsOver == Spec => HandsOver
<1>1. Init => Handover!HInit
  BY DEF Init, Handover!HInit, stage, StageOf
<1>2. Init => TypeOK
  BY TimeAssumption DEF Init, TypeOK, Phases
<1> QED
  BY <1>1, <1>2, TypeInductive, StepHandsOver, PTL
  DEF Spec, HandsOver, Handover!HSpec

-----------------------------------------------------------------------------
(* In a browser that keeps up.                                             *)

LEMMA TimelyIsNext == [TimelyNext]_vars => [Next]_vars
  BY DEF TimelyNext, TimelyTabStep, Next, TabStep

(* Nobody runs where the lock looks free: a holder's ping is no older than *)
(* its interval, which is shorter than the expiry.                         *)
LEMMA FreeMeansNobody ==
  ASSUME TypeOK, HolderPings, Remaining = 0, NEW t \in Tab
  PROVE  ~Running(t)
<1> SUFFICES ASSUME Running(t) PROVE FALSE
  OBVIOUS
<1>1. ping # None /\ ping <= elapsed[t] /\ elapsed[t] \in 0..Interval
  BY DEF HolderPings, TypeOK
<1>2. ping \in Ages
  BY <1>1 DEF TypeOK
<1> QED BY <1>1, <1>2, TimeAssumption, ServicedAssumption DEF Remaining, Ages

(* What is left to the lock when one tab moves and no other does.          *)
LEMMA OthersKeep ==
  ASSUME TypeOK, NEW t \in Tab, NEW p, pc' = [pc EXCEPT ![t] = p], UNCHANGED frozen,
         NEW u \in Tab, u # t
  PROVE  Running(u)' <=> Running(u)
  BY DEF TypeOK, Running

(* A tab that takes the lock where nobody runs is the only one that runs.  *)
LEMMA AcquireExcludes ==
  ASSUME TypeOK, TimelyInv, NEW t \in Tab, \A u \in Tab : ~Running(u),
         NEW read \in SUBSET Keys, NEW wrote \in SUBSET Keys,
         Acquire(t, read, wrote), UNCHANGED frozen
  PROVE  TimelyInv'
<1>1. pc' = [pc EXCEPT ![t] = "held"]
  BY DEF Acquire
<1>2. \A u \in Tab : Running(u)' => u = t
  BY <1>1, OthersKeep
<1>3. /\ servicing'[t] /\ elapsed'[t] = 0 /\ ping' = 0 /\ owner' = t
      /\ \A u \in Tab : u # t => servicing'[u] = servicing[u]
  BY DEF Acquire, TypeOK
<1>4. MutualExclusion'
  BY <1>2 DEF MutualExclusion
<1>5. HolderPings'
  <2>1. 0 # None
    BY NoneAssumption
  <2> QED BY <1>2, <1>3, <2>1 DEF HolderPings
<1>6. SleepersOutlast'
  <2>1. ASSUME NEW w \in Tab, pc'[w] = "waiting" PROVE "ping" \in inbox'[w]
    <3>1. w # t /\ pc[w] = "waiting"
      BY <1>1, <2>1 DEF TypeOK
    <3> QED BY <3>1 DEF Acquire, Mail
  <2> QED BY <2>1 DEF SleepersOutlast
<1>7. OnlyHoldersServe'
  <2>1. ASSUME NEW u \in Tab, u # t, servicing'[u], ~frozen'[u] PROVE FALSE
    BY <1>3, <2>1 DEF TimelyInv, OnlyHoldersServe
  <2>2. pc'[t] = "held"
    BY <1>1 DEF TypeOK
  <2> QED BY <2>1, <2>2 DEF OnlyHoldersServe, Running
<1> QED BY <1>4, <1>5, <1>6, <1>7 DEF TimelyInv

(* A tab that leaves the wait loop or goes on waiting does no harm: nobody *)
(* starts to run, no ping is touched, and its sleep is measured afresh.    *)
LEMMA WaitersHarmless ==
  ASSUME TypeOK, TimelyInv, NEW t \in Tab, ~Running(t),
         UNCHANGED <<ping, owner, servicing, elapsed, frozen>>,
         NEW p \in {"waiting", "bailing", "done"}, pc' = [pc EXCEPT ![t] = p],
         \A w \in Tab : w # t /\ pc[w] = "waiting" =>
             sleep'[w] = sleep[w] /\ inbox[w] \subseteq inbox'[w],
         p = "waiting" => sleep'[t] = Remaining
  PROVE  TimelyInv'
<1>1. \A u \in Tab : Running(u)' <=> Running(u)
  <2>1. ~Running(t)'
    BY DEF TypeOK, Running
  <2> QED BY <2>1, OthersKeep
<1>2. MutualExclusion' /\ HolderPings' /\ OnlyHoldersServe'
  BY <1>1 DEF TimelyInv, MutualExclusion, HolderPings, OnlyHoldersServe
<1>3. ASSUME NEW h \in Tab, Running(h), NEW w \in Tab, pc'[w] = "waiting",
             "ping" \notin inbox'[w]
      PROVE  sleep'[w] + elapsed[h] >= Expiry
  <2>1. CASE w = t
    <3>1. p = "waiting"
      BY <1>3, <2>1 DEF TypeOK
    <3>2. /\ elapsed[h] \in 0..Interval
          /\ ping # None /\ ping <= elapsed[h] /\ ping \in Ages
      BY <1>3 DEF TypeOK, TimelyInv, HolderPings
    <3> QED BY <2>1, <3>1, <3>2, TimeAssumption DEF Remaining, Ages
  <2>2. CASE w # t
    BY <1>3, <2>2 DEF TypeOK, TimelyInv, SleepersOutlast
  <2> QED BY <2>1, <2>2
<1>4. SleepersOutlast'
  BY <1>1, <1>3 DEF SleepersOutlast
<1> QED BY <1>2, <1>4 DEF TimelyInv

LEMMA LoopExcludes ==
  ASSUME TypeOK, TimelyInv, NEW t \in Tab, pc[t] \in {"idle", "waiting"}, NEW c,
         NEW read \in SUBSET Keys, NEW wrote \in SUBSET Keys,
         WaitLoop(t, c, read, wrote), UNCHANGED frozen
  PROVE  TimelyInv'
<1>1. CASE Remaining = 0 /\ Acquire(t, read, wrote)
  <2>1. \A u \in Tab : ~Running(u)
    BY <1>1, FreeMeansNobody DEF TimelyInv
  <2> QED BY <1>1, <2>1, AcquireExcludes
<1>2. CASE ~(Remaining = 0 /\ Acquire(t, read, wrote))
  <2>1. PICK p \in {"waiting", "bailing"} :
          /\ pc' = [pc EXCEPT ![t] = p]
          /\ p = "waiting" => sleep' = [sleep EXCEPT ![t] = Remaining]
          /\ p = "bailing" => sleep' = [sleep EXCEPT ![t] = 0]
    BY <1>2 DEF WaitLoop
  <2>2. /\ inbox' = Mail(t, read, wrote)
        /\ UNCHANGED <<ping, owner, servicing, elapsed>>
    BY <1>2 DEF WaitLoop
  <2>3. \A w \in Tab : w # t /\ pc[w] = "waiting" =>
          sleep'[w] = sleep[w] /\ inbox[w] \subseteq inbox'[w]
    BY <2>1, <2>2 DEF TypeOK, Mail
  <2>4. p = "waiting" => sleep'[t] = Remaining
    BY <2>1 DEF TypeOK
  <2>5. ~Running(t)
    BY DEF Running
  <2> QED BY <2>1, <2>2, <2>3, <2>4, <2>5, WaitersHarmless
<1> QED BY <1>1, <1>2

(* A holder that stops running leaves nobody running; its items may go.    *)
LEMMA LastLeaves ==
  ASSUME TypeOK, TimelyInv, NEW t \in Tab, ~Running(t)',
         \A u \in Tab : u # t => (Running(u)' <=> Running(u)),
         servicing'[t] = FALSE,
         \A u \in Tab : u # t => servicing'[u] = servicing[u] /\ frozen'[u] = frozen[u],
         Running(t) \/ UNCHANGED <<ping, owner, elapsed, sleep>>,
         \A w \in Tab : pc'[w] = "waiting" => pc[w] = "waiting",
         Running(t) \/ \A w \in Tab : pc'[w] = "waiting" => inbox[w] \subseteq inbox'[w]
  PROVE  TimelyInv'
<1>1. CASE Running(t)
  <2>1. \A u \in Tab : ~Running(u)'
    BY <1>1 DEF TimelyInv, MutualExclusion
  <2>2. ASSUME NEW u \in Tab, u # t, servicing[u], ~frozen[u] PROVE FALSE
    BY <1>1, <2>2 DEF TimelyInv, MutualExclusion, OnlyHoldersServe
  <2> QED BY <2>1, <2>2 DEF TimelyInv, MutualExclusion, HolderPings, SleepersOutlast,
             OnlyHoldersServe
<1>2. CASE ~Running(t)
  <2>1. \A u \in Tab : Running(u)' => u # t /\ Running(u)
    OBVIOUS
  <2>2. MutualExclusion' /\ OnlyHoldersServe'
    BY <2>1 DEF TimelyInv, MutualExclusion, OnlyHoldersServe
  <2>3. HolderPings'
    BY <1>2, <2>1 DEF TimelyInv, HolderPings
  <2>4. SleepersOutlast'
    BY <1>2, <2>1 DEF TimelyInv, SleepersOutlast
  <2> QED BY <2>2, <2>3, <2>4 DEF TimelyInv
<1> QED BY <1>1, <1>2

(* Time passes only when every timer that is due has fired.                *)
LEMMA TickExcludes ==
  ASSUME TypeOK, TimelyInv, \A t \in Tab : Idle(t), Tick
  PROVE  TimelyInv'
<1>1. \A u \in Tab : Running(u)' <=> Running(u)
  BY DEF Tick, Running
<1>2. ASSUME NEW h \in Tab, Running(h)
      PROVE  /\ servicing[h] /\ elapsed[h] \in 0..Interval
             /\ elapsed[h] < Interval /\ elapsed'[h] = elapsed[h] + 1
  <2>1. servicing[h] /\ elapsed[h] < Interval
    BY <1>2 DEF Idle, Attentive, Running, TimelyInv, HolderPings
  <2>2. elapsed'[h] = elapsed[h] + 1
    BY <2>1 DEF Tick
  <2> QED BY <2>1, <2>2 DEF TypeOK
<1>3. MutualExclusion' /\ OnlyHoldersServe'
  BY <1>1 DEF Tick, TimelyInv, MutualExclusion, OnlyHoldersServe
<1>4. ASSUME NEW h \in Tab, Running(h)
      PROVE  ping' # None /\ ping' <= elapsed'[h]
  <2>1. ping # None /\ ping \in Ages /\ ping <= elapsed[h]
    BY <1>4 DEF TimelyInv, HolderPings, TypeOK
  <2>2. ping' \in Int /\ ping' <= ping + 1
    BY <2>1, TimeAssumption, NoneAssumption DEF Tick, Older, Ages
  <2> QED BY <1>2, <1>4, <2>1, <2>2, NoneAssumption, TimeAssumption DEF Ages
<1>5. HolderPings'
  BY <1>1, <1>4 DEF Tick, TimelyInv, HolderPings
<1>6. ASSUME NEW h \in Tab, NEW w \in Tab, Running(h), pc[w] = "waiting",
             "ping" \notin inbox[w]
      PROVE  sleep'[w] + elapsed'[h] >= Expiry
  <2>1. sleep[w] + elapsed[h] >= Expiry
    BY <1>6 DEF TimelyInv, SleepersOutlast
  <2>2. sleep[w] \in 0..Expiry
    BY DEF TypeOK
  <2>3. sleep[w] > 0
    BY <1>2, <1>6, <2>1, <2>2, TimeAssumption, ServicedAssumption
  <2>4. sleep'[w] = sleep[w] - 1
    BY <2>3 DEF Tick
  <2> QED BY <1>2, <1>6, <2>1, <2>2, <2>4, TimeAssumption
<1>7. SleepersOutlast'
  BY <1>1, <1>6 DEF Tick, SleepersOutlast
<1> QED BY <1>3, <1>5, <1>7 DEF TimelyInv

(* A step that leaves the phases, the timers and the sleepers' queues.     *)
LEMMA QuietStep ==
  ASSUME TimelyInv, UNCHANGED <<owner, sleep, servicing, elapsed, frozen>>,
         \A u \in Tab : Running(u)' <=> Running(u),
         \A u \in Tab : pc'[u] = "waiting" => pc[u] = "waiting" /\ inbox[u] \subseteq inbox'[u],
         (\A u \in Tab : Running(u) => ping' # None /\ ping' <= elapsed[u])
  PROVE  TimelyInv'
  BY DEF TimelyInv, MutualExclusion, HolderPings, SleepersOutlast, OnlyHoldersServe

LEMMA TimelyInductive == TypeOK /\ TimelyInv /\ [TimelyNext]_vars => TimelyInv'
<1> SUFFICES ASSUME TypeOK, TimelyInv, [TimelyNext]_vars PROVE TimelyInv'
  OBVIOUS
<1>0. UNCHANGED ping => \A u \in Tab : Running(u) => ping' # None /\ ping' <= elapsed[u]
  BY DEF TimelyInv, HolderPings
<1>1. ASSUME NEW t \in Tab, Start(t) PROVE TimelyInv'
  BY <1>1, LoopExcludes DEF Start, Keys
<1>2. ASSUME NEW t \in Tab, NEW key \in Keys, Wake(t, key) PROVE TimelyInv'
  <2>1. {key} \in SUBSET Keys /\ {} \in SUBSET Keys
    OBVIOUS
  <2> QED BY <1>2, <2>1, LoopExcludes DEF Wake
<1>3. ASSUME NEW t \in Tab, inbox[t] = {}, SleepExpires(t) PROVE TimelyInv'
  <2>1. ASSUME NEW h \in Tab, Running(h) PROVE FALSE
    <3>1. sleep[t] + elapsed[h] >= Expiry
      BY <1>3, <2>1 DEF TimelyInv, SleepersOutlast, SleepExpires
    <3>2. sleep[t] = 0 /\ elapsed[h] \in 0..Interval
      BY <1>3 DEF SleepExpires, TypeOK
    <3> QED BY <3>1, <3>2, TimeAssumption, ServicedAssumption
  <2>2. {} \in SUBSET Keys
    OBVIOUS
  <2> QED BY <1>3, <2>1, <2>2, AcquireExcludes DEF SleepExpires
<1>4. ASSUME NEW t \in Tab, Bailed(t) PROVE TimelyInv'
  BY <1>4, WaitersHarmless DEF Bailed, Running, storage
<1>5. ASSUME NEW t \in Tab, NEW key \in Keys, Ignore(t, key) PROVE TimelyInv'
  <2>1. UNCHANGED <<storage, pc, sleep, servicing, elapsed, frozen>>
    BY <1>5 DEF Ignore
  <2>2. \A u \in Tab : pc[u] = "waiting" => inbox[u] \subseteq inbox'[u]
    BY <1>5 DEF Ignore, Mail
  <2> QED BY <1>0, <2>1, <2>2, QuietStep DEF storage, Running
<1>6. ASSUME NEW t \in Tab, Service(t) PROVE TimelyInv'
  <2>1. Running(t)
    BY <1>6 DEF Service, TimelyInv, OnlyHoldersServe
  <2>2. \A u \in Tab : Running(u)' <=> Running(u) /\ u = t
    BY <1>6, <2>1 DEF Service, TimelyInv, MutualExclusion, Running
  <2>3. MutualExclusion' /\ OnlyHoldersServe'
    BY <1>6, <2>1, <2>2 DEF Service, TimelyInv, MutualExclusion, OnlyHoldersServe
  <2>4. HolderPings'
    <3>1. ping' = 0 /\ owner' = t /\ elapsed'[t] = 0 /\ servicing'[t]
      BY <1>6 DEF Service, TypeOK
    <3> QED BY <2>2, <3>1, NoneAssumption DEF HolderPings
  <2>5. ASSUME NEW w \in Tab, pc'[w] = "waiting" PROVE "ping" \in inbox'[w]
    BY <1>6, <2>1, <2>5 DEF Service, Mail, Running
  <2> QED BY <2>3, <2>4, <2>5 DEF TimelyInv, SleepersOutlast
<1>7. ASSUME NEW t \in Tab, Superseded(t) PROVE TimelyInv'
  <2>1. \A u \in Tab : Running(u)' <=> Running(u)
    BY <1>7 DEF Superseded, Running, TypeOK
  <2>2. \A u \in Tab : pc'[u] = "waiting" =>
           pc[u] = "waiting" /\ inbox[u] \subseteq inbox'[u]
    BY <1>7 DEF Superseded, Mail, TypeOK
  <2> QED BY <1>0, <1>7, <2>1, <2>2, QuietStep DEF Superseded, storage
<1>8. ASSUME NEW t \in Tab, Released(t) PROVE TimelyInv'
  BY <1>8, LastLeaves DEF Released, Running, TypeOK
<1>9. ASSUME NEW t \in Tab, Pagehide(t) PROVE TimelyInv'
  <2>1. servicing[t] /\ Running(t)
    BY <1>9 DEF Pagehide, TimelyInv, HolderPings
  <2> QED BY <1>9, <2>1, LastLeaves DEF Pagehide, Running, TypeOK
<1>10. ASSUME NEW t \in Tab, Crash(t) PROVE TimelyInv'
  <2>1. pc' = [pc EXCEPT ![t] = "gone"] /\ UNCHANGED storage
    BY <1>10 DEF Crash
  <2>2. /\ ~Running(t)' /\ servicing'[t] = FALSE
        /\ \A u \in Tab : u # t =>
             /\ Running(u)' <=> Running(u)
             /\ servicing'[u] = servicing[u] /\ frozen'[u] = frozen[u]
             /\ elapsed'[u] = elapsed[u] /\ sleep'[u] = sleep[u]
             /\ inbox'[u] = inbox[u] /\ pc'[u] = pc[u]
        /\ pc'[t] = "gone"
    BY <1>10 DEF Crash, Running, TypeOK
  <2>3. MutualExclusion' /\ OnlyHoldersServe'
    BY <2>2 DEF TimelyInv, MutualExclusion, OnlyHoldersServe
  <2>4. HolderPings'
    BY <2>1, <2>2 DEF TimelyInv, HolderPings, storage
  <2>5. SleepersOutlast'
    BY <2>2 DEF TimelyInv, SleepersOutlast
  <2> QED BY <2>3, <2>4, <2>5 DEF TimelyInv
<1>11. CASE (\A t \in Tab : Idle(t)) /\ Tick
  BY <1>11, TickExcludes
<1>12. CASE ClockBack
  <2>1. ping # None /\ ping \in Ages /\ ping' \in Ages /\ ping' < ping
    BY <1>12 DEF ClockBack, TypeOK
  <2>2. \A u \in Tab : Running(u) => ping' # None /\ ping' <= elapsed[u]
    BY <2>1, NoneAssumption, TimeAssumption DEF TimelyInv, HolderPings, TypeOK, Ages
  <2> QED BY <1>12, <2>2, QuietStep DEF ClockBack, Running
<1>13. CASE UNCHANGED vars
  BY <1>0, <1>13, QuietStep DEF vars, Running
<1> QED
  BY <1>1, <1>2, <1>3, <1>4, <1>5, <1>6, <1>7, <1>8, <1>9, <1>10, <1>11, <1>12,
     <1>13 DEF TimelyNext, TimelyTabStep

LEMMA TimelyInvariant == TimelySpec => [](TypeOK /\ TimelyInv)
<1>1. Init => TypeOK
  BY TimeAssumption DEF Init, TypeOK, Phases
<1>2. Init => TimelyInv
  BY DEF Init, TimelyInv, MutualExclusion, HolderPings, SleepersOutlast,
         OnlyHoldersServe, Running
<1> QED
  BY <1>1, <1>2, TimelyIsNext, TypeInductive, TimelyInductive, PTL DEF TimelySpec

(* In a browser that keeps up, at most one instance runs at a time, from   *)
(* the return of getSessionLock to the end of onNewInstance: for any       *)
(* number of tabs, any crashes, any page hides, any setting back of the    *)
(* clock, and any interval shorter than the expiry.                        *)
THEOREM TheLockExcludes == TimelySpec => []MutualExclusion
  BY TimelyInvariant, PTL DEF TimelyInv

(* There, a page that only looks never finds the lock free while some tab  *)
(* runs the application.                                                   *)
THEOREM TheHolderIsSeen == TimelySpec => []LiveHolderIsSeen
<1>1. TypeOK /\ TimelyInv => LiveHolderIsSeen
  <2> SUFFICES ASSUME TypeOK, TimelyInv, NEW t \in Tab, Running(t) PROVE ~LockFree
    BY DEF LiveHolderIsSeen
  <2>1. ping # None /\ ping \in Ages /\ ping <= elapsed[t] /\ elapsed[t] \in 0..Interval
    BY DEF TimelyInv, HolderPings, TypeOK
  <2> QED BY <2>1, TimeAssumption, ServicedAssumption DEF LockFree, Ages
<1> QED BY <1>1, TimelyInvariant, PTL
=============================================================================

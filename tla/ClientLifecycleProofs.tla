----------------------- MODULE ClientLifecycleProofs -----------------------
(***************************************************************************)
(* What ClientLifecycle says of one page of the app, for any number of     *)
(* logins.                                                                 *)
(*                                                                         *)
(* A login that has no client yet is the only one (Alone): the app offers  *)
(* no other, no service runs whose events could end the session, and no    *)
(* client runs that the new one would hide.  A login that has its client   *)
(* may meet others, but it only ever acts on the client that is there.     *)
(***************************************************************************)
EXTENDS ClientLifecycle, TLAPS

Alone(l) ==
    /\ \A k \in Login : at[k] \in Early => k = l
    /\ logout # "calling" /\ "before" \notin services
    /\ soft => ~loggingOut /\ \A k \in Login : at[k] \notin Late
    /\ at[l] = "persisting" => peg # None \/ stolen
    /\ at[l] # "persisting" =>
         /\ running = {}
         /\ peg # None => \A k \in Login : at[k] \notin {"indexing", "assigning"}

EarlyAreAlone == \A l \in Login : at[l] \in Early => Alone(l)

NoneAtFirst ==
    (\A l \in Login : at[l] = "none") => peg = None /\ logout = "none" /\ ~loggingOut

SoftStops ==
    soft /\ loggingOut /\ logout = "none" =>
        /\ services \subseteq {"listener"}
        /\ (\A l \in Login : at[l] # "starting") => running = {}

IInv ==
    /\ TypeOK
    /\ StolenHasNoClient /\ NoClientIsLost /\ AbandonedIsQuiet
    /\ EarlyAreAlone /\ NoneAtFirst /\ SoftStops

(* The inductive invariant holds throughout.                               *)
THEOREM Invariance == Spec => []IInv
<1> USE NoneAssumption DEF IInv, TypeOK, Early, Late, Ended, Services
<1>1. Init => IInv
  BY DEF Init, StolenHasNoClient, NoClientIsLost, AbandonedIsQuiet, EarlyAreAlone,
         NoneAtFirst, SoftStops
<1>2. IInv /\ [Next]_vars => IInv'
  <2> SUFFICES ASSUME IInv, [Next]_vars
               PROVE  IInv'
    OBVIOUS
  <2>1. ASSUME NEW l \in Login, Restore(l)
        PROVE  IInv'
    <3> USE <2>1 DEF Restore, Goes
    <3>1. TypeOK'
      OBVIOUS
    <3>2. StolenHasNoClient' /\ NoClientIsLost'
      BY DEF StolenHasNoClient, NoClientIsLost, EarlyAreAlone, Alone
    <3>3. AbandonedIsQuiet'
      BY DEF AbandonedIsQuiet, EarlyAreAlone, Alone
    <3>4. EarlyAreAlone'
      <4> SUFFICES ASSUME NEW k \in Login, at'[k] \in Early
                   PROVE  Alone(k)'
        BY DEF EarlyAreAlone
      <4>1. at[k] \in Early => Alone(k)
        BY DEF EarlyAreAlone
      <4> QED
        BY <4>1 DEF Alone, NoClientIsLost, AbandonedIsQuiet, NoneAtFirst
    <3>5. NoneAtFirst'
      BY DEF NoneAtFirst
    <3>6. SoftStops'
      BY DEF SoftStops, EarlyAreAlone, Alone, StolenHasNoClient, NoClientIsLost,
             AbandonedIsQuiet
    <3> QED
      BY <3>1, <3>2, <3>3, <3>4, <3>5, <3>6
  <2>2. ASSUME NEW l \in Login, LogIn(l)
        PROVE  IInv'
    BY <2>2, SMTT(30)
       DEF LogIn, CanLogIn, Settled, Stop, Goes, StolenHasNoClient, NoClientIsLost, AbandonedIsQuiet,
           EarlyAreAlone, Alone, NoneAtFirst, SoftStops
  <2>3. ASSUME NEW l \in Login, Hydrate(l)
        PROVE  IInv'
    <3> USE <2>3 DEF Hydrate, CanLogIn, Settled, Stop, Goes
    <3>1. TypeOK'
      OBVIOUS
    <3>2. StolenHasNoClient' /\ NoClientIsLost'
      BY DEF StolenHasNoClient, NoClientIsLost, EarlyAreAlone, Alone
    <3>3. AbandonedIsQuiet'
      BY DEF AbandonedIsQuiet, EarlyAreAlone, Alone
    <3>4. EarlyAreAlone'
      <4> SUFFICES ASSUME NEW k \in Login, at'[k] \in Early
                   PROVE  Alone(k)'
        BY DEF EarlyAreAlone
      <4>1. at[k] \in Early => Alone(k)
        BY DEF EarlyAreAlone
      <4> QED
        BY <4>1 DEF Alone, NoClientIsLost, AbandonedIsQuiet, NoneAtFirst
    <3>5. NoneAtFirst'
      BY DEF NoneAtFirst
    <3>6. SoftStops'
      BY DEF SoftStops, EarlyAreAlone, Alone, StolenHasNoClient, NoClientIsLost,
             AbandonedIsQuiet
    <3> QED
      BY <3>1, <3>2, <3>3, <3>4, <3>5, <3>6
  <2>4. ASSUME NEW l \in Login, Overwrite(l)
        PROVE  IInv'
    BY <2>4, SMTT(30)
       DEF Overwrite, CanLogIn, Settled, Begins, Stop, Goes, StolenHasNoClient, NoClientIsLost, AbandonedIsQuiet,
           EarlyAreAlone, Alone, NoneAtFirst, SoftStops
  <2>5. ASSUME NEW l \in Login, Begin(l)
        PROVE  IInv'
    BY <2>5, SMTT(30)
       DEF Begin, Begins, Goes, StolenHasNoClient, NoClientIsLost, AbandonedIsQuiet,
           EarlyAreAlone, Alone, NoneAtFirst, SoftStops
  <2>6. ASSUME NEW l \in Login, Abort(l)
        PROVE  IInv'
    <3> USE <2>6 DEF Abort, Goes
    <3>1. TypeOK'
      OBVIOUS
    <3>2. StolenHasNoClient' /\ NoClientIsLost'
      BY DEF StolenHasNoClient, NoClientIsLost, EarlyAreAlone, Alone
    <3>3. AbandonedIsQuiet'
      BY DEF AbandonedIsQuiet, EarlyAreAlone, Alone
    <3>4. EarlyAreAlone'
      <4> SUFFICES ASSUME NEW k \in Login, at'[k] \in Early
                   PROVE  Alone(k)'
        BY DEF EarlyAreAlone
      <4>1. at[k] \in Early => Alone(k)
        BY DEF EarlyAreAlone
      <4> QED
        BY <4>1 DEF Alone, NoClientIsLost, AbandonedIsQuiet, NoneAtFirst
    <3>5. NoneAtFirst'
      BY DEF NoneAtFirst
    <3>6. SoftStops'
      BY DEF SoftStops, EarlyAreAlone, Alone, StolenHasNoClient, NoClientIsLost,
             AbandonedIsQuiet
    <3> QED
      BY <3>1, <3>2, <3>3, <3>4, <3>5, <3>6
  <2>7. ASSUME NEW l \in Login, Create(l)
        PROVE  IInv'
    BY <2>7, SMTT(30)
       DEF Create, Goes, StolenHasNoClient, NoClientIsLost, AbandonedIsQuiet,
           EarlyAreAlone, Alone, NoneAtFirst, SoftStops
  <2>8. ASSUME NEW l \in Login, Persisted(l)
        PROVE  IInv'
    <3> USE <2>8 DEF Persisted, Goes
    <3>1. TypeOK'
      OBVIOUS
    <3>2. StolenHasNoClient' /\ NoClientIsLost'
      BY DEF StolenHasNoClient, NoClientIsLost, EarlyAreAlone, Alone
    <3>3. AbandonedIsQuiet'
      BY DEF AbandonedIsQuiet, EarlyAreAlone, Alone
    <3>4. EarlyAreAlone'
      <4> SUFFICES ASSUME NEW k \in Login, at'[k] \in Early
                   PROVE  Alone(k)'
        BY DEF EarlyAreAlone
      <4>1. at[k] \in Early => Alone(k)
        BY DEF EarlyAreAlone
      <4> QED
        BY <4>1 DEF Alone, NoClientIsLost, AbandonedIsQuiet, NoneAtFirst
    <3>5. NoneAtFirst'
      BY DEF NoneAtFirst
    <3>6. SoftStops'
      BY DEF SoftStops, EarlyAreAlone, Alone, StolenHasNoClient, NoClientIsLost,
             AbandonedIsQuiet
    <3> QED
      BY <3>1, <3>2, <3>3, <3>4, <3>5, <3>6
  <2>9. ASSUME NEW l \in Login, Indexed(l)
        PROVE  IInv'
    BY <2>9, SMTT(30)
       DEF Indexed, Goes, StolenHasNoClient, NoClientIsLost, AbandonedIsQuiet,
           EarlyAreAlone, Alone, NoneAtFirst, SoftStops
  <2>10. ASSUME NEW l \in Login, AssignFails(l)
        PROVE  IInv'
    BY <2>10, SMTT(30)
       DEF AssignFails, Goes, StolenHasNoClient, NoClientIsLost, AbandonedIsQuiet,
           EarlyAreAlone, Alone, NoneAtFirst, SoftStops
  <2>11. ASSUME NEW l \in Login, Assigned(l)
        PROVE  IInv'
    BY <2>11, SMTT(30)
       DEF Assigned, Goes, StolenHasNoClient, NoClientIsLost, AbandonedIsQuiet,
           EarlyAreAlone, Alone, NoneAtFirst, SoftStops
  <2>12. ASSUME NEW l \in Login, Started(l)
        PROVE  IInv'
    <3> USE <2>12 DEF Started, Finish, Stop, Goes
    <3>1. TypeOK'
      OBVIOUS
    <3>2. StolenHasNoClient' /\ NoClientIsLost'
      BY DEF StolenHasNoClient, NoClientIsLost, EarlyAreAlone, Alone
    <3>3. AbandonedIsQuiet'
      BY DEF AbandonedIsQuiet, EarlyAreAlone, Alone
    <3>4. EarlyAreAlone'
      <4> SUFFICES ASSUME NEW k \in Login, at'[k] \in Early
                   PROVE  Alone(k)'
        BY DEF EarlyAreAlone
      <4>1. at[k] \in Early => Alone(k)
        BY DEF EarlyAreAlone
      <4> QED
        BY <4>1 DEF Alone, NoClientIsLost, AbandonedIsQuiet, NoneAtFirst
    <3>5. NoneAtFirst'
      BY DEF NoneAtFirst
    <3>6. SoftStops'
      BY DEF SoftStops, EarlyAreAlone, Alone, StolenHasNoClient, NoClientIsLost,
             AbandonedIsQuiet
    <3> QED
      BY <3>1, <3>2, <3>3, <3>4, <3>5, <3>6
  <2>13. ASSUME NEW l \in Login, StartFails(l)
        PROVE  IInv'
    BY <2>13, SMTT(30)
       DEF StartFails, Goes, StolenHasNoClient, NoClientIsLost, AbandonedIsQuiet,
           EarlyAreAlone, Alone, NoneAtFirst, SoftStops
  <2>14. ASSUME NEW l \in Login, AssignedOnly(l)
        PROVE  IInv'
    <3> USE <2>14 DEF AssignedOnly, Finish, Stop, Goes
    <3>1. TypeOK'
      OBVIOUS
    <3>2. StolenHasNoClient' /\ NoClientIsLost'
      BY DEF StolenHasNoClient, NoClientIsLost, EarlyAreAlone, Alone
    <3>3. AbandonedIsQuiet'
      BY DEF AbandonedIsQuiet, EarlyAreAlone, Alone
    <3>4. EarlyAreAlone'
      <4> SUFFICES ASSUME NEW k \in Login, at'[k] \in Early
                   PROVE  Alone(k)'
        BY DEF EarlyAreAlone
      <4>1. at[k] \in Early => Alone(k)
        BY DEF EarlyAreAlone
      <4> QED
        BY <4>1 DEF Alone, NoClientIsLost, AbandonedIsQuiet, NoneAtFirst
    <3>5. NoneAtFirst'
      BY DEF NoneAtFirst
    <3>6. SoftStops'
      BY DEF SoftStops, EarlyAreAlone, Alone, StolenHasNoClient, NoClientIsLost,
             AbandonedIsQuiet
    <3> QED
      BY <3>1, <3>2, <3>3, <3>4, <3>5, <3>6
  <2>15. CASE Steal
    BY <2>15, SMTT(30)
       DEF Steal, Stop, StolenHasNoClient, NoClientIsLost, AbandonedIsQuiet,
           EarlyAreAlone, Alone, NoneAtFirst, SoftStops
  <2>16. CASE SoftLogout
    <3> USE <2>16 DEF SoftLogout, Heard, Stop
    <3>1. TypeOK'
      OBVIOUS
    <3>2. StolenHasNoClient' /\ NoClientIsLost'
      BY DEF StolenHasNoClient, NoClientIsLost, EarlyAreAlone, Alone
    <3>3. AbandonedIsQuiet'
      BY DEF AbandonedIsQuiet, EarlyAreAlone, Alone
    <3>4. EarlyAreAlone'
      <4> SUFFICES ASSUME NEW k \in Login, at'[k] \in Early
                   PROVE  Alone(k)'
        BY DEF EarlyAreAlone
      <4>1. at[k] \in Early => Alone(k)
        BY DEF EarlyAreAlone
      <4> QED
        BY <4>1 DEF Alone, NoClientIsLost, AbandonedIsQuiet, NoneAtFirst
    <3>5. NoneAtFirst'
      BY DEF NoneAtFirst
    <3>6. SoftStops'
      BY DEF SoftStops, EarlyAreAlone, Alone, StolenHasNoClient, NoClientIsLost,
             AbandonedIsQuiet
    <3> QED
      BY <3>1, <3>2, <3>3, <3>4, <3>5, <3>6
  <2>17. CASE LogOut
    <3> USE <2>17 DEF LogOut, Heard
    <3>1. TypeOK'
      OBVIOUS
    <3>2. StolenHasNoClient' /\ NoClientIsLost'
      BY DEF StolenHasNoClient, NoClientIsLost, EarlyAreAlone, Alone
    <3>3. AbandonedIsQuiet'
      BY DEF AbandonedIsQuiet, EarlyAreAlone, Alone
    <3>4. EarlyAreAlone'
      <4> SUFFICES ASSUME NEW k \in Login, at'[k] \in Early
                   PROVE  Alone(k)'
        BY DEF EarlyAreAlone
      <4>1. at[k] \in Early => Alone(k)
        BY DEF EarlyAreAlone
      <4> QED
        BY <4>1 DEF Alone, NoClientIsLost, AbandonedIsQuiet, NoneAtFirst
    <3>5. NoneAtFirst'
      BY DEF NoneAtFirst
    <3>6. SoftStops'
      BY DEF SoftStops, EarlyAreAlone, Alone, StolenHasNoClient, NoClientIsLost,
             AbandonedIsQuiet
    <3> QED
      BY <3>1, <3>2, <3>3, <3>4, <3>5, <3>6
  <2>18. CASE LoggedOut
    <3> USE <2>18 DEF LoggedOut, Stop
    <3>1. TypeOK'
      OBVIOUS
    <3>2. StolenHasNoClient' /\ NoClientIsLost'
      BY DEF StolenHasNoClient, NoClientIsLost, EarlyAreAlone, Alone
    <3>3. AbandonedIsQuiet'
      BY DEF AbandonedIsQuiet, EarlyAreAlone, Alone
    <3>4. EarlyAreAlone'
      <4> SUFFICES ASSUME NEW k \in Login, at'[k] \in Early
                   PROVE  Alone(k)'
        BY DEF EarlyAreAlone
      <4>1. at[k] \in Early => Alone(k)
        BY DEF EarlyAreAlone
      <4> QED
        BY <4>1 DEF Alone, NoClientIsLost, AbandonedIsQuiet, NoneAtFirst
    <3>5. NoneAtFirst'
      BY DEF NoneAtFirst
    <3>6. SoftStops'
      BY DEF SoftStops, EarlyAreAlone, Alone, StolenHasNoClient, NoClientIsLost,
             AbandonedIsQuiet
    <3> QED
      BY <3>1, <3>2, <3>3, <3>4, <3>5, <3>6
  <2>19. CASE Cleared
    <3> USE <2>19 DEF Cleared
    <3>1. TypeOK'
      OBVIOUS
    <3>2. StolenHasNoClient' /\ NoClientIsLost'
      BY DEF StolenHasNoClient, NoClientIsLost, EarlyAreAlone, Alone
    <3>3. AbandonedIsQuiet'
      BY DEF AbandonedIsQuiet, EarlyAreAlone, Alone
    <3>4. EarlyAreAlone'
      <4> SUFFICES ASSUME NEW k \in Login, at'[k] \in Early
                   PROVE  Alone(k)'
        BY DEF EarlyAreAlone
      <4>1. at[k] \in Early => Alone(k)
        BY DEF EarlyAreAlone
      <4> QED
        BY <4>1 DEF Alone, NoClientIsLost, AbandonedIsQuiet, NoneAtFirst
    <3>5. NoneAtFirst'
      BY DEF NoneAtFirst
    <3>6. SoftStops'
      BY DEF SoftStops, EarlyAreAlone, Alone, StolenHasNoClient, NoClientIsLost,
             AbandonedIsQuiet
    <3> QED
      BY <3>1, <3>2, <3>3, <3>4, <3>5, <3>6
  <2>20. CASE Pause
    <3> USE <2>20 DEF Pause
    <3>1. TypeOK'
      OBVIOUS
    <3>2. StolenHasNoClient' /\ NoClientIsLost'
      BY DEF StolenHasNoClient, NoClientIsLost, EarlyAreAlone, Alone
    <3>3. AbandonedIsQuiet'
      BY DEF AbandonedIsQuiet, EarlyAreAlone, Alone
    <3>4. EarlyAreAlone'
      <4> SUFFICES ASSUME NEW k \in Login, at'[k] \in Early
                   PROVE  Alone(k)'
        BY DEF EarlyAreAlone
      <4>1. at[k] \in Early => Alone(k)
        BY DEF EarlyAreAlone
      <4> QED
        BY <4>1 DEF Alone, NoClientIsLost, AbandonedIsQuiet, NoneAtFirst
    <3>5. NoneAtFirst'
      BY DEF NoneAtFirst
    <3>6. SoftStops'
      BY DEF SoftStops, EarlyAreAlone, Alone, StolenHasNoClient, NoClientIsLost,
             AbandonedIsQuiet
    <3> QED
      BY <3>1, <3>2, <3>3, <3>4, <3>5, <3>6
  <2>21. CASE Unpause
    <3> USE <2>21 DEF Unpause
    <3>1. TypeOK'
      OBVIOUS
    <3>2. StolenHasNoClient' /\ NoClientIsLost'
      BY DEF StolenHasNoClient, NoClientIsLost, EarlyAreAlone, Alone
    <3>3. AbandonedIsQuiet'
      BY DEF AbandonedIsQuiet, EarlyAreAlone, Alone
    <3>4. EarlyAreAlone'
      <4> SUFFICES ASSUME NEW k \in Login, at'[k] \in Early
                   PROVE  Alone(k)'
        BY DEF EarlyAreAlone
      <4>1. at[k] \in Early => Alone(k)
        BY DEF EarlyAreAlone
      <4> QED
        BY <4>1 DEF Alone, NoClientIsLost, AbandonedIsQuiet, NoneAtFirst
    <3>5. NoneAtFirst'
      BY DEF NoneAtFirst
    <3>6. SoftStops'
      BY DEF SoftStops, EarlyAreAlone, Alone, StolenHasNoClient, NoClientIsLost,
             AbandonedIsQuiet
    <3> QED
      BY <3>1, <3>2, <3>3, <3>4, <3>5, <3>6
  <2>22. CASE UNCHANGED vars
    BY <2>22 DEF vars, StolenHasNoClient, NoClientIsLost, AbandonedIsQuiet,
           EarlyAreAlone, Alone, NoneAtFirst, SoftStops
  <2> QED
    BY <2>1, <2>2, <2>3, <2>4, <2>5, <2>6, <2>7, <2>8, <2>9, <2>10, <2>11, <2>12, <2>13, <2>14, <2>15, <2>16, <2>17, <2>18, <2>19, <2>20, <2>21, <2>22 DEF Next, LogsIn
<1> QED
  BY <1>1, <1>2, PTL DEF Spec

(* Type correctness for any number of logins.                              *)
THEOREM LifecycleTypes == Spec => []TypeOK
BY Invariance, PTL DEF IInv

(* A tab that has lost the session lock has no client and starts none.     *)
THEOREM TheStolenHaveNoClient == Spec => []StolenHasNoClient
BY Invariance, PTL DEF IInv

(* No client syncs but the one that stopMatrixClient would stop.           *)
THEOREM TheClientCanBeStopped == Spec => []NoClientIsLost
BY Invariance, PTL DEF IInv

(* A client that was given up takes its services with it, and a login that *)
(* was under way does not start them again.                                *)
THEOREM TheAbandonedAreQuiet == Spec => []AbandonedIsQuiet
BY Invariance, PTL DEF IInv

(* After a soft logout nothing runs once the login under way has ended.    *)
THEOREM SoftLogoutsAreQuiet == Spec => []SoftIsQuiet
<1>1. IInv => SoftIsQuiet
  BY DEF IInv, SoftStops, SoftIsQuiet, Idle, Ended
<1> QED
  BY <1>1, Invariance, PTL
=============================================================================

----------------------- MODULE PresenceSyncLoopProofs -----------------------
(***************************************************************************)
(* What the presence loop and its fallback promise, for a server on which  *)
(* any number of things happen and a tab that is hidden and shown, logged  *)
(* in and out any number of times.                                         *)
(*                                                                         *)
(* The argument for the room keys: every token of the loop, and every one  *)
(* that a request still carries or brings, is older than every message     *)
(* that the sliding sync has not received (UnreadIsAhead).                 *)
(***************************************************************************)
EXTENDS PresenceSyncLoop, TLAPS

Unread == sent \ received
After(t) == t # None => \A m \in Unread : m > t

UnreadIsAhead ==
    /\ After(since)
    /\ \A r \in flight :
          /\ After(r.since)
          /\ r.stage = "answered" /\ ~r.stale /\ ~r.toDevice => After(r.next)

----------------------------------------------------------------------------
(* Requests in flight.                                                     *)

LEMMA AbortedRequest ==
    ASSUME NEW r \in Requests, pos \in Nat
    PROVE  Aborted(r) \in Requests /\ Aborted(r).stale /\ Aborted(r).since = r.since
BY DEF Aborted, Requests, Token

LEMMA LiveOfStale ==
    ASSUME NEW F \in SUBSET Requests, pos \in Nat
    PROVE  /\ Stale(F) \subseteq Requests /\ Live(Stale(F)) = {}
           /\ \A s \in Stale(F) : s.stale /\ \E r \in F : s.since = r.since
BY AbortedRequest DEF Stale, Live

LEMMA LiveOfRequest ==
    ASSUME NEW t \in Token, pos \in Nat
    PROVE  /\ Request(t) \in Requests /\ Live({Request(t)}) = {Request(t)}
           /\ Request(t).since = t /\ Request(t).stage = "sent" /\ ~Request(t).stale
BY DEF Request, Live, Requests, Token

LEMMA LiveOfUnion == ASSUME NEW F, NEW G PROVE Live(F \cup G) = Live(F) \cup Live(G)
BY DEF Live

LEMMA LiveOfReplaced ==
    ASSUME NEW F \in SUBSET Requests, NEW r \in F, NEW n \in Requests, n.stale = r.stale
    PROVE  Live((F \ {r}) \cup {n}) = IF r.stale THEN Live(F) ELSE (Live(F) \ {r}) \cup {n}
BY DEF Live

(* What the server does to a request in flight.                            *)
LEMMA ServedRequest ==
    ASSUME NEW r \in Requests, pos \in Nat
    PROVE  /\ Waiting(r) \in Requests /\ Waiting(r).since = r.since
           /\ Waiting(r).stale = r.stale /\ Waiting(r).stage = "waiting"
BY DEF Waiting, Requests, Token

LEMMA AnsweredRequest ==
    ASSUME NEW r \in Requests, pos \in Nat, NEW p \in Token
    PROVE  /\ Answered(r, p) \in Requests
           /\ Answered(r, p).since = r.since /\ Answered(r, p).stale = r.stale
           /\ Answered(r, p).next = pos /\ Answered(r, p).toDevice = (inbox # {})
BY DEF Answered, Requests, Token

(* Later positions do not spoil a token.                                   *)
LEMMA TokensStay ==
    ASSUME pos \in Nat, pos' = pos + 1
    PROVE  Token \subseteq Token' /\ Requests \subseteq Requests'
<1>1. Token \subseteq Token'
  BY DEF Token
<1>2. 0..pos \subseteq 0..pos'
  OBVIOUS
<1> QED  BY <1>1, <1>2 DEF Requests

----------------------------------------------------------------------------
(* Type correctness, action by action.                                     *)

LEMMA TypeInit == Init => TypeOK
<1> SUFFICES ASSUME Init PROVE TypeOK
  OBVIOUS
<1>1. PollerTypeOK
  BY DEF Init, PollerInit, PollerTypeOK, Loop
<1>2. since \in Token /\ flight \subseteq Requests /\ presence \in 1..pos /\ shown \in 0..pos
  BY DEF Init, Token
<1>3. failures \in 0..Fallback
  BY FallbackAssumption DEF Init
<1> QED  BY <1>1, <1>2, <1>3 DEF Init, TypeOK

LEMMA OrphansAreTyped ==
    ASSUME PollerTypeOK
    PROVE  Orphaned \subseteq [loop : Loop \cup {None}, late : BOOLEAN,
                               value : 0..presence \cup {None}]
           /\ \A q \in Orphaned : q.late /\ q.loop = None
BY DEF PollerTypeOK, Orphaned

LEMMA StopIsTyped ==
    ASSUME PollerTypeOK, StopPoller, presence' = presence  PROVE PollerTypeOK'
BY OrphansAreTyped DEF PollerTypeOK, StopPoller

LEMMA StartIsTyped ==
    ASSUME PollerTypeOK, StartPoller, presence' = presence  PROVE PollerTypeOK'
BY OrphansAreTyped DEF PollerTypeOK, StartPoller

LEMMA PollerStays ==
    ASSUME PollerTypeOK, UNCHANGED poller, presence' = presence  PROVE PollerTypeOK'
BY DEF PollerTypeOK, poller

LEMMA TokensAreSame == ASSUME pos' = pos PROVE Token' = Token /\ Requests' = Requests
BY DEF Token, Requests

(* The conjuncts of TypeOK that a step of the loop or the tab can disturb. *)
LoopTyped ==
    /\ since \in Token /\ flight \subseteq Requests /\ timer \in {"none", "hold", "retry"}
    /\ failures \in 0..Fallback /\ inFallback \in BOOLEAN /\ running \in BOOLEAN
    /\ visible \in BOOLEAN

LEMMA TypeByParts ==
    ASSUME TypeOK, UNCHANGED server, PollerTypeOK', LoopTyped',
           shown' \in 0..pos, outdated' \in BOOLEAN
    PROVE  TypeOK'
BY TokensAreSame DEF TypeOK, LoopTyped, server

LEMMA ThrowsTyped ==
    ASSUME TypeOK, NEW r \in flight, Throws(r)
    PROVE  TypeOK'
<1>1. PollerTypeOK'
  BY StartIsTyped, PollerStays DEF Throws, TypeOK, server
<1>2. UNCHANGED server /\ UNCHANGED screen
  BY DEF Throws
<1>3. failures' \in 0..Fallback
  BY FallbackAssumption DEF Throws, TypeOK
<1>4. LoopTyped'
  BY <1>2, <1>3, TokensAreSame DEF Throws, TypeOK, LoopTyped, server
<1> QED  BY <1>1, <1>2, <1>4, TypeByParts DEF TypeOK, screen

LEMMA TypeStep ==
    ASSUME TypeOK, [Next]_vars
    PROVE  TypeOK'
<1> USE DEF TypeOK
<1> DEFINE Same == UNCHANGED server /\ UNCHANGED screen
<1>0. pos \in Nat /\ None \in Token
  BY DEF Token
<1>1. CASE Start
  <2>1. Same /\ UNCHANGED visible
    BY <1>1 DEF Start
  <2>2. PollerTypeOK'
    BY <1>1, <2>1, StopIsTyped, PollerStays DEF Start, server
  <2>3. flight' \subseteq Requests
    <3>1. Stale(flight) \subseteq Requests /\ Request(None) \in Requests
      BY <1>0, LiveOfStale, LiveOfRequest
    <3> QED  BY <1>1, <3>1 DEF Start
  <2>4. Token' = Token /\ Requests' = Requests
    BY <2>1, TokensAreSame DEF server
  <2>5. failures' \in 0..Fallback
    BY <1>1, FallbackAssumption DEF Start
  <2>6. LoopTyped'
    BY <1>0, <1>1, <2>1, <2>3, <2>4, <2>5 DEF Start, LoopTyped
  <2> QED  BY <2>1, <2>2, <2>6, TypeByParts DEF screen
<1>2. CASE Stop
  <2>1. Same /\ UNCHANGED visible
    BY <1>2 DEF Stop
  <2>2. PollerTypeOK'
    BY <1>2, <2>1, StopIsTyped, PollerStays DEF Stop, server
  <2>3. LoopTyped'
    BY <1>0, <1>2, <2>1, LiveOfStale, TokensAreSame DEF Stop, LoopTyped, server
  <2> QED  BY <2>1, <2>2, <2>3, TypeByParts DEF screen
<1>3. CASE Hide
  <2>1. Same
    BY <1>3 DEF Hide
  <2>2. PollerTypeOK'
    BY <1>3, <2>1 DEF Hide, PollerSees, PollerTypeOK, server
  <2>3. LoopTyped'
    BY <1>0, <1>3, <2>1, LiveOfStale, TokensAreSame DEF Hide, LoopTyped, server
  <2> QED  BY <2>1, <2>2, <2>3, TypeByParts DEF screen
<1>4. CASE Show
  <2>1. Same
    BY <1>4 DEF Show
  <2>2. PollerTypeOK'
    BY <1>4, <2>1 DEF Show, PollerSees, PollerTypeOK, server
  <2>3. flight' \subseteq Requests
    <3>1. Stale(flight) \subseteq Requests /\ Request(since) \in Requests
      BY <1>0, LiveOfStale, LiveOfRequest
    <3> QED  BY <1>4, <3>1 DEF Show
  <2>4. LoopTyped'
    BY <1>0, <1>4, <2>1, <2>3, TokensAreSame DEF Show, LoopTyped, server
  <2> QED  BY <2>1, <2>2, <2>4, TypeByParts DEF screen
<1>5. CASE TimerFires
  <2>1. Same /\ UNCHANGED <<visible, poller>>
    BY <1>5 DEF TimerFires
  <2>2. PollerTypeOK'
    BY <2>1, PollerStays DEF server
  <2>3. flight' \subseteq Requests
    BY <1>0, <1>5, LiveOfRequest DEF TimerFires
  <2>4. LoopTyped'
    BY <1>5, <2>1, <2>3, TokensAreSame DEF TimerFires, LoopTyped, server
  <2> QED  BY <2>1, <2>2, <2>4, TypeByParts DEF screen
<1>6. ASSUME NEW r \in flight, Serve(r)
      PROVE  TypeOK'
  <2>1. flight' \subseteq Requests
    BY <1>0, <1>6, ServedRequest DEF Serve, Replace
  <2>2. PollerTypeOK'
    BY <1>6, PollerStays DEF Serve
  <2> QED  BY <1>6, <2>1, <2>2, TokensAreSame DEF Serve, screen
<1>7. ASSUME NEW r \in flight, Answer(r)
      PROVE  TypeOK'
  <2>1. Same /\ UNCHANGED <<visible, poller>>
    BY <1>7 DEF Answer
  <2>2. PollerTypeOK'
    BY <2>1, PollerStays DEF server
  <2>3. (IF presence \in UpTo(r.since) THEN None ELSE presence) \in Token
    BY DEF Token
  <2>4. flight' \subseteq Requests
    BY <1>0, <1>7, <2>3, AnsweredRequest DEF Answer, Replace
  <2>5. LoopTyped'
    BY <1>7, <2>1, <2>4, TokensAreSame DEF Answer, LoopTyped, server
  <2> QED  BY <2>1, <2>2, <2>5, TypeByParts DEF screen
<1>8. ASSUME NEW r \in flight, Return(r)
      PROVE  TypeOK'
  <2>1. UNCHANGED server /\ UNCHANGED visible
    BY <1>8 DEF Return
  <2>2. PollerTypeOK'
    BY <1>8, <2>1, StopIsTyped, PollerStays DEF Return, server
  <2>3. r \in Requests /\ r.next \in Token /\ r.presence \in Token
    BY DEF Requests, Token
  <2>4. shown' \in 0..pos /\ outdated' \in BOOLEAN
    BY <1>8, <2>3 DEF Return, Apply, screen, Token
  <2>5. flight' \subseteq Requests
    BY <1>0, <1>8, <2>3, LiveOfRequest DEF Return, Replace
  <2>6. Token' = Token /\ Requests' = Requests
    BY <2>1, TokensAreSame DEF server
  <2>7. failures' \in 0..Fallback
    BY <1>8, FallbackAssumption DEF Return
  <2>8. since' \in Token /\ timer' \in {"none", "hold", "retry"}
    BY <1>8, <2>3 DEF Return
  <2>9. LoopTyped'
    BY <1>8, <2>1, <2>5, <2>6, <2>7, <2>8 DEF Return, LoopTyped
  <2> QED  BY <2>1, <2>2, <2>4, <2>9, TypeByParts
<1>9. ASSUME NEW r \in flight, ReturnStale(r)
      PROVE  TypeOK'
  <2>1. Same /\ UNCHANGED <<visible, poller>>
    BY <1>9 DEF ReturnStale
  <2>2. PollerTypeOK'
    BY <2>1, PollerStays DEF server
  <2>3. LoopTyped'
    BY <1>9, <2>1, TokensAreSame DEF ReturnStale, LoopTyped, server
  <2> QED  BY <2>1, <2>2, <2>3, TypeByParts DEF screen
<1>10. ASSUME NEW r \in flight, Fails(r) \/ FailsOnce(r)
       PROVE  TypeOK'
  BY <1>10, ThrowsTyped DEF Fails, FailsOnce
<1>11. CASE Flip
  <2>1. PollerTypeOK'
    BY <1>11, PollerStays DEF Flip
  <2> QED  BY <1>11, <2>1, TokensAreSame DEF Flip, loop, screen
<1>12. CASE ToDevice \/ Changes
  <2>1. pos' = pos + 1 /\ (presence' = presence \/ presence' = pos + 1)
    BY <1>12 DEF ToDevice, Changes
  <2>2. Token \subseteq Token' /\ Requests \subseteq Requests'
    BY <2>1, TokensStay
  <2>3. PollerTypeOK'
    <3>1. 0..presence \subseteq 0..presence'
      BY <2>1
    <3>2. UNCHANGED poller
      BY <1>12 DEF ToDevice, Changes
    <3>3. \A v : v \in 0..presence \cup {None} => v \in 0..presence' \cup {None}
      BY <3>1
    <3>4. polls \subseteq [loop : Loop \cup {None}, late : BOOLEAN, value : 0..presence' \cup {None}]
      BY <3>3 DEF PollerTypeOK
    <3> QED  BY <3>2, <3>4 DEF PollerTypeOK, poller
  <2>4. UNCHANGED loop /\ UNCHANGED screen /\ UNCHANGED <<visible, up, received>>
    BY <1>12 DEF ToDevice, Changes
  <2>5. presence' \in 1..pos' /\ 0..pos \subseteq 0..pos'
    BY <2>1
  <2>6. inbox' \subseteq sent' /\ received' \subseteq sent' /\ sent' \subseteq 1..pos'
    <3>1. 1..pos \subseteq 1..pos' /\ pos + 1 \in 1..pos'
      BY <2>1
    <3> QED  BY <1>12, <3>1 DEF ToDevice, Changes
  <2> QED  BY <2>1, <2>2, <2>3, <2>4, <2>5, <2>6 DEF loop, screen
<1>13. CASE Receive
  <2>1. PollerTypeOK'
    BY <1>13, PollerStays DEF Receive
  <2> QED  BY <1>13, <2>1, TokensAreSame DEF Receive, loop, screen
<1>14. CASE Acknowledge
  <2>1. PollerTypeOK'
    BY <1>14, PollerStays DEF Acknowledge
  <2> QED  BY <1>14, <2>1, TokensAreSame DEF Acknowledge, loop, screen
<1>15. ASSUME NEW l \in Loop, PollerStep(l)
       PROVE  TypeOK'
  <2>1. PollerTypeOK'
    <3>1. timers' \subseteq Loop /\ UNCHANGED <<polling, backing, presence>>
      BY <1>15 DEF PollerStep, RunLoop, PollerTypeOK, Rescheduled
    <3>2. /\ Poll(l) \in [loop : Loop \cup {None}, late : BOOLEAN, value : 0..presence \cup {None}]
          /\ ~Poll(l).late /\ Poll(l).loop # None
      BY NoneAssumption DEF Poll, Loop
    <3>3. polls' \subseteq polls \cup {Poll(l)}
      BY <1>15 DEF PollerStep, RunLoop
    <3> QED  BY <3>1, <3>2, <3>3 DEF PollerTypeOK
  <2> QED  BY <1>15, <2>1, TokensAreSame DEF PollerStep, RunLoop, Rest, loop, screen
<1>16. ASSUME NEW q \in polls, PollServed(q), UNCHANGED Rest
       PROVE  TypeOK'
  <2>1. PollerTypeOK'
    BY <1>16 DEF PollServed, PollerTypeOK
  <2> QED  BY <1>16, <2>1, TokensAreSame DEF PollServed, Rest, loop, screen
<1>17. ASSUME NEW q \in polls, PollAnswered(q), UNCHANGED Rest
       PROVE  TypeOK'
  <2>1. PollerTypeOK'
    BY <1>17, NoneAssumption DEF PollAnswered, PollEnds, PollerTypeOK, Rescheduled, Loop
  <2>2. q.value \in 0..pos /\ q.late \in BOOLEAN
    BY <1>17 DEF PollAnswered, PollerTypeOK
  <2> QED  BY <1>17, <2>1, <2>2, TokensAreSame DEF PollAnswered, Apply, Rest, loop
<1>18. ASSUME NEW q \in polls, PollFails(q), UNCHANGED Rest
       PROVE  TypeOK'
  <2>1. PollerTypeOK'
    BY <1>18, NoneAssumption DEF PollFails, PollEnds, PollerTypeOK, Rescheduled, Loop
  <2> QED  BY <1>18, <2>1, TokensAreSame DEF PollFails, Rest, loop, screen
<1>19. CASE TimePasses
  <2>1. PollerTypeOK'
    BY <1>19 DEF TimePasses, BackoffOver, PollerTypeOK
  <2> QED  BY <1>19, <2>1, TokensAreSame DEF TimePasses, BackoffOver, Rest, loop, screen
<1>20. CASE UNCHANGED vars
  <2>1. PollerTypeOK'
    BY <1>20, PollerStays DEF vars, server
  <2> QED  BY <1>20, <2>1, TokensAreSame DEF vars, server, loop, screen
<1> QED
  BY <1>1, <1>2, <1>3, <1>4, <1>5, <1>6, <1>7, <1>8, <1>9, <1>10, <1>11, <1>12, <1>13,
     <1>14, <1>15, <1>16, <1>17, <1>18, <1>19, <1>20
     DEF Next, LoopSteps, PollStep

THEOREM TypeCorrect == Spec => []TypeOK
<1>1. Init => TypeOK
  BY TypeInit
<1>2. TypeOK /\ [Next]_vars => TypeOK'
  BY TypeStep
<1> QED  BY <1>1, <1>2, PTL DEF Spec

----------------------------------------------------------------------------
(* The room keys.                                                          *)

Keys == KeysAreKept /\ UnreadIsAhead

(* What a step may leave in flight: what was there, aborted or not, and a  *)
(* new request with the token of the loop.                                 *)
Carried ==
    \A s \in flight' :
        \/ s \in flight
        \/ s.stale /\ \E r \in flight : s.since = r.since
        \/ ~s.stale /\ s.stage = "sent" /\ s.since = since'

LEMMA KeysByParts ==
    ASSUME TypeOK, Keys, UNCHANGED <<inbox, received, sent>>, After(since)', Carried
    PROVE  Keys'
<1>1. \A t : After(t) <=> After(t)'
  BY DEF After, Unread
<1> QED  BY <1>1 DEF Keys, KeysAreKept, UnreadIsAhead, Carried

LEMMA StartedIsCarried ==
    ASSUME TypeOK, NEW C \in BOOLEAN,
           flight' = Stale(flight) \cup (IF C THEN {Request(since')} ELSE {}), since' \in Token
    PROVE  Carried
<1>1. \A s \in Stale(flight) : s.stale /\ \E r \in flight : s.since = r.since
  BY LiveOfStale DEF TypeOK
<1>2. LET s == Request(since') IN ~s.stale /\ s.stage = "sent" /\ s.since = since'
  BY LiveOfRequest DEF TypeOK
<1> QED  BY <1>1, <1>2 DEF Carried

LEMMA KeysStep ==
    ASSUME TypeOK, Keys, [Next]_vars
    PROVE  Keys'
<1> DEFINE Same == UNCHANGED <<inbox, received, sent>>
<1>0. pos \in Nat /\ None \in Token /\ flight \in SUBSET Requests
  BY DEF Token, TypeOK
<1>1. CASE Start
  <2>1. Same
    BY <1>1 DEF Start, server
  <2>2. After(since)'
    BY <1>1 DEF Start, After
  <2>3. Carried
    BY <1>0, <1>1, StartedIsCarried DEF Start, TypeOK
  <2> QED  BY <2>1, <2>2, <2>3, KeysByParts
<1>2. CASE Stop \/ Hide
  <2>1. Same /\ since' = since /\ flight' = Stale(flight)
    BY <1>2 DEF Stop, Hide, server
  <2>2. After(since)'
    BY <2>1 DEF Keys, UnreadIsAhead, After, Unread
  <2>3. Carried
    BY <1>0, <2>1, LiveOfStale DEF Carried
  <2> QED  BY <2>1, <2>2, <2>3, KeysByParts
<1>3. CASE Show
  <2>1. Same /\ since' = since
    BY <1>3 DEF Show, server
  <2>2. After(since)'
    BY <2>1 DEF Keys, UnreadIsAhead, After, Unread
  <2>3. Carried
    BY <1>3, <2>1, StartedIsCarried DEF Show, TypeOK
  <2> QED  BY <2>1, <2>2, <2>3, KeysByParts
<1>4. CASE TimerFires
  <2>1. Same /\ since' = since
    BY <1>4 DEF TimerFires, server
  <2>2. After(since)'
    BY <2>1 DEF Keys, UnreadIsAhead, After, Unread
  <2>3. LET s == Request(since) IN ~s.stale /\ s.stage = "sent" /\ s.since = since
    BY <1>0, LiveOfRequest DEF TypeOK
  <2>4. Carried
    BY <1>4, <2>1, <2>3 DEF TimerFires, Carried
  <2> QED  BY <2>1, <2>2, <2>4, KeysByParts
<1>5. ASSUME NEW r \in flight, Serve(r)
      PROVE  Keys'
  <2>1. /\ inbox' = inbox \ UpTo(r.since) /\ since' = since /\ UNCHANGED <<received, sent>>
        /\ flight' = (flight \ {r}) \cup {Waiting(r)}
    BY <1>5 DEF Serve, Replace
  <2>2. r \in Requests /\ Waiting(r).since = r.since /\ Waiting(r).stage = "waiting"
    BY <1>0, ServedRequest
  <2>3. \A m \in Unread : m \notin UpTo(r.since)
    <3> SUFFICES ASSUME NEW m \in Unread, r.since # None
                 PROVE  m \notin 0..r.since
      BY DEF UpTo
    <3>1. m > r.since
      BY DEF Keys, UnreadIsAhead, After
    <3>2. m \in Nat /\ r.since \in Nat
      BY <2>2 DEF Unread, TypeOK, Requests, Token
    <3> QED  BY <3>1, <3>2
  <2>4. KeysAreKept'
    BY <2>1, <2>3 DEF Keys, KeysAreKept, Unread
  <2>5. \A t : After(t) <=> After(t)'
    BY <2>1 DEF After, Unread
  <2> QED  BY <2>1, <2>2, <2>4, <2>5 DEF Keys, UnreadIsAhead
<1>6. ASSUME NEW r \in flight, Answer(r)
      PROVE  Keys'
  <2> DEFINE p == IF presence \in UpTo(r.since) THEN None ELSE presence
  <2>1. Same /\ since' = since /\ flight' = (flight \ {r}) \cup {Answered(r, p)}
    BY <1>6 DEF Answer, Replace, server
  <2>2. p \in Token
    BY DEF Token, TypeOK
  <2>3. Answered(r, p).since = r.since /\ Answered(r, p).toDevice = (inbox # {})
    BY <1>0, <2>2, AnsweredRequest
  <2>4. inbox = {} => Unread = {}
    BY DEF Keys, KeysAreKept, Unread
  <2>5. \A t : After(t) <=> After(t)'
    BY <2>1 DEF After, Unread
  <2>6. ~Answered(r, p).toDevice => After(Answered(r, p).next)
    BY <2>3, <2>4 DEF After
  <2> HIDE DEF p
  <2> QED  BY <2>1, <2>3, <2>5, <2>6 DEF Keys, KeysAreKept, UnreadIsAhead
<1>7. ASSUME NEW r \in flight, Return(r)
      PROVE  Keys'
  <2>1. Same
    BY <1>7 DEF Return, server
  <2>2. r \in Requests /\ r.next \in Token
    BY <1>0 DEF Requests, Token
  <2>3. r.stage = "answered" /\ ~r.stale
    BY <1>7 DEF Return
  <2>4. CASE r.toDevice
    <3>1. since' = since /\ flight' = flight \ {r}
      BY <1>7, <2>4 DEF Return
    <3>2. After(since)' /\ Carried
      BY <2>1, <3>1 DEF Keys, UnreadIsAhead, After, Unread, Carried
    <3> QED  BY <2>1, <3>2, KeysByParts
  <2>5. CASE ~r.toDevice
    <3>1. since' = r.next /\ flight' = (flight \ {r}) \cup {Request(r.next)}
      BY <1>7, <2>5 DEF Return, Replace
    <3>2. After(since)'
      BY <2>1, <2>3, <2>5, <3>1 DEF Keys, UnreadIsAhead, After, Unread
    <3>3. LET s == Request(r.next) IN ~s.stale /\ s.stage = "sent" /\ s.since = r.next
      BY <1>0, <2>2, LiveOfRequest
    <3>4. Carried
      BY <3>1, <3>3 DEF Carried
    <3> QED  BY <2>1, <3>2, <3>4, KeysByParts
  <2> QED  BY <2>4, <2>5
<1>8. ASSUME NEW r \in flight, ReturnStale(r) \/ Fails(r) \/ FailsOnce(r)
      PROVE  Keys'
  <2>1. Same /\ since' = since /\ flight' = flight \ {r}
    BY <1>8 DEF ReturnStale, Fails, FailsOnce, Throws, server
  <2>2. After(since)' /\ Carried
    BY <2>1 DEF Keys, UnreadIsAhead, After, Unread, Carried
  <2> QED  BY <2>1, <2>2, KeysByParts
<1>9. CASE ToDevice
  <2>1. /\ inbox' = inbox \cup {pos + 1} /\ sent' = sent \cup {pos + 1}
        /\ UNCHANGED <<received, since, flight>>
    BY <1>9 DEF ToDevice, loop
  <2>2. Unread' \subseteq Unread \cup {pos + 1}
    BY <2>1 DEF Unread
  <2>3. \A t \in Token : After(t) => After(t)'
    BY <1>0, <2>2 DEF After, Token
  <2>4. \A r \in flight : r.since \in Token /\ r.next \in Token
    BY <1>0 DEF Requests, Token
  <2> QED  BY <2>1, <2>3, <2>4 DEF Keys, KeysAreKept, UnreadIsAhead, TypeOK
<1>10. CASE Receive \/ Acknowledge
  <2>1. /\ UNCHANGED <<sent, since, flight>> /\ received \subseteq received'
        /\ inbox \cup received \subseteq inbox' \cup received'
    BY <1>10 DEF Receive, Acknowledge, loop
  <2>2. Unread' \subseteq Unread
    BY <2>1 DEF Unread
  <2>3. \A t : After(t) => After(t)'
    BY <2>2 DEF After
  <2> QED  BY <2>1, <2>3 DEF Keys, KeysAreKept, UnreadIsAhead
<1>11. CASE UNCHANGED <<inbox, received, sent, since, flight>>
  BY <1>11 DEF Keys, KeysAreKept, UnreadIsAhead, After, Unread
<1>12. CASE Flip \/ Changes \/ (\E l \in Loop : PollerStep(l)) \/ PollStep
            \/ ((\E q \in polls : PollFails(q)) /\ UNCHANGED Rest) \/ TimePasses \/ UNCHANGED vars
  BY <1>11, <1>12 DEF Flip, Changes, PollerStep, PollStep, TimePasses, Rest, loop, vars, server
<1> QED
  BY <1>1, <1>2, <1>3, <1>4, <1>5, <1>6, <1>7, <1>8, <1>9, <1>10, <1>12 DEF Next, LoopSteps

(* No room key is lost to the second /sync of the app, however its         *)
(* requests are aborted, fail, are late or overtake each other.            *)
THEOREM NoKeyIsLost == Spec => []KeysAreKept
<1>1. Init => TypeOK /\ Keys
  BY TypeInit DEF Init, Keys, KeysAreKept, UnreadIsAhead, After, Unread
<1>2. TypeOK /\ Keys /\ [Next]_vars => (TypeOK /\ Keys)'
  BY TypeStep, KeysStep
<1>3. TypeOK /\ Keys => KeysAreKept
  BY DEF Keys
<1> QED  BY <1>1, <1>2, <1>3, PTL DEF Spec

----------------------------------------------------------------------------
(* What drives the loop.                                                   *)

LEMMA DriverStep ==
    ASSUME TypeOK, OneDriver, [Next]_vars
    PROVE  OneDriver'
<1>0. pos \in Nat /\ None \in Token /\ since \in Token /\ flight \in SUBSET Requests
  BY DEF Token, TypeOK
<1>1. \A r \in flight : ~r.stale =>
         timer = "none" /\ running /\ visible /\ Live(flight) = {r}
  BY DEF OneDriver, Live, TypeOK
<1>2. \A F : Live(F) = {s \in F : ~s.stale}
  BY DEF Live
<1>3. CASE Start
  <2>1. Live(flight') = IF visible THEN {Request(None)} ELSE {}
    <3>1. flight' = Stale(flight) \cup (IF visible THEN {Request(None)} ELSE {})
      BY <1>3 DEF Start
    <3>2. Live(Stale(flight)) = {}
      BY <1>0, LiveOfStale
    <3>3. Live({Request(None)}) = {Request(None)} /\ Live({}) = {}
      BY <1>0, <1>2, LiveOfRequest
    <3> QED  BY <3>1, <3>2, <3>3, LiveOfUnion
  <2>2. timer' = "none" /\ running' /\ visible' = visible
    BY <1>3 DEF Start
  <2>3. Live(flight)' = Live(flight')
    BY DEF Live
  <2>4. visible => Request(None) \in flight'
    BY <1>3 DEF Start
  <2> QED  BY <2>1, <2>2, <2>3, <2>4 DEF OneDriver
<1>4. CASE Stop \/ Hide
  <2>1. Live(flight)' = {}
    BY <1>0, <1>4, LiveOfStale DEF Stop, Hide, Live
  <2> QED  BY <1>4, <2>1 DEF Stop, Hide, OneDriver
<1>5. CASE Show
  <2>1. Live(flight') = IF running THEN {Request(since)} ELSE {}
    <3>1. flight' = Stale(flight) \cup (IF running THEN {Request(since)} ELSE {})
      BY <1>5 DEF Show
    <3>2. Live(Stale(flight)) = {}
      BY <1>0, LiveOfStale
    <3>3. Live({Request(since)}) = {Request(since)} /\ Live({}) = {}
      BY <1>0, <1>2, LiveOfRequest
    <3> QED  BY <3>1, <3>2, <3>3, LiveOfUnion
  <2>2. timer' = "none" /\ visible' /\ running' = running
    BY <1>5 DEF Show
  <2>3. Live(flight)' = Live(flight')
    BY DEF Live
  <2>4. running => Request(since) \in flight'
    BY <1>5 DEF Show
  <2> QED  BY <2>1, <2>2, <2>3, <2>4 DEF OneDriver
<1>6. CASE TimerFires
  <2>1. running /\ visible /\ Live(flight) = {}
    BY <1>6 DEF TimerFires, OneDriver
  <2>2. /\ timer' = "none" /\ UNCHANGED <<running, visible>>
        /\ flight' = flight \cup {Request(since)}
    BY <1>6, <2>1 DEF TimerFires
  <2>3. Live(flight') = {Request(since)}
    <3>1. Live({Request(since)}) = {Request(since)}
      BY <1>0, LiveOfRequest
    <3> QED  BY <2>1, <2>2, <3>1, LiveOfUnion
  <2>4. Live(flight)' = Live(flight')
    BY DEF Live
  <2> QED  BY <2>1, <2>2, <2>3, <2>4 DEF OneDriver
<1>7. ASSUME NEW r \in flight, NEW n \in Requests, n.stale = r.stale,
             flight' = (flight \ {r}) \cup {n}, UNCHANGED <<timer, running, visible>>
      PROVE  OneDriver'
  <2>1. Live(flight)' = Live(flight')
    BY DEF Live
  <2>2. Live(flight') = IF r.stale THEN Live(flight) ELSE (Live(flight) \ {r}) \cup {n}
    BY <1>0, <1>7, LiveOfReplaced
  <2>3. CASE r.stale
    <3>1. \A s \in Live(flight) : s \in flight'
      BY <1>7, <2>3 DEF Live
    <3> QED  BY <1>7, <2>1, <2>2, <2>3, <3>1 DEF OneDriver, Live
  <2>4. CASE ~r.stale
    BY <1>1, <1>7, <2>1, <2>2, <2>4 DEF OneDriver
  <2> QED  BY <1>0, <2>3, <2>4 DEF Requests
<1>8. ASSUME NEW r \in flight, Serve(r)
      PROVE  OneDriver'
  BY <1>0, <1>7, <1>8, ServedRequest DEF Serve, Replace
<1>9. ASSUME NEW r \in flight, Answer(r)
      PROVE  OneDriver'
  <2>1. (IF presence \in UpTo(r.since) THEN None ELSE presence) \in Token
    BY DEF Token, TypeOK
  <2> QED  BY <1>0, <1>7, <1>9, <2>1, AnsweredRequest DEF Answer, Replace
<1>10. ASSUME NEW r \in flight, Return(r)
       PROVE  OneDriver'
  <2>1. ~r.stale /\ UNCHANGED <<running, visible>>
    BY <1>10 DEF Return
  <2>2. CASE r.toDevice
    BY <1>1, <1>2, <1>10, <2>1, <2>2 DEF Return, OneDriver
  <2>3. CASE ~r.toDevice
    <3>1. r.next \in Token
      BY <1>0 DEF Requests, Token
    <3>2. Request(r.next) \in Requests /\ Request(r.next).stale = r.stale
      BY <1>0, <2>1, <3>1, LiveOfRequest DEF Requests
    <3> QED  BY <1>7, <1>10, <2>3, <3>2 DEF Return, Replace
  <2> QED  BY <2>2, <2>3
<1>11. ASSUME NEW r \in flight, ReturnStale(r)
       PROVE  OneDriver'
  <2>1. Live(flight)' = Live(flight) /\ \A s \in Live(flight) : s \in flight'
    BY <1>11 DEF ReturnStale, Live
  <2>2. UNCHANGED <<timer, running, visible>>
    BY <1>11 DEF ReturnStale
  <2> QED  BY <2>1, <2>2 DEF OneDriver, Live
<1>12. ASSUME NEW r \in flight, Fails(r) \/ FailsOnce(r)
       PROVE  OneDriver'
  BY <1>1, <1>2, <1>12 DEF Fails, FailsOnce, Throws, OneDriver
<1>13. CASE UNCHANGED <<flight, timer, running, visible>>
  BY <1>13 DEF OneDriver, Live
<1>14. CASE Flip \/ ToDevice \/ Changes \/ Receive \/ Acknowledge
            \/ (\E l \in Loop : PollerStep(l)) \/ PollStep
            \/ ((\E q \in polls : PollFails(q)) /\ UNCHANGED Rest) \/ TimePasses \/ UNCHANGED vars
  BY <1>13, <1>14 DEF Flip, ToDevice, Changes, Receive, Acknowledge, PollerStep, RunLoop, PollStep,
     PollServed, PollAnswered, PollFails, TimePasses, BackoffOver, Rest, loop, vars
<1> QED
  BY <1>3, <1>4, <1>5, <1>6, <1>8, <1>9, <1>10, <1>11, <1>12, <1>14 DEF Next, LoopSteps

(* A loop that should run is driven by one request or one timer, and one   *)
(* that should not by none.                                                *)
THEOREM TheLoopHasOneDriver == Spec => []OneDriver
<1>1. Init => TypeOK /\ OneDriver
  BY TypeInit DEF Init, OneDriver, Live
<1>2. TypeOK /\ OneDriver /\ [Next]_vars => (TypeOK /\ OneDriver)'
  BY TypeStep, DriverStep
<1> QED  BY <1>1, <1>2, PTL DEF Spec

----------------------------------------------------------------------------
(* The poller.                                                             *)

LEMMA PollerStepLemma ==
    ASSUME TypeOK, OneDriver, PollsInFallback, PollerLives, [Next]_vars
    PROVE  PollsInFallback' /\ PollerLives'
<1> DEFINE Goal == PollsInFallback' /\ PollerLives'
<1>0. PollerTypeOK /\ None \notin Loop
  BY NoneAssumption DEF TypeOK, Loop
<1>1. \A q \in Orphaned : q.late
  BY <1>0, OrphansAreTyped
<1>2. ASSUME StopPoller, ~inFallback'
      PROVE  Goal
  BY <1>1, <1>2 DEF StopPoller, PollsInFallback, PollerLives
<1>3. ASSUME UNCHANGED poller, UNCHANGED visible, polling <=> inFallback', polling => running'
      PROVE  Goal
  BY <1>3 DEF poller, PollsInFallback, PollerLives
<1>4. CASE Start
  BY <1>2, <1>3, <1>4 DEF Start, PollsInFallback
<1>5. CASE Stop
  BY <1>2, <1>3, <1>5 DEF Stop, PollsInFallback
<1>6. CASE Hide \/ Show
  BY <1>6 DEF Hide, Show, PollerSees, PollsInFallback, PollerLives
<1>7. ASSUME NEW r \in flight, Return(r)
      PROVE  Goal
  BY <1>2, <1>3, <1>7 DEF Return, PollsInFallback
<1>8. ASSUME NEW r \in flight, Fails(r) \/ FailsOnce(r)
      PROVE  Goal
  <2>1. running /\ visible /\ UNCHANGED <<running, visible>>
    BY <1>8 DEF Fails, FailsOnce, Throws, OneDriver, Live
  <2>2. CASE StartPoller /\ inFallback'
    BY <1>1, <2>1, <2>2 DEF StartPoller, PollsInFallback, PollerLives
  <2>3. CASE UNCHANGED poller /\ (inFallback' <=> inFallback)
    BY <1>3, <2>1, <2>3 DEF PollsInFallback
  <2>4. Throws(r)
    BY <1>8 DEF Fails, FailsOnce
  <2>5. CASE failures + 1 >= Fallback /\ ~inFallback
    BY <2>2, <2>4, <2>5 DEF Throws
  <2>6. CASE ~(failures + 1 >= Fallback /\ ~inFallback)
    <3>1. UNCHANGED poller
      BY <2>4, <2>6 DEF Throws
    <3>2. inFallback' <=> inFallback
      BY <2>4, <2>6 DEF Throws, TypeOK
    <3> QED  BY <2>3, <3>1, <3>2
  <2> QED  BY <2>5, <2>6
<1>9. CASE TimerFires \/ Flip \/ ToDevice \/ Changes \/ Receive \/ Acknowledge \/ UNCHANGED vars
           \/ (\E r \in flight : Serve(r) \/ Answer(r) \/ ReturnStale(r))
  BY <1>3, <1>9 DEF TimerFires, Flip, ToDevice, Changes, Receive, Acknowledge, vars, Serve, Answer,
     ReturnStale, loop, PollsInFallback
<1>10. ASSUME UNCHANGED <<polling, inFallback, running>>
       PROVE  PollsInFallback'
  BY <1>10 DEF PollsInFallback
<1>11. ASSUME NEW l \in Loop, PollerStep(l)
       PROVE  Goal
  <2>1. PollsInFallback'
    BY <1>10, <1>11 DEF PollerStep, RunLoop, Rest, loop
  <2>2. polling /\ visible /\ UNCHANGED <<polling, visible>>
    BY <1>11 DEF PollerStep, RunLoop, PollerLives
  <2>3. \A k \in Loop : k \in timers' \/ \E q \in polls' : q.loop = k
    <3>1. Poll(l).loop = l
      BY DEF Poll
    <3> QED  BY <1>11, <2>2, <3>1 DEF PollerStep, RunLoop, Rescheduled, PollerLives
  <2> QED  BY <2>1, <2>2, <2>3 DEF PollerLives
<1>12. ASSUME NEW q \in polls, PollServed(q), UNCHANGED Rest
       PROVE  Goal
  <2> DEFINE n == [q EXCEPT !.value = presence]
  <2>1. PollsInFallback'
    BY <1>10, <1>12 DEF PollServed, Rest, loop
  <2>2. n.loop = q.loop /\ n.late = q.late
    BY <1>0 DEF PollerTypeOK
  <2>3. UNCHANGED <<polling, visible, timers>> /\ polls' = (polls \ {q}) \cup {n}
    BY <1>12 DEF PollServed
  <2> HIDE DEF n
  <2> QED  BY <2>1, <2>2, <2>3 DEF PollerLives
<1>13. ASSUME NEW q \in polls, PollEnds(q), UNCHANGED <<visible, polling>>, UNCHANGED Rest
       PROVE  Goal
  <2>1. PollsInFallback'
    BY <1>10, <1>13 DEF Rest, loop
  <2>2. q.loop \in Loop => ~q.late
    BY <1>0 DEF PollerTypeOK
  <2>3. ~q.late => polling
    BY DEF PollerLives
  <2> QED  BY <1>13, <2>1, <2>2, <2>3 DEF PollEnds, Rescheduled, PollerLives
<1>14. ASSUME NEW q \in polls, PollAnswered(q) \/ PollFails(q), UNCHANGED Rest
       PROVE  Goal
  BY <1>13, <1>14 DEF PollAnswered, PollFails
<1>15. CASE TimePasses
  BY <1>10, <1>15 DEF TimePasses, BackoffOver, Rest, loop, PollerLives
<1> QED
  BY <1>4, <1>5, <1>6, <1>7, <1>8, <1>9, <1>11, <1>12, <1>14, <1>15 DEF Next, LoopSteps, PollStep

LEMMA PollerInvariant == Spec => [](PollsInFallback /\ PollerLives)
<1> DEFINE I == TypeOK /\ OneDriver /\ PollsInFallback /\ PollerLives
<1>1. Init => I
  BY TypeInit DEF Init, PollerInit, OneDriver, Live, PollsInFallback, PollerLives
<1>2. I /\ [Next]_vars => I'
  BY TypeStep, DriverStep, PollerStepLemma
<1>3. I => PollsInFallback /\ PollerLives
  OBVIOUS
<1> QED  BY <1>1, <1>2, <1>3, PTL DEF Spec

(* The fallback polls exactly while the long-poll is given up, and never   *)
(* for a client that has stopped.                                          *)
THEOREM TheFallbackFollows == Spec => []PollsInFallback
BY PollerInvariant, PTL

(* While it polls in a visible tab both of its loops go on, and otherwise  *)
(* neither can start again.                                                *)
THEOREM ThePollerLives == Spec => []PollerLives
BY PollerInvariant, PTL
=============================================================================

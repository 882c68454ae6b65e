----------------------- MODULE PairLinkSession_proofs -----------------------
(***************************************************************************)
(* Proofs about PairLinkSession, for any number of sessions and any limits. *)
(***************************************************************************)
EXTENDS PairLinkSession, PairLinkConnection_proofs, SequenceTheorems

USE SessionAssumption, LimitAssumption, FaultAssumption
    DEF SessionAssumption, LimitAssumption, FaultAssumption

(***************************************************************************)
(* Type correctness.  A login timeout can only be counted up to the limit  *)
(* because the loop gives up there: the count is below the limit wherever  *)
(* the loop may still start a handshake.                                   *)
(***************************************************************************)
Trying == {"idle", "new", "lock", "ready", "backoff"} \cup HandshakePcs

CountInv ==
    \A s \in Session :
        \/ pc[s] \in Trying
        \/ pc[s] \in {"stop_notify", "disconnect"} /\ why[s] # "timeout"
        => timeouts[s] < MaxLoginTimeouts

TypeInv == TypeOK /\ CountInv

\* The sessions start out well typed.
LEMMA TypeInit == Init => TypeInv
<1> SUFFICES ASSUME Init PROVE TypeInv
  OBVIOUS
<1>1. TypeOK
  BY HandshakeNames DEF Init, ConnectionInit, TypeOK, ConnectionTypeOK, LinkStates,
     LoopPcs, SessionState
<1>2. CountInv
  BY DEF Init, CountInv
<1> QED BY <1>1, <1>2 DEF TypeInv

\* What Continue does to the variables, without the reason why.
ContinueTyped(s, reason, n) ==
    /\ DOMAIN pc' = Party /\ \A t \in Session : pc'[t] \in LoopPcs
    /\ \/ pc' = [pc EXCEPT ![s] = "done"]
       \/ /\ pc' = [pc EXCEPT ![s] = "backoff"]
          /\ reason # "timeout" \/ n < MaxLoginTimeouts
    /\ state' \in [Session -> SessionState]
    /\ connected' \in [Session -> BOOLEAN]
    /\ reauth' \in [Session -> BOOLEAN]

\* What a loop does after a close keeps what it shows in range.
LEMMA TypeContinue ==
    ASSUME TypeOK, NEW s \in Session, NEW reason, NEW n \in 0..MaxLoginTimeouts,
           Continue(s, reason, n)
    PROVE  ContinueTyped(s, reason, n)
<1>1. ~Refused(reason, n) => reason # "timeout" \/ n < MaxLoginTimeouts
  BY DEF Refused
<1>2. \/ pc' = [pc EXCEPT ![s] = "done"]
      \/ /\ pc' = [pc EXCEPT ![s] = "backoff"]
         /\ reason # "timeout" \/ n < MaxLoginTimeouts
  BY <1>1 DEF Continue, Goto
<1>3. DOMAIN pc' = Party /\ \A t \in Session : pc'[t] \in LoopPcs
  BY <1>2 DEF TypeOK, LoopPcs, Ended
<1>4. /\ state' \in [Session -> SessionState]
      /\ connected' \in [Session -> BOOLEAN]
      /\ reauth' \in [Session -> BOOLEAN]
  BY DEF TypeOK, Continue, RequireReauth, Show, statusVars, SessionState
<1> QED BY <1>2, <1>3, <1>4 DEF ContinueTyped

\* Forgetting a connection keeps the connection variables in range.
LEMMA TypeForget ==
    ASSUME TypeOK, NEW s \in Session, Forget(s)
    PROVE  ConnectionTypeOK' /\ held' \in [Session -> BOOLEAN]
  BY DEF TypeOK, ConnectionTypeOK, Forget, Detach, connectionVars

\* A close of the loop keeps everything in range, provided that the
\* timeout count it is given has not passed its limit unnoticed.
LEMMA TypeClose ==
    ASSUME TypeInv, NEW s \in Session, NEW reason \in CloseReasons,
           NEW n \in 0..MaxLoginTimeouts, reason # "timeout" => n < MaxLoginTimeouts,
           Close(s, reason, n),
           holder' \in Session \cup {NoOne}, waiters' \in Seq(Session)
    PROVE  TypeInv'
<1> USE HandshakeNames DEF TypeInv, Close
<1>1. ConnectionTypeOK' /\ held' \in [Session -> BOOLEAN]
  BY TypeForget
<1>2. CASE ContinueTyped(s, reason, n) /\ UNCHANGED why
  <2>1. TypeOK'
    BY <1>1, <1>2 DEF ContinueTyped, TypeOK, LoopPcs, Ended
  <2>2. CountInv'
    BY <1>2 DEF ContinueTyped, TypeOK, CountInv, Trying
  <2> QED BY <2>1, <2>2
<1>3. CASE /\ pc' = [pc EXCEPT ![s] = "stop_notify"]
           /\ why' = [why EXCEPT ![s] = reason]
           /\ UNCHANGED statusVars
  <2>1. TypeOK'
    BY <1>1, <1>3 DEF TypeOK, LoopPcs, statusVars
  <2>2. CountInv'
    BY <1>3 DEF TypeOK, CountInv, Trying
  <2> QED BY <2>1, <2>2
<1> QED BY <1>2, <1>3, TypeContinue DEF Goto

\* A disconnect keeps the connection variables in range.
LEMMA TypeDisconnect ==
    ASSUME TypeOK, NEW s \in Session, Disconnect(s) \/ UNCHANGED connectionVars
    PROVE  ConnectionTypeOK'
  BY DEF TypeOK, ConnectionTypeOK, Disconnect, connectionVars, LinkStates

\* A handshake step moves to the next await and changes nothing of the session.
LEMMA HandshakeMoves ==
    ASSUME TypeOK, NEW s \in Session, HandshakeStep(s)
    PROVE  /\ pc[s] \in DOMAIN AfterHandshakeStep
           /\ pc' = [pc EXCEPT ![s] = AfterHandshakeStep[pc[s]]]
           /\ ConnectionTypeOK'
           /\ UNCHANGED sessionVars
<1> USE HandshakeNames
<1>1. CASE Established(s)
  BY <1>1 DEF HandshakeStep, Established, TypeOK, ConnectionTypeOK, LinkStates
<1>2. CASE Proceed(s)
  BY <1>2 DEF HandshakeStep, Proceed, Completes, TypeOK, ConnectionTypeOK, connectionVars
<1> QED BY <1>1, <1>2 DEF HandshakeStep

\* What is left of a queue when a cancelled waiter leaves it.
LEMMA RemoveAtProperties ==
    ASSUME NEW S, NEW q \in Seq(S), NEW i \in 1..Len(q)
    PROVE  /\ RemoveAt(q, i) \in Seq(S)
           /\ Len(RemoveAt(q, i)) = Len(q) - 1
           /\ \A j \in 1..(Len(q) - 1) :
                  RemoveAt(q, i)[j] = IF j < i THEN q[j] ELSE q[j + 1]
<1> DEFINE a == SubSeq(q, 1, i - 1)
           b == SubSeq(q, i + 1, Len(q))
<1>1. a \in Seq(S) /\ Len(a) = i - 1 /\ \A j \in 1..(i - 1) : a[j] = q[j]
  BY SubSeqProperties
<1>2. b \in Seq(S) /\ Len(b) = Len(q) - i /\ \A j \in 1..(Len(q) - i) : b[j] = q[i + j]
  BY SubSeqProperties
<1>3. /\ a \o b \in Seq(S)
      /\ Len(a \o b) = Len(q) - 1
      /\ \A j \in 1..(Len(q) - 1) : (a \o b)[j] = IF j <= i - 1 THEN a[j] ELSE b[j - (i - 1)]
  <2> HIDE DEF a, b
  <2>1. /\ a \o b \in Seq(S)
        /\ Len(a \o b) = Len(a) + Len(b)
        /\ \A j \in 1..(Len(a) + Len(b)) :
               (a \o b)[j] = IF j <= Len(a) THEN a[j] ELSE b[j - Len(a)]
    BY <1>1, <1>2, ConcatProperties
  <2>2. Len(a) = i - 1 /\ Len(a) + Len(b) = Len(q) - 1
    BY <1>1, <1>2
  <2> QED BY <2>1, <2>2
<1> HIDE DEF a, b
<1>4. ASSUME NEW j \in 1..(Len(q) - 1)
      PROVE  (a \o b)[j] = IF j < i THEN q[j] ELSE q[j + 1]
  <2>1. CASE j < i
    BY <1>1, <1>3, <2>1
  <2>2. CASE ~(j < i)
    <3>1. j - (i - 1) \in 1..(Len(q) - i)
      BY <2>2
    <3>2. (a \o b)[j] = b[j - (i - 1)]
      BY <1>3, <2>2
    <3> QED BY <1>2, <2>2, <3>1, <3>2
  <2> QED BY <2>1, <2>2
<1>5. RemoveAt(q, i) = a \o b
  BY DEF RemoveAt, a, b
<1> QED BY <1>3, <1>4, <1>5

\* Every step keeps everything in range.
LEMMA TypeStep == TypeInv /\ [Next]_vars => TypeInv'
<1> SUFFICES ASSUME TypeInv, [Next]_vars PROVE TypeInv'
  OBVIOUS
<1> USE HandshakeNames DEF TypeInv
<1>1. CASE UNCHANGED vars
  BY <1>1 DEF TypeOK, ConnectionTypeOK, CountInv, vars, sessionVars, statusVars,
     countVars, lockVars, connectionVars
<1>2. ASSUME NEW s \in Session, LoopStep(s) \/ HealthCheckFails(s)
      PROVE  TypeInv'
  <2> USE DEF sessionVars, statusVars, countVars, lockVars, Goto, LoopPcs, Ended, Trying, SessionState
  <2>1. CASE LeaveLoop(s)
    BY <2>1 DEF LeaveLoop, AtLoopHead, TypeOK, ConnectionTypeOK, CountInv, connectionVars
  <2>2. CASE NoDevice(s)
    BY <2>2 DEF NoDevice, AtLoopHead, AdvanceBackoff, NextIndex, Show, TypeOK,
       ConnectionTypeOK, CountInv, connectionVars
  <2>3. CASE ConnectAtOnce(s)
    <3> USE <2>3 DEF ConnectAtOnce, Attempt, AtLoopHead, EnterLock
    <3>1. ConnectionTypeOK'
      BY DEF NewConnection, TypeOK, ConnectionTypeOK
    <3>2. index' \in [Session -> 0..(BackoffSteps - 1)]
      BY DEF AdvanceBackoff, NextIndex, TypeOK
    <3>3. CountInv'
      BY DEF CountInv, TypeOK
    <3> QED BY <3>1, <3>2, <3>3 DEF Show, TypeOK
  <2>4. CASE ConnectLater(s)
    <3>1. waiters' \in Seq(Session)
      BY <2>4, AppendProperties DEF ConnectLater, TypeOK
    <3> QED BY SMTT(30), <2>4, <3>1 DEF ConnectLater, Attempt, AtLoopHead, AdvanceBackoff, NextIndex,
               NewConnection, Show, TypeOK, ConnectionTypeOK, CountInv
  <2>5. CASE LockGranted(s)
    BY <2>5, HeadTailProperties DEF LockGranted, IsWoken, EnterLock, Show, TypeOK,
       ConnectionTypeOK, CountInv, connectionVars
  <2>6. CASE LockObsolete(s)
    <3>1. waiters' \in Seq(Session)
      BY <2>6, HeadTailProperties DEF LockObsolete, IsWoken, TypeOK
    <3>2. ConnectionTypeOK' /\ held' \in [Session -> BOOLEAN]
      BY <2>6, TypeForget DEF LockObsolete
    <3> QED BY <2>6, <3>1, <3>2 DEF LockObsolete, TypeOK, CountInv
  <2>7. CASE HandshakeStep(s)
    <3>1. PICK c \in HandshakePcs : pc' = [pc EXCEPT ![s] = c] /\ pc[s] \in HandshakePcs
      BY <2>7, HandshakeMoves
    <3>2. ConnectionTypeOK' /\ UNCHANGED sessionVars
      BY <2>7, HandshakeMoves
    <3>3. CountInv'
      BY <3>1, <3>2 DEF CountInv, TypeOK
    <3> QED BY <3>1, <3>2, <3>3 DEF TypeOK
  <2>8. CASE Authenticated(s)
    BY SMTT(30), <2>8 DEF Authenticated, InHandshake, Release, Show, TypeOK, ConnectionTypeOK, CountInv,
       connectionVars
  <2>9. CASE AuthenticatedObsolete(s)
    <3>1. timeouts[s] \in 0..MaxLoginTimeouts /\ timeouts[s] < MaxLoginTimeouts
      BY <2>9 DEF AuthenticatedObsolete, InHandshake, TypeOK, CountInv
    <3> QED BY <2>9, <3>1, TypeClose DEF AuthenticatedObsolete, Release, TypeOK, CloseReasons
  <2>10. CASE AuthenticationFails(s)
    <3>1. timeouts[s] \in 0..MaxLoginTimeouts /\ timeouts[s] < MaxLoginTimeouts
      BY <2>10 DEF AuthenticationFails, InHandshake, TypeOK, CountInv
    <3> QED BY <2>10, <3>1, TypeClose DEF AuthenticationFails, Release, TypeOK, CloseReasons
  <2>11. CASE LoginTimesOut(s)
    <3>1. timeouts[s] + 1 \in 0..MaxLoginTimeouts
      BY <2>11 DEF LoginTimesOut, InHandshake, TypeOK, CountInv
    <3> QED BY <2>11, <3>1, TypeClose DEF LoginTimesOut, Release, TypeOK, CloseReasons
  <2>12. CASE HandshakeFails(s)
    <3>1. timeouts[s] \in 0..MaxLoginTimeouts /\ timeouts[s] < MaxLoginTimeouts
      BY <2>12 DEF HandshakeFails, InHandshake, TypeOK, CountInv
    <3> QED BY <2>12, <3>1, TypeClose DEF HandshakeFails, Release, TypeOK, CloseReasons
  <2>13. CASE ConnectionEnds(s) \/ HealthCheckFails(s)
    <3>1. timeouts[s] \in 0..MaxLoginTimeouts /\ timeouts[s] < MaxLoginTimeouts
      BY <2>13 DEF ConnectionEnds, HealthCheckFails, TypeOK, CountInv
    <3> QED BY <2>13, <3>1, TypeClose DEF ConnectionEnds, HealthCheckFails, TypeOK, CloseReasons
  <2>14. CASE LoopStopsNotify(s)
    BY <2>14 DEF LoopStopsNotify, TypeOK, ConnectionTypeOK, CountInv, connectionVars
  <2>15. CASE LoopDisconnects(s)
    <3>1. ConnectionTypeOK'
      BY <2>15, TypeDisconnect DEF LoopDisconnects
    <3>2. /\ timeouts[s] \in 0..MaxLoginTimeouts
          /\ why[s] # "timeout" => timeouts[s] < MaxLoginTimeouts
      BY <2>15 DEF LoopDisconnects, TypeOK, CountInv
    <3>3. ContinueTyped(s, why[s], timeouts[s])
      BY <2>15, <3>2, TypeContinue DEF LoopDisconnects
    <3>4. TypeOK'
      <4>1. why' \in [Session -> CloseReasons \cup {"none"}]
        BY <2>15 DEF LoopDisconnects, TypeOK
      <4> QED BY <2>15, <3>1, <3>3, <4>1 DEF LoopDisconnects, ContinueTyped, TypeOK
    <3>5. CountInv'
      BY <2>15, <3>2, <3>3 DEF LoopDisconnects, ContinueTyped, TypeOK, CountInv
    <3> QED BY <3>4, <3>5
  <2>16. CASE LoopCrashes(s)
    <3>1. ConnectionTypeOK'
      BY <2>16, TypeDisconnect DEF LoopCrashes
    <3> QED BY <2>16, <3>1 DEF LoopCrashes, TypeOK, CountInv
  <2>17. CASE LoopCancelled(s)
    <3>1. ConnectionTypeOK'
      BY <2>17, TypeDisconnect DEF Cancellable, LoopCancelled
    <3>2. waiters' \in Seq(Session)
      BY <2>17, RemoveAtProperties DEF Cancellable, LoopCancelled, TypeOK
    <3> QED BY <2>17, <3>1, <3>2 DEF Cancellable, LoopCancelled, Release, TypeOK, CountInv
  <2> QED BY ZenonT(60), <1>2, <2>1, <2>2, <2>3, <2>4, <2>5, <2>6, <2>7, <2>8, <2>9, <2>10, <2>11,
             <2>12, <2>13, <2>14, <2>15, <2>16, <2>17 DEF LoopStep
<1>3. ASSUME NEW s \in Session,
             \/ Start(s) \/ SeenMatch(s) \/ SeenMismatch(s)
             \/ ReauthStep(s) \/ StopRequested(s) \/ StopStep(s) \/ LinkStep(s)
      PROVE  TypeInv'
  <2> USE DEF sessionVars, statusVars, countVars, lockVars
  <2>1. CASE Start(s)
    BY <2>1 DEF Start, Goto, TypeOK, ConnectionTypeOK, CountInv, connectionVars, LoopPcs, Trying
  <2>2. CASE SeenMatch(s)
    BY <2>2 DEF SeenMatch, Seen, TypeOK, ConnectionTypeOK, CountInv, connectionVars
  <2>3. CASE SeenMismatch(s)
    <3> USE <2>3 DEF SeenMismatch, Seen
    <3>1. mismatches' \in [Session -> 0..MaxMismatches]
      BY DEF TypeOK, OneMore
    <3>2. /\ state' \in [Session -> SessionState]
          /\ connected' \in [Session -> BOOLEAN]
          /\ reauth' \in [Session -> BOOLEAN]
      BY DEF RequireReauth, Show, TypeOK, SessionState
    <3>3. rtask' \in [Session -> {"none", "new", "stop_notify", "disconnect",
                                  "done", "crashed"}]
      BY DEF TypeOK
    <3> QED BY <3>1, <3>2, <3>3 DEF TypeOK, ConnectionTypeOK, CountInv, connectionVars
  <2>4. CASE ReauthCloses(s)
    BY <2>4, TypeForget DEF ReauthCloses, TypeOK, CountInv
  <2>5. CASE ReauthStopsNotify(s)
    BY <2>5 DEF ReauthStopsNotify, TypeOK, ConnectionTypeOK, CountInv, connectionVars
  <2>6. CASE ReauthDisconnects(s) \/ ReauthCrashes(s)
    <3>1. ConnectionTypeOK'
      BY <2>6, TypeDisconnect DEF ReauthDisconnects, ReauthCrashes
    <3> QED BY <2>6, <3>1 DEF ReauthDisconnects, ReauthCrashes, TypeOK, CountInv
  <2>7. CASE StopRequested(s) \/ StopFails(s) \/ StopStopsNotify(s)
    BY <2>7 DEF StopRequested, StopFails, StopStopsNotify, StopAt, TypeOK, ConnectionTypeOK,
       CountInv, connectionVars
  <2>8. CASE StopCloses(s)
    BY <2>8, TypeForget DEF StopCloses, StopAt, Show, TypeOK, CountInv, SessionState
  <2>9. CASE StopDisconnects(s) \/ StopCrashes(s)
    <3>1. ConnectionTypeOK'
      BY <2>9, TypeDisconnect DEF StopDisconnects, StopCrashes
    <3> QED BY <2>9, <3>1 DEF StopDisconnects, StopCrashes, StopAt, Show, TypeOK, CountInv, SessionState
  <2>10. CASE LinkStep(s)
    <3>1. ConnectionTypeOK' /\ UNCHANGED pc
      <4>1. CASE LinkDrop(s)
        BY <4>1 DEF LinkDrop, TypeOK, ConnectionTypeOK, LinkStates
      <4>2. CASE LinkSilent(s)
        BY <4>2 DEF LinkSilent, TypeOK, ConnectionTypeOK, LinkStates
      <4> QED BY <2>10, <4>1, <4>2 DEF LinkStep
    <3> QED BY <2>10, <3>1 DEF LinkStep, TypeOK, CountInv
  <2> QED BY <1>3, <2>1, <2>2, <2>3, <2>4, <2>5, <2>6, <2>7, <2>8, <2>9, <2>10
          DEF ReauthStep, StopStep
<1> QED BY <1>1, <1>2, <1>3 DEF Next

\* The type invariant holds of every session system: in particular the
\* backoff index stays inside RECONNECT_BACKOFF and the timeout count never
\* passes its limit.
THEOREM TypeCorrect == Spec => []TypeOK
<1>1. TypeInv => TypeOK
  BY DEF TypeInv
<1> QED BY TypeInit, TypeStep, <1>1, PTL DEF Spec

(***************************************************************************)
(* The shared lock.  Every step does one of these things to the program    *)
(* counters and to the lock.                                               *)
(***************************************************************************)
Outside == LoopPcs \ ({"lock"} \cup HandshakePcs)

Jump(s, c) == pc' = [pc EXCEPT ![s] = c]

Apart(s) ==
    /\ pc[s] \in Outside
    /\ \E c \in Outside : Jump(s, c)
    /\ UNCHANGED lockVars

TakesFreeLock(s) ==
    /\ pc[s] \in Outside /\ Jump(s, "establish")
    /\ holder = NoOne /\ waiters = <<>>
    /\ holder' = s /\ waiters' = waiters

JoinsQueue(s) ==
    /\ pc[s] \in Outside /\ Jump(s, "lock")
    /\ waiters' = Append(waiters, s) /\ holder' = holder

LeavesHead(s) ==
    /\ pc[s] = "lock" /\ holder = NoOne
    /\ waiters # <<>> /\ Head(waiters) = s /\ waiters' = Tail(waiters)
    /\ \/ Jump(s, "establish") /\ holder' = s
       \/ Jump(s, "done") /\ holder' = holder

MovesInside(s) ==
    /\ pc[s] \in HandshakePcs
    /\ \E c \in HandshakePcs : Jump(s, c)
    /\ UNCHANGED lockVars

LeavesHandshake(s) ==
    /\ pc[s] \in HandshakePcs
    /\ \E c \in Outside : Jump(s, c)
    /\ Release(s) /\ waiters' = waiters

LeavesQueue(s) ==
    /\ pc[s] = "lock" /\ Jump(s, "cancelled")
    /\ Release(s)
    /\ \E i \in DOMAIN waiters : waiters[i] = s /\ waiters' = RemoveAt(waiters, i)

LockEffect(s) ==
    \/ UNCHANGED <<pc, lockVars>> \/ Apart(s) \/ TakesFreeLock(s) \/ JoinsQueue(s)
    \/ LeavesHead(s) \/ MovesInside(s) \/ LeavesHandshake(s) \/ LeavesQueue(s)

\* Whoever is in the handshake holds the lock, and nobody else does.
LockInv == \A s \in Session : holder = s <=> pc[s] \in HandshakePcs

\* The queue holds sessions that wait for the lock, each of them once.
QueueInv ==
    /\ \A i \in 1..Len(waiters) : pc[waiters[i]] = "lock"
    /\ \A i, j \in 1..Len(waiters) : waiters[i] = waiters[j] => i = j

\* The awaits outside the lock, spelt out.
LEMMA OutsideNames ==
    Outside = {"idle", "new", "ready", "stop_notify", "disconnect", "backoff",
               "done", "cancelled", "crashed"}
  BY HandshakeNames DEF Outside, LoopPcs, Ended

\* A session that closes its connection ends up outside the lock.
LEMMA CloseEffect ==
    ASSUME NEW s \in Session, NEW reason, NEW n, Close(s, reason, n)
    PROVE  \E c \in Outside : Jump(s, c)
  BY OutsideNames DEF Close, Continue, Goto, Jump

\* Every step of a session has one of the effects on the lock listed above.
LEMMA LockEffects ==
    ASSUME TypeOK, LockInv, NEW s \in Session,
           \/ Start(s) \/ LoopStep(s) \/ HealthCheckFails(s)
           \/ SeenMatch(s) \/ SeenMismatch(s)
           \/ ReauthStep(s) \/ StopRequested(s) \/ StopStep(s) \/ LinkStep(s)
    PROVE  LockEffect(s)
<1> USE OutsideNames DEF Goto, Jump, lockVars
<1>1. CASE \/ SeenMatch(s) \/ SeenMismatch(s) \/ ReauthStep(s)
           \/ StopRequested(s) \/ StopStep(s) \/ LinkStep(s)
  <2>1. UNCHANGED <<pc, lockVars>>
    BY <1>1 DEF SeenMatch, SeenMismatch, Seen, ReauthStep, ReauthCloses, ReauthStopsNotify,
       ReauthDisconnects, ReauthCrashes, StopRequested, StopStep, StopCloses, StopFails,
       StopStopsNotify, StopDisconnects, StopCrashes, LinkStep, LinkDrop, LinkSilent, sessionVars
  <2> QED BY <2>1 DEF LockEffect
<1>2. CASE Start(s) \/ LeaveLoop(s) \/ NoDevice(s)
  <2>1. Apart(s)
    BY <1>2 DEF Start, LeaveLoop, NoDevice, AtLoopHead, Apart, sessionVars
  <2> QED BY <2>1 DEF LockEffect
<1>3. CASE ConnectAtOnce(s)
  <2>1. TakesFreeLock(s)
    BY <1>3 DEF ConnectAtOnce, Attempt, AtLoopHead, LockIsFree, EnterLock, TakesFreeLock
  <2> QED BY <2>1 DEF LockEffect
<1>4. CASE ConnectLater(s)
  <2>1. JoinsQueue(s)
    BY <1>4 DEF ConnectLater, Attempt, AtLoopHead, JoinsQueue
  <2> QED BY <2>1 DEF LockEffect
<1>5. CASE LockGranted(s) \/ LockObsolete(s)
  <2>1. LeavesHead(s)
    BY <1>5 DEF LockGranted, LockObsolete, IsWoken, EnterLock, LeavesHead
  <2> QED BY <2>1 DEF LockEffect
<1>6. CASE HandshakeStep(s)
  <2>1. MovesInside(s)
    BY <1>6, HandshakeMoves, HandshakeNames DEF MovesInside, sessionVars
  <2> QED BY <2>1 DEF LockEffect
<1>7. CASE \/ Authenticated(s) \/ AuthenticatedObsolete(s) \/ AuthenticationFails(s)
           \/ LoginTimesOut(s) \/ HandshakeFails(s)
  <2>1. pc[s] \in HandshakePcs /\ Release(s) /\ waiters' = waiters
    BY <1>7 DEF Authenticated, AuthenticatedObsolete, AuthenticationFails, LoginTimesOut,
       HandshakeFails, InHandshake
  <2>2. \E c \in Outside : Jump(s, c)
    <3>1. CASE Authenticated(s)
      BY <3>1 DEF Authenticated
    <3>2. CASE ~Authenticated(s)
      <4>1. \E reason, n : Close(s, reason, n)
        BY <1>7, <3>2 DEF AuthenticatedObsolete, AuthenticationFails, LoginTimesOut, HandshakeFails
      <4> HIDE DEF Jump
      <4> QED BY <4>1, CloseEffect
    <3> QED BY <3>1, <3>2
  <2> QED BY <2>1, <2>2 DEF LockEffect, LeavesHandshake
<1>8. CASE ConnectionEnds(s) \/ HealthCheckFails(s)
  <2>1. \E c \in Outside : Jump(s, c)
    <3> HIDE DEF Jump
    <3> QED BY <1>8, CloseEffect DEF ConnectionEnds, HealthCheckFails
  <2> QED BY <1>8, <2>1 DEF ConnectionEnds, HealthCheckFails, LockEffect, Apart
<1>9. CASE LoopStopsNotify(s) \/ LoopDisconnects(s) \/ LoopCrashes(s)
  <2>1. Apart(s)
    BY <1>9 DEF LoopStopsNotify, LoopDisconnects, LoopCrashes, Continue, Apart, sessionVars
  <2> QED BY <2>1 DEF LockEffect
<1>10. CASE LoopCancelled(s)
  <2>1. CASE pc[s] = "lock"
    <3>1. LeavesQueue(s)
      BY <1>10, <2>1 DEF Cancellable, LoopCancelled, LeavesQueue
    <3> QED BY <3>1 DEF LockEffect
  <2>2. CASE pc[s] \in HandshakePcs
    <3>1. LeavesHandshake(s)
      BY <1>10, <2>2, HandshakeNames DEF Cancellable, LoopCancelled, LeavesHandshake
    <3> QED BY <3>1 DEF LockEffect
  <2>3. CASE pc[s] \notin {"lock"} \cup HandshakePcs
    <3>1. Apart(s)
      BY <1>10, <2>3 DEF Cancellable, LoopCancelled, Release, LockInv, TypeOK, Apart, Outside
    <3> QED BY <3>1 DEF LockEffect
  <2> QED BY <2>1, <2>2, <2>3
<1> QED BY <1>1, <1>2, <1>3, <1>4, <1>5, <1>6, <1>7, <1>8, <1>9, <1>10 DEF LoopStep

\* A jump of one session moves no other.
LEMMA Jumps ==
    ASSUME TypeOK, NEW s \in Session, NEW c, Jump(s, c)
    PROVE  pc'[s] = c /\ \A t \in Session : t # s => pc'[t] = pc[t]
  BY DEF Jump, TypeOK

\* The holder of the lock, and nobody else, is in the handshake: preserved.
LEMMA LockPreserved ==
    ASSUME TypeOK, LockInv, NEW s \in Session, LockEffect(s)
    PROVE  LockInv'
<1>1. CASE UNCHANGED <<pc, lockVars>>
  BY <1>1 DEF lockVars, LockInv
<1>2. CASE Apart(s)
  <2>1. PICK c \in Outside : pc'[s] = c /\ \A t \in Session : t # s => pc'[t] = pc[t]
    BY <1>2, Jumps DEF Apart
  <2> QED BY <1>2, <2>1 DEF Apart, lockVars, LockInv, Outside
<1>3. CASE TakesFreeLock(s)
  <2>1. pc'[s] = "establish" /\ \A t \in Session : t # s => pc'[t] = pc[t]
    BY <1>3, Jumps DEF TakesFreeLock
  <2> QED BY <1>3, <2>1, HandshakeNames DEF TakesFreeLock, LockInv, Outside
<1>4. CASE JoinsQueue(s)
  <2>1. pc'[s] = "lock" /\ \A t \in Session : t # s => pc'[t] = pc[t]
    BY <1>4, Jumps DEF JoinsQueue
  <2> QED BY <1>4, <2>1, HandshakeNames DEF JoinsQueue, LockInv, Outside
<1>5. CASE LeavesHead(s)
  <2>1. /\ \/ pc'[s] = "establish" /\ holder' = s
           \/ pc'[s] = "done" /\ holder' = holder
        /\ \A t \in Session : t # s => pc'[t] = pc[t]
    <3>1. CASE Jump(s, "establish") /\ holder' = s
      <4>1. pc'[s] = "establish" /\ \A t \in Session : t # s => pc'[t] = pc[t]
        BY <3>1, Jumps
      <4> QED BY <3>1, <4>1
    <3>2. CASE Jump(s, "done") /\ holder' = holder
      <4>1. pc'[s] = "done" /\ \A t \in Session : t # s => pc'[t] = pc[t]
        BY <3>2, Jumps
      <4> QED BY <3>2, <4>1
    <3> QED BY <1>5, <3>1, <3>2 DEF LeavesHead
  <2> QED BY <1>5, <2>1, HandshakeNames DEF LeavesHead, LockInv
<1>6. CASE MovesInside(s)
  <2>1. PICK c \in HandshakePcs : pc'[s] = c /\ \A t \in Session : t # s => pc'[t] = pc[t]
    BY <1>6, Jumps DEF MovesInside
  <2> QED BY <1>6, <2>1 DEF MovesInside, lockVars, LockInv
<1>7. CASE LeavesHandshake(s)
  <2>1. PICK c \in Outside : pc'[s] = c /\ \A t \in Session : t # s => pc'[t] = pc[t]
    BY <1>7, Jumps DEF LeavesHandshake
  <2> QED BY <1>7, <2>1 DEF LeavesHandshake, Release, LockInv, Outside
<1>8. CASE LeavesQueue(s)
  <2>1. pc'[s] = "cancelled" /\ \A t \in Session : t # s => pc'[t] = pc[t]
    BY <1>8, Jumps DEF LeavesQueue
  <2> QED BY <1>8, <2>1, HandshakeNames DEF LeavesQueue, Release, LockInv
<1> QED BY <1>1, <1>2, <1>3, <1>4, <1>5, <1>6, <1>7, <1>8 DEF LockEffect

\* The queue of the lock holds exactly the sessions that wait, once: preserved.
LEMMA QueuePreserved ==
    ASSUME TypeOK, QueueInv, NEW s \in Session, LockEffect(s)
    PROVE  QueueInv'
<1>0. waiters \in Seq(Session) /\ \A i \in 1..Len(waiters) : waiters[i] \in Session
  BY DEF TypeOK
<1>1. CASE UNCHANGED <<pc, lockVars>>
  BY <1>1 DEF lockVars, QueueInv
<1>2. CASE Apart(s) \/ MovesInside(s) \/ LeavesHandshake(s)
  <2>1. waiters' = waiters /\ pc[s] # "lock"
    BY <1>2, HandshakeNames, OutsideNames DEF Apart, MovesInside, LeavesHandshake, lockVars
  <2>2. \A t \in Session : t # s => pc'[t] = pc[t]
    BY <1>2, Jumps DEF Apart, MovesInside, LeavesHandshake
  <2> QED BY <1>0, <2>1, <2>2 DEF QueueInv
<1>3. CASE TakesFreeLock(s)
  BY <1>3 DEF TakesFreeLock, QueueInv
<1>4. CASE JoinsQueue(s)
  <2>1. /\ waiters' \in Seq(Session)
        /\ Len(waiters') = Len(waiters) + 1
        /\ \A i \in 1..Len(waiters) : waiters'[i] = waiters[i]
        /\ waiters'[Len(waiters) + 1] = s
    BY <1>0, <1>4, AppendProperties DEF JoinsQueue
  <2>2. \A i \in 1..Len(waiters) : waiters[i] # s
    BY <1>4, OutsideNames DEF JoinsQueue, QueueInv
  <2>3. /\ pc'[s] = "lock"
        /\ \A t \in Session : t # s => pc'[t] = pc[t]
    BY <1>4, Jumps DEF JoinsQueue
  <2> QED BY <1>0, <2>1, <2>2, <2>3 DEF QueueInv
<1>5. CASE LeavesHead(s)
  <2>1. /\ Len(waiters') = Len(waiters) - 1
        /\ \A i \in 1..Len(waiters') : waiters'[i] = waiters[i + 1]
        /\ waiters[1] = s
    BY <1>0, <1>5, HeadTailProperties DEF LeavesHead
  <2>2. \A t \in Session : t # s => pc'[t] = pc[t]
    BY <1>5, Jumps DEF LeavesHead
  <2> QED BY SMTT(30), <1>0, <2>1, <2>2 DEF QueueInv
<1>6. CASE LeavesQueue(s)
  <2>1. PICK i \in 1..Len(waiters) : waiters[i] = s /\ waiters' = RemoveAt(waiters, i)
    BY <1>0, <1>6 DEF LeavesQueue
  <2>2. /\ Len(waiters') = Len(waiters) - 1
        /\ \A j \in 1..Len(waiters') :
               waiters'[j] = IF j < i THEN waiters[j] ELSE waiters[j + 1]
    BY <1>0, <2>1, RemoveAtProperties
  <2>3. \A t \in Session : t # s => pc'[t] = pc[t]
    BY <1>6, Jumps DEF LeavesQueue
  <2>4. \A j \in 1..Len(waiters') : waiters'[j] \in Session \ {s} /\ pc[waiters'[j]] = "lock"
    BY <1>0, <2>1, <2>2 DEF QueueInv
  <2>5. \A j, k \in 1..Len(waiters') : waiters'[j] = waiters'[k] => j = k
    BY <1>0, <2>2 DEF QueueInv
  <2> QED BY <2>3, <2>4, <2>5 DEF QueueInv
<1> QED BY <1>1, <1>2, <1>3, <1>4, <1>5, <1>6 DEF LockEffect

(***************************************************************************)
(* The life of the connection object and of the tasks around it.           *)
(***************************************************************************)
\* An object that is held has not been closed; one that is not held has been
\* closed, except before the first attempt.  A live link has a client until
\* somebody closes the object.  Only a reauthentication takes the object away
\* from a loop that works with it.
LinkInvOf(s) ==
    /\ held[s] => ~closing[s]
    /\ link[s] # "down" /\ ~closing[s] => client[s] /\ held[s]
    /\ pc[s] \in {"lock", "ready"} \cup HandshakePcs =>
           held[s] \/ (reauth[s] /\ closing[s])
    /\ pc[s] \in {"idle", "new", "backoff", "lock", "establish"} => link[s] = "down"
    /\ rtask[s] # "none" => reauth[s]

LinkInv == \A s \in Session : LinkInvOf(s)

\* From the moment async_stop closes, everything else has ended.
StopInv ==
    \A s \in Session :
        /\ stopper[s] \in {"stop_notify", "disconnect", "done"} =>
               /\ pc[s] \in {"done", "cancelled"}
               /\ rtask[s] \in {"none", "done"}
               /\ ~held[s]
        /\ stopper[s] = "done" => state[s] = "stopped"

\* A close of the loop keeps every link within reach of somebody.
LEMMA LinkClose ==
    ASSUME TypeInv, LinkInv, NEW s \in Session, NEW reason, NEW n, Close(s, reason, n),
           pc[s] \in {"ready"} \cup HandshakePcs
    PROVE  LinkInv'
<1> USE DEF TypeInv, TypeOK, ConnectionTypeOK
<1>1. ASSUME NEW t \in Session, t # s
      PROVE  LinkInvOf(t)'
  <2>1. /\ UNCHANGED <<held[t], closing[t], link[t], client[t], pc[t], rtask[t]>>
        /\ reauth'[t] = reauth[t]
    BY ZenonT(60), <1>1 DEF Close, Forget, Detach, connectionVars, Continue, RequireReauth, Goto, statusVars
  <2> QED BY <2>1 DEF LinkInv, LinkInvOf
<1>2. /\ ~held'[s] /\ link'[s] = link[s] /\ rtask'[s] = rtask[s]
      /\ reauth[s] => reauth'[s]
      /\ held[s] => closing'[s]
      /\ ~held[s] => closing'[s] = closing[s]
  BY DEF Close, Forget, Detach, connectionVars, Continue, RequireReauth, statusVars
<1>3. \/ pc'[s] \in {"stop_notify", "done"}
      \/ pc'[s] = "backoff" /\ ~reauth[s] /\ ~(held[s] /\ NeedsRelease(s))
  BY DEF Close, Continue, Goto
<1>4. pc'[s] = "backoff" => link'[s] = "down"
  BY <1>2, <1>3 DEF LinkInv, LinkInvOf, NeedsRelease
<1>5. LinkInvOf(s)'
  <2>1. link[s] # "down" /\ ~closing'[s] => FALSE
    BY <1>2 DEF LinkInv, LinkInvOf
  <2> QED BY <1>2, <1>3, <1>4, <2>1, HandshakeNames DEF LinkInv, LinkInvOf
<1> QED BY <1>1, <1>5 DEF LinkInv

\* One session never touches what belongs to another one.
Untouched(t) ==
    /\ pc'[t] = pc[t] /\ held'[t] = held[t] /\ closing'[t] = closing[t]
    /\ link'[t] = link[t] /\ client'[t] = client[t] /\ rtask'[t] = rtask[t]
    /\ reauth'[t] = reauth[t] /\ stopper'[t] = stopper[t]
    /\ state'[t] = state[t] /\ connected'[t] = connected[t]

SessionStep(s) ==
    \/ Start(s) \/ LoopStep(s) \/ HealthCheckFails(s)
    \/ SeenMatch(s) \/ SeenMismatch(s)
    \/ ReauthStep(s) \/ StopRequested(s) \/ StopStep(s) \/ LinkStep(s)

\* A step of one session touches no other session.
LEMMA Others ==
    ASSUME TypeOK, NEW s \in Session, NEW t \in Session, t # s, SessionStep(s)
    PROVE  Untouched(t)
<1> USE DEF TypeOK, ConnectionTypeOK, Untouched, Goto, Show, StopAt, sessionVars, statusVars,
            countVars, connectionVars
<1>1. CASE Start(s) \/ LeaveLoop(s) \/ NoDevice(s)
  BY <1>1 DEF Start, LeaveLoop, NoDevice
<1>2. CASE ConnectAtOnce(s) \/ ConnectLater(s)
  BY <1>2 DEF ConnectAtOnce, ConnectLater, Attempt, NewConnection, EnterLock
<1>3. CASE LockGranted(s)
  BY <1>3 DEF LockGranted, EnterLock
<1>4. CASE LockObsolete(s)
  BY <1>4 DEF LockObsolete, Forget, Detach
<1>5. CASE HandshakeStep(s)
  BY <1>5 DEF HandshakeStep, Established, Proceed
<1>6. CASE Authenticated(s)
  BY <1>6 DEF Authenticated
<1>7. CASE \/ AuthenticatedObsolete(s) \/ AuthenticationFails(s) \/ LoginTimesOut(s)
           \/ HandshakeFails(s) \/ ConnectionEnds(s) \/ HealthCheckFails(s)
  <2>1. \E reason, n : Close(s, reason, n)
    BY <1>7 DEF AuthenticatedObsolete, AuthenticationFails, LoginTimesOut, HandshakeFails,
       ConnectionEnds, HealthCheckFails
  <2> QED BY <2>1 DEF Close, Forget, Detach, Continue, RequireReauth
<1>8. CASE LoopStopsNotify(s) \/ LoopDisconnects(s) \/ LoopCrashes(s) \/ LoopCancelled(s)
  <2>1. CASE LoopStopsNotify(s)
    BY <2>1 DEF LoopStopsNotify
  <2>2. CASE LoopDisconnects(s)
    BY <2>2 DEF LoopDisconnects, Disconnect, Continue, RequireReauth
  <2>3. CASE LoopCrashes(s)
    BY <2>3 DEF LoopCrashes, Disconnect
  <2>4. CASE LoopCancelled(s)
    BY <2>4 DEF Cancellable, LoopCancelled, Disconnect
  <2> QED BY <1>8, <2>1, <2>2, <2>3, <2>4
<1>9. CASE SeenMatch(s) \/ SeenMismatch(s)
  BY <1>9 DEF SeenMatch, SeenMismatch, Seen, RequireReauth
<1>10. CASE ReauthStep(s)
  BY <1>10 DEF ReauthStep, ReauthCloses, ReauthStopsNotify, ReauthDisconnects, ReauthCrashes,
     Forget, Detach, Disconnect
<1>11. CASE StopRequested(s) \/ StopStep(s)
  BY <1>11 DEF StopRequested, StopStep, StopCloses, StopFails, StopStopsNotify, StopDisconnects,
     StopCrashes, Forget, Detach, Disconnect
<1>12. CASE LinkStep(s)
  BY <1>12 DEF LinkStep, LinkDrop, LinkSilent
<1> QED BY <1>1, <1>2, <1>3, <1>4, <1>5, <1>6, <1>7, <1>8, <1>9, <1>10, <1>11, <1>12
        DEF SessionStep, LoopStep

\* The relation of link, client, connection object and awaits is preserved.
LEMMA LinkPreserved ==
    ASSUME TypeInv, LinkInv, NEW s \in Session, SessionStep(s)
    PROVE  LinkInv'
<1> SUFFICES LinkInvOf(s)'
  <2>1. ASSUME NEW t \in Session, t # s PROVE LinkInvOf(t)'
    BY <2>1, Others DEF TypeInv, LinkInv, LinkInvOf, Untouched
  <2> QED BY <2>1 DEF LinkInv
<1> USE HandshakeNames DEF TypeInv, TypeOK, ConnectionTypeOK, LinkInv, LinkInvOf, Goto,
        sessionVars, statusVars, connectionVars
<1>1. CASE Start(s) \/ LeaveLoop(s) \/ NoDevice(s)
  <2>1. CASE Start(s)
    BY <2>1 DEF Start
  <2>2. CASE LeaveLoop(s)
    BY <2>2 DEF LeaveLoop, AtLoopHead
  <2>3. CASE NoDevice(s)
    BY <2>3 DEF NoDevice, AtLoopHead
  <2> QED BY <1>1, <2>1, <2>2, <2>3
<1>2. CASE ConnectAtOnce(s) \/ ConnectLater(s)
  BY ZenonT(60), <1>2 DEF ConnectAtOnce, ConnectLater, Attempt, AtLoopHead, NewConnection, EnterLock
<1>3. CASE LockGranted(s)
  BY <1>3 DEF LockGranted, IsWoken, EnterLock
<1>4. CASE LockObsolete(s)
  BY <1>4 DEF LockObsolete, IsWoken, Forget, Detach
<1>5. CASE HandshakeStep(s)
  BY <1>5 DEF HandshakeStep, InHandshake, Established, Proceed, Completes, AfterHandshakeStep
<1>6. CASE Authenticated(s)
  BY <1>6 DEF Authenticated, InHandshake
<1>7. CASE \/ AuthenticatedObsolete(s) \/ AuthenticationFails(s) \/ LoginTimesOut(s)
           \/ HandshakeFails(s) \/ ConnectionEnds(s) \/ HealthCheckFails(s)
  <2>1. /\ \E reason, n : Close(s, reason, n)
        /\ pc[s] \in {"ready"} \cup HandshakePcs
    BY <1>7 DEF AuthenticatedObsolete, AuthenticationFails, LoginTimesOut, HandshakeFails,
       ConnectionEnds, HealthCheckFails, InHandshake
  <2> QED BY <2>1, LinkClose
<1>8. CASE LoopStopsNotify(s) \/ LoopDisconnects(s) \/ LoopCrashes(s) \/ LoopCancelled(s)
  <2>1. CASE LoopStopsNotify(s)
    BY <2>1 DEF LoopStopsNotify
  <2>2. CASE LoopDisconnects(s)
    BY ZenonT(60), <2>2 DEF LoopDisconnects, Disconnect, Continue, RequireReauth
  <2>3. CASE LoopCrashes(s)
    BY <2>3 DEF LoopCrashes, Disconnect, Ended
  <2>4. CASE LoopCancelled(s)
    BY <2>4 DEF Cancellable, LoopCancelled, Disconnect, Ended
  <2> QED BY <1>8, <2>1, <2>2, <2>3, <2>4
<1>9. CASE SeenMatch(s) \/ SeenMismatch(s)
  <2>1. CASE SeenMatch(s)
    BY <2>1 DEF SeenMatch, Seen
  <2>2. CASE SeenMismatch(s)
    <3>1. UNCHANGED <<pc, held, closing, link, client>>
      BY <2>2 DEF SeenMismatch, Seen
    <3>2. CASE RequireReauth(s)
      <4>1. reauth'[s]
        BY <3>2 DEF RequireReauth
      <4> QED BY <3>1, <4>1
    <3>3. CASE UNCHANGED <<statusVars, rtask>>
      BY <3>1, <3>3
    <3> QED BY <2>2, <3>2, <3>3 DEF SeenMismatch
  <2> QED BY <1>9, <2>1, <2>2
<1>10. CASE ReauthStep(s)
  BY <1>10 DEF ReauthStep, ReauthCloses, ReauthStopsNotify, ReauthDisconnects, ReauthCrashes,
     Forget, Detach, Disconnect
<1>11. CASE StopRequested(s) \/ StopStep(s)
  <2>1. CASE StopRequested(s) \/ StopFails(s) \/ StopStopsNotify(s)
    BY <2>1 DEF StopRequested, StopFails, StopStopsNotify
  <2>2. CASE StopCloses(s)
    BY <2>2 DEF StopCloses, Forget, Detach
  <2>3. CASE StopDisconnects(s) \/ StopCrashes(s)
    <3>1. UNCHANGED <<pc, held, closing, client, reauth, rtask>>
      BY <2>3 DEF StopDisconnects, StopCrashes, Disconnect
    <3>2. link' = link \/ link' = [link EXCEPT ![s] = "down"]
      BY <2>3 DEF StopDisconnects, StopCrashes, Disconnect
    <3> QED BY <3>1, <3>2
  <2> QED BY <1>11, <2>1, <2>2, <2>3 DEF StopStep
<1>12. CASE LinkStep(s)
  BY <1>12 DEF LinkStep, LinkDrop, LinkSilent
<1> QED BY <1>1, <1>2, <1>3, <1>4, <1>5, <1>6, <1>7, <1>8, <1>9, <1>10, <1>11, <1>12
        DEF SessionStep, LoopStep

\* async_stop has waited for the tasks before it closes: preserved.
LEMMA StopPreserved ==
    ASSUME TypeInv, LinkInv, StopInv, NEW s \in Session, SessionStep(s)
    PROVE  StopInv'
<1> DEFINE Of(t) ==
        /\ stopper[t] \in {"stop_notify", "disconnect", "done"} =>
               /\ pc[t] \in {"done", "cancelled"}
               /\ rtask[t] \in {"none", "done"}
               /\ ~held[t]
        /\ stopper[t] = "done" => state[t] = "stopped"
<1> SUFFICES Of(s)'
  <2>1. ASSUME NEW t \in Session, t # s PROVE Of(t)'
    BY <2>1, Others DEF TypeInv, StopInv, Untouched
  <2> QED BY <2>1 DEF StopInv
<1>0. Of(s)
  BY DEF StopInv
<1> USE HandshakeNames DEF TypeInv, TypeOK, ConnectionTypeOK, Goto, Stopping, StopAt,
        sessionVars, statusVars, connectionVars
<1>1. CASE StopRequested(s)
  BY <1>0, <1>1 DEF StopRequested
<1>2. CASE StopFails(s)
  BY <1>0, <1>2 DEF StopFails
<1>3. CASE StopCloses(s)
  BY <1>0, <1>3 DEF StopCloses, Forget, Show
<1>4. CASE StopStopsNotify(s)
  BY <1>0, <1>4 DEF StopStopsNotify
<1>5. CASE StopDisconnects(s) 
  BY <1>0, <1>5 DEF StopDisconnects, Show
<1>6. CASE StopCrashes(s)
  BY <1>0, <1>6 DEF StopCrashes
<1>7. CASE ReauthStep(s)
  BY <1>0, <1>7 DEF ReauthStep, ReauthCloses, ReauthStopsNotify, ReauthDisconnects,
     ReauthCrashes, Forget
<1>8. CASE LinkStep(s)
  BY <1>0, <1>8 DEF LinkStep, LinkDrop, LinkSilent
<1>9. CASE \/ Start(s) \/ LoopStep(s) \/ HealthCheckFails(s)
           \/ SeenMatch(s) \/ SeenMismatch(s)
  <2>1. stopper' = stopper
    BY <1>9 DEF Start, LoopStep, LeaveLoop, NoDevice, ConnectAtOnce, ConnectLater, Attempt,
       LockGranted, LockObsolete, HandshakeStep, Authenticated, AuthenticatedObsolete,
       AuthenticationFails, LoginTimesOut, HandshakeFails, ConnectionEnds, HealthCheckFails,
       LoopStopsNotify, LoopDisconnects, LoopCrashes, LoopCancelled, Cancellable, Close, SeenMatch,
       SeenMismatch, Seen
  <2>2. stopper[s] \in {"none", "await"}
    BY <1>0, <1>9 DEF Start, LoopStep, LeaveLoop, NoDevice, ConnectAtOnce, ConnectLater, Attempt,
       AtLoopHead, LockGranted, LockObsolete, IsWoken, HandshakeStep, InHandshake, Authenticated,
       AuthenticatedObsolete, AuthenticationFails, LoginTimesOut, HandshakeFails, ConnectionEnds,
       HealthCheckFails, LoopStopsNotify, LoopDisconnects, LoopCrashes, LoopCancelled, Cancellable, SeenMatch,
       SeenMismatch, Seen
  <2> QED BY <2>1, <2>2
<1> QED BY <1>1, <1>2, <1>3, <1>4, <1>5, <1>6, <1>7, <1>8, <1>9 DEF SessionStep, StopStep

\* A session that requires a reauthentication goes on showing it.
LEMMA ReauthPreserved ==
    ASSUME TypeInv, ReauthFinal, NEW s \in Session, SessionStep(s)
    PROVE  ReauthFinal'
<1> SUFFICES ASSUME reauth'[s] 
             PROVE  state'[s] \in {"reauth_required", "stopped"} /\ ~connected'[s]
  <2>1. ASSUME NEW t \in Session, t # s, reauth'[t]
        PROVE  state'[t] \in {"reauth_required", "stopped"} /\ ~connected'[t]
    BY <2>1, Others DEF TypeInv, ReauthFinal, Untouched
  <2> QED BY <2>1 DEF ReauthFinal
<1>1. CASE UNCHANGED statusVars
  BY <1>1 DEF statusVars, ReauthFinal
<1>2. CASE UNCHANGED reauth /\ ~reauth[s]
  BY <1>2
<1>3. CASE RequireReauth(s) \/ (Show(s, "stopped", FALSE) /\ UNCHANGED reauth)
  BY <1>3 DEF RequireReauth, Show, TypeInv, TypeOK
<1> USE DEF sessionVars, statusVars
<1>4. CASE Start(s) \/ LeaveLoop(s) \/ LockObsolete(s) \/ HandshakeStep(s)
  BY <1>1, <1>4 DEF Start, LeaveLoop, LockObsolete, HandshakeStep
<1>5. CASE NoDevice(s) \/ ConnectAtOnce(s) \/ ConnectLater(s) \/ LockGranted(s) \/ Authenticated(s)
  BY <1>2, <1>5 DEF NoDevice, ConnectAtOnce, ConnectLater, Attempt, LockGranted, Authenticated
<1>6. CASE \E reason, n : Close(s, reason, n) \/ Continue(s, reason, n)
  BY <1>1, <1>2, <1>3, <1>6 DEF Close, Continue
<1>7. CASE \/ AuthenticatedObsolete(s) \/ AuthenticationFails(s) \/ LoginTimesOut(s)
           \/ HandshakeFails(s) \/ ConnectionEnds(s) \/ HealthCheckFails(s) \/ LoopDisconnects(s)
  BY <1>6, <1>7 DEF AuthenticatedObsolete, AuthenticationFails, LoginTimesOut, HandshakeFails,
     ConnectionEnds, HealthCheckFails, LoopDisconnects
<1>8. CASE LoopStopsNotify(s) \/ LoopCrashes(s) \/ LoopCancelled(s) \/ SeenMatch(s)
  BY <1>1, <1>8 DEF LoopStopsNotify, LoopCrashes, LoopCancelled, Cancellable, SeenMatch
<1>9. CASE SeenMismatch(s)
  BY <1>1, <1>3, <1>9 DEF SeenMismatch
<1>10. CASE ReauthStep(s) \/ StopRequested(s) \/ LinkStep(s)
  BY <1>1, <1>10 DEF ReauthStep, ReauthCloses, ReauthStopsNotify, ReauthDisconnects,
     ReauthCrashes, StopRequested, LinkStep
<1>11. CASE StopStep(s)
  <2>1. CASE StopCloses(s)
    BY <1>1, <1>3, <2>1 DEF StopCloses, ReauthFinal
  <2>2. CASE StopFails(s) \/ StopStopsNotify(s) \/ StopCrashes(s)
    BY <1>1, <2>2 DEF StopFails, StopStopsNotify, StopCrashes
  <2>3. CASE StopDisconnects(s)
    BY <1>3, <2>3 DEF StopDisconnects
  <2> QED BY <1>11, <2>1, <2>2, <2>3 DEF StopStep
<1> QED BY <1>4, <1>5, <1>7, <1>8, <1>9, <1>10, <1>11 DEF SessionStep, LoopStep

\* Without unusual errors on a close the loop ends only where it says so.
AvailInv ==
    /\ \A s \in Session : pc[s] # "crashed"
    /\ AvailableIsServed

\* If no close crashes, READY is shown only while a loop serves: preserved.
LEMMA AvailPreserved ==
    ASSUME "close" \notin Faults, TypeInv, ReauthFinal, StopInv, AvailInv,
           NEW s \in Session, SessionStep(s)
    PROVE  AvailInv'
<1> DEFINE Of(t) ==
        /\ pc[t] # "crashed"
        /\ state[t] = "ready" =>
               pc[t] \in {"ready", "stop_notify", "disconnect"} \/ Stopping(t)
<1> SUFFICES Of(s)'
  <2>1. ASSUME NEW t \in Session, t # s PROVE Of(t)'
    BY <2>1, Others DEF TypeInv, AvailInv, AvailableIsServed, Untouched, Stopping
  <2> QED BY <2>1 DEF AvailInv, AvailableIsServed
<1>0. Of(s)
  BY DEF AvailInv, AvailableIsServed
<1>a. reauth[s] => state[s] # "ready"
  BY DEF ReauthFinal
<1> USE HandshakeNames DEF TypeInv, TypeOK, Goto, Show, sessionVars, statusVars
<1>1. CASE Start(s)
  BY <1>0, <1>1 DEF Start, Stopping
<1>2. CASE LeaveLoop(s)
  BY <1>0, <1>a, <1>2 DEF LeaveLoop, Stopping
<1>3. CASE NoDevice(s)
  BY <1>3 DEF NoDevice, Stopping
<1>4. CASE ConnectAtOnce(s) \/ ConnectLater(s)
  BY <1>4 DEF ConnectAtOnce, ConnectLater, Attempt, EnterLock, Stopping
<1>5. CASE LockGranted(s)
  BY <1>5 DEF LockGranted, EnterLock, Stopping
<1>6. CASE LockObsolete(s)
  BY <1>0, <1>a, <1>6 DEF LockObsolete, Stopping
<1>7. CASE HandshakeStep(s)
  <2>1. PICK c \in HandshakePcs : pc' = [pc EXCEPT ![s] = c]
    BY <1>7, HandshakeMoves
  <2>2. UNCHANGED sessionVars /\ pc[s] \in HandshakePcs
    BY <1>7, HandshakeMoves
  <2> QED BY <1>0, <2>1, <2>2 DEF Stopping
<1>8. CASE Authenticated(s)
  BY <1>8 DEF Authenticated, Stopping
<1>9. CASE \E reason, n : Close(s, reason, n)
  <2>1. UNCHANGED stopper
    BY <1>9 DEF Close
  <2>2. CASE pc' = [pc EXCEPT ![s] = "stop_notify"]
    BY <2>2 DEF Stopping
  <2>3. CASE \E reason, n : Continue(s, reason, n)
    BY <1>a, <2>3 DEF Continue, RequireReauth, Stopping
  <2> QED BY <1>9, <2>2, <2>3 DEF Close
<1>10. CASE \/ AuthenticatedObsolete(s) \/ AuthenticationFails(s) \/ LoginTimesOut(s)
            \/ HandshakeFails(s) \/ ConnectionEnds(s) \/ HealthCheckFails(s)
  BY <1>9, <1>10 DEF AuthenticatedObsolete, AuthenticationFails, LoginTimesOut, HandshakeFails,
     ConnectionEnds, HealthCheckFails
<1>11. CASE LoopStopsNotify(s)
  BY <1>11 DEF LoopStopsNotify
<1>12. CASE LoopDisconnects(s)
  BY <1>a, <1>12 DEF LoopDisconnects, Continue, RequireReauth, Stopping
<1>13. CASE LoopCrashes(s)
  BY <1>13 DEF LoopCrashes
<1>14. CASE LoopCancelled(s)
  BY <1>14 DEF Cancellable, LoopCancelled, Stopping
<1>15. CASE SeenMatch(s) \/ SeenMismatch(s)
  <2>1. UNCHANGED <<pc, stopper>> /\ (state'[s] = state[s] \/ state'[s] = "reauth_required")
    BY <1>15 DEF SeenMatch, SeenMismatch, Seen, RequireReauth
  <2> QED BY <1>0, <2>1 DEF Stopping
<1>16. CASE ReauthStep(s) \/ LinkStep(s)
  <2>1. UNCHANGED <<pc, stopper, state>>
    BY <1>16 DEF ReauthStep, ReauthCloses, ReauthStopsNotify, ReauthDisconnects, ReauthCrashes,
       LinkStep, LinkDrop, LinkSilent
  <2> QED BY <1>0, <2>1 DEF Stopping
<1>17. CASE StopRequested(s) \/ StopStep(s)
  <2>1. UNCHANGED pc /\ stopper'[s] # "none"
    BY <1>17 DEF StopRequested, StopStep, StopCloses, StopFails, StopStopsNotify, StopDisconnects,
       StopCrashes, StopAt
  <2> QED BY <1>0, <2>1 DEF Stopping
<1> QED BY <1>1, <1>2, <1>3, <1>4, <1>5, <1>6, <1>7, <1>8, <1>10, <1>11, <1>12, <1>13, <1>14,
           <1>15, <1>16, <1>17 DEF SessionStep, LoopStep

(***************************************************************************)
(* The inductive invariant and the theorems.                               *)
(***************************************************************************)
IInv == TypeInv /\ LockInv /\ QueueInv /\ LinkInv /\ StopInv /\ ReauthFinal

\* The inductive invariant holds at first.
LEMMA IInvInit == Init => IInv
<1> SUFFICES ASSUME Init PROVE IInv
  OBVIOUS
<1>1. TypeInv
  BY TypeInit
<1>2. LockInv /\ QueueInv
  BY HandshakeNames DEF Init, LockInv, QueueInv
<1>3. LinkInv
  BY HandshakeNames DEF Init, ConnectionInit, LinkInv, LinkInvOf
<1>4. StopInv /\ ReauthFinal
  BY DEF Init, StopInv, ReauthFinal
<1> QED BY <1>1, <1>2, <1>3, <1>4 DEF IInv

\* The inductive invariant is preserved by every step.
LEMMA IInvStep == IInv /\ [Next]_vars => IInv'
<1> SUFFICES ASSUME IInv, [Next]_vars PROVE IInv'
  OBVIOUS
<1>1. TypeInv'
  BY TypeStep DEF IInv
<1>2. CASE UNCHANGED vars
  BY <1>1, <1>2 DEF IInv, vars, sessionVars, statusVars, countVars, lockVars, connectionVars,
     LockInv, QueueInv, LinkInv, LinkInvOf, StopInv, ReauthFinal
<1>3. ASSUME NEW s \in Session, SessionStep(s) PROVE IInv'
  <2>1. LockEffect(s)
    BY <1>3, LockEffects DEF IInv, TypeInv, SessionStep
  <2>2. LockInv' /\ QueueInv'
    BY <2>1, LockPreserved, QueuePreserved DEF IInv, TypeInv
  <2>3. LinkInv' /\ StopInv' /\ ReauthFinal'
    BY <1>3, LinkPreserved, StopPreserved, ReauthPreserved DEF IInv
  <2> QED BY <1>1, <2>2, <2>3 DEF IInv
<1> QED BY <1>2, <1>3 DEF Next, SessionStep

\* The inductive invariant always holds.
LEMMA Invariance == Spec => []IInv
  BY IInvInit, IInvStep, PTL DEF Spec

\* Two handshakes never overlap.
THEOREM HandshakesAreExclusive == Spec => []HandshakeExclusive
<1>1. IInv => HandshakeExclusive
  BY DEF IInv, LockInv, HandshakeExclusive
<1> QED BY Invariance, <1>1, PTL

\* After a reauthentication is required nothing but the unload changes what
\* the session shows.
THEOREM ReauthIsFinal == Spec => []ReauthFinal
<1>1. IInv => ReauthFinal
  BY DEF IInv
<1> QED BY Invariance, <1>1, PTL

\* A link that nobody has begun to close can be found through _connection.
THEOREM OpenLinksAreReachable == Spec => []OpenLinkReachable
<1>1. IInv => OpenLinkReachable
  BY DEF IInv, LinkInv, LinkInvOf, OpenLinkReachable
<1> QED BY Invariance, <1>1, PTL

\* A session opens no second link to its switch.
THEOREM OneSlotPerSwitchHolds == Spec => []OneSlotPerSwitch
<1>1. IInv => OneSlotPerSwitch
  BY DEF IInv, LinkInv, LinkInvOf, OneSlotPerSwitch
<1> QED BY Invariance, <1>1, PTL

\* After async_stop nothing of the session is left.
THEOREM StoppedIsQuietHolds == Spec => []StoppedIsQuiet
<1>1. ASSUME IInv, NEW s \in Session, stopper[s] = "done"
      PROVE  /\ pc[s] \in Ended /\ rtask[s] \notin {"new", "stop_notify", "disconnect"}
             /\ holder # s /\ ~held[s] /\ state[s] = "stopped"
             /\ \A i \in DOMAIN waiters : waiters[i] # s
  <2>1. pc[s] \in {"done", "cancelled"} /\ rtask[s] \in {"none", "done"} /\ ~held[s]
        /\ state[s] = "stopped"
    BY <1>1 DEF IInv, StopInv
  <2>2. holder # s
    BY <1>1, <2>1, HandshakeNames DEF IInv, LockInv
  <2>3. \A i \in DOMAIN waiters : waiters[i] # s
    <3>1. waiters \in Seq(Session)
      BY <1>1 DEF IInv, TypeInv, TypeOK
    <3> QED BY <1>1, <2>1, <3>1 DEF IInv, QueueInv
  <2> QED BY <2>1, <2>2, <2>3 DEF Ended
<1>2. IInv => StoppedIsQuiet
  BY <1>1 DEF StoppedIsQuiet
<1> QED BY Invariance, <1>2, PTL

\* When a close raises nothing but errors of Bleak, a switch whose entities
\* are available is served by a living loop.
THEOREM AvailableIsServedHolds ==
    ASSUME "close" \notin Faults
    PROVE  Spec => []AvailableIsServed
<1>1. Init => IInv /\ AvailInv
  BY IInvInit DEF Init, AvailInv, AvailableIsServed
<1>2. ASSUME IInv, AvailInv, [Next]_vars PROVE IInv' /\ AvailInv'
  <2>1. IInv'
    BY <1>2, IInvStep
  <2>2. CASE UNCHANGED vars
    <3>1. pc' = pc /\ state' = state /\ stopper' = stopper
      BY <2>2 DEF vars, sessionVars, statusVars
    <3>2. \A s \in Session : pc'[s] # "crashed"
      BY <1>2, <3>1 DEF AvailInv
    <3>3. AvailableIsServed'
      BY <1>2, <3>1 DEF AvailInv, AvailableIsServed, Stopping
    <3> QED BY <2>1, <3>2, <3>3 DEF AvailInv
  <2>3. ASSUME NEW s \in Session, SessionStep(s) PROVE AvailInv'
    BY <1>2, <2>3, AvailPreserved DEF IInv
  <2> QED BY <1>2, <2>1, <2>2, <2>3 DEF Next, SessionStep
<1>3. IInv /\ AvailInv => AvailableIsServed
  BY DEF AvailInv
<1> QED BY <1>1, <1>2, <1>3, PTL DEF Spec

(***************************************************************************)
(* What a step may never do.                                               *)
(***************************************************************************)
\* A step is the end of a completed handshake, or it takes neither the backoff
\* index nor the count of login timeouts back.
LEMMA CountsGrow ==
    ASSUME TypeOK, NEW s \in Session, SessionStep(s), ~Authenticated(s)
    PROVE  \A t \in Session : index[t] <= index'[t] /\ timeouts[t] <= timeouts'[t]
<1>1. \A t \in Session : index[t] \in 0..(BackoffSteps - 1) /\ timeouts[t] \in 0..MaxLoginTimeouts
  BY DEF TypeOK
<1>2. CASE UNCHANGED countVars \/ UNCHANGED <<timeouts, index>>
  BY <1>1, <1>2 DEF countVars
<1>3. CASE AdvanceBackoff(s) /\ UNCHANGED timeouts
  <2>1. \A i \in 0..(BackoffSteps - 1) : NextIndex(i) \in Int /\ i <= NextIndex(i)
    BY DEF NextIndex
  <2> QED BY <1>1, <1>3, <2>1 DEF AdvanceBackoff, TypeOK
<1>4. CASE \E reason : Close(s, reason, timeouts[s]) \/ Close(s, reason, timeouts[s] + 1)
  <2>1. PICK n \in {timeouts[s], timeouts[s] + 1} :
            timeouts' = [timeouts EXCEPT ![s] = n] /\ index' = index
    BY <1>4 DEF Close
  <2> QED BY <1>1, <2>1 DEF TypeOK
<1> USE DEF sessionVars
<1>5. CASE \/ Start(s) \/ LeaveLoop(s) \/ LockGranted(s) \/ LockObsolete(s) \/ HandshakeStep(s)
           \/ LoopStopsNotify(s) \/ LoopDisconnects(s) \/ LoopCrashes(s) \/ LoopCancelled(s)
  BY <1>2, <1>5 DEF Start, LeaveLoop, LockGranted, LockObsolete, HandshakeStep,
     LoopStopsNotify, LoopDisconnects, LoopCrashes, LoopCancelled
<1>6. CASE NoDevice(s) \/ ConnectAtOnce(s) \/ ConnectLater(s)
  BY <1>3, <1>6 DEF NoDevice, ConnectAtOnce, ConnectLater, Attempt
<1>7. CASE \/ AuthenticatedObsolete(s) \/ AuthenticationFails(s) \/ LoginTimesOut(s)
           \/ HandshakeFails(s) \/ ConnectionEnds(s) \/ HealthCheckFails(s)
  BY <1>4, <1>7 DEF AuthenticatedObsolete, AuthenticationFails, LoginTimesOut, HandshakeFails,
     ConnectionEnds, HealthCheckFails
<1>8. CASE SeenMatch(s) \/ SeenMismatch(s)
  BY <1>2, <1>8 DEF SeenMatch, SeenMismatch, Seen
<1>9. CASE ReauthStep(s) \/ StopRequested(s) \/ StopStep(s) \/ LinkStep(s)
  BY <1>2, <1>9 DEF ReauthStep, ReauthCloses, ReauthStopsNotify, ReauthDisconnects, ReauthCrashes,
     StopRequested, StopStep, StopCloses, StopFails, StopStopsNotify, StopDisconnects, StopCrashes,
     LinkStep
<1> QED BY <1>5, <1>6, <1>7, <1>8, <1>9 DEF SessionStep, LoopStep

\* Only a completed handshake forgives earlier failures and LOGIN timeouts.
THEOREM OnlyReadyForgivesHolds == Spec => OnlyReadyForgives
<1>1. ASSUME IInv, [Next]_vars, NEW s \in Session,
             index'[s] < index[s] \/ timeouts'[s] < timeouts[s]
      PROVE  pc[s] = "write_status" /\ state'[s] = "ready"
  <2>0. TypeOK /\ index[s] \in Int /\ timeouts[s] \in Int
    BY <1>1 DEF IInv, TypeInv, TypeOK
  <2>1. PICK t \in Session : SessionStep(t)
    BY <1>1, <2>0 DEF Next, SessionStep, vars, sessionVars, countVars
  <2>2. TypeOK'
    BY <1>1, TypeStep DEF IInv, TypeInv
  <2>3. Authenticated(t)
    BY SMTT(30), <1>1, <2>0, <2>1, <2>2, CountsGrow DEF TypeOK
  <2>4. t = s
    BY <1>1, <2>0, <2>3 DEF Authenticated, TypeOK
  <2> QED BY <2>0, <2>3, <2>4 DEF Authenticated, HandshakeCompletes, Show, TypeOK
<1>2. IInv /\ [Next]_vars =>
          [\A s \in Session :
               index'[s] < index[s] \/ timeouts'[s] < timeouts[s]
                   => pc[s] = "write_status" /\ state'[s] = "ready"]_vars
  BY <1>1
<1> QED BY <1>2, Invariance, PTL DEF Spec, OnlyReadyForgives
=============================================================================

------------------ MODULE PairLinkSessionImplements_proofs ------------------
(***************************************************************************)
(* Proof that PairLinkSession implements SessionPromise, for any number of  *)
(* sessions, any limits and all faults: the mapping of                      *)
(* PairLinkSessionImplements takes the initial states to the initial state  *)
(* of the promise, and each step to a step of the promise or to none.       *)
(***************************************************************************)
EXTENDS PairLinkSessionImplements, PairLinkSession_proofs

USE SessionAssumption, LimitAssumption, FaultAssumption
    DEF SessionAssumption, LimitAssumption, FaultAssumption

(***************************************************************************)
(* The inductive invariant says who holds the lock and what a required      *)
(* reauthentication shows.  The promise also asks what a session shows when *)
(* it takes its turn and when it has it.                                    *)
(***************************************************************************)
Waiting == {"idle", "new", "backoff", "lock"}

ShownInvOf(s) ==
    /\ state[s] = "reauth_required" => reauth[s]
    /\ pc[s] \in Waiting /\ ~reauth[s] /\ stopper[s] # "done" =>
           state[s] \in {"stopped", "connecting", "backoff"}
    /\ pc[s] \in HandshakePcs /\ ~reauth[s] => state[s] = "authenticating"

ShownInv == \A s \in Session : ShownInvOf(s)

\* Where the loop is after a close, and what it shows then.
LEMMA ShownContinue ==
    ASSUME TypeInv, NEW s \in Session, NEW reason, NEW n, Continue(s, reason, n)
    PROVE  /\ pc'[s] \in {"done", "backoff"}
           /\ \/ reauth'[s] = reauth[s] /\ state'[s] = state[s] /\ pc'[s] = "done"
              \/ reauth'[s] /\ pc'[s] = "done"
              \/ ~reauth'[s] /\ state'[s] = "backoff"
  BY DEF Continue, RequireReauth, Goto, Show, statusVars, TypeInv, TypeOK

\* What a session shows fits where its loop is: preserved.
LEMMA ShownPreserved ==
    ASSUME IInv, ShownInv, NEW s \in Session, SessionStep(s)
    PROVE  ShownInv'
<1> SUFFICES ShownInvOf(s)'
  <2>1. ASSUME NEW t \in Session, t # s PROVE ShownInvOf(t)'
    BY <2>1, Others DEF IInv, TypeInv, ShownInv, ShownInvOf, Untouched
  <2> QED BY <2>1 DEF ShownInv
<1>0. ShownInvOf(s) /\ TypeInv /\ TypeOK
  BY DEF ShownInv, IInv, TypeInv
<1> USE HandshakeNames DEF TypeOK, ShownInvOf, Waiting, Goto, Show, sessionVars, statusVars
<1>1. CASE Start(s)
  BY <1>0, <1>1 DEF Start
<1>2. CASE LeaveLoop(s)
  BY <1>0, <1>2 DEF LeaveLoop
<1>3. CASE NoDevice(s)
  BY <1>0, <1>3 DEF NoDevice
<1>4. CASE ConnectAtOnce(s) \/ ConnectLater(s)
  BY <1>0, <1>4 DEF ConnectAtOnce, ConnectLater, Attempt, EnterLock
<1>5. CASE LockGranted(s)
  BY <1>0, <1>5 DEF LockGranted, EnterLock
<1>6. CASE LockObsolete(s)
  BY <1>0, <1>6 DEF LockObsolete
<1>7. CASE HandshakeStep(s)
  <2>1. PICK c \in HandshakePcs : pc' = [pc EXCEPT ![s] = c]
    BY <1>0, <1>7, HandshakeMoves
  <2>2. UNCHANGED sessionVars /\ pc[s] \in HandshakePcs
    BY <1>0, <1>7, HandshakeMoves
  <2> QED BY <1>0, <2>1, <2>2
<1>8. CASE Authenticated(s)
  BY <1>0, <1>8 DEF Authenticated
<1>9. CASE \E reason, n : Close(s, reason, n)
  <2>1. CASE pc' = [pc EXCEPT ![s] = "stop_notify"] /\ UNCHANGED statusVars
    BY <1>0, <2>1
  <2>2. CASE \E reason, n : Continue(s, reason, n)
    BY <1>0, <2>2, ShownContinue
  <2> QED BY <1>9, <2>1, <2>2 DEF Close
<1>10. CASE \/ AuthenticatedObsolete(s) \/ AuthenticationFails(s) \/ LoginTimesOut(s)
            \/ HandshakeFails(s) \/ ConnectionEnds(s) \/ HealthCheckFails(s)
  BY <1>9, <1>10 DEF AuthenticatedObsolete, AuthenticationFails, LoginTimesOut, HandshakeFails,
     ConnectionEnds, HealthCheckFails
<1>11. CASE LoopDisconnects(s)
  BY <1>0, <1>11, ShownContinue DEF LoopDisconnects
<1>12. CASE LoopStopsNotify(s) \/ LoopCrashes(s) \/ LoopCancelled(s)
  <2>1. CASE LoopStopsNotify(s)
    BY <1>0, <2>1 DEF LoopStopsNotify
  <2>2. CASE LoopCrashes(s) \/ LoopCancelled(s)
    BY <1>0, <2>2 DEF LoopCrashes, LoopCancelled
  <2> QED BY <1>12, <2>1, <2>2
<1>13. CASE SeenMatch(s) \/ SeenMismatch(s)
  BY <1>0, <1>13 DEF SeenMatch, SeenMismatch, Seen, RequireReauth
<1>14. CASE ReauthStep(s) \/ LinkStep(s) \/ StopRequested(s)
  <2>1. UNCHANGED <<pc, state, reauth>> /\ (stopper'[s] = "done" <=> stopper[s] = "done")
    BY <1>0, <1>14 DEF ReauthStep, ReauthCloses, ReauthStopsNotify, ReauthDisconnects,
       ReauthCrashes, LinkStep, LinkDrop, LinkSilent, StopRequested, StopAt
  <2> QED BY <1>0, <2>1
<1>15. CASE StopStep(s)
  <2>1. UNCHANGED <<pc, reauth>>
    BY <1>15 DEF StopStep, StopCloses, StopFails, StopStopsNotify, StopDisconnects, StopCrashes
  <2>2. pc[s] \in Ended
    BY <1>15 DEF StopStep, StopCloses, StopFails, StopStopsNotify, StopDisconnects, StopCrashes,
       IInv, StopInv, Ended
  <2>3. state'[s] \in {state[s], "stopped"}
    BY <1>0, <1>15 DEF StopStep, StopCloses, StopFails, StopStopsNotify, StopDisconnects,
       StopCrashes
  <2> QED BY <1>0, <2>1, <2>2, <2>3 DEF Ended
<1> QED BY <1>1, <1>2, <1>3, <1>4, <1>5, <1>6, <1>7, <1>8, <1>10, <1>11, <1>12, <1>13, <1>14,
           <1>15 DEF SessionStep, LoopStep

(***************************************************************************)
(* The mapping.                                                            *)
(***************************************************************************)
LEMMA ShownAsNames ==
    /\ ShownAs["stopped"] = "idle"
    /\ ShownAs["connecting"] = "offline" /\ ShownAs["backoff"] = "offline"
    /\ ShownAs["authenticating"] = "authenticating"
    /\ ShownAs["ready"] = "ready"
    /\ ShownAs["reauth_required"] = "reauth"
  BY DEF ShownAs

shownNow == [s \in Session |-> Shown(s)]

\* A step of one session maps to a change of what that session shows, or to none.
LEMMA OneShows ==
    ASSUME IInv, NEW s \in Session, SessionStep(s)
    PROVE  /\ Promise!Become(s, Shown(s)')
           /\ Shown(s)' = Shown(s) => shownNow' = shownNow
<1>1. \A t \in Session : t # s => Shown(t)' = Shown(t)
  BY Others DEF IInv, TypeInv, Untouched, Shown
<1>2. shownNow' = [shownNow EXCEPT ![s] = Shown(s)']
  BY <1>1 DEF shownNow
<1>3. Shown(s)' = Shown(s) => shownNow' = shownNow
  BY <1>1 DEF shownNow
<1> QED BY <1>2, <1>3 DEF Promise!Become, shownNow

Stays(s) == Shown(s)' = Shown(s) /\ holder' = holder

Takes(s) ==
    /\ holder = NoOne /\ holder' = s
    /\ Shown(s) \in {"idle", "offline"} /\ Shown(s)' = "authenticating"

Succeeds(s) ==
    /\ holder = s /\ holder' = NoOne
    /\ Shown(s) = "authenticating" /\ Shown(s)' = "ready"

GivesUp(s) ==
    /\ holder = s /\ holder' = NoOne
    /\ \/ Shown(s)' = Shown(s)
       \/ Shown(s) = "authenticating" /\ Shown(s)' \in {"offline", "reauth"}

GoesOffline(s) ==
    /\ holder # s /\ holder' = holder
    /\ Shown(s) \in Promise!Running /\ Shown(s)' = "offline"

Requires(s) ==
    /\ holder' = holder
    /\ Shown(s) \in Promise!Running /\ Shown(s)' = "reauth"

Stops(s) ==
    /\ holder # s /\ holder' = holder
    /\ Shown(s) # "stopped" /\ Shown(s)' = "stopped"

Maps(s) == \/ Stays(s) \/ Takes(s) \/ Succeeds(s) \/ GivesUp(s)
           \/ GoesOffline(s) \/ Requires(s) \/ Stops(s)

\* These are the steps of the promise.
LEMMA MapsToPromise ==
    ASSUME IInv, NEW s \in Session, SessionStep(s), Maps(s)
    PROVE  [Promise!Next]_(Promise!vars)
<1>0. /\ Promise!Become(s, Shown(s)')
      /\ Shown(s)' = Shown(s) => shownNow' = shownNow
  BY OneShows
<1>1. CASE Stays(s)
  BY <1>0, <1>1 DEF Stays, Promise!vars, shownNow
<1>2. CASE Takes(s)
  BY <1>0, <1>2 DEF Takes, Promise!Next, Promise!TakeTurn
<1>3. CASE Succeeds(s)
  BY <1>0, <1>3 DEF Succeeds, Promise!Next, Promise!Succeed
<1>4. CASE GivesUp(s)
  BY <1>0, <1>4 DEF GivesUp, Promise!Next, Promise!GiveUp, shownNow
<1>5. CASE GoesOffline(s)
  BY <1>0, <1>5 DEF GoesOffline, Promise!Next, Promise!GoOffline
<1>6. CASE Requires(s)
  BY <1>0, <1>6 DEF Requires, Promise!Next, Promise!RequireReauth
<1>7. CASE Stops(s)
  BY <1>0, <1>7 DEF Stops, Promise!Next, Promise!Stop
<1> QED BY <1>1, <1>2, <1>3, <1>4, <1>5, <1>6, <1>7 DEF Maps

\* What a loop shows after a close: the same, or offline, or reauth, and the
\* latter two only if no reauthentication was required before.
LEMMA ContinueShows ==
    ASSUME TypeOK, NEW s \in Session, ~Stopping(s), UNCHANGED stopper, NEW reason, NEW n,
           Continue(s, reason, n) \/ Close(s, reason, n)
    PROVE  Shown(s)' = Shown(s) \/ (~reauth[s] /\ Shown(s)' \in {"offline", "reauth"})
<1> USE ShownAsNames DEF TypeOK, Shown, Stopping, statusVars
<1>1. CASE UNCHANGED statusVars
  BY <1>1
<1>2. CASE ~reauth[s] /\ (RequireReauth(s) \/ Show(s, "backoff", FALSE))
  BY <1>2 DEF RequireReauth, Show
<1> QED BY <1>1, <1>2 DEF Continue, Close

\* A session that is neither stopped nor to be reauthenticated shows what the
\* promise calls running.
LEMMA RunningShown ==
    ASSUME TypeOK, ShownInv, NEW s \in Session, stopper[s] # "done", ~reauth[s]
    PROVE  Shown(s) \in Promise!Running
  BY ShownAsNames DEF TypeOK, SessionState, ShownInv, ShownInvOf, Shown, Promise!Running

\* Every step of a session is one of those seven.
LEMMA StepMaps ==
    ASSUME IInv, ShownInv, NEW s \in Session, SessionStep(s)
    PROVE  Maps(s)
<1>0. TypeInv /\ TypeOK /\ LockInv /\ StopInv /\ ShownInvOf(s)
  BY DEF IInv, TypeInv, ShownInv
<1>1. stopper[s] # "done" /\ ~reauth[s] => Shown(s) \in Promise!Running
  BY <1>0, RunningShown
<1> USE HandshakeNames, ShownAsNames DEF Maps, Shown, Goto, Show, Stopping, StopAt, TypeOK,
        sessionVars, statusVars, lockVars
<1>2. CASE Start(s) \/ LeaveLoop(s) \/ HandshakeStep(s) \/ LoopStopsNotify(s) \/ LoopCrashes(s)
  <2>1. UNCHANGED <<state, stopper, holder>>
    BY <1>2 DEF Start, LeaveLoop, HandshakeStep, LoopStopsNotify, LoopCrashes
  <2> QED BY <2>1 DEF Stays
<1>3. CASE NoDevice(s) \/ ConnectLater(s)
  <2>1. pc[s] \in {"new", "backoff"} /\ ~reauth[s] /\ stopper[s] = "none"
    BY <1>3 DEF NoDevice, ConnectLater, Attempt, AtLoopHead
  <2>2. holder # s /\ holder' = holder
    BY <1>0, <1>3, <2>1 DEF LockInv, NoDevice, ConnectLater
  <2>3. Shown(s)' = "offline"
    BY <1>0, <1>3, <2>1 DEF NoDevice, ConnectLater, Attempt
  <2> QED BY <1>1, <2>1, <2>2, <2>3 DEF GoesOffline
<1>4. CASE ConnectAtOnce(s) \/ LockGranted(s)
  <2>1. pc[s] \in Waiting /\ ~reauth[s] /\ stopper[s] = "none" /\ holder = NoOne
    BY <1>4 DEF ConnectAtOnce, LockGranted, Attempt, AtLoopHead, IsWoken, LockIsFree, Waiting
  <2>2. Shown(s) \in {"idle", "offline"}
    BY <1>0, <2>1 DEF ShownInvOf
  <2>3. Shown(s)' = "authenticating" /\ holder' = s
    BY <1>0, <1>4, <2>1 DEF ConnectAtOnce, LockGranted, Attempt, EnterLock
  <2> QED BY <2>1, <2>2, <2>3 DEF Takes
<1>5. CASE LockObsolete(s)
  BY <1>5 DEF LockObsolete, Stays
<1>6. CASE Authenticated(s)
  <2>1. pc[s] \in HandshakePcs /\ ~reauth[s] /\ stopper[s] = "none"
    BY <1>6 DEF Authenticated, InHandshake
  <2>2. holder = s /\ holder' = NoOne
    BY <1>0, <1>6, <2>1 DEF LockInv, Authenticated, Release
  <2>3. Shown(s) = "authenticating" /\ Shown(s)' = "ready"
    BY <1>0, <1>6, <2>1 DEF ShownInvOf, Authenticated
  <2> QED BY <2>2, <2>3 DEF Succeeds
<1>7. CASE \/ AuthenticatedObsolete(s) \/ AuthenticationFails(s) \/ LoginTimesOut(s)
           \/ HandshakeFails(s)
  <2>1. /\ pc[s] \in HandshakePcs /\ stopper[s] = "none" /\ Release(s)
        /\ \E reason, n : Close(s, reason, n)
    BY <1>7 DEF AuthenticatedObsolete, AuthenticationFails, LoginTimesOut, HandshakeFails, InHandshake
  <2>2. holder = s /\ holder' = NoOne
    BY <1>0, <2>1 DEF LockInv, Release
  <2>3. UNCHANGED stopper
    BY <2>1 DEF Close
  <2>4. Shown(s)' = Shown(s) \/ (~reauth[s] /\ Shown(s)' \in {"offline", "reauth"})
    BY <1>0, <2>1, <2>3, ContinueShows DEF Stopping
  <2>5. ~reauth[s] => Shown(s) = "authenticating"
    BY <1>0, <2>1 DEF ShownInvOf
  <2> QED BY <2>2, <2>4, <2>5 DEF GivesUp
<1>8. CASE ConnectionEnds(s) \/ HealthCheckFails(s) \/ LoopDisconnects(s)
  <2>1. /\ pc[s] \notin HandshakePcs /\ stopper[s] = "none" /\ holder' = holder
        /\ \E reason, n : Close(s, reason, n) \/ Continue(s, reason, n)
        /\ UNCHANGED stopper
    BY <1>8 DEF ConnectionEnds, HealthCheckFails, LoopDisconnects, Close
  <2>2. holder # s
    BY <1>0, <2>1 DEF LockInv
  <2>3. Shown(s)' = Shown(s) \/ (~reauth[s] /\ Shown(s)' \in {"offline", "reauth"})
    BY <1>0, <2>1, ContinueShows DEF Stopping
  <2> QED BY <1>1, <2>1, <2>2, <2>3 DEF Stays, GoesOffline, Requires
<1>9. CASE LoopCancelled(s)
  <2>1. UNCHANGED <<state, stopper>> /\ Release(s)
    BY <1>9 DEF LoopCancelled
  <2> QED BY <2>1 DEF Release, Stays, GivesUp
<1>10. CASE SeenMatch(s) \/ SeenMismatch(s)
  <2>1. UNCHANGED <<stopper, holder>> /\ stopper[s] = "none"
    BY <1>10 DEF SeenMatch, SeenMismatch, Seen
  <2>2. state' = state \/ (RequireReauth(s) /\ ~reauth[s])
    BY <1>10 DEF SeenMatch, SeenMismatch
  <2>3. CASE state' = state
    BY <2>1, <2>3 DEF Stays
  <2>4. CASE RequireReauth(s) /\ ~reauth[s]
    <3>1. Shown(s)' = "reauth"
      BY <1>0, <2>1, <2>4 DEF RequireReauth
    <3> QED BY <1>1, <2>1, <2>4, <3>1 DEF Requires
  <2> QED BY <2>2, <2>3, <2>4
<1>11. CASE ReauthStep(s) \/ LinkStep(s)
  <2>1. UNCHANGED <<state, stopper, holder>>
    BY <1>11 DEF ReauthStep, ReauthCloses, ReauthStopsNotify, ReauthDisconnects, ReauthCrashes,
       LinkStep, LinkDrop, LinkSilent
  <2> QED BY <2>1 DEF Stays
<1>12. CASE StopRequested(s) \/ StopFails(s) \/ StopStopsNotify(s) \/ StopCrashes(s)
  <2>1. UNCHANGED <<state, holder>> /\ stopper[s] # "done" /\ stopper'[s] # "done"
    BY <1>0, <1>12 DEF StopRequested, StopFails, StopStopsNotify, StopCrashes
  <2> QED BY <2>1 DEF Stays
<1>13. CASE StopCloses(s) \/ StopDisconnects(s)
  <2>1. stopper[s] # "done" /\ pc[s] \in {"done", "cancelled"} /\ holder' = holder
    BY <1>0, <1>13 DEF StopCloses, StopDisconnects, StopInv
  <2>2. holder # s
    BY <1>0, <2>1 DEF LockInv
  <2>3. Shown(s) # "stopped"
    BY ZenonT(60), <1>0, <2>1 DEF SessionState
  <2>4. stopper'[s] = "done" \/ (stopper'[s] = "stop_notify" /\ state' = state)
    BY <1>0, <1>13 DEF StopCloses, StopDisconnects
  <2> QED BY <2>1, <2>2, <2>3, <2>4 DEF Stays, Stops
<1> QED BY <1>2, <1>3, <1>4, <1>5, <1>6, <1>7, <1>8, <1>9, <1>10, <1>11, <1>12, <1>13
        DEF SessionStep, LoopStep, StopStep

\* What each session shows fits where its loop is.
LEMMA ShownInvariance == Spec => [](IInv /\ ShownInv)
<1>1. Init => IInv /\ ShownInv
  BY IInvInit DEF Init, ShownInv, ShownInvOf, HandshakePcs, AfterHandshakeStep
<1>2. ASSUME IInv, ShownInv, [Next]_vars PROVE IInv' /\ ShownInv'
  <2>1. IInv'
    BY <1>2, IInvStep
  <2>2. CASE UNCHANGED vars
    BY <1>2, <2>1, <2>2 DEF vars, sessionVars, statusVars, ShownInv, ShownInvOf
  <2>3. ASSUME NEW s \in Session, SessionStep(s) PROVE ShownInv'
    BY <1>2, <2>3, ShownPreserved
  <2> QED BY <1>2, <2>1, <2>2, <2>3 DEF Next, SessionStep
<1> QED BY <1>1, <1>2, PTL DEF Spec

\* The sessions keep the promise of the design's state diagram: READY only out
\* of a turn, one turn at a time, nothing after STOPPED, and after
\* REAUTH_REQUIRED only STOPPED.
THEOREM PromiseIsKept == Spec => ImplementsPromise
<1>1. Init => Promise!Init
  BY ShownAsNames DEF Init, Promise!Init, Shown
<1>2. ASSUME IInv, ShownInv, [Next]_vars
      PROVE  [Promise!Next]_(Promise!vars)
  <2>1. CASE UNCHANGED vars
    BY <2>1 DEF vars, sessionVars, statusVars, lockVars, Promise!vars, Shown
  <2>2. ASSUME NEW s \in Session, SessionStep(s)
        PROVE  [Promise!Next]_(Promise!vars)
    BY <1>2, <2>2, StepMaps, MapsToPromise
  <2> QED BY <1>2, <2>1, <2>2 DEF Next, SessionStep
<1> QED BY <1>1, <1>2, ShownInvariance, PTL DEF Spec, ImplementsPromise, Promise!Spec

\* What that promise is worth: a session that was unloaded never comes back,
\* and one that requires a reauthentication is only ever unloaded.
THEOREM EndsAreFinal == Spec => Promise!Final
<1>1. ASSUME [Promise!Next]_(Promise!vars), NEW s \in Session
      PROVE  /\ Shown(s) = "stopped" => Shown(s)' = "stopped"
             /\ Shown(s) = "reauth" => Shown(s)' \in {"reauth", "stopped"}
  <2>1. CASE UNCHANGED Promise!vars
    <3>1. shownNow' = shownNow
      BY <2>1 DEF Promise!vars, shownNow
    <3> QED BY <3>1 DEF shownNow
  <2>2. ASSUME NEW t \in Session,
               \/ Promise!TakeTurn(t) \/ Promise!Succeed(t) \/ Promise!GiveUp(t)
               \/ Promise!GoOffline(t) \/ Promise!RequireReauth(t) \/ Promise!Stop(t)
        PROVE  \/ shownNow' = shownNow
               \/ \E what : /\ shownNow' = [shownNow EXCEPT ![t] = what]
                            /\ shownNow[t] # "stopped"
                            /\ shownNow[t] = "reauth" => what = "stopped"
    BY <2>2 DEF Promise!TakeTurn, Promise!Succeed, Promise!GiveUp, Promise!GoOffline,
       Promise!RequireReauth, Promise!Stop, Promise!Become, Promise!Running, shownNow
  <2>3. shownNow[s] = Shown(s) /\ shownNow'[s] = Shown(s)'
    BY DEF shownNow
  <2> QED BY <1>1, <2>1, <2>2, <2>3 DEF Promise!Next, shownNow
<1>2. ASSUME [Promise!Next]_(Promise!vars)
      PROVE  [\A s \in Session :
                 /\ shownNow[s] = "stopped" => shownNow'[s] = "stopped"
                 /\ shownNow[s] = "reauth" => shownNow'[s] \in {"reauth", "stopped"}]_(Promise!vars)
  BY <1>1, <1>2 DEF shownNow
<1> QED BY <1>2, PromiseIsKept, PTL DEF ImplementsPromise, Promise!Spec, Promise!Final, shownNow
=============================================================================

-------------------------- MODULE PairLinkSession --------------------------
(***************************************************************************)
(* PairLinkSession of custom_components/pairlink/session.py: the background *)
(* sessions of one Home Assistant instance, one per configured switch,      *)
(* which share one asyncio.Lock (hass.data, __init__.py).                   *)
(*                                                                          *)
(* Everything runs in one event loop, so an action is what runs between two *)
(* awaits.  A session has three coroutines that interleave: its connection  *)
(* loop (pc), the task that closes the connection for a reauthentication    *)
(* (rtask), and async_stop, called when the entry is unloaded (stopper).    *)
(* The Bluetooth advertisement callback runs between any two of them.       *)
(***************************************************************************)
EXTENDS PairLinkConnection, Naturals, Sequences, SequencesExt

CONSTANTS
    Session,           \* the configured switches
    NoOne,             \* the holder of a free lock
    MaxLoginTimeouts,  \* MAX_LOGIN_TIMEOUTS_BEFORE_REAUTH
    MaxMismatches,     \* advertisements of another home before a reauth
    BackoffSteps,      \* len(RECONNECT_BACKOFF)
    Faults             \* what may go wrong besides a failing GATT call

ASSUME SessionAssumption == Session \subseteq Party /\ NoOne \notin Party
ASSUME LimitAssumption ==
    /\ MaxLoginTimeouts \in Nat \ {0}
    /\ MaxMismatches \in Nat \ {0}
    /\ BackoffSteps \in Nat \ {0}
\* "drop": a link is lost and Bleak says so; "silence": a link dies without
\* notice; "close": stop_notify or disconnect raises an error that is not
\* one of BLEAK_RETRY_EXCEPTIONS.
ASSUME FaultAssumption == Faults \subseteq {"drop", "silence", "close"}

VARIABLES
    state,       \* diagnostics.state, what the entities show
    connected,   \* diagnostics.connected
    held,        \* _connection is not None
    reauth,      \* _reauth_started
    rtask,       \* await of _reauth_close_task
    stopper,     \* await of async_stop; not "none" means _stopping
    mismatches,  \* _home_id_mismatch_count
    timeouts,    \* _consecutive_login_timeouts
    index,       \* backoff_index of the connection loop
    why,         \* the except clause that awaits async_close, or "none"
    holder,      \* who is inside `async with self._connection_lock`
    waiters      \* FIFO queue of the lock

statusVars == <<state, connected, reauth>>
countVars == <<mismatches, timeouts, index>>
lockVars == <<holder, waiters>>
sessionVars == <<statusVars, held, rtask, stopper, countVars, why, lockVars>>
vars == <<pc, connectionVars, sessionVars>>

-----------------------------------------------------------------------------
\* RESOLVING is never shown across an await, so no state has it.
SessionState == {"stopped", "connecting", "authenticating", "ready",
                 "backoff", "reauth_required"}

Ended == {"done", "cancelled", "crashed"}

LoopPcs == {"idle", "new", "lock", "ready", "stop_notify", "disconnect",
            "backoff"} \cup HandshakePcs \cup Ended

CloseReasons == {"auth", "timeout", "failure", "break"}

\* The type invariant; its bounds say that RECONNECT_BACKOFF is never
\* indexed out of range and that the login timeouts stop at their limit.  The
\* bound of the mismatches is the model's own (OneMore).
TypeOK ==
    /\ ConnectionTypeOK
    /\ DOMAIN pc = Party
    /\ \A s \in Session : pc[s] \in LoopPcs
    /\ state \in [Session -> SessionState]
    /\ connected \in [Session -> BOOLEAN]
    /\ held \in [Session -> BOOLEAN]
    /\ reauth \in [Session -> BOOLEAN]
    /\ rtask \in [Session -> {"none", "new", "stop_notify", "disconnect",
                              "done", "crashed"}]
    /\ stopper \in [Session -> {"none", "await", "stop_notify", "disconnect",
                                "done", "failed"}]
    /\ mismatches \in [Session -> 0..MaxMismatches]
    /\ timeouts \in [Session -> 0..MaxLoginTimeouts]
    /\ index \in [Session -> 0..(BackoffSteps - 1)]
    /\ why \in [Session -> CloseReasons \cup {"none"}]
    /\ holder \in Session \cup {NoOne}
    /\ waiters \in Seq(Session)

Init ==
    /\ ConnectionInit
    /\ pc = [p \in Party |-> "idle"]
    /\ state = [s \in Session |-> "stopped"]
    /\ connected = [s \in Session |-> FALSE]
    /\ held = [s \in Session |-> FALSE]
    /\ reauth = [s \in Session |-> FALSE]
    /\ rtask = [s \in Session |-> "none"]
    /\ stopper = [s \in Session |-> "none"]
    /\ mismatches = [s \in Session |-> 0]
    /\ timeouts = [s \in Session |-> 0]
    /\ index = [s \in Session |-> 0]
    /\ why = [s \in Session |-> "none"]
    /\ holder = NoOne
    /\ waiters = <<>>

-----------------------------------------------------------------------------
(***************************************************************************)
(* Helpers.                                                                *)
(***************************************************************************)
\* async_stop has set _stopping and cancelled the loop: the next time the
\* loop is resumed it gets CancelledError.
Stopping(s) == stopper[s] # "none"

Goto(s, step) == pc' = [pc EXCEPT ![s] = step]

\* _set_state
Show(s, shown, isConnected) ==
    /\ state' = [state EXCEPT ![s] = shown]
    /\ connected' = [connected EXCEPT ![s] = isConnected]

\* Mutant: the connection is forgotten before it is closed.
ForgetWithoutClosing(s) ==
    held' = [held EXCEPT ![s] = FALSE] /\ UNCHANGED connectionVars

\* _async_close_connection up to its first await: forget the connection, and
\* detach its client if there was a connection to forget.
Forget(s) ==
    /\ held' = [held EXCEPT ![s] = FALSE]
    /\ IF held[s] THEN Detach(s) ELSE UNCHANGED connectionVars

\* Mutant: the lock does not look at its holder.
LockIsFreeDespiteHolder == waiters = <<>>

\* asyncio.Lock grants at once only when nobody holds it or waits for it.
LockIsFree == holder = NoOne /\ waiters = <<>>

\* Mutant: acquire() without `async with`.
ReleaseNothing(s) == UNCHANGED holder

Release(s) == holder' = IF holder = s THEN NoOne ELSE holder

\* Mutant: without the min.
NextIndexUnbounded(i) == i + 1

\* min(backoff_index + 1, len(RECONNECT_BACKOFF) - 1)
NextIndex(i) == IF i + 1 < BackoffSteps THEN i + 1 ELSE BackoffSteps - 1

\* The failure means that the credentials are refused.
Refused(reason, n) ==
    \/ reason = "auth"
    \/ reason = "timeout" /\ n >= MaxLoginTimeouts

\* _start_reauth, once its guard holds, without the closing task.
RequireReauth(s) ==
    /\ reauth' = [reauth EXCEPT ![s] = TRUE]
    /\ Show(s, "reauth_required", FALSE)

-----------------------------------------------------------------------------
(***************************************************************************)
(* The connection loop.  It resumes only while it is not being cancelled.  *)
(***************************************************************************)
\* Mutants: the handlers do not look at _reauth_started, do not set the state,
\* or leave the loop.
ContinueAlways(s, reason, n) ==
    Show(s, "backoff", FALSE) /\ Goto(s, "backoff") /\ UNCHANGED reauth
ContinueSilently(s, reason, n) == Goto(s, "backoff") /\ UNCHANGED statusVars
ContinueNowhere(s, reason, n) ==
    Show(s, "backoff", FALSE) /\ Goto(s, "done") /\ UNCHANGED reauth

\* After async_close: leave the loop, require a reauthentication and leave,
\* or back off.
Continue(s, reason, n) ==
    \/ /\ reauth[s]
       /\ Goto(s, "done")
       /\ UNCHANGED statusVars
    \/ /\ ~reauth[s]
       /\ Refused(reason, n)
       /\ RequireReauth(s)
       /\ Goto(s, "done")
    \/ /\ ~reauth[s]
       /\ ~Refused(reason, n)
       /\ Show(s, "backoff", FALSE)
       /\ Goto(s, "backoff")
       /\ UNCHANGED reauth

\* `await self._async_close_connection()` in the loop: it suspends only when
\* there is a connected client to release.
Close(s, reason, n) ==
    /\ timeouts' = [timeouts EXCEPT ![s] = n]
    /\ Forget(s)
    /\ \/ /\ held[s] /\ NeedsRelease(s)
          /\ why' = [why EXCEPT ![s] = reason]
          /\ Goto(s, "stop_notify")
          /\ UNCHANGED statusVars
       \/ /\ ~(held[s] /\ NeedsRelease(s))
          /\ Continue(s, reason, n)
          /\ UNCHANGED why
    /\ UNCHANGED <<rtask, stopper, mismatches, index>>

Start(s) ==
    /\ pc[s] = "idle"
    /\ stopper[s] = "none"
    /\ Goto(s, "new")
    /\ UNCHANGED <<connectionVars, sessionVars>>

\* The head of the loop, entered first or after a backoff that the timer or
\* an advertisement ended.
AtLoopHead(s) == pc[s] \in {"new", "backoff"} /\ ~Stopping(s)

AdvanceBackoff(s) ==
    index' = [index EXCEPT ![s] = IF pc[s] = "backoff" THEN NextIndex(@) ELSE @]

\* Mutant: a reauthentication does not end the backoff.
LeaveLoopUnlessAsleep(s) ==
    /\ AtLoopHead(s) /\ reauth[s] /\ pc[s] = "new"
    /\ Goto(s, "done")
    /\ UNCHANGED <<connectionVars, sessionVars>>

LeaveLoop(s) ==
    /\ AtLoopHead(s) /\ reauth[s]
    /\ Goto(s, "done")
    /\ UNCHANGED <<connectionVars, sessionVars>>

\* Home Assistant knows no connectable path to the switch.
NoDevice(s) ==
    /\ AtLoopHead(s) /\ ~reauth[s]
    /\ Show(s, "backoff", FALSE)
    /\ Goto(s, "backoff")
    /\ AdvanceBackoff(s)
    /\ UNCHANGED <<connectionVars, reauth, held, rtask, stopper, mismatches,
                   timeouts, why, lockVars>>

Attempt(s) ==
    /\ AtLoopHead(s) /\ ~reauth[s]
    /\ NewConnection(s)
    /\ held' = [held EXCEPT ![s] = TRUE]
    /\ AdvanceBackoff(s)
    /\ UNCHANGED <<reauth, rtask, stopper, mismatches, timeouts, why>>

\* Mutant: READY as soon as it is the session's turn.
EnterLockReady(s) ==
    holder' = s /\ Show(s, "ready", TRUE) /\ Goto(s, "establish")

EnterLock(s) ==
    /\ holder' = s
    /\ Show(s, "authenticating", TRUE)
    /\ Goto(s, "establish")

ConnectAtOnce(s) ==
    /\ Attempt(s)
    /\ LockIsFree
    /\ EnterLock(s)
    /\ UNCHANGED waiters

ConnectLater(s) ==
    /\ Attempt(s)
    /\ ~LockIsFree
    /\ waiters' = Append(waiters, s)
    /\ Show(s, "connecting", FALSE)
    /\ Goto(s, "lock")
    /\ UNCHANGED holder

\* The lock wakes its waiters in order.
IsWoken(s) ==
    /\ pc[s] = "lock" /\ ~Stopping(s)
    /\ holder = NoOne
    /\ waiters # <<>> /\ Head(waiters) = s

LockGranted(s) ==
    /\ IsWoken(s) /\ ~reauth[s]
    /\ waiters' = Tail(waiters)
    /\ EnterLock(s)
    /\ UNCHANGED <<connectionVars, reauth, held, rtask, stopper, countVars, why>>

\* A reauthentication started meanwhile: close the connection, which has no
\* client yet, and break.
LockObsolete(s) ==
    /\ IsWoken(s) /\ reauth[s]
    /\ waiters' = Tail(waiters)
    /\ Forget(s)
    /\ Goto(s, "done")
    /\ UNCHANGED <<statusVars, rtask, stopper, countVars, why, holder>>

InHandshake(s) == pc[s] \in HandshakePcs /\ ~Stopping(s)

HandshakeStep(s) ==
    /\ InHandshake(s)
    /\ Established(s) \/ Proceed(s)
    /\ UNCHANGED sessionVars

Authenticated(s) ==
    /\ InHandshake(s) /\ HandshakeCompletes(s) /\ ~reauth[s]
    /\ Release(s)
    /\ timeouts' = [timeouts EXCEPT ![s] = 0]
    /\ index' = [index EXCEPT ![s] = 0]
    /\ Show(s, "ready", TRUE)
    /\ Goto(s, "ready")
    /\ UNCHANGED <<connectionVars, reauth, held, rtask, stopper, mismatches,
                   why, waiters>>

AuthenticatedObsolete(s) ==
    /\ InHandshake(s) /\ HandshakeCompletes(s) /\ reauth[s]
    /\ Release(s)
    /\ Close(s, "break", timeouts[s])
    /\ UNCHANGED waiters

AuthenticationFails(s) ==
    /\ InHandshake(s) /\ "auth" \in Raises(s)
    /\ Release(s)
    /\ Close(s, "auth", timeouts[s])
    /\ UNCHANGED waiters

LoginTimesOut(s) ==
    /\ InHandshake(s) /\ "timeout" \in Raises(s)
    /\ Release(s)
    /\ Close(s, "timeout", timeouts[s] + 1)
    /\ UNCHANGED waiters

\* Mutant: a failure of another kind resets the count of login timeouts.
HandshakeFailsForgiving(s) ==
    /\ InHandshake(s)
    /\ Raises(s) \cap {"disconnected", "bleak", "other"} # {}
    /\ Release(s)
    /\ Close(s, "failure", 0)
    /\ UNCHANGED waiters

\* PairLinkDisconnectedError, BLEAK_RETRY_EXCEPTIONS and every other
\* exception are handled alike.
HandshakeFails(s) ==
    /\ InHandshake(s)
    /\ Raises(s) \cap {"disconnected", "bleak", "other"} # {}
    /\ Release(s)
    /\ Close(s, "failure", timeouts[s])
    /\ UNCHANGED waiters

\* The notification loop or the health loop sees that the connection ended.
ConnectionEnds(s) ==
    /\ pc[s] = "ready" /\ ~Stopping(s)
    /\ ~IsConnected(s)
    /\ Close(s, "failure", timeouts[s])
    /\ UNCHANGED lockVars

\* Mutant: the health check asks Bleak instead of the switch.
HealthCheckAsksBleak(s) ==
    /\ pc[s] = "ready" /\ ~Stopping(s) /\ ~IsConnected(s)
    /\ Close(s, "failure", timeouts[s])
    /\ UNCHANGED lockVars

HealthCheckFails(s) ==
    /\ pc[s] = "ready" /\ ~Stopping(s)
    /\ Close(s, "failure", timeouts[s])
    /\ UNCHANGED lockVars

\* The loop's async_close: stop_notify returns or raises an error of Bleak,
\* then disconnect does.
LoopStopsNotify(s) ==
    /\ pc[s] = "stop_notify" /\ ~Stopping(s)
    /\ Goto(s, "disconnect")
    /\ UNCHANGED <<connectionVars, sessionVars>>

LoopDisconnects(s) ==
    /\ pc[s] = "disconnect" /\ ~Stopping(s)
    /\ Disconnect(s)
    /\ Continue(s, why[s], timeouts[s])
    /\ why' = [why EXCEPT ![s] = "none"]
    /\ UNCHANGED <<held, rtask, stopper, countVars, lockVars>>

\* An error that is not one of BLEAK_RETRY_EXCEPTIONS leaves async_close, and
\* with it the except clause: the task ends with an exception.
LoopCrashes(s) ==
    /\ "close" \in Faults
    /\ pc[s] \in {"stop_notify", "disconnect"} /\ ~Stopping(s)
    /\ IF pc[s] = "disconnect" THEN Disconnect(s) ELSE UNCHANGED connectionVars
    /\ Goto(s, "crashed")
    /\ why' = [why EXCEPT ![s] = "none"]
    /\ UNCHANGED <<statusVars, held, rtask, stopper, countVars, lockVars>>

\* Mutant: the notification loop swallows CancelledError.
CancellableUnlessReady(s) == pc[s] \notin Ended \cup {"idle", "ready"}

Cancellable(s) == pc[s] \notin Ended \cup {"idle"}

\* CancelledError reaches the end of the task; it leaves the lock, or the
\* queue of the lock, on its way.
LoopCancelled(s) ==
    /\ stopper[s] = "await" /\ Cancellable(s)
    /\ IF pc[s] = "disconnect" THEN Disconnect(s) ELSE UNCHANGED connectionVars
    /\ Release(s)
    /\ IF pc[s] = "lock"
       THEN \E i \in DOMAIN waiters :
                waiters[i] = s /\ waiters' = RemoveAt(waiters, i)
       ELSE UNCHANGED waiters
    /\ Goto(s, "cancelled")
    /\ why' = [why EXCEPT ![s] = "none"]
    /\ UNCHANGED <<statusVars, held, rtask, stopper, countVars>>

-----------------------------------------------------------------------------
(***************************************************************************)
(* _async_seen: an advertisement of the switch, of the stored home or of   *)
(* another one.  The code goes on counting mismatches; the model stops at  *)
(* the limit, above which no count differs in its effect.                  *)
(* An eagerly started closing task is the case where "new" ends at once.   *)
(***************************************************************************)
Seen(s) ==
    /\ pc[s] # "idle" /\ ~Stopping(s)
    /\ UNCHANGED <<pc, connectionVars, held, stopper, timeouts, index, why, lockVars>>

OneMore(n) == IF n + 1 < MaxMismatches THEN n + 1 ELSE MaxMismatches

SeenMatch(s) ==
    /\ Seen(s)
    /\ mismatches' = [mismatches EXCEPT ![s] = 0]
    /\ UNCHANGED <<statusVars, rtask>>

SeenMismatch(s) ==
    /\ Seen(s)
    /\ mismatches' = [mismatches EXCEPT ![s] = OneMore(@)]
    /\ IF mismatches[s] + 1 >= MaxMismatches /\ ~reauth[s]
       THEN /\ RequireReauth(s)
            /\ rtask' = IF held[s] THEN [rtask EXCEPT ![s] = "new"] ELSE rtask
       ELSE UNCHANGED <<statusVars, rtask>>

-----------------------------------------------------------------------------
(***************************************************************************)
(* _async_close_for_reauth.                                                *)
(***************************************************************************)
ReauthCloses(s) ==
    /\ rtask[s] = "new"
    /\ Forget(s)
    /\ rtask' = [rtask EXCEPT ![s] =
                    IF held[s] /\ NeedsRelease(s) THEN "stop_notify" ELSE "done"]
    /\ UNCHANGED <<pc, statusVars, stopper, countVars, why, lockVars>>

ReauthStopsNotify(s) ==
    /\ rtask[s] = "stop_notify"
    /\ rtask' = [rtask EXCEPT ![s] = "disconnect"]
    /\ UNCHANGED <<pc, connectionVars, statusVars, held, stopper, countVars,
                   why, lockVars>>

ReauthDisconnects(s) ==
    /\ rtask[s] = "disconnect"
    /\ Disconnect(s)
    /\ rtask' = [rtask EXCEPT ![s] = "done"]
    /\ UNCHANGED <<pc, statusVars, held, stopper, countVars, why, lockVars>>

ReauthCrashes(s) ==
    /\ "close" \in Faults
    /\ rtask[s] \in {"stop_notify", "disconnect"}
    /\ IF rtask[s] = "disconnect" THEN Disconnect(s) ELSE UNCHANGED connectionVars
    /\ rtask' = [rtask EXCEPT ![s] = "crashed"]
    /\ UNCHANGED <<pc, statusVars, held, stopper, countVars, why, lockVars>>

ReauthStep(s) == \/ ReauthCloses(s) \/ ReauthStopsNotify(s)
                 \/ ReauthDisconnects(s) \/ ReauthCrashes(s)

-----------------------------------------------------------------------------
(***************************************************************************)
(* async_stop, called once, by the unload of the entry.                    *)
(***************************************************************************)
StopAt(s, step) == stopper' = [stopper EXCEPT ![s] = step]

StopRequested(s) ==
    /\ pc[s] # "idle"
    /\ stopper[s] = "none"
    /\ StopAt(s, "await")
    /\ UNCHANGED <<pc, connectionVars, statusVars, held, rtask, countVars, why,
                   lockVars>>

\* `await task` and `await reauth_close_task` returned; then the close of
\* what the loop left behind.
StopCloses(s) ==
    /\ stopper[s] = "await"
    /\ pc[s] \in {"done", "cancelled"} /\ rtask[s] \in {"none", "done"}
    /\ Forget(s)
    /\ IF held[s] /\ NeedsRelease(s)
       THEN StopAt(s, "stop_notify") /\ UNCHANGED <<state, connected>>
       ELSE StopAt(s, "done") /\ Show(s, "stopped", FALSE)
    /\ UNCHANGED <<pc, reauth, rtask, countVars, why, lockVars>>

\* A task that died with an exception raises it again where it is awaited.
StopFails(s) ==
    /\ stopper[s] = "await"
    /\ \/ pc[s] = "crashed"
       \/ pc[s] \in {"done", "cancelled"} /\ rtask[s] = "crashed"
    /\ StopAt(s, "failed")
    /\ UNCHANGED <<pc, connectionVars, statusVars, held, rtask, countVars, why,
                   lockVars>>

StopStopsNotify(s) ==
    /\ stopper[s] = "stop_notify"
    /\ StopAt(s, "disconnect")
    /\ UNCHANGED <<pc, connectionVars, statusVars, held, rtask, countVars, why,
                   lockVars>>

StopDisconnects(s) ==
    /\ stopper[s] = "disconnect"
    /\ Disconnect(s)
    /\ StopAt(s, "done")
    /\ Show(s, "stopped", FALSE)
    /\ UNCHANGED <<pc, reauth, held, rtask, countVars, why, lockVars>>

StopCrashes(s) ==
    /\ "close" \in Faults
    /\ stopper[s] \in {"stop_notify", "disconnect"}
    /\ IF stopper[s] = "disconnect" THEN Disconnect(s) ELSE UNCHANGED connectionVars
    /\ StopAt(s, "failed")
    /\ UNCHANGED <<pc, statusVars, held, rtask, countVars, why, lockVars>>

StopStep(s) == \/ StopCloses(s) \/ StopFails(s) \/ StopStopsNotify(s)
               \/ StopDisconnects(s) \/ StopCrashes(s)

-----------------------------------------------------------------------------
\* Steps the loop takes of itself, once its await is over.
LoopStep(s) ==
    \/ LeaveLoop(s) \/ NoDevice(s) \/ ConnectAtOnce(s) \/ ConnectLater(s)
    \/ LockGranted(s) \/ LockObsolete(s)
    \/ HandshakeStep(s) \/ Authenticated(s) \/ AuthenticatedObsolete(s)
    \/ AuthenticationFails(s) \/ LoginTimesOut(s) \/ HandshakeFails(s)
    \/ ConnectionEnds(s) \/ LoopStopsNotify(s) \/ LoopDisconnects(s)
    \/ LoopCrashes(s) \/ LoopCancelled(s)

LinkStep(s) ==
    /\ \/ "drop" \in Faults /\ LinkDrop(s)
       \/ "silence" \in Faults /\ LinkSilent(s)
    /\ UNCHANGED sessionVars

Next == \E s \in Session :
    \/ Start(s) \/ LoopStep(s) \/ HealthCheckFails(s)
    \/ SeenMatch(s) \/ SeenMismatch(s)
    \/ ReauthStep(s) \/ StopRequested(s) \/ StopStep(s)
    \/ LinkStep(s)

Spec == Init /\ [][Next]_vars

\* The event loop resumes every coroutine whose await is over, Bleak's calls
\* return or raise, and a health check of a silent link fails.
Fairness == \A s \in Session :
    /\ WF_vars(LoopStep(s))
    /\ WF_vars(HealthCheckFails(s) /\ link[s] = "silent")
    /\ WF_vars(ReauthStep(s))
    /\ WF_vars(StopStep(s))

\* The switch answers often enough: no step of a connection attempt fails
\* for ever, once the link is up.
SwitchAnswers == \A s \in Session :
    /\ SF_vars(ConnectAtOnce(s) \/ ConnectLater(s))
    /\ \A step \in HandshakePcs :
            SF_vars(/\ HandshakeStep(s)
                    /\ pc[s] = step
                    /\ step = "establish" \/ link[s] = "up")
    /\ SF_vars(Authenticated(s))

FairSpec == Spec /\ Fairness
AnsweringSpec == FairSpec /\ SwitchAnswers

-----------------------------------------------------------------------------
(***************************************************************************)
(* Safety.                                                                 *)
(***************************************************************************)
\* Handshakes of two switches never overlap: the GATT connection and LOGIN
\* sections of the sessions are serialised by the shared lock, also when a
\* session is cancelled or becomes obsolete while it queues for it.
HandshakeExclusive ==
    \A s, t \in Session :
        pc[s] \in HandshakePcs /\ pc[t] \in HandshakePcs => s = t

\* Once a reauthentication is required nothing but the unload changes what
\* the session shows, although the loop, the closing task and the
\* advertisement callback are still running.
ReauthFinal ==
    \A s \in Session : reauth[s] =>
        state[s] \in {"reauth_required", "stopped"} /\ ~connected[s]

\* A link that nobody has begun to close is always within reach of the
\* session, through _connection, so that some close can still find it.
OpenLinkReachable ==
    \A s \in Session : link[s] # "down" /\ ~closing[s] => held[s]

\* The session opens no link while an earlier one is still up: it uses at
\* most one of the switch's connection slots.
OneSlotPerSwitch ==
    \A s \in Session :
        pc[s] \in {"new", "backoff", "lock", "establish"} => link[s] = "down"

\* After async_stop nothing of the session is left: no coroutine, no lock,
\* no place in the queue of the lock, no connection object.
StoppedIsQuiet ==
    \A s \in Session : stopper[s] = "done" =>
        /\ pc[s] \in Ended
        /\ rtask[s] \notin {"new", "stop_notify", "disconnect"}
        /\ holder # s
        /\ \A i \in DOMAIN waiters : waiters[i] # s
        /\ ~held[s]
        /\ state[s] = "stopped"

\* The entities of a switch are available only while a loop serves the
\* connection, or is about to say that it is lost: "unavailable before the
\* connection is established and while it is cut".
AvailableIsServed ==
    \A s \in Session : state[s] = "ready" =>
        pc[s] \in {"ready", "stop_notify", "disconnect"} \/ Stopping(s)

(***************************************************************************)
(* Action properties.                                                      *)
(***************************************************************************)
\* Only a completed handshake forgives: the backoff delay never shrinks and
\* a login timeout is never forgotten on any other step.
OnlyReadyForgives ==
    [][\A s \in Session :
          index'[s] < index[s] \/ timeouts'[s] < timeouts[s]
              => pc[s] = "write_status" /\ state'[s] = "ready"]_vars

(***************************************************************************)
(* Liveness.                                                               *)
(***************************************************************************)
\* An unload always comes to an end, wherever the loop, the closing task and
\* the other sessions are.
UnloadCompletes ==
    \A s \in Session : Stopping(s) ~> stopper[s] \in {"done", "failed"}

\* A required reauthentication ends the background loop, whatever it was
\* waiting for.
ReauthEndsLoop == \A s \in Session : reauth[s] ~> pc[s] \in Ended

\* A session that queues for the lock leaves the queue: no other session
\* keeps the lock for ever.
LockServed == \A s \in Session : pc[s] = "lock" ~> pc[s] # "lock"

\* A link that died without notice does not stay in use.
SilentLinkNoticed ==
    \A s \in Session : pc[s] = "ready" /\ link[s] = "silent" ~> pc[s] # "ready"

\* If the switch answers often enough, a session that backed off becomes
\* ready, requires a reauthentication or is stopped.
Recovers ==
    \A s \in Session :
        pc[s] = "backoff" ~> pc[s] = "ready" \/ reauth[s] \/ Stopping(s)

(***************************************************************************)
(* What a document, a test or a comment says and the code does not do.     *)
(***************************************************************************)
\* "Reauthentication immediately releases an obsolete GATT session": when
\* loop and closing task have ended, the link is released.
ReauthReleasesLink ==
    \A s \in Session :
        reauth[s] /\ pc[s] = "done" /\ rtask[s] \in {"none", "done"}
            => link[s] = "down"

\* After an unload no BLE connection remains.
StoppedReleasesLink ==
    \A s \in Session : stopper[s] = "done" /\ ~reauth[s] => link[s] = "down"
=============================================================================

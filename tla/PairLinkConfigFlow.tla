------------------------- MODULE PairLinkConfigFlow -------------------------
(***************************************************************************)
(* PairLinkConfigFlow of custom_components/pairlink/config_flow.py: flows   *)
(* that add a switch (source user or bluetooth) or refresh its credentials  *)
(* (source reauth).  A flow captures the credentials that the switch        *)
(* advertises in registration mode, validates them with a full handshake    *)
(* over a connection of its own, and stores them in a config entry.         *)
(*                                                                          *)
(* A flow object is used once.  pc[f] is the form that the user sees or the *)
(* await of the registration task.  The credentials of a switch, its home   *)
(* ID and password, are one key; pressing the registration button makes a   *)
(* new one.                                                                 *)
(***************************************************************************)
EXTENDS PairLinkConnection, Integers, FiniteSets

CONSTANTS
    Flow,          \* flow objects
    Switch,        \* physical switches; the unique ID of an entry is its switch
    Address,       \* addresses at which a switch is heard
    LightId,       \* what generate_light_id may return
    None,          \* no target, registration, credentials or entry
    MaxRotations,  \* bound: how often the key of a switch may change
    MaxOpenFlows,  \* bound: how many flows the user has open at a time
    Attempts       \* _REGISTRATION_VALIDATION_ATTEMPTS

ASSUME FlowAssumption == Flow \subseteq Party
ASSUME AttemptsAssumption == Attempts \in Nat \ {0}
ASSUME BoundAssumption == MaxRotations \in Nat /\ MaxOpenFlows \in Nat
ASSUME NoneAssumption == None \notin (Switch \cup Address \cup LightId \cup Int)

VARIABLES
    source,        \* who started the flow
    target,        \* _target.remote_id, the unique ID of the flow
    address,       \* _target.address
    registration,  \* key in _initial_registration, or None
    credentials,   \* the key and light ID that the task validates
    attempt,       \* of the validation
    verdict,       \* how the handshake ended, while its connection is closed
    left,          \* whether a link is up that a close of this flow left up
    outcome,       \* _RegistrationOutcome
    entries,       \* config entries, by unique ID
    key,           \* the key that each switch accepts and advertises
    accepted       \* history: keys for which a switch answered LOGIN

flowVars == <<source, target, address, registration, credentials, attempt,
              verdict, left, outcome>>
worldVars == <<entries, key, accepted>>
vars == <<pc, connectionVars, flowVars, worldVars>>

Key == 0..MaxRotations
Credentials == [key : Key, light : LightId]
Entry == [key : Key, light : LightId, address : Address]
Errors == {"registration_timeout", "invalid_auth", "cannot_connect", "unknown"}
Verdicts == {"none", "ok", "auth", "timeout", "disconnected", "bleak", "other",
             "cancelled"}
ClosePcs == {"stop_notify", "disconnect"}
FlowPcs == {"idle", "confirm", "listen", "finished", "retry", "gone"}
           \cup HandshakePcs \cup ClosePcs

TypeOK ==
    /\ ConnectionTypeOK
    /\ DOMAIN pc = Party
    /\ \A f \in Flow : pc[f] \in FlowPcs
    /\ source \in [Flow -> {"none", "user", "bluetooth", "reauth"}]
    /\ target \in [Flow -> Switch \cup {None}]
    /\ address \in [Flow -> Address \cup {None}]
    /\ registration \in [Flow -> Key \cup {None}]
    /\ credentials \in [Flow -> Credentials \cup {None}]
    /\ attempt \in [Flow -> 0..(Attempts - 1)]
    /\ verdict \in [Flow -> Verdicts]
    /\ left \in [Flow -> BOOLEAN]
    /\ outcome \in [Flow -> Errors \cup {"none", "ok"}]
    /\ entries \in [Switch -> Entry \cup {None}]
    /\ key \in [Switch -> Key]
    /\ accepted \in [Switch -> SUBSET Key]

Init ==
    /\ ConnectionInit
    /\ pc = [p \in Party |-> "idle"]
    /\ source = [f \in Flow |-> "none"]
    /\ target = [f \in Flow |-> None]
    /\ address = [f \in Flow |-> None]
    /\ registration = [f \in Flow |-> None]
    /\ credentials = [f \in Flow |-> None]
    /\ attempt = [f \in Flow |-> 0]
    /\ verdict = [f \in Flow |-> "none"]
    /\ left = [f \in Flow |-> FALSE]
    /\ outcome = [f \in Flow |-> "none"]
    /\ entries = [s \in Switch |-> None]
    /\ key = [s \in Switch |-> 0]
    /\ accepted = [s \in Switch |-> {}]

-----------------------------------------------------------------------------
Goto(f, step) == pc' = [pc EXCEPT ![f] = step]

Configured(s) == entries[s] # None

\* Flows that Home Assistant has in progress; an abandoned flow is not,
\* although its task may still be closing its connection.
IsOpen(f) == pc[f] \notin {"idle", "gone"} /\ verdict[f] # "cancelled"

\* async_set_unique_id, of Home Assistant, aborts a flow when another one for
\* the same switch is in progress.
InProgress(s) == \E f \in Flow : IsOpen(f) /\ target[f] = s

MayOpen(f) ==
    /\ pc[f] = "idle"
    /\ Cardinality({g \in Flow : IsOpen(g)}) < MaxOpenFlows

Begin(f, s, a, from) ==
    /\ source' = [source EXCEPT ![f] = from]
    /\ target' = [target EXCEPT ![f] = s]
    /\ address' = [address EXCEPT ![f] = a]
    /\ Goto(f, "confirm")
    /\ UNCHANGED <<connectionVars, credentials, attempt, verdict, left, outcome,
                   worldVars>>

\* An idle advertisement carries no credentials, a registration one does.
Advertised(s) == {None, key[s]}

\* async_step_bluetooth of a switch that has no entry.
Discovered(f, s, a) ==
    /\ MayOpen(f) /\ ~InProgress(s) /\ ~Configured(s)
    /\ \E r \in Advertised(s) : registration' = [registration EXCEPT ![f] = r]
    /\ Begin(f, s, a, "bluetooth")

\* async_step_bluetooth of a switch that has one: its address is updated.
Rediscovered(f, s, a) ==
    /\ MayOpen(f) /\ ~InProgress(s) /\ Configured(s)
    /\ entries' = [entries EXCEPT ![s].address = a]
    /\ Goto(f, "gone")
    /\ UNCHANGED <<connectionVars, flowVars, key, accepted>>

\* async_step_user, with a switch from the list; the advertisement is the one
\* it was listed with, which the switch may have superseded.
Picked(f, s, a) ==
    /\ MayOpen(f) /\ ~InProgress(s) /\ ~Configured(s)
    /\ \E r \in {None} \cup 0..key[s] :
           registration' = [registration EXCEPT ![f] = r]
    /\ Begin(f, s, a, "user")

\* async_step_reauth: the session asked for it.
ReauthBegins(f, s) ==
    /\ MayOpen(f) /\ ~InProgress(s) /\ Configured(s)
    /\ Begin(f, s, entries[s].address, "reauth")
    /\ UNCHANGED registration

-----------------------------------------------------------------------------
(***************************************************************************)
(* The registration task.                                                  *)
(***************************************************************************)
\* Mutant: always a new one.
LightChoicesFresh(f) == LightId

\* _select_light_id: that of the entry, that of another entry, a new one.
LightChoices(f) ==
    IF source[f] = "reauth" /\ Configured(target[f])
    THEN {entries[target[f]].light}
    ELSE IF \E s \in Switch : Configured(s)
         THEN {entries[s].light : s \in {t \in Switch : Configured(t)}}
         ELSE LightId

Finish(f, result) ==
    /\ outcome' = [outcome EXCEPT ![f] = result]
    /\ Goto(f, "finished")

Validate(f, k) ==
    /\ \E l \in LightChoices(f) :
           credentials' = [credentials EXCEPT ![f] = [key |-> k, light |-> l]]
    /\ NewConnection(f)
    /\ attempt' = [attempt EXCEPT ![f] = 0]
    /\ Goto(f, "establish")
    /\ UNCHANGED <<source, target, address, verdict, left, outcome, worldVars>>

\* The user confirms; the task waits for a registration advertisement.
ConfirmListens(f) ==
    /\ pc[f] = "confirm" /\ registration[f] = None
    /\ Goto(f, "listen")
    /\ UNCHANGED <<connectionVars, flowVars, worldVars>>

\* Or it has one from the discovery already.
ConfirmValidates(f) ==
    /\ pc[f] = "confirm" /\ registration[f] # None
    /\ Validate(f, registration[f])
    /\ UNCHANGED registration

\* Then no device may be known any more.
ConfirmFindsNoDevice(f) ==
    /\ pc[f] = "confirm" /\ registration[f] # None
    /\ Finish(f, "cannot_connect")
    /\ UNCHANGED <<connectionVars, source, target, address, registration,
                   credentials, attempt, verdict, left, worldVars>>

\* async_step_registration_retry: the advertisement is captured anew.
Retry(f) ==
    /\ pc[f] = "retry"
    /\ registration' = [registration EXCEPT ![f] = None]
    /\ outcome' = [outcome EXCEPT ![f] = "none"]
    /\ Goto(f, "listen")
    /\ UNCHANGED <<connectionVars, source, target, address, credentials,
                   attempt, verdict, left, worldVars>>

Heard(f) ==
    /\ pc[f] = "listen"
    /\ Validate(f, key[target[f]])
    /\ UNCHANGED registration

ListenTimesOut(f) ==
    /\ pc[f] = "listen"
    /\ Finish(f, "registration_timeout")
    /\ UNCHANGED <<connectionVars, source, target, address, registration,
                   credentials, attempt, verdict, left, worldVars>>

\* The switch answers LOGIN validly only if the key is its own.
Accepts(f) == credentials[f].key = key[target[f]]

HandshakeStep(f) ==
    /\ pc[f] = "login_response" => Accepts(f)
    /\ Established(f) \/ Proceed(f)
    /\ accepted' = IF pc[f] = "login_response"
                   THEN [accepted EXCEPT ![target[f]] = @ \cup {credentials[f].key}]
                   ELSE accepted
    /\ UNCHANGED <<flowVars, entries, key>>

\* Mutant: off by one.
IsLastAttemptLate(f) == attempt[f] = Attempts

IsLastAttempt(f) == attempt[f] = Attempts - 1

\* Mutant: the last attempt falls out of the loop, to the successful return.
ErrorOfFallThrough(v) == IF v = "disconnected" THEN "ok" ELSE "unknown"

\* The result of the task for each class of exception.
ErrorOf(v) ==
    CASE v \in {"auth", "timeout"} -> "invalid_auth"
      [] v \in {"disconnected", "bleak"} -> "cannot_connect"
      [] OTHER -> "unknown"

\* The loop around async_validate_credentials, after its `finally`.
Conclude(f, v) ==
    /\ verdict' = [verdict EXCEPT ![f] = "none"]
    /\ UNCHANGED <<source, target, address, registration, credentials, worldVars>>
    /\ \/ /\ v = "cancelled"
          /\ Goto(f, "gone")
          /\ UNCHANGED <<attempt, outcome>>
       \/ /\ v = "ok"
          /\ Finish(f, "ok")
          /\ UNCHANGED attempt
       \/ /\ v = "disconnected" /\ ~IsLastAttempt(f)
          /\ attempt' = [attempt EXCEPT ![f] = @ + 1]
          /\ Goto(f, "establish")
          /\ UNCHANGED outcome
       \/ /\ v \notin {"ok", "cancelled"}
          /\ v = "disconnected" => IsLastAttempt(f)
          /\ Finish(f, ErrorOf(v))
          /\ UNCHANGED attempt

\* The next attempt has a new connection object.
Reconnects(f, v) == v = "disconnected" /\ ~IsLastAttempt(f)

\* `finally: await connection.async_close()`.
Close(f, v) ==
    IF NeedsRelease(f)
    THEN /\ Detach(f)
         /\ verdict' = [verdict EXCEPT ![f] = v]
         /\ Goto(f, "stop_notify")
         /\ UNCHANGED <<source, target, address, registration, credentials,
                        attempt, left, outcome, worldVars>>
    ELSE /\ IF Reconnects(f, v) THEN NewConnection(f) ELSE Detach(f)
         /\ Conclude(f, v)
         /\ UNCHANGED left

ValidationSucceeds(f) ==
    /\ HandshakeCompletes(f)
    /\ Close(f, "ok")

ValidationFails(f) ==
    \E v \in Raises(f) :
        /\ v = "auth" => ~Accepts(f)
        /\ Close(f, v)

\* stop_notify and disconnect return or raise an error of Bleak, which is
\* suppressed.
StopsNotify(f) ==
    /\ pc[f] = "stop_notify"
    /\ Goto(f, "disconnect")
    /\ UNCHANGED <<connectionVars, flowVars, worldVars>>

Disconnects(f) ==
    /\ pc[f] = "disconnect"
    /\ link' = [link EXCEPT ![f] = "down"]
    /\ IF Reconnects(f, verdict[f])
       THEN /\ client' = [client EXCEPT ![f] = FALSE]
            /\ disconnected' = [disconnected EXCEPT ![f] = FALSE]
            /\ closing' = [closing EXCEPT ![f] = FALSE]
       ELSE UNCHANGED <<client, disconnected, closing>>
    /\ Conclude(f, verdict[f])
    /\ UNCHANGED left

\* async_close ends early, when the client is forgotten already: a disconnect
\* that was not called leaves the link up, one that was called may.
CloseBreaksOff(f) ==
    /\ pc[f] \in ClosePcs
    /\ \E stays \in BOOLEAN :
           /\ pc[f] = "stop_notify" => stays
           /\ left' = [left EXCEPT ![f] = left[f] \/ (stays /\ link[f] # "down")]
    /\ link' = [link EXCEPT ![f] = "down"]
    /\ UNCHANGED <<client, disconnected, closing>>

\* An error that is not suppressed replaces the verdict of the validation.
ClosingFails(f) ==
    /\ CloseBreaksOff(f)
    /\ Conclude(f, IF verdict[f] = "cancelled" THEN "cancelled" ELSE "other")

-----------------------------------------------------------------------------
(***************************************************************************)
(* async_step_registration_done.                                           *)
(***************************************************************************)
DoneShowsError(f) ==
    /\ pc[f] = "finished" /\ outcome[f] # "ok"
    /\ Goto(f, "retry")
    /\ UNCHANGED <<connectionVars, flowVars, worldVars>>

EntryData(f) == [key |-> credentials[f].key, light |-> credentials[f].light,
                 address |-> address[f]]

\* It stores the credentials in the entry of the reauth, or in a new entry,
\* unless the switch has got one in the meantime.
DoneStores(f) ==
    /\ pc[f] = "finished" /\ outcome[f] = "ok"
    /\ registration' = [registration EXCEPT ![f] = None]
    /\ IF source[f] = "reauth" \/ ~Configured(target[f])
       THEN entries' = [entries EXCEPT ![target[f]] = EntryData(f)]
       ELSE UNCHANGED entries
    /\ Goto(f, "gone")
    /\ UNCHANGED <<connectionVars, source, target, address, credentials,
                   attempt, verdict, left, outcome, key, accepted>>

-----------------------------------------------------------------------------
(***************************************************************************)
(* The user closes the flow, or its entry is removed: Home Assistant       *)
(* cancels the progress task.                                              *)
(***************************************************************************)
\* No connection is open or being closed.
AbandonIdle(f) ==
    /\ IsOpen(f) /\ pc[f] \in {"confirm", "listen", "finished", "retry"}
    /\ Goto(f, "gone")
    /\ UNCHANGED <<connectionVars, flowVars, worldVars>>

\* CancelledError in the handshake runs the `finally`.
AbandonHandshake(f) ==
    /\ pc[f] \in HandshakePcs
    /\ Close(f, "cancelled")

\* CancelledError in async_close ends it.
AbandonClose(f) ==
    /\ IsOpen(f) /\ CloseBreaksOff(f)
    /\ verdict' = [verdict EXCEPT ![f] = "none"]
    /\ Goto(f, "gone")
    /\ UNCHANGED <<source, target, address, registration, credentials, attempt,
                   outcome, worldVars>>

Abandon(f) == AbandonIdle(f) \/ AbandonHandshake(f) \/ AbandonClose(f)

\* async_remove_entry; no reauth flow of the entry is open.
Removed(s) ==
    /\ Configured(s)
    /\ \A f \in Flow : IsOpen(f) /\ target[f] = s => source[f] # "reauth"
    /\ entries' = [entries EXCEPT ![s] = None]
    /\ UNCHANGED <<pc, connectionVars, flowVars, key, accepted>>

\* The registration button was held: the switch forgets its old key.
Rotated(s) ==
    /\ key[s] < MaxRotations
    /\ key' = [key EXCEPT ![s] = @ + 1]
    /\ UNCHANGED <<pc, connectionVars, flowVars, entries, accepted>>

LinkLost(f) == (LinkDrop(f) \/ LinkSilent(f)) /\ UNCHANGED <<flowVars, worldVars>>

\* The switch ends a link that was left up; its client is forgotten.
LeftLinkEnds(f) ==
    /\ left[f]
    /\ left' = [left EXCEPT ![f] = FALSE]
    /\ UNCHANGED <<pc, connectionVars, source, target, address, registration,
                   credentials, attempt, verdict, outcome, worldVars>>

-----------------------------------------------------------------------------
TaskStep(f) ==
    \/ HandshakeStep(f) \/ ValidationSucceeds(f) \/ ValidationFails(f)
    \/ StopsNotify(f) \/ Disconnects(f) \/ ClosingFails(f)
    \/ DoneShowsError(f) \/ DoneStores(f)
    \/ ListenTimesOut(f)

Submit(f) == ConfirmListens(f) \/ ConfirmValidates(f) \/ ConfirmFindsNoDevice(f)
             \/ Retry(f)

Next ==
    \/ \E f \in Flow :
         \/ \E s \in Switch, a \in Address :
               Discovered(f, s, a) \/ Rediscovered(f, s, a) \/ Picked(f, s, a)
         \/ \E s \in Switch : ReauthBegins(f, s)
         \/ Submit(f) \/ Heard(f) \/ TaskStep(f) \/ Abandon(f)
         \/ LinkLost(f) \/ LeftLinkEnds(f)
    \/ \E s \in Switch : Removed(s) \/ Rotated(s)

Spec == Init /\ [][Next]_vars

-----------------------------------------------------------------------------
(***************************************************************************)
(* Safety.                                                                 *)
(***************************************************************************)
\* Credentials are stored only after the switch has answered LOGIN for them:
\* no way through the attempts, retries and errors ends in an entry that was
\* never validated.
EntryWasAccepted ==
    \A s \in Switch : Configured(s) => entries[s].key \in accepted[s]

\* A flow keeps hold of its link, so that the close at the end of every
\* attempt finds it: outside the handshake and its close, whether the flow goes
\* on, stores or was cancelled, no link is up but one whose close broke off,
\* and no attempt starts over an earlier link.
ValidationReleasesLink ==
    \A f \in Flow :
        pc[f] \notin (HandshakePcs \ {"establish"}) \cup ClosePcs
            => link[f] = "down"

\* "Once stored it does not change": neither a reauthentication nor a
\* rediscovery gives an entry another light ID.
LightIdStable ==
    [][\A s \in Switch :
          entries[s] # None /\ entries'[s] # None
              => entries'[s].light = entries[s].light]_vars

(***************************************************************************)
(* What a document says and the code does not do.                          *)
(***************************************************************************)
\* "The same light ID is used in one Home Assistant installation."
SharedLightId ==
    \A s, t \in Switch :
        Configured(s) /\ Configured(t) => entries[s].light = entries[t].light
=============================================================================

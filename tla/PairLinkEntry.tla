--------------------------- MODULE PairLinkEntry ---------------------------
(***************************************************************************)
(* The life of the config entries: async_migrate_entry, async_setup_entry,  *)
(* async_unload_entry, _async_update_listener and async_remove_entry of     *)
(* custom_components/pairlink/__init__.py, with what they connect: the      *)
(* sessions, as SessionPromise describes them, and the flows, of which Home *)
(* Assistant lets each switch have at most one.                             *)
(*                                                                          *)
(* Home Assistant holds a lock per entry during setup, unload and reload;   *)
(* state[s] is the await inside.  What a switch accepts, its home ID and    *)
(* password, is one key.  Init is a start of Home Assistant, with whatever  *)
(* entries earlier runs have left.                                          *)
(***************************************************************************)
EXTENDS Naturals, FiniteSets

CONSTANTS
    Switch,        \* physical switches; the unique ID of an entry
    None,          \* no entry, session, key or turn
    MaxMoves,      \* bound: how often a switch changes its address
    MaxRotations   \* bound: how often the registration button changes its key

ASSUME MovesAssumption == MaxMoves \in Nat /\ MaxRotations \in Nat

Address == 0..MaxMoves
Key == 0..MaxRotations
Credentials == [key : Key, address : Address]
Entry == [key : Key, address : Address, version : 1..2]

ASSUME NoneAssumption == None \notin (Switch \cup Key \cup Credentials \cup Entry)

VARIABLES
    entries,    \* config entries: data, and the version of the unique ID
    state,      \* ConfigEntryState, by await
    reload,     \* whether the update listener or the user asked for a reload
    removing,   \* whether the unload belongs to a removal
    session,    \* credentials of entry.runtime_data
    device,     \* Bluetooth connections of the device in the registry
    entities,   \* whether the entities are subscribed to the session
    flow,       \* the flow for the switch
    dismissed,  \* whether the user closed the reauth flow of this session
    inVain,     \* whether a reauth flow stored what was stored, in its time
    discoverable, \* whether Home Assistant will start a discovery of the switch
    shown,      \* of SessionPromise
    turn,       \* of SessionPromise
    conn,       \* connection that the session may have open, or failed to close
    started,    \* whether Home Assistant has started: discovery flows begin
    key,        \* what each switch accepts
    where       \* the address each switch has

entryVars == <<entries, state, reload, removing, session, device, entities>>
flowVars == <<flow, dismissed, inVain, discoverable>>
sessionVars == <<shown, turn, conn>>
worldVars == <<started, key, where>>
vars == <<entryVars, flowVars, sessionVars, worldVars>>

Session == INSTANCE SessionPromise WITH Session <- Switch, NoOne <- None

States == {"not_loaded", "retry", "setting_up", "loaded", "unloading",
           "stopping", "failed_unload"}
Phases == {"none", "form", "listen", "validating", "finished", "retry"}
NoFlow == [phase |-> "none", source |-> "none", key |-> None, address |-> 0]

TypeOK ==
    /\ entries \in [Switch -> Entry \cup {None}]
    /\ state \in [Switch -> States]
    /\ reload \in [Switch -> BOOLEAN]
    /\ removing \in [Switch -> BOOLEAN]
    /\ session \in [Switch -> Credentials \cup {None}]
    /\ device \in [Switch -> SUBSET Address]
    /\ entities \in [Switch -> BOOLEAN]
    /\ flow \in [Switch -> [phase : Phases, source : {"none", "new", "reauth"},
                            key : Key \cup {None}, address : Address]]
    /\ \A s \in Switch :
          flow[s].phase \in {"validating", "finished"} => flow[s].key # None
    /\ dismissed \in [Switch -> BOOLEAN]
    /\ inVain \in [Switch -> BOOLEAN]
    /\ discoverable \in [Switch -> BOOLEAN]
    /\ Session!TypeOK
    /\ conn \in [Switch -> {"none", "open", "failed"}]
    /\ started \in BOOLEAN
    /\ key \in [Switch -> Key]
    /\ where \in [Switch -> Address]

Init ==
    /\ entries \in [Switch -> Entry \cup {None}]
    /\ where \in [Switch -> Address]
    /\ key \in [Switch -> Key]
    /\ \A s \in Switch : entries[s] # None =>
           entries[s].address <= where[s] /\ entries[s].key <= key[s]
    /\ device \in [Switch -> SUBSET Address]
    /\ \A s \in Switch : entries[s] = None => device[s] = {}
    /\ state = [s \in Switch |-> "not_loaded"]
    /\ reload = [s \in Switch |-> FALSE]
    /\ removing = [s \in Switch |-> FALSE]
    /\ session = [s \in Switch |-> None]
    /\ entities = [s \in Switch |-> FALSE]
    /\ flow = [s \in Switch |-> NoFlow]
    /\ dismissed = [s \in Switch |-> FALSE]
    /\ inVain = [s \in Switch |-> FALSE]
    /\ discoverable = [s \in Switch |-> TRUE]
    /\ shown = [s \in Switch |-> "stopped"]
    /\ turn = None
    /\ conn = [s \in Switch |-> "none"]
    /\ started = FALSE

Exists(s) == entries[s] # None
Goto(s, step) == state' = [state EXCEPT ![s] = step]

-----------------------------------------------------------------------------
(***************************************************************************)
(* Setup.                                                                  *)
(***************************************************************************)
\* Mutant: the old unique ID stays.
MigratedNot(s) == entries[s]

\* async_migrate_entry: the unique ID becomes the address of the switch.
Migrated(s) == [entries[s] EXCEPT !.version = 2]

\* _update_device_registry_address, which no listener of the entry hears.
Corrected(s) == IF device[s] = {} THEN {} ELSE {entries[s].address}

\* async_setup_entry up to its await: the session exists, idle.
SetupForwards(s) ==
    /\ Exists(s) /\ state[s] \in {"not_loaded", "retry"}
    /\ entries' = [entries EXCEPT ![s] = Migrated(s)]
    /\ device' = [device EXCEPT ![s] = Corrected(s)]
    /\ session' = [session EXCEPT ![s] = [key |-> entries[s].key,
                                          address |-> entries[s].address]]
    /\ Session!Become(s, "idle")
    /\ conn' = [conn EXCEPT ![s] = "none"]
    /\ dismissed' = [dismissed EXCEPT ![s] = FALSE]
    /\ inVain' = [inVain EXCEPT ![s] = FALSE]
    /\ Goto(s, "setting_up")
    /\ UNCHANGED <<reload, removing, entities, flow, discoverable, turn, worldVars>>

\* No connectable adapter or proxy is there (ConfigEntryNotReady): Home
\* Assistant will try again.
SetupNotReady(s) ==
    /\ Exists(s) /\ state[s] = "not_loaded"
    /\ entries' = [entries EXCEPT ![s] = Migrated(s)]
    /\ Goto(s, "retry")
    /\ UNCHANGED <<reload, removing, session, device, entities, flowVars,
                   sessionVars, worldVars>>

\* async_forward_entry_setups: the entities subscribe, and register the
\* device with the address of their session.
EntitiesAdded(s) ==
    /\ state[s] = "setting_up" /\ ~entities[s]
    /\ entities' = [entities EXCEPT ![s] = TRUE]
    /\ device' = [device EXCEPT ![s] = @ \cup {session[s].address}]
    /\ UNCHANGED <<entries, state, reload, removing, session, flowVars,
                   sessionVars, worldVars>>

\* session.async_start().
SessionStarts(s) ==
    /\ state[s] = "setting_up" /\ entities[s]
    /\ Goto(s, "loaded")
    /\ UNCHANGED <<entries, reload, removing, session, device, entities,
                   flowVars, sessionVars, worldVars>>

-----------------------------------------------------------------------------
(***************************************************************************)
(* Reload, unload and removal.                                             *)
(***************************************************************************)
\* Mutant: the listener is added after the platforms are set up.
ListensOnceLoaded(s) == state[s] \notin {"not_loaded", "retry", "setting_up"}

\* Whether _async_update_listener is registered; only an unload that
\* succeeds removes it.
Listens(s) == state[s] \notin {"not_loaded", "retry"}

\* Home Assistant calls the listener if the new data differ.
Update(s, data) ==
    /\ entries' = [entries EXCEPT ![s] = data]
    /\ reload' = [reload EXCEPT ![s] = @ \/ (Listens(s) /\ data # entries[s])]

\* Reloads asked for together are one.
UserReloads(s) ==
    /\ state[s] = "loaded"
    /\ reload' = [reload EXCEPT ![s] = TRUE]
    /\ UNCHANGED <<entries, state, removing, session, device, entities,
                   flowVars, sessionVars, worldVars>>

\* async_reload, or async_remove of a loaded entry.
UnloadBegins(s) ==
    /\ state[s] = "loaded"
    /\ \E remove \in BOOLEAN :
           /\ remove \/ reload[s]
           /\ removing' = [removing EXCEPT ![s] = remove]
           /\ reload' = [reload EXCEPT ![s] = remove /\ @]
    /\ Goto(s, "unloading")
    /\ UNCHANGED <<entries, session, device, entities, flowVars, sessionVars,
                   worldVars>>

\* An entry whose unload failed cannot be reloaded.
ReloadRefused(s) ==
    /\ state[s] = "failed_unload" /\ reload[s]
    /\ reload' = [reload EXCEPT ![s] = FALSE]
    /\ UNCHANGED <<entries, state, removing, session, device, entities,
                   flowVars, sessionVars, worldVars>>

\* async_unload_platforms: not all entities may go.
PlatformsUnloaded(s) ==
    /\ state[s] = "unloading"
    /\ \E stays \in BOOLEAN : entities' = [entities EXCEPT ![s] = stays]
    /\ Goto(s, "stopping")
    /\ UNCHANGED <<entries, reload, removing, session, device, flowVars,
                   sessionVars, worldVars>>

\* The loop, cancelled by async_stop, gives the turn back.
StopGivesUp(s) ==
    /\ state[s] = "stopping"
    /\ UNCHANGED shown /\ Session!GiveUp(s)
    /\ UNCHANGED <<entryVars, flowVars, conn, worldVars>>

\* async_remove_entry: a discovery of the stored address may start again.
Rediscoverable(s) == entries[s].address = where[s]

\* What Home Assistant forgets with an entry, its reauth flow included.
Delete(s) ==
    /\ entries' = [entries EXCEPT ![s] = None]
    /\ state' = [state EXCEPT ![s] = "not_loaded"]
    /\ session' = [session EXCEPT ![s] = None]
    /\ device' = [device EXCEPT ![s] = {}]
    /\ entities' = [entities EXCEPT ![s] = FALSE]
    /\ reload' = [reload EXCEPT ![s] = FALSE]
    /\ removing' = [removing EXCEPT ![s] = FALSE]
    /\ flow' = [flow EXCEPT ![s] = IF @.source = "reauth" THEN NoFlow ELSE @]
    /\ discoverable' = [discoverable EXCEPT ![s] = @ \/ Rediscoverable(s)]

\* Mutant: a failed unload of the platforms returns at once.
MustStopIfUnloaded(s) == ~entities[s]

\* async_unload_entry stops the session whatever the platforms say.
MustStop(s) == TRUE

\* async_stop returns, and async_unload_entry what the platforms said.
Unloaded(s) ==
    /\ state[s] = "stopping"
    /\ IF MustStop(s)
       THEN Session!Stop(s) /\ conn' = [conn EXCEPT ![s] = "none"]
       ELSE UNCHANGED sessionVars
    /\ \/ /\ removing[s]
          /\ Delete(s)
       \/ /\ ~removing[s]
          /\ Goto(s, IF entities[s] THEN "failed_unload" ELSE "not_loaded")
          /\ UNCHANGED <<entries, reload, removing, session, device, entities,
                         flow, discoverable>>
    /\ UNCHANGED <<dismissed, inVain, worldVars>>

\* The loop or the closing task died of an error in a close, or the close of
\* async_stop itself fails: async_stop raises it, and the session goes on
\* showing what it showed.  Home Assistant takes it for a failed unload.
StopRaises(s) ==
    /\ state[s] = "stopping" /\ turn # s
    /\ conn[s] = "open" /\ conn' = [conn EXCEPT ![s] = "failed"]
    /\ \/ /\ removing[s]
          /\ Delete(s)
       \/ /\ ~removing[s]
          /\ Goto(s, "failed_unload")
          /\ UNCHANGED <<entries, reload, removing, session, device, entities,
                         flow, discoverable>>
    /\ UNCHANGED <<dismissed, inVain, shown, turn, worldVars>>

\* async_remove of an entry that is not loaded.
Removed(s) ==
    /\ Exists(s) /\ state[s] \in {"retry", "failed_unload"}
    /\ Delete(s)
    /\ UNCHANGED <<dismissed, inVain, sessionVars, worldVars>>

-----------------------------------------------------------------------------
(***************************************************************************)
(* The session, from async_start to async_stop.                            *)
(***************************************************************************)
Reaches(s) == session[s].address = where[s]
HasKey(s) == session[s].key = key[s]

\* What SessionPromise allows, and the credentials and the address decide.
\* Advertisements and LOGIN responses refuse wrong credentials, LOGIN timeouts
\* also the right ones.
SessionAction(s) ==
    \/ Session!TakeTurn(s)
    \/ Session!Succeed(s) /\ Reaches(s) /\ HasKey(s)
    \/ Session!GiveUp(s) /\ (shown'[s] # shown[s] /\ shown'[s] = "reauth" => Reaches(s))
    \/ Session!GoOffline(s)
    \/ Session!RequireReauth(s) /\ Reaches(s) /\ (HasKey(s) => shown[s] = "authenticating")

\* Mutant: nobody is told.
ReauthRequestedNot(s) == UNCHANGED flow

\* entry.async_start_reauth: a flow, unless one is open.
ReauthRequested(s) ==
    flow' = IF shown'[s] = "reauth" /\ shown[s] # "reauth" /\ flow[s] = NoFlow
            THEN [flow EXCEPT ![s] = [phase |-> "form", source |-> "reauth",
                                      key |-> None,
                                      address |-> entries[s].address]]
            ELSE flow

\* A close that fails leaves what is shown; what is shown after a close that
\* succeeds is offline.
Connected(s) ==
    conn' = [conn EXCEPT ![s] =
                CASE shown'[s] \in {"authenticating", "ready"} -> "open"
                  [] shown'[s] = "reauth" -> @
                  [] OTHER -> "none"]

SessionStep(s) ==
    /\ state[s] \in {"loaded", "unloading"}
    /\ SessionAction(s) /\ Connected(s)
    /\ ReauthRequested(s)
    /\ UNCHANGED <<entryVars, dismissed, inVain, discoverable, worldVars>>

-----------------------------------------------------------------------------
(***************************************************************************)
(* The flows.                                                              *)
(***************************************************************************)
Open(s, from, k, a) ==
    flow' = [flow EXCEPT ![s] = [phase |-> "form", source |-> from, key |-> k,
                                 address |-> a]]

InPhase(s, phase) == flow[s].phase = phase
Enter(s, phase) == flow' = [flow EXCEPT ![s].phase = phase]

\* _abort_if_unique_id_configured finds an entry by its migrated unique ID.
Configured(s) == Exists(s) /\ entries[s].version = 2

\* Home Assistant discovers an address once; what comes of it follows.
Discovery(s) ==
    /\ started /\ discoverable[s]
    /\ discoverable' = [discoverable EXCEPT ![s] = FALSE]
    /\ UNCHANGED <<state, removing, session, device, entities, dismissed,
                   inVain, sessionVars, worldVars>>

\* Mutant: a flow in progress does not stand in the way.
MayDiscoverAnyway(s) == TRUE

\* async_set_unique_id aborts a discovery while a flow is in progress.
MayDiscover(s) == flow[s] = NoFlow

\* async_step_bluetooth of a switch without an entry.
Discovered(s) ==
    /\ MayDiscover(s) /\ ~Configured(s)
    /\ \E k \in {None, key[s]} : Open(s, "new", k, where[s])
    /\ Discovery(s)
    /\ UNCHANGED <<entries, reload>>

\* Of a switch with one: its address is updated.
Rediscovered(s) ==
    /\ MayDiscover(s) /\ Configured(s)
    /\ Update(s, [entries[s] EXCEPT !.address = where[s]])
    /\ Discovery(s)
    /\ UNCHANGED flow

DiscoveryAborts(s) ==
    /\ ~MayDiscover(s)
    /\ Discovery(s)
    /\ UNCHANGED <<entries, reload, flow>>

\* async_step_user.
Picked(s) ==
    /\ started /\ flow[s] = NoFlow /\ ~Configured(s)
    /\ \E k \in {None, key[s]} : Open(s, "new", k, where[s])
    /\ UNCHANGED <<entryVars, dismissed, inVain, discoverable, sessionVars,
                   worldVars>>

FlowStep(s) ==
    UNCHANGED <<entryVars, dismissed, inVain, discoverable, sessionVars, worldVars>>

\* Mutant: the task does not wait for a registration.
SubmittedAtOnce(s) ==
    /\ InPhase(s, "form")
    /\ Enter(s, "validating")
    /\ FlowStep(s)

\* async_step_registration: the task waits unless the discovery has brought
\* a registration already.
Submitted(s) ==
    /\ InPhase(s, "form")
    /\ Enter(s, IF flow[s].key = None THEN "listen" ELSE "validating")
    /\ FlowStep(s)

\* Mutant: the retry validates the registration that it has.
RetriedWithOldKey(s) ==
    /\ InPhase(s, "retry")
    /\ Enter(s, IF flow[s].key = None THEN "listen" ELSE "validating")
    /\ FlowStep(s)

\* async_step_registration_retry forgets the captured registration.
Retried(s) ==
    /\ InPhase(s, "retry")
    /\ flow' = [flow EXCEPT ![s].phase = "listen", ![s].key = None]
    /\ FlowStep(s)

\* A registration advertisement, awaited at the address of the target; whether
\* its key is new is up to the switch.
Heard(s) ==
    /\ InPhase(s, "listen") /\ flow[s].address = where[s]
    /\ flow' = [flow EXCEPT ![s].phase = "validating", ![s].key = key[s]]
    /\ FlowStep(s)

ListenTimesOut(s) ==
    /\ InPhase(s, "listen")
    /\ Enter(s, "retry")
    /\ FlowStep(s)

ValidationSucceeds(s) ==
    /\ InPhase(s, "validating")
    /\ flow[s].key = key[s] /\ flow[s].address = where[s]
    /\ Enter(s, "finished")
    /\ FlowStep(s)

ValidationFails(s) ==
    /\ InPhase(s, "validating")
    /\ Enter(s, "retry")
    /\ FlowStep(s)

\* async_step_registration_done: async_update_and_abort, which does not
\* reload, or async_create_entry, which sets the entry up.
Stored(s) ==
    /\ InPhase(s, "finished")
    /\ flow' = [flow EXCEPT ![s] = NoFlow]
    /\ LET data == [key |-> flow[s].key, address |-> flow[s].address, version |-> 2]
       IN IF flow[s].source = "reauth" \/ ~Configured(s)
          THEN /\ Update(s, data)
               /\ inVain' = [inVain EXCEPT ![s] = @ \/ (flow[s].source = "reauth"
                                                       /\ data = entries[s])]
          ELSE UNCHANGED <<entries, reload, inVain>>
    /\ UNCHANGED <<state, removing, session, device, entities, dismissed,
                   discoverable, sessionVars, worldVars>>

\* The user closes the flow.
Dismissed(s) ==
    /\ flow[s] # NoFlow
    /\ flow' = [flow EXCEPT ![s] = NoFlow]
    /\ dismissed' = [dismissed EXCEPT ![s] = @ \/ flow[s].source = "reauth"]
    /\ UNCHANGED <<entryVars, inVain, discoverable, sessionVars, worldVars>>

-----------------------------------------------------------------------------
(***************************************************************************)
(* The world.                                                              *)
(***************************************************************************)
\* Home Assistant has started when every entry has been set up once.
StartCompletes ==
    /\ ~started
    /\ \A s \in Switch : Exists(s) => state[s] \notin {"not_loaded", "setting_up"}
    /\ started' = TRUE
    /\ UNCHANGED <<entryVars, flowVars, sessionVars, key, where>>

\* The switch gets a new key: somebody holds the registration button.
Rotated(s) ==
    /\ key[s] < MaxRotations
    /\ key' = [key EXCEPT ![s] = @ + 1]
    /\ UNCHANGED <<entryVars, flowVars, sessionVars, started, where>>

\* The switch takes a new address, which Home Assistant has not seen.
Moved(s) ==
    /\ where[s] < MaxMoves
    /\ where' = [where EXCEPT ![s] = @ + 1]
    /\ discoverable' = [discoverable EXCEPT ![s] = TRUE]
    /\ UNCHANGED <<entryVars, flow, dismissed, inVain, sessionVars, started, key>>

-----------------------------------------------------------------------------
HomeAssistant(s) ==
    \/ SetupForwards(s) \/ SetupNotReady(s) \/ EntitiesAdded(s) \/ SessionStarts(s)
    \/ ReloadRefused(s) \/ PlatformsUnloaded(s) \/ StopGivesUp(s)
    \/ Unloaded(s) \/ StopRaises(s)

TaskStep(s) ==
    \/ ListenTimesOut(s) \/ ValidationSucceeds(s) \/ ValidationFails(s) \/ Stored(s)

Next ==
    \/ \E s \in Switch :
         \/ HomeAssistant(s) \/ UnloadBegins(s) \/ UserReloads(s) \/ Removed(s)
         \/ SessionStep(s)
         \/ Discovered(s) \/ Rediscovered(s) \/ DiscoveryAborts(s) \/ Picked(s)
         \/ Submitted(s) \/ Retried(s) \/ Heard(s) \/ TaskStep(s) \/ Dismissed(s)
         \/ Rotated(s) \/ Moved(s)
    \/ StartCompletes

Spec == Init /\ [][Next]_vars

-----------------------------------------------------------------------------
\* The session connects again and again, shows that it failed, and is either
\* accepted or refused by a switch that it reaches often enough.  Its loop does
\* not die of a close that raises (LoopCrashes of PairLinkSession).
SessionGoesOn(s) ==
    /\ SF_vars(SessionStep(s) /\ turn' = s)
    /\ WF_vars(turn # s /\ shown[s] = "authenticating" /\ SessionStep(s))
    /\ SF_vars(SessionStep(s) /\ shown[s] # "ready" /\ shown'[s] = "ready")
    /\ SF_vars(/\ SessionStep(s) /\ shown[s] # "reauth" /\ shown'[s] = "reauth"
               /\ ~HasKey(s))

\* The user submits forms and holds the button when a flow asks for it; the
\* flow hears the switch and is answered, if it asks often enough.
FlowGoesOn(s) ==
    /\ WF_vars(Submitted(s) \/ Retried(s))
    /\ WF_vars(TaskStep(s))
    /\ SF_vars(Heard(s))
    /\ SF_vars(ValidationSucceeds(s))

\* Home Assistant goes on, also while entries are reloaded, and discovers an
\* address that it has not seen.
HomeAssistantGoesOn(s) ==
    /\ WF_vars(HomeAssistant(s)) /\ WF_vars(reload[s] /\ UnloadBegins(s)) /\ SF_vars(SetupForwards(s))
    /\ WF_vars(Discovered(s) \/ Rediscovered(s) \/ DiscoveryAborts(s))

PersistentSpec ==
    /\ Spec
    /\ \A s \in Switch : SessionGoesOn(s) /\ FlowGoesOn(s) /\ HomeAssistantGoesOn(s)
    /\ SF_vars(StartCompletes)

-----------------------------------------------------------------------------
(***************************************************************************)
(* Safety.                                                                 *)
(***************************************************************************)
\* "Reload once after Config Entry data or options change": whenever an update
\* comes, also during a setup or a reload, a loaded entry runs with the
\* credentials that are stored, and the device registry names its address
\* alone; or it is about to be reloaded.
LoadedIsCurrent == \A s \in Switch :
    state[s] = "loaded" /\ ~reload[s] =>
        /\ session[s] = [key |-> entries[s].key, address |-> entries[s].address]
        /\ device[s] = {entries[s].address}

\* A session that gave up for want of credentials is never left alone: the
\* user has a flow to repair it, a reload will replace it, the user closed the
\* flow, or the flow found nothing to repair.
Repairable == \A s \in Switch :
    state[s] = "loaded" /\ shown[s] = "reauth"
        => reload[s] \/ flow[s].source = "reauth" \/ dismissed[s] \/ inVain[s]

\* A session is at work only within its entry: it starts after the entities
\* have subscribed, and whatever the platforms answer to an unload, a removal
\* or a reload, it has released its turn, and stopped or raised an exception,
\* before anything else.
WorksWithinEntry == \A s \in Switch :
    turn = s \/ (shown[s] \notin {"idle", "stopped"} /\ conn[s] # "failed") =>
        /\ Exists(s)
        /\ state[s] \in {"loaded", "unloading", "stopping"}
        /\ state[s] = "loaded" => entities[s]

\* A flow knows its entry: none adds a switch that has one, under the old or
\* the new unique ID; and the address a reauthentication will store is that
\* of the entry it will store it in.
FlowFitsEntry == \A s \in Switch :
    CASE flow[s].source = "new" -> ~Exists(s)
      [] flow[s].source = "reauth" ->
            Configured(s) /\ flow[s].address = entries[s].address
      [] OTHER -> TRUE

\* Discoveries and flows that overlap never take an entry back to an address
\* that the switch has left earlier.
AddressNeverReverts ==
    [][\A s \in Switch :
          entries[s] # None /\ entries'[s] # None
              => entries'[s].address >= entries[s].address]_vars

(***************************************************************************)
(* Liveness.                                                               *)
(***************************************************************************)
\* A discovery was aborted by a flow in progress, and Home Assistant will not
\* start another one for the new address.
AddressMissed(s) == ~discoverable[s] /\ Exists(s) /\ entries[s].address # where[s]

\* Whatever key and address an entry begins with or gets, it ends up with a
\* session that is ready, unless it is removed, its unload fails, the user
\* closed its flow, the flow found nothing to repair, or its address was missed.
EntryServed == \A s \in Switch :
    Exists(s) ~> \/ shown[s] = "ready" /\ conn[s] # "failed"
                 \/ ~Exists(s)
                 \/ state[s] = "failed_unload"
                 \/ dismissed[s] \/ inVain[s]
                 \/ AddressMissed(s)

(***************************************************************************)
(* What a document or a comment says and the code does not do.             *)
(***************************************************************************)
\* "A success has the session reconnect": a session that gave up does not
\* outlive the flow that repairs it, unless the user closed the flow.
ReauthRepairs == \A s \in Switch :
    state[s] = "loaded" /\ shown[s] = "reauth"
        => reload[s] \/ flow[s].source = "reauth" \/ dismissed[s]
=============================================================================

------------------------ MODULE PairLinkEntry_proofs ------------------------
(***************************************************************************)
(* Proofs about PairLinkEntry, for any number of switches, moves and        *)
(* rotations.                                                               *)
(***************************************************************************)
EXTENDS PairLinkEntry, TLAPS

USE MovesAssumption, NoneAssumption DEF MovesAssumption, NoneAssumption

\* What one switch, its entry, its session and its flow do.
SwitchStep(s) ==
    \/ HomeAssistant(s) \/ UnloadBegins(s) \/ UserReloads(s) \/ Removed(s)
    \/ SessionStep(s)
    \/ Discovered(s) \/ Rediscovered(s) \/ DiscoveryAborts(s) \/ Picked(s)
    \/ Submitted(s) \/ Retried(s) \/ Heard(s) \/ TaskStep(s) \/ Dismissed(s)
    \/ Rotated(s) \/ Moved(s)

(***************************************************************************)
(* The inductive invariant, of each switch.                                *)
(***************************************************************************)
\* The session is at work only between a setup and the end of its unload, which
\* alone finds that it cannot be closed; and the entry, its session and its
\* entities are there when the code uses them.
SessionInv(s) ==
    /\ turn = s \/ (shown[s] \notin {"idle", "stopped"} /\ conn[s] # "failed")
          => state[s] \in {"loaded", "unloading", "stopping"}
    /\ state[s] # "not_loaded" => Exists(s)
    /\ state[s] \in {"setting_up", "loaded", "unloading", "stopping"}
          => session[s] # None /\ conn[s] # "failed"
    /\ state[s] = "loaded" => entities[s]
    /\ state[s] \in {"not_loaded", "retry"} => ~entities[s]

\* Whoever looks for the entry by its unique ID finds it: before a flow can
\* look, the entry has been migrated.
VersionInv(s) ==
    Exists(s) /\ (started \/ state[s] # "not_loaded") => entries[s].version = 2

\* Nobody knows an address before the switch has it.
AddressInv(s) ==
    /\ flow[s].address <= where[s]
    /\ Exists(s) => entries[s].address <= where[s]

\* A flow fits the entry.
FlowInv(s) ==
    /\ flow[s].source = "none" => flow[s] = NoFlow
    /\ flow[s].source = "new" => ~Exists(s)
    /\ flow[s].source = "reauth" =>
          /\ Exists(s)
          /\ entries[s].version = 2
          /\ flow[s].address = entries[s].address

\* From its setup on an entry that will not be reloaded has a session with its
\* data.
CurrentInv(s) ==
    state[s] \in {"setting_up", "loaded"} /\ ~reload[s] =>
        /\ session[s] = [key |-> entries[s].key, address |-> entries[s].address]
        /\ device[s] \subseteq {entries[s].address}
        /\ entities[s] => device[s] = {entries[s].address}

RepairInv(s) ==
    state[s] = "loaded" /\ shown[s] = "reauth"
        => reload[s] \/ flow[s].source = "reauth" \/ dismissed[s] \/ inVain[s]

SwitchInv(s) ==
    /\ SessionInv(s) /\ VersionInv(s) /\ AddressInv(s)
    /\ FlowInv(s) /\ CurrentInv(s) /\ RepairInv(s)

IInv == TypeOK /\ \A s \in Switch : SwitchInv(s)

(***************************************************************************)
(* Types, of the entries, the flows and the world.                         *)
(***************************************************************************)
FlowRecord == [phase : Phases, source : {"none", "new", "reauth"},
               key : Key \cup {None}, address : Address]

EntryTyped ==
    /\ entries \in [Switch -> Entry \cup {None}]
    /\ state \in [Switch -> States]
    /\ reload \in [Switch -> BOOLEAN]
    /\ removing \in [Switch -> BOOLEAN]
    /\ session \in [Switch -> Credentials \cup {None}]
    /\ device \in [Switch -> SUBSET Address]
    /\ entities \in [Switch -> BOOLEAN]

FlowTyped ==
    /\ flow \in [Switch -> FlowRecord]
    /\ \A s \in Switch :
          flow[s].phase \in {"validating", "finished"} => flow[s].key # None
    /\ dismissed \in [Switch -> BOOLEAN]
    /\ inVain \in [Switch -> BOOLEAN]
    /\ discoverable \in [Switch -> BOOLEAN]

SessionTyped == Session!TypeOK /\ conn \in [Switch -> {"none", "open", "failed"}]

WorldTyped ==
    /\ started \in BOOLEAN
    /\ key \in [Switch -> Key]
    /\ where \in [Switch -> Address]

\* The type invariant, cut into parts that a step leaves alone together.
LEMMA TypeParts ==
    /\ TypeOK <=> EntryTyped /\ FlowTyped /\ SessionTyped /\ WorldTyped
    /\ TypeOK' <=> EntryTyped' /\ FlowTyped' /\ SessionTyped' /\ WorldTyped'
  BY DEF TypeOK, EntryTyped, FlowTyped, SessionTyped, WorldTyped, FlowRecord

\* What a step leaves alone stays in range.
LEMMA TypeUnchanged ==
    /\ UNCHANGED entryVars => EntryTyped' = EntryTyped
    /\ UNCHANGED flowVars => FlowTyped' = FlowTyped
    /\ UNCHANGED sessionVars => SessionTyped' = SessionTyped
    /\ UNCHANGED worldVars => WorldTyped' = WorldTyped
  BY DEF EntryTyped, FlowTyped, SessionTyped, WorldTyped, Session!TypeOK, entryVars, flowVars,
     sessionVars, worldVars

\* The session moves within what SessionPromise shows.
LEMMA SessionMoves ==
    ASSUME Session!TypeOK, NEW s \in Switch,
           \/ SessionAction(s) \/ Session!GiveUp(s) \/ Session!Stop(s)
           \/ Session!Become(s, "idle") /\ UNCHANGED turn
    PROVE  Session!TypeOK'
  BY DEF Session!TypeOK, Session!Shown, SessionAction, Session!TakeTurn, Session!Succeed,
     Session!GiveUp, Session!GoOffline, Session!RequireReauth, Session!Stop, Session!Become

\* A flow that is replaced by a flow in range.
LEMMA FlowReplaced ==
    ASSUME FlowTyped, NEW s \in Switch, NEW r \in FlowRecord,
           r.phase \in {"validating", "finished"} => r.key # None,
           flow' = [flow EXCEPT ![s] = r]
    PROVE  /\ flow' \in [Switch -> FlowRecord]
           /\ \A t \in Switch : flow'[t].phase \in {"validating", "finished"} => flow'[t].key # None
<1> USE DEF FlowTyped
<1>1. flow' \in [Switch -> FlowRecord]
  OBVIOUS
<1>2. \A t \in Switch : flow'[t] = IF t = s THEN r ELSE flow[t]
  OBVIOUS
<1> QED BY <1>1, <1>2

\* A flow that moves to another phase.
LEMMA FlowMoves ==
    ASSUME FlowTyped, NEW s \in Switch, NEW phase \in Phases,
           phase \in {"validating", "finished"} => flow[s].key # None,
           Enter(s, phase)
    PROVE  /\ flow' \in [Switch -> FlowRecord]
           /\ \A t \in Switch : flow'[t].phase \in {"validating", "finished"} => flow'[t].key # None
<1>1. flow[s] \in FlowRecord
  BY DEF FlowTyped
<1> DEFINE r == [flow[s] EXCEPT !.phase = phase]
<1>2. r \in FlowRecord /\ r.phase = phase /\ r.key = flow[s].key
  BY <1>1 DEF FlowRecord
<1>3. flow' = [flow EXCEPT ![s] = r]
  BY DEF Enter
<1> HIDE DEF r
<1> QED BY <1>2, <1>3, FlowReplaced

\* Home Assistant starts with everything in range.
LEMMA TypeInit == Init => TypeOK
<1> SUFFICES ASSUME Init PROVE TypeOK
  OBVIOUS
<1> USE DEF Init
<1>1. EntryTyped
  BY DEF EntryTyped, States
<1>2. FlowTyped
  <2>1. NoFlow \in FlowRecord /\ NoFlow.phase = "none"
    BY DEF NoFlow, FlowRecord, Phases, Address
  <2> QED BY <2>1 DEF FlowTyped
<1>3. SessionTyped
  BY DEF SessionTyped, Session!TypeOK, Session!Shown
<1>4. WorldTyped
  <2>1. started \in BOOLEAN
    OBVIOUS
  <2>2. key \in [Switch -> Key] /\ where \in [Switch -> Address]
    OBVIOUS
  <2> QED BY <2>1, <2>2 DEF WorldTyped
<1> QED BY <1>1, <1>2, <1>3, <1>4, TypeParts

\* Every step of a switch keeps everything in range.
LEMMA TypeSwitch ==
    ASSUME TypeOK, NEW s \in Switch, SessionInv(s), SwitchStep(s)
    PROVE  TypeOK'
<1> USE TypeParts, TypeUnchanged DEF entryVars, flowVars, sessionVars, worldVars
<1>1. EntryTyped /\ FlowTyped /\ SessionTyped /\ WorldTyped
  OBVIOUS
<1> HIDE TypeParts
<1>0. SUFFICES EntryTyped' /\ FlowTyped' /\ SessionTyped' /\ WorldTyped'
  BY TypeParts
<1>2. CASE SetupForwards(s)
  <2>1. SessionTyped'
    BY <1>1, <1>2, SessionMoves DEF SetupForwards, SessionTyped
  <2>2. entries[s] \in Entry
    BY <1>1, <1>2 DEF SetupForwards, Exists, EntryTyped
  <2>3. /\ Migrated(s) \in Entry
        /\ [key |-> entries[s].key, address |-> entries[s].address] \in Credentials
        /\ Corrected(s) \in SUBSET Address
    BY <2>2 DEF Migrated, Corrected, Entry, Credentials
  <2>4. EntryTyped'
    BY <1>1, <1>2, <2>3 DEF SetupForwards, EntryTyped, Goto, States
  <2>5. FlowTyped' /\ WorldTyped'
    BY <1>1, <1>2 DEF SetupForwards, FlowTyped
  <2> QED BY <2>1, <2>4, <2>5
<1>3. CASE SetupNotReady(s)
  <2>1. entries[s] \in Entry
    BY <1>1, <1>3 DEF SetupNotReady, Exists, EntryTyped
  <2>2. Migrated(s) \in Entry
    BY <2>1 DEF Migrated, Entry
  <2>3. EntryTyped'
    BY <1>1, <1>3, <2>2 DEF SetupNotReady, EntryTyped, Goto, States
  <2> QED BY <1>1, <1>3, <2>3 DEF SetupNotReady
<1>4. CASE EntitiesAdded(s)
  <2>1. session[s].address \in Address
    BY <1>1, <1>4 DEF EntitiesAdded, SessionInv, EntryTyped, Credentials
  <2>2. EntryTyped'
    BY <1>1, <1>4, <2>1 DEF EntitiesAdded, EntryTyped
  <2> QED BY <1>1, <1>4, <2>2 DEF EntitiesAdded
<1>5. CASE SessionStarts(s) \/ ReloadRefused(s) \/ PlatformsUnloaded(s) \/ UnloadBegins(s) \/ UserReloads(s)
  <2>1. EntryTyped'
    BY ZenonT(60), <1>1, <1>5 DEF SessionStarts, ReloadRefused, PlatformsUnloaded, UnloadBegins, UserReloads,
       EntryTyped, Goto, States
  <2> QED BY <1>1, <1>5, <2>1 DEF SessionStarts, ReloadRefused, PlatformsUnloaded, UnloadBegins, UserReloads
<1>6. CASE StopGivesUp(s)
  BY <1>1, <1>6, SessionMoves DEF StopGivesUp, SessionTyped
<1>7. CASE Delete(s) /\ UNCHANGED <<dismissed, inVain, worldVars>> /\ SessionTyped'
  <2>1. EntryTyped'
    BY <1>1, <1>7 DEF Delete, EntryTyped, States
  <2>2. NoFlow \in FlowRecord /\ NoFlow.phase = "none"
    BY DEF NoFlow, FlowRecord, Phases, Address
  <2>3. FlowTyped'
    BY <1>1, <1>7, <2>2 DEF Delete, FlowTyped
  <2> QED BY <1>1, <1>7, <2>1, <2>3
<1>8. CASE Removed(s)
  BY <1>1, <1>7, <1>8 DEF Removed
<1>9. CASE Unloaded(s) \/ StopRaises(s)
  <2>1. SessionTyped'
    BY <1>1, <1>9, SessionMoves DEF Unloaded, StopRaises, SessionTyped, Session!TypeOK
  <2>2. CASE Delete(s)
    BY <1>7, <1>9, <2>1, <2>2 DEF Unloaded, StopRaises
  <2>3. CASE ~Delete(s)
    <3>1. EntryTyped' /\ FlowTyped'
      BY <1>1, <1>9, <2>3 DEF Unloaded, StopRaises, EntryTyped, FlowTyped, Goto, States
    <3> QED BY <1>1, <1>9, <2>1, <3>1 DEF Unloaded, StopRaises
  <2> QED BY <2>2, <2>3
<1>10. CASE SessionStep(s)
  <2>1. SessionTyped'
    BY <1>1, <1>10, SessionMoves DEF SessionStep, SessionTyped, Connected
  <2>2. Exists(s) /\ entries[s] \in Entry
    BY <1>1, <1>10 DEF SessionStep, SessionInv, EntryTyped, Exists
  <2> DEFINE r == [phase |-> "form", source |-> "reauth", key |-> None, address |-> entries[s].address]
  <2>3. r \in FlowRecord /\ r.phase = "form"
    BY <2>2 DEF FlowRecord, Entry, Phases
  <2>4. flow' = flow \/ flow' = [flow EXCEPT ![s] = r]
    BY <1>10 DEF SessionStep, ReauthRequested
  <2> HIDE DEF r
  <2>5. FlowTyped'
    BY <1>1, <1>10, <2>3, <2>4, FlowReplaced DEF FlowTyped, SessionStep
  <2> QED BY <1>1, <1>10, <2>1, <2>5 DEF SessionStep
<1>11. CASE Discovered(s) \/ Picked(s)
  <2>1. PICK k \in {None, key[s]} : Open(s, "new", k, where[s])
    BY <1>11 DEF Discovered, Picked
  <2> DEFINE r == [phase |-> "form", source |-> "new", key |-> k, address |-> where[s]]
  <2>2. r \in FlowRecord /\ r.phase = "form"
    BY <1>1 DEF FlowRecord, WorldTyped, Phases
  <2>3. flow' = [flow EXCEPT ![s] = r]
    BY <2>1 DEF Open
  <2> HIDE DEF r
  <2>4. FlowTyped'
    BY <1>1, <1>11, <2>2, <2>3, FlowReplaced DEF FlowTyped, Discovered, Picked, Discovery
  <2> QED BY <1>1, <1>11, <2>4 DEF Discovered, Picked, Discovery
<1>12. CASE DiscoveryAborts(s)
  <2>1. FlowTyped'
    BY <1>1, <1>12 DEF DiscoveryAborts, Discovery, FlowTyped
  <2> QED BY <1>1, <1>12, <2>1 DEF DiscoveryAborts, Discovery
<1>13. ASSUME NEW data \in Entry, Update(s, data), UNCHANGED <<state, removing, session, device, entities>>
       PROVE  EntryTyped'
  BY <1>1, <1>13 DEF Update, EntryTyped
<1>14. CASE Rediscovered(s)
  <2>1. [entries[s] EXCEPT !.address = where[s]] \in Entry
    BY <1>1, <1>14 DEF Rediscovered, Configured, Exists, EntryTyped, WorldTyped, Entry
  <2>2. EntryTyped'
    BY <1>13, <1>14, <2>1 DEF Rediscovered, Discovery
  <2>3. FlowTyped'
    BY <1>1, <1>14 DEF Rediscovered, Discovery, FlowTyped
  <2> QED BY <1>1, <1>14, <2>2, <2>3 DEF Rediscovered, Discovery
<1>15. CASE Submitted(s) \/ ListenTimesOut(s) \/ ValidationSucceeds(s) \/ ValidationFails(s)
  <2>1. PICK phase \in Phases : Enter(s, phase) /\ (phase \in {"validating", "finished"} => flow[s].key # None)
    BY <1>1, <1>15 DEF Submitted, ListenTimesOut, ValidationSucceeds, ValidationFails, InPhase, Phases, FlowTyped
  <2>2. FlowTyped'
    BY <1>1, <1>15, <2>1, FlowMoves
       DEF Submitted, ListenTimesOut, ValidationSucceeds, ValidationFails, FlowStep, FlowTyped
  <2> QED BY <1>1, <1>15, <2>2 DEF Submitted, ListenTimesOut, ValidationSucceeds, ValidationFails, FlowStep
<1>16. CASE Retried(s) \/ Heard(s)
  <2>1. PICK phase \in {"listen", "validating"}, k \in {None, key[s]} :
            /\ flow' = [flow EXCEPT ![s].phase = phase, ![s].key = k]
            /\ phase = "validating" => k = key[s]
    BY <1>16 DEF Retried, Heard
  <2>2. flow[s] \in FlowRecord /\ key[s] \in Key /\ key[s] # None
    BY <1>1 DEF FlowTyped, WorldTyped
  <2> DEFINE r == [flow[s] EXCEPT !.phase = phase, !.key = k]
  <2>3. r \in FlowRecord /\ (r.phase \in {"validating", "finished"} => r.key # None)
    BY <2>1, <2>2 DEF FlowRecord, Phases
  <2>4. flow' = [flow EXCEPT ![s] = r]
    BY <2>1
  <2> HIDE DEF r
  <2>5. FlowTyped'
    BY <1>1, <1>16, <2>3, <2>4, FlowReplaced DEF FlowTyped, Retried, Heard, FlowStep
  <2> QED BY <1>1, <1>16, <2>5 DEF Retried, Heard, FlowStep
<1>17. NoFlow \in FlowRecord /\ NoFlow.phase = "none"
  BY DEF NoFlow, FlowRecord, Phases, Address
<1>18. CASE Stored(s)
  <2>1. FlowTyped'
    BY <1>1, <1>17, <1>18, FlowReplaced DEF Stored, FlowTyped
  <2> DEFINE data == [key |-> flow[s].key, address |-> flow[s].address, version |-> 2]
  <2>2. data \in Entry
    BY <1>1, <1>18 DEF Stored, InPhase, FlowTyped, FlowRecord, Entry
  <2>3. Update(s, data) \/ UNCHANGED <<entries, reload>>
    BY <1>18 DEF Stored
  <2> HIDE DEF data
  <2>4. EntryTyped'
    BY <1>1, <1>13, <1>18, <2>2, <2>3 DEF Stored
  <2> QED BY <1>1, <1>18, <2>1, <2>4 DEF Stored
<1>19. CASE Dismissed(s)
  <2>1. FlowTyped'
    BY <1>1, <1>17, <1>19, FlowReplaced DEF Dismissed, FlowTyped
  <2> QED BY <1>1, <1>19, <2>1 DEF Dismissed
<1>20. CASE Rotated(s)
  <2>1. WorldTyped'
    BY <1>1, <1>20 DEF Rotated, WorldTyped, Key
  <2> QED BY <1>1, <1>20, <2>1 DEF Rotated
<1>21. CASE Moved(s)
  <2>1. WorldTyped' /\ FlowTyped'
    BY <1>1, <1>21 DEF Moved, WorldTyped, FlowTyped, Address
  <2> QED BY <1>1, <1>21, <2>1 DEF Moved
<1> QED BY <1>2, <1>3, <1>4, <1>5, <1>6, <1>8, <1>9, <1>10, <1>11, <1>12, <1>14, <1>15, <1>16,
           <1>18, <1>19, <1>20, <1>21
        DEF SwitchStep, HomeAssistant, TaskStep

(***************************************************************************)
(* The steps of a switch keep its part of the invariant.                   *)
(***************************************************************************)
\* Parts whose variables a step leaves alone.
LEMMA PartUnchanged ==
    ASSUME NEW s \in Switch
    PROVE  /\ UNCHANGED <<entries, state, session, entities, sessionVars>> /\ SessionInv(s) => SessionInv(s)'
           /\ UNCHANGED <<entries, state, started>> /\ VersionInv(s) => VersionInv(s)'
           /\ UNCHANGED <<entries, flow, where>> /\ AddressInv(s) => AddressInv(s)'
           /\ UNCHANGED <<entries, flow>> /\ FlowInv(s) => FlowInv(s)'
           /\ UNCHANGED <<entries, state, reload, session, device, entities>> /\ CurrentInv(s)
                  => CurrentInv(s)'
           /\ UNCHANGED <<state, shown, reload, flow, dismissed, inVain>> /\ RepairInv(s) => RepairInv(s)'
  BY DEF SessionInv, VersionInv, AddressInv, FlowInv, CurrentInv, RepairInv, Exists, sessionVars

\* Setup.
LEMMA SetupKeepsInv ==
    ASSUME TypeOK, NEW s \in Switch, SwitchInv(s),
           SetupForwards(s) \/ SetupNotReady(s) \/ EntitiesAdded(s) \/ SessionStarts(s)
    PROVE  SwitchInv(s)'
<1> USE PartUnchanged DEF SwitchInv, entryVars, flowVars, sessionVars, worldVars
<1>1. EntryTyped /\ FlowTyped /\ SessionTyped /\ WorldTyped
  BY TypeParts
<1>2. entries[s] \in Entry \cup {None}
  BY <1>1 DEF EntryTyped
<1>3. CASE SetupForwards(s)
  <2>1. /\ entries[s] \in Entry
        /\ entries'[s] = Migrated(s) /\ Migrated(s) \in Entry
        /\ Migrated(s).key = entries[s].key /\ Migrated(s).address = entries[s].address
        /\ Migrated(s).version = 2
    BY <1>1, <1>2, <1>3 DEF SetupForwards, Exists, Migrated, Entry, EntryTyped
  <2>2. /\ session'[s] = [key |-> entries[s].key, address |-> entries[s].address]
        /\ session'[s] # None
        /\ device'[s] \subseteq {entries[s].address}
        /\ state'[s] = "setting_up" /\ shown'[s] = "idle" /\ conn'[s] = "none"
        /\ UNCHANGED <<entities, flow, turn, where, started, reload>>
    BY <1>1, <1>3, <2>1 DEF SetupForwards, Session!Become, SessionTyped, Session!TypeOK, EntryTyped, Goto, Corrected,
       Entry, Credentials
  <2>3. turn # s /\ ~entities[s]
    BY <1>3 DEF SetupForwards, SessionInv
  <2>4. SessionInv(s)' /\ VersionInv(s)' /\ RepairInv(s)'
    BY <2>1, <2>2, <2>3 DEF SessionInv, VersionInv, RepairInv, Exists
  <2>5. AddressInv(s)' /\ FlowInv(s)'
    BY <2>1, <2>2 DEF AddressInv, FlowInv, Exists
  <2>6. CurrentInv(s)'
    BY <2>1, <2>2, <2>3 DEF CurrentInv
  <2> QED BY <2>4, <2>5, <2>6
<1>4. CASE SetupNotReady(s)
  <2>1. /\ entries[s] \in Entry
        /\ entries'[s] = Migrated(s) /\ Migrated(s) \in Entry
        /\ Migrated(s).key = entries[s].key /\ Migrated(s).address = entries[s].address
        /\ Migrated(s).version = 2
    BY <1>1, <1>2, <1>4 DEF SetupNotReady, Exists, Migrated, Entry, EntryTyped
  <2>2. /\ state[s] = "not_loaded" /\ state'[s] = "retry"
        /\ UNCHANGED <<session, entities, shown, conn, flow, turn, where, started>>
    BY <1>1, <1>4 DEF SetupNotReady, EntryTyped, Goto
  <2>3. SessionInv(s)' /\ VersionInv(s)' /\ RepairInv(s)'
    BY <2>1, <2>2 DEF SessionInv, VersionInv, RepairInv, Exists
  <2>4. AddressInv(s)' /\ FlowInv(s)' /\ CurrentInv(s)'
    BY <2>1, <2>2 DEF AddressInv, FlowInv, CurrentInv, Exists
  <2> QED BY <2>3, <2>4
<1>5. CASE EntitiesAdded(s)
  <2>1. /\ entities'[s] = TRUE /\ device'[s] = device[s] \cup {session[s].address}
        /\ state[s] = "setting_up"
        /\ UNCHANGED <<entries, state, reload, session, shown, turn, conn>>
    BY <1>1, <1>5 DEF EntitiesAdded, EntryTyped
  <2>2. SessionInv(s)'
    BY <2>1 DEF SessionInv, Exists
  <2>3. CurrentInv(s)'
    BY <1>2, <2>1 DEF CurrentInv, SessionInv, Entry
  <2> QED BY <1>5, <2>2, <2>3 DEF EntitiesAdded
<1>6. CASE SessionStarts(s)
  <2>1. /\ state[s] = "setting_up" /\ state'[s] = "loaded" /\ entities[s]
        /\ UNCHANGED <<entries, session, entities, device, reload, shown, turn, conn, started>>
    BY <1>1, <1>6 DEF SessionStarts, EntryTyped, Goto
  <2>2. SessionInv(s)' /\ VersionInv(s)' /\ CurrentInv(s)'
    BY <2>1 DEF SessionInv, VersionInv, CurrentInv, Exists
  <2>3. RepairInv(s)'
    BY <2>1 DEF SessionInv, RepairInv
  <2> QED BY <1>6, <2>2, <2>3 DEF SessionStarts
<1> QED BY <1>3, <1>4, <1>5, <1>6

\* Reload, unload and removal.
LEMMA UnloadKeepsInv ==
    ASSUME TypeOK, NEW s \in Switch, SwitchInv(s),
           \/ ReloadRefused(s) \/ UserReloads(s) \/ UnloadBegins(s) \/ PlatformsUnloaded(s)
           \/ StopGivesUp(s) \/ Unloaded(s) \/ StopRaises(s) \/ Removed(s)
    PROVE  SwitchInv(s)'
<1> USE PartUnchanged DEF SwitchInv, entryVars, flowVars, sessionVars, worldVars
<1>1. EntryTyped /\ FlowTyped /\ SessionTyped /\ WorldTyped
  BY TypeParts
<1>2. CASE ReloadRefused(s) \/ UserReloads(s)
  <2>1. /\ state[s] = "failed_unload" \/ reload'[s]
        /\ UNCHANGED <<entries, state, session, device, entities, flow, dismissed, inVain, shown,
                       turn, conn, started, where>>
    BY <1>1, <1>2 DEF ReloadRefused, UserReloads, EntryTyped
  <2>2. CurrentInv(s)' /\ RepairInv(s)'
    BY <2>1 DEF CurrentInv, RepairInv
  <2> QED BY <2>1, <2>2
<1>3. CASE UnloadBegins(s) \/ PlatformsUnloaded(s)
  <2>1. /\ \/ state[s] = "loaded" /\ state'[s] = "unloading"
           \/ state[s] = "unloading" /\ state'[s] = "stopping"
        /\ UNCHANGED <<entries, session, flow, dismissed, inVain, shown, turn, conn, started, where>>
    BY <1>1, <1>3 DEF UnloadBegins, PlatformsUnloaded, EntryTyped, Goto
  <2>2. SessionInv(s)' /\ VersionInv(s)' /\ CurrentInv(s)' /\ RepairInv(s)'
    BY <2>1 DEF SessionInv, VersionInv, CurrentInv, RepairInv, Exists
  <2> QED BY <2>1, <2>2
<1>4. CASE StopGivesUp(s)
  <2>1. SessionInv(s)'
    BY <1>1, <1>4 DEF StopGivesUp, SessionInv, Exists
  <2> QED BY <1>4, <2>1 DEF StopGivesUp
<1>5. ASSUME Delete(s), UNCHANGED worldVars,
             turn' # s, shown'[s] \in {"idle", "stopped"} \/ conn'[s] = "failed"
      PROVE  SwitchInv(s)'
  <2>1. /\ entries'[s] = None /\ state'[s] = "not_loaded" /\ session'[s] = None
        /\ entities'[s] = FALSE
        /\ flow'[s] = IF flow[s].source = "reauth" THEN NoFlow ELSE flow[s]
        /\ UNCHANGED <<started, where>>
    BY <1>1, <1>5 DEF Delete, EntryTyped, FlowTyped
  <2>2. SessionInv(s)' /\ VersionInv(s)' /\ CurrentInv(s)' /\ RepairInv(s)'
    BY <1>5, <2>1 DEF SessionInv, VersionInv, CurrentInv, RepairInv, Exists
  <2>3. where[s] \in Nat
    BY <1>1 DEF WorldTyped, Address
  <2>4. AddressInv(s)' /\ FlowInv(s)'
    BY <2>1, <2>3 DEF AddressInv, FlowInv, Exists, NoFlow
  <2> QED BY <2>2, <2>4
<1>6. CASE Removed(s)
  <2>1. turn # s /\ (shown[s] \in {"idle", "stopped"} \/ conn[s] = "failed")
    BY <1>6 DEF Removed, SessionInv
  <2> QED BY <1>5, <1>6, <2>1 DEF Removed
<1>7. CASE Unloaded(s) \/ StopRaises(s)
  <2>1. turn' # s /\ (shown'[s] = "stopped" \/ conn'[s] = "failed")
    BY <1>1, <1>7 DEF Unloaded, StopRaises, MustStop, Session!Stop, Session!Become, SessionTyped, Session!TypeOK
  <2>2. CASE Delete(s)
    BY <1>5, <1>7, <2>1, <2>2 DEF Unloaded, StopRaises
  <2>3. CASE ~Delete(s)
    <3>1. /\ state[s] = "stopping"
          /\ \/ state'[s] = "failed_unload"
             \/ state'[s] = "not_loaded" /\ ~entities[s]
          /\ UNCHANGED <<entries, session, device, entities, flow, started, where>>
      BY <1>1, <1>7, <2>3 DEF Unloaded, StopRaises, EntryTyped, Goto
    <3>2. SessionInv(s)' /\ VersionInv(s)' /\ CurrentInv(s)' /\ RepairInv(s)'
      BY <2>1, <3>1 DEF SessionInv, VersionInv, CurrentInv, RepairInv, Exists
    <3> QED BY <3>1, <3>2
  <2> QED BY <2>2, <2>3
<1> QED BY <1>2, <1>3, <1>4, <1>6, <1>7

\* The session.
LEMMA SessionKeepsInv ==
    ASSUME TypeOK, NEW s \in Switch, SwitchInv(s), SessionStep(s)
    PROVE  SwitchInv(s)'
<1> USE PartUnchanged DEF SwitchInv, entryVars, flowVars, sessionVars, worldVars
<1>1. EntryTyped /\ FlowTyped /\ SessionTyped /\ WorldTyped
  BY TypeParts
<1>2. state[s] \in {"loaded", "unloading"} /\ UNCHANGED <<entryVars, dismissed, inVain, worldVars>>
  BY DEF SessionStep
<1>3. SessionInv(s)'
  <2>1. conn'[s] # "failed"
    BY <1>1, <1>2 DEF SessionStep, Connected, SessionInv, SessionTyped
  <2> QED BY <1>2, <2>1 DEF SessionInv, Exists
<1>4. Exists(s) /\ entries[s] \in Entry /\ entries[s].version = 2 /\ flow[s].source # "new"
  BY <1>1, <1>2 DEF SessionInv, VersionInv, FlowInv, EntryTyped, Exists
<1> DEFINE r == [phase |-> "form", source |-> "reauth", key |-> None, address |-> entries[s].address]
<1>5. IF shown'[s] = "reauth" /\ shown[s] # "reauth" /\ flow[s] = NoFlow
      THEN flow' = [flow EXCEPT ![s] = r] /\ flow'[s] = r
      ELSE flow' = flow
  BY <1>1 DEF SessionStep, ReauthRequested, FlowTyped
<1>6. entries[s].key # None
  BY <1>4 DEF Entry
<1>7. AddressInv(s)' /\ FlowInv(s)'
  BY <1>2, <1>4, <1>5, <1>6 DEF AddressInv, FlowInv, Exists
<1>8. flow[s] = NoFlow \/ flow[s].source = "reauth"
  <2>1. flow[s].source \in {"none", "new", "reauth"}
    BY <1>1 DEF FlowTyped, FlowRecord
  <2> QED BY <1>4, <2>1 DEF FlowInv
<1>9. RepairInv(s)'
  BY <1>2, <1>5, <1>8 DEF RepairInv
<1> QED BY <1>2, <1>3, <1>7, <1>9

\* The flows: discovery and the dialogue.
LEMMA DiscoveryKeepsInv ==
    ASSUME TypeOK, NEW s \in Switch, SwitchInv(s),
           Discovered(s) \/ Picked(s) \/ Rediscovered(s) \/ DiscoveryAborts(s)
    PROVE  SwitchInv(s)'
<1> USE PartUnchanged DEF SwitchInv, entryVars, flowVars, sessionVars, worldVars, Discovery
<1>1. EntryTyped /\ FlowTyped /\ SessionTyped /\ WorldTyped
  BY TypeParts
<1>2. CASE Discovered(s) \/ Picked(s)
  <2>1. PICK k \in {None, key[s]} : Open(s, "new", k, where[s])
    BY <1>2 DEF Discovered, Picked
  <2> DEFINE r == [phase |-> "form", source |-> "new", key |-> k, address |-> where[s]]
  <2>2. flow'[s] = r
    BY <1>1, <2>1 DEF Open, FlowTyped
  <2>3. started /\ ~Configured(s) /\ flow[s] = NoFlow
    BY <1>2 DEF Discovered, Picked, MayDiscover
  <2>4. ~Exists(s)
    BY <2>3 DEF Configured, VersionInv
  <2>5. UNCHANGED <<entries, state, reload, session, device, entities, dismissed, inVain, where,
                  started, shown, turn, conn>>
    BY <1>2 DEF Discovered, Picked
  <2>6. where[s] \in Nat
    BY <1>1 DEF WorldTyped, Address
  <2>7. AddressInv(s)' /\ FlowInv(s)'
    BY <2>2, <2>4, <2>5, <2>6 DEF AddressInv, FlowInv, Exists
  <2>8. RepairInv(s)'
    BY <2>4, <2>5 DEF RepairInv, SessionInv, Exists
  <2> QED BY <2>5, <2>7, <2>8
<1>3. CASE Rediscovered(s)
  <2> DEFINE data == [entries[s] EXCEPT !.address = where[s]]
  <2>1. entries[s] \in Entry /\ where[s] \in Nat
    BY <1>1, <1>3 DEF Rediscovered, Configured, Exists, EntryTyped, WorldTyped, Address
  <2>2. /\ data \in Entry /\ data.key = entries[s].key /\ data.version = entries[s].version
        /\ data.address = where[s]
    BY <1>1, <2>1 DEF Entry, WorldTyped
  <2>3. /\ Update(s, data) /\ flow[s] = NoFlow
        /\ UNCHANGED <<state, session, device, entities, dismissed, inVain, where, started, shown, turn,
                       conn, flow>>
    BY <1>3 DEF Rediscovered, MayDiscover
  <2> HIDE DEF data
  <2>4. entries'[s] = data /\ reload'[s] = (reload[s] \/ (Listens(s) /\ data # entries[s]))
    BY <1>1, <2>3 DEF Update, EntryTyped
  <2>5. SessionInv(s)' /\ VersionInv(s)'
    BY <2>1, <2>2, <2>3, <2>4 DEF SessionInv, VersionInv, Exists
  <2>6. AddressInv(s)' /\ FlowInv(s)'
    BY <2>1, <2>2, <2>3, <2>4 DEF AddressInv, FlowInv, Exists, NoFlow
  <2>7. CurrentInv(s)' /\ RepairInv(s)'
    BY <2>3, <2>4 DEF CurrentInv, RepairInv, Listens
  <2> QED BY <2>5, <2>6, <2>7
<1> QED BY <1>2, <1>3 DEF DiscoveryAborts

\* A step that only moves a flow on keeps what the flow knows of its entry.
LEMMA FlowKeepsInv ==
    ASSUME TypeOK, NEW s \in Switch, SwitchInv(s),
           UNCHANGED <<entries, state, reload, session, device, entities, inVain, shown, turn, conn,
                       started, where>>,
           \/ flow'[s] = NoFlow /\ (dismissed'[s] = (dismissed[s] \/ flow[s].source = "reauth"))
           \/ /\ flow[s] # NoFlow
              /\ flow'[s].source = flow[s].source /\ flow'[s].address = flow[s].address
              /\ UNCHANGED dismissed
    PROVE  SwitchInv(s)'
<1> USE PartUnchanged DEF SwitchInv, sessionVars
<1>1. EntryTyped /\ FlowTyped /\ WorldTyped
  BY TypeParts
<1>2. where[s] \in Nat
  BY <1>1 DEF WorldTyped, Address
<1>3. AddressInv(s)'
  BY <1>2 DEF AddressInv, Exists, NoFlow
<1>4. FlowInv(s)'
  BY DEF FlowInv, Exists, NoFlow
<1>5. RepairInv(s)'
  BY DEF RepairInv
<1> QED BY <1>3, <1>4, <1>5

\* A result is stored.
LEMMA StoredKeepsInv ==
    ASSUME TypeOK, NEW s \in Switch, SwitchInv(s), Stored(s)
    PROVE  /\ SwitchInv(s)'
           /\ Exists(s) /\ Exists(s)' => entries'[s].address = entries[s].address
<1> USE PartUnchanged DEF SwitchInv, sessionVars, worldVars
<1>1. EntryTyped /\ FlowTyped /\ SessionTyped /\ WorldTyped
  BY TypeParts
<1> DEFINE data == [key |-> flow[s].key, address |-> flow[s].address, version |-> 2]
<1>2. /\ flow[s] \in FlowRecord /\ flow[s].phase = "finished" /\ flow[s].key # None
      /\ flow'[s] = NoFlow /\ where[s] \in Nat
      /\ UNCHANGED <<state, session, device, entities, dismissed, shown, turn, conn, started, where>>
  BY <1>1 DEF Stored, InPhase, FlowTyped, WorldTyped, Address
<1>3. /\ data \in Entry /\ data.key = flow[s].key /\ data.address = flow[s].address
      /\ data.version = 2
  BY <1>2 DEF FlowRecord, Entry
<1>4. flow[s].source \in {"new", "reauth"}
  BY <1>2 DEF FlowInv, FlowRecord, NoFlow
<1>5. Update(s, data)
  BY <1>4 DEF Stored, FlowInv, Configured
<1> HIDE DEF data
<1>6. entries'[s] = data /\ reload'[s] = (reload[s] \/ (Listens(s) /\ data # entries[s]))
  BY <1>1, <1>5 DEF Update, EntryTyped
<1>7. data # None
  BY <1>3
<1>8. SessionInv(s)' /\ VersionInv(s)'
  BY <1>2, <1>3, <1>6, <1>7 DEF SessionInv, VersionInv, Exists
<1>9. AddressInv(s)' /\ FlowInv(s)'
  BY <1>2, <1>3, <1>6, <1>7 DEF AddressInv, FlowInv, Exists, NoFlow
<1>10. CurrentInv(s)'
  BY <1>2, <1>3, <1>6 DEF CurrentInv, Listens
<1>11. RepairInv(s)'
  <2>1. ASSUME flow[s].source = "reauth", state[s] = "loaded" PROVE reload'[s] \/ inVain'[s]
    <3>1. inVain'[s] = (inVain[s] \/ data = entries[s])
      BY <1>1, <2>1 DEF Stored, FlowTyped, data
    <3> QED BY <1>6, <2>1, <3>1 DEF Listens
  <2>2. ASSUME state[s] = "loaded" PROVE flow[s].source = "reauth"
    BY <1>4, <2>2 DEF SessionInv, FlowInv
  <2> QED BY <1>2, <1>6, <2>1, <2>2 DEF RepairInv
<1>12. Exists(s) => entries'[s].address = entries[s].address
  BY <1>3, <1>4, <1>6 DEF FlowInv
<1> QED BY <1>8, <1>9, <1>10, <1>11, <1>12

\* Every step of a switch.
LEMMA SwitchKeepsInv ==
    ASSUME TypeOK, NEW s \in Switch, SwitchInv(s), SwitchStep(s)
    PROVE  SwitchInv(s)'
<1>1. EntryTyped /\ FlowTyped /\ WorldTyped
  BY TypeParts
<1>2. flow[s] \in FlowRecord
  BY <1>1 DEF FlowTyped
<1>3. CASE \/ Submitted(s) \/ Retried(s) \/ Heard(s) \/ ListenTimesOut(s)
           \/ ValidationSucceeds(s) \/ ValidationFails(s)
  <2> USE DEF Submitted, Retried, Heard, ListenTimesOut, ValidationSucceeds, ValidationFails
  <2>1. flow[s] # NoFlow
    BY <1>3 DEF InPhase, NoFlow
  <2>2. /\ flow'[s].source = flow[s].source /\ flow'[s].address = flow[s].address
    BY <1>1, <1>2, <1>3 DEF Enter, FlowTyped, FlowRecord
  <2>3. UNCHANGED <<entries, state, reload, session, device, entities, dismissed, inVain, shown, turn,
                    conn, started, where>>
    BY <1>3 DEF FlowStep, entryVars, sessionVars, worldVars
  <2> QED BY <2>1, <2>2, <2>3, FlowKeepsInv
<1>4. CASE Dismissed(s)
  <2>1. flow'[s] = NoFlow /\ dismissed'[s] = (dismissed[s] \/ flow[s].source = "reauth")
    BY <1>1, <1>4 DEF Dismissed, FlowTyped
  <2>2. UNCHANGED <<entries, state, reload, session, device, entities, inVain, shown, turn, conn,
                    started, where>>
    BY <1>4 DEF Dismissed, entryVars, sessionVars, worldVars
  <2> QED BY <2>1, <2>2, FlowKeepsInv
<1>5. CASE Rotated(s)
  BY <1>5, PartUnchanged DEF SwitchInv, Rotated, entryVars, flowVars, sessionVars
<1>6. CASE Moved(s)
  <2>1. /\ UNCHANGED <<entryVars, flow, dismissed, inVain, sessionVars, started>>
        /\ where[s] \in Nat /\ where'[s] = where[s] + 1
    BY <1>1, <1>6 DEF Moved, WorldTyped, Address
  <2>2. flow[s].address \in Nat /\ (Exists(s) => entries[s].address \in Nat)
    BY <1>1, <1>2 DEF FlowRecord, Address, Exists, EntryTyped, Entry
  <2>3. AddressInv(s)'
    BY <2>1, <2>2 DEF AddressInv, SwitchInv, Exists, entryVars
  <2> QED BY <2>1, <2>3, PartUnchanged DEF SwitchInv, entryVars, sessionVars
<1> QED BY <1>3, <1>4, <1>5, <1>6, SetupKeepsInv, UnloadKeepsInv, SessionKeepsInv,
           DiscoveryKeepsInv, StoredKeepsInv
        DEF SwitchStep, HomeAssistant, TaskStep

\* The state of one switch.
Alone(s) == <<entries[s], state[s], reload[s], session[s], device[s], entities[s], flow[s],
              dismissed[s], inVain[s], shown[s], conn[s], where[s]>>

\* A step of a switch leaves the others alone; it may take the turn or give
\* it back.
LEMMA OthersUntouched ==
    ASSUME TypeOK, NEW s \in Switch, SwitchStep(s), NEW t \in Switch, t # s
    PROVE  /\ Alone(t)' = Alone(t)
           /\ turn' = t => turn = t
           /\ started' = started
<1> USE DEF SwitchStep, Alone, entryVars, flowVars, sessionVars, worldVars
<1>1. EntryTyped /\ FlowTyped /\ SessionTyped /\ WorldTyped
  BY TypeParts
<1> USE DEF EntryTyped, FlowTyped, SessionTyped, WorldTyped, Session!TypeOK
<1>2. CASE \/ SetupForwards(s) \/ SetupNotReady(s) \/ EntitiesAdded(s) \/ SessionStarts(s)
  BY <1>1, <1>2 DEF SetupForwards, SetupNotReady, EntitiesAdded, SessionStarts, Goto, Session!Become
<1>3. CASE ReloadRefused(s) \/ UserReloads(s) \/ UnloadBegins(s) \/ PlatformsUnloaded(s)
  BY <1>1, <1>3 DEF ReloadRefused, UserReloads, UnloadBegins, PlatformsUnloaded, Goto
<1>4. CASE StopGivesUp(s)
  BY <1>1, <1>4 DEF StopGivesUp, Session!GiveUp
<1>5. CASE Unloaded(s) \/ StopRaises(s) \/ Removed(s)
  BY <1>1, <1>5 DEF Unloaded, StopRaises, Removed, Delete, MustStop, Session!Stop, Session!Become, Goto
<1>6. CASE SessionStep(s)
  <2>1. shown'[t] = shown[t] /\ (turn' = t => turn = t)
    BY <1>1, <1>6 DEF SessionStep, SessionAction, Session!TakeTurn, Session!Succeed, Session!GiveUp,
       Session!GoOffline, Session!RequireReauth, Session!Become
  <2> QED BY <1>1, <1>6, <2>1 DEF SessionStep, ReauthRequested, Connected
<1>7. CASE Discovered(s) \/ Rediscovered(s) \/ DiscoveryAborts(s) \/ Picked(s)
  BY <1>1, <1>7 DEF Discovered, Rediscovered, DiscoveryAborts, Picked, Discovery, Open, Update
<1>8. CASE Submitted(s) \/ Retried(s) \/ Heard(s) \/ Dismissed(s)
  BY <1>1, <1>8 DEF Submitted, Retried, Heard, Dismissed, FlowStep, Enter
<1>9. CASE TaskStep(s)
  BY <1>1, <1>9 DEF TaskStep, ListenTimesOut, ValidationSucceeds, ValidationFails, Stored, Update,
     FlowStep, Enter
<1>10. CASE Rotated(s) \/ Moved(s)
  BY <1>1, <1>10 DEF Rotated, Moved
<1> QED BY <1>2, <1>3, <1>4, <1>5, <1>6, <1>7, <1>8, <1>9, <1>10 DEF HomeAssistant

\* What a switch that is left alone keeps.
LEMMA AloneKeepsInv ==
    ASSUME NEW t \in Switch, SwitchInv(t), Alone(t)' = Alone(t), turn' = t => turn = t,
           started' = started \/ VersionInv(t)'
    PROVE  SwitchInv(t)'
<1>1. /\ entries'[t] = entries[t] /\ state'[t] = state[t] /\ reload'[t] = reload[t]
      /\ session'[t] = session[t] /\ device'[t] = device[t] /\ entities'[t] = entities[t]
      /\ flow'[t] = flow[t] /\ dismissed'[t] = dismissed[t] /\ inVain'[t] = inVain[t]
      /\ shown'[t] = shown[t] /\ conn'[t] = conn[t]
      /\ where'[t] = where[t]
  BY DEF Alone
<1>2. SessionInv(t)' /\ VersionInv(t)' /\ AddressInv(t)'
  BY <1>1 DEF SwitchInv, SessionInv, VersionInv, AddressInv, Exists
<1>3. FlowInv(t)' /\ CurrentInv(t)' /\ RepairInv(t)'
  BY <1>1 DEF SwitchInv, FlowInv, CurrentInv, RepairInv, Exists
<1> QED BY <1>2, <1>3 DEF SwitchInv

\* Home Assistant starts in the invariant.
LEMMA InvInit == Init => IInv
<1> SUFFICES ASSUME Init PROVE IInv
  OBVIOUS
<1>1. ASSUME NEW s \in Switch PROVE SwitchInv(s)
  <2>1. /\ state[s] = "not_loaded" /\ session[s] = None /\ ~entities[s] /\ flow[s] = NoFlow
        /\ shown[s] = "stopped" /\ turn # s /\ ~started
        /\ where[s] \in Nat /\ (Exists(s) => entries[s].address <= where[s])
    BY DEF Init, Address, Exists
  <2> QED BY <2>1 DEF SwitchInv, SessionInv, VersionInv, AddressInv, FlowInv, CurrentInv, RepairInv, NoFlow
<1> QED BY <1>1, TypeInit DEF IInv

\* Every step keeps the invariant.
LEMMA InvStep == IInv /\ [Next]_vars => IInv'
<1> SUFFICES ASSUME IInv, [Next]_vars PROVE IInv'
  OBVIOUS
<1> USE DEF IInv
<1>1. ASSUME NEW s \in Switch, SwitchStep(s) PROVE IInv'
  <2>1. TypeOK'
    BY <1>1, TypeSwitch DEF SwitchInv
  <2>2. ASSUME NEW t \in Switch PROVE SwitchInv(t)'
    <3>1. CASE t = s
      BY <1>1, <3>1, SwitchKeepsInv
    <3>2. CASE t # s
      BY <1>1, <3>2, OthersUntouched, AloneKeepsInv
    <3> QED BY <3>1, <3>2
  <2> QED BY <2>1, <2>2
<1>2. CASE StartCompletes
  <2>1. TypeOK'
    <3>1. WorldTyped'
      BY <1>2, TypeParts DEF StartCompletes, WorldTyped
    <3> QED BY <1>2, <3>1, TypeParts, TypeUnchanged DEF StartCompletes
  <2>2. ASSUME NEW t \in Switch PROVE SwitchInv(t)'
    <3>1. VersionInv(t)'
      BY <1>2 DEF StartCompletes, SwitchInv, VersionInv, Exists, entryVars
    <3> QED BY <1>2, <3>1, AloneKeepsInv DEF StartCompletes, Alone, entryVars, flowVars, sessionVars
  <2> QED BY <2>1, <2>2
<1>3. CASE UNCHANGED vars
  <2>1. UNCHANGED <<entryVars, flowVars, sessionVars, worldVars>>
    BY <1>3 DEF vars
  <2>2. TypeOK'
    BY <2>1, TypeParts, TypeUnchanged
  <2>3. ASSUME NEW t \in Switch PROVE SwitchInv(t)'
    BY <2>1, AloneKeepsInv DEF Alone, entryVars, flowVars, sessionVars, worldVars
  <2> QED BY <2>2, <2>3
<1> QED BY <1>1, <1>2, <1>3 DEF Next, SwitchStep

(***************************************************************************)
(* The theorems.                                                           *)
(***************************************************************************)
\* The invariant holds throughout.
LEMMA InvHolds == Spec => []IInv
  BY InvInit, InvStep, PTL DEF Spec

\* Every variable stays in its range: what a flow validates or stores is a
\* key, and what an entry stores is an address that the switch may have.
THEOREM TypeCorrect == Spec => []TypeOK
<1>1. IInv => TypeOK
  BY DEF IInv
<1> QED BY <1>1, InvHolds, PTL

\* A session is at work only while its entry is loaded or unloaded, unless its
\* async_stop raised an exception; in a loaded entry its entities have
\* subscribed before it; and after any unload it does not hold the turn.
THEOREM WorksWithinEntryHolds == Spec => []WorksWithinEntry
<1>1. IInv => WorksWithinEntry
  BY DEF IInv, SwitchInv, SessionInv, WorksWithinEntry
<1> QED BY <1>1, InvHolds, PTL

\* No flow adds a switch that has an entry, and a reauthentication stores the
\* address that the entry has at that time.
THEOREM FlowFitsEntryHolds == Spec => []FlowFitsEntry
<1>1. IInv => FlowFitsEntry
  BY DEF IInv, SwitchInv, FlowInv, FlowFitsEntry, Configured
<1> QED BY <1>1, InvHolds, PTL

\* However updates, setups, reloads and flows overlap, a loaded entry runs
\* with what it has stored, or will be reloaded.
THEOREM LoadedIsCurrentHolds == Spec => []LoadedIsCurrent
<1>1. IInv => LoadedIsCurrent
  BY DEF IInv, SwitchInv, SessionInv, CurrentInv, LoadedIsCurrent
<1> QED BY <1>1, InvHolds, PTL

\* A session that asks for a reauthentication, however setups, reloads, flows
\* and new keys overlap, has a flow, a reload ahead, a user who closed the flow,
\* or a flow behind it that heard the credentials the entry has already.
THEOREM RepairableHolds == Spec => []Repairable
<1>1. IInv => Repairable
  BY DEF IInv, SwitchInv, RepairInv, Repairable
<1> QED BY <1>1, InvHolds, PTL

\* No discovery or flow takes an entry back to an earlier address.
THEOREM AddressNeverRevertsHolds == Spec => AddressNeverReverts
<1> DEFINE Grows == \A s \in Switch :
          entries[s] # None /\ entries'[s] # None
              => entries'[s].address >= entries[s].address
<1>1. IInv /\ [Next]_vars => [Grows]_vars
  <2> SUFFICES ASSUME IInv, Next PROVE Grows
    BY DEF vars, entryVars
  <2>1. EntryTyped /\ FlowTyped /\ WorldTyped /\ \A s \in Switch : SwitchInv(s)
    BY TypeParts DEF IInv
  <2>2. ASSUME NEW t \in Switch, Exists(t) PROVE entries[t] \in Entry /\ entries[t].address \in Nat
    BY <2>1, <2>2 DEF EntryTyped, Exists, Entry, Address
  <2>3. ASSUME NEW s \in Switch, SwitchStep(s), entries[s] # None, entries'[s] # None
        PROVE  entries'[s].address >= entries[s].address
    <3>1. entries[s] \in Entry /\ entries[s].address \in Nat
      BY <2>2, <2>3 DEF Exists
    <3>2. CASE SetupForwards(s) \/ SetupNotReady(s)
      BY <2>1, <3>1, <3>2 DEF SetupForwards, SetupNotReady, Migrated, EntryTyped, Entry
    <3>3. CASE Rediscovered(s)
      <4>1. entries'[s].address = where[s]
        BY <2>1, <3>1, <3>3 DEF Rediscovered, Update, EntryTyped, Entry
      <4>2. entries[s].address <= where[s] /\ where[s] \in Nat
        BY <2>1, <2>3 DEF SwitchInv, AddressInv, Exists, WorldTyped, Address
      <4> QED BY <3>1, <4>1, <4>2
    <3>4. CASE Stored(s)
      BY <2>1, <2>3, <3>1, <3>4, StoredKeepsInv DEF IInv, Exists
    <3>5. CASE Delete(s)
      BY <2>1, <2>3, <3>5 DEF Delete, EntryTyped
    <3>6. CASE entries' = entries
      BY <3>1, <3>6
    <3>7. \/ SetupForwards(s) \/ SetupNotReady(s) \/ Rediscovered(s) \/ Stored(s) \/ Delete(s)
          \/ entries' = entries
      BY <2>3 DEF SwitchStep, HomeAssistant, TaskStep, EntitiesAdded, SessionStarts, ReloadRefused,
         PlatformsUnloaded, StopGivesUp, Unloaded, StopRaises, UnloadBegins, UserReloads, Removed, SessionStep,
         Discovered, DiscoveryAborts, Picked, Submitted, Retried, Heard, ListenTimesOut,
         ValidationSucceeds, ValidationFails, FlowStep, Dismissed, Rotated, Moved, entryVars
    <3> QED BY <3>2, <3>3, <3>4, <3>5, <3>6, <3>7
  <2>4. ASSUME NEW s \in Switch, SwitchStep(s) PROVE Grows
    <3> SUFFICES ASSUME NEW t \in Switch, entries[t] # None, entries'[t] # None
                 PROVE  entries'[t].address >= entries[t].address
      OBVIOUS
    <3>1. CASE t = s
      BY <2>3, <2>4, <3>1
    <3>2. CASE t # s
      <4>1. entries'[t] = entries[t]
        BY <2>4, <3>2, OthersUntouched DEF IInv, Alone
      <4> QED BY <2>2, <4>1 DEF Exists
    <3> QED BY <3>1, <3>2
  <2>5. CASE StartCompletes
    <3>1. entries' = entries
      BY <2>5 DEF StartCompletes, entryVars
    <3> QED BY <2>2, <3>1 DEF Exists
  <2> QED BY <2>4, <2>5 DEF Next, SwitchStep
<1> QED BY <1>1, InvHolds, PTL DEF Spec, AddressNeverReverts
=============================================================================

--------------------- MODULE PairLinkConfigFlow_proofs ---------------------
(***************************************************************************)
(* Proofs about PairLinkConfigFlow, for any number of flows and switches,   *)
(* and any number of open flows, rotations and attempts.                    *)
(***************************************************************************)
EXTENDS PairLinkConfigFlow, PairLinkConnection_proofs

USE FlowAssumption, AttemptsAssumption, BoundAssumption, NoneAssumption
    DEF FlowAssumption, AttemptsAssumption, BoundAssumption, NoneAssumption

(***************************************************************************)
(* The inductive invariant, of each flow.                                  *)
(***************************************************************************)
\* The credentials of the flow count: they are or were validated.
Holds(f) ==
    \/ pc[f] \in HandshakePcs \cup ClosePcs
    \/ pc[f] = "finished" /\ outcome[f] = "ok"

\* The switch has answered LOGIN for them.
Answered(f) ==
    \/ pc[f] \in {"write_welcome", "delay", "write_status"}
    \/ pc[f] \in ClosePcs /\ verdict[f] = "ok"
    \/ pc[f] = "finished" /\ outcome[f] = "ok"

\* A flow that has begun knows its switch and the address.
TargetInv(f) ==
    pc[f] \notin {"idle", "gone"} => target[f] \in Switch /\ address[f] \in Address

\* The verdict is kept only while the connection is closed.
VerdictInv(f) == pc[f] \notin ClosePcs => verdict[f] = "none"

CredentialsInv(f) == Holds(f) => credentials[f] \in Credentials

AcceptedInv(f) == Answered(f) => credentials[f].key \in accepted[target[f]]

\* The handshake past its first await has a client, so the close that follows
\* it finds the link to release.
LinkInv(f) ==
    /\ pc[f] \notin (HandshakePcs \ {"establish"}) \cup ClosePcs => link[f] = "down"
    /\ pc[f] \in HandshakePcs \ {"establish"} => client[f]

\* The entry of a reauthentication is there, and what will be stored has its
\* light ID.
LightInv(f) ==
    IsOpen(f) /\ source[f] = "reauth" =>
        /\ Configured(target[f])
        /\ Holds(f) => credentials[f].light = entries[target[f]].light

FlowInv(f) ==
    /\ TargetInv(f) /\ VerdictInv(f) /\ CredentialsInv(f)
    /\ AcceptedInv(f) /\ LinkInv(f) /\ LightInv(f)

\* Home Assistant lets at most one flow work on a switch.
OneFlowPerSwitch ==
    \A f, g \in Flow :
        IsOpen(f) /\ IsOpen(g) /\ target[f] = target[g] => f = g

IInv ==
    /\ TypeOK
    /\ \A f \in Flow : FlowInv(f)
    /\ EntryWasAccepted
    /\ OneFlowPerSwitch

(***************************************************************************)
(* Types, of the awaits, the flows and the world.                          *)
(***************************************************************************)
PcTyped == DOMAIN pc = Party /\ \A f \in Flow : pc[f] \in FlowPcs

FlowTyped ==
    /\ source \in [Flow -> {"none", "user", "bluetooth", "reauth"}]
    /\ target \in [Flow -> Switch \cup {None}]
    /\ address \in [Flow -> Address \cup {None}]
    /\ registration \in [Flow -> Key \cup {None}]
    /\ credentials \in [Flow -> Credentials \cup {None}]
    /\ attempt \in [Flow -> 0..(Attempts - 1)]
    /\ verdict \in [Flow -> Verdicts]
    /\ left \in [Flow -> BOOLEAN]
    /\ outcome \in [Flow -> Errors \cup {"none", "ok"}]

WorldTyped ==
    /\ entries \in [Switch -> Entry \cup {None}]
    /\ key \in [Switch -> Key]
    /\ accepted \in [Switch -> SUBSET Key]

\* The type invariant, cut into parts that a step leaves alone together.
LEMMA TypeParts ==
    /\ TypeOK <=> ConnectionTypeOK /\ PcTyped /\ FlowTyped /\ WorldTyped
    /\ TypeOK' <=> ConnectionTypeOK' /\ PcTyped' /\ FlowTyped' /\ WorldTyped'
  BY DEF TypeOK, PcTyped, FlowTyped, WorldTyped

\* What a step leaves alone stays in range.
LEMMA TypeUnchanged ==
    /\ UNCHANGED connectionVars => ConnectionTypeOK' = ConnectionTypeOK
    /\ UNCHANGED pc => PcTyped' = PcTyped
    /\ UNCHANGED flowVars => FlowTyped' = FlowTyped
    /\ UNCHANGED worldVars => WorldTyped' = WorldTyped
  BY DEF ConnectionTypeOK, PcTyped, FlowTyped, WorldTyped, connectionVars, flowVars, worldVars

\* The awaits of a flow, spelt out.
LEMMA FlowPcNames ==
    FlowPcs = {"idle", "confirm", "listen", "stop_notify", "disconnect", "finished", "retry", "gone",
               "establish", "start_notify", "write_login", "login_response", "write_welcome",
               "delay", "write_status"}
  BY HandshakeNames DEF FlowPcs, ClosePcs

\* A flow moves to another await.
LEMMA PcMoves ==
    ASSUME PcTyped, NEW f \in Flow, NEW step \in FlowPcs, Goto(f, step)
    PROVE  PcTyped' /\ pc'[f] = step /\ \A g \in Flow \ {f} : pc'[g] = pc[g]
  BY DEF PcTyped, Goto

\* A key is a number, and a light ID is chosen from the entries or anew.
LEMMA LightChoicesTyped ==
    ASSUME TypeOK, NEW f \in Flow, target[f] \in Switch
    PROVE  LightChoices(f) \subseteq LightId
<1>1. \A s \in Switch : Configured(s) => entries[s].light \in LightId
  BY DEF TypeOK, Configured, Entry
<1> QED BY <1>1 DEF LightChoices

\* What an attempt leads to, in range.
LEMMA ConcludeTyped ==
    ASSUME PcTyped, FlowTyped, NEW f \in Flow, NEW v \in Verdicts, Conclude(f, v),
           left' \in [Flow -> BOOLEAN]
    PROVE  PcTyped' /\ FlowTyped' /\ UNCHANGED worldVars
<1>1. PcTyped'
  BY HandshakeNames DEF Conclude, Finish, Goto, PcTyped, FlowPcs
<1>2. ErrorOf(v) \in Errors
  BY DEF ErrorOf, Errors
<1>3. attempt' \in [Flow -> 0..(Attempts - 1)]
  <2>1. CASE attempt' = attempt
    BY <2>1 DEF FlowTyped
  <2>2. CASE ~IsLastAttempt(f) /\ attempt' = [attempt EXCEPT ![f] = @ + 1]
    BY <2>2 DEF IsLastAttempt, FlowTyped
  <2> QED BY <2>1, <2>2 DEF Conclude
<1>4. outcome' \in [Flow -> Errors \cup {"none", "ok"}]
  BY <1>2 DEF Conclude, Finish, FlowTyped
<1>5. FlowTyped'
  BY <1>3, <1>4 DEF Conclude, FlowTyped, Verdicts
<1> QED BY <1>1, <1>5 DEF Conclude

\* A close of the flow, in range.
LEMMA CloseTyped ==
    ASSUME TypeOK, NEW f \in Flow, NEW v \in Verdicts, Close(f, v)
    PROVE  TypeOK'
<1>1. ConnectionTypeOK /\ PcTyped /\ FlowTyped /\ WorldTyped
  BY TypeParts
<1>2. CASE NeedsRelease(f)
  <2>1. ConnectionTypeOK'
    BY <1>1, <1>2, ConnectionTyped DEF Close
  <2>2. PcTyped'
    BY <1>1, <1>2, FlowPcNames DEF Close, Goto, PcTyped
  <2>3. FlowTyped'
    BY <1>1, <1>2 DEF Close, FlowTyped
  <2> QED BY <1>1, <1>2, <2>1, <2>2, <2>3, TypeParts, TypeUnchanged DEF Close
<1>3. CASE ~NeedsRelease(f)
  <2>1. ConnectionTypeOK'
    BY <1>1, <1>3, ConnectionTyped DEF Close
  <2>2. Conclude(f, v) /\ left' \in [Flow -> BOOLEAN]
    BY <1>1, <1>3 DEF Close, FlowTyped
  <2> QED BY <1>1, <2>1, <2>2, ConcludeTyped, TypeParts, TypeUnchanged
<1> QED BY <1>2, <1>3

\* A close that breaks off, in range.
LEMMA BreaksOffTyped ==
    ASSUME ConnectionTypeOK, FlowTyped, NEW f \in Flow, CloseBreaksOff(f)
    PROVE  ConnectionTypeOK' /\ left' \in [Flow -> BOOLEAN]
<1>1. ConnectionTypeOK'
  BY DEF CloseBreaksOff, ConnectionTypeOK, LinkStates
<1>2. PICK b \in BOOLEAN : left' = [left EXCEPT ![f] = b]
  <2>1. \A b : (left[f] \/ b) \in BOOLEAN
    BY DEF FlowTyped
  <2> QED BY DEF CloseBreaksOff
<1>3. left' \in [Flow -> BOOLEAN]
  BY <1>2 DEF FlowTyped
<1> QED BY <1>1, <1>3

\* What the flow with its task does.
FlowStep(f) ==
    \/ \E s \in Switch, a \in Address :
          Discovered(f, s, a) \/ Rediscovered(f, s, a) \/ Picked(f, s, a)
    \/ \E s \in Switch : ReauthBegins(f, s)
    \/ Submit(f) \/ Heard(f) \/ TaskStep(f) \/ Abandon(f) \/ LinkLost(f) \/ LeftLinkEnds(f)

\* The validation begins, in range.
LEMMA ValidateTyped ==
    ASSUME TypeOK, NEW f \in Flow, target[f] \in Switch, NEW k \in Key, Validate(f, k),
           UNCHANGED registration
    PROVE  TypeOK'
<1>1. ConnectionTypeOK /\ PcTyped /\ FlowTyped /\ WorldTyped
  BY TypeParts
<1>2. PICK l \in LightId : credentials' = [credentials EXCEPT ![f] = [key |-> k, light |-> l]]
  BY LightChoicesTyped DEF Validate
<1>3. ConnectionTypeOK'
  BY <1>1, ConnectionTyped DEF Validate
<1>4. PcTyped'
  BY <1>1, HandshakeNames DEF Validate, Goto, PcTyped, FlowPcs
<1>5. FlowTyped'
  BY <1>1, <1>2 DEF Validate, FlowTyped, Credentials
<1> QED BY <1>1, <1>3, <1>4, <1>5, TypeParts, TypeUnchanged DEF Validate

\* Every step of a flow keeps everything in range.
LEMMA TypeFlow ==
    ASSUME TypeOK, NEW f \in Flow, FlowInv(f), FlowStep(f)
    PROVE  TypeOK'
<1>1. ConnectionTypeOK /\ PcTyped /\ FlowTyped /\ WorldTyped
  BY TypeParts
<1> USE TypeUnchanged, FlowPcNames DEF FlowInv
<1>2. SUFFICES ConnectionTypeOK' /\ PcTyped' /\ FlowTyped' /\ WorldTyped'
  BY TypeParts
<1>3. ASSUME NEW s \in Switch, NEW a \in Address, Discovered(f, s, a) \/ Picked(f, s, a)
      PROVE  TypeOK'
  <2>1. PcTyped'
    BY <1>1, <1>3 DEF Discovered, Picked, Begin, Goto, PcTyped
  <2>2. key[s] \in Key /\ 0..key[s] \subseteq Key
    BY <1>1 DEF WorldTyped, Key
  <2>3. registration' \in [Flow -> Key \cup {None}]
    BY <1>1, <1>3, <2>2 DEF Discovered, Picked, Advertised, FlowTyped
  <2>4. FlowTyped'
    BY <1>1, <1>3, <2>3 DEF Discovered, Picked, Begin, FlowTyped
  <2> QED BY <1>1, <1>3, <2>1, <2>4, TypeParts DEF Discovered, Picked, Begin
<1>4. ASSUME NEW s \in Switch, NEW a \in Address, Rediscovered(f, s, a)
      PROVE  TypeOK'
  <2>1. PcTyped'
    BY <1>1, <1>4 DEF Rediscovered, Goto, PcTyped
  <2>2. entries[s] \in Entry
    BY <1>1, <1>4 DEF Rediscovered, Configured, WorldTyped
  <2>3. [entries[s] EXCEPT !.address = a] \in Entry
    BY <2>2 DEF Entry
  <2>4. WorldTyped'
    BY <1>1, <1>4, <2>3 DEF Rediscovered, WorldTyped
  <2> QED BY <1>1, <1>4, <2>1, <2>4, TypeParts DEF Rediscovered
<1>5. ASSUME NEW s \in Switch, ReauthBegins(f, s)
      PROVE  TypeOK'
  <2>1. PcTyped'
    BY <1>1, <1>5 DEF ReauthBegins, Begin, Goto, PcTyped
  <2>2. entries[s].address \in Address
    BY <1>1, <1>5 DEF ReauthBegins, Configured, WorldTyped, Entry
  <2>3. FlowTyped'
    BY <1>1, <1>5, <2>2 DEF ReauthBegins, Begin, FlowTyped
  <2> QED BY <1>1, <1>5, <2>1, <2>3, TypeParts DEF ReauthBegins, Begin
<1>6. CASE ConfirmListens(f) \/ ConfirmFindsNoDevice(f) \/ Retry(f) \/ ListenTimesOut(f) \/ DoneShowsError(f)
  <2> USE DEF ConfirmListens, ConfirmFindsNoDevice, Retry, ListenTimesOut, DoneShowsError, Finish
  <2>1. PcTyped'
    BY <1>1, <1>6 DEF Goto, PcTyped
  <2>2. FlowTyped'
    BY <1>1, <1>6 DEF FlowTyped, Errors, flowVars
  <2> QED BY <1>1, <1>6, <2>1, <2>2, TypeParts
<1>7. CASE ConfirmValidates(f) \/ Heard(f)
  <2>1. target[f] \in Switch
    BY <1>7 DEF ConfirmValidates, Heard, TargetInv
  <2>2. registration[f] # None => registration[f] \in Key
    BY <1>1 DEF FlowTyped
  <2>3. key[target[f]] \in Key
    BY <1>1, <2>1 DEF WorldTyped
  <2> QED BY <1>7, <2>1, <2>2, <2>3, ValidateTyped, TypeParts DEF ConfirmValidates, Heard
<1>8. CASE HandshakeStep(f)
  <2>1. ConnectionTypeOK'
    BY <1>1, <1>8, ConnectionTyped DEF HandshakeStep
  <2>2. PcTyped'
    <3>1. PICK c \in HandshakePcs : pc' = [pc EXCEPT ![f] = c]
      BY <1>8, HandshakeNames DEF HandshakeStep, Established, Proceed, Completes
    <3> QED BY <1>1, <3>1 DEF PcTyped, FlowPcs
  <2>3. WorldTyped'
    <3>1. CASE pc[f] = "login_response"
      <4>1. credentials[f].key \in Key
        BY <3>1, HandshakeNames DEF CredentialsInv, Holds, Credentials
      <4> QED BY <1>1, <1>8, <3>1, <4>1 DEF HandshakeStep, WorldTyped
    <3>2. CASE pc[f] # "login_response"
      BY <1>1, <1>8, <3>2 DEF HandshakeStep, WorldTyped
    <3> QED BY <3>1, <3>2
  <2> QED BY <1>1, <1>8, <2>1, <2>2, <2>3, TypeParts DEF HandshakeStep
<1>9. CASE ValidationSucceeds(f) \/ ValidationFails(f) \/ AbandonHandshake(f)
  <2>1. \A v \in Raises(f) : v \in Verdicts
    BY DEF Raises, Verdicts
  <2>2. PICK v \in Verdicts : Close(f, v)
    BY <1>9, <2>1 DEF ValidationSucceeds, ValidationFails, AbandonHandshake, Verdicts
  <2> QED BY <2>2, CloseTyped, TypeParts
<1>10. CASE StopsNotify(f) \/ AbandonIdle(f)
  <2>1. PcTyped'
    BY <1>1, <1>10 DEF StopsNotify, AbandonIdle, Goto, PcTyped
  <2> QED BY <1>1, <1>10, <2>1, TypeParts DEF StopsNotify, AbandonIdle
<1>11. CASE Disconnects(f)
  <2>1. ConnectionTypeOK'
    BY <1>1, <1>11 DEF Disconnects, ConnectionTypeOK, LinkStates
  <2>2. verdict[f] \in Verdicts /\ left' \in [Flow -> BOOLEAN]
    BY <1>1, <1>11 DEF FlowTyped, Disconnects
  <2> QED BY <1>1, <1>11, <2>1, <2>2, ConcludeTyped, TypeParts DEF Disconnects
<1>12. CASE DoneStores(f)
  <2>1. PcTyped'
    BY <1>1, <1>12 DEF DoneStores, Goto, PcTyped
  <2>2. FlowTyped'
    BY <1>1, <1>12 DEF DoneStores, FlowTyped
  <2>3. EntryData(f) \in Entry
    BY <1>12 DEF DoneStores, EntryData, TargetInv, CredentialsInv, Holds, Credentials, Entry
  <2>4. WorldTyped'
    BY <1>1, <1>12, <2>3 DEF DoneStores, WorldTyped
  <2> QED BY <1>1, <1>12, <2>1, <2>2, <2>4, TypeParts DEF DoneStores
<1>13. CASE AbandonClose(f)
  <2>1. ConnectionTypeOK' /\ left' \in [Flow -> BOOLEAN]
    BY <1>1, <1>13, BreaksOffTyped DEF AbandonClose
  <2>2. PcTyped'
    BY <1>1, <1>13 DEF AbandonClose, Goto, PcTyped
  <2>3. FlowTyped'
    BY <1>1, <1>13, <2>1 DEF AbandonClose, FlowTyped, Verdicts
  <2> QED BY <1>1, <1>13, <2>1, <2>2, <2>3, TypeParts DEF AbandonClose
<1>14. CASE LinkLost(f)
  <2>1. ConnectionTypeOK' /\ UNCHANGED pc
    BY <1>1, <1>14, ConnectionTyped DEF LinkLost, LinkDrop, LinkSilent
  <2> QED BY <1>1, <1>14, <2>1, TypeParts DEF LinkLost
<1>15. CASE ClosingFails(f)
  <2>1. ConnectionTypeOK' /\ left' \in [Flow -> BOOLEAN]
    BY <1>1, <1>15, BreaksOffTyped DEF ClosingFails
  <2>2. PICK v \in Verdicts : Conclude(f, v)
    BY <1>15 DEF ClosingFails, Verdicts
  <2> QED BY <1>1, <2>1, <2>2, ConcludeTyped, TypeParts
<1>16. CASE LeftLinkEnds(f)
  <2>1. FlowTyped'
    BY <1>1, <1>16 DEF LeftLinkEnds, FlowTyped
  <2> QED BY <1>1, <1>16, <2>1, TypeParts DEF LeftLinkEnds
<1> QED BY <1>3, <1>4, <1>5, <1>6, <1>7, <1>8, <1>9, <1>10, <1>11, <1>12, <1>13, <1>14, <1>15, <1>16, TypeParts
        DEF FlowStep, Submit, TaskStep, Abandon

(***************************************************************************)
(* A step of a flow keeps its part of the invariant.                       *)
(***************************************************************************)
\* How the loop around the validation goes on after a close that has left no
\* link up.
LEMMA ConcludeKeepsInv ==
    ASSUME TypeOK, NEW f \in Flow, FlowInv(f), pc[f] \in HandshakePcs \cup ClosePcs,
           NEW v \in Verdicts, Conclude(f, v), link'[f] = "down", v = "ok" => Answered(f),
           v # "cancelled" => IsOpen(f)
    PROVE  FlowInv(f)'
<1> USE FlowPcNames, HandshakeNames DEF FlowInv, Conclude, Finish, Goto
<1>1. PcTyped /\ FlowTyped
  BY TypeParts
<1>2. /\ verdict'[f] = "none"
      /\ UNCHANGED <<source, target, address, credentials, entries, accepted>>
      /\ \/ v = "cancelled" /\ pc'[f] = "gone"
         \/ v = "ok" /\ pc'[f] = "finished" /\ outcome'[f] = "ok"
         \/ v \notin {"ok", "cancelled"} /\ pc'[f] = "establish"
         \/ v \notin {"ok", "cancelled"} /\ pc'[f] = "finished" /\ outcome'[f] # "ok"
  <2>1. ErrorOf(v) # "ok"
    BY DEF ErrorOf
  <2> QED BY <1>1, <2>1 DEF PcTyped, FlowTyped, worldVars
<1>3. TargetInv(f)' /\ VerdictInv(f)'
  BY <1>2 DEF TargetInv, VerdictInv, ClosePcs
<1>4. CredentialsInv(f)'
  BY <1>2 DEF CredentialsInv, Holds, ClosePcs
<1>5. AcceptedInv(f)'
  BY <1>2 DEF AcceptedInv, Answered, ClosePcs
<1>6. LinkInv(f)'
  BY <1>2 DEF LinkInv
<1>7. LightInv(f)'
  <2>1. Holds(f)
    BY DEF Holds
  <2> QED BY <1>2, <2>1 DEF LightInv, IsOpen, Configured
<1> QED BY <1>3, <1>4, <1>5, <1>6, <1>7

\* The close of a connection, as far as it comes.
LEMMA CloseKeepsInv ==
    ASSUME TypeOK, NEW f \in Flow, FlowInv(f), pc[f] \in HandshakePcs,
           NEW v \in Verdicts, v # "none", Close(f, v), v = "ok" => Answered(f)
    PROVE  FlowInv(f)'
<1> USE FlowPcNames, HandshakeNames DEF FlowInv
<1>1. ConnectionTypeOK /\ PcTyped /\ FlowTyped
  BY TypeParts
<1>2. IsOpen(f) /\ Holds(f)
  BY DEF IsOpen, VerdictInv, ClosePcs, Holds
<1>3. CASE NeedsRelease(f)
  <2>1. /\ pc'[f] = "stop_notify" /\ verdict'[f] = v
        /\ UNCHANGED <<source, target, address, credentials, entries, accepted>>
    BY <1>1, <1>3 DEF Close, Goto, PcTyped, FlowTyped, worldVars
  <2>2. TargetInv(f)' /\ VerdictInv(f)' /\ CredentialsInv(f)' /\ LinkInv(f)'
    BY <1>2, <2>1 DEF TargetInv, VerdictInv, CredentialsInv, LinkInv, Holds, ClosePcs
  <2>3. AcceptedInv(f)' /\ LightInv(f)'
    BY <1>2, <2>1 DEF AcceptedInv, LightInv, Answered, Holds, Configured, ClosePcs
  <2> QED BY <2>2, <2>3
<1>4. CASE ~NeedsRelease(f)
  <2>1. link[f] = "down"
    BY <1>4 DEF NeedsRelease, LinkInv, ClosePcs
  <2>2. Conclude(f, v) /\ UNCHANGED link
    BY <1>4 DEF Close, NewConnection, Detach
  <2> QED BY <1>2, <2>1, <2>2, ConcludeKeepsInv
<1> QED BY <1>3, <1>4

\* A flow begins.
LEMMA BeginKeepsInv ==
    ASSUME TypeOK, NEW f \in Flow, FlowInv(f), pc[f] = "idle", NEW s \in Switch, NEW a \in Address,
           NEW from \in {"user", "bluetooth", "reauth"}, from = "reauth" => Configured(s),
           Begin(f, s, a, from)
    PROVE  FlowInv(f)'
<1> USE FlowPcNames, HandshakeNames DEF FlowInv, Begin, Goto
<1>1. PcTyped /\ FlowTyped
  BY TypeParts
<1>2. /\ pc'[f] = "confirm" /\ target'[f] = s /\ address'[f] = a /\ source'[f] = from
      /\ UNCHANGED <<verdict, link, entries>>
  BY <1>1 DEF PcTyped, FlowTyped, connectionVars, worldVars
<1>3. TargetInv(f)' /\ VerdictInv(f)' /\ LinkInv(f)'
  BY <1>2 DEF TargetInv, VerdictInv, LinkInv, ClosePcs
<1>4. CredentialsInv(f)' /\ AcceptedInv(f)' /\ LightInv(f)'
  BY <1>2 DEF CredentialsInv, AcceptedInv, LightInv, Holds, Answered, Configured, ClosePcs
<1> QED BY <1>3, <1>4

\* A validation begins.
LEMMA ValidateKeepsInv ==
    ASSUME TypeOK, NEW f \in Flow, FlowInv(f), pc[f] \in {"confirm", "listen"}, NEW k \in Key,
           Validate(f, k)
    PROVE  FlowInv(f)'
<1> USE FlowPcNames, HandshakeNames DEF FlowInv, Validate, Goto, NewConnection
<1>1. PcTyped /\ FlowTyped
  BY TypeParts
<1>2. PICK l \in LightChoices(f) : credentials' = [credentials EXCEPT ![f] = [key |-> k, light |-> l]]
  OBVIOUS
<1>3. target[f] \in Switch /\ l \in LightId
  BY LightChoicesTyped DEF TargetInv
<1>4. /\ pc'[f] = "establish" /\ credentials'[f] = [key |-> k, light |-> l]
      /\ UNCHANGED <<source, target, address, verdict, entries, link>>
  BY <1>1, <1>2 DEF PcTyped, FlowTyped, worldVars
<1>5. TargetInv(f)' /\ VerdictInv(f)' /\ LinkInv(f)'
  BY <1>4 DEF TargetInv, VerdictInv, LinkInv, ClosePcs
<1>6. CredentialsInv(f)' /\ AcceptedInv(f)'
  BY <1>3, <1>4 DEF CredentialsInv, AcceptedInv, Credentials, Answered, ClosePcs
<1>7. LightInv(f)'
  <2>1. IsOpen(f)' => IsOpen(f)
    BY <1>4 DEF IsOpen
  <2>2. ASSUME IsOpen(f), source[f] = "reauth"
        PROVE  Configured(target[f]) /\ l = entries[target[f]].light
    BY <1>2, <2>2 DEF LightInv, LightChoices
  <2> QED BY <1>4, <2>1, <2>2 DEF LightInv, Configured
<1> QED BY <1>5, <1>6, <1>7

\* Every step of a flow.
LEMMA FlowKeepsInv ==
    ASSUME TypeOK, NEW f \in Flow, FlowInv(f), FlowStep(f)
    PROVE  FlowInv(f)'
<1> USE FlowPcNames, HandshakeNames DEF FlowInv
<1>1. ConnectionTypeOK /\ PcTyped /\ FlowTyped /\ WorldTyped
  BY TypeParts
<1>2. ASSUME NEW s \in Switch, NEW a \in Address, Discovered(f, s, a) \/ Picked(f, s, a)
      PROVE  FlowInv(f)'
  BY <1>2, BeginKeepsInv DEF Discovered, Picked, MayOpen
<1>3. ASSUME NEW s \in Switch, ReauthBegins(f, s) PROVE FlowInv(f)'
  <2>1. entries[s].address \in Address
    BY <1>1, <1>3 DEF ReauthBegins, Configured, WorldTyped, Entry
  <2> QED BY <1>3, <2>1, BeginKeepsInv DEF ReauthBegins, MayOpen
<1>4. ASSUME NEW step \in {"listen", "retry", "gone"}, Goto(f, step), link[f] = "down",
             pc[f] \notin ClosePcs, pc[f] \in HandshakePcs => step = "gone",
             pc[f] \in {"idle", "gone"} => step = "gone",
             UNCHANGED <<source, target, address, verdict, link, entries, accepted>>
      PROVE  FlowInv(f)'
  <2>1. pc'[f] = step
    BY <1>1, <1>4 DEF Goto, PcTyped
  <2>2. TargetInv(f)' /\ VerdictInv(f)' /\ LinkInv(f)'
    BY <1>4, <2>1 DEF TargetInv, VerdictInv, LinkInv, ClosePcs
  <2>3. CredentialsInv(f)' /\ AcceptedInv(f)' /\ LightInv(f)'
    BY <1>4, <2>1 DEF CredentialsInv, AcceptedInv, LightInv, Holds, Answered, Configured, IsOpen, ClosePcs
  <2> QED BY <2>2, <2>3
<1>5. ASSUME NEW s \in Switch, NEW a \in Address, Rediscovered(f, s, a) PROVE FlowInv(f)'
  <2>1. pc[f] = "idle" /\ pc'[f] = "gone" /\ UNCHANGED <<verdict, link>>
    BY <1>1, <1>5 DEF Rediscovered, MayOpen, Goto, PcTyped, flowVars, connectionVars
  <2>2. TargetInv(f)' /\ VerdictInv(f)' /\ LinkInv(f)'
    BY <2>1 DEF TargetInv, VerdictInv, LinkInv, ClosePcs
  <2>3. CredentialsInv(f)' /\ AcceptedInv(f)' /\ LightInv(f)'
    BY <2>1 DEF CredentialsInv, AcceptedInv, LightInv, Holds, Answered, IsOpen, ClosePcs
  <2> QED BY <2>2, <2>3
<1>6. CASE ConfirmListens(f) \/ Retry(f) \/ DoneShowsError(f) \/ AbandonIdle(f)
  <2>1. /\ pc[f] \in {"confirm", "retry", "finished", "listen"}
        /\ Goto(f, "listen") \/ Goto(f, "retry") \/ Goto(f, "gone")
        /\ UNCHANGED <<source, target, address, verdict, link, entries, accepted>>
    BY <1>6 DEF ConfirmListens, Retry, DoneShowsError, AbandonIdle, connectionVars, flowVars, worldVars
  <2>2. link[f] = "down"
    BY <2>1 DEF LinkInv, ClosePcs
  <2> QED BY <1>4, <2>1, <2>2 DEF ClosePcs
<1>7. CASE ConfirmFindsNoDevice(f) \/ ListenTimesOut(f)
  <2>1. /\ pc[f] \in {"confirm", "listen"} /\ pc'[f] = "finished" /\ outcome'[f] # "ok"
        /\ UNCHANGED <<source, target, address, verdict, link, entries, accepted>>
    BY <1>1, <1>7
       DEF ConfirmFindsNoDevice, ListenTimesOut, Finish, Goto, PcTyped, FlowTyped, connectionVars, worldVars
  <2>2. TargetInv(f)' /\ VerdictInv(f)' /\ LinkInv(f)'
    BY <2>1 DEF TargetInv, VerdictInv, LinkInv, ClosePcs
  <2>3. CredentialsInv(f)' /\ AcceptedInv(f)' /\ LightInv(f)'
    BY <2>1 DEF CredentialsInv, AcceptedInv, LightInv, Holds, Answered, Configured, IsOpen, ClosePcs
  <2> QED BY <2>2, <2>3
<1>8. CASE ConfirmValidates(f) \/ Heard(f)
  <2>1. registration[f] # None => registration[f] \in Key
    BY <1>1 DEF FlowTyped
  <2>2. key[target[f]] \in Key
    BY <1>1, <1>8 DEF WorldTyped, TargetInv, ConfirmValidates, Heard
  <2> QED BY <1>8, <2>1, <2>2, ValidateKeepsInv DEF ConfirmValidates, Heard
<1>9. CASE HandshakeStep(f)
  <2>1. /\ pc[f] \in DOMAIN AfterHandshakeStep
        /\ pc'[f] = AfterHandshakeStep[pc[f]]
        /\ UNCHANGED <<source, target, address, credentials, verdict, entries>>
        /\ accepted' = IF pc[f] = "login_response"
                       THEN [accepted EXCEPT ![target[f]] = @ \cup {credentials[f].key}]
                       ELSE accepted
    BY <1>1, <1>9 DEF HandshakeStep, Established, Proceed, Completes, PcTyped, flowVars
  <2>2. pc'[f] \in HandshakePcs \ {"establish"}
    BY <2>1 DEF AfterHandshakeStep
  <2>3. client'[f]
    <3>1. CASE Established(f)
      BY <1>1, <3>1 DEF Established, ConnectionTypeOK
    <3>2. CASE Proceed(f)
      BY <3>2 DEF Proceed, Completes, LinkInv, connectionVars
    <3> QED BY <1>9, <3>1, <3>2 DEF HandshakeStep
  <2>4. TargetInv(f)' /\ VerdictInv(f)' /\ LinkInv(f)' /\ CredentialsInv(f)'
    BY <2>1, <2>2, <2>3 DEF TargetInv, VerdictInv, LinkInv, CredentialsInv, Holds, ClosePcs
  <2>5. AcceptedInv(f)'
    <3>1. pc'[f] \in {"write_welcome", "delay", "write_status"}
              => pc[f] \in {"login_response", "write_welcome", "delay"}
      BY <2>1 DEF AfterHandshakeStep
    <3>2. CASE pc[f] = "login_response"
      <4>1. target[f] \in Switch
        BY <3>2 DEF TargetInv
      <4> QED BY <1>1, <2>1, <3>2, <4>1 DEF AcceptedInv, WorldTyped
    <3>3. CASE pc[f] # "login_response"
      BY <2>1, <2>2, <3>1, <3>3 DEF AcceptedInv, Answered, ClosePcs
    <3> QED BY <3>2, <3>3
  <2>6. LightInv(f)'
    BY <2>1, <2>2 DEF LightInv, IsOpen, Holds, Configured, ClosePcs
  <2> QED BY <2>4, <2>5, <2>6
<1>10. CASE ValidationSucceeds(f) \/ ValidationFails(f) \/ AbandonHandshake(f)
  <2>1. \A v \in Raises(f) : v \in Verdicts /\ v # "none" /\ v # "ok" /\ pc[f] \in HandshakePcs
    BY DEF Raises, Verdicts, GattCalls
  <2>2. PICK v \in Verdicts : Close(f, v) /\ v # "none" /\ (v = "ok" => Answered(f)) /\ pc[f] \in HandshakePcs
    BY <1>10, <2>1
       DEF ValidationSucceeds, HandshakeCompletes, ValidationFails, AbandonHandshake, Verdicts, Answered
  <2> QED BY <2>2, CloseKeepsInv
<1>11. CASE StopsNotify(f)
  <2>1. /\ pc[f] = "stop_notify" /\ pc'[f] = "disconnect"
        /\ UNCHANGED <<source, target, address, credentials, verdict, entries, accepted>>
    BY <1>1, <1>11 DEF StopsNotify, Goto, PcTyped, flowVars, worldVars
  <2>2. TargetInv(f)' /\ VerdictInv(f)' /\ LinkInv(f)' /\ CredentialsInv(f)'
    BY <2>1 DEF TargetInv, VerdictInv, LinkInv, CredentialsInv, Holds, ClosePcs
  <2>3. AcceptedInv(f)' /\ LightInv(f)'
    BY <2>1 DEF AcceptedInv, Answered, LightInv, IsOpen, Holds, Configured, ClosePcs
  <2> QED BY <2>2, <2>3
<1>12. CASE Disconnects(f)
  <2>1. pc[f] = "disconnect" /\ link'[f] = "down" /\ Conclude(f, verdict[f]) /\ verdict[f] \in Verdicts
    BY <1>1, <1>12 DEF Disconnects, ConnectionTypeOK, FlowTyped
  <2>2. verdict[f] = "ok" => Answered(f)
    BY <2>1 DEF Answered, ClosePcs
  <2>3. verdict[f] # "cancelled" => IsOpen(f)
    BY <2>1 DEF IsOpen
  <2> QED BY <2>1, <2>2, <2>3, ConcludeKeepsInv DEF ClosePcs
<1>13. CASE DoneStores(f)
  <2>1. pc'[f] = "gone" /\ verdict'[f] = "none" /\ link'[f] = "down"
    BY <1>1, <1>13 DEF DoneStores, Goto, PcTyped, VerdictInv, LinkInv, ClosePcs, connectionVars
  <2>2. TargetInv(f)' /\ VerdictInv(f)' /\ LinkInv(f)' /\ CredentialsInv(f)'
    BY <2>1 DEF TargetInv, VerdictInv, LinkInv, CredentialsInv, Holds, ClosePcs
  <2>3. AcceptedInv(f)' /\ LightInv(f)'
    BY <2>1 DEF AcceptedInv, Answered, LightInv, IsOpen, ClosePcs
  <2> QED BY <2>2, <2>3
<1>14. CASE AbandonClose(f)
  <2>1. pc'[f] = "gone" /\ verdict'[f] = "none" /\ link'[f] = "down"
    BY <1>1, <1>14 DEF AbandonClose, CloseBreaksOff, Goto, PcTyped, FlowTyped, ConnectionTypeOK
  <2>2. TargetInv(f)' /\ VerdictInv(f)' /\ LinkInv(f)' /\ CredentialsInv(f)'
    BY <2>1 DEF TargetInv, VerdictInv, LinkInv, CredentialsInv, Holds, ClosePcs
  <2>3. AcceptedInv(f)' /\ LightInv(f)'
    BY <2>1 DEF AcceptedInv, Answered, LightInv, IsOpen, ClosePcs
  <2> QED BY <2>2, <2>3
<1>15. CASE LinkLost(f)
  <2>1. UNCHANGED <<pc, source, target, address, credentials, verdict, outcome, entries, accepted, client>>
    BY <1>15 DEF LinkLost, LinkDrop, LinkSilent, flowVars, worldVars
  <2>2. link[f] # "down"
    BY <1>15 DEF LinkLost, LinkDrop, LinkSilent
  <2>3. TargetInv(f)' /\ VerdictInv(f)' /\ LinkInv(f)' /\ CredentialsInv(f)'
    BY <2>1, <2>2 DEF TargetInv, VerdictInv, LinkInv, CredentialsInv, Holds
  <2>4. AcceptedInv(f)' /\ LightInv(f)'
    BY <2>1 DEF AcceptedInv, Answered, LightInv, IsOpen, Holds, Configured
  <2> QED BY <2>3, <2>4
<1>16. CASE ClosingFails(f)
  <2> DEFINE v == IF verdict[f] = "cancelled" THEN "cancelled" ELSE "other"
  <2>1. pc[f] \in ClosePcs /\ link'[f] = "down" /\ Conclude(f, v)
    BY <1>1, <1>16 DEF ClosingFails, CloseBreaksOff, ConnectionTypeOK
  <2>2. v \in Verdicts /\ v # "ok" /\ (v # "cancelled" => IsOpen(f))
    BY <2>1 DEF Verdicts, IsOpen, ClosePcs
  <2> HIDE DEF v
  <2> QED BY <2>1, <2>2, ConcludeKeepsInv
<1>17. CASE LeftLinkEnds(f)
  <2>1. UNCHANGED <<pc, source, target, address, credentials, verdict, outcome, entries, accepted, client, link>>
    BY <1>17 DEF LeftLinkEnds, connectionVars, worldVars
  <2>2. TargetInv(f)' /\ VerdictInv(f)' /\ LinkInv(f)' /\ CredentialsInv(f)'
    BY <2>1 DEF TargetInv, VerdictInv, LinkInv, CredentialsInv, Holds
  <2>3. AcceptedInv(f)' /\ LightInv(f)'
    BY <2>1 DEF AcceptedInv, Answered, LightInv, IsOpen, Holds, Configured
  <2> QED BY <2>2, <2>3
<1> QED BY <1>2, <1>3, <1>5, <1>6, <1>7, <1>8, <1>9, <1>10, <1>11, <1>12, <1>13, <1>14, <1>15, <1>16, <1>17
        DEF FlowStep, Submit, TaskStep, Abandon

(***************************************************************************)
(* The other flows, and the entries.                                       *)
(***************************************************************************)
\* The state of one flow.
Alone(f) == <<pc[f], client[f], link[f], source[f], target[f], address[f], credentials[f],
              verdict[f], outcome[f]>>

\* What the loop does after a close is this flow's own.
LEMMA ConcludeAlone ==
    ASSUME TypeOK, NEW f \in Flow, NEW v, Conclude(f, v), NEW g \in Flow, g # f
    PROVE  /\ pc'[g] = pc[g] /\ verdict'[g] = verdict[g] /\ outcome'[g] = outcome[g]
           /\ UNCHANGED <<source, target, address, credentials>>
<1>1. PcTyped /\ FlowTyped
  BY TypeParts
<1>2. pc'[g] = pc[g]
  BY <1>1 DEF Conclude, Finish, Goto, PcTyped
<1>3. verdict'[g] = verdict[g] /\ outcome'[g] = outcome[g]
  BY <1>1 DEF Conclude, Finish, FlowTyped
<1> QED BY <1>2, <1>3 DEF Conclude

\* And so is the close.
LEMMA CloseAlone ==
    ASSUME TypeOK, NEW f \in Flow, NEW v, Close(f, v), NEW g \in Flow, g # f
    PROVE  Alone(g)' = Alone(g) /\ UNCHANGED worldVars
<1>1. ConnectionTypeOK /\ PcTyped /\ FlowTyped
  BY TypeParts
<1>2. client'[g] = client[g] /\ link'[g] = link[g]
  BY <1>1 DEF Close, NewConnection, Detach, ConnectionTypeOK
<1>3. CASE NeedsRelease(f)
  BY <1>1, <1>2, <1>3 DEF Close, Goto, PcTyped, FlowTyped, Alone
<1>4. CASE ~NeedsRelease(f)
  <2>1. Conclude(f, v)
    BY <1>4 DEF Close
  <2> QED BY <1>2, <2>1, ConcludeAlone DEF Alone, Conclude
<1> QED BY <1>3, <1>4

\* A flow does not touch the others.
LEMMA OthersUntouched ==
    ASSUME TypeOK, NEW f \in Flow, FlowStep(f), NEW g \in Flow, g # f
    PROVE  Alone(g)' = Alone(g)
<1>1. ConnectionTypeOK /\ PcTyped /\ FlowTyped
  BY TypeParts
<1> USE DEF Alone, connectionVars, flowVars, Goto
<1>2. CASE \/ \E s \in Switch, a \in Address :
                 Discovered(f, s, a) \/ Rediscovered(f, s, a) \/ Picked(f, s, a)
           \/ \E s \in Switch : ReauthBegins(f, s)
  BY <1>1, <1>2 DEF Discovered, Rediscovered, Picked, ReauthBegins, Begin, PcTyped, FlowTyped
<1>3. CASE \/ ConfirmListens(f) \/ ConfirmFindsNoDevice(f) \/ Retry(f) \/ ListenTimesOut(f)
           \/ DoneShowsError(f) \/ StopsNotify(f) \/ AbandonIdle(f) \/ DoneStores(f)
  BY <1>1, <1>3 DEF ConfirmListens, ConfirmFindsNoDevice, Retry, ListenTimesOut, DoneShowsError,
     StopsNotify, AbandonIdle, DoneStores, Finish, PcTyped, FlowTyped
<1>4. CASE ConfirmValidates(f) \/ Heard(f)
  <2>1. pc'[g] = pc[g] /\ client'[g] = client[g] /\ link'[g] = link[g]
    BY <1>1, <1>4 DEF ConfirmValidates, Heard, Validate, NewConnection, ConnectionTypeOK, PcTyped
  <2>2. credentials'[g] = credentials[g]
    BY <1>1, <1>4 DEF ConfirmValidates, Heard, Validate, FlowTyped
  <2> QED BY <1>4, <2>1, <2>2 DEF ConfirmValidates, Heard, Validate
<1>5. CASE HandshakeStep(f)
  BY <1>1, <1>5 DEF HandshakeStep, Established, Proceed, PcTyped, ConnectionTypeOK
<1>6. CASE ValidationSucceeds(f) \/ ValidationFails(f) \/ AbandonHandshake(f)
  BY <1>6, CloseAlone DEF ValidationSucceeds, ValidationFails, AbandonHandshake
<1>7. CASE Disconnects(f)
  <2>1. client'[g] = client[g] /\ link'[g] = link[g]
    BY <1>1, <1>7 DEF Disconnects, ConnectionTypeOK
  <2> QED BY <1>7, <2>1, ConcludeAlone DEF Disconnects
<1>8. CASE AbandonClose(f)
  BY <1>1, <1>8 DEF AbandonClose, CloseBreaksOff, PcTyped, FlowTyped, ConnectionTypeOK
<1>9. CASE LinkLost(f) \/ LeftLinkEnds(f)
  BY <1>1, <1>9 DEF LinkLost, LinkDrop, LinkSilent, LeftLinkEnds, ConnectionTypeOK
<1>10. CASE ClosingFails(f)
  <2>1. client'[g] = client[g] /\ link'[g] = link[g]
    BY <1>1, <1>10 DEF ClosingFails, CloseBreaksOff, ConnectionTypeOK
  <2> QED BY <1>10, <2>1, ConcludeAlone DEF ClosingFails
<1> QED BY <1>2, <1>3, <1>4, <1>5, <1>6, <1>7, <1>8, <1>9, <1>10 DEF FlowStep, Submit, TaskStep, Abandon

\* A rediscovery corrects the address of an entry of which no flow is open.
Corrects(s, a) ==
    /\ Configured(s) /\ ~InProgress(s)
    /\ entries' = [entries EXCEPT ![s].address = a]

\* A flow that is done stores what it holds.
Stores(f) ==
    /\ pc[f] = "finished" /\ outcome[f] = "ok"
    /\ source[f] = "reauth" \/ ~Configured(target[f])
    /\ entries' = [entries EXCEPT ![target[f]] = EntryData(f)]

\* What a flow does to the entries, and that no switch forgets what it has
\* answered.
LEMMA EntriesStep ==
    ASSUME TypeOK, NEW f \in Flow, FlowStep(f)
    PROVE  /\ \/ UNCHANGED entries
              \/ \E s \in Switch, a \in Address : Corrects(s, a)
              \/ Stores(f)
           /\ \A s \in Switch : accepted[s] \subseteq accepted'[s]
<1>1. WorldTyped
  BY TypeParts
<1> USE DEF worldVars
<1>2. ASSUME NEW s \in Switch, NEW a \in Address, Rediscovered(f, s, a)
      PROVE  Corrects(s, a) /\ UNCHANGED accepted
  BY <1>2 DEF Rediscovered, Corrects
<1>3. CASE DoneStores(f)
  BY <1>3 DEF DoneStores, Stores
<1>4. CASE HandshakeStep(f)
  BY <1>1, <1>4 DEF HandshakeStep, WorldTyped
<1>5. CASE Disconnects(f) \/ ClosingFails(f)
  BY <1>5 DEF Disconnects, ClosingFails, Conclude
<1>6. ASSUME NEW v, Close(f, v) PROVE UNCHANGED <<entries, accepted>>
  BY <1>6 DEF Close, Conclude
<1>7. CASE ValidationSucceeds(f) \/ ValidationFails(f) \/ AbandonHandshake(f)
  BY <1>6, <1>7 DEF ValidationSucceeds, ValidationFails, AbandonHandshake
<1>8. ASSUME NEW s \in Switch, NEW a \in Address, Discovered(f, s, a) \/ Picked(f, s, a)
      PROVE  UNCHANGED <<entries, accepted>>
  BY <1>8 DEF Discovered, Picked, Begin
<1>9. ASSUME NEW s \in Switch, ReauthBegins(f, s) PROVE UNCHANGED <<entries, accepted>>
  BY <1>9 DEF ReauthBegins, Begin
<1>10. CASE Submit(f) \/ Heard(f) \/ StopsNotify(f) \/ DoneShowsError(f) \/ ListenTimesOut(f)
  BY <1>10 DEF Submit, ConfirmListens, ConfirmValidates, ConfirmFindsNoDevice, Retry, Heard, Validate,
     StopsNotify, DoneShowsError, ListenTimesOut
<1>11. CASE AbandonIdle(f) \/ AbandonClose(f) \/ LinkLost(f) \/ LeftLinkEnds(f)
  BY <1>11 DEF AbandonIdle, AbandonClose, LinkLost, LeftLinkEnds
<1> QED BY <1>2, <1>3, <1>4, <1>5, <1>7, <1>8, <1>9, <1>10, <1>11 DEF FlowStep, TaskStep, Abandon

\* A flow that is open was open before, for the same switch, or begins when
\* none is in progress.
LEMMA OpenStep ==
    ASSUME TypeOK, NEW f \in Flow, FlowInv(f), FlowStep(f), IsOpen(f)'
    PROVE  \/ IsOpen(f) /\ target'[f] = target[f]
           \/ ~InProgress(target'[f])
<1> USE FlowPcNames, HandshakeNames DEF FlowInv
<1>1. PcTyped /\ FlowTyped
  BY TypeParts
<1>2. ASSUME NEW s \in Switch, NEW a, NEW from, Begin(f, s, a, from) PROVE target'[f] = s
  BY <1>1, <1>2 DEF Begin, FlowTyped
<1>3. ASSUME NEW s \in Switch, NEW a \in Address, Discovered(f, s, a) \/ Picked(f, s, a)
      PROVE  ~InProgress(target'[f])
  BY <1>2, <1>3 DEF Discovered, Picked
<1>4. ASSUME NEW s \in Switch, ReauthBegins(f, s) PROVE ~InProgress(target'[f])
  BY <1>2, <1>4 DEF ReauthBegins
<1>5. ASSUME NEW s \in Switch, NEW a \in Address, Rediscovered(f, s, a) PROVE FALSE
  BY <1>1, <1>5 DEF Rediscovered, Goto, PcTyped, IsOpen
<1>6. CASE pc[f] \in HandshakePcs \cup {"confirm", "listen", "finished", "retry"} /\ UNCHANGED target
  BY <1>6 DEF IsOpen, VerdictInv, ClosePcs
<1>7. CASE Submit(f) \/ Heard(f) \/ HandshakeStep(f) \/ DoneShowsError(f) \/ DoneStores(f) \/ ListenTimesOut(f)
  <2>1. pc[f] \in HandshakePcs \cup {"confirm", "listen", "finished", "retry"} /\ UNCHANGED target
    BY <1>7
       DEF Submit, ConfirmListens, ConfirmValidates, ConfirmFindsNoDevice, Retry, Heard, Validate,
           HandshakeStep, Established, Proceed, Completes, DoneShowsError, DoneStores, ListenTimesOut, flowVars
  <2> QED BY <1>6, <2>1
<1>8. CASE ValidationSucceeds(f) \/ ValidationFails(f) \/ AbandonHandshake(f)
  <2>1. \A v \in Raises(f) : pc[f] \in HandshakePcs
    BY DEF Raises, GattCalls
  <2>2. ASSUME NEW v, Close(f, v) PROVE UNCHANGED target
    BY <2>2 DEF Close, Conclude
  <2> QED BY <1>6, <1>8, <2>1, <2>2
          DEF ValidationSucceeds, HandshakeCompletes, ValidationFails, AbandonHandshake
<1>9. CASE StopsNotify(f)
  BY <1>9 DEF StopsNotify, IsOpen, flowVars
<1>10. CASE Disconnects(f) \/ ClosingFails(f)
  <2>1. PICK v : pc[f] \in ClosePcs /\ Conclude(f, v) /\ (verdict[f] = "cancelled" => v = "cancelled")
    BY <1>10 DEF Disconnects, ClosingFails, CloseBreaksOff, ClosePcs
  <2>2. verdict[f] # "cancelled"
    <3>1. v = "cancelled" => pc'[f] = "gone"
      BY <1>1, <2>1 DEF Conclude, Goto, PcTyped
    <3> QED BY <2>1, <3>1 DEF IsOpen
  <2> QED BY <2>1, <2>2 DEF Conclude, IsOpen, ClosePcs
<1>11. CASE AbandonIdle(f) \/ AbandonClose(f)
  BY <1>11 DEF AbandonIdle, AbandonClose, CloseBreaksOff, flowVars
<1>12. CASE LinkLost(f) \/ LeftLinkEnds(f)
  BY <1>12 DEF LinkLost, LinkDrop, LinkSilent, LeftLinkEnds, flowVars, IsOpen
<1> QED BY <1>3, <1>4, <1>5, <1>7, <1>8, <1>9, <1>10, <1>11, <1>12 DEF FlowStep, TaskStep, Abandon

\* What a flow that is left alone keeps, if the entry it reauthenticates is
\* left alone, too.
LEMMA AloneKeepsInv ==
    ASSUME NEW g \in Flow, FlowInv(g), Alone(g)' = Alone(g),
           pc[g] \notin {"idle", "gone"} => accepted[target[g]] \subseteq accepted'[target[g]],
           IsOpen(g) /\ source[g] = "reauth" => entries'[target[g]] = entries[target[g]]
    PROVE  FlowInv(g)'
<1> USE FlowPcNames, HandshakeNames DEF FlowInv
<1>1. /\ pc'[g] = pc[g] /\ client'[g] = client[g] /\ link'[g] = link[g] /\ source'[g] = source[g]
      /\ target'[g] = target[g] /\ address'[g] = address[g] /\ credentials'[g] = credentials[g]
      /\ verdict'[g] = verdict[g] /\ outcome'[g] = outcome[g]
  BY DEF Alone
<1>2. TargetInv(g)' /\ VerdictInv(g)' /\ CredentialsInv(g)' /\ LinkInv(g)'
  BY <1>1 DEF TargetInv, VerdictInv, CredentialsInv, LinkInv, Holds
<1>3. AcceptedInv(g)'
  BY <1>1 DEF AcceptedInv, Answered, ClosePcs
<1>4. LightInv(g)'
  BY <1>1 DEF LightInv, IsOpen, Holds, Configured
<1> QED BY <1>2, <1>3, <1>4

\* What a step does to the entries keeps what was answered for them.
LEMMA StoresAccepted ==
    ASSUME TypeOK, NEW f \in Flow, FlowInv(f), EntryWasAccepted, FlowStep(f)
    PROVE  EntryWasAccepted'
<1>1. WorldTyped
  BY TypeParts
<1>2. \A s \in Switch : accepted[s] \subseteq accepted'[s]
  BY EntriesStep
<1> SUFFICES ASSUME NEW s \in Switch, entries'[s] # None PROVE entries'[s].key \in accepted'[s]
  BY DEF EntryWasAccepted, Configured
<1>3. CASE UNCHANGED entries
  BY <1>2, <1>3 DEF EntryWasAccepted, Configured
<1>4. ASSUME NEW t \in Switch, NEW a \in Address, Corrects(t, a) PROVE entries'[s].key \in accepted'[s]
  <2>1. Configured(s)
    BY <1>1, <1>4 DEF Corrects, Configured, WorldTyped
  <2>2. entries[s] \in Entry
    BY <1>1, <2>1 DEF Configured, WorldTyped
  <2>3. entries'[s].key = entries[s].key
    BY <1>1, <1>4, <2>2 DEF Corrects, WorldTyped, Entry
  <2> QED BY <1>2, <2>1, <2>3 DEF EntryWasAccepted
<1>5. CASE Stores(f)
  <2>1. target[f] \in Switch /\ credentials[f].key \in accepted[target[f]]
    BY <1>5 DEF Stores, FlowInv, TargetInv, AcceptedInv, Answered
  <2>2. entries'[s] = IF s = target[f] THEN EntryData(f) ELSE entries[s]
    BY <1>1, <1>5 DEF Stores, WorldTyped
  <2> QED BY <1>2, <2>1, <2>2 DEF EntryData, EntryWasAccepted, Configured
<1> QED BY <1>3, <1>4, <1>5, EntriesStep

\* Home Assistant starts without flows.
LEMMA InvInit == Init => IInv
<1> SUFFICES ASSUME Init PROVE IInv
  OBVIOUS
<1> USE FlowPcNames, HandshakeNames DEF Init
<1>1. TypeOK
  <2>1. ConnectionTypeOK
    BY DEF ConnectionInit, ConnectionTypeOK, LinkStates
  <2>2. PcTyped
    BY DEF PcTyped
  <2>3. FlowTyped
    BY DEF FlowTyped, Verdicts
  <2>4. WorldTyped
    BY DEF WorldTyped, Key
  <2> QED BY <2>1, <2>2, <2>3, <2>4, TypeParts
<1>2. ASSUME NEW f \in Flow PROVE FlowInv(f)
  <2>1. pc[f] = "idle" /\ verdict[f] = "none" /\ link[f] = "down"
    BY DEF ConnectionInit
  <2>2. ~Holds(f) /\ ~Answered(f) /\ ~IsOpen(f)
    BY <2>1 DEF Holds, Answered, IsOpen, ClosePcs
  <2> QED BY <2>1, <2>2 DEF FlowInv, TargetInv, VerdictInv, CredentialsInv, AcceptedInv, LinkInv, LightInv
<1>3. EntryWasAccepted /\ OneFlowPerSwitch
  BY DEF EntryWasAccepted, OneFlowPerSwitch, Configured, IsOpen
<1> QED BY <1>1, <1>2, <1>3 DEF IInv

\* Every step keeps the invariant.
LEMMA InvStep == IInv /\ [Next]_vars => IInv'
<1> SUFFICES ASSUME IInv, [Next]_vars PROVE IInv'
  OBVIOUS
<1> USE DEF IInv
<1>1. ASSUME NEW f \in Flow, FlowStep(f) PROVE IInv'
  <2>1. TypeOK' /\ FlowInv(f)'
    BY <1>1, TypeFlow, FlowKeepsInv
  <2>2. \A g \in Flow \ {f} : Alone(g)' = Alone(g) /\ IsOpen(g)' = IsOpen(g) /\ target'[g] = target[g]
    BY <1>1, OthersUntouched DEF Alone, IsOpen
  <2>3. ASSUME NEW g \in Flow, g # f PROVE FlowInv(g)'
    <3>1. pc[g] \notin {"idle", "gone"} => accepted[target[g]] \subseteq accepted'[target[g]]
      BY <1>1, EntriesStep DEF FlowInv, TargetInv
    <3>2. ASSUME IsOpen(g), source[g] = "reauth" PROVE entries'[target[g]] = entries[target[g]]
      <4>1. target[g] \in Switch /\ WorldTyped
        BY <3>2, TypeParts DEF IsOpen, FlowInv, TargetInv
      <4>2. ASSUME NEW s \in Switch, NEW a \in Address, Corrects(s, a)
            PROVE  entries'[target[g]] = entries[target[g]]
        BY <3>2, <4>1, <4>2 DEF Corrects, InProgress, WorldTyped
      <4>3. CASE Stores(f)
        <5>1. IsOpen(f)
          BY <4>3 DEF Stores, IsOpen, FlowInv, VerdictInv, ClosePcs
        <5>2. target[f] # target[g]
          BY <2>3, <3>2, <5>1 DEF OneFlowPerSwitch
        <5> QED BY <4>1, <4>3, <5>2 DEF Stores, WorldTyped
      <4> QED BY <1>1, <4>2, <4>3, EntriesStep
    <3> QED BY <2>2, <2>3, <3>1, <3>2, AloneKeepsInv
  <2>4. EntryWasAccepted'
    BY <1>1, StoresAccepted
  <2>5. OneFlowPerSwitch'
    <3>1. ASSUME NEW g \in Flow, g # f, IsOpen(f)', IsOpen(g)' PROVE target'[f] # target'[g]
      <4>1. IsOpen(g) /\ target'[g] = target[g]
        BY <2>2, <3>1
      <4>2. \/ IsOpen(f) /\ target'[f] = target[f]
            \/ ~InProgress(target'[f])
        BY <1>1, <3>1, OpenStep
      <4> QED BY <3>1, <4>1, <4>2 DEF OneFlowPerSwitch, InProgress
    <3>2. ASSUME NEW g \in Flow, NEW h \in Flow, g # f, h # f, IsOpen(g)', IsOpen(h)',
                 target'[g] = target'[h]
          PROVE  g = h
      BY <2>2, <3>2 DEF OneFlowPerSwitch
    <3> QED BY <3>1, <3>2 DEF OneFlowPerSwitch
  <2> QED BY <2>1, <2>3, <2>4, <2>5
<1>2. ASSUME NEW s \in Switch, Removed(s) PROVE IInv'
  <2>1. WorldTyped /\ UNCHANGED <<pc, connectionVars, flowVars, key, accepted>>
        /\ entries' = [entries EXCEPT ![s] = None]
    BY <1>2, TypeParts DEF Removed
  <2>2. TypeOK'
    <3>1. WorldTyped'
      BY <2>1 DEF WorldTyped
    <3> QED BY <2>1, <3>1, TypeParts, TypeUnchanged
  <2>3. ASSUME NEW g \in Flow PROVE FlowInv(g)' /\ IsOpen(g)' = IsOpen(g)
    <3>1. Alone(g)' = Alone(g) /\ IsOpen(g)' = IsOpen(g)
      BY <2>1 DEF Alone, IsOpen, connectionVars, flowVars
    <3>2. ASSUME IsOpen(g), source[g] = "reauth" PROVE entries'[target[g]] = entries[target[g]]
      <4>1. target[g] # s
        BY <1>2, <3>2 DEF Removed
      <4>2. target[g] \in Switch
        BY <3>2 DEF IsOpen, FlowInv, TargetInv
      <4> QED BY <2>1, <4>1, <4>2 DEF WorldTyped
    <3> QED BY <2>1, <3>1, <3>2, AloneKeepsInv
  <2>4. EntryWasAccepted'
    BY <2>1 DEF EntryWasAccepted, Configured, WorldTyped
  <2>5. OneFlowPerSwitch'
    BY <2>1, <2>3 DEF OneFlowPerSwitch, flowVars
  <2> QED BY <2>2, <2>3, <2>4, <2>5
<1>3. ASSUME UNCHANGED <<pc, connectionVars, flowVars, entries, accepted>>, WorldTyped' PROVE IInv'
  <2>1. TypeOK'
    BY <1>3, TypeParts, TypeUnchanged
  <2>2. ASSUME NEW g \in Flow PROVE FlowInv(g)' /\ IsOpen(g)' = IsOpen(g)
    <3>1. Alone(g)' = Alone(g) /\ IsOpen(g)' = IsOpen(g)
      BY <1>3 DEF Alone, IsOpen, connectionVars, flowVars
    <3> QED BY <1>3, <3>1, AloneKeepsInv
  <2>3. EntryWasAccepted'
    BY <1>3 DEF EntryWasAccepted, Configured
  <2>4. OneFlowPerSwitch'
    BY <1>3, <2>2 DEF OneFlowPerSwitch, flowVars
  <2> QED BY <2>1, <2>2, <2>3, <2>4
<1>4. ASSUME NEW s \in Switch, Rotated(s) PROVE IInv'
  <2>1. WorldTyped
    BY TypeParts
  <2>2. WorldTyped'
    BY <1>4, <2>1 DEF Rotated, WorldTyped, Key
  <2> QED BY <1>3, <1>4, <2>2 DEF Rotated
<1>5. CASE UNCHANGED vars
  <2>1. UNCHANGED <<pc, connectionVars, flowVars, worldVars>>
    BY <1>5 DEF vars
  <2>2. WorldTyped'
    BY <2>1, TypeParts, TypeUnchanged
  <2> QED BY <1>3, <2>1, <2>2 DEF worldVars
<1> QED BY <1>1, <1>2, <1>4, <1>5 DEF Next, FlowStep

(***************************************************************************)
(* The theorems.                                                           *)
(***************************************************************************)
\* The invariant holds throughout.
LEMMA InvHolds == Spec => []IInv
  BY InvInit, InvStep, PTL DEF Spec

\* Every variable stays in its range: the attempts stay below their limit,
\* and what an entry stores is complete.
THEOREM TypeCorrect == Spec => []TypeOK
<1>1. IInv => TypeOK
  BY DEF IInv
<1> QED BY <1>1, InvHolds, PTL

\* No way through attempts, retries, errors and cancellations stores
\* credentials for which the switch has not answered LOGIN.
THEOREM EntryWasAcceptedHolds == Spec => []EntryWasAccepted
<1>1. IInv => EntryWasAccepted
  BY DEF IInv
<1> QED BY <1>1, InvHolds, PTL

\* Whatever fails, is retried or is cancelled, no flow loses a link of which it
\* has not begun the close, and no attempt starts over an earlier link.
THEOREM ValidationReleasesLinkHolds == Spec => []ValidationReleasesLink
<1>1. IInv => ValidationReleasesLink
  BY DEF IInv, FlowInv, LinkInv, ValidationReleasesLink
<1> QED BY <1>1, InvHolds, PTL

\* Neither a reauthentication nor a rediscovery changes the light ID of an
\* entry: a reauthentication holds the one of the entry that is there when it
\* is stored.
THEOREM LightIdStableHolds == Spec => LightIdStable
<1> DEFINE Stable == \A s \in Switch :
          entries[s] # None /\ entries'[s] # None
              => entries'[s].light = entries[s].light
<1>1. IInv /\ [Next]_vars => [Stable]_vars
  <2> SUFFICES ASSUME IInv, Next PROVE Stable
    BY DEF vars, worldVars
  <2>1. WorldTyped
    BY TypeParts DEF IInv
  <2> SUFFICES ASSUME NEW s \in Switch, entries[s] # None, entries'[s] # None
               PROVE  entries'[s].light = entries[s].light
    OBVIOUS
  <2>2. entries[s] \in Entry
    BY <2>1 DEF WorldTyped
  <2>3. ASSUME NEW f \in Flow, FlowStep(f) PROVE entries'[s].light = entries[s].light
    <3>1. ASSUME NEW t \in Switch, NEW a \in Address, Corrects(t, a)
          PROVE  entries'[s].light = entries[s].light
      BY <2>1, <2>2, <3>1 DEF Corrects, WorldTyped, Entry
    <3>2. CASE Stores(f)
      <4>1. target[f] \in Switch /\ IsOpen(f) /\ Holds(f)
        BY <3>2 DEF Stores, IInv, FlowInv, TargetInv, VerdictInv, ClosePcs, IsOpen, Holds
      <4>2. entries'[s] = IF s = target[f] THEN EntryData(f) ELSE entries[s]
        BY <2>1, <3>2 DEF Stores, WorldTyped
      <4>3. CASE s = target[f]
        <5>1. source[f] = "reauth"
          BY <3>2, <4>3 DEF Stores, Configured
        <5>2. credentials[f].light = entries[s].light
          BY <4>1, <4>3, <5>1 DEF IInv, FlowInv, LightInv
        <5> QED BY <4>2, <4>3, <5>2 DEF EntryData
      <4> QED BY <4>2, <4>3
    <3> QED BY <2>3, <3>1, <3>2, EntriesStep DEF IInv
  <2>4. ASSUME NEW t \in Switch, Removed(t) \/ Rotated(t) PROVE entries'[s].light = entries[s].light
    BY <2>1, <2>4 DEF Removed, Rotated, WorldTyped
  <2> QED BY <2>3, <2>4 DEF Next, FlowStep
<1> QED BY <1>1, InvHolds, PTL DEF Spec, LightIdStable
=============================================================================

# A verification project for ha-pairlink

TLA+ models of the Home Assistant integration in `src/custom_components/pairlink`,
TLC runs that check them on small instances, and TLAPS proofs of theorems about
them for every value of the constants. `PROJECT.json` lists the runs, the lines
each definition stands for, the hazards and the findings.

## 1. The system

The integration keeps one authenticated BLE connection per PairLink switch and
reports button operations as Home Assistant events. Everything runs in one asyncio
event loop: an action of a model is what runs between two awaits.

| Component | State | Operations | Interacts with |
|---|---|---|---|
| `PairLinkConnection` (session.py) | client, disconnect event, closing flag, notification queue, backlog | handshake LOGIN / WELCOME / DEVICE_STATUS, close, health check, callbacks | Bleak; owned by a session or a validation |
| `PairLinkSession` (session.py) | state shown, connection, reauth and stop flags, timeout and mismatch counts, backoff index | start, connection loop, advertisement callback, closing task, stop | shared `asyncio.Lock` with the other sessions; entities; config entry |
| notifications (session.py) | queue, get task, backlog | callback, LOGIN wait, notification loop, `_process_packet` | connection, deduplicator, event entity |
| `EventDeduplicator` (session.py) | bursts by event key | classify | notification loop |
| `PairLinkConfigFlow` (config_flow.py) | target, captured registration, task, attempt | discovery, user, reauth, registration, retry, done | config entries, advertisements, `async_validate_credentials` |
| entry lifecycle (\_\_init\_\_.py) | entry data, runtime session, update listener, device registry | migrate, set up, update, reload, unload, remove | session, flows, Home Assistant's entry lock |
| discovery (discovery.py) | none | parse advertisements, light ID | flow, session |
| codec (protocol.py) | none | AES-128, LOGIN, data events | connection, session |
| entities (event.py, sensor.py), diagnostics.py, aruba_compat.py | none of their own | forward, redact, patch | session |

What is hard here: cancellation at any await (unload), a closing task beside the loop,
an advertisement callback between any two steps, a lock shared by independent
sessions, links that die silently, errors inside error handlers, credentials that
change on the switch, flows that overlap, packets that arrive while nobody reads.
The 36 hazards in `PROJECT.json` name the lines where these bite.

What makes each component correct:

- connection and session: one handshake at a time over all sessions; a link nobody has
  begun to close can be found; one link per switch; READY only while served; a
  reauthentication is final and ends the loop; an unload ends and leaves nothing;
  a failing switch is retried and comes back; counters stay in range.
- notifications: in order, at most once, no uncounted loss while connected, delivered.
- deduplicator: a copy exactly when a report is less than a window old; bounded table.
- config flow: only credentials that the switch accepted are stored; a validation ends
  and releases its link, also when it is cancelled; one light ID; retrying succeeds.
- entry: a loaded entry runs with the data that is stored, whenever an update comes; the
  session works within its entry only; a session that gave up is repaired or in the
  user's hands; an address is never taken back; every entry is served in the end.
- wire: an advertisement, a LOGIN response and an event mean to the code exactly what
  their sender laid out, and the LOGIN request to the switch; anything of another layout
  or of other credentials, or cut, means nothing; the cipher is AES.

## 2. Modules

| Module | Stands for |
|---|---|
| `PairLinkConnection` | one connection: handshake, close, exceptions, link; used by the next two |
| `PairLinkSession` | the sessions on one lock |
| `SessionPromise` | abstract: the state diagram of the design, section 8.2, and the turn |
| `PairLinkSessionImplements` | the refinement mapping from the one to the other |
| `PairLinkSession_proofs`, `PairLinkSessionImplements_proofs` | inductive invariant and theorems; the refinement |
| `PairLinkConnection_proofs` | lemmas about a connection, for both of its owners |
| `PairLinkNotifications` | queue, get task, backlog and reporting of one connection |
| `PairLinkNotifications_proofs` | lemmas about increasing sequences, inductive invariant, theorems |
| `EventDeduplicator`, `DeduplicationPromise` | the burst table, and what it promises |
| `EventDeduplicator_proofs` | its inductive invariant, theorems and refinement |
| `PairLinkConfigFlow` | flows, switches, entries |
| `PairLinkConfigFlow_proofs` | inductive invariant of each flow, theorems |
| `PairLinkEntry` | the life of an entry: setup to removal, with its session (an instance of `SessionPromise`), its flow, its switch and the discoveries of Home Assistant |
| `PairLinkEntry_proofs` | inductive invariant of each switch, theorems |
| `PairLinkProtocol` | the codec: AES-128, padding, mask, LOGIN, events, as operators on sequences of bytes |
| `PairLinkDiscovery` | the parser of advertisements, credentials and entry data |
| `PairLinkWire` | a switch and the code on both sides of those bytes, and AES by its arithmetic |
| `PairLinkWire_proofs` | lemmas about bytes, exclusive or and the cipher, inductive invariant, theorems |
| `MCPairLinkSession`, `MCPairLinkConfigFlow`, `MCEventDeduplicator`, `MCPairLinkWire` | symmetry and sample bytes for TLC |

**Session.** `pc[s]` is the await of the connection loop: `establish` ...
`write_status` are the awaits of the handshake, `lock` the wait for the lock,
`stop_notify` and `disconnect` those of `async_close` in an except clause (`why`
remembers which), `ready` is `_async_process_notifications`, `backoff` the timed wait.
`rtask[s]` is the await of `_async_close_for_reauth`, `stopper[s]` that of
`async_stop`; once it is not `"none"` the loop's next resumption is `LoopCancelled`.
`client`, `disconnected`, `closing` are fields of the *current* connection object,
`link` is the GATT link itself, which outlives the object. `holder` and `waiters` are
asyncio's lock with its FIFO queue: a release wakes the head, and a newcomer may not
overtake it. The wake event and the timer both end a backoff, so they are one step.
`Faults` switches on lost links (`drop`), silent ones (`silence`) and unexpected
errors of a close (`close`); errors of the handshake calls are always possible.
A disconnect that was requested counts as done when the call returns or raises an error
that the code suppresses (session.py:187-188): a backend that keeps the link after such
an error is outside the model, and outside what the code could see. The count of
mismatches stops at its limit in the model only; the code compares with `>=`.

**Notifications.** A packet is its number of arrival. `getter` is the `get` task of
`_async_next_live_packet`, which takes a packet out of the queue before the reader is
resumed; a disconnect, a timeout or a cancellation may win in between. `processed` is
what `_process_packet` was given; the events among it are what the entities get to see.

**Config flow.** The credentials of a switch are one key, which the registration
button renews (`Rotated`). `pc[f]` is the form shown or the await of the task.
`accepted` is a history variable. Home Assistant's flow manager is external:
`async_set_unique_id` aborts a second flow in progress for a switch, a closed flow's
task is cancelled, an entry with an open reauthentication flow is removed only after
that flow is closed. A close may break off after the client was forgotten, by a
cancellation (`AbandonClose`) or by an error that is not suppressed (`ClosingFails`,
which shows the user an error): `left[f]` says that it left its link up, until the
switch ends it.

**Entry.** `state[s]` is the await inside Home Assistant's lock of an entry:
`setting_up` is the forwarding of the platforms, `unloading` that of
`async_unload_platforms`, `stopping` that of `async_stop`; the others are the states
`ConfigEntryState` has outside it. `session[s]` is what `runtime_data` was made from,
`reload[s]` a reload that was asked for and has not begun, `flow[s]` the one flow that
Home Assistant lets work on a switch. `conn[s]` says whether the session may have a
connection open, so that `async_stop` may raise an error of its close (`StopRaises`,
what `StopFails` and `StopCrashes` of `PairLinkSession` look like from here), and
whether it did. `inVain[s]` says that a reauthentication during the life of this session
stored what was stored. The steps of a session are those of `SessionPromise`, which
`PairLinkSession` implements, with what the credentials and the address decide: a switch
is ready only for its own key at its own address, refuses another key, and refuses its
own only by LOGIN timeouts. `key` is what the switch accepts, `where` its address; they
change by the button (`Rotated`) and by a move, at any time. Whether a registration that
a flow hears has a new key is up to the switch. Home Assistant is
external: it starts a discovery of an address once (`discoverable`) and again after a
removal, aborts it if a flow is in progress, calls the update listener if data differ,
closes the reauthentication flow of an entry it removes, and refuses to reload an entry
whose unload failed. `Init` is any start of Home Assistant, which is how a restart or a
crash between two steps looks to the code: entries are all that lasts.

**Wire.** `sent` is what the sender meant and `received` what the code made of its
bytes; entry, codec and peer follow from a registration, a setup and a LOGIN response,
so that an event is decoded with a key that came out of an advertisement. An operator
returns `{}` where the code raises `ValueError` or returns `None`. A handler is one
action, and `Handled` its return. The layouts of the sender are external, taken from the
test vectors; the codec's `encrypt_data_event` serves as the sender's.

Definitions whose comment says *Mutant* are plausible bugs: each is the replacement
of the definition after it, and shows that a property notices the bug.

## 3. Runs

| Run | Instance | Shows |
|---|---|---|
| `SessionPair` | 2 sessions, 2 timeouts, 1 mismatch, 1 delay, all faults, symmetry | safety of the sessions, refinement of `SessionPromise` |
| `SessionRecovery` | 1 session, 3 timeouts, 3 mismatches, 6 delays, drop and silence, `AnsweringSpec` | counters in range; only READY resets the backoff and the count of LOGIN timeouts; READY is served; recovery; a silent link is noticed |
| `SessionLiveness` | 2 sessions, limits 1, no faults, `FairSpec` | unload ends, reauthentication ends the loop, lock served |
| `FlowPair` | 2 flows for one switch, 1 rotation, 2 attempts, 2 light IDs | stored means accepted; a close finds its link; a light ID never changes |
| `Entry` | 1 switch, 1 move, 1 rotation, `PersistentSpec` | updates take effect; the session stays within its entry; no flow for the wrong entry; no address comes back; a session that gave up is not left alone; every entry is served |
| `Wire` | 1 switch and 2 strangers, 17 layouts, 16 events, every cut, 17 blocks | advertisements, LOGIN, events, padding and cipher |
| `Notifications` | queue of 2, 5 packets, `FairSpec` | order, no duplicates, no uncounted loss, pending operations are reported |
| `Deduplicator` | 3 events, windows of 0, 2 and 3, 6 ticks | the table keeps its promise and forgets what is stale |

*Bounds.* Two sessions are enough for every race on the lock: one inside, one queued,
and a queue of two when the holder fails and comes back. The limits 2/1/1 of the pair
keep both branches of every comparison reachable; the production values are checked with
one session, whose counters no other session touches, and the theorems hold for all
values. Two flows give each race between flows. In `Entry` one switch is enough:
sessions meet only at the lock, which the session runs check, and flows of different
switches only in the light ID. One rotation makes two keys, which tell the stored one
from the accepted one; an entry may begin with either, and with either address, so that
one more move and one more rotation, at any step of a setup, a reload or a flow, meet an
entry that is current or already behind. In `Wire` each layout and event differs from the right one in one field, payloads run
across both block boundaries, the blocks of the cipher hold every byte, and the home ID
holds the bytes of a marker. Five packets fill a queue of two, the get task and the
backlog and leave one to drop. Six ticks let a window of two or three open, close and
open again while those of two other events overlap it; a window of 0 is the production
value. `MaxRotations`, `MaxPackets`, `MaxTime` and `MaxCopies` only end behaviours.
Deadlock is checked in `Entry` and `Wire`, where something is always left to do. It is
not in the others: a stopped session, a finished flow, an ended connection and a stopped
clock are ends the system really has.

*Fairness.* `Fairness` of the session: the event loop resumes a coroutine whose await is
over, and Bleak's calls return or raise (its backends and `bleak-retry-connector` have
timeouts; the writes in the handshake have none of their own, section 6). The health
check of a silent link fails, because the GAP read does travel over the link. There is
no fairness for advertisements, reauthentications or unloads. `SwitchAnswers` adds
strong fairness for each step of the handshake: it may fail any number of times but not
for ever; only `Recovers` needs it. `PersistentSpec` of `PairLinkEntry` says the same in
the terms of `SessionPromise`: a session that keeps trying takes its turn, and is at
some time accepted with the right key and refused with a wrong one; a flow that listens
hears the switch, and a validation of the right key succeeds, if they are tried often
enough; the user submits the forms, and holds the button when a flow listens; Home
Assistant goes on with setups, reloads and discoveries, also when a setup finds no
Bluetooth adapter for a while. The loop of a session is assumed not to die of a close
that raises (see the next section); `async_stop` may raise. Nothing
makes the user close a flow, reload or remove an entry, and nothing makes a switch take
a new key. `FairSpec` of the notifications: the reader runs, and the handshake ends
one way or the other, which its timeouts ensure.

### What the code does not do

Four runs each check a statement of a document, comment or test, and TLC finds a
behaviour of the code that breaks it.

- `ReauthLateConnect`: advertisements of another home require a reauthentication while
  `establish_connection` is under way; the closing task finds no client, the link comes
  up on the forgotten object and is never released.
- `UnloadCancelsClose`: the unload cancels the loop while it awaits `stop_notify` in
  `async_close`; the disconnect is skipped and the later close finds nothing.
- `FlowLightIds`: two first flows at a time store two light IDs.
- `ReauthUnchanged`: a session that gave up after LOGIN timeouts gets a flow, the flow
  hears and validates what the entry holds already, and `async_update_and_abort` changes
  nothing: no listener, no reload, and a session in REAUTH_REQUIRED without a flow.
  `Repairable` and `EntryServed` name this case (`inVain`) and hold of all others.

One more weakness of the code has no run of its own, but an action in each model: an
error of `stop_notify` or `disconnect` outside `BLEAK_RETRY_EXCEPTIONS` leaves
`async_close` after the client was forgotten, and the disconnect may be skipped.

- In an except clause of the connection loop, and in the closing task, it ends the task
  and leaves the switch shown as it was, READY included (`LoopCrashes`,
  `ReauthCrashes`). `AvailableIsServed` is checked and proved for closes that raise
  errors of Bleak only: add `"close"` to the faults of `SessionRecovery` to see it fail.
- In `async_stop` it comes out of the unload (`StopFails`, `StopCrashes`; `StopRaises` of
  `PairLinkEntry`): the entry counts as not unloaded, cannot be reloaded, and its session
  shows what it showed. `WorksWithinEntry` therefore speaks of sessions whose
  `async_stop` has not raised, `EntryServed` of entries whose unload has not failed.
- At the end of a validation the retry form is shown with the link up (`ClosingFails`). A
  flow closed at that await leaves its link up, too (`AbandonClose`). The variable `left`
  says so, and `ValidationReleasesLink` what does hold: every other close finds its
  link, also that of a handshake that was cancelled.

## 4. Proofs

Each module of proofs has one inductive invariant, `IInv` (the refinement adds
`ShownInv`, that of the wire is called `Loaded`), and its theorems follow from it; those
of the flows, the entry, the notifications and the wire were model-checked on the
instances of section 3 before they were proved.
The assumptions are the `ASSUME`s of the modules: they bound the constants and say that
`None` and the like are none of the values. `AvailableIsServed` needs one more, stated
in the theorem.

**Sessions.** `PairLinkSession_proofs` proves for every set of sessions, all limits and
all faults:

- `TypeCorrect`, `HandshakesAreExclusive`, `ReauthIsFinal`, `OpenLinksAreReachable`,
  `OneSlotPerSwitchHolds`, `StoppedIsQuietHolds`;
- `AvailableIsServedHolds`, under `"close" \notin Faults`;
- of steps: `OnlyReadyForgivesHolds`, of the backoff index and the count of LOGIN
  timeouts (mismatches are also reset by a matching advertisement).

The inductive invariant is the conjunction of

- `TypeInv`: types, and that a login timeout is below its limit whenever the loop may
  add one (`TypeOK` alone is not preserved: the count could pass its limit);
- `LockInv`: the sessions in the handshake are exactly the holder of the lock
  (exclusion alone says nothing of who holds it);
- `QueueInv`: the queue of the lock holds exactly the sessions that wait, once each
  (so that a cancelled waiter leaves nothing behind);
- `LinkInv`: for each session the relation of link, client, connection object,
  closing flag and the awaits of loop, closing task and unload;
- `StopInv`: `async_stop` closes only when loop and closing task have ended;
- `ReauthFinal`, which is inductive.

`LockPreserved` and `QueuePreserved` are proved over a list of nine effects a step can
have on the lock (`LockEffect`); `Others` says that a step of a session touches no
other session, which reduces the remaining conjuncts to the session that moves.

`PairLinkSessionImplements_proofs` proves `PromiseIsKept`: the sessions implement
`SessionPromise`, step by step. `IInv` says who has the turn but not what a session
shows when it takes it; `ShownInv` does: unless a reauthentication is required, a
session in the handshake shows AUTHENTICATING, and one that waits shows something from
which the promise lets it take its turn. `EndsAreFinal` draws the consequence for the
sessions: an unloaded one never comes back.

**Entry.** `PairLinkEntry_proofs` proves for any switches and any number of
moves and rotations `TypeCorrect`, `WorksWithinEntryHolds`, `FlowFitsEntryHolds`,
`LoadedIsCurrentHolds`, `AddressNeverRevertsHolds`, and `RepairableHolds`. The
invariant is a conjunction for each switch, because no step touches two of them:

- `SessionInv`: `WorksWithinEntry`, that `async_stop` has not failed for an entry that is
  loaded or will be, and that the entry, its `runtime_data` and its
  entities are there wherever setup, unload and removal use them;
- `VersionInv`: before a flow can look for an entry it has been migrated: without it
  a flow might find the wrong entries configured;
- `AddressInv`: nobody knows an address before the switch has it, which is why what a
  flow or a discovery stores is never older than what is stored;
- `FlowInv`: `FlowFitsEntry`, and that there is no flow without a source;
- `CurrentInv`: `LoadedIsCurrent` from the beginning of the setup on, since an update
  may come while the platforms are being forwarded;
- `RepairInv`: `Repairable`. A flow that ends has stored a change, and a change reloads,
  or has stored none, and `inVain` says so.

**Flows.** `PairLinkConfigFlow_proofs` proves for any number of flows, switches, light
IDs, attempts and rotations `TypeCorrect`, `EntryWasAcceptedHolds`,
`ValidationReleasesLinkHolds` and `LightIdStableHolds`. The
invariant adds to these, for each flow,

- `TargetInv`, `CredentialsInv`: target, address and credentials are set where they
  are used;
- `VerdictInv`, `AcceptedInv`: a flow past `login_response`, or closing with the verdict
  "ok", or finished with "ok", has credentials that the switch accepted. `EntryWasAccepted`
  says so of the entries only, and the verdict that is kept over the close must not be
  that of an earlier attempt;
- `LinkInv`: past `establish` the connection has its client, so a close finds the link;
- `LightInv`: the entry of a reauthentication is there as long as the flow, and the
  credentials have its light ID. It rests on `OneFlowPerSwitch`, which Home Assistant
  ensures: a second flow could replace the entry meanwhile.

**Notifications.** `PairLinkNotifications_proofs` proves for a queue of any size and any
number of packets `TypeCorrect`, `ReportedInOrderHolds` and `NoSilentLossHolds`.
`ReportedInOrder` speaks of what was processed, and is not inductive; `OrderInv` says
that processed, backlog, `get` task and queue, read in that order, are one increasing
sequence. `ReaderInv` says why the stages stay apart: between LOGIN and the notification
loop nobody reads, and a packet is processed from the `get` task only when the backlog is
empty. The lemmas before it say when a concatenation and an `Append` are increasing and
what `Head` and `Tail` leave.

**Deduplicator.** `EventDeduplicator_proofs` proves for every set of events, all windows
and bounds: `TypeCorrect`, `OpenWindowsAreRemembered`, `StaleBurstsAreDropped` and
`PromiseIsKept`, the refinement of `DeduplicationPromise`. Its invariant adds
`BurstsAreReports`, that a burst is that of the last report of its event:
`OpenWindowRemembered` is the converse, and together they make the answer of the table
the answer of the promise (`TableIsExact`).

**Wire.** `PairLinkWire_proofs` proves, for sequences of any length and any bytes:

- `ParsedAsLaidOut`: whatever precedes the first marker or lies before the second one,
  a value cut after any byte is understood exactly if it is whole, of a known type and
  in ASCII, and of a list the first one asked for is taken;
- `UnpadsOnlyPadded`: `Unpad` accepts what `Pad` makes and nothing else;
- `DecryptsWhatIsEncrypted`: decryption takes back encryption of every block under
  every key;
- `MixesAsTheStandard`: `_mix_column`, which mixes a column by its total, multiplies
  every column by the matrix of FIPS 197;
- `UnderstandsTheSwitch`: after a registration, storing and loading, the LOGIN request,
  its answer, and a whole event of any length mean to either side what the other meant.

The last one rests on the inductive invariant `Loaded`, that only the credentials of
the switch registered are ever stored, loaded or used for a codec, and that a codec
has an entry. `SwitchUnderstood` alone says nothing of the entry, and a step that
decodes an event needs to know where its key came from. The rest is about operators:

- *Bytes.* `n` bytes are a function in `Bytes(n)`. Each format is taken apart element
  by element (`SliceBytes`, `FoundFirst`, `ValueParsed`, `EventParsed`), so that a cut
  is a shorter domain of the same elements.
- *Exclusive or.* `HalfXorAssociative` from the parities of the bits, `XorAssociates`
  from the halves of a byte; `XTimeXor`: multiplying by x distributes over it.
- *Cipher.* Each step of a round is undone by its inverse: the table by a witness
  (`InverseTable`), the rows by their indices, the columns by `ColumnUnmixed`: mixing
  twice does what `_inv_mix_columns` does first (`MixColumnTwice`), and doing that twice
  changes nothing (`PremixTwice`). `DecryptionRounds` runs the rounds backwards, and
  `ScheduleTyped` says that the key schedule has the words they use.
- *Whole data.* Blocks put together and taken apart (`Flattened`, `BlocksApart`),
  the mask applied twice (`MaskedTwice`), and `EventRestored` for a whole event.

The recursive functions are those of rounds, schedule and product. What they compute is
proved without an induction theorem: a property of each step holds of all of them, since
there would be a least number at which it fails (`Least`, `Upward`), and the function
exists because it can be extended step by step (`Iteration`).

The assumptions on the constants are `SwitchFields` (the sizes that
`PairLinkCredentials` demands), `LayoutsWellLaid` (a sender's markers are the first of
their kind, which is all the parser can go by), `RegistrationsAreOfSwitch` and
`SentFields` (sizes of the fields; an answer is one block; an event in plaintext does
not begin with the category of an encrypted one).

**Only model-checked.**

- Liveness, of all components: fairness and ENABLED are out of TLAPS's reach. So
  recovery, the end of an unload, the delivery of pending operations, and that every
  entry is served, are shown by the runs on their instances.
- `StrangersIgnored`. It is not true of all bytes: the protocol has no checksum, and
  what a wrong key or address decrypts to, or an event cut after a whole block, may
  happen to end like padding. The run shows it for strangers that differ in one byte of
  the home ID or the password, and for every cut of two events.
- `CipherIsAes`, as a whole. Its first and third part are theorems
  (`DecryptsWhatIsEncrypted`, `MixesAsTheStandard`); that the table is the inverse in
  GF(2^8) with the affine map, and that the example of FIPS 197 comes out, are
  computations, which the run makes for every byte and for the example.
- The properties of the four runs that expect a violation, which are false of the code.

## 5. Plan

Done: sessions, deduplicator, notifications, config flow and entry lifecycle, and
advertisements, codec and wire, each with its proofs.

What is left, in this order:

1. The validation of a flow beside a session of another switch. It does not take the
   shared lock, although the design (lines 420-421) serialises all GATT connections and
   LOGINs: visible in the code, and a run would restate it. Worth a model is what a link
   leaked by `ReauthLateConnect` does to the validation that follows it.
2. Entities: availability and event order across reconnects.
3. Proofs: the abstract side of the flows, one flow of `PairLinkEntry` against
   those of `PairLinkConfigFlow`, as a refinement.

## 6. Not modelled

- Durations: a timeout may happen at any time. Whether an advertisement shortens a
  backoff is therefore not visible.
- A GATT call that never returns while the shared lock is held: the fairness assumes
  that it does return.
- Packets still in the queue when a connection ends: they are discarded without being
  counted, which `NoSilentLoss` allows by speaking of open connections only.
- Redaction, translations, logging, diagnostic counters other than those that decide
  something, names, the bits of a random light ID.
- `async_start` is called once per session object, as `async_setup_entry` does.
- Stored data that do not load (`ConfigEntryError`, a migration that is refused), which
  nothing in the code stores, and entries of a version above 2.
- The scanning mode. `IMPLEMENTATION_PLAN.md:106` speaks of active scanning and
  `config_flow.py:308` asks for passive; which adapters hear what is outside the code.
- What the entities do with an event, which they forward, the diagnostics dump, and the
  Aruba patch, which wraps a function of another integration once.

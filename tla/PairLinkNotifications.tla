----------------------- MODULE PairLinkNotifications -----------------------
(***************************************************************************)
(* The notifications of one PairLinkConnection, and how the session reports *)
(* them: custom_components/pairlink/session.py.                             *)
(*                                                                          *)
(* Bleak's callback puts a packet into a bounded asyncio.Queue.  The        *)
(* coroutine that logs in, and later the notification loop, take it out     *)
(* with _async_next_live_packet, which races a `get` task against a         *)
(* disconnect: the packet leaves the queue some time before the coroutine   *)
(* is resumed with it.  Packets that come before the LOGIN response are set *)
(* aside in a backlog, which the notification loop reads first.             *)
(*                                                                          *)
(* A packet is its number in the order of arrival; arrived says of what     *)
(* kind it is.  The deduplicator is off, as it is by default.               *)
(***************************************************************************)
EXTENDS Integers, Sequences, SequencesExt

CONSTANTS
    QueueSize,  \* NOTIFICATION_QUEUE_SIZE
    MaxPackets  \* bound: packets that the switch sends on the connection

ASSUME QueueAssumption == QueueSize \in Nat \ {0} /\ MaxPackets \in Nat

VARIABLES
    phase,         \* what the coroutine that reads is doing
    arrived,       \* history: the kind of each packet that has arrived
    queue,         \* _notifications
    backlog,       \* _backlog
    getter,        \* the `get` task of the reader: None, Waiting or its packet
    disconnected,  \* _disconnect_event is set: ~is_connected
    dropped,       \* history: the packets that dropped_notifications counts
    processed      \* history: the packets given to _process_packet, in that order

vars == <<phase, arrived, queue, backlog, getter, disconnected, dropped, processed>>

None == 0
Waiting == -1

\* "login": starts with 02 19.  "event": _process_packet decodes it as an ON
\* or OFF of this remote and channel.  "unknown": anything else.
Kinds == {"login", "event", "unknown"}

\* "login": in _wait_for_login_response.  "welcome": between the LOGIN
\* response and the end of the handshake, when nobody reads.  "ready": in
\* _async_process_notifications.  A connection ends as "failed" when it was
\* never ready, and as "ended" otherwise.
Phases == {"login", "welcome", "ready", "failed", "ended"}

Packet == 1..Len(arrived)

TypeOK ==
    /\ phase \in Phases
    /\ arrived \in Seq(Kinds) /\ Len(arrived) <= MaxPackets
    /\ queue \in Seq(Packet) /\ Len(queue) <= QueueSize
    /\ backlog \in Seq(Packet)
    /\ getter \in Packet \cup {None, Waiting}
    /\ disconnected \in BOOLEAN
    /\ dropped \subseteq Packet
    /\ processed \in Seq(Packet)

\* start_notify and the LOGIN request were answered; the reader waits.
Init ==
    /\ phase = "login"
    /\ arrived = <<>>
    /\ queue = <<>>
    /\ backlog = <<>>
    /\ getter = Waiting
    /\ disconnected = FALSE
    /\ dropped = {}
    /\ processed = <<>>

Open == phase \in {"login", "welcome", "ready"}

Finish ==
    /\ phase' = IF phase = "ready" THEN "ended" ELSE "failed"
    /\ getter' = None

-----------------------------------------------------------------------------
\* Mutant: a queue without maxsize.
NotifiedUnbounded(kind) ==
    /\ Open /\ Len(arrived) < MaxPackets
    /\ arrived' = Append(arrived, kind)
    /\ queue' = Append(queue, Len(arrived'))
    /\ UNCHANGED <<phase, backlog, getter, disconnected, dropped, processed>>

\* _notification_callback
Notified(kind) ==
    /\ Open /\ Len(arrived) < MaxPackets
    /\ arrived' = Append(arrived, kind)
    /\ IF Len(queue) < QueueSize
       THEN queue' = Append(queue, Len(arrived')) /\ UNCHANGED dropped
       ELSE dropped' = dropped \cup {Len(arrived')} /\ UNCHANGED queue
    /\ UNCHANGED <<phase, backlog, getter, disconnected, processed>>

\* _disconnected_callback, or async_close of a reauthentication.
Disconnected ==
    /\ Open /\ ~disconnected
    /\ disconnected' = TRUE
    /\ UNCHANGED <<phase, arrived, queue, backlog, getter, dropped, processed>>

\* The `get` task runs.
GetterTakes ==
    /\ getter = Waiting /\ queue # <<>>
    /\ getter' = Head(queue)
    /\ queue' = Tail(queue)
    /\ UNCHANGED <<phase, arrived, backlog, disconnected, dropped, processed>>

Holds(kind) == getter \in Packet /\ arrived[getter] = kind

\* The head of _async_next_live_packet: None when the connection is lost,
\* which ends the reader, else a new `get` task.
ReadOn ==
    IF disconnected
    THEN Finish
    ELSE getter' = Waiting /\ UNCHANGED phase

\* asyncio.wait returns because of the disconnect alone.
ReadEnds ==
    /\ getter = Waiting /\ disconnected
    /\ Finish
    /\ UNCHANGED <<arrived, queue, backlog, disconnected, dropped, processed>>

-----------------------------------------------------------------------------
\* Mutants: the packet is put at the front, or nowhere.
SetAsideInFront ==
    /\ phase = "login" /\ (Holds("event") \/ Holds("unknown"))
    /\ backlog' = <<getter>> \o backlog
    /\ ReadOn
    /\ UNCHANGED <<arrived, queue, disconnected, dropped, processed>>
SetAsideNowhere ==
    /\ phase = "login" /\ (Holds("event") \/ Holds("unknown"))
    /\ ReadOn
    /\ UNCHANGED <<arrived, queue, backlog, disconnected, dropped, processed>>

\* _wait_for_login_response is resumed with an unrelated packet.
SetAside ==
    /\ phase = "login" /\ (Holds("event") \/ Holds("unknown"))
    /\ backlog' = Append(backlog, getter)
    /\ ReadOn
    /\ UNCHANGED <<arrived, queue, disconnected, dropped, processed>>

\* It is resumed with a LOGIN response, which is valid or not.
LoginAnswered ==
    /\ phase = "login" /\ Holds("login")
    /\ getter' = None
    /\ phase' \in {"welcome", "failed"}
    /\ UNCHANGED <<arrived, queue, backlog, disconnected, dropped, processed>>

\* The LOGIN timeout, a failing write or a cancellation: the reader drops the
\* packet its `get` task may hold.
HandshakeFails ==
    /\ phase \in {"login", "welcome"}
    /\ Finish
    /\ UNCHANGED <<arrived, queue, backlog, disconnected, dropped, processed>>

HandshakeCompletes ==
    /\ phase = "welcome"
    /\ phase' = "ready"
    /\ UNCHANGED <<arrived, queue, backlog, getter, disconnected, dropped, processed>>

-----------------------------------------------------------------------------
\* _process_packet reports a packet to the subscribers, or counts it only.
IsEvent(p) == arrived[p] = "event"

\* _process_packet of each packet of a sequence; async_next_packet hands out
\* the whole backlog without suspending.
Process(packets) == processed' = processed \o packets

\* Mutant: the loop reads the queue only.
NotificationLoopStartsLive ==
    /\ phase = "ready" /\ getter = None
    /\ ReadOn
    /\ UNCHANGED <<arrived, queue, backlog, disconnected, dropped, processed>>

\* _async_notification_loop starts.
NotificationLoopStarts ==
    /\ phase = "ready" /\ getter = None
    /\ IF disconnected
       THEN UNCHANGED <<backlog, processed>>
       ELSE backlog' = <<>> /\ Process(backlog)
    /\ ReadOn
    /\ UNCHANGED <<arrived, queue, disconnected, dropped>>

\* It is resumed with a packet, processes it and reads on.
PacketProcessed ==
    /\ phase = "ready" /\ getter \in Packet
    /\ Process(<<getter>>)
    /\ ReadOn
    /\ UNCHANGED <<arrived, queue, backlog, disconnected, dropped>>

\* The health loop fails, or the session is stopped: the loop is cancelled.
LoopCancelled ==
    /\ phase = "ready"
    /\ Finish
    /\ UNCHANGED <<arrived, queue, backlog, disconnected, dropped, processed>>

ReaderStep ==
    \/ GetterTakes \/ ReadEnds \/ SetAside \/ LoginAnswered
    \/ NotificationLoopStarts \/ PacketProcessed

Next ==
    \/ \E kind \in Kinds : Notified(kind)
    \/ Disconnected \/ ReaderStep
    \/ HandshakeFails \/ HandshakeCompletes \/ LoopCancelled

Spec == Init /\ [][Next]_vars

\* The event loop runs the `get` task and resumes the reader; the switch
\* answers WELCOME and DEVICE_STATUS, or the write fails.
FairSpec == Spec /\ WF_vars(ReaderStep)
                 /\ WF_vars(HandshakeFails \/ HandshakeCompletes)

-----------------------------------------------------------------------------
(***************************************************************************)
(* Safety.                                                                 *)
(***************************************************************************)
\* Button operations are reported in the order in which they arrived, and
\* none twice, whichever of backlog, queue and `get` task they went through.
ReportedInOrder ==
    \A i, j \in DOMAIN processed :
        i < j /\ IsEvent(processed[i]) /\ IsEvent(processed[j])
            => processed[i] < processed[j]

\* Where an event may be while it waits for the reader.
Pending == ToSet(backlog) \cup ToSet(queue) \cup {getter}

\* While the connection lasts no event gets lost without being counted as
\* dropped: it was reported or is on its way.
NoSilentLoss ==
    Open => \A p \in Packet :
        IsEvent(p) => p \in ToSet(processed) \cup Pending \cup dropped

(***************************************************************************)
(* Liveness.                                                               *)
(***************************************************************************)
\* An event that is waiting is reported, unless the connection ends first:
\* also one that came before the LOGIN response.
EventReported ==
    \A p \in 1..MaxPackets :
        p \in Packet /\ IsEvent(p) /\ p \in Pending
            ~> p \in ToSet(processed) \/ ~Open
=============================================================================

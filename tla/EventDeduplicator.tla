------------------------- MODULE EventDeduplicator -------------------------
(***************************************************************************)
(* EventDeduplicator of custom_components/pairlink/session.py: collapses    *)
(* the copies of a remote event that arrive within a window of the first.   *)
(* A session makes one with the window DEDUPLICATION_WINDOW, which is 0:    *)
(* every event is reported.                                                 *)
(*                                                                          *)
(* An event is its key: the five fields of RemoteEvent that are compared.   *)
(***************************************************************************)
EXTENDS Integers

CONSTANTS
    Event,     \* keys of remote events
    Windows,   \* the windows a deduplicator may be made with, in ticks
    MaxTime,   \* bound: the clock stops here
    MaxCopies  \* bound: copies counted in a burst

ASSUME WindowAssumption == Windows \subseteq Nat
ASSUME BoundAssumption == MaxTime \in Nat /\ MaxCopies \in Nat \ {0}

VARIABLES
    window,     \* _window
    now,        \* time.monotonic()
    first,      \* _bursts[event].first_seen; its domain is that of _bursts
    copies,     \* _bursts[event].repeat_count
    answer,     \* history: the event last classified, and whether as a copy
    reportedAt  \* history: when each event was last reported, -1 for never

vars == <<window, now, first, copies, answer, reportedAt>>

NoAnswer == <<>>

TypeOK ==
    /\ window \in Windows
    /\ now \in 0..MaxTime
    /\ DOMAIN first \subseteq Event
    /\ first \in [DOMAIN first -> 0..now]
    /\ copies \in [DOMAIN first -> 1..MaxCopies]
    /\ answer \in (Event \X BOOLEAN) \cup {NoAnswer}
    /\ reportedAt \in [Event -> -1..now]

NoBursts == [e \in {} |-> 0]

Init ==
    /\ window \in Windows
    /\ now = 0
    /\ first = NoBursts
    /\ copies = NoBursts
    /\ answer = NoAnswer
    /\ reportedAt = [e \in Event |-> -1]

\* Mutant: a burst lives one tick longer.
LiveAtTheEnd(burstStart) == now - burstStart <= window

Live(burstStart) == now - burstStart < window

\* classify returns (False, 1): the event is not a duplicate.
Report(e) ==
    /\ answer' = <<e, FALSE>>
    /\ reportedAt' = [reportedAt EXCEPT ![e] = now]

IsCopy(e) == e \in DOMAIN first /\ Live(first[e])

\* Without a window the bursts are not looked at.
ClassifyDisabled(e) ==
    /\ window = 0
    /\ Report(e)
    /\ UNCHANGED <<window, now, first, copies>>

\* classify returns (True, repeat_count).
ClassifyCopy(e) ==
    /\ window > 0 /\ IsCopy(e)
    /\ copies[e] < MaxCopies
    /\ copies' = [copies EXCEPT ![e] = @ + 1]
    /\ answer' = <<e, TRUE>>
    /\ UNCHANGED <<window, now, first, reportedAt>>

\* Mutants: a new burst forgets the others, or keeps them for ever.
KeptAlone(e) == {e}
KeptAll(e) == {e} \cup DOMAIN first

\* The bursts that are kept when e begins a new one, which is live itself.
Kept(e) == {e} \cup {x \in DOMAIN first : Live(first[x])}

\* classify begins a burst, drops the stale ones.
ClassifyNew(e) ==
    /\ window > 0 /\ ~IsCopy(e)
    /\ first' = [x \in Kept(e) |-> IF x = e THEN now ELSE first[x]]
    /\ copies' = [x \in Kept(e) |-> IF x = e THEN 1 ELSE copies[x]]
    /\ Report(e)
    /\ UNCHANGED <<window, now>>

\* Mutant: a wall clock, which may be set back.
TickOfWallClock ==
    /\ now < MaxTime
    /\ now' \in {now - 1, now + 1}
    /\ UNCHANGED <<window, first, copies, answer, reportedAt>>

\* time.monotonic() goes on.
Tick ==
    /\ now < MaxTime
    /\ now' = now + 1
    /\ UNCHANGED <<window, first, copies, answer, reportedAt>>

Next ==
    \/ \E e \in Event : ClassifyDisabled(e) \/ ClassifyCopy(e) \/ ClassifyNew(e)
    \/ Tick

Spec == Init /\ [][Next]_vars

-----------------------------------------------------------------------------
\* Dropping stale bursts never lets a copy through: while the window of the
\* last report of an event is open, its burst is remembered with the time of
\* that report.
OpenWindowRemembered ==
    \A e \in Event :
        window > 0 /\ reportedAt[e] # -1 /\ Live(reportedAt[e])
            => e \in DOMAIN first /\ first[e] = reportedAt[e]

\* The table does not grow with the events of the past: it holds no burst
\* that was stale at the latest report of any event.
StaleBurstsDropped ==
    \A e \in Event, x \in DOMAIN first :
        reportedAt[e] - first[x] < window

Promise == INSTANCE DeduplicationPromise

\* What the deduplicator promises: every event is answered, and answered as a
\* copy exactly when a report of it is less than a window old.
ImplementsPromise == Promise!Spec
=============================================================================

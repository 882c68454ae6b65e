------------------------ MODULE DeduplicationPromise ------------------------
(***************************************************************************)
(* What EventDeduplicator promises, whatever table it keeps: an event is a  *)
(* copy exactly when it was reported less than a window ago; a copy does    *)
(* not prolong the window.                                                  *)
(***************************************************************************)
EXTENDS Integers

CONSTANTS Event, Windows

VARIABLES
    window,     \* for how long a copy is one
    now,        \* the clock
    answer,     \* the event last asked about, and whether it was a copy
    reportedAt  \* when each event was last reported, -1 for never

vars == <<window, now, answer, reportedAt>>

Init ==
    /\ window \in Windows
    /\ now = 0
    /\ answer = <<>>
    /\ reportedAt = [e \in Event |-> -1]

IsCopy(e) == reportedAt[e] # -1 /\ now - reportedAt[e] < window

Ask(e) ==
    /\ answer' = <<e, IsCopy(e)>>
    /\ reportedAt' = IF IsCopy(e) THEN reportedAt ELSE [reportedAt EXCEPT ![e] = now]
    /\ UNCHANGED <<window, now>>

Tick == now' > now /\ UNCHANGED <<window, answer, reportedAt>>

Next == Tick \/ \E e \in Event : Ask(e)

Spec == Init /\ [][Next]_vars
=============================================================================

---------------------- MODULE EventDeduplicator_proofs ----------------------
(***************************************************************************)
(* Proofs about EventDeduplicator: for every set of events and windows the  *)
(* table answers as DeduplicationPromise says, and keeps no stale burst.    *)
(***************************************************************************)
EXTENDS EventDeduplicator, TLAPS

USE WindowAssumption, BoundAssumption DEF WindowAssumption, BoundAssumption

\* A burst is that of the last report of its event; without a window there is
\* none.  This is what the answers of the table rest on.
BurstsAreReports ==
    \A x \in DOMAIN first : first[x] = reportedAt[x] /\ window > 0

\* The inductive invariant.
IInv == TypeOK /\ BurstsAreReports /\ OpenWindowRemembered /\ StaleBurstsDropped

-----------------------------------------------------------------------------
\* A new deduplicator has no bursts: EventDeduplicator.__init__.
LEMMA InitEstablishes == Init => IInv
  BY DEF Init, IInv, TypeOK, BurstsAreReports, OpenWindowRemembered,
         StaleBurstsDropped, NoBursts, NoAnswer

\* The early return of classify: there is no burst whose window it could close.
LEMMA DisabledPreserves ==
    ASSUME IInv, NEW e \in Event, ClassifyDisabled(e)
    PROVE  IInv'
<1> USE DEF IInv, ClassifyDisabled, Report
<1>1. DOMAIN first = {}
  BY DEF BurstsAreReports
<1>2. TypeOK'
  <2>1. answer' \in (Event \X BOOLEAN) \cup {NoAnswer}
    BY Zenon
  <2>2. reportedAt' \in [Event -> -1..now]
    BY DEF TypeOK
  <2> QED
    BY <2>1, <2>2, Zenon DEF TypeOK
<1>3. BurstsAreReports' /\ StaleBurstsDropped'
  BY <1>1 DEF BurstsAreReports, StaleBurstsDropped
<1>4. OpenWindowRemembered'
  BY DEF OpenWindowRemembered
<1> QED
  BY <1>2, <1>3, <1>4

\* A copy counts in its burst and changes no time: it does not prolong it.
LEMMA CopyPreserves ==
    ASSUME IInv, NEW e \in Event, ClassifyCopy(e)
    PROVE  IInv'
<1> USE DEF IInv, ClassifyCopy
<1>1. TypeOK'
  <2>1. answer' \in (Event \X BOOLEAN) \cup {NoAnswer}
    BY Zenon
  <2>2. copies' \in [DOMAIN first -> 1..MaxCopies]
    BY DEF TypeOK, IsCopy
  <2> QED
    BY <2>1, <2>2 DEF TypeOK
<1>2. BurstsAreReports' /\ OpenWindowRemembered' /\ StaleBurstsDropped'
  BY DEF BurstsAreReports, OpenWindowRemembered, StaleBurstsDropped, Live
<1> QED
  BY <1>1, <1>2

\* A new burst drops the stale ones and no other.
LEMMA NewPreserves ==
    ASSUME IInv, NEW e \in Event, ClassifyNew(e)
    PROVE  IInv'
<1> USE DEF IInv, ClassifyNew, Report
<1>1. /\ DOMAIN first' = Kept(e)
      /\ first'[e] = now
      /\ \A x \in Kept(e) \ {e} : x \in DOMAIN first /\ first'[x] = first[x]
  BY DEF Kept
<1>2. \A x \in Kept(e) : now - first'[x] < window /\ first'[x] \in 0..now
  BY <1>1 DEF TypeOK, Kept, Live
<1>3. TypeOK'
  <2>1. Kept(e) \subseteq Event
    BY DEF Kept, TypeOK
  <2>2. first' \in [Kept(e) -> 0..now]
    BY <1>2
  <2>3. copies' \in [Kept(e) -> 1..MaxCopies]
    BY DEF Kept, TypeOK
  <2>4. answer' \in (Event \X BOOLEAN) \cup {NoAnswer}
    BY Zenon
  <2>5. reportedAt' \in [Event -> -1..now]
    BY DEF TypeOK
  <2>6. DOMAIN first' = Kept(e) /\ now' = now /\ window' = window
    BY <1>1
  <2> QED
    BY <2>1, <2>2, <2>3, <2>4, <2>5, <2>6, Zenon DEF TypeOK
<1>4. BurstsAreReports'
  BY <1>1 DEF BurstsAreReports, TypeOK
<1>5. OpenWindowRemembered'
  BY <1>1 DEF OpenWindowRemembered, Kept, Live, TypeOK
<1>6. StaleBurstsDropped'
  <2> SUFFICES ASSUME NEW d \in Event, NEW x \in Kept(e)
               PROVE  reportedAt'[d] - first'[x] < window
    BY <1>1 DEF StaleBurstsDropped
  <2>1. reportedAt'[d] \in -1..now
    BY DEF TypeOK
  <2> QED
    BY <1>2, <2>1 DEF TypeOK
<1> QED
  BY <1>3, <1>4, <1>5, <1>6

\* The passing of time closes windows and opens none: the clock is monotonic.
LEMMA TickPreserves ==
    ASSUME IInv, Tick
    PROVE  IInv'
<1> USE DEF IInv, Tick
<1>1. TypeOK'
  BY DEF TypeOK
<1>2. BurstsAreReports' /\ StaleBurstsDropped'
  BY DEF BurstsAreReports, StaleBurstsDropped
<1>3. OpenWindowRemembered'
  BY DEF OpenWindowRemembered, Live, TypeOK
<1> QED
  BY <1>1, <1>2, <1>3

\* Every step preserves the inductive invariant.
LEMMA StepPreserves == IInv /\ [Next]_vars => IInv'
<1> SUFFICES ASSUME IInv, [Next]_vars PROVE IInv'
  OBVIOUS
<1>1. CASE \E e \in Event : ClassifyDisabled(e)
  BY <1>1, DisabledPreserves
<1>2. CASE \E e \in Event : ClassifyCopy(e)
  BY <1>2, CopyPreserves
<1>3. CASE \E e \in Event : ClassifyNew(e)
  BY <1>3, NewPreserves
<1>4. CASE Tick
  BY <1>4, TickPreserves
<1>5. CASE UNCHANGED vars
  BY <1>5 DEF vars, IInv, TypeOK, BurstsAreReports, OpenWindowRemembered,
              StaleBurstsDropped, Live
<1> QED
  BY <1>1, <1>2, <1>3, <1>4, <1>5 DEF Next

\* The inductive invariant holds in every state of the deduplicator.
THEOREM Invariance == Spec => []IInv
  BY InitEstablishes, StepPreserves, PTL DEF Spec

\* The types of the table: bursts are of events, their times are past.
THEOREM TypeCorrect == Spec => []TypeOK
  BY Invariance, PTL DEF IInv

\* While the window of a report is open its burst is in the table, whatever
\* other events have begun bursts since and dropped stale ones.
THEOREM OpenWindowsAreRemembered == Spec => []OpenWindowRemembered
  BY Invariance, PTL DEF IInv

\* No report leaves a burst in the table that is stale by then.
THEOREM StaleBurstsAreDropped == Spec => []StaleBurstsDropped
  BY Invariance, PTL DEF IInv

-----------------------------------------------------------------------------
\* The table says "copy" exactly when the last report is less than a window
\* old: what classify finds in _bursts is what the promise knows of reports.
LEMMA TableIsExact ==
    ASSUME IInv, NEW e \in Event
    PROVE  /\ Promise!IsCopy(e) => window > 0 /\ IsCopy(e)
           /\ window > 0 /\ IsCopy(e) => Promise!IsCopy(e)
<1> USE DEF IInv, Promise!IsCopy, IsCopy, Live
<1>1. reportedAt[e] \in -1..now /\ window \in Nat /\ now \in Nat
  BY DEF TypeOK
<1>2. Promise!IsCopy(e) => window > 0 /\ IsCopy(e)
  BY <1>1 DEF OpenWindowRemembered
<1>3. window > 0 /\ IsCopy(e) => Promise!IsCopy(e)
  BY <1>1 DEF BurstsAreReports, TypeOK
<1> QED
  BY <1>2, <1>3

\* Each step of the table is a step of the promise.
LEMMA StepImplements ==
    ASSUME IInv, [Next]_vars
    PROVE  [Promise!Next]_(Promise!vars)
<1>1. ASSUME NEW e \in Event, ClassifyDisabled(e)
      PROVE  Promise!Ask(e)
  <2>1. Promise!IsCopy(e) = FALSE
    BY <1>1, TableIsExact DEF ClassifyDisabled, Promise!IsCopy
  <2> QED
    BY <1>1, <2>1, Zenon DEF ClassifyDisabled, Report, Promise!Ask
<1>2. ASSUME NEW e \in Event, ClassifyCopy(e)
      PROVE  Promise!Ask(e)
  <2>1. Promise!IsCopy(e) = TRUE
    BY <1>2, TableIsExact DEF ClassifyCopy, Promise!IsCopy
  <2> QED
    BY <1>2, <2>1, Zenon DEF ClassifyCopy, Promise!Ask
<1>3. ASSUME NEW e \in Event, ClassifyNew(e)
      PROVE  Promise!Ask(e)
  <2>1. Promise!IsCopy(e) = FALSE
    BY <1>3, TableIsExact DEF ClassifyNew, Promise!IsCopy
  <2> QED
    BY <1>3, <2>1, Zenon DEF ClassifyNew, Report, Promise!Ask
<1>4. CASE Tick
  BY <1>4 DEF Tick, IInv, TypeOK, Promise!Next, Promise!Tick
<1>5. CASE UNCHANGED vars
  BY <1>5 DEF vars, Promise!vars
<1> QED
  BY <1>1, <1>2, <1>3, <1>4, <1>5 DEF Next, Promise!Next

\* The deduplicator implements DeduplicationPromise: it never takes a new
\* operation for a copy, and never reports a copy.
THEOREM PromiseIsKept == Spec => ImplementsPromise
<1>1. Init => Promise!Init
  BY DEF Init, Promise!Init, NoAnswer
<1>2. IInv /\ [Next]_vars => [Promise!Next]_(Promise!vars)
  BY StepImplements
<1> QED
  BY <1>1, <1>2, Invariance, PTL DEF Spec, ImplementsPromise, Promise!Spec
=============================================================================

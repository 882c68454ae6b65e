-------------------- MODULE PairLinkNotifications_proofs --------------------
(***************************************************************************)
(* Proofs about PairLinkNotifications, for any size of the queue and any    *)
(* number of packets.                                                       *)
(***************************************************************************)
EXTENDS PairLinkNotifications, SequenceTheorems, TLAPS

USE QueueAssumption DEF QueueAssumption

\* The numbers go up along q.
Increasing(q) == \A i, j \in DOMAIN q : i < j => q[i] < q[j]

\* Every packet of A arrived before every packet of B.
Below(A, B) == \A a \in A, b \in B : a < b

(***************************************************************************)
(* Sequences of packets.                                                   *)
(***************************************************************************)
\* The elements of a sequence.
LEMMA Elements ==
    ASSUME NEW S, NEW q \in Seq(S)
    PROVE  /\ ToSet(q) \subseteq S
           /\ \A i \in 1..Len(q) : q[i] \in ToSet(q)
           /\ \A x \in ToSet(q) : \E i \in 1..Len(q) : x = q[i]
  BY LenProperties, ElementOfSeq DEF ToSet

\* A concatenation has the elements of both sequences, and is increasing if
\* both are and the one is below the other.
LEMMA ConcatIncreasing ==
    ASSUME NEW q \in Seq(Nat), NEW r \in Seq(Nat)
    PROVE  /\ q \o r \in Seq(Nat)
           /\ ToSet(q \o r) = ToSet(q) \cup ToSet(r)
           /\ Increasing(q) /\ Increasing(r) /\ Below(ToSet(q), ToSet(r)) => Increasing(q \o r)
<1>1. /\ q \o r \in Seq(Nat)
      /\ Len(q \o r) = Len(q) + Len(r)
      /\ \A i \in 1..(Len(q) + Len(r)) : (q \o r)[i] = IF i <= Len(q) THEN q[i] ELSE r[i - Len(q)]
  BY ConcatProperties
<1>2. Len(q) \in Nat /\ Len(r) \in Nat
  BY LenProperties
<1>3. \A i \in 1..Len(r) : Len(q) + i \in 1..(Len(q) + Len(r)) /\ (q \o r)[Len(q) + i] = r[i]
  BY <1>1, <1>2
<1>4. ToSet(q \o r) = ToSet(q) \cup ToSet(r)
  <2>1. ASSUME NEW x \in ToSet(q) \cup ToSet(r) PROVE x \in ToSet(q \o r)
    <3>1. CASE x \in ToSet(q)
      <4>1. PICK i \in 1..Len(q) : x = q[i]
        BY <3>1, Elements
      <4>2. i \in 1..Len(q \o r) /\ (q \o r)[i] = x
        BY <1>1, <1>2, <4>1
      <4> QED BY <1>1, <4>2, Elements
    <3>2. CASE x \in ToSet(r)
      <4>1. PICK i \in 1..Len(r) : x = r[i]
        BY <3>2, Elements
      <4>2. Len(q) + i \in 1..Len(q \o r) /\ (q \o r)[Len(q) + i] = x
        BY <1>1, <1>3, <4>1
      <4> QED BY <1>1, <4>2, Elements
    <3> QED BY <3>1, <3>2
  <2>2. ASSUME NEW x \in ToSet(q \o r) PROVE x \in ToSet(q) \cup ToSet(r)
    <3>0. PICK k \in 1..Len(q \o r) : x = (q \o r)[k]
      <4>1. q \o r \in Seq(Nat)
        BY <1>1
      <4> QED BY <4>1, Elements
    <3>1. PICK i \in 1..(Len(q) + Len(r)) : x = (q \o r)[i]
      BY <1>1, <3>0
    <3>2. CASE i <= Len(q)
      BY <1>1, <1>2, <3>1, <3>2, Elements
    <3>3. CASE ~(i <= Len(q))
      <4>1. i - Len(q) \in 1..Len(r) /\ x = r[i - Len(q)]
        BY <1>1, <1>2, <3>1, <3>3
      <4> QED BY <4>1, Elements
    <3> QED BY <3>2, <3>3
  <2> QED BY <2>1, <2>2
<1>5. ASSUME Increasing(q), Increasing(r), Below(ToSet(q), ToSet(r)) PROVE Increasing(q \o r)
  <2>1. DOMAIN q = 1..Len(q) /\ DOMAIN r = 1..Len(r) /\ DOMAIN (q \o r) = 1..(Len(q) + Len(r))
    BY <1>1, LenProperties
  <2>2. ASSUME NEW i \in 1..(Len(q) + Len(r)), NEW j \in 1..(Len(q) + Len(r)), i < j
        PROVE  (q \o r)[i] < (q \o r)[j]
    <3>1. CASE j <= Len(q)
      <4>1. i \in DOMAIN q /\ j \in DOMAIN q /\ i <= Len(q)
        BY <1>2, <2>1, <2>2, <3>1
      <4>2. q[i] < q[j]
        BY <1>5, <2>2, <4>1 DEF Increasing
      <4> QED BY <1>1, <3>1, <4>1, <4>2
    <3>2. CASE i <= Len(q) /\ ~(j <= Len(q))
      <4>1. i \in 1..Len(q) /\ j - Len(q) \in 1..Len(r)
        BY <1>2, <3>2
      <4>2. q[i] \in ToSet(q) /\ r[j - Len(q)] \in ToSet(r)
        BY <4>1, Elements
      <4> QED BY <1>1, <1>5, <3>2, <4>2 DEF Below
    <3>3. CASE ~(i <= Len(q))
      <4>1. /\ i - Len(q) \in 1..Len(r) /\ j - Len(q) \in 1..Len(r)
            /\ i - Len(q) < j - Len(q) /\ ~(j <= Len(q))
        BY <1>2, <2>2, <3>3
      <4>2. r[i - Len(q)] < r[j - Len(q)]
        BY <1>5, <2>1, <4>1 DEF Increasing
      <4> QED BY <1>1, <3>3, <4>1, <4>2
    <3> QED BY <1>2, <2>2, <3>1, <3>2, <3>3
  <2> QED BY <2>1, <2>2 DEF Increasing
<1> QED BY <1>1, <1>4, <1>5

\* One packet more at the end.
LEMMA AppendIncreasing ==
    ASSUME NEW q \in Seq(Nat), NEW x \in Nat
    PROVE  /\ ToSet(Append(q, x)) = ToSet(q) \cup {x}
           /\ Increasing(q) /\ Below(ToSet(q), {x}) => Increasing(Append(q, x))
<1>1. <<x>> \in Seq(Nat) /\ Len(<<x>>) = 1 /\ <<x>>[1] = x
  OBVIOUS
<1>2. Append(q, x) = q \o <<x>>
  BY AppendIsConcat
<1>3. ToSet(<<x>>) = {x} /\ Increasing(<<x>>)
  <2>1. DOMAIN <<x>> = 1..1
    BY <1>1, LenProperties
  <2> QED BY <1>1, <2>1 DEF ToSet, Increasing
<1> DEFINE r == <<x>>
<1> HIDE DEF r
<1>4. r \in Seq(Nat) /\ ToSet(r) = {x} /\ Increasing(r) /\ Append(q, x) = q \o r
  BY <1>1, <1>2, <1>3 DEF r
<1> QED BY <1>4, ConcatIncreasing

\* The head of an increasing sequence is below the rest of it.
LEMMA HeadIsFirst ==
    ASSUME NEW q \in Seq(Nat), q # <<>>
    PROVE  /\ Head(q) \in Nat /\ Tail(q) \in Seq(Nat)
           /\ ToSet(q) = {Head(q)} \cup ToSet(Tail(q))
           /\ Increasing(q) => Increasing(Tail(q)) /\ Below({Head(q)}, ToSet(Tail(q)))
<1>1. /\ Head(q) \in Nat /\ Tail(q) \in Seq(Nat)
      /\ Len(Tail(q)) = Len(q) - 1
      /\ \A i \in 1..Len(Tail(q)) : Tail(q)[i] = q[i + 1]
  BY HeadTailProperties
<1>2. Len(q) \in Nat \ {0} /\ Head(q) = q[1] /\ DOMAIN q = 1..Len(q)
  BY EmptySeq, LenProperties
<1>3. DOMAIN Tail(q) = 1..(Len(q) - 1)
  BY <1>1, LenProperties
<1> DEFINE t == Tail(q)
<1> HIDE DEF t
<1>4. /\ t \in Seq(Nat) /\ DOMAIN t = 1..(Len(q) - 1) /\ Len(t) = Len(q) - 1
      /\ \A i \in 1..(Len(q) - 1) : t[i] = q[i + 1]
  BY <1>1, <1>3 DEF t
<1>5. t \in Seq(Nat)
  BY <1>4
<1>6. ToSet(q) = {q[1]} \cup ToSet(t)
  <2>1. ASSUME NEW x \in ToSet(q) PROVE x \in {q[1]} \cup ToSet(t)
    <3>1. PICK i \in 1..Len(q) : x = q[i]
      BY Elements
    <3>2. CASE i = 1
      BY <3>1, <3>2
    <3>3. CASE i # 1
      <4>1. i - 1 \in 1..Len(t) /\ t[i - 1] = x
        BY <1>2, <1>4, <3>1, <3>3
      <4> QED BY <1>4, <4>1, Elements
    <3> QED BY <3>2, <3>3
  <2>2. ASSUME NEW x \in ToSet(t) PROVE x \in ToSet(q)
    <3>1. PICK i \in 1..Len(t) : x = t[i]
      BY <1>5, Elements
    <3>2. i + 1 \in 1..Len(q) /\ q[i + 1] = x
      BY <1>2, <1>4, <3>1
    <3> QED BY <3>2, Elements
  <2>3. q[1] \in ToSet(q)
    BY <1>2, Elements
  <2> QED BY <2>1, <2>2, <2>3
<1>7. ASSUME Increasing(q) PROVE Increasing(t) /\ Below({q[1]}, ToSet(t))
  <2>1. ASSUME NEW i \in DOMAIN t, NEW j \in DOMAIN t, i < j PROVE t[i] < t[j]
    <3>0. /\ i \in 1..(Len(q) - 1) /\ j \in 1..(Len(q) - 1)
          /\ Len(q) \in Nat /\ DOMAIN q = 1..Len(q)
      BY <1>2, <1>4
    <3>1. i + 1 \in DOMAIN q /\ j + 1 \in DOMAIN q /\ i + 1 < j + 1
      BY <2>1, <3>0
    <3>2. t[i] = q[i + 1] /\ t[j] = q[j + 1]
      BY <1>4, <3>0
    <3> QED BY <1>7, <3>1, <3>2 DEF Increasing
  <2>2. ASSUME NEW x \in ToSet(t) PROVE q[1] < x
    <3>1. PICK i \in 1..Len(t) : x = t[i]
      BY <1>5, Elements
    <3>2. 1 \in DOMAIN q /\ i + 1 \in DOMAIN q /\ q[i + 1] = x /\ 1 < i + 1
      BY <1>2, <1>4, <3>1
    <3> QED BY <1>7, <3>2 DEF Increasing
  <2> QED BY <2>1, <2>2 DEF Below, Increasing
<1> QED BY <1>1, <1>2, <1>6, <1>7 DEF t

(***************************************************************************)
(* The inductive invariant.                                                *)
(***************************************************************************)
\* The packet that the `get` task holds.
Held == {getter} \cap Packet

\* A packet that has left a stage is below those that have not: at no time do
\* two packets pass each other on the way to _process_packet.
OrderInv ==
    /\ Increasing(processed) /\ Increasing(backlog) /\ Increasing(queue)
    /\ Below(ToSet(processed), ToSet(backlog))
    /\ Below(ToSet(processed) \cup ToSet(backlog), Held \cup ToSet(queue))
    /\ Below(Held, ToSet(queue))

\* Nobody reads between the LOGIN response and the notification loop, which
\* empties the backlog first.
ReaderInv ==
    /\ phase = "welcome" => getter = None
    /\ phase = "ready" /\ getter # None => backlog = <<>>

IInv == TypeOK /\ OrderInv /\ ReaderInv /\ NoSilentLoss

\* Sequences of packets as sequences of numbers.
LEMMA PacketSequences ==
    ASSUME TypeOK
    PROVE  /\ Packet \subseteq Nat \ {0} /\ Len(arrived) \in Nat
           /\ queue \in Seq(Nat) /\ backlog \in Seq(Nat) /\ processed \in Seq(Nat)
           /\ ToSet(queue) \subseteq Packet /\ ToSet(backlog) \subseteq Packet
           /\ ToSet(processed) \subseteq Packet
<1>1. Len(arrived) \in Nat /\ Packet \subseteq Nat \ {0}
  BY LenProperties DEF TypeOK, Packet
<1>2. queue \in Seq(Packet) /\ backlog \in Seq(Packet) /\ processed \in Seq(Packet)
  BY DEF TypeOK
<1>3. Packet \subseteq Nat
  BY <1>1
<1>4. queue \in Seq(Nat) /\ backlog \in Seq(Nat) /\ processed \in Seq(Nat)
  BY <1>2, <1>3, SeqMonotonic
<1> QED BY <1>1, <1>2, <1>4, Elements

\* No packet at all.
LEMMA EmptySequence == ToSet(<<>>) = {} /\ Increasing(<<>>)
  BY DEF ToSet, Increasing

\* The reader waits before any packet has come.
LEMMA InvInit == Init => IInv
<1> SUFFICES ASSUME Init PROVE IInv
  OBVIOUS
<1> USE DEF Init
<1>1. Packet = {} /\ Len(arrived) = 0
  BY DEF Packet
<1>2. TypeOK
  <2>1. <<>> \in Seq(Kinds) /\ <<>> \in Seq(Packet) /\ Len(<<>>) = 0
    BY EmptySeq
  <2>2. /\ arrived \in Seq(Kinds) /\ queue \in Seq(Packet) /\ backlog \in Seq(Packet)
        /\ processed \in Seq(Packet) /\ Len(queue) <= QueueSize /\ Len(arrived) <= MaxPackets
    BY <2>1
  <2>3. phase \in Phases /\ getter \in Packet \cup {None, Waiting} /\ dropped \subseteq Packet
    BY DEF Phases
  <2>4. disconnected \in BOOLEAN
    OBVIOUS
  <2> QED BY <2>2, <2>3, <2>4 DEF TypeOK
<1>3. OrderInv
  BY <1>1, EmptySequence DEF OrderInv, Below, Held
<1>4. ReaderInv /\ NoSilentLoss
  BY <1>1 DEF ReaderInv, NoSilentLoss
<1> QED BY <1>2, <1>3, <1>4 DEF IInv

\* A packet arrives: it is above all others.
LEMMA NotifiedKeepsInv ==
    ASSUME IInv, NEW kind \in Kinds, Notified(kind)
    PROVE  IInv'
<1> DEFINE n == Len(arrived) + 1
<1>1. TypeOK /\ OrderInv /\ ReaderInv /\ NoSilentLoss
  BY DEF IInv
<1>2. /\ Packet \subseteq Nat \ {0} /\ Len(arrived) \in Nat /\ n \in Nat
      /\ queue \in Seq(Nat) /\ backlog \in Seq(Nat) /\ processed \in Seq(Nat)
      /\ ToSet(queue) \subseteq Packet /\ ToSet(backlog) \subseteq Packet
      /\ ToSet(processed) \subseteq Packet
  BY <1>1, PacketSequences
<1>3. /\ arrived \in Seq(Kinds) /\ arrived' = Append(arrived, kind)
      /\ arrived' \in Seq(Kinds) /\ Len(arrived') = n
      /\ \A p \in Packet : arrived'[p] = arrived[p]
  BY <1>1, AppendProperties DEF Notified, TypeOK, Packet
<1>4. Packet' = Packet \cup {n} /\ (\A p \in Packet : p < n) /\ Len(arrived') <= MaxPackets
  BY <1>2, <1>3 DEF Packet, Notified
<1>5. /\ \/ queue' = Append(queue, n) /\ Len(queue) < QueueSize /\ dropped' = dropped
         \/ queue' = queue /\ dropped' = dropped \cup {n}
      /\ UNCHANGED <<phase, backlog, getter, disconnected, processed>>
  BY <1>3 DEF Notified
<1> HIDE DEF n
<1>6. TypeOK'
  <2>1. queue \in Seq(Packet') /\ backlog \in Seq(Packet') /\ processed \in Seq(Packet')
    BY <1>1, <1>4, SeqMonotonic DEF TypeOK
  <2>2. queue' \in Seq(Packet') /\ Len(queue') <= QueueSize
    <3>1. n \in Packet'
      BY <1>4
    <3>2. /\ Append(queue, n) \in Seq(Packet')
          /\ Len(Append(queue, n)) = Len(queue) + 1 /\ Len(queue) \in Nat
      BY <2>1, <3>1, AppendProperties, LenProperties
    <3>3. QueueSize \in Nat /\ Len(queue) <= QueueSize
      BY <1>1 DEF TypeOK
    <3> QED BY <1>5, <2>1, <3>2, <3>3
  <2>3. getter' \in Packet' \cup {None, Waiting} /\ dropped' \subseteq Packet'
    BY <1>1, <1>4, <1>5 DEF TypeOK
  <2> QED BY <1>1, <1>3, <1>4, <1>5, <2>1, <2>2, <2>3 DEF TypeOK
<1>7. ToSet(queue)' \subseteq ToSet(queue) \cup {n} /\ Increasing(queue)'
  <2>1. /\ ToSet(Append(queue, n)) = ToSet(queue) \cup {n}
        /\ Increasing(Append(queue, n))
    <3>1. Increasing(queue) /\ Below(ToSet(queue), {n})
      BY <1>1, <1>2, <1>4 DEF OrderInv, Below
    <3> QED BY <1>2, <3>1, AppendIncreasing
  <2> QED BY <1>1, <1>5, <2>1 DEF OrderInv
<1>8. Held' = Held /\ Held \subseteq Packet
  <2>1. n \notin Packet /\ (getter \in Packet \/ getter \in {None, Waiting}) /\ n > 0
    BY <1>1, <1>2, <1>4 DEF TypeOK, n
  <2> QED BY <1>4, <1>5, <2>1 DEF Held, None, Waiting
<1>9. OrderInv'
  <2>1. /\ ToSet(processed)' = ToSet(processed) /\ ToSet(backlog)' = ToSet(backlog)
        /\ Increasing(processed)' /\ Increasing(backlog)'
    BY <1>1, <1>5 DEF OrderInv
  <2>2. /\ Below(ToSet(processed), ToSet(backlog))
        /\ Below(ToSet(processed) \cup ToSet(backlog), Held \cup ToSet(queue) \cup {n})
        /\ Below(Held, ToSet(queue) \cup {n})
    BY <1>1, <1>2, <1>4, <1>8 DEF OrderInv, Below
  <2> QED BY <1>7, <1>8, <2>1, <2>2 DEF OrderInv, Below
<1>10. ReaderInv'
  BY <1>1, <1>5 DEF ReaderInv
<1>11. NoSilentLoss'
  <2>1. ToSet(queue) \subseteq ToSet(queue)' /\ n \in ToSet(queue)' \cup dropped' /\ dropped \subseteq dropped'
    <3>1. n \in Nat /\ queue \in Seq(Nat)
      BY <1>2
    <3>2. ToSet(Append(queue, n)) = ToSet(queue) \cup {n}
      BY <3>1, AppendIncreasing
    <3>3. ToSet(queue)' = ToSet(queue')
      BY DEF ToSet
    <3> QED BY <1>5, <3>2, <3>3
  <2> SUFFICES ASSUME Open', NEW p \in Packet', IsEvent(p)'
               PROVE  (p \in ToSet(processed) \cup Pending \cup dropped)'
    BY DEF NoSilentLoss
  <2>2. CASE p = n
    BY <2>1, <2>2 DEF Pending
  <2>3. CASE p \in Packet
    BY <1>1, <1>3, <1>5, <2>1, <2>3 DEF NoSilentLoss, Pending, Open, IsEvent
  <2> QED BY <1>4, <2>2, <2>3
<1> QED BY <1>6, <1>9, <1>10, <1>11 DEF IInv

\* The packets that have arrived, and what each was, are the past.
LEMMA SamePackets ==
    ASSUME UNCHANGED arrived
    PROVE  Packet' = Packet /\ \A p : IsEvent(p)' = IsEvent(p)
  BY DEF Packet, IsEvent

\* What it takes to keep the invariant when no packet arrives.
LEMMA StepKeepsInv ==
    ASSUME IInv, UNCHANGED <<arrived, dropped>>,
           phase' \in Phases, disconnected' \in BOOLEAN,
           getter' \in Packet \cup {None, Waiting},
           queue' \in Seq(Packet), Len(queue') <= QueueSize, backlog' \in Seq(Packet),
           processed' \in Seq(Packet),
           OrderInv', ReaderInv',
           Open' => /\ Open
                    /\ \A p \in Packet : IsEvent(p) /\ p \in ToSet(processed) \cup Pending
                           => (p \in ToSet(processed) \cup Pending)'
    PROVE  IInv'
<1>1. TypeOK'
  BY SamePackets DEF IInv, TypeOK
<1>2. NoSilentLoss'
  BY SamePackets DEF IInv, NoSilentLoss
<1> QED BY <1>1, <1>2 DEF IInv

\* The reader goes on or ends: it holds no packet any more.
LEMMA ReadOnHoldsNothing ==
    ASSUME TypeOK, ReadOn \/ Finish, UNCHANGED arrived
    PROVE  /\ phase' \in Phases /\ getter' \in {None, Waiting} /\ Held' = {}
           /\ Open' => phase' = phase /\ getter' = Waiting
           /\ phase' \in {phase, "ended", "failed"}
<1>1. Packet' = Packet /\ None \notin Packet /\ Waiting \notin Packet
  BY SamePackets, PacketSequences DEF None, Waiting
<1>2. getter' \in {None, Waiting}
  BY DEF ReadOn, Finish
<1>3. Held' = {}
  BY <1>1, <1>2 DEF Held
<1>4. /\ phase' \in Phases /\ phase' \in {phase, "ended", "failed"}
      /\ Open' => phase' = phase /\ getter' = Waiting
  BY DEF ReadOn, Finish, Open, Phases, TypeOK
<1> QED BY <1>2, <1>3, <1>4

\* Steps after which the connection is not open, and steps that only change
\* the phase or the event.
LEMMA QuietKeepsInv ==
    ASSUME IInv, ReadEnds \/ HandshakeFails \/ LoopCancelled \/ HandshakeCompletes \/ Disconnected
                 \/ LoginAnswered
    PROVE  IInv'
<1>1. TypeOK /\ OrderInv /\ ReaderInv /\ NoSilentLoss
  BY DEF IInv
<1>2. UNCHANGED <<arrived, queue, backlog, dropped, processed>>
  BY DEF ReadEnds, HandshakeFails, LoopCancelled, HandshakeCompletes, Disconnected, LoginAnswered
<1>3. None \notin Packet /\ Packet' = Packet
  BY <1>1, <1>2, PacketSequences, SamePackets DEF None
<1>4. /\ phase' \in Phases /\ disconnected' \in BOOLEAN
      /\ getter' \in {getter, None}
      /\ Open' => Open /\ (getter' = getter \/ (Holds("login") /\ getter' = None))
  BY <1>1 DEF ReadEnds, HandshakeFails, LoopCancelled, HandshakeCompletes, Disconnected, LoginAnswered,
     Finish, Open, TypeOK, Phases
<1>5. Held' \subseteq Held
  BY <1>3, <1>4 DEF Held
<1>6. OrderInv'
  BY <1>1, <1>2, <1>5 DEF OrderInv, Below
<1>7. ReaderInv'
  BY <1>1, <1>2
     DEF ReaderInv, ReadEnds, HandshakeFails, LoopCancelled, HandshakeCompletes, Disconnected,
         LoginAnswered, Finish
<1>8. ASSUME Open', NEW p \in Packet, IsEvent(p), p \in ToSet(processed) \cup Pending
      PROVE  (p \in ToSet(processed) \cup Pending)'
  <2>1. p # getter \/ getter' = getter
    BY <1>4, <1>8 DEF Holds, IsEvent
  <2> QED BY <1>2, <1>8, <2>1 DEF Pending
<1> QED BY <1>1, <1>2, <1>4, <1>6, <1>7, <1>8, StepKeepsInv DEF TypeOK

\* The `get` task takes the head of the queue.
LEMMA GetterTakesKeepsInv ==
    ASSUME IInv, GetterTakes
    PROVE  IInv'
<1>1. TypeOK /\ OrderInv /\ ReaderInv /\ NoSilentLoss
  BY DEF IInv
<1>2. /\ getter = Waiting /\ getter' = Head(queue) /\ queue' = Tail(queue) /\ queue # <<>>
      /\ UNCHANGED <<phase, arrived, backlog, disconnected, dropped, processed>>
  BY DEF GetterTakes
<1>3. /\ Packet \subseteq Nat \ {0} /\ Packet' = Packet
      /\ queue \in Seq(Nat) /\ queue \in Seq(Packet) /\ ToSet(queue) \subseteq Packet
  BY <1>1, <1>2, PacketSequences, SamePackets DEF TypeOK
<1>4. /\ ToSet(queue) = {Head(queue)} \cup ToSet(Tail(queue))
      /\ Increasing(Tail(queue)) /\ Below({Head(queue)}, ToSet(Tail(queue)))
  BY <1>1, <1>2, <1>3, HeadIsFirst DEF OrderInv
<1>5. /\ Tail(queue) \in Seq(Packet) /\ Head(queue) \in Packet
      /\ Len(Tail(queue)) = Len(queue) - 1 /\ Len(queue) \in Nat
  BY <1>2, <1>3, HeadTailProperties, LenProperties
<1>6. Len(queue') <= QueueSize
  BY <1>1, <1>2, <1>5 DEF TypeOK
<1>7. ToSet(queue)' = ToSet(Tail(queue)) /\ Increasing(queue)'
  BY <1>2, <1>4 DEF ToSet, Increasing
<1>8. Held' = {Head(queue)} /\ getter \notin Packet
  BY <1>2, <1>3, <1>5 DEF Held, Waiting
<1>9. OrderInv'
  <2>1. /\ Below(ToSet(processed) \cup ToSet(backlog), ToSet(queue))
        /\ ToSet(processed)' = ToSet(processed) /\ ToSet(backlog)' = ToSet(backlog)
        /\ Increasing(processed)' /\ Increasing(backlog)'
    BY <1>1, <1>2 DEF OrderInv, Below
  <2> QED BY <1>1, <1>4, <1>7, <1>8, <2>1 DEF OrderInv, Below
<1>10. ReaderInv'
  BY <1>1, <1>2 DEF ReaderInv, None, Waiting
<1>11. ASSUME NEW p \in Packet, p \in ToSet(processed) \cup Pending
       PROVE  (p \in ToSet(processed) \cup Pending)'
  BY <1>2, <1>4, <1>7, <1>8, <1>11 DEF Pending
<1>12. Open' = Open
  BY <1>2 DEF Open
<1> QED BY <1>1, <1>2, <1>5, <1>6, <1>9, <1>10, <1>11, <1>12, StepKeepsInv DEF TypeOK

\* A packet before the LOGIN response goes to the end of the backlog.
LEMMA SetAsideKeepsInv ==
    ASSUME IInv, SetAside
    PROVE  IInv'
<1>1. TypeOK /\ OrderInv /\ ReaderInv /\ NoSilentLoss
  BY DEF IInv
<1>2. /\ phase = "login" /\ getter \in Packet /\ backlog' = Append(backlog, getter) /\ ReadOn
      /\ UNCHANGED <<arrived, queue, disconnected, dropped, processed>>
  BY DEF SetAside, Holds
<1>3. /\ Packet \subseteq Nat \ {0} /\ Packet' = Packet
      /\ backlog \in Seq(Nat) /\ backlog \in Seq(Packet)
  BY <1>1, <1>2, PacketSequences, SamePackets DEF TypeOK
<1>4. /\ phase' \in Phases /\ getter' \in {None, Waiting} /\ Held' = {}
      /\ Open' => phase' = phase
      /\ phase' \in {phase, "ended", "failed"}
  BY <1>1, <1>2, ReadOnHoldsNothing
<1>5. Held = {getter}
  BY <1>2 DEF Held
<1>6. ToSet(Append(backlog, getter)) = ToSet(backlog) \cup {getter} /\ Increasing(Append(backlog, getter))
  <2>1. Below(ToSet(backlog), {getter})
    BY <1>1, <1>5 DEF OrderInv, Below
  <2> QED BY <1>1, <1>2, <1>3, <2>1, AppendIncreasing DEF OrderInv
<1>7. backlog' \in Seq(Packet)
  BY <1>2, <1>3, AppendProperties
<1>8. ToSet(backlog)' = ToSet(backlog) \cup {getter} /\ Increasing(backlog)'
  BY <1>2, <1>6 DEF ToSet, Increasing
<1>9. OrderInv'
  <2>1. /\ ToSet(processed)' = ToSet(processed) /\ ToSet(queue)' = ToSet(queue)
        /\ Increasing(processed)' /\ Increasing(queue)'
    BY <1>1, <1>2 DEF OrderInv
  <2> QED BY <1>1, <1>4, <1>5, <1>8, <2>1 DEF OrderInv, Below
<1>10. ReaderInv'
  BY <1>2, <1>4 DEF ReaderInv
<1>11. ASSUME NEW p \in Packet, p \in ToSet(processed) \cup Pending
       PROVE  (p \in ToSet(processed) \cup Pending)'
  BY <1>2, <1>8, <1>11 DEF Pending
<1> QED BY <1>1, <1>2, <1>4, <1>7, <1>9, <1>10, <1>11, StepKeepsInv DEF TypeOK, Open

\* The notification loop empties the backlog before it reads on.
LEMMA LoopStartsKeepsInv ==
    ASSUME IInv, NotificationLoopStarts
    PROVE  IInv'
<1>1. TypeOK /\ OrderInv /\ ReaderInv /\ NoSilentLoss
  BY DEF IInv
<1>2. /\ phase = "ready" /\ getter = None /\ ReadOn
      /\ UNCHANGED <<arrived, queue, disconnected, dropped>>
  BY DEF NotificationLoopStarts
<1>3. /\ phase' \in Phases /\ getter' \in {None, Waiting} /\ Held' = {}
      /\ Open' => phase' = phase /\ getter' = Waiting
      /\ phase' \in {phase, "ended", "failed"}
  BY <1>1, <1>2, ReadOnHoldsNothing
<1>4. /\ Packet \subseteq Nat \ {0} /\ Packet' = Packet
      /\ backlog \in Seq(Nat) /\ processed \in Seq(Nat)
      /\ backlog \in Seq(Packet) /\ processed \in Seq(Packet)
  BY <1>1, <1>2, PacketSequences, SamePackets DEF TypeOK
<1>5. CASE disconnected
  <2>1. UNCHANGED <<backlog, processed>> /\ phase' = "ended"
    BY <1>2, <1>5 DEF NotificationLoopStarts, ReadOn, Finish
  <2>2. OrderInv' /\ ReaderInv'
    BY <1>1, <1>2, <1>3, <2>1 DEF OrderInv, ReaderInv, Below
  <2>3. ~Open'
    BY <2>1 DEF Open
  <2> QED BY <1>1, <1>2, <1>3, <2>1, <2>2, <2>3, StepKeepsInv DEF TypeOK
<1>6. CASE ~disconnected
  <2>1. backlog' = <<>> /\ processed' = processed \o backlog
    BY <1>6 DEF NotificationLoopStarts, Process
  <2>2. /\ ToSet(processed \o backlog) = ToSet(processed) \cup ToSet(backlog)
        /\ Increasing(processed \o backlog)
    BY <1>1, <1>4, ConcatIncreasing DEF OrderInv
  <2>3. /\ processed' \in Seq(Packet) /\ backlog' \in Seq(Packet)
        /\ ToSet(processed)' = ToSet(processed) \cup ToSet(backlog) /\ Increasing(processed)'
        /\ ToSet(backlog)' = {} /\ Increasing(backlog)'
    BY <1>4, <2>1, <2>2, EmptySequence, EmptySeq, ConcatProperties DEF ToSet, Increasing
  <2>4. OrderInv'
    <3>1. ToSet(queue)' = ToSet(queue) /\ Increasing(queue)'
      BY <1>1, <1>2 DEF OrderInv
    <3> QED BY <1>1, <1>3, <2>3, <3>1 DEF OrderInv, Below
  <2>5. ReaderInv'
    BY <1>2, <1>3, <2>1 DEF ReaderInv
  <2>6. ASSUME NEW p \in Packet, p \in ToSet(processed) \cup Pending
        PROVE  (p \in ToSet(processed) \cup Pending)'
    <3>1. p # getter
      BY <1>2, <1>4 DEF None
    <3> QED BY <1>2, <2>3, <2>6, <3>1 DEF Pending
  <2> QED BY <1>1, <1>2, <1>3, <2>3, <2>4, <2>5, <2>6, StepKeepsInv DEF TypeOK, Open
<1> QED BY <1>5, <1>6

\* The loop processes the packet with which it is resumed.
LEMMA PacketProcessedKeepsInv ==
    ASSUME IInv, PacketProcessed
    PROVE  IInv'
<1>1. TypeOK /\ OrderInv /\ ReaderInv /\ NoSilentLoss
  BY DEF IInv
<1>2. /\ phase = "ready" /\ getter \in Packet /\ ReadOn
      /\ processed' = processed \o <<getter>>
      /\ UNCHANGED <<arrived, queue, backlog, disconnected, dropped>>
  BY DEF PacketProcessed, Process
<1>3. /\ phase' \in Phases /\ getter' \in {None, Waiting} /\ Held' = {}
      /\ Open' => phase' = phase
      /\ phase' \in {phase, "ended", "failed"}
  BY <1>1, <1>2, ReadOnHoldsNothing
<1>4. /\ Packet \subseteq Nat \ {0} /\ Packet' = Packet
      /\ processed \in Seq(Nat) /\ processed \in Seq(Packet)
  BY <1>1, <1>2, PacketSequences, SamePackets DEF TypeOK
<1>5. Held = {getter} /\ backlog = <<>> /\ ToSet(backlog) = {}
  BY <1>1, <1>2, <1>4, EmptySequence DEF Held, ReaderInv, None
<1>6. Append(processed, getter) = processed \o <<getter>>
  BY <1>2, <1>4, AppendIsConcat
<1>7. /\ ToSet(Append(processed, getter)) = ToSet(processed) \cup {getter}
      /\ Increasing(Append(processed, getter))
  <2>1. Below(ToSet(processed), {getter})
    BY <1>1, <1>5 DEF OrderInv, Below
  <2> QED BY <1>1, <1>2, <1>4, <2>1, AppendIncreasing DEF OrderInv
<1>8. /\ processed' \in Seq(Packet)
      /\ ToSet(processed)' = ToSet(processed) \cup {getter} /\ Increasing(processed)'
  <2>1. processed' = Append(processed, getter)
    BY <1>2, <1>6
  <2>2. Append(processed, getter) \in Seq(Packet)
    BY <1>2, <1>4, AppendProperties
  <2>3. ToSet(processed') = ToSet(processed) \cup {getter}
    BY <2>1, <1>7
  <2>4. Increasing(processed')
    BY <2>1, <1>7
  <2> QED BY <2>1, <2>2, <2>3, <2>4 DEF ToSet, Increasing
<1>9. OrderInv'
  <2>1. /\ ToSet(queue)' = ToSet(queue) /\ Increasing(queue)'
        /\ ToSet(backlog)' = {} /\ Increasing(backlog)'
    BY <1>1, <1>2, <1>5 DEF OrderInv
  <2> QED BY <1>1, <1>3, <1>5, <1>8, <2>1 DEF OrderInv, Below
<1>10. ReaderInv'
  BY <1>2, <1>3, <1>5 DEF ReaderInv
<1>11. ASSUME NEW p \in Packet, p \in ToSet(processed) \cup Pending
       PROVE  (p \in ToSet(processed) \cup Pending)'
  BY <1>2, <1>8, <1>11 DEF Pending
<1> QED BY <1>1, <1>2, <1>3, <1>8, <1>9, <1>10, <1>11, StepKeepsInv DEF TypeOK, Open

\* Every step keeps the invariant.
LEMMA InvStep == IInv /\ [Next]_vars => IInv'
<1> SUFFICES ASSUME IInv, [Next]_vars
             PROVE  IInv'
  OBVIOUS
<1>1. CASE UNCHANGED vars
  <2>1. /\ UNCHANGED phase /\ UNCHANGED arrived /\ UNCHANGED queue
        /\ UNCHANGED backlog /\ UNCHANGED getter /\ UNCHANGED disconnected
        /\ UNCHANGED dropped /\ UNCHANGED processed
    BY <1>1 DEF vars
  <2>2. TypeOK'
    BY <2>1 DEF IInv, TypeOK, Packet
  <2>3. OrderInv'
    BY <2>1 DEF IInv, OrderInv, Held, Packet
  <2>4. ReaderInv'
    BY <2>1 DEF IInv, ReaderInv, Held, Packet
  <2>5. NoSilentLoss'
    BY <2>1 DEF IInv, NoSilentLoss, Open, Packet, IsEvent, Pending
  <2> QED BY <2>2, <2>3, <2>4, <2>5 DEF IInv
<1>2. CASE \E kind \in Kinds : Notified(kind)
  BY <1>2, NotifiedKeepsInv
<1>3. CASE \/ Disconnected \/ ReadEnds \/ LoginAnswered
           \/ HandshakeFails \/ HandshakeCompletes \/ LoopCancelled
  BY <1>3, QuietKeepsInv
<1>4. CASE GetterTakes
  BY <1>4, GetterTakesKeepsInv
<1>5. CASE SetAside
  BY <1>5, SetAsideKeepsInv
<1>6. CASE NotificationLoopStarts
  BY <1>6, LoopStartsKeepsInv
<1>7. CASE PacketProcessed
  BY <1>7, PacketProcessedKeepsInv
<1> QED BY <1>1, <1>2, <1>3, <1>4, <1>5, <1>6, <1>7 DEF Next, ReaderStep

(***************************************************************************)
(* The theorems.                                                           *)
(***************************************************************************)
\* The invariant holds throughout.
LEMMA InvHolds == Spec => []IInv
  BY InvInit, InvStep, PTL DEF Spec

\* The queue never exceeds its size, and the reader holds only packets that
\* have arrived.
THEOREM TypeCorrect == Spec => []TypeOK
<1>1. IInv => TypeOK
  BY DEF IInv
<1> QED BY <1>1, InvHolds, PTL

\* Button operations are reported in the order in which they arrived and none
\* twice: a packet only ever passes on to the next of queue, `get` task,
\* backlog and _process_packet, and none of these overtakes another.
THEOREM ReportedInOrderHolds == Spec => []ReportedInOrder
<1>1. IInv => ReportedInOrder
  BY DEF IInv, OrderInv, Increasing, ReportedInOrder
<1> QED BY <1>1, InvHolds, PTL

\* While the connection lasts an event is reported, on its way or counted as
\* dropped.
THEOREM NoSilentLossHolds == Spec => []NoSilentLoss
<1>1. IInv => NoSilentLoss
  BY DEF IInv
<1> QED BY <1>1, InvHolds, PTL
=============================================================================

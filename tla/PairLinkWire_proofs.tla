------------------------- MODULE PairLinkWire_proofs -------------------------
(***************************************************************************)
(* What PairLinkWire shows of small instances, for every one: an           *)
(* advertisement is parsed as it was laid out, unpadding accepts what      *)
(* padding makes and no more, decryption takes back encryption, and what   *)
(* the switch registered says is understood.                               *)
(*                                                                         *)
(* Data are taken by their elements: a sequence of n bytes is a function   *)
(* in Bytes(n), and two are put together by IsJoin.  What is true of the   *)
(* n-th step of a recursive function is proved by the least number at      *)
(* which it would fail (Least, Upward, Iteration).                         *)
(***************************************************************************)
EXTENDS PairLinkWire, SequenceTheorems, WellFoundedInduction, TLAPS

(***************************************************************************)
(* Sequences of bytes.                                                     *)
(***************************************************************************)
\* n bytes are a sequence of length n.
LEMMA BytesAreSeq ==
    ASSUME NEW n \in Nat, NEW s
    PROVE  s \in Bytes(n) <=> s \in Seq(Byte) /\ Len(s) = n
  BY LenProperties DEF Bytes

\* A concatenation of bytes, by its elements.
LEMMA Joined ==
    ASSUME NEW s \in Seq(Byte), NEW t \in Seq(Byte)
    PROVE  /\ s \o t \in Seq(Byte)
           /\ Len(s \o t) = Len(s) + Len(t)
           /\ \A i \in 1..Len(s) : (s \o t)[i] = s[i]
           /\ \A i \in (Len(s) + 1)..(Len(s) + Len(t)) : (s \o t)[i] = t[i - Len(s)]
<1>1. /\ s \o t \in Seq(Byte) /\ Len(s \o t) = Len(s) + Len(t)
      /\ \A i \in 1..(Len(s) + Len(t)) :
            (s \o t)[i] = IF i <= Len(s) THEN s[i] ELSE t[i - Len(s)]
  BY ConcatProperties
<1>2. Len(s) \in Nat /\ Len(t) \in Nat
  BY LenProperties
<1> QED BY <1>1, <1>2

\* The bytes from m to n.
LEMMA Slice ==
    ASSUME NEW s \in Seq(Byte), NEW m \in 1..(Len(s) + 1), NEW n \in (m - 1)..Len(s)
    PROVE  /\ SubSeq(s, m, n) \in Seq(Byte)
           /\ Len(SubSeq(s, m, n)) = n - m + 1
           /\ \A i \in 1..(n - m + 1) : SubSeq(s, m, n)[i] = s[m + i - 1]
<1>1. Len(s) \in Nat /\ m \in Int /\ n \in Int
  BY LenProperties
<1>2. \A i \in m..n : s[i] \in Byte
  BY <1>1, ElementOfSeq
<1>3. /\ SubSeq(s, m, n) \in Seq(Byte)
      /\ Len(SubSeq(s, m, n)) = IF m <= n THEN n - m + 1 ELSE 0
      /\ \A i \in 1..(n - m + 1) : SubSeq(s, m, n)[i] = s[m + i - 1]
  BY ONLY <1>1, <1>2, SubSeqProperties
<1> QED BY <1>1, <1>3

\* Bytes are equal if their elements are.
LEMMA SameBytes ==
    ASSUME NEW s \in Seq(Byte), NEW t \in Seq(Byte), Len(s) = Len(t),
           \A i \in 1..Len(s) : s[i] = t[i]
    PROVE  s = t
  BY SeqEqual

\* A byte n times.
LEMMA Repeated ==
    ASSUME NEW b \in Byte, NEW n \in Nat
    PROVE  /\ Repeat(b, n) \in Seq(Byte) /\ Len(Repeat(b, n)) = n
           /\ \A i \in 1..n : Repeat(b, n)[i] = b
<1>1. Repeat(b, n) \in Bytes(n)
  BY DEF Repeat, Bytes
<1> QED BY <1>1, BytesAreSeq DEF Repeat

(***************************************************************************)
(* Padding.                                                                *)
(***************************************************************************)
\* The padding of a sequence, by its elements.
LEMMA Padding ==
    ASSUME NEW d \in Seq(Byte), NEW m, m = 16 - (Len(d) % 16)
    PROVE  /\ m \in 1..16 /\ (Len(d) + m) % 16 = 0
           /\ Pad(d) \in Seq(Byte) /\ Len(Pad(d)) = Len(d) + m
           /\ \A i \in 1..Len(d) : Pad(d)[i] = d[i]
           /\ \A i \in (Len(d) + 1)..(Len(d) + m) : Pad(d)[i] = m
<1>1. Len(d) \in Nat
  BY LenProperties
<1>2. m \in 1..16 /\ (Len(d) + m) % 16 = 0
  BY <1>1
<1>3. m \in Byte /\ m \in Nat
  BY <1>2 DEF Byte
<1>4. /\ Repeat(m, m) \in Seq(Byte) /\ Len(Repeat(m, m)) = m
      /\ \A i \in 1..m : Repeat(m, m)[i] = m
  BY <1>3, Repeated
<1>5. Pad(d) = d \o Repeat(m, m)
  BY DEF Pad
<1>6. /\ Pad(d) \in Seq(Byte) /\ Len(Pad(d)) = Len(d) + m
      /\ \A i \in 1..Len(d) : Pad(d)[i] = d[i]
      /\ \A i \in (Len(d) + 1)..(Len(d) + m) : Pad(d)[i] = Repeat(m, m)[i - Len(d)]
  BY <1>4, <1>5, Joined
<1>7. ASSUME NEW i \in (Len(d) + 1)..(Len(d) + m) PROVE Pad(d)[i] = m
  <2>1. i - Len(d) \in 1..m
    BY <1>1, <1>2
  <2> QED BY <1>4, <1>6, <2>1
<1> QED BY <1>2, <1>6, <1>7

\* Which prefixes are padded to a sequence.
LEMMA PaddedPrefix ==
    ASSUME NEW data \in Seq(Byte), NEW n \in 0..Len(data), NEW m, m = 16 - (n % 16)
    PROVE  Pad(Cut(data, n)) = data
             <=> n + m = Len(data) /\ \A i \in (n + 1)..Len(data) : data[i] = m
<1> DEFINE d == Cut(data, n)
<1>1. Len(data) \in Nat /\ n \in Nat
  BY LenProperties
<1>2. d \in Seq(Byte) /\ Len(d) = n /\ \A i \in 1..n : d[i] = data[i]
  <2>1. 1 \in 1..(Len(data) + 1) /\ n \in (1 - 1)..Len(data)
    BY <1>1
  <2>2. /\ SubSeq(data, 1, n) \in Seq(Byte) /\ Len(SubSeq(data, 1, n)) = n - 1 + 1
        /\ \A i \in 1..(n - 1 + 1) : SubSeq(data, 1, n)[i] = data[1 + i - 1]
    BY <2>1, Slice
  <2> QED BY <1>1, <2>2 DEF Cut
<1> HIDE DEF d
<1>3. /\ m \in 1..16 /\ Pad(d) \in Seq(Byte) /\ Len(Pad(d)) = n + m
      /\ \A i \in 1..n : Pad(d)[i] = d[i]
      /\ \A i \in (n + 1)..(n + m) : Pad(d)[i] = m
  BY <1>2, Padding
<1>4. ASSUME n + m = Len(data), \A i \in (n + 1)..Len(data) : data[i] = m
      PROVE  Pad(d) = data
  <2>1. ASSUME NEW i \in 1..Len(Pad(d)) PROVE Pad(d)[i] = data[i]
    <3>1. i \in 1..n \/ i \in (n + 1)..(n + m)
      BY <1>1, <1>3
    <3> QED BY <1>2, <1>3, <1>4, <3>1
  <2> QED BY <1>3, <1>4, <2>1, SameBytes
<1>5. ASSUME Pad(d) = data
      PROVE  n + m = Len(data) /\ \A i \in (n + 1)..Len(data) : data[i] = m
  BY <1>3, <1>5
<1> QED BY <1>4, <1>5 DEF d

\* The padding that can be taken off data.
PaddingOf(data, m) ==
    /\ m \in 1..16 /\ data # <<>> /\ Len(data) % 16 = 0
    /\ \A i \in (Len(data) - m + 1)..Len(data) : data[i] = m

\* What Unpad returns is what padding could have made.
LEMMA UnpadInverse ==
    ASSUME NEW data \in Seq(Byte)
    PROVE  Unpad(data) = { d \in {Cut(data, n) : n \in 0..Len(data)} : Pad(d) = data }
<1>0. Len(data) \in Nat
  BY LenProperties
<1>1. Unpad(data) = {Cut(data, Len(data) - m) : m \in {k \in 1..16 : PaddingOf(data, k)}}
  BY DEF Unpad, Cut, PaddingOf
<1>2. ASSUME NEW m \in 1..16, PaddingOf(data, m)
      PROVE  Len(data) - m \in 0..Len(data) /\ Pad(Cut(data, Len(data) - m)) = data
  <2> DEFINE n == Len(data) - m
  <2>1. Len(data) # 0 /\ Len(data) % 16 = 0
    BY <1>2, EmptySeq DEF PaddingOf
  <2>2. n \in 0..Len(data) /\ m = 16 - (n % 16) /\ n + m = Len(data)
    BY <1>0, <2>1
  <2>3. \A i \in (n + 1)..Len(data) : data[i] = m
    BY <1>2 DEF PaddingOf
  <2> HIDE DEF n
  <2>4. Pad(Cut(data, n)) = data
    BY <2>2, <2>3, PaddedPrefix
  <2> QED BY <2>2, <2>4 DEF n
<1>3. ASSUME NEW n \in 0..Len(data), Pad(Cut(data, n)) = data
      PROVE  \E m \in 1..16 : PaddingOf(data, m) /\ Cut(data, Len(data) - m) = Cut(data, n)
  <2> DEFINE m == 16 - (n % 16)
  <2>1. n + m = Len(data) /\ \A i \in (n + 1)..Len(data) : data[i] = m
    BY <1>3, PaddedPrefix
  <2>2. m \in 1..16 /\ Len(data) % 16 = 0 /\ Len(data) # 0 /\ Len(data) - m = n
    BY <1>0, <2>1
  <2> HIDE DEF m
  <2>3. PaddingOf(data, m)
    BY <2>1, <2>2, EmptySeq DEF PaddingOf
  <2> QED BY <2>2, <2>3
<1> QED BY <1>1, <1>2, <1>3

\* Padding is taken off again.
LEMMA UnpadPad ==
    ASSUME NEW d \in Seq(Byte)
    PROVE  Unpad(Pad(d)) = {d}
<1> DEFINE m == 16 - (Len(d) % 16)
<1>0. Len(d) \in Nat
  BY LenProperties
<1>1. /\ m \in 1..16 /\ Pad(d) \in Seq(Byte) /\ Len(Pad(d)) = Len(d) + m
      /\ \A i \in 1..Len(d) : Pad(d)[i] = d[i]
      /\ \A i \in (Len(d) + 1)..(Len(d) + m) : Pad(d)[i] = m
  BY Padding
<1>2. \A n \in 0..Len(Pad(d)) :
         Pad(Cut(Pad(d), n)) = Pad(d) <=> n + (16 - (n % 16)) = Len(Pad(d))
                /\ \A i \in (n + 1)..Len(Pad(d)) : Pad(d)[i] = 16 - (n % 16)
  BY <1>1, PaddedPrefix
<1>3. Cut(Pad(d), Len(d)) = d /\ Len(d) \in 0..Len(Pad(d))
  <2>1. Len(d) \in 0..Len(Pad(d)) /\ 1 \in 1..(Len(Pad(d)) + 1) /\ Len(d) \in (1 - 1)..Len(Pad(d))
    BY <1>0, <1>1
  <2>2. /\ SubSeq(Pad(d), 1, Len(d)) \in Seq(Byte) /\ Len(SubSeq(Pad(d), 1, Len(d))) = Len(d) - 1 + 1
        /\ \A i \in 1..(Len(d) - 1 + 1) : SubSeq(Pad(d), 1, Len(d))[i] = Pad(d)[1 + i - 1]
    BY <1>1, <2>1, Slice
  <2>3. \A i \in 1..Len(d) : SubSeq(Pad(d), 1, Len(d))[i] = d[i]
    BY <1>0, <1>1, <2>2
  <2> QED BY <1>0, <2>1, <2>2, <2>3, SameBytes DEF Cut
<1>4. ASSUME NEW n \in 0..Len(Pad(d)), Pad(Cut(Pad(d), n)) = Pad(d) PROVE n = Len(d)
  <2>1. n + (16 - (n % 16)) = Len(d) + m
    BY <1>1, <1>2, <1>4
  <2>2. n \in Nat
    BY <1>0, <1>1
  <2>3. Len(d) + m = Len(d) + (16 - (Len(d) % 16))
    OBVIOUS
  <2>4. Pad(d)[Len(d) + m] = m /\ Len(d) + m \in (n + 1)..(Len(d) + m)
    BY <1>0, <1>1, <2>1, <2>2
  <2>5. Pad(d)[Len(d) + m] = 16 - (n % 16)
    BY <1>1, <1>2, <1>4, <2>4
  <2>6. 16 - (n % 16) = m
    BY <2>4, <2>5
  <2> HIDE DEF m
  <2> QED BY <1>0, <1>1, <2>1, <2>2, <2>6
<1>5. Unpad(Pad(d)) = { x \in {Cut(Pad(d), n) : n \in 0..Len(Pad(d))} : Pad(x) = Pad(d) }
  BY <1>1, UnpadInverse
<1>6. \A n \in 0..Len(Pad(d)) : Pad(Cut(Pad(d), n)) = Pad(d) <=> n = Len(d)
  BY <1>3, <1>4
<1> HIDE DEF m
<1> QED BY <1>3, <1>5, <1>6

(***************************************************************************)
(* Advertisements.                                                         *)
(***************************************************************************)
\* The two bytes of part stand at i.
At(s, part, i) == i + 1 <= Len(s) /\ s[i] = part[1] /\ s[i + 1] = part[2]

\* Finding two bytes, by the elements.
LEMMA Finding ==
    ASSUME NEW s \in Seq(Byte), NEW part \in Bytes(2), NEW from \in Nat \ {0}
    PROVE  Find(s, part, from) = { i \in from..Len(s) : /\ At(s, part, i)
                                     /\ \A j \in from..(i - 1) : ~At(s, part, j) }
<1>1. Len(s) \in Nat /\ part \in Seq(Byte) /\ Len(part) = 2
  BY LenProperties, BytesAreSeq
<1>2. ASSUME NEW i \in from..Len(s)
      PROVE  IsPrefix(part, SubSeq(s, i, Len(s))) <=> At(s, part, i)
  <2> DEFINE r == SubSeq(s, i, Len(s))
  <2>1. i \in 1..(Len(s) + 1) /\ Len(s) \in (i - 1)..Len(s) /\ i \in Nat
    BY <1>1
  <2>2. /\ r \in Seq(Byte) /\ Len(r) = Len(s) - i + 1
        /\ \A k \in 1..(Len(s) - i + 1) : r[k] = s[i + k - 1]
    BY <2>1, Slice
  <2> HIDE DEF r
  <2>3. SubSeq(part, 1, 2) = part
    BY <1>1, SubSeqFull
  <2>4. CASE Len(r) < 2
    BY <1>1, <2>1, <2>2, <2>4 DEF IsPrefix, At, r
  <2>5. CASE Len(r) >= 2
    <3>1. 1 \in 1..(Len(r) + 1) /\ 2 \in (1 - 1)..Len(r) /\ i + 1 <= Len(s)
      BY <1>1, <2>1, <2>2, <2>5
    <3>2. SubSeq(r, 1, 2) \in Seq(Byte) /\ Len(SubSeq(r, 1, 2)) = 2 - 1 + 1
          /\ \A k \in 1..(2 - 1 + 1) : SubSeq(r, 1, 2)[k] = r[1 + k - 1]
      BY <2>2, <3>1, Slice
    <3>3. SubSeq(r, 1, 2)[1] = s[i] /\ SubSeq(r, 1, 2)[2] = s[i + 1]
      <4>1. SubSeq(r, 1, 2)[1] = r[1] /\ SubSeq(r, 1, 2)[2] = r[2]
        BY <3>2
      <4>2. r[1] = s[i + 1 - 1] /\ r[2] = s[i + 2 - 1]
        BY <1>1, <2>1, <2>2, <2>5
      <4> QED BY <2>1, <4>1, <4>2
    <3>4. part = SubSeq(r, 1, 2) <=> part[1] = s[i] /\ part[2] = s[i + 1]
      <4>1. ASSUME part[1] = s[i], part[2] = s[i + 1] PROVE part = SubSeq(r, 1, 2)
        <5>1. \A k \in 1..2 : part[k] = SubSeq(r, 1, 2)[k]
          BY <3>3, <4>1
        <5> QED BY <1>1, <3>2, <5>1, SameBytes
      <4> QED BY <3>3, <4>1
    <3>5. IsPrefix(part, r) <=> part = SubSeq(r, 1, 2)
      BY <1>1, <2>3, <2>5 DEF IsPrefix
    <3> QED BY <3>1, <3>4, <3>5 DEF At, r
  <2>6. Len(r) \in Int
    BY <1>1, <2>1, <2>2
  <2> QED BY <2>4, <2>5, <2>6
<1>3. ASSUME NEW i \in from..Len(s), NEW j \in from..(i - 1)
      PROVE  IsPrefix(part, SubSeq(s, j, Len(s))) <=> At(s, part, j)
  <2>1. j \in from..Len(s)
    BY <1>1
  <2> QED BY <1>2, <2>1
<1> QED BY <1>2, <1>3 DEF Find

\* Where the first marker of a text is, it is in what the text begins as well, as
\* far as that goes.
LEMMA FindingFirst ==
    ASSUME NEW part \in Bytes(2), NEW lead \in Seq(Byte), NEW k \in Nat,
           Len(lead) = k + 2, Find(lead, part, 1) = {k + 1},
           NEW s \in Seq(Byte), NEW from \in Nat \ {0},
           \A i \in 1..(k + 2) : from + i - 1 <= Len(s) => s[from + i - 1] = lead[i]
    PROVE  Find(s, part, from) = IF Len(s) >= from + k + 1 THEN {from + k} ELSE {}
<1>1. Len(s) \in Nat /\ Len(lead) \in Nat
  BY LenProperties
<1>2. k + 1 \in { i \in 1..Len(lead) : /\ At(lead, part, i)
                     /\ \A j \in 1..(i - 1) : ~At(lead, part, j) }
  BY Finding
<1>3. At(lead, part, k + 1) /\ \A j \in 1..k : ~At(lead, part, j)
  BY <1>2
<1>4. ASSUME NEW j \in from..(from + k), j + 1 <= Len(s)
      PROVE  At(s, part, j) <=> At(lead, part, j - from + 1)
  <2> DEFINE i == j - from + 1
  <2>1. i \in 1..(k + 2) /\ i + 1 \in 1..(k + 2) /\ from + i - 1 = j /\ from + (i + 1) - 1 = j + 1
    BY <1>1
  <2>2. from + i - 1 <= Len(s) /\ from + (i + 1) - 1 <= Len(s) /\ i + 1 <= Len(lead)
    BY <1>1, <1>4, <2>1
  <2> HIDE DEF i
  <2>3. s[j] = lead[i] /\ s[j + 1] = lead[i + 1]
    BY <2>1, <2>2
  <2> QED BY <1>4, <2>2, <2>3 DEF At, i
<1>5. \A j \in from..(from + k - 1) : ~At(s, part, j)
  <2>1. ASSUME NEW j \in from..(from + k - 1), At(s, part, j) PROVE FALSE
    <3>1. j \in from..(from + k) /\ j + 1 <= Len(s) /\ j - from + 1 \in 1..k
      BY <2>1 DEF At
    <3> QED BY <1>3, <1>4, <2>1, <3>1
  <2> QED BY <2>1
<1>6. Find(s, part, from) = { i \in from..Len(s) : /\ At(s, part, i)
                                  /\ \A j \in from..(i - 1) : ~At(s, part, j) }
  BY Finding
<1>7. CASE Len(s) >= from + k + 1
  <2>1. from + k \in from..(from + k) /\ from + k + 1 <= Len(s) /\ from + k - from + 1 = k + 1
    BY <1>1, <1>7
  <2>2. At(s, part, from + k)
    BY <1>3, <1>4, <2>1
  <2>3. from + k \in from..Len(s) /\ \A j \in from..(from + k - 1) : ~At(s, part, j)
    BY <1>1, <1>5, <1>7
  <2>4. ASSUME NEW i \in from..Len(s), At(s, part, i), \A j \in from..(i - 1) : ~At(s, part, j)
        PROVE  i = from + k
    <3>1. ~(i \in from..(from + k - 1))
      BY <1>5, <2>4
    <3>2. ~(from + k \in from..(i - 1))
      BY <2>2, <2>4
    <3> QED BY <1>1, <3>1, <3>2
  <2> DEFINE Hit(i) == At(s, part, i) /\ \A j \in from..(i - 1) : ~At(s, part, j)
  <2>5. Find(s, part, from) = {i \in from..Len(s) : Hit(i)}
    BY ONLY <1>6
  <2>6. Hit(from + k) /\ \A i \in from..Len(s) : Hit(i) => i = from + k
    BY <2>2, <2>3, <2>4
  <2>7. from + k \in from..Len(s)
    BY ONLY <2>3
  <2> HIDE DEF Hit
  <2>8. Find(s, part, from) = {from + k}
    BY ONLY <2>5, <2>6, <2>7
  <2> QED BY ONLY <1>7, <2>8
<1>8. CASE ~(Len(s) >= from + k + 1)
  <2>1. ASSUME NEW i \in from..Len(s), At(s, part, i) PROVE FALSE
    <3>1. i \in from..(from + k - 1)
      BY <1>1, <1>8, <2>1 DEF At
    <3> QED BY <1>5, <2>1, <3>1
  <2> QED BY <1>6, <1>8, <2>1
<1> QED BY <1>7, <1>8

\* One and two bytes.
LEMMA FewBytes ==
    ASSUME NEW a \in Byte, NEW b \in Byte
    PROVE  /\ <<a>> \in Bytes(1) /\ <<a>>[1] = a
           /\ <<a, b>> \in Bytes(2) /\ <<a, b>>[1] = a /\ <<a, b>>[2] = b
  BY DEF Bytes

\* u is s followed by t.
IsJoin(u, s, t) == u = s \o t

\* Two sequences put together, by the elements.
LEMMA Join ==
    ASSUME NEW m \in Nat, NEW n \in Nat, NEW s \in Bytes(m), NEW t \in Bytes(n),
           NEW u, IsJoin(u, s, t)
    PROVE  /\ u \in Bytes(m + n)
           /\ \A i \in 1..(m + n) : u[i] = IF i <= m THEN s[i] ELSE t[i - m]
<1>1. s \in Seq(Byte) /\ Len(s) = m /\ t \in Seq(Byte) /\ Len(t) = n
  BY BytesAreSeq
<1>2. /\ s \o t \in Seq(Byte) /\ Len(s \o t) = m + n
      /\ \A i \in 1..(m + n) : (s \o t)[i] = IF i <= m THEN s[i] ELSE t[i - m]
  BY <1>1, ConcatProperties
<1>3. s \o t \in Bytes(m + n)
  BY <1>2, LenProperties DEF Bytes
<1> QED BY <1>2, <1>3 DEF IsJoin

\* The markers of an advertisement are two bytes each.
LEMMA MarkerBytes == Marker \in Bytes(2) /\ LinkMarker \in Bytes(2)
<1>1. 192 \in Byte /\ 255 \in Byte /\ 240 \in Byte /\ 251 \in Byte
  BY DEF Byte
<1>2. <<192, 255>> \in Bytes(2) /\ <<240, 251>> \in Bytes(2)
  BY <1>1 DEF Bytes
<1> QED BY <1>2 DEF Marker, LinkMarker

\* The elements of a value: its prefix and marker, its type and home ID.
LEMMA ValueStart ==
    ASSUME NEW P \in Nat, NEW prefix \in Bytes(P), NEW type \in Byte, NEW home \in Bytes(4),
           NEW N \in Nat, NEW X \in Bytes(N),
           NEW A, IsJoin(A, prefix, Marker), NEW B, IsJoin(B, A, <<type>>),
           NEW C, IsJoin(C, B, home), NEW V, IsJoin(V, C, X)
    PROVE  /\ V \in Bytes(P + 7 + N) /\ A \in Bytes(P + 2)
           /\ \A i \in 1..(P + 2) : V[i] = A[i]
           /\ V[P + 3] = type
           /\ \A i \in (P + 4)..(P + 7) : V[i] = home[i - (P + 3)]
           /\ \A i \in (P + 8)..(P + 7 + N) : V[i] = X[i - (P + 7)]
<1>1. <<type>> \in Bytes(1) /\ <<type>>[1] = type
  BY FewBytes
<1>2. A \in Bytes(P + 2)
  BY MarkerBytes, Join
<1>3. B \in Bytes(P + 3)
  BY <1>1, <1>2, Join
<1>4. C \in Bytes(P + 7)
  BY <1>3, Join
<1>5. V \in Bytes(P + 7 + N)
  BY <1>4, Join
<1>6. \A i \in 1..(P + 2) : B[i] = A[i]
  BY <1>1, <1>2, Join
<1>7. B[P + 3] = type
  BY <1>1, <1>2, Join
<1>8. /\ \A i \in 1..(P + 3) : C[i] = B[i]
      /\ \A i \in (P + 4)..(P + 7) : C[i] = home[i - (P + 3)]
  BY <1>3, Join
<1>9. /\ \A i \in 1..(P + 7) : V[i] = C[i]
      /\ \A i \in (P + 8)..(P + 7 + N) : V[i] = X[i - (P + 7)]
  BY <1>4, Join
<1> QED BY <1>2, <1>5, <1>6, <1>7, <1>8, <1>9

\* What follows the home ID in a registration.
LEMMA RegistrationEnd ==
    ASSUME NEW password \in Bytes(4), NEW G \in Nat, NEW gap \in Bytes(G),
           NEW remote \in Bytes(6), NEW channel \in Byte,
           NEW A, IsJoin(A, password, gap), NEW B, IsJoin(B, A, LinkMarker),
           NEW C, IsJoin(C, B, remote), NEW X, IsJoin(X, C, <<channel>>),
           NEW D, IsJoin(D, gap, LinkMarker)
    PROVE  /\ X \in Bytes(G + 13) /\ D \in Bytes(G + 2)
           /\ \A i \in 1..4 : X[i] = password[i]
           /\ \A i \in 5..(G + 6) : X[i] = D[i - 4]
           /\ \A i \in (G + 7)..(G + 12) : X[i] = remote[i - (G + 6)]
           /\ X[G + 13] = channel
<1>1. <<channel>> \in Bytes(1) /\ <<channel>>[1] = channel
  BY FewBytes
<1>2. A \in Bytes(G + 4)
  BY Join
<1>3. D \in Bytes(G + 2)
  BY MarkerBytes, Join
<1>4. B \in Bytes(G + 6)
  BY <1>2, MarkerBytes, Join
<1>5. C \in Bytes(G + 12)
  BY <1>4, Join
<1>6. X \in Bytes(G + 13)
  BY <1>1, <1>5, Join
<1>7. \A i \in 1..(G + 4) : A[i] = IF i <= 4 THEN password[i] ELSE gap[i - 4]
  BY Join
<1>8. \A i \in 1..(G + 2) : D[i] = IF i <= G THEN gap[i] ELSE LinkMarker[i - G]
  BY MarkerBytes, Join
<1>9. \A i \in 1..(G + 6) : B[i] = IF i <= G + 4 THEN A[i] ELSE LinkMarker[i - (G + 4)]
  BY <1>2, MarkerBytes, Join
<1>10. /\ \A i \in 1..(G + 6) : C[i] = B[i]
       /\ \A i \in (G + 7)..(G + 12) : C[i] = remote[i - (G + 6)]
  BY <1>4, Join
<1>11. \A i \in 1..(G + 12) : X[i] = C[i]
  BY <1>1, <1>5, Join
<1>12. X[G + 13] = channel
  BY <1>1, <1>5, Join
<1>13. \A i \in 1..4 : X[i] = password[i]
  BY <1>7, <1>9, <1>10, <1>11
<1>14. ASSUME NEW i \in 5..(G + 6) PROVE X[i] = D[i - 4]
  <2>1. X[i] = B[i]
    BY <1>10, <1>11
  <2>2. CASE i <= G + 4
    BY <1>7, <1>8, <1>9, <2>1, <2>2
  <2>3. CASE i > G + 4
    <3>1. i - 4 \in 1..(G + 2) /\ ~(i - 4 <= G) /\ i - 4 - G = i - (G + 4)
      BY <2>3
    <3> QED BY <1>8, <1>9, <2>1, <2>3, <3>1
  <2> QED BY <2>2, <2>3
<1> QED BY <1>3, <1>6, <1>10, <1>11, <1>12, <1>13, <1>14

\* A cut of bytes, and what follows one of their places.
LEMMA SliceBytes ==
    ASSUME NEW k \in Nat, NEW s \in Bytes(k), NEW m \in Nat, m > 0, NEW n \in Nat, n <= k, m <= n + 1
    PROVE  /\ SubSeq(s, m, n) \in Bytes(n + 1 - m)
           /\ \A i \in 1..(n + 1 - m) : SubSeq(s, m, n)[i] = s[m + i - 1]
<1>1. s \in Seq(Byte) /\ Len(s) = k
  BY BytesAreSeq
<1>2. /\ SubSeq(s, m, n) \in Seq(Byte)
      /\ Len(SubSeq(s, m, n)) = n - m + 1
      /\ \A i \in 1..(n - m + 1) : SubSeq(s, m, n)[i] = s[m + i - 1]
  BY <1>1, Slice
<1>3. SubSeq(s, m, n) \in Bytes(n - m + 1)
  <2> DEFINE r == SubSeq(s, m, n)
  <2>1. r \in Seq(Byte) /\ Len(r) = n - m + 1 /\ n - m + 1 \in Nat
    BY <1>2
  <2> HIDE DEF r
  <2>2. r \in Bytes(n - m + 1)
    BY <2>1, BytesAreSeq
  <2> QED BY <2>2 DEF r
<1> QED BY <1>2, <1>3

\* Bytes of the same number with the same elements are equal.
LEMMA EqualBytes ==
    ASSUME NEW n \in Nat, NEW s \in Bytes(n), NEW t \in Bytes(n), \A i \in 1..n : s[i] = t[i]
    PROVE  s = t
  BY DEF Bytes

\* The same of texts with their lengths.
LEMMA FoundFirst ==
    ASSUME NEW part \in Bytes(2), NEW k \in Nat, NEW lead \in Bytes(k + 2),
           Find(lead, part, 1) = {k + 1},
           NEW n \in Nat, NEW s \in Bytes(n), NEW from \in Nat, from > 0,
           \A i \in from..(from + k + 1) : i <= n => s[i] = lead[i + 1 - from]
    PROVE  Find(s, part, from) = IF n >= from + k + 1 THEN {from + k} ELSE {}
<1>1. lead \in Seq(Byte) /\ Len(lead) = k + 2 /\ s \in Seq(Byte) /\ Len(s) = n
  BY BytesAreSeq
<1>2. \A i \in 1..(k + 2) : from + i - 1 <= Len(s) => s[from + i - 1] = lead[i]
  <2>1. ASSUME NEW i \in 1..(k + 2), from + i - 1 <= Len(s) PROVE s[from + i - 1] = lead[i]
    <3>1. from + i - 1 \in from..(from + k + 1) /\ from + i - 1 <= n /\ from + i - 1 + 1 - from = i
      BY <1>1, <2>1
    <3> QED BY <3>1
  <2> QED BY <2>1
<1>3. Find(s, part, from) = IF Len(s) >= from + k + 1 THEN {from + k} ELSE {}
  <2>1. from \in Nat \ {0}
    OBVIOUS
  <2> QED BY <1>1, <1>2, <2>1, FindingFirst
<1> QED BY <1>1, <1>3

\* Only what follows the first marker of a value is looked at.
LEMMA ValueParsed ==
    ASSUME NEW P \in Nat, NEW A \in Bytes(P + 2), Find(A, Marker, 1) = {P + 1},
           NEW T \in Nat, T >= P + 2, NEW V \in Bytes(T),
           \A i \in 1..(P + 2) : V[i] = A[i],
           NEW n \in 0..T
    PROVE  /\ n < P + 2 => ParseManufacturerValue(Cut(V, n)) = {}
           /\ n >= P + 2 =>
                 \E data \in Bytes(n - P) :
                    /\ \A i \in 1..(n - P) : data[i] = V[P + i]
                    /\ ParseManufacturerValue(Cut(V, n)) = ParseIdle(data) \cup ParseRegistration(data)
<1> DEFINE v == Cut(V, n)
<1>1. v \in Bytes(n) /\ \A i \in 1..n : v[i] = V[i]
  <2>1. /\ SubSeq(V, 1, n) \in Bytes(n + 1 - 1)
        /\ \A i \in 1..(n + 1 - 1) : SubSeq(V, 1, n)[i] = V[1 + i - 1]
    BY SliceBytes
  <2> QED BY <2>1 DEF Cut
<1> HIDE DEF v
<1>2. \A i \in 1..(1 + P + 1) : i <= n => v[i] = A[i + 1 - 1]
  BY <1>1
<1>3. Find(v, Marker, 1) = IF n >= 1 + P + 1 THEN {1 + P} ELSE {}
  BY <1>1, <1>2, MarkerBytes, FoundFirst
<1>4. CASE n < P + 2
  <2>1. Find(v, Marker, 1) = {}
    BY <1>3, <1>4
  <2> QED BY <1>4, <2>1 DEF ParseManufacturerValue, v
<1>5. CASE n >= P + 2
  <2> DEFINE data == SubSeq(v, P + 1, n)
  <2>1. Find(v, Marker, 1) = {P + 1}
    BY <1>3, <1>5
  <2>2. data \in Bytes(n + 1 - (P + 1)) /\ \A i \in 1..(n + 1 - (P + 1)) : data[i] = v[P + 1 + i - 1]
    BY <1>1, <1>5, SliceBytes
  <2>3. data = SubSeq(v, P + 1, Len(v))
    <3>1. Len(v) = n
      BY <1>1, BytesAreSeq
    <3> QED BY <3>1
  <2>4. ParseManufacturerValue(v) = ParseIdle(data) \cup ParseRegistration(data)
    BY <2>1, <2>3 DEF ParseManufacturerValue
  <2> HIDE DEF data
  <2>5. data \in Bytes(n - P) /\ \A i \in 1..(n - P) : data[i] = V[P + i]
    <3>1. n + 1 - (P + 1) = n - P
      OBVIOUS
    <3>2. ASSUME NEW i \in 1..(n - P) PROVE data[i] = V[P + i]
      BY <1>1, <1>5, <2>2, <3>1
    <3> QED BY <2>2, <3>1, <3>2
  <2> QED BY <1>5, <2>4, <2>5 DEF v
<1> QED BY <1>4, <1>5

\* An announcement, of which d bytes are there.
LEMMA IdleParsed ==
    ASSUME NEW d \in 2..13, NEW data \in Bytes(d), NEW home \in Bytes(4), NEW remote \in Bytes(6),
           d >= 3 => data[3] = Idle,
           \A i \in 4..7 : i <= d => data[i] = home[i - 3],
           \A i \in 8..13 : i <= d => data[i] = remote[i - 7]
    PROVE  ParseIdle(data) \cup ParseRegistration(data)
             = IF d = 13 THEN {[type |-> Idle, home |-> home, remote |-> remote]} ELSE {}
<1>1. Len(data) = d
  BY BytesAreSeq
<1>2. ParseRegistration(data) = {}
  BY <1>1 DEF ParseRegistration, Idle, Registration
<1>3. CASE d = 13
  <2>1. \A i \in 4..7 : data[i] = home[i - 3]
    BY <1>3
  <2>2. \A i \in 8..13 : data[i] = remote[i - 7]
    BY <1>3
  <2>3. ParseIdle(data) = {[type |-> Idle, home |-> home, remote |-> remote]}
    <3>1. Len(data) >= 13 /\ data[3] = Idle
      BY <1>1, <1>3
    <3>2. SubSeq(data, 4, 7) = home
      BY <1>3, <2>1 DEF Bytes
    <3>3. SubSeq(data, 8, 13) = remote
      BY <1>3, <2>2 DEF Bytes
    <3> QED BY <3>1, <3>2, <3>3 DEF ParseIdle
  <2> QED BY <1>2, <1>3, <2>3
<1>4. CASE d # 13
  <2>1. ~(Len(data) >= 13)
    BY <1>1, <1>4
  <2>2. ParseIdle(data) = {}
    BY <2>1 DEF ParseIdle
  <2> QED BY <1>2, <1>4, <2>2
<1> QED BY <1>3, <1>4

\* A registration, of which d bytes are there.
RegistrationLaid(data, d, G, D, home, password, remote, channel) ==
    /\ d >= 3 => data[3] = Registration
    /\ \A i \in 4..7 : i <= d => data[i] = home[i - 3]
    /\ \A i \in 8..11 : i <= d => data[i] = password[i - 7]
    /\ \A i \in 12..(G + 13) : i <= d => data[i] = D[i - 11]
    /\ \A i \in (G + 14)..(G + 19) : i <= d => data[i] = remote[i - (G + 13)]
    /\ d = G + 20 => data[G + 20] = channel

\* What parse_manufacturer_value makes of a registration from its marker on, cut
\* short after d bytes.
LEMMA RegistrationParsed ==
    ASSUME NEW G \in Nat, NEW D \in Bytes(G + 2), Find(D, LinkMarker, 1) = {G + 1},
           NEW d \in 2..(G + 20), NEW data \in Bytes(d),
           NEW home \in Bytes(4), NEW password \in Bytes(4), NEW remote \in Bytes(6),
           NEW channel \in Byte,
           RegistrationLaid(data, d, G, D, home, password, remote, channel)
    PROVE  ParseIdle(data) \cup ParseRegistration(data)
             = IF d = G + 20 /\ IsAscii(password)
               THEN {[type |-> Registration, home |-> home, password |-> password,
                      remote |-> remote, channel |-> channel]}
               ELSE {}
<1> USE DEF RegistrationLaid
<1>1. Len(data) = d
  BY BytesAreSeq
<1>2. ParseIdle(data) = {}
  BY <1>1 DEF ParseIdle, Idle, Registration
<1>3. CASE d < 20
  BY <1>1, <1>2, <1>3 DEF ParseRegistration
<1>4. CASE d >= 20
  <2>1. SubSeq(data, 4, 7) = home
    <3>1. \A i \in 4..7 : data[i] = home[i - 3]
      BY <1>4
    <3> QED BY <1>4, <3>1 DEF Bytes
  <2>2. SubSeq(data, 8, 11) = password
    <3>1. \A i \in 8..11 : data[i] = password[i - 7]
      BY <1>4
    <3> QED BY <1>4, <3>1 DEF Bytes
  <2>3. Find(data, LinkMarker, 12) = IF d >= 12 + G + 1 THEN {12 + G} ELSE {}
    <3> DEFINE from == 12
    <3>1. \A i \in from..(from + G + 1) : i <= d => data[i] = D[i + 1 - from]
      OBVIOUS
    <3>2. from \in Nat /\ from > 0
      OBVIOUS
    <3> HIDE DEF from
    <3>3. Find(data, LinkMarker, from) = IF d >= from + G + 1 THEN {from + G} ELSE {}
      BY ONLY <3>1, <3>2, G \in Nat, D \in Bytes(G + 2), Find(D, LinkMarker, 1) = {G + 1},
              d \in Nat, data \in Bytes(d), MarkerBytes, FoundFirst
    <3> QED BY ONLY <3>3 DEF from
  <2>4. CASE d < G + 20
    <3>1. {k \in Find(data, LinkMarker, 12) : Len(data) >= k + 8} = {}
      BY <1>1, <2>3, <2>4
    <3>2. ParseRegistration(data) = {}
      BY ONLY <3>1 DEF ParseRegistration
    <3> QED BY <1>2, <2>4, <3>2
  <2>5. CASE d = G + 20
    <3>1. {k \in Find(data, LinkMarker, 12) : Len(data) >= k + 8} = {G + 12}
      BY <1>1, <2>3, <2>5
    <3>2. SubSeq(data, G + 14, G + 19) = remote
      <4>1. \A i \in (G + 14)..(G + 19) : data[i] = remote[i - (G + 13)]
        BY <2>5
      <4> QED BY <2>5, <4>1 DEF Bytes
    <3>3. Link(data, G + 12) = [type |-> Registration, home |-> home, password |-> password,
                                remote |-> remote, channel |-> channel]
      <4>1. SubSeq(data, (G + 12) + 2, (G + 12) + 7) = remote
        BY <3>2
      <4>2. data[(G + 12) + 8] = channel
        BY <2>5
      <4> QED BY <2>1, <2>2, <4>1, <4>2 DEF Link
    <3>4. Len(data) >= 20 /\ data[3] = Registration
      BY <1>1, <1>4
    <3>5. ParseRegistration(data)
            = IF IsAscii(SubSeq(data, 8, 11))
              THEN {Link(data, l) : l \in {k \in Find(data, LinkMarker, 12) : Len(data) >= k + 8}}
              ELSE {}
      BY ONLY <3>4 DEF ParseRegistration
    <3>6. ParseRegistration(data)
            = IF IsAscii(password) THEN {Link(data, l) : l \in {G + 12}} ELSE {}
      BY ONLY <2>2, <3>1, <3>5
    <3>7. {Link(data, l) : l \in {G + 12}} = {Link(data, G + 12)}
      OBVIOUS
    <3> QED BY <1>2, <2>5, <3>3, <3>6, <3>7
  <2> QED BY <2>4, <2>5
<1> QED BY <1>3, <1>4

\* A layout's fields.
LEMMA LayoutFields ==
    ASSUME NEW l, WellLaid(l)
    PROVE  /\ l.type \in Byte /\ l.home \in Bytes(4) /\ l.password \in Bytes(4)
           /\ l.remote \in Bytes(6) /\ l.channel \in Byte
           /\ Len(l.prefix) \in Nat /\ l.prefix \in Bytes(Len(l.prefix))
           /\ Len(l.gap) \in Nat /\ l.gap \in Bytes(Len(l.gap))
<1>1. l.prefix \in Seq(Byte) /\ l.gap \in Seq(Byte)
  BY DEF WellLaid
<1>2. Len(l.prefix) \in Nat /\ Len(l.gap) \in Nat
  BY <1>1, LenProperties
<1> QED BY <1>1, <1>2, BytesAreSeq DEF WellLaid

\* A value whole or cut short: it is understood if it is whole, of a known type
\* and has a password in ASCII.
LEMMA LayoutParsed ==
    ASSUME NEW l, WellLaid(l)
    PROVE  /\ Len(Value(l)) \in Nat /\ Value(l) \in Bytes(Len(Value(l)))
           /\ \A n \in 0..Len(Value(l)) :
                 ParseManufacturerValue(Cut(Value(l), n))
                   = IF /\ n = Len(Value(l)) /\ l.type \in {Idle, Registration}
                        /\ l.type = Registration => IsAscii(l.password)
                     THEN {Told(l)} ELSE {}
<1> DEFINE P == Len(l.prefix)
           G == Len(l.gap)
           A == l.prefix \o Marker
           B == A \o <<l.type>>
           C == B \o l.home
           E == l.password \o l.gap
           F == E \o LinkMarker
           H == F \o l.remote
           R == H \o <<l.channel>>
           D == l.gap \o LinkMarker
           X == IF l.type = Idle THEN l.remote ELSE R
           V == Value(l)
<1>1. V = C \o X
  BY DEF Value
<1>2. /\ IsJoin(A, l.prefix, Marker) /\ IsJoin(B, A, <<l.type>>) /\ IsJoin(C, B, l.home)
      /\ IsJoin(V, C, X)
  BY <1>1 DEF IsJoin
<1>3. /\ IsJoin(E, l.password, l.gap) /\ IsJoin(F, E, LinkMarker) /\ IsJoin(H, F, l.remote)
      /\ IsJoin(R, H, <<l.channel>>) /\ IsJoin(D, l.gap, LinkMarker)
  BY DEF IsJoin
<1>4. Find(A, Marker, 1) = {P + 1} /\ Find(D, LinkMarker, 1) = {G + 1}
  BY DEF WellLaid
<1>5. X = IF l.type = Idle THEN l.remote ELSE R
  OBVIOUS
<1>6. /\ l.type \in Byte /\ l.home \in Bytes(4) /\ l.password \in Bytes(4)
      /\ l.remote \in Bytes(6) /\ l.channel \in Byte
      /\ P \in Nat /\ l.prefix \in Bytes(P) /\ G \in Nat /\ l.gap \in Bytes(G)
  BY LayoutFields
<1> HIDE DEF P, G, A, B, C, D, E, F, H, R, X, V
<1>7. /\ R \in Bytes(G + 13) /\ D \in Bytes(G + 2)
      /\ \A i \in 1..4 : R[i] = l.password[i]
      /\ \A i \in 5..(G + 6) : R[i] = D[i - 4]
      /\ \A i \in (G + 7)..(G + 12) : R[i] = l.remote[i - (G + 6)]
      /\ R[G + 13] = l.channel
  BY <1>3, <1>6, RegistrationEnd
<1>8. PICK N \in Nat : N = (IF l.type = Idle THEN 6 ELSE G + 13) /\ X \in Bytes(N)
  BY <1>5, <1>6, <1>7
<1>9. /\ V \in Bytes(P + 7 + N) /\ A \in Bytes(P + 2)
      /\ \A i \in 1..(P + 2) : V[i] = A[i]
      /\ V[P + 3] = l.type
      /\ \A i \in (P + 4)..(P + 7) : V[i] = l.home[i - (P + 3)]
      /\ \A i \in (P + 8)..(P + 7 + N) : V[i] = X[i - (P + 7)]
  BY <1>2, <1>6, <1>8, ValueStart
<1>10. Len(V) = P + 7 + N
  <2> DEFINE T == P + 7 + N
  <2>1. T \in Nat /\ V \in Bytes(T)
    BY <1>6, <1>8, <1>9
  <2> HIDE DEF T
  <2>2. Len(V) = T
    BY <2>1, BytesAreSeq
  <2> QED BY <2>2 DEF T
<1>11. ASSUME NEW n \in 0..(P + 7 + N)
       PROVE  ParseManufacturerValue(Cut(V, n))
                = IF /\ n = P + 7 + N /\ l.type \in {Idle, Registration}
                     /\ l.type = Registration => IsAscii(l.password)
                  THEN {Told(l)} ELSE {}
  <2> DEFINE T == P + 7 + N
  <2>1. T \in Nat /\ V \in Bytes(T) /\ T >= P + 2 /\ n \in 0..T
    BY <1>6, <1>8, <1>9
  <2> HIDE DEF T
  <2>2. /\ n < P + 2 => ParseManufacturerValue(Cut(V, n)) = {}
        /\ n >= P + 2 =>
              \E data \in Bytes(n - P) :
                 /\ \A i \in 1..(n - P) : data[i] = V[P + i]
                 /\ ParseManufacturerValue(Cut(V, n)) = ParseIdle(data) \cup ParseRegistration(data)
    BY <1>4, <1>6, <1>9, <2>1, ValueParsed
  <2>3. CASE n < P + 2
    <3>1. n # P + 7 + N
      BY <1>6, <1>8, <2>3
    <3> QED BY <2>2, <2>3, <3>1
  <2>4. CASE n >= P + 2
    <3>1. PICK data \in Bytes(n - P) :
             /\ \A i \in 1..(n - P) : data[i] = V[P + i]
             /\ ParseManufacturerValue(Cut(V, n)) = ParseIdle(data) \cup ParseRegistration(data)
      BY <2>2, <2>4
    <3> DEFINE d == n - P
    <3>2. d \in 2..(7 + N) /\ data \in Bytes(d) /\ d = n - P
      BY <1>6, <1>8, <2>4, <3>1
    <3> HIDE DEF d
    <3>3. \A i \in 1..d : data[i] = V[P + i]
      BY <3>1, <3>2
    <3>4. d >= 3 => data[3] = l.type
      BY <1>9, <3>2, <3>3
    <3>5. \A i \in 4..7 : i <= d => data[i] = l.home[i - 3]
      <4>1. ASSUME NEW i \in 4..7, i <= d PROVE data[i] = l.home[i - 3]
        <5>1. i \in 1..d /\ P + i \in (P + 4)..(P + 7) /\ P + i - (P + 3) = i - 3
          BY <1>6, <3>2, <4>1
        <5> DEFINE j == P + i
        <5>2. data[i] = V[j] /\ j \in (P + 4)..(P + 7)
          BY <3>3, <5>1
        <5>3. j \in (P + 4)..(P + 7) => V[j] = l.home[j - (P + 3)]
          BY <1>9
        <5>4. j - (P + 3) = i - 3
          BY <1>6, <5>1
        <5> HIDE DEF j
        <5> QED BY <5>2, <5>3, <5>4
      <4> QED BY <4>1
    <3>6. \A i \in 8..(7 + N) : i <= d => data[i] = X[i - 7]
      <4>1. ASSUME NEW i \in 8..(7 + N), i <= d PROVE data[i] = X[i - 7]
        <5>1. i \in 1..d /\ P + i \in (P + 8)..(P + 7 + N) /\ P + i - (P + 7) = i - 7
          BY <1>6, <1>8, <3>2, <4>1
        <5> DEFINE j == P + i
        <5>2. data[i] = V[j] /\ j \in (P + 8)..(P + 7 + N)
          BY <3>3, <5>1
        <5>3. j \in (P + 8)..(P + 7 + N) => V[j] = X[j - (P + 7)]
          BY <1>9
        <5>4. j - (P + 7) = i - 7
          BY <1>6, <5>1
        <5> HIDE DEF j
        <5> QED BY <5>2, <5>3, <5>4
      <4> QED BY <4>1
    <3>7. CASE l.type = Idle
      <4>1. N = 6 /\ X = l.remote
        BY <1>5, <1>8, <3>7
      <4>2. \A i \in 8..13 : i <= d => data[i] = l.remote[i - 7]
        BY <3>6, <4>1
      <4>3. d \in 2..13
        BY <3>2, <4>1
      <4>4. d >= 3 => data[3] = Idle
        BY <3>4, <3>7
      <4>5. ParseIdle(data) \cup ParseRegistration(data)
              = IF d = 13 THEN {[type |-> Idle, home |-> l.home, remote |-> l.remote]} ELSE {}
        BY ONLY <1>6, <3>2, <3>5, <4>2, <4>3, <4>4, IdleParsed
      <4>6. d = 13 <=> n = P + 7 + N
        BY <1>6, <3>2, <4>1
      <4>7. Told(l) = [type |-> Idle, home |-> l.home, remote |-> l.remote]
        BY <3>7 DEF Told
      <4>8. l.type # Registration
        BY <3>7 DEF Idle, Registration
      <4> QED BY <3>1, <3>7, <4>5, <4>6, <4>7, <4>8
    <3>8. CASE l.type # Idle
      <4>1. N = G + 13 /\ X = R
        BY <1>5, <1>8, <3>8
      <4>2. CASE l.type = Registration
        <5>1. \A i \in 8..11 : i <= d => data[i] = l.password[i - 7]
          BY <1>7, <1>6, <3>6, <4>1
        <5>2. \A i \in 12..(G + 13) : i <= d => data[i] = D[i - 11]
          <6>1. ASSUME NEW i \in 12..(G + 13), i <= d PROVE data[i] = D[i - 11]
            <7>1. i \in 8..(7 + N) /\ i - 7 \in 5..(G + 6) /\ i - 7 - 4 = i - 11
              BY <1>6, <4>1, <6>1
            <7> QED BY <1>7, <3>6, <4>1, <6>1, <7>1
          <6> QED BY <6>1
        <5>3. \A i \in (G + 14)..(G + 19) : i <= d => data[i] = l.remote[i - (G + 13)]
          <6>1. ASSUME NEW i \in (G + 14)..(G + 19), i <= d PROVE data[i] = l.remote[i - (G + 13)]
            <7>1. i \in 8..(7 + N) /\ i - 7 \in (G + 7)..(G + 12) /\ i - 7 - (G + 6) = i - (G + 13)
              BY <1>6, <4>1, <6>1
            <7> QED BY <1>7, <3>6, <4>1, <6>1, <7>1
          <6> QED BY <6>1
        <5>4. d = G + 20 => data[G + 20] = l.channel
          <6>1. ASSUME d = G + 20 PROVE data[G + 20] = l.channel
            <7>1. G + 20 \in 8..(7 + N) /\ G + 20 <= d /\ G + 20 - 7 = G + 13
              BY <1>6, <4>1, <6>1
            <7>2. data[G + 20] = X[G + 20 - 7]
              BY <1>6, <3>6, <7>1
            <7>3. X[G + 20 - 7] = R[G + 13]
              BY <4>1, <7>1
            <7> QED BY <1>7, <7>2, <7>3
          <6> QED BY <6>1
        <5>5. d \in 2..(G + 20) /\ (d >= 3 => data[3] = Registration)
          BY <1>6, <3>2, <3>4, <4>1, <4>2
        <5>6. ParseIdle(data) \cup ParseRegistration(data)
                = IF d = G + 20 /\ IsAscii(l.password)
                  THEN {[type |-> Registration, home |-> l.home, password |-> l.password,
                         remote |-> l.remote, channel |-> l.channel]}
                  ELSE {}
          <6>1. /\ Find(D, LinkMarker, 1) = {G + 1} /\ D \in Bytes(G + 2) /\ G \in Nat
                /\ d \in 2..(G + 20) /\ data \in Bytes(d) /\ (d >= 3 => data[3] = Registration)
            BY <1>4, <1>6, <1>7, <3>2, <5>5
          <6>2. RegistrationLaid(data, d, G, D, l.home, l.password, l.remote, l.channel)
            BY ONLY <6>1, <3>5, <5>1, <5>2, <5>3, <5>4 DEF RegistrationLaid
          <6> QED BY ONLY <1>6, <6>1, <6>2, RegistrationParsed
        <5>7. d = G + 20 <=> n = P + 7 + N
          BY <1>6, <3>2, <4>1
        <5>8. Told(l) = [type |-> Registration, home |-> l.home, password |-> l.password,
                         remote |-> l.remote, channel |-> l.channel]
          BY <3>8 DEF Told
        <5> QED BY <3>1, <4>2, <5>6, <5>7, <5>8
      <4>3. CASE l.type # Registration
        <5>1. Len(data) = d
          BY <3>2, BytesAreSeq
        <5>2. Len(data) >= 13 => data[3] # Idle /\ data[3] # Registration
          BY <3>2, <3>4, <3>8, <4>3, <5>1
        <5>3. ParseIdle(data) = {}
          BY ONLY <5>2 DEF ParseIdle
        <5>4. ParseRegistration(data) = {}
          <6>1. Len(data) >= 20 => data[3] # Registration
            BY <3>2, <5>1, <5>2
          <6> QED BY ONLY <6>1 DEF ParseRegistration
        <5> QED BY <3>1, <3>8, <4>3, <5>3, <5>4
      <4> QED BY <4>2, <4>3
    <3> QED BY <3>7, <3>8
  <2> QED BY <1>6, <2>3, <2>4
<1>12. Len(V) \in Nat
  BY <1>6, <1>8, <1>10
<1>13. V \in Bytes(Len(V))
  BY <1>9, <1>10
<1> QED BY <1>10, <1>11, <1>12, <1>13 DEF V

\* Told gives the type and the remote ID of the layout.
LEMMA ToldFields ==
    ASSUME NEW l, l.type \in {Idle, Registration}
    PROVE  Told(l).type = l.type /\ Told(l).remote = l.remote
<1>1. CASE l.type = Idle
  BY <1>1 DEF Told
<1>2. CASE l.type # Idle
  BY <1>2 DEF Told
<1> QED BY <1>1, <1>2

\* The values of a list, and what the layouts asked for tell.
Values(list) == [i \in DOMAIN list |-> Cut(Value(list[i].layout), list[i].length)]

Meant(list, types, remotes) ==
    LET Laid(i) == list[i].layout
        hits == { i \in DOMAIN list :
                    /\ list[i].length = Len(Value(Laid(i)))
                    /\ Laid(i).type \in types /\ Laid(i).remote \in remotes
                    /\ Laid(i).type = Registration => IsAscii(Laid(i).password) }
    IN {Told(Laid(i)) : i \in {h \in hits : \A g \in hits : h <= g}}

\* What is found in a list of values is the first of the layouts asked for.
LEMMA ListParsed ==
    ASSUME NEW list, NEW types \in SUBSET {Idle, Registration}, NEW remotes,
           \A i \in DOMAIN list : /\ WellLaid(list[i].layout)
                                  /\ list[i].length \in 0..Len(Value(list[i].layout))
    PROVE  FindAdvertisement(Values(list), types, remotes) = Meant(list, types, remotes)
<1> DEFINE values == [i \in DOMAIN list |-> Cut(Value(list[i].layout), list[i].length)]
           Whole(i) == /\ list[i].length = Len(Value(list[i].layout))
                       /\ list[i].layout.type \in {Idle, Registration}
                       /\ list[i].layout.type = Registration => IsAscii(list[i].layout.password)
           Asked(a) == a.type \in types /\ a.remote \in remotes
           found == { i \in DOMAIN values :
                        \E a \in ParseManufacturerValue(values[i]) : Asked(a) }
           hits == { i \in DOMAIN list :
                       /\ list[i].length = Len(Value(list[i].layout))
                       /\ list[i].layout.type \in types /\ list[i].layout.remote \in remotes
                       /\ list[i].layout.type = Registration => IsAscii(list[i].layout.password) }
           First(S) == {h \in S : \A g \in S : h <= g}
<1>1. DOMAIN values = DOMAIN list
  OBVIOUS
<1>2. ASSUME NEW i \in DOMAIN list
      PROVE  ParseManufacturerValue(values[i]) = IF Whole(i) THEN {Told(list[i].layout)} ELSE {}
  <2>1. WellLaid(list[i].layout) /\ list[i].length \in 0..Len(Value(list[i].layout))
    OBVIOUS
  <2>2. values[i] = Cut(Value(list[i].layout), list[i].length)
    OBVIOUS
  <2> QED BY ONLY <2>1, <2>2, LayoutParsed
<1>3. ASSUME NEW i \in DOMAIN list PROVE i \in found <=> i \in hits
  <2> HIDE DEF values
  <2>1. i \in found <=> \E a \in ParseManufacturerValue(values[i]) : Asked(a)
    BY <1>1
  <2>2. CASE Whole(i)
    <3>1. ParseManufacturerValue(values[i]) = {Told(list[i].layout)}
      BY <1>2, <2>2
    <3>2. i \in found <=> Asked(Told(list[i].layout))
      BY <2>1, <3>1
    <3>3. Asked(Told(list[i].layout))
            <=> list[i].layout.type \in types /\ list[i].layout.remote \in remotes
      BY <2>2, ToldFields
    <3> QED BY <2>2, <3>2, <3>3
  <2>3. CASE ~Whole(i)
    <3>1. i \notin found
      BY <1>2, <2>1, <2>3
    <3> QED BY <2>3, <3>1
  <2> QED BY <2>2, <2>3
<1>4. found = hits
  <2> HIDE DEF values
  <2>1. found \subseteq DOMAIN list /\ hits \subseteq DOMAIN list
    BY <1>1
  <2> HIDE DEF found, hits
  <2> QED BY <1>3, <2>1
<1>5. FindAdvertisement(values, types, remotes)
        = UNION {ParseManufacturerValue(values[i]) : i \in First(found)}
  BY DEF FindAdvertisement
<1>6. \A i \in hits : i \in DOMAIN list /\ Whole(i)
  OBVIOUS
<1> HIDE DEF values, found, hits, Whole
<1>7. \A i \in First(hits) : ParseManufacturerValue(values[i]) = {Told(list[i].layout)}
  BY <1>2, <1>6
<1>8. UNION {ParseManufacturerValue(values[i]) : i \in First(hits)}
        = {Told(list[i].layout) : i \in First(hits)}
  <2> HIDE DEF First
  <2> QED BY ONLY <1>7
<1>9. FindAdvertisement(values, types, remotes) = {Told(list[i].layout) : i \in First(hits)}
  BY <1>4, <1>5, <1>8
<1> QED BY <1>9 DEF values, hits, Values, Meant

-----------------------------------------------------------------------------
\* Whatever a sender lays out is understood as it was laid out, if it is whole
\* and asked for (parse_manufacturer_value, find_advertisement).
THEOREM ParsedAsLaidOut == Spec => []AdvertisementParsedAsLaidOut
<1>1. Init => AdvertisementParsedAsLaidOut
  BY DEF Init, AdvertisementParsedAsLaidOut, Nothing
<1>2. ASSUME AdvertisementParsedAsLaidOut, [Next]_vars PROVE AdvertisementParsedAsLaidOut'
  <2> USE <1>2
  <2>0. CASE UNCHANGED <<sent, received>>
    BY <2>0 DEF AdvertisementParsedAsLaidOut
  <2>1. ASSUME NEW list, NEW types \in SUBSET {Idle, Registration}, NEW remotes,
               \A i \in DOMAIN list : /\ WellLaid(list[i].layout)
                                      /\ list[i].length \in 0..Len(Value(list[i].layout)),
               AdvertisementSeen(list, types, remotes)
        PROVE  AdvertisementParsedAsLaidOut'
    <3>1. /\ sent' = [kind |-> "advertisement", list |-> list,
                      types |-> types, remotes |-> remotes]
          /\ received' = FindAdvertisement(
                             [i \in DOMAIN list |-> Cut(Value(list[i].layout), list[i].length)],
                             types, remotes)
      BY <2>1 DEF AdvertisementSeen
    <3>2. received' = Meant(list, types, remotes)
      BY <2>1, <3>1, ListParsed DEF Values
    <3>3. sent'.list = list /\ sent'.types = types /\ sent'.remotes = remotes
      BY <3>1
    <3>4. received' = Meant(sent'.list, sent'.types, sent'.remotes)
      BY <3>2, <3>3
    <3> QED BY ONLY <3>4 DEF AdvertisementParsedAsLaidOut, Meant
  <2>2. ASSUME NEW layout \in Layouts, NEW n \in 0..Len(Value(layout)),
               AdvertisementSeen(<<[layout |-> layout, length |-> n]>>,
                                 {Idle, Registration}, {Switch.remote})
        PROVE  AdvertisementParsedAsLaidOut'
    <3>1. WellLaid(layout)
      BY LayoutsWellLaid
    <3>2. \A i \in DOMAIN <<[layout |-> layout, length |-> n]>> :
              LET a == <<[layout |-> layout, length |-> n]>>[i]
              IN WellLaid(a.layout) /\ a.length \in 0..Len(Value(a.layout))
      BY <3>1
    <3> QED BY <2>1, <2>2, <3>2
  <2>3. ASSUME NEW list \in Lists, NEW types \in {{Idle}, {Registration}, {Idle, Registration}},
               AdvertisementSeen([i \in DOMAIN list |->
                                     [layout |-> list[i], length |-> Len(Value(list[i]))]],
                                 types, {Switch.remote})
        PROVE  AdvertisementParsedAsLaidOut'
    <3> DEFINE whole == [i \in DOMAIN list |->
                            [layout |-> list[i], length |-> Len(Value(list[i]))]]
    <3>1. ASSUME NEW i \in DOMAIN list PROVE WellLaid(list[i])
      <4>1. list[i] \in UNION {Range(s) : s \in Lists}
        BY DEF Range
      <4> QED BY <4>1, LayoutsWellLaid
    <3>2. \A i \in DOMAIN whole : /\ WellLaid(whole[i].layout)
                                  /\ whole[i].length \in 0..Len(Value(whole[i].layout))
      <4> SUFFICES ASSUME NEW i \in DOMAIN list
                   PROVE  /\ WellLaid(whole[i].layout)
                          /\ whole[i].length \in 0..Len(Value(whole[i].layout))
        OBVIOUS
      <4>1. whole[i].layout = list[i] /\ whole[i].length = Len(Value(list[i]))
        OBVIOUS
      <4>2. WellLaid(list[i]) /\ Len(Value(list[i])) \in Nat
        BY <3>1, LayoutParsed
      <4> QED BY <4>1, <4>2
    <3> HIDE DEF whole
    <3>3. AdvertisementSeen(whole, types, {Switch.remote})
      BY <2>3 DEF whole
    <3> QED BY <2>1, <3>2, <3>3
  <2>4. ASSUME NEW by, NEW vaddr, NEW length, LoginAnswered(by, vaddr, length)
        PROVE  AdvertisementParsedAsLaidOut'
    <3>1. sent'.kind = "login"
      BY <2>4 DEF LoginAnswered
    <3> QED BY <3>1 DEF AdvertisementParsedAsLaidOut
  <2>5. ASSUME NEW by, NEW vaddr, NEW content, NEW n, Notified(by, vaddr, content, n)
        PROVE  AdvertisementParsedAsLaidOut'
    <3>1. sent'.kind = "event"
      BY <2>5 DEF Notified
    <3> QED BY <3>1 DEF AdvertisementParsedAsLaidOut
  <2>6. ASSUME NEW data, Unpadded(data) PROVE AdvertisementParsedAsLaidOut'
    BY <2>6 DEF Unpadded, AdvertisementParsedAsLaidOut
  <2>7. ASSUME NEW key, NEW block, Encrypted(key, block) PROVE AdvertisementParsedAsLaidOut'
    <3>1. sent'.kind = "block"
      BY <2>7 DEF Encrypted
    <3> QED BY <3>1 DEF AdvertisementParsedAsLaidOut
  <2>8. CASE Handled
    BY <2>8 DEF Handled, Nothing, AdvertisementParsedAsLaidOut
  <2>9. CASE (\E layout \in Registrations : Registered(layout)) \/ SetUp \/ Disconnected
    BY <2>0, <2>9 DEF Registered, SetUp, Disconnected
  <2>10. CASE UNCHANGED vars
    BY <2>0, <2>10 DEF vars
  <2> QED BY <1>2, <2>2, <2>3, <2>4, <2>5, <2>6, <2>7, <2>8, <2>9, <2>10 DEF Next
<1> QED BY <1>1, <1>2, PTL DEF Spec

\* What is unpadded is what padding could have made, of any data and not only of
\* one block (_pkcs7_pad, _pkcs7_unpad).
THEOREM UnpadsOnlyPadded == Spec => []UnpadAcceptsOnlyPadded
<1>1. Init => UnpadAcceptsOnlyPadded
  BY DEF Init, UnpadAcceptsOnlyPadded, Nothing
<1>2. ASSUME UnpadAcceptsOnlyPadded, [Next]_vars PROVE UnpadAcceptsOnlyPadded'
  <2>0. CASE UNCHANGED <<sent, received>>
    BY <1>2, <2>0 DEF UnpadAcceptsOnlyPadded
  <2>1. ASSUME NEW list, NEW types, NEW remotes, AdvertisementSeen(list, types, remotes)
        PROVE  UnpadAcceptsOnlyPadded'
    <3>1. sent'.kind = "advertisement"
      BY <2>1 DEF AdvertisementSeen
    <3> QED BY <3>1 DEF UnpadAcceptsOnlyPadded
  <2>2. ASSUME NEW by, NEW vaddr, NEW length, LoginAnswered(by, vaddr, length)
        PROVE  UnpadAcceptsOnlyPadded'
    <3>1. sent'.kind = "login"
      BY <2>2 DEF LoginAnswered
    <3> QED BY <3>1 DEF UnpadAcceptsOnlyPadded
  <2>3. ASSUME NEW by, NEW vaddr, NEW content, NEW n, Notified(by, vaddr, content, n)
        PROVE  UnpadAcceptsOnlyPadded'
    <3>1. sent'.kind = "event"
      BY <2>3 DEF Notified
    <3> QED BY <3>1 DEF UnpadAcceptsOnlyPadded
  <2>4. ASSUME NEW data \in Padded, Unpadded(data) PROVE UnpadAcceptsOnlyPadded'
    <3>1. data \in Seq(Byte)
      BY SentFields
    <3>2. Unpad(data) = { d \in {Cut(data, n) : n \in 0..Len(data)} : Pad(d) = data }
      BY ONLY <3>1, UnpadInverse
    <3>3. sent'.data = data /\ received' = Unpad(data)
      BY <2>4 DEF Unpadded
    <3>4. received' = { d \in {Cut(sent'.data, n) : n \in 0..Len(sent'.data)} :
                           Pad(d) = sent'.data }
      BY <3>2, <3>3
    <3> QED BY <3>4 DEF UnpadAcceptsOnlyPadded
  <2>5. ASSUME NEW key, NEW block, Encrypted(key, block) PROVE UnpadAcceptsOnlyPadded'
    <3>1. sent'.kind = "block"
      BY <2>5 DEF Encrypted
    <3> QED BY <3>1 DEF UnpadAcceptsOnlyPadded
  <2>6. CASE Handled
    BY <2>6 DEF Handled, Nothing, UnpadAcceptsOnlyPadded
  <2>7. CASE (\E layout \in Registrations : Registered(layout)) \/ SetUp \/ Disconnected
    BY <2>0, <2>7 DEF Registered, SetUp, Disconnected
  <2>8. CASE UNCHANGED vars
    BY <2>0, <2>8 DEF vars
  <2> QED BY <1>2, <2>1, <2>2, <2>3, <2>4, <2>5, <2>6, <2>7, <2>8 DEF Next
<1> QED BY <1>1, <1>2, PTL DEF Spec

(***************************************************************************)
(* Exclusive or.                                                           *)
(***************************************************************************)
\* The halves of bytes.
Half == 0..15

\* The exclusive or of two halves of a byte, and its bits.
LEMMA HalfXorLaws ==
    ASSUME NEW a \in Half, NEW b \in Half
    PROVE  /\ HalfXor[a][b] \in Half /\ HalfXor[a][b] = HalfXor[b][a]
           /\ HalfXor[a][a] = 0 /\ HalfXor[a][0] = a
           /\ (HalfXor[a][b] \div 8) % 2 = ((a \div 8) + (b \div 8)) % 2
           /\ (HalfXor[a][b] \div 4) % 2 = ((a \div 4) + (b \div 4)) % 2
           /\ (HalfXor[a][b] \div 2) % 2 = ((a \div 2) + (b \div 2)) % 2
           /\ HalfXor[a][b] % 2 = (a + b) % 2
<1> DEFINE X(x, y) == 8 * (((x \div 8) + (y \div 8)) % 2) + 4 * (((x \div 4) + (y \div 4)) % 2)
                        + 2 * (((x \div 2) + (y \div 2)) % 2) + ((x + y) % 2)
<1>1. \A x, y \in Half : HalfXor[x][y] = X(x, y)
  BY DEF HalfXor, Half
<1>2. /\ X(a, b) \in Half /\ X(a, b) = X(b, a) /\ X(a, a) = 0 /\ X(a, 0) = a
  BY Z3 DEF Half
<1>3. /\ (X(a, b) \div 8) % 2 = ((a \div 8) + (b \div 8)) % 2
      /\ (X(a, b) \div 4) % 2 = ((a \div 4) + (b \div 4)) % 2
      /\ (X(a, b) \div 2) % 2 = ((a \div 2) + (b \div 2)) % 2
      /\ X(a, b) % 2 = (a + b) % 2
  BY Z3 DEF Half
<1> HIDE DEF X
<1>4. 0 \in Half
  BY DEF Half
<1> QED BY <1>1, <1>2, <1>3, <1>4

\* u is odd if one of x and y is.
SumsTo(u, x, y) == u % 2 = (x + y) % 2

\* Parities are added in any order.
LEMMA Parities ==
    ASSUME NEW x \in Nat, NEW y \in Nat, NEW z \in Nat, NEW u \in Nat, NEW v \in Nat,
           SumsTo(u, x, y), SumsTo(v, y, z)
    PROVE  (u + z) % 2 = (x + v) % 2
  BY DEF SumsTo

\* The exclusive or of halves is associative, since each of its bits is a parity.
LEMMA HalfXorAssociative ==
    ASSUME NEW a \in Half, NEW b \in Half, NEW c \in Half
    PROVE  HalfXor[HalfXor[a][b]][c] = HalfXor[a][HalfXor[b][c]]
<1> DEFINE p == HalfXor[a][b]
           q == HalfXor[b][c]
<1>1. \A x, y \in Half : HalfXor[x][y] =
         8 * (((x \div 8) + (y \div 8)) % 2) + 4 * (((x \div 4) + (y \div 4)) % 2)
           + 2 * (((x \div 2) + (y \div 2)) % 2) + ((x + y) % 2)
  BY DEF HalfXor, Half
<1>2. /\ p \in Half
      /\ SumsTo(p \div 8, a \div 8, b \div 8) /\ SumsTo(p \div 4, a \div 4, b \div 4)
      /\ SumsTo(p \div 2, a \div 2, b \div 2) /\ SumsTo(p, a, b)
  BY HalfXorLaws DEF SumsTo
<1>3. /\ q \in Half
      /\ SumsTo(q \div 8, b \div 8, c \div 8) /\ SumsTo(q \div 4, b \div 4, c \div 4)
      /\ SumsTo(q \div 2, b \div 2, c \div 2) /\ SumsTo(q, b, c)
  BY HalfXorLaws DEF SumsTo
<1> HIDE DEF p, q
<1>4. \A x \in Half : x \in Nat /\ x \div 8 \in Nat /\ x \div 4 \in Nat /\ x \div 2 \in Nat
  BY DEF Half
<1>5. a \in Nat /\ b \in Nat /\ c \in Nat /\ p \in Nat /\ q \in Nat
  BY <1>2, <1>3, <1>4
<1>6. /\ ((p \div 8) + (c \div 8)) % 2 = ((a \div 8) + (q \div 8)) % 2
      /\ ((p \div 4) + (c \div 4)) % 2 = ((a \div 4) + (q \div 4)) % 2
      /\ ((p \div 2) + (c \div 2)) % 2 = ((a \div 2) + (q \div 2)) % 2
      /\ (p + c) % 2 = (a + q) % 2
  <2>1. ((p \div 8) + (c \div 8)) % 2 = ((a \div 8) + (q \div 8)) % 2
    <3> DEFINE P == p \div 8
               Q == q \div 8
               x == a \div 8
               y == b \div 8
               z == c \div 8
    <3>1. P \in Nat /\ Q \in Nat /\ x \in Nat /\ y \in Nat /\ z \in Nat
      BY <1>2, <1>3, <1>4
    <3>2. SumsTo(P, x, y) /\ SumsTo(Q, y, z)
      BY <1>2, <1>3
    <3> HIDE DEF P, Q, x, y, z
    <3>3. (P + z) % 2 = (x + Q) % 2
      BY <3>1, <3>2, Parities
    <3> QED BY <3>3 DEF P, Q, x, z
  <2>2. ((p \div 4) + (c \div 4)) % 2 = ((a \div 4) + (q \div 4)) % 2
    <3> DEFINE P == p \div 4
               Q == q \div 4
               x == a \div 4
               y == b \div 4
               z == c \div 4
    <3>1. P \in Nat /\ Q \in Nat /\ x \in Nat /\ y \in Nat /\ z \in Nat
      BY <1>2, <1>3, <1>4
    <3>2. SumsTo(P, x, y) /\ SumsTo(Q, y, z)
      BY <1>2, <1>3
    <3> HIDE DEF P, Q, x, y, z
    <3>3. (P + z) % 2 = (x + Q) % 2
      BY <3>1, <3>2, Parities
    <3> QED BY <3>3 DEF P, Q, x, z
  <2>3. ((p \div 2) + (c \div 2)) % 2 = ((a \div 2) + (q \div 2)) % 2
    <3> DEFINE P == p \div 2
               Q == q \div 2
               x == a \div 2
               y == b \div 2
               z == c \div 2
    <3>1. P \in Nat /\ Q \in Nat /\ x \in Nat /\ y \in Nat /\ z \in Nat
      BY <1>2, <1>3, <1>4
    <3>2. SumsTo(P, x, y) /\ SumsTo(Q, y, z)
      BY <1>2, <1>3
    <3> HIDE DEF P, Q, x, y, z
    <3>3. (P + z) % 2 = (x + Q) % 2
      BY <3>1, <3>2, Parities
    <3> QED BY <3>3 DEF P, Q, x, z
  <2>4. (p + c) % 2 = (a + q) % 2
    <3>1. SumsTo(p, a, b) /\ SumsTo(q, b, c)
      BY <1>2, <1>3
    <3> QED BY ONLY <1>5, <3>1, Parities
  <2> QED BY <2>1, <2>2, <2>3, <2>4
<1>7. HalfXor[p][c] = HalfXor[a][q]
  BY <1>1, <1>2, <1>3, <1>6
<1> QED BY <1>7 DEF p, q

\* Python's ^.
a ^^ b == XorByte(a, b)

\* The exclusive or of two bytes, by its halves.
LEMMA Halves ==
    ASSUME NEW a \in Byte, NEW b \in Byte
    PROVE  /\ a \div 16 \in Half /\ a % 16 \in Half /\ a = 16 * (a \div 16) + (a % 16)
           /\ a ^^ b \in Byte
           /\ (a ^^ b) \div 16 = HalfXor[a \div 16][b \div 16]
           /\ (a ^^ b) % 16 = HalfXor[a % 16][b % 16]
<1>1. /\ a \div 16 \in Half /\ a % 16 \in Half /\ a = 16 * (a \div 16) + (a % 16)
      /\ b \div 16 \in Half /\ b % 16 \in Half
  BY DEF Byte, Half
<1> DEFINE h == HalfXor[a \div 16][b \div 16]
           l == HalfXor[a % 16][b % 16]
<1>2. h \in Half /\ l \in Half
  BY <1>1, HalfXorLaws
<1>3. a ^^ b = 16 * h + l
  BY DEF XorByte, ^^
<1> HIDE DEF h, l
<1>4. 16 * h + l \in Byte /\ (16 * h + l) \div 16 = h /\ (16 * h + l) % 16 = l
  BY <1>2 DEF Half, Byte
<1> QED BY <1>1, <1>3, <1>4 DEF h, l

\* Bytes with the same halves are equal.
LEMMA SameHalves ==
    ASSUME NEW a \in Byte, NEW b \in Byte, a \div 16 = b \div 16, a % 16 = b % 16
    PROVE  a = b
  BY DEF Byte

\* Exclusive or gives a byte, and commutes, associates and cancels.
LEMMA XorType == \A a, b \in Byte : a ^^ b \in Byte
  BY Halves

LEMMA XorCommutes == \A a, b \in Byte : a ^^ b = b ^^ a
<1> SUFFICES ASSUME NEW a \in Byte, NEW b \in Byte PROVE a ^^ b = b ^^ a
  OBVIOUS
<1>1. HalfXor[a \div 16][b \div 16] = HalfXor[b \div 16][a \div 16]
  BY Halves, HalfXorLaws
<1>2. HalfXor[a % 16][b % 16] = HalfXor[b % 16][a % 16]
  BY Halves, HalfXorLaws
<1> QED BY <1>1, <1>2 DEF XorByte, ^^

LEMMA XorAssociates == \A a, b, c \in Byte : (a ^^ b) ^^ c = a ^^ (b ^^ c)
<1> SUFFICES ASSUME NEW a \in Byte, NEW b \in Byte, NEW c \in Byte
             PROVE  (a ^^ b) ^^ c = a ^^ (b ^^ c)
  OBVIOUS
<1>1. a ^^ b \in Byte /\ b ^^ c \in Byte /\ (a ^^ b) ^^ c \in Byte /\ a ^^ (b ^^ c) \in Byte
  BY XorType
<1>2. ((a ^^ b) ^^ c) \div 16 = HalfXor[HalfXor[a \div 16][b \div 16]][c \div 16]
  BY <1>1, Halves
<1>3. (a ^^ (b ^^ c)) \div 16 = HalfXor[a \div 16][HalfXor[b \div 16][c \div 16]]
  BY <1>1, Halves
<1>4. ((a ^^ b) ^^ c) % 16 = HalfXor[HalfXor[a % 16][b % 16]][c % 16]
  BY <1>1, Halves
<1>5. (a ^^ (b ^^ c)) % 16 = HalfXor[a % 16][HalfXor[b % 16][c % 16]]
  BY <1>1, Halves
<1> /\ a \div 16 \in Half /\ a % 16 \in Half /\ b \div 16 \in Half /\ b % 16 \in Half
    /\ c \div 16 \in Half /\ c % 16 \in Half
  BY Halves
<1>6. /\ ((a ^^ b) ^^ c) \div 16 = (a ^^ (b ^^ c)) \div 16
      /\ ((a ^^ b) ^^ c) % 16 = (a ^^ (b ^^ c)) % 16
  BY <1>2, <1>3, <1>4, <1>5, HalfXorAssociative
<1> QED BY <1>1, <1>6, SameHalves

LEMMA XorCancels == \A a \in Byte : a ^^ a = 0 /\ a ^^ 0 = a /\ 0 ^^ a = a
<1> SUFFICES ASSUME NEW a \in Byte PROVE a ^^ a = 0 /\ a ^^ 0 = a /\ 0 ^^ a = a
  OBVIOUS
<1>1. 0 \in Byte /\ 0 \div 16 = 0 /\ 0 % 16 = 0 /\ 0 \in Half
  BY DEF Byte, Half
<1>2. HalfXor[a \div 16][a \div 16] = 0 /\ HalfXor[a % 16][a % 16] = 0
  BY Halves, HalfXorLaws
<1>3. HalfXor[a \div 16][0] = a \div 16 /\ HalfXor[a % 16][0] = a % 16
  BY <1>1, Halves, HalfXorLaws
<1>4. a ^^ a = 0
  BY <1>2 DEF XorByte, ^^
<1>5. a ^^ 0 = a
  <2>1. (a ^^ 0) \div 16 = a \div 16
    BY <1>1, <1>3, Halves
  <2>2. (a ^^ 0) % 16 = a % 16
    BY <1>1, <1>3, Halves
  <2> QED BY <1>1, <2>1, <2>2, XorType, SameHalves
<1> QED BY <1>1, <1>4, <1>5, XorCommutes

\* Exchange of the inner two of four, and taking back.
LEMMA XorExchange ==
    \A a, b, c, d \in Byte : (a ^^ b) ^^ (c ^^ d) = (a ^^ c) ^^ (b ^^ d)
<1> SUFFICES ASSUME NEW a \in Byte, NEW b \in Byte, NEW c \in Byte, NEW d \in Byte
             PROVE  (a ^^ b) ^^ (c ^^ d) = (a ^^ c) ^^ (b ^^ d)
  OBVIOUS
<1>1. (a ^^ b) ^^ (c ^^ d) = a ^^ (b ^^ (c ^^ d))
  BY XorType, XorAssociates
<1>2. b ^^ (c ^^ d) = (b ^^ c) ^^ d
  BY XorType, XorAssociates
<1>3. (b ^^ c) ^^ d = (c ^^ b) ^^ d
  BY XorCommutes
<1>4. (c ^^ b) ^^ d = c ^^ (b ^^ d)
  BY XorType, XorAssociates
<1>5. a ^^ (c ^^ (b ^^ d)) = (a ^^ c) ^^ (b ^^ d)
  BY XorType, XorAssociates
<1> QED BY <1>1, <1>2, <1>3, <1>4, <1>5

\* What is masked twice is as it was.
LEMMA XorTakenBack == \A a, b \in Byte : (a ^^ b) ^^ b = a /\ a ^^ (a ^^ b) = b
<1> SUFFICES ASSUME NEW a \in Byte, NEW b \in Byte
             PROVE  (a ^^ b) ^^ b = a /\ a ^^ (a ^^ b) = b
  OBVIOUS
<1>1. (a ^^ b) ^^ b = a ^^ (b ^^ b) /\ (a ^^ a) ^^ b = a ^^ (a ^^ b)
  BY XorAssociates
<1> QED BY <1>1, XorCancels

\* The half of a byte shifted to the left, with what comes in on the right.
LEMMA HalfShift ==
    ASSUME NEW a \in Half, NEW b \in Half, NEW i \in 0..1, NEW j \in 0..1
    PROVE  HalfXor[(2 * a + i) % 16][(2 * b + j) % 16]
             = (2 * HalfXor[a][b] + ((i + j) % 2)) % 16
<1>1. \A x, y \in Half : HalfXor[x][y] =
         8 * (((x \div 8) + (y \div 8)) % 2) + 4 * (((x \div 4) + (y \div 4)) % 2)
           + 2 * (((x \div 2) + (y \div 2)) % 2) + ((x + y) % 2)
  BY DEF HalfXor, Half
<1>2. (2 * a + i) % 16 \in Half /\ (2 * b + j) % 16 \in Half
  BY DEF Half
<1> QED BY ONLY <1>1, <1>2, a \in Half, b \in Half, i \in 0..1, j \in 0..1, SMTT(60) DEF Half

\* Twice a byte, as XTime shifts it.
Shifted(b) == (2 * b) % 256

\* A byte shifted by one bit, by its halves.
LEMMA ShiftedHalves ==
    ASSUME NEW b \in Byte
    PROVE  /\ Shifted(b) \in Byte
           /\ Shifted(b) \div 16 = (2 * (b \div 16) + ((b % 16) \div 8)) % 16
           /\ Shifted(b) % 16 = (2 * (b % 16) + 0) % 16
           /\ (b % 16) \div 8 \in 0..1
           /\ b >= 128 <=> ((b \div 16) \div 8) % 2 = 1
  BY DEF Byte, Shifted

\* Shifting distributes over exclusive or.
LEMMA ShiftedXor == \A a, b \in Byte : Shifted(a ^^ b) = Shifted(a) ^^ Shifted(b)
<1> SUFFICES ASSUME NEW a \in Byte, NEW b \in Byte
             PROVE  Shifted(a ^^ b) = Shifted(a) ^^ Shifted(b)
  OBVIOUS
<1> DEFINE c == a ^^ b
           i == (a % 16) \div 8
           j == (b % 16) \div 8
<1>1. c \in Byte /\ Shifted(a) \in Byte /\ Shifted(b) \in Byte
      /\ Shifted(c) \in Byte /\ Shifted(a) ^^ Shifted(b) \in Byte
  BY XorType, ShiftedHalves
<1> HIDE DEF c
<1>2. (c % 16) \div 8 = (i + j) % 2
  <2>1. c % 16 = HalfXor[a % 16][b % 16] /\ a % 16 \in Half /\ b % 16 \in Half /\ c % 16 \in Half
    BY <1>1, Halves DEF c
  <2>2. ((c % 16) \div 8) % 2 = (i + j) % 2
    BY <2>1, HalfXorLaws
  <2>3. (c % 16) \div 8 \in 0..1
    BY <1>1, ShiftedHalves
  <2> QED BY <2>2, <2>3
<1>3. i \in 0..1 /\ j \in 0..1
  BY ShiftedHalves
<1>4. Shifted(c) \div 16 = (2 * HalfXor[a \div 16][b \div 16] + ((i + j) % 2)) % 16
  <2>1. Shifted(c) \div 16 = (2 * (c \div 16) + ((c % 16) \div 8)) % 16
    BY <1>1, ShiftedHalves
  <2>2. c \div 16 = HalfXor[a \div 16][b \div 16]
    BY Halves DEF c
  <2> QED BY <1>2, <2>1, <2>2
<1>5. Shifted(c) % 16 = (2 * HalfXor[a % 16][b % 16] + ((0 + 0) % 2)) % 16
  <2>1. Shifted(c) % 16 = (2 * (c % 16) + 0) % 16
    BY <1>1, ShiftedHalves
  <2>2. c % 16 = HalfXor[a % 16][b % 16]
    BY Halves DEF c
  <2> QED BY <2>1, <2>2
<1>6. (Shifted(a) ^^ Shifted(b)) \div 16
        = HalfXor[(2 * (a \div 16) + i) % 16][(2 * (b \div 16) + j) % 16]
  BY <1>1, Halves, ShiftedHalves
<1>7. (Shifted(a) ^^ Shifted(b)) % 16
        = HalfXor[(2 * (a % 16) + 0) % 16][(2 * (b % 16) + 0) % 16]
  BY <1>1, Halves, ShiftedHalves
<1> HIDE DEF i, j
<1>8. a \div 16 \in Half /\ b \div 16 \in Half /\ a % 16 \in Half /\ b % 16 \in Half
  BY Halves
<1>9. Shifted(c) \div 16 = (Shifted(a) ^^ Shifted(b)) \div 16
  BY <1>3, <1>4, <1>6, <1>8, HalfShift
<1>10. Shifted(c) % 16 = (Shifted(a) ^^ Shifted(b)) % 16
  <2>1. 0 \in 0..1
    OBVIOUS
  <2> QED BY <1>5, <1>7, <1>8, <2>1, HalfShift
<1> QED BY <1>1, <1>9, <1>10, SameHalves DEF c

\* Twice a byte in GF(2^8).
LEMMA XTimeType == \A b \in Byte : XTime(b) \in Byte
<1>1. \A b \in Byte : (2 * b) % 256 \in Byte /\ (IF b >= 128 THEN 27 ELSE 0) \in Byte
  BY DEF Byte
<1> QED BY <1>1, XorType DEF XTime, ^^

\* Multiplying by x distributes over exclusive or (_xtime).
LEMMA XTimeXor == \A a, b \in Byte : XTime(a ^^ b) = XTime(a) ^^ XTime(b)
<1> SUFFICES ASSUME NEW a \in Byte, NEW b \in Byte
             PROVE  XTime(a ^^ b) = XTime(a) ^^ XTime(b)
  OBVIOUS
<1> DEFINE Carry(x) == IF x >= 128 THEN 27 ELSE 0
<1>1. \A x \in Byte : XTime(x) = Shifted(x) ^^ Carry(x)
  BY DEF XTime, Shifted, ^^
<1>2. a ^^ b \in Byte /\ 0 \in Byte /\ 27 \in Byte
  <2>1. 0 \in Byte /\ 27 \in Byte
    BY DEF Byte
  <2> QED BY <2>1, XorType
<1>3. \A x \in Byte : Carry(x) \in Byte /\ Shifted(x) \in Byte
  BY <1>2, ShiftedHalves
<1>4. a ^^ b >= 128 <=> ~(a >= 128 <=> b >= 128)
  <2> DEFINE p == a \div 16
             q == b \div 16
  <2>1. p \in Half /\ q \in Half /\ (a ^^ b) \div 16 = HalfXor[p][q] /\ HalfXor[p][q] \in Half
    BY Halves, HalfXorLaws
  <2>2. (HalfXor[p][q] \div 8) % 2 = ((p \div 8) + (q \div 8)) % 2
    BY <2>1, HalfXorLaws
  <2>3. /\ a >= 128 <=> (p \div 8) % 2 = 1
        /\ b >= 128 <=> (q \div 8) % 2 = 1
        /\ a ^^ b >= 128 <=> (HalfXor[p][q] \div 8) % 2 = 1
    BY <1>2, <2>1, ShiftedHalves
  <2> HIDE DEF p, q
  <2>4. p \div 8 \in 0..1 /\ q \div 8 \in 0..1
    BY <2>1 DEF Half
  <2> QED BY <2>2, <2>3, <2>4
<1>5. Carry(a ^^ b) = Carry(a) ^^ Carry(b)
  <2>1. 27 ^^ 27 = 0 /\ 27 ^^ 0 = 27 /\ 0 ^^ 27 = 27 /\ 0 ^^ 0 = 0
    BY <1>2, XorCancels
  <2> QED BY <1>4, <2>1
<1> HIDE DEF Carry
<1>6. Shifted(a ^^ b) = Shifted(a) ^^ Shifted(b)
  BY ShiftedXor
<1>7. (Shifted(a) ^^ Shifted(b)) ^^ (Carry(a) ^^ Carry(b))
        = (Shifted(a) ^^ Carry(a)) ^^ (Shifted(b) ^^ Carry(b))
  BY <1>3, XorExchange
<1> QED BY ONLY <1>1, <1>2, <1>5, <1>6, <1>7, a \in Byte, b \in Byte

(***************************************************************************)
(* The mixing of columns.                                                  *)
(***************************************************************************)
\* Of four bytes mixed, each with the next one: their sum is what it was, and
\* the sum of two that are neighbours is what the second mixing doubles.
Mixed(t, a, b) == a ^^ (t ^^ XTime(a ^^ b))

\* A row of a column mixed twice.
LEMMA MixedTwice ==
    ASSUME NEW a \in Byte, NEW b \in Byte, NEW c \in Byte, NEW t \in Byte
    PROVE  Mixed(t, Mixed(t, a, b), Mixed(t, b, c)) = a ^^ XTime(XTime(a ^^ c))
<1> DEFINE x == XTime(a ^^ b)
           y == XTime(b ^^ c)
           z == XTime(a ^^ c)
           d == a ^^ b
           m == Mixed(t, a, b)
           n == Mixed(t, b, c)
<1>1. d \in Byte /\ b ^^ c \in Byte /\ a ^^ c \in Byte
  BY XorType
<1>2. x \in Byte /\ y \in Byte /\ z \in Byte
  BY <1>1, XTimeType
<1>3. x ^^ y = z
  <2>1. (a ^^ b) ^^ (b ^^ c) = a ^^ c
    <3>1. (a ^^ b) ^^ (b ^^ c) = ((a ^^ b) ^^ b) ^^ c
      BY <1>1, XorAssociates
    <3> QED BY <3>1, XorTakenBack
  <2>2. XTime((a ^^ b) ^^ (b ^^ c)) = x ^^ y
    BY <1>1, XTimeXor
  <2> QED BY <2>1, <2>2
<1>4. m = a ^^ (t ^^ x) /\ n = b ^^ (t ^^ y)
  BY DEF Mixed
<1>5. m \in Byte /\ n \in Byte /\ t ^^ x \in Byte /\ t ^^ y \in Byte
  BY <1>2, <1>4, XorType
<1>6. m ^^ n = (a ^^ b) ^^ z
  <2>1. m ^^ n = (a ^^ b) ^^ ((t ^^ x) ^^ (t ^^ y))
    BY <1>4, <1>5, XorExchange
  <2>2. (t ^^ x) ^^ (t ^^ y) = (t ^^ t) ^^ (x ^^ y)
    BY <1>2, XorExchange
  <2> QED BY <1>2, <1>3, <2>1, <2>2, XorCancels
<1>7. XTime(m ^^ n) = x ^^ XTime(z)
  BY <1>1, <1>2, <1>6, XTimeXor
<1> DEFINE v == XTime(z)
<1>8. v \in Byte
  BY <1>2, XTimeType
<1>9. Mixed(t, m, n) = (a ^^ (t ^^ x)) ^^ (t ^^ (x ^^ v))
  BY <1>4, <1>7 DEF Mixed
<1> HIDE DEF v, x, y, z, m, n
<1>10. (a ^^ (t ^^ x)) ^^ (t ^^ (x ^^ v)) = a ^^ v
  <2>1. t ^^ (x ^^ v) = (t ^^ x) ^^ v
    BY <1>2, <1>8, XorAssociates
  <2>2. (a ^^ (t ^^ x)) ^^ ((t ^^ x) ^^ v) = ((a ^^ (t ^^ x)) ^^ (t ^^ x)) ^^ v
    BY <1>4, <1>5, <1>8, XorAssociates
  <2>3. (a ^^ (t ^^ x)) ^^ (t ^^ x) = a
    BY <1>5, XorTakenBack
  <2> QED BY <2>1, <2>2, <2>3
<1> QED BY <1>9, <1>10 DEF v, z, m, n

\* The sum of the column is not changed.
LEMMA MixedTotal ==
    ASSUME NEW a \in Byte, NEW b \in Byte, NEW c \in Byte, NEW d \in Byte,
           NEW t, t = (a ^^ b) ^^ (c ^^ d)
    PROVE  (Mixed(t, a, b) ^^ Mixed(t, b, c)) ^^ (Mixed(t, c, d) ^^ Mixed(t, d, a)) = t
<1> DEFINE x == XTime(a ^^ b)
           y == XTime(b ^^ c)
           z == XTime(c ^^ d)
           w == XTime(d ^^ a)
<1>1. /\ a ^^ b \in Byte /\ b ^^ c \in Byte /\ c ^^ d \in Byte /\ d ^^ a \in Byte
      /\ a ^^ c \in Byte /\ c ^^ a \in Byte /\ t \in Byte
  BY XorType
<1>2. x \in Byte /\ y \in Byte /\ z \in Byte /\ w \in Byte
  BY <1>1, XTimeType
<1>3. \A p, q, r \in Byte : (p ^^ q) ^^ (q ^^ r) = p ^^ r
  <2> SUFFICES ASSUME NEW p \in Byte, NEW q \in Byte, NEW r \in Byte
               PROVE  (p ^^ q) ^^ (q ^^ r) = p ^^ r
    OBVIOUS
  <2>1. p ^^ q \in Byte /\ (p ^^ q) ^^ (q ^^ r) = ((p ^^ q) ^^ q) ^^ r
    BY XorType, XorAssociates
  <2> QED BY <2>1, XorTakenBack
<1>4. x ^^ y = XTime(a ^^ c) /\ z ^^ w = XTime(c ^^ a)
  BY <1>1, <1>3, XTimeXor
<1>5. (x ^^ y) ^^ (z ^^ w) = 0
  <2>1. a ^^ c = c ^^ a
    BY XorCommutes
  <2> QED BY <1>1, <1>4, <2>1, XTimeType, XorCancels
<1>6. \A p, q, u, v \in Byte : (p ^^ (t ^^ u)) ^^ (q ^^ (t ^^ v)) = (p ^^ q) ^^ (u ^^ v)
  <2> SUFFICES ASSUME NEW p \in Byte, NEW q \in Byte, NEW u \in Byte, NEW v \in Byte
               PROVE  (p ^^ (t ^^ u)) ^^ (q ^^ (t ^^ v)) = (p ^^ q) ^^ (u ^^ v)
    OBVIOUS
  <2>1. t ^^ u \in Byte /\ t ^^ v \in Byte /\ u ^^ v \in Byte
    BY <1>1, XorType
  <2>2. (p ^^ (t ^^ u)) ^^ (q ^^ (t ^^ v)) = (p ^^ q) ^^ ((t ^^ u) ^^ (t ^^ v))
    BY <2>1, XorExchange
  <2>3. (t ^^ u) ^^ (t ^^ v) = (t ^^ t) ^^ (u ^^ v)
    BY ONLY <1>1, u \in Byte, v \in Byte, XorExchange
  <2> QED BY <1>1, <2>1, <2>2, <2>3, XorCancels
<1>7. /\ Mixed(t, a, b) ^^ Mixed(t, b, c) = (a ^^ b) ^^ (x ^^ y)
      /\ Mixed(t, c, d) ^^ Mixed(t, d, a) = (c ^^ d) ^^ (z ^^ w)
  BY <1>2, <1>6 DEF Mixed
<1>8. x ^^ y \in Byte /\ z ^^ w \in Byte
  BY <1>2, XorType
<1> HIDE DEF x, y, z, w
<1>9. ((a ^^ b) ^^ (x ^^ y)) ^^ ((c ^^ d) ^^ (z ^^ w)) = t ^^ ((x ^^ y) ^^ (z ^^ w))
  BY <1>1, <1>8, XorExchange
<1> QED BY <1>1, <1>5, <1>7, <1>9, XorCancels

\* Four bytes.
LEMMA FourBytes ==
    ASSUME NEW a \in Byte, NEW b \in Byte, NEW c \in Byte, NEW d \in Byte
    PROVE  /\ <<a, b, c, d>> \in Bytes(4)
           /\ <<a, b, c, d>>[1] = a /\ <<a, b, c, d>>[2] = b
           /\ <<a, b, c, d>>[3] = c /\ <<a, b, c, d>>[4] = d
  BY DEF Bytes

\* A column is its four bytes.
LEMMA ColumnElements ==
    ASSUME NEW col \in Bytes(4)
    PROVE  /\ col[1] \in Byte /\ col[2] \in Byte /\ col[3] \in Byte /\ col[4] \in Byte
           /\ col = <<col[1], col[2], col[3], col[4]>>
  BY DEF Bytes

\* The rows of a mixed column, by the total of the column.
LEMMA MixColumnRows ==
    ASSUME NEW col \in Bytes(4),
           NEW t, t = (col[1] ^^ col[2]) ^^ (col[3] ^^ col[4])
    PROVE  /\ MixColumn(col) \in Bytes(4) /\ t \in Byte
           /\ MixColumn(col)[1] = Mixed(t, col[1], col[2])
           /\ MixColumn(col)[2] = Mixed(t, col[2], col[3])
           /\ MixColumn(col)[3] = Mixed(t, col[3], col[4])
           /\ MixColumn(col)[4] = Mixed(t, col[4], col[1])
<1>1. MixColumn(col) = <<Mixed(t, col[1], col[2]), Mixed(t, col[2], col[3]),
                         Mixed(t, col[3], col[4]), Mixed(t, col[4], col[1])>>
  BY DEF MixColumn, Mixed, ^^
<1>2. t \in Byte
  BY ColumnElements, XorType
<1>3. \A a, b \in Byte : Mixed(t, a, b) \in Byte
  BY <1>2, XorType, XTimeType DEF Mixed
<1> QED BY <1>1, <1>2, <1>3, ColumnElements, FourBytes

\* The rows of a column as _inv_mix_columns has it before it mixes it.
LEMMA PremixRows ==
    ASSUME NEW col \in Bytes(4)
    PROVE  /\ Premix(col) \in Bytes(4)
           /\ Premix(col)[1] = col[1] ^^ XTime(XTime(col[1] ^^ col[3]))
           /\ Premix(col)[2] = col[2] ^^ XTime(XTime(col[2] ^^ col[4]))
           /\ Premix(col)[3] = col[3] ^^ XTime(XTime(col[1] ^^ col[3]))
           /\ Premix(col)[4] = col[4] ^^ XTime(XTime(col[2] ^^ col[4]))
<1>1. Premix(col) = <<col[1] ^^ XTime(XTime(col[1] ^^ col[3])),
                      col[2] ^^ XTime(XTime(col[2] ^^ col[4])),
                      col[3] ^^ XTime(XTime(col[1] ^^ col[3])),
                      col[4] ^^ XTime(XTime(col[2] ^^ col[4]))>>
  BY DEF Premix, ^^
<1> DEFINE a == col[1] ^^ XTime(XTime(col[1] ^^ col[3]))
           b == col[2] ^^ XTime(XTime(col[2] ^^ col[4]))
           c == col[3] ^^ XTime(XTime(col[1] ^^ col[3]))
           d == col[4] ^^ XTime(XTime(col[2] ^^ col[4]))
<1>2. a \in Byte /\ b \in Byte /\ c \in Byte /\ d \in Byte
  BY XorType, XTimeType, ColumnElements
<1>3. Premix(col) = <<a, b, c, d>>
  BY <1>1
<1> HIDE DEF a, b, c, d
<1>4. /\ Premix(col) \in Bytes(4)
      /\ Premix(col)[1] = a /\ Premix(col)[2] = b /\ Premix(col)[3] = c /\ Premix(col)[4] = d
  BY <1>2, <1>3, FourBytes
<1> QED BY <1>4 DEF a, b, c, d

\* Columns with the same bytes are the same.
LEMMA EqualColumns ==
    ASSUME NEW p \in Bytes(4), NEW q \in Bytes(4),
           p[1] = q[1], p[2] = q[2], p[3] = q[3], p[4] = q[4]
    PROVE  p = q
  BY ColumnElements

\* Mixing a column twice does what _inv_mix_columns does before it mixes.
LEMMA MixColumnTwice ==
    ASSUME NEW col \in Bytes(4)
    PROVE  MixColumn(MixColumn(col)) = Premix(col)
<1> DEFINE t == (col[1] ^^ col[2]) ^^ (col[3] ^^ col[4])
           m == MixColumn(col)
<1>0. col[1] \in Byte /\ col[2] \in Byte /\ col[3] \in Byte /\ col[4] \in Byte
  BY ColumnElements
<1>1. /\ m \in Bytes(4) /\ t \in Byte
      /\ m[1] = Mixed(t, col[1], col[2]) /\ m[2] = Mixed(t, col[2], col[3])
      /\ m[3] = Mixed(t, col[3], col[4]) /\ m[4] = Mixed(t, col[4], col[1])
  BY MixColumnRows
<1>2. t = (col[1] ^^ col[2]) ^^ (col[3] ^^ col[4])
  OBVIOUS
<1> HIDE DEF t, m
<1>21. t = (m[1] ^^ m[2]) ^^ (m[3] ^^ m[4])
  <2>1. (Mixed(t, col[1], col[2]) ^^ Mixed(t, col[2], col[3]))
            ^^ (Mixed(t, col[3], col[4]) ^^ Mixed(t, col[4], col[1])) = t
    BY <1>0, <1>2, MixedTotal
  <2> QED BY <1>1, <2>1
<1>3. /\ MixColumn(m) \in Bytes(4)
      /\ MixColumn(m)[1] = Mixed(t, m[1], m[2]) /\ MixColumn(m)[2] = Mixed(t, m[2], m[3])
      /\ MixColumn(m)[3] = Mixed(t, m[3], m[4]) /\ MixColumn(m)[4] = Mixed(t, m[4], m[1])
  BY <1>1, <1>21, MixColumnRows
<1>4. /\ MixColumn(m)[1] = col[1] ^^ XTime(XTime(col[1] ^^ col[3]))
      /\ MixColumn(m)[2] = col[2] ^^ XTime(XTime(col[2] ^^ col[4]))
      /\ MixColumn(m)[3] = col[3] ^^ XTime(XTime(col[3] ^^ col[1]))
      /\ MixColumn(m)[4] = col[4] ^^ XTime(XTime(col[4] ^^ col[2]))
  BY <1>0, <1>1, <1>3, MixedTwice
<1>5. col[3] ^^ col[1] = col[1] ^^ col[3] /\ col[4] ^^ col[2] = col[2] ^^ col[4]
  BY <1>0, XorCommutes
<1> QED BY <1>3, <1>4, <1>5, PremixRows, EqualColumns DEF m

\* The step before the mixing undoes itself.
LEMMA PremixTwice ==
    ASSUME NEW col \in Bytes(4)
    PROVE  Premix(Premix(col)) = col
<1> DEFINE p == Premix(col)
           u == XTime(XTime(col[1] ^^ col[3]))
           v == XTime(XTime(col[2] ^^ col[4]))
<1>0. col[1] \in Byte /\ col[2] \in Byte /\ col[3] \in Byte /\ col[4] \in Byte
  BY ColumnElements
<1>1. u \in Byte /\ v \in Byte
  BY <1>0, XorType, XTimeType
<1>2. /\ p \in Bytes(4)
      /\ p[1] = col[1] ^^ u /\ p[2] = col[2] ^^ v /\ p[3] = col[3] ^^ u /\ p[4] = col[4] ^^ v
  BY PremixRows
<1>3. \A a, b, w \in Byte : (a ^^ w) ^^ (b ^^ w) = a ^^ b
  BY XorType, XorExchange, XorCancels
<1>4. p[1] ^^ p[3] = col[1] ^^ col[3] /\ p[2] ^^ p[4] = col[2] ^^ col[4]
  BY <1>0, <1>1, <1>2, <1>3
<1> HIDE DEF p
<1>5. /\ Premix(p) \in Bytes(4)
      /\ Premix(p)[1] = p[1] ^^ u /\ Premix(p)[2] = p[2] ^^ v
      /\ Premix(p)[3] = p[3] ^^ u /\ Premix(p)[4] = p[4] ^^ v
  BY <1>2, <1>4, PremixRows
<1> HIDE DEF u, v
<1>6. /\ Premix(p)[1] = col[1] /\ Premix(p)[2] = col[2]
      /\ Premix(p)[3] = col[3] /\ Premix(p)[4] = col[4]
  BY <1>0, <1>1, <1>2, <1>5, XorTakenBack
<1> QED BY <1>5, <1>6, EqualColumns DEF p

\* _inv_mix_columns undoes _mix_columns, column by column.
LEMMA ColumnUnmixed ==
    ASSUME NEW col \in Bytes(4)
    PROVE  MixColumn(Premix(MixColumn(col))) = col
<1> DEFINE m == MixColumn(col)
<1>1. m \in Bytes(4)
  BY MixColumnRows
<1>2. Premix(m) = MixColumn(MixColumn(m))
  BY <1>1, MixColumnTwice
<1>3. MixColumn(m) = Premix(col)
  BY MixColumnTwice
<1>4. Premix(col) \in Bytes(4)
  BY PremixRows
<1>5. MixColumn(MixColumn(Premix(col))) = Premix(Premix(col))
  BY <1>4, MixColumnTwice
<1> QED BY <1>2, <1>3, <1>5, PremixTwice

(***************************************************************************)
(* The steps of a round, and their undoing.                                *)
(***************************************************************************)
\* The byte of a block at i stands in row r of column c.
LEMMA ColumnOf ==
    ASSUME NEW block \in Bytes(16), NEW c \in 0..3
    PROVE  /\ Column(block, c) \in Bytes(4)
           /\ \A r \in 1..4 : Column(block, c)[r] = block[4 * c + r]
<1> DEFINE k == 16
           m == 4 * c + 1
           n == 4 * c + 4
<1>1. /\ k \in Nat /\ block \in Bytes(k) /\ m \in Nat /\ m > 0 /\ n \in Nat /\ n <= k
      /\ m <= n + 1 /\ n + 1 - m = 4
  OBVIOUS
<1>2. Column(block, c) = SubSeq(block, m, n)
  BY DEF Column
<1> HIDE DEF k, m, n
<1>3. /\ SubSeq(block, m, n) \in Bytes(n + 1 - m)
      /\ \A i \in 1..(n + 1 - m) : SubSeq(block, m, n)[i] = block[m + i - 1]
  BY <1>1, SliceBytes
<1>4. /\ SubSeq(block, m, n) \in Bytes(4)
      /\ \A i \in 1..4 : SubSeq(block, m, n)[i] = block[m + i - 1]
  BY <1>1, <1>3
<1>5. \A r \in 1..4 : m + r - 1 = 4 * c + r
  BY DEF m
<1> QED BY <1>2, <1>4, <1>5

\* A block put together of columns, by its bytes.
LEMMA OfColumnsElements ==
    ASSUME NEW cols, \A c \in 0..3 : cols[c] \in Bytes(4)
    PROVE  /\ OfColumns(cols) \in Bytes(16)
           /\ \A c \in 0..3, r \in 1..4 : OfColumns(cols)[4 * c + r] = cols[c][r]
<1> DEFINE A == cols[0] \o cols[1]
           B == A \o cols[2]
           C == B \o cols[3]
<1>1. OfColumns(cols) = C
  BY DEF OfColumns
<1>2. IsJoin(A, cols[0], cols[1]) /\ IsJoin(B, A, cols[2]) /\ IsJoin(C, B, cols[3])
  BY DEF IsJoin
<1>3. /\ cols[0] \in Bytes(4) /\ cols[1] \in Bytes(4) /\ cols[2] \in Bytes(4)
      /\ cols[3] \in Bytes(4)
  OBVIOUS
<1> HIDE DEF A, B, C
<1>4. A \in Bytes(8) /\ \A i \in 1..8 : A[i] = IF i <= 4 THEN cols[0][i] ELSE cols[1][i - 4]
  <2> DEFINE m == 4
             k == 8
  <2>1. m \in Nat /\ cols[0] \in Bytes(m) /\ cols[1] \in Bytes(m) /\ m + m = k
    BY <1>3
  <2> HIDE DEF m, k
  <2>2. A \in Bytes(m + m) /\ \A i \in 1..(m + m) : A[i] = IF i <= m THEN cols[0][i] ELSE cols[1][i - m]
    BY <1>2, <2>1, Join
  <2> QED BY <2>1, <2>2 DEF m, k
<1>5. B \in Bytes(12) /\ \A i \in 1..12 : B[i] = IF i <= 8 THEN A[i] ELSE cols[2][i - 8]
  <2> DEFINE m == 8
             n == 4
             k == 12
  <2>1. m \in Nat /\ n \in Nat /\ A \in Bytes(m) /\ cols[2] \in Bytes(n) /\ m + n = k
    BY <1>3, <1>4
  <2> HIDE DEF m, n, k
  <2>2. B \in Bytes(m + n) /\ \A i \in 1..(m + n) : B[i] = IF i <= m THEN A[i] ELSE cols[2][i - m]
    BY <1>2, <2>1, Join
  <2> QED BY <2>1, <2>2 DEF m, n, k
<1>6. C \in Bytes(16) /\ \A i \in 1..16 : C[i] = IF i <= 12 THEN B[i] ELSE cols[3][i - 12]
  <2> DEFINE m == 12
             n == 4
             k == 16
  <2>1. m \in Nat /\ n \in Nat /\ B \in Bytes(m) /\ cols[3] \in Bytes(n) /\ m + n = k
    BY <1>3, <1>5
  <2> HIDE DEF m, n, k
  <2>2. C \in Bytes(m + n) /\ \A i \in 1..(m + n) : C[i] = IF i <= m THEN B[i] ELSE cols[3][i - m]
    BY <1>2, <2>1, Join
  <2> QED BY <2>1, <2>2 DEF m, n, k
<1>7. ASSUME NEW c \in 0..3, NEW r \in 1..4 PROVE C[4 * c + r] = cols[c][r]
  <2>1. CASE c = 0
    BY <1>4, <1>5, <1>6, <2>1
  <2>2. CASE c = 1
    BY <1>4, <1>5, <1>6, <2>2
  <2>3. CASE c = 2
    BY <1>5, <1>6, <2>3
  <2>4. CASE c = 3
    BY <1>6, <2>4
  <2> QED BY <2>1, <2>2, <2>3, <2>4
<1> QED BY <1>1, <1>6, <1>7

\* Columns in their order are the block, and the block its columns.
LEMMA ColumnOfColumns ==
    ASSUME NEW cols, \A c \in 0..3 : cols[c] \in Bytes(4), NEW c \in 0..3
    PROVE  Column(OfColumns(cols), c) = cols[c]
<1> DEFINE b == OfColumns(cols)
<1>1. b \in Bytes(16) /\ \A r \in 1..4 : b[4 * c + r] = cols[c][r]
  BY OfColumnsElements
<1> HIDE DEF b
<1>2. Column(b, c) \in Bytes(4) /\ \A r \in 1..4 : Column(b, c)[r] = b[4 * c + r]
  BY <1>1, ColumnOf
<1>3. cols[c] \in Bytes(4) /\ \A r \in 1..4 : Column(b, c)[r] = cols[c][r]
  BY <1>1, <1>2
<1>4. Column(b, c) = cols[c]
  BY <1>2, <1>3, EqualColumns
<1> QED BY <1>4 DEF b

\* A block is its columns put together.
LEMMA ColumnsOfBlock ==
    ASSUME NEW block \in Bytes(16), NEW cols, \A c \in 0..3 : cols[c] = Column(block, c)
    PROVE  OfColumns(cols) = block
<1> DEFINE b == OfColumns(cols)
<1>1. \A c \in 0..3 : cols[c] \in Bytes(4)
  BY ColumnOf
<1>2. b \in Bytes(16) /\ \A c \in 0..3, r \in 1..4 : b[4 * c + r] = cols[c][r]
  BY <1>1, OfColumnsElements
<1>3. \A c \in 0..3, r \in 1..4 : cols[c][r] = block[4 * c + r]
  BY ColumnOf
<1> HIDE DEF b
<1>4. \A c \in 0..3, r \in 1..4 : b[4 * c + r] = block[4 * c + r]
  BY <1>2, <1>3
<1>5. ASSUME NEW i \in 1..16 PROVE b[i] = block[i]
  <2>1. /\ (i - 1) \div 4 \in 0..3 /\ ((i - 1) % 4) + 1 \in 1..4
        /\ 4 * ((i - 1) \div 4) + (((i - 1) % 4) + 1) = i
    OBVIOUS
  <2> QED BY <1>4, <2>1
<1>6. b = block
  <2> DEFINE n == 16
  <2>1. n \in Nat /\ b \in Bytes(n) /\ block \in Bytes(n) /\ \A i \in 1..n : b[i] = block[i]
    BY <1>2, <1>5
  <2> HIDE DEF n
  <2> QED BY <2>1, EqualBytes
<1> QED BY <1>6 DEF b

\* _inv_mix_columns undoes _mix_columns.
LEMMA MixColumnsUndone ==
    ASSUME NEW block \in Bytes(16)
    PROVE  MixColumns(block) \in Bytes(16) /\ InvMixColumns(MixColumns(block)) = block
<1> DEFINE C(c) == Column(block, c)
           mixed == [c \in 0..3 |-> MixColumn(C(c))]
           m == OfColumns(mixed)
           pre == [c \in 0..3 |-> Premix(Column(m, c))]
           p == OfColumns(pre)
           back == [c \in 0..3 |-> MixColumn(Column(p, c))]
<1>1. \A c \in 0..3 : C(c) \in Bytes(4)
  BY ColumnOf
<1>2. \A c \in 0..3 : mixed[c] \in Bytes(4) /\ mixed[c] = MixColumn(C(c))
  BY <1>1, MixColumnRows
<1>3. m = MixColumns(block) /\ InvMixColumns(m) = OfColumns(back)
  BY DEF MixColumns, InvMixColumns
<1>4. \A c \in 0..3 : Column(m, c) = mixed[c]
  <2> HIDE DEF mixed
  <2> QED BY <1>2, ColumnOfColumns
<1>5. m \in Bytes(16)
  <2> HIDE DEF mixed
  <2> QED BY <1>2, OfColumnsElements
<1> HIDE DEF m, mixed
<1>6. \A c \in 0..3 : pre[c] \in Bytes(4) /\ pre[c] = Premix(MixColumn(C(c)))
  BY <1>2, <1>4, PremixRows
<1>7. \A c \in 0..3 : Column(p, c) = pre[c]
  <2> HIDE DEF pre
  <2> QED BY <1>6, ColumnOfColumns
<1> HIDE DEF p, pre
<1>8. \A c \in 0..3 : back[c] = C(c)
  BY <1>1, <1>6, <1>7, ColumnUnmixed
<1> HIDE DEF back
<1>9. OfColumns(back) = block
  BY <1>8, ColumnsOfBlock
<1> QED BY <1>3, <1>5, <1>9

\* The substitution is undone by the inverse of its table, which stands here as
\* a witness.
InverseTable ==
  << 82, 9, 106, 213, 48, 54, 165, 56, 191, 64, 163, 158, 129, 243, 215, 251,
     124, 227, 57, 130, 155, 47, 255, 135, 52, 142, 67, 68, 196, 222, 233, 203,
     84, 123, 148, 50, 166, 194, 35, 61, 238, 76, 149, 11, 66, 250, 195, 78,
     8, 46, 161, 102, 40, 217, 36, 178, 118, 91, 162, 73, 109, 139, 209, 37,
     114, 248, 246, 100, 134, 104, 152, 22, 212, 164, 92, 204, 93, 101, 182, 146,
     108, 112, 72, 80, 253, 237, 185, 218, 94, 21, 70, 87, 167, 141, 157, 132,
     144, 216, 171, 0, 140, 188, 211, 10, 247, 228, 88, 5, 184, 179, 69, 6,
     208, 44, 30, 143, 202, 63, 15, 2, 193, 175, 189, 3, 1, 19, 138, 107,
     58, 145, 17, 65, 79, 103, 220, 234, 151, 242, 207, 206, 240, 180, 230, 115,
     150, 172, 116, 34, 231, 173, 53, 133, 226, 249, 55, 232, 28, 117, 223, 110,
     71, 241, 26, 113, 29, 41, 197, 137, 111, 183, 98, 14, 170, 24, 190, 27,
     252, 86, 62, 75, 198, 210, 121, 32, 154, 219, 192, 254, 120, 205, 90, 244,
     31, 221, 168, 51, 136, 7, 199, 49, 177, 18, 16, 89, 39, 128, 236, 95,
     96, 81, 127, 169, 25, 181, 74, 13, 45, 229, 122, 159, 147, 201, 156, 239,
     160, 224, 59, 77, 174, 42, 245, 176, 200, 235, 187, 60, 131, 83, 153, 97,
     23, 43, 4, 126, 186, 119, 214, 38, 225, 105, 20, 99, 85, 33, 12, 125>>

\* A byte substituted is found in the table where it came from.
LEMMA SubstitutionUndone ==
    \A b \in Byte : Sub(b) \in Byte /\ InvSBox[Sub(b)] = b
<1>1. \A b \in 0..255 : InverseTable[SBox[b + 1] + 1] = b
  BY SMTT(200) DEF SBox, InverseTable
<1>2. \A b \in 0..255 : SBox[b + 1] \in 0..255
  BY SMTT(100) DEF SBox
<1> HIDE DEF InverseTable
<1>3. \A b \in Byte : InverseTable[Sub(b) + 1] = b /\ Sub(b) \in Byte
  BY <1>1, <1>2 DEF Sub, Byte
<1>4. ASSUME NEW b \in Byte PROVE InvSBox[Sub(b)] = b
  <2>1. InvSBox[Sub(b)] = CHOOSE a \in Byte : Sub(a) = Sub(b)
    BY <1>3 DEF InvSBox
  <2>2. \A a \in Byte : Sub(a) = Sub(b) => a = b
    BY <1>3
  <2> QED BY ONLY <1>4, <2>1, <2>2
<1> QED BY <1>3, <1>4

\* The inverse substitution undoes the substitution of a block.
LEMMA SubBytesUndone ==
    ASSUME NEW block \in Bytes(16)
    PROVE  SubBytes(block) \in Bytes(16) /\ InvSubBytes(SubBytes(block)) = block
<1>1. DOMAIN block = 1..16 /\ block = [i \in 1..16 |-> block[i]]
      /\ \A i \in 1..16 : block[i] \in Byte
  BY DEF Bytes
<1>2. SubBytes(block) \in Bytes(16)
  BY <1>1, SubstitutionUndone DEF SubBytes, Bytes
<1>3. InvSubBytes(SubBytes(block)) = [i \in 1..16 |-> InvSBox[Sub(block[i])]]
  BY <1>1 DEF SubBytes, InvSubBytes
<1>4. [i \in 1..16 |-> InvSBox[Sub(block[i])]] = [i \in 1..16 |-> block[i]]
  BY <1>1, SubstitutionUndone
<1> QED BY <1>1, <1>2, <1>3, <1>4

\* The rows shifted are shifted back.
LEMMA ShiftRowsUndone ==
    ASSUME NEW block \in Bytes(16)
    PROVE  ShiftRows(block) \in Bytes(16) /\ InvShiftRows(ShiftRows(block)) = block
<1> DEFINE From(i, s) == 4 * ((((i - 1) \div 4) + s * ((i - 1) % 4)) % 4) + ((i - 1) % 4) + 1
           s == ShiftRows(block)
<1>1. \A i \in 1..16 : From(i, 1) \in 1..16 /\ From(i, -1) \in 1..16
  OBVIOUS
<1>2. \A i \in 1..16 : From(From(i, -1), 1) = i
  OBVIOUS
<1>3. s = [i \in 1..16 |-> block[From(i, 1)]]
  BY DEF ShiftRows, ShiftedRows
<1>4. InvShiftRows(s) = [i \in 1..16 |-> s[From(i, -1)]]
  BY DEF InvShiftRows, ShiftedRows
<1> HIDE DEF From, s
<1>5. s \in Bytes(16)
  BY <1>1, <1>3 DEF Bytes
<1>6. \A i \in 1..16 : s[From(i, -1)] = block[i]
  BY <1>1, <1>2, <1>3
<1>7. InvShiftRows(s) = block
  BY <1>4, <1>6 DEF Bytes
<1> QED BY <1>5, <1>7 DEF s

\* Key r of the words of a schedule.
LEMMA KeyAddedTwice ==
    ASSUME NEW words, \A n \in 1..44 : words[n] \in Bytes(4), NEW r \in 0..10,
           NEW block \in Bytes(16)
    PROVE  /\ AddRoundKey(block, words, r) \in Bytes(16)
           /\ AddRoundKey(AddRoundKey(block, words, r), words, r) = block
<1> DEFINE cols == [c \in 0..3 |-> words[4 * r + c + 1]]
           k == OfColumns(cols)
<1>1. \A c \in 0..3 : cols[c] \in Bytes(4)
  <2> SUFFICES ASSUME NEW c \in 0..3 PROVE words[4 * r + c + 1] \in Bytes(4)
    OBVIOUS
  <2>1. 4 * r + c + 1 \in 1..44
    OBVIOUS
  <2> QED BY <2>1
<1>2. k \in Bytes(16)
  <2> HIDE DEF cols
  <2> QED BY <1>1, OfColumnsElements
<1>3. \A b : AddRoundKey(b, words, r) = XorAll(b, k)
  BY DEF AddRoundKey
<1> HIDE DEF k
<1>4. \A b \in Bytes(16) : XorAll(b, k) = [i \in 1..16 |-> b[i] ^^ k[i]]
  BY DEF XorAll, Bytes, ^^
<1>5. \A b \in Bytes(16) : XorAll(b, k) \in Bytes(16)
  BY <1>2, <1>4, XorType DEF Bytes
<1>6. XorAll(XorAll(block, k), k) = block
  <2>1. \A i \in 1..16 : (block[i] ^^ k[i]) ^^ k[i] = block[i]
    BY <1>2, XorTakenBack DEF Bytes
  <2>2. XorAll(XorAll(block, k), k) = [i \in 1..16 |-> XorAll(block, k)[i] ^^ k[i]]
    BY <1>4, <1>5
  <2>3. \A i \in 1..16 : XorAll(block, k)[i] = block[i] ^^ k[i]
    BY <1>4
  <2>4. XorAll(XorAll(block, k), k) = [i \in 1..16 |-> block[i]]
    BY <2>1, <2>2, <2>3
  <2> QED BY <2>4 DEF Bytes
<1> QED BY <1>3, <1>5, <1>6

(***************************************************************************)
(* Recursion over numbers.                                                 *)
(***************************************************************************)
\* A set of numbers has a least one.
LEMMA Least ==
    ASSUME NEW T, T \subseteq Nat, T # {}
    PROVE  \E n \in T : \A m \in T : n <= m
<1> DEFINE R == OpToRel(<, Nat)
<1>1. IsWellFoundedOn(R, Nat)
  BY NatLessThanWellFounded
<1>2. \A x \in Nat, y \in Nat : <<y, x>> \in R <=> y < x
  BY DEF OpToRel
<1> HIDE DEF R
<1>3. PICK n \in T : \A m \in T : ~ (<<m, n>> \in R)
  BY <1>1, WFMin
<1>4. ASSUME NEW m \in T PROVE n <= m
  <2>1. n \in Nat /\ m \in Nat
    OBVIOUS
  <2>2. ~(m < n)
    BY <1>2, <1>3, <2>1
  <2> QED BY <2>1, <2>2
<1> QED BY <1>4

\* What holds of a number and is passed on to the next one holds of all up to b.
LEMMA Upward ==
    ASSUME NEW a \in Nat, NEW b \in Nat, NEW T, a \in T,
           \A r \in (a + 1)..b : r - 1 \in T => r \in T
    PROVE  \A r \in a..b : r \in T
<1> DEFINE U == {r \in a..b : r \notin T}
<1>1. SUFFICES ASSUME U # {} PROVE FALSE
  OBVIOUS
<1>2. U \subseteq Nat
  OBVIOUS
<1>3. PICK n \in U : \A m \in U : n <= m
  <2> HIDE DEF U
  <2> QED BY <1>1, <1>2, Least
<1>4. n \in (a + 1)..b /\ n - 1 \in a..b /\ ~(n <= n - 1)
  OBVIOUS
<1>5. n - 1 \notin U
  BY <1>3, <1>4
<1> QED BY <1>4, <1>5

\* f runs from a to n by the steps of g.
Runs(f, a, n, first, g) == f = [r \in a..n |-> IF r = a THEN first ELSE g[r][f[r - 1]]]

\* Steps that lead from one set to the next can be run.
LEMMA Iteration ==
    ASSUME NEW a \in Nat, NEW b \in Nat, a <= b, NEW S, NEW first \in S[a], NEW g,
           \A r \in (a + 1)..b : \A x \in S[r - 1] : g[r][x] \in S[r]
    PROVE  \E f : Runs(f, a, b, first, g) /\ \A r \in a..b : f[r] \in S[r]
<1> DEFINE Good(n) == \E f : Runs(f, a, n, first, g) /\ \A r \in a..n : f[r] \in S[r]
           T == {n \in a..b : Good(n)}
<1>1. a \in T
  <2> DEFINE f == [r \in a..a |-> first]
  <2>1. Runs(f, a, a, first, g)
    BY DEF Runs
  <2>2. \A r \in a..a : f[r] \in S[r]
    OBVIOUS
  <2>3. Good(a)
    BY <2>1, <2>2
  <2> QED BY <2>3
<1>2. ASSUME NEW n \in (a + 1)..b, n - 1 \in T PROVE n \in T
  <2>1. n \in a..b /\ n - 1 \in a..b /\ n # a /\ n \in Nat /\ n - 1 \in Nat
    OBVIOUS
  <2>2. Good(n - 1)
    BY <1>2
  <2>3. PICK h : Runs(h, a, n - 1, first, g) /\ \A r \in a..(n - 1) : h[r] \in S[r]
    BY <2>2
  <2> DEFINE f == [r \in a..n |-> IF r = n THEN g[n][h[n - 1]] ELSE h[r]]
  <2>4. \A r \in a..(n - 1) : h[r] = IF r = a THEN first ELSE g[r][h[r - 1]]
    BY <2>3 DEF Runs
  <2>5. \A r \in a..n : f[r] = IF r = a THEN first ELSE g[r][f[r - 1]]
    <3> SUFFICES ASSUME NEW r \in a..n PROVE f[r] = IF r = a THEN first ELSE g[r][f[r - 1]]
      OBVIOUS
    <3>1. CASE r = n
      <4>1. f[n] = g[n][h[n - 1]] /\ f[n - 1] = h[n - 1]
        BY <2>1
      <4> QED BY <2>1, <3>1, <4>1
    <3>2. CASE r = a
      BY <2>1, <2>4, <3>2
    <3>3. CASE r # n /\ r # a
      <4>1. r \in a..(n - 1) /\ r - 1 \in a..(n - 1)
        BY <2>1, <3>3
      <4>2. f[r] = h[r] /\ f[r - 1] = h[r - 1]
        BY <2>1, <4>1
      <4> QED BY <2>4, <3>3, <4>1, <4>2
    <3> QED BY <3>1, <3>2, <3>3
  <2>6. Runs(f, a, n, first, g)
    <3>1. f = [r \in a..n |-> f[r]]
      OBVIOUS
    <3> HIDE DEF f
    <3> QED BY <2>5, <3>1 DEF Runs
  <2>7. \A r \in a..n : f[r] \in S[r]
    <3> SUFFICES ASSUME NEW r \in a..n PROVE f[r] \in S[r]
      OBVIOUS
    <3>1. CASE r = n
      <4>1. h[n - 1] \in S[n - 1] /\ n \in (a + 1)..b
        BY <2>1, <2>3
      <4>2. g[n][h[n - 1]] \in S[n]
        BY <4>1
      <4> QED BY <3>1, <4>2
    <3>2. CASE r # n
      <4>1. r \in a..(n - 1)
        BY <2>1, <3>2
      <4> QED BY <2>3, <3>2, <4>1
    <3> QED BY <3>1, <3>2
  <2> HIDE DEF f
  <2>8. Good(n)
    BY <2>6, <2>7
  <2> QED BY <2>1, <2>8
<1>3. \A n \in a..b : n \in T
  <2> HIDE DEF T
  <2> QED BY <1>1, <1>2, Upward
<1> QED BY <1>3

(***************************************************************************)
(* The cipher.                                                             *)
(***************************************************************************)
\* A schedule has the words of eleven round keys.
Words(words) == \A n \in 1..44 : words[n] \in Bytes(4)

\* e holds what the rounds make of a block.
Enciphered(e, words, block) ==
    /\ \A r \in 0..9 : e[r] \in Bytes(16)
    /\ e[0] = AddRoundKey(block, words, 0)
    /\ \A r \in 1..9 :
          e[r] = AddRoundKey(MixColumns(ShiftRows(SubBytes(e[r - 1]))), words, r)
    /\ EncryptBlock(words, block) = AddRoundKey(ShiftRows(SubBytes(e[9])), words, 10)

\* A round of a block gives a block.
LEMMA RoundTyped ==
    ASSUME NEW words, Words(words), NEW r \in 1..9, NEW x \in Bytes(16)
    PROVE  AddRoundKey(MixColumns(ShiftRows(SubBytes(x))), words, r) \in Bytes(16)
<1>1. SubBytes(x) \in Bytes(16)
  BY SubBytesUndone
<1>2. ShiftRows(SubBytes(x)) \in Bytes(16)
  BY <1>1, ShiftRowsUndone
<1>3. MixColumns(ShiftRows(SubBytes(x))) \in Bytes(16)
  BY <1>2, MixColumnsUndone
<1>4. r \in 0..10
  OBVIOUS
<1> QED BY <1>3, <1>4, KeyAddedTwice DEF Words

\* The rounds of encrypt_block run over blocks.
LEMMA EncryptionRounds ==
    ASSUME NEW words, Words(words), NEW block \in Bytes(16)
    PROVE  \E e : Enciphered(e, words, block)
<1> DEFINE first == AddRoundKey(block, words, 0)
           Step(x, r) == AddRoundKey(MixColumns(ShiftRows(SubBytes(x))), words, r)
           S == [r \in 0..9 |-> Bytes(16)]
           g == [r \in 1..9 |-> [x \in Bytes(16) |-> Step(x, r)]]
           Is(round) == round = [r \in 0..9 |-> IF r = 0 THEN first ELSE Step(round[r - 1], r)]
           e == CHOOSE round : Is(round)
<1>1. EncryptBlock(words, block) = AddRoundKey(ShiftRows(SubBytes(e[9])), words, 10)
  BY DEF EncryptBlock
<1>2. first \in Bytes(16)
  <2>1. 0 \in 0..10
    OBVIOUS
  <2> QED BY <2>1, KeyAddedTwice DEF Words
<1>3. \A r \in 1..9 : \A x \in Bytes(16) : Step(x, r) \in Bytes(16)
  BY RoundTyped
<1> HIDE DEF first, Step
<1>4. \E f : Runs(f, 0, 9, first, g) /\ \A r \in 0..9 : f[r] \in S[r]
  <2> DEFINE a == 0
             b == 9
  <2>1. /\ a \in Nat /\ b \in Nat /\ a <= b /\ first \in S[a]
        /\ \A r \in (a + 1)..b : \A x \in S[r - 1] : g[r][x] \in S[r]
    BY <1>2, <1>3
  <2> HIDE DEF a, b, S, g
  <2>2. \E f : Runs(f, a, b, first, g) /\ \A r \in a..b : f[r] \in S[r]
    BY <2>1, Iteration
  <2> QED BY <2>2 DEF a, b
<1>5. \E f : Is(f)
  <2>1. PICK f : Runs(f, 0, 9, first, g) /\ \A r \in 0..9 : f[r] \in S[r]
    BY <1>4
  <2>2. \A r \in 1..9 : g[r][f[r - 1]] = Step(f[r - 1], r)
    BY <2>1
  <2> HIDE DEF g
  <2>3. Is(f)
    BY <2>1, <2>2 DEF Runs
  <2> QED BY <2>3
<1>6. Is(e)
  <2> HIDE DEF Is
  <2> QED BY <1>5
<1> HIDE DEF e
<1>7. e[0] = first /\ \A r \in 1..9 : e[r] = Step(e[r - 1], r)
  BY <1>6
<1>8. \A r \in 0..9 : e[r] \in Bytes(16)
  <2> DEFINE T == {r \in 0..9 : e[r] \in Bytes(16)}
             a == 0
             b == 9
  <2>1. a \in Nat /\ b \in Nat /\ a \in T /\ \A r \in (a + 1)..b : r - 1 \in T => r \in T
    BY <1>2, <1>3, <1>7
  <2> HIDE DEF T, a, b
  <2>2. \A r \in a..b : r \in T
    BY <2>1, Upward
  <2> QED BY <2>2 DEF T, a, b
<1>9. Enciphered(e, words, block)
  BY <1>1, <1>7, <1>8 DEF Enciphered, first, Step
<1> QED BY <1>9

\* Decryption goes back through what the rounds of encryption made.
LEMMA DecryptionRounds ==
    ASSUME NEW words, Words(words), NEW block \in Bytes(16), NEW e, Enciphered(e, words, block)
    PROVE  DecryptBlock(words, EncryptBlock(words, block)) = block
<1> DEFINE c == EncryptBlock(words, block)
           first == InvSubBytes(InvShiftRows(AddRoundKey(c, words, 10)))
           Step(x, r) == InvSubBytes(InvShiftRows(InvMixColumns(AddRoundKey(x, words, 10 - r))))
           S == [r \in 0..9 |-> {e[9 - r]}]
           g == [r \in 1..9 |-> [x \in Bytes(16) |-> Step(x, r)]]
           Is(round) == round = [r \in 0..9 |-> IF r = 0 THEN first ELSE Step(round[r - 1], r)]
           d == CHOOSE round : Is(round)
<1>1. DecryptBlock(words, c) = AddRoundKey(d[9], words, 0)
  BY DEF DecryptBlock
<1>2. \A r \in 0..9 : /\ e[r] \in Bytes(16) /\ SubBytes(e[r]) \in Bytes(16)
                      /\ ShiftRows(SubBytes(e[r])) \in Bytes(16)
                      /\ InvSubBytes(InvShiftRows(ShiftRows(SubBytes(e[r])))) = e[r]
  BY SubBytesUndone, ShiftRowsUndone DEF Enciphered
<1>3. first = e[9]
  <2>1. AddRoundKey(c, words, 10) = ShiftRows(SubBytes(e[9]))
    <3>1. c = AddRoundKey(ShiftRows(SubBytes(e[9])), words, 10)
      BY DEF Enciphered
    <3>2. ShiftRows(SubBytes(e[9])) \in Bytes(16) /\ 10 \in 0..10
      BY <1>2
    <3> QED BY <3>1, <3>2, KeyAddedTwice DEF Words
  <2> QED BY <1>2, <2>1
<1>4. ASSUME NEW r \in 1..9 PROVE Step(e[10 - r], r) = e[9 - r]
  <2> DEFINE k == 10 - r
             m == MixColumns(ShiftRows(SubBytes(e[k - 1])))
  <2>1. k \in 1..9 /\ k \in 0..10 /\ k - 1 \in 0..9 /\ k - 1 = 9 - r
    OBVIOUS
  <2>2. e[k] = AddRoundKey(m, words, k)
    BY <2>1 DEF Enciphered
  <2>3. m \in Bytes(16) /\ InvMixColumns(m) = ShiftRows(SubBytes(e[k - 1]))
    BY <1>2, <2>1, MixColumnsUndone
  <2> HIDE DEF k, m
  <2>4. AddRoundKey(e[k], words, k) = m
    BY <2>1, <2>2, <2>3, KeyAddedTwice DEF Words
  <2>5. InvSubBytes(InvShiftRows(InvMixColumns(AddRoundKey(e[k], words, k)))) = e[k - 1]
    BY <1>2, <2>1, <2>3, <2>4
  <2> QED BY <2>1, <2>5 DEF k
<1> HIDE DEF first, Step, c
<1>5. \E f : Runs(f, 0, 9, first, g) /\ \A r \in 0..9 : f[r] \in S[r]
  <2> DEFINE a == 0
             b == 9
  <2>1. a \in Nat /\ b \in Nat /\ a <= b /\ first \in S[a]
    BY <1>3
  <2>2. ASSUME NEW r \in (a + 1)..b, NEW x \in S[r - 1] PROVE g[r][x] \in S[r]
    <3>1. r \in 1..9 /\ r - 1 \in 0..9 /\ 9 - (r - 1) = 10 - r /\ 10 - r \in 0..9
      OBVIOUS
    <3>2. x = e[10 - r]
      BY <3>1
    <3>3. x \in Bytes(16)
      BY <1>2, <3>1, <3>2
    <3>4. g[r][x] = e[9 - r]
      BY <1>4, <3>1, <3>2, <3>3
    <3> QED BY <3>1, <3>4
  <2> HIDE DEF a, b, S, g
  <2>3. \E f : Runs(f, a, b, first, g) /\ \A r \in a..b : f[r] \in S[r]
    BY <2>1, <2>2, Iteration
  <2> QED BY <2>3 DEF a, b
<1>6. \E f : Is(f)
  <2>1. PICK f : Runs(f, 0, 9, first, g) /\ \A r \in 0..9 : f[r] \in S[r]
    BY <1>5
  <2>2. ASSUME NEW r \in 1..9 PROVE g[r][f[r - 1]] = Step(f[r - 1], r)
    <3>1. r - 1 \in 0..9 /\ 9 - (r - 1) \in 0..9
      OBVIOUS
    <3>2. f[r - 1] \in Bytes(16)
      BY <1>2, <2>1, <3>1
    <3> QED BY <3>2
  <2> HIDE DEF g
  <2>3. Is(f)
    BY <2>1, <2>2 DEF Runs
  <2> QED BY <2>3
<1>7. Is(d)
  <2> HIDE DEF Is
  <2> QED BY <1>6
<1> HIDE DEF d
<1>8. d[0] = first /\ \A r \in 1..9 : d[r] = Step(d[r - 1], r)
  BY <1>7
<1>9. \A r \in 0..9 : d[r] = e[9 - r]
  <2> DEFINE T == {r \in 0..9 : d[r] = e[9 - r]}
             a == 0
             b == 9
  <2>1. a \in Nat /\ b \in Nat /\ a \in T
    BY <1>3, <1>8
  <2>2. ASSUME NEW r \in (a + 1)..b, r - 1 \in T PROVE r \in T
    <3>1. r \in 1..9 /\ 9 - (r - 1) = 10 - r
      OBVIOUS
    <3>2. d[r] = Step(e[10 - r], r)
      BY <1>8, <2>2, <3>1
    <3> QED BY <1>4, <3>1, <3>2
  <2> HIDE DEF T, a, b
  <2>3. \A r \in a..b : r \in T
    BY <2>1, <2>2, Upward
  <2> QED BY <2>3 DEF T, a, b
<1>10. AddRoundKey(d[9], words, 0) = block
  <2>1. d[9] = AddRoundKey(block, words, 0) /\ 0 \in 0..10
    BY <1>9 DEF Enciphered
  <2> QED BY <2>1, KeyAddedTwice DEF Words
<1> QED BY <1>1, <1>10 DEF c

\* Under any round keys an encrypted block is decrypted to what it was.
LEMMA BlockRestored ==
    ASSUME NEW words, Words(words), NEW block \in Bytes(16)
    PROVE  /\ EncryptBlock(words, block) \in Bytes(16)
           /\ DecryptBlock(words, EncryptBlock(words, block)) = block
<1>1. PICK e : Enciphered(e, words, block)
  BY EncryptionRounds
<1>2. ShiftRows(SubBytes(e[9])) \in Bytes(16)
  BY <1>1, SubBytesUndone, ShiftRowsUndone DEF Enciphered
<1>3. EncryptBlock(words, block) \in Bytes(16)
  <2>1. 10 \in 0..10
    OBVIOUS
  <2> QED BY <1>1, <1>2, <2>1, KeyAddedTwice DEF Enciphered, Words
<1> QED BY <1>1, <1>3, DecryptionRounds

\* The schedule of a key, a word at a time.
LEMMA ExtendedTyped ==
    ASSUME NEW n \in 4..43, NEW words \in [1..n -> Bytes(4)]
    PROVE  Extended(words) \in [1..(n + 1) -> Bytes(4)]
<1> DEFINE last == words[n]
           turned == <<XorByte(Sub(last[2]), RCon[n \div 4]),
                       Sub(last[3]), Sub(last[4]), Sub(last[1])>>
           word == IF n % 4 = 0 THEN turned ELSE last
           previous == words[n - 3]
           new == <<XorByte(word[1], previous[1]), XorByte(word[2], previous[2]),
                    XorByte(word[3], previous[3]), XorByte(word[4], previous[4])>>
<1>1. words \in Seq(Bytes(4)) /\ Len(words) = n
  BY LenProperties
<1>2. Extended(words) = Append(words, new)
  BY <1>1 DEF Extended
<1>3. last \in Bytes(4) /\ previous \in Bytes(4)
  OBVIOUS
<1>4. n % 4 = 0 => RCon[n \div 4] \in Byte
  <2>1. \A k \in 0..9 : RCon[k + 1] \in 0..255
    BY ONLY SMTT(60) DEF RCon
  <2>2. n % 4 = 0 => n \div 4 - 1 \in 0..9 /\ (n \div 4 - 1) + 1 = n \div 4
    OBVIOUS
  <2> QED BY <2>1, <2>2 DEF Byte
<1> HIDE DEF last, previous
<1>5. word \in Bytes(4)
  <2>1. CASE n % 4 = 0
    <3>1. XorByte(Sub(last[2]), RCon[n \div 4]) \in Byte
      BY <1>3, <1>4, <2>1, ColumnElements, SubstitutionUndone, XorType DEF ^^
    <3>2. turned \in Bytes(4)
      BY <1>3, <3>1, ColumnElements, SubstitutionUndone, FourBytes
    <3> HIDE DEF turned
    <3> QED BY <2>1, <3>2
  <2>2. CASE n % 4 # 0
    BY <1>3, <2>2
  <2> QED BY <2>1, <2>2
<1> HIDE DEF word
<1>6. new \in Bytes(4)
  BY <1>3, <1>5, ColumnElements, XorType, FourBytes DEF ^^
<1> HIDE DEF new
<1>7. /\ Append(words, new) \in Seq(Bytes(4))
      /\ Len(Append(words, new)) = n + 1
  BY <1>1, <1>6, AppendProperties
<1> HIDE DEF new
<1> QED BY <1>2, <1>7, LenProperties

\* Sequences of n words.
WordSeqs(n) == [1..n -> Bytes(4)]

\* The key schedule of a key has words of four bytes.
LEMMA ScheduleTyped ==
    ASSUME NEW key \in Bytes(16)
    PROVE  Words(RoundKeys(key))
<1> DEFINE first == <<Column(key, 0), Column(key, 1), Column(key, 2), Column(key, 3)>>
           S == [n \in 4..44 |-> WordSeqs(n)]
           g == [n \in 5..44 |-> [words \in WordSeqs(n - 1) |-> Extended(words)]]
           Is(f) == f = [n \in 4..44 |-> IF n = 4 THEN first ELSE Extended(f[n - 1])]
           schedule == CHOOSE f : Is(f)
<1>1. RoundKeys(key) = schedule[44]
  BY DEF RoundKeys
<1>2. first \in WordSeqs(4)
  <2>1. /\ Column(key, 0) \in Bytes(4) /\ Column(key, 1) \in Bytes(4)
        /\ Column(key, 2) \in Bytes(4) /\ Column(key, 3) \in Bytes(4)
    BY ColumnOf
  <2> QED BY <2>1 DEF WordSeqs
<1> HIDE DEF first
<1>3. ASSUME NEW n \in 5..44, NEW x \in WordSeqs(n - 1)
      PROVE  Extended(x) \in WordSeqs(n)
  <2> DEFINE m == n - 1
  <2>1. m \in 4..43 /\ x \in WordSeqs(m) /\ m + 1 = n
    OBVIOUS
  <2> HIDE DEF m
  <2>2. Extended(x) \in WordSeqs(m + 1)
    BY <2>1, ExtendedTyped DEF WordSeqs
  <2> QED BY <2>1, <2>2
<1>4. \E f : Runs(f, 4, 44, first, g) /\ \A n \in 4..44 : f[n] \in S[n]
  <2> DEFINE a == 4
             b == 44
  <2>1. a \in Nat /\ b \in Nat /\ a <= b /\ first \in S[a]
    BY <1>2
  <2>2. ASSUME NEW n \in (a + 1)..b, NEW x \in S[n - 1] PROVE g[n][x] \in S[n]
    BY <1>3
  <2> HIDE DEF a, b, S, g
  <2>3. \E f : Runs(f, a, b, first, g) /\ \A n \in a..b : f[n] \in S[n]
    BY <2>1, <2>2, Iteration
  <2> QED BY <2>3 DEF a, b
<1>5. \E f : Is(f)
  <2>1. PICK f : Runs(f, 4, 44, first, g) /\ \A n \in 4..44 : f[n] \in S[n]
    BY <1>4
  <2>2. \A n \in 5..44 : g[n][f[n - 1]] = Extended(f[n - 1])
    BY <2>1
  <2> HIDE DEF g
  <2>3. Is(f)
    BY <2>1, <2>2 DEF Runs
  <2> QED BY <2>3
<1>6. Is(schedule)
  <2> HIDE DEF Is
  <2> QED BY <1>5
<1> HIDE DEF schedule
<1>7. schedule[4] = first /\ \A n \in 5..44 : schedule[n] = Extended(schedule[n - 1])
  BY <1>6
<1>8. \A n \in 4..44 : schedule[n] \in WordSeqs(n)
  <2> DEFINE T == {n \in 4..44 : schedule[n] \in WordSeqs(n)}
             a == 4
             b == 44
  <2>1. a \in Nat /\ b \in Nat /\ a \in T
    BY <1>2, <1>7
  <2>2. ASSUME NEW r \in (a + 1)..b, r - 1 \in T PROVE r \in T
    BY <1>3, <1>7, <2>2
  <2> HIDE DEF T, a, b
  <2>3. \A r \in a..b : r \in T
    BY <2>1, <2>2, Upward
  <2> QED BY <2>3 DEF T, a, b
<1>9. schedule[44] \in WordSeqs(44)
  BY <1>8
<1> QED BY <1>1, <1>9 DEF Words, WordSeqs

\* Decryption takes back encryption, of any block under any key
\* (AES128.encrypt_block, AES128.decrypt_block).
THEOREM DecryptsWhatIsEncrypted ==
    \A key, block \in Bytes(16) :
        DecryptBlock(RoundKeys(key), EncryptBlock(RoundKeys(key), block)) = block
  BY ScheduleTyped, BlockRestored

(***************************************************************************)
(* Whole blocks.                                                           *)
(***************************************************************************)
\* s holds the first n blocks, one after the other.
Blocks(s, seqs, n) ==
    /\ s \in Bytes(16 * n)
    /\ \A b \in 1..n, k \in 1..16 : s[16 * b - 16 + k] = seqs[b][k]

\* One block more is put to those before it.
LEMMA BlocksJoined ==
    ASSUME NEW n \in Nat, NEW seqs, NEW s, Blocks(s, seqs, n), seqs[n + 1] \in Bytes(16)
    PROVE  Blocks(s \o seqs[n + 1], seqs, n + 1)
<1> DEFINE m == 16 * n
           l == 16
           t == seqs[n + 1]
           u == s \o t
<1>1. m \in Nat /\ l \in Nat /\ s \in Bytes(m) /\ t \in Bytes(l) /\ IsJoin(u, s, t)
  BY DEF Blocks, IsJoin
<1> HIDE DEF u, t
<1>2. u \in Bytes(m + l) /\ \A i \in 1..(m + l) : u[i] = IF i <= m THEN s[i] ELSE t[i - m]
  <2> HIDE DEF m, l
  <2> QED BY <1>1, Join
<1>3. u \in Bytes(16 * (n + 1))
  BY <1>2
<1>4. ASSUME NEW b \in 1..(n + 1), NEW k \in 1..16
      PROVE  u[16 * b - 16 + k] = seqs[b][k]
  <2> DEFINE i == 16 * b - 16 + k
  <2>1. CASE b <= n
    <3>1. i \in 1..(m + l) /\ i <= m /\ b \in 1..n
      BY <2>1
    <3>2. s[i] = seqs[b][k]
      BY <3>1 DEF Blocks
    <3> HIDE DEF i
    <3>3. u[i] = s[i]
      BY <1>2, <3>1
    <3> QED BY <3>2, <3>3 DEF i
  <2>2. CASE b = n + 1
    <3>1. i \in 1..(m + l) /\ ~(i <= m) /\ i - m = k
      BY <2>2
    <3> HIDE DEF i, m, l
    <3>2. u[i] = t[k]
      BY <1>2, <3>1
    <3> QED BY <2>2, <3>2 DEF i, t
  <2> QED BY <2>1, <2>2
<1> QED BY <1>3, <1>4 DEF Blocks, u, t

\* FlattenSeq puts blocks one after the other.
LEMMA Flattened ==
    ASSUME NEW n \in Nat, NEW seqs \in [1..n -> Bytes(16)]
    PROVE  Blocks(FlattenSeq(seqs), seqs, n)
<1> DEFINE S == [i \in 1..n |-> {s \in Bytes(16 * i) : Blocks(s, seqs, i)}]
           g == [i \in 2..n |-> [s \in Bytes(16 * (i - 1)) |-> s \o seqs[i]]]
           Is(f) == f = [i \in 1..n |-> IF i = 1 THEN seqs[i] ELSE f[i - 1] \o seqs[i]]
           flatten == CHOOSE f : Is(f)
<1>1. Len(seqs) = n
  BY LenProperties
<1>2. FlattenSeq(seqs) = IF n = 0 THEN seqs ELSE flatten[n]
  BY ONLY <1>1 DEF FlattenSeq
<1>3. CASE n = 0
  <2>1. 16 * n = 0 /\ seqs \in Bytes(0)
    BY <1>3 DEF Bytes
  <2> QED BY <1>2, <1>3, <2>1 DEF Blocks
<1>4. CASE n # 0
  <2>1. Blocks(seqs[1], seqs, 1)
    <3>1. 16 * 1 = 16 /\ 1 \in 1..n /\ \A k \in 1..16 : 16 * 1 - 16 + k = k
      BY <1>4
    <3> QED BY <3>1 DEF Blocks
  <2>2. ASSUME NEW i \in 2..n, NEW s, Blocks(s, seqs, i - 1)
        PROVE  Blocks(s \o seqs[i], seqs, i)
    <3> DEFINE m == i - 1
    <3>1. m \in Nat /\ m + 1 = i /\ seqs[m + 1] \in Bytes(16) /\ Blocks(s, seqs, m)
      BY <2>2
    <3> HIDE DEF m
    <3>2. Blocks(s \o seqs[m + 1], seqs, m + 1)
      BY <3>1, BlocksJoined
    <3> QED BY <3>1, <3>2
  <2>3. \A i \in 1..n : \A s : s \in S[i] <=> Blocks(s, seqs, i)
    BY DEF Blocks
  <2>4. \E f : Runs(f, 1, n, seqs[1], g) /\ \A i \in 1..n : f[i] \in S[i]
    <3> DEFINE a == 1
               first == seqs[1]
    <3>1. a \in Nat /\ a <= n /\ first \in S[a]
      BY <1>4, <2>1, <2>3
    <3>2. ASSUME NEW i \in (a + 1)..n, NEW s \in S[i - 1] PROVE g[i][s] \in S[i]
      <4>1. i \in 2..n /\ i - 1 \in 1..n /\ i \in 1..n
        OBVIOUS
      <4>2. Blocks(s, seqs, i - 1) /\ s \in Bytes(16 * (i - 1))
        BY <2>3, <4>1
      <4>3. g[i][s] = s \o seqs[i]
        BY <4>1, <4>2
      <4>4. Blocks(g[i][s], seqs, i)
        BY <2>2, <4>1, <4>2, <4>3
      <4> QED BY <2>3, <4>1, <4>4
    <3> HIDE DEF a, first, S, g
    <3>3. \E f : Runs(f, a, n, first, g) /\ \A i \in a..n : f[i] \in S[i]
      BY <3>1, <3>2, Iteration
    <3> QED BY <3>3 DEF a, first
  <2>5. \E f : Is(f)
    <3>1. PICK f : Runs(f, 1, n, seqs[1], g) /\ \A i \in 1..n : f[i] \in S[i]
      BY <2>4
    <3>2. ASSUME NEW i \in 1..n, i # 1 PROVE g[i][f[i - 1]] = f[i - 1] \o seqs[i]
      <4>1. i - 1 \in 1..n /\ i \in 2..n
        BY <3>2
      <4>2. f[i - 1] \in Bytes(16 * (i - 1))
        BY <3>1, <4>1
      <4> QED BY <4>1, <4>2
    <3> HIDE DEF g, S
    <3>3. \A i \in 1..n : IF i = 1 THEN seqs[1] = seqs[i] ELSE g[i][f[i - 1]] = f[i - 1] \o seqs[i]
      BY <3>2
    <3>4. [i \in 1..n |-> IF i = 1 THEN seqs[1] ELSE g[i][f[i - 1]]]
            = [i \in 1..n |-> IF i = 1 THEN seqs[i] ELSE f[i - 1] \o seqs[i]]
      BY ONLY <3>3
    <3>5. Is(f)
      BY ONLY <3>1, <3>4 DEF Runs
    <3> QED BY <3>5
  <2>6. Is(flatten)
    <3> HIDE DEF Is
    <3> QED BY <2>5
  <2> HIDE DEF flatten
  <2>7. flatten[1] = seqs[1] /\ \A i \in 2..n : flatten[i] = flatten[i - 1] \o seqs[i]
    <3> DEFINE With(x, i) == x \o seqs[i]
    <3>1. flatten = [i \in 1..n |-> IF i = 1 THEN seqs[i] ELSE With(flatten[i - 1], i)]
      BY <2>6
    <3> HIDE DEF With
    <3>2. flatten[1] = seqs[1] /\ \A i \in 2..n : flatten[i] = With(flatten[i - 1], i)
      BY <1>4, <3>1
    <3> QED BY <3>2 DEF With
  <2>8. \A i \in 1..n : Blocks(flatten[i], seqs, i)
    <3> DEFINE T == {i \in 1..n : Blocks(flatten[i], seqs, i)}
               a == 1
    <3>1. a \in Nat /\ a \in T
      BY <1>4, <2>1, <2>7
    <3>2. ASSUME NEW r \in (a + 1)..n, r - 1 \in T PROVE r \in T
      <4>1. r \in 2..n /\ r \in 1..n
        OBVIOUS
      <4>2. Blocks(flatten[r - 1], seqs, r - 1)
        BY <3>2
      <4>3. Blocks(flatten[r], seqs, r)
        BY <2>2, <2>7, <4>1, <4>2
      <4> QED BY <4>1, <4>3
    <3> HIDE DEF T, a
    <3>3. \A r \in a..n : r \in T
      BY <3>1, <3>2, Upward
    <3> QED BY <3>3 DEF T, a
  <2> QED BY <1>2, <1>4, <2>8
<1> QED BY <1>3, <1>4

\* Block b of n blocks.
LEMMA BlockOf ==
    ASSUME NEW n \in Nat, NEW data \in Bytes(16 * n), NEW b \in 1..n
    PROVE  /\ Block(data, b) \in Bytes(16)
           /\ \A k \in 1..16 : Block(data, b)[k] = data[16 * b - 16 + k]
<1> DEFINE t == 16 * n
           p == 16 * b - 15
           q == 16 * b
<1>1. /\ t \in Nat /\ data \in Bytes(t) /\ p \in Nat /\ p > 0 /\ q \in Nat /\ q <= t
      /\ p <= q + 1 /\ q + 1 - p = 16
  OBVIOUS
<1>2. Block(data, b) = SubSeq(data, p, q)
  BY DEF Block
<1> HIDE DEF t, p, q
<1>3. /\ SubSeq(data, p, q) \in Bytes(q + 1 - p)
      /\ \A i \in 1..(q + 1 - p) : SubSeq(data, p, q)[i] = data[p + i - 1]
  BY <1>1, SliceBytes
<1>4. \A k \in 1..16 : p + k - 1 = 16 * b - 16 + k
  BY DEF p
<1> QED BY <1>1, <1>2, <1>3, <1>4

\* Blocks with the same bytes are the same, one by one and all together.
LEMMA BlocksApart ==
    ASSUME NEW n \in Nat, NEW seqs \in [1..n -> Bytes(16)], NEW s, Blocks(s, seqs, n), NEW b \in 1..n
    PROVE  Block(s, b) = seqs[b]
<1> DEFINE l == 16
           p == Block(s, b)
           q == seqs[b]
<1>1. p \in Bytes(l) /\ \A k \in 1..l : p[k] = s[16 * b - 16 + k]
  BY BlockOf DEF Blocks
<1>2. l \in Nat /\ q \in Bytes(l) /\ \A k \in 1..l : q[k] = s[16 * b - 16 + k]
  BY DEF Blocks
<1>3. \A k \in 1..l : p[k] = q[k]
  BY <1>1, <1>2
<1> HIDE DEF l, p, q
<1>4. p = q
  BY <1>1, <1>2, <1>3, EqualBytes
<1> QED BY <1>4 DEF p, q

\* Data whose blocks are those of other data are the same.
LEMMA BlocksTogether ==
    ASSUME NEW n \in Nat, NEW data \in Bytes(16 * n), NEW seqs, NEW s, Blocks(s, seqs, n),
           \A b \in 1..n : seqs[b] = Block(data, b)
    PROVE  s = data
<1> DEFINE t == 16 * n
<1>1. t \in Nat /\ s \in Bytes(t) /\ data \in Bytes(t)
  BY DEF Blocks
<1>2. ASSUME NEW i \in 1..t PROVE s[i] = data[i]
  <2> DEFINE b == ((i - 1) \div 16) + 1
             k == ((i - 1) % 16) + 1
  <2>1. b \in 1..n /\ k \in 1..16 /\ 16 * b - 16 + k = i
    OBVIOUS
  <2> HIDE DEF b, k
  <2>2. s[16 * b - 16 + k] = seqs[b][k]
    BY <2>1 DEF Blocks
  <2>3. Block(data, b)[k] = data[16 * b - 16 + k]
    BY <2>1, BlockOf
  <2> QED BY <2>1, <2>2, <2>3
<1> HIDE DEF t
<1> QED BY <1>1, <1>2, EqualBytes

\* Whole blocks are encrypted and decrypted one by one (_ecb_encrypt,
\* _ecb_decrypt).
LEMMA EcbRestored ==
    ASSUME NEW words, Words(words), NEW n \in Nat, NEW data \in Bytes(16 * n)
    PROVE  /\ EcbEncrypt(words, data) \in Bytes(16 * n)
           /\ EcbDecrypt(words, EcbEncrypt(words, data)) = data
<1> DEFINE t == 16 * n
           there == [b \in 1..n |-> EncryptBlock(words, Block(data, b))]
           c == EcbEncrypt(words, data)
           back == [b \in 1..n |-> DecryptBlock(words, Block(c, b))]
<1>1. \A d \in Bytes(t) : Len(d) = t
  <2>1. t \in Nat
    OBVIOUS
  <2> HIDE DEF t
  <2> QED BY <2>1, BytesAreSeq
<1>2. t \div 16 = n
  OBVIOUS
<1>3. \A d \in Bytes(16 * n) : Len(d) \div 16 = n
  BY <1>1, <1>2
<1>4. \A b \in 1..n : Block(data, b) \in Bytes(16)
  BY BlockOf
<1>5. there \in [1..n -> Bytes(16)]
  BY <1>4, BlockRestored
<1>6. c = FlattenSeq(there)
  BY <1>3 DEF EcbEncrypt
<1>7. Blocks(c, there, n)
  <2> HIDE DEF there
  <2> QED BY <1>5, <1>6, Flattened
<1>8. c \in Bytes(16 * n)
  BY <1>7 DEF Blocks
<1>9. \A b \in 1..n : Block(c, b) = there[b]
  <2> HIDE DEF there, c
  <2> QED BY <1>5, <1>7, BlocksApart
<1>10. EcbDecrypt(words, c) = FlattenSeq(back)
  BY <1>3, <1>8 DEF EcbDecrypt
<1> HIDE DEF c
<1>11. \A b \in 1..n : back[b] = Block(data, b)
  BY <1>4, <1>9, BlockRestored
<1>12. back \in [1..n -> Bytes(16)]
  BY <1>4, <1>11
<1> HIDE DEF back
<1>13. Blocks(FlattenSeq(back), back, n)
  BY <1>12, Flattened
<1>14. FlattenSeq(back) = data
  BY <1>11, <1>13, BlocksTogether
<1> QED BY <1>8, <1>10, <1>14 DEF c

\* The mask of an address, twice, changes nothing (_xor_repeating).
LEMMA MaskedTwice ==
    ASSUME NEW n \in Nat, NEW data \in Bytes(n), NEW mask \in Bytes(4)
    PROVE  Mask(data, mask) \in Bytes(n) /\ Mask(Mask(data, mask), mask) = data
<1> DEFINE k(i) == mask[((i - 1) % 4) + 1]
<1>1. Len(mask) = 4
  <2> DEFINE m == 4
  <2>1. m \in Nat /\ mask \in Bytes(m)
    OBVIOUS
  <2> HIDE DEF m
  <2>2. Len(mask) = m
    BY <2>1, BytesAreSeq
  <2> QED BY <2>2 DEF m
<1>2. \A d \in Bytes(n) : Mask(d, mask) = [i \in 1..n |-> d[i] ^^ k(i)]
  BY <1>1 DEF Mask, Bytes, ^^
<1>3. \A i \in 1..n : k(i) \in Byte
  <2>1. \A i \in 1..n : ((i - 1) % 4) + 1 \in 1..4
    OBVIOUS
  <2> QED BY <2>1 DEF Bytes
<1> HIDE DEF k
<1>4. \A d \in Bytes(n) : Mask(d, mask) \in Bytes(n)
  BY <1>2, <1>3, XorType DEF Bytes
<1>5. \A i \in 1..n : (data[i] ^^ k(i)) ^^ k(i) = data[i]
  BY <1>3, XorTakenBack DEF Bytes
<1>6. \A i \in 1..n : Mask(data, mask)[i] = data[i] ^^ k(i)
  BY <1>2
<1>7. Mask(Mask(data, mask), mask) = [i \in 1..n |-> Mask(data, mask)[i] ^^ k(i)]
  BY <1>2, <1>4
<1>8. [i \in 1..n |-> Mask(data, mask)[i] ^^ k(i)] = [i \in 1..n |-> data[i]]
  BY <1>5, <1>6
<1>9. data = [i \in 1..n |-> data[i]]
  BY DEF Bytes
<1> QED BY <1>4, <1>7, <1>8, <1>9

\* A padded text is whole blocks, and is unpadded to what it was.
LEMMA PaddedBlocks ==
    ASSUME NEW n \in Nat, NEW d \in Bytes(n)
    PROVE  /\ Pad(d) \in Bytes(16 * ((n \div 16) + 1))
           /\ Unpad(Pad(d)) = {d}
<1>1. d \in Seq(Byte) /\ Len(d) = n
  BY BytesAreSeq
<1> DEFINE m == 16 - (n % 16)
           t == 16 * ((n \div 16) + 1)
           p == Pad(d)
<1>2. n + m = t /\ t \in Nat
  OBVIOUS
<1>3. p \in Seq(Byte) /\ Len(p) = n + m
  BY <1>1, Padding
<1>4. Unpad(p) = {d}
  BY <1>1, UnpadPad
<1> HIDE DEF t, p, m
<1>5. p \in Bytes(t)
  BY <1>2, <1>3, BytesAreSeq
<1> QED BY <1>4, <1>5 DEF t, p

\* A byte, five bytes and more, put together and taken apart.
LEMMA HeadBodyBytes ==
    ASSUME NEW b \in Byte, NEW h \in Bytes(5), NEW n \in Nat, NEW body \in Bytes(n),
           NEW A, IsJoin(A, <<b>>, h), NEW p, IsJoin(p, A, body)
    PROVE  /\ p \in Bytes(6 + n) /\ p[1] = b
           /\ \A i \in 2..6 : p[i] = h[i - 1]
           /\ \A i \in 7..(6 + n) : p[i] = body[i - 6]
<1>1. <<b>> \in Bytes(1) /\ <<b>>[1] = b
  BY FewBytes
<1>2. A \in Bytes(6) /\ \A i \in 1..6 : A[i] = IF i <= 1 THEN <<b>>[i] ELSE h[i - 1]
  <2> DEFINE k == 1
             l == 5
             m == 6
             s == <<b>>
  <2>1. k \in Nat /\ l \in Nat /\ s \in Bytes(k) /\ h \in Bytes(l) /\ k + l = m /\ IsJoin(A, s, h)
    BY <1>1
  <2> HIDE DEF k, l, m, s
  <2>2. A \in Bytes(k + l) /\ \A i \in 1..(k + l) : A[i] = IF i <= k THEN s[i] ELSE h[i - k]
    BY <2>1, Join
  <2>3. A \in Bytes(m) /\ \A i \in 1..m : A[i] = IF i <= k THEN s[i] ELSE h[i - k]
    BY <2>1, <2>2
  <2> QED BY <2>3 DEF k, m, s
<1>3. p \in Bytes(6 + n) /\ \A i \in 1..(6 + n) : p[i] = IF i <= 6 THEN A[i] ELSE body[i - 6]
  <2> DEFINE m == 6
  <2>1. m \in Nat /\ A \in Bytes(m)
    BY <1>2
  <2> HIDE DEF m
  <2>2. p \in Bytes(m + n) /\ \A i \in 1..(m + n) : p[i] = IF i <= m THEN A[i] ELSE body[i - m]
    BY <2>1, Join
  <2> QED BY <2>2 DEF m
<1>4. p[1] = b
  BY <1>1, <1>2, <1>3
<1>5. \A i \in 2..6 : p[i] = h[i - 1]
  BY <1>2, <1>3
<1>6. \A i \in 7..(6 + n) : p[i] = body[i - 6]
  BY <1>3
<1> QED BY <1>3, <1>4, <1>5, <1>6

\* What a packet of six bytes and a body is made of.
LEMMA Parts ==
    ASSUME NEW n \in Nat, NEW p \in Bytes(6 + n)
    PROVE  /\ Len(p) = 6 + n
           /\ SubSeq(p, 2, 6) \in Bytes(5) /\ \A i \in 1..5 : SubSeq(p, 2, 6)[i] = p[i + 1]
           /\ SubSeq(p, 7, Len(p)) \in Bytes(n)
           /\ \A i \in 1..n : SubSeq(p, 7, Len(p))[i] = p[i + 6]
<1> DEFINE t == 6 + n
           two == 2
           six == 6
           seven == 7
<1>1. /\ t \in Nat /\ p \in Bytes(t) /\ two \in Nat /\ six \in Nat /\ seven \in Nat
      /\ two > 0 /\ six <= t /\ two <= six + 1 /\ seven > 0 /\ t <= t /\ seven <= t + 1
      /\ six + 1 - two = 5 /\ t + 1 - seven = n
  OBVIOUS
<1> HIDE DEF t, two, six, seven
<1>2. Len(p) = t
  BY <1>1, BytesAreSeq
<1>3. /\ SubSeq(p, two, six) \in Bytes(5)
      /\ \A i \in 1..5 : SubSeq(p, two, six)[i] = p[two + i - 1]
  BY <1>1, SliceBytes
<1>4. /\ SubSeq(p, seven, t) \in Bytes(n)
      /\ \A i \in 1..n : SubSeq(p, seven, t)[i] = p[seven + i - 1]
  BY <1>1, SliceBytes
<1>5. SubSeq(p, 2, 6) \in Bytes(5) /\ \A i \in 1..5 : SubSeq(p, 2, 6)[i] = p[i + 1]
  <2>1. \A i \in 1..5 : two + i - 1 = i + 1
    BY DEF two
  <2>2. \A i \in 1..5 : SubSeq(p, two, six)[i] = p[i + 1]
    BY <1>3, <2>1
  <2> QED BY <1>3, <2>2 DEF two, six
<1>6. /\ SubSeq(p, 7, Len(p)) \in Bytes(n)
      /\ \A i \in 1..n : SubSeq(p, 7, Len(p))[i] = p[i + 6]
  <2>1. \A i \in 1..n : seven + i - 1 = i + 6
    BY DEF seven
  <2>2. \A i \in 1..n : SubSeq(p, seven, t)[i] = p[i + 6]
    BY <1>4, <2>1
  <2>3. SubSeq(p, seven, t) = SubSeq(p, 7, Len(p))
    BY <1>2 DEF seven
  <2> HIDE DEF seven
  <2> QED BY <1>4, <2>2, <2>3
<1> QED BY <1>2, <1>5, <1>6 DEF t

\* What is encrypted for an address is decrypted with it to what it was
\* (encrypt_data_event, decrypt_data_event).
LEMMA EventRestored ==
    ASSUME NEW own, Words(own.event), NEW vaddr \in Bytes(4),
           NEW n \in Nat, NEW plain \in Bytes(6 + n), plain[1] = 3
    PROVE  \E k \in Nat : \E packet \in Bytes(6 + k) :
              /\ EncryptDataEvent(own, plain, vaddr) = {packet}
              /\ packet[1] = 6
              /\ DecryptDataEvent(own, packet, vaddr) = {plain}
<1> DEFINE k == (n \div 16) + 1
           t == 16 * k
           head == SubSeq(plain, 2, 6)
           body == SubSeq(plain, 7, Len(plain))
           padded == Pad(body)
           cipher == EcbEncrypt(own.event, padded)
           masked == Mask(cipher, vaddr)
           packet == <<6>> \o head \o masked
<1>1. /\ Len(plain) = 6 + n
      /\ head \in Bytes(5) /\ \A i \in 1..5 : head[i] = plain[i + 1]
      /\ body \in Bytes(n) /\ \A i \in 1..n : body[i] = plain[i + 6]
  BY Parts
<1>2. k \in Nat /\ k >= 1 /\ t \in Nat /\ t >= 16 /\ t % 16 = 0
  OBVIOUS
<1>3. padded \in Bytes(t) /\ Unpad(padded) = {body}
  BY <1>1, PaddedBlocks
<1>4. cipher \in Bytes(t) /\ EcbDecrypt(own.event, cipher) = padded
  <2> HIDE DEF padded, k
  <2> QED BY <1>2, <1>3, EcbRestored
<1>5. masked \in Bytes(t) /\ Mask(masked, vaddr) = cipher
  <2> HIDE DEF cipher, t
  <2> QED BY <1>2, <1>4, MaskedTwice
<1>6. EncryptDataEvent(own, plain, vaddr) = {packet}
  BY <1>1 DEF EncryptDataEvent
<1>7. /\ packet \in Bytes(6 + t) /\ packet[1] = 6
      /\ \A i \in 2..6 : packet[i] = head[i - 1]
      /\ \A i \in 7..(6 + t) : packet[i] = masked[i - 6]
  <2> DEFINE six == 6
             A == <<six>> \o head
             p == packet
  <2>1. six \in Byte /\ IsJoin(A, <<six>>, head) /\ IsJoin(p, A, masked)
    BY DEF IsJoin, Byte
  <2> HIDE DEF six, A, p, head, masked, t
  <2>2. /\ p \in Bytes(6 + t) /\ p[1] = six
        /\ \A i \in 2..6 : p[i] = head[i - 1]
        /\ \A i \in 7..(6 + t) : p[i] = masked[i - 6]
    BY <1>1, <1>2, <1>5, <2>1, HeadBodyBytes
  <2> QED BY <2>2 DEF six, p
<1> HIDE DEF packet, masked, t, cipher, padded, head, body
<1>8. /\ Len(packet) = 6 + t
      /\ SubSeq(packet, 2, 6) \in Bytes(5)
      /\ \A i \in 1..5 : SubSeq(packet, 2, 6)[i] = packet[i + 1]
      /\ SubSeq(packet, 7, Len(packet)) \in Bytes(t)
      /\ \A i \in 1..t : SubSeq(packet, 7, Len(packet))[i] = packet[i + 6]
  BY <1>2, <1>7, Parts
<1>9. SubSeq(packet, 2, 6) = head
  <2> DEFINE l == 5
             s == SubSeq(packet, 2, 6)
  <2>1. \A i \in 1..l : s[i] = head[i]
    BY <1>7, <1>8
  <2>2. l \in Nat /\ s \in Bytes(l) /\ head \in Bytes(l)
    BY <1>1, <1>8
  <2> HIDE DEF l, s
  <2>3. s = head
    BY <2>1, <2>2, EqualBytes
  <2> QED BY <2>3 DEF s
<1>10. SubSeq(packet, 7, Len(packet)) = masked
  <2> DEFINE s == SubSeq(packet, 7, Len(packet))
  <2>1. \A i \in 1..t : s[i] = masked[i]
    BY <1>2, <1>7, <1>8
  <2>2. s \in Bytes(t)
    BY <1>8
  <2> HIDE DEF s
  <2>3. s = masked
    BY <1>2, <1>5, <2>1, <2>2, EqualBytes
  <2> QED BY <2>3 DEF s
<1>11. Len(packet) >= 22 /\ packet[1] = 6 /\ (Len(packet) - 6) % 16 = 0
  BY <1>2, <1>7, <1>8
<1>12. DecryptDataEvent(own, packet, vaddr) = {<<3>> \o head \o payload : payload \in {body}}
  <2>1. Unpad(EcbDecrypt(own.event, Mask(SubSeq(packet, 7, Len(packet)), vaddr))) = {body}
    BY <1>3, <1>4, <1>5, <1>10
  <2> QED BY ONLY <1>9, <1>11, <2>1 DEF DecryptDataEvent
<1>13. <<3>> \o head \o body = plain
  <2> DEFINE three == 3
             A == <<three>> \o head
             p == A \o body
             l == 6 + n
  <2>1. three \in Byte /\ IsJoin(A, <<three>>, head) /\ IsJoin(p, A, body)
    BY DEF IsJoin, Byte
  <2> HIDE DEF three, A, p
  <2>2. /\ p \in Bytes(6 + n) /\ p[1] = three
        /\ \A i \in 2..6 : p[i] = head[i - 1]
        /\ \A i \in 7..(6 + n) : p[i] = body[i - 6]
    BY <1>1, <2>1, HeadBodyBytes
  <2>3. \A i \in 1..l : p[i] = plain[i]
    BY <1>1, <2>2 DEF three
  <2>4. l \in Nat /\ p \in Bytes(l) /\ plain \in Bytes(l)
    BY <2>2
  <2> HIDE DEF l
  <2>5. p = plain
    BY <2>3, <2>4, EqualBytes
  <2> QED BY <2>5 DEF three, A, p
<1>14. DecryptDataEvent(own, packet, vaddr) = {plain}
  BY <1>12, <1>13
<1> QED BY <1>2, <1>6, <1>7, <1>14

\* Two sequences put together to one of a given length.
LEMMA JoinTo ==
    ASSUME NEW m \in Nat, NEW n \in Nat, NEW k, k = m + n, NEW s \in Bytes(m), NEW t \in Bytes(n),
           NEW u, IsJoin(u, s, t)
    PROVE  /\ u \in Bytes(k)
           /\ \A i \in 1..k : u[i] = IF i <= m THEN s[i] ELSE t[i - m]
  BY Join

\* An event that a sender may lay out.
Event(c) ==
    /\ c.category \in Byte \ {6} /\ c.class \in Byte /\ c.tag \in Byte
    /\ c.destination \in Bytes(4) /\ c.origin \in Bytes(4) /\ c.remote \in Bytes(6)
    /\ c.channel \in Byte /\ c.command \in Byte /\ c.extra \in Seq(Byte)

\* What an event says when it is read.
EventRead(c) ==
    [destination |-> c.destination, origin |-> c.origin, remote |-> c.remote,
     channel |-> c.channel, command |-> c.command, extra |-> c.extra]

\* An event laid out is parsed as it was meant, if its class and tag are those
\* of a remote (parse_remote_event).
LEMMA EventParsed ==
    ASSUME NEW c, Event(c)
    PROVE  /\ \E x \in Nat : Plain(c) \in Bytes(19 + x)
           /\ Plain(c)[1] = c.category
           /\ c.category = 3 =>
                 ParseRemoteEvent(Plain(c))
                   = IF c.class = 33 /\ c.tag = 82 THEN {EventRead(c)} ELSE {}
<1> DEFINE x == Len(c.extra)
           category == <<c.category>>
           class == <<c.class>>
           tag == <<c.tag>>
           button == <<c.channel, c.command>>
           A == category \o c.destination
           B == A \o class
           C == B \o c.origin
           D == C \o tag
           E == D \o c.remote
           F == E \o button
           p == F \o c.extra
<1>1. p = Plain(c)
  BY DEF Plain
<1>2. /\ category \in Bytes(1) /\ category[1] = c.category
      /\ class \in Bytes(1) /\ class[1] = c.class
      /\ tag \in Bytes(1) /\ tag[1] = c.tag
      /\ button \in Bytes(2) /\ button[1] = c.channel /\ button[2] = c.command
  BY FewBytes DEF Event
<1>3. c.extra \in Bytes(x) /\ x \in Nat
  <2>1. c.extra \in Seq(Byte)
    BY DEF Event
  <2>2. x \in Nat
    BY <2>1, LenProperties
  <2> HIDE DEF x
  <2>3. Len(c.extra) = x
    BY DEF x
  <2> QED BY <2>1, <2>2, <2>3, BytesAreSeq
<1>4. /\ IsJoin(A, category, c.destination) /\ IsJoin(B, A, class) /\ IsJoin(C, B, c.origin)
      /\ IsJoin(D, C, tag) /\ IsJoin(E, D, c.remote) /\ IsJoin(F, E, button)
      /\ IsJoin(p, F, c.extra)
  BY DEF IsJoin
<1>5. c.destination \in Bytes(4) /\ c.origin \in Bytes(4) /\ c.remote \in Bytes(6)
  BY DEF Event
<1> HIDE DEF category, class, tag, button, A, B, C, D, E, F, p, x
<1>6. /\ p \in Bytes(19 + x) /\ p[1] = category[1]
      /\ \A i \in 2..5 : p[i] = c.destination[i - 1]
      /\ p[6] = class[1]
      /\ \A i \in 7..10 : p[i] = c.origin[i - 6]
      /\ p[11] = tag[1]
      /\ \A i \in 12..17 : p[i] = c.remote[i - 11]
      /\ p[18] = button[1] /\ p[19] = button[2]
      /\ \A i \in 20..(19 + x) : p[i] = c.extra[i - 19]
  <2>1. A \in Bytes(5) /\ \A i \in 1..5 : A[i] = IF i <= 1 THEN category[i] ELSE c.destination[i - 1]
    BY ONLY <1>2, <1>4, <1>5, JoinTo
  <2>2. B \in Bytes(6) /\ \A i \in 1..6 : B[i] = IF i <= 5 THEN A[i] ELSE class[i - 5]
    BY ONLY <1>2, <1>4, <2>1, JoinTo
  <2>3. C \in Bytes(10) /\ \A i \in 1..10 : C[i] = IF i <= 6 THEN B[i] ELSE c.origin[i - 6]
    BY ONLY <1>4, <1>5, <2>2, JoinTo
  <2>4. D \in Bytes(11) /\ \A i \in 1..11 : D[i] = IF i <= 10 THEN C[i] ELSE tag[i - 10]
    BY ONLY <1>2, <1>4, <2>3, JoinTo
  <2>5. E \in Bytes(17) /\ \A i \in 1..17 : E[i] = IF i <= 11 THEN D[i] ELSE c.remote[i - 11]
    BY ONLY <1>4, <1>5, <2>4, JoinTo
  <2>6. F \in Bytes(19) /\ \A i \in 1..19 : F[i] = IF i <= 17 THEN E[i] ELSE button[i - 17]
    BY ONLY <1>2, <1>4, <2>5, JoinTo
  <2>7. p \in Bytes(19 + x) /\ \A i \in 1..(19 + x) : p[i] = IF i <= 19 THEN F[i] ELSE c.extra[i - 19]
    BY ONLY <1>3, <1>4, <2>6, JoinTo
  <2> QED BY ONLY <1>3, <2>1, <2>2, <2>3, <2>4, <2>5, <2>6, <2>7
<1>7. Len(p) = 19 + x
  <2> DEFINE t == 19 + x
  <2>1. t \in Nat /\ p \in Bytes(t)
    BY <1>3, <1>6
  <2> HIDE DEF t
  <2>2. Len(p) = t
    BY <2>1, BytesAreSeq
  <2> QED BY <2>2 DEF t
<1>8. SubSeq(p, 2, 5) = c.destination
  BY <1>3, <1>5, <1>6 DEF Bytes
<1>9. SubSeq(p, 7, 10) = c.origin
  BY <1>3, <1>5, <1>6 DEF Bytes
<1>10. SubSeq(p, 12, 17) = c.remote
  BY <1>3, <1>5, <1>6 DEF Bytes
<1>11. SubSeq(p, 20, Len(p)) = c.extra
  <2> DEFINE t == 19 + x
             m == 20
             s == SubSeq(p, m, t)
  <2>1. t \in Nat /\ p \in Bytes(t) /\ m \in Nat /\ m > 0 /\ t <= t /\ m <= t + 1 /\ t + 1 - m = x
    BY <1>3, <1>6
  <2> HIDE DEF t, m
  <2>2. s \in Bytes(t + 1 - m) /\ \A i \in 1..(t + 1 - m) : s[i] = p[m + i - 1]
    BY <2>1, SliceBytes
  <2> HIDE DEF s
  <2>3. \A i \in 1..x : s[i] = c.extra[i]
    <3> SUFFICES ASSUME NEW i \in 1..x PROVE s[i] = c.extra[i]
      OBVIOUS
    <3>1. s[i] = p[m + i - 1] /\ m + i - 1 = i + 19
      BY <2>1, <2>2 DEF m
    <3>2. i + 19 \in 20..(19 + x) /\ (i + 19) - 19 = i
      BY <1>3
    <3> QED BY <1>6, <3>1, <3>2
  <2>4. s = c.extra
    BY <1>3, <2>1, <2>2, <2>3, EqualBytes
  <2> QED BY <1>7, <2>4 DEF s, t, m
<1>12. c.category = 3 =>
          ParseRemoteEvent(p) = IF c.class = 33 /\ c.tag = 82 THEN {EventRead(c)} ELSE {}
  <2> SUFFICES ASSUME c.category = 3
               PROVE  ParseRemoteEvent(p)
                        = IF c.class = 33 /\ c.tag = 82 THEN {EventRead(c)} ELSE {}
    OBVIOUS
  <2>1. /\ Len(p) >= 19 /\ p[1] = 3 /\ p[6] = c.class /\ p[11] = c.tag
        /\ p[18] = c.channel /\ p[19] = c.command
    BY <1>2, <1>3, <1>6, <1>7
  <2>2. [destination |-> SubSeq(p, 2, 5), origin |-> SubSeq(p, 7, 10),
         remote |-> SubSeq(p, 12, 17), channel |-> p[18], command |-> p[19],
         extra |-> SubSeq(p, 20, Len(p))] = EventRead(c)
    BY ONLY <1>8, <1>9, <1>10, <1>11, <2>1 DEF EventRead
  <2> QED BY ONLY <2>1, <2>2 DEF ParseRemoteEvent
<1>13. p[1] = c.category
  BY <1>2, <1>6
<1> QED BY <1>1, <1>3, <1>6, <1>12, <1>13

(***************************************************************************)
(* The entry.                                                              *)
(***************************************************************************)
\* Bytes written in hexadecimal are read as they were.
LEMMA HexRead ==
    ASSUME NEW n \in Nat, NEW data \in Bytes(n)
    PROVE  FromHex(Hex(data)) = {data}
<1>1. Len(data) = n
  BY BytesAreSeq
<1> DEFINE h == [i \in 1..(2 * n) |->
                    IF i % 2 = 1 THEN data[(i + 1) \div 2] \div 16 ELSE data[i \div 2] % 16]
<1>2. Hex(data) = h
  BY <1>1 DEF Hex
<1>3. ASSUME NEW i \in 1..n
      PROVE  h[2 * i - 1] = data[i] \div 16 /\ h[2 * i] = data[i] % 16
  <2>1. /\ 2 * i - 1 \in 1..(2 * n) /\ (2 * i - 1) % 2 = 1 /\ ((2 * i - 1) + 1) \div 2 = i
        /\ 2 * i \in 1..(2 * n) /\ (2 * i) % 2 # 1 /\ (2 * i) \div 2 = i
    OBVIOUS
  <2> QED BY <2>1
<1>4. Len(h) = 2 * n
  OBVIOUS
<1>5. (2 * n) % 2 = 0 /\ (2 * n) \div 2 = n
  OBVIOUS
<1> HIDE DEF h
<1>6. FromHex(h) = {[i \in 1..n |-> 16 * h[2 * i - 1] + h[2 * i]]}
  BY <1>4, <1>5 DEF FromHex
<1>7. \A i \in 1..n : 16 * (data[i] \div 16) + (data[i] % 16) = data[i]
  <2>1. \A i \in 1..n : data[i] \in Byte
    BY DEF Bytes
  <2> QED BY <2>1 DEF Byte
<1>8. [i \in 1..n |-> 16 * h[2 * i - 1] + h[2 * i]] = [i \in 1..n |-> data[i]]
  BY <1>3, <1>7
<1>9. data = [i \in 1..n |-> data[i]]
  BY DEF Bytes
<1> QED BY <1>2, <1>6, <1>8, <1>9

\* The credentials of the switch.
Mine == [address |-> Address, light |-> Light, remote |-> Switch.remote,
         home |-> Switch.home, password |-> Switch.password, channel |-> Switch.channel]

\* PairLinkCredentials takes the fields of the switch.
LEMMA MineTaken == Credentials(Mine) = {Mine}
<1>1. \A k \in {4, 6} : \A s \in Bytes(k) : Len(s) = k
  BY BytesAreSeq
<1>2. /\ Len(Switch.home) = 4 /\ Len(Switch.password) = 4 /\ Len(Switch.remote) = 6
      /\ Len(Light) = 6 /\ IsAscii(Switch.password) /\ Switch.channel \in 0..255
  BY <1>1, SwitchFields DEF Byte
<1>3. /\ Mine.remote = Switch.remote /\ Mine.home = Switch.home /\ Mine.light = Light
      /\ Mine.password = Switch.password /\ Mine.channel = Switch.channel
  BY DEF Mine
<1> QED BY ONLY <1>2, <1>3 DEF Credentials

\* An entry is read as it was written (as_entry_data, from_entry_data).
LEMMA EntryRead == FromEntryData(AsEntryData(Mine)) = {Mine}
<1> DEFINE data == AsEntryData(Mine)
<1>1. /\ data.remote_id = Hex(Switch.remote) /\ data.home_id = Hex(Switch.home)
      /\ data.light_id = Hex(Light) /\ data.address = Address
      /\ data.password = Switch.password /\ data.remote_channel = Switch.channel
  BY DEF AsEntryData, Mine
<1>2. /\ FromHex(Hex(Switch.remote)) = {Switch.remote} /\ FromHex(Hex(Switch.home)) = {Switch.home}
      /\ FromHex(Hex(Light)) = {Light}
  BY SwitchFields, HexRead
<1> HIDE DEF data
<1>3. FromEntryData(data)
        = UNION { Credentials([address |-> Address, remote |-> remote, home |-> home,
                               password |-> Switch.password, channel |-> Switch.channel,
                               light |-> light]) :
                    remote \in {Switch.remote}, home \in {Switch.home}, light \in {Light} }
  BY ONLY <1>1, <1>2 DEF FromEntryData
<1>4. [address |-> Address, remote |-> Switch.remote, home |-> Switch.home,
       password |-> Switch.password, channel |-> Switch.channel, light |-> Light] = Mine
  BY DEF Mine
<1>5. FromEntryData(data) = Credentials(Mine)
  BY ONLY <1>3, <1>4
<1> QED BY <1>5, MineTaken DEF data

\* The two key schedules of a codec are words.
LEMMA CodecWords ==
    ASSUME NEW home \in Bytes(4), NEW password \in Bytes(4)
    PROVE  Words(Codec(home, password).login) /\ Words(Codec(home, password).event)
<1> DEFINE half == Interleaved(home, password)
<1>1. half \in Bytes(8)
  <2>1. \A i \in 1..8 : (IF i % 2 = 1 THEN home[(i + 1) \div 2] ELSE password[i \div 2]) \in Byte
    <3> SUFFICES ASSUME NEW i \in 1..8
                 PROVE  (IF i % 2 = 1 THEN home[(i + 1) \div 2] ELSE password[i \div 2]) \in Byte
      OBVIOUS
    <3>1. i % 2 = 1 => (i + 1) \div 2 \in 1..4
      OBVIOUS
    <3>2. i % 2 # 1 => i \div 2 \in 1..4
      OBVIOUS
    <3>3. \A k \in 1..4 : home[k] \in Byte /\ password[k] \in Byte
      BY DEF Bytes
    <3> QED BY ONLY <3>1, <3>2, <3>3
  <2> QED BY ONLY <2>1 DEF Interleaved, Bytes
<1> HIDE DEF half
<1>2. LoginKey \in Bytes(8) /\ EventKey \in Bytes(8)
  BY ONLY DEF LoginKey, EventKey, Bytes, Byte
<1>3. ASSUME NEW k \in Bytes(8) PROVE half \o k \in Bytes(16)
  <2> DEFINE m == 8
             n == 16
             u == half \o k
  <2>1. m \in Nat /\ n = m + m /\ half \in Bytes(m) /\ k \in Bytes(m)
    BY <1>1
  <2>2. IsJoin(u, half, k)
    BY DEF IsJoin
  <2> HIDE DEF m, n, u
  <2>3. u \in Bytes(n)
    BY <2>1, <2>2, JoinTo
  <2> QED BY <2>3 DEF u, n
<1>4. Words(RoundKeys(half \o LoginKey)) /\ Words(RoundKeys(half \o EventKey))
  BY <1>2, <1>3, ScheduleTyped
<1> QED BY <1>4 DEF Codec, half

\* Beginning with some bytes, by the elements.
LEMMA Beginning ==
    ASSUME NEW m \in Nat, NEW s \in Bytes(m), NEW n \in Nat, NEW t \in Bytes(n)
    PROVE  IsPrefix(s, t) <=> m <= n /\ \A i \in 1..m : t[i] = s[i]
<1>1. Len(s) = m /\ Len(t) = n
  BY BytesAreSeq
<1>2. CASE m > n
  BY <1>1, <1>2 DEF IsPrefix
<1>3. CASE m <= n
  <2> DEFINE o == 1
             p == SubSeq(s, o, m)
             q == SubSeq(t, o, m)
  <2>1. o \in Nat /\ o > 0 /\ o <= m + 1 /\ m + 1 - o = m /\ m <= m /\ \A i \in Nat : o + i - 1 = i
    OBVIOUS
  <2> HIDE DEF o
  <2>2. /\ p \in Bytes(m + 1 - o) /\ \A i \in 1..(m + 1 - o) : p[i] = s[o + i - 1]
        /\ q \in Bytes(m + 1 - o) /\ \A i \in 1..(m + 1 - o) : q[i] = t[o + i - 1]
    BY <1>3, <2>1, SliceBytes
  <2> HIDE DEF p, q
  <2>3. p \in Bytes(m) /\ q \in Bytes(m) /\ \A i \in 1..m : p[i] = s[i] /\ q[i] = t[i]
    BY <2>1, <2>2
  <2>4. p = q <=> \A i \in 1..m : t[i] = s[i]
    <3>1. (\A i \in 1..m : p[i] = q[i]) => p = q
      BY <2>3, EqualBytes
    <3> QED BY <2>3, <3>1
  <2>5. IsPrefix(s, t) <=> p = q
    BY <1>1, <1>3 DEF IsPrefix, p, q, o
  <2> QED BY <1>3, <2>4, <2>5
<1> QED BY <1>2, <1>3

\* The packet of a LOGIN request or response.
IsLogin(packet, category, words, block) ==
    packet = <<category, 25>> \o EncryptBlock(words, block)

\* The block of a LOGIN packet is found in it.
LEMMA LoginPacket ==
    ASSUME NEW words, Words(words), NEW category \in Byte, NEW block \in Bytes(16),
           NEW packet, IsLogin(packet, category, words, block)
    PROVE  /\ Len(packet) = 18 /\ IsPrefix(<<category, 25>>, packet)
           /\ DecryptBlock(words, SubSeq(packet, 3, 18)) = block
<1> DEFINE head == <<category, 25>>
           cipher == EncryptBlock(words, block)
           slice == SubSeq(packet, 3, 18)
<1>1. head \in Bytes(2)
  BY ONLY category \in Byte DEF Byte, Bytes
<1>2. cipher \in Bytes(16) /\ DecryptBlock(words, cipher) = block
  BY BlockRestored
<1>3. IsJoin(packet, head, cipher)
  BY DEF IsJoin, IsLogin
<1> HIDE DEF head, cipher
<1>4. packet \in Bytes(18) /\ \A i \in 1..18 : packet[i] = IF i <= 2 THEN head[i] ELSE cipher[i - 2]
  BY ONLY <1>1, <1>2, <1>3, JoinTo
<1>5. Len(packet) = 18
  BY ONLY <1>4, BytesAreSeq
<1>6. IsPrefix(head, packet)
  <2> DEFINE m == 2
             n == 18
  <2>1. m \in Nat /\ n \in Nat /\ head \in Bytes(m) /\ packet \in Bytes(n) /\ m <= n
        /\ \A i \in 1..m : packet[i] = head[i]
    BY <1>1, <1>4
  <2> HIDE DEF m, n
  <2> QED BY <2>1, Beginning
<1>7. slice = cipher
  <2>1. \A i \in 3..18 : packet[i] = cipher[i - 2]
    BY ONLY <1>4
  <2>2. SubSeq(packet, 3, 18) = cipher
    BY ONLY <1>2, <1>4, <2>1 DEF Bytes
  <2> QED BY <2>2
<1> QED BY <1>2, <1>5, <1>6, <1>7 DEF head

\* The LOGIN response of a switch, which is cut short at some length.
IsAnswer(packet, home, password, vaddr, length) ==
    packet = <<2, 25>> \o EncryptBlock(Codec(home, password).login,
                            Pad(Cut(home \o password \o vaddr \o vaddr, length)))

\* What is parsed of a LOGIN response by who has the same home ID and password:
\* of the answers that go on with an address twice, the one that ends with the first.
LEMMA ResponseTaken ==
    ASSUME NEW home \in Bytes(4), NEW password \in Bytes(4), NEW vaddr \in Bytes(4),
           NEW length \in 0..15,
           NEW packet, IsAnswer(packet, home, password, vaddr, length)
    PROVE  ParseLoginResponse(Codec(home, password), packet)
             = IF length = 12 THEN {vaddr} ELSE {}
<1> DEFINE own == Codec(home, password)
           A == home \o password
           B == A \o vaddr
           C == B \o vaddr
           body == Cut(C, length)
           block == Pad(body)
<1>1. IsJoin(A, home, password) /\ IsJoin(B, A, vaddr) /\ IsJoin(C, B, vaddr)
  BY DEF IsJoin
<1>2. own.home \o own.password = A /\ Words(own.login)
  BY CodecWords DEF Codec
<1>3. packet = <<2, 25>> \o EncryptBlock(own.login, block)
  BY DEF IsAnswer
<1>4. /\ ParseLoginResponse(own, packet)
           = IF Len(packet) = 18 /\ IsPrefix(<<2, 25>>, packet)
             THEN { SubSeq(plain, 9, 12) :
                      plain \in {p \in Unpad(DecryptBlock(own.login, SubSeq(packet, 3, 18))) :
                                    Len(p) = 12 /\ IsPrefix(own.home \o own.password, p)} }
             ELSE {}
  BY ONLY DEF ParseLoginResponse
<1> HIDE DEF own, A, B, C, body, block
<1>5. A \in Bytes(8) /\ \A i \in 1..8 : A[i] = IF i <= 4 THEN home[i] ELSE password[i - 4]
  BY ONLY <1>1, home \in Bytes(4), password \in Bytes(4), JoinTo
<1>6. B \in Bytes(12) /\ \A i \in 1..12 : B[i] = IF i <= 8 THEN A[i] ELSE vaddr[i - 8]
  BY ONLY <1>1, <1>5, vaddr \in Bytes(4), JoinTo
<1>7. C \in Bytes(16) /\ \A i \in 1..16 : C[i] = IF i <= 12 THEN B[i] ELSE vaddr[i - 12]
  BY ONLY <1>1, <1>6, vaddr \in Bytes(4), JoinTo
<1>8. body \in Bytes(length) /\ \A i \in 1..length : body[i] = C[i]
  <2> DEFINE m == 1
             n == 16
             s == SubSeq(C, m, length)
  <2>1. n \in Nat /\ C \in Bytes(n) /\ m \in Nat /\ m > 0
        /\ length \in Nat /\ length <= n /\ m <= length + 1
        /\ length + 1 - m = length /\ \A i \in Nat : m + i - 1 = i
    BY ONLY <1>7, length \in 0..15
  <2> HIDE DEF m, n
  <2>2. s \in Bytes(length + 1 - m) /\ \A i \in 1..(length + 1 - m) : s[i] = C[m + i - 1]
    BY ONLY <2>1, SliceBytes
  <2>3. s = body
    BY ONLY Zenon DEF body, Cut, m, s
  <2> HIDE DEF s
  <2> QED BY ONLY <2>1, <2>2, <2>3
<1>9. block \in Bytes(16) /\ Unpad(block) = {body}
  <2>1. length \in Nat /\ 16 * ((length \div 16) + 1) = 16
    OBVIOUS
  <2>2. Pad(body) \in Bytes(16 * ((length \div 16) + 1)) /\ Unpad(Pad(body)) = {body}
    BY ONLY <1>8, <2>1, PaddedBlocks
  <2> QED BY ONLY <2>1, <2>2 DEF block
<1>10. /\ Len(packet) = 18 /\ IsPrefix(<<2, 25>>, packet)
       /\ DecryptBlock(own.login, SubSeq(packet, 3, 18)) = block
  <2> DEFINE category == 2
  <2>1. category \in Byte
    BY ONLY DEF category, Byte
  <2>2. IsLogin(packet, category, own.login, block)
    BY ONLY <1>3, Zenon DEF category, IsLogin
  <2> HIDE DEF category
  <2>3. /\ Len(packet) = 18 /\ IsPrefix(<<category, 25>>, packet)
        /\ DecryptBlock(own.login, SubSeq(packet, 3, 18)) = block
    BY ONLY <1>2, <1>9, <2>1, <2>2, LoginPacket
  <2> QED BY ONLY <2>3 DEF category
<1>11. ParseLoginResponse(own, packet)
         = { SubSeq(plain, 9, 12) : plain \in {p \in {body} : Len(p) = 12 /\ IsPrefix(A, p)} }
  BY ONLY <1>2, <1>4, <1>9, <1>10
<1>12. Len(body) = length
  <2>1. length \in Nat
    OBVIOUS
  <2> QED BY ONLY <1>8, <2>1, BytesAreSeq
<1>13. CASE length = 12
  <2>1. body \in Bytes(12) /\ \A i \in 1..12 : body[i] = IF i <= 8 THEN A[i] ELSE vaddr[i - 8]
    BY ONLY <1>6, <1>7, <1>8, <1>13
  <2>2. IsPrefix(A, body)
    <3> DEFINE m == 8
               n == 12
    <3>1. m \in Nat /\ n \in Nat /\ A \in Bytes(m) /\ body \in Bytes(n) /\ m <= n
          /\ \A i \in 1..m : body[i] = A[i]
      BY ONLY <1>5, <2>1
    <3> HIDE DEF m, n
    <3> QED BY ONLY <3>1, Beginning
  <2>3. SubSeq(body, 9, 12) = vaddr
    <3>1. \A i \in 9..12 : body[i] = vaddr[i - 8]
      BY ONLY <2>1
    <3> QED BY ONLY <2>1, <3>1, vaddr \in Bytes(4) DEF Bytes
  <2> QED BY ONLY <1>11, <1>12, <1>13, <2>2, <2>3 DEF own
<1>14. CASE length # 12
  BY ONLY <1>11, <1>12, <1>14 DEF own
<1> QED BY <1>13, <1>14

\* What the switch finds in a LOGIN request by who has its home ID and password.
LEMMA RequestUnderstood ==
    ASSUME NEW by, by.home \in Bytes(4), by.password \in Bytes(4),
           NEW own, own = Codec(by.home, by.password)
    PROVE  Understands(by, MakeLogin(own, Repeat(0, 4)))
<1> DEFINE A == by.home \o by.password
           zero == Repeat(0, 4)
           plain == A \o zero
           four == Repeat(4, 4)
           block == plain \o four
           packet == MakeLogin(own, zero)
<1>1. IsJoin(A, by.home, by.password) /\ IsJoin(plain, A, zero) /\ IsJoin(block, plain, four)
  BY DEF IsJoin
<1>2. zero \in Bytes(4) /\ four \in Bytes(4)
  BY ONLY DEF zero, four, Repeat, Bytes, Byte
<1>3. Words(own.login)
  BY CodecWords DEF Codec
<1>4. packet = <<1, 25>> \o EncryptBlock(own.login, block)
  BY DEF MakeLogin, Codec
<1>5. block = Pad(plain)
  <2>1. plain \in Bytes(12)
    <3> HIDE DEF A, zero, plain
    <3>1. A \in Bytes(8)
      BY ONLY <1>1, by.home \in Bytes(4), by.password \in Bytes(4), JoinTo
    <3> QED BY ONLY <1>1, <1>2, <3>1, JoinTo
  <2> HIDE DEF plain
  <2>2. Len(plain) = 12
    BY ONLY <2>1, BytesAreSeq
  <2> QED BY ONLY <2>2 DEF Pad, block, four
<1> HIDE DEF A, zero, plain, four, block, packet
<1>6. A \in Bytes(8)
  BY ONLY <1>1, by.home \in Bytes(4), by.password \in Bytes(4), JoinTo
<1>7. plain \in Bytes(12)
  BY ONLY <1>1, <1>2, <1>6, JoinTo
<1>8. block \in Bytes(16)
  BY ONLY <1>1, <1>2, <1>7, JoinTo
<1>9. Unpad(block) = {plain}
  <2> DEFINE n == 12
  <2>1. n \in Nat /\ plain \in Bytes(n)
    BY ONLY <1>7
  <2> HIDE DEF n
  <2> QED BY ONLY <1>5, <2>1, PaddedBlocks
<1>10. /\ Len(packet) = 18 /\ IsPrefix(<<1, 25>>, packet)
      /\ DecryptBlock(own.login, SubSeq(packet, 3, 18)) = block
  <2> DEFINE category == 1
  <2>1. category \in Byte
    BY ONLY DEF category, Byte
  <2>2. IsLogin(packet, category, own.login, block)
    BY ONLY <1>4, Zenon DEF category, IsLogin
  <2> HIDE DEF category
  <2>3. /\ Len(packet) = 18 /\ IsPrefix(<<category, 25>>, packet)
        /\ DecryptBlock(own.login, SubSeq(packet, 3, 18)) = block
    BY ONLY <1>3, <1>8, <2>1, <2>2, LoginPacket
  <2> QED BY ONLY <2>3 DEF category
<1>11. plain = by.home \o by.password \o Repeat(0, 4)
  BY DEF plain, A, zero
<1>12. Understands(by, packet)
  BY ONLY <1>9, <1>10, <1>11, own = Codec(by.home, by.password) DEF Understands
<1> QED BY <1>12 DEF packet, zero

\* Nothing of a packet is missing.
LEMMA Uncut ==
    ASSUME NEW n \in Nat, NEW s \in Bytes(n)
    PROVE  Cut(s, Len(s) - 0) = s
<1> DEFINE o == 1
           t == SubSeq(s, o, n)
<1>1. Len(s) = n
  BY BytesAreSeq
<1>2. o \in Nat /\ o > 0 /\ o <= n + 1 /\ n + 1 - o = n /\ n <= n /\ \A i \in Nat : o + i - 1 = i
  OBVIOUS
<1>3. Cut(s, Len(s) - 0) = t
  BY <1>1 DEF Cut
<1> HIDE DEF o, t
<1>4. t \in Bytes(n + 1 - o) /\ \A i \in 1..(n + 1 - o) : t[i] = s[o + i - 1]
  BY <1>2, SliceBytes DEF t
<1>5. t \in Bytes(n) /\ \A i \in 1..n : t[i] = s[i]
  BY <1>2, <1>4
<1> QED BY <1>3, <1>5, EqualBytes

\* Whether a packet is encrypted is seen by its first byte.
LEMMA SixFirst ==
    ASSUME NEW n \in Nat, n >= 1, NEW s \in Bytes(n)
    PROVE  IsPrefix(<<6>>, s) <=> s[1] = 6
<1> DEFINE six == 6
           head == <<six>>
           m == 1
<1>1. six \in Byte
  BY DEF Byte
<1> HIDE DEF six
<1>2. head \in Bytes(1) /\ head[1] = six
  BY <1>1, FewBytes
<1>3. m \in Nat /\ head \in Bytes(m) /\ m <= n /\ 1..m = {1}
  BY <1>2
<1> HIDE DEF head, m
<1>4. IsPrefix(head, s) <=> \A i \in 1..m : s[i] = head[i]
  BY <1>3, Beginning
<1>5. IsPrefix(head, s) <=> s[1] = six
  BY <1>2, <1>3, <1>4
<1> QED BY <1>5 DEF head, six

\* What was meant by an event is received of it.
Received(c) ==
    IF /\ peer # {}
       /\ c.category = 3 /\ c.class = 33 /\ c.tag = 82
       /\ c.remote = Switch.remote /\ c.channel = Switch.channel
       /\ c.command \in {1, 2}
    THEN {EventRead(c)} ELSE {}

\* The entry that was stored loads the credentials of the switch.
LEMMA OwnMine ==
    ASSUME entry = {AsEntryData(Mine)}
    PROVE  Own = {Mine}
<1>1. Own = FromEntryData(AsEntryData(Mine))
  BY DEF Own
<1> QED BY <1>1, EntryRead

\* An event is the switch's own by its remote, channel and command.
LEMMA EventMine ==
    ASSUME Own = {Mine}, NEW c
    PROVE  IsOwn(EventRead(c))
             <=> /\ c.remote = Switch.remote /\ c.channel = Switch.channel
                 /\ c.command \in {1, 2}
<1>1. Mine.remote = Switch.remote /\ Mine.channel = Switch.channel
  BY DEF Mine
<1>2. /\ EventRead(c).remote = c.remote /\ EventRead(c).channel = c.channel
      /\ EventRead(c).command = c.command
  BY DEF EventRead
<1> QED BY <1>1, <1>2 DEF IsOwn, Commands

\* _process_packet hands on what a whole event of the switch says.
LEMMA EventUnderstood ==
    ASSUME NEW c, Event(c), NEW vaddr \in Bytes(4), NEW own, Words(own.event),
           codec = {own}, Own = {Mine}, peer \subseteq {vaddr},
           NEW plain, plain = Plain(c),
           NEW encrypted, encrypted = EncryptDataEvent(own, plain, vaddr),
           NEW packet, packet = IF encrypted = {} THEN plain ELSE CHOOSE p \in encrypted : TRUE
    PROVE  Events(Cut(packet, Len(packet) - 0)) = Received(c)
<1>1. PICK x \in Nat : plain \in Bytes(19 + x)
  BY EventParsed
<1>2. /\ plain[1] = c.category
      /\ c.category = 3 =>
            ParseRemoteEvent(plain) = IF c.class = 33 /\ c.tag = 82 THEN {EventRead(c)} ELSE {}
  BY EventParsed
<1> DEFINE n == 13 + x
<1>3. n \in Nat /\ 6 + n = 19 + x /\ 6 + n >= 6
  OBVIOUS
<1>4. CASE c.category = 3
  <2>1. PICK k \in Nat : \E q \in Bytes(6 + k) :
           /\ EncryptDataEvent(own, plain, vaddr) = {q}
           /\ q[1] = 6
           /\ DecryptDataEvent(own, q, vaddr) = {plain}
    <3> HIDE DEF n
    <3>1. plain \in Bytes(6 + n) /\ plain[1] = 3
      BY <1>1, <1>2, <1>3, <1>4
    <3> QED BY ONLY <1>3, <3>1, Words(own.event), vaddr \in Bytes(4), EventRestored
  <2>2. PICK q \in Bytes(6 + k) : /\ encrypted = {q} /\ q[1] = 6
                                  /\ DecryptDataEvent(own, q, vaddr) = {plain}
    BY <2>1
  <2>3. packet = q
    BY ONLY <2>2, packet = IF encrypted = {} THEN plain ELSE CHOOSE p \in encrypted : TRUE
  <2> DEFINE m == 6 + k
  <2>4. m \in Nat /\ m >= 1 /\ q \in Bytes(m)
    OBVIOUS
  <2> HIDE DEF m
  <2>5. Cut(packet, Len(packet) - 0) = q
    BY ONLY <2>3, <2>4, Uncut
  <2>6. IsPrefix(<<6>>, q)
    BY ONLY <2>2, <2>4, SixFirst
  <2> DEFINE decrypted == UNION {DecryptDataEvent(o, q, v) : o \in codec, v \in peer}
  <2>7. decrypted = IF peer = {} THEN {} ELSE {plain}
    <3>1. CASE peer = {}
      BY ONLY <3>1 DEF decrypted
    <3>2. CASE peer # {}
      <4>1. peer = {vaddr}
        BY ONLY <3>2, peer \subseteq {vaddr}
      <4> QED BY ONLY <2>2, <3>2, <4>1, codec = {own} DEF decrypted
    <3> QED BY ONLY <3>1, <3>2
  <2>8. Events(q) = {event \in UNION {ParseRemoteEvent(p) : p \in decrypted} : IsOwn(event)}
    BY ONLY <2>6 DEF Events, decrypted
  <2> HIDE DEF decrypted
  <2>9. UNION {ParseRemoteEvent(p) : p \in decrypted}
          = IF peer # {} /\ c.class = 33 /\ c.tag = 82 THEN {EventRead(c)} ELSE {}
    <3>1. ParseRemoteEvent(plain) = IF c.class = 33 /\ c.tag = 82 THEN {EventRead(c)} ELSE {}
      BY ONLY <1>2, <1>4
    <3> QED BY ONLY <2>7, <3>1
  <2>10. IsOwn(EventRead(c))
           <=> /\ c.remote = Switch.remote /\ c.channel = Switch.channel
               /\ c.command \in {1, 2}
    BY EventMine
  <2>11. Events(q) = IF (peer # {} /\ c.class = 33 /\ c.tag = 82) /\ IsOwn(EventRead(c))
                      THEN {EventRead(c)} ELSE {}
    <3> DEFINE parsed == UNION {ParseRemoteEvent(p) : p \in decrypted}
               e == EventRead(c)
    <3>1. Events(q) = {event \in parsed : IsOwn(event)}
      BY ONLY <2>8 DEF parsed
    <3>2. parsed = IF peer # {} /\ c.class = 33 /\ c.tag = 82 THEN {e} ELSE {}
      BY ONLY <2>9 DEF parsed, e
    <3> HIDE DEF parsed, e
    <3>3. CASE peer # {} /\ c.class = 33 /\ c.tag = 82
      <4>1. parsed = {e}
        BY ONLY <3>2, <3>3
      <4>2. Events(q) = IF IsOwn(e) THEN {e} ELSE {}
        BY ONLY <3>1, <4>1
      <4> QED BY ONLY <3>3, <4>2 DEF e
    <3>4. CASE ~(peer # {} /\ c.class = 33 /\ c.tag = 82)
      BY ONLY <3>1, <3>2, <3>4
    <3> QED BY <3>3, <3>4
  <2>12. Events(q) = Received(c)
    <3> DEFINE heard == (peer # {} /\ c.class = 33 /\ c.tag = 82) /\ IsOwn(EventRead(c))
               meant == /\ peer # {}
                        /\ c.category = 3 /\ c.class = 33 /\ c.tag = 82
                        /\ c.remote = Switch.remote /\ c.channel = Switch.channel
                        /\ c.command \in {1, 2}
    <3>1. heard <=> meant
      BY ONLY <1>4, <2>10 DEF heard, meant
    <3>2. Events(q) = IF heard THEN {EventRead(c)} ELSE {}
      BY ONLY <2>11 DEF heard
    <3>3. Received(c) = IF meant THEN {EventRead(c)} ELSE {}
      BY ONLY DEF Received, meant
    <3> HIDE DEF heard, meant
    <3> QED BY ONLY <3>1, <3>2, <3>3
  <2> QED BY ONLY <2>5, <2>12
<1>5. CASE c.category # 3
  <2>1. encrypted = {}
    <3>1. ~(plain[1] = 3)
      BY ONLY <1>2, <1>5
    <3> QED BY ONLY <3>1, encrypted = EncryptDataEvent(own, plain, vaddr), Zenon DEF EncryptDataEvent
  <2>2. packet = plain
    BY ONLY <2>1, packet = IF encrypted = {} THEN plain ELSE CHOOSE p \in encrypted : TRUE
  <2> DEFINE m == 19 + x
  <2>3. m \in Nat /\ m >= 1 /\ plain \in Bytes(m)
    BY <1>1
  <2> HIDE DEF m
  <2>4. Cut(packet, Len(packet) - 0) = plain
    BY ONLY <2>2, <2>3, Uncut
  <2>5. plain[1] # 6
    BY <1>2 DEF Event
  <2>6. ~IsPrefix(<<6>>, plain)
    BY ONLY <2>3, <2>5, SixFirst
  <2> QED BY ONLY <1>5, <2>4, <2>6 DEF Events, Received
<1> QED BY <1>4, <1>5

\* What is stored is what the switch was registered with, and the session has a
\* codec for it alone.
Loaded ==
    /\ entry \subseteq {AsEntryData(Mine)}
    /\ codec \subseteq {Codec(Switch.home, Switch.password)}
    /\ codec # {} => entry # {}

\* A registration gives the credentials of the switch.
LEMMA MineRegistered ==
    ASSUME NEW layout \in Registrations, Registered(layout)
    PROVE  entry' \subseteq {AsEntryData(Mine)}
<1> DEFINE list == <<[layout |-> layout, length |-> Len(Value(layout))]>>
           types == {Registration}
           remotes == {Switch.remote}
           found == FindAdvertisement(<<Value(layout)>>, types, remotes)
<1>1. WellLaid(layout) /\ Len(Value(layout)) \in Nat
  BY LayoutsWellLaid, LayoutParsed
<1>2. \A i \in DOMAIN list : /\ list[i].layout = layout
                             /\ list[i].length = Len(Value(layout))
  OBVIOUS
<1>3. types \in SUBSET {Idle, Registration}
  OBVIOUS
<1>4. Values(list) = <<Value(layout)>>
  <2>1. Cut(Value(layout), Len(Value(layout))) = Value(layout)
    <3> DEFINE v == Value(layout)
               n == Len(v)
    <3>1. n \in Nat /\ v \in Bytes(n)
      BY <1>1, LayoutParsed
    <3> HIDE DEF n, v
    <3>2. Cut(v, Len(v) - 0) = v
      BY ONLY <3>1, Uncut
    <3>3. Len(v) - 0 = Len(v)
      BY ONLY <3>1 DEF n
    <3> QED BY <3>2, <3>3 DEF v
  <2>2. DOMAIN list = {1}
    OBVIOUS
  <2> QED BY <2>1, <2>2 DEF Values
<1> HIDE DEF list, types
<1>5. FindAdvertisement(Values(list), types, remotes) = Meant(list, types, remotes)
  BY <1>1, <1>2, <1>3, ListParsed
<1>6. found \subseteq {Told(layout)}
  BY <1>2, <1>4, <1>5 DEF Meant
<1>7. CredentialsOf(Told(layout)) = {Mine}
  <2>1. /\ layout.type = Registration /\ layout.home = Switch.home
        /\ layout.password = Switch.password /\ layout.remote = Switch.remote
        /\ layout.channel = Switch.channel
    BY RegistrationsAreOfSwitch
  <2>2. Registration # Idle
    BY DEF Registration, Idle
  <2>3. Told(layout) = [type |-> Registration, home |-> Switch.home,
                        password |-> Switch.password, remote |-> Switch.remote,
                        channel |-> Switch.channel]
    BY <2>1, <2>2 DEF Told
  <2>4. CredentialsOf(Told(layout)) = Credentials(Mine)
    BY <2>3 DEF CredentialsOf, Mine
  <2> QED BY <2>4, MineTaken
<1>8. entry' = {AsEntryData(c) : c \in UNION {CredentialsOf(a) : a \in found}}
  BY DEF Registered, types
<1> HIDE DEF found
<1>9. UNION {CredentialsOf(a) : a \in found} \subseteq {Mine}
  BY <1>6, <1>7
<1> QED BY <1>8, <1>9

\* The inductive invariant: nothing but the switch registered is ever stored,
\* loaded or used for a codec (as_entry_data, from_entry_data, PairLinkCodec).
LEMMA StaysLoaded == Spec => []Loaded
<1>1. Init => Loaded
  BY DEF Init, Loaded
<1>2. ASSUME Loaded, [Next]_vars PROVE Loaded'
  <2> USE <1>2
  <2>1. ASSUME NEW layout \in Registrations, Registered(layout) PROVE Loaded'
    <3>1. entry' \subseteq {AsEntryData(Mine)}
      BY <2>1, MineRegistered
    <3>2. entry = {} /\ codec' = codec
      BY <2>1 DEF Registered
    <3> QED BY <3>1, <3>2 DEF Loaded
  <2>2. CASE SetUp
    <3>1. entry = {AsEntryData(Mine)}
      BY <2>2 DEF SetUp, Loaded
    <3>2. Own = {Mine}
      BY <3>1, OwnMine
    <3>3. Mine.home = Switch.home /\ Mine.password = Switch.password
      BY DEF Mine
    <3>4. codec' = {Codec(own.home, own.password) : own \in Own} /\ entry' = entry
      BY <2>2 DEF SetUp
    <3>5. codec' = {Codec(Switch.home, Switch.password)}
      BY ONLY <3>2, <3>3, <3>4
    <3> QED BY <3>1, <3>4, <3>5 DEF Loaded
  <2>3. CASE UNCHANGED <<entry, codec>>
    BY <2>3 DEF Loaded
  <2>4. ASSUME NEW by, NEW vaddr, NEW length, LoginAnswered(by, vaddr, length) PROVE Loaded'
    BY <2>3, <2>4 DEF LoginAnswered
  <2>5. ASSUME NEW by, NEW vaddr, NEW content, NEW n, Notified(by, vaddr, content, n) PROVE Loaded'
    BY <2>3, <2>5 DEF Notified
  <2>6. ASSUME NEW list, NEW types, NEW remotes, AdvertisementSeen(list, types, remotes) PROVE Loaded'
    BY <2>3, <2>6 DEF AdvertisementSeen
  <2>7. ASSUME NEW data, Unpadded(data) PROVE Loaded'
    BY <2>3, <2>7 DEF Unpadded
  <2>8. ASSUME NEW key, NEW block, Encrypted(key, block) PROVE Loaded'
    BY <2>3, <2>8 DEF Encrypted
  <2>9. CASE Disconnected \/ Handled \/ UNCHANGED vars
    BY <2>3, <2>9 DEF Disconnected, Handled, vars
  <2> QED BY <1>2, <2>1, <2>2, <2>4, <2>5, <2>6, <2>7, <2>8, <2>9 DEF Next
<1> QED BY <1>1, <1>2, PTL DEF Spec

\* The entry stored by a registration and loaded again understands the switch it
\* was registered from, at the login and for every whole event
\* (as_entry_data, from_entry_data, make_login, parse_login_response,
\* encrypt_data_event, decrypt_data_event, _process_packet).
THEOREM UnderstandsTheSwitch == Spec => []SwitchUnderstood
<1>1. Init => SwitchUnderstood
  BY DEF Init, SwitchUnderstood, Nothing
<1>2. ASSUME Loaded, SwitchUnderstood, [Next]_vars PROVE SwitchUnderstood'
  <2> USE <1>2
  <2> DEFINE session == Codec(Switch.home, Switch.password)
  <2>1. Words(session.event) /\ codec \subseteq {session}
    BY CodecWords, SwitchFields DEF Loaded
  <2> HIDE DEF session
  <2>2. ASSUME NEW by \in Peers, NEW vaddr \in Vaddrs, NEW length \in Answers,
               LoginAnswered(by, vaddr, length)
        PROVE  SwitchUnderstood'
    <3>1. /\ sent' = [kind |-> "login", by |-> by, vaddr |-> vaddr, length |-> length]
          /\ codec' = codec
      BY <2>2 DEF LoginAnswered
    <3>2. /\ sent'.kind = "login" /\ sent'.by = by /\ sent'.vaddr = vaddr
          /\ sent'.length = length
      BY <3>1
    <3>3. SUFFICES ASSUME IsSwitch(by)
                   PROVE  /\ received' = IF length = 12 THEN {vaddr} ELSE {}
                          /\ \A own \in codec : Understands(by, MakeLogin(own, Repeat(0, 4)))
      <4>1. SUFFICES IsSwitch(sent'.by) =>
                        /\ received' = IF sent'.length = 12 THEN {sent'.vaddr} ELSE {}
                        /\ \A own \in codec' : Understands(sent'.by, MakeLogin(own, Repeat(0, 4)))
        <5>1. sent'.kind # "event"
          BY ONLY <3>2
        <5> QED BY ONLY <4>1, <5>1, Zenon DEF SwitchUnderstood
      <4> QED BY ONLY <3>1, <3>2, <3>3
    <3>4. /\ by.home = Switch.home /\ by.password = Switch.password
          /\ by.home \in Bytes(4) /\ by.password \in Bytes(4)
          /\ vaddr \in Bytes(4) /\ length \in 0..15
      BY <3>3, SwitchFields, SentFields DEF IsSwitch
    <3> DEFINE answerer == Codec(by.home, by.password)
               body == Cut(by.home \o by.password \o vaddr \o vaddr, length)
               packet == <<2, 25>> \o EncryptBlock(answerer.login, Pad(body))
    <3>5. PICK own \in codec : received' = ParseLoginResponse(own, packet)
      BY ONLY <2>2 DEF LoginAnswered
    <3>6. session = answerer
      BY ONLY <3>4 DEF session
    <3>7. own = answerer
      BY ONLY <2>1, <3>5, <3>6
    <3>8. ParseLoginResponse(answerer, packet) = IF length = 12 THEN {vaddr} ELSE {}
      <4>1. IsAnswer(packet, by.home, by.password, vaddr, length)
        BY ONLY DEF IsAnswer
      <4> HIDE DEF packet
      <4> QED BY ONLY <3>4, <4>1, ResponseTaken
    <3>9. Understands(by, MakeLogin(answerer, Repeat(0, 4)))
      BY ONLY <3>4, RequestUnderstood
    <3> HIDE DEF answerer, packet, body
    <3>10. \A o \in codec : o = answerer
      BY ONLY <2>1, <3>6
    <3> QED BY ONLY <3>5, <3>7, <3>8, <3>9, <3>10
  <2>3. ASSUME NEW by \in Peers, NEW vaddr \in Vaddrs, NEW c \in Contents \cup CutContents,
               NEW n, Notified(by, vaddr, c, n)
        PROVE  SwitchUnderstood'
    <3>1. /\ sent' = [kind |-> "event", by |-> by, vaddr |-> vaddr, content |-> c, missing |-> n]
          /\ peer' = peer /\ codec # {}
      BY <2>3 DEF Notified
    <3>2. /\ sent'.kind = "event" /\ sent'.by = by /\ sent'.vaddr = vaddr
          /\ sent'.content = c /\ sent'.missing = n
      BY <3>1
    <3>3. SUFFICES ASSUME IsSwitch(by), n = 0, peer \subseteq {vaddr}
                   PROVE  received' = Received(c)
      <4>1. SUFFICES IsSwitch(sent'.by) /\ sent'.missing = 0 /\ peer' \subseteq {sent'.vaddr} =>
                        received' = Received(sent.content)'
        <5>1. sent'.kind # "login"
          BY ONLY <3>2
        <5> QED BY ONLY <4>1, <5>1, Zenon DEF SwitchUnderstood, Received, EventRead
      <4>2. Received(sent.content)' = Received(c)
        BY ONLY <3>1, <3>2 DEF Received
      <4> QED BY ONLY <3>1, <3>2, <3>3, <4>2
    <3> DEFINE sender == Codec(by.home, by.password)
               plain == Plain(c)
               encrypted == EncryptDataEvent(sender, plain, vaddr)
               packet == IF encrypted = {} THEN plain ELSE CHOOSE p \in encrypted : TRUE
    <3>4. received' = Events(Cut(packet, Len(packet) - n))
      BY ONLY <2>3 DEF Notified
    <3>5. Event(c) /\ vaddr \in Bytes(4)
      BY SentFields DEF Event
    <3>6. sender = session
      BY <3>3 DEF IsSwitch, session
    <3>7. codec = {session}
      BY <2>1, <3>1
    <3>8. Own = {Mine}
      <4>1. entry = {AsEntryData(Mine)}
        BY <3>1 DEF Loaded
      <4> QED BY <4>1, OwnMine
    <3> HIDE DEF sender
    <3>9. Words(sender.event) /\ codec = {sender}
      BY ONLY <2>1, <3>6, <3>7
    <3> HIDE DEF plain, encrypted, packet
    <3>10. /\ plain = Plain(c) /\ encrypted = EncryptDataEvent(sender, plain, vaddr)
           /\ packet = IF encrypted = {} THEN plain ELSE CHOOSE p \in encrypted : TRUE
      BY ONLY DEF plain, encrypted, packet
    <3>11. Events(Cut(packet, Len(packet) - 0)) = Received(c)
      BY ONLY <3>3, <3>5, <3>8, <3>9, <3>10, EventUnderstood
    <3> QED BY ONLY <3>3, <3>4, <3>11
  <2>4. CASE sent' = Nothing
    BY ONLY <2>4 DEF SwitchUnderstood, Nothing
  <2>5. CASE (\E layout \in Registrations : Registered(layout)) \/ SetUp \/ Disconnected \/ Handled
    BY <2>4, <2>5 DEF Registered, SetUp, Disconnected, Handled
  <2>6. ASSUME NEW list, NEW types, NEW remotes, AdvertisementSeen(list, types, remotes)
        PROVE  SwitchUnderstood'
    <3>1. sent'.kind = "advertisement"
      BY <2>6 DEF AdvertisementSeen
    <3> QED BY ONLY <3>1 DEF SwitchUnderstood
  <2>7. ASSUME NEW data, Unpadded(data) PROVE SwitchUnderstood'
    <3>1. sent'.kind = "padding"
      BY <2>7 DEF Unpadded
    <3> QED BY ONLY <3>1 DEF SwitchUnderstood
  <2>8. ASSUME NEW key, NEW block, Encrypted(key, block) PROVE SwitchUnderstood'
    <3>1. sent'.kind = "block"
      BY <2>8 DEF Encrypted
    <3> QED BY ONLY <3>1 DEF SwitchUnderstood
  <2>9. CASE UNCHANGED vars
    BY ONLY <1>2, <2>9 DEF vars, SwitchUnderstood, Events, Own
  <2> QED BY <1>2, <2>2, <2>3, <2>5, <2>6, <2>7, <2>8, <2>9 DEF Next
<1> QED BY <1>1, <1>2, StaysLoaded, PTL DEF Spec

(***************************************************************************)
(* The mixing of the columns.                                              *)
(***************************************************************************)
\* A byte times x, as the product takes it, is what _xtime returns.
LEMMA TimesXIsXTime ==
    ASSUME NEW p \in Byte
    PROVE  XTime(p) = IF p < 128 THEN 2 * p ELSE XorByte(2 * p - 256, 27)
<1>1. CASE p < 128
  <2>1. (2 * p) % 256 = 2 * p /\ 2 * p \in Byte /\ ~(p >= 128)
    BY <1>1 DEF Byte
  <2>2. XorByte(2 * p, 0) = 2 * p
    BY <2>1, XorCancels DEF ^^
  <2> QED BY <1>1, <2>1, <2>2 DEF XTime
<1>2. CASE ~(p < 128)
  <2>1. (2 * p) % 256 = 2 * p - 256 /\ p >= 128
    BY <1>2 DEF Byte
  <2> QED BY <1>2, <2>1 DEF XTime
<1> QED BY <1>1, <1>2

\* The bits of 2 and of 3.
LEMMA BitsOfFactors ==
    ASSUME NEW b \in {2, 3}
    PROVE  /\ Bit(b, 7) = 0 /\ Bit(b, 6) = 0 /\ Bit(b, 5) = 0 /\ Bit(b, 4) = 0
           /\ Bit(b, 3) = 0 /\ Bit(b, 2) = 0 /\ Bit(b, 1) = 1
           /\ Bit(b, 0) = IF b = 3 THEN 1 ELSE 0
<1>1. CASE b = 2
  BY <1>1, SMT DEF Bit
<1>2. CASE b = 3
  BY <1>2, SMT DEF Bit
<1> QED BY <1>1, <1>2

\* The factors of the matrix of the standard.
LEMMA TimesFactors ==
    ASSUME NEW a \in Byte, NEW b \in {2, 3}
    PROVE  Times(a, b) = XTime(a) ^^ (IF b = 3 THEN a ELSE 0)
<1> DEFINE Factor(i) == IF Bit(b, 8 - i) = 1 THEN a ELSE 0
           TimesX(p) == IF p < 128 THEN 2 * p ELSE XorByte(2 * p - 256, 27)
           Is(f) == f = [i \in 0..8 |-> IF i = 0 THEN 0 ELSE XorByte(TimesX(f[i - 1]), Factor(i))]
           product == CHOOSE f : Is(f)
           S == [i \in 0..8 |-> Byte]
           g == [i \in 1..8 |-> [x \in Byte |-> XorByte(TimesX(x), Factor(i))]]
<1>1. Times(a, b) = product[8]
  BY DEF Times
<1>2. ASSUME NEW i \in 1..8, NEW x \in Byte
      PROVE  XorByte(TimesX(x), Factor(i)) \in Byte
  <2>1. Factor(i) \in Byte
    BY DEF Byte
  <2>2. TimesX(x) \in Byte
    BY TimesXIsXTime, XTimeType
  <2> HIDE DEF Factor, TimesX
  <2> QED BY <2>1, <2>2, XorType DEF ^^
<1>3. \E f : Runs(f, 0, 8, 0, g) /\ \A i \in 0..8 : f[i] \in S[i]
  <2> DEFINE first == 0
             last == 8
  <2>1. first \in Nat /\ last \in Nat /\ first <= last /\ first \in S[first]
    BY DEF Byte
  <2>2. ASSUME NEW i \in (first + 1)..last, NEW x \in S[i - 1] PROVE g[i][x] \in S[i]
    <3> HIDE DEF TimesX, Factor
    <3>1. i \in 1..8 /\ i \in 0..8 /\ i - 1 \in 0..8
      OBVIOUS
    <3>2. S[i] = Byte /\ S[i - 1] = Byte
      BY <3>1
    <3>3. x \in Byte
      BY <3>2
    <3>4. g[i][x] = XorByte(TimesX(x), Factor(i))
      BY <3>1, <3>3
    <3> HIDE DEF g, S
    <3> QED BY <1>2, <3>1, <3>2, <3>3, <3>4
  <2> HIDE DEF first, last, S, g
  <2>3. \E f : Runs(f, first, last, first, g) /\ \A i \in first..last : f[i] \in S[i]
    BY <2>1, <2>2, Iteration
  <2> QED BY <2>3 DEF first, last
<1>4. \E f : Is(f)
  <2>1. PICK f : Runs(f, 0, 8, 0, g) /\ \A i \in 0..8 : f[i] \in S[i]
    BY <1>3
  <2>2. \A i \in 1..8 : g[i][f[i - 1]] = XorByte(TimesX(f[i - 1]), Factor(i))
    BY <2>1
  <2> HIDE DEF g, TimesX, Factor
  <2>3. Is(f)
    BY <2>1, <2>2 DEF Runs
  <2> QED BY <2>3
<1>5. Is(product)
  <2> HIDE DEF Is
  <2> QED BY <1>4
<1> HIDE DEF product
<1>6. product[0] = 0 /\ \A i \in 1..8 : product[i] = XorByte(TimesX(product[i - 1]), Factor(i))
  <2> HIDE DEF TimesX, Factor
  <2> QED BY <1>5
<1>7. /\ Factor(1) = 0 /\ Factor(2) = 0 /\ Factor(3) = 0 /\ Factor(4) = 0
      /\ Factor(5) = 0 /\ Factor(6) = 0 /\ Factor(7) = a
      /\ Factor(8) = IF b = 3 THEN a ELSE 0
  BY BitsOfFactors
<1>8. \A p \in Byte : TimesX(p) = XTime(p)
  BY TimesXIsXTime
<1>9. TimesX(0) = 0
  OBVIOUS
<1> HIDE DEF TimesX, Factor
<1>10. XorByte(0, 0) = 0 /\ XorByte(0, a) = a /\ 0 \in Byte
  BY XorCancels DEF ^^, Byte
<1>11. /\ product[1] = 0 /\ product[2] = 0 /\ product[3] = 0
       /\ product[4] = 0 /\ product[5] = 0 /\ product[6] = 0
  BY ONLY <1>6, <1>7, <1>9, <1>10
<1>12. product[7] = a
  BY ONLY <1>6, <1>7, <1>9, <1>10, <1>11
<1>13. product[8] = XorByte(XTime(a), IF b = 3 THEN a ELSE 0)
  BY ONLY <1>6, <1>7, <1>8, <1>12, a \in Byte
<1> QED BY <1>1, <1>13 DEF ^^

\* One row of the product, by the total of the column.
LEMMA RowMultiplied ==
    ASSUME NEW a \in Byte, NEW b \in Byte, NEW c \in Byte, NEW d \in Byte
    PROVE  (Times(a, 2) ^^ Times(b, 3)) ^^ (c ^^ d) = Mixed((a ^^ b) ^^ (c ^^ d), a, b)
<1> DEFINE x == XTime(a)
           y == XTime(b)
           e == c ^^ d
<1>1. x \in Byte /\ y \in Byte /\ e \in Byte /\ XTime(a ^^ b) = x ^^ y
  BY XTimeType, XTimeXor, XorType
<1>2. Times(a, 2) = x /\ Times(b, 3) = y ^^ b
  BY TimesFactors, XorCancels, <1>1
<1> HIDE DEF x, y, e
<1>3. (x ^^ (y ^^ b)) ^^ e = (x ^^ y) ^^ (b ^^ e)
  BY ONLY <1>1, b \in Byte, XorType, XorAssociates
<1>4. a ^^ (((a ^^ b) ^^ e) ^^ (x ^^ y)) = (b ^^ e) ^^ (x ^^ y)
  <2>1. (a ^^ b) ^^ e = a ^^ (b ^^ e)
    BY ONLY <1>1, a \in Byte, b \in Byte, XorAssociates
  <2>2. (a ^^ (b ^^ e)) ^^ (x ^^ y) = a ^^ ((b ^^ e) ^^ (x ^^ y))
    BY ONLY <1>1, a \in Byte, b \in Byte, XorType, XorAssociates
  <2>3. a ^^ (a ^^ ((b ^^ e) ^^ (x ^^ y))) = (b ^^ e) ^^ (x ^^ y)
    BY ONLY <1>1, a \in Byte, b \in Byte, XorType, XorTakenBack
  <2> QED BY ONLY <2>1, <2>2, <2>3
<1>5. (x ^^ y) ^^ (b ^^ e) = (b ^^ e) ^^ (x ^^ y)
  BY ONLY <1>1, b \in Byte, XorType, XorCommutes
<1> QED BY ONLY <1>1, <1>2, <1>3, <1>4, <1>5 DEF Mixed, e

\* A column is mixed as if it were multiplied by the matrix of the standard
\* (_mix_columns).
THEOREM MixesAsTheStandard == \A col \in Bytes(4) : MixColumn(col) = Multiplied(col)
<1> SUFFICES ASSUME NEW col \in Bytes(4) PROVE MixColumn(col) = Multiplied(col)
  OBVIOUS
<1> DEFINE a == col[1]
           b == col[2]
           c == col[3]
           d == col[4]
           t == (a ^^ b) ^^ (c ^^ d)
<1>1. a \in Byte /\ b \in Byte /\ c \in Byte /\ d \in Byte
  BY ColumnElements
<1>2. Multiplied(col) = <<(Times(a, 2) ^^ Times(b, 3)) ^^ (c ^^ d),
                          (Times(b, 2) ^^ Times(c, 3)) ^^ (d ^^ a),
                          (Times(c, 2) ^^ Times(d, 3)) ^^ (a ^^ b),
                          (Times(d, 2) ^^ Times(a, 3)) ^^ (b ^^ c)>>
  BY DEF Multiplied, ^^
<1>3. MixColumn(col) = <<Mixed(t, a, b), Mixed(t, b, c), Mixed(t, c, d), Mixed(t, d, a)>>
  BY DEF MixColumn, Mixed, ^^
<1> HIDE DEF a, b, c, d
<1>4. /\ (b ^^ c) ^^ (d ^^ a) = t /\ (c ^^ d) ^^ (a ^^ b) = t /\ (d ^^ a) ^^ (b ^^ c) = t
  <2>1. (b ^^ c) ^^ (d ^^ a) = (b ^^ a) ^^ (c ^^ d)
    <3>1. d ^^ a = a ^^ d
      BY ONLY <1>1, XorCommutes
    <3> QED BY ONLY <1>1, <3>1, XorExchange
  <2>2. b ^^ a = a ^^ b
    BY ONLY <1>1, XorCommutes
  <2> QED BY ONLY <1>1, <2>1, <2>2, XorType, XorCommutes DEF t
<1>5. /\ (Times(a, 2) ^^ Times(b, 3)) ^^ (c ^^ d) = Mixed(t, a, b)
      /\ (Times(b, 2) ^^ Times(c, 3)) ^^ (d ^^ a) = Mixed(t, b, c)
      /\ (Times(c, 2) ^^ Times(d, 3)) ^^ (a ^^ b) = Mixed(t, c, d)
      /\ (Times(d, 2) ^^ Times(a, 3)) ^^ (b ^^ c) = Mixed(t, d, a)
  BY <1>1, <1>4, RowMultiplied
<1> QED BY ONLY <1>2, <1>3, <1>5
==============================================================================

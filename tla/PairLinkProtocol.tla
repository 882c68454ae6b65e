-------------------------- MODULE PairLinkProtocol --------------------------
(***************************************************************************)
(* The codec of custom_components/pairlink/protocol.py: AES-128 in ECB mode  *)
(* with PKCS#7 padding and a repeating XOR mask, LOGIN requests and          *)
(* responses, data events and their plaintext.                               *)
(*                                                                           *)
(* bytes are sequences of Byte, so that index i of the code is i + 1 here.   *)
(* A block is a sequence of 16, in which byte 4c + r is row r of column c.   *)
(* Where the code returns a value or raises ValueError, the operator here    *)
(* returns the set of that value, and {} when it raises.                     *)
(***************************************************************************)
EXTENDS Integers, Sequences, SequencesExt

Byte == 0..255
Bytes(n) == [1..n -> Byte]

\* Python's ^, of the halves of a byte bit by bit and of bytes by their halves.
HalfXor ==
    [a \in 0..15 |-> [b \in 0..15 |->
        8 * (((a \div 8) + (b \div 8)) % 2) + 4 * (((a \div 4) + (b \div 4)) % 2)
            + 2 * (((a \div 2) + (b \div 2)) % 2) + ((a + b) % 2)]]
XorByte(a, b) == 16 * HalfXor[a \div 16][b \div 16] + HalfXor[a % 16][b % 16]
XorAll(s, t) == [i \in DOMAIN s |-> XorByte(s[i], t[i])]

Repeat(b, n) == [i \in 1..n |-> b]

-----------------------------------------------------------------------------
(***************************************************************************)
(* AES-128.                                                                *)
(***************************************************************************)
SBox ==
  << 99, 124, 119, 123, 242, 107, 111, 197,  48,   1, 103,  43, 254, 215, 171, 118,
    202, 130, 201, 125, 250,  89,  71, 240, 173, 212, 162, 175, 156, 164, 114, 192,
    183, 253, 147,  38,  54,  63, 247, 204,  52, 165, 229, 241, 113, 216,  49,  21,
      4, 199,  35, 195,  24, 150,   5, 154,   7,  18, 128, 226, 235,  39, 178, 117,
      9, 131,  44,  26,  27, 110,  90, 160,  82,  59, 214, 179,  41, 227,  47, 132,
     83, 209,   0, 237,  32, 252, 177,  91, 106, 203, 190,  57,  74,  76,  88, 207,
    208, 239, 170, 251,  67,  77,  51, 133,  69, 249,   2, 127,  80,  60, 159, 168,
     81, 163,  64, 143, 146, 157,  56, 245, 188, 182, 218,  33,  16, 255, 243, 210,
    205,  12,  19, 236,  95, 151,  68,  23, 196, 167, 126,  61, 100,  93,  25, 115,
     96, 129,  79, 220,  34,  42, 144, 136,  70, 238, 184,  20, 222,  94,  11, 219,
    224,  50,  58,  10,  73,   6,  36,  92, 194, 211, 172,  98, 145, 149, 228, 121,
    231, 200,  55, 109, 141, 213,  78, 169, 108,  86, 244, 234, 101, 122, 174,   8,
    186, 120,  37,  46,  28, 166, 180, 198, 232, 221, 116,  31,  75, 189, 139, 138,
    112,  62, 181, 102,  72,   3, 246,  14,  97,  53,  87, 185, 134, 193,  29, 158,
    225, 248, 152,  17, 105, 217, 142, 148, 155,  30, 135, 233, 206,  85,  40, 223,
    140, 161, 137,  13, 191, 230,  66, 104,  65, 153,  45,  15, 176,  84, 187,  22>>

Sub(b) == SBox[b + 1]

\* _SBOX.index(value).
InvSBox == [v \in Byte |-> CHOOSE b \in Byte : Sub(b) = v]

RCon == <<1, 2, 4, 8, 16, 32, 64, 128, 27, 54>>

SubBytes(block) == [i \in DOMAIN block |-> Sub(block[i])]
InvSubBytes(block) == [i \in DOMAIN block |-> InvSBox[block[i]]]

\* Row r of column c comes from column c + shift * r.
ShiftedRows(block, shift) ==
    [i \in 1..16 |->
        LET r == (i - 1) % 4
            c == (i - 1) \div 4
        IN block[4 * ((c + shift * r) % 4) + r + 1]]
ShiftRows(block) == ShiftedRows(block, 1)
InvShiftRows(block) == ShiftedRows(block, -1)

XTime(b) == XorByte((2 * b) % 256, IF b >= 128 THEN 27 ELSE 0)

\* Mutant: the last byte is mixed with the first one as it is by then.
MixColumnInPlace(col) ==
    LET total == XorByte(XorByte(col[1], col[2]), XorByte(col[3], col[4]))
        Mixed(a, b) == XorByte(a, XorByte(total, XTime(XorByte(a, b))))
        first == Mixed(col[1], col[2])
    IN <<first, Mixed(col[2], col[3]), Mixed(col[3], col[4]), Mixed(col[4], first)>>

MixColumn(col) ==
    LET total == XorByte(XorByte(col[1], col[2]), XorByte(col[3], col[4]))
        Mixed(a, b) == XorByte(a, XorByte(total, XTime(XorByte(a, b))))
    IN <<Mixed(col[1], col[2]), Mixed(col[2], col[3]),
         Mixed(col[3], col[4]), Mixed(col[4], col[1])>>

\* What _inv_mix_columns does to a column before it mixes it.
Premix(col) ==
    LET first == XTime(XTime(XorByte(col[1], col[3])))
        second == XTime(XTime(XorByte(col[2], col[4])))
    IN <<XorByte(col[1], first), XorByte(col[2], second),
         XorByte(col[3], first), XorByte(col[4], second)>>

Column(block, c) == SubSeq(block, 4 * c + 1, 4 * c + 4)
OfColumns(cols) == cols[0] \o cols[1] \o cols[2] \o cols[3]

MixColumns(block) == OfColumns([c \in 0..3 |-> MixColumn(Column(block, c))])
InvMixColumns(block) ==
    MixColumns(OfColumns([c \in 0..3 |-> Premix(Column(block, c))]))

\* The key schedule with one more word.
Extended(words) ==
    LET n == Len(words)
        last == words[n]
        turned == <<XorByte(Sub(last[2]), RCon[n \div 4]),
                    Sub(last[3]), Sub(last[4]), Sub(last[1])>>
        word == IF n % 4 = 0 THEN turned ELSE last
        previous == words[n - 3]
    IN Append(words, <<XorByte(word[1], previous[1]), XorByte(word[2], previous[2]),
                       XorByte(word[3], previous[3]), XorByte(word[4], previous[4])>>)

\* The words of the eleven round keys of a key.
RoundKeys(key) ==
    LET schedule[n \in 4..44] ==
            IF n = 4
            THEN <<Column(key, 0), Column(key, 1), Column(key, 2), Column(key, 3)>>
            ELSE Extended(schedule[n - 1])
    IN schedule[44]

AddRoundKey(block, words, r) ==
    XorAll(block, OfColumns([c \in 0..3 |-> words[4 * r + c + 1]]))

EncryptBlock(words, block) ==
    LET round[r \in 0..9] ==
            IF r = 0 THEN AddRoundKey(block, words, 0)
            ELSE AddRoundKey(MixColumns(ShiftRows(SubBytes(round[r - 1]))), words, r)
    IN AddRoundKey(ShiftRows(SubBytes(round[9])), words, 10)

\* The rounds back, r of them.
DecryptBlock(words, block) ==
    LET round[r \in 0..9] ==
            IF r = 0 THEN InvSubBytes(InvShiftRows(AddRoundKey(block, words, 10)))
            ELSE InvSubBytes(InvShiftRows(
                     InvMixColumns(AddRoundKey(round[r - 1], words, 10 - r))))
    IN AddRoundKey(round[9], words, 0)

\* _ecb_encrypt and _ecb_decrypt work on whole blocks.
Block(data, b) == SubSeq(data, 16 * b - 15, 16 * b)
EcbEncrypt(words, data) ==
    FlattenSeq([b \in 1..(Len(data) \div 16) |-> EncryptBlock(words, Block(data, b))])
EcbDecrypt(words, data) ==
    FlattenSeq([b \in 1..(Len(data) \div 16) |-> DecryptBlock(words, Block(data, b))])

-----------------------------------------------------------------------------
(***************************************************************************)
(* Padding and mask.                                                       *)
(***************************************************************************)
Pad(data) == LET n == 16 - (Len(data) % 16) IN data \o Repeat(n, n)

\* Mutant: only the last byte is looked at.
UnpadTrusting(data) ==
    { SubSeq(data, 1, Len(data) - n) :
        n \in {m \in 1..16 : data # <<>> /\ Len(data) % 16 = 0 /\ data[Len(data)] = m} }

Unpad(data) ==
    { SubSeq(data, 1, Len(data) - n) :
        n \in {m \in 1..16 : /\ data # <<>> /\ Len(data) % 16 = 0
                             /\ \A i \in (Len(data) - m + 1)..Len(data) : data[i] = m} }

Mask(data, mask) ==
    [i \in DOMAIN data |-> XorByte(data[i], mask[((i - 1) % Len(mask)) + 1])]

-----------------------------------------------------------------------------
(***************************************************************************)
(* PairLinkCodec: its home ID and password and the two key schedules.      *)
(***************************************************************************)
LoginKey == <<76, 79, 71, 73, 78, 75, 69, 89>>   \* b"LOGINKEY"
EventKey == <<69, 86, 69, 78, 84, 75, 69, 89>>   \* b"EVENTKEY"

\* Mutant: the home ID is interleaved with itself.
InterleavedWithItself(homeId, password) == [i \in 1..8 |-> homeId[(i + 1) \div 2]]

Interleaved(homeId, password) ==
    [i \in 1..8 |-> IF i % 2 = 1 THEN homeId[(i + 1) \div 2] ELSE password[i \div 2]]

Codec(homeId, password) ==
    [home |-> homeId, password |-> password,
     login |-> RoundKeys(Interleaved(homeId, password) \o LoginKey),
     event |-> RoundKeys(Interleaved(homeId, password) \o EventKey)]

MakeLogin(codec, ownVaddr) ==
    <<1, 25>> \o EncryptBlock(codec.login,
                     codec.home \o codec.password \o ownVaddr \o Repeat(4, 4))

\* Mutant: the length of what the answer holds is not checked.
ParseLoginResponseOfAnyLength(codec, packet) ==
    IF Len(packet) = 18 /\ IsPrefix(<<2, 25>>, packet)
    THEN { SubSeq(plain, 9, 12) :
             plain \in {p \in Unpad(DecryptBlock(codec.login, SubSeq(packet, 3, 18))) :
                           Len(p) > 11 /\ IsPrefix(codec.home \o codec.password, p)} }
    ELSE {}

\* The peer's virtual address, if the answer is for these credentials.
ParseLoginResponse(codec, packet) ==
    IF Len(packet) = 18 /\ IsPrefix(<<2, 25>>, packet)
    THEN { SubSeq(plain, 9, 12) :
             plain \in {p \in Unpad(DecryptBlock(codec.login, SubSeq(packet, 3, 18))) :
                           Len(p) = 12 /\ IsPrefix(codec.home \o codec.password, p)} }
    ELSE {}

\* From category 6 to the plaintext of category 3.
DecryptDataEvent(codec, packet, vaddr) ==
    IF Len(packet) >= 22 /\ packet[1] = 6 /\ (Len(packet) - 6) % 16 = 0
    THEN LET cipher == Mask(SubSeq(packet, 7, Len(packet)), vaddr)
         IN { <<3>> \o SubSeq(packet, 2, 6) \o payload :
                payload \in Unpad(EcbDecrypt(codec.event, cipher)) }
    ELSE {}

EncryptDataEvent(codec, packet, vaddr) ==
    IF Len(packet) >= 6 /\ packet[1] = 3
    THEN LET cipher == EcbEncrypt(codec.event, Pad(SubSeq(packet, 7, Len(packet))))
         IN { <<6>> \o SubSeq(packet, 2, 6) \o Mask(cipher, vaddr) }
    ELSE {}

ParseRemoteEvent(packet) ==
    IF Len(packet) >= 19 /\ packet[1] = 3 /\ packet[6] = 33 /\ packet[11] = 82
    THEN { [destination |-> SubSeq(packet, 2, 5), origin |-> SubSeq(packet, 7, 10),
            remote |-> SubSeq(packet, 12, 17), channel |-> packet[18],
            command |-> packet[19], extra |-> SubSeq(packet, 20, Len(packet))] }
    ELSE {}
=============================================================================

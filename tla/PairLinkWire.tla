---------------------------- MODULE PairLinkWire ----------------------------
(***************************************************************************)
(* Bytes from a switch to the code and what the code makes of them: the    *)
(* advertisement a switch is registered from, the entry stored and loaded, *)
(* the LOGIN response, and the notifications of one connection.            *)
(*                                                                         *)
(* sent says what the switch meant, and received is what the code makes of *)
(* the bytes; the properties relate the two.  Nothing is lost here: what   *)
(* gets lost is the matter of PairLinkConnection and PairLinkNotifications. *)
(***************************************************************************)
EXTENDS PairLinkProtocol, PairLinkDiscovery

CONSTANTS
    Address, Light,     \* What an advertisement does not tell of credentials.
    Switch,             \* The home ID, password, remote ID and channel it has.
    Layouts,            \* Values of advertisements, as their senders mean them.
    Lists,              \* Advertisements of several values.
    Registrations,      \* Layouts of the switch's own registration.
    Peers,              \* Home IDs and passwords of whoever answers and sends.
    Vaddrs,             \* Virtual addresses.
    Answers,            \* Lengths of the body of a LOGIN response.
    Contents,           \* Remote events, as their senders mean them.
    CutContents,        \* Those that are also sent cut short.
    Padded,             \* Blocks a decryption may give.
    Trials              \* Keys and blocks.

\* The switch and what it is registered with have fields of the sizes that
\* PairLinkCredentials wants.
ASSUME SwitchFields ==
    /\ Switch.home \in Bytes(4) /\ Switch.password \in Bytes(4) /\ IsAscii(Switch.password)
    /\ Switch.remote \in Bytes(6) /\ Switch.channel \in Byte /\ Light \in Bytes(6)

\* The first markers of a value are the ones its sender put there.
WellLaid(l) ==
    /\ l.type \in Byte /\ l.home \in Bytes(4) /\ l.password \in Bytes(4)
    /\ l.remote \in Bytes(6) /\ l.channel \in Byte
    /\ l.prefix \in Seq(Byte) /\ Find(l.prefix \o Marker, Marker, 1) = {Len(l.prefix) + 1}
    /\ l.gap \in Seq(Byte) /\ Find(l.gap \o LinkMarker, LinkMarker, 1) = {Len(l.gap) + 1}

ASSUME LayoutsWellLaid ==
    \A l \in Layouts \cup Registrations \cup UNION {Range(list) : list \in Lists} : WellLaid(l)

ASSUME RegistrationsAreOfSwitch ==
    \A l \in Registrations : /\ l.type = Registration
                             /\ l.home = Switch.home /\ l.password = Switch.password
                             /\ l.remote = Switch.remote /\ l.channel = Switch.channel

\* An answer is one block, and its category keeps an event in plaintext from
\* being taken for an encrypted one.
ASSUME SentFields ==
    /\ Vaddrs \subseteq Bytes(4) /\ Answers \subseteq 0..15 /\ Padded \subseteq Seq(Byte)
    /\ \A c \in Contents \cup CutContents :
          /\ c.category \in Byte \ {6} /\ c.class \in Byte /\ c.tag \in Byte
          /\ c.destination \in Bytes(4) /\ c.origin \in Bytes(4) /\ c.remote \in Bytes(6)
          /\ c.channel \in Byte /\ c.command \in Byte /\ c.extra \in Seq(Byte)

VARIABLES
    entry,      \* The entry data stored, if any.
    codec,      \* PairLinkSession.codec, if the entry is loaded.
    peer,       \* PairLinkConnection.peer_crypto_vaddr, if it is known.
    sent,
    received

vars == <<entry, codec, peer, sent, received>>

Nothing == [kind |-> "nothing"]

Init == /\ entry = {} /\ codec = {} /\ peer = {}
        /\ sent = Nothing /\ received = {}

Cut(bytes, n) == SubSeq(bytes, 1, n)

-----------------------------------------------------------------------------
(***************************************************************************)
(* Advertisements.                                                         *)
(***************************************************************************)
\* A value as its sender lays it out; the company's bytes may come first.
Value(l) ==
    l.prefix \o Marker \o <<l.type>> \o l.home
        \o (IF l.type = Idle THEN l.remote
            ELSE l.password \o l.gap \o LinkMarker \o l.remote \o <<l.channel>>)

AdvertisementSeen(list, types, remotes) ==
    /\ sent = Nothing
    /\ sent' = [kind |-> "advertisement", list |-> list,
                types |-> types, remotes |-> remotes]
    /\ received' = FindAdvertisement(
                       [i \in DOMAIN list |-> Cut(Value(list[i].layout), list[i].length)],
                       types, remotes)
    /\ UNCHANGED <<entry, codec, peer>>

CredentialsOf(a) ==
    Credentials([address |-> Address, light |-> Light, remote |-> a.remote,
                 home |-> a.home, password |-> a.password, channel |-> a.channel])

\* The registration flow takes the credentials and creates the entry.
Registered(layout) ==
    /\ sent = Nothing /\ entry = {}
    /\ LET found == FindAdvertisement(<<Value(layout)>>, {Registration}, {Switch.remote})
       IN entry' = {AsEntryData(c) : c \in UNION {CredentialsOf(a) : a \in found}}
    /\ UNCHANGED <<codec, peer, sent, received>>

-----------------------------------------------------------------------------
(***************************************************************************)
(* The session of the entry.                                               *)
(***************************************************************************)
Own == UNION {FromEntryData(data) : data \in entry}

SetUp ==
    /\ sent = Nothing /\ entry # {} /\ codec = {}
    /\ codec' = {Codec(own.home, own.password) : own \in Own}
    /\ UNCHANGED <<entry, peer, sent, received>>

\* A PairLinkConnection knows its peer from the LOGIN response.
LoginAnswered(by, vaddr, length) ==
    /\ sent = Nothing /\ peer = {}
    /\ LET answerer == Codec(by.home, by.password)
           body == Cut(by.home \o by.password \o vaddr \o vaddr, length)
           packet == <<2, 25>> \o EncryptBlock(answerer.login, Pad(body))
       IN \E own \in codec : received' = ParseLoginResponse(own, packet)
    /\ peer' = received'
    /\ sent' = [kind |-> "login", by |-> by, vaddr |-> vaddr, length |-> length]
    /\ UNCHANGED <<entry, codec>>

Disconnected ==
    /\ sent = Nothing /\ peer # {}
    /\ peer' = {}
    /\ UNCHANGED <<entry, codec, sent, received>>

\* A remote event as its sender lays it out.
Plain(c) ==
    <<c.category>> \o c.destination \o <<c.class>> \o c.origin \o <<c.tag>>
        \o c.remote \o <<c.channel, c.command>> \o c.extra

Commands == {1, 2}

IsOwn(event) ==
    /\ \E own \in Own : event.remote = own.remote /\ event.channel = own.channel
    /\ event.command \in Commands

\* What _process_packet hands to the deduplicator.
Events(packet) ==
    LET decrypted == UNION {DecryptDataEvent(own, packet, vaddr) :
                                own \in codec, vaddr \in peer}
    IN IF IsPrefix(<<6>>, packet)
       THEN {event \in UNION {ParseRemoteEvent(plain) : plain \in decrypted} : IsOwn(event)}
       ELSE {}

\* A data event whole or cut, in plaintext where its category is not 3.
Notified(by, vaddr, content, n) ==
    /\ sent = Nothing /\ codec # {}
    /\ LET plain == Plain(content)
           encrypted == EncryptDataEvent(Codec(by.home, by.password), plain, vaddr)
           packet == IF encrypted = {} THEN plain ELSE CHOOSE p \in encrypted : TRUE
       IN /\ n <= Len(packet)
          /\ received' = Events(Cut(packet, Len(packet) - n))
    /\ sent' = [kind |-> "event", by |-> by, vaddr |-> vaddr,
                content |-> content, missing |-> n]
    /\ UNCHANGED <<entry, codec, peer>>

-----------------------------------------------------------------------------
(***************************************************************************)
(* The cipher and its padding, on their own.                               *)
(***************************************************************************)
Unpadded(data) ==
    /\ sent = Nothing /\ entry = {}
    /\ sent' = [kind |-> "padding", data |-> data]
    /\ received' = Unpad(data)
    /\ UNCHANGED <<entry, codec, peer>>

Encrypted(key, block) ==
    /\ sent = Nothing /\ entry = {}
    /\ sent' = [kind |-> "block", words |-> RoundKeys(key), key |-> key, block |-> block]
    /\ received' = {EncryptBlock(sent'.words, block)}
    /\ UNCHANGED <<entry, codec, peer>>

\* The handler has returned.
Handled ==
    /\ sent # Nothing
    /\ sent' = Nothing /\ received' = {}
    /\ UNCHANGED <<entry, codec, peer>>

Next ==
    \/ \E layout \in Layouts : \E n \in 0..Len(Value(layout)) :
          AdvertisementSeen(<<[layout |-> layout, length |-> n]>>,
                            {Idle, Registration}, {Switch.remote})
    \/ \E list \in Lists, types \in {{Idle}, {Registration}, {Idle, Registration}} :
          AdvertisementSeen([i \in DOMAIN list |->
                                [layout |-> list[i], length |-> Len(Value(list[i]))]],
                            types, {Switch.remote})
    \/ \E layout \in Registrations : Registered(layout)
    \/ SetUp
    \/ \E by \in Peers, vaddr \in Vaddrs, length \in Answers :
          LoginAnswered(by, vaddr, length)
    \/ Disconnected
    \/ \E by \in Peers, vaddr \in Vaddrs, content \in Contents :
          Notified(by, vaddr, content, 0)
    \/ \E by \in Peers, vaddr \in Vaddrs, content \in CutContents :
          \E n \in 1..(Len(Plain(content)) + 16) : Notified(by, vaddr, content, n)
    \/ \E data \in Padded : Unpadded(data)
    \/ \E trial \in Trials : Encrypted(trial.key, trial.block)
    \/ Handled

Spec == Init /\ [][Next]_vars

-----------------------------------------------------------------------------
(***************************************************************************)
(* Properties.                                                             *)
(***************************************************************************)
\* What a layout says of its sender.
Told(l) == IF l.type = Idle
           THEN [type |-> Idle, home |-> l.home, remote |-> l.remote]
           ELSE [type |-> Registration, home |-> l.home, password |-> l.password,
                 remote |-> l.remote, channel |-> l.channel]

\* An advertisement is understood exactly as its sender laid it out, whatever
\* precedes the marker and lies between the password and the second marker: one
\* cut short at any byte, of another type, or with a password that is not ASCII
\* tells nothing, and of several values the first one asked for is taken
\* (parse_manufacturer_value, find_advertisement).
AdvertisementParsedAsLaidOut ==
    sent.kind = "advertisement" =>
        LET Laid(i) == sent.list[i].layout
            hits == { i \in DOMAIN sent.list :
                        /\ sent.list[i].length = Len(Value(Laid(i)))
                        /\ Laid(i).type \in sent.types /\ Laid(i).remote \in sent.remotes
                        /\ Laid(i).type = Registration => IsAscii(Laid(i).password) }
        IN received = {Told(Laid(i)) : i \in {h \in hits : \A g \in hits : h <= g}}

\* Whether a switch with these credentials finds them in a LOGIN request.
Understands(by, packet) ==
    /\ Len(packet) = 18 /\ IsPrefix(<<1, 25>>, packet)
    /\ Unpad(DecryptBlock(Codec(by.home, by.password).login, SubSeq(packet, 3, 18)))
           = {by.home \o by.password \o Repeat(0, 4)}

\* Whoever has the home ID and the password of the switch.
IsSwitch(by) == by.home = Switch.home /\ by.password = Switch.password

\* The entry stored by a registration and loaded again understands the switch it
\* was registered from.  The switch finds the credentials in the LOGIN request;
\* of its answers the one with an address is taken.  A whole event of any length
\* is received exactly as it was sent, once the login has told the address;
\* before it, of another class, tag, remote, channel or command, or in plaintext,
\* nothing is (as_entry_data, from_entry_data, make_login, parse_login_response,
\* encrypt_data_event, _process_packet).
SwitchUnderstood ==
    /\ sent.kind = "login" /\ IsSwitch(sent.by) =>
          /\ received = IF sent.length = 12 THEN {sent.vaddr} ELSE {}
          /\ \A own \in codec : Understands(sent.by, MakeLogin(own, Repeat(0, 4)))
    /\ sent.kind = "event" /\ IsSwitch(sent.by) /\ sent.missing = 0 /\ peer \subseteq {sent.vaddr} =>
          LET c == sent.content
              meant == /\ peer # {}
                       /\ c.category = 3 /\ c.class = 33 /\ c.tag = 82
                       /\ c.remote = Switch.remote /\ c.channel = Switch.channel
                       /\ c.command \in {1, 2}
          IN received = IF meant
                        THEN {[destination |-> c.destination, origin |-> c.origin,
                               remote |-> c.remote, channel |-> c.channel,
                               command |-> c.command, extra |-> c.extra]}
                        ELSE {}

\* Nothing is understood of a switch of another home or of another password of
\* the same home, which does not understand the LOGIN request either, of an
\* event cut short, or of one with another address than the login told
\* (parse_login_response, decrypt_data_event).  The code has no checksum to tell
\* these by: it relies on what decrypts not ending like padding, so that this is
\* a property of the bytes a run takes and not of all.
StrangersIgnored ==
    /\ sent.kind = "login" /\ ~IsSwitch(sent.by) =>
          /\ received = {}
          /\ \A own \in codec : ~Understands(sent.by, MakeLogin(own, Repeat(0, 4)))
    /\ sent.kind = "event"
          /\ (~IsSwitch(sent.by) \/ sent.missing > 0 \/ ~(peer \subseteq {sent.vaddr})) =>
          received = {}

\* What is unpadded is exactly what padding could have made (_pkcs7_pad,
\* _pkcs7_unpad).
UnpadAcceptsOnlyPadded ==
    sent.kind = "padding" =>
        received = { d \in {Cut(sent.data, n) : n \in 0..Len(sent.data)} : Pad(d) = sent.data }

-----------------------------------------------------------------------------
(***************************************************************************)
(* AES by the arithmetic of GF(2^8) that FIPS 197 defines it with.         *)
(***************************************************************************)
Bit(a, i) == (a \div 2^i) % 2

\* The product of two bytes modulo x^8 + x^4 + x^3 + x + 1.
Times(a, b) ==
    LET TimesX(p) == IF p < 128 THEN 2 * p ELSE XorByte(2 * p - 256, 27)
        product[i \in 0..8] ==
            IF i = 0 THEN 0
            ELSE XorByte(TimesX(product[i - 1]), IF Bit(b, 8 - i) = 1 THEN a ELSE 0)
    IN product[8]

\* SubByte(b) is the affine map of the inverse of b; this undoes the map.
AffineInverse(s) ==
    LET Row(i) == 2^i * ((Bit(s, (i + 2) % 8) + Bit(s, (i + 5) % 8)
                            + Bit(s, (i + 7) % 8) + Bit(5, i)) % 2)
    IN Row(0) + Row(1) + Row(2) + Row(3) + Row(4) + Row(5) + Row(6) + Row(7)

Substituted(b, s) ==
    IF b = 0 THEN AffineInverse(s) = 0 ELSE Times(b, AffineInverse(s)) = 1

\* A column times the matrix whose rows are the rotations of 2 3 1 1.
Multiplied(col) ==
    LET Row(i, j, k, l) == XorByte(XorByte(Times(col[i], 2), Times(col[j], 3)),
                                   XorByte(col[k], col[l]))
    IN <<Row(1, 2, 3, 4), Row(2, 3, 4, 1), Row(3, 4, 1, 2), Row(4, 1, 2, 3)>>

\* The first example of FIPS 197's appendix C.
KnownKey == [i \in 1..16 |-> i - 1]
KnownBlock == [i \in 1..16 |-> 17 * (i - 1)]
KnownCipher ==
    <<105, 196, 224, 216, 106, 123, 4, 48, 216, 205, 183, 128, 112, 180, 197, 90>>

\* The substitution and the mixing are those of AES, decryption takes back the
\* encryption under any key, and the example of the standard comes out
\* (AES128.encrypt_block, AES128.decrypt_block).
CipherIsAes ==
    sent.kind = "block" =>
        /\ \A c \in received : DecryptBlock(sent.words, c) = sent.block
        /\ \A b \in Range(sent.block) : Substituted(b, Sub(b))
        /\ \A c \in 0..3 : MixColumn(Column(sent.block, c)) = Multiplied(Column(sent.block, c))
        /\ sent.key = KnownKey /\ sent.block = KnownBlock => received = {KnownCipher}
=============================================================================

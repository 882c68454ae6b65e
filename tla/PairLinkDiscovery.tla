-------------------------- MODULE PairLinkDiscovery -------------------------
(***************************************************************************)
(* What a PairLink advertisement means: the parser of                      *)
(* custom_components/pairlink/discovery.py, and the credentials and entry  *)
(* data of custom_components/pairlink/models.py made from it.              *)
(*                                                                         *)
(* As in PairLinkProtocol bytes are sequences of numbers, and an operator  *)
(* returns a set that is empty where the code returns None or raises       *)
(* ValueError.                                                             *)
(***************************************************************************)
EXTENDS Integers, Sequences, SequencesExt

Marker == <<192, 255>>          \* C0 FF
LinkMarker == <<240, 251>>      \* F0 FB
Idle == 5
Registration == 13

\* bytes.find(part, from): the first place of part, if it has one.
Find(data, part, from) ==
    { i \in from..Len(data) :
        /\ IsPrefix(part, SubSeq(data, i, Len(data)))
        /\ \A j \in from..(i - 1) : ~IsPrefix(part, SubSeq(data, j, Len(data))) }

IsAscii(text) == \A i \in DOMAIN text : text[i] < 128

ParseIdle(data) ==
    IF Len(data) >= 13 /\ data[3] = Idle
    THEN {[type |-> Idle, home |-> SubSeq(data, 4, 7), remote |-> SubSeq(data, 8, 13)]}
    ELSE {}

\* The remote ID and its channel follow a marker somewhere after the password.
Link(data, l) ==
    [type |-> Registration, home |-> SubSeq(data, 4, 7), password |-> SubSeq(data, 8, 11),
     remote |-> SubSeq(data, l + 2, l + 7), channel |-> data[l + 8]]

\* Mutant: the marker is looked for in the password and the home ID too.
ParseRegistrationAnywhere(data) ==
    IF Len(data) >= 20 /\ data[3] = Registration /\ IsAscii(SubSeq(data, 8, 11))
    THEN {Link(data, l) : l \in {k \in Find(data, LinkMarker, 1) : Len(data) >= k + 8}}
    ELSE {}

ParseRegistration(data) ==
    IF Len(data) >= 20 /\ data[3] = Registration /\ IsAscii(SubSeq(data, 8, 11))
    THEN {Link(data, l) : l \in {k \in Find(data, LinkMarker, 12) : Len(data) >= k + 8}}
    ELSE {}

\* parse_manufacturer_value; only the first marker of a value is looked at.
ParseManufacturerValue(value) ==
    UNION { ParseIdle(data) \cup ParseRegistration(data) :
              data \in {SubSeq(value, i, Len(value)) : i \in Find(value, Marker, 1)} }

\* find_advertisement: the first value of a type and of a switch asked for.
\* Every advertisement parsed is complete.
FindAdvertisement(values, types, remotes) ==
    LET Asked(a) == a.type \in types /\ a.remote \in remotes
        hits == { i \in DOMAIN values :
                    \E a \in ParseManufacturerValue(values[i]) : Asked(a) }
    IN UNION { ParseManufacturerValue(values[i]) :
                 i \in {h \in hits : \A g \in hits : h <= g} }

-----------------------------------------------------------------------------
(***************************************************************************)
(* PairLinkCredentials and the data of a config entry.                     *)
(***************************************************************************)
\* __post_init__: the credentials, unless a field has the wrong size.
Credentials(c) ==
    IF /\ Len(c.remote) = 6 /\ Len(c.home) = 4 /\ Len(c.light) = 6
       /\ Len(c.password) = 4 /\ IsAscii(c.password)
       /\ c.channel \in 0..255
    THEN {c} ELSE {}

\* A hexadecimal string is the sequence of its digits.
Hex(data) == [i \in 1..(2 * Len(data)) |->
                 IF i % 2 = 1 THEN data[(i + 1) \div 2] \div 16 ELSE data[i \div 2] % 16]
FromHex(digits) ==
    IF Len(digits) % 2 = 0
    THEN {[i \in 1..(Len(digits) \div 2) |-> 16 * digits[2 * i - 1] + digits[2 * i]]}
    ELSE {}

AsEntryData(c) ==
    [address |-> c.address, remote_id |-> Hex(c.remote), home_id |-> Hex(c.home),
     password |-> c.password, remote_channel |-> c.channel, light_id |-> Hex(c.light)]

\* A password that is not ASCII does not encode.
FromEntryData(data) ==
    UNION { Credentials([address |-> data.address, remote |-> remote, home |-> home,
                         password |-> data.password, channel |-> data.remote_channel,
                         light |-> light]) :
              remote \in FromHex(data.remote_id), home \in FromHex(data.home_id),
              light \in FromHex(data.light_id) }
=============================================================================

--------------------------- MODULE MCPairLinkWire ---------------------------
(***************************************************************************)
(* The bytes PairLinkWire is model-checked with: a switch, another of its  *)
(* home and one of another home, layouts and events that differ from it in *)
(* one field each, and every length at which something can be cut.         *)
(***************************************************************************)
EXTENDS PairLinkWire

TheLight == <<1, 2, 3, 4, 5, 6>>
Remote == <<188, 154, 120, 86, 52, 18>>
Text == <<84, 69, 83, 84>>   \* "TEST"

\* The home ID holds the second marker of a registration.
TheSwitch == [home |-> <<17, 240, 251, 68>>, password |-> Text,
              remote |-> Remote, channel |-> 1]
SameHome == [TheSwitch EXCEPT !.password = <<84, 69, 83, 85>>]
OtherHome == [TheSwitch EXCEPT !.home = <<17, 240, 251, 69>>]

Layout(prefix, type, password, gap, remote) ==
    [prefix |-> prefix, type |-> type, home |-> TheSwitch.home, password |-> password,
     gap |-> gap, remote |-> remote, channel |-> TheSwitch.channel]

Companies == {<<>>, <<255, 255>>, <<192>>}
Gaps == {<<>>, <<163>>, <<240>>, <<251, 240>>}
TheRegistrations == {Layout(prefix, Registration, Text, gap, Remote) :
                         prefix \in Companies, gap \in Gaps}
Announcements == {Layout(prefix, Idle, Text, <<>>, Remote) : prefix \in Companies}
Strange == {Layout(<<>>, 153, Text, <<163>>, Remote),
            Layout(<<>>, Registration, <<84, 69, 83, 128>>, <<163>>, Remote)}
TheLayouts == TheRegistrations \cup Announcements \cup Strange

\* Another switch of the home, and a value that is nobody's.
Others == {Layout(<<>>, type, Text, <<163>>, Reverse(Remote)) : type \in {Idle, Registration}}
Listed == {Layout(<<255, 255>>, type, Text, <<163>>, Remote) : type \in {Idle, Registration}}
              \cup Others \cup Strange
TheLists == {<<>>} \cup {<<a, b>> : a, b \in Listed}

ThePeers == {[home |-> s.home, password |-> s.password] : s \in {TheSwitch, SameHome, OtherHome}}
TheVaddrs == {<<161, 178, 195, 212>>, <<0, 0, 0, 0>>}
TheAnswers == {11, 12, 13}

Content(extra) ==
    [category |-> 3, destination |-> <<255, 255, 255, 255>>, class |-> 33,
     origin |-> <<0, 0, 0, 0>>, tag |-> 82, remote |-> Remote,
     channel |-> 1, command |-> 1, extra |-> extra]
Extra(n) == [i \in 1..n |-> n]

\* The payload of an event with n extra bytes has n + 13.
Whole == {Content(Extra(n)) : n \in 0..4 \cup {18, 19, 20}}
Base == Content(<<0>>)
Varied == { [Base EXCEPT !.category = 4], [Base EXCEPT !.class = 34],
            [Base EXCEPT !.tag = 83], [Base EXCEPT !.remote = Reverse(Remote)],
            [Base EXCEPT !.channel = 2], [Base EXCEPT !.command = 0],
            [Base EXCEPT !.command = 2], [Base EXCEPT !.command = 3] }
TheContents == Whole \cup Varied
TheCutContents == {Base, Content(Extra(19))}

\* Blocks of sevens whose last k bytes are n, and two of them.
Ending(k, n) == [i \in 1..16 |-> IF i > 16 - k THEN n ELSE 7]
ThePadded ==
    {Ending(k, n) : k \in 1..16, n \in {0, 1, 2, 7, 8, 15, 16, 17}}
        \cup {Ending(16, 16) \o Ending(k, 16) : k \in {15, 16}} \cup {<<>>, <<1>>, Ending(1, 1) \o <<1>>}

\* Sixteen blocks that hold every byte, and the example of the standard.
TheTrials ==
    {[key |-> [i \in 1..16 |-> 0], block |-> [i \in 1..16 |-> 16 * n + i - 1]] : n \in 0..15}
        \cup {[key |-> KnownKey, block |-> KnownBlock]}
=============================================================================

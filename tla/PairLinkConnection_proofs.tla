---------------------- MODULE PairLinkConnection_proofs ----------------------
(***************************************************************************)
(* Lemmas about PairLinkConnection, for whoever owns a connection.          *)
(***************************************************************************)
EXTENDS PairLinkConnection, TLAPS

\* The awaits of the handshake, spelt out; each step leads to one of them.
LEMMA HandshakeNames ==
    /\ DOMAIN AfterHandshakeStep =
           {"establish", "start_notify", "write_login", "login_response",
            "write_welcome", "delay"}
    /\ HandshakePcs =
           {"establish", "start_notify", "write_login", "login_response",
            "write_welcome", "delay", "write_status"}
    /\ \A c \in DOMAIN AfterHandshakeStep : AfterHandshakeStep[c] \in HandshakePcs
  BY DEF AfterHandshakeStep, HandshakePcs

\* Everything that is done to a connection keeps it in range.
LEMMA ConnectionTyped ==
    ASSUME ConnectionTypeOK, NEW p \in Party,
           \/ NewConnection(p) \/ Detach(p) \/ Disconnect(p)
           \/ Established(p) \/ Proceed(p) \/ LinkDrop(p) \/ LinkSilent(p)
           \/ UNCHANGED connectionVars
    PROVE  ConnectionTypeOK'
<1> USE DEF ConnectionTypeOK, LinkStates, connectionVars
<1>1. CASE NewConnection(p) \/ Detach(p) \/ Disconnect(p)
  BY <1>1 DEF NewConnection, Detach, Disconnect
<1>2. CASE Established(p) \/ Proceed(p) \/ UNCHANGED connectionVars
  BY <1>2 DEF Established, Proceed
<1>3. CASE LinkDrop(p) \/ LinkSilent(p)
  BY <1>3 DEF LinkDrop, LinkSilent
<1> QED BY <1>1, <1>2, <1>3
=============================================================================

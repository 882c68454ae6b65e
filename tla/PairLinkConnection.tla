------------------------- MODULE PairLinkConnection -------------------------
(***************************************************************************)
(* One authenticated BLE connection to one PairLink switch: the class      *)
(* PairLinkConnection of custom_components/pairlink/session.py.            *)
(*                                                                         *)
(* A party is whoever owns a connection object: the background session of  *)
(* a configured switch, or a config flow that validates credentials.  The  *)
(* handshake is one coroutine that the owner awaits, so the owner's        *)
(* program counter pc[p] says at which `await` the handshake is suspended: *)
(* an action is what runs between two awaits.                              *)
(***************************************************************************)
CONSTANT Party

VARIABLES
    pc,           \* the await at which each party is suspended
    client,       \* connection._client is not None
    link,         \* the GATT link behind the party's latest client
    disconnected, \* connection._disconnect_event is set
    closing       \* connection._closing

connectionVars == <<client, link, disconnected, closing>>

(***************************************************************************)
(* A link is up, down, or silent: the operating system or the access point *)
(* still reports it, but nothing travels over it any more.                 *)
(***************************************************************************)
LinkStates == {"up", "silent", "down"}

\* The handshake order LOGIN, response, WELCOME, DEVICE_STATUS.
AfterHandshakeStep ==
    [establish      |-> "start_notify",
     start_notify   |-> "write_login",
     write_login    |-> "login_response",
     login_response |-> "write_welcome",
     write_welcome  |-> "delay",
     delay          |-> "write_status"]

HandshakePcs == DOMAIN AfterHandshakeStep \cup {"write_status"}

\* Awaits of a Bleak call, which may raise whatever Bleak raises.
GattCalls == {"establish", "start_notify", "write_login",
              "write_welcome", "write_status"}

ConnectionTypeOK ==
    /\ client \in [Party -> BOOLEAN]
    /\ link \in [Party -> LinkStates]
    /\ disconnected \in [Party -> BOOLEAN]
    /\ closing \in [Party -> BOOLEAN]

ConnectionInit ==
    /\ client = [p \in Party |-> FALSE]
    /\ link = [p \in Party |-> "down"]
    /\ disconnected = [p \in Party |-> FALSE]
    /\ closing = [p \in Party |-> FALSE]

-----------------------------------------------------------------------------
\* connection.is_connected
IsConnected(p) == client[p] /\ link[p] # "down" /\ ~disconnected[p]

\* Mutant: only a link that answers is released.
NeedsReleaseIfAlive(p) == client[p] /\ link[p] = "up"

\* async_close finds a client that Bleak reports connected: it has to await
\* stop_notify and then disconnect.
NeedsRelease(p) == client[p] /\ link[p] # "down"

\* PairLinkConnection(credentials, codec): the old object is forgotten, its
\* link is whatever it was.
NewConnection(p) ==
    /\ client' = [client EXCEPT ![p] = FALSE]
    /\ disconnected' = [disconnected EXCEPT ![p] = FALSE]
    /\ closing' = [closing EXCEPT ![p] = FALSE]
    /\ UNCHANGED link

\* What async_close does before its first await.
Detach(p) ==
    /\ closing' = [closing EXCEPT ![p] = TRUE]
    /\ client' = [client EXCEPT ![p] = FALSE]
    /\ disconnected' = [disconnected EXCEPT ![p] = TRUE]
    /\ UNCHANGED link

\* Mutant: the client is only dropped.
DisconnectNothing(p) == UNCHANGED connectionVars

\* client.disconnect() was awaited.  A disconnect that was requested counts
\* as done, whether the call returned, raised or was cancelled.
Disconnect(p) ==
    /\ link' = [link EXCEPT ![p] = "down"]
    /\ UNCHANGED <<client, disconnected, closing>>

-----------------------------------------------------------------------------
(***************************************************************************)
(* The handshake.  Established and Proceed move to the next await; the     *)
(* call of the last await, write_status, is returned to the owner.  A      *)
(* statement that uses self._client after an await needs a client that a   *)
(* concurrent async_close has not taken away.                              *)
(***************************************************************************)
\* establish_connection returned: the link is up, whatever has happened to
\* the connection object in the meantime.
Established(p) ==
    /\ pc[p] = "establish"
    /\ client' = [client EXCEPT ![p] = TRUE]
    /\ link' = [link EXCEPT ![p] = "up"]
    /\ pc' = [pc EXCEPT ![p] = AfterHandshakeStep[pc[p]]]
    /\ UNCHANGED <<disconnected, closing>>

\* The await succeeds and so does the code up to the next one.
Completes(p) ==
    \/ pc[p] = "start_notify" /\ link[p] = "up" /\ client[p]
    \/ pc[p] = "write_login" /\ link[p] = "up" /\ IsConnected(p)
    \/ pc[p] = "login_response" /\ link[p] = "up" /\ client[p]
    \/ pc[p] = "write_welcome" /\ link[p] = "up"
    \/ pc[p] = "delay" /\ client[p]

Proceed(p) ==
    /\ Completes(p)
    /\ pc' = [pc EXCEPT ![p] = AfterHandshakeStep[pc[p]]]
    /\ UNCHANGED connectionVars

HandshakeCompletes(p) == pc[p] = "write_status" /\ link[p] = "up"

(***************************************************************************)
(* The classes of exception that may leave the handshake at its current    *)
(* await: an invalid LOGIN response, the LOGIN timeout, a lost connection  *)
(* noticed by the code, an error of Bleak, anything else (an unexpected    *)
(* error of a backend, or None._client after a concurrent close).          *)
(***************************************************************************)
Raises(p) ==
    {e \in {"auth", "timeout", "disconnected", "bleak", "other"} :
        \/ e = "auth" /\ pc[p] = "login_response" /\ link[p] = "up"
        \/ e = "timeout" /\ pc[p] = "login_response"
        \/ e = "disconnected" /\ pc[p] = "login_response" /\ disconnected[p]
        \/ e = "disconnected" /\ pc[p] = "write_login" /\ ~IsConnected(p)
        \/ e \in {"bleak", "other"} /\ pc[p] \in GattCalls
        \/ e = "other" /\ pc[p] \in {"login_response", "delay"} /\ ~client[p]}

-----------------------------------------------------------------------------
(***************************************************************************)
(* The environment.                                                        *)
(***************************************************************************)
\* The link is lost and Bleak calls _disconnected_callback.
LinkDrop(p) ==
    /\ link[p] # "down"
    /\ link' = [link EXCEPT ![p] = "down"]
    /\ disconnected' =
           [disconnected EXCEPT ![p] = disconnected[p] \/ ~closing[p]]
    /\ UNCHANGED <<pc, client, closing>>

\* The access point loses the switch without telling anyone.
LinkSilent(p) ==
    /\ link[p] = "up"
    /\ link' = [link EXCEPT ![p] = "silent"]
    /\ UNCHANGED <<pc, client, disconnected, closing>>
=============================================================================

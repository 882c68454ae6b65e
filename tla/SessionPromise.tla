--------------------------- MODULE SessionPromise ---------------------------
(***************************************************************************)
(* What the sessions of one Home Assistant instance promise to the entities *)
(* and to each other: the state diagram of section 8.2 of                   *)
(* HOME_ASSISTANT_INTEGRATION_DESIGN.md, with the reauthentication of       *)
(* section 7.5, and the rule that only one session at a time is in the      *)
(* connection and LOGIN section.                                            *)
(*                                                                          *)
(* shown[s] is what a user can tell apart.  ResolveDevice, WaitAdvertisement *)
(* Connect and Backoff are all "offline".                                   *)
(***************************************************************************)
CONSTANTS Session, NoOne

VARIABLES
    shown,  \* what each switch shows
    turn    \* whose turn it is to connect and authenticate, or NoOne

vars == <<shown, turn>>

Shown == {"idle", "offline", "authenticating", "ready", "reauth", "stopped"}

TypeOK ==
    /\ shown \in [Session -> Shown]
    /\ turn \in Session \cup {NoOne}

Init ==
    /\ shown = [s \in Session |-> "idle"]
    /\ turn = NoOne

Running == {"idle", "offline", "authenticating", "ready"}

Become(s, what) == shown' = [shown EXCEPT ![s] = what]

\* A session that is not connected takes the free turn.
TakeTurn(s) ==
    /\ turn = NoOne
    /\ shown[s] \in {"idle", "offline"}
    /\ turn' = s
    /\ Become(s, "authenticating")

\* It authenticated, and gives the turn back.
Succeed(s) ==
    /\ turn = s
    /\ shown[s] = "authenticating"
    /\ turn' = NoOne
    /\ Become(s, "ready")

\* It failed, or was stopped, and gives the turn back; what it shows follows
\* now or later.
GiveUp(s) ==
    /\ turn = s
    /\ turn' = NoOne
    /\ \/ UNCHANGED shown
       \/ shown[s] = "authenticating" /\ Become(s, "offline")
       \/ shown[s] = "authenticating" /\ Become(s, "reauth")

\* It looks for the switch, or has lost it.
GoOffline(s) ==
    /\ turn # s
    /\ shown[s] \in Running
    /\ Become(s, "offline")
    /\ UNCHANGED turn

\* Its credentials were refused.
RequireReauth(s) ==
    /\ shown[s] \in Running
    /\ Become(s, "reauth")
    /\ UNCHANGED turn

\* Its entry was unloaded.
Stop(s) ==
    /\ turn # s
    /\ shown[s] # "stopped"
    /\ Become(s, "stopped")
    /\ UNCHANGED turn

Next == \E s \in Session :
    \/ TakeTurn(s) \/ Succeed(s) \/ GiveUp(s)
    \/ GoOffline(s) \/ RequireReauth(s) \/ Stop(s)

Spec == Init /\ [][Next]_vars

\* Stopped for good; and after a reauthentication nothing but a stop.
Final ==
    [][\A s \in Session :
          /\ shown[s] = "stopped" => shown'[s] = "stopped"
          /\ shown[s] = "reauth" => shown'[s] \in {"reauth", "stopped"}]_vars
=============================================================================

--------------------- MODULE PairLinkSessionImplements ---------------------
(***************************************************************************)
(* PairLinkSession implements SessionPromise.  The mapping reads the state  *)
(* the entities see, tells the STOPPED of a session that never ran from the *)
(* STOPPED of an unloaded one, and takes the holder of the shared lock for  *)
(* the turn.                                                                *)
(***************************************************************************)
EXTENDS PairLinkSession

ShownAs == [stopped |-> "idle", connecting |-> "offline", backoff |-> "offline",
            authenticating |-> "authenticating", ready |-> "ready",
            reauth_required |-> "reauth"]

Shown(s) == IF stopper[s] = "done" THEN "stopped" ELSE ShownAs[state[s]]

Promise == INSTANCE SessionPromise
               WITH shown <- [s \in Session |-> Shown(s)], turn <- holder

\* Every behaviour of the sessions is one the promise allows: READY only out
\* of a turn, one turn at a time, nothing after STOPPED, and after
\* REAUTH_REQUIRED only STOPPED.
ImplementsPromise == Promise!Spec
=============================================================================

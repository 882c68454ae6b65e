------------------------- MODULE MCPairLinkSession -------------------------
(***************************************************************************)
(* Model checking of PairLinkSession.  The sessions are model values and   *)
(* the only parties; safety runs identify states that differ by the names  *)
(* of the sessions.                                                        *)
(***************************************************************************)
EXTENDS PairLinkSessionImplements

Symmetry == Permutations(Session)
=============================================================================

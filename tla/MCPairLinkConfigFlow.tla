------------------------ MODULE MCPairLinkConfigFlow ------------------------
(***************************************************************************)
(* Model checking of PairLinkConfigFlow.  Addresses and light IDs are only  *)
(* compared for equality, and flows are interchangeable.                    *)
(***************************************************************************)
EXTENDS PairLinkConfigFlow, TLC

Symmetry == Permutations(Flow) \cup Permutations(LightId)
=============================================================================

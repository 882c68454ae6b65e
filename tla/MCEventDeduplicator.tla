------------------------ MODULE MCEventDeduplicator ------------------------
(***************************************************************************)
(* Model checking of EventDeduplicator: events are only compared.           *)
(***************************************************************************)
EXTENDS EventDeduplicator, TLC

Symmetry == Permutations(Event)
=============================================================================

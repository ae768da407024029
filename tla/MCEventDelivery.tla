-------------------------- MODULE MCEventDelivery --------------------------
(***************************************************************************)
(* EventDelivery for TLC: the ids are interchangeable as long as they      *)
(* agree on being critical.                                                *)
(***************************************************************************)
EXTENDS EventDelivery, TLC

Symmetry == Permutations(Critical) \cup Permutations(Events \ Critical)

=============================================================================

-------------------------- MODULE MCProtectedCall --------------------------
(***************************************************************************)
(* ProtectedCall for TLC.  Callers, executions and approvals are           *)
(* interchangeable in the safety runs.                                     *)
(***************************************************************************)
EXTENDS ProtectedCall, TLC

Symmetry == Permutations(Callers) \cup Permutations(Execs) \cup Permutations(Approvals)

=============================================================================

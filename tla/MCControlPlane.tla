--------------------------- MODULE MCControlPlane ---------------------------
(***************************************************************************)
(* ControlPlane for TLC.  A resumed workflow is in state Normal again, so  *)
(* with a bound of two changes a kill or a pause can also be lifted.       *)
(***************************************************************************)
EXTENDS ControlPlane, TLC

=============================================================================

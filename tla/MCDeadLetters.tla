--------------------------- MODULE MCDeadLetters ---------------------------
(* DeadLetters for TLC: two threads of one process and one of another. *)
EXTENDS DeadLetters, TLC

CONSTANTS w1, w2, w3, p1, p2

MCProcessOf == (w1 :> p1) @@ (w2 :> p1) @@ (w3 :> p2)
=============================================================================

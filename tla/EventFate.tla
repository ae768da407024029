----------------------------- MODULE EventFate -----------------------------
(***************************************************************************)
(* What event delivery promises of each event, whatever happens to the     *)
(* process: an event goes from the memory of the process to its files and  *)
(* from either to where it is settled (recorded by the backend, parked in  *)
(* the DLQ or its holdover, or counted as lost), and never back.  Only the *)
(* death of the process undoes anything, and only what was in memory alone *)
(* (docs/wal-and-dlq.md, "What is guaranteed").                            *)
(***************************************************************************)
CONSTANT Events

VARIABLE fate

Fates == {"new", "memory", "disk", "settled"}

Init == fate = [e \in Events |-> "new"]

(* Every event of S, which had one of the fates `from`, now has `to`. *)
Move(S, from, to) ==
  /\ \A e \in S : fate[e] \in from
  /\ fate' = [e \in Events |-> IF e \in S THEN to ELSE fate[e]]

Take(e) == Move({e}, {"new"}, "memory")

Journal(S) == Move(S, {"memory"}, "disk")

Settle(S) == Move(S, {"memory", "disk"}, "settled")

Forget == Move({e \in Events : fate[e] = "memory"}, {"memory"}, "new")

Next ==
  \/ \E e \in Events : Take(e)
  \/ \E S \in SUBSET Events : Journal(S) \/ Settle(S)
  \/ Forget

Spec == Init /\ [][Next]_fate
=============================================================================

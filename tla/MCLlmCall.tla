----------------------------- MODULE MCLlmCall -----------------------------
(* LlmCall for TLC: two tasks of one event loop. *)
EXTENDS LlmCall, TLC

MCOnThread == [t \in Tasks |-> CHOOSE h \in Threads : TRUE]

Kind(path, known, priced, observed) ==
  [path |-> path, known |-> known, priced |-> priced, observed |-> observed]

MCKinds ==
  { Kind("httpx", TRUE, TRUE, FALSE),    Kind("httpx", TRUE, TRUE, TRUE),
    Kind("httpx", FALSE, FALSE, TRUE),   Kind("requests", TRUE, TRUE, TRUE),
    Kind("stream", TRUE, TRUE, FALSE),   Kind("stream", FALSE, FALSE, FALSE) }

Symmetry == Permutations(Tasks)
=============================================================================

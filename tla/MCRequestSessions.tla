------------------------- MODULE MCRequestSessions -------------------------
(* Borrow requests and threads of the pool are interchangeable.               *)
EXTENDS RequestSessions, TLC

Symmetry == Permutations(Borrows) \cup Permutations(Pool)
=============================================================================

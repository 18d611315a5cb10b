---------------------------- MODULE MCAppContext ----------------------------
(* Model values for AppContext.                                               *)
EXTENDS AppContext, TLC

CONSTANTS loop, admin, u1, u2

MCPeople == {admin, u1}
MorePeople == {admin, u1, u2}
MCFirstUsers == {admin}
NoReading == Endpoints \ {"status", "touch"}
Symmetry == Permutations({u1, u2})
NoEnd == Endpoints \ {"panel", "end"}
=============================================================================

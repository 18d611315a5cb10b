--------------------------- MODULE MCLockerLedger ---------------------------
(* Model values for LockerLedger: devices are interchangeable, and so are    *)
(* the users who are no admins.                                              *)
EXTENDS LockerLedger, TLC

CONSTANTS admin, u1, u2

MCUsers == {admin, u1, u2}
MCAdmins == {admin}
Symmetry == Permutations(Devices) \cup Permutations({u1, u2})
=============================================================================

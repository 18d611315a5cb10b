--------------------------- MODULE MCLockerRequests ---------------------------
(* Model values for LockerRequests.                                           *)
EXTENDS LockerRequests, TLC

CONSTANTS admin, u1, d1, d2

MCUsers == {admin, u1}
MCAdmins == {admin}

\* Sheets that list the two devices, in the locker, with u1 and with a person
\* who has no account.
Sheet(p, q) == (d1 :> p) @@ (d2 :> q)
TwoRowSheets == {Sheet(Locker, u1), Sheet(Stranger, Locker)}
=============================================================================

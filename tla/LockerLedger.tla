---------------------------- MODULE LockerLedger ----------------------------
(***************************************************************************)
(* The lending ledger of the kiosk: one row per device (status and         *)
(* current borrower) and the append-only transaction log, under the two    *)
(* operations of LockerService, each executed as one database transaction  *)
(* that nothing interleaves with.  This is what the service promises; the  *)
(* module LockerRequests has the same operations step by step, on several  *)
(* server threads, and is compared with this one.                          *)
(***************************************************************************)
EXTENDS Naturals, Sequences, FiniteSets

CONSTANTS
    Users,       \* ids of the registered users
    Admins,      \* the users whose role is ADMIN
    Devices,     \* ids of the devices
    NoUser,      \* the NULL of current_borrower_id and performed_by_id
    MaxBorrows,  \* MAX_BORROWS
    MaxLog       \* bound: log entries per device

ASSUME LedgerAssumption ==
    /\ Admins \subseteq Users
    /\ NoUser \notin Users
    /\ IsFiniteSet(Devices)
    /\ MaxBorrows \in Nat
    /\ MaxLog \in Nat

VARIABLES
    status,      \* devices.status
    borrower,    \* devices.current_borrower_id
    log          \* transaction_logs, split by device_id and in id order

vars == <<status, borrower, log>>

Status == {"available", "borrowed", "maintenance"}

Entry == [type: {"borrow", "return"}, user: Users, by: Users \cup {NoUser}]

BorrowEntry(u) == [type |-> "borrow", user |-> u, by |-> NoUser]

\* Mutant: the borrower is read after the row has been cleared.
ReturnEntry_ClearedFirst(u, performer) ==
    [type |-> "return", user |-> NoUser,
     by |-> IF performer = u THEN NoUser ELSE performer]

\* performed_by_id is NULL unless an admin returned on behalf of the borrower.
ReturnEntry(u, performer) ==
    [type |-> "return", user |-> u,
     by |-> IF performer = u THEN NoUser ELSE performer]

BorrowedBy(u) == {d \in Devices : status[d] = "borrowed" /\ borrower[d] = u}

(***************************************************************************)
(* The device rows as a source import creates them in an empty database:   *)
(* in the locker, with a registered person, or with a person who has no    *)
(* account, which leaves the device borrowed and without a borrower.       *)
(***************************************************************************)
Init ==
    /\ status \in [Devices -> {"available", "borrowed"}]
    /\ borrower \in [Devices -> Users \cup {NoUser}]
    /\ \A d \in Devices : status[d] = "available" => borrower[d] = NoUser
    /\ log = [d \in Devices |-> <<>>]

SetRow(d, st, b) ==
    /\ status' = [status EXCEPT ![d] = st]
    /\ borrower' = [borrower EXCEPT ![d] = b]

Record(d, e) ==
    /\ Len(log[d]) < MaxLog
    /\ log' = [log EXCEPT ![d] = Append(@, e)]

\* Mutant: the limit compared with <=.
Borrow_LimitOffByOne(u, d) ==
    /\ Cardinality(BorrowedBy(u)) <= MaxBorrows
    /\ status[d] = "available"
    /\ SetRow(d, "borrowed", u) /\ Record(d, BorrowEntry(u))

Borrow(u, d) ==
    /\ Cardinality(BorrowedBy(u)) < MaxBorrows
    /\ status[d] = "available"
    /\ SetRow(d, "borrowed", u)
    /\ Record(d, BorrowEntry(u))

MayReturn(u, d) ==
    /\ status[d] = "borrowed"
    /\ borrower[d] # NoUser
    /\ borrower[d] = u \/ u \in Admins

\* Mutant: an admin's return is not logged.
Return_OnBehalfUnlogged(u, d) ==
    /\ MayReturn(u, d)
    /\ SetRow(d, "available", NoUser)
    /\ IF borrower[d] = u THEN Record(d, ReturnEntry(u, u)) ELSE UNCHANGED log

(***************************************************************************)
(* The borrower returns the device, or an admin does on the borrower's     *)
(* behalf.  A device without a borrower cannot be returned: the log entry  *)
(* would have no user, the insert is rejected and all is rolled back.      *)
(***************************************************************************)
Return(u, d) ==
    /\ MayReturn(u, d)
    /\ SetRow(d, "available", NoUser)
    /\ Record(d, ReturnEntry(borrower[d], u))

Next == \E u \in Users, d \in Devices : Borrow(u, d) \/ Return(u, d)

Spec == Init /\ [][Next]_vars

-----------------------------------------------------------------------------
(* Properties *)

\* Every table holds values of its columns' types.
TypeOK ==
    /\ status \in [Devices -> Status]
    /\ borrower \in [Devices -> Users \cup {NoUser}]
    /\ log \in [Devices -> Seq(Entry)]

LastEntry(d) == log[d][Len(log[d])]

\* The loans of u the transaction log shows as open: borrowed at the kiosk by
\* u and not returned since.
OpenLoans(u) ==
    {d \in Devices : /\ log[d] # <<>>
                     /\ LastEntry(d).type = "borrow"
                     /\ LastEntry(d).user = u}

\* A device that names a borrower is borrowed: whatever sequence of borrows
\* and returns ran, no return leaves its borrower behind.
BorrowerMeansBorrowed ==
    \A d \in Devices : borrower[d] # NoUser => status[d] = "borrowed"

\* The audit trail and the device row never diverge: the row is what the last
\* log entry of the device says (BORROW by u, or RETURN).
AuditMatchesRow ==
    \A d \in Devices : log[d] # <<>> =>
        IF LastEntry(d).type = "borrow"
        THEN status[d] = "borrowed" /\ borrower[d] = LastEntry(d).user
        ELSE status[d] = "available" /\ borrower[d] = NoUser

\* Two entries of a device that follow each other belong to one loan or to
\* two: after a BORROW comes the RETURN of the same borrower, made by the
\* borrower or by an admin, and after a RETURN a BORROW.
Follows(e, f) ==
    IF e.type = "borrow"
    THEN /\ f.type = "return"
         /\ f.user = e.user
         /\ f.by = NoUser \/ f.by \in Admins \ {f.user}
    ELSE f.type = "borrow"

\* The log of a device is a history of loans that do not overlap, each ended
\* before the next by someone entitled to it.
LoanHistory ==
    \A d \in Devices : \A i \in 1 .. Len(log[d]) - 1 :
        Follows(log[d][i], log[d][i + 1])

\* Nobody holds more than MaxBorrows devices borrowed at the kiosk, however
\* many devices the source sheet gave them.
WithinLimit == \A u \in Users : Cardinality(OpenLoans(u)) <= MaxBorrows
=============================================================================

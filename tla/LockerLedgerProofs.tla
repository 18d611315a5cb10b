------------------------ MODULE LockerLedgerProofs ------------------------
(***************************************************************************)
(* Proofs about LockerLedger for any set of users, any finite set of       *)
(* devices and any borrow limit.                                           *)
(***************************************************************************)
EXTENDS LockerLedger, FiniteSetTheorems, TLAPS

(***************************************************************************)
(* What a borrow or a return does to the log of the device it names: the   *)
(* log grows by one entry, which becomes its last.                         *)
(***************************************************************************)
LEMMA AppendedLog ==
    ASSUME NEW s \in Seq(Entry), NEW e \in Entry
    PROVE  /\ Append(s, e) \in Seq(Entry)
           /\ Append(s, e) # <<>>
           /\ Len(Append(s, e)) = Len(s) + 1
           /\ Append(s, e)[Len(s) + 1] = e
           /\ \A i \in 1 .. Len(s) : Append(s, e)[i] = s[i]
    OBVIOUS

LEMMA EntryTypes ==
    ASSUME NEW u \in Users, NEW p \in Users
    PROVE  BorrowEntry(u) \in Entry /\ ReturnEntry(u, p) \in Entry
    BY DEF BorrowEntry, ReturnEntry, Entry

\* The tables keep their column types.
THEOREM TypeCorrect == Spec => []TypeOK
<1>1. Init => TypeOK
    BY DEF Init, TypeOK, Status
<1>2. TypeOK /\ [Next]_vars => TypeOK'
    <2> SUFFICES ASSUME TypeOK, [Next]_vars PROVE TypeOK'
        OBVIOUS
    <2> USE DEF TypeOK, Status
    <2>1. ASSUME NEW u \in Users, NEW d \in Devices, Borrow(u, d)
          PROVE  TypeOK'
        BY <2>1, EntryTypes, AppendedLog DEF Borrow, SetRow, Record
    <2>2. ASSUME NEW u \in Users, NEW d \in Devices, Return(u, d)
          PROVE  TypeOK'
        <3>1. ReturnEntry(borrower[d], u) \in Entry
            BY <2>2, EntryTypes DEF Return, MayReturn
        <3>2. QED
            BY <2>2, <3>1, AppendedLog DEF Return, SetRow, Record
    <2>3. CASE UNCHANGED vars
        BY <2>3 DEF vars
    <2>4. QED
        BY <2>1, <2>2, <2>3 DEF Next
<1>3. QED
    BY <1>1, <1>2, PTL DEF Spec

-----------------------------------------------------------------------------
(***************************************************************************)
(* The audit trail.  AuditMatchesRow and LoanHistory are proved together   *)
(* with BorrowerMeansBorrowed: a Return may only be appended to a log that *)
(* shows the loan open, and it is AuditMatchesRow that says so.            *)
(***************************************************************************)
AuditInv ==
    /\ TypeOK
    /\ BorrowerMeansBorrowed
    /\ AuditMatchesRow
    /\ LoanHistory

LEMMA BorrowKeepsAudit ==
    ASSUME AuditInv, NEW u \in Users, NEW d \in Devices, Borrow(u, d)
    PROVE  BorrowerMeansBorrowed' /\ AuditMatchesRow' /\ LoanHistory'
<1> DEFINE e == BorrowEntry(u)
<1>1. /\ status' = [status EXCEPT ![d] = "borrowed"]
      /\ borrower' = [borrower EXCEPT ![d] = u]
      /\ log' = [log EXCEPT ![d] = Append(log[d], e)]
      /\ status[d] = "available"
    BY DEF Borrow, SetRow, Record
<1>2. TypeOK
    BY DEF AuditInv
<1>3. log[d] \in Seq(Entry) /\ e \in Entry /\ e.type = "borrow" /\ e.user = u
    BY <1>2, EntryTypes DEF TypeOK, BorrowEntry
<1> HIDE DEF e
<1>4. /\ log'[d] = Append(log[d], e)
      /\ Len(log'[d]) = Len(log[d]) + 1
      /\ \A x \in Devices \ {d} : log'[x] = log[x]
    BY <1>1, <1>2, <1>3, AppendedLog DEF TypeOK
<1>5. LastEntry(d)' = e
    BY <1>3, <1>4, AppendedLog DEF LastEntry
<1>6. \A x \in Devices \ {d} : LastEntry(x)' = LastEntry(x)
    BY <1>4 DEF LastEntry
<1>7. BorrowerMeansBorrowed'
    BY <1>1, <1>2 DEF AuditInv, BorrowerMeansBorrowed, TypeOK
<1>8. AuditMatchesRow'
    BY <1>1, <1>2, <1>3, <1>4, <1>5, <1>6 DEF AuditInv, AuditMatchesRow, TypeOK
<1>9. LoanHistory'
    <2> SUFFICES ASSUME NEW x \in Devices, NEW i \in 1 .. Len(log'[x]) - 1
                 PROVE  Follows(log'[x][i], log'[x][i + 1])
        BY DEF LoanHistory, Follows
    <2>1. CASE x # d
        BY <2>1, <1>4 DEF AuditInv, LoanHistory
    <2>2. CASE x = d /\ i < Len(log[d])
        <3>1. log'[d][i] = log[d][i] /\ log'[d][i + 1] = log[d][i + 1]
            BY <2>2, <1>3, <1>4, AppendedLog
        <3>2. i \in 1 .. Len(log[d]) - 1
            BY <2>2, <1>3
        <3>3. QED
            BY <2>2, <3>1, <3>2 DEF AuditInv, LoanHistory
    <2>3. CASE x = d /\ i = Len(log[d])
        <3>1. log[d] # <<>> /\ log'[d][i] = LastEntry(d) /\ log'[d][i + 1] = e
            BY <2>3, <1>3, <1>4, AppendedLog DEF LastEntry
        <3>2. LastEntry(d).type # "borrow"
            BY <1>1, <3>1 DEF AuditInv, AuditMatchesRow
        <3>3. QED
            BY <2>3, <1>3, <3>1, <3>2 DEF Follows
    <2>4. QED
        BY <2>1, <2>2, <2>3, <1>3, <1>4
<1>10. QED
    BY <1>7, <1>8, <1>9

LEMMA ReturnKeepsAudit ==
    ASSUME AuditInv, NEW u \in Users, NEW d \in Devices, Return(u, d)
    PROVE  BorrowerMeansBorrowed' /\ AuditMatchesRow' /\ LoanHistory'
<1> DEFINE e == ReturnEntry(borrower[d], u)
<1>1. /\ status' = [status EXCEPT ![d] = "available"]
      /\ borrower' = [borrower EXCEPT ![d] = NoUser]
      /\ log' = [log EXCEPT ![d] = Append(log[d], e)]
      /\ status[d] = "borrowed"
      /\ borrower[d] = u \/ u \in Admins
    BY DEF Return, MayReturn, SetRow, Record
<1>2. TypeOK
    BY DEF AuditInv
<1>3. /\ log[d] \in Seq(Entry)
      /\ e \in Entry
      /\ e.type = "return"
      /\ e.user = borrower[d]
      /\ e.by = NoUser \/ e.by \in Admins \ {e.user}
    <2>1. borrower[d] \in Users
        BY <1>2 DEF TypeOK, Return, MayReturn
    <2>2. QED
        BY <1>1, <1>2, <2>1, EntryTypes DEF TypeOK, ReturnEntry
<1> HIDE DEF e
<1>4. /\ log'[d] = Append(log[d], e)
      /\ Len(log'[d]) = Len(log[d]) + 1
      /\ \A x \in Devices \ {d} : log'[x] = log[x]
    BY <1>1, <1>2, <1>3, AppendedLog DEF TypeOK
<1>5. LastEntry(d)' = e
    BY <1>3, <1>4, AppendedLog DEF LastEntry
<1>6. \A x \in Devices \ {d} : LastEntry(x)' = LastEntry(x)
    BY <1>4 DEF LastEntry
<1>7. BorrowerMeansBorrowed'
    BY <1>1, <1>2 DEF AuditInv, BorrowerMeansBorrowed, TypeOK
<1>8. AuditMatchesRow'
    BY <1>1, <1>2, <1>3, <1>4, <1>5, <1>6 DEF AuditInv, AuditMatchesRow, TypeOK
<1>9. LoanHistory'
    <2> SUFFICES ASSUME NEW x \in Devices, NEW i \in 1 .. Len(log'[x]) - 1
                 PROVE  Follows(log'[x][i], log'[x][i + 1])
        BY DEF LoanHistory, Follows
    <2>1. CASE x # d
        BY <2>1, <1>4 DEF AuditInv, LoanHistory
    <2>2. CASE x = d /\ i < Len(log[d])
        <3>1. log'[d][i] = log[d][i] /\ log'[d][i + 1] = log[d][i + 1]
            BY <2>2, <1>3, <1>4, AppendedLog
        <3>2. i \in 1 .. Len(log[d]) - 1
            BY <2>2, <1>3
        <3>3. QED
            BY <2>2, <3>1, <3>2 DEF AuditInv, LoanHistory
    <2>3. CASE x = d /\ i = Len(log[d])
        <3>1. log[d] # <<>> /\ log'[d][i] = LastEntry(d) /\ log'[d][i + 1] = e
            BY <2>3, <1>3, <1>4, AppendedLog DEF LastEntry
        <3>2. LastEntry(d).type = "borrow" /\ LastEntry(d).user = borrower[d]
            BY <1>1, <3>1 DEF AuditInv, AuditMatchesRow
        <3>3. QED
            BY <2>3, <1>3, <3>1, <3>2 DEF Follows
    <2>4. QED
        BY <2>1, <2>2, <2>3, <1>3, <1>4
<1>10. QED
    BY <1>7, <1>8, <1>9

\* Under any sequence of borrows and returns the device row says what the log
\* says, and the log is a history of loans that do not overlap.
THEOREM AuditCorrect ==
    Spec => [](BorrowerMeansBorrowed /\ AuditMatchesRow /\ LoanHistory)
<1>1. Init => BorrowerMeansBorrowed /\ AuditMatchesRow /\ LoanHistory
    BY DEF Init, BorrowerMeansBorrowed, AuditMatchesRow, LoanHistory
<1>2. AuditInv /\ [Next]_vars =>
          BorrowerMeansBorrowed' /\ AuditMatchesRow' /\ LoanHistory'
    <2> SUFFICES ASSUME AuditInv, [Next]_vars
                 PROVE  BorrowerMeansBorrowed' /\ AuditMatchesRow' /\ LoanHistory'
        OBVIOUS
    <2>1. CASE UNCHANGED vars
        BY <2>1 DEF vars, AuditInv, BorrowerMeansBorrowed, AuditMatchesRow,
                    LoanHistory, LastEntry, Follows
    <2>2. CASE Next
        BY <2>2, BorrowKeepsAudit, ReturnKeepsAudit DEF Next
    <2>3. QED
        BY <2>1, <2>2
<1>3. QED
    BY <1>1, <1>2, TypeCorrect, PTL DEF Spec, AuditInv

-----------------------------------------------------------------------------
(***************************************************************************)
(* The borrow limit.  The guard of Borrow counts device rows, WithinLimit  *)
(* counts open loans of the log: AuditMatchesRow is what relates the two.  *)
(***************************************************************************)
LimitInv == AuditInv /\ WithinLimit

LEMMA OpenLoansAreBorrowed ==
    ASSUME AuditInv, NEW u \in Users
    PROVE  OpenLoans(u) \subseteq BorrowedBy(u)
    BY DEF AuditInv, AuditMatchesRow, OpenLoans, BorrowedBy

LEMMA DeviceSetsFinite ==
    ASSUME NEW u
    PROVE  /\ IsFiniteSet(OpenLoans(u)) /\ Cardinality(OpenLoans(u)) \in Nat
           /\ IsFiniteSet(BorrowedBy(u)) /\ Cardinality(BorrowedBy(u)) \in Nat
<1>1. OpenLoans(u) \subseteq Devices /\ BorrowedBy(u) \subseteq Devices
    BY DEF OpenLoans, BorrowedBy
<1>2. QED
    BY <1>1, LedgerAssumption, FS_Subset, FS_CardinalityType

LEMMA BorrowKeepsLimit ==
    ASSUME LimitInv, NEW u \in Users, NEW d \in Devices, Borrow(u, d)
    PROVE  WithinLimit'
<1>1. \A x \in Devices \ {d} : log'[x] = log[x]
    BY DEF Borrow, Record, LimitInv, AuditInv, TypeOK
<1>2. /\ log[d] \in Seq(Entry)
      /\ log'[d] = Append(log[d], BorrowEntry(u))
      /\ BorrowEntry(u) \in Entry
    BY EntryTypes DEF Borrow, Record, LimitInv, AuditInv, TypeOK
<1>3. LastEntry(d)' = BorrowEntry(u)
    BY <1>2, AppendedLog DEF LastEntry
<1> SUFFICES ASSUME NEW v \in Users
             PROVE  Cardinality(OpenLoans(v)') <= MaxBorrows
    BY DEF WithinLimit
<1>4. CASE v = u
    <2>1. OpenLoans(u)' \subseteq OpenLoans(u) \cup {d}
        BY <1>1 DEF OpenLoans, LastEntry
    <2>2. OpenLoans(u)' \subseteq BorrowedBy(u) \cup {d}
        BY <2>1, OpenLoansAreBorrowed DEF LimitInv
    <2>3. d \notin BorrowedBy(u)
        BY DEF Borrow, BorrowedBy
    <2>4. /\ IsFiniteSet(BorrowedBy(u) \cup {d})
          /\ Cardinality(BorrowedBy(u) \cup {d}) = Cardinality(BorrowedBy(u)) + 1
        BY <2>3, DeviceSetsFinite, FS_AddElement
    <2>5. Cardinality(OpenLoans(u)') <= Cardinality(BorrowedBy(u)) + 1
        BY <2>2, <2>4, FS_Subset
    <2>6. OpenLoans(u)' \subseteq Devices
        BY DEF OpenLoans
    <2>7. Cardinality(OpenLoans(u)') \in Nat
        BY <2>6, LedgerAssumption, FS_Subset, FS_CardinalityType
    <2>8. Cardinality(BorrowedBy(u)) < MaxBorrows
        BY DEF Borrow
    <2>9. QED
        BY <1>4, <2>5, <2>7, <2>8, DeviceSetsFinite, LedgerAssumption
<1>5. CASE v # u
    <2>1. d \notin OpenLoans(v)'
        BY <1>3, <1>5 DEF OpenLoans, BorrowEntry
    <2>2. OpenLoans(v)' \subseteq OpenLoans(v)
        BY <1>1, <2>1 DEF OpenLoans, LastEntry
    <2>3. Cardinality(OpenLoans(v)') <= Cardinality(OpenLoans(v))
        BY <2>2, DeviceSetsFinite, FS_Subset
    <2>4. Cardinality(OpenLoans(v)') \in Nat
        BY <2>2, DeviceSetsFinite, FS_Subset, FS_CardinalityType
    <2>5. QED
        BY <2>3, <2>4, DeviceSetsFinite, LedgerAssumption
           DEF LimitInv, WithinLimit
<1>6. QED
    BY <1>4, <1>5

LEMMA ReturnKeepsLimit ==
    ASSUME LimitInv, NEW u \in Users, NEW d \in Devices, Return(u, d)
    PROVE  WithinLimit'
<1>1. \A x \in Devices \ {d} : log'[x] = log[x]
    BY DEF Return, Record, LimitInv, AuditInv, TypeOK
<1>2. borrower[d] \in Users
    BY DEF Return, MayReturn, LimitInv, AuditInv, TypeOK
<1>3. /\ log[d] \in Seq(Entry)
      /\ log'[d] = Append(log[d], ReturnEntry(borrower[d], u))
      /\ ReturnEntry(borrower[d], u) \in Entry
    BY <1>2, EntryTypes DEF Return, Record, LimitInv, AuditInv, TypeOK
<1>4. LastEntry(d)' = ReturnEntry(borrower[d], u)
    BY <1>3, AppendedLog DEF LastEntry
<1> SUFFICES ASSUME NEW v \in Users
             PROVE  Cardinality(OpenLoans(v)') <= MaxBorrows
    BY DEF WithinLimit
<1>5. d \notin OpenLoans(v)'
    BY <1>4 DEF OpenLoans, ReturnEntry
<1>6. OpenLoans(v)' \subseteq OpenLoans(v)
    BY <1>1, <1>5 DEF OpenLoans, LastEntry
<1>7. /\ Cardinality(OpenLoans(v)') <= Cardinality(OpenLoans(v))
      /\ Cardinality(OpenLoans(v)') \in Nat
    BY <1>6, DeviceSetsFinite, FS_Subset, FS_CardinalityType
<1>8. QED
    BY <1>7, DeviceSetsFinite, LedgerAssumption DEF LimitInv, WithinLimit

\* Whatever the source sheet gave the users, no sequence of borrows and
\* returns leaves anyone with more than MaxBorrows open kiosk loans.
THEOREM LimitHolds == Spec => []WithinLimit
<1>1. Init => WithinLimit
    <2> SUFFICES ASSUME Init, NEW u \in Users
                 PROVE  Cardinality(OpenLoans(u)) <= MaxBorrows
        BY DEF WithinLimit
    <2>1. OpenLoans(u) = {}
        BY DEF Init, OpenLoans
    <2>2. QED
        BY <2>1, FS_EmptySet, LedgerAssumption
<1>2. LimitInv /\ [Next]_vars => WithinLimit'
    <2> SUFFICES ASSUME LimitInv, [Next]_vars PROVE WithinLimit'
        OBVIOUS
    <2>1. CASE UNCHANGED vars
        BY <2>1 DEF vars, LimitInv, WithinLimit, OpenLoans, LastEntry
    <2>2. CASE Next
        BY <2>2, BorrowKeepsLimit, ReturnKeepsLimit DEF Next
    <2>3. QED
        BY <2>1, <2>2
<1>3. QED
    BY <1>1, <1>2, TypeCorrect, AuditCorrect, PTL
       DEF Spec, LimitInv, AuditInv
=============================================================================

------------------------ MODULE LockerRequestsProofs ------------------------
(***************************************************************************)
(* Proofs about LockerRequests: one request at a time, and any number of   *)
(* imports with threads of their own.  Types, the lock, what a commit sets *)
(* and what an undisturbed import leaves; and, while no import runs, that  *)
(* the server implements LockerLedger.                                     *)
(***************************************************************************)
EXTENDS LockerRequests, FiniteSetTheorems, TLAPS

LEMMA EntryTypes ==
    ASSUME NEW u \in Users, NEW p \in Users
    PROVE  BorrowEntry(u) \in Entry /\ ReturnEntry(u, p) \in Entry
    BY DEF BorrowEntry, ReturnEntry, Entry

LEMMA RowTypes ==
    /\ InLocker \in Row
    /\ \A u \in Users \cup {NoUser} : HeldBy(u) \in Row
    /\ \A p \in Places \ {Absent} : Wanted(p) \in Row
    /\ \A row, old, new \in Row : Update(row, old, new) \in Row
    BY DEF Row, InLocker, HeldBy, Places, Wanted, Update

(***************************************************************************)
(* The type invariant needs what the request that is past its guards knows *)
(* about what it loaded, and that an import has listed only the devices of *)
(* its sheet.                                                              *)
(***************************************************************************)
Knows ==
    /\ phase # "idle" => call \in Call
    /\ seen # NoRow => call.dev \in Devices
    /\ phase \in {"idle", "admitted"} => seen = NoRow
    /\ phase \in {"passed", "flushed"} => seen # NoRow
    /\ phase = "flushed" => ~NobodyToLog

Listed(i) ==
    /\ \A d \in imp[i].todo : imp[i].sheet[d] # Absent
    /\ \A d \in Devices : imp[i].loaded[d] # NoRow => imp[i].sheet[d] # Absent

TypeInv ==
    /\ TypeOK
    /\ Knows
    /\ \A i \in Importers : Listed(i)

LEMMA NoImportType == NoImport \in ImportState
    BY DEF NoImport, ImportState, Places

LEMMA TypeInvInit == Init => TypeInv
<1> SUFFICES ASSUME Init PROVE TypeInv
    OBVIOUS
<1>1. TypeOK
    BY RowTypes, NoImportType DEF Init, TypeOK
<1>2. Knows
    BY DEF Init, Knows
<1>3. \A i \in Importers : Listed(i)
    BY DEF Init, Listed, NoImport
<1>4. QED
    BY <1>1, <1>2, <1>3 DEF TypeInv

LEMMA CommitKeepsTypes ==
    ASSUME TypeInv, Commit
    PROVE  /\ rows' \in [Devices -> Row]
           /\ log' \in [Devices -> Seq(Entry)]
<1> DEFINE d == call.dev
<1>1. /\ call \in Call /\ seen \in Row /\ d \in Devices
      /\ ~NobodyToLog
    BY DEF Commit, TypeInv, TypeOK, Knows
<1>2. Target \in Row
    BY <1>1, RowTypes DEF Target, Call
<1>3. Update(rows[d], seen, Target) \in Row
    BY <1>1, <1>2, RowTypes DEF TypeInv, TypeOK
<1>4. NewEntry \in Entry
    <2>1. CASE call.op = "borrow"
        BY <1>1, <2>1, EntryTypes DEF NewEntry, Call
    <2>2. CASE call.op = "return"
        <3>1. seen.borrower \in Users /\ call.user \in Users
            BY <1>1, <2>2 DEF NobodyToLog, Row, Call
        <3>2. QED
            BY <2>2, <3>1, EntryTypes DEF NewEntry
    <2>3. QED
        BY <1>1, <2>1, <2>2 DEF Call
<1>5. /\ rows' = [rows EXCEPT ![d] = Update(rows[d], seen, Target)]
      /\ log' = [log EXCEPT ![d] = Append(log[d], NewEntry)]
    BY DEF Commit
<1> HIDE DEF d
<1>6. Append(log[d], NewEntry) \in Seq(Entry)
    BY <1>1, <1>4 DEF TypeInv, TypeOK
<1>7. QED
    BY <1>3, <1>5, <1>6 DEF TypeInv, TypeOK

\* A commit by somebody else marks the other imports and nothing more.
LEMMA MarkedImports ==
    ASSUME TypeInv, NEW i \in Importers, NEW b \in BOOLEAN
    PROVE  [imp[i] EXCEPT !.alone = b] \in ImportState
    BY DEF TypeInv, TypeOK, ImportState

LEMMA RequestStepKeepsTypes ==
    ASSUME TypeInv, RequestStep
    PROVE  TypeInv'
<1> USE DEF TypeInv, TypeOK, Knows
<1>1. CASE LoadDevice
    BY <1>1, RequestsAssumption DEF LoadDevice, Listed, NobodyToLog, Call
<1>2. CASE PassGuards
    BY <1>2 DEF PassGuards, MayBorrow, MayReturn, Listed, NobodyToLog
<1>3. CASE Refuse
    BY <1>3 DEF Refuse, Finish, Listed, NobodyToLog
<1>4. CASE Flush
    BY <1>4 DEF Flush, Listed, NobodyToLog
<1>5. CASE RejectedInsert
    BY <1>5 DEF RejectedInsert, Listed, NobodyToLog
<1>6. CASE LockTimeout
    BY <1>6 DEF LockTimeout, Finish, Listed, NobodyToLog
<1>7. CASE Commit
    <2>1. rows' \in [Devices -> Row] /\ log' \in [Devices -> Seq(Entry)]
        BY <1>7, CommitKeepsTypes
    <2>2. /\ imp' \in [Importers -> ImportState]
          /\ \A i \in Importers : Listed(i)'
        BY <1>7, MarkedImports DEF Commit, Listed, ImportState
    <2>3. QED
        BY <1>7, <2>1, <2>2 DEF Commit, Finish, NobodyToLog
<1>8. CASE Rollback
    BY <1>8 DEF Rollback, Finish, Listed, NobodyToLog
<1>9. QED
    BY <1>1, <1>2, <1>3, <1>4, <1>5, <1>6, <1>7, <1>8 DEF RequestStep

LEMMA ImportStartKeepsTypes ==
    ASSUME TypeInv, NEW i \in Importers, NEW sheet \in Sheets,
           ImportStart(i, sheet)
    PROVE  TypeInv'
<1> DEFINE new == [NoImport EXCEPT !.phase = "scan", !.sheet = sheet,
                      !.todo = {d \in Devices : sheet[d] # Absent}]
<1>1. imp' = [imp EXCEPT ![i] = new]
    BY DEF ImportStart
<1>2. sheet \in [Devices -> Places]
    BY RequestsAssumption
<1>3. new \in ImportState
    BY <1>2, NoImportType DEF ImportState
<1>4. /\ new.todo = {d \in Devices : sheet[d] # Absent}
      /\ new.sheet = sheet
      /\ new.loaded = [d \in Devices |-> NoRow]
    BY DEF NoImport
<1> HIDE DEF new
<1>5. \A j \in Importers : Listed(j)'
    BY <1>1, <1>4 DEF TypeInv, TypeOK, Listed
<1>6. imp' \in [Importers -> ImportState]
    BY <1>1, <1>3 DEF TypeInv, TypeOK
<1>7. QED
    BY <1>5, <1>6 DEF ImportStart, ImportVarsOnly, requestVars, TypeInv, TypeOK,
                      Knows, NobodyToLog

\* A row leaves the import running: it goes on to the next row or to a flush.
LEMMA RowRead ==
    ASSUME TypeInv, NEW i \in Importers, NEW d \in Devices, ImportRow(i, d)
    PROVE  \E loaded \in {imp[i].loaded, [imp[i].loaded EXCEPT ![d] = rows[d]]},
              step \in {"scan", "flush"} :
             imp' = [imp EXCEPT ![i] =
                       [phase |-> step, todo |-> imp[i].todo \ {d},
                        sheet |-> imp[i].sheet, loaded |-> loaded,
                        alone |-> imp[i].alone]]
<1>1. imp[i] \in ImportState
    BY DEF TypeInv, TypeOK
<1>2. QED
    BY <1>1 DEF ImportRow, ImportState, TypeInv, TypeOK

LEMMA ImportStepKeepsTypes ==
    ASSUME TypeInv, NEW i \in Importers, ImportStep(i)
    PROVE  TypeInv'
<1> USE DEF TypeInv, TypeOK
<1>1. imp[i] \in ImportState
    OBVIOUS
<1>2. ASSUME NEW d \in Devices, ImportRow(i, d) PROVE TypeInv'
    <2>1. imp[i].loaded \in [Devices -> Row \cup {NoRow}]
        BY <1>1 DEF ImportState
    <2>2. PICK loaded \in {imp[i].loaded, [imp[i].loaded EXCEPT ![d] = rows[d]]},
               step \in {"scan", "flush"} :
             imp' = [imp EXCEPT ![i] =
                       [phase |-> step, todo |-> imp[i].todo \ {d},
                        sheet |-> imp[i].sheet, loaded |-> loaded,
                        alone |-> imp[i].alone]]
        BY <1>2, RowRead
    <2>3. d \in imp[i].todo /\ imp[i].sheet[d] # Absent
        BY <1>2 DEF ImportRow, Listed
    <2>4. imp' \in [Importers -> ImportState]
        <3> DEFINE next == [phase |-> step, todo |-> imp[i].todo \ {d},
                            sheet |-> imp[i].sheet, loaded |-> loaded,
                            alone |-> imp[i].alone]
        <3>1. loaded \in [Devices -> Row \cup {NoRow}]
            BY <2>1
        <3>2. next \in ImportState
            BY <1>1, <3>1 DEF ImportState
        <3> HIDE DEF next
        <3>3. imp' = [imp EXCEPT ![i] = next]
            BY <2>2 DEF next
        <3>4. QED
            BY <3>2, <3>3
    <2>5. ASSUME NEW j \in Importers PROVE Listed(j)'
        <3>1. CASE j = i
            BY <2>1, <2>2, <2>3, <3>1 DEF Listed
        <3>2. CASE j # i
            BY <2>2, <3>2 DEF Listed
        <3>3. QED
            BY <3>1, <3>2
    <2>6. \A j \in Importers : Listed(j)'
        BY <2>5
    <2>7. QED
        BY <1>2, <2>4, <2>6 DEF ImportRow, ImportVarsOnly, requestVars,
                                Knows, NobodyToLog
<1>3. CASE ImportFlush(i)
    <2>1. imp' \in [Importers -> ImportState] /\ \A j \in Importers : Listed(j)'
        BY <1>1, <1>3 DEF ImportFlush, ImportState, Listed
    <2>2. QED
        BY <1>3, <2>1 DEF ImportFlush, ImportVarsOnly, requestVars, Knows,
                          NobodyToLog
<1>4. CASE ImportLockTimeout(i)
    <2>1. imp' \in [Importers -> ImportState] /\ \A j \in Importers : Listed(j)'
        BY <1>4, NoImportType DEF ImportLockTimeout, NoImport, Listed
    <2>2. QED
        BY <1>4, <2>1 DEF ImportLockTimeout, ImportVarsOnly, requestVars, Knows,
                          NobodyToLog
<1>5. CASE ImportCommit(i)
    <2>1. ASSUME NEW d \in Devices, imp[i].loaded[d] # NoRow
          PROVE  Update(rows[d], imp[i].loaded[d], Wanted(imp[i].sheet[d])) \in Row
        <3>1. imp[i].sheet[d] \in Places \ {Absent}
            BY <1>1, <2>1 DEF ImportState, Listed
        <3>2. imp[i].loaded[d] \in Row
            BY <1>1, <2>1 DEF ImportState
        <3>3. QED
            BY <3>1, <3>2, RowTypes
    <2>2. rows' \in [Devices -> Row]
        BY <1>5, <2>1 DEF ImportCommit
    <2>3. imp' \in [Importers -> ImportState]
        BY <1>5, NoImportType, MarkedImports DEF ImportCommit
    <2>4. \A j \in Importers : Listed(j)'
        BY <1>5 DEF ImportCommit, NoImport, Listed, ImportState
    <2>5. QED
        BY <1>5, <2>2, <2>3, <2>4 DEF ImportCommit, ImportVarsOnly, requestVars,
                                      Knows, NobodyToLog
<1>6. QED
    BY <1>2, <1>3, <1>4, <1>5 DEF ImportStep

LEMMA TypeInvStep == TypeInv /\ [Next]_vars => TypeInv'
<1> SUFFICES ASSUME TypeInv, [Next]_vars PROVE TypeInv'
    OBVIOUS
<1> USE DEF TypeInv
<1>1. CASE UNCHANGED vars
    BY <1>1 DEF vars, TypeOK, Knows, Listed, NobodyToLog
<1>2. ASSUME NEW u \in Users, StartSession(u) PROVE TypeInv'
    BY <1>2 DEF StartSession, requestVars, TypeOK, Knows, Listed, NobodyToLog
<1>3. CASE EndSession
    BY <1>3 DEF EndSession, requestVars, TypeOK, Knows, Listed, NobodyToLog
<1>4. ASSUME NEW op \in {"borrow", "return"},
             NEW d \in Devices \cup {NoDevice}, Admit(op, d)
      PROVE  TypeInv'
    <2>1. [op |-> op, user |-> session, dev |-> d] \in Call
        BY <1>4 DEF Admit, TypeOK, Call
    <2>2. QED
        BY <1>4, <2>1 DEF Admit, TypeOK, Knows, Listed, NobodyToLog
<1>5. CASE Crash
    BY <1>5, NoImportType
       DEF Crash, TypeOK, Knows, Listed, NobodyToLog, NoImport
<1>6. QED
    BY <1>1, <1>2, <1>3, <1>4, <1>5, RequestStepKeepsTypes,
       ImportStartKeepsTypes, ImportStepKeepsTypes DEF Next

\* The tables, the request and any number of imports keep their types under any
\* interleaving: no log entry without a user, no row with a status of its own.
THEOREM TypeCorrect == Spec => []TypeOK
<1>1. TypeInv => TypeOK
    BY DEF TypeInv
<1>2. QED
    BY <1>1, TypeInvInit, TypeInvStep, PTL DEF Spec

-----------------------------------------------------------------------------
(***************************************************************************)
(* The write lock.                                                         *)
(***************************************************************************)
LEMMA LockStep ==
    ASSUME TypeInv, LockHeldInTransaction, [Next]_vars
    PROVE  LockHeldInTransaction'
<1> USE RequestsAssumption DEF LockHeldInTransaction, TypeInv, TypeOK
<1>1. CASE UNCHANGED vars
    BY <1>1 DEF vars
<1>2. ASSUME NEW u \in Users, StartSession(u) PROVE LockHeldInTransaction'
    BY <1>2 DEF StartSession, requestVars
<1>3. CASE EndSession
    BY <1>3 DEF EndSession, requestVars
<1>4. ASSUME NEW op \in {"borrow", "return"},
             NEW d \in Devices \cup {NoDevice}, Admit(op, d)
      PROVE  LockHeldInTransaction'
    BY <1>4 DEF Admit
<1>5. CASE RequestStep
    <2>1. CASE LoadDevice \/ PassGuards \/ Refuse \/ LockTimeout
        BY <2>1 DEF LoadDevice, PassGuards, Refuse, LockTimeout, Finish
    <2>2. CASE Flush \/ RejectedInsert
        BY <2>2 DEF Flush, RejectedInsert
    <2>3. CASE Commit
        BY <2>3 DEF Commit, Finish
    <2>4. CASE Rollback
        BY <2>4 DEF Rollback, Finish
    <2>5. QED
        BY <1>5, <2>1, <2>2, <2>3, <2>4 DEF RequestStep
<1>6. ASSUME NEW i \in Importers, NEW sheet \in Sheets, ImportStart(i, sheet)
      PROVE  LockHeldInTransaction'
    BY <1>6 DEF ImportStart, ImportVarsOnly, requestVars
<1>7. ASSUME NEW i \in Importers, ImportStep(i) PROVE LockHeldInTransaction'
    <2>1. ASSUME NEW d \in Devices, ImportRow(i, d)
          PROVE  LockHeldInTransaction'
        <3>1. PICK loaded \in {imp[i].loaded, [imp[i].loaded EXCEPT ![d] = rows[d]]},
                   step \in {"scan", "flush"} :
                 imp' = [imp EXCEPT ![i] =
                           [phase |-> step, todo |-> imp[i].todo \ {d},
                            sheet |-> imp[i].sheet, loaded |-> loaded,
                            alone |-> imp[i].alone]]
            BY <2>1, RowRead
        <3>2. imp'[i].phase # "idle" /\ \A j \in Importers \ {i} : imp'[j] = imp[j]
            BY <3>1
        <3>3. QED
            BY <2>1, <3>2 DEF ImportRow, ImportVarsOnly, requestVars
    <2>2. CASE ImportFlush(i)
        BY <2>2 DEF ImportFlush, ImportVarsOnly, requestVars, ImportState
    <2>3. CASE ImportLockTimeout(i)
        BY <2>3 DEF ImportLockTimeout, ImportVarsOnly, requestVars
    <2>4. CASE ImportCommit(i)
        BY <2>4 DEF ImportCommit, ImportVarsOnly, requestVars, ImportState
    <2>5. QED
        BY <1>7, <2>1, <2>2, <2>3, <2>4 DEF ImportStep
<1>8. CASE Crash
    BY <1>8 DEF Crash
<1>9. QED
    BY <1>1, <1>2, <1>3, <1>4, <1>5, <1>6, <1>7, <1>8 DEF Next

\* However many imports compete with the request for the write lock, it is held
\* by one that is in its transaction and by nobody else.
THEOREM LockCorrect == Spec => []LockHeldInTransaction
<1>1. Init => LockHeldInTransaction
    BY RequestsAssumption DEF Init, LockHeldInTransaction
<1>2. TypeInv /\ LockHeldInTransaction /\ [Next]_vars => LockHeldInTransaction'
    BY LockStep
<1>3. QED
    BY <1>1, <1>2, TypeInvInit, TypeInvStep, PTL DEF Spec

-----------------------------------------------------------------------------
\* The values of a device row that no import has torn.
Lent == {InLocker} \cup {HeldBy(u) : u \in Users \cup {NoUser}}

LEMMA LentRows == Lent \subseteq Row /\ NoRow \notin Lent
    BY RequestsAssumption DEF Lent, InLocker, HeldBy, Row

(***************************************************************************)
(* What a request that has passed its guards knows: the row it loaded and  *)
(* the operation fit.                                                      *)
(***************************************************************************)
Fits ==
    /\ seen # NoRow
    /\ call.op = "borrow" => seen.status = "available"
    /\ call.op = "return" => seen.status = "borrowed"

RequestInv ==
    /\ rows \in [Devices -> Lent]
    /\ log \in [Devices -> Seq(Entry)]
    /\ session \in Users \cup {NoUser}
    /\ phase \in {"idle", "admitted", "loaded", "passed", "flushed", "failed"}
    /\ call \in Call \cup {NoCall}
    /\ seen \in Lent \cup {NoRow}
    /\ phase # "idle" => call \in Call
    /\ phase \in {"idle", "admitted"} => seen = NoRow
    /\ seen # NoRow => call.dev \in Devices
    /\ phase \in {"passed", "flushed"} => Fits
    /\ phase = "flushed" => ~NobodyToLog

LEMMA RequestInvInit == Init => RequestInv
<1> SUFFICES ASSUME Init PROVE RequestInv
    OBVIOUS
<1>1. rows \in [Devices -> Lent]
    BY DEF Init, Lent
<1>2. QED
    BY <1>1 DEF Init, RequestInv, NoCall, Call

(***************************************************************************)
(* The heart of the argument.  A loaded row is never torn, so a borrow     *)
(* loads InLocker and sets both columns, and a return loads HeldBy of      *)
(* somebody and sets both columns: whatever the row is by now, the commit  *)
(* makes it what the new log entry says.                                   *)
(***************************************************************************)
LEMMA CommitEffect ==
    ASSUME RequestInv, Commit
    PROVE  LET d == call.dev
               e == NewEntry
           IN  /\ d \in Devices
               /\ e \in Entry
               /\ rows' = [rows EXCEPT ![d] = Target]
               /\ log' = [log EXCEPT ![d] = Append(log[d], e)]
               /\ \/ /\ e.type = "borrow" /\ e.user \in Users
                     /\ Target = HeldBy(e.user)
                  \/ e.type = "return" /\ Target = InLocker
               /\ Target \in Lent
<1> DEFINE d == call.dev
<1>1. /\ phase = "flushed"
      /\ rows' = [rows EXCEPT ![d] = Update(rows[d], seen, Target)]
      /\ log' = [log EXCEPT ![d] = Append(log[d], NewEntry)]
    BY DEF Commit
<1>2. /\ call \in Call /\ d \in Devices /\ Fits /\ ~NobodyToLog
      /\ seen \in Lent /\ rows[d] \in Lent
    BY <1>1 DEF RequestInv, Fits
<1>3. CASE call.op = "borrow"
    <2>1. seen = InLocker
        BY <1>2, <1>3 DEF Fits, Lent, HeldBy
    <2>2. Target = HeldBy(call.user) /\ call.user \in Users
        BY <1>2, <1>3 DEF Target, Call
    <2>3. Update(rows[d], seen, Target) = Target
        BY <2>1, <2>2, RequestsAssumption DEF Update, InLocker, HeldBy
    <2>4. NewEntry = BorrowEntry(call.user)
        BY <1>3 DEF NewEntry
    <2>5. QED
        BY <1>1, <1>2, <2>2, <2>3, <2>4 DEF BorrowEntry, Entry, Lent
<1>4. CASE call.op = "return"
    <2>1. PICK u \in Users : seen = HeldBy(u)
        BY <1>2, <1>4 DEF Fits, NobodyToLog, Lent, InLocker, HeldBy
    <2>2. Target = InLocker /\ call.user \in Users
        BY <1>2, <1>4 DEF Target, Call
    <2>3. Update(rows[d], seen, Target) = Target
        BY <2>1, <2>2, RequestsAssumption DEF Update, InLocker, HeldBy
    <2>4. NewEntry = ReturnEntry(u, call.user)
        BY <1>4, <2>1 DEF NewEntry, HeldBy
    <2>5. QED
        BY <1>1, <1>2, <2>2, <2>3, <2>4 DEF ReturnEntry, Entry, Lent
<1>5. QED
    BY <1>2, <1>3, <1>4 DEF Call

LEMMA RequestInvStep ==
    ASSUME Importers = {}, RequestInv, [Next]_vars
    PROVE  RequestInv'
<1> USE DEF RequestInv
<1>1. CASE UNCHANGED vars
    BY <1>1 DEF vars, Fits, NobodyToLog
<1>2. ASSUME NEW u \in Users, StartSession(u) PROVE RequestInv'
    BY <1>2 DEF StartSession, requestVars, Fits, NobodyToLog
<1>3. CASE EndSession
    BY <1>3 DEF EndSession, requestVars, Fits, NobodyToLog
<1>4. ASSUME NEW op \in {"borrow", "return"},
             NEW d \in Devices \cup {NoDevice}, Admit(op, d)
      PROVE  RequestInv'
    <2>1. [op |-> op, user |-> session, dev |-> d] \in Call
        BY <1>4 DEF Admit, Call
    <2>2. QED
        BY <1>4, <2>1 DEF Admit, Fits, NobodyToLog
<1>5. CASE LoadDevice
    BY <1>5, RequestsAssumption DEF LoadDevice, Fits, NobodyToLog, Call
<1>6. CASE PassGuards
    BY <1>6 DEF PassGuards, MayBorrow, MayReturn, Fits, NobodyToLog, Call
<1>7. CASE Refuse
    BY <1>7 DEF Refuse, Finish, Fits, NobodyToLog
<1>8. CASE Flush
    BY <1>8 DEF Flush, Fits, NobodyToLog
<1>9. CASE RejectedInsert
    BY <1>9 DEF RejectedInsert, Fits, NobodyToLog
<1>10. CASE LockTimeout
    BY <1>10 DEF LockTimeout, Finish, Fits, NobodyToLog
<1>11. CASE Commit
    <2>1. /\ rows' \in [Devices -> Lent]
          /\ log' \in [Devices -> Seq(Entry)]
        <3> DEFINE d == call.dev
        <3>1. /\ d \in Devices /\ NewEntry \in Entry /\ Target \in Lent
              /\ rows' = [rows EXCEPT ![d] = Target]
              /\ log' = [log EXCEPT ![d] = Append(log[d], NewEntry)]
            BY <1>11, CommitEffect
        <3> HIDE DEF d
        <3>2. Append(log[d], NewEntry) \in Seq(Entry)
            BY <3>1
        <3>3. QED
            BY <3>1, <3>2
    <2>2. QED
        BY <1>11, <2>1 DEF Commit, Finish, Fits, NobodyToLog
<1>12. CASE Rollback
    BY <1>12 DEF Rollback, Finish, Fits, NobodyToLog
<1>13. CASE Crash
    BY <1>13 DEF Crash, Fits, NobodyToLog
<1>14. QED
    BY <1>1, <1>2, <1>3, <1>4, <1>5, <1>6, <1>7, <1>8, <1>9, <1>10, <1>11,
       <1>12, <1>13 DEF Next, RequestStep

-----------------------------------------------------------------------------
(***************************************************************************)
(* What a commit does to the rows, with any number of imports.             *)
(***************************************************************************)

LEMMA OnlyCommits ==
    ASSUME [Next]_vars
    PROVE  \/ UNCHANGED <<rows, log>>
           \/ Commit
           \/ \E i \in Importers : ImportCommit(i) /\ UNCHANGED log
BY DEF Next, RequestStep, ImportStep, vars, StartSession, EndSession, Admit,
       LoadDevice, PassGuards, Refuse, Flush, RejectedInsert, LockTimeout,
       Rollback, Crash, ImportStart, ImportRow, ImportFlush, ImportLockTimeout,
       ImportCommit, ImportVarsOnly

\* The status a request has loaded is one its operation changes.
FitsInv == phase \in {"passed", "flushed"} => Fits

LEMMA FitsStep ==
    ASSUME TypeInv, FitsInv, [Next]_vars
    PROVE  FitsInv'
<1> USE DEF FitsInv, Fits
<1>1. CASE UNCHANGED requestVars
    BY <1>1 DEF requestVars
<1>2. ASSUME NEW op \in {"borrow", "return"},
             NEW d \in Devices \cup {NoDevice}, Admit(op, d)
      PROVE  FitsInv'
    BY <1>2 DEF Admit, TypeInv, TypeOK
<1>3. CASE LoadDevice
    BY <1>3 DEF LoadDevice, TypeInv, TypeOK
<1>4. CASE PassGuards
    BY <1>4 DEF PassGuards, MayBorrow, MayReturn, TypeInv, TypeOK
<1>5. CASE Flush \/ RejectedInsert
    BY <1>5 DEF Flush, RejectedInsert, TypeInv, TypeOK
<1>6. CASE Finish
    BY <1>6 DEF Finish, TypeInv, TypeOK
<1>7. CASE Crash
    BY <1>7 DEF Crash
<1>8. QED
    BY <1>1, <1>2, <1>3, <1>4, <1>5, <1>6, <1>7 DEF Next, RequestStep, ImportStep,
       vars, requestVars, StartSession, EndSession, Refuse, LockTimeout, Commit, Rollback,
       ImportStart, ImportRow, ImportFlush, ImportLockTimeout, ImportCommit,
       ImportVarsOnly

\* The guards have seen the other status, so the UPDATE has the new one in it,
\* whatever imports have made of the row since.
THEOREM CommitSets == Spec => CommitSetsStatus
<1>1. Init => FitsInv
    BY DEF Init, FitsInv
<1>2. TypeInv /\ FitsInv /\ [Next]_vars =>
        [\A d \in Devices : log'[d] # log[d] =>
            rows'[d].status = IF log'[d][Len(log'[d])].type = "borrow"
                              THEN "borrowed" ELSE "available"]_vars
    <2> SUFFICES ASSUME TypeInv, FitsInv, [Next]_vars, NEW d \in Devices, log'[d] # log[d]
                 PROVE  rows'[d].status = IF log'[d][Len(log'[d])].type = "borrow"
                                          THEN "borrowed" ELSE "available"
        OBVIOUS
    <2>1. Commit
        BY OnlyCommits
    <2>2. call.dev = d /\ call \in Call /\ Fits
        BY <2>1 DEF Commit, TypeInv, TypeOK, Knows, FitsInv
    <2>3. /\ log[d] \in Seq(Entry) /\ log'[d] = Append(log[d], NewEntry)
          /\ rows'[d] = Update(rows[d], seen, Target)
        BY <2>1, <2>2 DEF Commit, TypeInv, TypeOK
    <2>4. log'[d][Len(log'[d])] = NewEntry
        BY <2>3
    <2>5. CASE call.op = "borrow"
        BY <2>2, <2>3, <2>4, <2>5
           DEF Fits, Update, Target, HeldBy, NewEntry, BorrowEntry
    <2>6. CASE call.op = "return"
        BY <2>2, <2>3, <2>4, <2>6
           DEF Fits, Update, Target, InLocker, NewEntry, ReturnEntry
    <2>7. QED
        BY <2>2, <2>5, <2>6 DEF Call
<1>3. QED
    BY <1>1, <1>2, FitsStep, TypeInvInit, TypeInvStep, PTL DEF Spec, CommitSetsStatus

(***************************************************************************)
(* While an import is alone, the rows are still as it has seen them; and   *)
(* what it has still to do it has not loaded.                              *)
(***************************************************************************)
StillSeen(i) ==
    /\ \A d \in imp[i].todo : imp[i].loaded[d] = NoRow
    /\ imp[i].phase # "idle" /\ imp[i].alone =>
        \A d \in Devices : imp[i].sheet[d] # Absent /\ d \notin imp[i].todo =>
            IF imp[i].loaded[d] = NoRow THEN rows[d] = Wanted(imp[i].sheet[d])
            ELSE rows[d] = imp[i].loaded[d]

SeenInv == \A i \in Importers : StillSeen(i)

\* An import that is marked by a commit of somebody else is not alone unless it
\* is idle, and either way there is nothing to say of the rows.
LEMMA MarkedSeen ==
    ASSUME TypeInv, NEW i \in Importers, StillSeen(i),
           imp'[i] = [imp[i] EXCEPT !.alone = imp[i].phase = "idle"]
    PROVE  StillSeen(i)'
<1> DEFINE b == imp[i].phase = "idle"
<1>1. b \in BOOLEAN /\ imp[i] \in ImportState
    BY DEF TypeInv, TypeOK
<1>2. imp'[i] = [imp[i] EXCEPT !.alone = b]
    OBVIOUS
<1> HIDE DEF b
<1>3. /\ imp'[i].phase = imp[i].phase /\ imp'[i].alone = b
      /\ imp'[i].todo = imp[i].todo /\ imp'[i].loaded = imp[i].loaded
    BY <1>1, <1>2 DEF ImportState
<1>4. QED
    BY <1>3 DEF StillSeen, b

LEMMA SeenStep ==
    ASSUME TypeInv, SeenInv, [Next]_vars
    PROVE  SeenInv'
<1> USE DEF SeenInv, StillSeen
<1>1. CASE UNCHANGED <<rows, imp>>
    BY <1>1
<1>2. CASE Commit
    <2> SUFFICES ASSUME NEW i \in Importers PROVE StillSeen(i)'
        OBVIOUS
    <2>1. imp'[i] = [imp[i] EXCEPT !.alone = imp[i].phase = "idle"]
        BY <1>2, Zenon DEF Commit
    <2>2. QED
        BY <2>1, MarkedSeen
<1>3. CASE Crash
    BY <1>3 DEF Crash, NoImport
<1>4. ASSUME NEW i \in Importers, NEW sheet \in Sheets, ImportStart(i, sheet)
      PROVE  SeenInv'
    BY <1>4 DEF ImportStart, NoImport, TypeInv, TypeOK
<1>5. ASSUME NEW i \in Importers, NEW d \in Devices, ImportRow(i, d)
      PROVE  SeenInv'
    <2>1. d \in imp[i].todo /\ imp[i] \in ImportState /\ rows[d] \in Row
          /\ imp[i].phase = "scan" /\ imp[i].loaded[d] = NoRow /\ rows' = rows
        BY <1>5 DEF ImportRow, TypeInv, TypeOK
    <2>2. \A k \in Importers \ {i} : StillSeen(k)'
        BY <1>5, <2>1 DEF ImportRow, TypeInv, TypeOK
    <2>3. CASE rows[d] = Wanted(imp[i].sheet[d])
               /\ imp' = [imp EXCEPT ![i].todo = @ \ {d}]
        <3>1. imp'[i] = [imp[i] EXCEPT !.todo = @ \ {d}]
            BY <2>3 DEF TypeInv, TypeOK
        <3>2. /\ imp'[i].todo = imp[i].todo \ {d} /\ imp'[i].sheet = imp[i].sheet
              /\ imp'[i].loaded = imp[i].loaded /\ imp'[i].alone = imp[i].alone
            BY <2>1, <3>1 DEF ImportState
        <3>3. StillSeen(i)'
            BY <2>1, <2>3, <3>2
        <3>4. QED
            BY <2>2, <3>3
    <2>4. CASE imp' = [imp EXCEPT ![i].todo = @ \ {d}, ![i].phase = "flush",
                                  ![i].loaded[d] = rows[d]]
        <3>1. imp'[i] = [imp[i] EXCEPT !.todo = @ \ {d}, !.phase = "flush",
                                       !.loaded[d] = rows[d]]
            BY <2>4 DEF TypeInv, TypeOK
        <3>2. /\ imp'[i].loaded = [imp[i].loaded EXCEPT ![d] = rows[d]]
              /\ imp'[i].todo = imp[i].todo \ {d} /\ imp'[i].sheet = imp[i].sheet
              /\ imp'[i].alone = imp[i].alone
            BY <2>1, <3>1 DEF ImportState
        <3>3. /\ imp'[i].loaded[d] = rows[d] /\ rows[d] # NoRow
              /\ \A x \in Devices \ {d} : imp'[i].loaded[x] = imp[i].loaded[x]
            BY <2>1, <3>2, RequestsAssumption DEF ImportState
        <3>4. \A x \in imp'[i].todo : imp'[i].loaded[x] = NoRow
            BY <2>1, <3>2, <3>3 DEF ImportState
        <3>5. ASSUME imp'[i].alone, NEW x \in Devices, imp[i].sheet[x] # Absent,
                     x \notin imp'[i].todo
              PROVE  IF imp'[i].loaded[x] = NoRow THEN rows[x] = Wanted(imp[i].sheet[x])
                     ELSE rows[x] = imp'[i].loaded[x]
            <4>1. CASE x = d
                BY <2>1, <3>3, <4>1
            <4>2. CASE x # d
                <5>1. imp[i].alone /\ x \notin imp[i].todo
                    BY <3>2, <3>5, <4>2
                <5>2. imp'[i].loaded[x] = imp[i].loaded[x]
                    BY <3>3, <4>2
                <5>3. QED
                    BY <2>1, <3>5, <5>1, <5>2
            <4>3. QED
                BY <4>1, <4>2
        <3>6. StillSeen(i)'
            BY <2>1, <3>2, <3>4, <3>5
        <3>7. QED
            BY <2>2, <3>6
    <2>5. QED
        BY <1>5, <2>3, <2>4 DEF ImportRow
<1>6. ASSUME NEW i \in Importers, ImportFlush(i) \/ ImportLockTimeout(i)
      PROVE  SeenInv'
    <2>1. imp[i] \in ImportState /\ imp[i].phase # "idle" /\ rows' = rows
        BY <1>6 DEF ImportFlush, ImportLockTimeout, TypeInv, TypeOK
    <2>2. \A k \in Importers \ {i} : imp'[k] = imp[k]
        BY <1>6 DEF ImportFlush, ImportLockTimeout, TypeInv, TypeOK
    <2>3. imp'[i] = [imp[i] EXCEPT !.phase = "scan"] \/ imp'[i] = NoImport
        BY <1>6 DEF ImportFlush, ImportLockTimeout, TypeInv, TypeOK
    <2>4. CASE imp'[i] = NoImport
        BY <2>1, <2>2, <2>4 DEF NoImport
    <2>5. CASE imp'[i] = [imp[i] EXCEPT !.phase = "scan"]
        <3>1. /\ imp'[i].todo = imp[i].todo /\ imp'[i].sheet = imp[i].sheet
              /\ imp'[i].loaded = imp[i].loaded /\ imp'[i].alone = imp[i].alone
            BY <2>1, <2>5 DEF ImportState
        <3>2. \A k \in Importers \ {i} : StillSeen(k)'
            BY <2>1, <2>2
        <3>3. StillSeen(i)'
            BY <2>1, <3>1
        <3>4. QED
            BY <3>2, <3>3
    <2>6. QED
        BY <2>3, <2>4, <2>5
<1>7. ASSUME NEW i \in Importers, ImportCommit(i) PROVE SeenInv'
    <2> SUFFICES ASSUME NEW k \in Importers PROVE StillSeen(k)'
        OBVIOUS
    <2>1. CASE k = i
        BY <1>7, <2>1 DEF ImportCommit, NoImport
    <2>2. CASE k # i
        <3>1. imp'[k] = [imp[k] EXCEPT !.alone = imp[k].phase = "idle"]
            BY <1>7, <2>2, Zenon DEF ImportCommit
        <3>2. QED
            BY <3>1, MarkedSeen
    <2>3. QED
        BY <2>1, <2>2
<1>8. QED
    BY <1>1, <1>2, <1>3, <1>4, <1>5, <1>6, <1>7 DEF Next, RequestStep, ImportStep,
       vars, StartSession, EndSession, Admit, LoadDevice, PassGuards, Refuse, Flush,
       RejectedInsert, LockTimeout, Rollback

\* An import nobody has interfered with leaves exactly what its sheet says.
THEOREM ImportsExact == Spec => ImportExact
<1>1. Init => SeenInv
    BY DEF Init, SeenInv, StillSeen, NoImport
<1>2. TypeInv /\ SeenInv =>
        (\A i \in Importers : ImportCommit(i) /\ imp[i].alone =>
            \A d \in Devices : imp[i].sheet[d] # Absent =>
                rows'[d] = Wanted(imp[i].sheet[d]))
    <2> SUFFICES ASSUME TypeInv, SeenInv, NEW i \in Importers, ImportCommit(i),
                        imp[i].alone, NEW d \in Devices, imp[i].sheet[d] # Absent
                 PROVE  rows'[d] = Wanted(imp[i].sheet[d])
        OBVIOUS
    <2>1. /\ imp[i].phase = "scan" /\ imp[i].todo = {}
          /\ rows'[d] = IF imp[i].loaded[d] = NoRow THEN rows[d]
                        ELSE Update(rows[d], imp[i].loaded[d], Wanted(imp[i].sheet[d]))
        BY DEF ImportCommit
    <2>2. IF imp[i].loaded[d] = NoRow THEN rows[d] = Wanted(imp[i].sheet[d])
          ELSE rows[d] = imp[i].loaded[d]
        BY <2>1 DEF SeenInv, StillSeen
    <2>3. Wanted(imp[i].sheet[d]) \in Row
        BY RowTypes DEF TypeInv, TypeOK, ImportState
    <2>4. Update(rows[d], rows[d], Wanted(imp[i].sheet[d])) = Wanted(imp[i].sheet[d])
        BY <2>3 DEF Update, Row
    <2>5. QED
        BY <2>1, <2>2, <2>4
<1>3. QED
    BY <1>1, <1>2, SeenStep, TypeInvInit, TypeInvStep, PTL DEF Spec, ImportExact

-----------------------------------------------------------------------------
(***************************************************************************)
(* One request at a time.  Nobody else commits between the reads of the    *)
(* request and its commit, so what the guards saw still holds then, and    *)
(* the commit is a Borrow or a Return of LockerLedger; every other step,   *)
(* a crash included, leaves the ledger as it is.                           *)
(***************************************************************************)
Current ==
    /\ seen # NoRow => seen = rows[call.dev]
    /\ phase # "idle" /\ call.dev \in Devices => Len(log[call.dev]) < MaxLog
    /\ phase \in {"passed", "flushed"} =>
          IF call.op = "borrow"
          THEN CountBorrowed(call.user) < MaxBorrows
          ELSE seen.borrower # call.user => call.user \in Admins

SerialInv == RequestInv /\ Current

LEMMA SerialStep ==
    ASSUME Importers = {}, SerialInv, [Next]_vars
    PROVE  Current'
<1> USE DEF Current
<1>1. RequestInv /\ Current
    BY DEF SerialInv
<1>2. CASE UNCHANGED vars
    BY <1>1, <1>2 DEF vars, CountBorrowed
<1>3. ASSUME NEW u \in Users, StartSession(u) PROVE Current'
    BY <1>1, <1>3 DEF StartSession, requestVars, CountBorrowed
<1>4. CASE EndSession
    BY <1>1, <1>4 DEF EndSession, requestVars, CountBorrowed
<1>5. ASSUME NEW op \in {"borrow", "return"},
             NEW d \in Devices \cup {NoDevice}, Admit(op, d)
      PROVE  Current'
    BY <1>1, <1>5 DEF Admit, RequestInv
<1>6. CASE LoadDevice
    BY <1>1, <1>6 DEF LoadDevice, RequestInv
<1>7. CASE PassGuards
    BY <1>1, <1>7 DEF PassGuards, MayBorrow, MayReturn, RequestInv, CountBorrowed
<1>8. CASE Refuse \/ LockTimeout \/ Commit \/ Rollback
    BY <1>1, <1>8 DEF Refuse, LockTimeout, Commit, Rollback, Finish, RequestInv
<1>9. CASE Flush \/ RejectedInsert
    BY <1>1, <1>9 DEF Flush, RejectedInsert, RequestInv, CountBorrowed
<1>10. CASE Crash
    BY <1>1, <1>10 DEF Crash
<1>11. QED
    BY <1>1, <1>2, <1>3, <1>4, <1>5, <1>6, <1>7, <1>8, <1>9, <1>10
       DEF Next, RequestStep

LEMMA SameLoans ==
    ASSUME RequestInv, NEW u \in Users
    PROVE  Ledger!BorrowedBy(u) = {d \in Devices : rows[d] = HeldBy(u)}
<1>1. \A d \in Devices : rows[d] = HeldBy(u) <=>
          rows[d].status = "borrowed" /\ rows[d].borrower = u
    BY RequestsAssumption DEF RequestInv, Lent, InLocker, HeldBy
<1>2. QED
    BY <1>1 DEF Ledger!BorrowedBy

LEMMA LedgerCardinality ==
    ASSUME NEW S PROVE Ledger!Cardinality(S) = Cardinality(S)
    BY DEF Ledger!Cardinality, Cardinality, Ledger!IsFiniteSet, IsFiniteSet

LEMMA IsLedgerBorrow ==
    ASSUME NEW u \in Users, NEW d \in Devices, RequestInv,
           CountBorrowed(u) < MaxBorrows,
           rows[d].status = "available",
           Len(log[d]) < MaxLog,
           rows' = [rows EXCEPT ![d] = HeldBy(u)],
           log' = [log EXCEPT ![d] = Append(log[d], BorrowEntry(u))]
    PROVE  Ledger!Borrow(u, d)
<1>1. rows \in [Devices -> Lent]
    BY DEF RequestInv
<1>2. Ledger!Cardinality(Ledger!BorrowedBy(u)) < MaxBorrows
    BY SameLoans, LedgerCardinality DEF CountBorrowed
<1>3. [x \in Devices |-> rows'[x].status] =
          [[x \in Devices |-> rows[x].status] EXCEPT ![d] = "borrowed"]
    BY <1>1 DEF HeldBy
<1>4. [x \in Devices |-> rows'[x].borrower] =
          [[x \in Devices |-> rows[x].borrower] EXCEPT ![d] = u]
    BY <1>1 DEF HeldBy
<1>5. QED
    BY <1>2, <1>3, <1>4 DEF Ledger!Borrow, Ledger!SetRow,
       Ledger!Record, Ledger!BorrowEntry, BorrowEntry

LEMMA IsLedgerReturn ==
    ASSUME NEW u \in Users, NEW d \in Devices, RequestInv,
           rows[d].status = "borrowed",
           rows[d].borrower # NoUser,
           rows[d].borrower = u \/ u \in Admins,
           Len(log[d]) < MaxLog,
           rows' = [rows EXCEPT ![d] = InLocker],
           log' = [log EXCEPT ![d] = Append(log[d], ReturnEntry(rows[d].borrower, u))]
    PROVE  Ledger!Return(u, d)
<1>1. rows \in [Devices -> Lent]
    BY DEF RequestInv
<1>2. [x \in Devices |-> rows'[x].status] =
          [[x \in Devices |-> rows[x].status] EXCEPT ![d] = "available"]
    BY <1>1 DEF InLocker
<1>3. [x \in Devices |-> rows'[x].borrower] =
          [[x \in Devices |-> rows[x].borrower] EXCEPT ![d] = NoUser]
    BY <1>1 DEF InLocker
<1>4. QED
    BY <1>2, <1>3 DEF Ledger!Return, Ledger!MayReturn, Ledger!SetRow,
       Ledger!Record, Ledger!ReturnEntry, ReturnEntry

LEMMA CommitIsLedgerStep ==
    ASSUME SerialInv, Commit
    PROVE  \E u \in Users, d \in Devices :
              Ledger!Borrow(u, d) \/ Ledger!Return(u, d)
<1>1. /\ RequestInv /\ Current /\ phase = "flushed"
      /\ call \in Call /\ Fits /\ ~NobodyToLog
    BY DEF SerialInv, RequestInv, Commit
<1>2. PICK d \in Devices, u \in Users :
         /\ d = call.dev
         /\ u = call.user
         /\ Len(log[d]) < MaxLog
         /\ rows[d] = seen
         /\ rows' = [rows EXCEPT ![d] = Target]
         /\ log' = [log EXCEPT ![d] = Append(log[d], NewEntry)]
    BY <1>1, CommitEffect DEF Current, Call, Fits
<1>3. CASE call.op = "borrow"
    <2>1. /\ Target = HeldBy(u)
          /\ NewEntry = BorrowEntry(u)
          /\ CountBorrowed(u) < MaxBorrows
          /\ rows[d].status = "available"
        BY <1>1, <1>2, <1>3 DEF Target, NewEntry, Current, Fits
    <2>2. Ledger!Borrow(u, d)
        BY <1>1, <1>2, <2>1, IsLedgerBorrow
    <2>3. QED
        BY <2>2
<1>4. CASE call.op = "return"
    <2>1. /\ Target = InLocker
          /\ NewEntry = ReturnEntry(rows[d].borrower, u)
          /\ rows[d].status = "borrowed"
          /\ rows[d].borrower # NoUser
          /\ rows[d].borrower = u \/ u \in Admins
        BY <1>1, <1>2, <1>4 DEF Target, NewEntry, Current, Fits, NobodyToLog
    <2>2. Ledger!Return(u, d)
        BY <1>1, <1>2, <2>1, IsLedgerReturn
    <2>3. QED
        BY <2>2
<1>5. QED
    BY <1>1, <1>3, <1>4 DEF Call

LEMMA InitIsLedgerInit == Init => Ledger!Init
    BY DEF Init, Ledger!Init, InLocker, HeldBy

\* The server that handles one request at a time and runs no import implements
\* the ledger: crashes, lock timeouts, errors and sessions that end or change
\* under the request are invisible in the tables.
THEOREM SerialImplements ==
    ASSUME Importers = {}
    PROVE  Spec => ImplementsLedger
<1>1. Init => SerialInv
    BY RequestInvInit DEF SerialInv, Current, Init
<1>2. SerialInv /\ [Next]_vars => SerialInv'
    BY SerialStep, RequestInvStep DEF SerialInv
<1>3. SerialInv /\ [Next]_vars => [Ledger!Next]_(Ledger!vars)
    <2> SUFFICES ASSUME SerialInv, [Next]_vars
                 PROVE  Ledger!Next \/ UNCHANGED Ledger!vars
        OBVIOUS
    <2>1. CASE UNCHANGED <<rows, log>>
        BY <2>1 DEF Ledger!vars
    <2>2. CASE Commit
        BY <2>2, CommitIsLedgerStep DEF Ledger!Next
    <2>3. QED
        BY <2>1, <2>2 DEF Next, RequestStep, vars, StartSession, EndSession,
           Admit, LoadDevice, PassGuards, Refuse, Flush, RejectedInsert,
           LockTimeout, Rollback, Crash
<1>4. QED
    BY <1>1, <1>2, <1>3, InitIsLedgerInit, PTL
       DEF Spec, ImplementsLedger, Ledger!Spec
=============================================================================

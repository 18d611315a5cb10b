--------------------------- MODULE LockerRequests ---------------------------
(***************************************************************************)
(* A borrow or return request and the source imports as the server runs    *)
(* them.  One request is in progress at a time, so nobody shares its       *)
(* database session (overlapping requests are the subject of               *)
(* RequestSessions); next to it run imports that have a thread, and so a   *)
(* session, of their own: the timers', the cron job's, the one at start.   *)
(* The request's SELECTs run outside any transaction and see what is       *)
(* committed at that moment; its first flush opens the transaction and     *)
(* takes SQLite's only write lock, which it keeps until the dependency     *)
(* get_db commits, or a flush that fails rolls back.  An UPDATE names its  *)
(* row by primary key and sets only the columns that differ from the       *)
(* values loaded before.                                                   *)
(*                                                                         *)
(* One session object of the kiosk is current.  A request is admitted      *)
(* under the current session and keeps its user whatever happens to the    *)
(* session later.                                                          *)
(***************************************************************************)
EXTENDS Naturals, Sequences, FiniteSets

CONSTANTS
    Users, Admins, Devices, NoUser, MaxBorrows,   \* as in LockerLedger
    MaxLog,        \* bound: no request is admitted for a device with more entries
    NoDevice,      \* a device id that is not in the table
    NoRow,         \* "no device loaded"
    Nobody,        \* holder of the free write lock
    Request,       \* holder of the write lock: the request in progress
    Importers,     \* source imports that can run at the same time
    Sheets,        \* contents of the source Excel, see Places
    Locker, Stranger, Absent

Row == [status : {"available", "borrowed", "maintenance"},
        borrower : Users \cup {NoUser}]

\* Device d in the column "Aktueller Einsatzort" of the sheet: in the locker,
\* with a registered user, with somebody who has no account, or not listed.
Places == Users \cup {Locker, Stranger, Absent}

ASSUME RequestsAssumption ==
    /\ Admins \subseteq Users
    /\ NoUser \notin Users
    /\ IsFiniteSet(Devices)
    /\ NoDevice \notin Devices
    /\ NoRow \notin Row
    /\ MaxBorrows \in Nat
    /\ MaxLog \in Nat
    /\ Nobody \notin Importers
    /\ Request \notin Importers \cup {Nobody}
    /\ Sheets \subseteq [Devices -> Places]

VARIABLES
    rows,      \* committed devices rows
    log,       \* committed transaction_logs, per device
    writer,    \* who holds SQLite's write lock
    session,   \* user of SessionManager._current, or NoUser
    phase,     \* how far the request is
    call,      \* what it asks and for whom
    seen,      \* the Device object it has loaded
    imp        \* each import

vars == <<rows, log, writer, session, phase, call, seen, imp>>
requestVars == <<phase, call, seen>>

InLocker == [status |-> "available", borrower |-> NoUser]
HeldBy(u) == [status |-> "borrowed", borrower |-> u]

Entry == [type : {"borrow", "return"}, user : Users, by : Users \cup {NoUser}]
BorrowEntry(u) == [type |-> "borrow", user |-> u, by |-> NoUser]
ReturnEntry(u, performer) ==
    [type |-> "return", user |-> u,
     by |-> IF performer = u THEN NoUser ELSE performer]

Call == [op : {"borrow", "return"}, user : Users, dev : Devices \cup {NoDevice}]
NoCall == [op |-> "none", user |-> NoUser, dev |-> NoDevice]

Wanted(place) ==
    IF place = Locker THEN InLocker
    ELSE HeldBy(IF place = Stranger THEN NoUser ELSE place)

\* Mutants: an UPDATE that matches no row when the row has changed since it
\* was loaded, and one that leaves the borrower out.
Update_IfUnchanged(row, old, new) == IF row = old THEN new ELSE row
Update_StatusOnly(row, old, new) == [row EXCEPT !.status = new.status]

\* The UPDATE of a row whose object was loaded as old and is set to new.
Update(row, old, new) ==
    [status   |-> IF new.status # old.status THEN new.status ELSE row.status,
     borrower |-> IF new.borrower # old.borrower THEN new.borrower
                                                 ELSE row.borrower]

CountBorrowed(u) ==
    Cardinality({d \in Devices : rows[d] = HeldBy(u)})

NoImport == [phase |-> "idle", todo |-> {}, sheet |-> [d \in Devices |-> Absent],
             loaded |-> [d \in Devices |-> NoRow], alone |-> TRUE]

Init ==
    /\ rows \in [Devices -> {InLocker} \cup {HeldBy(u) : u \in Users \cup {NoUser}}]
    /\ log = [d \in Devices |-> <<>>]
    /\ writer = Nobody
    /\ session = NoUser
    /\ phase = "idle"
    /\ call = NoCall
    /\ seen = NoRow
    /\ imp = [i \in Importers |-> NoImport]

-----------------------------------------------------------------------------
(* The kiosk's session *)

StartSession(u) ==
    /\ session' = u
    /\ UNCHANGED <<rows, log, writer, requestVars, imp>>

\* By the button, by a card tap or by the inactivity timeout.
EndSession ==
    /\ session # NoUser
    /\ session' = NoUser
    /\ UNCHANGED <<rows, log, writer, requestVars, imp>>

-----------------------------------------------------------------------------
(* Requests *)

Finish ==
    /\ phase' = "idle"
    /\ call' = NoCall
    /\ seen' = NoRow

\* require_session lets the request in under the current session.
Admit(op, d) ==
    /\ phase = "idle"
    /\ session # NoUser
    /\ d \in Devices => Len(log[d]) < MaxLog
    /\ phase' = "admitted"
    /\ call' = [op |-> op, user |-> session, dev |-> d]
    /\ UNCHANGED <<rows, log, writer, session, seen, imp>>

\* The endpoint loads the device; the service's own find_by_id is answered
\* from the identity map of the session, without another SELECT.
LoadDevice ==
    /\ phase = "admitted"
    /\ phase' = "loaded"
    /\ seen' = IF call.dev = NoDevice THEN NoRow ELSE rows[call.dev]
    /\ UNCHANGED <<rows, log, writer, session, call, imp>>

\* Mutant: the limit compared with <=.
MayBorrow_LimitOffByOne ==
    /\ seen # NoRow
    /\ CountBorrowed(call.user) <= MaxBorrows
    /\ seen.status = "available"

\* The guards of borrow_device, on the loaded status and a fresh count.
MayBorrow ==
    /\ seen # NoRow
    /\ CountBorrowed(call.user) < MaxBorrows
    /\ seen.status = "available"

\* The guards of return_device, on the loaded row only.
MayReturn ==
    /\ seen # NoRow
    /\ seen.status = "borrowed"
    /\ seen.borrower # call.user => call.user \in Admins

PassGuards ==
    /\ phase = "loaded"
    /\ IF call.op = "borrow" THEN MayBorrow ELSE MayReturn
    /\ phase' = "passed"
    /\ UNCHANGED <<rows, log, writer, session, call, seen, imp>>

\* A guard fails and the reply is success: false.  is_expired is one of the
\* guards and reads the clock, so any request may end here.
Refuse ==
    /\ phase = "loaded"
    /\ Finish
    /\ UNCHANGED <<rows, log, writer, session, imp>>

\* Mutant: user_id of the log may be NULL.
NobodyToLog_Nullable == FALSE

\* The loaned device has nobody the RETURN entry could name.
NobodyToLog == call.op = "return" /\ seen.borrower = NoUser

\* The two flushes, UPDATE devices and INSERT INTO transaction_logs.
Flush ==
    /\ phase = "passed"
    /\ writer = Nobody
    /\ ~NobodyToLog
    /\ writer' = Request
    /\ phase' = "flushed"
    /\ UNCHANGED <<rows, log, session, call, seen, imp>>

\* user_id is NOT NULL: the INSERT raises, after the UPDATE took the lock.
RejectedInsert ==
    /\ phase = "passed"
    /\ writer = Nobody
    /\ NobodyToLog
    /\ writer' = Request
    /\ phase' = "failed"
    /\ UNCHANGED <<rows, log, session, call, seen, imp>>

\* Mutant: no busy timeout, the flush waits for as long as it takes.
LockTimeout_Never ==
    phase = "passed" /\ FALSE /\ Finish
        /\ UNCHANGED <<rows, log, writer, session, imp>>

\* The busy timeout passes while somebody else holds the lock: the flush
\* raises "database is locked" and get_db rolls back.
LockTimeout ==
    /\ phase = "passed"
    /\ writer # Nobody
    /\ Finish
    /\ UNCHANGED <<rows, log, writer, session, imp>>

Target == IF call.op = "borrow" THEN HeldBy(call.user) ELSE InLocker

NewEntry ==
    IF call.op = "borrow" THEN BorrowEntry(call.user)
    ELSE ReturnEntry(seen.borrower, call.user)

Commit ==
    /\ phase = "flushed"
    /\ LET d == call.dev IN
         /\ rows' = [rows EXCEPT ![d] = Update(@, seen, Target)]
         /\ log' = [log EXCEPT ![d] = Append(@, NewEntry)]
    /\ writer' = Nobody
    /\ imp' = [i \in Importers |-> [imp[i] EXCEPT !.alone = imp[i].phase = "idle"]]
    /\ Finish
    /\ UNCHANGED session

\* Mutant: an error path that leaves the transaction open.
Rollback_KeepsLock ==
    phase = "failed" /\ Finish /\ UNCHANGED <<rows, log, writer, session, imp>>

\* The failed flush rolls the transaction back, and get_db the session.
Rollback ==
    /\ phase = "failed"
    /\ writer' = Nobody
    /\ Finish
    /\ UNCHANGED <<rows, log, session, imp>>

-----------------------------------------------------------------------------
(***************************************************************************)
(* Source imports.  All rows of a sheet are one transaction.  Each row is  *)
(* compared with the device as loaded and flushed when it differs, in its  *)
(* status or borrower or in a column that has no part here; the first      *)
(* flush takes the write lock.  alone is an observation: no other          *)
(* transaction has committed since the import started.                     *)
(***************************************************************************)
ImportVarsOnly == UNCHANGED <<log, session, requestVars>>

ImportStart(i, sheet) ==
    /\ imp[i].phase = "idle"
    /\ imp' = [imp EXCEPT ![i] = [NoImport EXCEPT
                  !.phase = "scan", !.sheet = sheet,
                  !.todo = {d \in Devices : sheet[d] # Absent}]]
    /\ UNCHANGED <<rows, writer>>
    /\ ImportVarsOnly

ImportRow(i, d) ==
    /\ imp[i].phase = "scan"
    /\ d \in imp[i].todo
    /\ \/ /\ rows[d] = Wanted(imp[i].sheet[d])
          /\ imp' = [imp EXCEPT ![i].todo = @ \ {d}]
       \/ imp' = [imp EXCEPT ![i].todo = @ \ {d}, ![i].phase = "flush",
                             ![i].loaded[d] = rows[d]]
    /\ UNCHANGED <<rows, writer>>
    /\ ImportVarsOnly

ImportFlush(i) ==
    /\ imp[i].phase = "flush"
    /\ writer \in {Nobody, i}
    /\ writer' = i
    /\ imp' = [imp EXCEPT ![i].phase = "scan"]
    /\ UNCHANGED rows
    /\ ImportVarsOnly

\* The failed flush leaves the session unusable, the commit raises as well
\* and the import is over with nothing written.
ImportLockTimeout(i) ==
    /\ imp[i].phase = "flush"
    /\ writer \notin {Nobody, i}
    /\ imp' = [imp EXCEPT ![i] = NoImport]
    /\ UNCHANGED <<rows, writer>>
    /\ ImportVarsOnly

ImportCommit(i) ==
    /\ imp[i].phase = "scan"
    /\ imp[i].todo = {}
    /\ rows' = [d \in Devices |->
                  IF imp[i].loaded[d] = NoRow THEN rows[d]
                  ELSE Update(rows[d], imp[i].loaded[d],
                              Wanted(imp[i].sheet[d]))]
    /\ writer' = IF writer = i THEN Nobody ELSE writer
    /\ imp' = [j \in Importers |->
                  IF j = i THEN NoImport
                  ELSE [imp[j] EXCEPT !.alone = imp[j].phase = "idle"]]
    /\ ImportVarsOnly

-----------------------------------------------------------------------------
\* The server process dies and is started again: sessions, requests, imports
\* and uncommitted writes are gone.
Crash ==
    /\ writer' = Nobody
    /\ session' = NoUser
    /\ phase' = "idle"
    /\ call' = NoCall
    /\ seen' = NoRow
    /\ imp' = [i \in Importers |-> NoImport]
    /\ UNCHANGED <<rows, log>>

RequestStep ==
    \/ LoadDevice \/ PassGuards \/ Refuse
    \/ Flush \/ RejectedInsert \/ LockTimeout
    \/ Commit \/ Rollback

ImportStep(i) ==
    \/ \E d \in Devices : ImportRow(i, d)
    \/ ImportFlush(i) \/ ImportLockTimeout(i) \/ ImportCommit(i)

Next ==
    \/ \E u \in Users : StartSession(u)
    \/ EndSession
    \/ \E op \in {"borrow", "return"}, d \in Devices \cup {NoDevice} :
          Admit(op, d)
    \/ RequestStep
    \/ \E i \in Importers, sheet \in Sheets : ImportStart(i, sheet)
    \/ \E i \in Importers : ImportStep(i)
    \/ Crash

Spec == Init /\ [][Next]_vars

\* A request or import in progress is a running thread: it is scheduled, its
\* wait for the lock is bounded by the busy timeout, and the event loop runs
\* the exit of get_db.  Users and crashes owe nothing.
FairSpec ==
    /\ Spec
    /\ WF_vars(RequestStep)
    /\ \A i \in Importers : WF_vars(ImportStep(i))

-----------------------------------------------------------------------------
(* Properties *)

Ledger == INSTANCE LockerLedger
            WITH status <- [d \in Devices |-> rows[d].status],
                 borrower <- [d \in Devices |-> rows[d].borrower]

ImportState == [phase : {"idle", "scan", "flush"}, todo : SUBSET Devices,
                sheet : [Devices -> Places],
                loaded : [Devices -> Row \cup {NoRow}], alone : BOOLEAN]

\* Tables, requests and imports have the values their code can give them.
TypeOK ==
    /\ rows \in [Devices -> Row]
    /\ log \in [Devices -> Seq(Entry)]
    /\ writer \in Importers \cup {Request, Nobody}
    /\ session \in Users \cup {NoUser}
    /\ phase \in {"idle", "admitted", "loaded", "passed", "flushed", "failed"}
    /\ call \in Call \cup {NoCall}
    /\ seen \in Row \cup {NoRow}
    /\ imp \in [Importers -> ImportState]

\* The write lock belongs to work in progress: the request has it exactly from
\* its flush to its commit or rollback, and an import that is over has given it
\* back, whichever guard, error or timeout ended it.
LockHeldInTransaction ==
    /\ writer = Request <=> phase \in {"flushed", "failed"}
    /\ \A i \in Importers : writer = i => imp[i].phase # "idle"

\* A committed borrow or return sets the status its log entry says, even when
\* imports changed the row after the request had loaded it.  (The borrower may
\* be the import's then.)
CommitSetsStatus ==
    [][\A d \in Devices : log'[d] # log[d] =>
          rows'[d].status = IF log'[d][Len(log'[d])].type = "borrow"
                            THEN "borrowed" ELSE "available"]_vars

\* Without imports the server implements the ledger, whatever happens to the
\* kiosk's session while the request runs and wherever the server dies.
ImplementsLedger == Ledger!Spec

\* An import in which no other transaction interfered leaves every device it
\* lists exactly as the sheet says, status and borrower both.
ImportExact ==
    [][\A i \in Importers :
          ImportCommit(i) /\ imp[i].alone =>
             \A d \in Devices : imp[i].sheet[d] # Absent =>
                rows'[d] = Wanted(imp[i].sheet[d])]_vars

\* The request gets an answer and every import ends, although they wait for
\* one write lock: the busy timeout breaks the waits.
WorkFinishes ==
    /\ (phase # "idle") ~> (phase = "idle")
    /\ \A i \in Importers : (imp[i].phase # "idle") ~> (imp[i].phase = "idle")
=============================================================================

----------------------------- MODULE SourceSync -----------------------------
(***************************************************************************)
(* The triggers of the source import and the imports they start: one       *)
(* before the server is up, one by a debounce timer after the file watcher *)
(* has reported a change, one every day, and one by the admin's button.    *)
(* Nothing keeps them apart, and they meet in the database.  The button's  *)
(* runs on a thread of the pool, where a request may have the session that *)
(* get_session finds (RequestSessions says how), and end it half way.      *)
(*                                                                         *)
(* An import copies the file, compares the sheet with the devices row by   *)
(* row, and commits what differs as one transaction.  A row is here one    *)
(* value of a device that exists; new devices, registrants and rows that   *)
(* fail are those of SheetImport.  LockerRequests has imports and requests *)
(* side by side.                                                           *)
(***************************************************************************)
EXTENDS Naturals, FiniteSets

CONSTANTS
    NumRows, Values, Sheets,   \* as in SheetCopy
    Timers,     \* bound: debounce timers that wait or import at a time
    Startup,    \* the import of start_scheduler
    Callers,    \* who else imports: the cron job and the admin's button
    Daily,      \* the cron job; its max_instances is 1
    MaxCalls,   \* bound: imports of Callers at a time
    NoTimer,    \* _timer is None
    NoSheet,    \* "no copy"
    Nobody      \* holder of the free write lock

Rows == 1 .. NumRows
Jobs == Timers \cup Callers \cup {Startup}

\* The admin's button, on threads of the pool.
Buttons == Callers \ {Daily}

ASSUME SyncAssumption ==
    /\ NumRows \in Nat
    /\ Sheets \subseteq [Rows -> Values]
    /\ NoSheet \notin Sheets
    /\ NoTimer \notin Timers
    /\ Nobody \notin Jobs
    /\ Startup \notin Timers \cup Callers
    /\ Daily \in Callers
    /\ Timers \cap Callers = {}

VARIABLES
    file,       \* contents of the source Excel
    readable,   \* FALSE while it is locked, away, or half written
    server,     \* the process: down, importing at its start, up, stopping
    watching,   \* the observer has been started
    event,      \* an event of the file waits in the observer's queue
    timer,      \* the debounce timers that have not fired or been cancelled
    stored,     \* _timer of the handler
    job,        \* what each import is doing
    writer,     \* who holds SQLite's write lock
    db,         \* what the devices table says
    unread,     \* observation: a save was noticed and is not read yet
    atStart     \* observation: what the import at the start has copied

fileVars == <<file, readable>>
watchVars == <<watching, event, timer, stored>>
dbVars == <<writer, db>>
seenVars == <<unread, atStart>>
vars == <<fileVars, server, watchVars, job, dbVars, seenVars>>

NoJob == [at |-> "idle", copy |-> NoSheet, next |-> 1, write |-> {}]

Init ==
    /\ file \in Sheets
    /\ readable \in BOOLEAN
    /\ server = "down"
    /\ watching = FALSE
    /\ event = FALSE
    /\ timer = [t \in Timers |-> "off"]
    /\ stored = NoTimer
    /\ job = [i \in Jobs |-> NoJob]
    /\ writer = Nobody
    /\ db \in [Rows -> Values]
    /\ unread = FALSE
    /\ atStart = NoSheet

-----------------------------------------------------------------------------
(* The people who edit the sheet *)

\* It is opened in Excel, moved away, or its save has begun.
HoldFile ==
    /\ readable
    /\ readable' = FALSE
    /\ event' \in {event, watching}
    /\ UNCHANGED <<file, server, watching, timer, stored, job, dbVars, seenVars>>

\* It is closed or put back as it was, which is no event of the file.
ReleaseFile ==
    /\ ~readable
    /\ readable' = TRUE
    /\ UNCHANGED <<file, server, watchVars, job, dbVars, seenVars>>

\* A save is complete: it ends with a modified or a created event, or, when a
\* temporary file is renamed, with a moved event, for which there is no handler.
SaveFile(sheet) ==
    /\ file' = sheet
    /\ readable' = TRUE
    /\ \E told \in {watching, FALSE} :
          /\ event' = (event \/ told)
          /\ unread' = (unread \/ told)
    /\ UNCHANGED <<server, watching, timer, stored, job, dbVars, atStart>>

-----------------------------------------------------------------------------
(* The watcher *)

Begin(i) == job' = [job EXCEPT ![i].at = "begin"]

\* Mutants: the old timer is not cancelled; an event is ignored if there has
\* been a timer already.
HandleEvent_NoCancel ==
    /\ event
    /\ event' = FALSE
    /\ \E t \in Timers :
          /\ timer[t] = "off" /\ job[t].at = "idle"
          /\ timer' = [timer EXCEPT ![t] = "waiting"]
          /\ stored' = t
    /\ UNCHANGED <<fileVars, server, watching, job, dbVars, seenVars>>
HandleEvent_Once ==
    /\ event
    /\ event' = FALSE
    /\ IF stored # NoTimer THEN UNCHANGED <<timer, stored>>
       ELSE \E t \in Timers :
               /\ timer' = [timer EXCEPT ![t] = "waiting"]
               /\ stored' = t
    /\ UNCHANGED <<fileVars, server, watching, job, dbVars, seenVars>>

\* Under the handler's lock the timer stored last is cancelled, which has no
\* effect on one that has fired, and a new one is started and stored.
HandleEvent ==
    /\ event
    /\ event' = FALSE
    /\ \E t \in Timers :
          /\ job[t].at = "idle"
          /\ timer[t] = "off" \/ t = stored
          /\ timer' = [s \in Timers |-> IF s = t THEN "waiting"
                                        ELSE IF s = stored THEN "off" ELSE timer[s]]
          /\ stored' = t
    /\ UNCHANGED <<fileVars, server, watching, job, dbVars, seenVars>>

\* The window is over: the timer's thread goes on to _do_import.
Fire(t) ==
    /\ timer[t] = "waiting"
    /\ timer' = [timer EXCEPT ![t] = "off"]
    /\ Begin(t)
    /\ UNCHANGED <<fileVars, server, watching, event, stored, dbVars, seenVars>>

-----------------------------------------------------------------------------
(* The process, the daily job and the button *)

StartServer ==
    /\ server = "down"
    /\ server' = "importing"
    /\ Begin(Startup)
    /\ UNCHANGED <<fileVars, watchVars, dbVars, seenVars>>

\* Mutant: the import at the start is left to a thread of its own.
GoUp_Early ==
    /\ server = "importing"
    /\ server' = "up"
    /\ watching' = TRUE
    /\ atStart' = NoSheet
    /\ UNCHANGED <<fileVars, event, timer, stored, job, dbVars, unread>>

\* After the import the observer and the scheduler are started, then the
\* server.  A directory that is not there is not watched.
GoUp ==
    /\ server = "importing"
    /\ job[Startup].at = "idle"
    /\ server' = "up"
    /\ watching' \in IF readable THEN {TRUE} ELSE BOOLEAN
    /\ atStart' = NoSheet
    /\ UNCHANGED <<fileVars, event, timer, stored, job, dbVars, unread>>

Called == {i \in Callers : job[i].at # "idle"}

\* Mutant: an import is started only when the database is up to date.
CallImport_Never(i) ==
    /\ server = "up"
    /\ job[i].at = "idle"
    /\ Cardinality(Called) < MaxCalls
    /\ db = file
    /\ Begin(i)
    /\ UNCHANGED <<fileVars, server, watchVars, dbVars, seenVars>>

\* The daily job, or a request of the button: an import of its own that has
\* nothing to do with the timers.
CallImport(i) ==
    /\ server = "up"
    /\ job[i].at = "idle"
    /\ Cardinality(Called) < MaxCalls
    /\ Begin(i)
    /\ UNCHANGED <<fileVars, server, watchVars, dbVars, seenVars>>

\* stop_scheduler stops the observer and the cron job, but cancels no timer
\* and waits for no import.
StopScheduler ==
    /\ server = "up"
    /\ server' = "stopping"
    /\ watching' = FALSE
    /\ event' = FALSE
    /\ unread' = FALSE
    /\ UNCHANGED <<fileVars, timer, stored, job, dbVars, atStart>>

\* The process ends, stopped or killed, and its daemon threads with it.
Exit ==
    /\ server # "down"
    /\ server' = "down"
    /\ watching' = FALSE
    /\ event' = FALSE
    /\ timer' = [t \in Timers |-> "off"]
    /\ stored' = NoTimer
    /\ job' = [i \in Jobs |-> NoJob]
    /\ writer' = Nobody
    /\ unread' = FALSE
    /\ atStart' = NoSheet
    /\ UNCHANGED <<fileVars, db>>

-----------------------------------------------------------------------------
(* An import *)

Finish(i) == job' = [job EXCEPT ![i] = NoJob]

\* Mutant: an import that could not copy the file goes on.
ReadFile_GoesOn(i) ==
    /\ job[i].at = "begin"
    /\ job' = [job EXCEPT ![i].at = "rows",
                          ![i].copy = IF readable THEN file ELSE NoSheet]
    /\ UNCHANGED <<fileVars, server, watchVars, dbVars, seenVars>>

\* A file that is missing, locked or no workbook ends the import: nobody
\* tries again.
ReadFile(i) ==
    /\ job[i].at = "begin"
    /\ IF readable
       THEN job' = [job EXCEPT ![i].at = "rows", ![i].copy = file]
       ELSE Finish(i)
    /\ unread' = (unread /\ i \notin Timers)
    /\ atStart' = IF i = Startup /\ readable THEN file ELSE atStart
    /\ UNCHANGED <<fileVars, server, watchVars, dbVars>>

AtRow(i) == job[i].at = "rows" /\ job[i].next \in Rows
Differs(i) == db[job[i].next] # job[i].copy[job[i].next]

KeepRow(i) ==
    /\ AtRow(i)
    /\ ~Differs(i)
    /\ job' = [job EXCEPT ![i].next = @ + 1]
    /\ UNCHANGED <<fileVars, server, watchVars, dbVars, seenVars>>

\* Mutant: every row is a transaction of its own.
WriteRow_Autocommit(i) ==
    /\ AtRow(i)
    /\ Differs(i)
    /\ writer = Nobody
    /\ db' = [db EXCEPT ![job[i].next] = job[i].copy[job[i].next]]
    /\ job' = [job EXCEPT ![i].next = @ + 1, ![i].write = @ \cup {job[i].next}]
    /\ UNCHANGED <<fileVars, server, watchVars, writer, seenVars>>

\* The flush of an UPDATE takes the write lock, which is kept to the commit.
WriteRow(i) ==
    /\ AtRow(i)
    /\ Differs(i)
    /\ writer \in {Nobody, i}
    /\ writer' = i
    /\ job' = [job EXCEPT ![i].next = @ + 1, ![i].write = @ \cup {job[i].next}]
    /\ UNCHANGED <<fileVars, server, watchVars, db, seenVars>>

\* "database is locked": the session is unusable and the import fails.
LockTimeout(i) ==
    /\ AtRow(i)
    /\ Differs(i)
    /\ writer \notin {Nobody, i}
    /\ Finish(i)
    /\ UNCHANGED <<fileVars, server, watchVars, dbVars, seenVars>>

Commit(i) ==
    /\ job[i].at = "rows"
    /\ job[i].next \notin Rows
    /\ db' = [r \in Rows |-> IF r \in job[i].write THEN job[i].copy[r] ELSE db[r]]
    /\ writer' = IF writer = i THEN Nobody ELSE writer
    /\ Finish(i)
    /\ UNCHANGED <<fileVars, server, watchVars, seenVars>>

\* A request that has the session of the button's import ends and commits what
\* the import has flushed; the import goes on in a transaction of its own.
RequestCommits(i) ==
    /\ job[i].at = "rows"
    /\ writer = i
    /\ db' = [r \in Rows |-> IF r \in job[i].write THEN job[i].copy[r] ELSE db[r]]
    /\ writer' = Nobody
    /\ job' = [job EXCEPT ![i].write = {}]
    /\ UNCHANGED <<fileVars, server, watchVars, seenVars>>

\* It fails, or closes the session: what was flushed is gone, and the import
\* goes on with the rows that follow, or fails as well.
RequestRollsBack(i) ==
    /\ job[i].at = "rows"
    /\ writer = i
    /\ writer' = Nobody
    /\ job' = [job EXCEPT ![i].write = {}] \/ Finish(i)
    /\ UNCHANGED <<fileVars, server, watchVars, db, seenVars>>

JobStep(i) ==
    \/ ReadFile(i) \/ KeepRow(i) \/ WriteRow(i) \/ LockTimeout(i) \/ Commit(i)

Next ==
    \/ HoldFile \/ ReleaseFile \/ \E sheet \in Sheets : SaveFile(sheet)
    \/ HandleEvent
    \/ \E t \in Timers : Fire(t)
    \/ StartServer \/ GoUp \/ StopScheduler \/ Exit
    \/ \E i \in Callers : CallImport(i)
    \/ \E i \in Buttons : RequestCommits(i) \/ RequestRollsBack(i)
    \/ \E i \in Jobs : JobStep(i)

Spec == Init /\ [][Next]_vars

\* Threads run: the observer's, the timers' and those of the imports; the cron
\* job comes every day.  People and the process owe nothing.
FairSpec ==
    /\ Spec
    /\ WF_vars(HandleEvent)
    /\ WF_vars(\E t \in Timers : Fire(t))
    /\ WF_vars(GoUp)
    /\ WF_vars(CallImport(Daily))
    /\ \A i \in Jobs : WF_vars(JobStep(i))

-----------------------------------------------------------------------------
(* Properties *)

JobState == [at : {"idle", "begin", "rows"}, copy : Sheets \cup {NoSheet},
             next : 1 .. NumRows + 1, write : SUBSET Rows]

\* The handler's and the imports' variables have the values their code can
\* give them, and an import that works on rows has a copy to work on.
TypeOK ==
    /\ file \in Sheets
    /\ readable \in BOOLEAN
    /\ server \in {"down", "importing", "up", "stopping"}
    /\ watching \in BOOLEAN
    /\ event \in BOOLEAN
    /\ timer \in [Timers -> {"off", "waiting"}]
    /\ stored \in Timers \cup {NoTimer}
    /\ job \in [Jobs -> JobState]
    /\ \A i \in Jobs : job[i].at = "rows" => job[i].copy \in Sheets
    /\ writer \in Jobs \cup {Nobody}
    /\ db \in [Rows -> Values]
    /\ unread \in BOOLEAN
    /\ atStart \in Sheets \cup {NoSheet}

\* "a single timer that resets on each event": however events, firings and
\* imports interleave, at most one timer waits, and it is the stored one, so
\* the next event can still cancel it.
OneTimerWaits == \A t \in Timers : timer[t] = "waiting" => stored = t

\* "the database is current before the first request": when the server is up,
\* the database says what the import at its start has read.
StartsCurrent ==
    [][server = "importing" /\ server' = "up" /\ atStart # NoSheet
          => db' = atStart]_vars

\* "triggers an import whenever the source Excel is modified on disk": a save
\* that is noticed is followed by an import that its timer has started and that
\* tries to read the file, without waiting for the daily job.  If the file is
\* locked at that moment, nobody tries again: Converges.
SavedIsRead == unread ~> ~unread

\* Nobody is editing the sheet or importing it by hand.
LeftAlone(sheet) ==
    /\ file = sheet /\ readable /\ server = "up"
    /\ \A i \in Buttons : job[i].at = "idle"

\* The daily job is a safety net: when the sheet is left alone and the server
\* stays up, the database comes to agree with the file and stays so, whatever
\* was missed, failed, applied in part or overwritten by an older reading.
Converges == \A sheet \in Sheets : <>[]LeftAlone(sheet) => <>[](db = sheet)

\* The rows import i has looked at and not written.
Kept(i) == {r \in Rows : r < job[i].next} \ job[i].write

Agreed(i) == IF i \in Buttons THEN {} ELSE Kept(i)

Copies == INSTANCE SheetCopy
            WITH copy <- [i \in Jobs |-> job[i].copy],
                 agreed <- [i \in Jobs |-> Agreed(i)],
                 Loose <- Buttons

\* Overlapping imports, lock timeouts and crashes included: what gets into the
\* database is of one copy of the file, complete apart from rows the import has
\* found in agreement, and it gets there at once or not at all; only the
\* button's import may leave the database with a part of its copy.
ImplementsCopies == Copies!Spec
=============================================================================

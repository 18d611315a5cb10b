-------------------------- MODULE SourceSyncProofs --------------------------
(***************************************************************************)
(* Theorems about SourceSync, for any sheet, any number of timers and      *)
(* whoever else imports: the debounce timer, that the imports, however     *)
(* they overlap, implement SheetCopy, the import at the start, and that no *)
(* noticed save is dropped and no agreement lost.                          *)
(***************************************************************************)
EXTENDS SourceSync, TLAPS

(***************************************************************************)
(* What an import has in hand: a copy of the file as soon as it is at its  *)
(* rows, and writes for rows it has looked at already.  No thread begins   *)
(* an import while it is at another one.                                   *)
(***************************************************************************)
InHand(i) ==
    /\ job[i].at \in {"idle", "begin"} =>
          job[i].copy = NoSheet /\ job[i].next = 1 /\ job[i].write = {}
    /\ job[i].at = "rows" => job[i].copy \in Sheets
    /\ \A r \in job[i].write : r < job[i].next

JobInv ==
    /\ job \in [Jobs -> JobState]
    /\ \A i \in Jobs : InHand(i)
    /\ \A t \in Timers : timer[t] = "waiting" => job[t].at = "idle"
    /\ server = "down" => job[Startup].at = "idle"

LEMMA NoJobType == NoJob \in JobState
BY SyncAssumption DEF NoJob, JobState

LEMMA JobsApart ==
    /\ Startup \in Jobs /\ Startup \notin Timers /\ Startup \notin Callers
    /\ \A t \in Timers : t \in Jobs /\ t \notin Callers
    /\ \A i \in Callers : i \in Jobs
BY SyncAssumption DEF Jobs

LEMMA JobInvInit == Init => JobInv
<1> SUFFICES ASSUME Init PROVE JobInv
    OBVIOUS
<1>1. \A i \in Jobs : job[i] = NoJob
    BY DEF Init
<1>2. job \in [Jobs -> JobState]
    BY NoJobType DEF Init
<1>3. \A i \in Jobs : InHand(i) /\ job[i].at = "idle"
    BY <1>1 DEF InHand, NoJob
<1>4. QED
    BY <1>2, <1>3, JobsApart DEF JobInv

\* A thread that is at no import begins one.
LEMMA BeginKeeps ==
    ASSUME JobInv, NEW i \in Jobs, job[i].at = "idle", Begin(i)
    PROVE  /\ job' \in [Jobs -> JobState]
           /\ \A k \in Jobs : InHand(k)'
           /\ \A k \in Jobs \ {i} : job'[k] = job[k]
           /\ job'[i] = [job[i] EXCEPT !.at = "begin"]
<1> DEFINE new == [job[i] EXCEPT !.at = "begin"]
<1>1. new \in JobState
    BY DEF JobInv, JobState
<1>2. job' = [job EXCEPT ![i] = new]
    BY DEF Begin
<1>3. job'[i] = new /\ \A k \in Jobs \ {i} : job'[k] = job[k]
    BY <1>2 DEF JobInv
<1>4. InHand(i)'
    BY <1>3 DEF JobInv, InHand, JobState
<1>5. \A k \in Jobs \ {i} : InHand(k)'
    BY <1>3 DEF JobInv, InHand
<1>6. QED
    BY <1>1, <1>2, <1>3, <1>4, <1>5 DEF JobInv

\* An import takes a step, to new.
LEMMA StepKeeps ==
    ASSUME JobInv, NEW i \in Jobs, NEW new \in JobState, job[i].at # "idle",
           job' = [job EXCEPT ![i] = new], UNCHANGED <<timer, server>>,
           new.at \in {"idle", "begin"} =>
               new.copy = NoSheet /\ new.next = 1 /\ new.write = {},
           new.at = "rows" => new.copy \in Sheets,
           \A r \in new.write : r < new.next
    PROVE  JobInv'
<1>1. job'[i] = new /\ \A k \in Jobs \ {i} : job'[k] = job[k]
    BY DEF JobInv
<1>2. \A k \in Jobs : InHand(k)'
    BY <1>1 DEF JobInv, InHand
<1>3. \A t \in Timers : timer[t] = "waiting" => t # i
    BY DEF JobInv
<1>4. server = "down" => Startup # i
    BY DEF JobInv
<1>5. QED
    BY <1>1, <1>2, <1>3, <1>4, JobsApart DEF JobInv

LEMMA JobStepKeeps ==
    ASSUME TypeOK, JobInv, NEW i \in Jobs, JobStep(i)
    PROVE  JobInv'
<1>1. job[i] \in JobState /\ InHand(i)
    BY DEF JobInv
<1>2. UNCHANGED <<timer, server>> /\ job[i].at # "idle"
    BY DEF JobStep, ReadFile, KeepRow, WriteRow, LockTimeout, Commit, AtRow, watchVars
<1>3. CASE Finish(i)
    <2>1. job' = [job EXCEPT ![i] = NoJob]
        BY <1>3 DEF Finish
    <2>2. NoJob.at = "idle" /\ NoJob.copy = NoSheet /\ NoJob.next = 1 /\ NoJob.write = {}
        BY DEF NoJob
    <2>3. QED
        BY <1>2, <2>1, <2>2, NoJobType, StepKeeps
<1>4. CASE ReadFile(i) /\ readable
    <2> DEFINE new == [job[i] EXCEPT !.at = "rows", !.copy = file]
    <2>1. new \in JobState
        BY <1>1 DEF JobState, TypeOK
    <2>2. job' = [job EXCEPT ![i] = new]
        BY <1>4 DEF ReadFile
    <2>3. new.at = "rows" /\ new.copy \in Sheets /\ new.write = {}
        BY <1>1, <1>4 DEF InHand, JobState, TypeOK, ReadFile
    <2>4. QED
        BY <1>2, <2>1, <2>2, <2>3, StepKeeps
<1>5. CASE KeepRow(i) \/ WriteRow(i)
    <2>1. job[i].at = "rows" /\ job[i].next \in Rows
        BY <1>5 DEF KeepRow, WriteRow, AtRow
    <2>2. job[i].next \in Nat /\ job[i].next + 1 \in 1 .. NumRows + 1
        BY <2>1, SyncAssumption DEF Rows
    <2>3. CASE KeepRow(i)
        <3> DEFINE new == [job[i] EXCEPT !.next = job[i].next + 1]
        <3>1. new \in JobState
            BY <1>1, <2>2 DEF JobState
        <3>2. job' = [job EXCEPT ![i] = new]
            BY <2>3 DEF KeepRow
        <3>3. new.at = "rows" /\ new.copy \in Sheets /\ \A r \in new.write : r < new.next
            BY <1>1, <2>1, <2>2, SyncAssumption DEF InHand, JobState, Rows
        <3>4. QED
            BY <1>2, <3>1, <3>2, <3>3, StepKeeps
    <2>4. CASE WriteRow(i)
        <3> DEFINE new == [job[i] EXCEPT !.next = job[i].next + 1,
                                         !.write = job[i].write \cup {job[i].next}]
        <3>1. new \in JobState
            BY <1>1, <2>1, <2>2 DEF JobState
        <3>2. job' = [job EXCEPT ![i] = new]
            BY <2>4 DEF WriteRow
        <3>3. new.at = "rows" /\ new.copy \in Sheets /\ \A r \in new.write : r < new.next
            BY <1>1, <2>1, <2>2, SyncAssumption DEF InHand, JobState, Rows
        <3>4. QED
            BY <1>2, <3>1, <3>2, <3>3, StepKeeps
    <2>5. QED
        BY <1>5, <2>3, <2>4
<1>6. QED
    BY <1>3, <1>4, <1>5 DEF JobStep, ReadFile, LockTimeout, Commit

\* A request ends the transaction of the button's import.
LEMMA SharedKeeps ==
    ASSUME TypeOK, JobInv, NEW i \in Jobs, RequestCommits(i) \/ RequestRollsBack(i)
    PROVE  JobInv'
<1>1. job[i] \in JobState /\ InHand(i) /\ job[i].at = "rows" /\ UNCHANGED <<timer, server>>
    BY DEF JobInv, RequestCommits, RequestRollsBack, watchVars
<1>2. CASE Finish(i)
    <2>1. job' = [job EXCEPT ![i] = NoJob]
        BY <1>2 DEF Finish
    <2>2. NoJob.at = "idle" /\ NoJob.copy = NoSheet /\ NoJob.next = 1 /\ NoJob.write = {}
        BY DEF NoJob
    <2>3. QED
        BY <1>1, <2>1, <2>2, NoJobType, StepKeeps
<1>3. CASE job' = [job EXCEPT ![i].write = {}]
    <2> DEFINE new == [job[i] EXCEPT !.write = {}]
    <2>1. new \in JobState /\ new.at = "rows" /\ new.copy \in Sheets /\ new.write = {}
        BY <1>1 DEF JobState, InHand
    <2>2. job' = [job EXCEPT ![i] = new]
        BY <1>3
    <2> HIDE DEF new
    <2>3. QED
        BY <1>1, <2>1, <2>2, StepKeeps
<1>4. QED
    BY <1>2, <1>3 DEF RequestCommits, RequestRollsBack

LEMMA JobInvStep ==
    ASSUME TypeOK, JobInv, [Next]_vars
    PROVE  JobInv'
<1>1. CASE \/ HoldFile \/ ReleaseFile \/ \E sheet \in Sheets : SaveFile(sheet)
           \/ UNCHANGED vars
    <2>1. UNCHANGED <<job, timer, server>>
        BY <1>1 DEF HoldFile, ReleaseFile, SaveFile, vars, watchVars
    <2>2. QED
        BY <2>1 DEF JobInv, InHand
<1>2. CASE HandleEvent
    <2>1. UNCHANGED <<job, server>>
        BY <1>2 DEF HandleEvent
    <2>2. \A t \in Timers : timer'[t] = "waiting" => job[t].at = "idle"
        BY <1>2 DEF HandleEvent, JobInv
    <2>3. QED
        BY <2>1, <2>2 DEF JobInv, InHand
<1>3. ASSUME NEW t \in Timers, Fire(t) PROVE JobInv'
    <2>1. t \in Jobs /\ job[t].at = "idle" /\ Begin(t) /\ server' = server
        BY <1>3, JobsApart DEF Fire, JobInv
    <2>2. \A s \in Timers : timer'[s] = "waiting" => timer[s] = "waiting" /\ s # t
        BY <1>3 DEF Fire, TypeOK
    <2>3. \A s \in Timers : timer'[s] = "waiting" => job'[s].at = "idle"
        BY <2>1, <2>2, BeginKeeps, JobsApart DEF JobInv
    <2>4. server' = "down" => job'[Startup].at = "idle"
        BY <2>1, BeginKeeps, JobsApart DEF JobInv
    <2>5. QED
        BY <2>1, <2>3, <2>4, BeginKeeps DEF JobInv
<1>4. CASE StartServer
    <2>1. Startup \in Jobs /\ job[Startup].at = "idle" /\ Begin(Startup)
        BY <1>4, JobsApart DEF StartServer, JobInv
    <2>2. timer' = timer /\ server' # "down"
        BY <1>4 DEF StartServer, watchVars
    <2>3. QED
        BY <2>1, <2>2, BeginKeeps, JobsApart DEF JobInv
<1>5. CASE GoUp \/ StopScheduler
    <2>1. UNCHANGED <<job, timer>> /\ server' # "down"
        BY <1>5 DEF GoUp, StopScheduler
    <2>2. QED
        BY <2>1 DEF JobInv, InHand
<1>6. ASSUME NEW i \in Callers, CallImport(i) PROVE JobInv'
    <2>1. i \in Jobs /\ job[i].at = "idle" /\ Begin(i) /\ UNCHANGED <<timer, server>>
        BY <1>6, JobsApart DEF CallImport, watchVars
    <2>2. QED
        BY <2>1, BeginKeeps, JobsApart DEF JobInv
<1>7. CASE Exit
    <2>1. job' = [i \in Jobs |-> NoJob] /\ timer' = [t \in Timers |-> "off"]
        BY <1>7 DEF Exit
    <2>2. \A i \in Jobs : InHand(i)' /\ job'[i].at = "idle"
        BY <2>1 DEF InHand, NoJob
    <2>3. QED
        BY <2>1, <2>2, NoJobType, JobsApart DEF JobInv
<1>8. ASSUME NEW i \in Jobs, JobStep(i) PROVE JobInv'
    BY <1>8, JobStepKeeps
<1>9. ASSUME NEW i \in Buttons, RequestCommits(i) \/ RequestRollsBack(i) PROVE JobInv'
    BY <1>9, SharedKeeps, JobsApart DEF Buttons
<1>10. QED
    BY <1>1, <1>2, <1>3, <1>4, <1>5, <1>6, <1>7, <1>8, <1>9 DEF Next

LEMMA TypeStep ==
    ASSUME TypeOK, JobInv, JobInv', [Next]_vars
    PROVE  TypeOK'
<1>1. job' \in [Jobs -> JobState] /\ \A i \in Jobs : job'[i].at = "rows" => job'[i].copy \in Sheets
    BY DEF JobInv, InHand
<1> USE <1>1 DEF TypeOK
<1>2. CASE UNCHANGED vars
    BY <1>2 DEF vars, fileVars, watchVars, dbVars, seenVars
<1>3. CASE HoldFile \/ ReleaseFile
    BY <1>3 DEF HoldFile, ReleaseFile, watchVars, dbVars, seenVars
<1>4. ASSUME NEW sheet \in Sheets, SaveFile(sheet) PROVE TypeOK'
    BY <1>4 DEF SaveFile, dbVars
<1>5. CASE HandleEvent
    BY <1>5 DEF HandleEvent, fileVars, dbVars, seenVars
<1>6. ASSUME NEW t \in Timers, Fire(t) PROVE TypeOK'
    BY <1>6 DEF Fire, fileVars, dbVars, seenVars
<1>7. CASE StartServer \/ GoUp \/ StopScheduler
    BY <1>7 DEF StartServer, GoUp, StopScheduler, fileVars, watchVars, dbVars, seenVars
<1>8. CASE Exit
    BY <1>8 DEF Exit, fileVars
<1>9. ASSUME NEW i \in Callers, CallImport(i) PROVE TypeOK'
    BY <1>9 DEF CallImport, fileVars, watchVars, dbVars, seenVars
<1>10. ASSUME NEW i \in Jobs, ReadFile(i) \/ KeepRow(i) \/ LockTimeout(i) PROVE TypeOK'
    BY <1>10 DEF ReadFile, KeepRow, LockTimeout, fileVars, watchVars, dbVars, seenVars
<1>11. ASSUME NEW i \in Jobs, WriteRow(i) PROVE TypeOK'
    BY <1>11 DEF WriteRow, fileVars, watchVars, seenVars
<1>12. ASSUME NEW i \in Jobs, Commit(i) PROVE TypeOK'
    <2>1. \A r \in Rows : job[i].copy[r] \in Values
        BY <1>12, SyncAssumption DEF Commit
    <2>2. db' \in [Rows -> Values] /\ writer' \in Jobs \cup {Nobody}
        BY <1>12, <2>1 DEF Commit
    <2>3. QED
        BY <1>12, <2>2 DEF Commit, fileVars, watchVars, seenVars
<1>13. ASSUME NEW i \in Jobs, RequestCommits(i) \/ RequestRollsBack(i) PROVE TypeOK'
    <2>1. \A r \in Rows : job[i].copy[r] \in Values
        BY <1>13, SyncAssumption DEF RequestCommits, RequestRollsBack
    <2>2. db' \in [Rows -> Values] /\ writer' \in Jobs \cup {Nobody}
        BY <1>13, <2>1 DEF RequestCommits, RequestRollsBack
    <2>3. QED
        BY <1>13, <2>2 DEF RequestCommits, RequestRollsBack, fileVars, watchVars, seenVars
<1>14. QED
    BY <1>2, <1>3, <1>4, <1>5, <1>6, <1>7, <1>8, <1>9, <1>10, <1>11, <1>12, <1>13
       DEF Next, JobStep, Buttons, Jobs

\* Handler, imports and tables keep their types, and an import at its rows has
\* a copy to work on.
THEOREM TypeCorrect == Spec => [](TypeOK /\ JobInv)
<1>1. Init => TypeOK
    <2> SUFFICES ASSUME Init PROVE TypeOK
        OBVIOUS
    <2>1. job \in [Jobs -> JobState] /\ \A i \in Jobs : job[i].at # "rows"
        BY NoJobType DEF Init, NoJob
    <2>2. QED
        BY <2>1 DEF Init, TypeOK
<1>2. QED
    BY <1>1, JobInvInit, JobInvStep, TypeStep, PTL DEF Spec

\* A timer that waits is the one the handler has stored, however events and
\* firings alternate, so the next event cancels it.
THEOREM OneTimer == Spec => []OneTimerWaits
<1>1. Init => OneTimerWaits
    BY DEF Init, OneTimerWaits
<1>2. TypeOK /\ OneTimerWaits /\ [Next]_vars => OneTimerWaits'
    <2> SUFFICES ASSUME TypeOK, OneTimerWaits, [Next]_vars PROVE OneTimerWaits'
        OBVIOUS
    <2>1. CASE UNCHANGED <<timer, stored>>
        BY <2>1 DEF OneTimerWaits
    <2>2. CASE HandleEvent
        BY <2>2 DEF HandleEvent, OneTimerWaits, TypeOK
    <2>3. ASSUME NEW t \in Timers, Fire(t) PROVE OneTimerWaits'
        BY <2>3 DEF Fire, OneTimerWaits, TypeOK
    <2>4. CASE Exit
        BY <2>4 DEF Exit, OneTimerWaits
    <2>5. QED
        BY <2>1, <2>2, <2>3, <2>4 DEF Next, JobStep, HoldFile, ReleaseFile, SaveFile,
           StartServer, GoUp, StopScheduler, CallImport, ReadFile, KeepRow, WriteRow,
           LockTimeout, Commit, RequestCommits, RequestRollsBack, watchVars, vars
<1>3. QED
    BY <1>1, <1>2, TypeCorrect, PTL DEF Spec

-----------------------------------------------------------------------------
(***************************************************************************)
(* The refinement.  A write of a row is a stutter, since the abstract copy *)
(* sets at its end whatever it has not found in agreement; so the write    *)
(* set and the rows found in agreement must divide the rows looked at.     *)
(***************************************************************************)
\* A step that changes neither file nor database, and of each import that
\* goes on neither its copy nor its agreement.
LEMMA StutterOrDrop ==
    ASSUME NEW gone \in SUBSET Jobs, UNCHANGED <<file, db>>,
           \A i \in gone : job'[i].copy = NoSheet /\ Agreed(i)' = {},
           \A i \in Jobs \ gone : job'[i].copy = job[i].copy /\ Agreed(i)' = Agreed(i)
    PROVE  Copies!Drop(gone)
BY DEF Copies!Drop, Copies!Over

LEMMA NothingAgreed ==
    ASSUME NEW i \in Jobs, job[i].next = 1 PROVE Agreed(i) = {}
BY SyncAssumption DEF Agreed, Kept, Rows

\* An import is over, done or not; or it goes on in agreement with what it was.
LEMMA Ended ==
    ASSUME JobInv, NEW i \in Jobs, Finish(i)
    PROVE  /\ job'[i].copy = NoSheet /\ Agreed(i)' = {}
           /\ \A k \in Jobs \ {i} : job'[k].copy = job[k].copy /\ Agreed(k)' = Agreed(k)
<1>1. job'[i] = NoJob /\ \A k \in Jobs \ {i} : job'[k] = job[k]
    BY DEF Finish, JobInv
<1>2. job'[i].copy = NoSheet /\ Agreed(i)' = {}
    BY <1>1, SyncAssumption DEF NoJob, Agreed, Kept, Rows
<1>3. QED
    BY <1>1, <1>2 DEF Agreed, Kept

LEMMA ImportIsCopyStep ==
    ASSUME TypeOK, JobInv, JobInv', NEW i \in Jobs, JobStep(i)
    PROVE  Copies!Next
<1>1. job[i] \in JobState /\ InHand(i) /\ InHand(i)' /\ job[i].at # "idle"
    BY DEF JobInv, JobStep, ReadFile, KeepRow, WriteRow, LockTimeout, Commit, AtRow
<1>2. job \in [Jobs -> JobState]
    BY DEF JobInv
<1>3. CASE Finish(i) /\ UNCHANGED <<file, db>>
    <2>1. Copies!Drop({i})
        BY <1>3, Ended, StutterOrDrop
    <2>2. QED
        BY <2>1 DEF Copies!Next
<1>4. CASE ReadFile(i) /\ readable
    <2>1. job' = [job EXCEPT ![i] = [job[i] EXCEPT !.at = "rows", !.copy = file]]
        BY <1>4 DEF ReadFile
    <2>2. /\ job[i].copy = NoSheet /\ job[i].next = 1 /\ job'[i].copy = file
          /\ job'[i].next = 1 /\ job'[i].write = job[i].write
          /\ \A k \in Jobs \ {i} : job'[k] = job[k]
        BY <1>1, <1>2, <1>4, <2>1 DEF InHand, ReadFile, JobState
    <2>3. \A k \in Jobs : Agreed(k)' = Agreed(k)
        BY <2>2 DEF Agreed, Kept
    <2>4. [k \in Jobs |-> job'[k].copy] = [[k \in Jobs |-> job[k].copy] EXCEPT ![i] = file]
        BY <2>2
    <2>5. Copies!Take(i)
        BY <1>4, <2>2, <2>3, <2>4 DEF Copies!Take, ReadFile, fileVars, dbVars
    <2>6. QED
        BY <2>5 DEF Copies!Next
<1>5. CASE KeepRow(i)
    <2>0. PICK n \in Rows : n = job[i].next
        BY <1>5 DEF KeepRow, AtRow
    <2>1. n \in Nat /\ job[i].at = "rows" /\ db[n] = job[i].copy[n]
        BY <1>5, <2>0, SyncAssumption DEF KeepRow, AtRow, Differs, Rows
    <2>2. job' = [job EXCEPT ![i] = [job[i] EXCEPT !.next = n + 1]]
        BY <1>5, <2>0 DEF KeepRow
    <2>3. /\ job'[i].next = n + 1 /\ job'[i].write = job[i].write
          /\ job'[i].copy = job[i].copy
          /\ \A k \in Jobs \ {i} : job'[k] = job[k]
        BY <1>2, <2>0, <2>2 DEF JobState
    <2>4. \A k \in Jobs \ {i} : Agreed(k)' = Agreed(k)
        BY <2>3 DEF Agreed, Kept
    <2>5. CASE i \in Buttons
        <3>1. \A k \in Jobs : job'[k].copy = job[k].copy /\ Agreed(k)' = Agreed(k)
            BY <2>3, <2>4, <2>5 DEF Agreed
        <3>2. Copies!Drop({})
            BY <1>5, <3>1, StutterOrDrop DEF KeepRow, fileVars, dbVars
        <3>3. QED
            BY <3>2 DEF Copies!Next
    <2>6. CASE i \notin Buttons
        <3>1. n \notin job[i].write
            BY <1>1, <2>0, <2>1 DEF InHand
        <3>2. Agreed(i)' = Agreed(i) \cup {n}
            BY <2>0, <2>1, <2>3, <2>6, <3>1, SyncAssumption DEF Agreed, Kept, Rows
        <3>3. job[i].copy # NoSheet
            BY <1>1, <2>0, <2>1, SyncAssumption DEF InHand
        <3>4. [k \in Jobs |-> Agreed(k)'] = [[k \in Jobs |-> Agreed(k)] EXCEPT ![i] = @ \cup {n}]
            BY <2>4, <3>2
        <3>5. [k \in Jobs |-> job'[k].copy] = [k \in Jobs |-> job[k].copy]
            BY <2>3
        <3>6. Copies!Agree(i, n)
            BY <1>5, <2>1, <3>3, <3>4, <3>5 DEF Copies!Agree, KeepRow, fileVars, dbVars
        <3>7. n \in Copies!Rows
            BY DEF Copies!Rows, Rows
        <3>8. QED
            BY <3>6, <3>7 DEF Copies!Next
    <2>7. QED
        BY <2>5, <2>6
<1>6. CASE WriteRow(i)
    <2> DEFINE n == job[i].next
    <2>1. n \in Rows /\ n \in Nat
        BY <1>6, SyncAssumption DEF WriteRow, AtRow, Rows
    <2>2. job' = [job EXCEPT ![i] = [job[i] EXCEPT !.next = n + 1,
                                               !.write = job[i].write \cup {n}]]
        BY <1>6 DEF WriteRow
    <2>3. /\ job'[i].next = n + 1 /\ job'[i].write = job[i].write \cup {n}
          /\ job'[i].copy = job[i].copy
          /\ \A k \in Jobs \ {i} : job'[k] = job[k]
        BY <1>2, <2>2 DEF JobState
    <2>4. Agreed(i)' = Agreed(i)
        <3>1. ASSUME NEW r \in Rows
              PROVE  r < job'[i].next /\ r \notin job'[i].write
                        <=> r < job[i].next /\ r \notin job[i].write
            <4>1. r \in Nat
                BY SyncAssumption DEF Rows
            <4>2. r < n + 1 /\ r # n <=> r < n
                BY <2>1, <4>1
            <4>3. QED
                BY <2>3, <4>2
        <3>2. Kept(i)' = Kept(i)
            BY <3>1 DEF Kept
        <3>3. QED
            BY <3>2 DEF Agreed
    <2>5. \A k \in Jobs : job'[k].copy = job[k].copy /\ Agreed(k)' = Agreed(k)
        BY <2>3, <2>4 DEF Agreed, Kept
    <2>6. Copies!Drop({})
        BY <1>6, <2>5, StutterOrDrop DEF WriteRow, fileVars
    <2>7. QED
        BY <2>6 DEF Copies!Next
<1>7. CASE Commit(i)
    <2>1. job[i].at = "rows" /\ job[i].copy # NoSheet
        BY <1>1, <1>7, SyncAssumption DEF Commit, InHand
    <2>2. Copies!Over({i})
        BY <1>7, Ended DEF Commit, Copies!Over
    <2>3. CASE i \in Buttons
        <3>1. Copies!ApplyPart(i, job[i].write)
            BY <1>7, <2>1, <2>2 DEF Copies!ApplyPart, Copies!Rows, Rows, Commit, fileVars
        <3>2. job[i].write \in SUBSET Copies!Rows
            BY <1>1 DEF JobState, Copies!Rows, Rows
        <3>3. QED
            BY <2>3, <3>1, <3>2 DEF Copies!Next
    <2>4. CASE i \notin Buttons
        <3>1. \A r \in Rows : r < job[i].next
            BY <1>1, <1>7, SyncAssumption DEF Commit, Rows, JobState
        <3>2. \A r \in Rows : r \in Agreed(i) <=> r \notin job[i].write
            BY <2>4, <3>1 DEF Agreed, Kept
        <3>3. db' = [r \in Rows |-> IF r \in Agreed(i) THEN db[r] ELSE job[i].copy[r]]
            BY <1>7, <3>2 DEF Commit
        <3>4. Copies!Apply(i)
            BY <1>7, <2>1, <2>2, <3>3 DEF Copies!Apply, Copies!Rows, Rows, Commit, fileVars
        <3>5. QED
            BY <3>4 DEF Copies!Next
    <2>5. QED
        BY <2>3, <2>4
<1>8. QED
    BY <1>3, <1>4, <1>5, <1>6, <1>7 DEF JobStep, ReadFile, LockTimeout, fileVars, dbVars

\* The end of a request that has the session of the button's import applies a
\* part of the copy, or drops it.
LEMMA SharedIsCopyStep ==
    ASSUME TypeOK, JobInv, NEW i \in Buttons, RequestCommits(i) \/ RequestRollsBack(i)
    PROVE  Copies!Next
<1>1. i \in Jobs /\ job[i] \in JobState /\ job[i].at = "rows" /\ job[i].copy # NoSheet
    BY JobsApart, SyncAssumption DEF Buttons, JobInv, InHand, RequestCommits, RequestRollsBack
<1>2. CASE Finish(i) /\ RequestRollsBack(i)
    <2>1. Copies!Drop({i})
        BY <1>1, <1>2, Ended, StutterOrDrop DEF RequestRollsBack, fileVars
    <2>2. QED
        BY <1>1, <2>1 DEF Copies!Next
<1>3. CASE job' = [job EXCEPT ![i].write = {}]
    <2>1. /\ job'[i].copy = job[i].copy
          /\ \A k \in Jobs \ {i} : job'[k] = job[k]
        BY <1>1, <1>3 DEF JobInv, JobState
    <2>2. \A k \in Jobs : job'[k].copy = job[k].copy /\ Agreed(k)' = Agreed(k)
        BY <2>1 DEF Agreed, Kept
    <2>3. CASE RequestRollsBack(i)
        <3>1. Copies!Drop({})
            BY <2>2, <2>3, StutterOrDrop DEF RequestRollsBack, fileVars
        <3>2. QED
            BY <3>1 DEF Copies!Next
    <2>4. CASE RequestCommits(i)
        <3>1. Copies!Over({})
            BY <2>2 DEF Copies!Over
        <3>2. Copies!ApplyPart(i, job[i].write)
            BY <1>1, <2>4, <3>1
               DEF Copies!ApplyPart, Copies!Rows, Rows, RequestCommits, fileVars
        <3>3. job[i].write \in SUBSET Copies!Rows
            BY <1>1 DEF JobState, Copies!Rows, Rows
        <3>4. QED
            BY <3>2, <3>3 DEF Copies!Next
    <2>5. QED
        BY <2>3, <2>4
<1>4. QED
    BY <1>2, <1>3 DEF RequestCommits, RequestRollsBack

\* The imports, each started by whatever trigger and overlapping with any
\* others, lock timeouts and crashes included, do what SheetCopy says.
THEOREM SyncImplements == Spec => ImplementsCopies
<1>1. Init => Copies!Init
    <2> SUFFICES ASSUME Init PROVE Copies!Init
        OBVIOUS
    <2>1. \A i \in Jobs : job[i].copy = NoSheet /\ job[i].next = 1
        BY DEF Init, NoJob
    <2>2. \A i \in Jobs : Agreed(i) = {}
        BY <2>1, NothingAgreed
    <2>3. QED
        BY <2>1, <2>2 DEF Init, Copies!Init, Copies!Rows, Rows
<1>2. TypeOK /\ JobInv /\ JobInv' /\ [Next]_vars => [Copies!Next]_(Copies!copyVars)
    <2> SUFFICES ASSUME TypeOK, JobInv, JobInv', [Next]_vars
                 PROVE  Copies!Next \/ UNCHANGED Copies!copyVars
        OBVIOUS
    <2>1. CASE UNCHANGED <<file, db, job>>
        BY <2>1 DEF Copies!copyVars, Agreed, Kept
    <2>2. ASSUME NEW sheet \in Sheets, SaveFile(sheet) PROVE Copies!Next
        <3>1. file' = sheet /\ UNCHANGED <<db, job>>
            BY <2>2 DEF SaveFile, dbVars
        <3>2. Copies!Save
            BY <3>1 DEF Copies!Save, Agreed, Kept
        <3>3. QED
            BY <3>2 DEF Copies!Next
    <2>3. CASE Exit
        <3>1. \A i \in Jobs : job'[i] = NoJob
            BY <2>3 DEF Exit
        <3>2. \A i \in Jobs : job'[i].copy = NoSheet /\ Agreed(i)' = {}
            BY <3>1, SyncAssumption DEF NoJob, Agreed, Kept, Rows
        <3>3. Copies!Drop(Jobs)
            BY <2>3, <3>2, StutterOrDrop DEF Exit, fileVars
        <3>4. QED
            BY <3>3 DEF Copies!Next
    <2>4. ASSUME NEW i \in Jobs, Begin(i), UNCHANGED <<file, db>> PROVE Copies!Next
        <3>1. \A k \in Jobs : /\ job'[k].copy = job[k].copy /\ job'[k].next = job[k].next
                             /\ job'[k].write = job[k].write
            BY <2>4 DEF Begin, JobInv, JobState
        <3>2. Copies!Drop({})
            BY <2>4, <3>1, StutterOrDrop DEF Agreed, Kept
        <3>3. QED
            BY <3>2 DEF Copies!Next
    <2>5. ASSUME NEW i \in Jobs, JobStep(i) PROVE Copies!Next
        BY <2>5, ImportIsCopyStep
    <2>6. ASSUME NEW i \in Buttons, RequestCommits(i) \/ RequestRollsBack(i)
          PROVE  Copies!Next
        BY <2>6, SharedIsCopyStep
    <2>7. QED
        BY <2>1, <2>2, <2>3, <2>4, <2>5, <2>6, JobsApart DEF Next, HoldFile, ReleaseFile,
           HandleEvent, Fire, StartServer, GoUp, StopScheduler, CallImport,
           fileVars, dbVars, vars
<1>3. QED
    BY <1>1, <1>2, TypeCorrect, PTL DEF Spec, ImplementsCopies, Copies!Spec

-----------------------------------------------------------------------------
(***************************************************************************)
(* The import at the start.  Until the server is up nobody else imports,   *)
(* so it always gets the lock, and the database says of the rows looked at *)
(* and not written what the copy says.                                     *)
(***************************************************************************)
Quiet ==
    server \in {"down", "importing"} =>
        /\ ~watching /\ ~event
        /\ \A t \in Timers : timer[t] = "off"
        /\ \A i \in Jobs \ {Startup} : job[i].at = "idle"
        /\ writer \in {Nobody, Startup}

StartState ==
    /\ job[Startup].at # "idle" => server = "importing"
    /\ server = "down" \/ job[Startup].at = "begin" => atStart = NoSheet
    /\ job[Startup].at = "rows" =>
          /\ atStart = job[Startup].copy
          /\ \A r \in Kept(Startup) : db[r] = atStart[r]
    /\ server = "importing" /\ job[Startup].at = "idle" /\ atStart # NoSheet =>
          db = atStart

StartInv == Quiet /\ StartState

LEMMA StartInvInit == Init => StartInv
<1> SUFFICES ASSUME Init PROVE StartInv
    OBVIOUS
<1>1. \A i \in Jobs : job[i].at = "idle"
    BY DEF Init, NoJob
<1>2. QED
    BY <1>1, JobsApart DEF Init, StartInv, Quiet, StartState

\* A step of the import at the start.
LEMMA StartJobStep ==
    ASSUME TypeOK, JobInv, StartInv, JobStep(Startup)
    PROVE  StartInv'
<1> DEFINE i == Startup
<1>1. i \in Jobs /\ job[i] \in JobState /\ InHand(i)
    BY JobsApart DEF JobInv
<1>2. /\ server = "importing" /\ UNCHANGED <<server, watching, event, timer>>
      /\ writer' \in {Nobody, i}
    BY SyncAssumption DEF JobStep, ReadFile, KeepRow, WriteRow, LockTimeout, Commit, AtRow,
       StartInv, StartState, Quiet, watchVars, dbVars
<1>3. \A k \in Jobs \ {i} : job'[k] = job[k]
    BY <1>1 DEF JobStep, ReadFile, KeepRow, WriteRow, LockTimeout, Commit, Finish, JobInv
<1>4. Quiet'
    BY <1>2, <1>3 DEF Quiet, StartInv
<1>5. CASE ReadFile(i)
    <2>1. CASE readable
        <3>1. job'[i] = [job[i] EXCEPT !.at = "rows", !.copy = file]
            BY <1>1, <1>5, <2>1 DEF ReadFile, JobInv
        <3>2. /\ job'[i].at = "rows" /\ job'[i].copy = file
              /\ job'[i].next = 1
            BY <1>1, <1>5, <3>1 DEF JobState, ReadFile, InHand
        <3>3. Kept(i)' = {}
            BY <3>2 DEF Kept, Rows
        <3>4. atStart' = file
            BY <1>5, <2>1 DEF ReadFile
        <3>5. QED
            BY <1>2, <1>4, <3>2, <3>3, <3>4 DEF StartInv, StartState
    <2>2. CASE ~readable
        <3>1. job'[i].at = "idle"
            BY <1>1, <1>5, <2>2 DEF ReadFile, Finish, JobInv, NoJob
        <3>2. atStart' = NoSheet
            BY <1>5, <2>2 DEF ReadFile, StartInv, StartState
        <3>3. QED
            BY <1>2, <1>4, <3>1, <3>2 DEF StartInv, StartState
    <2>3. QED
        BY <2>1, <2>2
<1>6. CASE KeepRow(i) \/ WriteRow(i)
    <2> DEFINE n == job[i].next
    <2>1. /\ job[i].at = "rows" /\ n \in Nat /\ UNCHANGED <<db, atStart>>
          /\ KeepRow(i) => db[n] = job[i].copy[n]
        BY <1>1, <1>6, SyncAssumption
           DEF KeepRow, WriteRow, AtRow, Differs, dbVars, seenVars, Rows
    <2>2. /\ job'[i].at = "rows" /\ job'[i].copy = job[i].copy
          /\ job'[i].next = n + 1
          /\ job'[i].write = IF KeepRow(i) THEN job[i].write ELSE job[i].write \cup {n}
        <3>1. CASE KeepRow(i)
            <4>1. job'[i] = [job[i] EXCEPT !.next = n + 1]
                BY <1>1, <3>1 DEF KeepRow, JobInv
            <4>2. QED
                BY <1>1, <2>1, <3>1, <4>1 DEF JobState
        <3>2. CASE WriteRow(i)
            <4>1. job'[i] = [job[i] EXCEPT !.next = n + 1, !.write = job[i].write \cup {n}]
                BY <1>1, <3>2 DEF WriteRow, JobInv
            <4>2. ~KeepRow(i)
                BY <3>2 DEF KeepRow, WriteRow
            <4>3. QED
                BY <1>1, <2>1, <4>1, <4>2 DEF JobState
        <3>3. QED
            BY <1>6, <3>1, <3>2
    <2>3. ASSUME NEW r \in Kept(i)' PROVE db[r] = job[i].copy[r]
        <3>1. r \in Rows /\ r \in Nat /\ r < n + 1 /\ r \notin job'[i].write
            BY <2>2, <2>3, SyncAssumption DEF Kept, Rows
        <3>2. CASE r = n
            BY <1>6, <2>1, <2>2, <3>1, <3>2
        <3>3. CASE r # n
            <4>1. r < n /\ r \notin job[i].write
                BY <2>1, <2>2, <3>1, <3>3
            <4>2. r \in Kept(i)
                BY <3>1, <4>1 DEF Kept
            <4>3. QED
                BY <2>1, <4>2 DEF StartInv, StartState
        <3>4. QED
            BY <3>2, <3>3
    <2> HIDE DEF n
    <2>4. QED
        BY <1>2, <1>4, <2>1, <2>2, <2>3 DEF StartInv, StartState
<1>7. ~LockTimeout(i)
    BY <1>2 DEF LockTimeout, StartInv, Quiet
<1>8. CASE Commit(i)
    <2>1. job'[i].at = "idle" /\ atStart' = atStart
        BY <1>1, <1>8 DEF Commit, Finish, JobInv, NoJob, seenVars
    <2>2. /\ job[i].at = "rows" /\ atStart = job[i].copy /\ atStart \in [Rows -> Values]
          /\ \A r \in Kept(i) : db[r] = atStart[r]
        BY <1>1, <1>8, SyncAssumption DEF Commit, InHand, StartInv, StartState
    <2>3. \A r \in Rows : r < job[i].next
        BY <1>1, <1>8, SyncAssumption DEF Commit, JobState, Rows
    <2>4. \A r \in Rows : r \notin job[i].write => db[r] = atStart[r]
        BY <2>2, <2>3 DEF Kept
    <2>5. db' = [r \in Rows |-> IF r \in job[i].write THEN job[i].copy[r] ELSE db[r]]
        BY <1>8 DEF Commit
    <2>6. db' = atStart
        BY <2>2, <2>4, <2>5
    <2>7. QED
        BY <1>2, <1>4, <2>1, <2>6 DEF StartInv, StartState
<1>9. QED
    BY <1>5, <1>6, <1>7, <1>8 DEF JobStep

LEMMA StartInvStep ==
    ASSUME TypeOK, JobInv, StartInv, [Next]_vars
    PROVE  StartInv'
<1> USE DEF StartInv, Quiet, StartState, Kept
<1>1. CASE \/ HoldFile \/ ReleaseFile \/ \E sheet \in Sheets : SaveFile(sheet)
           \/ UNCHANGED vars
    <2>1. /\ UNCHANGED <<server, watching, timer, job, writer, db, atStart>>
        BY <1>1 DEF HoldFile, ReleaseFile, SaveFile, vars, fileVars, watchVars,
                    dbVars, seenVars
    <2>2. event' => event \/ watching
        <3>1. ASSUME NEW sheet \in Sheets, SaveFile(sheet), ~watching PROVE event' => event
            <4>1. PICK told \in {watching, FALSE} : event' = (event \/ told)
                BY <3>1 DEF SaveFile
            <4>2. told = FALSE
                BY <3>1, <4>1 DEF TypeOK
            <4>3. event' = (event \/ FALSE)
                BY <4>1, <4>2
            <4>4. QED
                BY <4>3, Zenon
        <3>2. HoldFile => event' \in {event, watching}
            BY DEF HoldFile
        <3>3. ReleaseFile \/ UNCHANGED vars => event' = event
            BY DEF ReleaseFile, vars, watchVars
        <3>4. event \in BOOLEAN /\ watching \in BOOLEAN
            BY DEF TypeOK
        <3>5. QED
            BY <1>1, <3>1, <3>2, <3>3, <3>4
    <2>3. QED
        BY <2>1, <2>2
<1>2. CASE HandleEvent
    BY <1>2 DEF HandleEvent, dbVars, seenVars
<1>3. ASSUME NEW t \in Timers, Fire(t) PROVE StartInv'
    <2>1. server \notin {"down", "importing"} /\ t # Startup /\ t \in Jobs
        BY <1>3, JobsApart DEF Fire
    <2>2. job'[Startup] = job[Startup] /\ UNCHANGED <<server, atStart, db>>
        BY <1>3, <2>1, JobsApart DEF Fire, Begin, JobInv, dbVars, seenVars
    <2>3. QED
        BY <2>1, <2>2
<1>4. CASE StartServer
    <2>1. job[Startup].at = "idle" /\ Begin(Startup) /\ Startup \in Jobs
        BY <1>4, JobsApart DEF StartServer, JobInv
    <2>2. /\ job'[Startup] = [job[Startup] EXCEPT !.at = "begin"]
          /\ \A k \in Jobs \ {Startup} : job'[k] = job[k]
        BY <2>1, BeginKeeps
    <2>3. job'[Startup].at = "begin"
        BY <2>1, <2>2 DEF JobInv, JobState
    <2>4. QED
        BY <1>4, <2>2, <2>3 DEF StartServer, watchVars, dbVars, seenVars
<1>5. CASE GoUp
    BY <1>5 DEF GoUp
<1>6. CASE StopScheduler
    BY <1>6 DEF StopScheduler, dbVars
<1>7. CASE Exit
    BY <1>7, JobsApart DEF Exit, NoJob
<1>8. ASSUME NEW i \in Callers, CallImport(i) PROVE StartInv'
    <2>1. server = "up" /\ i # Startup /\ job'[Startup] = job[Startup]
        BY <1>8, JobsApart DEF CallImport, Begin, JobInv
    <2>2. QED
        BY <1>8, <2>1 DEF CallImport, watchVars, dbVars, seenVars
<1>9. ASSUME NEW i \in Jobs, JobStep(i) PROVE StartInv'
    <2>1. CASE i = Startup
        BY <1>9, <2>1, StartJobStep
    <2>2. CASE i # Startup
        <3>1. job[i].at # "idle"
            BY <1>9 DEF JobStep, ReadFile, KeepRow, WriteRow, LockTimeout, Commit, AtRow
        <3>2. server \notin {"down", "importing"} /\ server' = server
            BY <1>9, <2>2, <3>1 DEF JobStep, ReadFile, KeepRow, WriteRow, LockTimeout, Commit
        <3>3. job'[Startup] = job[Startup] /\ job[Startup].at = "idle"
            BY <1>9, <2>2, <3>2, JobsApart
               DEF JobStep, ReadFile, KeepRow, WriteRow, LockTimeout, Commit, Finish, JobInv
        <3>4. QED
            BY <3>2, <3>3
    <2>3. QED
        BY <2>1, <2>2
<1>10. ASSUME NEW i \in Buttons, RequestCommits(i) \/ RequestRollsBack(i) PROVE StartInv'
    <2>1. i \in Jobs /\ i # Startup /\ job[i].at = "rows"
        BY <1>10, JobsApart DEF Buttons, RequestCommits, RequestRollsBack
    <2>2. server \notin {"down", "importing"} /\ server' = server
        BY <1>10, <2>1 DEF RequestCommits, RequestRollsBack
    <2>3. job'[Startup] = job[Startup] /\ job[Startup].at = "idle"
        BY <1>10, <2>1, <2>2, JobsApart
           DEF RequestCommits, RequestRollsBack, Finish, JobInv
    <2>4. QED
        BY <2>2, <2>3
<1>11. QED
    BY <1>1, <1>2, <1>3, <1>4, <1>5, <1>6, <1>7, <1>8, <1>9, <1>10 DEF Next

\* When the server goes up, the database says what the import at its start has
\* read, however the file was edited meanwhile.
THEOREM StartCurrent == Spec => StartsCurrent
<1>1. TypeOK /\ JobInv /\ StartInv /\ [Next]_vars =>
        [server = "importing" /\ server' = "up" /\ atStart # NoSheet
            => db' = atStart]_vars
    <2> SUFFICES ASSUME TypeOK, JobInv, StartInv, Next,
                        server = "importing", server' = "up", atStart # NoSheet
                 PROVE  db' = atStart
        BY DEF vars, fileVars, watchVars, dbVars, seenVars
    <2>1. GoUp
        BY DEF Next, HoldFile, ReleaseFile, SaveFile, HandleEvent, Fire, StartServer,
           StopScheduler, Exit, CallImport, JobStep, ReadFile, KeepRow, WriteRow,
           LockTimeout, Commit, RequestCommits, RequestRollsBack, watchVars
    <2>2. QED
        BY <2>1 DEF GoUp, StartInv, StartState, dbVars
<1>2. QED
    BY <1>1, StartInvInit, StartInvStep, TypeCorrect, PTL DEF Spec, StartsCurrent

-----------------------------------------------------------------------------
(***************************************************************************)
(* A save that was noticed.  Events replace timers and other imports run   *)
(* meanwhile, so what stands for it changes hands: the event, a timer that *)
(* waits, and an import of a timer that has not copied the file yet.       *)
(***************************************************************************)
\* The safety half of SavedIsRead.
SaveStands ==
    unread => \/ event
              \/ \E t \in Timers : timer[t] = "waiting" \/ job[t].at = "begin"

SaveInv == SaveStands /\ (event => watching)

LEMMA SaveInvStep ==
    ASSUME TypeOK, JobInv, Quiet, SaveInv, [Next]_vars
    PROVE  SaveInv'
<1>1. job \in [Jobs -> JobState] /\ Timers \subseteq Jobs
    BY DEF JobInv, Jobs
<1>2. ASSUME UNCHANGED <<timer, watching>>, event' \in {event, watching},
             event => event', unread' => unread \/ event',
             \A t \in Timers : job[t].at = "begin" => job'[t].at = "begin"
      PROVE  SaveInv'
    BY <1>2 DEF SaveInv, SaveStands, TypeOK
<1>3. CASE \/ HoldFile \/ ReleaseFile \/ \E sheet \in Sheets : SaveFile(sheet)
           \/ UNCHANGED vars
    BY <1>2, <1>3 DEF HoldFile, ReleaseFile, SaveFile, SaveInv, TypeOK, vars, watchVars,
                      seenVars
<1>4. CASE HandleEvent
    BY <1>4 DEF HandleEvent, SaveInv, SaveStands, seenVars
<1>5. ASSUME NEW t \in Timers, Fire(t) PROVE SaveInv'
    <2>1. job'[t].at = "begin"
        BY <1>1, <1>5 DEF Fire, Begin, JobState
    <2>2. QED
        BY <1>5, <2>1 DEF Fire, SaveInv, SaveStands, seenVars
<1>6. ASSUME NEW i \in Jobs, Begin(i), UNCHANGED <<event, watching, timer, unread>>
      PROVE  SaveInv'
    <2>1. \A t \in Timers : job[t].at = "begin" => job'[t].at = "begin"
        BY <1>1, <1>6 DEF Begin, JobState
    <2>2. QED
        BY <1>2, <1>6, <2>1
<1>7. CASE StartServer \/ \E i \in Callers : CallImport(i)
    BY <1>6, <1>7, JobsApart DEF StartServer, CallImport, watchVars, seenVars
<1>8. CASE GoUp
    BY <1>8 DEF GoUp, Quiet, SaveInv, SaveStands
<1>9. CASE StopScheduler \/ Exit
    BY <1>9 DEF StopScheduler, Exit, SaveInv, SaveStands
<1>10. ASSUME NEW i \in Jobs, JobStep(i) PROVE SaveInv'
    <2>1. \A t \in Timers \ {i} : job'[t] = job[t]
        BY <1>1, <1>10
           DEF JobStep, ReadFile, KeepRow, WriteRow, LockTimeout, Commit, Finish
    <2>2. UNCHANGED <<event, watching, timer>>
        BY <1>10 DEF JobStep, ReadFile, KeepRow, WriteRow, LockTimeout, Commit, watchVars
    <2>3. CASE ReadFile(i)
        BY <2>1, <2>2, <2>3 DEF ReadFile, SaveInv, SaveStands
    <2>4. CASE KeepRow(i) \/ WriteRow(i) \/ LockTimeout(i) \/ Commit(i)
        <3>1. job[i].at = "rows" /\ unread' = unread
            BY <2>4 DEF KeepRow, WriteRow, LockTimeout, Commit, AtRow, seenVars
        <3>2. QED
            BY <2>1, <2>2, <3>1 DEF SaveInv, SaveStands
    <2>5. QED
        BY <1>10, <2>3, <2>4 DEF JobStep
<1>11. ASSUME NEW i \in Buttons, RequestCommits(i) \/ RequestRollsBack(i) PROVE SaveInv'
    <2>1. \A t \in Timers : job'[t] = job[t]
        BY <1>1, <1>11, JobsApart DEF Buttons, RequestCommits, RequestRollsBack, Finish
    <2>2. UNCHANGED <<event, watching, timer, unread>>
        BY <1>11 DEF RequestCommits, RequestRollsBack, watchVars, seenVars
    <2>3. QED
        BY <2>1, <2>2 DEF SaveInv, SaveStands
<1>12. QED
    BY <1>3, <1>4, <1>5, <1>7, <1>8, <1>9, <1>10, <1>11 DEF Next

\* However events, timers and imports interleave, a save that was noticed is not
\* dropped: until it is read, there is an event, a timer or an import about to
\* read the file that stands for it.
THEOREM SaveNotDropped == Spec => []SaveStands
<1>1. Init => SaveInv
    BY DEF Init, SaveInv, SaveStands
<1>2. TypeOK /\ JobInv /\ StartInv /\ SaveInv /\ [Next]_vars => SaveInv'
    BY SaveInvStep DEF StartInv
<1>3. SaveInv => SaveStands
    BY DEF SaveInv
<1>4. QED
    BY <1>1, <1>2, <1>3, StartInvInit, StartInvStep, TypeCorrect, PTL DEF Spec

-----------------------------------------------------------------------------
(***************************************************************************)
(* Agreement.  Once the database says what the file says, and so does what *)
(* every import under way has read, it takes another save to end that.     *)
(***************************************************************************)
\* The safety half of Converges.
Settled ==
    /\ db = file
    /\ \A i \in Jobs : job[i].at = "rows" => job[i].copy = file

AgreementStays == [][Settled /\ file' = file => Settled']_vars

\* No order of imports, failures and restarts brings an older sheet back.
THEOREM AgreementKept == Spec => AgreementStays
<1>1. TypeOK /\ JobInv /\ [Next]_vars => [Settled /\ file' = file => Settled']_vars
    <2> SUFFICES ASSUME TypeOK, JobInv, Next, Settled, file' = file PROVE Settled'
        OBVIOUS
    <2>1. job \in [Jobs -> JobState] /\ db \in [Rows -> Values] /\ db = file
        BY DEF JobInv, TypeOK, Settled
    <2>2. ASSUME db' = db, \A i \in Jobs : job'[i].at = "rows" =>
                              job[i].at = "rows" /\ job'[i].copy = job[i].copy
          PROVE  Settled'
        BY <2>2 DEF Settled
    <2>3. CASE \/ HoldFile \/ ReleaseFile \/ \E sheet \in Sheets : SaveFile(sheet)
               \/ HandleEvent \/ GoUp \/ StopScheduler
        BY <2>2, <2>3 DEF HoldFile, ReleaseFile, SaveFile, HandleEvent, GoUp, StopScheduler,
                          dbVars
    <2>4. ASSUME NEW i \in Jobs, Begin(i), db' = db PROVE Settled'
        BY <2>1, <2>2, <2>4 DEF Begin, JobState
    <2>5. CASE StartServer \/ (\E t \in Timers : Fire(t)) \/ \E i \in Callers : CallImport(i)
        BY <2>4, <2>5, JobsApart DEF StartServer, Fire, CallImport, dbVars
    <2>6. CASE Exit
        BY <2>2, <2>6 DEF Exit, NoJob
    <2>7. ASSUME NEW i \in Jobs, JobStep(i) PROVE Settled'
        <3>1. \A k \in Jobs \ {i} : job'[k] = job[k]
            BY <2>1, <2>7
               DEF JobStep, ReadFile, KeepRow, WriteRow, LockTimeout, Commit, Finish
        <3>2. job'[i].at = "rows" => job'[i].copy = file
            BY <2>1, <2>7 DEF JobStep, ReadFile, KeepRow, WriteRow, LockTimeout, Commit,
               AtRow, Finish, NoJob, JobState, Settled
        <3>3. db' = db
            <4>1. CASE Commit(i)
                <5>1. job[i].copy = db /\ job[i].at = "rows"
                    BY <4>1 DEF Commit, Settled
                <5>2. db' = [r \in Rows |-> db[r]]
                    BY <4>1, <5>1 DEF Commit
                <5>3. QED
                    BY <2>1, <5>2
            <4>2. CASE ~Commit(i)
                BY <2>7, <4>2 DEF JobStep, ReadFile, KeepRow, WriteRow, LockTimeout, dbVars
            <4>3. QED
                BY <4>1, <4>2
        <3>4. QED
            BY <2>1, <3>1, <3>2, <3>3 DEF Settled
    <2>8. ASSUME NEW i \in Buttons, RequestCommits(i) \/ RequestRollsBack(i)
          PROVE  Settled'
        <3>1. i \in Jobs /\ job[i].at = "rows" /\ job[i].copy = db
            BY <2>8, JobsApart DEF Buttons, RequestCommits, RequestRollsBack, Settled
        <3>2. \A k \in Jobs : job'[k].at = "rows" =>
                                 job[k].at = "rows" /\ job'[k].copy = job[k].copy
            <4>1. \A k \in Jobs \ {i} : job'[k] = job[k]
                BY <2>1, <2>8 DEF RequestCommits, RequestRollsBack, Finish
            <4>2. CASE Finish(i)
                BY <2>1, <3>1, <4>1, <4>2 DEF Finish, NoJob
            <4>3. CASE job' = [job EXCEPT ![i].write = {}]
                <5>1. job'[i].at = job[i].at /\ job'[i].copy = job[i].copy
                    BY <2>1, <3>1, <4>3 DEF JobState
                <5>2. QED
                    BY <4>1, <5>1
            <4>4. QED
                BY <2>8, <4>2, <4>3 DEF RequestCommits, RequestRollsBack
        <3>3. db' = db
            <4>1. CASE RequestCommits(i)
                <5>1. db' = [r \in Rows |-> db[r]]
                    BY <3>1, <4>1 DEF RequestCommits
                <5>2. QED
                    BY <2>1, <5>1
            <4>2. CASE RequestRollsBack(i)
                BY <4>2 DEF RequestRollsBack
            <4>3. QED
                BY <2>8, <4>1, <4>2
        <3>4. QED
            BY <2>2, <3>2, <3>3
    <2>9. QED
        BY <2>3, <2>5, <2>6, <2>7, <2>8 DEF Next
<1>2. QED
    BY <1>1, TypeCorrect, PTL DEF Spec, AgreementStays
=============================================================================

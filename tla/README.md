# Smart Locker: a TLA+ model of the kiosk server

Smart Locker is a kiosk for a shared equipment locker: people tap an NFC card,
a session starts, they borrow and return devices on a touch screen, and a
transaction log keeps the history. A company Excel sheet is imported into the
same database. This directory models the server's concurrent core, checks it
with TLC, and proves with TLAPS that its safety properties hold for any number
of users, devices, requests, timers and imports.

## 1. Inventory

| Component | State | Operations | Talks to |
|---|---|---|---|
| Locker service (`services/locker_service.py`) | none of its own; `devices`, `transaction_logs` | borrow, return, admin return on behalf | repositories, session object (`touch`) |
| Repositories, models (`database/`) | rows of users, registrants, devices, log | find, count, flush an UPDATE or INSERT | SQLAlchemy session |
| Engine, `get_db` / `get_session` | singleton engine, scoped sessions, SQLite write lock | begin on first flush, commit, rollback | every writer |
| Session manager (`auth/session_manager.py`) | `_current` (user, last activity) | `current_session`, `has_active_session`, start, end, touch | event loop *and* pool threads, no lock |
| App context (`api/app_context.py`) | pending registration, SSE queue, bridge task, `had_session` | NFC bridge loop, registration tap | reader queue, session manager, database, browsers |
| API (`api/routes.py`) | none | session, borrow/return, register, cancel, panel, sync, export, dashboard, event stream | all of the above |
| Source import (`sync/source_import.py`) | one transaction per sheet | create and update devices, add registrants, export | database, file system |
| Scheduler (`sync/scheduler.py`) | debounce timer, cron job, observer | start-up, daily and on-change imports | source import |
| Photo watcher, Excel export (`sync/`) | timers per file; output file | copy photo, set `image_path`; write workbook | database, file system |
| NFC reader and observers (`nfc/`) | event queue, last UID | card inserted/removed, reader plugged/unplugged | bridge |
| Authenticator, user service, security | keys | look up UID by HMAC, enrol | users table |
| Browser (`frontend/`) | screen, idle timer, countdowns, event stream | navigation, requests | API, SSE |
| CLI kiosk (`app.py --cli`), scripts | one-shot | the same services, single-threaded | database |

FastAPI runs each plain `def` endpoint on a thread of its pool, the bridge is a
task of the event loop, imports run on timer, scheduler and pool threads. So
the hard behaviours are: two requests between one another's reads and writes; a
request or import against the other's transaction; session methods entered by
several threads; the bridge against cancellation and new registrations;
events pushed out of order; server death between flush and commit.

Hazards of this code, each at its line and with the properties that address it,
are listed in `PROJECT.json`.

What makes each component correct:

* *Locker service*: row and audit log agree; loans of a device do not overlap;
  nobody exceeds the limit. The code keeps this for requests that do not
  overlap; of overlapping ones only the bound on the excess is left.
* *Transactions*: the write lock is held only within a transaction and always
  given back; waiting ends; nothing half-written survives an error or crash.
* *Scoped sessions*: what is reported as done has been committed.
* *Session manager*: a session ends only for the documented reasons; no stale
  result.
* *Bridge*: one card per registration and none after a confirmed cancellation;
  a tap never takes over a session; an idle session ends; browsers are told.
* *Import*: what it commits is what the sheet says, its counts are true, a
  second import of the same sheet changes no device, everybody in the sheet can
  register, under one spelling as far as one import goes.
* *Scheduler*: whole copies or nothing, the button's import apart; a noticed save is read; the database
  comes to agree with a file that stays; it is current when the server starts.
* *Photo watcher*: an image that is shown has been copied; the scan at the
  start is complete; a noticed save is read.
* *Browser*: the screen shown agrees with the session after every exchange.

## 2. Plan

| | Module | Subject | State |
|---|---|---|---|
| A | `LockerLedger` | abstract ledger: borrow and return as single transactions | checked, proved |
| B | `LockerRequests` | one request at a time step by step, with the write lock, imports, session changes and crashes; refines A | checked, proved |
| C | `SessionManager` | methods split at the points where threads switch | checked (as part of D), proved |
| D | `AppContext`, `Kiosk` | C plus NFC bridge, registrations and endpoints; refines C and the abstract `Kiosk` | checked, safety proved |
| E | `SourceSync`, `SheetCopy` | debounce timers, daily job, admin import, overlapping imports; refines the abstract "whole copies or nothing" | checked, safety proved |
| F | `SheetImport` | one import row by row, others beside it: creations, people, counts, failing rows, registrants | checked, proved |
| G | `KioskUI` | screens and timers of `app.js` against the event queue, composed with D | open |
| H | `RequestSessions` | overlapping requests and button imports: registry of scoped sessions under the request pool, borrow limit | checked, proved |
| I | `PhotoWatcher` | timers per photo, copy and database, scan at the start | checked, safety proved |
| J | `NfcReader` | observers: last UID, two readers, removal | open |

Every safety property a passing run checks is also a theorem. G and J are what
is left: G because the page's behaviour lies in animations and some twenty
timers of one single-threaded script, whose server side D has already, and J
because what `reader.py` adds to the queue of taps in D is the hardware's.

## 3. Modules

`LockerLedger` — `status` and `borrower` are the two columns of `devices` that
matter here, `log` is `transaction_logs` split by device. `Borrow` and `Return`
are the methods of `LockerService` with all they call, as one step. Initially
rows are what an import into an empty database leaves, which includes devices
borrowed by nobody the system knows. `maintenance` is a status no code sets.

`LockerRequests` — a request moves through `phase`: *admitted* (by
`require_session`), *loaded* (the endpoint's SELECT; the service's own lookup is
answered from the identity map), *passed* (guards on the loaded object, the
borrow limit on a fresh count), *flushed* (UPDATE and INSERT: SQLite's write
lock is taken) and back to *idle* at the commit in `get_db`; *failed* is the
insert without a user. SELECTs before the first flush run outside a
transaction. One request is in progress at a time (`phase`, `call`, `seen`), and
kiosk sessions start and end between any two of its steps. The commit changes only the columns that differ from what was
loaded (`Update`), which is how SQLAlchemy writes an UPDATE. A request that waits
for the lock may give up (`LockTimeout`, the driver's busy timeout). An import
(`imp`) loads, compares and flushes row by row and commits once. In `ImportRow`
the choice between "differs" and "equal" is open when status and borrower are
equal, because other columns may differ. `Crash` restarts the server anywhere.
The imports are those with a thread of their own (timers, cron job, start-up). A
request that overlaps no other and such imports have a database session each,
which nobody else works with, as `AloneWhole` of `RequestSessions` shows; the
requests that overlap and the button's import have not, and are the subject of
that module.

`RequestSessions` — `scoped_session` keys sessions by thread (`registry`), while
FastAPI runs the two halves of the generator `get_db`, and the endpoint between
them, on any threads of its pool. So `Enter` takes the session of the thread it
is on, new or not; `Commit` and `Rollback` are those of the session the request
was given; `Remove` closes the session of the thread the second half runs on,
and detaches its objects, so that a later flush writes nothing for them
(`FlushRow`). `get_session` (imports, taps) has one thread, which is what `Jobs`
are; the admin button's import (`Buttons`) calls it from an endpoint, on a pool
thread, and may find a request's session there. The requests are those of one
user, each for a device of its own; a borrow counts what its session sees
(`MayBorrow`) before it writes. Two requests can share one session, or lose
theirs: all or nothing is true of jobs and of whoever overlaps nobody of the
pool (`AloneWhole`, where `alone` observes the overlaps), and false of
overlapping requests, as the run `SharedSession` shows. What is left for them is
`WriterIsAlive` and `OverrunBounded`, where `crowd` observes how many have
overlapped. That two of them borrow one device, or that one's row is committed
with another's log, no model has beyond this.

`SessionManager` — `current` is `_current`, sessions are numbered as they
start. `run[t]` is the method thread `t` is in and its locals. In CPython 3.11,
the minimum version, a thread can lose the interpreter only where a
function is entered, at a call and in loops, and while it does I/O such as writing a log line. So
`current_session` has four steps (test; `is_expired` and the last read; the
arguments of the log line; the clearing) and `end_session` three.
`start_session` is `end_session` and the store.

`AppContext` extends `SessionManager`: `bridge` is the place of the bridge task
in its loop and its locals, `job[p]` the request on pool thread `p`, `pending`
and `regs` the pending registration and those started, `told` the last session
event pushed. A card stands for its UID and its user. Calls of the session
manager become `Call...` steps, after which its own steps run. The two reads of
`pending_registration` by the bridge are separate; the two statements of
`cancel_registration` are not, since no call is between them. Any exception
from the manager ends the bridge task, or makes a reply with status 500.

`Kiosk` is the abstract specification of the same, as the people in front of it
see it: a card is taken for a login only while nobody is logged in (but the
panel's admin), only enrolled cards log in, and each enrolment uses up a
registration that was asked for and is still open. In `AppContext` a login is some
ten steps and an enrolment four, with requests between any two of them;
`TheKiosk` maps them (`user`, `entering` from the bridge's place, `open` from `pending`
and the registration the bridge is enrolling for).

`SourceSync` — four triggers of one import function: `Startup` runs before the
server is up (`GoUp` waits for it and then starts the observer), `Timers` are the
debounce timers of `_SourceFileHandler` with `stored` for its `_timer`, `Callers`
are the daily job and the admin's button. A save by renaming a temporary file
leaves no event the handler knows (`told` in `SaveFile`). `HandleEvent` cancels the stored timer,
which does nothing to one that has fired, and starts another. Nothing excludes
two imports but SQLite's lock. An import reads the file (`ReadFile`; a file that
is locked, away or half written ends it), compares row by row, flushes what
differs and commits. The button's import may share the session of a request,
whose end commits or drops what the import has flushed so far
(`RequestCommits`, `RequestRollsBack`). Saves, file locks, `StopScheduler`, which cancels and waits
for nothing, and the `Exit` of the process happen anywhere. Of a row the
module keeps one value: what rows consist of is the next module's.

`SheetCopy` is the abstract specification of the same: an import goes by one
whole copy of the file, leaves rows alone that agreed when it looked, and sets
all others at once or none; only the button's (`Loose`) may set a part of them.

`SheetImport` — one import in the detail of `source_import.py`: `ReadSheet` (a
sheet without a device of the locker ends it), `LookUp` of the row in hand (the
place resolved to a user by `Found`, where SQLite's `lower` meets Python's; two
users of one name are an error of this row; the device compared and counted),
`Flush` against the UNIQUE columns, `FlushFails` (the exception is caught but the
session is unusable, so the rest of the import fails too), `Commit`, and the
second transaction for the registrants (`ReadNames`, where the table is compared
with the sheet, and `AddNames`, the INSERT). Meanwhile people are enrolled, and
other imports create devices (`OtherImport`: one of a sheet with one device) and
add names, which they may have looked for long before (`OtherNames`). A serial number stands for all metadata, PM number and serial number
are unique. Slots are numbered by the rows that say "schrank" and kept by
devices that exist. `imp.quiet`, `imp.late` and `applied` are observations.

`PhotoWatcher` — per photo one timer (`waiting`), which a new event replaces and
which fires on one of the `Timers` threads; `process_photo` reads the file,
writes the copy, looks for devices of the model and commits their `image_path`,
with an exception possible where the code has I/O (`Raised`: the end of a timer's
thread, but of the start when it happens in the scan; one in the middle of the
copy leaves a part of it). `StartScan` and `ScanNext`
are the scan on the main thread in sorted order. Photos are saved, locked,
renamed and deleted, imports create devices and change models, and `Exit` may
cut off a copy (`Torn`). `ShownIsServed` takes a torn copy for a file that is
served; that it does not stay is `ScanComplete`.

`MC*` modules hold model values; `*Proofs` modules hold theorems.

## 4. Runs

| Run | Instance | Shows |
|---|---|---|
| `LedgerSmall` | 3 devices, 3 users (1 admin), limit 2, 3 log entries per device | the ledger's promises, all histories |
| `RequestsSerial` | no import, 2 devices, 2 users, limit 1, 2 entries | one request at a time implements `LockerLedger`, session changes and crashes anywhere |
| `ImportsRace` | 1 import beside the request, 2 devices, 2 sheets | an undisturbed import is exact; a commit sets its status despite an import; whatever has started finishes |
| `RequestSessions` | 2 borrow requests, 1 import of the button, 1 job, 2 pool threads, limit 1 | a job, and who overlaps nobody of the pool, commits all or nothing; no abandoned session keeps the lock; 2 requests get one device too many at most |
| `BridgeRace` | bridge and 1 pool thread, all endpoints but status and touch, 3 cards, 1 session, 2 registrations | registrations and cancellations against the bridge; implements `Kiosk` |
| `BridgeLive` | no panel, no end button, 2 cards, 2 sessions | no stale result; implements `Kiosk`; ends are noticed and told |
| `SourceSync` | 2 rows, 2 versions of the file, 2 timers, start-up, daily import and button | the scheduler's promises, and that it implements `SheetCopy` |
| `SheetImport` | 2 devices, 6 sheets of up to 3 rows, 2 users, 4 spellings of 2 names | what an import commits, counts and registers |
| `PhotoWatcher` | 2 photos of one model, one of them hidden, 1 version, 1 device, 2 timer threads | images, scan and timers |

`CHECK_DEADLOCK FALSE` is in two passing runs: `LedgerSmall` stops when every log
is full, and in `RequestSessions` every request is made once.

Why these bounds are enough: the limit is reached by one user with one device, or
two; two requests that overlap are enough to pass it; a session can be
lost only with a second one; a registration is replaced only by a second one.
`MaxLog`, `MaxSessions`, `MaxRegs` and `MaxTaps` bound histories and are guards
of arrivals (`Admit`, `ReaderEvent`, `Request`, `PanelRequest`), so that what has
started can finish, with one exception: a card tapped for a registration that
is then cancelled waits at its login if no session is left (`SessionLeft`); no
run with liveness has registrations. `BridgeRace` has three cards because the
admin's is enrolled already, and one registration that enrols two cards is what
it is to find. In `ImportsRace`
each place a device can be in appears in a sheet. Three users of the pool in
`RequestSessions`: one whose session is used, one that uses it, and one that
finds what they leave behind. In `SourceSync` a timer that has fired is at its
import while the next one waits, and the daily job or the button overlaps both
(`MaxCalls` keeps these two apart, which overlap each other as they do a timer's
import, and `SyncImplements` has no such bound); the database
may start with a mix of two versions, so a row may agree with a copy and another
not. The six sheets of `SheetImport` are the cases: plain; the same two devices
with their serial numbers exchanged and a name in another spelling; a row
without PM number and a person without a device of the locker; a device twice;
a serial number twice; no device of the locker. One of the names begins with an
umlaut, which the two `lower` treat differently. In `PhotoWatcher` two photos of one
model compete for a device, two threads can process one photo, and one version
of a photo is enough because no action compares two.

Runs that end in a violation, each a disagreement of code and documentation:

| Run | Property | What happens |
|---|---|---|
| `BridgeDies` | `BridgeRuns` | a cancellation between two reads of the bridge ends its task |
| `SessionLost` | `EndsAsDocumented` | a request finds the session expired; the bridge finds the same and clears it, and a tap starts a new session; the request, past its test, clears the new one |
| `SharedSession` | `DoneIsCommitted` | a refused request rolls back the loan of another, whose session it was given; the loan is confirmed |

The models show more that has no run of its own:

* Two requests of one user both count before either commits: the borrow limit
  is exceeded, by n - 1 loans at most with n requests at a time
  (`OverrunBounded`).
* Two imports that read the registrants before either inserts commit one name in
  two spellings, which the UNIQUE constraint does not see (`imp.late`, the
  exception in `OneSpelling`).
* A request that shares the session of the button's import commits a part of the
  sheet (`RequestCommits`).
* Return and import write different columns of one row: a device in the locker
  with a borrower.
* A device borrowed by an unknown person cannot be returned, not even by an
  admin (`RejectedInsert`; GUIDE.md promises the admin any device).
* An import overwrites status and borrower of existing devices, though
  `source_import.py:10-11` says it never does (`ImportCommit`, `Target`;
  `tests/test_source_import.py` expects the overwriting).
* With the end button, `session_ended` can overtake
  `auth_success`; and `session_timeout` is pushed for sessions that a tap, a
  button or the reader ended (`BridgeTopHas`).
* A person whose name has an umlaut in upper case is neither found as a borrower
  nor as a registrant (`Found`).
* A sheet without a device of the locker registers nobody; exchanged serial
  numbers can never be imported; devices of two imports can get one slot (`SlotOf`
  counts this sheet's rows, and devices that exist keep theirs), those of one
  import cannot (`SlotsAssigned`).
* Of two threads that copy one photo the older content may come last; the next
  scan repairs it.

## 5. Fairness

`LockerRequests`: a request or import in progress runs on a thread; its waits are
bounded by the busy timeout, so weak fairness of its next step, whichever it
is. Starting something, ending a session and crashing are not fair.

`AppContext`: the event loop's task and each pool thread that has a request are
weakly fair; taps, requests and the clocks are not. The bridge's poll returns
after half a second at the latest, hence weak fairness of its round. Timing: a
session times out (120 s) only after the bridge has seen it, as a round lasts
half a second (`SessionTimeout`); a database lock does not change that, its busy
timeout is five seconds. `LogoutTold` does not speak of sessions that are lost,
and `BridgeLive` leaves out the panel and the end button: with the button the
property does not hold, as said above.

`SourceSync`: the observer's thread, the timers (their window is three seconds and
each event replaces the timer), the start-up and every import's thread run, and
the cron job comes every day: weak fairness of `HandleEvent`, of a timer's
firing, of `GoUp`, `CallImport(Daily)` and each import's steps. People, the
admin's button, the start and the end of the process owe nothing. `SavedIsRead`
says that an import is started by the save's own timer; `Converges` assumes that
the file can be read and stays, and then rests on the daily job alone.

`PhotoWatcher`: the observer's and the timers' threads run. That a photo's timer
fires assumes that the photo is not saved every two seconds, which is the photo
watcher's window, for ever.

## 6. Proofs

All for any value of the constants that the named assumptions of the modules
allow: any number of users, devices, threads, requests, timers, rows and bounds (in
`LockerRequests` one request at a time and any number of imports).
The invariant of each proof, and why it takes more than the property:

* `LockerLedgerProofs`: `TypeCorrect`; `AuditCorrect`, where
  `AuditMatchesRow` and `LoanHistory` are proved together since an entry that is
  appended must fit the row and the row the last entry; `LimitHolds`, from the
  fact that a loan open in the log is a row that counts towards the limit, so
  the guard on the count bounds the open loans.
* `LockerRequestsProofs`: `TypeCorrect` and `LockCorrect`; the type invariant is
  strengthened by what a request past its guards knows (`Knows`). `CommitSets`:
  the status a request has loaded is always one that its operation changes
  (`FitsInv`), so the UPDATE has the column. `ImportsExact`: as long as nobody
  else commits, the rows are as the import has loaded them (`SeenInv`). These
  have any number of imports. `SerialImplements` assumes that none runs
  (`Importers = {}`): the initial states and every step of the server map to the
  ledger; only `Commit` is no stutter, and there the loaded object is the row.
* `SessionManagerProofs`: `SMTypeCorrect`, `NeverStale`. The inductive
  invariant adds what a thread inside a method knows (`Holds`): the session it
  judges is not older than the one that was found expired, as numbers are given
  in order; so if that one is still current, the thread judges it itself, and
  does not return it.
* `AppContextProofs`: `TypeCorrect` (`ContextInv`: the bridge has a card where it
  needs one, requests that may register stay within the bound).
  `ImplementsSessionManager`: every step of bridge and requests is a step of
  `SessionManager` or leaves it alone, so its theorems hold of the server
  (`ServerNeverStale`). `EnrolsOnce` and `CancelledStaysOut` from
  `RegInv`: the registration that the bridge is enrolling a card for has enrolled
  nobody, is not pending any more and has not been cancelled. `ServerIsKiosk`:
  the initial states map to those of `Kiosk`, and every step of a method of the
  manager, of the bridge, of a request and of a clock to a step of it or a
  stutter. That needs `KioskInv`: only the bridge at its login and the panel
  start sessions, of enrolled people, and requests only clear what is current,
  so from the check to the start nobody but the panel's admin is logged in
  (`Vacant`). `EndsRemembered` is the safety half of `LogoutTold`, under the
  same restriction (no panel, no end button): `MemoryInv` says what the bridge's
  `had_session` stands for. While it is false there is no session or one that
  has just been started; such a session cannot have expired, so whoever clears
  it has expired an earlier one, and it counts as lost (`Unseen`).
* `RequestSessionsProofs`: `TypeCorrect`, `WriterAlive`, and `AloneCorrect` from
  `SessionInv`: nobody else's entry in the registry names a job's session
  (`Alone`), and while somebody who overlaps no other is in progress on the pool
  there is no other (`Single`), so what they have written stays until their own
  commit (`Written`). `Overrun` from `OverrunInv`: who may still add a loan (`Pending`) is
  past the limit's check, or its row is written in the session it is at work
  with (`RowsAtWork`). When a borrow passes the check it has seen what is
  committed, and whoever is pending is one of the crowd, so there are fewer loans,
  committed and pending, than limit and crowd together.
* `SourceSyncProofs`: `TypeCorrect`, `OneTimer`; `SyncImplements`, step by step,
  from what an import has in hand (`InHand`) and that rows it has not written
  agreed with its copy when it looked, which is not kept of the button's (`Agreed`); `StartCurrent` from `StartInv`: until the server is up
  nobody else imports or holds the lock (`Quiet`). `SaveNotDropped` and
  `AgreementKept` are the safety halves of `SavedIsRead` and `Converges`: what
  stands for a save passes from the event to a timer to an import without a gap
  (`SaveInv`), and once database and imports agree with the file it takes a save to
  end that.
* `SheetImportProofs`: `TypeCorrect`; `SpelledOnce`, `NobodyMissing`;
  `CountsAreTrue` from `RowsInv`: rows done and counted, and the lock held as
  soon as anything is flushed, so that nobody else creates a device this import
  has counted as new. `AppliesSheet` from `AppliedInv`: a device whose row is done
  says what the last row done of it says, and from `SlotInv`: a device this import
  has created has the number of one of its rows. `SecondImport` from `RepeatInv`: as long as
  nobody is enrolled, the devices of the sheet applied last say what the last row
  of each says, so an import of it creates none and ends with every device as it
  was; where each has one row only, it flushes nothing. `SpelledOnce`: the names
  to be added are of one spelling each and were not known when the registrants
  were read, so a second spelling is of a name added since (`NamesInv`,
  `LateInv`).
* `PhotoWatcherProofs`: `TypeCorrect`; `ShownServed`: a thread that looks for
  devices has copied its photo (`Copied`), and copies are never removed.
  `ScanIsComplete`: while only the scan works, the devices of a model show the
  photo of it that was done last, and photos are done in sorted order (`Scanned`).
  `SaveNotDropped` is the safety half of `SavedIsRead`, as above.

Only model-checked: liveness (`WorkFinishes`, `LogoutTold`, `IdleSessionEnds`,
`Converges`, and `SavedIsRead` of two modules), which is out of the prover's
reach; what is proved of `LogoutTold`, `Converges` and `SavedIsRead` is that the
state they wait in always has somebody in charge of leaving it, or is not left
again. Only proved: `AuditMatchesRow` and `BorrowerMeansBorrowed` of the ledger, and the
safety halves.

## 7. Not modelled

* Requests of two users at a time, or two for one device: the kiosk shows one
  user at a time, and of overlapping requests `RequestSessions` has those of one
  user.
* The browser's pages: `app.js` is one thread of screens, countdowns and
  animations. Two of its hazards are listed. `told` is what the server
  pushes, not what a browser gets: the event queue's delivery, shared by all
  streams, is left out with it.
* Excel export: output only. That it is called without its path after an
  import, so that it fails and only a line in the log says so, no state can tell.
* Cryptography and the reading of UIDs: libraries and hardware. A card stands
  for its UID and its user.
* The command-line kiosk and the scripts: one-shot and single-threaded around the
  same services. `import_devices` is an import of `SheetImport`; devices that
  `update_device` edits by hand are left out, and so is an image set by hand.
* Read-only endpoints and listings, layout and wording; start and stop of the
  context and the mode without a reader; `stop_photo_watcher`, which nobody calls.
* Users are never deleted by the code and so stay. Roles do not change:
  `PanelAdmin` is the only admin of `AppContext`.

---------------------------- MODULE SheetImport ----------------------------
(***************************************************************************)
(* One import of the source Excel row by row, with the devices it creates, *)
(* the names it resolves, its counts, its errors and its second            *)
(* transaction for the registrants, while users are enrolled and other     *)
(* imports create devices and add names.  Who starts imports, and several  *)
(* at once, is in SourceSync; the kiosk's loans are in LockerRequests.     *)
(*                                                                         *)
(* A row of the sheet has a PM number, a slot column that does or does not *)
(* say "schrank", a serial number that stands for all metadata, and the    *)
(* place of the device: the locker, or the name of a person.               *)
(***************************************************************************)
EXTENDS Naturals, Sequences, FiniteSets

CONSTANTS
    PMs, NoPM,           \* PM numbers; an empty cell
    Serials, NoSerial,   \* serial numbers
    Names, Locker,       \* names of people as they are spelled; "schrank"
    PyLower,             \* str.lower of a name
    SqlLower,            \* SQLite's lower, which knows ASCII only
    Users, NoUser,       \* user ids
    NoName,              \* the name of a user id that is not in use
    NoDevice,            \* no row in devices
    Sheets, NoSheet,     \* contents of the file, rows without the header
    MaxRows              \* bound: rows of a sheet

SheetRow == [pm : PMs \cup {NoPM}, schrank : BOOLEAN,
             serial : Serials \cup {NoSerial}, place : Names \cup {Locker}]

ASSUME SheetAssumption ==
    /\ NoPM \notin PMs
    /\ NoSerial \notin Serials
    /\ Locker \notin Names
    /\ NoName \notin Names
    /\ NoUser \notin Users
    /\ IsFiniteSet(PMs)
    /\ MaxRows \in Nat \ {0}
    /\ Sheets \subseteq UNION {[1 .. n -> SheetRow] : n \in 0 .. MaxRows}
    /\ NoSheet \notin Sheets
    /\ PyLower \in [Names -> Names]
    /\ SqlLower \in [Names -> Names]

VARIABLES
    devices,       \* committed devices, by PM number
    account,       \* display_name of the users
    registrants,   \* names of the registrants table
    locked,        \* the import holds the write lock
    imp,           \* the import
    applied        \* observation: the sheet the database reflects, see below

vars == <<devices, account, registrants, locked, imp, applied>>

Device == [serial : Serials \cup {NoSerial}, slot : 1 .. MaxRows,
           borrowed : BOOLEAN, borrower : Users \cup {NoUser}]

ASSUME DeviceAssumption == NoDevice \notin Device

-----------------------------------------------------------------------------
(* What a sheet says *)

\* The rows that are devices of the locker.
DeviceRows(sheet) ==
    {k \in DOMAIN sheet : sheet[k].pm # NoPM /\ sheet[k].schrank}

\* Slots are numbered by the rows that say "schrank", with a PM number or not.
SlotOf(sheet, k) == Cardinality({j \in 1 .. k : sheet[j].schrank})

\* Mutant: only people who have a device of the locker.
People_OfLocker(sheet) == {sheet[k].place : k \in DeviceRows(sheet)} \ {Locker}

\* The people of all rows.
People(sheet) == {sheet[k].place : k \in DOMAIN sheet} \ {Locker}

\* find_by_display_name: SQLite's lower on one side, Python's on the other.
Found(name) ==
    {u \in Users : account[u] # NoName /\ SqlLower[account[u]] = PyLower[name]}

First(rows) == CHOOSE k \in rows : \A j \in rows : k <= j

-----------------------------------------------------------------------------

NoCounts == [imported |-> 0, updated |-> 0, unchanged |-> 0, errors |-> 0]

\* write: the devices flushed in the open transaction.  next: the device of
\* the row in hand as it is to be flushed.  names: what is to be added to the
\* registrants.  Observations: quiet, nobody was enrolled since the import
\* started; late, the names other imports added since it read the registrants.
NoImport == [at |-> "idle", sheet |-> NoSheet, todo |-> {}, next |-> NoDevice,
             write |-> [p \in PMs |-> NoDevice], counts |-> NoCounts,
             names |-> {}, quiet |-> TRUE, late |-> {}]

Init ==
    /\ devices = [p \in PMs |-> NoDevice]
    /\ account = [u \in Users |-> NoName]
    /\ registrants = {}
    /\ locked = FALSE
    /\ imp = NoImport
    /\ applied = NoSheet

\* A card is enrolled.  Neither the API nor enroll_card asks whether the name
\* is taken.
EnrollUser(u, name) ==
    /\ ~locked
    /\ account[u] = NoName
    /\ account' = [account EXCEPT ![u] = name]
    /\ imp' = [imp EXCEPT !.quiet = FALSE]
    /\ applied' = NoSheet
    /\ UNCHANGED <<devices, registrants, locked>>

\* Another import, of a sheet with this device only, commits: imports overlap,
\* and import_devices is a process of its own.
OtherImport(p, s) ==
    /\ ~locked
    /\ devices[p] = NoDevice
    /\ \A q \in PMs : devices[q] # NoDevice => devices[q].serial # s
    /\ devices' = [devices EXCEPT ![p] =
                      [serial |-> s, slot |-> 1, borrowed |-> FALSE, borrower |-> NoUser]]
    /\ UNCHANGED <<account, registrants, locked, imp, applied>>

\* Another import commits a name that it did not find when it read the
\* registrants, however long ago: UNIQUE display_name knows this spelling only.
OtherNames(name) ==
    /\ ~locked
    /\ name \notin registrants
    /\ registrants' = registrants \cup {name}
    /\ imp' = IF imp.at = "adding" THEN [imp EXCEPT !.late = @ \cup {name}] ELSE imp
    /\ UNCHANGED <<devices, account, locked, applied>>

-----------------------------------------------------------------------------
(* The devices *)

Counted(what) == [imp.counts EXCEPT ![what] = @ + 1]

\* Without a device of the locker in the sheet the import ends here, and the
\* names are not looked at.
ReadSheet(sheet) ==
    /\ imp.at = "idle"
    /\ imp' = IF DeviceRows(sheet) = {} THEN NoImport
              ELSE [NoImport EXCEPT !.at = "rows", !.sheet = sheet,
                                    !.todo = DeviceRows(sheet)]
    /\ UNCHANGED <<devices, account, registrants, locked, applied>>

\* What the import's session sees: its own rows, and what is committed.
View(p) == IF imp.write[p] # NoDevice THEN imp.write[p] ELSE devices[p]

\* Mutants: a borrower of None is no value; status is compared with its string.
Target_SkipsNone(old, row, k, user) ==
    [serial |-> row.serial,
     slot |-> IF old = NoDevice THEN SlotOf(imp.sheet, k) ELSE old.slot,
     borrowed |-> row.place # Locker,
     borrower |-> IF user = NoUser /\ old # NoDevice THEN old.borrower ELSE user]
Changed_AsString(old, new) == TRUE

\* The device of row k: create takes the slot, update_metadata keeps it.
Target(old, row, k, user) ==
    [serial |-> row.serial,
     slot |-> IF old = NoDevice THEN SlotOf(imp.sheet, k) ELSE old.slot,
     borrowed |-> row.place # Locker,
     borrower |-> user]

Changed(old, new) == old # new

\* The row in hand is looked up.  Two users of one name are an error of this
\* row alone.
LookUp ==
    /\ imp.at = "rows"
    /\ imp.todo # {}
    /\ LET k == First(imp.todo)
           row == imp.sheet[k]
           users == IF row.place = Locker THEN {} ELSE Found(row.place)
           old == View(row.pm)
           new == Target(old, row, k,
                         IF users = {} THEN NoUser ELSE CHOOSE u \in users : TRUE)
       IN imp' = IF Cardinality(users) > 1
                 THEN [imp EXCEPT !.todo = @ \ {k}, !.counts = Counted("errors")]
                 ELSE IF old # NoDevice /\ ~Changed(old, new)
                 THEN [imp EXCEPT !.todo = @ \ {k}, !.counts = Counted("unchanged")]
                 ELSE [imp EXCEPT !.next = new,
                                  !.at = IF old = NoDevice THEN "insert" ELSE "update"]
    /\ UNCHANGED <<devices, account, registrants, locked, applied>>

\* A UNIQUE constraint is violated: the PM number has been added meanwhile, or
\* the serial number is at this moment that of another device.
Conflict(p) ==
    \/ imp.at = "insert" /\ View(p) # NoDevice
    \/ imp.next.serial # NoSerial
         /\ \E q \in PMs \ {p} : View(q) # NoDevice /\ View(q).serial = imp.next.serial

Flush ==
    /\ imp.at \in {"insert", "update"}
    /\ LET k == First(imp.todo)
           p == imp.sheet[k].pm
       IN /\ ~Conflict(p)
          /\ imp' = [imp EXCEPT
                 !.at = "rows", !.todo = @ \ {k}, !.next = NoDevice,
                 !.write[p] = imp.next,
                 !.counts = Counted(IF imp.at = "insert" THEN "imported" ELSE "updated")]
    /\ locked' = TRUE
    /\ UNCHANGED <<devices, account, registrants, applied>>

\* Mutants: an error leaves the transaction open; the except clause gives up
\* what was flushed before the row and goes on.
FlushFails_KeepsLock ==
    /\ imp.at \in {"insert", "update"}
    /\ ~locked \/ Conflict(imp.sheet[First(imp.todo)].pm)
    /\ imp' = NoImport
    /\ UNCHANGED <<devices, account, registrants, locked, applied>>
FlushFails_GoesOn ==
    /\ imp.at \in {"insert", "update"}
    /\ ~locked \/ Conflict(imp.sheet[First(imp.todo)].pm)
    /\ imp' = [imp EXCEPT
           !.at = "rows", !.todo = @ \ {First(imp.todo)}, !.next = NoDevice,
           !.write = [p \in PMs |-> NoDevice], !.counts = Counted("errors")]
    /\ locked' = FALSE
    /\ UNCHANGED <<devices, account, registrants, applied>>

\* A constraint, or the busy timeout of a lock somebody else holds.  The error
\* is caught, but the session stays unusable: every row that follows is an
\* error, the commit raises, and the import ends without its second part.
FlushFails ==
    /\ imp.at \in {"insert", "update"}
    /\ ~locked \/ Conflict(imp.sheet[First(imp.todo)].pm)
    /\ imp' = NoImport
    /\ locked' = FALSE
    /\ UNCHANGED <<devices, account, registrants, applied>>

Commit ==
    /\ imp.at = "rows"
    /\ imp.todo = {}
    /\ devices' = [p \in PMs |-> View(p)]
    /\ locked' = FALSE
    /\ imp' = [imp EXCEPT !.at = "names", !.write = [p \in PMs |-> NoDevice]]
    /\ applied' = IF imp.quiet /\ imp.counts.errors = 0 THEN imp.sheet ELSE NoSheet
    /\ UNCHANGED <<account, registrants>>

-----------------------------------------------------------------------------
(* The registrants, in a transaction of their own *)

Known(name, names) == \E n \in names : PyLower[n] = PyLower[name]

\* Mutant: the names of the sheet are not compared with each other.
NewNames_Unmerged == {{n \in People(imp.sheet) : ~Known(n, registrants)}}

\* One spelling of each name that is not in the table.  (It is the one that
\* comes first in sorted order.)
NewNames ==
    {new \in SUBSET {n \in People(imp.sheet) : ~Known(n, registrants)} :
        /\ \A n \in People(imp.sheet) : Known(n, registrants \cup new)
        /\ \A m, n \in new : PyLower[m] = PyLower[n] => m = n}

\* add_names reads the whole table first; the write lock is taken by the INSERT.
ReadNames ==
    /\ imp.at = "names"
    /\ \E new \in NewNames : imp' = [imp EXCEPT !.at = "adding", !.names = new]
    /\ UNCHANGED <<devices, account, registrants, locked, applied>>

\* None of the names violates the UNIQUE constraint.
AddNames ==
    /\ imp.at = "adding"
    /\ imp.names \cap registrants = {}
    /\ registrants' = registrants \cup imp.names
    /\ imp' = NoImport
    /\ UNCHANGED <<devices, account, locked, applied>>

\* Any exception here is logged, and the names wait for the next import.
AddNamesFails ==
    /\ imp.at \in {"names", "adding"}
    /\ imp' = NoImport
    /\ UNCHANGED <<devices, account, registrants, locked, applied>>

\* The process dies.
Crash ==
    /\ imp' = NoImport
    /\ locked' = FALSE
    /\ UNCHANGED <<devices, account, registrants, applied>>

Next ==
    \/ \E u \in Users, name \in Names : EnrollUser(u, name)
    \/ \E p \in PMs, s \in Serials : OtherImport(p, s)
    \/ \E name \in Names : OtherNames(name)
    \/ \E sheet \in Sheets : ReadSheet(sheet)
    \/ LookUp \/ Flush \/ FlushFails \/ Commit
    \/ ReadNames \/ AddNames \/ AddNamesFails
    \/ Crash

Spec == Init /\ [][Next]_vars

-----------------------------------------------------------------------------
(* Properties *)

Counts == [imported : 0 .. MaxRows, updated : 0 .. MaxRows,
           unchanged : 0 .. MaxRows, errors : 0 .. MaxRows]

\* Tables and import have the values their code can give them; the lock is
\* held only by an import that is at its rows.
TypeOK ==
    /\ devices \in [PMs -> Device \cup {NoDevice}]
    /\ account \in [Users -> Names \cup {NoName}]
    /\ registrants \subseteq Names
    /\ locked \in BOOLEAN
    /\ imp \in [at : {"idle", "rows", "insert", "update", "names", "adding"},
                sheet : Sheets \cup {NoSheet}, todo : SUBSET (1 .. MaxRows),
                next : Device \cup {NoDevice},
                write : [PMs -> Device \cup {NoDevice}],
                counts : Counts, names : SUBSET Names,
                quiet : BOOLEAN, late : SUBSET Names]
    /\ applied \in Sheets \cup {NoSheet}
    /\ locked => imp.at \in {"rows", "insert", "update"}

Committing == imp.at = "rows" /\ imp'.at = "names"

NewDevices == {p \in PMs : devices[p] = NoDevice /\ devices'[p] # NoDevice}

Total(c) == c.imported + c.updated + c.unchanged + c.errors

\* The counts of an import that returns are those of what it has committed:
\* each row is counted once, as many devices are new as "imported" says, and
\* none of the others has changed if "updated" says so.
CountsTrue ==
    [][Committing =>
          /\ Total(imp.counts) = Cardinality(DeviceRows(imp.sheet))
          /\ imp.counts.imported = Cardinality(NewDevices)
          /\ imp.counts.updated = 0 =>
                \A p \in PMs \ NewDevices : devices'[p] = devices[p]]_vars

\* A device is as a row of the sheet has it.
Says(device, row) ==
    /\ device # NoDevice
    /\ device.serial = row.serial
    /\ device.borrowed = (row.place # Locker)
    /\ device.borrower # NoUser =>
          row.place # Locker /\ device.borrower \in Found(row.place)

RowsOf(p) == {k \in DeviceRows(imp.sheet) : imp.sheet[k].pm = p}
Last(rows) == CHOOSE k \in rows : \A j \in rows : j <= k

\* Devices keep their slots; those that are new got different ones, though the
\* numbering goes on over rows that are no devices, or none that are new.
SlotsAssigned ==
    /\ \A p \in PMs : devices[p] # NoDevice => devices'[p].slot = devices[p].slot
    /\ \A p, q \in NewDevices : devices'[p].slot = devices'[q].slot => p = q

\* An import that commits, and was in no doubt about a person, has applied the
\* last row of every device: its borrower is a user of the name in the row, or
\* nobody.  Devices that are not listed stay.  Slots are those of SlotsAssigned.
SheetApplied ==
    [][Committing =>
          /\ SlotsAssigned
          /\ \A p \in PMs :
                /\ RowsOf(p) = {} => devices'[p] = devices[p]
                /\ RowsOf(p) # {} /\ imp.counts.errors = 0 =>
                      Says(devices'[p], imp.sheet[Last(RowsOf(p))])]_vars

\* The sheet lists each device once.
OneRowEach(sheet) ==
    \A j, k \in DeviceRows(sheet) : sheet[j].pm = sheet[k].pm => j = k

\* Importing again what the database reflects leaves every device as it is,
\* though a sheet that lists one twice changes it and changes it back; if it
\* lists each device once, nothing is written and nothing counted as changed.
SecondImportUnchanged ==
    [][Committing /\ imp.quiet /\ imp.sheet = applied =>
          /\ devices' = devices
          /\ imp.counts.imported = 0
          /\ OneRowEach(imp.sheet) => imp.counts.updated = 0]_vars

Adding == imp.at = "adding" /\ imp' = NoImport /\ registrants' # registrants

\* "Successive source imports will not create duplicate rows": an import adds
\* nobody whose name is in the table in another spelling, or adds with it,
\* except a name that another import has added behind its back.
OneSpelling ==
    [][Adding =>
          \A n \in registrants' \ registrants, m \in registrants' \ imp.late :
              PyLower[m] = PyLower[n] => m = n]_vars

\* "ALL rows": when an import has added its names, everybody in the sheet is
\* a registrant, those included who have no device of the locker; and nobody
\* is ever removed.
NamesComplete ==
    [][/\ registrants \subseteq registrants'
       /\ Adding =>
            \A k \in DOMAIN imp.sheet :
                imp.sheet[k].place # Locker => Known(imp.sheet[k].place, registrants')]_vars
=============================================================================

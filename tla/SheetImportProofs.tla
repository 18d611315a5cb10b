--------------------------- MODULE SheetImportProofs ---------------------------
(***************************************************************************)
(* Proofs about SheetImport, for any sheets, devices, people and ways of   *)
(* spelling them: types, the spelling of the registrants, the counts and   *)
(* the contents of what an import commits, and that importing it again     *)
(* changes nothing.                                                        *)
(***************************************************************************)
EXTENDS SheetImport, FiniteSetTheorems, WellFoundedInduction, TLAPS

(***************************************************************************)
(* Rows and sets of rows.                                                  *)
(***************************************************************************)
LEMMA LeastExists ==
    ASSUME NEW S \in SUBSET Nat, S # {}
    PROVE  \E x \in S : \A y \in S : x <= y
<1>1. PICK x \in S : \A y \in S : ~(<<y, x>> \in OpToRel(<, Nat))
    BY NatLessThanWellFounded, WFMin
<1>2. \A y \in S : ~(y < x)
    BY <1>1 DEF OpToRel
<1>3. QED
    BY <1>2

LEMMA FirstIsLeast ==
    ASSUME NEW S \in SUBSET Nat, S # {}
    PROVE  First(S) \in S /\ \A j \in S : First(S) <= j
    BY LeastExists DEF First

LEMMA SheetRows ==
    ASSUME NEW sheet \in Sheets
    PROVE  /\ DOMAIN sheet \subseteq 1 .. MaxRows
           /\ \A k \in DOMAIN sheet : sheet[k] \in SheetRow /\ 1 .. k \subseteq DOMAIN sheet
           /\ DeviceRows(sheet) \subseteq DOMAIN sheet
           /\ IsFiniteSet(DeviceRows(sheet))
           /\ Cardinality(DeviceRows(sheet)) \in 0 .. MaxRows
<1>1. PICK n \in 0 .. MaxRows : sheet \in [1 .. n -> SheetRow]
    BY SheetAssumption
<1>2. MaxRows \in Nat /\ n \in Nat
    BY SheetAssumption
<1>3. DeviceRows(sheet) \subseteq 1 .. n
    BY <1>1 DEF DeviceRows
<1>4. IsFiniteSet(1 .. n) /\ Cardinality(1 .. n) = n
    BY <1>2, FS_Interval
<1>5. /\ IsFiniteSet(DeviceRows(sheet))
      /\ Cardinality(DeviceRows(sheet)) <= n
    BY <1>3, <1>4, FS_Subset
<1>6. Cardinality(DeviceRows(sheet)) \in Nat
    BY <1>5, FS_CardinalityType
<1>7. QED
    BY <1>1, <1>2, <1>3, <1>5, <1>6

LEMMA SlotTypes ==
    ASSUME NEW sheet \in Sheets, NEW k \in DeviceRows(sheet)
    PROVE  SlotOf(sheet, k) \in 1 .. MaxRows
<1>1. k \in 1 .. MaxRows /\ 1 .. k \subseteq DOMAIN sheet /\ MaxRows \in Nat
    BY SheetRows, SheetAssumption
<1>2. IsFiniteSet(1 .. k) /\ Cardinality(1 .. k) = k
    BY <1>1, FS_Interval
<1> DEFINE S == {j \in 1 .. k : sheet[j].schrank}
<1>3. IsFiniteSet(S) /\ Cardinality(S) <= k
    BY <1>2, FS_Subset
<1>4. k \in S
    BY <1>1 DEF DeviceRows
<1>5. Cardinality(S) \in Nat /\ Cardinality(S) # 0
    BY <1>3, <1>4, FS_CardinalityType, FS_EmptySet
<1>6. QED
    BY <1>1, <1>3, <1>5 DEF SlotOf

(***************************************************************************)
(* What holds of an import between two steps.  It has taken the write lock *)
(* when it has flushed anything, so no other import creates a device that  *)
(* this one has counted as new; and it has counted the rows it is done     *)
(* with.                                                                   *)
(***************************************************************************)
AtRows == {"rows", "insert", "update"}

Fresh == {p \in PMs : imp.write[p] # NoDevice /\ devices[p] = NoDevice}

Row == imp.sheet[First(imp.todo)]

RowsInv ==
    /\ imp.todo \subseteq DeviceRows(imp.sheet)
    /\ Total(imp.counts) + Cardinality(imp.todo) = Cardinality(DeviceRows(imp.sheet))
    /\ imp.at # "rows" => imp.todo # {} /\ imp.next \in Device
    /\ imp.at = "update" => View(Row.pm) # NoDevice
    /\ imp.counts.imported = Cardinality(Fresh)
    /\ imp.counts.updated = 0 =>
          \A p \in PMs : imp.write[p] # NoDevice => devices[p] = NoDevice
    /\ ~locked => \A p \in PMs : imp.write[p] = NoDevice

SheetInv ==
    /\ TypeOK
    /\ imp.at # "idle" => imp.sheet \in Sheets
    /\ imp.at \in AtRows => RowsInv

ImpRecord ==
    [at : {"idle", "rows", "insert", "update", "names", "adding"},
     sheet : Sheets \cup {NoSheet}, todo : SUBSET (1 .. MaxRows),
     next : Device \cup {NoDevice}, write : [PMs -> Device \cup {NoDevice}],
     counts : Counts, names : SUBSET Names, quiet : BOOLEAN, late : SUBSET Names]

LEMMA NoImportTypes ==
    /\ NoImport \in ImpRecord
    /\ NoImport.at = "idle"
<1>1. 0 \in 0 .. MaxRows
    BY SheetAssumption
<1>2. QED
    BY <1>1 DEF NoImport, ImpRecord, Counts, NoCounts

LEMMA SheetInit == Init => SheetInv
    BY NoImportTypes DEF Init, SheetInv, TypeOK, ImpRecord, AtRows

\* The import is over, or has not begun.
LEMMA ToNoImport ==
    ASSUME SheetInv, imp' = NoImport, UNCHANGED <<devices, account, applied>>,
           registrants' \subseteq Names, locked' = FALSE
    PROVE  SheetInv'
    BY NoImportTypes DEF SheetInv, TypeOK, ImpRecord, AtRows

\* The row in hand.
LEMMA RowTypes ==
    ASSUME SheetInv, imp.at \in AtRows, imp.todo # {}
    PROVE  /\ First(imp.todo) \in imp.todo
           /\ First(imp.todo) \in DeviceRows(imp.sheet)
           /\ \A j \in imp.todo : First(imp.todo) <= j
           /\ Row \in SheetRow /\ Row.pm \in PMs
           /\ imp.sheet \in Sheets
           /\ IsFiniteSet(imp.todo)
           /\ Cardinality(imp.todo \ {First(imp.todo)}) = Cardinality(imp.todo) - 1
           /\ Cardinality(imp.todo) \in Nat
<1>1. imp.sheet \in Sheets /\ imp.todo \subseteq DeviceRows(imp.sheet) /\ imp.todo \subseteq Nat
    BY DEF SheetInv, TypeOK, RowsInv, AtRows
<1>2. First(imp.todo) \in imp.todo /\ \A j \in imp.todo : First(imp.todo) <= j
    BY <1>1, FirstIsLeast
<1>3. First(imp.todo) \in DeviceRows(imp.sheet)
    BY <1>1, <1>2
<1>4. Row \in SheetRow /\ Row.pm \in PMs
    <2>1. Row \in SheetRow
        BY <1>1, <1>3, SheetRows DEF Row
    <2>2. Row.pm # NoPM
        BY <1>3 DEF Row, DeviceRows
    <2>3. QED
        BY <2>1, <2>2 DEF SheetRow
<1>5. IsFiniteSet(imp.todo)
    BY <1>1, SheetRows, FS_Subset
<1>6. QED
    BY <1>1, <1>2, <1>3, <1>4, <1>5, FS_RemoveElement, FS_CardinalityType

\* A row more is counted.
LEMMA CountedTypes ==
    ASSUME SheetInv, imp.at \in AtRows, imp.todo # {},
           NEW what \in {"imported", "updated", "unchanged", "errors"}
    PROVE  /\ Counted(what) \in Counts
           /\ Total(Counted(what)) = Total(imp.counts) + 1
           /\ \A w \in {"imported", "updated", "unchanged", "errors"} :
                 Counted(what)[w] = IF w = what THEN imp.counts[w] + 1 ELSE imp.counts[w]
<1>1. imp.counts \in Counts /\ MaxRows \in Nat
    BY SheetAssumption DEF SheetInv, TypeOK
<1>2. Total(imp.counts) < MaxRows
    <2>1. /\ Cardinality(imp.todo) \in Nat /\ Cardinality(imp.todo) # 0
          /\ Cardinality(DeviceRows(imp.sheet)) \in 0 .. MaxRows
        BY RowTypes, SheetRows, FS_EmptySet
    <2>2. Total(imp.counts) + Cardinality(imp.todo) = Cardinality(DeviceRows(imp.sheet))
        BY DEF SheetInv, RowsInv
    <2>3. Total(imp.counts) \in Nat
        BY <1>1 DEF Total, Counts
    <2>4. QED
        BY <1>1, <2>1, <2>2, <2>3
<1>3. imp.counts[what] + 1 \in 0 .. MaxRows
    BY <1>1, <1>2 DEF Counts, Total
<1>4. QED
    BY <1>1, <1>3 DEF Counted, Counts, Total

LEMMA TargetTypes ==
    ASSUME SheetInv, imp.at \in AtRows, imp.todo # {}, NEW user \in Users \cup {NoUser}
    PROVE  Target(View(Row.pm), Row, First(imp.todo), user) \in Device
<1>1. /\ SlotOf(imp.sheet, First(imp.todo)) \in 1 .. MaxRows
      /\ Row.serial \in Serials \cup {NoSerial}
    BY RowTypes, SlotTypes DEF SheetRow
<1>2. View(Row.pm) \in Device \cup {NoDevice}
    BY RowTypes DEF View, SheetInv, TypeOK
<1>3. View(Row.pm) # NoDevice => View(Row.pm).slot \in 1 .. MaxRows
    BY <1>2 DEF Device
<1>4. QED
    BY <1>1, <1>3 DEF Target, Device

\* The three ways on from a row that is looked up.
LookedUp(how) ==
    LET k == First(imp.todo)
        users == IF Row.place = Locker THEN {} ELSE Found(Row.place)
        old == View(Row.pm)
        new == Target(old, Row, k, IF users = {} THEN NoUser ELSE CHOOSE u \in users : TRUE)
    IN  CASE how = "errors" ->
               /\ Cardinality(users) > 1
               /\ imp' = [imp EXCEPT !.todo = @ \ {k}, !.counts = Counted("errors")]
          [] how = "unchanged" ->
               /\ ~(Cardinality(users) > 1)
               /\ old # NoDevice /\ old = new
               /\ imp' = [imp EXCEPT !.todo = @ \ {k}, !.counts = Counted("unchanged")]
          [] how = "flush" ->
               /\ ~(Cardinality(users) > 1)
               /\ imp' = [imp EXCEPT !.next = new,
                                     !.at = IF old = NoDevice THEN "insert" ELSE "update"]

LEMMA LookUpCases ==
    ASSUME LookUp PROVE \E how \in {"errors", "unchanged", "flush"} : LookedUp(how)
    BY DEF LookUp, LookedUp, Changed, Row

LEMMA LookUpKeeps == ASSUME SheetInv, LookUp PROVE SheetInv'
<1>1. /\ imp.at = "rows" /\ imp.todo # {}
      /\ UNCHANGED <<devices, account, registrants, locked, applied>>
    BY DEF LookUp
<1>2. imp \in ImpRecord /\ RowsInv /\ imp.at \in AtRows
    BY <1>1 DEF SheetInv, TypeOK, ImpRecord, AtRows
<1>3. ASSUME NEW what \in {"errors", "unchanged"},
             imp' = [imp EXCEPT !.todo = @ \ {First(imp.todo)}, !.counts = Counted(what)]
      PROVE  SheetInv'
    <2>1. /\ imp'.at = "rows" /\ imp'.sheet = imp.sheet /\ imp'.write = imp.write
          /\ imp'.todo = imp.todo \ {First(imp.todo)}
          /\ imp'.counts = Counted(what) /\ imp' \in ImpRecord
        BY <1>1, <1>2, <1>3, CountedTypes DEF ImpRecord
    <2>2. TypeOK'
        BY <1>1, <2>1 DEF SheetInv, TypeOK, ImpRecord
    <2>3. RowsInv'
        <3>1. Total(imp'.counts) + Cardinality(imp'.todo)
                  = Cardinality(DeviceRows(imp.sheet))
            <4>1. /\ Total(imp.counts) \in Nat
                  /\ Total(imp.counts) + Cardinality(imp.todo)
                        = Cardinality(DeviceRows(imp.sheet))
                BY <1>2 DEF RowsInv, Total, ImpRecord, Counts
            <4>2. QED
                BY <1>1, <1>2, <2>1, <4>1, CountedTypes, RowTypes
        <3>2. /\ imp'.counts.imported = imp.counts.imported
              /\ imp'.counts.updated = imp.counts.updated
            BY <1>1, <1>2, <2>1, CountedTypes
        <3>3. Fresh' = Fresh
            BY <1>1, <2>1 DEF Fresh
        <3>4. QED
            BY <1>1, <1>2, <2>1, <3>1, <3>2, <3>3 DEF RowsInv
    <2>4. QED
        BY <1>1, <1>2, <2>1, <2>2, <2>3 DEF SheetInv, AtRows
<1>4. CASE LookedUp("flush")
    <2> DEFINE users == IF Row.place = Locker THEN {} ELSE Found(Row.place)
               user == IF users = {} THEN NoUser ELSE CHOOSE u \in users : TRUE
               new == Target(View(Row.pm), Row, First(imp.todo), user)
               place == IF View(Row.pm) = NoDevice THEN "insert" ELSE "update"
    <2>1. user \in Users \cup {NoUser}
        BY DEF Found
    <2>2. new \in Device
        BY <1>1, <1>2, <2>1, TargetTypes
    <2>3. imp' = [imp EXCEPT !.next = new, !.at = place]
        BY <1>4 DEF LookedUp
    <2>4. place \in {"insert", "update"} /\ (place = "update" => View(Row.pm) # NoDevice)
        OBVIOUS
    <2> HIDE DEF user, new, place
    <2>5. /\ imp'.at = place /\ imp'.sheet = imp.sheet /\ imp'.write = imp.write
          /\ imp'.todo = imp.todo /\ imp'.counts = imp.counts /\ imp'.next = new
          /\ imp' \in ImpRecord
        BY <1>2, <2>2, <2>3, <2>4 DEF ImpRecord
    <2>6. TypeOK'
        BY <1>1, <2>4, <2>5 DEF SheetInv, TypeOK, ImpRecord
    <2>7. Row' = Row /\ Fresh' = Fresh /\ View(Row.pm)' = View(Row.pm)
        BY <1>1, <2>5 DEF Row, Fresh, View
    <2>8. RowsInv'
        BY <1>1, <1>2, <2>2, <2>4, <2>5, <2>7 DEF RowsInv
    <2>9. QED
        BY <1>2, <2>5, <2>6, <2>8 DEF SheetInv, ImpRecord, AtRows
<1>5. QED
    BY <1>3, <1>4, LookUpCases DEF LookedUp

LEMMA FlushKeeps == ASSUME SheetInv, Flush PROVE SheetInv'
<1> DEFINE k == First(imp.todo)
           p == Row.pm
           what == IF imp.at = "insert" THEN "imported" ELSE "updated"
<1>1. /\ imp.at \in {"insert", "update"} /\ ~Conflict(p) /\ locked' = TRUE
      /\ imp' = [imp EXCEPT !.at = "rows", !.todo = @ \ {k}, !.next = NoDevice,
                            !.write[p] = imp.next, !.counts = Counted(what)]
      /\ UNCHANGED <<devices, account, registrants, applied>>
    BY DEF Flush, Row
<1>2. imp \in ImpRecord /\ RowsInv /\ imp.at \in AtRows /\ imp.todo # {}
      /\ imp.next \in Device
    BY <1>1 DEF SheetInv, TypeOK, ImpRecord, AtRows, RowsInv
<1>3. p \in PMs /\ k \in imp.todo
    BY <1>2, RowTypes
<1>4. what \in {"imported", "updated"}
    OBVIOUS
<1>5. /\ imp'.at = "rows" /\ imp'.sheet = imp.sheet /\ imp'.todo = imp.todo \ {k}
      /\ imp'.write = [imp.write EXCEPT ![p] = imp.next]
      /\ imp'.counts = Counted(what) /\ imp' \in ImpRecord
    BY <1>1, <1>2, <1>3, <1>4, CountedTypes DEF ImpRecord
<1>6. imp.next # NoDevice /\ imp.write \in [PMs -> Device \cup {NoDevice}]
    BY <1>2, DeviceAssumption DEF ImpRecord
<1>7. \A q \in PMs : imp'.write[q] = IF q = p THEN imp.next ELSE imp.write[q]
    BY <1>5, <1>6
<1>8. TypeOK'
    BY <1>1, <1>5 DEF SheetInv, TypeOK, ImpRecord
<1>9. Total(imp'.counts) + Cardinality(imp'.todo) = Cardinality(DeviceRows(imp.sheet))
    <2>1. /\ Total(imp.counts) \in Nat
          /\ Total(imp.counts) + Cardinality(imp.todo) = Cardinality(DeviceRows(imp.sheet))
        BY <1>2 DEF RowsInv, Total, ImpRecord, Counts
    <2>2. QED
        BY <1>2, <1>4, <1>5, <2>1, CountedTypes, RowTypes
<1>10. IsFiniteSet(Fresh)
    BY SheetAssumption, FS_Subset DEF Fresh
<1>11. RowsInv'
    <2>1. CASE imp.at = "insert"
        <3>1. imp.write[p] = NoDevice /\ devices[p] = NoDevice
            BY <1>1, <1>6, <2>1 DEF Conflict, View
        <3>2. Fresh' = Fresh \cup {p} /\ p \notin Fresh
            BY <1>1, <1>3, <1>6, <1>7, <3>1 DEF Fresh
        <3>3. Cardinality(Fresh') = Cardinality(Fresh) + 1
            BY <1>10, <3>2, FS_AddElement
        <3>4. /\ imp'.counts.imported = imp.counts.imported + 1
              /\ imp'.counts.updated = imp.counts.updated
            BY <1>2, <1>5, <2>1, CountedTypes
        <3>5. imp'.counts.updated = 0 =>
                  \A q \in PMs : imp'.write[q] # NoDevice => devices'[q] = NoDevice
            BY <1>1, <1>2, <1>7, <3>1, <3>4 DEF RowsInv
        <3>6. QED
            BY <1>1, <1>2, <1>5, <1>9, <3>3, <3>4, <3>5 DEF RowsInv
    <2>2. CASE imp.at = "update"
        <3>1. imp.write[p] # NoDevice \/ devices[p] # NoDevice
            BY <1>2, <2>2 DEF RowsInv, View
        <3>2. Fresh' = Fresh
            BY <1>1, <1>3, <1>6, <1>7, <3>1 DEF Fresh
        <3>3. /\ imp'.counts.imported = imp.counts.imported
              /\ imp'.counts.updated = imp.counts.updated + 1
            BY <1>2, <1>5, <2>2, CountedTypes
        <3>4. imp.counts.updated \in Nat
            BY <1>2 DEF ImpRecord, Counts
        <3>5. QED
            BY <1>1, <1>2, <1>5, <1>9, <3>2, <3>3, <3>4 DEF RowsInv
    <2>3. QED
        BY <1>1, <2>1, <2>2
<1>12. QED
    BY <1>2, <1>5, <1>8, <1>11 DEF SheetInv, ImpRecord, AtRows

LEMMA CommitKeeps == ASSUME SheetInv, Commit PROVE SheetInv'
<1>1. imp \in ImpRecord /\ imp.at = "rows" /\ imp.sheet \in Sheets
    BY DEF Commit, SheetInv, TypeOK, ImpRecord
<1>2. /\ imp'.at = "names" /\ imp'.sheet = imp.sheet /\ imp' \in ImpRecord
    BY <1>1 DEF Commit, ImpRecord
<1>3. devices' \in [PMs -> Device \cup {NoDevice}]
    BY DEF Commit, View, SheetInv, TypeOK
<1>4. applied' \in Sheets \cup {NoSheet}
    BY <1>1 DEF Commit
<1>5. QED
    BY <1>1, <1>2, <1>3, <1>4 DEF Commit, SheetInv, TypeOK, ImpRecord, AtRows

LEMMA OtherImportKeeps ==
    ASSUME SheetInv, NEW p \in PMs, NEW s \in Serials, OtherImport(p, s) PROVE SheetInv'
<1> DEFINE new == [serial |-> s, slot |-> 1, borrowed |-> FALSE, borrower |-> NoUser]
<1>1. new \in Device /\ new # NoDevice
    <2>1. 1 \in 1 .. MaxRows
        BY SheetAssumption
    <2>2. new \in Device
        BY <2>1 DEF Device
    <2>3. QED
        BY <2>2, DeviceAssumption
<1>2. /\ ~locked /\ devices[p] = NoDevice
      /\ devices' = [devices EXCEPT ![p] = new]
      /\ UNCHANGED <<account, registrants, locked, imp, applied>>
    BY DEF OtherImport
<1> HIDE DEF new
<1>3. devices \in [PMs -> Device \cup {NoDevice}]
    BY DEF SheetInv, TypeOK
<1>4. \A q \in PMs : devices'[q] = IF q = p THEN new ELSE devices[q]
    BY <1>2, <1>3
<1>5. TypeOK'
    BY <1>1, <1>2, <1>3 DEF SheetInv, TypeOK
<1>6. ASSUME imp.at \in AtRows PROVE RowsInv'
    <2>1. RowsInv /\ \A q \in PMs : imp.write[q] = NoDevice
        BY <1>2, <1>6 DEF SheetInv, RowsInv
    <2>2. Fresh' = {} /\ Fresh = {}
        BY <1>2, <2>1 DEF Fresh
    <2>3. ASSUME imp.at = "update" PROVE View(Row.pm)' # NoDevice
        <3>1. Row.pm \in PMs /\ Row' = Row
            BY <1>2, <1>6, <2>1, <2>3, RowTypes DEF RowsInv, Row
        <3>2. devices[Row.pm] # NoDevice
            BY <2>1, <2>3, <3>1 DEF RowsInv, View
        <3>3. QED
            BY <1>1, <1>2, <1>4, <2>1, <3>1, <3>2 DEF View
    <2>4. QED
        BY <1>2, <2>1, <2>2, <2>3 DEF RowsInv
<1>7. QED
    BY <1>2, <1>5, <1>6 DEF SheetInv

LEMMA EnrollKeeps ==
    ASSUME SheetInv, NEW u \in Users, NEW name \in Names, EnrollUser(u, name) PROVE SheetInv'
<1>1. imp \in ImpRecord
    BY DEF SheetInv, TypeOK, ImpRecord
<1>2. /\ imp'.at = imp.at /\ imp'.sheet = imp.sheet /\ imp'.todo = imp.todo
      /\ imp'.next = imp.next /\ imp'.write = imp.write /\ imp'.counts = imp.counts
      /\ imp' \in ImpRecord
    BY <1>1 DEF EnrollUser, ImpRecord
<1>3. UNCHANGED <<devices, registrants, locked>>
    BY DEF EnrollUser
<1>4. TypeOK'
    BY <1>2, <1>3 DEF EnrollUser, SheetInv, TypeOK, ImpRecord
<1>5. Row' = Row /\ Fresh' = Fresh /\ View(Row.pm)' = View(Row.pm)
    BY <1>2, <1>3 DEF Row, Fresh, View
<1>6. QED
    BY <1>2, <1>3, <1>4, <1>5 DEF SheetInv, RowsInv

\* Another import adds a name: nothing that is said of the rows is disturbed.
LEMMA OtherNamesFrame ==
    ASSUME SheetInv, NEW name \in Names, OtherNames(name)
    PROVE  /\ imp' \in ImpRecord
           /\ imp'.at = imp.at /\ imp'.sheet = imp.sheet /\ imp'.todo = imp.todo
           /\ imp'.next = imp.next /\ imp'.write = imp.write /\ imp'.counts = imp.counts
           /\ imp'.names = imp.names /\ imp'.quiet = imp.quiet
           /\ imp.at \in AtRows => imp' = imp
           /\ registrants' = registrants \cup {name}
           /\ UNCHANGED <<devices, account, locked, applied>>
<1>1. imp \in ImpRecord
    BY DEF SheetInv, TypeOK, ImpRecord
<1>2. QED
    BY <1>1 DEF OtherNames, ImpRecord, AtRows

LEMMA OtherNamesKeeps ==
    ASSUME SheetInv, NEW name \in Names, OtherNames(name) PROVE SheetInv'
<1>1. TypeOK'
    BY OtherNamesFrame DEF SheetInv, TypeOK, ImpRecord
<1>2. imp.at \in AtRows => RowsInv'
    <2>1. SUFFICES ASSUME imp.at \in AtRows PROVE RowsInv'
        OBVIOUS
    <2>2. UNCHANGED <<imp, devices, locked>>
        BY <2>1, OtherNamesFrame
    <2>3. Row' = Row /\ Fresh' = Fresh /\ View(Row.pm)' = View(Row.pm)
        BY <2>2 DEF Row, Fresh, View
    <2>4. QED
        BY <2>1, <2>2, <2>3 DEF SheetInv, RowsInv
<1>3. QED
    BY <1>1, <1>2, OtherNamesFrame DEF SheetInv

LEMMA ReadNamesKeeps == ASSUME SheetInv, ReadNames PROVE SheetInv' /\ imp'.at = "adding"
<1>1. imp \in ImpRecord /\ imp.at = "names" /\ imp.sheet \in Sheets
    BY DEF ReadNames, SheetInv, TypeOK, ImpRecord
<1>2. PICK new \in NewNames : imp' = [imp EXCEPT !.at = "adding", !.names = new]
    BY DEF ReadNames
<1>3. new \subseteq Names
    <2>1. People(imp.sheet) \subseteq Names
        BY <1>1, SheetRows DEF People, SheetRow
    <2>2. QED
        BY <2>1 DEF NewNames
<1>4. imp'.at = "adding" /\ imp'.sheet = imp.sheet /\ imp' \in ImpRecord
    BY <1>1, <1>2, <1>3 DEF ImpRecord
<1>5. QED
    BY <1>1, <1>4 DEF ReadNames, SheetInv, TypeOK, ImpRecord, AtRows

LEMMA ReadKeeps ==
    ASSUME SheetInv, NEW sheet \in Sheets, ReadSheet(sheet) PROVE SheetInv'
<1>1. CASE imp' = NoImport
    BY <1>1, NoImportTypes DEF ReadSheet, SheetInv, TypeOK, ImpRecord, AtRows
<1>2. CASE imp' = [NoImport EXCEPT !.at = "rows", !.sheet = sheet,
                                   !.todo = DeviceRows(sheet)]
    <2>1. DeviceRows(sheet) \in SUBSET (1 .. MaxRows)
        BY SheetRows
    <2>2. /\ imp'.at = "rows" /\ imp'.sheet = sheet /\ imp'.todo = DeviceRows(sheet)
          /\ imp'.write = [p \in PMs |-> NoDevice] /\ imp'.counts = NoCounts
          /\ imp' \in ImpRecord
        BY <1>2, <2>1, NoImportTypes DEF NoImport, ImpRecord
    <2>3. TypeOK'
        BY <2>2 DEF ReadSheet, SheetInv, TypeOK, ImpRecord
    <2>4. Total(NoCounts) = 0 /\ NoCounts.imported = 0
        BY DEF Total, NoCounts
    <2>5. Fresh' = {}
        BY <2>2 DEF Fresh
    <2>6. Cardinality(DeviceRows(sheet)) \in Nat
        BY SheetRows
    <2>7. RowsInv'
        BY <2>2, <2>4, <2>5, <2>6, FS_EmptySet DEF RowsInv
    <2>8. QED
        BY <2>2, <2>3, <2>7 DEF SheetInv
<1>3. QED
    BY <1>1, <1>2 DEF ReadSheet

LEMMA SheetStep == SheetInv /\ [Next]_vars => SheetInv'
<1> SUFFICES ASSUME SheetInv, [Next]_vars PROVE SheetInv'
    OBVIOUS
<1>1. CASE FlushFails \/ AddNames \/ AddNamesFails \/ Crash
    <2>1. /\ imp' = NoImport /\ UNCHANGED <<devices, account, applied>>
          /\ registrants' \subseteq Names /\ locked' = FALSE
        <3>1. SheetInv => (imp.at \in {"names", "adding"} => locked = FALSE)
            BY DEF SheetInv, TypeOK
        <3>2. ASSUME AddNames PROVE registrants' \subseteq Names
            BY <3>2 DEF AddNames, SheetInv, TypeOK
        <3>3. QED
            BY <1>1, <3>1, <3>2
               DEF FlushFails, AddNames, AddNamesFails, Crash, SheetInv, TypeOK
    <2>2. QED
        BY <2>1, ToNoImport
<1>2. CASE UNCHANGED vars
    BY <1>2 DEF vars, SheetInv, TypeOK, RowsInv, Row, Fresh, View
<1>3. QED
    BY <1>1, <1>2, LookUpKeeps, FlushKeeps, CommitKeeps, OtherImportKeeps, EnrollKeeps,
       ReadKeeps, OtherNamesKeeps, ReadNamesKeeps DEF Next

LEMMA SheetInvariance == Spec => []SheetInv
    BY SheetInit, SheetStep, PTL DEF Spec

\* Tables and import have the values their code can give them.
THEOREM TypeCorrect == Spec => []TypeOK
<1>1. SheetInv => TypeOK
    BY DEF SheetInv
<1>2. QED
    BY <1>1, SheetInvariance, PTL

(***************************************************************************)
(* The registrants.                                                        *)
(*                                                                         *)
(* Between the reading of the registrants and the INSERT other imports add *)
(* names, and late has those.  What is in hand has no other spelling among *)
(* the names that were read, nor among itself, and completes the sheet.    *)
(***************************************************************************)
NamesInv ==
    imp.at = "adding" =>
       /\ \A n \in imp.names, m \in imp.names \cup (registrants \ imp.late) :
             PyLower[m] = PyLower[n] => m = n
       /\ \A n \in People(imp.sheet) : Known(n, registrants \cup imp.names)

LateInv == imp.at # "adding" => imp.late = {}

LEMMA NamesInit == Init => NamesInv /\ LateInv
    BY DEF Init, NoImport, NamesInv, LateInv

\* Only reading and adding names and the names of others matter here.
LEMMA NamesElsewhere ==
    ASSUME SheetInv, LateInv, [Next]_vars, ~ReadNames, ~AddNames,
           ~\E name \in Names : OtherNames(name)
    PROVE  /\ UNCHANGED registrants
           /\ imp'.at = "adding" => /\ imp.at = "adding" /\ imp'.sheet = imp.sheet
                                    /\ imp'.names = imp.names /\ imp'.late = imp.late
           /\ imp'.at # "adding" => imp'.late = {}
<1>1. imp \in ImpRecord
    BY DEF SheetInv, TypeOK, ImpRecord
<1>2. CASE \E u \in Users, name \in Names : EnrollUser(u, name)
    BY <1>1, <1>2 DEF EnrollUser, ImpRecord, LateInv
<1>3. CASE \E sheet \in Sheets : ReadSheet(sheet)
    BY <1>3 DEF ReadSheet, NoImport
<1>4. CASE LookUp
    <2>1. PICK how \in {"errors", "unchanged", "flush"} : LookedUp(how)
        BY <1>4, LookUpCases
    <2>2. imp.at = "rows" /\ UNCHANGED registrants
        BY <1>4 DEF LookUp
    <2>3. imp'.at # "adding" /\ imp'.late = imp.late
        <3>1. CASE how = "errors"
            BY <1>1, <2>1, <2>2, <3>1 DEF LookedUp, ImpRecord
        <3>2. CASE how = "unchanged"
            BY <1>1, <2>1, <2>2, <3>2 DEF LookedUp, ImpRecord
        <3>3. CASE how = "flush"
            BY <1>1, <2>1, <3>3 DEF LookedUp, ImpRecord
        <3>4. QED
            BY <3>1, <3>2, <3>3
    <2>4. QED
        BY <2>2, <2>3 DEF LateInv
<1>5. CASE Flush
    BY <1>1, <1>5 DEF Flush, ImpRecord, LateInv
<1>6. CASE Commit
    BY <1>1, <1>6 DEF Commit, ImpRecord, LateInv
<1>7. CASE FlushFails \/ AddNamesFails \/ Crash
    BY <1>7 DEF FlushFails, AddNamesFails, Crash, NoImport
<1>8. CASE UNCHANGED vars \/ \E p \in PMs, s \in Serials : OtherImport(p, s)
    BY <1>8 DEF vars, OtherImport, LateInv
<1>9. QED
    BY <1>2, <1>3, <1>4, <1>5, <1>6, <1>7, <1>8 DEF Next

LEMMA NamesStep ==
    SheetInv /\ NamesInv /\ LateInv /\ [Next]_vars => NamesInv' /\ LateInv'
<1> SUFFICES ASSUME SheetInv, NamesInv, LateInv, [Next]_vars PROVE NamesInv' /\ LateInv'
    OBVIOUS
<1>1. imp \in ImpRecord
    BY DEF SheetInv, TypeOK, ImpRecord
<1>2. CASE ReadNames
    <2>1. PICK new \in NewNames : imp' = [imp EXCEPT !.at = "adding", !.names = new]
        BY <1>2 DEF ReadNames
    <2>2. /\ imp'.at = "adding" /\ imp'.names = new /\ imp'.sheet = imp.sheet
          /\ imp'.late = {} /\ registrants' = registrants
        BY <1>1, <1>2, <2>1 DEF ReadNames, ImpRecord, LateInv
    <2>3. /\ \A n \in new : ~Known(n, registrants)
          /\ \A m, n \in new : PyLower[m] = PyLower[n] => m = n
          /\ \A n \in People(imp.sheet) : Known(n, registrants \cup new)
        BY <2>1 DEF NewNames
    <2>4. \A n \in new, m \in registrants : PyLower[m] # PyLower[n]
        BY <2>3 DEF Known
    <2>5. QED
        BY <2>2, <2>3, <2>4 DEF NamesInv, LateInv
<1>3. CASE AddNames
    BY <1>3 DEF AddNames, NoImport, NamesInv, LateInv
<1>4. CASE \E name \in Names : OtherNames(name)
    <2>1. PICK name \in Names : OtherNames(name)
        BY <1>4
    <2>2. /\ imp'.at = imp.at /\ imp'.sheet = imp.sheet /\ imp'.names = imp.names
          /\ registrants' = registrants \cup {name}
        BY <2>1, OtherNamesFrame
    <2>3. imp'.late = IF imp.at = "adding" THEN imp.late \cup {name} ELSE imp.late
        BY <1>1, <2>1 DEF OtherNames, ImpRecord
    <2>4. ASSUME imp.at = "adding", NEW n \in People(imp.sheet)
          PROVE  Known(n, registrants' \cup imp.names)
        BY <2>2, <2>4 DEF NamesInv, Known
    <2>5. QED
        BY <2>2, <2>3, <2>4 DEF NamesInv, LateInv
<1>5. CASE ~ReadNames /\ ~AddNames /\ ~\E name \in Names : OtherNames(name)
    BY <1>5, NamesElsewhere DEF NamesInv, LateInv
<1>6. QED
    BY <1>2, <1>3, <1>4, <1>5

LEMMA NamesInvariance == Spec => [](NamesInv /\ LateInv)
    BY NamesInit, NamesStep, SheetInvariance, PTL DEF Spec

\* The import's own names are added by AddNames alone.
LEMMA OnlyAddNames == ASSUME SheetInv, LateInv, Next, Adding PROVE AddNames
<1>1. registrants' # registrants /\ imp.at = "adding" /\ imp'.at = "idle"
    BY NoImportTypes DEF Adding
<1>2. ~ReadNames
    BY <1>1 DEF ReadNames
<1>3. ~\E name \in Names : OtherNames(name)
    BY <1>1, OtherNamesFrame
<1>4. QED
    BY <1>1, <1>2, <1>3, NamesElsewhere

\* An import adds no second spelling of a name but one that another import has
\* added since this one read the registrants; whatever sheets are imported.
THEOREM SpelledOnce == Spec => OneSpelling
<1> DEFINE Once == \A n \in registrants' \ registrants, m \in registrants' \ imp.late :
                      PyLower[m] = PyLower[n] => m = n
<1>1. SheetInv /\ NamesInv /\ LateInv /\ [Next]_vars => [Adding => Once]_vars
    <2> SUFFICES ASSUME SheetInv, NamesInv, LateInv, Next, Adding PROVE Once
        OBVIOUS
    <2>1. imp.at = "adding" /\ registrants' = registrants \cup imp.names
        BY OnlyAddNames DEF AddNames
    <2>2. QED
        BY <2>1 DEF NamesInv
<1>2. QED
    BY <1>1, SheetInvariance, NamesInvariance, PTL DEF Spec, OneSpelling

\* An import that adds names leaves out nobody in the sheet, and no import
\* removes anybody.
THEOREM NobodyMissing == Spec => NamesComplete
<1> DEFINE Complete ==
        /\ registrants \subseteq registrants'
        /\ Adding =>
             \A k \in DOMAIN imp.sheet :
                 imp.sheet[k].place # Locker => Known(imp.sheet[k].place, registrants')
<1>1. SheetInv /\ NamesInv /\ LateInv /\ [Next]_vars => [Complete]_vars
    <2> SUFFICES ASSUME SheetInv, NamesInv, LateInv, Next PROVE Complete
        OBVIOUS
    <2>1. registrants \subseteq registrants'
        BY NamesElsewhere DEF ReadNames, AddNames, OtherNames
    <2>2. ASSUME Adding
          PROVE  \A k \in DOMAIN imp.sheet :
                     imp.sheet[k].place # Locker => Known(imp.sheet[k].place, registrants')
        <3>1. imp.at = "adding" /\ registrants' = registrants \cup imp.names
            BY <2>2, OnlyAddNames DEF AddNames
        <3>2. \A n \in People(imp.sheet) : Known(n, registrants')
            BY <3>1 DEF NamesInv
        <3>3. QED
            BY <3>2 DEF People
    <2>3. QED
        BY <2>1, <2>2
<1>2. QED
    BY <1>1, SheetInvariance, NamesInvariance, PTL DEF Spec, NamesComplete

(***************************************************************************)
(* The commit.                                                             *)
(***************************************************************************)
LEMMA OnlyCommit == ASSUME SheetInv, Next, Committing PROVE Commit
<1>1. imp \in ImpRecord
    BY DEF SheetInv, TypeOK, ImpRecord
<1>2. CASE \E u \in Users, name \in Names : EnrollUser(u, name)
    BY <1>1, <1>2 DEF EnrollUser, ImpRecord, Committing
<1>3. CASE \E sheet \in Sheets : ReadSheet(sheet)
    BY <1>3 DEF ReadSheet, Committing
<1>4. CASE LookUp
    <2>1. PICK how \in {"errors", "unchanged", "flush"} : LookedUp(how)
        BY <1>4, LookUpCases
    <2>2. imp'.at # "names"
        BY <1>1, <2>1 DEF LookedUp, ImpRecord, Committing
    <2>3. QED
        BY <2>2 DEF Committing
<1>5. CASE Flush \/ FlushFails \/ ReadNames \/ AddNames \/ AddNamesFails \/ Crash
    BY <1>5, NoImportTypes
       DEF Flush, FlushFails, ReadNames, AddNames, AddNamesFails, Crash, Committing
<1>6. CASE \E name \in Names : OtherNames(name)
    BY <1>6, OtherNamesFrame DEF Committing
<1>7. QED
    BY <1>2, <1>3, <1>4, <1>5, <1>6 DEF Next, OtherImport, Committing

\* The counts of an import that commits are those of what it has committed.
THEOREM CountsAreTrue == Spec => CountsTrue
<1> DEFINE True == /\ Total(imp.counts) = Cardinality(DeviceRows(imp.sheet))
                   /\ imp.counts.imported = Cardinality(NewDevices)
                   /\ imp.counts.updated = 0 =>
                         \A p \in PMs \ NewDevices : devices'[p] = devices[p]
<1>1. SheetInv /\ [Next]_vars => [Committing => True]_vars
    <2> SUFFICES ASSUME SheetInv, Next, Committing PROVE True
        OBVIOUS
    <2>1. Commit /\ imp.at = "rows" /\ RowsInv /\ imp.todo = {}
        BY OnlyCommit DEF Commit, SheetInv, AtRows
    <2>2. \A p \in PMs : devices'[p] = View(p)
        BY <2>1 DEF Commit
    <2>3. NewDevices = Fresh
        BY <2>2 DEF NewDevices, Fresh, View
    <2>4. Total(imp.counts) = Cardinality(DeviceRows(imp.sheet))
        <3>1. Total(imp.counts) \in Nat
            BY SheetAssumption DEF SheetInv, TypeOK, Counts, Total
        <3>2. QED
            BY <2>1, <3>1, FS_EmptySet DEF RowsInv
    <2>5. ASSUME imp.counts.updated = 0, NEW p \in PMs \ NewDevices
          PROVE  devices'[p] = devices[p]
        BY <2>1, <2>2, <2>3, <2>5 DEF RowsInv, View, Fresh
    <2>6. QED
        BY <2>1, <2>3, <2>4, <2>5 DEF RowsInv
<1>2. QED
    BY <1>1, SheetInvariance, PTL DEF Spec, CountsTrue

(***************************************************************************)
(* The contents.  While the rows are done in their order, every device is  *)
(* as the last of its rows that is done has it, so long as every person    *)
(* was known for certain; the row that is about to be flushed is the next. *)
(***************************************************************************)
Done == DeviceRows(imp.sheet) \ imp.todo

\* Row l is the last of those that are done of device p.
LastDone(p, l) ==
    /\ l \in Done /\ imp.sheet[l].pm = p
    /\ \A j \in Done : imp.sheet[j].pm = p => j <= l

AppliedInv ==
    imp.at \in AtRows =>
       /\ \A j \in Done, k \in imp.todo : j < k
       /\ \A p \in PMs : imp.write[p] # NoDevice => \E k \in Done : imp.sheet[k].pm = p
       /\ imp.counts.errors = 0 =>
             \A k \in Done :
                \E l \in Done : /\ LastDone(imp.sheet[k].pm, l)
                                /\ Says(View(imp.sheet[k].pm), imp.sheet[l])
       /\ imp.at # "rows" => Says(imp.next, Row)

\* A device that is as a row has it stays so when more users are enrolled.
LEMMA SaysKeeps ==
    ASSUME SheetInv, [Next]_vars, NEW device, NEW row, Says(device, row)
    PROVE  Says(device, row)'
<1>1. \A u \in Users : account[u] # NoName => account'[u] = account[u]
    <2>1. account \in [Users -> Names \cup {NoName}]
        BY DEF SheetInv, TypeOK
    <2>2. QED
        BY <2>1 DEF Next, EnrollUser, OtherImport, OtherNames, ReadSheet, LookUp, Flush,
                    FlushFails, Commit, ReadNames, AddNames, AddNamesFails, Crash, vars
<1>2. \A name : Found(name) \subseteq Found(name)'
    BY <1>1 DEF Found
<1>3. QED
    BY <1>2 DEF Says

\* The row in hand is done; its device is as the row has it, and the others
\* are as they were.
LEMMA RowDone ==
    ASSUME SheetInv, AppliedInv, imp.at \in AtRows, imp.todo # {},
           NEW k, NEW p, k = First(imp.todo), p = Row.pm,
           imp'.at = "rows", imp'.sheet = imp.sheet, imp'.todo = imp.todo \ {k},
           UNCHANGED account,
           \A q \in PMs : imp'.write[q] # NoDevice => imp.write[q] # NoDevice \/ q = p,
           imp'.counts.errors = 0 =>
              /\ imp.counts.errors = 0
              /\ Says(View(p)', imp.sheet[k])
              /\ \A q \in PMs \ {p} : View(q)' = View(q)
    PROVE  AppliedInv'
<1>1. /\ k \in imp.todo /\ k \in DeviceRows(imp.sheet) /\ p \in PMs
      /\ \A j \in imp.todo : k <= j
      /\ imp.sheet[k].pm = p
      /\ imp.sheet \in Sheets /\ imp.todo \subseteq DeviceRows(imp.sheet)
      /\ imp.todo \subseteq Nat
    BY RowTypes DEF Row, SheetInv, TypeOK, RowsInv
<1>2. DeviceRows(imp.sheet) \subseteq Nat
      /\ \A j \in DeviceRows(imp.sheet) : imp.sheet[j].pm \in PMs
    <2>1. ASSUME NEW j \in DeviceRows(imp.sheet)
          PROVE  j \in Nat /\ imp.sheet[j] \in SheetRow /\ imp.sheet[j].pm # NoPM
        <3>1. j \in DOMAIN imp.sheet /\ imp.sheet[j].pm # NoPM
            BY DEF DeviceRows
        <3>2. QED
            BY <1>1, <3>1, SheetRows
    <2>2. QED
        BY <2>1 DEF SheetRow
<1>3. Done' = Done \cup {k} /\ k \notin Done
    BY <1>1 DEF Done
<1>4. \A j \in Done, i \in imp.todo : j < i
    BY DEF AppliedInv
<1>5. \A j \in Done', i \in imp'.todo : j < i
    BY <1>1, <1>2, <1>3, <1>4 DEF Done
<1>6. \A q \in PMs : imp'.write[q] # NoDevice => \E j \in Done' : imp'.sheet[j].pm = q
    BY <1>1, <1>3 DEF AppliedInv
<1>7. ASSUME imp'.counts.errors = 0, NEW j \in Done'
      PROVE  \E l \in Done' : /\ LastDone(imp.sheet[j].pm, l)'
                              /\ Says(View(imp.sheet[j].pm), imp.sheet[l])'
    <2>1. CASE imp.sheet[j].pm = p
        <3>1. \A i \in Done' : i <= k
            BY <1>1, <1>2, <1>3, <1>4 DEF Done
        <3>2. LastDone(p, k)'
            BY <1>1, <1>3, <3>1 DEF LastDone
        <3>3. Says(View(p), imp.sheet[k])'
            BY <1>7 DEF Says, Found
        <3>4. QED
            BY <1>3, <2>1, <3>2, <3>3
    <2>2. CASE imp.sheet[j].pm # p
        <3>1. j \in Done /\ imp.sheet[j].pm \in PMs
            BY <1>1, <1>2, <1>3, <2>2 DEF Done
        <3>2. PICK l \in Done : /\ LastDone(imp.sheet[j].pm, l)
                                /\ Says(View(imp.sheet[j].pm), imp.sheet[l])
            BY <1>7, <3>1 DEF AppliedInv
        <3>3. LastDone(imp.sheet[j].pm, l)'
            BY <1>1, <1>3, <2>2, <3>2 DEF LastDone
        <3>4. View(imp.sheet[j].pm)' = View(imp.sheet[j].pm)
            BY <1>7, <2>2, <3>1
        <3>5. Says(View(imp.sheet[j].pm), imp.sheet[l])'
            BY <3>2, <3>4 DEF Says, Found
        <3>6. QED
            BY <1>3, <3>3, <3>5
    <2>3. QED
        BY <2>1, <2>2
<1>8. QED
    BY <1>5, <1>6, <1>7 DEF AppliedInv

LEMMA AppliedInit == Init => AppliedInv
    BY NoImportTypes DEF Init, AppliedInv, AtRows

LEMMA LookUpApplies == ASSUME SheetInv, AppliedInv, LookUp PROVE AppliedInv'
<1> DEFINE k == First(imp.todo)
           users == IF Row.place = Locker THEN {} ELSE Found(Row.place)
           user == IF users = {} THEN NoUser ELSE CHOOSE u \in users : TRUE
           new == Target(View(Row.pm), Row, k, user)
<1>1. /\ imp.at = "rows" /\ imp.todo # {} /\ imp \in ImpRecord /\ imp.at \in AtRows
      /\ UNCHANGED <<devices, account, registrants, locked, applied>>
    BY DEF LookUp, SheetInv, TypeOK, ImpRecord, AtRows
<1>2. user # NoUser => Row.place # Locker /\ user \in Found(Row.place)
    OBVIOUS
<1>3. new \in Device /\ new # NoDevice
    <2>1. user \in Users \cup {NoUser}
        BY DEF Found
    <2>2. QED
        BY <1>1, <2>1, TargetTypes, DeviceAssumption
<1>4. Says(new, Row)
    <2>1. /\ new.serial = Row.serial /\ new.borrowed = (Row.place # Locker)
          /\ new.borrower = user
        BY DEF Target
    <2>2. QED
        BY <1>2, <1>3, <2>1 DEF Says
<1> HIDE DEF user, new
<1>5. ASSUME NEW what \in {"errors", "unchanged"},
             imp' = [imp EXCEPT !.todo = @ \ {k}, !.counts = Counted(what)],
             what = "unchanged" => View(Row.pm) = new
      PROVE  AppliedInv'
    <2>1. /\ imp'.at = "rows" /\ imp'.sheet = imp.sheet /\ imp'.write = imp.write
          /\ imp'.todo = imp.todo \ {k} /\ imp'.counts = Counted(what)
        BY <1>1, <1>5 DEF ImpRecord
    <2>2. \A q : View(q)' = View(q)
        BY <1>1, <2>1 DEF View
    <2>3. Row = imp.sheet[k]
        BY DEF Row
    <2>4. imp.counts.errors \in Nat
        BY <1>1 DEF ImpRecord, Counts
    <2>5. imp'.counts.errors = 0 => imp.counts.errors = 0 /\ what = "unchanged"
        BY <1>1, <2>1, <2>4, CountedTypes
    <2>6. QED
        BY <1>1, <1>4, <1>5, <2>1, <2>2, <2>3, <2>5, RowDone
<1>6. CASE LookedUp("flush")
    <2> DEFINE place == IF View(Row.pm) = NoDevice THEN "insert" ELSE "update"
    <2>1. imp' = [imp EXCEPT !.next = new, !.at = place]
        BY <1>6 DEF LookedUp, new, user
    <2> HIDE DEF place
    <2>2. /\ imp'.sheet = imp.sheet /\ imp'.write = imp.write /\ imp'.todo = imp.todo
          /\ imp'.counts = imp.counts /\ imp'.next = new
        BY <1>1, <2>1 DEF ImpRecord
    <2>3. Row' = Row /\ Done' = Done /\ \A q : View(q)' = View(q)
        BY <1>1, <2>2 DEF Row, Done, View
    <2>4. Says(imp.next, Row)'
        BY <1>1, <1>4, <2>2, <2>3 DEF Says, Found
    <2>5. ASSUME NEW j \in Done, imp.counts.errors = 0
          PROVE  \E l \in Done' : /\ LastDone(imp.sheet[j].pm, l)'
                                  /\ Says(View(imp.sheet[j].pm), imp.sheet[l])'
        <3>1. PICK l \in Done : /\ LastDone(imp.sheet[j].pm, l)
                                /\ Says(View(imp.sheet[j].pm), imp.sheet[l])
            BY <1>1, <2>5 DEF AppliedInv
        <3>2. LastDone(imp.sheet[j].pm, l)'
            BY <2>2, <2>3, <3>1 DEF LastDone
        <3>3. Says(View(imp.sheet[j].pm), imp.sheet[l])'
            BY <1>1, <2>2, <2>3, <3>1 DEF Says, Found
        <3>4. QED
            BY <2>3, <3>1, <3>2, <3>3
    <2>6. QED
        BY <1>1, <2>2, <2>3, <2>4, <2>5 DEF AppliedInv
<1>7. QED
    <2>1. PICK how \in {"errors", "unchanged", "flush"} : LookedUp(how)
        BY LookUpCases
    <2>2. CASE how = "errors"
        BY <1>5, <2>1, <2>2 DEF LookedUp
    <2>3. CASE how = "unchanged"
        BY <1>5, <2>1, <2>3 DEF LookedUp, new, user
    <2>4. QED
        BY <1>6, <2>1, <2>2, <2>3

LEMMA FlushApplies == ASSUME SheetInv, AppliedInv, Flush PROVE AppliedInv'
<1> SUFFICES ASSUME NEW k, NEW p, k = First(imp.todo), p = Row.pm
             PROVE  AppliedInv'
    OBVIOUS
<1> DEFINE what == IF imp.at = "insert" THEN "imported" ELSE "updated"
<1>1. /\ imp.at \in {"insert", "update"} /\ imp \in ImpRecord /\ RowsInv /\ imp.at \in AtRows
      /\ imp' = [imp EXCEPT !.at = "rows", !.todo = @ \ {k}, !.next = NoDevice,
                            !.write[p] = imp.next, !.counts = Counted(what)]
      /\ UNCHANGED <<devices, account, registrants, applied>>
    BY DEF Flush, Row, SheetInv, TypeOK, ImpRecord, AtRows
<1>2. what \in {"imported", "updated"}
    OBVIOUS
<1>3. imp.todo # {} /\ Says(imp.next, Row) /\ imp.next # NoDevice
    BY <1>1, DeviceAssumption DEF RowsInv, AppliedInv
<1>4. p \in PMs /\ Row = imp.sheet[k]
    BY <1>1, <1>3, RowTypes DEF Row
<1>5. /\ imp'.at = "rows" /\ imp'.sheet = imp.sheet /\ imp'.todo = imp.todo \ {k}
      /\ imp'.write = [imp.write EXCEPT ![p] = imp.next] /\ imp'.counts = Counted(what)
    BY <1>1 DEF ImpRecord
<1>6. \A q \in PMs : imp'.write[q] = IF q = p THEN imp.next ELSE imp.write[q]
    BY <1>1, <1>5 DEF ImpRecord
<1>7. View(p)' = imp.next /\ \A q \in PMs \ {p} : View(q)' = View(q)
    <2>1. imp'.write[p] = imp.next
        BY <1>4, <1>6
    <2>2. ASSUME NEW q \in PMs \ {p} PROVE imp'.write[q] = imp.write[q]
        BY <1>6
    <2>3. QED
        BY <1>1, <1>3, <2>1, <2>2 DEF View
<1>8. imp'.counts.errors = imp.counts.errors
    BY <1>1, <1>2, <1>3, <1>5, CountedTypes
<1>9. \A q \in PMs : imp'.write[q] # NoDevice => imp.write[q] # NoDevice \/ q = p
    BY <1>6
<1>10. Says(View(p)', imp.sheet[k])
    BY <1>3, <1>4, <1>7
<1>11. QED
    BY <1>1, <1>3, <1>5, <1>7, <1>8, <1>9, <1>10, RowDone

LEMMA AppliedStep == SheetInv /\ AppliedInv /\ [Next]_vars => AppliedInv'
<1> SUFFICES ASSUME SheetInv, AppliedInv, [Next]_vars PROVE AppliedInv'
    OBVIOUS
<1>1. imp \in ImpRecord
    BY DEF SheetInv, TypeOK, ImpRecord
<1>2. ASSUME imp'.at \notin AtRows PROVE AppliedInv'
    BY <1>2 DEF AppliedInv
<1>3. CASE FlushFails \/ AddNames \/ AddNamesFails \/ Crash
    BY <1>2, <1>3, NoImportTypes DEF FlushFails, AddNames, AddNamesFails, Crash, AtRows
<1>4. CASE Commit
    <2>1. imp'.at = "names"
        BY <1>1, <1>4 DEF Commit, ImpRecord
    <2>2. QED
        BY <1>2, <2>1 DEF AtRows
<1>5. CASE \E sheet \in Sheets : ReadSheet(sheet)
    <2>1. PICK sheet \in Sheets : ReadSheet(sheet)
        BY <1>5
    <2>2. CASE imp' = NoImport
        BY <1>2, <2>2, NoImportTypes DEF AtRows
    <2>3. CASE imp' = [NoImport EXCEPT !.at = "rows", !.sheet = sheet,
                                       !.todo = DeviceRows(sheet)]
        <3>1. /\ imp'.at = "rows" /\ imp'.sheet = sheet /\ imp'.todo = DeviceRows(sheet)
              /\ imp'.write = [q \in PMs |-> NoDevice]
            BY <2>3 DEF NoImport
        <3>2. Done' = {}
            BY <3>1 DEF Done
        <3>3. QED
            BY <3>1, <3>2 DEF AppliedInv
    <2>4. QED
        BY <2>1, <2>2, <2>3 DEF ReadSheet
<1>6. ASSUME imp'.at = imp.at, imp'.sheet = imp.sheet, imp'.todo = imp.todo,
             imp'.write = imp.write, imp'.next = imp.next, imp'.counts = imp.counts,
             \A q \in PMs : View(q) # NoDevice => View(q)' = View(q)
      PROVE  AppliedInv'
    <2>1. SUFFICES ASSUME imp.at \in AtRows PROVE AppliedInv'
        BY <1>6 DEF AppliedInv
    <2>2. Row' = Row /\ Done' = Done
        BY <1>6 DEF Row, Done
    <2>3. ASSUME NEW j \in Done, imp.counts.errors = 0
          PROVE  \E l \in Done' : /\ LastDone(imp.sheet[j].pm, l)'
                                  /\ Says(View(imp.sheet[j].pm), imp.sheet[l])'
        <3>1. PICK l \in Done : /\ LastDone(imp.sheet[j].pm, l)
                                /\ Says(View(imp.sheet[j].pm), imp.sheet[l])
            BY <2>1, <2>3 DEF AppliedInv
        <3>2. LastDone(imp.sheet[j].pm, l)'
            BY <1>6, <2>2, <3>1 DEF LastDone
        <3>3. imp.sheet[j].pm \in PMs
            <4>1. /\ imp.sheet \in Sheets /\ j \in DOMAIN imp.sheet
                  /\ imp.sheet[j].pm # NoPM
                BY <2>1 DEF Done, DeviceRows, SheetInv, AtRows
            <4>2. imp.sheet[j] \in SheetRow
                BY <4>1, SheetRows
            <4>3. QED
                BY <4>1, <4>2 DEF SheetRow
        <3>4. View(imp.sheet[j].pm)' = View(imp.sheet[j].pm)
            BY <1>6, <3>1, <3>3 DEF Says
        <3>5. Says(View(imp.sheet[j].pm), imp.sheet[l])'
            <4> DEFINE device == View(imp.sheet[j].pm)
                       row == imp.sheet[l]
            <4>1. device' = device /\ row' = row /\ Says(device, row)
                BY <1>6, <3>1, <3>4
            <4> HIDE DEF device, row
            <4>2. Says(device, row)'
                BY <4>1, SaysKeeps
            <4>3. QED
                BY <4>2 DEF device, row
        <3>6. QED
            BY <2>2, <3>2, <3>5
    <2>4. imp.at # "rows" => Says(imp.next, Row)'
        <3> DEFINE device == imp.next
                   row == Row
        <3>1. device' = device /\ row' = row
            BY <1>6, <2>2
        <3>2. imp.at # "rows" => Says(device, row)
            BY <2>1 DEF AppliedInv
        <3> HIDE DEF device, row
        <3>3. imp.at # "rows" => Says(device, row)'
            BY <3>1, <3>2, SaysKeeps
        <3>4. QED
            BY <3>3 DEF device, row
    <2>5. QED
        BY <1>6, <2>1, <2>2, <2>3, <2>4 DEF AppliedInv
<1>7. CASE \E u \in Users, name \in Names : EnrollUser(u, name)
    BY <1>1, <1>6, <1>7 DEF EnrollUser, ImpRecord, View
<1>8. CASE \E p \in PMs, s \in Serials : OtherImport(p, s)
    <2>1. \A q \in PMs : View(q) # NoDevice => View(q)' = View(q)
        BY <1>8 DEF OtherImport, View, SheetInv, TypeOK
    <2>2. QED
        BY <1>6, <1>8, <2>1 DEF OtherImport
<1>9. CASE \E name \in Names : OtherNames(name)
    <2>1. PICK name \in Names : OtherNames(name)
        BY <1>9
    <2>2. QED
        BY <1>6, <2>1, OtherNamesFrame DEF View
<1>10. CASE ReadNames
    BY <1>2, <1>10, ReadNamesKeeps DEF AtRows
<1>11. CASE UNCHANGED vars
    BY <1>6, <1>11 DEF vars, View
<1>12. QED
    BY <1>3, <1>4, <1>5, <1>7, <1>8, <1>9, <1>10, <1>11, LookUpApplies, FlushApplies
       DEF Next

LEMMA AppliedInvariance == Spec => []AppliedInv
    BY AppliedInit, AppliedStep, SheetInvariance, PTL DEF Spec

(***************************************************************************)
(* Slots.  A device that is committed has its slot in what is flushed of   *)
(* it, too; one that is not has that of a row that is done.                *)
(***************************************************************************)
SlotInv ==
    imp.at \in AtRows =>
       /\ \A p \in PMs : imp.write[p] # NoDevice /\ devices[p] # NoDevice =>
             imp.write[p].slot = devices[p].slot
       /\ \A p \in Fresh :
             \E k \in Done : /\ imp.sheet[k].pm = p
                             /\ imp.write[p].slot = SlotOf(imp.sheet, k)
       /\ imp.at = "insert" => imp.next.slot = SlotOf(imp.sheet, First(imp.todo))
       /\ imp.at = "update" => imp.next.slot = View(Row.pm).slot

\* Two devices of a sheet are numbered differently.
LEMMA SlotsDiffer ==
    ASSUME NEW sheet \in Sheets, NEW j \in DeviceRows(sheet), NEW k \in DeviceRows(sheet),
           SlotOf(sheet, j) = SlotOf(sheet, k)
    PROVE  j = k
<1>1. SUFFICES ASSUME NEW a \in DeviceRows(sheet), NEW b \in DeviceRows(sheet), a < b
               PROVE  SlotOf(sheet, a) # SlotOf(sheet, b)
    BY SheetRows
<1> DEFINE A == {i \in 1 .. a : sheet[i].schrank}
           B == {i \in 1 .. b : sheet[i].schrank}
<1>2. a \in 1 .. MaxRows /\ b \in 1 .. MaxRows /\ MaxRows \in Nat /\ sheet[b].schrank
    BY SheetRows, SheetAssumption DEF DeviceRows
<1>3. IsFiniteSet(1 .. b)
    BY <1>2, FS_Interval
<1>4. IsFiniteSet(A) /\ IsFiniteSet(B)
    BY <1>1, <1>2, <1>3, FS_Subset
<1>5. A \cup {b} \subseteq B /\ b \notin A
    BY <1>1, <1>2
<1>6. Cardinality(A \cup {b}) = Cardinality(A) + 1
    BY <1>4, <1>5, FS_AddElement
<1>7. Cardinality(A \cup {b}) <= Cardinality(B)
    BY <1>4, <1>5, FS_Subset
<1>8. Cardinality(A) \in Nat /\ Cardinality(B) \in Nat
    BY <1>4, FS_CardinalityType
<1>9. Cardinality(A) # Cardinality(B)
    BY <1>6, <1>7, <1>8
<1>10. QED
    BY <1>9 DEF SlotOf

\* What is flushed of the devices has not changed, and no row is in hand.
LEMMA SlotsStay ==
    ASSUME SheetInv, SlotInv, imp.at \in AtRows,
           imp'.at = "rows", imp'.sheet = imp.sheet, imp'.write = imp.write,
           imp'.todo \subseteq imp.todo, UNCHANGED devices
    PROVE  SlotInv'
<1>1. Fresh' = Fresh /\ Done \subseteq Done'
    BY DEF Fresh, Done
<1>2. QED
    BY <1>1 DEF SlotInv

LEMMA LookUpSlots == ASSUME SheetInv, SlotInv, LookUp PROVE SlotInv'
<1>1. /\ imp.at = "rows" /\ imp \in ImpRecord /\ imp.at \in AtRows /\ UNCHANGED devices
    BY DEF LookUp, SheetInv, TypeOK, ImpRecord, AtRows
<1>2. ASSUME NEW what \in {"errors", "unchanged"},
             imp' = [imp EXCEPT !.todo = @ \ {First(imp.todo)}, !.counts = Counted(what)]
      PROVE  SlotInv'
    <2>1. /\ imp'.at = "rows" /\ imp'.sheet = imp.sheet /\ imp'.write = imp.write
          /\ imp'.todo \subseteq imp.todo
        BY <1>1, <1>2 DEF ImpRecord
    <2>2. QED
        BY <1>1, <2>1, SlotsStay
<1>3. CASE LookedUp("flush")
    <2> DEFINE user == LET users == IF Row.place = Locker THEN {} ELSE Found(Row.place)
                       IN  IF users = {} THEN NoUser ELSE CHOOSE u \in users : TRUE
               new == Target(View(Row.pm), Row, First(imp.todo), user)
               place == IF View(Row.pm) = NoDevice THEN "insert" ELSE "update"
    <2>1. imp' = [imp EXCEPT !.next = new, !.at = place]
        BY <1>3 DEF LookedUp
    <2>2. /\ imp'.sheet = imp.sheet /\ imp'.write = imp.write /\ imp'.todo = imp.todo
          /\ imp'.next = new /\ imp'.at = place
        BY <1>1, <2>1 DEF ImpRecord
    <2>3. new.slot = IF View(Row.pm) = NoDevice THEN SlotOf(imp.sheet, First(imp.todo))
                     ELSE View(Row.pm).slot
        BY DEF Target
    <2> HIDE DEF user, new
    <2>4. Row' = Row /\ Done' = Done /\ Fresh' = Fresh /\ View(Row.pm)' = View(Row.pm)
        BY <1>1, <2>2 DEF Row, Done, Fresh, View
    <2>5. QED
        BY <1>1, <2>2, <2>3, <2>4 DEF SlotInv
<1>4. QED
    BY <1>2, <1>3, LookUpCases DEF LookedUp

LEMMA FlushSlots == ASSUME SheetInv, SlotInv, Flush PROVE SlotInv'
<1> SUFFICES ASSUME NEW k, NEW p, k = First(imp.todo), p = Row.pm
             PROVE  SlotInv'
    OBVIOUS
<1>1. /\ imp.at \in {"insert", "update"} /\ ~Conflict(p)
      /\ imp \in ImpRecord /\ RowsInv /\ imp.at \in AtRows
      /\ imp'.at = "rows" /\ imp'.sheet = imp.sheet /\ imp'.todo = imp.todo \ {k}
      /\ imp'.write = [imp.write EXCEPT ![p] = imp.next]
      /\ UNCHANGED devices
    BY DEF Flush, Row, SheetInv, TypeOK, ImpRecord, AtRows
<1>2. imp.todo # {} /\ imp.next # NoDevice
    BY <1>1, DeviceAssumption DEF RowsInv
<1>3. p \in PMs /\ imp.sheet[k].pm = p /\ k \in DeviceRows(imp.sheet) /\ k \in imp.todo
    BY <1>1, <1>2, RowTypes DEF Row
<1>4. \A q \in PMs : imp'.write[q] = IF q = p THEN imp.next ELSE imp.write[q]
    BY <1>1 DEF ImpRecord
<1>5. k \in Done' /\ Done \subseteq Done'
    BY <1>1, <1>3 DEF Done
<1>6. ASSUME devices[p] # NoDevice PROVE imp.next.slot = devices[p].slot
    <2>1. imp.at = "update"
        BY <1>1, <1>6 DEF Conflict, View
    <2>2. imp.next.slot = View(p).slot
        BY <1>1, <2>1 DEF SlotInv
    <2>3. QED
        BY <1>1, <1>3, <1>6, <2>2 DEF SlotInv, View
<1>7. ASSUME devices[p] = NoDevice
      PROVE  \E j \in Done' : imp.sheet[j].pm = p /\ imp.next.slot = SlotOf(imp.sheet, j)
    <2>1. CASE imp.at = "insert"
        BY <1>1, <1>3, <1>5, <2>1 DEF SlotInv
    <2>2. CASE imp.at = "update"
        <3>1. imp.write[p] # NoDevice /\ imp.next.slot = imp.write[p].slot
            BY <1>1, <1>7, <2>2 DEF RowsInv, SlotInv, View
        <3>2. p \in Fresh
            BY <1>3, <1>7, <3>1 DEF Fresh
        <3>3. QED
            BY <1>1, <1>5, <3>1, <3>2 DEF SlotInv
    <2>3. QED
        BY <1>1, <2>1, <2>2
<1>8. \A q \in PMs : imp'.write[q] # NoDevice /\ devices'[q] # NoDevice =>
          imp'.write[q].slot = devices'[q].slot
    BY <1>1, <1>4, <1>6 DEF SlotInv
<1>9. ASSUME NEW q \in Fresh'
      PROVE  \E j \in Done' : /\ imp'.sheet[j].pm = q
                              /\ imp'.write[q].slot = SlotOf(imp.sheet, j)
    <2>1. q \in PMs /\ imp'.write[q] # NoDevice /\ devices[q] = NoDevice
        BY <1>1 DEF Fresh
    <2>2. CASE q = p
        BY <1>1, <1>4, <1>7, <2>1, <2>2
    <2>3. CASE q # p
        <3>1. imp'.write[q] = imp.write[q] /\ q \in Fresh
            BY <1>4, <2>1, <2>3 DEF Fresh
        <3>2. QED
            BY <1>1, <1>5, <3>1 DEF SlotInv
    <2>4. QED
        BY <2>2, <2>3
<1>10. QED
    BY <1>1, <1>8, <1>9 DEF SlotInv, SlotOf

LEMMA SlotStep == SheetInv /\ SlotInv /\ [Next]_vars => SlotInv'
<1> SUFFICES ASSUME SheetInv, SlotInv, [Next]_vars PROVE SlotInv'
    OBVIOUS
<1>1. imp \in ImpRecord
    BY DEF SheetInv, TypeOK, ImpRecord
<1>2. ASSUME imp'.at \notin AtRows PROVE SlotInv'
    BY <1>2 DEF SlotInv
<1>3. CASE FlushFails \/ AddNames \/ AddNamesFails \/ Crash
    BY <1>2, <1>3, NoImportTypes DEF FlushFails, AddNames, AddNamesFails, Crash, AtRows
<1>4. CASE Commit
    <2>1. imp'.at = "names"
        BY <1>1, <1>4 DEF Commit, ImpRecord
    <2>2. QED
        BY <1>2, <2>1 DEF AtRows
<1>5. CASE \E sheet \in Sheets : ReadSheet(sheet)
    <2>1. PICK sheet \in Sheets : ReadSheet(sheet)
        BY <1>5
    <2>2. CASE imp' = NoImport
        BY <1>2, <2>2, NoImportTypes DEF AtRows
    <2>3. CASE imp' = [NoImport EXCEPT !.at = "rows", !.sheet = sheet,
                                       !.todo = DeviceRows(sheet)]
        <3>1. imp'.at = "rows" /\ imp'.write = [q \in PMs |-> NoDevice]
            BY <2>3 DEF NoImport
        <3>2. \A q \in PMs : imp'.write[q] = NoDevice
            BY <3>1
        <3>3. Fresh' = {}
            BY <3>2 DEF Fresh
        <3>4. QED
            BY <3>1, <3>2, <3>3 DEF SlotInv
    <2>4. QED
        BY <2>1, <2>2, <2>3 DEF ReadSheet
<1>6. CASE \E u \in Users, name \in Names : EnrollUser(u, name)
    <2>1. /\ imp'.at = imp.at /\ imp'.sheet = imp.sheet /\ imp'.todo = imp.todo
          /\ imp'.write = imp.write /\ imp'.next = imp.next /\ UNCHANGED devices
        BY <1>1, <1>6 DEF EnrollUser, ImpRecord
    <2>2. Row' = Row /\ Done' = Done /\ Fresh' = Fresh /\ View(Row.pm)' = View(Row.pm)
        BY <2>1 DEF Row, Done, Fresh, View
    <2>3. QED
        BY <2>1, <2>2 DEF SlotInv
<1>7. CASE \E p \in PMs, s \in Serials : OtherImport(p, s)
    <2>1. SUFFICES ASSUME imp.at \in AtRows PROVE SlotInv'
        BY <1>7 DEF OtherImport, SlotInv
    <2>2. /\ imp' = imp /\ ~locked
          /\ \A q \in PMs : devices[q] # NoDevice => devices'[q] = devices[q]
        BY <1>7 DEF OtherImport, SheetInv, TypeOK
    <2>3. \A q \in PMs : imp.write[q] = NoDevice
        BY <2>1, <2>2 DEF SheetInv, RowsInv
    <2>4. Fresh' = {}
        BY <2>2, <2>3 DEF Fresh
    <2>5. imp.at = "update" => View(Row.pm)' = View(Row.pm)
        <3>1. SUFFICES ASSUME imp.at = "update" PROVE View(Row.pm)' = View(Row.pm)
            OBVIOUS
        <3>2. Row.pm \in PMs /\ Row' = Row /\ View(Row.pm) # NoDevice
            BY <2>1, <2>2, <3>1, RowTypes DEF SheetInv, RowsInv, Row
        <3>3. QED
            BY <2>2, <2>3, <3>2 DEF View
    <2>6. QED
        BY <2>1, <2>2, <2>3, <2>4, <2>5 DEF SlotInv
<1>8. CASE UNCHANGED vars \/ \E name \in Names : OtherNames(name)
    <2>1. SUFFICES ASSUME imp'.at \in AtRows PROVE SlotInv'
        BY <1>2
    <2>2. UNCHANGED <<imp, devices>>
        BY <1>8, <2>1, OtherNamesFrame DEF vars
    <2>3. Row' = Row /\ Done' = Done /\ Fresh' = Fresh /\ View(Row.pm)' = View(Row.pm)
        BY <2>2 DEF Row, Done, Fresh, View
    <2>4. QED
        BY <2>2, <2>3 DEF SlotInv
<1>9. CASE ReadNames
    BY <1>2, <1>9, ReadNamesKeeps DEF AtRows
<1>10. QED
    BY <1>3, <1>4, <1>5, <1>6, <1>7, <1>8, <1>9, LookUpSlots, FlushSlots DEF Next

LEMMA SlotInvariance == Spec => []SlotInv
<1>1. Init => SlotInv
    BY NoImportTypes DEF Init, SlotInv, AtRows
<1>2. QED
    BY <1>1, SlotStep, SheetInvariance, PTL DEF Spec

LEMMA CommitSlots ==
    ASSUME SheetInv, SlotInv, Commit
    PROVE  SlotsAssigned
<1>1. /\ imp.at \in AtRows /\ imp.sheet \in Sheets
      /\ \A p \in PMs : devices'[p] = View(p)
    BY DEF Commit, AtRows, SheetInv
<1>2. ASSUME NEW p \in PMs, devices[p] # NoDevice
      PROVE  devices'[p].slot = devices[p].slot
    BY <1>1, <1>2 DEF SlotInv, View
<1>3. ASSUME NEW p \in NewDevices
      PROVE  \E k \in DeviceRows(imp.sheet) : /\ imp.sheet[k].pm = p
                                              /\ devices'[p].slot = SlotOf(imp.sheet, k)
    <2>1. p \in Fresh /\ devices'[p] = imp.write[p]
        BY <1>1, <1>3 DEF NewDevices, Fresh, View
    <2>2. QED
        BY <1>1, <2>1 DEF SlotInv, Done
<1>4. ASSUME NEW p \in NewDevices, NEW q \in NewDevices, devices'[p].slot = devices'[q].slot
      PROVE  p = q
    <2>1. PICK j \in DeviceRows(imp.sheet) :
              imp.sheet[j].pm = p /\ devices'[p].slot = SlotOf(imp.sheet, j)
        BY <1>3
    <2>2. PICK k \in DeviceRows(imp.sheet) :
              imp.sheet[k].pm = q /\ devices'[q].slot = SlotOf(imp.sheet, k)
        BY <1>3
    <2>3. j = k
        BY <1>1, <1>4, <2>1, <2>2, SlotsDiffer
    <2>4. QED
        BY <2>1, <2>2, <2>3
<1>5. QED
    BY <1>2, <1>4 DEF SlotsAssigned

\* What an import commits is the last row of each device in the sheet, for
\* any sheet, when it was in no doubt about a person; other devices stay.
\* Devices keep their slots, and new ones get slots of their own.
THEOREM AppliesSheet == Spec => SheetApplied
<1> DEFINE Applied == \A p \in PMs :
               /\ RowsOf(p) = {} => devices'[p] = devices[p]
               /\ RowsOf(p) # {} /\ imp.counts.errors = 0 =>
                     Says(devices'[p], imp.sheet[Last(RowsOf(p))])
<1>1. SheetInv /\ AppliedInv /\ SlotInv /\ [Next]_vars =>
        [Committing => SlotsAssigned /\ Applied]_vars
    <2> SUFFICES ASSUME SheetInv, AppliedInv, SlotInv, Next, Committing, NEW p \in PMs
                 PROVE  /\ SlotsAssigned
                        /\ RowsOf(p) = {} => devices'[p] = devices[p]
                        /\ RowsOf(p) # {} /\ imp.counts.errors = 0 =>
                              Says(devices'[p], imp.sheet[Last(RowsOf(p))])
        BY OnlyCommit, CommitSlots
    <2>1. Commit /\ imp.at \in AtRows /\ imp.todo = {} /\ imp.sheet \in Sheets
        BY OnlyCommit DEF Commit, SheetInv, AtRows
    <2>2. devices'[p] = View(p)
        BY <2>1 DEF Commit
    <2>3. Done = DeviceRows(imp.sheet) /\ DeviceRows(imp.sheet) \subseteq Nat
        BY <2>1, SheetRows DEF Done
    <2>4. RowsOf(p) = {} => imp.write[p] = NoDevice
        BY <2>1, <2>3 DEF AppliedInv, RowsOf
    <2>5. ASSUME RowsOf(p) # {}, imp.counts.errors = 0
          PROVE  Says(View(p), imp.sheet[Last(RowsOf(p))])
        <3>1. PICK j \in Done : imp.sheet[j].pm = p
            BY <2>3, <2>5 DEF RowsOf
        <3>2. PICK l \in Done : LastDone(p, l) /\ Says(View(p), imp.sheet[l])
            BY <2>1, <2>5, <3>1 DEF AppliedInv
        <3>3. l \in RowsOf(p) /\ \A i \in RowsOf(p) : i <= l
            BY <2>3, <3>2 DEF LastDone, RowsOf
        <3>4. RowsOf(p) \subseteq Nat
            BY <2>3 DEF RowsOf
        <3>5. Last(RowsOf(p)) = l
            BY <3>3, <3>4 DEF Last
        <3>6. QED
            BY <3>2, <3>5
    <2>6. QED
        BY <2>1, <2>2, <2>4, <2>5, CommitSlots DEF View
<1>2. QED
    BY <1>1, SheetInvariance, AppliedInvariance, SlotInvariance, PTL DEF Spec, SheetApplied

(***************************************************************************)
(* The second import.  applied is a sheet about whose people there is no   *)
(* doubt, and whose last row of each device is what the device says, as    *)
(* nobody has been enrolled since.  An import of it creates no device and  *)
(* is in no doubt either; it ends at the same rows, and flushes nothing if *)
(* each device has one row only.  An import that was quiet and in no doubt *)
(* leaves such a sheet behind.                                             *)
(***************************************************************************)
Persons(place) == IF place = Locker THEN {} ELSE Found(place)

Owner(place) == IF Persons(place) = {} THEN NoUser ELSE CHOOSE u \in Persons(place) : TRUE

Clear(place) == ~(Cardinality(Persons(place)) > 1)

Reflects(device, row) ==
    /\ device # NoDevice
    /\ device.serial = row.serial
    /\ device.borrowed = (row.place # Locker)
    /\ device.borrower = Owner(row.place)

Certain == imp.quiet /\ imp.counts.errors = 0

\* Row k is the last of its device among these rows.
LastOf(rows, sheet, k) ==
    k \in rows /\ \A j \in rows : sheet[j].pm = sheet[k].pm => j <= k

AppliedHolds ==
    applied # NoSheet =>
       /\ \A k \in DeviceRows(applied) : Clear(applied[k].place)
       /\ \A k : LastOf(DeviceRows(applied), applied, k) =>
                    Reflects(devices[applied[k].pm], applied[k])

AgainHolds ==
    imp.at \in AtRows /\ imp.sheet = applied =>
       /\ imp.at # "insert" /\ imp.counts.imported = 0 /\ imp.counts.errors = 0
       /\ OneRowEach(imp.sheet) => /\ imp.at = "rows" /\ imp.counts.updated = 0
                                   /\ \A p \in PMs : imp.write[p] = NoDevice

DoneHolds ==
    imp.at \in AtRows /\ Certain =>
       /\ \A k \in Done : Clear(imp.sheet[k].place)
       /\ \A k : LastOf(Done, imp.sheet, k) =>
                    Reflects(View(imp.sheet[k].pm), imp.sheet[k])

NextHolds ==
    imp.at \in {"insert", "update"} /\ imp.quiet => Reflects(imp.next, Row) /\ Clear(Row.place)

RepeatInv == AppliedHolds /\ AgainHolds /\ DoneHolds /\ NextHolds

LEMMA GreatestExists ==
    ASSUME NEW n \in Nat, NEW S \in SUBSET (1 .. n), S # {}
    PROVE  \E x \in S : \A y \in S : y <= x
<1> DEFINE U == {m \in Nat : \A y \in S : y <= m}
<1>1. n \in U
    OBVIOUS
<1>2. PICK m \in U : \A i \in U : m <= i
    BY <1>1, LeastExists
<1>3. ASSUME m \notin S PROVE FALSE
    <2>1. PICK y \in S : TRUE
        OBVIOUS
    <2>2. m \in Nat /\ y \in 1 .. n /\ y <= m
        BY <1>2, <2>1
    <2>3. m - 1 \in Nat
        BY <2>2
    <2>4. ASSUME NEW z \in S PROVE z <= m - 1
        <3>1. z \in Nat /\ z <= m /\ z # m
            BY <1>2, <1>3
        <3>2. QED
            BY <2>2, <3>1
    <2>5. m - 1 \in U
        BY <2>3, <2>4
    <2>6. QED
        BY <1>2, <2>2, <2>5
<1>4. QED
    BY <1>2, <1>3

\* Every device of a sheet has a last row.
LEMMA LastExists ==
    ASSUME NEW sheet \in Sheets, NEW k \in DeviceRows(sheet)
    PROVE  \E l : LastOf(DeviceRows(sheet), sheet, l) /\ sheet[l].pm = sheet[k].pm
<1> DEFINE S == {j \in DeviceRows(sheet) : sheet[j].pm = sheet[k].pm}
<1>1. S \subseteq 1 .. MaxRows /\ k \in S /\ MaxRows \in Nat
    BY SheetRows, SheetAssumption
<1>2. PICK l \in S : \A j \in S : j <= l
    BY <1>1, GreatestExists
<1>3. QED
    BY <1>2 DEF LastOf

LEMMA ReflectsStays ==
    ASSUME UNCHANGED account, NEW device, NEW row, Reflects(device, row)
    PROVE  Reflects(device, row)'
<1>1. Owner(row.place)' = Owner(row.place)
    BY DEF Owner, Persons, Found
<1>2. QED
    BY <1>1 DEF Reflects

LEMMA ClearStays ==
    ASSUME UNCHANGED account, NEW place, Clear(place) PROVE Clear(place)'
<1>1. Persons(place)' = Persons(place)
    BY DEF Persons, Found
<1>2. QED
    BY <1>1 DEF Clear

LEMMA DevicesOfRows ==
    ASSUME NEW sheet \in Sheets, NEW k \in DeviceRows(sheet)
    PROVE  sheet[k].pm \in PMs
<1>1. k \in DOMAIN sheet /\ sheet[k].pm # NoPM
    BY DEF DeviceRows
<1>2. sheet[k] \in SheetRow
    BY <1>1, SheetRows
<1>3. QED
    BY <1>1, <1>2 DEF SheetRow

\* While nobody is enrolled, a device that is there and a sheet that is
\* reflected stay as they are.
LEMMA AppliedStays ==
    ASSUME SheetInv, RepeatInv, UNCHANGED <<account, applied>>,
           \A q \in PMs : devices[q] # NoDevice => devices'[q] = devices[q]
    PROVE  AppliedHolds'
<1>1. SUFFICES ASSUME applied # NoSheet PROVE AppliedHolds'
    BY DEF AppliedHolds
<1>2. ASSUME NEW k \in DeviceRows(applied) PROVE Clear(applied[k].place)'
    <2> DEFINE place == applied[k].place
    <2>1. place' = place /\ Clear(place)
        BY <1>1, <1>2 DEF RepeatInv, AppliedHolds
    <2> HIDE DEF place
    <2>2. Clear(place)'
        BY <2>1, ClearStays
    <2>3. QED
        BY <2>2 DEF place
<1>3. ASSUME NEW k, LastOf(DeviceRows(applied), applied, k)
      PROVE  Reflects(devices[applied[k].pm], applied[k])'
    <2> DEFINE device == devices[applied[k].pm]
               row == applied[k]
    <2>1. row.pm \in PMs
        BY <1>1, <1>3, DevicesOfRows DEF SheetInv, TypeOK, LastOf
    <2>2. Reflects(device, row)
        BY <1>1, <1>3 DEF RepeatInv, AppliedHolds
    <2>3. device' = device /\ row' = row
        BY <2>1, <2>2 DEF Reflects
    <2> HIDE DEF device, row
    <2>4. Reflects(device, row)'
        BY <2>2, <2>3, ReflectsStays
    <2>5. QED
        BY <2>4 DEF device, row
<1>4. QED
    BY <1>2, <1>3 DEF AppliedHolds, DeviceRows, LastOf

\* What is said of a row that is done goes on to hold of it.
LEMMA RowStaysClear ==
    ASSUME SheetInv, RepeatInv, imp.at \in AtRows, Certain,
           UNCHANGED account, imp'.sheet = imp.sheet, NEW k \in Done
    PROVE  Clear(imp.sheet[k].place)'
<1> DEFINE place == imp.sheet[k].place
<1>1. Clear(place) /\ place' = place
    BY DEF RepeatInv, DoneHolds
<1> HIDE DEF place
<1>2. Clear(place)'
    BY <1>1, ClearStays
<1>3. QED
    BY <1>2 DEF place

LEMMA RowStaysReflected ==
    ASSUME SheetInv, RepeatInv, imp.at \in AtRows, Certain,
           UNCHANGED account, imp'.sheet = imp.sheet,
           NEW k, LastOf(Done, imp.sheet, k),
           View(imp.sheet[k].pm)' = View(imp.sheet[k].pm)
    PROVE  Reflects(View(imp.sheet[k].pm), imp.sheet[k])'
<1> DEFINE device == View(imp.sheet[k].pm)
           row == imp.sheet[k]
<1>1. Reflects(device, row)
    BY DEF RepeatInv, DoneHolds
<1>2. device' = device /\ row' = row
    OBVIOUS
<1> HIDE DEF device, row
<1>3. Reflects(device, row)'
    BY <1>1, <1>2, ReflectsStays
<1>4. QED
    BY <1>3 DEF device, row

\* The row in hand says what its device becomes, and is of no doubtful person.
LEMMA RowReflected ==
    ASSUME UNCHANGED account, imp'.sheet = imp.sheet, NEW k, NEW device,
           Reflects(device, imp.sheet[k]), Clear(imp.sheet[k].place),
           View(imp.sheet[k].pm)' = device
    PROVE  /\ Reflects(View(imp.sheet[k].pm), imp.sheet[k])'
           /\ Clear(imp.sheet[k].place)'
<1>1. Reflects(device, imp.sheet[k])' /\ Clear(imp.sheet[k].place)'
    BY DEF Reflects, Owner, Clear, Persons, Found
<1>2. QED
    BY <1>1 DEF Reflects

\* Nothing that matters to the rows has changed.
LEMMA RowsAlike ==
    ASSUME SheetInv, RepeatInv, UNCHANGED <<imp, account, applied>>,
           \A q \in PMs : devices[q] # NoDevice => devices'[q] = devices[q]
    PROVE  RepeatInv'
<1>1. AppliedHolds'
    BY AppliedStays
<1>2. AgainHolds'
    BY DEF RepeatInv, AgainHolds, OneRowEach, DeviceRows
<1>3. ASSUME imp.at \in AtRows, Certain'
      PROVE  /\ \A j \in Done' : Clear(imp.sheet[j].place)'
             /\ \A j : LastOf(Done, imp.sheet, j)' =>
                          Reflects(View(imp.sheet[j].pm), imp.sheet[j])'
    <2>1. Certain /\ Done' = Done /\ imp.sheet \in Sheets
        BY <1>3 DEF Certain, Done, SheetInv, AtRows
    <2>2. ASSUME NEW j, LastOf(Done, imp.sheet, j)
          PROVE  View(imp.sheet[j].pm)' = View(imp.sheet[j].pm)
        <3>1. imp.sheet[j].pm \in PMs
            BY <2>1, <2>2, DevicesOfRows DEF LastOf, Done
        <3>2. View(imp.sheet[j].pm) # NoDevice
            BY <1>3, <2>1, <2>2 DEF RepeatInv, DoneHolds, Reflects
        <3>3. QED
            BY <3>1, <3>2 DEF View
    <2>3. QED
        BY <1>3, <2>1, <2>2, RowStaysClear, RowStaysReflected DEF LastOf
<1>4. NextHolds'
    BY DEF RepeatInv, NextHolds, Reflects, Clear, Owner, Persons, Found, Row
<1>5. QED
    BY <1>1, <1>2, <1>3, <1>4 DEF RepeatInv, DoneHolds

\* An import of a sheet that is reflected is in doubt about nobody and finds
\* every device; if it has one row of each, it finds them as they should be.
LEMMA RepeatLookUp ==
    ASSUME SheetInv, RepeatInv, LookUp, imp.sheet = applied
    PROVE  /\ Clear(Row.place)
           /\ View(Row.pm) # NoDevice
           /\ OneRowEach(imp.sheet) => LookedUp("unchanged")
<1> DEFINE old == View(Row.pm)
           new == Target(old, Row, First(imp.todo), Owner(Row.place))
<1>1. imp.at \in AtRows /\ imp.todo # {} /\ imp.sheet \in Sheets
    BY DEF LookUp, AtRows, SheetInv
<1>2. /\ First(imp.todo) \in DeviceRows(applied) /\ Row.pm \in PMs
      /\ Row = applied[First(imp.todo)] /\ applied # NoSheet
    BY <1>1, RowTypes, SheetAssumption DEF Row
<1>3. Clear(Row.place)
    BY <1>2 DEF RepeatInv, AppliedHolds
<1>4. devices[Row.pm] # NoDevice
    <2>1. PICK l : LastOf(DeviceRows(applied), applied, l) /\ applied[l].pm = Row.pm
        BY <1>1, <1>2, LastExists
    <2>2. QED
        BY <1>2, <2>1 DEF RepeatInv, AppliedHolds, Reflects
<1>5. old # NoDevice
    BY <1>4 DEF View
<1>6. ASSUME OneRowEach(imp.sheet) PROVE LookedUp("unchanged")
    <2>1. LastOf(DeviceRows(applied), applied, First(imp.todo))
        <3>1. \A j \in DeviceRows(applied) : applied[j].pm = Row.pm => j = First(imp.todo)
            BY <1>2, <1>6 DEF OneRowEach
        <3>2. First(imp.todo) \in Nat
            BY <1>1, <1>2, SheetRows
        <3>3. QED
            BY <1>2, <3>1, <3>2 DEF LastOf
    <2>2. Reflects(devices[Row.pm], Row)
        BY <1>2, <2>1 DEF RepeatInv, AppliedHolds
    <2>3. old = devices[Row.pm]
        BY <1>1, <1>2, <1>6 DEF RepeatInv, AgainHolds, View
    <2>4. old \in Device
        BY <1>2, <1>5, <2>3 DEF SheetInv, TypeOK
    <2>5. new = old
        BY <2>2, <2>3, <2>4 DEF Target, Reflects, Device
    <2> HIDE DEF old
    <2>6. \/ LookedUp("unchanged")
          \/ old = NoDevice \/ old # new \/ ~Clear(Row.place)
        BY DEF LookUp, LookedUp, Changed, Row, Owner, Persons, Clear, old
    <2>7. QED
        BY <1>3, <1>5, <2>5, <2>6
<1>7. QED
    BY <1>3, <1>5, <1>6

LEMMA LookUpRepeats == ASSUME SheetInv, RepeatInv, LookUp PROVE RepeatInv'
<1> SUFFICES ASSUME NEW k, k = First(imp.todo) PROVE RepeatInv'
    OBVIOUS
<1> DEFINE new == Target(View(Row.pm), Row, k, Owner(Row.place))
<1>1. /\ imp.at = "rows" /\ imp.todo # {} /\ imp \in ImpRecord /\ imp.at \in AtRows
      /\ UNCHANGED <<devices, account, registrants, locked, applied>>
      /\ imp.sheet \in Sheets
    BY DEF LookUp, SheetInv, TypeOK, ImpRecord, AtRows
<1>2. k \in DeviceRows(imp.sheet) /\ k \in imp.todo /\ Row = imp.sheet[k] /\ Row.pm \in PMs
    BY <1>1, RowTypes DEF Row
<1>3. Reflects(new, Row)
    <2>1. /\ new.serial = Row.serial /\ new.borrowed = (Row.place # Locker)
          /\ new.borrower = Owner(Row.place)
        BY DEF Target
    <2>2. Owner(Row.place) \in Users \cup {NoUser}
        BY DEF Owner, Persons, Found
    <2>3. new # NoDevice
        BY <1>1, <2>2, TargetTypes, DeviceAssumption
    <2>4. QED
        BY <2>1, <2>3 DEF Reflects
<1> HIDE DEF new
<1>4. AppliedHolds'
    BY <1>1, AppliedStays
<1>5. ASSUME NEW what \in {"errors", "unchanged"},
             imp' = [imp EXCEPT !.todo = @ \ {k}, !.counts = Counted(what)],
             what = "unchanged" => View(Row.pm) = new /\ Clear(Row.place),
             imp.sheet = applied => what = "unchanged"
      PROVE  RepeatInv'
    <2>1. /\ imp'.at = "rows" /\ imp'.sheet = imp.sheet /\ imp'.write = imp.write
          /\ imp'.todo = imp.todo \ {k} /\ imp'.counts = Counted(what)
          /\ imp'.quiet = imp.quiet
        BY <1>1, <1>5 DEF ImpRecord
    <2>2. \A q : View(q)' = View(q)
        BY <1>1, <2>1 DEF View
    <2>3. /\ imp.counts.errors \in Nat
          /\ imp'.counts.imported = imp.counts.imported
          /\ imp'.counts.updated = imp.counts.updated
          /\ what = "unchanged" => imp'.counts.errors = imp.counts.errors
          /\ imp'.counts.errors = 0 => imp.counts.errors = 0 /\ what = "unchanged"
        BY <1>1, <2>1, CountedTypes DEF ImpRecord, Counts
    <2>4. Done' = Done \cup {k}
        BY <1>2, <2>1 DEF Done
    <2>5. ASSUME Certain'
          PROVE  /\ \A j \in Done' : Clear(imp.sheet[j].place)'
                 /\ \A j : LastOf(Done, imp.sheet, j)' =>
                              Reflects(View(imp.sheet[j].pm), imp.sheet[j])'
        <3>1. Certain /\ what = "unchanged"
            BY <2>1, <2>3, <2>5 DEF Certain
        <3>2. Reflects(View(imp.sheet[k].pm), imp.sheet[k])' /\ Clear(imp.sheet[k].place)'
            <4>1. Reflects(new, imp.sheet[k]) /\ Clear(imp.sheet[k].place)
                BY <1>2, <1>3, <1>5, <3>1
            <4>2. View(imp.sheet[k].pm)' = new
                BY <1>1, <1>2, <1>5, <2>1, <3>1 DEF View
            <4>3. QED
                BY <1>1, <2>1, <4>1, <4>2, RowReflected
        <3>3. \A j \in Done : Clear(imp.sheet[j].place)'
            BY <1>1, <2>1, <3>1, RowStaysClear
        <3>4. ASSUME NEW j, LastOf(Done, imp.sheet, j)', j # k
              PROVE  Reflects(View(imp.sheet[j].pm), imp.sheet[j])'
            <4>1. LastOf(Done, imp.sheet, j)
                BY <2>1, <2>4, <3>4 DEF LastOf
            <4>2. View(imp.sheet[j].pm)' = View(imp.sheet[j].pm)
                BY <1>1, <2>1 DEF View
            <4>3. QED
                BY <1>1, <2>1, <3>1, <4>1, <4>2, RowStaysReflected
        <3>5. QED
            BY <2>4, <3>2, <3>3, <3>4
    <2>6. AgainHolds'
        BY <1>1, <1>5, <2>1, <2>3 DEF RepeatInv, AgainHolds, OneRowEach, DeviceRows
    <2>7. QED
        BY <1>4, <2>1, <2>5, <2>6 DEF RepeatInv, DoneHolds, NextHolds
<1>6. CASE LookedUp("flush") /\ (imp.sheet = applied => View(Row.pm) # NoDevice
                                                        /\ ~OneRowEach(imp.sheet))
    <2> DEFINE place == IF View(Row.pm) = NoDevice THEN "insert" ELSE "update"
    <2>1. imp' = [imp EXCEPT !.next = new, !.at = place] /\ Clear(Row.place)
        BY <1>6 DEF LookedUp, new, Owner, Persons, Clear
    <2>2. imp.sheet = applied => place = "update"
        BY <1>6
    <2> HIDE DEF place
    <2>3. /\ imp'.sheet = imp.sheet /\ imp'.write = imp.write /\ imp'.todo = imp.todo
          /\ imp'.counts = imp.counts /\ imp'.next = new /\ imp'.quiet = imp.quiet
          /\ imp'.at = place
        BY <1>1, <2>1 DEF ImpRecord
    <2>4. Row' = Row /\ Done' = Done /\ \A q : View(q)' = View(q)
        BY <1>1, <2>3 DEF Row, Done, View
    <2>5. Reflects(imp.next, Row)' /\ Clear(Row.place)'
        BY <1>1, <1>3, <2>1, <2>3, <2>4 DEF Reflects, Owner, Clear, Persons, Found
    <2>6. ASSUME Certain'
          PROVE  /\ \A j \in Done' : Clear(imp.sheet[j].place)'
                 /\ \A j : LastOf(Done, imp.sheet, j)' =>
                              Reflects(View(imp.sheet[j].pm), imp.sheet[j])'
        <3>1. Certain
            BY <2>3, <2>6 DEF Certain
        <3>2. ASSUME NEW j, LastOf(Done, imp.sheet, j)'
              PROVE  Reflects(View(imp.sheet[j].pm), imp.sheet[j])'
            <4>1. LastOf(Done, imp.sheet, j)
                BY <2>3, <2>4, <3>2 DEF LastOf
            <4>2. View(imp.sheet[j].pm)' = View(imp.sheet[j].pm)
                BY <1>1, <2>3 DEF View
            <4>3. QED
                BY <1>1, <2>3, <3>1, <4>1, <4>2, RowStaysReflected
        <3>3. QED
            BY <1>1, <2>3, <2>4, <3>1, <3>2, RowStaysClear
    <2>7. AgainHolds'
        BY <1>1, <1>6, <2>2, <2>3 DEF RepeatInv, AgainHolds, OneRowEach, DeviceRows
    <2>8. QED
        BY <1>4, <2>5, <2>6, <2>7 DEF RepeatInv, DoneHolds, NextHolds
<1>7. QED
    <2>1. PICK how \in {"errors", "unchanged", "flush"} : LookedUp(how)
        BY LookUpCases
    <2>2. CASE how = "errors"
        <3>1. ~Clear(Row.place)
            BY <2>1, <2>2 DEF LookedUp, Persons, Clear
        <3>2. imp.sheet # applied
            BY <3>1, RepeatLookUp
        <3>3. QED
            BY <1>5, <2>1, <2>2, <3>2 DEF LookedUp
    <2>3. CASE how = "unchanged"
        BY <1>5, <2>1, <2>3 DEF LookedUp, new, Owner, Persons, Clear
    <2>4. CASE how = "flush"
        <3>1. ASSUME imp.sheet = applied, OneRowEach(imp.sheet) PROVE RepeatInv'
            BY <1>5, <3>1, RepeatLookUp DEF LookedUp, new, Owner, Persons, Clear
        <3>2. QED
            BY <1>6, <2>1, <2>4, <3>1, RepeatLookUp
    <2>5. QED
        BY <2>1, <2>2, <2>3, <2>4

LEMMA FlushRepeats == ASSUME SheetInv, AppliedInv, RepeatInv, Flush PROVE RepeatInv'
<1> SUFFICES ASSUME NEW k, NEW p, k = First(imp.todo), p = Row.pm
             PROVE  RepeatInv'
    OBVIOUS
<1> DEFINE what == IF imp.at = "insert" THEN "imported" ELSE "updated"
<1>1. /\ imp.at \in {"insert", "update"} /\ imp \in ImpRecord /\ RowsInv /\ imp.at \in AtRows
      /\ imp' = [imp EXCEPT !.at = "rows", !.todo = @ \ {k}, !.next = NoDevice,
                            !.write[p] = imp.next, !.counts = Counted(what)]
      /\ UNCHANGED <<devices, account, registrants, applied>>
    BY DEF Flush, Row, SheetInv, TypeOK, ImpRecord, AtRows
<1>2. what \in {"imported", "updated"}
    OBVIOUS
<1>3. imp.todo # {} /\ imp.next # NoDevice
    BY <1>1, DeviceAssumption DEF RowsInv
<1>4. p \in PMs /\ Row = imp.sheet[k] /\ k \in DeviceRows(imp.sheet) /\ k \in imp.todo
      /\ imp.sheet \in Sheets /\ DeviceRows(imp.sheet) \subseteq Nat
    BY <1>1, <1>3, RowTypes, SheetRows DEF Row
<1>5. /\ imp'.at = "rows" /\ imp'.sheet = imp.sheet /\ imp'.todo = imp.todo \ {k}
      /\ imp'.write = [imp.write EXCEPT ![p] = imp.next] /\ imp'.counts = Counted(what)
      /\ imp'.quiet = imp.quiet
    BY <1>1 DEF ImpRecord
<1>6. \A q \in PMs : imp'.write[q] = IF q = p THEN imp.next ELSE imp.write[q]
    BY <1>1, <1>5 DEF ImpRecord
<1>7. View(p)' = imp.next /\ \A q \in PMs \ {p} : View(q)' = View(q)
    <2>1. imp'.write[p] = imp.next
        BY <1>4, <1>6
    <2>2. ASSUME NEW q \in PMs \ {p} PROVE imp'.write[q] = imp.write[q]
        BY <1>6
    <2>3. QED
        BY <1>1, <1>3, <2>1, <2>2 DEF View
<1>8. /\ imp'.counts.errors = imp.counts.errors
      /\ imp.at # "insert" => imp'.counts.imported = imp.counts.imported
    BY <1>1, <1>2, <1>3, <1>5, CountedTypes
<1>9. Done' = Done \cup {k} /\ \A j \in Done : j < k
    BY <1>1, <1>4, <1>5 DEF Done, AppliedInv
<1>10. ASSUME Certain'
       PROVE  /\ \A j \in Done' : Clear(imp.sheet[j].place)'
              /\ \A j : LastOf(Done, imp.sheet, j)' =>
                           Reflects(View(imp.sheet[j].pm), imp.sheet[j])'
    <2>1. Certain
        BY <1>5, <1>8, <1>10 DEF Certain
    <2>2. Reflects(View(imp.sheet[k].pm), imp.sheet[k])' /\ Clear(imp.sheet[k].place)'
        <3>1. Reflects(imp.next, imp.sheet[k]) /\ Clear(imp.sheet[k].place)
            BY <1>1, <1>4, <2>1 DEF RepeatInv, NextHolds, Certain
        <3>2. View(imp.sheet[k].pm)' = imp.next
            BY <1>1, <1>3, <1>4, <1>5, <1>6 DEF View
        <3>3. QED
            BY <1>1, <1>5, <3>1, <3>2, RowReflected
    <2>3. \A j \in Done : Clear(imp.sheet[j].place)'
        BY <1>1, <1>5, <2>1, RowStaysClear
    <2>4. ASSUME NEW j, LastOf(Done, imp.sheet, j)', j # k
          PROVE  Reflects(View(imp.sheet[j].pm), imp.sheet[j])'
        <3>1. LastOf(Done, imp.sheet, j) /\ (imp.sheet[j].pm = p => k <= j)
            BY <1>4, <1>5, <1>9, <2>4 DEF LastOf
        <3>2. j \in DeviceRows(imp.sheet) /\ imp.sheet[j].pm \in PMs
            BY <1>4, <3>1, DevicesOfRows DEF LastOf, Done
        <3>3. imp.sheet[j].pm # p
            BY <1>4, <1>9, <3>1, <3>2 DEF LastOf
        <3>4. View(imp.sheet[j].pm)' = View(imp.sheet[j].pm)
            BY <1>1, <1>5, <1>6, <3>2, <3>3 DEF View
        <3>5. QED
            BY <1>1, <1>5, <2>1, <3>1, <3>4, RowStaysReflected
    <2>5. QED
        BY <1>9, <2>2, <2>3, <2>4
<1>11. AgainHolds'
    BY <1>1, <1>5, <1>8 DEF RepeatInv, AgainHolds, OneRowEach, DeviceRows
<1>12. AppliedHolds'
    BY <1>1, AppliedStays
<1>13. QED
    BY <1>5, <1>10, <1>11, <1>12 DEF RepeatInv, DoneHolds, NextHolds

LEMMA CommitRepeats == ASSUME SheetInv, RepeatInv, Commit PROVE RepeatInv'
<1>1. /\ imp.at \in AtRows /\ imp.todo = {} /\ imp \in ImpRecord /\ imp.sheet \in Sheets
      /\ imp'.at = "names" /\ account' = account
      /\ \A p \in PMs : devices'[p] = View(p)
    BY DEF Commit, AtRows, SheetInv, TypeOK, ImpRecord
<1>2. Done = DeviceRows(imp.sheet)
    BY <1>1 DEF Done
<1>3. ASSUME applied' # NoSheet, NEW k \in DeviceRows(applied')
      PROVE  /\ Clear(applied[k].place)'
             /\ LastOf(DeviceRows(applied'), applied', k) =>
                   Reflects(devices[applied[k].pm], applied[k])'
    <2>1. Certain /\ applied' = imp.sheet
        BY <1>3 DEF Commit, Certain
    <2>2. k \in Done /\ imp.sheet[k].pm \in PMs
        BY <1>1, <1>2, <1>3, <2>1, DevicesOfRows
    <2> DEFINE device == View(imp.sheet[k].pm)
               row == imp.sheet[k]
    <2>3. /\ Clear(row.place)
          /\ LastOf(DeviceRows(applied'), applied', k) => Reflects(device, row)
        BY <1>1, <1>2, <2>1, <2>2 DEF RepeatInv, DoneHolds
    <2>4. devices'[applied'[k].pm] = device /\ applied'[k] = row
        BY <1>1, <2>1, <2>2
    <2> HIDE DEF device, row
    <2>5. QED
        BY <1>1, <2>3, <2>4 DEF Reflects, Clear, Owner, Persons, Found
<1>4. AppliedHolds'
    BY <1>3 DEF AppliedHolds, LastOf
<1>5. QED
    BY <1>1, <1>4 DEF RepeatInv, AgainHolds, DoneHolds, NextHolds, AtRows

LEMMA RepeatStep == SheetInv /\ AppliedInv /\ RepeatInv /\ [Next]_vars => RepeatInv'
<1> SUFFICES ASSUME SheetInv, AppliedInv, RepeatInv, [Next]_vars PROVE RepeatInv'
    OBVIOUS
<1>1. imp \in ImpRecord
    BY DEF SheetInv, TypeOK, ImpRecord
<1>2. ASSUME imp'.at \notin AtRows, UNCHANGED <<devices, account, applied>>
      PROVE  RepeatInv'
    BY <1>2, AppliedStays DEF RepeatInv, AgainHolds, DoneHolds, NextHolds, AtRows
<1>3. CASE FlushFails \/ AddNames \/ AddNamesFails \/ Crash
    BY <1>2, <1>3, NoImportTypes DEF FlushFails, AddNames, AddNamesFails, Crash, AtRows
<1>4. CASE \E sheet \in Sheets : ReadSheet(sheet)
    <2>1. PICK sheet \in Sheets : ReadSheet(sheet)
        BY <1>4
    <2>2. CASE imp' = NoImport
        BY <1>2, <2>1, <2>2, NoImportTypes DEF ReadSheet, AtRows
    <2>3. CASE imp' = [NoImport EXCEPT !.at = "rows", !.sheet = sheet,
                                       !.todo = DeviceRows(sheet)]
        <3>1. /\ imp'.at = "rows" /\ imp'.sheet = sheet /\ imp'.todo = DeviceRows(sheet)
              /\ imp'.write = [q \in PMs |-> NoDevice] /\ imp'.counts.imported = 0
              /\ imp'.counts.updated = 0 /\ imp'.counts.errors = 0
            BY <2>3 DEF NoImport, NoCounts
        <3>2. Done' = {}
            BY <3>1 DEF Done
        <3>3. AppliedHolds'
            BY <2>1, AppliedStays DEF ReadSheet
        <3>4. QED
            BY <3>1, <3>2, <3>3 DEF RepeatInv, AgainHolds, DoneHolds, NextHolds, LastOf
    <2>4. QED
        BY <2>1, <2>2, <2>3 DEF ReadSheet
<1>5. CASE \E u \in Users, name \in Names : EnrollUser(u, name)
    <2>1. /\ applied' = NoSheet /\ ~imp'.quiet /\ imp'.at = imp.at
          /\ imp'.sheet = imp.sheet
        BY <1>1, <1>5 DEF EnrollUser, ImpRecord
    <2>2. imp'.at \in AtRows => imp'.sheet # applied'
        BY <2>1, SheetAssumption DEF SheetInv, AtRows
    <2>3. QED
        BY <2>1, <2>2
           DEF RepeatInv, AppliedHolds, AgainHolds, DoneHolds, NextHolds, Certain
<1>6. CASE \E p \in PMs, s \in Serials : OtherImport(p, s)
    <2>1. \A q \in PMs : devices[q] # NoDevice => devices'[q] = devices[q]
        BY <1>6 DEF OtherImport, SheetInv, TypeOK
    <2>2. QED
        BY <1>6, <2>1, RowsAlike DEF OtherImport
<1>7. CASE \E name \in Names : OtherNames(name)
    <2>1. PICK name \in Names : OtherNames(name)
        BY <1>7
    <2>2. UNCHANGED <<devices, account, applied>> /\ (imp.at \in AtRows => imp' = imp)
          /\ imp'.at = imp.at
        BY <2>1, OtherNamesFrame
    <2>3. QED
        BY <1>2, <2>2, RowsAlike
<1>8. CASE ReadNames
    BY <1>2, <1>8, ReadNamesKeeps DEF ReadNames, AtRows
<1>9. CASE UNCHANGED vars
    BY <1>9, RowsAlike DEF vars
<1>10. QED
    BY <1>3, <1>4, <1>5, <1>6, <1>7, <1>8, <1>9, LookUpRepeats, FlushRepeats, CommitRepeats
       DEF Next

\* What an import of a sheet that is reflected has flushed of a device when it
\* commits is the device as it was.
LEMMA RepeatCommit ==
    ASSUME SheetInv, AppliedInv, SlotInv, RepeatInv, Commit, imp.quiet, imp.sheet = applied,
           NEW p \in PMs
    PROVE  View(p) = devices[p]
<1>1. imp.at \in AtRows /\ imp.todo = {} /\ imp.sheet \in Sheets /\ applied # NoSheet
    BY SheetAssumption DEF Commit, AtRows, SheetInv
<1>2. Certain /\ Done = DeviceRows(applied)
    BY <1>1 DEF RepeatInv, AgainHolds, Certain, Done
<1>3. SUFFICES ASSUME imp.write[p] # NoDevice PROVE imp.write[p] = devices[p]
    BY DEF View
<1>4. PICK l : LastOf(Done, applied, l) /\ applied[l].pm = p
    <2>1. PICK j \in Done : applied[j].pm = p
        BY <1>1, <1>3 DEF AppliedInv
    <2>2. QED
        BY <1>1, <1>2, <2>1, LastExists
<1>5. Reflects(imp.write[p], applied[l]) /\ Reflects(devices[p], applied[l])
    BY <1>1, <1>2, <1>3, <1>4 DEF RepeatInv, DoneHolds, AppliedHolds, View
<1>6. imp.write[p] \in Device /\ devices[p] \in Device
    BY <1>5 DEF Reflects, SheetInv, TypeOK
<1>7. imp.write[p].slot = devices[p].slot
    BY <1>1, <1>3, <1>5 DEF SlotInv, Reflects
<1>8. QED
    BY <1>5, <1>6, <1>7 DEF Reflects, Device

\* Importing again what the database reflects leaves every device as it is and
\* creates none, for any sheet and any people; if the sheet lists each device
\* once, nothing is counted as updated.
THEOREM SecondImport == Spec => SecondImportUnchanged
<1>1. Init => RepeatInv
    BY NoImportTypes
       DEF Init, RepeatInv, AppliedHolds, AgainHolds, DoneHolds, NextHolds, AtRows
<1>2. SheetInv /\ AppliedInv /\ SlotInv /\ RepeatInv /\ [Next]_vars =>
        [Committing /\ imp.quiet /\ imp.sheet = applied =>
            /\ devices' = devices
            /\ imp.counts.imported = 0
            /\ OneRowEach(imp.sheet) => imp.counts.updated = 0]_vars
    <2> SUFFICES ASSUME SheetInv, AppliedInv, SlotInv, RepeatInv, Next, Committing,
                        imp.quiet, imp.sheet = applied
                 PROVE  /\ devices' = devices
                        /\ imp.counts.imported = 0
                        /\ OneRowEach(imp.sheet) => imp.counts.updated = 0
        OBVIOUS
    <2>1. Commit /\ imp.at \in AtRows
        BY OnlyCommit DEF Commit, AtRows
    <2>2. imp.counts.imported = 0 /\ (OneRowEach(imp.sheet) => imp.counts.updated = 0)
        BY <2>1 DEF RepeatInv, AgainHolds
    <2>3. devices' = [p \in PMs |-> devices[p]]
        BY <2>1, RepeatCommit DEF Commit
    <2>4. devices' = devices
        BY <2>3 DEF SheetInv, TypeOK
    <2>5. QED
        BY <2>2, <2>4
<1>3. QED
    BY <1>1, <1>2, RepeatStep, SheetInvariance, AppliedInvariance, SlotInvariance, PTL
       DEF Spec, SecondImportUnchanged
=============================================================================

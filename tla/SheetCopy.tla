----------------------------- MODULE SheetCopy -----------------------------
(***************************************************************************)
(* What the imports of the source Excel do to the database, whoever starts *)
(* them and however they overlap: an import goes by one copy of the file,  *)
(* which is the whole file as it was at one moment; it leaves a row alone  *)
(* if the database agreed with the copy when it looked; and it sets all    *)
(* other rows at once, or none.  Loose imports, those of the button, share *)
(* a session, and may set some rows of their copy and not the others.      *)
(* That imports are started when they should be is not said here: see      *)
(* SavedIsRead and Converges of SourceSync.                                *)
(***************************************************************************)
EXTENDS Naturals

CONSTANTS
    NumRows,   \* rows of the sheet, one per device
    Values,    \* what a row can say of its device
    Sheets,    \* contents of the file
    Jobs,      \* imports
    Loose,     \* those that may be applied in part
    NoSheet    \* "no copy"

Rows == 1 .. NumRows

VARIABLES
    file,     \* contents of the source Excel
    db,       \* what the devices table says, row by row
    copy,     \* the copy each import goes by
    agreed    \* the rows it has found in agreement

copyVars == <<file, db, copy, agreed>>

Init ==
    /\ file \in Sheets
    /\ db \in [Rows -> Values]
    /\ copy = [i \in Jobs |-> NoSheet]
    /\ agreed = [i \in Jobs |-> {}]

Save ==
    /\ file' \in Sheets
    /\ UNCHANGED <<db, copy, agreed>>

Take(i) ==
    /\ copy[i] = NoSheet
    /\ copy' = [copy EXCEPT ![i] = file]
    /\ UNCHANGED <<file, db, agreed>>

Agree(i, r) ==
    /\ copy[i] # NoSheet
    /\ db[r] = copy[i][r]
    /\ agreed' = [agreed EXCEPT ![i] = @ \cup {r}]
    /\ UNCHANGED <<file, db, copy>>

\* The imports of gone are over.
Over(gone) ==
    /\ copy' = [i \in Jobs |-> IF i \in gone THEN NoSheet ELSE copy[i]]
    /\ agreed' = [i \in Jobs |-> IF i \in gone THEN {} ELSE agreed[i]]

Apply(i) ==
    /\ copy[i] # NoSheet
    /\ db' = [r \in Rows |-> IF r \in agreed[i] THEN db[r] ELSE copy[i][r]]
    /\ Over({i})
    /\ UNCHANGED file

ApplyPart(i, rows) ==
    /\ copy[i] # NoSheet
    /\ db' = [r \in Rows |-> IF r \in rows THEN copy[i][r] ELSE db[r]]
    /\ Over({}) \/ Over({i})
    /\ UNCHANGED file

\* Imports fail or are killed, and leave nothing behind.
Drop(gone) ==
    /\ Over(gone)
    /\ UNCHANGED <<file, db>>

Next ==
    \/ Save
    \/ \E i \in Jobs : Take(i) \/ Apply(i) \/ \E r \in Rows : Agree(i, r)
    \/ \E i \in Loose, rows \in SUBSET Rows : ApplyPart(i, rows)
    \/ \E gone \in SUBSET Jobs : Drop(gone)

Spec == Init /\ [][Next]_copyVars
=============================================================================

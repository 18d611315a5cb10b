---------------------------- MODULE MCSheetImport ----------------------------
(* Model values for SheetImport.                                              *)
EXTENDS SheetImport, TLC

CONSTANTS p1, p2, s1, s2, anna, Anna, oezil, Oezil, u1, u2

Row(pm, schrank, serial, place) ==
    [pm |-> pm, schrank |-> schrank, serial |-> serial, place |-> place]

\* Two devices; the same with their serial numbers exchanged; a row without a
\* PM number, and a person without a device of the locker; one device
\* twice; one serial number twice; no device of the locker.
MCSheets == {
    <<Row(p1, TRUE, s1, Locker), Row(p2, TRUE, s2, Anna)>>,
    <<Row(p1, TRUE, s2, anna), Row(p2, TRUE, s1, Locker)>>,
    <<Row(NoPM, TRUE, NoSerial, Anna), Row(p1, TRUE, s1, anna), Row(p2, FALSE, s2, Oezil)>>,
    <<Row(p1, TRUE, s1, Locker), Row(p1, TRUE, NoSerial, Oezil)>>,
    <<Row(p1, TRUE, s1, Locker), Row(p2, TRUE, s1, Anna)>>,
    <<Row(p2, FALSE, s2, Oezil)>> }

\* The first letter of the second name is an umlaut.
Lower(n) == CASE n = Anna -> anna [] n = Oezil -> oezil [] OTHER -> n
MCPyLower == [n \in Names |-> Lower(n)]
MCSqlLower == [n \in Names |-> IF n = Oezil THEN Oezil ELSE Lower(n)]
=============================================================================

---------------------------- MODULE MCSourceSync ----------------------------
(* Model values for SourceSync.                                               *)
EXTENDS SourceSync

CONSTANTS a, b

MCValues == {a, b}

\* Two versions of a sheet of two rows; the database may hold a mix of them.
MCSheets == {<<a, a>>, <<b, b>>}
=============================================================================

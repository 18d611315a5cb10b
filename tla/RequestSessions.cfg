CONSTANTS
    Requests = {r1, r2}
    Borrows = {r1, r2}
    Buttons = {b1}
    Jobs = {j1}
    Pool = {t1, t2}
    MaxBorrows = 1
    NoSession = NoSession
SYMMETRY Symmetry
SPECIFICATION Spec
INVARIANTS
    TypeOK
    AloneWhole
    WriterIsAlive
    OverrunBounded
CHECK_DEADLOCK FALSE

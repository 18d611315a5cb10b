CONSTANTS
    Requests = {r1, r2}
    Borrows = {r1, r2}
    Buttons = {}
    Jobs = {j1}
    Pool = {t1, t2}
    MaxBorrows = 2
    NoSession = NoSession
SYMMETRY Symmetry
SPECIFICATION Spec
INVARIANTS
    DoneIsCommitted
CHECK_DEADLOCK FALSE

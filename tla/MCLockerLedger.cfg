CONSTANTS
    admin = admin
    u1 = u1
    u2 = u2
    NoUser = NoUser
    Users <- MCUsers
    Admins <- MCAdmins
    Devices = {d1, d2, d3}
    MaxBorrows = 2
    MaxLog = 3
SPECIFICATION Spec
SYMMETRY Symmetry
INVARIANTS
    TypeOK
    LoanHistory
    WithinLimit
CHECK_DEADLOCK FALSE

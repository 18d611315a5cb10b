CONSTANTS
    loop = loop
    admin = admin
    u1 = u1
    u2 = u2
    NoPerson = NoPerson
    Threads = {loop, p1}
    Loop = loop
    People <- MorePeople
    FirstUsers <- MCFirstUsers
    PanelAdmin = admin
    Ops <- NoReading
    MaxSessions = 1
    MaxRegs = 2
    MaxTaps = 1
SPECIFICATION Spec
SYMMETRY Symmetry
INVARIANTS
    TypeOK
    RegistrationOnce
    CancelKeepsOut
PROPERTY
    ImplementsKiosk

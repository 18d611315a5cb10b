CONSTANTS
    loop = loop
    admin = admin
    u1 = u1
    u2 = u2
    NoPerson = NoPerson
    Threads = {loop, p1}
    Loop = loop
    People <- MCPeople
    FirstUsers <- MCFirstUsers
    PanelAdmin = admin
    Ops <- NoEnd
    MaxSessions = 2
    MaxRegs = 0
    MaxTaps = 1
SPECIFICATION FairSpec
INVARIANTS
    NoStaleResult
PROPERTIES
    ImplementsKiosk
    LogoutTold
    IdleSessionEnds

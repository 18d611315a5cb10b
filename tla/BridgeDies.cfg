CONSTANTS
    loop = loop
    admin = admin
    u1 = u1
    u2 = u2
    NoPerson = NoPerson
    Threads = {loop, p1}
    Loop = loop
    People <- MCPeople
    FirstUsers <- MCFirstUsers
    PanelAdmin = admin
    Ops <- Endpoints
    MaxSessions = 1
    MaxRegs = 1
    MaxTaps = 1
SPECIFICATION Spec
INVARIANT
    BridgeRuns

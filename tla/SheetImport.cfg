CONSTANTS
    p1 = p1
    p2 = p2
    s1 = s1
    s2 = s2
    anna = anna
    Anna = Anna
    oezil = oezil
    Oezil = Oezil
    u1 = u1
    u2 = u2
    PMs = {p1, p2}
    NoPM = NoPM
    Serials = {s1, s2}
    NoSerial = NoSerial
    Names = {anna, Anna, oezil, Oezil}
    Locker = Locker
    PyLower <- MCPyLower
    SqlLower <- MCSqlLower
    Users = {u1, u2}
    NoUser = NoUser
    NoName = NoName
    NoDevice = NoDevice
    Sheets <- MCSheets
    NoSheet = NoSheet
    MaxRows = 3
SPECIFICATION Spec
INVARIANTS
    TypeOK
PROPERTIES
    CountsTrue
    SheetApplied
    SecondImportUnchanged
    OneSpelling
    NamesComplete

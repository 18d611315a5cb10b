CONSTANTS
    a = a
    b = b
    NumRows = 2
    Values <- MCValues
    Sheets <- MCSheets
    Timers = {t1, t2}
    Startup = startup
    Daily = daily
    Callers = {daily, button}
    MaxCalls = 1
    NoTimer = NoTimer
    NoSheet = NoSheet
    Nobody = Nobody
SPECIFICATION FairSpec
INVARIANTS
    TypeOK
    OneTimerWaits
PROPERTIES
    StartsCurrent
    SavedIsRead
    Converges
    ImplementsCopies

CONSTANTS
    jpg = jpg
    png = png
    m = m
    other = other
    Photos = {jpg, png}
    Hidden = {png}
    Sorted <- MCSorted
    ModelOf <- MCModelOf
    Models = {m, other}
    Devices = {d1}
    NoDevice = NoDevice
    Versions = {1}
    NoPhoto = NoPhoto
    Torn = Torn
    Timers = {t1, t2}
    Scan = Scan
SPECIFICATION FairSpec
INVARIANTS
    TypeOK
    ShownIsServed
PROPERTIES
    ScanComplete
    SavedIsRead

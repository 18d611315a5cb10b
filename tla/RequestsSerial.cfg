CONSTANTS
    admin = admin
    u1 = u1
    d1 = d1
    d2 = d2
    NoUser = NoUser
    NoDevice = NoDevice
    NoRow = NoRow
    Nobody = Nobody
    Locker = Locker
    Stranger = Stranger
    Absent = Absent
    Users <- MCUsers
    Admins <- MCAdmins
    Devices = {d1, d2}
    Request = request
    Importers = {}
    MaxBorrows = 1
    MaxLog = 2
    Sheets = {}
SPECIFICATION Spec
PROPERTY
    ImplementsLedger

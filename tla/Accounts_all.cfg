SPECIFICATION Spec
CONSTANTS
    Sessions = {s1, s2}
    Rows <- MCRows
    Absent = Absent
    Unwritten = Unwritten
    Gone = Gone
    NoRow = NoRow
    NoMethod = NoMethod
    NoRequest = NoRequest
    a = a
    b = b
    p = p
    q = q
    Addresses = {a, b}
    Passwords = {p, q}
    Ids = {1, 2, 3}
    FirstTables <- MCFirstTables
    Menus <- MCMenus
    MaxRequests = 4
SYMMETRY Symmetry
CHECK_DEADLOCK FALSE
INVARIANTS TypeOK OneAccountPerAddress SpentOnce SessionsEndWithReset

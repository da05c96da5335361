SPECIFICATION Spec
CONSTANTS
    Sessions = {s1, s2}
    Rows <- MCRows
    Absent = Absent
    Unwritten = Unwritten
    f = f
    x = x
    v = v
    t1 = t1
    t2 = t2
    Facts = {f}
    Sections = {x}
    Cvs = {v}
    Texts = {t1, t2}
    NoText = NoText
    Pending = Pending
    Processing = Processing
    Parsed = Parsed
    Failed = Failed
    FirstTables <- MCFirstTables
    NoWork = NoWork
    NoAudit = NoAudit
    MaxRequests = 2
    MaxFaults = 2
CHECK_DEADLOCK FALSE
INVARIANTS TypeOK GroundedAtRest
PROPERTIES EveryUploadEnds

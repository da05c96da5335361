SPECIFICATION Spec
CONSTANTS
    Requests = {r1, r2, r3}
    NoRequest = NoRequest
    Missing = Missing
    NoWindow = NoWindow
    LastWindow = 0
    Faults = {}
    Limit = 2
    MaxUnits = 3
INVARIANTS NoOveruse GateCovers NoOvercharge
PROPERTY ImplementsLedger

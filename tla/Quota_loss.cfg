SPECIFICATION Spec
CONSTANTS
    Requests = {r1, r2}
    NoRequest = NoRequest
    Missing = Missing
    NoWindow = NoWindow
    LastWindow = 0
    Faults = {"loss"}
    Limit = 1
    MaxUnits = 2
SYMMETRY Symmetry
INVARIANT NoOveruse

SPECIFICATION FairSpec
CONSTANTS
    Requests = {r1, r2}
    NoRequest = NoRequest
    Missing = Missing
    NoWindow = NoWindow
    LastWindow = 1
    Faults = {"outage", "loss"}
    Limit = 1
    MaxUnits = 1
INVARIANTS TypeOK DurableExact
PROPERTY EveryRequestEnds

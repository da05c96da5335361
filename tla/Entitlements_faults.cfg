SPECIFICATION FairSpec
CONSTANTS
    Requests = {r1}
    Writers = {w1}
    Catalogs = {c1, c2}
    Values = {a}
    NoValue = NoValue
    Never = Never
    NoEntry = NoEntry
    Terms = {1}
    TTL = 2
    MaxAge = 1
    MaxEdits = 2
    Faults = {"redis", "crash", "evict"}
INVARIANT TypeOK
PROPERTIES ServesUnexpired StalenessEnds

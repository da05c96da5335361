SPECIFICATION Spec
CONSTANTS
    Sessions = {s1, s2}
    Rows <- MCRows
    Absent = Absent
    Unwritten = Unwritten
    u1 = u1
    u2 = u2
    a = a
    b = b
    c = c
    g1 = g1
    g2 = g2
    h1 = h1
    Users = {u1, u2}
    Slugs = {a, b, c, g1, g2}
    Generated = {g1, g2}
    Hosts = {h1, h2}
    LinkIds = {1, 2}
    DomainIds = {1, 2}
    Plans = {"free", "pro"}
    LinksMax <- MCLinksMax
    DomainsMax <- MCDomainsMax
    PublishLimit = 2
    FirstTables <- MCFirstTables
    NoSlug = NoSlug
    NoHost = NoHost
    Nobody = Nobody
    NoJob = NoJob
    NoRow = NoRow
    MaxRequests = 2
SYMMETRY Symmetry
CHECK_DEADLOCK FALSE
INVARIANTS TypeOK OwnSlugLeadsHome HonouredWithinPlan InPlanMeansItResolves StockWithinPlan ChangesArePaidFor
PROPERTIES WasteNeedsAStaleRead OldSlugStillLeadsHome

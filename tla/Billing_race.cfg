SPECIFICATION Spec
CONSTANTS
    Sessions = {s1, s2}
    Users = {u1, u2}
    Keys = {k1}
    Grants = {g1}
    Plans = {basic, lifetime}
    Sold = {basic}
    Lifetime = lifetime
    Term <- MCTerm
    TrialTerm <- MCTrialTerm
    Verified1 = u1
    Phone <- PhoneOfVerified1
    NoPhone = NoPhone
    GrantEnds = {2}
    Rows <- MCRows
    Absent = Absent
    Unwritten = Unwritten
    Never = Never
    NoOne = NoOne
    NoJob = NoJob
    NoRow = NoRow
SYMMETRY Symmetry
INVARIANTS TypeOK OneActive DeadlockTakesARevocation
PROPERTIES ImplementsHolding PlansEndForAReason RenewalsAddTheirTerm

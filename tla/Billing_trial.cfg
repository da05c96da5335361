SPECIFICATION Spec
CONSTANTS
    Sessions = {s1, s2}
    Users = {u1, u2}
    Keys = {}
    Grants = {}
    Plans = {basic}
    Sold = {}
    Lifetime = lifetime
    Term <- MCTerm
    TrialTerm <- MCTrialTerm
    Verified1 = u1
    Phone <- OnePhone
    NoPhone = NoPhone
    GrantEnds = {}
    Rows <- MCRows
    Absent = Absent
    Unwritten = Unwritten
    Never = Never
    NoOne = NoOne
    NoJob = NoJob
    NoRow = NoRow
SYMMETRY Symmetry
INVARIANT OneTrialPerPhone

SPECIFICATION Spec
CONSTANTS
    Ids = {i1, i2}
    Reqs = {c1, c2}
    Recs = {k1, k2, k3}
    NoId = NoId
    NoRec = NoRec
    Languages = {"fa", "known", "unknown"}
    MaxSessions = 1
    IdleLimit = 2
SYMMETRY Symmetry
INVARIANTS
    TypeOK
    SessionCap
    RightRecognizer
    ClosedForGood
    FinishedSession
PROPERTIES
    SessionsKept
    CapRefusalHonest
    KeepsLedger

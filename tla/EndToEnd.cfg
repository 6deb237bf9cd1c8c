SPECIFICATION EndSpec
CONSTANTS
    Ids = {i1, i2}
    Reqs = {c1, c2}
    Recs = {k1, k2, k3}
    NoId = NoId
    NoRec = NoRec
    Languages = {"known"}
    MaxSessions = 1
    IdleLimit = 2
    Mine = i1
    MaxChunks = 3
SYMMETRY Symmetry
INVARIANTS
    HeardInOrder
    HeardByOne

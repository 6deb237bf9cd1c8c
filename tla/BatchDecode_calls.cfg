SPECIFICATION FairSpec
CONSTANTS
    Calls = {c1, c2, c3, c4}
    NoCall = NoCall
INVARIANTS
    TypeOK
    PermitAccounting
PROPERTIES
    BusyIsHonest
    NotFailedByAnother
    AdmittedIsAnswered

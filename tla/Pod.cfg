SPECIFICATION FairSpec
CONSTANTS
    Tokens = {"t1", "t2"}
    Files = 3
    Calls = {c1, c2}
    MaxSet = 2
    Launches <- MCLaunches
INVARIANTS
    TypeOK
    NeverLoadsCut
    RepairedAtOnce
    OneTokenPerClient
    RevokingOneKeepsOthers
    GracefulStop
    SpansFlushed
PROPERTIES
    TermHonoured
CHECK_DEADLOCK FALSE

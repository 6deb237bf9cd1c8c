SPECIFICATION Spec
CONSTANTS
    Tokens = {"t1", "t2"}
    Files = 3
    Calls = {c1, c2}
    MaxSet = 2
    Launches <- MCLaunches
INVARIANTS
    NameSeparates
CHECK_DEADLOCK FALSE

SPECIFICATION Spec
CONSTANTS
    Callers = {warm, c1, c2}
    Cancellers = {c1, c2}
    NoCaller = NoCaller
    Capacity = 8
    BatchSize = 3
    StreamSize = 3
    ArenaPeak = 0
INVARIANTS
    NeverOnCpu

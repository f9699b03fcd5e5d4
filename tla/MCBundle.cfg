CONSTANTS
    KeyNames = {"k1", "k2", "k3", "k4"}
    Lines <- MCLines
    Binary <- MCBinary
    Plans <- MCPlans
    LongKeys = {"k4"}
    PipeCap = 3
    BigChunks = 4
SPECIFICATION Spec
INVARIANTS TypeOK NothingStranded ReadyIsComplete RefusedIsNeverRecorded
CHECK_DEADLOCK FALSE

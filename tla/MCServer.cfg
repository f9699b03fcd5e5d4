CONSTANTS
    Conn = {c1, c2}
    NoConn = NoConn
    Task = {loop}
SPECIFICATION FairSpec
INVARIANTS TypeOK OpenIsTracked ExitLeavesNothing RecordedWasWritten
PROPERTIES ServedIsRecorded ShutdownCompletes
CHECK_DEADLOCK FALSE

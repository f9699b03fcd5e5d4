CONSTANTS
    Container = {c1}
    Timeout = 1
    MaxRuns = 3
    MaxDrops = 1
SPECIFICATION FairSpec
INVARIANTS TypeOK PendingHasTimer OneAlertPerExpectation
PROPERTIES StopIsFinal ForgottenWrapperSurfaces
CHECK_DEADLOCK FALSE

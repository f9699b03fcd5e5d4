CONSTANTS
    Container = {c1}
    Timeout = 1
    MaxRuns = 2
    MaxDrops = 0
SPECIFICATION Spec
INVARIANT NoAlertForServedRun
CHECK_DEADLOCK FALSE

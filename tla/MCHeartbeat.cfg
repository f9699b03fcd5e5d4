CONSTANTS
    Interval = 2
    PassMax = 2
    WriteMax = 1
    Steps <- MCSteps
    MaxFaults = 3
SPECIFICATION FairSpec
INVARIANTS TypeOK ProgressingIsHealthy
PROPERTIES VerdictSettles
CHECK_DEADLOCK FALSE

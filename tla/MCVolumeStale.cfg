CONSTANTS
    v1 = v1
    s1 = s1
    s2 = s2
    Container = {c1}
    Volume = {v1}
    VolumeOf <- OneVolume
    Source = {s1}
    SourceOf <- SameSource
    NFiles = 2
    NoManifest = NoManifest
    NoRecord = NoRecord
    MaxVersion = 2
    MaxStarts = 3
    MaxFailures = 0
    MaxCrashes = 0
SPECIFICATION Spec
INVARIANT StaleIsReported
CHECK_DEADLOCK FALSE

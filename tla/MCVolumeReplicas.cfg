CONSTANTS
    v1 = v1
    s1 = s1
    s2 = s2
    Container = {c1, c2}
    Volume = {v1}
    VolumeOf <- OneVolume
    Source = {s1}
    SourceOf <- SameSource
    NFiles = 2
    NoManifest = NoManifest
    NoRecord = NoRecord
    MaxVersion = 2
    MaxStarts = 1
    MaxFailures = 1
    MaxCrashes = 1
SPECIFICATION FairSpec
INVARIANT ReadySignalSound
PROPERTY GatedAppStarts
CHECK_DEADLOCK FALSE

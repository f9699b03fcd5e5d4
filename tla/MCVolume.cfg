CONSTANTS
    v1 = v1
    s1 = s1
    s2 = s2
    Container = {c1}
    Volume = {v1}
    VolumeOf <- OneVolume
    Source = {s1, s2}
    SourceOf <- TwoSources
    NFiles = 2
    NoManifest = NoManifest
    NoRecord = NoRecord
    MaxVersion = 2
    MaxStarts = 2
    MaxFailures = 1
    MaxCrashes = 1
SPECIFICATION FairSpec
INVARIANTS TypeOK ReadySignalSound PushDeliversFresh RecordBoundsContent
PROPERTY GatedAppStarts
CHECK_DEADLOCK FALSE

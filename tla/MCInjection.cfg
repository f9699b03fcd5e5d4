CONSTANTS
    Container = {c1}
    Shapes <- MCShapes
    NoRecord = NoRecord
    MaxVersion = 2
    MaxStarts = 1
    MaxFaults = 1
SPECIFICATION FairSpec
INVARIANTS TypeOK NothingOfTheDestroyed
PROPERTIES DestroyedStaysQuiet RotationSurfaces BrokenSurfaces
CHECK_DEADLOCK FALSE

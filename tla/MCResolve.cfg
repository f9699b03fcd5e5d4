CONSTANTS
    Unset = Unset
    SuffixOrder <- MCSuffixOrder
    FileOrder <- MCFileOrder
    Shape <- MCShape
    LabelMaps <- MCLabelMaps
    Contexts <- MCContexts
SPECIFICATION Spec
INVARIANTS TypeOK PlanWithinScope EnvIsDoubleGated NoSilentlyAbsentSecret ConflictAlwaysCaught
CHECK_DEADLOCK FALSE

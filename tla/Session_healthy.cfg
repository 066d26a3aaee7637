\* Two partitions that come and go; a second recheck only after the first.
SPECIFICATION Spec
CONSTANTS
    p1 = p1
    p2 = p2
    Partitions = {p1, p2}
    Rooms <- MCRooms
    Passes = {t1, t2}
    NoPass = NoPass
    AutoRefresh = TRUE
    SavesLand = TRUE
    MaxTurns = 1
    MaxSilences = 1
INVARIANTS
    OneRecheck
PROPERTIES
    FrameNeverRegresses
    CorrectionReachesScreen
    ScreenCatchesUp

\* All six backends; the cluster changes once while it is read.
SPECIFICATION Spec
CONSTANTS
    Tables <- MCTables
    Everyone <- MCEveryone
    MaxVersion = 2
    Flags <- MCFlags
    Truth <- MCTruth
    NameOrder <- MCNameOrder
    Spelling <- MCSpelling
    MaxExpansion = 12
INVARIANTS
    AskedOnce
    ReplayReproduces
    OneInstant
    RoomIsReal
    OutOfServiceIsExcluded
    MissingIsSaid
PROPERTIES
    LoadEnds

\* A directory that is shared, and one that overflows.
SPECIFICATION Spec
CONSTANTS
    Partitions = {p1, p2}
    Questions = {k1, k2, k3}
    Everyone = {r1, r2}
    Sites <- MCSites
    TTL = 1
SYMMETRY Alike
CHECK_DEADLOCK FALSE
INVARIANTS
    NothingStaleServed
    DirectoryBounded
PROPERTIES
    FreshIsKept
    OwnAnswerLands
    NewestSurvives

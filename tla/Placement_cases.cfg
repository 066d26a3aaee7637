SPECIFICATION Spec
CONSTANTS
    n1 = n1
    n2 = n2
    a1 = a1
    a2 = a2
    clay = clay
    gold = gold
    NoName = NoName
    Here = Here
    Elsewhere = Elsewhere
    Me = Me
    Generic = Generic
    Unread = Unread
    Unnamed = NoName
    Nodes = {n1, n2}
    Cases <- MCCases
    Work <- MCWork
    Spelling <- MCSpelling
    MaxExpansion = 9
    Variants <- MCVariants
    Uncertain = {"A100", "H100", "GB10"}
    Features <- MCFeatures
    AliasOrder <- MCAliases
    GluedKnown = {"A100"}
    MaxClock = 2
    MaxJobs = 2
INVARIANTS
    FitsNowIsAFact
    WrongHardwareIsForever
    EarliestIsReached
    WithheldOnlyWhereHopeless
    TakersAreReachable

\* A budget too small for the queues: walks are cut short by the ceiling and by each other.
SPECIFICATION Spec
CONSTANTS
    narrow = narrow
    wide = wide
    wider = wider
    shut = shut
    a1 = a1
    a2 = a2
    a3 = a3
    NoAccount = NoAccount
    Queues = {narrow, wide, wider, shut}
    NamesAsked = 4
    NameOrder <- MCNameOrder
    Accounts = {a1, a2, a3}
    Position <- MCPosition
    AllowAccounts <- MCAllowAccounts
    Hopeless = {shut}
    IdentityFailed = FALSE
    Total = 4
    Floor = 2
    PoolSize = 2
INVARIANTS
    HonestRefusal
    LearnedTriedFirst
PROPERTIES
    KeepsPromise
    SweepEnds

\* The backends that keep answers without a lock.
SPECIFICATION Spec
CONSTANTS
    Tables <- MCUnlocked
    Everyone <- MCEveryone
    MaxVersion = 2
    Flags <- MCFlags
    Truth <- MCTruth
    NameOrder <- MCNameOrder
    Spelling <- MCSpelling
    MaxExpansion = 12
INVARIANTS
    OneReading

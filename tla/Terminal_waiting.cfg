\* Signals while a key is awaited or the process is stopped.
SPECIFICATION Spec
CONSTANTS
    Fatal = {"SIGTERM", "SIGHUP"}
    Stop = "SIGTSTP"
    Originals <- MCShells
    AnyTime = FALSE
    MaxSignals = 4
INVARIANTS
    HandedBack
    ArmedWhileBrowsing
    TruthHandedBack
PROPERTIES
    FatalEnds

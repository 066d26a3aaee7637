\* In and out of the node listings of two snapshots, two daemon threads, while
\* the jobs change once.
SPECIFICATION Spec
CONSTANTS
    w1 = w1 w2 = w2 reader = reader
    Warmers <- MCTwo
    Reader = reader
    MaxSnapshots = 2
    MaxExpansion = 8
    History <- MCHistory
    Nodes <- MCNodes
INVARIANTS
    OneInFlightEach
    SharesAreTrue
PROPERTIES
    FrameComes

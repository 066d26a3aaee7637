\* A queue and a node go and come back between readings.
SPECIFICATION Spec
CONSTANTS
    Snapshots <- MCReadings
    MaxKeys = 10
INVARIANTS
    OneBlock
    NothingVanished
PROPERTIES
    StepsOutToItsRow

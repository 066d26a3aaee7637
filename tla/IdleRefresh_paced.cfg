\* Reads of varying price, a reader who presses two keys, up to four refreshes alone.
SPECIFICATION Spec
CONSTANTS
    NoIdle = NoIdle
    Idles = {2, 3, NoIdle}
    Cap = 7
    Exponent = 1024
    MaxKeys = 2
    MaxAlone = 4
PROPERTIES
    PacedByNobody

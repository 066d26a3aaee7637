\* Floats whose exponents end early: a terminal left alone until the doubling leaves their range.
SPECIFICATION Spec
CONSTANTS
    NoIdle = NoIdle
    Idles = {2}
    Cap = 7
    Exponent = 5
    MaxKeys = 0
    MaxAlone = 6
PROPERTIES
    SettlesAtCap

\* Messages of every kind, sent faster than they are answered.
SPECIFICATION Spec
CONSTANTS
    Lines <- MCLines
    Interval = 2
    MaxSpan = 3
    MaxLines = 3
    MaxTime = 4
INVARIANTS
    AnsweredOnce
PROPERTIES
    BurstsApart
    DowngradeSaid
    AllAnswered

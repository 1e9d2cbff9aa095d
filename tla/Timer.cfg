\* The counter wraps after the fourth tick; a match is served up to more than
\* two periods late.
SPECIFICATION Spec
CONSTANTS
    ClockSize = 42
    Start = 22
    Period = 4
    HZ = 2
    Seconds = 2
    Delays = {1, 3}
    MaxLatency = 9
    MaxGap = 3
INVARIANTS NextMatchIsAhead TimeStampIsConsistent DelayIsLongEnough

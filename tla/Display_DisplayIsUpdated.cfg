\* One refused byte is enough.
SPECIFICATION DisplayFairSpec
CONSTANTS
    States = {s0, s1}
    NoButton = s0
    NParts = 2
    MaxRefusals = 1
PROPERTY DisplayIsUpdated

\* Two refusals can meet in two different frames or in a row.
SPECIFICATION DisplayFairSpec
CONSTANTS
    States = {s0, s1, s2}
    NoButton = s0
    NParts = 3
    MaxRefusals = 2
INVARIANTS AcceptedFrameIsOneDrawing
PROPERTIES DisplayFollowsButtons

\* The display and the nHalf of oled.cpp.
SPECIFICATION Spec
CONSTANTS
    DisplayWidth = 128
    DisplayHeight = 64
    WordSize = 256
    NButtons = 8
    s_ButtonPos <- s_ButtonPosMC
    ButtonStates <- ButtonStatesMC
    PressedHalf = 5
    ReleasedHalf = 2
INVARIANTS PictureShowsButtons PixelsAreNearest
PROPERTIES DrawingEnds

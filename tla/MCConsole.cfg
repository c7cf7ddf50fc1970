SPECIFICATION Spec
CONSTANTS
    hpixels = 5
    vlines = 5
    HVisible = 2
    VVisible = 2
    HSyncStart = 3
    HSyncEnd = 5
    VSyncFirst = 3
    VSyncSecond = 4
    FlickerOn1 = 64
    FlickerOff1 = 128
    FlickerOn2 = 201
    FlickerOff2 = 255
    WinEnd = 255
    CountMax = 255
    Space = 44
    Esc = 41
    Restart = 122
    OtherKeys <- MCOtherKeys
INVARIANTS
    BlinkInStep
PROPERTIES
    SteadyUnderBeam
    FramesAndScansAlternate
    HeldRestartWorks
    CoinsNeverTurn

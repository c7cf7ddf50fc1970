SPECIFICATION Spec
CONSTANTS
    XMin = 32
    XMax = 95
    YMin = 32
    YMax = 64
    Board <- NextDoor
    FuseEnd = 3
    Blast1End = 2
    Blast2End = 4
    Blast3End = 6
    FlickerOn1 = 1
    FlickerOff1 = 2
    FlickerOn2 = 3
    FlickerOff2 = 4
    WinEnd = 5
    CountMax = 5
    Space = 44
    Esc = 41
    Restart = 122
    Keycodes <- SoloKeys
    Coins = {TRUE}
PROPERTIES
    LostGameEnds

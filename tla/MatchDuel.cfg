SPECIFICATION Safety
CONSTANTS
    XMin = 32
    XMax = 95
    YMin = 32
    YMax = 64
    Board <- Furnished
    FuseEnd = 2
    Blast1End = 1
    Blast2End = 2
    Blast3End = 4
    FlickerOn1 = 1
    FlickerOff1 = 2
    FlickerOn2 = 3
    FlickerOff2 = 4
    WinEnd = 5
    CountMax = 5
    Space = 44
    Esc = 41
    Restart = 122
    Keycodes <- DuelKeys
    Coins = {TRUE}
INVARIANTS
    QuietWin
    OwnColours
PROPERTIES
    HitInBlast
    NoStaleBlast
    HitsHaveCause

SPECIFICATION Spec
CONSTANTS
    XMin = 32
    XMax = 127
    YMin = 32
    YMax = 127
    Me = "user1"
    Board <- PadBoard
    Keys <- OneAxisKeys
    Blasts <- HomeBlasts
    Bricks <- TheBrick
    Others <- OtherSpots
    Allows = {"Continue"}
INVARIANTS
    StaysInBounds
    DieFlagHonest
PROPERTIES
    BumpsEnd
    HazardKills
    TeleportEnds

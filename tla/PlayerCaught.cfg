SPECIFICATION Spec
CONSTANTS
    XMin = 32
    XMax = 127
    YMin = 32
    YMax = 127
    Me = "user1"
    Board <- BrickBoard
    Keys <- OneAxisKeys
    Blasts <- NoBlasts
    Bricks = {}
    Others <- OtherSpots
    Allows = {"Continue", "Pause"}
PROPERTIES
    CanBeMovedAgain

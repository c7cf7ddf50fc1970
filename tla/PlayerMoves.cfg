SPECIFICATION Safety
CONSTRAINT Followed
CONSTANTS
    XMin = 32
    XMax = 127
    YMin = 32
    YMax = 127
    Me = "user1"
    Board <- MazeBoard
    Keys <- ThreeWays
    Blasts <- FarBlasts
    Bricks <- CornerBrick
    Others <- BumpSpot
    Allows = {"Continue", "Pause"}
INVARIANTS
    WalksInTheOpen
PROPERTIES
    LeavesOnlyTorn

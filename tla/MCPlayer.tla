------------------------------ MODULE MCPlayer -------------------------------
(* Player on fields of 3 x 3 tiles, in the same 32-pixel grid and with the     *)
(* same margins as the real one: a lane of tiles around one pillar, outside    *)
(* of it only walls.                                                           *)
EXTENDS Player

Lane == ((1 .. 3) \X (1 .. 3)) \ {<<2, 2>>}

\* A brick blocks the lane at its first corner.
BrickBoard == [t \in Tiles |-> IF t = <<3, 1>> THEN Brick
                               ELSE IF t \in Lane THEN Path ELSE Wall]

\* The same, with a safeport in the second corner and the last one walled up.
MazeBoard == [t \in Tiles |-> IF t = <<3, 1>> THEN Brick ELSE IF t = <<1, 3>> THEN Safeport
                              ELSE IF t \in Lane \ {<<2, 3>>, <<3, 3>>} THEN Path ELSE Wall]

\* The keys left and right lead to a safeport, which may lead to the bottom row,
\* between a brick and a hazard.
PadBoard == [t \in Tiles |-> IF t = <<2, 1>> THEN Safeport ELSE IF t = <<1, 3>> THEN Brick
                             ELSE IF t = <<3, 3>> THEN Hazard
                             ELSE IF t \in Lane THEN Path ELSE Wall]

\* A frame without a key is like one in which the last key is held.
ThreeWays == {4, 7, 22}
OneAxisKeys == {0, 4, 7}

NoBlasts == {{}}
HomeBlasts == {{}, {<<1, 1>>}}
FarBlasts == {{}, {<<3, 2>>}}
TheBrick == {<<1, 3>>}
CornerBrick == {<<3, 1>>}

\* In the open; and two pixels inside the pillar, which is as deep as the other
\* player sinks in while it bumps.
OtherSpots == {<<70, 97>>}
BumpSpot == {<<94, 66>>}

\* How far a player is followed: eight pixels beyond the edge of the field (one that
\* slides along an edge goes round in its 10-bit registers), and up to its second hit
\* (the first is counted twice; a player walks the same whatever it has left).
Margin == 8
MaxDeaths == 2
Followed == /\ user.x \in XMin - Margin .. XMax - XSize + Margin
            /\ user.y \in YMin - Margin .. YMax - YSize + Margin
            /\ user.death_count <= MaxDeaths
==============================================================================

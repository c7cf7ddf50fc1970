------------------------------- MODULE MCMatch -------------------------------
(* Match on boards of a few tiles, on which the players' homes are in each     *)
(* other's blast, with short fuses.                                            *)
EXTENDS Picture

NextDoor == [t \in Tiles |-> IF t \in {<<1, 1>>, <<2, 1>>} THEN Path ELSE Wall]

\* Bricks below the first player's home and right of the second one's, a safeport
\* and a hazard above them.
Furnished == [NextDoor EXCEPT ![<<1, 2>>] = Brick, ![<<3, 1>>] = Brick,
                              ![<<2, 0>>] = Safeport, ![<<1, 0>>] = Hazard]

SoloKeys == {0, 44, 25, 122}
PauseKeys == {0, 44, 41, 25}
DuelKeys == {0, 44, 25, 19}
==============================================================================

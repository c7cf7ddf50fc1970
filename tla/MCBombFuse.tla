----------------------------- MODULE MCBombFuse -----------------------------
(* BombFuse with the thresholds of the source and three places for the       *)
(* player: the two spawn points and one tile between them.                   *)
EXTENDS BombFuse

MCUserSpots == {<<39, 35>>, <<547, 419>>, <<320, 228>>}
=============================================================================

------------------------------- MODULE Player --------------------------------
(***************************************************************************)
(* One player (src/user1.sv or src/user2.sv) on its board, clocked by      *)
(* VGA_VS.  What it reads is chosen anew in every frame: the game state,   *)
(* the keycode, the lethal tiles, the other player's position and          *)
(* port_count[0].  Match puts the parts that drive these inputs around it. *)
(***************************************************************************)
EXTENDS PlayerRules

CONSTANTS Me,        \* "user1" or "user2"
          Allows,    \* the game states that occur
          Keys,      \* the keycodes that occur
          Blasts,    \* the sets of lethal tiles that occur
          Others,    \* where the other player can be
          Bricks     \* the tiles that bombs can break

ASSUME MeAssumption == Me \in Users

\* A teleport to the other player meets it in the field or on its rim, where the
\* bounces keep it; one that meets it where it has left the field goes there too,
\* and is not looked at here.
ASSUME PlaceAssumption ==
    /\ Others \subseteq (XMin - 1 .. XMax - XSize + 1) \X (YMin - 1 .. YMax - YSize + 1)
    /\ Bricks \subseteq Tiles

VARIABLES user, broken

vars == <<user, broken>>

Init == user = Fresh(Me, FALSE) /\ broken = {}

Play == /\ Allows \ {"Start1", "Start2", "Pause"} # {}
        /\ \E key \in Keys, lethal \in Blasts, other \in Others, coin \in BOOLEAN :
              user' = Played(Me, user, broken, lethal, key, other, coin)
        /\ UNCHANGED broken

Freeze == /\ Allows \intersect {"Start1", "Start2", "Pause"} # {}
          /\ user' = Frozen(user)
          /\ UNCHANGED broken

\* Between two frames color_mapper breaks a brick (it does not ask whether the
\* game is paused).
Break == \E t \in Bricks \ broken :
            broken' = broken \union {t} /\ user' = Overwritten(user)

\* KEY[0], held for at least one scan of the board.
Reset == user' = Fresh(Me, user.port_flag) /\ broken' = {}

Next == Play \/ Freeze \/ Break \/ Reset

Safety == Init /\ [][Next]_vars

Spec == Safety /\ WF_vars(Play)

-----------------------------------------------------------------------------
(* Properties *)

\* Registers keep values of their widths; motion is -1, 0 or 1.
TypeOK == user \in PlayerType /\ broken \subseteq Tiles

InBounds == /\ user.x \in XMin - 1 .. XMax - XSize + 1
            /\ user.y \in YMin - 1 .. YMax - YSize + 1

\* Two wall flags at once, which the second chain resolves by priority and not
\* by where the walls are.
Torn == \E a, b \in user.walls : a # b

\* No key makes a player move along both axes: a corner cannot be cut, and each
\* bump test sees the one axis it was written for.
OneAxis == user.mx = 0 \/ user.my = 0

\* The bounces hold: the sprite leaves the field (by more than the pixel a
\* bounce takes) only if two wall flags are up in the frame it does so.
LeavesOnlyTorn == [][InBounds /\ ~InBounds' => Torn]_vars

\* A player that walks by itself is at most one pixel, along one axis, from a place
\* in the open, however keys, bumps, pauses, hits, teleports and breaking bricks have
\* interleaved, wherever a teleport or earlier pushes have left it, and whatever its
\* top-left copy of the map has lost.  (One that a teleport has put into a wall, onto
\* a player that bumps there, stands still: it is the walking that is safe.)
WalksInTheOpen == Walking(user) => NearOpen(user, broken)

\* die_flag, on which the game ends, is never left over from a life that came
\* back: it means that all lives are gone, or that a hazard tile is just now
\* adding to max_lives, or that a teleport, which comes first, is still to end.
DieFlagHonest == user.die_flag => \/ user.death_count >= user.max_lives
                                  \/ OnHazardTiles(user)
                                  \/ user.port_flag

\* With the keys of one axis only, the sprite stays inside the field.
StaysInBounds == InBounds

\* With the keys of one axis only, and no pause, a bump ends, unless a hit or the
\* end of the game comes first: the flags are cleared and the keys heard again.
BumpsEnd == user.walls # {} ~> (user.walls = {} \/ user.bomb_flag \/ user.die_flag)

OnHazard(u) == Sense(u, Seen(u, broken), {}) = "hazard"

\* Walking along a hazard tile with eight more pixels of it ahead.
HazardAhead == /\ user.mx # 0
               /\ \A d \in 0 .. 8 : OnHazard([user EXCEPT !.x = @ + d * user.mx])

\* A hazard tile is written to give two lives a frame, and kills: no key is heard
\* on the tile, and max_lives is 4 bits wide and wraps to 0 before the sprite can
\* be off it.  Only a blast or KEY[0] comes before.
HazardKills ==
    HazardAhead ~> (user.die_flag \/ user.bomb_flag \/ user = Fresh(Me, user.port_flag))

\* A teleport takes effect and is over, and the player is out of the pad and can
\* walk again; only a hit, which comes first, puts it off.
TeleportEnds == user.port_flag ~> (~user.port_flag \/ user.bomb_flag)

\* Comment at src/user1.sv:45: "Rightmost point on the X axis", and so for the
\* three other bounds.
NeverOutOfBounds == InBounds

\* Lab report, User Movement (p. 5): "our users would collide with the wall and
\* stay in the same position with X and Y motion of 0. The user can be moved
\* again when another keycode is pressed."
CanBeMovedAgain == []<>(Sense(user, Seen(user, broken), {}) = "free")
=============================================================================

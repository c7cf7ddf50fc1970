----------------------------- MODULE PlayerRules -----------------------------
(***************************************************************************)
(* What one video frame does to a player: the always_ff block that         *)
(* src/user1.sv and src/user2.sv share, up to key codes and start          *)
(* positions.  Two priority chains run in every frame: the first sets or   *)
(* clears flags from where the sprite stands, the second moves the player  *)
(* by the flags as they were before the frame.  A tile number is shown as  *)
(* the pair <<column, row>>; a player is a record of its registers, with   *)
(* the four wall_ flags as the set walls.                                  *)
(***************************************************************************)
EXTENDS Integers

CONSTANTS XMin, XMax, YMin, YMax,   \* User_X_Min ..: 32, 575, 32, 447
          Board                     \* the tile types the map RAMs start with

Path == 0
Wall == 1
Brick == 2
Safeport == 3
Hazard == 4

\* What a 10-bit tile number row * 20 + column can name; the screen has 15 rows.
Tiles == (0 .. 19) \X (0 .. 51)

ASSUME BoundsAssumption ==
    /\ XMin \in 32 .. 900 /\ XMax \in 32 .. 900 /\ XMin + 40 < XMax
    /\ YMin \in 32 .. 900 /\ YMax \in 32 .. 900 /\ YMin + 30 < YMax

ASSUME BoardAssumption == Board \in [Tiles -> Path .. Hazard]

XSize == 20
YSize == 27

Walls == {"T", "L", "R", "B"}

Users == {"user1", "user2"}

\* The keys of a player, by what they do, and its two starting places: after a
\* reset and after a hit.
Keymap == [user1 |-> [left |-> 4,  right |-> 7,  down |-> 22, up |-> 26, bomb |-> 25],
           user2 |-> [left |-> 80, right |-> 79, down |-> 81, up |-> 82, bomb |-> 19]]

Start == [user1 |-> <<XMin + 7, YMin + 3>>, user2 |-> <<XMax - 25, YMax - 25>>]
Home == [user1 |-> <<XMin + 7, YMin + 3>>, user2 |-> <<XMax - 28, YMax - 28>>]

-----------------------------------------------------------------------------
(* Where a sprite stands, and what is there. *)

\* Coordinates are 10-bit registers; a tile is 32 x 32 pixels.  Right of the
\* screen the number is that of a tile in the next row.
TileNumber(p) == ((p[2] % 1024) \div 32) * 20 + (p[1] % 1024) \div 32
Tile(n) == <<(n % 1024) % 20, (n % 1024) \div 20>>
TileAt(p) == Tile(TileNumber(p))

Corners == {"tl", "tr", "bl", "br"}

Corner(u) == [tl |-> <<u.x, u.y>>,         tr |-> <<u.x + XSize, u.y>>,
              bl |-> <<u.x, u.y + YSize>>, br |-> <<u.x + XSize, u.y + YSize>>]

Standing(u) == {TileAt(Corner(u)[c]) : c \in Corners}

\* The map RAMs: broken is the set of tiles written 0 in all of them, u.erased
\* of those written 0 in the player's top-left copy alone.
TypeOf(t, broken) == IF t \in broken THEN Path ELSE Board[t]

\* Mutant: all four copies take the write that the top-left one takes.
Seen_AllCopies(u, broken) ==
    [c \in Corners |-> TypeOf(TileAt(Corner(u)[c]), broken \union u.erased)]

Seen(u, broken) ==
    [c \in Corners |-> TypeOf(TileAt(Corner(u)[c]),
                              broken \union (IF c = "tl" THEN u.erased ELSE {}))]

\* The two corners ahead of a player that is to be pushed back towards the top,
\* the left, ...
Lead == [T |-> {"bl", "br"}, L |-> {"tr", "br"}, R |-> {"tl", "bl"}, B |-> {"tl", "tr"}]

-----------------------------------------------------------------------------
(* The first chain: the first test that holds. *)

\* Mutant: the top edge is not tested.
AtEdge_OpenTop(u) ==
    IF (u.y + YSize) % 1024 >= YMax THEN "T"
    ELSE IF (u.x + XSize) % 1024 >= XMax THEN "L" ELSE IF u.x <= XMin THEN "R" ELSE "none"

\* Mutant: the left edge is not tested.
AtEdge_OpenLeft(u) ==
    IF (u.y + YSize) % 1024 >= YMax THEN "T" ELSE IF u.y <= YMin THEN "B"
    ELSE IF (u.x + XSize) % 1024 >= XMax THEN "L" ELSE "none"

AtEdge(u) ==
    IF (u.y + YSize) % 1024 >= YMax THEN "T" ELSE IF u.y <= YMin THEN "B"
    ELSE IF (u.x + XSize) % 1024 >= XMax THEN "L" ELSE IF u.x <= XMin THEN "R" ELSE "none"

\* Pillars, by arithmetic: every other tile of every other row.
InPillar(p) == (p[1] - 32) % 64 > 32 /\ (p[2] - 32) % 64 > 32

AtPillar(u) ==
    LET sunk == {c \in Corners : InPillar(Corner(u)[c])}
        bumps(side) == sunk # {} /\ sunk \subseteq Lead[side]
    IN  IF u.mx # 0 /\ bumps("L") THEN "L" ELSE IF u.my # 0 /\ bumps("B") THEN "B"
        ELSE IF u.my # 0 /\ bumps("T") THEN "T" ELSE IF u.mx # 0 /\ bumps("R") THEN "R"
        ELSE "none"

\* Walls and bricks, by the map, corner by corner: bl, tl, br, tr.  A player
\* without motion is not pushed, and no later test is made.
AtBrick(u, seen) ==
    LET blocked == {c \in Corners : seen[c] \in {Wall, Brick}}
    IN  IF blocked = {} THEN "none"
        ELSE IF u.mx # 0 THEN (IF blocked \intersect {"bl", "tl"} # {} THEN "R" ELSE "L")
        ELSE IF u.my = 0 THEN "caught"
        ELSE IF "bl" \in blocked THEN "T" ELSE IF "tl" \in blocked THEN "B"
        ELSE IF "br" \in blocked THEN "T" ELSE "B"

\* Two neighbouring corners on such a tile.
OnBoth(seen, type) == \E side \in Walls : \A c \in Lead[side] : seen[c] = type

\* lethal is the set of tiles that the registers die_addr hold.
Sense(u, seen, lethal) ==
    IF AtEdge(u) # "none" THEN AtEdge(u)
    ELSE IF Standing(u) \intersect lethal # {} THEN "hit"
    ELSE IF AtPillar(u) # "none" THEN AtPillar(u)
    ELSE IF AtBrick(u, seen) # "none" THEN AtBrick(u, seen)
    ELSE IF OnBoth(seen, Safeport) THEN "port"
    ELSE IF OnBoth(seen, Hazard) THEN "hazard" ELSE "free"

\* The motion a key gives; every other key leaves it as it is.
Steer(who, u, key) ==
    CASE key = Keymap[who].left  -> <<-1, 0>>
      [] key = Keymap[who].right -> <<1, 0>>
      [] key = Keymap[who].down  -> <<0, 1>>
      [] key = Keymap[who].up    -> <<0, -1>>
      [] OTHER -> <<u.mx, u.my>>

\* What the first chain does, by what was sensed.  Flags are cleared, and keys
\* are looked at, only where nothing was.
\* Mutants: wall flags or the teleport are not cleared; max_lives saturates.
Flagged_KeepsPort(who, u, key) ==
    [sensed \in Walls \union {"hit", "port", "hazard", "caught", "free"} |->
        CASE sensed \in Walls  -> [u EXCEPT !.walls = @ \union {sensed}]
          [] sensed = "hit"    -> [u EXCEPT !.bomb_flag = TRUE]
          [] sensed = "port"   -> [u EXCEPT !.port_flag = TRUE]
          [] sensed = "hazard" -> [u EXCEPT !.max_lives = (@ + 2) % 16]
          [] sensed = "caught" -> u
          [] sensed = "free"   ->
                [u EXCEPT !.walls = {}, !.bomb_flag = FALSE,
                          !.die_flag = FALSE, !.bomb_drop = (key = Keymap[who].bomb),
                          !.mx = Steer(who, u, key)[1], !.my = Steer(who, u, key)[2]]]

Flagged_KeepsWalls(who, u, key) ==
    [sensed \in Walls \union {"hit", "port", "hazard", "caught", "free"} |->
        CASE sensed \in Walls  -> [u EXCEPT !.walls = @ \union {sensed}]
          [] sensed = "hit"    -> [u EXCEPT !.bomb_flag = TRUE]
          [] sensed = "port"   -> [u EXCEPT !.port_flag = TRUE]
          [] sensed = "hazard" -> [u EXCEPT !.max_lives = (@ + 2) % 16]
          [] sensed = "caught" -> u
          [] sensed = "free"   ->
                [u EXCEPT !.bomb_flag = FALSE, !.port_flag = FALSE,
                          !.die_flag = FALSE, !.bomb_drop = (key = Keymap[who].bomb),
                          !.mx = Steer(who, u, key)[1], !.my = Steer(who, u, key)[2]]]

Flagged_Saturates(who, u, key) ==
    [sensed \in Walls \union {"hit", "port", "hazard", "caught", "free"} |->
        CASE sensed \in Walls  -> [u EXCEPT !.walls = @ \union {sensed}]
          [] sensed = "hit"    -> [u EXCEPT !.bomb_flag = TRUE]
          [] sensed = "port"   -> [u EXCEPT !.port_flag = TRUE]
          [] sensed = "hazard" -> [u EXCEPT !.max_lives = IF @ > 13 THEN @ ELSE @ + 2]
          [] sensed = "caught" -> u
          [] sensed = "free"   ->
                [u EXCEPT !.walls = {}, !.bomb_flag = FALSE, !.port_flag = FALSE,
                          !.die_flag = FALSE, !.bomb_drop = (key = Keymap[who].bomb),
                          !.mx = Steer(who, u, key)[1], !.my = Steer(who, u, key)[2]]]

Flagged(who, u, key) ==
    [sensed \in Walls \union {"hit", "port", "hazard", "caught", "free"} |->
        CASE sensed \in Walls  -> [u EXCEPT !.walls = @ \union {sensed}]
          [] sensed = "hit"    -> [u EXCEPT !.bomb_flag = TRUE]
          [] sensed = "port"   -> [u EXCEPT !.port_flag = TRUE]
          [] sensed = "hazard" -> [u EXCEPT !.max_lives = (@ + 2) % 16]
          [] sensed = "caught" -> u
          [] sensed = "free"   ->
                [u EXCEPT !.walls = {}, !.bomb_flag = FALSE, !.port_flag = FALSE,
                          !.die_flag = FALSE, !.bomb_drop = (key = Keymap[who].bomb),
                          !.mx = Steer(who, u, key)[1], !.my = Steer(who, u, key)[2]]]

-----------------------------------------------------------------------------
(* The second chain, on the flags of u, the player before the frame; what it *)
(* assigns overrides the first chain's v.                                    *)

At(v, pos) == [v EXCEPT !.x = pos[1], !.y = pos[2], !.mx = 0, !.my = 0]

\* coin is port_count[0]; the test is on bits 7:3 of the other's coordinates.
PortTarget(who, other, coin) ==
    LET cell == ((other[2] \div 8) % 32) * 20 + ((other[1] \div 8) % 32)
    IN  IF coin /\ cell > 20 /\ cell <= 277 THEN other ELSE Home[who]

\* Mutant: a step off the left or the top does not wrap.
Walk_NoWrap(u, v) ==
    IF "T" \in u.walls THEN [v EXCEPT !.y = u.y - 1, !.my = 0]
    ELSE IF "L" \in u.walls THEN [v EXCEPT !.x = u.x - 1, !.mx = 0]
    ELSE IF "R" \in u.walls THEN [v EXCEPT !.x = u.x + 1, !.mx = 0]
    ELSE IF "B" \in u.walls THEN [v EXCEPT !.y = u.y + 1, !.my = 0]
    ELSE [v EXCEPT !.x = u.x + u.mx, !.y = u.y + u.my]

\* A wall flag moves the player away from the wall; T is looked at first.
Walk(u, v) ==
    IF "T" \in u.walls THEN [v EXCEPT !.y = (u.y - 1) % 1024, !.my = 0]
    ELSE IF "L" \in u.walls THEN [v EXCEPT !.x = (u.x - 1) % 1024, !.mx = 0]
    ELSE IF "R" \in u.walls THEN [v EXCEPT !.x = (u.x + 1) % 1024, !.mx = 0]
    ELSE IF "B" \in u.walls THEN [v EXCEPT !.y = (u.y + 1) % 1024, !.my = 0]
    ELSE [v EXCEPT !.x = (u.x + u.mx) % 1024, !.y = (u.y + u.my) % 1024]

\* Mutants: a count of deaths wider than its register; a die_flag that nothing
\* but a free frame clears; the loser needs one death too many.
Moved_NoWrap(who, u, v, other, coin) ==
    IF u.bomb_flag
    THEN [At(v, Home[who]) EXCEPT !.death_count = u.death_count + 1,
                                  !.die_flag = FALSE, !.max_lives = u.max_lives]
    ELSE IF u.port_flag THEN At(v, PortTarget(who, other, coin))
    ELSE IF u.death_count >= u.max_lives THEN [v EXCEPT !.die_flag = TRUE]
    ELSE [Walk(u, v) EXCEPT !.die_flag = FALSE]

Moved_KeepsDieFlag(who, u, v, other, coin) ==
    IF u.bomb_flag
    THEN [At(v, Home[who]) EXCEPT !.death_count = (u.death_count + 1) % 8,
                                  !.max_lives = u.max_lives]
    ELSE IF u.port_flag THEN At(v, PortTarget(who, other, coin))
    ELSE IF u.death_count >= u.max_lives THEN [v EXCEPT !.die_flag = TRUE]
    ELSE Walk(u, v)

Moved_TooLate(who, u, v, other, coin) ==
    IF u.bomb_flag
    THEN [At(v, Home[who]) EXCEPT !.death_count = (u.death_count + 1) % 8,
                                  !.die_flag = FALSE, !.max_lives = u.max_lives]
    ELSE IF u.port_flag THEN At(v, PortTarget(who, other, coin))
    ELSE IF u.death_count > u.max_lives THEN [v EXCEPT !.die_flag = TRUE]
    ELSE [Walk(u, v) EXCEPT !.die_flag = FALSE]

Moved(who, u, v, other, coin) ==
    IF u.bomb_flag
    THEN [At(v, Home[who]) EXCEPT !.death_count = (u.death_count + 1) % 8,
                                  !.die_flag = FALSE, !.max_lives = u.max_lives]
    ELSE IF u.port_flag THEN At(v, PortTarget(who, other, coin))
    ELSE IF u.death_count >= u.max_lives THEN [v EXCEPT !.die_flag = TRUE]
    ELSE [Walk(u, v) EXCEPT !.die_flag = FALSE]

-----------------------------------------------------------------------------

\* One frame of play or of a win screen, and one of a start or pause screen.
Played(who, u, broken, lethal, key, other, coin) ==
    Moved(who, u, Flagged(who, u, key)[Sense(u, Seen(u, broken), lethal)], other, coin)

Frozen(u) == [u EXCEPT !.mx = 0, !.my = 0]

\* A tile somewhere is written 0: the top-left copy takes the same write enable
\* for the port that reads the player's own tile.
Overwritten(u) == [u EXCEPT !.erased = @ \union {TileAt(Corner(u).tl)}]

\* KEY[0] sets every register but port_flag, and refills the map RAMs.
Fresh(who, port) ==
    [x |-> Start[who][1], y |-> Start[who][2], mx |-> 0, my |-> 0, walls |-> {},
     bomb_flag |-> FALSE, port_flag |-> port, bomb_drop |-> FALSE, die_flag |-> FALSE,
     death_count |-> 0, max_lives |-> 6, erased |-> {}]

PlayerType ==
    [x : 0 .. 1023, y : 0 .. 1023, mx : -1 .. 1, my : -1 .. 1, walls : SUBSET Walls,
     bomb_flag : BOOLEAN, port_flag : BOOLEAN, bomb_drop : BOOLEAN, die_flag : BOOLEAN,
     death_count : 0 .. 7, max_lives : 0 .. 15, erased : SUBSET Tiles]

\* Two neighbouring corners on tiles that the board has made a hazard, whatever the
\* top-left copy of the map has lost meanwhile.
OnHazardTiles(u) ==
    OnBoth([c \in Corners |-> Board[TileAt(Corner(u)[c])]], Hazard)

\* No corner of the sprite stands on a wall or a brick.  The top-left corner is
\* excused on a tile that its copy of the map has lost, the other three are not.
InTheOpen(u, broken) ==
    \A c \in Corners : LET t == TileAt(Corner(u)[c])
                      IN  \/ TypeOf(t, broken) \notin {Wall, Brick}
                          \/ c = "tl" /\ t \in u.erased

Shifted(u, dx, dy) == [u EXCEPT !.x = @ + dx, !.y = @ + dy]

\* At most one pixel, along one axis, from a place in the open.
NearOpen(u, broken) ==
    \E d \in -1 .. 1 : InTheOpen(Shifted(u, d, 0), broken) \/ InTheOpen(Shifted(u, 0, d), broken)

\* In motion, with no wall pushing and no hit to come home from.
Walking(u) == u.walls = {} /\ ~u.bomb_flag /\ (u.mx # 0 \/ u.my # 0)
=============================================================================

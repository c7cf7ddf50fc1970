------------------------------- MODULE Picture -------------------------------
(***************************************************************************)
(* What the scan shows: the colours of src/Color_Mapper.sv, tile by tile.  *)
(* Two priority chains work one clock apart.  The first loads one set of   *)
(* colour registers per picture from its ROM (or, for players, bombs and   *)
(* screens, whatever happens); the second picks the registers that go to   *)
(* Red, Green and Blue.  Their tests are written down twice, and where     *)
(* they differ a tile gets the colours another tile has left behind.       *)
(* A set of registers goes by its name in the code, less the R, G and B.   *)
(***************************************************************************)
EXTENDS Match

\* Both chains are if / else if: the first branch whose test holds.
Branch(test, registers) == [test |-> test, registers |-> registers]
First(chain) == CHOOSE i \in DOMAIN chain :
                    chain[i].test /\ \A j \in 1 .. i - 1 : ~chain[j].test
Taken(chain) == chain[First(chain)].registers

Reaches(who, part, t) == t \in Cells(who, part)
EitherReaches(part, t) == \E who \in Users : Reaches(who, part, t)
EitherIn(states) == \E who \in Users : bomb_state[who] \in states

-----------------------------------------------------------------------------
(* The first chain. *)

Small == {"Explode1", "Explode3"}
Big == {"Explode2"}

LoadsCentre(t) == EitherReaches("centre", t) /\ (EitherIn(Small) \/ EitherIn(Big))

\* The parentheses of the second test close before the state is asked for user2.
LoadsRow(t) == \/ EitherReaches("row", t) /\ EitherIn(Small)
               \/ Reaches("user2", "row", t)
               \/ Reaches("user1", "row", t) /\ EitherIn(Big)

\* Mutant: the last flame of a column is left out.
LoadsColumn_NoLast(t) == EitherReaches("column", t) /\ EitherIn({"Explode1", "Explode2"})

LoadsColumn(t) == EitherReaches("column", t) /\ (EitherIn(Small) \/ EitherIn(Big))

\* Loaded at every pixel, and the constant colours.
Sprites == {"user1", "user2", "bomb1", "bomb2"}
Screens == {"start", "pause", "win1", "win2"}
Plain == {"black", "field"}

Loaded(t) ==
    Sprites \union Screens \union Plain \union
    Taken(<<Branch(TypeOf(t, broken) = Wall, {"Wall"}),
            Branch(LoadsCentre(t), {"EX"}),
            Branch(LoadsRow(t),    {"LREX"}),
            Branch(LoadsColumn(t), {"TBEX"}),
            Branch(TypeOf(t, broken) = Safeport, {"SPPU"}),
            Branch(TypeOf(t, broken) = Hazard,   {"BOPU"}),
            Branch(TypeOf(t, broken) = Brick,    {"Brick"}),
            Branch(TRUE, {})>>)

-----------------------------------------------------------------------------
(* The second chain. *)

\* A span of pixels is in sight in a tile's column or row k.
InSight(k, from, to) == from <= 32 * k + 31 /\ 32 * k <= to

InBox(t, left, right, top, bottom) == InSight(t[1], left, right) /\ InSight(t[2], top, bottom)

\* user1_on .. bomb2_on, at some pixel of the tile; pixels may be transparent.
SpritesOver(t) ==
    {s \in Sprites :
        CASE s = "user1" -> LET p == Pos(s) IN InBox(t, p[1] + 2, p[1] + 19, p[2] + 2, p[2] + 26)
          [] s = "user2" -> LET p == Pos(s) IN InBox(t, p[1] + 2, p[1] + 19, p[2], p[2] + 26)
          [] s = "bomb1" -> InBox(t, pos1[1] + 2, pos1[1] + 15, pos1[2], pos1[2] + 18)
          [] s = "bomb2" -> InBox(t, pos2[1] + 2, pos2[1] + 15, pos2[2], pos2[2] + 18)}

ShowsBlast(who, part, t) == bomb_state[who] \in Deadly /\ Reaches(who, part, t)

Ground(t) == CASE TypeOf(t, broken) = Safeport -> "SPPU"
               [] TypeOf(t, broken) = Hazard   -> "BOPU"
               [] OTHER -> "field"

\* In Explode4 all that is not wall or flame has the colours of the blast.
ShowsPlay(t) ==
    Taken(<<Branch(TypeOf(t, broken) = Wall, {"Wall"}),
            Branch(ShowsBlast("user1", "centre", t), {"EX"}),
            Branch(ShowsBlast("user1", "column", t), {"TBEX"}),
            Branch(ShowsBlast("user1", "row", t),    {"LREX"}),
            Branch(ShowsBlast("user2", "centre", t), {"EX"}),
            Branch(ShowsBlast("user2", "column", t), {"TBEX"}),
            Branch(ShowsBlast("user2", "row", t),    {"LREX"}),
            Branch(EitherIn({"Explode4"}), {"EX"}),
            Branch(TypeOf(t, broken) = Brick, {"Brick"}),
            Branch(TRUE, SpritesOver(t) \union {Ground(t)})>>)

Boxed(t, screen, left, right, top, bottom) ==
    {"black"} \union (IF InBox(t, left, right, top, bottom) THEN {screen} ELSE {})

\* The prompt below the start picture is dark in Start2.
Shows(t) ==
    CASE curr_state = "Start1"   -> Boxed(t, "start", 6, 639, 0, 376)
      [] curr_state = "Start2"   -> Boxed(t, "start", 6, 639, 0, 350)
      [] curr_state = "Pause"    -> Boxed(t, "pause", 173, 466, 220, 260)
      [] curr_state = "P1Win"    -> Boxed(t, "win1", 210, 429, 232, 247)
      [] curr_state = "P2Win"    -> Boxed(t, "win2", 210, 429, 232, 247)
      [] curr_state = "Continue" -> ShowsPlay(t)

-----------------------------------------------------------------------------
(* Properties *)

Open == {t \in OnScreen : Board[t] # Wall}

\* While a bomb explodes and the other one is put away, every tile of the board is
\* drawn in colours that were loaded for that tile: through all phases of the
\* blast, on every arm of it, and on the bricks, pickups and sprites around it.
OwnColours ==
    \A who \in Users :
        /\ bomb_state[who] \in Deadly
        /\ bomb_state[Other[who]] = "Before" /\ bombPos[Other[who]] = Bomb1!Parked
        => \A t \in Open : Shows(t) \subseteq Loaded(t)
=============================================================================

-------------------------------- MODULE Match --------------------------------
(***************************************************************************)
(* The whole game, wired as in src/bomberman.sv: the game state machine,   *)
(* two players, their two bombs and fuses, and the blast registers         *)
(* die_addr with the map RAMs that src/Color_Mapper.sv drives.  One step   *)
(* is one video frame: first the raster scan, in which color_mapper passes *)
(* every tile and sets or clears die_addr and breaks bricks, then the      *)
(* rising edge of VGA_VS, at which every other register moves at once,     *)
(* each reading what all of them were before it.  VgaController shows that *)
(* scans and edges take turns.                                             *)
(***************************************************************************)
EXTENDS PlayerRules

CONSTANTS
    FuseEnd, Blast1End, Blast2End, Blast3End,                           \* BombFuse
    FlickerOn1, FlickerOff1, FlickerOn2, FlickerOff2, WinEnd, CountMax, \* GameState
    Space, Esc, Restart,
    Keycodes,   \* the keycodes that occur, Space among them
    Coins       \* the values of port_count[0] that occur

\* The registers count in binary, coins have two sides, and the tiles below a
\* player at home are open.
ASSUME NumbersAssumption == CountMax \in Nat \ {0} /\ Coins \subseteq BOOLEAN

ASSUME HomesAssumption ==
    \A who \in Users, dx \in {0, XSize}, dy \in {0, YSize} :
        Board[TileAt(<<Home[who][1] + dx, Home[who][2] + dy>>)] = Path

VARIABLES
    curr_state, count, keycode,             \* state_machine, keycode PIO
    state1, count1, check1, make1, pos1,    \* bomb1states, player1_bomb
    state2, count2, check2, make2, pos2,    \* bomb2states, player2_bomb
    user,                                   \* player1, player2
    die_addr, broken,                       \* color_mapper, map RAMs
    coin                                    \* port_count[0] at the frame edge

bomb1Vars == <<state1, count1, check1, make1, pos1>>
bomb2Vars == <<state2, count2, check2, make2, pos2>>
vars == <<curr_state, count, keycode, bomb1Vars, bomb2Vars, user, die_addr, broken, coin>>

Game == INSTANCE GameState WITH OtherKeys <- Keycodes

Bomb1 == INSTANCE BombFuse WITH
            curr_state <- state1, count <- count1, bomb_check <- check1,
            make_bomb <- make1, bombPos <- pos1, UserSpots <- {}
Bomb2 == INSTANCE BombFuse WITH
            curr_state <- state2, count <- count2, bomb_check <- check2,
            make_bomb <- make2, bombPos <- pos2, UserSpots <- {}

bomb_state == [user1 |-> state1, user2 |-> state2]
bombPos == [user1 |-> pos1, user2 |-> pos2]

Stills == {"Start1", "Start2", "Pause"}
Wins == {"P1Win", "P2Win"}
Deadly == {"Explode1", "Explode2", "Explode3"}

-----------------------------------------------------------------------------
(* The scan: what color_mapper does to a player's five die_addr registers    *)
(* and to the map while the beam passes every tile once.                     *)

Parts == {"centre", "column", "row"}

Cells(who, part) ==
    LET n == TileNumber(bombPos[who])
    IN  CASE part = "centre" -> {Tile(n)}
          [] part = "column" -> {Tile(n - 20), Tile(n + 20)}
          [] part = "row"    -> {Tile(n - 1), Tile(n + 1)}

Cross(who) == UNION {Cells(who, part) : part \in Parts}

OnScreen == (0 .. 19) \X (0 .. 14)

\* The map RAM answers one pixel late: in the first pixel of a tile the beam
\* still sees what its left neighbour is.
Beside(t) == <<t[1] - 1, t[2]>>
LooksOpen(t) == /\ t \in OnScreen
                /\ Board[t] # Wall \/ (t[1] > 0 /\ Board[Beside(t)] # Wall)

\* Mutant: the second player's registers are never cleared.
Cooled_User1(who) == bomb_state[who] = "Explode4" /\ who = "user1"

\* Mutant: a bomb is lethal from the frame it is planted.
Blasts_AnyState(who, t) ==
    LET reaches(w) == bomb_state[w] # "Explode4" /\ t \in Cross(w)
    IN  LooksOpen(t) /\ reaches(who) /\ (who = "user2" => ~reaches("user1"))

\* This player's branches are the ones taken at t: user1's come first.
Blasts(who, t) ==
    LET reaches(w) == bomb_state[w] \in Deadly /\ t \in Cross(w)
    IN  LooksOpen(t) /\ reaches(who) /\ (who = "user2" => ~reaches("user1"))

\* The branches that clear the registers: user1's come first here, too.
Cooled(who) == /\ bomb_state[who] = "Explode4"
               /\ who = "user2" => state1 # "Explode4"

\* Mutant: a win screen leaves the registers alone.
Scanned_WinKeeps ==
    [who \in Users |-> [part \in Parts |->
        IF curr_state \in Stills \union Wins THEN die_addr[who][part]
        ELSE IF \E t \in Cells(who, part) : Blasts(who, t) THEN Cells(who, part)
        ELSE IF Cooled(who) THEN {} ELSE die_addr[who][part]]]

Scanned ==
    [who \in Users |-> [part \in Parts |->
        IF curr_state \in Wins THEN {}
        ELSE IF curr_state \in Stills THEN die_addr[who][part]
        ELSE IF \E t \in Cells(who, part) : Blasts(who, t) THEN Cells(who, part)
        ELSE IF Cooled(who) THEN {} ELSE die_addr[who][part]]]

\* Mutant: only the first player's registers are compared.
Lethal_User1(addr) == UNION {addr["user1"][part] : part \in Parts}

Lethal(addr) == UNION {addr[who][part] : who \in Users, part \in Parts}

\* write_enb, in every game state: the tiles it can name, and those of them
\* that look like a brick, at least in their first pixel.
InReach == {t \in UNION {Cross(who) : who \in {w \in Users : bomb_state[w] = "Explode1"}} :
                t[1] \in 1 .. 17 /\ t[2] \in 1 .. 14 /\ (t[1] % 2 = 1 \/ t[2] % 2 = 1)}

Struck == {t \in InReach : \/ TypeOf(t, broken) = Brick
                           \/ TypeOf(Beside(t), broken) = Brick /\ Beside(t) \notin InReach}

-----------------------------------------------------------------------------
(* The frame edge. *)

Pos(who) == <<user[who].x, user[who].y>>
Other == [user1 |-> "user2", user2 |-> "user1"]

\* The tiles the scan before this edge has broken, and those it left lethal.
PlayerEdge(who, struck, lethal) ==
    LET u == IF struck = {} THEN user[who] ELSE Overwritten(user[who])
    IN  IF curr_state \in Stills THEN Frozen(u)
        ELSE Played(who, u, broken \union struck, lethal, keycode, Pos(Other[who]), coin[who])

Frame ==
    /\ keycode' \in Keycodes
    /\ Game!FsmEdge(user["user1"].die_flag, user["user2"].die_flag)
    /\ Bomb1!FuseEdge /\ Bomb1!BombEdge(user["user1"].bomb_drop, Pos("user1"))
    /\ Bomb2!FuseEdge /\ Bomb2!BombEdge(user["user2"].bomb_drop, Pos("user2"))
    /\ \E addr \in {Scanned}, struck \in {Struck} :
          /\ die_addr' = addr
          /\ broken' = broken \union struck
          /\ \E lethal \in {Lethal(addr)} :
                user' = [who \in Users |-> PlayerEdge(who, struck, lethal)]
    /\ UNCHANGED coin

Dark == [who \in Users |-> [part \in Parts |-> {}]]

\* KEY[0], held for at least one scan: the map RAMs are refilled.
Reset ==
    /\ Game!Reset /\ Bomb1!Reset /\ Bomb2!Reset
    /\ user' = [who \in Users |-> Fresh(who, user[who].port_flag)]
    /\ die_addr' = Dark /\ broken' = {}
    /\ UNCHANGED coin

Init ==
    /\ Game!Init /\ keycode \in Keycodes /\ Bomb1!Init /\ Bomb2!Init
    /\ user = [who \in Users |-> Fresh(who, FALSE)]
    /\ die_addr = Dark /\ broken = {}
    /\ coin \in [Users -> Coins]

Next == Frame \/ Reset

Safety == Init /\ [][Next]_vars

\* VGA_VS never stops.
Spec == Safety /\ WF_vars(Frame)
-----------------------------------------------------------------------------
(* Properties *)

\* Registers keep values of their widths.
TypeOK ==
    /\ Game!TypeOK /\ Bomb1!TypeOK /\ Bomb2!TypeOK
    /\ user \in [Users -> PlayerType]
    /\ die_addr \in [Users -> [Parts -> SUBSET Tiles]]
    /\ broken \subseteq Tiles /\ coin \in [Users -> BOOLEAN]

\* The fuse of a bomb that is not exploding.
Cold == {"Before", "Exist", "Bomb_Count1"}

Stale(who) == bomb_state[who] \in Cold /\ die_addr[who] # Dark[who]

\* The blast registers, which are set tile by tile and cleared in the one scan
\* that sees Explode4, outlive their bomb only where that scan finds the game
\* paused, or both fuses in Explode4 (user1's branch is the one taken): a win
\* screen, the menu after it and the other player's bomb may come in between.
NoStaleBlast ==
    [][\A who \in Users : Stale(who)' =>
          \/ Stale(who)
          \/ curr_state = "Pause"
          \/ who = "user2" /\ state1 = "Explode4" /\ state2 = "Explode4"]_vars

\* From its first deadly frame to the last marker a bomb may kill.
Live == Deadly \union {"Bomb_Count2", "Bomb_Count3", "Bomb_Count4"}

\* Nobody is hit out of the blue: whoever gets hit stands on the cross of a bomb
\* that is in its blast in that frame.  The hit follows the registers die_addr,
\* which were loaded in an earlier scan and are cleared in another one, when the
\* bomb is already away.  (Without the pause key, and unless both fuses end in
\* one frame: see NoStaleBlast.)
HitsHaveCause ==
    [][\A p \in Users : user'[p].bomb_flag /\ ~user[p].bomb_flag =>
          \E w \in Users : /\ bomb_state[w] \in Live
                           /\ Cross(w) \intersect Standing(user[p]) # {}]_vars

\* A win screen puts the blasts away while the fuses run on, so that after the
\* frames a hit takes to end nobody is hit any more.
QuietWin == curr_state \in Wins /\ count >= 3 => \A who \in Users : ~user[who].bomb_flag

\* Whoever stands on a tile where a bomb is exploding is hit in that very frame,
\* through all registers in between and whoever's bomb it is, except in a frame
\* in which a board edge pushes (that test comes first).  A bomb that was left in
\* a wall has no blast there.
HitInBlast ==
    [][\A w, p \in Users :
          /\ curr_state = "Continue" /\ ~Reset
          /\ bomb_state[w] \in Deadly
          /\ TileAt(bombPos[w]) \in Standing(user[p]) /\ LooksOpen(TileAt(bombPos[w]))
          /\ AtEdge(user[p]) = "none"
          => user'[p].bomb_flag]_vars

\* A player that has lost all lives, and whose last hit is over, loses the game,
\* whatever keys and bombs still come.
LostGameEnds ==
    \A who \in Users :
        (/\ user[who].death_count >= user[who].max_lives
         /\ ~user[who].bomb_flag /\ ~user[who].port_flag /\ curr_state = "Continue")
        ~> curr_state # "Continue"

\* Lab report, Color Mapper (p. 8): "Following an explosion these logic variables
\* will be set back to offscreen".
BackOffscreen == \A who \in Users : ~Stale(who)

\* Lab report (p. 12): "the user loses a life".  A life that is lost
\* does not come back before KEY[0].
LivesStayLost ==
    [][\A who \in Users : ~Reset => user'[who].death_count >= user[who].death_count]_vars
=============================================================================

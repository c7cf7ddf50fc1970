----------------------------- MODULE MatchProofs -----------------------------
(***************************************************************************)
(* Proofs about Match and Picture for every board whose homes are open,    *)
(* every field, every set of keycodes, and every choice of the thresholds  *)
(* of fuses and screens.                                                   *)
(***************************************************************************)
EXTENDS Picture, PlayerRulesProofs

LEMMA NumbersHold == CountMax \in Nat /\ CountMax > 0 /\ Coins \subseteq BOOLEAN
BY NumbersAssumption DEF NumbersAssumption

\* Both players at once: their types, and one axis at a time.
TwoPlayers ==
    /\ user \in [Users -> PlayerType]
    /\ \A who \in Users : user[who].mx = 0 \/ user[who].my = 0

Typed == TypeOK /\ TwoPlayers

-----------------------------------------------------------------------------
(* The types, part by part *)

LEMMA GameTypes ==
    ASSUME Game!TypeOK, NEW a, NEW b, Game!FsmEdge(a, b), keycode' \in Keycodes
    PROVE  Game!TypeOK'
<1>1. count' \in 0 .. CountMax
  BY NumbersHold DEF Game!FsmEdge, Game!count_next, Game!TypeOK
<1>2. curr_state' \in Game!GameStates
  BY DEF Game!FsmEdge, Game!Begin, Game!HideText, Game!ShowText, Game!PauseGame, Game!EndGame,
         Game!BackToMenu, Game!Stay, Game!TypeOK, Game!GameStates, Game!Menu, Game!Wins
<1> QED BY <1>1, <1>2 DEF Game!TypeOK, Game!Keys

\* The two bombs are two instances of one module, and have the same facts.
LEMMA Bomb1Types ==
    ASSUME Bomb1!TypeOK, NEW drop \in BOOLEAN, NEW a \in Coord, NEW b \in Coord,
           Bomb1!FuseEdge, Bomb1!BombEdge(drop, <<a, b>>)
    PROVE  Bomb1!TypeOK'
<1>0. state1 \in Bomb1!FuseStates /\ count1 \in 0 .. 255 /\ pos1 \in Bomb1!Screen
  BY DEF Bomb1!TypeOK
<1>1. count1' \in 0 .. 255
  BY <1>0, SMTT(30) DEF Bomb1!FuseEdge, Bomb1!count_next
<1>2. state1' \in Bomb1!FuseStates
  BY <1>0, SMTT(30) DEF Bomb1!FuseEdge, Bomb1!next_state, Bomb1!Successor, Bomb1!FuseStates,
            Bomb1!Marker, Bomb1!Deadly
<1>3. pos1' \in Bomb1!Screen
  <2>1. Bomb1!Planted(<<a, b>>) = <<(a + 4) % 1024, (b + 4) % 1024>>
    BY DEF Bomb1!Planted
  <2>2. (a + 4) % 1024 \in Bomb1!Coord /\ (b + 4) % 1024 \in Bomb1!Coord
    BY DEF Coord, Bomb1!Coord
  <2>3. 700 \in Bomb1!Coord /\ 500 \in Bomb1!Coord
    BY DEF Bomb1!Coord
  <2> QED BY <1>0, <2>1, <2>2, <2>3
          DEF Bomb1!BombEdge, Bomb1!Remove, Bomb1!Place, Bomb1!Keep, Bomb1!Parked, Bomb1!Screen
<1>4. check1' \in BOOLEAN /\ make1' \in BOOLEAN
  BY Zenon DEF Bomb1!TypeOK, Bomb1!BombEdge, Bomb1!Remove, Bomb1!Place, Bomb1!Keep
<1> QED BY <1>1, <1>2, <1>3, <1>4 DEF Bomb1!TypeOK

LEMMA Bomb2Types ==
    ASSUME Bomb2!TypeOK, NEW drop \in BOOLEAN, NEW a \in Coord, NEW b \in Coord,
           Bomb2!FuseEdge, Bomb2!BombEdge(drop, <<a, b>>)
    PROVE  Bomb2!TypeOK'
<1>0. state2 \in Bomb2!FuseStates /\ count2 \in 0 .. 255 /\ pos2 \in Bomb2!Screen
  BY DEF Bomb2!TypeOK
<1>1. count2' \in 0 .. 255
  BY <1>0, SMTT(30) DEF Bomb2!FuseEdge, Bomb2!count_next
<1>2. state2' \in Bomb2!FuseStates
  BY <1>0, SMTT(30) DEF Bomb2!FuseEdge, Bomb2!next_state, Bomb2!Successor, Bomb2!FuseStates,
            Bomb2!Marker, Bomb2!Deadly
<1>3. pos2' \in Bomb2!Screen
  <2>1. Bomb2!Planted(<<a, b>>) = <<(a + 4) % 1024, (b + 4) % 1024>>
    BY DEF Bomb2!Planted
  <2>2. (a + 4) % 1024 \in Bomb2!Coord /\ (b + 4) % 1024 \in Bomb2!Coord
    BY DEF Coord, Bomb2!Coord
  <2>3. 700 \in Bomb2!Coord /\ 500 \in Bomb2!Coord
    BY DEF Bomb2!Coord
  <2> QED BY <1>0, <2>1, <2>2, <2>3
          DEF Bomb2!BombEdge, Bomb2!Remove, Bomb2!Place, Bomb2!Keep, Bomb2!Parked, Bomb2!Screen
<1>4. check2' \in BOOLEAN /\ make2' \in BOOLEAN
  BY Zenon DEF Bomb2!TypeOK, Bomb2!BombEdge, Bomb2!Remove, Bomb2!Place, Bomb2!Keep
<1> QED BY <1>1, <1>2, <1>3, <1>4 DEF Bomb2!TypeOK

\* The state both resets put the bombs in.
LEMMA RestTypes == /\ Bomb1!Init => Bomb1!TypeOK
                   /\ Bomb2!Init => Bomb2!TypeOK
<1>1. ASSUME Bomb1!Init PROVE Bomb1!TypeOK
  <2>1. state1 \in Bomb1!FuseStates /\ count1 \in 0 .. 255
    BY <1>1 DEF Bomb1!Init, Bomb1!FuseStates
  <2>2. 700 \in Bomb1!Coord /\ 500 \in Bomb1!Coord
    BY DEF Bomb1!Coord
  <2>3. pos1 \in Bomb1!Screen
    BY <1>1, <2>2 DEF Bomb1!Init, Bomb1!Parked, Bomb1!Screen
  <2>4. check1 \in BOOLEAN /\ make1 \in BOOLEAN
    BY <1>1, Zenon DEF Bomb1!Init
  <2> QED BY <2>1, <2>3, <2>4 DEF Bomb1!TypeOK
<1>2. ASSUME Bomb2!Init PROVE Bomb2!TypeOK
  <2>1. state2 \in Bomb2!FuseStates /\ count2 \in 0 .. 255
    BY <1>2 DEF Bomb2!Init, Bomb2!FuseStates
  <2>2. 700 \in Bomb2!Coord /\ 500 \in Bomb2!Coord
    BY DEF Bomb2!Coord
  <2>3. pos2 \in Bomb2!Screen
    BY <1>2, <2>2 DEF Bomb2!Init, Bomb2!Parked, Bomb2!Screen
  <2>4. check2 \in BOOLEAN /\ make2 \in BOOLEAN
    BY <1>2, Zenon DEF Bomb2!Init
  <2> QED BY <2>1, <2>3, <2>4 DEF Bomb2!TypeOK
<1> QED BY <1>1, <1>2

\* A bomb's five cells have numbers the 10 bits can hold, also off the screen.
LEMMA AnyTile == ASSUME NEW n \in Int PROVE Tile(n) \in Tiles
<1>1. PICK k \in 0 .. 1023 : n % 1024 = k
  OBVIOUS
<1>2. k % 20 \in 0 .. 19 /\ k \div 20 \in 0 .. 51
  OBVIOUS
<1> QED BY <1>1, <1>2 DEF Tile, Tiles

LEMMA BombPlace ==
    ASSUME TypeOK, NEW who \in Users
    PROVE  \E a \in Coord, b \in Coord : bombPos[who] = <<a, b>>
<1>1. pos1 \in Coord \X Coord /\ pos2 \in Coord \X Coord
  BY DEF TypeOK, Bomb1!TypeOK, Bomb2!TypeOK, Bomb1!Screen, Bomb2!Screen, Bomb1!Coord, Bomb2!Coord,
         Coord
<1>2. bombPos[who] = pos1 \/ bombPos[who] = pos2
  BY DEF bombPos, Users
<1> QED BY <1>1, <1>2

LEMMA BombTile ==
    ASSUME TypeOK, NEW who \in Users
    PROVE  TileNumber(bombPos[who]) \in 0 .. 671
<1>1. PICK a \in Coord, b \in Coord : bombPos[who] = <<a, b>>
  BY BombPlace
<1>2. TileNumber(<<a, b>>) = (b \div 32) * 20 + a \div 32
  BY DEF TileNumber, Coord
<1>3. a \div 32 \in 0 .. 31 /\ b \div 32 \in 0 .. 31
  BY SMTT(30) DEF Coord
<1> QED BY <1>1, <1>2, <1>3, SMTT(30)

LEMMA CellTypes ==
    ASSUME TypeOK, NEW who \in Users
    PROVE  /\ \A part \in Parts : Cells(who, part) \subseteq Tiles
           /\ Cross(who) \subseteq Tiles
<1> DEFINE n == TileNumber(bombPos[who])
<1>1. n \in Int /\ n - 20 \in Int /\ n + 20 \in Int /\ n - 1 \in Int /\ n + 1 \in Int
  BY BombTile, SMTT(30)
<1> HIDE DEF n
<1>2. {Tile(n), Tile(n - 20), Tile(n + 20), Tile(n - 1), Tile(n + 1)} \subseteq Tiles
  BY <1>1, AnyTile
<1>3. \A part \in Parts : Cells(who, part) \subseteq Tiles
  BY <1>2 DEF n, Cells, Parts
<1> QED BY <1>3 DEF Cross

LEMMA ScannedTypes == TypeOK => Scanned \in [Users -> [Parts -> SUBSET Tiles]]
<1> SUFFICES ASSUME TypeOK, NEW who \in Users, NEW part \in Parts
             PROVE  Scanned[who][part] \in SUBSET Tiles
  BY DEF Scanned
<1>1. Cells(who, part) \subseteq Tiles /\ die_addr[who][part] \subseteq Tiles
  BY CellTypes DEF TypeOK
<1> QED BY <1>1 DEF Scanned

LEMMA StruckTypes == TypeOK => Struck \subseteq Tiles
BY CellTypes DEF Struck, InReach

-----------------------------------------------------------------------------
(* The players *)

\* The player a frame starts from, after the scan.
Scratched(who) == IF Struck = {} THEN user[who] ELSE Overwritten(user[who])

LEMMA ScratchedFacts ==
    ASSUME Typed, NEW who \in Users
    PROVE  LET u == Scratched(who)
           IN  /\ u \in PlayerType /\ (u.mx = 0 \/ u.my = 0)
               /\ u.x = user[who].x /\ u.y = user[who].y
               /\ u.mx = user[who].mx /\ u.my = user[who].my
               /\ u.bomb_flag = user[who].bomb_flag
               /\ Standing(u) = Standing(user[who])
               /\ AtEdge(u) = AtEdge(user[who])
<1>1. user[who] \in PlayerType /\ (user[who].mx = 0 \/ user[who].my = 0)
  BY DEF Typed, TwoPlayers
<1> DEFINE p == user[who]
           o == Overwritten(p)
<1> HIDE DEF p
<1>2. /\ o \in PlayerType /\ o.mx = p.mx /\ o.my = p.my /\ o.x = p.x /\ o.y = p.y
      /\ o.bomb_flag = p.bomb_flag /\ Standing(o) = Standing(p) /\ AtEdge(o) = AtEdge(p)
  BY <1>1, OverwrittenFacts, HitKept DEF p
<1> HIDE DEF o
<1>3. Scratched(who) = p \/ Scratched(who) = o
  BY DEF Scratched, p, o
<1> QED BY <1>1, <1>2, <1>3 DEF p

LEMMA PosIsPlace ==
    ASSUME Typed, NEW who \in Users
    PROVE  \E a \in Coord, b \in Coord : Pos(who) = <<a, b>>
<1>1. user[who] \in PlayerType
  BY DEF Typed, TwoPlayers
<1>2. user[who].x \in Coord /\ user[who].y \in Coord
  BY <1>1, Registers, SMTT(30) DEF Coord
<1> QED BY <1>2 DEF Pos

\* What a frame makes of a player, with what the scan before it has left.
Edged(who) == PlayerEdge(who, Struck, Lethal(Scanned))

LEMMA EdgedCases ==
    ASSUME NEW who \in Users
    PROVE  Edged(who) = IF curr_state \in Stills THEN Frozen(Scratched(who))
                        ELSE Played(who, Scratched(who), broken \union Struck, Lethal(Scanned),
                                    keycode, Pos(Other[who]), coin[who])
BY DEF Edged, PlayerEdge, Scratched

LEMMA EdgedTypes ==
    ASSUME Typed, NEW who \in Users
    PROVE  LET w == Edged(who) IN w \in PlayerType /\ (w.mx = 0 \/ w.my = 0)
<1> DEFINE u == Scratched(who)
<1>1. u \in PlayerType /\ (u.mx = 0 \/ u.my = 0)
  BY ScratchedFacts
<1>2. Other[who] \in Users
  BY DEF Other, Users
<1>3. PICK a \in Coord, b \in Coord : Pos(Other[who]) = <<a, b>>
  BY <1>2, PosIsPlace
<1>4. PICK c \in BOOLEAN : coin[who] = c
  BY DEF Typed, TypeOK
<1> HIDE DEF u
<1>5. CASE curr_state \in Stills
  <2>1. Edged(who) = Frozen(u)
    BY <1>5, EdgedCases DEF u
  <2> QED BY <1>1, <2>1, FrozenFacts
<1>6. CASE curr_state \notin Stills
  <2> DEFINE br == broken \union Struck
             le == Lethal(Scanned)
  <2>1. Edged(who) = Played(who, u, br, le, keycode, <<a, b>>, c)
    BY <1>3, <1>4, <1>6, EdgedCases DEF u
  <2> HIDE DEF br, le
  <2> DEFINE w == Played(who, u, br, le, keycode, <<a, b>>, c)
  <2>2. w \in PlayerType
    BY <1>1, PlayedFacts
  <2>3. w.mx = 0 \/ w.my = 0
    BY <1>1, PlayedFacts
  <2> QED BY <2>1, <2>2, <2>3
<1> QED BY <1>5, <1>6

\* One frame, as the rest of the proofs use it.
LEMMA FrameIs ==
    ASSUME Frame
    PROVE  /\ keycode' \in Keycodes
           /\ Game!FsmEdge(user["user1"].die_flag, user["user2"].die_flag)
           /\ Bomb1!FuseEdge /\ Bomb1!BombEdge(user["user1"].bomb_drop, Pos("user1"))
           /\ Bomb2!FuseEdge /\ Bomb2!BombEdge(user["user2"].bomb_drop, Pos("user2"))
           /\ die_addr' = Scanned /\ broken' = broken \union Struck
           /\ user' = [who \in Users |-> Edged(who)]
           /\ coin' = coin
BY DEF Frame, Edged

LEMMA InitTyped == Init => Typed
<1> SUFFICES ASSUME Init PROVE Typed
  OBVIOUS
<1>1. Game!TypeOK
  BY NumbersHold DEF Init, Game!Init, Game!TypeOK, Game!GameStates, Game!Menu
<1>2. Bomb1!TypeOK /\ Bomb2!TypeOK
  <2>1. Bomb1!Init /\ Bomb2!Init
    BY DEF Init
  <2> QED BY <2>1, RestTypes
<1>3. TwoPlayers
  <2>1. \A who \in Users : Fresh(who, FALSE) \in PlayerType /\ Fresh(who, FALSE).mx = 0
    BY FreshFacts
  <2> QED BY <2>1 DEF Init, TwoPlayers
<1>4. die_addr \in [Users -> [Parts -> SUBSET Tiles]] /\ broken \subseteq Tiles
  BY DEF Init, Dark
<1>5. coin \in [Users -> BOOLEAN]
  BY NumbersHold DEF Init
<1> QED BY <1>1, <1>2, <1>3, <1>4, <1>5 DEF Typed, TypeOK, TwoPlayers

LEMMA FrameTyped == Typed /\ Frame => Typed'
<1> SUFFICES ASSUME Typed, Frame PROVE Typed'
  OBVIOUS
<1>1. Game!TypeOK'
  BY FrameIs, GameTypes DEF Typed, TypeOK
<1>2. "user1" \in Users /\ "user2" \in Users
  BY DEF Users
<1>3. user["user1"].bomb_drop \in BOOLEAN /\ user["user2"].bomb_drop \in BOOLEAN
  BY <1>2 DEF Typed, TwoPlayers, PlayerType
<1>4. Bomb1!TypeOK'
  <2>1. PICK a \in Coord, b \in Coord : Pos("user1") = <<a, b>>
    BY <1>2, PosIsPlace
  <2>2. Bomb1!FuseEdge /\ Bomb1!BombEdge(user["user1"].bomb_drop, <<a, b>>)
    BY <2>1, FrameIs
  <2> QED BY <1>3, <2>2, Bomb1Types DEF Typed, TypeOK
<1>5. Bomb2!TypeOK'
  <2>1. PICK a \in Coord, b \in Coord : Pos("user2") = <<a, b>>
    BY <1>2, PosIsPlace
  <2>2. Bomb2!FuseEdge /\ Bomb2!BombEdge(user["user2"].bomb_drop, <<a, b>>)
    BY <2>1, FrameIs
  <2> QED BY <1>3, <2>2, Bomb2Types DEF Typed, TypeOK
<1>6. TwoPlayers'
  <2>1. \A who \in Users : Edged(who) \in PlayerType /\ (Edged(who).mx = 0 \/ Edged(who).my = 0)
    BY EdgedTypes
  <2> QED BY <2>1, FrameIs DEF TwoPlayers
<1>7. die_addr' \in [Users -> [Parts -> SUBSET Tiles]]
  BY FrameIs, ScannedTypes DEF Typed
<1>8. broken' \subseteq Tiles /\ coin' \in [Users -> BOOLEAN]
  BY FrameIs, StruckTypes DEF Typed, TypeOK
<1> QED BY <1>1, <1>4, <1>5, <1>6, <1>7, <1>8 DEF Typed, TypeOK, TwoPlayers

LEMMA ResetTyped == Typed /\ Reset => Typed'
<1> SUFFICES ASSUME Typed, Reset PROVE Typed'
  OBVIOUS
<1>1. Game!TypeOK'
  BY NumbersHold DEF Reset, Game!Reset, Game!TypeOK, Game!GameStates, Game!Menu, Typed, TypeOK
<1>2. Bomb1!TypeOK' /\ Bomb2!TypeOK'
  <2>1. Bomb1!Init' /\ Bomb2!Init'
    BY DEF Reset, Bomb1!Reset, Bomb2!Reset, Bomb1!Init, Bomb2!Init
  <2> QED BY <2>1, RestTypes, PTL
<1>3. TwoPlayers'
  <2>0. \A who \in Users : user[who].port_flag \in BOOLEAN
    BY DEF Typed, TwoPlayers, PlayerType
  <2>1. \A who \in Users : /\ Fresh(who, user[who].port_flag) \in PlayerType
                           /\ Fresh(who, user[who].port_flag).mx = 0
    BY <2>0, FreshFacts
  <2> QED BY <2>1 DEF Reset, TwoPlayers
<1>4. die_addr' \in [Users -> [Parts -> SUBSET Tiles]] /\ broken' \subseteq Tiles
  BY DEF Reset, Dark
<1>5. coin' \in [Users -> BOOLEAN]
  BY DEF Reset, Typed, TypeOK
<1> QED BY <1>1, <1>2, <1>3, <1>4, <1>5 DEF Typed, TypeOK, TwoPlayers

LEMMA StillTyped == Typed /\ UNCHANGED vars => Typed'
<1> SUFFICES ASSUME Typed, UNCHANGED vars PROVE Typed'
  OBVIOUS
<1>1. Game!TypeOK'
  BY DEF Typed, TypeOK, vars, Game!TypeOK
<1>2. Bomb1!TypeOK' /\ Bomb2!TypeOK'
  BY DEF Typed, TypeOK, vars, bomb1Vars, bomb2Vars, Bomb1!TypeOK, Bomb2!TypeOK
<1>3. TwoPlayers' /\ die_addr' = die_addr /\ broken' = broken /\ coin' = coin
  BY DEF Typed, vars, TwoPlayers
<1> QED BY <1>1, <1>2, <1>3 DEF Typed, TypeOK, TwoPlayers

\* Every register of the game keeps a value of its width, on every board, with every
\* set of keys and thresholds.
THEOREM TypesInvariant == Safety => []Typed
<1>1. Typed /\ [Next]_vars => Typed'
  BY FrameTyped, ResetTyped, StillTyped DEF Next
<1> QED BY InitTyped, <1>1, PTL DEF Safety

\* State machine, bombs, fuses, players, blast registers and map, each by itself.
THEOREM TypeCorrect == Safety => []TypeOK
<1>1. Typed => TypeOK
  BY DEF Typed
<1> QED BY <1>1, TypesInvariant, PTL

-----------------------------------------------------------------------------
(* The blast registers and the screens *)

\* The only way into the menu is from a win screen, which has put all blasts away.
MenuDark == curr_state \in {"Start1", "Start2"} => die_addr = Dark

\* A hit that a win screen finds is over two frames later: the first frame sends the
\* player home, the second finds it there, in the open.
WinHits ==
    curr_state \in Wins =>
        \A who \in Users : user[who].bomb_flag =>
            \/ count = 0
            \/ /\ count = 1 /\ Pos(who) = Home[who]
               /\ user[who].mx = 0 /\ user[who].my = 0

MatchInv == Typed /\ MenuDark /\ WinHits

\* Where the state machine can come from.
LEMMA GameSteps ==
    ASSUME Typed, Frame
    PROVE  /\ curr_state' \in {"Start1", "Start2"} => curr_state \in {"Start1", "Start2"} \union Wins
           /\ curr_state' \in Wins => curr_state \in {"Continue"} \union Wins
           /\ curr_state' \in Wins /\ curr_state = "Continue" => count' = 0
           /\ curr_state' \in Wins /\ curr_state \in Wins /\ count = 0 => count' = 1
           /\ curr_state' = "Pause" => curr_state = "Pause" \/ keycode = Esc
<1> DEFINE a == user["user1"].die_flag
           b == user["user2"].die_flag
<1> HIDE DEF a, b
<1>1. Game!FsmEdge(a, b)
  BY FrameIs DEF a, b
<1>2. curr_state \in Game!GameStates
  BY DEF Typed, TypeOK, Game!TypeOK
<1>3. count' = Game!count_next
  BY <1>1 DEF Game!FsmEdge
<1>4. /\ curr_state = "Continue" => Game!count_next = 0
      /\ curr_state \in Wins /\ count = 0 => Game!count_next = 1
  BY NumbersHold DEF Game!count_next, Wins
<1>5. /\ curr_state' \in {"Start1", "Start2"} => curr_state \in {"Start1", "Start2"} \union Wins
      /\ curr_state' \in Wins => curr_state \in {"Continue"} \union Wins
      /\ curr_state' = "Pause" => curr_state = "Pause" \/ keycode = Esc
  BY <1>1, <1>2 DEF Game!FsmEdge, Game!Begin, Game!HideText, Game!ShowText, Game!PauseGame,
         Game!EndGame, Game!BackToMenu, Game!Stay, Game!GameStates, Game!Menu, Game!Wins, Wins
<1> QED BY <1>3, <1>4, <1>5

\* What a scan leaves in the registers of a bomb that is not in its blast.
LEMMA ScannedOf ==
    ASSUME NEW who \in Users
    PROVE  /\ curr_state \in Wins => Scanned[who] = Dark[who]
           /\ curr_state \in Stills => Scanned[who] = [part \in Parts |-> die_addr[who][part]]
           /\ curr_state \notin Stills \union Wins /\ Cooled(who) => Scanned[who] = Dark[who]
           /\ curr_state \notin Stills \union Wins /\ bomb_state[who] \notin Deadly /\ ~Cooled(who)
                 => Scanned[who] = [part \in Parts |-> die_addr[who][part]]
<1>0. Stills \intersect Wins = {}
  BY DEF Stills, Wins
<1>1. ASSUME bomb_state[who] \notin Deadly, NEW t PROVE ~Blasts(who, t)
  BY <1>1 DEF Blasts
<1>2. Cooled(who) => bomb_state[who] \notin Deadly
  BY DEF Cooled, Deadly
<1>3. curr_state \in Wins => Scanned[who] = Dark[who]
  BY DEF Scanned, Dark
<1>4. curr_state \in Stills => Scanned[who] = [part \in Parts |-> die_addr[who][part]]
  BY <1>0 DEF Scanned
<1>5. curr_state \notin Stills \union Wins /\ Cooled(who) => Scanned[who] = Dark[who]
  BY <1>1, <1>2 DEF Scanned, Dark
<1>6. curr_state \notin Stills \union Wins /\ bomb_state[who] \notin Deadly /\ ~Cooled(who)
         => Scanned[who] = [part \in Parts |-> die_addr[who][part]]
  BY <1>1 DEF Scanned
<1> QED BY <1>3, <1>4, <1>5, <1>6

LEMMA SameRow ==
    ASSUME TypeOK, NEW who \in Users
    PROVE  [part \in Parts |-> die_addr[who][part]] = die_addr[who]
<1>1. die_addr[who] \in [Parts -> SUBSET Tiles]
  BY DEF TypeOK
<1> QED BY <1>1

LEMMA MenuDarkStep == Typed /\ MenuDark /\ [Next]_vars => MenuDark'
<1> SUFFICES ASSUME Typed, MenuDark, [Next]_vars, curr_state' \in {"Start1", "Start2"}
             PROVE  die_addr' = Dark
  BY DEF MenuDark, Dark
<1>1. CASE Frame
  <2>1. curr_state \in {"Start1", "Start2"} \union Wins
    BY <1>1, GameSteps
  <2>2. ASSUME NEW who \in Users PROVE Scanned[who] = Dark[who]
    <3>1. CASE curr_state \in Wins
      BY <3>1, ScannedOf
    <3>2. CASE curr_state \in {"Start1", "Start2"}
      <4>1. Scanned[who] = [part \in Parts |-> die_addr[who][part]]
        BY <3>2, ScannedOf DEF Stills
      <4>2. die_addr = Dark
        BY <3>2 DEF MenuDark
      <4> QED BY <4>1, <4>2, SameRow DEF Typed
    <3> QED BY <2>1, <3>1, <3>2
  <2>3. Scanned = Dark
    <3>1. Scanned = [who \in Users |-> Scanned[who]] /\ Dark = [who \in Users |-> Dark[who]]
      BY DEF Scanned, Dark
    <3> HIDE DEF Scanned, Dark
    <3> QED BY <2>2, <3>1
  <2> QED BY <1>1, <2>3, FrameIs
<1>2. CASE Reset
  BY <1>2 DEF Reset
<1>3. CASE UNCHANGED vars
  BY <1>3 DEF vars, MenuDark
<1> QED BY <1>1, <1>2, <1>3 DEF Next

\* The corners of a player at home are on open tiles.
LEMMA HomeCorners ==
    ASSUME NEW who \in Users, NEW u, <<u.x, u.y>> = Home[who]
    PROVE  \A c \in Corners : Board[TileAt(Corner(u)[c])] = Path
<1>1. /\ Corner(u)["tl"] = <<u.x, u.y>> /\ Corner(u)["tr"] = <<u.x + XSize, u.y>>
      /\ Corner(u)["bl"] = <<u.x, u.y + YSize>> /\ Corner(u)["br"] = <<u.x + XSize, u.y + YSize>>
  BY DEF Corner
<1>2. PICK a \in Coord, b \in Coord : Home[who] = <<a, b>>
  BY HomeOnScreen
<1>3. u.x = a /\ u.y = b /\ a + 0 = a /\ b + 0 = b
  BY <1>2 DEF Coord
<1>4. \A dx \in {0, XSize}, dy \in {0, YSize} : Board[TileAt(<<a + dx, b + dy>>)] = Path
  <2>1. Home[who][1] = a /\ Home[who][2] = b
    BY <1>2
  <2> QED BY <2>1, HomesAssumption DEF HomesAssumption
<1>5. /\ Board[TileAt(<<a + 0, b + 0>>)] = Path /\ Board[TileAt(<<a + XSize, b + 0>>)] = Path
      /\ Board[TileAt(<<a + 0, b + YSize>>)] = Path /\ Board[TileAt(<<a + XSize, b + YSize>>)] = Path
  BY <1>4
<1> HIDE DEF TileAt
<1> QED BY <1>1, <1>3, <1>5 DEF Corners

LEMMA LethalIs ==
    ASSUME NEW addr, NEW t
    PROVE  t \in Lethal(addr) <=> \E who \in Users, part \in Parts : t \in addr[who][part]
BY DEF Lethal

\* With no tile lethal a frame makes no new hit, and ends the one of a player at home.
LEMMA QuietFrame ==
    ASSUME Typed, NEW who \in Users, curr_state \in Wins
    PROVE  LET w == Edged(who)
               p == user[who]
           IN  /\ w.bomb_flag => p.bomb_flag
               /\ p.bomb_flag => <<w.x, w.y>> = Home[who] /\ w.mx = 0 /\ w.my = 0
               /\ Pos(who) = Home[who] /\ p.mx = 0 /\ p.my = 0 => ~w.bomb_flag
<1> DEFINE u == Scratched(who)
           br == broken \union Struck
           sensed == Sense(u, Seen(u, br), {})
<1>1. /\ u \in PlayerType /\ (u.mx = 0 \/ u.my = 0)
      /\ u.x = user[who].x /\ u.y = user[who].y
      /\ u.mx = user[who].mx /\ u.my = user[who].my
      /\ u.bomb_flag = user[who].bomb_flag
  BY ScratchedFacts
<1>2. Lethal(Scanned) = {}
  <2>1. \A x \in Users, part \in Parts : Scanned[x][part] = {}
    BY ScannedOf DEF Dark
  <2> HIDE DEF Scanned
  <2> QED BY <2>1, LethalIs
<1>3. curr_state \notin Stills
  BY DEF Stills, Wins
<1>4. Edged(who) = Played(who, u, br, {}, keycode, Pos(Other[who]), coin[who])
  BY <1>2, <1>3, EdgedCases
<1> HIDE DEF u, br
<1> DEFINE w == Played(who, u, br, {}, keycode, Pos(Other[who]), coin[who])
<1>5. /\ w.bomb_flag = (sensed = "hit" \/ (u.bomb_flag /\ sensed # "free"))
      /\ u.bomb_flag => <<w.x, w.y>> = Home[who] /\ w.mx = 0 /\ w.my = 0
  BY <1>1, PlayedHit
<1> HIDE DEF w
<1>6. sensed # "hit"
  BY NotHitByNothing
<1>7. Pos(who) = Home[who] /\ user[who].mx = 0 /\ user[who].my = 0 => sensed = "free"
  <2> SUFFICES ASSUME Pos(who) = Home[who], user[who].mx = 0, user[who].my = 0
               PROVE  sensed = "free"
    OBVIOUS
  <2>1. <<u.x, u.y>> = Home[who] /\ u.mx = 0 /\ u.my = 0
    BY <1>1 DEF Pos
  <2>2. \A c \in Corners : Board[TileAt(Corner(u)[c])] = Path
    BY <2>1, HomeCorners
  <2> QED BY <1>1, <2>1, <2>2, HomeIsFree
<1> HIDE DEF sensed
<1>8. Edged(who) = w
  BY <1>4 DEF w
<1> QED BY <1>1, <1>5, <1>6, <1>7, <1>8

LEMMA WinHitsStep == Typed /\ WinHits /\ [Next]_vars => WinHits'
<1> SUFFICES ASSUME Typed, WinHits, [Next]_vars, curr_state' \in Wins,
                    NEW who \in Users, user'[who].bomb_flag
             PROVE  \/ count' = 0
                    \/ /\ count' = 1 /\ Pos(who)' = Home[who]
                       /\ user'[who].mx = 0 /\ user'[who].my = 0
  BY DEF WinHits
<1>1. CASE Frame
  <2>1. user'[who] = Edged(who)
    BY <1>1, FrameIs
  <2>2. CASE curr_state \notin Wins
    BY <1>1, <2>2, GameSteps
  <2>3. CASE curr_state \in Wins
    <3>1. user[who].bomb_flag
      BY <2>1, <2>3, QuietFrame
    <3>2. ~(Pos(who) = Home[who] /\ user[who].mx = 0 /\ user[who].my = 0)
      BY <2>1, <2>3, QuietFrame
    <3>3. count = 0
      BY <2>3, <3>1, <3>2 DEF WinHits
    <3>4. count' = 1
      BY <1>1, <2>3, <3>3, GameSteps
    <3>5. <<user'[who].x, user'[who].y>> = Home[who] /\ user'[who].mx = 0 /\ user'[who].my = 0
      BY <2>1, <2>3, <3>1, QuietFrame
    <3> QED BY <3>4, <3>5 DEF Pos
  <2> QED BY <2>2, <2>3
<1>2. CASE Reset
  BY <1>2 DEF Reset, Game!Reset, Wins
<1>3. CASE UNCHANGED vars
  BY <1>3 DEF vars, WinHits, Pos
<1> QED BY <1>1, <1>2, <1>3 DEF Next

\* Types, dark menus and short hits on win screens, together.
THEOREM MatchInvariant == Safety => []MatchInv
<1>1. Init => MatchInv
  BY InitTyped DEF Init, Game!Init, MatchInv, MenuDark, WinHits, Wins
<1>2. MatchInv /\ [Next]_vars => MatchInv'
  <2>1. Typed /\ [Next]_vars => Typed'
    BY FrameTyped, ResetTyped, StillTyped DEF Next
  <2> QED BY <2>1, MenuDarkStep, WinHitsStep DEF MatchInv
<1> QED BY <1>1, <1>2, PTL DEF Safety

\* On a win screen nobody is hit any more from its third frame on, while the bombs
\* that decided the game, and those planted since, burn on behind it.
THEOREM QuietWinCorrect == Safety => []QuietWin
<1>1. MatchInv => QuietWin
  <2> SUFFICES ASSUME MatchInv, curr_state \in Wins, count >= 3, NEW who \in Users
               PROVE  ~user[who].bomb_flag
    BY DEF QuietWin
  <2>1. count # 0 /\ count # 1
    BY DEF MatchInv, Typed, TypeOK, Game!TypeOK
  <2> QED BY <2>1 DEF MatchInv, WinHits
<1> QED BY <1>1, MatchInvariant, PTL

-----------------------------------------------------------------------------
(* Blast registers and bombs *)

\* The fuse goes through all its states in turn, and waits in some of them.
LEMMA FuseTurns ==
    ASSUME Typed, Frame, NEW who \in Users
    PROVE  LET s == bomb_state[who]
               t == bomb_state'[who]
           IN  /\ t \in Cold => s \in Cold \union {"Explode4"}
               /\ t \in Live => s \in Live \union {"Bomb_Count1"}
<1>1. CASE who = "user1"
  <2>1. state1 \in Bomb1!FuseStates /\ state1' = Bomb1!next_state
    BY FrameIs DEF Typed, TypeOK, Bomb1!TypeOK, Bomb1!FuseEdge
  <2>2. /\ state1' \in Cold => state1 \in Cold \union {"Explode4"}
        /\ state1' \in Live => state1 \in Live \union {"Bomb_Count1"}
    BY <2>1, SMTT(60) DEF Bomb1!next_state, Bomb1!Successor, Bomb1!FuseStates, Bomb1!Marker,
                Bomb1!Deadly, Cold, Live, Deadly
  <2>3. bomb_state[who] = state1 /\ bomb_state'[who] = state1'
    BY <1>1 DEF bomb_state
  <2> QED BY <2>2, <2>3
<1>2. CASE who = "user2"
  <2>1. state2 \in Bomb2!FuseStates /\ state2' = Bomb2!next_state
    BY FrameIs DEF Typed, TypeOK, Bomb2!TypeOK, Bomb2!FuseEdge
  <2>2. /\ state2' \in Cold => state2 \in Cold \union {"Explode4"}
        /\ state2' \in Live => state2 \in Live \union {"Bomb_Count1"}
    BY <2>1, SMTT(60) DEF Bomb2!next_state, Bomb2!Successor, Bomb2!FuseStates, Bomb2!Marker,
                Bomb2!Deadly, Cold, Live, Deadly
  <2>3. bomb_state[who] = state2 /\ bomb_state'[who] = state2'
    BY <1>2 DEF bomb_state
  <2> QED BY <2>2, <2>3
<1> QED BY <1>1, <1>2 DEF Users

\* The scan of Explode4 clears the registers, but for user2's in the scan in which
\* both bombs are there.
LEMMA CoolsDown ==
    ASSUME NEW who \in Users, bomb_state[who] = "Explode4",
           ~(who = "user2" /\ state1 = "Explode4" /\ state2 = "Explode4")
    PROVE  Cooled(who)
BY DEF Cooled, bomb_state, Users

LEMMA StaleStep ==
    ASSUME Typed, MenuDark, Frame, NEW who \in Users, Stale(who)', ~Stale(who),
           curr_state # "Pause",
           ~(who = "user2" /\ state1 = "Explode4" /\ state2 = "Explode4")
    PROVE  FALSE
<1>1. bomb_state'[who] \in Cold /\ Scanned[who] # Dark[who]
  BY FrameIs DEF Stale, Dark
<1>2. bomb_state[who] \in Cold \union {"Explode4"}
  BY <1>1, FuseTurns
<1>3. curr_state \notin Wins
  BY <1>1, ScannedOf
<1>4. CASE curr_state \in Stills
  <2>1. die_addr[who] = Dark[who]
    BY <1>4 DEF Stills, MenuDark
  <2>2. Scanned[who] = die_addr[who]
    BY <1>4, ScannedOf, SameRow DEF Typed
  <2> QED BY <1>1, <2>1, <2>2
<1>5. CASE curr_state \notin Stills /\ bomb_state[who] \in Cold
  <2>1. die_addr[who] = Dark[who]
    BY <1>5 DEF Stale
  <2>2. bomb_state[who] \notin Deadly /\ ~Cooled(who)
    BY <1>5 DEF Cold, Deadly, Cooled
  <2>3. Scanned[who] = die_addr[who]
    BY <1>3, <1>5, <2>2, ScannedOf, SameRow DEF Typed
  <2> QED BY <1>1, <2>1, <2>3
<1>6. CASE curr_state \notin Stills /\ bomb_state[who] = "Explode4"
  BY <1>1, <1>3, <1>6, CoolsDown, ScannedOf
<1> QED BY <1>2, <1>4, <1>5, <1>6

\* The registers of a blast are left behind in two cases only, whatever keys, win
\* screens and other bombs come in between: the pause, and two fuses that end
\* together.
THEOREM NoStaleBlastCorrect == Safety => NoStaleBlast
<1> DEFINE A == \A who \in Users : Stale(who)' =>
                  \/ Stale(who)
                  \/ curr_state = "Pause"
                  \/ who = "user2" /\ state1 = "Explode4" /\ state2 = "Explode4"
<1>1. MatchInv /\ [Next]_vars => [A]_vars
  <2> SUFFICES ASSUME MatchInv, Next, NEW who \in Users, Stale(who)', ~Stale(who),
                      curr_state # "Pause",
                      ~(who = "user2" /\ state1 = "Explode4" /\ state2 = "Explode4")
               PROVE  FALSE
    OBVIOUS
  <2>1. CASE Frame
    BY <2>1, StaleStep DEF MatchInv
  <2>2. CASE Reset
    BY <2>2 DEF Reset, Stale, Dark
  <2> QED BY <2>1, <2>2 DEF Next
<1> QED BY <1>1, MatchInvariant, PTL DEF Safety, NoStaleBlast

-----------------------------------------------------------------------------
(* Who is hit *)

\* A part of a cross with a lit tile is loaded, whole.
LEMMA PartLoads ==
    ASSUME curr_state = "Continue", NEW who \in Users, NEW part \in Parts,
           NEW t \in Cells(who, part), Blasts(who, t)
    PROVE  t \in Lethal(Scanned)
<1>1. curr_state \notin Stills \union Wins
  BY DEF Stills, Wins
<1>2. Scanned[who][part] = Cells(who, part)
  BY <1>1 DEF Scanned
<1> HIDE DEF Scanned
<1> QED BY <1>2, LethalIs

\* Of two bombs that reach a tile the first player's takes it, so the tile is lethal.
LEMMA CentreLethal ==
    ASSUME curr_state = "Continue", NEW w \in Users, bomb_state[w] \in Deadly,
           LooksOpen(TileAt(bombPos[w]))
    PROVE  TileAt(bombPos[w]) \in Lethal(Scanned)
<1> DEFINE t == TileAt(bombPos[w])
<1>1. t \in Cells(w, "centre") /\ "centre" \in Parts
  BY DEF TileAt, Cells, Parts
<1>2. t \in Cross(w)
  BY <1>1 DEF Cross
<1> HIDE DEF t
<1>3. CASE w = "user1" \/ ~(bomb_state["user1"] \in Deadly /\ t \in Cross("user1"))
  <2>1. Blasts(w, t)
    BY <1>2, <1>3 DEF Blasts, t
  <2> QED BY <1>1, <2>1, PartLoads DEF t
<1>4. CASE bomb_state["user1"] \in Deadly /\ t \in Cross("user1")
  <2>1. PICK part \in Parts : t \in Cells("user1", part)
    BY <1>4 DEF Cross
  <2>2. Blasts("user1", t) /\ "user1" \in Users
    BY <1>4 DEF Blasts, t, Users
  <2> QED BY <2>1, <2>2, PartLoads DEF t
<1> QED BY <1>3, <1>4

\* Nobody on the tile of a bomb in its blast escapes it, whichever bomb it is.
THEOREM HitInBlastCorrect == Safety => HitInBlast
<1> DEFINE A == \A w, p \in Users :
                  /\ curr_state = "Continue" /\ ~Reset
                  /\ bomb_state[w] \in Deadly
                  /\ TileAt(bombPos[w]) \in Standing(user[p]) /\ LooksOpen(TileAt(bombPos[w]))
                  /\ AtEdge(user[p]) = "none"
                  => user'[p].bomb_flag
<1>1. Typed /\ [Next]_vars => [A]_vars
  <2> SUFFICES ASSUME Typed, Next, NEW w \in Users, NEW p \in Users,
                      curr_state = "Continue", ~Reset, bomb_state[w] \in Deadly,
                      TileAt(bombPos[w]) \in Standing(user[p]), LooksOpen(TileAt(bombPos[w])),
                      AtEdge(user[p]) = "none"
               PROVE  user'[p].bomb_flag
    OBVIOUS
  <2>1. user'[p] = Edged(p)
    BY FrameIs DEF Next
  <2>2. TileAt(bombPos[w]) \in Lethal(Scanned)
    BY CentreLethal
  <2> DEFINE u == Scratched(p)
             br == broken \union Struck
             le == Lethal(Scanned)
             e == Played(p, u, br, le, keycode, Pos(Other[p]), coin[p])
  <2>3. u \in PlayerType /\ (u.mx = 0 \/ u.my = 0) /\ Standing(u) = Standing(user[p])
        /\ AtEdge(u) = "none"
    BY ScratchedFacts
  <2>4. Edged(p) = e
    BY EdgedCases DEF Stills
  <2> HIDE DEF u, br, le
  <2>5. Sense(u, Seen(u, br), le) = "hit"
    BY <2>2, <2>3 DEF Sense, le
  <2>6. e.bomb_flag = (Sense(u, Seen(u, br), le) = "hit"
                          \/ (u.bomb_flag /\ Sense(u, Seen(u, br), le) # "free"))
    BY <2>3, PlayedHit
  <2> HIDE DEF e
  <2> QED BY <2>1, <2>4, <2>5, <2>6
<1> QED BY <1>1, TypesInvariant, PTL DEF Safety, HitInBlast

\* While a bomb is in its blast its registers hold its cells or nothing, and before
\* it they hold nothing.
Traced ==
    \A who \in Users :
        /\ ~Stale(who)
        /\ bomb_state[who] \in Live =>
              \A part \in Parts : die_addr[who][part] \in {{}, Cells(who, part)}

\* No pause, and no way into one.
Unpaused == curr_state # "Pause" /\ keycode \in Keycodes

NeverTogether == ~(state1 = "Explode4" /\ state2 = "Explode4")

LEMMA FusePhases ==
    ASSUME Typed, NEW who \in Users
    PROVE  bomb_state[who] \in Cold \union Live \union {"Explode4"}
BY DEF Typed, TypeOK, Bomb1!TypeOK, Bomb2!TypeOK, Bomb1!FuseStates, Bomb2!FuseStates,
       Bomb1!Marker, Bomb2!Marker, Bomb1!Deadly, Bomb2!Deadly, bomb_state, Users, Cold, Live, Deadly

\* A bomb is put down before its blast and taken away after it.
LEMMA BlastStays ==
    ASSUME Typed, Frame, NEW who \in Users, bomb_state'[who] \in Live
    PROVE  bombPos'[who] = bombPos[who]
<1>0. bomb_state[who] \in Live \union {"Bomb_Count1"}
  BY FuseTurns
<1>1. CASE who = "user1"
  <2>1. state1' = Bomb1!next_state /\ state1' \in Live /\ state1 \in Live \union {"Bomb_Count1"}
    BY <1>0, <1>1, FrameIs DEF bomb_state, Bomb1!FuseEdge
  <2>2. state1 # "Bomb_Count4"
    BY <2>1 DEF Bomb1!next_state, Bomb1!Advances, Bomb1!Marker, Bomb1!Successor, Live, Deadly
  <2>3. ~Bomb1!Expires /\ ~Bomb1!Fits
    BY <2>1, <2>2 DEF Bomb1!Expires, Bomb1!Fits, Live, Deadly
  <2>4. pos1' = pos1
    BY <2>3, FrameIs DEF Bomb1!BombEdge, Bomb1!Remove, Bomb1!Place, Bomb1!Keep
  <2> QED BY <1>1, <2>4 DEF bombPos
<1>2. CASE who = "user2"
  <2>1. state2' = Bomb2!next_state /\ state2' \in Live /\ state2 \in Live \union {"Bomb_Count1"}
    BY <1>0, <1>2, FrameIs DEF bomb_state, Bomb2!FuseEdge
  <2>2. state2 # "Bomb_Count4"
    BY <2>1 DEF Bomb2!next_state, Bomb2!Advances, Bomb2!Marker, Bomb2!Successor, Live, Deadly
  <2>3. ~Bomb2!Expires /\ ~Bomb2!Fits
    BY <2>1, <2>2 DEF Bomb2!Expires, Bomb2!Fits, Live, Deadly
  <2>4. pos2' = pos2
    BY <2>3, FrameIs DEF Bomb2!BombEdge, Bomb2!Remove, Bomb2!Place, Bomb2!Keep
  <2> QED BY <1>2, <2>4 DEF bombPos
<1> QED BY <1>1, <1>2 DEF Users

\* A register is loaded, cleared or kept.
LEMMA ScannedPart ==
    ASSUME NEW who \in Users, NEW part \in Parts
    PROVE  Scanned[who][part] \in {{}, Cells(who, part), die_addr[who][part]}
BY DEF Scanned

LEMMA TracedScan ==
    ASSUME Typed, Traced, NeverTogether, NEW who \in Users, NEW part \in Parts,
           curr_state \notin Stills
    PROVE  /\ bomb_state[who] \in Live \/ Scanned[who][part] = {}
           /\ Scanned[who][part] \in {{}, Cells(who, part)}
<1>0. Dark[who][part] = {}
  BY DEF Dark
<1>1. CASE curr_state \in Wins
  BY <1>0, <1>1, ScannedOf
<1>2. CASE curr_state \notin Wins /\ bomb_state[who] \in Cold
  <2>1. bomb_state[who] \notin Deadly /\ ~Cooled(who)
    BY <1>2 DEF Cold, Deadly, Cooled
  <2>2. Scanned[who] = die_addr[who]
    BY <1>2, <2>1, ScannedOf, SameRow DEF Typed
  <2>3. die_addr[who] = Dark[who]
    BY <1>2 DEF Traced, Stale
  <2> QED BY <1>0, <2>2, <2>3
<1>3. CASE curr_state \notin Wins /\ bomb_state[who] = "Explode4"
  BY <1>0, <1>3, CoolsDown, ScannedOf DEF NeverTogether
<1>4. CASE bomb_state[who] \in Live
  BY <1>4, ScannedPart DEF Traced
<1> QED BY <1>1, <1>2, <1>3, <1>4, FusePhases

LEMMA TracedStep ==
    ASSUME MatchInv, Traced, Unpaused, NeverTogether, [Next]_vars
    PROVE  Traced'
<1>1. CASE Frame
  <2>1. ASSUME NEW who \in Users PROVE ~Stale(who)'
    BY <1>1, <2>1, StaleStep DEF MatchInv, Traced, Unpaused, NeverTogether
  <2>2. ASSUME NEW who \in Users, bomb_state'[who] \in Live, NEW part \in Parts
        PROVE  die_addr'[who][part] \in {{}, Cells(who, part)'}
    <3>1. bombPos'[who] = bombPos[who]
      BY <1>1, <2>2, BlastStays DEF MatchInv
    <3>2. Cells(who, part)' = Cells(who, part)
      BY <3>1 DEF Cells
    <3>3. bomb_state[who] \in Live \union {"Bomb_Count1"}
      BY <1>1, <2>2, FuseTurns DEF MatchInv
    <3>4. die_addr[who][part] \in {{}, Cells(who, part)}
      <4>1. CASE bomb_state[who] \in Live
        BY <4>1 DEF Traced
      <4>2. CASE bomb_state[who] = "Bomb_Count1"
        BY <4>2 DEF Traced, Stale, Cold, Dark
      <4> QED BY <3>3, <4>1, <4>2
    <3>5. Scanned[who][part] \in {{}, Cells(who, part)}
      BY <3>4, ScannedPart
    <3>6. die_addr'[who][part] = Scanned[who][part]
      BY <1>1, FrameIs
    <3> QED BY <3>2, <3>5, <3>6
  <2> QED BY <2>1, <2>2 DEF Traced
<1>2. CASE Reset
  <2>1. die_addr' = Dark
    BY <1>2 DEF Reset
  <2> QED BY <2>1 DEF Traced, Stale, Dark
<1>3. CASE UNCHANGED vars
  BY <1>3 DEF vars, bomb1Vars, bomb2Vars, Traced, Stale, bomb_state, bombPos, Cells, Dark
<1> QED BY <1>1, <1>2, <1>3 DEF Next

\* A new hit comes from a register the scan has left lethal.
LEMMA HitFrom ==
    ASSUME Typed, Frame, NEW p \in Users, user'[p].bomb_flag, ~user[p].bomb_flag
    PROVE  /\ curr_state \notin Stills
           /\ \E w \in Users, part \in Parts, t \in Standing(user[p]) : t \in Scanned[w][part]
<1>1. user'[p] = Edged(p)
  BY FrameIs
<1> DEFINE u == Scratched(p)
           br == broken \union Struck
           le == Lethal(Scanned)
           e == Played(p, u, br, le, keycode, Pos(Other[p]), coin[p])
<1>2. /\ u \in PlayerType /\ (u.mx = 0 \/ u.my = 0) /\ Standing(u) = Standing(user[p])
      /\ u.bomb_flag = user[p].bomb_flag
  BY ScratchedFacts
<1>3. Edged(p) = IF curr_state \in Stills THEN Frozen(u) ELSE e
  BY EdgedCases
<1> HIDE DEF u, br, le
<1>4. curr_state \notin Stills
  BY <1>1, <1>2, <1>3, HitKept
<1>5. e.bomb_flag = (Sense(u, Seen(u, br), le) = "hit"
                        \/ (u.bomb_flag /\ Sense(u, Seen(u, br), le) # "free"))
  BY <1>2, PlayedHit
<1>6. Sense(u, Seen(u, br), le) = "hit"
  <2> HIDE DEF e
  <2> QED BY <1>1, <1>2, <1>3, <1>4, <1>5
<1>7. Standing(u) \intersect le # {}
  BY <1>6, HitNeedsLethal
<1>8. PICK t \in Standing(user[p]) : t \in Lethal(Scanned)
  BY <1>2, <1>7 DEF le
<1> QED BY <1>4, <1>8, LethalIs

\* With no pause key, and as long as the two fuses do not end in one frame, whoever
\* gets hit stands on the cross of a bomb in its blast.
THEOREM HitsHaveCauseCorrect ==
    ASSUME Esc \notin Keycodes
    PROVE  Safety /\ []NeverTogether => HitsHaveCause
<1> DEFINE A == \A p \in Users : user'[p].bomb_flag /\ ~user[p].bomb_flag =>
                  \E w \in Users : /\ bomb_state[w] \in Live
                                   /\ Cross(w) \intersect Standing(user[p]) # {}
           I == Traced /\ Unpaused
<1>1. Init => I
  BY DEF Init, Game!Init, Traced, Stale, Bomb1!Init, Bomb2!Init, Dark, bomb_state, Live, Deadly,
         Users, Unpaused
<1>2. MatchInv /\ I /\ NeverTogether /\ [Next]_vars => I'
  <2> SUFFICES ASSUME MatchInv, I, NeverTogether, [Next]_vars PROVE I'
    OBVIOUS
  <2>1. Traced'
    BY TracedStep
  <2>2. Unpaused'
    <3>1. CASE Frame
      <4>1. keycode # Esc
        BY DEF Unpaused
      <4> QED BY <3>1, <4>1, GameSteps, FrameIs DEF MatchInv, Unpaused
    <3>2. CASE Reset
      BY <3>2 DEF Reset, Game!Reset, Unpaused
    <3>3. CASE UNCHANGED vars
      BY <3>3 DEF vars, Unpaused
    <3> QED BY <3>1, <3>2, <3>3 DEF Next
  <2> QED BY <2>1, <2>2
<1>3. MatchInv /\ I /\ NeverTogether /\ [Next]_vars => [A]_vars
  <2> SUFFICES ASSUME MatchInv, Traced, NeverTogether, Next,
                      NEW p \in Users, user'[p].bomb_flag, ~user[p].bomb_flag
               PROVE  \E w \in Users : /\ bomb_state[w] \in Live
                                       /\ Cross(w) \intersect Standing(user[p]) # {}
    OBVIOUS
  <2>1. CASE Frame
    <3>1. PICK w \in Users, part \in Parts, t \in Standing(user[p]) : t \in Scanned[w][part]
      BY <2>1, HitFrom DEF MatchInv
    <3>2. curr_state \notin Stills
      BY <2>1, HitFrom DEF MatchInv
    <3>3. bomb_state[w] \in Live /\ t \in Cells(w, part)
      BY <3>1, <3>2, TracedScan DEF MatchInv
    <3>4. t \in Cross(w)
      BY <3>3 DEF Cross
    <3> QED BY <3>3, <3>4
  <2>2. CASE Reset
    BY <2>2, FreshHit DEF Reset
  <2> QED BY <2>1, <2>2 DEF Next
<1>4. Safety /\ []NeverTogether => []I
  BY <1>1, <1>2, MatchInvariant, PTL DEF Safety
<1> QED BY <1>3, <1>4, MatchInvariant, PTL DEF Safety, HitsHaveCause

-----------------------------------------------------------------------------
(* The picture *)

\* Of an if / else if chain, the first branch whose test holds.
LEMMA TakenIs ==
    ASSUME NEW chain, NEW n \in Nat, DOMAIN chain = 1 .. n, NEW i \in 1 .. n,
           chain[i].test, \A j \in 1 .. i - 1 : ~chain[j].test
    PROVE  Taken(chain) = chain[i].registers
<1> DEFINE P(k) == chain[k].test /\ \A j \in 1 .. k - 1 : ~chain[j].test
<1>1. First(chain) = CHOOSE k \in 1 .. n : P(k)
  BY DEF First
<1>2. \E k \in 1 .. n : P(k)
  OBVIOUS
<1> DEFINE f == First(chain)
<1>3. f \in 1 .. n /\ P(f)
  <2> HIDE DEF P
  <2> QED BY <1>1, <1>2
<1> HIDE DEF f
<1>4. ~(f < i) /\ ~(i < f)
  BY <1>3
<1>5. f = i
  BY <1>3, <1>4
<1> QED BY <1>5 DEF Taken, f

\* The same with the tests that fail one by one.
LEMMA Taken2 ==
    ASSUME NEW chain, NEW n \in Nat, 2 <= n, DOMAIN chain = 1 .. n,
           ~chain[1].test,
           chain[2].test
    PROVE  Taken(chain) = chain[2].registers
<1>1. \A j \in 1 .. 2 - 1 : j = 1
  OBVIOUS
<1>2. \A j \in 1 .. 2 - 1 : ~chain[j].test
  BY <1>1
<1>3. 2 \in 1 .. n
  OBVIOUS
<1> QED BY <1>2, <1>3, TakenIs

LEMMA Taken3 ==
    ASSUME NEW chain, NEW n \in Nat, 3 <= n, DOMAIN chain = 1 .. n,
           ~chain[1].test, ~chain[2].test,
           chain[3].test
    PROVE  Taken(chain) = chain[3].registers
<1>1. \A j \in 1 .. 3 - 1 : j = 1 \/ j = 2
  OBVIOUS
<1>2. \A j \in 1 .. 3 - 1 : ~chain[j].test
  BY <1>1
<1>3. 3 \in 1 .. n
  OBVIOUS
<1> QED BY <1>2, <1>3, TakenIs

LEMMA Taken4 ==
    ASSUME NEW chain, NEW n \in Nat, 4 <= n, DOMAIN chain = 1 .. n,
           ~chain[1].test, ~chain[2].test, ~chain[3].test,
           chain[4].test
    PROVE  Taken(chain) = chain[4].registers
<1>1. \A j \in 1 .. 4 - 1 : j = 1 \/ j = 2 \/ j = 3
  OBVIOUS
<1>2. \A j \in 1 .. 4 - 1 : ~chain[j].test
  BY <1>1
<1>3. 4 \in 1 .. n
  OBVIOUS
<1> QED BY <1>2, <1>3, TakenIs

LEMMA Taken5 ==
    ASSUME NEW chain, NEW n \in Nat, 5 <= n, DOMAIN chain = 1 .. n,
           ~chain[1].test, ~chain[2].test, ~chain[3].test, ~chain[4].test,
           chain[5].test
    PROVE  Taken(chain) = chain[5].registers
<1>1. \A j \in 1 .. 5 - 1 : j = 1 \/ j = 2 \/ j = 3 \/ j = 4
  OBVIOUS
<1>2. \A j \in 1 .. 5 - 1 : ~chain[j].test
  BY <1>1
<1>3. 5 \in 1 .. n
  OBVIOUS
<1> QED BY <1>2, <1>3, TakenIs

LEMMA Taken6 ==
    ASSUME NEW chain, NEW n \in Nat, 6 <= n, DOMAIN chain = 1 .. n,
           ~chain[1].test, ~chain[2].test, ~chain[3].test, ~chain[4].test, ~chain[5].test,
           chain[6].test
    PROVE  Taken(chain) = chain[6].registers
<1>1. \A j \in 1 .. 6 - 1 : j = 1 \/ j = 2 \/ j = 3 \/ j = 4 \/ j = 5
  OBVIOUS
<1>2. \A j \in 1 .. 6 - 1 : ~chain[j].test
  BY <1>1
<1>3. 6 \in 1 .. n
  OBVIOUS
<1> QED BY <1>2, <1>3, TakenIs

LEMMA Taken7 ==
    ASSUME NEW chain, NEW n \in Nat, 7 <= n, DOMAIN chain = 1 .. n,
           ~chain[1].test, ~chain[2].test, ~chain[3].test, ~chain[4].test, ~chain[5].test,
           ~chain[6].test,
           chain[7].test
    PROVE  Taken(chain) = chain[7].registers
<1>1. \A j \in 1 .. 7 - 1 : j = 1 \/ j = 2 \/ j = 3 \/ j = 4 \/ j = 5 \/ j = 6
  OBVIOUS
<1>2. \A j \in 1 .. 7 - 1 : ~chain[j].test
  BY <1>1
<1>3. 7 \in 1 .. n
  OBVIOUS
<1> QED BY <1>2, <1>3, TakenIs

LEMMA Taken9 ==
    ASSUME NEW chain, NEW n \in Nat, 9 <= n, DOMAIN chain = 1 .. n,
           ~chain[1].test, ~chain[2].test, ~chain[3].test, ~chain[4].test, ~chain[5].test,
           ~chain[6].test, ~chain[7].test, ~chain[8].test,
           chain[9].test
    PROVE  Taken(chain) = chain[9].registers
<1>1. \A j \in 1 .. 9 - 1 : j = 1 \/ j = 2 \/ j = 3 \/ j = 4 \/ j = 5 \/ j = 6 \/ j = 7 \/ j = 8
  OBVIOUS
<1>2. \A j \in 1 .. 9 - 1 : ~chain[j].test
  BY <1>1
<1>3. 9 \in 1 .. n
  OBVIOUS
<1> QED BY <1>2, <1>3, TakenIs

LEMMA Taken10 ==
    ASSUME NEW chain, NEW n \in Nat, 10 <= n, DOMAIN chain = 1 .. n,
           ~chain[1].test, ~chain[2].test, ~chain[3].test, ~chain[4].test, ~chain[5].test,
           ~chain[6].test, ~chain[7].test, ~chain[8].test, ~chain[9].test,
           chain[10].test
    PROVE  Taken(chain) = chain[10].registers
<1>1. \A j \in 1 .. 10 - 1 :
             \/ j = 1 \/ j = 2 \/ j = 3 \/ j = 4 \/ j = 5
             \/ j = 6 \/ j = 7 \/ j = 8 \/ j = 9
  OBVIOUS
<1>2. \A j \in 1 .. 10 - 1 : ~chain[j].test
  BY <1>1
<1>3. 10 \in 1 .. n
  OBVIOUS
<1> QED BY <1>2, <1>3, TakenIs

Numbers == 0 .. 1023

\* Tile numbers in the width of the register are told apart.
LEMMA TilesApart == \A k, l \in Numbers : Tile(k) = Tile(l) => k = l
<1> SUFFICES ASSUME NEW k \in 0 .. 1023, NEW l \in 0 .. 1023, Tile(k) = Tile(l)
             PROVE  k = l
  BY Zenon DEF Numbers
<1>1. k % 1024 = k /\ l % 1024 = l
  BY SMTT(30)
<1>2. k % 20 = l % 20 /\ k \div 20 = l \div 20
  BY <1>1, SMTT(30) DEF Tile
<1>3. k % 20 = l % 20
  BY <1>2
<1>4. k \div 20 = l \div 20
  BY <1>2
<1> QED BY <1>3, <1>4, SMTT(60)

\* The arms of a cross do not overlap, also where they wrap round the 10 bits.
LEMMA ArmsApart ==
    ASSUME TypeOK, NEW who \in Users
    PROVE  /\ Cells(who, "centre") \intersect Cells(who, "column") = {}
           /\ Cells(who, "centre") \intersect Cells(who, "row") = {}
           /\ Cells(who, "column") \intersect Cells(who, "row") = {}
<1>1. PICK n \in 0 .. 671 : TileNumber(bombPos[who]) = n
  BY BombTile
<1>2. PICK a \in 0 .. 1023 : a = (n - 20) % 1024
  OBVIOUS
<1>3. PICK b \in 0 .. 1023 : b = (n - 1) % 1024
  OBVIOUS
<1>4. Tile(n - 20) = Tile(a) /\ Tile(n - 1) = Tile(b)
  BY <1>2, <1>3 DEF Tile
<1>5. /\ Cells(who, "centre") = {Tile(n)}
      /\ Cells(who, "column") = {Tile(a), Tile(n + 20)}
      /\ Cells(who, "row") = {Tile(b), Tile(n + 1)}
  BY <1>1, <1>4 DEF Cells
<1>6. /\ a # n /\ b # n /\ a # b /\ a # n + 1 /\ n + 20 # b
      /\ n + 20 \in 0 .. 1023 /\ n + 1 \in 0 .. 1023
  <2>1. a = IF n < 20 THEN n + 1004 ELSE n - 20
    <3>1. PICK m \in -20 .. 651 : m = n - 20
      OBVIOUS
    <3>2. m % 1024 = IF m < 0 THEN m + 1024 ELSE m
      OBVIOUS
    <3> QED BY <1>2, <3>1, <3>2
  <2>2. b = IF n < 1 THEN n + 1023 ELSE n - 1
    <3>1. PICK m \in -1 .. 670 : m = n - 1
      OBVIOUS
    <3>2. m % 1024 = IF m < 0 THEN m + 1024 ELSE m
      OBVIOUS
    <3> QED BY <1>3, <3>1, <3>2
  <2> QED BY <2>1, <2>2
<1>71. PICK c \in 0 .. 1023 : c = n + 20
  BY <1>6
<1>72. PICK d \in 0 .. 1023 : d = n + 1
  BY <1>6
<1>8. n # c /\ n # d /\ n # a /\ n # b /\ a # b /\ a # d /\ c # b /\ c # d
  BY <1>6, <1>71, <1>72
<1>9. n \in Numbers /\ a \in Numbers /\ b \in Numbers /\ c \in Numbers /\ d \in Numbers
  BY DEF Numbers
<1>10. /\ Tile(n) # Tile(a) /\ Tile(n) # Tile(c) /\ Tile(n) # Tile(b) /\ Tile(n) # Tile(d)
       /\ Tile(a) # Tile(b) /\ Tile(a) # Tile(d) /\ Tile(c) # Tile(b) /\ Tile(c) # Tile(d)
  BY <1>8, <1>9, TilesApart
<1> QED BY <1>5, <1>71, <1>72, <1>10

\* The parking spot and its neighbours are below the screen.
LEMMA ParkedUnseen ==
    ASSUME NEW who \in Users, bombPos[who] = <<700, 500>>, NEW part \in Parts,
           NEW t \in OnScreen
    PROVE  t \notin Cells(who, part)
<1>1. TileNumber(<<700, 500>>) = 321
  BY DEF TileNumber
<1>2. /\ Tile(321) = <<1, 16>> /\ Tile(321 - 20) = <<1, 15>> /\ Tile(321 + 20) = <<1, 17>>
      /\ Tile(321 - 1) = <<0, 16>> /\ Tile(321 + 1) = <<2, 16>>
  BY DEF Tile
<1>3. Cells(who, part) \subseteq {<<1, 16>>, <<1, 15>>, <<1, 17>>, <<0, 16>>, <<2, 16>>}
  BY <1>1, <1>2 DEF Cells, Parts
<1>4. t \notin {<<1, 16>>, <<1, 15>>, <<1, 17>>, <<0, 16>>, <<2, 16>>}
  BY DEF OnScreen
<1> QED BY <1>3, <1>4

LEMMA GroundTypes ==
    ASSUME Typed, NEW t \in Open
    PROVE  TypeOf(t, broken) \in {Path, Brick, Safeport, Hazard}
<1>1. t \in Tiles
  BY DEF Open, OnScreen, Tiles
<1>2. Board[t] \in Path .. Hazard /\ Board[t] # Wall
  BY <1>1, BoardAssumption DEF BoardAssumption, Open
<1> QED BY <1>2, SMTT(30) DEF TypeOf, Path, Wall, Brick, Safeport, Hazard

\* The one bomb that is on the field, in its blast, and the tile that is drawn.
OneBlast(who) == /\ bomb_state[who] \in Deadly
                 /\ bomb_state[Other[who]] = "Before" /\ bombPos[Other[who]] = Bomb1!Parked

LEMMA BlastTests ==
    ASSUME Typed, NEW who \in Users, OneBlast(who), NEW t \in Open
    PROVE  /\ LoadsCentre(t) <=> t \in Cells(who, "centre")
           /\ LoadsRow(t)    <=> t \in Cells(who, "row")
           /\ LoadsColumn(t) <=> t \in Cells(who, "column")
           /\ ~EitherIn({"Explode4"})
           /\ \A part \in Parts : /\ ShowsBlast(who, part, t) <=> t \in Cells(who, part)
                                 /\ ~ShowsBlast(Other[who], part, t)
<1>1. Users = {who, Other[who]} /\ Other[who] \in Users
  BY DEF Users, Other
<1>2. t \in OnScreen /\ bombPos[Other[who]] = <<700, 500>>
  BY DEF Open, OneBlast, Bomb1!Parked
<1>3. \A part \in Parts : t \notin Cells(Other[who], part)
  BY <1>1, <1>2, ParkedUnseen
<1>4. \A part \in Parts : EitherReaches(part, t) <=> t \in Cells(who, part)
  BY <1>1, <1>3 DEF EitherReaches, Reaches
<1>5. ASSUME NEW states, "Before" \notin states
      PROVE  EitherIn(states) <=> bomb_state[who] \in states
  BY <1>1, <1>5 DEF EitherIn, OneBlast
<1>6. bomb_state[who] \in Small \/ bomb_state[who] \in Big
  BY DEF OneBlast, Deadly, Small, Big
<1>7. "Before" \notin Small /\ "Before" \notin Big /\ "Before" \notin {"Explode4"}
  BY DEF Small, Big
<1>8. /\ EitherIn(Small) <=> bomb_state[who] \in Small
      /\ EitherIn(Big) <=> bomb_state[who] \in Big
      /\ EitherIn({"Explode4"}) <=> bomb_state[who] \in {"Explode4"}
  BY <1>5, <1>7
<1>9. ~EitherIn({"Explode4"})
  BY <1>8 DEF OneBlast, Deadly
<1>10. /\ LoadsCentre(t) <=> t \in Cells(who, "centre")
       /\ LoadsColumn(t) <=> t \in Cells(who, "column")
  BY <1>4, <1>6, <1>8 DEF LoadsCentre, LoadsColumn, Parts
<1>11. LoadsRow(t) <=> t \in Cells(who, "row")
  <2>1. CASE who = "user1"
    <3>1. Other[who] = "user2"
      BY <2>1 DEF Other
    <3> QED BY <1>3, <1>4, <1>6, <1>8, <2>1, <3>1 DEF LoadsRow, Reaches, Parts
  <2>2. CASE who = "user2"
    <3>1. Other[who] = "user1"
      BY <2>2 DEF Other
    <3> QED BY <1>3, <1>4, <1>6, <1>8, <2>2, <3>1 DEF LoadsRow, Reaches, Parts
  <2> QED BY <2>1, <2>2 DEF Users
<1>12. \A part \in Parts : /\ ShowsBlast(who, part, t) <=> t \in Cells(who, part)
                         /\ ~ShowsBlast(Other[who], part, t)
  BY <1>3 DEF ShowsBlast, Reaches, OneBlast
<1> QED BY <1>9, <1>10, <1>11, <1>12

\* Every tile loads the flame that reaches it, and its own ground otherwise.
LEMMA LoadedIs ==
    ASSUME Typed, NEW who \in Users, OneBlast(who), NEW t \in Open
    PROVE  /\ t \in Cells(who, "centre") => "EX" \in Loaded(t)
           /\ t \in Cells(who, "row") => "LREX" \in Loaded(t)
           /\ t \in Cells(who, "column") => "TBEX" \in Loaded(t)
           /\ (\A part \in Parts : t \notin Cells(who, part)) =>
                 /\ TypeOf(t, broken) = Brick => "Brick" \in Loaded(t)
                 /\ TypeOf(t, broken) # Brick => Ground(t) \in Loaded(t)
           /\ Sprites \union Screens \union Plain \subseteq Loaded(t)
<1> DEFINE type == TypeOf(t, broken)
           C == LoadsCentre(t)
           R == LoadsRow(t)
           B == LoadsColumn(t)
           chain == <<Branch(type = Wall, {"Wall"}),
                      Branch(C, {"EX"}),
                      Branch(R, {"LREX"}),
                      Branch(B, {"TBEX"}),
                      Branch(type = Safeport, {"SPPU"}),
                      Branch(type = Hazard,   {"BOPU"}),
                      Branch(type = Brick,    {"Brick"}),
                      Branch(TRUE, {})>>
<1>1. Loaded(t) = Sprites \union Screens \union Plain \union Taken(chain)
  BY DEF Loaded
<1>2. /\ C <=> t \in Cells(who, "centre")
      /\ R <=> t \in Cells(who, "row")
      /\ B <=> t \in Cells(who, "column")
  BY BlastTests
<1>3. type \in {Path, Brick, Safeport, Hazard} /\ type # Wall
  <2>1. type \in {Path, Brick, Safeport, Hazard}
    BY GroundTypes
  <2> QED BY <2>1 DEF Path, Wall, Brick, Safeport, Hazard
<1>4. /\ ~(t \in Cells(who, "centre") /\ t \in Cells(who, "row"))
      /\ ~(t \in Cells(who, "centre") /\ t \in Cells(who, "column"))
      /\ ~(t \in Cells(who, "row") /\ t \in Cells(who, "column"))
  BY ArmsApart DEF Typed
<1>5. "centre" \in Parts /\ "row" \in Parts /\ "column" \in Parts
  BY DEF Parts
<1> HIDE DEF type, C, R, B
<1>5a. DOMAIN chain = 1 .. 8 /\ 8 \in Nat
  OBVIOUS
<1>5e. 2 <= 8 /\ 3 <= 8 /\ 4 <= 8 /\ 5 <= 8 /\ 6 <= 8 /\ 7 <= 8
  OBVIOUS
<1>5b. /\ chain[1].test <=> type = Wall
       /\ chain[2].test <=> C
       /\ chain[3].test <=> R
       /\ chain[4].test <=> B
  BY DEF Branch
<1>5c. /\ chain[5].test <=> type = Safeport
       /\ chain[6].test <=> type = Hazard
       /\ chain[7].test <=> type = Brick
  BY DEF Branch
<1>5d. /\ chain[2].registers = {"EX"} /\ chain[3].registers = {"LREX"} /\ chain[4].registers = {"TBEX"}
       /\ chain[5].registers = {"SPPU"} /\ chain[6].registers = {"BOPU"}
       /\ chain[7].registers = {"Brick"}
  BY DEF Branch
<1> HIDE DEF chain
<1>7. /\ Sprites \union Screens \union Plain \subseteq Loaded(t)
      /\ Taken(chain) \subseteq Loaded(t)
  BY <1>1
<1>8. ASSUME t \in Cells(who, "centre") PROVE "EX" \in Loaded(t)
  <2>1. ~chain[1].test /\ chain[2].test
    BY <1>2, <1>3, <1>5b, <1>8
  <2>2. Taken(chain) = chain[2].registers
    BY <1>5a, <1>5e, <2>1, Taken2
  <2> QED BY <1>5d, <1>7, <2>2
<1>9. ASSUME t \in Cells(who, "row") PROVE "LREX" \in Loaded(t)
  <2>1. ~chain[1].test /\ ~chain[2].test /\ chain[3].test
    BY <1>2, <1>3, <1>4, <1>5b, <1>9
  <2>2. Taken(chain) = chain[3].registers
    BY <1>5a, <1>5e, <2>1, Taken3
  <2> QED BY <1>5d, <1>7, <2>2
<1>10. ASSUME t \in Cells(who, "column") PROVE "TBEX" \in Loaded(t)
  <2>1. ~chain[1].test /\ ~chain[2].test /\ ~chain[3].test /\ chain[4].test
    BY <1>2, <1>3, <1>4, <1>5b, <1>10
  <2>2. Taken(chain) = chain[4].registers
    BY <1>5a, <1>5e, <2>1, Taken4
  <2> QED BY <1>5d, <1>7, <2>2
<1>11. ASSUME \A part \in Parts : t \notin Cells(who, part)
       PROVE  /\ type = Brick => "Brick" \in Loaded(t)
              /\ type # Brick => Ground(t) \in Loaded(t)
  <2>0. ~chain[1].test /\ ~chain[2].test /\ ~chain[3].test /\ ~chain[4].test
    BY <1>2, <1>3, <1>5, <1>5b, <1>11
  <2>1. CASE type = Safeport
    <3>1. Taken(chain) = chain[5].registers
      BY <1>5a, <1>5e, <1>5c, <2>0, <2>1, Taken5
    <3>2. Ground(t) = "SPPU" /\ type # Brick
      BY <2>1 DEF Ground, type, Safeport, Hazard, Brick
    <3> QED BY <1>5d, <1>7, <3>1, <3>2
  <2>2. CASE type = Hazard
    <3>0. ~chain[5].test
      BY <1>5c, <2>2 DEF Hazard, Safeport
    <3>1. Taken(chain) = chain[6].registers
      BY <1>5a, <1>5e, <2>0, <2>2, <3>0, <1>5c, Taken6
    <3>2. Ground(t) = "BOPU" /\ type # Brick
      BY <2>2 DEF Ground, type, Safeport, Hazard, Brick
    <3> QED BY <1>5d, <1>7, <3>1, <3>2
  <2>3. CASE type = Brick
    <3>0. ~chain[5].test /\ ~chain[6].test
      BY <1>5c, <2>3 DEF Hazard, Safeport, Brick
    <3>1. Taken(chain) = chain[7].registers
      BY <1>5a, <1>5e, <2>0, <2>3, <3>0, <1>5c, Taken7
    <3> QED BY <1>5d, <1>7, <2>3, <3>1
  <2>4. CASE type = Path
    <3>1. Ground(t) = "field" /\ type # Brick
      BY <2>4 DEF Ground, type, Path, Safeport, Hazard, Brick
    <3> QED BY <1>7, <3>1 DEF Plain
  <2> QED BY <1>3, <2>1, <2>2, <2>3, <2>4
<1> QED BY <1>7, <1>8, <1>9, <1>10, <1>11 DEF type

\* And the second chain picks no other colours for it.
LEMMA ShowsPlayIs ==
    ASSUME Typed, NEW who \in Users, OneBlast(who), NEW t \in Open
    PROVE  ShowsPlay(t) \subseteq Loaded(t)
<1> DEFINE type == TypeOf(t, broken)
           S(w, part) == ShowsBlast(w, part, t)
           E == EitherIn({"Explode4"})
           chain == <<Branch(type = Wall, {"Wall"}),
                      Branch(S("user1", "centre"), {"EX"}),
                      Branch(S("user1", "column"), {"TBEX"}),
                      Branch(S("user1", "row"),    {"LREX"}),
                      Branch(S("user2", "centre"), {"EX"}),
                      Branch(S("user2", "column"), {"TBEX"}),
                      Branch(S("user2", "row"),    {"LREX"}),
                      Branch(E, {"EX"}),
                      Branch(type = Brick, {"Brick"}),
                      Branch(TRUE, SpritesOver(t) \union {Ground(t)})>>
<1>1. ShowsPlay(t) = Taken(chain)
  BY DEF ShowsPlay
<1>2. type # Wall
  BY GroundTypes DEF Path, Wall, Brick, Safeport, Hazard
<1>3. ~E
  BY BlastTests
<1>4. \A part \in Parts : /\ S(who, part) <=> t \in Cells(who, part)
                         /\ ~S(Other[who], part)
  BY BlastTests
<1>5. /\ S(who, "centre") <=> t \in Cells(who, "centre")
      /\ S(who, "row")    <=> t \in Cells(who, "row")
      /\ S(who, "column") <=> t \in Cells(who, "column")
      /\ ~S(Other[who], "centre") /\ ~S(Other[who], "row") /\ ~S(Other[who], "column")
  BY <1>4 DEF Parts
<1>6. SpritesOver(t) \subseteq Loaded(t)
  BY LoadedIs DEF SpritesOver
<1>7. \A part \in Parts : part \in {"centre", "column", "row"}
  BY DEF Parts
<1> HIDE DEF type, S, E
<1>11. DOMAIN chain = 1 .. 10 /\ 10 \in Nat
  OBVIOUS
<1>12. 2 <= 10 /\ 3 <= 10 /\ 4 <= 10 /\ 5 <= 10 /\ 6 <= 10 /\ 7 <= 10 /\ 9 <= 10 /\ 10 <= 10
  OBVIOUS
<1>13. /\ chain[1].test <=> type = Wall
       /\ chain[2].test <=> S("user1", "centre")
       /\ chain[3].test <=> S("user1", "column")
       /\ chain[4].test <=> S("user1", "row")
  BY DEF Branch
<1>14. /\ chain[5].test <=> S("user2", "centre")
       /\ chain[6].test <=> S("user2", "column")
       /\ chain[7].test <=> S("user2", "row")
  BY DEF Branch
<1>15. /\ chain[8].test <=> E
       /\ chain[9].test <=> type = Brick
       /\ chain[10].test
  BY DEF Branch
<1>16. /\ chain[2].registers = {"EX"} /\ chain[3].registers = {"TBEX"} /\ chain[4].registers = {"LREX"}
       /\ chain[5].registers = {"EX"} /\ chain[6].registers = {"TBEX"} /\ chain[7].registers = {"LREX"}
  BY DEF Branch
<1>17. /\ chain[9].registers = {"Brick"}
       /\ chain[10].registers = SpritesOver(t) \union {Ground(t)}
  BY DEF Branch
<1> HIDE DEF chain
<1>20. ~chain[1].test /\ ~chain[8].test
  BY <1>2, <1>3, <1>13, <1>15
<1>21. CASE t \in Cells(who, "centre")
  <2>1. CASE who = "user1"
    <3>1. chain[2].test
      BY <1>5, <1>13, <1>21, <2>1
    <3>2. Taken(chain) = chain[2].registers
      BY <1>11, <1>12, <1>20, <3>1, Taken2
    <3> QED BY <1>1, <1>16, <1>21, <3>2, LoadedIs
  <2>2. CASE who = "user2"
    <3>1. ~chain[2].test /\ ~chain[3].test /\ ~chain[4].test /\ chain[5].test
      BY <1>5, <1>13, <1>14, <1>21, <2>2 DEF Other
    <3>2. Taken(chain) = chain[5].registers
      BY <1>11, <1>12, <1>20, <3>1, Taken5
    <3> QED BY <1>1, <1>16, <1>21, <3>2, LoadedIs
  <2> QED BY <2>1, <2>2 DEF Users
<1>22. CASE t \in Cells(who, "column") /\ t \notin Cells(who, "centre")
  <2>1. CASE who = "user1"
    <3>1. ~chain[2].test /\ chain[3].test
      BY <1>5, <1>13, <1>22, <2>1
    <3>2. Taken(chain) = chain[3].registers
      BY <1>11, <1>12, <1>20, <3>1, Taken3
    <3> QED BY <1>1, <1>16, <1>22, <3>2, LoadedIs
  <2>2. CASE who = "user2"
    <3>1. ~chain[2].test /\ ~chain[3].test /\ ~chain[4].test /\ ~chain[5].test /\ chain[6].test
      BY <1>5, <1>13, <1>14, <1>22, <2>2 DEF Other
    <3>2. Taken(chain) = chain[6].registers
      BY <1>11, <1>12, <1>20, <3>1, Taken6
    <3> QED BY <1>1, <1>16, <1>22, <3>2, LoadedIs
  <2> QED BY <2>1, <2>2 DEF Users
<1>23. CASE t \in Cells(who, "row") /\ t \notin Cells(who, "centre") /\ t \notin Cells(who, "column")
  <2>1. CASE who = "user1"
    <3>1. ~chain[2].test /\ ~chain[3].test /\ chain[4].test
      BY <1>5, <1>13, <1>23, <2>1
    <3>2. Taken(chain) = chain[4].registers
      BY <1>11, <1>12, <1>20, <3>1, Taken4
    <3> QED BY <1>1, <1>16, <1>23, <3>2, LoadedIs
  <2>2. CASE who = "user2"
    <3>1. /\ ~chain[2].test /\ ~chain[3].test /\ ~chain[4].test
          /\ ~chain[5].test /\ ~chain[6].test /\ chain[7].test
      BY <1>5, <1>13, <1>14, <1>23, <2>2 DEF Other
    <3>2. Taken(chain) = chain[7].registers
      BY <1>11, <1>12, <1>20, <3>1, Taken7
    <3> QED BY <1>1, <1>16, <1>23, <3>2, LoadedIs
  <2> QED BY <2>1, <2>2 DEF Users
<1>24. CASE t \notin Cells(who, "row") /\ t \notin Cells(who, "centre") /\ t \notin Cells(who, "column")
  <2>1. \A part \in Parts : t \notin Cells(who, part)
    BY <1>7, <1>24
  <2>2. /\ ~chain[2].test /\ ~chain[3].test /\ ~chain[4].test
        /\ ~chain[5].test /\ ~chain[6].test /\ ~chain[7].test
    <3>1. \A part \in {"centre", "column", "row"} : ~S(who, part) /\ ~S(Other[who], part)
      BY <1>5, <1>24
    <3>2. \A part \in {"centre", "column", "row"} : ~S("user1", part) /\ ~S("user2", part)
      BY <3>1 DEF Users, Other
    <3> QED BY <1>13, <1>14, <3>2
  <2>3. CASE type = Brick
    <3>1. Taken(chain) = chain[9].registers
      BY <1>11, <1>12, <1>15, <1>20, <2>2, <2>3, Taken9
    <3>2. "Brick" \in Loaded(t)
      BY <2>1, <2>3, LoadedIs DEF type
    <3> QED BY <1>1, <1>17, <3>1, <3>2
  <2>4. CASE type # Brick
    <3>1. ~chain[9].test
      BY <1>15, <2>4
    <3>2. Taken(chain) = chain[10].registers
      BY <1>11, <1>12, <1>15, <1>20, <2>2, <3>1, Taken10
    <3>3. Ground(t) \in Loaded(t)
      BY <2>1, <2>4, LoadedIs DEF type
    <3> QED BY <1>1, <1>6, <1>17, <3>2, <3>3
  <2> QED BY <2>3, <2>4
<1> QED BY <1>21, <1>22, <1>23, <1>24

\* While a bomb explodes and the other is put away, no tile is drawn in colours
\* that another tile has left in the registers.
THEOREM OwnColoursCorrect == Safety => []OwnColours
<1>1. ASSUME Typed, NEW who \in Users, OneBlast(who), NEW t \in Open
      PROVE  Shows(t) \subseteq Loaded(t)
  <2>1. Screens \subseteq Loaded(t) /\ Plain \subseteq Loaded(t)
    BY <1>1, LoadedIs
  <2>2. curr_state \in Game!GameStates
    BY <1>1 DEF Typed, TypeOK, Game!TypeOK
  <2>3. CASE curr_state = "Continue"
    BY <1>1, <2>3, ShowsPlayIs DEF Shows
  <2>4. CASE curr_state # "Continue"
    <3>1. Shows(t) \subseteq Screens \union Plain
      BY <2>2, <2>4 DEF Shows, Boxed, Screens, Plain, Game!GameStates, Game!Menu, Game!Wins
    <3> QED BY <2>1, <3>1
  <2> QED BY <2>3, <2>4
<1>2. Typed => OwnColours
  BY <1>1 DEF OwnColours, OneBlast
<1> QED BY <1>2, TypesInvariant, PTL

-----------------------------------------------------------------------------
(* The end of the game *)

\* Why a player may be lost: no life is left, or a hazard tile is adding to
\* max_lives, or a teleport is still to end.
MayBeLost(u) == u.death_count >= u.max_lives \/ OnHazardTiles(u) \/ u.port_flag = TRUE

\* No win screen comes up by a die_flag that is left over.
GameEndsHonestly ==
    [][curr_state = "Continue" =>
          /\ curr_state' = "P2Win" => MayBeLost(user["user1"])
          /\ curr_state' = "P1Win" => MayBeLost(user["user2"])]_vars

\* All lives gone, and neither a hit nor a teleport before that in the chain.
Lost(u) == u.death_count >= u.max_lives /\ u.bomb_flag = FALSE /\ u.port_flag = FALSE

\* In play nothing keeps a lost player's die_flag down, and nothing outlives it: the
\* state machine leaves play in the frame after.
LostLoses ==
    [][\A who \in Users : curr_state = "Continue" /\ ~Reset =>
          /\ Lost(user[who]) => user'[who].die_flag = TRUE
          /\ user[who].die_flag = TRUE => curr_state' # "Continue"]_vars

Honesty == \A who \in Users : Honest(user[who])

LEMMA ScratchedKeeps ==
    ASSUME Typed, NEW who \in Users
    PROVE  LET u == Scratched(who)
           IN  /\ Honest(user[who]) => Honest(u)
               /\ u.bomb_flag = user[who].bomb_flag /\ u.port_flag = user[who].port_flag
               /\ u.death_count = user[who].death_count /\ u.max_lives = user[who].max_lives
               /\ u.walls = user[who].walls
<1> DEFINE p == user[who]
           o == Overwritten(p)
<1>1. p \in PlayerType
  BY DEF Typed, TwoPlayers
<1>2. Scratched(who) = p \/ Scratched(who) = o
  BY DEF Scratched
<1> HIDE DEF p
<1>3. /\ o.bomb_flag = p.bomb_flag /\ o.port_flag = p.port_flag
      /\ o.death_count = p.death_count /\ o.max_lives = p.max_lives
      /\ o.walls = p.walls
  BY <1>1, Fields DEF Overwritten, Names
<1>4. Honest(p) => Honest(o)
  BY <1>1, HonestFlags
<1> HIDE DEF o
<1> QED BY <1>2, <1>3, <1>4 DEF p

LEMMA EdgedHonest ==
    ASSUME Typed, Honesty, NEW who \in Users
    PROVE  Honest(Edged(who))
<1> DEFINE u == Scratched(who)
<1>1. u \in PlayerType /\ (u.mx = 0 \/ u.my = 0)
  BY ScratchedFacts
<1>2. Honest(u)
  BY ScratchedKeeps DEF Honesty
<1>3. Other[who] \in Users
  BY DEF Other, Users
<1>4. PICK a \in Coord, b \in Coord : Pos(Other[who]) = <<a, b>>
  BY <1>3, PosIsPlace
<1>5. PICK c \in BOOLEAN : coin[who] = c
  BY DEF Typed, TypeOK
<1> HIDE DEF u
<1>6. CASE curr_state \in Stills
  <2>1. Edged(who) = Frozen(u)
    BY <1>6, EdgedCases DEF u
  <2> QED BY <1>1, <1>2, <2>1, HonestFlags
<1>7. CASE curr_state \notin Stills
  <2> DEFINE br == broken \union Struck
             le == Lethal(Scanned)
  <2>1. Edged(who) = Played(who, u, br, le, keycode, <<a, b>>, c)
    BY <1>4, <1>5, <1>7, EdgedCases DEF u
  <2> HIDE DEF br, le
  <2>2. Honest(Played(who, u, br, le, keycode, <<a, b>>, c))
    BY <1>1, HonestPlay
  <2> QED BY <2>1, <2>2
<1> QED BY <1>6, <1>7

LEMMA HonestyStep == Typed /\ Honesty /\ [Next]_vars => Honesty'
<1> SUFFICES ASSUME Typed, Honesty, [Next]_vars, NEW who \in Users
             PROVE  Honest(user'[who])
  BY DEF Honesty, Honest, OnHazardTiles
<1>1. CASE Frame
  BY <1>1, FrameIs, EdgedHonest
<1>2. CASE Reset
  BY <1>2, HonestFresh DEF Reset
<1>3. CASE UNCHANGED vars
  BY <1>3 DEF vars, Honesty
<1> QED BY <1>1, <1>2, <1>3 DEF Next

\* On every board, and with everything between the players that the game has: who
\* loses has no life left, or stands on a hazard, or is about to be teleported; a hit
\* never leaves a die_flag that ends the game later.
THEOREM GameEndsCorrect == Safety => GameEndsHonestly
<1>1. Init => Honesty
  BY HonestFresh DEF Init, Honesty
<1>2. Typed /\ Honesty /\ [Next]_vars =>
        [curr_state = "Continue" =>
            /\ curr_state' = "P2Win" => MayBeLost(user["user1"])
            /\ curr_state' = "P1Win" => MayBeLost(user["user2"])]_vars
  <2> SUFFICES ASSUME Typed, Honesty, Next, curr_state = "Continue"
               PROVE  /\ curr_state' = "P2Win" => MayBeLost(user["user1"])
                      /\ curr_state' = "P1Win" => MayBeLost(user["user2"])
    OBVIOUS
  <2>1. \A who \in Users : user[who].die_flag = TRUE => MayBeLost(user[who])
    BY DEF Honesty, Honest, MayBeLost
  <2>2. CASE Frame
    <3> DEFINE p == user["user1"].die_flag
               q == user["user2"].die_flag
    <3>1. Game!FsmEdge(p, q)
      BY <2>2, FrameIs
    <3>2. p \in BOOLEAN /\ q \in BOOLEAN
      <4>1. user["user1"] \in PlayerType /\ user["user2"] \in PlayerType
        BY DEF Typed, TwoPlayers, Users
      <4> QED BY <4>1 DEF PlayerType
    <3> HIDE DEF p, q
    <3>3. (curr_state' = "P2Win" => p = TRUE) /\ (curr_state' = "P1Win" => q = TRUE)
      BY <3>1, <3>2 DEF Game!FsmEdge, Game!Begin, Game!HideText, Game!ShowText, Game!PauseGame,
         Game!EndGame, Game!BackToMenu, Game!Stay, Game!Menu, Game!Wins
    <3> QED BY <2>1, <3>3 DEF p, q, Users
  <2>3. CASE Reset
    BY <2>3 DEF Reset, Game!Reset
  <2> QED BY <2>2, <2>3 DEF Next
<1> QED BY <1>1, <1>2, HonestyStep, TypesInvariant, PTL DEF Safety, GameEndsHonestly

\* The third branch of the second chain, which no key and no test of the first chain
\* overrides.
LEMMA LostDies ==
    ASSUME NEW who \in Users, NEW u \in PlayerType, u.mx = 0 \/ u.my = 0, Lost(u),
           NEW B, NEW lethal, NEW key, NEW other, NEW c
    PROVE  Played(who, u, B, lethal, key, other, c).die_flag = TRUE
<1> DEFINE sensed == Sense(u, Seen(u, B), lethal)
           v == Flagged(who, u, key)[sensed]
<1>1. sensed \in Senses
  BY SenseRange
<1> HIDE DEF sensed
<1>2. v \in PlayerType
  BY <1>1, FlaggedFacts
<1> HIDE DEF v
<1>3. [v EXCEPT !.die_flag = TRUE].die_flag = TRUE
  BY <1>2, Fields DEF Names
<1>4. Moved(who, u, v, other, c) = [v EXCEPT !.die_flag = TRUE]
  BY DEF Moved, Lost
<1> QED BY <1>3, <1>4 DEF Played, v, sensed

\* On every board: a player without lives, hits and teleports has its die_flag up after
\* one frame of play, and the game is not in play after the next.
THEOREM LostLosesCorrect == Safety => LostLoses
<1>1. Typed /\ [Next]_vars =>
        [\A who \in Users : curr_state = "Continue" /\ ~Reset =>
            /\ Lost(user[who]) => user'[who].die_flag = TRUE
            /\ user[who].die_flag = TRUE => curr_state' # "Continue"]_vars
  <2> SUFFICES ASSUME Typed, Frame, NEW who \in Users, curr_state = "Continue"
               PROVE  /\ Lost(user[who]) => user'[who].die_flag = TRUE
                      /\ user[who].die_flag = TRUE => curr_state' # "Continue"
    BY DEF Next
  <2>1. ASSUME Lost(user[who]) PROVE user'[who].die_flag = TRUE
    <3> DEFINE u == Scratched(who)
               br == broken \union Struck
               le == Lethal(Scanned)
    <3>1. u \in PlayerType /\ (u.mx = 0 \/ u.my = 0)
      BY ScratchedFacts
    <3>2. Lost(u)
      BY <2>1, ScratchedKeeps DEF Lost
    <3>3. Edged(who) = Played(who, u, br, le, keycode, Pos(Other[who]), coin[who])
      BY EdgedCases DEF Stills
    <3> HIDE DEF u, br, le
    <3>4. Played(who, u, br, le, keycode, Pos(Other[who]), coin[who]).die_flag = TRUE
      BY <3>1, <3>2, LostDies
    <3> QED BY <3>3, <3>4, FrameIs
  <2>2. ASSUME user[who].die_flag = TRUE PROVE curr_state' # "Continue"
    <3> DEFINE p == user["user1"].die_flag
               q == user["user2"].die_flag
    <3>1. Game!FsmEdge(p, q)
      BY FrameIs
    <3>2. p = TRUE \/ q = TRUE
      BY <2>2 DEF Users
    <3> HIDE DEF p, q
    <3> QED BY <3>1, <3>2
            DEF Game!FsmEdge, Game!Begin, Game!HideText, Game!ShowText, Game!PauseGame,
                Game!EndGame, Game!BackToMenu, Game!Stay, Game!Menu, Game!Wins
  <2> QED BY <2>1, <2>2
<1> QED BY <1>1, TypesInvariant, PTL DEF Safety, LostLoses

-----------------------------------------------------------------------------
(* The field *)

\* Both players at once: a player in the field, or below it where KEY[0] has put the
\* second one, stays so until two of its wall flags are up.
Placed(who, u) == InField(u) \/ (who = "user2" /\ BelowField(u))

BothPlaced == \A who \in Users : Placed(who, user[who])

NoneTorn == \A who \in Users : \A f, g \in user[who].walls : f = g

Rims == \A who \in Users : Rim(user[who])

\* Where KEY[0] puts the second player, outside the cells that a teleport leads to.
StartFar == \A c \in BOOLEAN : PortTarget("user1", Start["user2"], c) = Home["user1"]

LEMMA ScratchedRim ==
    ASSUME Typed, Rims, NEW who \in Users
    PROVE  Rim(Scratched(who))
<1>1. user[who] \in PlayerType /\ Rim(user[who])
  BY DEF Typed, TwoPlayers, Rims
<1>2. Scratched(who) \in {user[who], Overwritten(user[who])}
  BY DEF Scratched
<1> QED BY <1>1, <1>2, RimFlags

LEMMA EdgedRim ==
    ASSUME Typed, Rims, NEW who \in Users
    PROVE  Rim(Edged(who))
<1> DEFINE u == Scratched(who)
<1>1. u \in PlayerType /\ (u.mx = 0 \/ u.my = 0)
  BY ScratchedFacts
<1>2. Rim(u)
  BY ScratchedRim
<1>3. Other[who] \in Users
  BY DEF Other, Users
<1>4. PICK a \in Coord, b \in Coord : Pos(Other[who]) = <<a, b>>
  BY <1>3, PosIsPlace
<1>5. PICK c \in BOOLEAN : coin[who] = c
  BY DEF Typed, TypeOK
<1> HIDE DEF u
<1>6. CASE curr_state \in Stills
  <2>1. Edged(who) = Frozen(u)
    BY <1>6, EdgedCases DEF u
  <2> QED BY <1>1, <1>2, <2>1, RimFlags
<1>7. CASE curr_state \notin Stills
  <2> DEFINE br == broken \union Struck
             le == Lethal(Scanned)
  <2>1. Edged(who) = Played(who, u, br, le, keycode, <<a, b>>, c)
    BY <1>4, <1>5, <1>7, EdgedCases DEF u
  <2> HIDE DEF br, le
  <2>2. Rim(Played(who, u, br, le, keycode, <<a, b>>, c))
    BY <1>1, RimHolds
  <2> QED BY <2>1, <2>2
<1> QED BY <1>6, <1>7

LEMMA RimsStep == Typed /\ Rims /\ [Next]_vars => Rims'
<1> SUFFICES ASSUME Typed, Rims, [Next]_vars, NEW who \in Users
             PROVE  Rim(user'[who])
  BY DEF Rims, Rim, RimOf
<1>1. CASE Frame
  BY <1>1, FrameIs, EdgedRim
<1>2. CASE Reset
  <2>1. user[who].port_flag \in BOOLEAN
    BY DEF Typed, TwoPlayers, PlayerType
  <2> QED BY <1>2, <2>1, FreshRim DEF Reset
<1>3. CASE UNCHANGED vars
  BY <1>3 DEF vars, Rims
<1> QED BY <1>1, <1>2, <1>3 DEF Next

\* The frame a player makes is one in which the other is in the field: a teleport to
\* the place below it leads home instead.
Meets(who, u, B, lethal, key, c, a, b) ==
    /\ a \in XMin - 1 .. XMax - 19 /\ b \in YMin - 1 .. YMax - 26
    /\ Played(who, u, B, lethal, key, Pos(Other[who]), c)
          = Played(who, u, B, lethal, key, <<a, b>>, c)

LEMMA MeetsInField ==
    ASSUME Typed, StartFar, BothPlaced, NEW who \in Users,
           NEW u \in PlayerType, NEW B, NEW lethal, NEW key, NEW c \in BOOLEAN
    PROVE  \E a \in Coord, b \in Coord : Meets(who, u, B, lethal, key, c, a, b)
<1>1. Other[who] \in Users
  BY DEF Other, Users
<1>2. CASE InField(user[Other[who]])
  <2>1. PICK a \in Coord, b \in Coord : Pos(Other[who]) = <<a, b>>
    BY <1>1, PosIsPlace
  <2>2. a = user[Other[who]].x /\ b = user[Other[who]].y
    BY <2>1 DEF Pos
  <2>3. a \in XMin - 1 .. XMax - 19 /\ b \in YMin - 1 .. YMax - 26
    BY <1>2, <2>2 DEF InField
  <2> QED BY <2>1, <2>3 DEF Meets
<1>3. CASE Other[who] = "user2" /\ BelowField(user["user2"])
  <2>1. who = "user1"
    BY <1>3 DEF Other, Users
  <2>2. Pos(Other[who]) = Start["user2"]
    BY <1>3 DEF Pos, BelowField, Start
  <2>3. Played(who, u, B, lethal, key, Pos(Other[who]), c) = Played(who, u, B, lethal, key, Home[who], c)
    <3>1. PortTarget(who, Pos(Other[who]), c) = Home[who]
      BY <2>1, <2>2 DEF StartFar
    <3> QED BY <3>1, OtherUnmet
  <2>4. PICK a \in XMin + 7 .. XMax - 28, b \in YMin + 2 .. YMax - 27 :
           Home[who] = <<a, b>> /\ a \in Coord /\ b \in Coord
    BY HomePlace
  <2>5. a \in XMin - 1 .. XMax - 19
    BY <2>4, BoundsHold, SMTT(30)
  <2>6. b \in YMin - 1 .. YMax - 26
    BY <2>4, BoundsHold, SMTT(30)
  <2> QED BY <2>3, <2>4, <2>5, <2>6 DEF Meets
<1> QED BY <1>1, <1>2, <1>3 DEF BothPlaced, Placed

LEMMA EdgedPlaced ==
    ASSUME Typed, StartFar, Rims, BothPlaced, NoneTorn, NEW who \in Users
    PROVE  Placed(who, Edged(who))
<1> DEFINE u == Scratched(who)
<1>1. u \in PlayerType /\ (u.mx = 0 \/ u.my = 0)
  BY ScratchedFacts
<1>2. Rim(u)
  BY ScratchedRim
<1>3. /\ u.x = user[who].x /\ u.y = user[who].y
      /\ u.mx = user[who].mx /\ u.my = user[who].my
  BY ScratchedFacts
<1>4. u.walls = user[who].walls
  BY ScratchedKeeps
<1>5. \A f, g \in u.walls : f = g
  BY <1>4 DEF NoneTorn
<1>6. Placed(who, u)
  BY <1>3, <1>4 DEF BothPlaced, Placed, InField, BelowField
<1>7. PICK c \in BOOLEAN : coin[who] = c
  BY DEF Typed, TypeOK
<1> HIDE DEF u
<1>8. CASE curr_state \in Stills
  <2> DEFINE w == Frozen(u)
  <2>1. Edged(who) = w
    BY <1>8, EdgedCases DEF u
  <2>2. w.x = u.x /\ w.y = u.y /\ w.mx = 0 /\ w.my = 0 /\ w.walls = u.walls
    BY <1>1, FrozenFacts
  <2> HIDE DEF w
  <2> QED BY <1>6, <2>1, <2>2 DEF Placed, InField, BelowField
<1>9. CASE curr_state \notin Stills
  <2> DEFINE br == broken \union Struck
             le == Lethal(Scanned)
  <2>1. Edged(who) = Played(who, u, br, le, keycode, Pos(Other[who]), c)
    BY <1>7, <1>9, EdgedCases DEF u
  <2> HIDE DEF br, le
  <2>0. PICK a \in Coord, b \in Coord : Meets(who, u, br, le, keycode, c, a, b)
    BY <1>1, MeetsInField
  <2>2. /\ a \in XMin - 1 .. XMax - 19 /\ b \in YMin - 1 .. YMax - 26
        /\ Played(who, u, br, le, keycode, Pos(Other[who]), c)
              = Played(who, u, br, le, keycode, <<a, b>>, c)
    BY <2>0 DEF Meets
  <2> DEFINE w == Played(who, u, br, le, keycode, <<a, b>>, c)
  <2>3. CASE InField(u)
    <3>1. InField(w)
      BY <1>1, <1>2, <1>5, <2>2, <2>3, FieldHolds
    <3> HIDE DEF w
    <3> QED BY <2>1, <2>2, <3>1 DEF Placed, w
  <2>4. CASE who = "user2" /\ BelowField(u)
    <3>1. BelowField(w) \/ InField(w)
      BY <1>1, <2>2, <2>4, ClimbStep
    <3> HIDE DEF w
    <3> QED BY <2>1, <2>2, <2>4, <3>1 DEF Placed, w
  <2> QED BY <1>6, <2>3, <2>4 DEF Placed
<1> QED BY <1>8, <1>9

\* Together on one board, whatever keys, teleports to one another, bombs, win screens
\* and resets there are: no player leaves the field but with two wall flags up.
THEOREM PlayersLeaveByTwo ==
    ASSUME StartFar
    PROVE  Safety => [][BothPlaced /\ NoneTorn => BothPlaced']_vars
<1>1. Init => Rims
  BY FreshRim DEF Init, Rims
<1>2. Typed /\ Rims /\ [Next]_vars => [BothPlaced /\ NoneTorn => BothPlaced']_vars
  <2> SUFFICES ASSUME Typed, Rims, Next, BothPlaced, NoneTorn, NEW who \in Users
               PROVE  Placed(who, user'[who])
    BY DEF BothPlaced, Placed, InField, BelowField
  <2>1. CASE Frame
    BY <2>1, FrameIs, EdgedPlaced
  <2>2. CASE Reset
    <3>1. user[who].port_flag \in BOOLEAN
      BY DEF Typed, TwoPlayers, PlayerType
    <3> DEFINE w == Fresh(who, user[who].port_flag)
    <3>2. InField(w) \/ BelowField(w)
      BY <3>1, FreshPlace
    <3>3. who = "user1" => InField(w)
      BY <3>1, FirstInField
    <3>4. user'[who] = w
      BY <2>2 DEF Reset
    <3> HIDE DEF w
    <3> QED BY <3>2, <3>3, <3>4 DEF Placed, Users
  <2> QED BY <2>1, <2>2 DEF Next
<1> QED BY <1>1, <1>2, RimsStep, TypesInvariant, PTL DEF Safety

\* So, what Player takes for granted of the other player, that it is met in the field
\* or on its rim, the two give each other as long as neither has two flags up.
THEOREM PlayersStay ==
    ASSUME StartFar
    PROVE  Safety /\ []NoneTorn => []BothPlaced
<1>1. Init => BothPlaced
  <2> SUFFICES ASSUME Init, NEW who \in Users PROVE Placed(who, Fresh(who, FALSE))
    BY DEF Init, BothPlaced
  <2> DEFINE w == Fresh(who, FALSE)
  <2>1. InField(w) \/ BelowField(w)
    BY FreshPlace
  <2>2. who = "user1" => InField(w)
    BY FirstInField
  <2> HIDE DEF w
  <2>3. Placed(who, w)
    BY <2>1, <2>2 DEF Placed, Users
  <2> QED BY <2>3 DEF w
<1>2. BothPlaced /\ UNCHANGED vars => BothPlaced'
  BY DEF BothPlaced, Placed, InField, BelowField, vars
<1> QED BY <1>1, <1>2, PlayersLeaveByTwo, PTL DEF Safety

-----------------------------------------------------------------------------
(* Walking in the open *)

LEMMA EdgedWalks ==
    ASSUME Typed, NEW who \in Users, Walking(Edged(who))
    PROVE  NearOpen(Edged(who), broken \union Struck)
<1> DEFINE u == Scratched(who)
           br == broken \union Struck
           le == Lethal(Scanned)
<1>1. u \in PlayerType /\ (u.mx = 0 \/ u.my = 0)
  BY ScratchedFacts
<1>2. PICK a \in Coord, b \in Coord : Pos(Other[who]) = <<a, b>>
  <2>1. Other[who] \in Users
    BY DEF Other, Users
  <2> QED BY <2>1, PosIsPlace
<1>3. PICK c \in BOOLEAN : coin[who] = c
  BY DEF Typed, TypeOK
<1>4. curr_state \notin Stills
  <2> SUFFICES ASSUME curr_state \in Stills PROVE FALSE
    OBVIOUS
  <2>1. Edged(who) = Frozen(u)
    BY EdgedCases
  <2> HIDE DEF u
  <2> QED BY <1>1, <2>1, FrozenStands
<1> DEFINE w == Played(who, u, br, le, keycode, <<a, b>>, c)
<1>5. Edged(who) = w
  BY <1>2, <1>3, <1>4, EdgedCases
<1> HIDE DEF u, br, le
<1>6. Walking(w) => NearOpen(w, br)
  BY <1>1, WalkStep
<1> HIDE DEF w
<1>7. NearOpen(Edged(who), br)
  BY <1>5, <1>6
<1> QED BY <1>7 DEF br

\* Both players on one board, whatever the two do to each other with teleports and
\* bombs: one that walks by itself is never more than a pixel, along one axis, from a
\* place where no corner of it is on a wall or a brick.
THEOREM PlayersWalk ==
    Safety => [](\A who \in Users : Walking(user[who]) => NearOpen(user[who], broken))
<1> DEFINE Inv == \A who \in Users : Walking(user[who]) => NearOpen(user[who], broken)
<1>1. Init => Inv
  BY FreshStands DEF Init
<1>2. Typed /\ Inv /\ [Next]_vars => Inv'
  <2> SUFFICES ASSUME Typed, Inv, [Next]_vars, NEW who \in Users, Walking(user'[who])
               PROVE  NearOpen(user'[who], broken')
    OBVIOUS
  <2>1. CASE Frame
    <3>1. user'[who] = Edged(who) /\ broken' = broken \union Struck
      BY <2>1, FrameIs
    <3> QED BY <3>1, EdgedWalks
  <2>2. CASE Reset
    BY <2>2, FreshStands DEF Reset
  <2>3. CASE UNCHANGED vars
    BY <2>3 DEF vars
  <2> QED BY <2>1, <2>2, <2>3 DEF Next
<1> QED BY <1>1, <1>2, TypesInvariant, PTL DEF Safety

-----------------------------------------------------------------------------
(* Two bombs of the abstract kind. *)

Positions == Coord \X Coord

Fuse1 == INSTANCE BombFuseProofs WITH
            curr_state <- state1, count <- count1, bomb_check <- check1,
            make_bomb <- make1, bombPos <- pos1, UserSpots <- Positions
Fuse2 == INSTANCE BombFuseProofs WITH
            curr_state <- state2, count <- count2, bomb_check <- check2,
            make_bomb <- make2, bombPos <- pos2, UserSpots <- Positions

\* A frame of the game is a frame of either bomb.
LEMMA FuseSteps ==
    ASSUME Typed, Frame
    PROVE  Fuse1!Frame /\ Fuse2!Frame
<1> USE DEF Users
<1>1. PICK a1 \in Coord, b1 \in Coord : Pos("user1") = <<a1, b1>>
  BY PosIsPlace
<1>2. PICK a2 \in Coord, b2 \in Coord : Pos("user2") = <<a2, b2>>
  BY PosIsPlace
<1>3. Pos("user1") \in Positions /\ Pos("user2") \in Positions
  BY <1>1, <1>2 DEF Positions
<1>4. user["user1"].bomb_drop \in BOOLEAN /\ user["user2"].bomb_drop \in BOOLEAN
  <2>1. \A u \in PlayerType : u.bomb_drop \in BOOLEAN
    BY DEF PlayerType
  <2>2. user["user1"] \in PlayerType /\ user["user2"] \in PlayerType
    BY DEF Typed, TwoPlayers
  <2> QED BY <2>1, <2>2, Zenon
<1>5. Fuse1!FuseEdge /\ Fuse1!BombEdge(user["user1"].bomb_drop, Pos("user1"))
  BY FrameIs, Zenon
     DEF Bomb1!FuseEdge, Bomb1!next_state, Bomb1!Advances, Bomb1!count_next, Bomb1!Limit, Bomb1!Successor,
         Bomb1!Marker, Bomb1!BombEdge, Bomb1!Remove, Bomb1!Place, Bomb1!Keep, Bomb1!Expires, Bomb1!Fits,
         Bomb1!Parked, Bomb1!Planted,
         Fuse1!FuseEdge, Fuse1!next_state, Fuse1!Advances, Fuse1!count_next, Fuse1!Limit, Fuse1!Successor,
         Fuse1!Marker, Fuse1!BombEdge, Fuse1!Remove, Fuse1!Place, Fuse1!Keep, Fuse1!Expires, Fuse1!Fits,
         Fuse1!Parked, Fuse1!Planted
<1>6. Fuse2!FuseEdge /\ Fuse2!BombEdge(user["user2"].bomb_drop, Pos("user2"))
  BY FrameIs, Zenon
     DEF Bomb2!FuseEdge, Bomb2!next_state, Bomb2!Advances, Bomb2!count_next, Bomb2!Limit, Bomb2!Successor,
         Bomb2!Marker, Bomb2!BombEdge, Bomb2!Remove, Bomb2!Place, Bomb2!Keep, Bomb2!Expires, Bomb2!Fits,
         Bomb2!Parked, Bomb2!Planted,
         Fuse2!FuseEdge, Fuse2!next_state, Fuse2!Advances, Fuse2!count_next, Fuse2!Limit, Fuse2!Successor,
         Fuse2!Marker, Fuse2!BombEdge, Fuse2!Remove, Fuse2!Place, Fuse2!Keep, Fuse2!Expires, Fuse2!Fits,
         Fuse2!Parked, Fuse2!Planted
<1> QED BY <1>3, <1>4, <1>5, <1>6 DEF Fuse1!Frame, Fuse2!Frame

LEMMA FusesHold == Safety => Fuse1!Safety /\ Fuse2!Safety
<1>1. Init => Fuse1!Init /\ Fuse2!Init
  BY DEF Init, Bomb1!Init, Bomb2!Init, Fuse1!Init, Fuse2!Init, Bomb1!Parked, Bomb2!Parked, Fuse1!Parked,
         Fuse2!Parked
<1>2. Typed /\ [Next]_vars => [Fuse1!Next]_(Fuse1!vars) /\ [Fuse2!Next]_(Fuse2!vars)
  <2> SUFFICES ASSUME Typed, [Next]_vars
               PROVE  [Fuse1!Next]_(Fuse1!vars) /\ [Fuse2!Next]_(Fuse2!vars)
    OBVIOUS
  <2>1. CASE Frame
    BY <2>1, FuseSteps DEF Fuse1!Next, Fuse2!Next
  <2>2. CASE Reset
    BY <2>2 DEF Reset, Bomb1!Reset, Bomb2!Reset, Fuse1!Reset, Fuse2!Reset, Fuse1!Next, Fuse2!Next,
                Bomb1!Parked, Bomb2!Parked, Fuse1!Parked, Fuse2!Parked
  <2>3. CASE UNCHANGED vars
    BY <2>3 DEF vars, bomb1Vars, bomb2Vars, Fuse1!vars, Fuse2!vars
  <2> QED BY <2>1, <2>2, <2>3 DEF Next
<1> QED BY <1>1, <1>2, TypesInvariant, PTL DEF Safety, Fuse1!Safety, Fuse2!Safety

LEMMA SpotsHold == Fuse1!SpotAssumption /\ Fuse2!SpotAssumption
BY DEF Fuse1!SpotAssumption, Fuse2!SpotAssumption, Fuse1!Screen, Fuse2!Screen, Fuse1!Coord, Fuse2!Coord,
       Positions, Coord

\* Whatever the game does meanwhile, a pause, a win screen and the menu included,
\* each player's registers and fuse are one bomb with one clock: it lies still for
\* exactly its life and is deadly in the same three bursts of it.
THEOREM BombLivesCorrect ==
    ASSUME Fuse1!FuseAssumption
    PROVE  Safety => Fuse1!Bomb!Safety /\ Fuse2!Bomb!Safety
<1>1. Fuse2!FuseAssumption
  BY DEF Fuse1!FuseAssumption, Fuse2!FuseAssumption
<1>2. Fuse1!Safety => Fuse1!Bomb!Safety
  BY SpotsHold, Fuse1!Refinement
<1>3. Fuse2!Safety => Fuse2!Bomb!Safety
  BY <1>1, SpotsHold, Fuse2!Refinement
<1> QED BY <1>2, <1>3, FusesHold, PTL

\* In the whole game, too, the fuse burns only while a bomb lies, the registers of
\* a bomb that does not lie are parked, and no phase starts past its end.
THEOREM BombsCorrect ==
    ASSUME Fuse1!FuseAssumption
    PROVE  Safety => [](Fuse1!FuseInv /\ Fuse2!FuseInv)
<1>1. Fuse2!FuseAssumption
  BY DEF Fuse1!FuseAssumption, Fuse2!FuseAssumption
<1>2. Fuse1!Safety => []Fuse1!FuseInv
  BY SpotsHold, Fuse1!FuseInvariant
<1>3. Fuse2!Safety => []Fuse2!FuseInv
  BY <1>1, SpotsHold, Fuse2!FuseInvariant
<1> QED BY <1>2, <1>3, FusesHold, PTL
=============================================================================

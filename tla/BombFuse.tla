------------------------------ MODULE BombFuse ------------------------------
(***************************************************************************)
(* One player's bomb: the bomb register file of src/bomb1.sv and the fuse  *)
(* of src/bombstate_machine.sv, wired as in src/bomberman.sv (lines        *)
(* 196-205 and 302-326).  Both are clocked by the rising edge of VGA_VS,   *)
(* so one step of the model is one video frame, in which every register    *)
(* reads the values all registers had before the edge.  The two modules    *)
(* hand-shake through bomb_check (bomb -> fuse) and the fuse's state       *)
(* (fuse -> bomb); neither is told the game state, so both go on while the *)
(* game is paused or over.                                                 *)
(***************************************************************************)
EXTENDS Naturals

CONSTANTS FuseEnd,                          \* 8'ha0
          Blast1End, Blast2End, Blast3End,  \* 8'h20, 8'h40, 8'h60
          UserSpots                         \* the <<userX, userY>> a player can be at

Coord == 0 .. 1023
Screen == Coord \X Coord
\* Mutant: a parking spot the 10-bit registers cannot hold.
Parked_Wide == <<1100, 500>>

Parked == <<700, 500>>
Planted(user) == <<(user[1] + 4) % 1024, (user[2] + 4) % 1024>>

\* The fuse burns longer than it counts in the blast, the blast thresholds
\* rise, and Explode4 is entered with a count that is not 8'hfe.
ASSUME FuseAssumption ==
    /\ FuseEnd \in 1 .. 255
    /\ Blast1End \in 1 .. 255 /\ Blast2End \in 1 .. 255 /\ Blast3End \in 1 .. 255
    /\ Blast1End < Blast2End /\ Blast2End < Blast3End /\ Blast3End < 254

\* Positions are 10 bits wide.
ASSUME SpotAssumption == UserSpots \subseteq Screen

VARIABLES curr_state, count,               \* bombstate_machine
          bomb_check, make_bomb, bombPos   \* bomb1

fuseVars == <<curr_state, count>>
bombVars == <<bomb_check, make_bomb, bombPos>>
vars == <<curr_state, count, bomb_check, make_bomb, bombPos>>

Marker == {"Bomb_Count1", "Bomb_Count2", "Bomb_Count3", "Bomb_Count4"}
Deadly == {"Explode1", "Explode2", "Explode3"}
FuseStates == {"Before", "Exist", "Explode4"} \union Marker \union Deadly

-----------------------------------------------------------------------------
(* bombstate_machine: the two always_comb cases. *)

Limit == [Exist    |-> FuseEnd,   Explode1 |-> Blast1End,
          Explode2 |-> Blast2End, Explode3 |-> Blast3End]

Successor == [Before      |-> "Exist",       Exist    |-> "Bomb_Count1",
              Bomb_Count1 |-> "Explode1",    Explode1 |-> "Bomb_Count2",
              Bomb_Count2 |-> "Explode2",    Explode2 |-> "Bomb_Count3",
              Bomb_Count3 |-> "Explode3",    Explode3 |-> "Bomb_Count4",
              Bomb_Count4 |-> "Explode4",    Explode4 |-> "Before"]

\* Mutants: the first marker state does not restart the count; the count runs
\* in the fuse only.
count_next_NoRestart ==
    IF curr_state = "Before" THEN 0
    ELSE IF curr_state \in Marker THEN count
    ELSE (count + 1) % 256

count_next_FuseOnly ==
    IF curr_state \in {"Before", "Bomb_Count1"} THEN 0
    ELSE IF curr_state = "Exist" THEN (count + 1) % 256
    ELSE count

count_next ==
    IF curr_state \in {"Before", "Bomb_Count1"} THEN 0
    ELSE IF curr_state \in Marker THEN count
    ELSE (count + 1) % 256

\* Mutant: the count is compared before it is incremented.
Advances_Late ==
    \/ curr_state = "Before" /\ bomb_check
    \/ curr_state \in DOMAIN Limit /\ count = Limit[curr_state]
    \/ curr_state \in Marker
    \/ curr_state = "Explode4" /\ count_next # 255

Advances ==
    \/ curr_state = "Before" /\ bomb_check
    \/ curr_state \in DOMAIN Limit /\ count_next = Limit[curr_state]
    \/ curr_state \in Marker
    \/ curr_state = "Explode4" /\ count_next # 255

next_state == IF Advances THEN Successor[curr_state] ELSE curr_state

FuseEdge == /\ curr_state' = next_state
            /\ count' = count_next

-----------------------------------------------------------------------------
(* bomb1: the always_ff block, its two branches and what is left otherwise. *)

\* Mutants: bomb1 waits for the fuse's last state; the sprite is not put away.
Expires_AtExplode4 == bomb_check /\ curr_state = "Explode4"

Expires == bomb_check /\ curr_state = "Bomb_Count4"

Fits == make_bomb /\ ~bomb_check /\ curr_state = "Before"

Remove_NoPark == /\ Expires
                 /\ bomb_check' = FALSE
                 /\ make_bomb' = FALSE
                 /\ UNCHANGED bombPos

Remove == /\ Expires
          /\ bomb_check' = FALSE
          /\ make_bomb' = FALSE
          /\ bombPos' = Parked

Place(user) == /\ Fits
               /\ bomb_check' = TRUE
               /\ bombPos' = Planted(user)

Keep == /\ ~Expires /\ ~Fits
        /\ UNCHANGED <<bomb_check, bombPos>>

BombEdge(make, user) ==
    \/ Remove
    \/ Place(user) /\ make_bomb' = make
    \/ Keep /\ make_bomb' = make

-----------------------------------------------------------------------------

\* Both resets are asynchronous: KEY[0], at any time.
Reset == /\ curr_state' = "Before" /\ count' = 0
         /\ bomb_check' = FALSE /\ make_bomb' = FALSE /\ bombPos' = Parked

Init == /\ curr_state = "Before" /\ count = 0
        /\ bomb_check = FALSE /\ make_bomb = FALSE /\ bombPos = Parked

Frame == \E make \in BOOLEAN, user \in UserSpots :
            FuseEdge /\ BombEdge(make, user)

Next == Frame \/ Reset

Safety == Init /\ [][Next]_vars

\* VGA_VS never stops: vga_controller is not reset by KEY[0].
Spec == Safety /\ WF_vars(Frame)

-----------------------------------------------------------------------------
(* Properties *)

\* Every register keeps a value of its width.
TypeOK == /\ curr_state \in FuseStates
          /\ count \in 0 .. 255
          /\ bomb_check \in BOOLEAN
          /\ make_bomb \in BOOLEAN
          /\ bombPos \in Screen

\* The two modules never disagree about the bomb for longer than the frame the
\* hand-shake takes: the fuse burns or blasts only while bomb1 has a bomb on
\* the field, and bomb1 has none when the fuse cools down in Explode4.
HandShake == /\ curr_state \notin {"Before", "Explode4"} => bomb_check
             /\ curr_state = "Explode4" => ~bomb_check

\* bomb1's position registers are never left behind: they are where a player has
\* planted the bomb as long as it lies, and at the parking spot otherwise.
SpotTracksBomb == IF bomb_check
                  THEN \E user \in UserSpots : bombPos = Planted(user)
                  ELSE bombPos = Parked

\* The count one phase leaves behind is where the next one starts: no phase is
\* entered at or past its own threshold, where count_next would have to wrap
\* round 256 before the phase could end.
CountInPhase ==
    /\ curr_state = "Exist"       => count < FuseEnd
    /\ curr_state = "Bomb_Count1" => count = FuseEnd
    /\ curr_state = "Explode1"    => count < Blast1End
    /\ curr_state = "Bomb_Count2" => count = Blast1End
    /\ curr_state = "Explode2"    => count \in Blast1End .. Blast2End - 1
    /\ curr_state = "Bomb_Count3" => count = Blast2End
    /\ curr_state = "Explode3"    => count \in Blast2End .. Blast3End - 1
    /\ curr_state \in {"Bomb_Count4", "Explode4"} => count = Blast3End

\* The frame of its life a bomb is in, read off the fuse.
Age ==
    IF curr_state = "Before" THEN (IF bomb_check THEN 1 ELSE 0)
    ELSE count + [Exist       |-> 2,           Bomb_Count1 |-> 2,
                  Explode1    |-> FuseEnd + 3, Bomb_Count2 |-> FuseEnd + 3,
                  Explode2    |-> FuseEnd + 4, Bomb_Count3 |-> FuseEnd + 4,
                  Explode3    |-> FuseEnd + 5, Bomb_Count4 |-> FuseEnd + 5,
                  Explode4    |-> FuseEnd + 6][curr_state]

Bomb == INSTANCE BombLife WITH
            Spots  <- {Planted(user) : user \in UserSpots},
            Parked <- Parked,
            Life   <- FuseEnd + Blast3End + 5,
            Burst  <- (FuseEnd + 3 .. FuseEnd + Blast1End + 2) \union
                      (FuseEnd + Blast1End + 4 .. FuseEnd + Blast2End + 3) \union
                      (FuseEnd + Blast2End + 5 .. FuseEnd + Blast3End + 4),
            age    <- Age,
            spot   <- bombPos,
            deadly <- curr_state \in Deadly

\* The fuse and the bomb registers together are one bomb with one clock: it is
\* planted only when the last one has gone and cooled down, lies still for
\* exactly FuseEnd + Blast3End + 5 frames whatever keys are pressed meanwhile,
\* and is deadly in three bursts of that life and at no other time.
ImplementsBombLife == Bomb!Spec

\* No bomb stays on the field for ever, so a player can always plant again.
EveryBombBurnsOut == bomb_check ~> ~bomb_check
=============================================================================

--------------------------- MODULE BombFuseProofs ---------------------------
(***************************************************************************)
(* Proofs about BombFuse for every choice of the four thresholds and of    *)
(* the spots a player can stand on.                                        *)
(***************************************************************************)
EXTENDS BombFuse, TLAPS

FuseInv == TypeOK /\ HandShake /\ SpotTracksBomb /\ CountInPhase

LEMMA PlantOffset == ASSUME NEW a \in Coord PROVE (a + 4) % 1024 \in Coord
BY DEF Coord

\* Where a player stands, its bomb fits on the registers.
LEMMA PlantedInRange ==
    ASSUME NEW user \in UserSpots
    PROVE  Planted(user) \in Screen
<1>1. user \in Screen
  BY SpotAssumption, Zenon DEF SpotAssumption
<1>2. PICK x \in Coord, y \in Coord : user = <<x, y>>
  BY <1>1 DEF Screen
<1>3. Planted(user) = <<(x + 4) % 1024, (y + 4) % 1024>>
  BY <1>2 DEF Planted
<1>4. (x + 4) % 1024 \in Coord /\ (y + 4) % 1024 \in Coord
  BY PlantOffset
<1> QED BY <1>3, <1>4 DEF Screen

LEMMA ParkedInRange == Parked \in Screen
<1>1. 700 \in Coord /\ 500 \in Coord
  BY DEF Coord
<1> QED BY <1>1 DEF Parked, Screen

\* The state both resets put the registers in.
LEMMA CleanState ==
    ASSUME curr_state = "Before", count = 0, bomb_check = FALSE, make_bomb = FALSE,
           bombPos = Parked
    PROVE  FuseInv
<1>1. TypeOK
  <2>1. curr_state \in FuseStates /\ count \in 0 .. 255 /\ bombPos \in Screen
    BY ParkedInRange DEF FuseStates
  <2>2. bomb_check \in BOOLEAN /\ make_bomb \in BOOLEAN
    OBVIOUS
  <2> QED BY <2>1, <2>2 DEF TypeOK
<1>2. HandShake
  BY DEF HandShake
<1>3. SpotTracksBomb
  BY DEF SpotTracksBomb
<1>4. CountInPhase
  BY DEF CountInPhase
<1> QED BY <1>1, <1>2, <1>3, <1>4 DEF FuseInv

LEMMA InitInv == Init => FuseInv
BY CleanState DEF Init

\* Which states have a threshold, and which.
LEMMA Thresholds ==
    /\ DOMAIN Limit = {"Exist", "Explode1", "Explode2", "Explode3"}
    /\ Limit["Exist"] = FuseEnd
    /\ Limit["Explode1"] = Blast1End
    /\ Limit["Explode2"] = Blast2End
    /\ Limit["Explode3"] = Blast3End
BY DEF Limit

\* The two combinational cases of bombstate_machine, state by state.
LEMMA NextOfTimed ==
    ASSUME curr_state \in DOMAIN Limit, count \in 0 .. 255, count < Limit[curr_state],
           FuseEdge
    PROVE  /\ count' = count + 1
           /\ curr_state' = IF count + 1 = Limit[curr_state]
                            THEN Successor[curr_state] ELSE curr_state
<1>1. /\ curr_state \notin {"Before", "Bomb_Count1"}
      /\ curr_state # "Explode4"
      /\ curr_state \notin Marker
  BY Thresholds DEF Marker
<1>2. Limit[curr_state] \in 1 .. 255
  BY Thresholds, FuseAssumption DEF FuseAssumption
<1>3. count_next = count + 1
  <2>1. count + 1 \in 0 .. 255
    BY <1>2
  <2>2. (count + 1) % 256 = count + 1
    BY <2>1
  <2> QED BY <1>1, <2>2 DEF count_next
<1>4. Advances <=> count + 1 = Limit[curr_state]
  BY <1>1, <1>3 DEF Advances
<1> QED BY <1>3, <1>4 DEF FuseEdge, next_state

LEMMA NextOfMarker ==
    ASSUME curr_state \in Marker, FuseEdge
    PROVE  /\ count' = IF curr_state = "Bomb_Count1" THEN 0 ELSE count
           /\ curr_state' = Successor[curr_state]
BY DEF FuseEdge, next_state, Advances, count_next, Marker

LEMMA NextOfBefore ==
    ASSUME curr_state = "Before", FuseEdge
    PROVE  count' = 0 /\ curr_state' = IF bomb_check THEN "Exist" ELSE "Before"
BY Thresholds DEF FuseEdge, next_state, Advances, count_next, Marker, Successor

LEMMA NextOfExplode4 ==
    ASSUME curr_state = "Explode4", count = Blast3End, FuseEdge
    PROVE  count' = Blast3End + 1 /\ curr_state' = "Before"
<1>1. Blast3End \in 1 .. 253
  BY FuseAssumption DEF FuseAssumption
<1>2. count_next = Blast3End + 1
  BY <1>1 DEF count_next, Marker
<1> QED BY <1>1, <1>2 DEF FuseEdge, next_state, Advances, Successor

\* One frame of the fuse alone: the phase it moves to and the count it carries.
LEMMA FuseStep ==
    ASSUME FuseInv, FuseEdge
    PROVE  /\ curr_state' \in FuseStates
           /\ count' \in 0 .. 255
           /\ CountInPhase'
           /\ curr_state = "Before" => curr_state' = IF bomb_check THEN "Exist" ELSE "Before"
           /\ curr_state = "Bomb_Count4" => curr_state' = "Explode4"
           /\ curr_state = "Explode4" => curr_state' = "Before"
           /\ curr_state' = "Explode4" => curr_state = "Bomb_Count4"
<1> USE FuseAssumption DEF FuseAssumption
<1>0. curr_state \in FuseStates /\ count \in 0 .. 255 /\ CountInPhase
  BY DEF FuseInv, TypeOK
<1>1. CASE curr_state = "Before"
  BY <1>0, <1>1, NextOfBefore DEF CountInPhase, FuseStates
<1>2. CASE curr_state \in DOMAIN Limit
  <2>1. count < Limit[curr_state]
    BY <1>0, <1>2, Thresholds DEF CountInPhase
  <2>2. /\ count' = count + 1
        /\ curr_state' = IF count + 1 = Limit[curr_state]
                         THEN Successor[curr_state] ELSE curr_state
    BY <1>0, <1>2, <2>1, NextOfTimed
  <2> QED BY <1>0, <1>2, <2>2, Thresholds
          DEF CountInPhase, FuseStates, Successor, Marker, Deadly
<1>3. CASE curr_state \in Marker
  BY <1>0, <1>3, NextOfMarker, SMTT(30) DEF CountInPhase, FuseStates, Successor, Marker, Deadly
<1>4. CASE curr_state = "Explode4"
  BY <1>0, <1>4, NextOfExplode4 DEF CountInPhase, FuseStates
<1> QED BY <1>0, <1>1, <1>2, <1>3, <1>4, Thresholds DEF FuseStates, Deadly

LEMMA StepInv == FuseInv /\ [Next]_vars => FuseInv'
<1> SUFFICES ASSUME FuseInv, [Next]_vars
             PROVE  FuseInv'
  OBVIOUS
<1>1. ASSUME NEW make \in BOOLEAN, NEW user \in UserSpots,
             FuseEdge, BombEdge(make, user)
      PROVE  FuseInv'
  <2>1. CASE Remove
    BY <1>1, <2>1, FuseStep, ParkedInRange
    DEF FuseInv, TypeOK, HandShake, SpotTracksBomb, Remove, Expires, Fits
  <2>2. CASE Place(user) /\ make_bomb' = make
    <3>1. TypeOK'
      BY <1>1, <2>2, FuseStep, PlantedInRange DEF FuseInv, TypeOK, Place, Expires, Fits
    <3>2. HandShake'
      BY <1>1, <2>2, FuseStep DEF FuseInv, HandShake, Place, Expires, Fits
    <3>3. SpotTracksBomb'
      BY <2>2 DEF SpotTracksBomb, Place, Expires, Fits
    <3> QED BY <1>1, <3>1, <3>2, <3>3, FuseStep DEF FuseInv
  <2>3. CASE Keep /\ make_bomb' = make
    BY <1>1, <2>3, FuseStep DEF FuseInv, TypeOK, HandShake, SpotTracksBomb, Keep, Expires, Fits
  <2> QED BY <1>1, <2>1, <2>2, <2>3 DEF BombEdge
<1>2. CASE Reset
  <2>1. curr_state' \in FuseStates /\ count' \in 0 .. 255 /\ bombPos' \in Screen
    BY <1>2, ParkedInRange DEF Reset, FuseStates
  <2>2. bomb_check' \in BOOLEAN /\ make_bomb' \in BOOLEAN
    BY <1>2 DEF Reset
  <2>3. HandShake' /\ SpotTracksBomb' /\ CountInPhase'
    BY <1>2 DEF Reset, HandShake, SpotTracksBomb, CountInPhase
  <2> QED BY <2>1, <2>2, <2>3 DEF FuseInv, TypeOK
<1>3. CASE UNCHANGED vars
  BY <1>3 DEF vars, FuseInv, TypeOK, HandShake, SpotTracksBomb, CountInPhase
<1> QED BY <1>1, <1>2, <1>3 DEF Next, Frame

\* The registers keep their widths, the bomb and its fuse agree about whether
\* there is a bomb, the sprite is parked when there is none, and no phase of
\* the fuse starts past its own end.
THEOREM FuseInvariant == Safety => []FuseInv
BY InitInv, StepInv, PTL DEF Safety

\* The registers of bomb1 and bombstate_machine keep values of their widths,
\* with the fuse's states those that the source names.
THEOREM TypeCorrect == Safety => []TypeOK
<1>1. FuseInv => TypeOK
  BY DEF FuseInv
<1> QED BY <1>1, FuseInvariant, PTL

\* bomb1 and the fuse agree on whether a bomb lies: outside its two resting states
\* the fuse always has the bomb whose time it counts.
THEOREM HandShakeCorrect == Safety => []HandShake
<1>1. FuseInv => HandShake
  BY DEF FuseInv
<1> QED BY <1>1, FuseInvariant, PTL

\* A bomb lies on a spot a player planted it on, and no bomb on the parking spot
\* alone, whatever the frame in which it was planted or removed.
THEOREM SpotCorrect == Safety => []SpotTracksBomb
<1>1. FuseInv => SpotTracksBomb
  BY DEF FuseInv
<1> QED BY <1>1, FuseInvariant, PTL

\* The shared count is never past the threshold it is compared with by equality,
\* so no phase of the fuse can be missed.
THEOREM CountCorrect == Safety => []CountInPhase
<1>1. FuseInv => CountInPhase
  BY DEF FuseInv
<1> QED BY <1>1, FuseInvariant, PTL

-----------------------------------------------------------------------------
(* The refinement: every frame is a step of BombLife or leaves it alone. *)

Life == FuseEnd + Blast3End + 5

LEMMA AgeTable ==
    /\ curr_state = "Before"      => Age = IF bomb_check THEN 1 ELSE 0
    /\ curr_state = "Exist"       => Age = count + 2
    /\ curr_state = "Bomb_Count1" => Age = count + 2
    /\ curr_state = "Explode1"    => Age = count + (FuseEnd + 3)
    /\ curr_state = "Bomb_Count2" => Age = count + (FuseEnd + 3)
    /\ curr_state = "Explode2"    => Age = count + (FuseEnd + 4)
    /\ curr_state = "Bomb_Count3" => Age = count + (FuseEnd + 4)
    /\ curr_state = "Explode3"    => Age = count + (FuseEnd + 5)
    /\ curr_state = "Bomb_Count4" => Age = count + (FuseEnd + 5)
    /\ curr_state = "Explode4"    => Age = count + (FuseEnd + 6)
BY DEF Age

\* While the fuse runs, one frame is one frame of the bomb's life, and whether
\* it is deadly afterwards is decided by that life alone.
LEMMA FuseAges ==
    ASSUME FuseInv, FuseEdge, curr_state \notin {"Before", "Bomb_Count4", "Explode4"}
    PROVE  /\ Age \in 1 .. Life - 1
           /\ Age' = Age + 1
           /\ (curr_state' \in Deadly) <=>
                 Age + 1 \in (FuseEnd + 3 .. FuseEnd + Blast1End + 2) \union
                             (FuseEnd + Blast1End + 4 .. FuseEnd + Blast2End + 3) \union
                             (FuseEnd + Blast2End + 5 .. FuseEnd + Blast3End + 4)
<1> USE FuseAssumption DEF FuseAssumption, Life
<1>0. curr_state \in FuseStates /\ count \in 0 .. 255 /\ CountInPhase
  BY DEF FuseInv, TypeOK
<1>1. AgeTable!:
  BY AgeTable
<1>2. (AgeTable!:)'
  BY AgeTable, PTL
<1>3. CASE curr_state \in DOMAIN Limit
  <2>1. count < Limit[curr_state]
    BY <1>0, <1>3, Thresholds DEF CountInPhase
  <2>2. /\ count' = count + 1
        /\ curr_state' = IF count + 1 = Limit[curr_state]
                         THEN Successor[curr_state] ELSE curr_state
    BY <1>0, <1>3, <2>1, NextOfTimed
  <2> QED BY <1>0, <1>1, <1>2, <1>3, <2>2, Thresholds
          DEF CountInPhase, Successor, Deadly
<1>4. CASE curr_state \in Marker
  BY <1>0, <1>1, <1>2, <1>4, NextOfMarker DEF CountInPhase, Successor, Marker, Deadly
<1> QED BY <1>0, <1>3, <1>4, Thresholds DEF FuseStates, Deadly

\* One frame maps to one step of BombLife.
LEMMA FrameRefines ==
    ASSUME FuseInv, FuseInv', NEW make \in BOOLEAN, NEW user \in UserSpots,
           FuseEdge, BombEdge(make, user)
    PROVE  [Bomb!Next]_(Bomb!vars)
<1>0. curr_state \in FuseStates /\ CountInPhase
  BY DEF FuseInv, TypeOK
<1>1. AgeTable!:
  BY AgeTable
<1>2. (AgeTable!:)'
  BY AgeTable, PTL
<1>3. CASE curr_state = "Before"
  <2>1. curr_state' = IF bomb_check THEN "Exist" ELSE "Before"
    BY <1>3, NextOfBefore
  <2>2. count' = 0
    BY <1>3, NextOfBefore
  <2>3. ~Remove
    BY <1>3 DEF Remove, Expires, Fits
  <2>4. CASE bomb_check
    <3>1. bombPos' = bombPos
      BY <2>3, <2>4 DEF BombEdge, Place, Keep, Expires, Fits
    <3>2. Age = 1 /\ Age' = 2
      BY <1>1, <1>2, <1>3, <2>1, <2>2, <2>4
    <3>3. curr_state' \notin Deadly
      BY <2>1, <2>4 DEF Deadly
    <3>4. Bomb!Burn
      BY <3>1, <3>2, <3>3, FuseAssumption DEF Bomb!Burn, FuseAssumption
    <3> QED BY <3>4 DEF Bomb!Next
  <2>5. CASE ~bomb_check /\ Place(user)
    <3>1. Age = 0 /\ Age' = 1
      BY <1>1, <1>2, <1>3, <2>1, <2>5 DEF Place, Expires, Fits
    <3>2. curr_state \notin Deadly /\ curr_state' \notin Deadly
      BY <1>3, <2>1, <2>5 DEF Deadly
    <3>3. bombPos' \in {Planted(u) : u \in UserSpots}
      BY <2>5 DEF Place, Expires, Fits
    <3>4. Bomb!Plant
      BY <3>1, <3>2, <3>3 DEF Bomb!Plant
    <3> QED BY <3>4 DEF Bomb!Next
  <2>6. CASE ~bomb_check /\ ~Place(user)
    <3>1. UNCHANGED <<bomb_check, bombPos>>
      BY <2>3, <2>6 DEF BombEdge, Keep, Expires, Fits
    <3>2. curr_state' = curr_state
      BY <1>3, <2>1, <2>6
    <3>3. Age = 0 /\ Age' = 0
      BY <1>1, <1>2, <1>3, <2>6, <3>1, <3>2
    <3> QED BY <3>1, <3>2, <3>3 DEF Bomb!vars
  <2> QED BY <2>4, <2>5, <2>6
<1>4. CASE curr_state = "Bomb_Count4"
  <2>1. bomb_check
    BY <1>4 DEF FuseInv, HandShake
  <2>2. bombPos' = Parked
    BY <1>4, <2>1 DEF BombEdge, Remove, Place, Keep, Expires, Fits
  <2>3. curr_state' = "Explode4" /\ count' = count
    BY <1>4, NextOfMarker DEF Marker, Successor
  <2>4. Age = Life /\ Age' = Life + 1
    BY <1>0, <1>1, <1>2, <1>4, <2>3, FuseAssumption DEF CountInPhase, Life, FuseAssumption
  <2>5. Bomb!Vanish
    BY <2>2, <2>3, <2>4 DEF Bomb!Vanish, Life, Deadly
  <2> QED BY <2>5 DEF Bomb!Next
<1>5. CASE curr_state = "Explode4"
  <2>1. ~bomb_check
    BY <1>5 DEF FuseInv, HandShake
  <2>2. UNCHANGED <<bomb_check, bombPos>>
    BY <1>5, <2>1 DEF BombEdge, Remove, Place, Keep, Expires, Fits
  <2>3. curr_state' = "Before"
    BY <1>0, <1>5, NextOfExplode4 DEF CountInPhase
  <2>4. Age = Life + 1 /\ Age' = 0
    BY <1>0, <1>1, <1>2, <1>5, <2>1, <2>2, <2>3, FuseAssumption
    DEF CountInPhase, Life, FuseAssumption
  <2>5. Bomb!CoolDown
    BY <1>5, <2>2, <2>3, <2>4 DEF Bomb!CoolDown, Life, Deadly
  <2> QED BY <2>5 DEF Bomb!Next
<1>6. CASE curr_state \notin {"Before", "Bomb_Count4", "Explode4"}
  <2>1. bombPos' = bombPos
    BY <1>6 DEF BombEdge, Remove, Place, Keep, Expires, Fits
  <2>2. Bomb!Burn
    BY <1>6, <2>1, FuseAges DEF Bomb!Burn, Life
  <2> QED BY <2>2 DEF Bomb!Next
<1> QED BY <1>3, <1>4, <1>5, <1>6

\* The fuse and the bomb registers implement one bomb with one clock: planted
\* only when the last has gone, unmoved for exactly Life frames, deadly in
\* three bursts of them.  (That the clock never stops is left to TLC.)
THEOREM Refinement == Safety => Bomb!Safety
<1>1. Init => Bomb!Init
  <2>1. AgeTable!:
    BY AgeTable
  <2> QED BY <2>1 DEF Init, Bomb!Init, Deadly
<1>2. FuseInv /\ FuseInv' /\ [Next]_vars => [Bomb!Next]_(Bomb!vars)
  <2> SUFFICES ASSUME FuseInv, FuseInv', [Next]_vars
               PROVE  [Bomb!Next]_(Bomb!vars)
    OBVIOUS
  <2>1. CASE Frame
    BY <2>1, FrameRefines DEF Frame
  <2>2. CASE Reset
    <3>1. (AgeTable!:)'
      BY AgeTable, PTL
    <3>2. Bomb!Reset
      BY <2>2, <3>1 DEF Reset, Bomb!Reset, Deadly
    <3> QED BY <3>2 DEF Bomb!Next
  <2>3. CASE UNCHANGED vars
    BY <2>3 DEF vars, Bomb!vars, Age
  <2> QED BY <2>1, <2>2, <2>3 DEF Next
<1> QED BY <1>1, <1>2, FuseInvariant, PTL DEF Safety, Bomb!Safety
=============================================================================

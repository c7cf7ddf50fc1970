---------------------------- MODULE PlayerProofs ----------------------------
(***************************************************************************)
(* Proofs about Player for every board, every field at least 41 x 31       *)
(* pixels large, every set of keys, blasts and breakable tiles.            *)
(***************************************************************************)
EXTENDS Player, PlayerRulesProofs

-----------------------------------------------------------------------------
(* The inductive invariant *)

PlayerInv == TypeOK /\ OneAxis /\ Rim(user)

LEMMA OthersPlace ==
    ASSUME NEW other \in Others
    PROVE  \E a \in Coord, b \in Coord :
              /\ other = <<a, b>>
              /\ a \in XMin - 1 .. XMax - 19 /\ b \in YMin - 1 .. YMax - 26
<1>0. XMax - XSize + 1 = XMax - 19 /\ YMax - YSize + 1 = YMax - 26
  BY BoundsHold DEF XSize, YSize
<1>1. other \in (XMin - 1 .. XMax - 19) \X (YMin - 1 .. YMax - 26)
  BY <1>0, PlaceAssumption DEF PlaceAssumption
<1>2. PICK a \in XMin - 1 .. XMax - 19, b \in YMin - 1 .. YMax - 26 : other = <<a, b>>
  BY <1>1
<1>3. a \in Coord /\ b \in Coord
  BY BoundsHold DEF Coord
<1> QED BY <1>2, <1>3

LEMMA InitInv == Init => PlayerInv
<1> SUFFICES ASSUME Init PROVE PlayerInv
  OBVIOUS
<1>1. Me \in Users
  BY MeAssumption DEF MeAssumption
<1>2. user \in PlayerType /\ user.mx = 0
  BY <1>1, FreshFacts DEF Init
<1>3. Rim(user)
  BY <1>1, FreshRim DEF Init
<1> QED BY <1>2, <1>3 DEF Init, PlayerInv, TypeOK, OneAxis

LEMMA PlayStep ==
    ASSUME PlayerInv, NEW key, NEW lethal, NEW other \in Others, NEW coin \in BOOLEAN
    PROVE  LET w == Played(Me, user, broken, lethal, key, other, coin)
           IN  w \in PlayerType /\ (w.mx = 0 \/ w.my = 0) /\ Rim(w)
<1>1. PICK a \in Coord, b \in Coord : /\ other = <<a, b>>
                                      /\ a \in XMin - 1 .. XMax - 19 /\ b \in YMin - 1 .. YMax - 26
  BY OthersPlace
<1>2. Me \in Users /\ user \in PlayerType /\ (user.mx = 0 \/ user.my = 0)
  BY MeAssumption DEF MeAssumption, PlayerInv, TypeOK, OneAxis
<1> DEFINE w == Played(Me, user, broken, lethal, key, <<a, b>>, coin)
<1>3. w \in PlayerType /\ (w.mx = 0 \/ w.my = 0)
  BY <1>2, PlayedShape
<1>4. Rim(w)
  BY <1>2, RimHolds
<1> QED BY <1>1, <1>3, <1>4

LEMMA StepInv == PlayerInv /\ [Next]_vars => PlayerInv'
<1> SUFFICES ASSUME PlayerInv, [Next]_vars
             PROVE  PlayerInv'
  OBVIOUS
<1>0. /\ user \in PlayerType /\ broken \subseteq Tiles
      /\ user.mx = 0 \/ user.my = 0
      /\ Rim(user)
  BY DEF PlayerInv, TypeOK, OneAxis
<1>1. CASE Play
  <2>1. PICK key \in Keys, lethal \in Blasts, other \in Others, coin \in BOOLEAN :
           user' = Played(Me, user, broken, lethal, key, other, coin)
    BY <1>1 DEF Play
  <2> DEFINE w == Played(Me, user, broken, lethal, key, other, coin)
  <2>2. w \in PlayerType /\ (w.mx = 0 \/ w.my = 0) /\ Rim(w)
    BY PlayStep
  <2> HIDE DEF w
  <2>3. user' = w
    BY <2>1 DEF w
  <2>4. broken' = broken
    BY <1>1 DEF Play
  <2> QED BY <1>0, <2>2, <2>3, <2>4 DEF PlayerInv, TypeOK, OneAxis, Rim, RimOf
<1>2. CASE Freeze
  <2> DEFINE w == Frozen(user)
  <2>1. w \in PlayerType /\ w.mx = 0 /\ w.my = 0 /\ Rim(w)
    BY <1>0, FrozenFacts, RimFlags
  <2>2. user' = w /\ broken' = broken
    BY <1>2 DEF Freeze
  <2> HIDE DEF w
  <2> QED BY <1>0, <2>1, <2>2 DEF PlayerInv, TypeOK, OneAxis, Rim, RimOf
<1>3. CASE Break
  <2> DEFINE w == Overwritten(user)
  <2>1. w \in PlayerType /\ w.mx = user.mx /\ w.my = user.my /\ Rim(w)
    BY <1>0, OverwrittenFacts, RimFlags
  <2>2. user' = w
    BY <1>3 DEF Break
  <2>3. broken' \subseteq Tiles
    BY <1>0, <1>3, PlaceAssumption DEF Break, PlaceAssumption
  <2> HIDE DEF w
  <2> QED BY <1>0, <2>1, <2>2, <2>3 DEF PlayerInv, TypeOK, OneAxis, Rim, RimOf
<1>4. CASE Reset
  <2>0. user.port_flag \in BOOLEAN /\ Me \in Users
    BY <1>0, MeAssumption DEF PlayerType, MeAssumption
  <2> DEFINE w == Fresh(Me, user.port_flag)
  <2>1. w \in PlayerType /\ w.mx = 0 /\ Rim(w)
    BY <2>0, FreshFacts, FreshRim
  <2>2. user' = w /\ broken' = {}
    BY <1>4 DEF Reset
  <2> HIDE DEF w
  <2> QED BY <2>1, <2>2 DEF PlayerInv, TypeOK, OneAxis, Rim, RimOf
<1>5. CASE UNCHANGED vars
  BY <1>5 DEF vars, PlayerInv, TypeOK, OneAxis, Rim
<1> QED BY <1>1, <1>2, <1>3, <1>4, <1>5 DEF Next

\* Types, one axis at a time and flags on the rim, on every board.
THEOREM PlayerInvariant == Safety => []PlayerInv
BY InitInv, StepInv, PTL DEF Safety

\* All registers of a user module keep values of their widths, whatever the wrapping
\* sums of the second chain make of a position.
THEOREM TypeCorrect == Safety => []TypeOK
<1>1. PlayerInv => TypeOK
  BY DEF PlayerInv
<1> QED BY <1>1, PlayerInvariant, PTL

\* No player ever moves along both axes, whatever keys, bumps, hits, teleports and
\* pauses have interleaved, so each bump test sees the one axis it is written for.
THEOREM OneAxisCorrect == Safety => []OneAxis
<1>1. PlayerInv => OneAxis
  BY DEF PlayerInv
<1> QED BY <1>1, PlayerInvariant, PTL

-----------------------------------------------------------------------------
(* The way out of the field *)

LEMMA BoundsAreField == InBounds <=> InField(user)
BY BoundsHold DEF InBounds, InField, XSize, YSize

\* Whatever but KEY[0] happens to a player in the field with at most one wall flag up
\* keeps it there.
LEMMA FieldStep ==
    ASSUME PlayerInv, Play \/ Freeze \/ Break, InField(user), ~Torn
    PROVE  InField(user')
<1>0. /\ user \in PlayerType /\ (user.mx = 0 \/ user.my = 0) /\ Rim(user)
      /\ Me \in Users
  BY MeAssumption DEF PlayerInv, TypeOK, OneAxis, MeAssumption
<1>n. \A f, g \in user.walls : f = g
  BY DEF Torn
<1>1. CASE Play
  <2>1. PICK key \in Keys, lethal \in Blasts, other \in Others, coin \in BOOLEAN :
           user' = Played(Me, user, broken, lethal, key, other, coin)
    BY <1>1 DEF Play
  <2>2. PICK a \in Coord, b \in Coord : /\ other = <<a, b>>
                                        /\ a \in XMin - 1 .. XMax - 19 /\ b \in YMin - 1 .. YMax - 26
    BY OthersPlace
  <2>3. InField(Played(Me, user, broken, lethal, key, <<a, b>>, coin))
    BY <1>0, <1>n, <2>2, FieldHolds
  <2> QED BY <2>1, <2>2, <2>3
<1>2. CASE Freeze
  <2>1. user' = Frozen(user) /\ InField(Frozen(user))
    BY <1>0, <1>2, FrozenFacts DEF Freeze, InField
  <2> QED BY <2>1
<1>3. CASE Break
  <2>1. user' = Overwritten(user) /\ InField(Overwritten(user))
    BY <1>0, <1>3, OverwrittenFacts DEF Break, InField
  <2> QED BY <2>1
<1> QED BY <1>1, <1>2, <1>3

LEMMA BoundsNext == ASSUME InField(user') PROVE InBounds'
BY BoundsHold DEF InBounds, InField, XSize, YSize

\* Either player leaves the field only with two wall flags up, on every board and
\* field size, with every key and brick, or by KEY[0].
THEOREM LeavesByTwo == Safety => [][InBounds /\ ~InBounds' => Torn \/ Reset]_vars
<1>1. PlayerInv /\ [Next]_vars => [InBounds /\ ~InBounds' => Torn \/ Reset]_vars
  BY BoundsAreField, FieldStep, BoundsNext DEF Next
<1> QED BY <1>1, PlayerInvariant, PTL DEF Safety

\* Player 1 leaves it in no other way at all: KEY[0] puts it into the field.
THEOREM LeavesCorrect ==
    ASSUME Me = "user1"
    PROVE  Safety => LeavesOnlyTorn
<1>1. PlayerInv /\ [InBounds /\ ~InBounds' => Torn \/ Reset]_vars
         => [InBounds /\ ~InBounds' => Torn]_vars
  <2> SUFFICES ASSUME PlayerInv, Reset PROVE InBounds'
    OBVIOUS
  <2>1. user.port_flag \in BOOLEAN
    BY DEF PlayerInv, TypeOK, PlayerType
  <2>2. InField(user')
    BY <2>1, FirstInField DEF Reset
  <2> QED BY <2>2, BoundsNext
<1> QED BY <1>1, LeavesByTwo, PlayerInvariant, PTL DEF LeavesOnlyTorn

\* As long as no two wall flags are up at once, player 1 stays in the field: the
\* bounces, and nothing about the board or the keys, keep it there.
THEOREM StaysCorrect ==
    ASSUME Me = "user1"
    PROVE  Safety /\ []~Torn => []StaysInBounds
<1>1. Init => InBounds
  <2>1. Init => InField(user)
    BY FirstInField DEF Init
  <2> QED BY <2>1, BoundsAreField
<1>2. InBounds /\ ~Torn /\ [InBounds /\ ~InBounds' => Torn]_vars => InBounds'
  BY DEF InBounds, vars
<1> QED BY <1>1, <1>2, LeavesCorrect, PTL DEF Safety, LeavesOnlyTorn, StaysInBounds

\* Both players, on every board: as long as no two wall flags are up at once, a player
\* is in the field, or below it where KEY[0] put the second player and from where it is
\* pushed up.
THEOREM BothStay == Safety /\ []~Torn => [](InBounds \/ BelowField(user))
<1> DEFINE Stays == InField(user) \/ BelowField(user)
<1>0. Me \in Users
  BY MeAssumption DEF MeAssumption
<1>1. Init => Stays
  BY <1>0, FreshPlace DEF Init
<1>2. PlayerInv /\ ~Torn /\ Stays /\ [Next]_vars => Stays'
  <2> SUFFICES ASSUME PlayerInv, ~Torn, Stays, [Next]_vars
               PROVE  InField(user') \/ BelowField(user')
    BY DEF InField, BelowField
  <2>0. user \in PlayerType /\ user.port_flag \in BOOLEAN
    BY DEF PlayerInv, TypeOK, PlayerType
  <2>1. CASE Reset
    BY <1>0, <2>0, <2>1, FreshPlace DEF Reset
  <2>2. CASE UNCHANGED vars
    BY <2>2 DEF vars
  <2>3. CASE (Play \/ Freeze \/ Break) /\ InField(user)
    BY <2>3, FieldStep
  <2>4. CASE Play /\ BelowField(user)
    <3>1. PICK key \in Keys, lethal \in Blasts, other \in Others, coin \in BOOLEAN :
             user' = Played(Me, user, broken, lethal, key, other, coin)
      BY <2>4 DEF Play
    <3>2. PICK a \in Coord, b \in Coord : /\ other = <<a, b>>
                                          /\ a \in XMin - 1 .. XMax - 19 /\ b \in YMin - 1 .. YMax - 26
      BY OthersPlace
    <3> DEFINE w == Played(Me, user, broken, lethal, key, <<a, b>>, coin)
    <3>3. BelowField(w) \/ InField(w)
      BY <1>0, <2>0, <2>4, <3>2, ClimbStep
    <3> QED BY <3>1, <3>2, <3>3
  <2>5. CASE Freeze /\ BelowField(user)
    <3>1. user' = Frozen(user) /\ BelowField(Frozen(user))
      BY <2>0, <2>5, FrozenFacts DEF Freeze, BelowField
    <3> QED BY <3>1
  <2>6. CASE Break /\ BelowField(user)
    <3>1. user' = Overwritten(user) /\ BelowField(Overwritten(user))
      BY <2>0, <2>6, OverwrittenFacts DEF Break, BelowField
    <3> QED BY <3>1
  <2> QED BY <2>1, <2>2, <2>3, <2>4, <2>5, <2>6 DEF Next
<1>3. Stays => InBounds \/ BelowField(user)
  BY BoundsAreField
<1> HIDE DEF Stays
<1> QED BY <1>1, <1>2, <1>3, PlayerInvariant, PTL DEF Safety

-----------------------------------------------------------------------------
(* Walking in the open *)

\* On every board, for either player, wherever the other one is when a teleport leads
\* to it: a player that walks by itself is never more than a pixel, along one axis,
\* from a place where no corner of it is on a wall or a brick, whatever keys, pauses,
\* hits, teleports and breaking bricks have interleaved.  The frame that clears the
\* wall flags has looked at the place that the step in the same frame leaves.
THEOREM WalksCorrect == Safety => []WalksInTheOpen
<1>1. Init => WalksInTheOpen
  BY FreshStands DEF Init, WalksInTheOpen
<1>2. PlayerInv /\ WalksInTheOpen /\ [Next]_vars => WalksInTheOpen'
  <2> SUFFICES ASSUME PlayerInv, WalksInTheOpen, [Next]_vars,
                      Walking(user')
               PROVE  NearOpen(user', broken')
    BY DEF WalksInTheOpen
  <2>0. user \in PlayerType /\ (user.mx = 0 \/ user.my = 0)
    BY DEF PlayerInv, TypeOK, OneAxis
  <2>1. CASE Play
    <3>1. PICK key \in Keys, lethal \in Blasts, other \in Others, coin \in BOOLEAN :
             user' = Played(Me, user, broken, lethal, key, other, coin)
      BY <2>1 DEF Play
    <3>2. PICK a \in Coord, b \in Coord : other = <<a, b>>
      BY OthersPlace
    <3> DEFINE w == Played(Me, user, broken, lethal, key, <<a, b>>, coin)
    <3>3. Walking(w) => NearOpen(w, broken)
      BY <2>0, WalkStep, MeAssumption DEF MeAssumption
    <3> HIDE DEF w
    <3>4. user' = w /\ broken' = broken
      BY <2>1, <3>1, <3>2 DEF w, Play
    <3> QED BY <3>3, <3>4
  <2>2. CASE Freeze
    BY <2>0, <2>2, FrozenStands DEF Freeze
  <2>3. CASE Break
    <3>1. user' = Overwritten(user) /\ broken \subseteq broken'
      BY <2>3 DEF Break
    <3> QED BY <2>0, <3>1, WalkKept DEF WalksInTheOpen
  <2>4. CASE Reset
    BY <2>4, FreshStands DEF Reset
  <2>5. CASE UNCHANGED vars
    BY <2>5 DEF vars, WalksInTheOpen
  <2> QED BY <2>1, <2>2, <2>3, <2>4, <2>5 DEF Next
<1> QED BY <1>1, <1>2, PlayerInvariant, PTL DEF Safety

-----------------------------------------------------------------------------
(* The end of the game *)

LEMMA HonestStep == PlayerInv /\ Honest(user) /\ [Next]_vars => Honest(user)'
<1> SUFFICES ASSUME PlayerInv, Honest(user), [Next]_vars
             PROVE  Honest(user')
  BY DEF Honest, OnHazardTiles
<1>0. user \in PlayerType /\ (user.mx = 0 \/ user.my = 0)
  BY DEF PlayerInv, TypeOK, OneAxis
<1>1. CASE Play
  <2>1. PICK key \in Keys, lethal \in Blasts, other \in Others, coin \in BOOLEAN :
           user' = Played(Me, user, broken, lethal, key, other, coin)
    BY <1>1 DEF Play
  <2>2. PICK a \in Coord, b \in Coord : other = <<a, b>>
    BY OthersPlace
  <2>3. Honest(Played(Me, user, broken, lethal, key, <<a, b>>, coin))
    BY <1>0, MeAssumption, HonestPlay DEF MeAssumption
  <2> QED BY <2>1, <2>2, <2>3
<1>2. CASE Freeze
  BY <1>0, <1>2, HonestFlags DEF Freeze
<1>3. CASE Break
  BY <1>0, <1>3, HonestFlags DEF Break
<1>4. CASE Reset
  BY <1>4, HonestFresh DEF Reset
<1>5. CASE UNCHANGED vars
  BY <1>5 DEF vars
<1> QED BY <1>1, <1>2, <1>3, <1>4, <1>5 DEF Next

\* On every board: die_flag, on which the game ends, is up only with all lives gone,
\* on a hazard tile that is adding to max_lives in the same frame, or with a teleport
\* still to end; a hit that brings the player home never leaves it up.
THEOREM DieFlagCorrect == Safety => []DieFlagHonest
<1>1. Init => Honest(user)
  BY HonestFresh DEF Init
<1>2. PlayerInv /\ Honest(user) /\ [Next]_vars => Honest(user)'
  BY HonestStep
<1>3. PlayerInv /\ Honest(user) => DieFlagHonest
  <2> SUFFICES ASSUME PlayerInv, Honest(user), user.die_flag
               PROVE  \/ user.death_count >= user.max_lives
                      \/ OnHazardTiles(user)
                      \/ user.port_flag
    BY DEF DieFlagHonest
  <2>1. user.die_flag = TRUE /\ user.port_flag \in BOOLEAN
    BY DEF PlayerInv, TypeOK, PlayerType
  <2> QED BY <2>1 DEF Honest
<1> QED BY <1>1, <1>2, <1>3, PlayerInvariant, PTL DEF Safety
=============================================================================

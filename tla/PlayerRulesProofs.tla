-------------------------- MODULE PlayerRulesProofs --------------------------
(***************************************************************************)
(* What the operators of PlayerRules return, for every board and every     *)
(* field at least 41 x 31 pixels large: the facts that the proofs about    *)
(* Player and about Match rest on.                                         *)
(***************************************************************************)
EXTENDS PlayerRules, TLAPS

Senses == Walls \union {"hit", "port", "hazard", "caught", "free"}

\* What a coordinate register holds.
Coord == 0 .. 1023

LEMMA BoundsHold ==
    /\ XMin \in 32 .. 900 /\ XMax \in 32 .. 900 /\ XMin + 40 < XMax
    /\ YMin \in 32 .. 900 /\ YMax \in 32 .. 900 /\ YMin + 30 < YMax
BY BoundsAssumption DEF BoundsAssumption

-----------------------------------------------------------------------------
(* What the operators of PlayerRules return *)

LEMMA EdgeIsWall == ASSUME NEW u PROVE AtEdge(u) \in Walls \union {"none"}
BY DEF AtEdge, Walls

LEMMA SenseRange == ASSUME NEW u, NEW seen, NEW lethal
                    PROVE  Sense(u, seen, lethal) \in Senses
<1>1. AtEdge(u) \in Walls \union {"none"}
  BY EdgeIsWall
<1>2. AtPillar(u) \in Walls \union {"none"}
  BY DEF AtPillar, Walls
<1>3. AtBrick(u, seen) \in Walls \union {"caught", "none"}
  BY DEF AtBrick, Walls
<1> QED BY <1>1, <1>2, <1>3 DEF Sense, Senses

\* The edges are tested first.
LEMMA EdgeFirst == ASSUME NEW u, NEW seen, NEW lethal, AtEdge(u) # "none"
                   PROVE  Sense(u, seen, lethal) = AtEdge(u)
BY DEF Sense

LEMMA SteerOneAxis ==
    ASSUME NEW who, NEW u \in PlayerType, NEW key, u.mx = 0 \/ u.my = 0
    PROVE  /\ Steer(who, u, key)[1] \in -1 .. 1 /\ Steer(who, u, key)[2] \in -1 .. 1
           /\ Steer(who, u, key)[1] = 0 \/ Steer(who, u, key)[2] = 0
<1>1. Steer(who, u, key) \in {<<-1, 0>>, <<1, 0>>, <<0, 1>>, <<0, -1>>, <<u.mx, u.my>>}
  BY DEF Steer
<1>2. u.mx \in -1 .. 1 /\ u.my \in -1 .. 1
  BY DEF PlayerType
<1> QED BY <1>1, <1>2

\* A register takes another value of its width, and the player stays a player.
LEMMA SetHit == ASSUME NEW u \in PlayerType, NEW b \in BOOLEAN
                PROVE  [u EXCEPT !.bomb_flag = b] \in PlayerType
BY DEF PlayerType

LEMMA SetPort == ASSUME NEW u \in PlayerType, NEW b \in BOOLEAN
                 PROVE  [u EXCEPT !.port_flag = b] \in PlayerType
BY DEF PlayerType

LEMMA SetDrop == ASSUME NEW u \in PlayerType, NEW b \in BOOLEAN
                 PROVE  [u EXCEPT !.bomb_drop = b] \in PlayerType
BY DEF PlayerType

LEMMA SetDie == ASSUME NEW u \in PlayerType, NEW b \in BOOLEAN
                PROVE  [u EXCEPT !.die_flag = b] \in PlayerType
BY DEF PlayerType

LEMMA SetWalls == ASSUME NEW u \in PlayerType, NEW b \in SUBSET Walls
                  PROVE  [u EXCEPT !.walls = b] \in PlayerType
BY DEF PlayerType

LEMMA SetMx == ASSUME NEW u \in PlayerType, NEW b \in -1 .. 1
               PROVE  [u EXCEPT !.mx = b] \in PlayerType
BY DEF PlayerType

LEMMA SetMy == ASSUME NEW u \in PlayerType, NEW b \in -1 .. 1
               PROVE  [u EXCEPT !.my = b] \in PlayerType
BY DEF PlayerType

LEMMA SetX == ASSUME NEW u \in PlayerType, NEW b \in Coord
              PROVE  [u EXCEPT !.x = b] \in PlayerType
BY DEF PlayerType, Coord

LEMMA SetY == ASSUME NEW u \in PlayerType, NEW b \in Coord
              PROVE  [u EXCEPT !.y = b] \in PlayerType
BY DEF PlayerType, Coord

LEMMA SetDeaths == ASSUME NEW u \in PlayerType, NEW b \in 0 .. 7
                   PROVE  [u EXCEPT !.death_count = b] \in PlayerType
BY DEF PlayerType

LEMMA SetLives == ASSUME NEW u \in PlayerType, NEW b \in 0 .. 15
                  PROVE  [u EXCEPT !.max_lives = b] \in PlayerType
BY DEF PlayerType

LEMMA SetErased == ASSUME NEW u \in PlayerType, NEW b \in SUBSET Tiles
                   PROVE  [u EXCEPT !.erased = b] \in PlayerType
BY DEF PlayerType

LEMMA StopX == ASSUME NEW u \in PlayerType PROVE [u EXCEPT !.mx = 0] \in PlayerType
BY DEF PlayerType

LEMMA StopY == ASSUME NEW u \in PlayerType PROVE [u EXCEPT !.my = 0] \in PlayerType
BY DEF PlayerType

LEMMA StepX == ASSUME NEW v \in PlayerType, NEW n \in Coord
               PROVE  [v EXCEPT !.x = n, !.mx = 0] \in PlayerType
<1> DEFINE w == [v EXCEPT !.x = n]
<1>1. w \in PlayerType
  BY SetX
<1>2. [v EXCEPT !.x = n, !.mx = 0] = [w EXCEPT !.mx = 0]
  OBVIOUS
<1>3. 0 \in -1 .. 1
  OBVIOUS
<1>4. [w EXCEPT !.mx = 0] \in PlayerType
  <2> HIDE DEF w
  <2> QED BY <1>1, <1>3, SetMx, Zenon
<1> QED BY <1>2, <1>4

LEMMA StepY == ASSUME NEW v \in PlayerType, NEW n \in Coord
               PROVE  [v EXCEPT !.y = n, !.my = 0] \in PlayerType
<1> DEFINE w == [v EXCEPT !.y = n]
<1>1. w \in PlayerType
  BY SetY
<1>2. [v EXCEPT !.y = n, !.my = 0] = [w EXCEPT !.my = 0]
  OBVIOUS
<1>3. 0 \in -1 .. 1
  OBVIOUS
<1>4. [w EXCEPT !.my = 0] \in PlayerType
  <2> HIDE DEF w
  <2> QED BY <1>1, <1>3, SetMy, Zenon
<1> QED BY <1>2, <1>4

LEMMA StepXY == ASSUME NEW v \in PlayerType, NEW n \in Coord, NEW m \in Coord
                PROVE  [v EXCEPT !.x = n, !.y = m] \in PlayerType
<1> DEFINE w == [v EXCEPT !.x = n]
<1>1. w \in PlayerType
  BY SetX
<1>2. [v EXCEPT !.x = n, !.y = m] = [w EXCEPT !.y = m]
  OBVIOUS
<1>3. [w EXCEPT !.y = m] \in PlayerType
  <2> HIDE DEF w
  <2> QED BY <1>1, SetY, Zenon
<1> QED BY <1>2, <1>3

LEMMA Registers ==
    ASSUME NEW u \in PlayerType
    PROVE  /\ u.x \in 0 .. 1023 /\ u.y \in 0 .. 1023 /\ u.mx \in -1 .. 1 /\ u.my \in -1 .. 1
           /\ u.walls \subseteq Walls /\ u.death_count \in 0 .. 7 /\ u.max_lives \in 0 .. 15
           /\ u.x \in Int /\ u.y \in Int /\ u.mx \in Int /\ u.my \in Int
BY SMTT(30) DEF PlayerType

Names == {"x", "y", "mx", "my", "walls", "bomb_flag", "port_flag", "bomb_drop",
          "die_flag", "death_count", "max_lives", "erased"}

LEMMA Fields == ASSUME NEW u \in PlayerType PROVE DOMAIN u = Names
BY DEF PlayerType, Names

\* The first chain leaves the position alone and adds at most one wall flag; only
\* a free frame takes flags away.
LEMMA FlaggedFacts ==
    ASSUME NEW who, NEW u \in PlayerType, NEW key, NEW sensed \in Senses,
           u.mx = 0 \/ u.my = 0
    PROVE  LET v == Flagged(who, u, key)[sensed]
           IN  /\ v \in PlayerType
               /\ v.x = u.x /\ v.y = u.y
               /\ v.mx = 0 \/ v.my = 0
               /\ sensed \in Walls => v.walls = u.walls \union {sensed}
<1> DEFINE v == Flagged(who, u, key)[sensed]
<1>1. CASE sensed \in Walls
  <2>1. v = [u EXCEPT !.walls = @ \union {sensed}]
    BY <1>1 DEF Flagged, Senses, Walls
  <2>2. u.walls \union {sensed} \in SUBSET Walls
    BY <1>1, Registers
  <2>3. [u EXCEPT !.walls = @ \union {sensed}] \in PlayerType
    BY <2>2, SetWalls DEF Walls
  <2>4. LET w == [u EXCEPT !.walls = @ \union {sensed}]
        IN  w.x = u.x /\ w.y = u.y /\ w.mx = u.mx /\ w.my = u.my /\ w.walls = u.walls \union {sensed}
    BY Fields DEF Names
  <2> QED BY <1>1, <2>1, <2>3, <2>4
<1>2. CASE sensed = "hit"
  <2>1. v = [u EXCEPT !.bomb_flag = TRUE]
    BY <1>2 DEF Flagged, Senses, Walls
  <2>3. [u EXCEPT !.bomb_flag = TRUE] \in PlayerType
    BY SetHit
  <2>4. LET w == [u EXCEPT !.bomb_flag = TRUE]
        IN  w.x = u.x /\ w.y = u.y /\ w.mx = u.mx /\ w.my = u.my
    BY Fields DEF Names
  <2> QED BY <1>2, <2>1, <2>3, <2>4 DEF Walls
<1>3. CASE sensed = "port"
  <2>1. v = [u EXCEPT !.port_flag = TRUE]
    BY <1>3 DEF Flagged, Senses, Walls
  <2>3. [u EXCEPT !.port_flag = TRUE] \in PlayerType
    BY SetPort
  <2>4. LET w == [u EXCEPT !.port_flag = TRUE]
        IN  w.x = u.x /\ w.y = u.y /\ w.mx = u.mx /\ w.my = u.my
    BY Fields DEF Names
  <2> QED BY <1>3, <2>1, <2>3, <2>4 DEF Walls
<1>4. CASE sensed = "hazard"
  <2>1. v = [u EXCEPT !.max_lives = (@ + 2) % 16]
    BY <1>4 DEF Flagged, Senses, Walls
  <2>2. (u.max_lives + 2) % 16 \in 0 .. 15
    BY Registers
  <2>3. [u EXCEPT !.max_lives = (@ + 2) % 16] \in PlayerType
    BY <2>2, SetLives
  <2>4. LET w == [u EXCEPT !.max_lives = (@ + 2) % 16]
        IN  w.x = u.x /\ w.y = u.y /\ w.mx = u.mx /\ w.my = u.my
    BY Fields DEF Names
  <2> QED BY <1>4, <2>1, <2>3, <2>4 DEF Walls
<1>5. CASE sensed = "caught"
  <2>1. v = u
    BY <1>5 DEF Flagged, Senses, Walls
  <2> QED BY <1>5, <2>1 DEF Walls
<1>6. CASE sensed = "free"
  <2> DEFINE drop == (key = Keymap[who].bomb)
             m == Steer(who, u, key)
             v1 == [u EXCEPT !.walls = {}]
             v2 == [v1 EXCEPT !.bomb_flag = FALSE]
             v3 == [v2 EXCEPT !.port_flag = FALSE]
             v4 == [v3 EXCEPT !.die_flag = FALSE]
             v5 == [v4 EXCEPT !.bomb_drop = drop]
             v6 == [v5 EXCEPT !.mx = m[1]]
             v7 == [v6 EXCEPT !.my = m[2]]
  <2>1. v = v7
    BY <1>6 DEF Flagged, Senses, Walls
  <2>2. drop \in BOOLEAN /\ m[1] \in -1 .. 1 /\ m[2] \in -1 .. 1 /\ (m[1] = 0 \/ m[2] = 0)
    BY SteerOneAxis
  <2> HIDE DEF v, drop, m
  <2>4. v7 \in PlayerType
    <3>1. v1 \in PlayerType
      BY SetWalls
    <3>2. v2 \in PlayerType
      <4> HIDE DEF v1
      <4> QED BY <3>1, SetHit
    <3>3. v3 \in PlayerType
      <4> HIDE DEF v2
      <4> QED BY <3>2, SetPort
    <3>4. v4 \in PlayerType
      <4> HIDE DEF v3
      <4> QED BY <3>3, SetDie
    <3>5. v5 \in PlayerType
      <4> HIDE DEF v4
      <4> QED BY <2>2, <3>4, SetDrop
    <3>6. v6 \in PlayerType
      <4> HIDE DEF v5
      <4> QED BY <2>2, <3>5, SetMx
    <3>7. v7 \in PlayerType
      <4> HIDE DEF v6
      <4> QED BY <2>2, <3>6, SetMy
    <3> QED BY <3>7
  <2>5. v7.x = u.x /\ v7.y = u.y /\ v7.mx = m[1] /\ v7.my = m[2]
    BY Fields DEF Names
  <2> HIDE DEF v7
  <2> QED BY <1>6, <2>1, <2>2, <2>4, <2>5 DEF v, Walls
<1> QED BY <1>1, <1>2, <1>3, <1>4, <1>5, <1>6 DEF Senses

\* A wall flag moves the player one pixel along its axis, T first; without one it
\* goes where the motion points.
LEMMA WalkFacts ==
    ASSUME NEW u \in PlayerType, NEW v \in PlayerType
    PROVE  LET w == Walk(u, v)
           IN  /\ w \in PlayerType
               /\ w.walls = v.walls
               /\ (v.mx = 0 \/ v.my = 0) => (w.mx = 0 \/ w.my = 0)
               /\ \/ /\ "T" \in u.walls
                     /\ w.x = v.x /\ w.y = (u.y - 1) % 1024
                  \/ /\ "L" \in u.walls
                     /\ w.x = (u.x - 1) % 1024 /\ w.y = v.y
                  \/ /\ "R" \in u.walls
                     /\ w.x = (u.x + 1) % 1024 /\ w.y = v.y
                  \/ /\ "B" \in u.walls
                     /\ w.x = v.x /\ w.y = (u.y + 1) % 1024
                  \/ /\ u.walls \intersect Walls = {}
                     /\ w.x = (u.x + u.mx) % 1024 /\ w.y = (u.y + u.my) % 1024
<1> DEFINE w == Walk(u, v)
<1>0. u.x \in Int /\ u.y \in Int /\ u.mx \in Int /\ u.my \in Int
  BY Registers
<1>a. (u.x - 1) % 1024 \in Coord
  BY <1>0 DEF Coord
<1>b. (u.x + 1) % 1024 \in Coord
  BY <1>0, SMTT(30) DEF Coord
<1>c. \E n \in Coord : n = (u.x + u.mx) % 1024
  <2>1. PICK a \in Int, d \in Int : a = u.x /\ d = u.mx
    BY <1>0
  <2>2. (a + d) % 1024 \in Coord
    BY DEF Coord
  <2> QED BY <2>1, <2>2
<1>d. (u.y - 1) % 1024 \in Coord
  BY <1>0 DEF Coord
<1>e. (u.y + 1) % 1024 \in Coord
  BY <1>0, SMTT(30) DEF Coord
<1>g. \E n \in Coord : n = (u.y + u.my) % 1024
  <2>1. PICK a \in Int, d \in Int : a = u.y /\ d = u.my
    BY <1>0
  <2>2. (a + d) % 1024 \in Coord
    BY DEF Coord
  <2> QED BY <2>1, <2>2
<1>f. DOMAIN v = Names
  BY Fields
<1>1. CASE "T" \in u.walls
  <2>0. PICK n \in Coord : n = (u.y - 1) % 1024
    BY <1>d
  <2> DEFINE q == [v EXCEPT !.y = n, !.my = 0]
  <2>1. w = q
    BY <1>1, <2>0 DEF Walk
  <2>2. q \in PlayerType
    BY StepY
  <2>3. /\ q.walls = v.walls /\ q.my = 0
        /\ q.x = v.x /\ q.y = n
    BY <1>f DEF Names
  <2> HIDE DEF w, q
  <2> QED BY <1>1, <2>0, <2>1, <2>2, <2>3 DEF w
<1>2. CASE "T" \notin u.walls /\ "L" \in u.walls
  <2>0. PICK n \in Coord : n = (u.x - 1) % 1024
    BY <1>a
  <2> DEFINE q == [v EXCEPT !.x = n, !.mx = 0]
  <2>1. w = q
    BY <1>2, <2>0 DEF Walk
  <2>2. q \in PlayerType
    BY StepX
  <2>3. /\ q.walls = v.walls /\ q.mx = 0
        /\ q.y = v.y /\ q.x = n
    BY <1>f DEF Names
  <2> HIDE DEF w, q
  <2> QED BY <1>2, <2>0, <2>1, <2>2, <2>3 DEF w
<1>3. CASE "T" \notin u.walls /\ "L" \notin u.walls /\ "R" \in u.walls
  <2>0. PICK n \in Coord : n = (u.x + 1) % 1024
    BY <1>b
  <2> DEFINE q == [v EXCEPT !.x = n, !.mx = 0]
  <2>1. w = q
    BY <1>3, <2>0 DEF Walk
  <2>2. q \in PlayerType
    BY StepX
  <2>3. /\ q.walls = v.walls /\ q.mx = 0
        /\ q.y = v.y /\ q.x = n
    BY <1>f DEF Names
  <2> HIDE DEF w, q
  <2> QED BY <1>3, <2>0, <2>1, <2>2, <2>3 DEF w
<1>4. CASE u.walls \intersect {"T", "L", "R"} = {} /\ "B" \in u.walls
  <2>0. PICK n \in Coord : n = (u.y + 1) % 1024
    BY <1>e
  <2> DEFINE q == [v EXCEPT !.y = n, !.my = 0]
  <2>1. w = q
    BY <1>4, <2>0 DEF Walk
  <2>2. q \in PlayerType
    BY StepY
  <2>3. /\ q.walls = v.walls /\ q.my = 0
        /\ q.x = v.x /\ q.y = n
    BY <1>f DEF Names
  <2> HIDE DEF w, q
  <2> QED BY <1>4, <2>0, <2>1, <2>2, <2>3 DEF w
<1>5. CASE u.walls \intersect Walls = {}
  <2>0. PICK n \in Coord : n = (u.x + u.mx) % 1024
    BY <1>c
  <2>m. PICK m \in Coord : m = (u.y + u.my) % 1024
    BY <1>g
  <2> DEFINE q == [v EXCEPT !.x = n, !.y = m]
  <2>1. w = q
    BY <1>5, <2>0, <2>m DEF Walk, Walls
  <2>2. q \in PlayerType
    <3>1. [v EXCEPT !.x = n] \in PlayerType
      BY SetX
    <3>2. [[v EXCEPT !.x = n] EXCEPT !.y = m] \in PlayerType
      BY <3>1, SetY
    <3> QED BY <3>2
  <2>3. q.walls = v.walls /\ q.mx = v.mx /\ q.my = v.my /\ q.x = n /\ q.y = m
    BY <1>f DEF Names
  <2> HIDE DEF w, q
  <2> QED BY <1>5, <2>0, <2>m, <2>1, <2>2, <2>3 DEF w
<1> QED BY <1>1, <1>2, <1>3, <1>4, <1>5 DEF Walls

\* A player that is put somewhere stands still there.
LEMMA AtFacts ==
    ASSUME NEW v \in PlayerType, NEW a \in Coord, NEW b \in Coord
    PROVE  LET w == At(v, <<a, b>>)
           IN  w \in PlayerType /\ w.walls = v.walls /\ w.mx = 0 /\ w.my = 0 /\ w.x = a /\ w.y = b
<1> DEFINE q1 == [v EXCEPT !.x = a]
           q2 == [q1 EXCEPT !.y = b]
           q3 == [q2 EXCEPT !.mx = 0]
           q4 == [q3 EXCEPT !.my = 0]
<1>1. q1 \in PlayerType
  BY SetX
<1>2. q2 \in PlayerType
  <2> HIDE DEF q1
  <2> QED BY <1>1, SetY
<1>3. q3 \in PlayerType
  <2> HIDE DEF q2
  <2> QED BY <1>2, StopX
<1>4. q4 \in PlayerType
  <2> HIDE DEF q3
  <2> QED BY <1>3, StopY
<1>5. q4.walls = v.walls /\ q4.mx = 0 /\ q4.my = 0 /\ q4.x = a /\ q4.y = b
  BY Fields DEF Names
<1>6. At(v, <<a, b>>) = q4
  BY DEF At
<1> HIDE DEF q4
<1> QED BY <1>4, <1>5, <1>6

LEMMA HomePlace ==
    ASSUME NEW who \in Users
    PROVE  \E a \in XMin + 7 .. XMax - 28, b \in YMin + 2 .. YMax - 27 :
              Home[who] = <<a, b>> /\ a \in Coord /\ b \in Coord
<1>1. CASE who = "user1"
  <2>1. Home[who] = <<XMin + 7, YMin + 3>>
    BY <1>1 DEF Home
  <2>2. XMin + 7 \in XMin + 7 .. XMax - 28 /\ XMin + 7 \in Coord
    BY BoundsHold DEF Coord
  <2>3. YMin + 3 \in YMin + 2 .. YMax - 27 /\ YMin + 3 \in Coord
    BY BoundsHold DEF Coord
  <2> QED BY <2>1, <2>2, <2>3
<1>2. CASE who = "user2"
  <2>1. Home[who] = <<XMax - 28, YMax - 28>>
    BY <1>2 DEF Home
  <2>2. XMax - 28 \in XMin + 7 .. XMax - 28 /\ XMax - 28 \in Coord
    BY BoundsHold DEF Coord
  <2>3. YMax - 28 \in YMin + 2 .. YMax - 27 /\ YMax - 28 \in Coord
    BY BoundsHold DEF Coord
  <2> QED BY <2>1, <2>2, <2>3
<1> QED BY <1>1, <1>2 DEF Users

LEMMA HomeOnScreen ==
    ASSUME NEW who \in Users
    PROVE  \E a \in Coord, b \in Coord : Home[who] = <<a, b>>
BY HomePlace

\* The second chain puts the player somewhere, leaves it, or lets it walk; the
\* wall flags are those of the first chain.
LEMMA MovedFacts ==
    ASSUME NEW who \in Users, NEW u \in PlayerType, NEW v \in PlayerType,
           NEW a \in Coord, NEW b \in Coord, NEW coin \in BOOLEAN
    PROVE  LET w == Moved(who, u, v, <<a, b>>, coin)
           IN  /\ w \in PlayerType
               /\ w.walls = v.walls
               /\ (v.mx = 0 \/ v.my = 0) => (w.mx = 0 \/ w.my = 0)
               /\ \/ <<w.x, w.y>> \in {Home[who], <<a, b>>}
                  \/ w.x = v.x /\ w.y = v.y
                  \/ w.x = Walk(u, v).x /\ w.y = Walk(u, v).y
<1> DEFINE w == Moved(who, u, v, <<a, b>>, coin)
<1>h. PICK ha \in Coord, hb \in Coord : Home[who] = <<ha, hb>>
  BY HomeOnScreen
<1>1. CASE u.bomb_flag
  <2> DEFINE q == At(v, <<ha, hb>>)
             d == (u.death_count + 1) % 8
             l == u.max_lives
             q1 == [q EXCEPT !.death_count = d]
             q2 == [q1 EXCEPT !.die_flag = FALSE]
             q3 == [q2 EXCEPT !.max_lives = l]
  <2>1. w = q3
    BY <1>1, <1>h DEF Moved
  <2>2. q \in PlayerType /\ q.walls = v.walls /\ q.mx = 0 /\ q.my = 0 /\ q.x = ha /\ q.y = hb
    BY AtFacts
  <2>3. d \in 0 .. 7 /\ l \in 0 .. 15
    <3>1. PICK k \in 0 .. 7 : u.death_count = k
      BY Registers
    <3> QED BY <3>1, Registers
  <2> HIDE DEF q, d, l
  <2>4. q1 \in PlayerType
    BY <2>2, <2>3, SetDeaths
  <2>5. q2 \in PlayerType
    <3> HIDE DEF q1
    <3> QED BY <2>4, SetDie
  <2>6. q3 \in PlayerType
    <3> HIDE DEF q2
    <3> QED BY <2>3, <2>5, SetLives
  <2>7. q3.walls = q.walls /\ q3.mx = q.mx /\ q3.my = q.my /\ q3.x = q.x /\ q3.y = q.y
    BY <2>2, Fields DEF Names
  <2> HIDE DEF w, q3
  <2> QED BY <1>h, <2>1, <2>2, <2>6, <2>7 DEF w
<1>2. CASE ~u.bomb_flag /\ u.port_flag
  <2>1. PortTarget(who, <<a, b>>, coin) \in {<<a, b>>, <<ha, hb>>}
    BY <1>h DEF PortTarget
  <2>2. w = At(v, <<a, b>>) \/ w = At(v, <<ha, hb>>)
    BY <1>2, <2>1 DEF Moved
  <2>3. CASE w = At(v, <<a, b>>)
    <3> DEFINE q == At(v, <<a, b>>)
    <3>1. q \in PlayerType /\ q.walls = v.walls /\ q.mx = 0 /\ q.my = 0 /\ q.x = a /\ q.y = b
      BY AtFacts
    <3>2. w = q
      BY <2>3
    <3> HIDE DEF w, q
    <3> QED BY <3>1, <3>2 DEF w
  <2>4. CASE w = At(v, <<ha, hb>>)
    <3> DEFINE q == At(v, <<ha, hb>>)
    <3>1. q \in PlayerType /\ q.walls = v.walls /\ q.mx = 0 /\ q.my = 0 /\ q.x = ha /\ q.y = hb
      BY AtFacts
    <3>2. w = q
      BY <2>4
    <3> HIDE DEF w, q
    <3> QED BY <1>h, <3>1, <3>2 DEF w
  <2> QED BY <2>2, <2>3, <2>4
<1>3. CASE ~u.bomb_flag /\ ~u.port_flag /\ u.death_count >= u.max_lives
  <2> DEFINE q == [v EXCEPT !.die_flag = TRUE]
  <2>1. w = q
    BY <1>3 DEF Moved
  <2>2. q \in PlayerType
    BY SetDie
  <2>3. q.walls = v.walls /\ q.mx = v.mx /\ q.my = v.my /\ q.x = v.x /\ q.y = v.y
    BY Fields DEF Names
  <2> HIDE DEF w, q
  <2> QED BY <2>1, <2>2, <2>3 DEF w
<1>4. CASE ~u.bomb_flag /\ ~u.port_flag /\ ~(u.death_count >= u.max_lives)
  <2> DEFINE q == Walk(u, v)
  <2> DEFINE r == [q EXCEPT !.die_flag = FALSE]
  <2>1. w = r
    BY <1>4 DEF Moved
  <2>2. q \in PlayerType /\ q.walls = v.walls /\ ((v.mx = 0 \/ v.my = 0) => (q.mx = 0 \/ q.my = 0))
    BY WalkFacts
  <2>x. q.x = Walk(u, v).x /\ q.y = Walk(u, v).y
    OBVIOUS
  <2> HIDE DEF q
  <2>3. r \in PlayerType
    BY <2>2, SetDie
  <2>4. r.walls = q.walls /\ r.mx = q.mx /\ r.my = q.my /\ r.x = q.x /\ r.y = q.y
    BY <2>2, Fields DEF Names
  <2> HIDE DEF w, r
  <2> QED BY <2>1, <2>2, <2>x, <2>3, <2>4 DEF w
<1> QED BY <1>1, <1>2, <1>3, <1>4

\* Within a pixel or two of an edge the first chain can only answer with it, or
\* with one of the two that are tested before.
LEMMA EdgeFacts ==
    ASSUME NEW u \in PlayerType
    PROVE  /\ u.y \in YMin - 2 .. YMin => AtEdge(u) = "B"
           /\ u.y \in YMax - 27 .. YMax - 25 => AtEdge(u) = "T"
           /\ u.x \in XMin - 2 .. XMin => AtEdge(u) \in {"T", "B", "R"}
           /\ u.x \in XMax - 20 .. XMax - 18 => AtEdge(u) \in {"T", "B", "L"}
<1>a. PICK x \in 0 .. 1023 : u.x = x
  BY Registers
<1>b. PICK y \in 0 .. 1023 : u.y = y
  BY Registers
<1>1. u.x = x /\ u.y = y
  BY <1>a, <1>b
<1>2. AtEdge(u) = IF (y + 27) % 1024 >= YMax THEN "T" ELSE IF y <= YMin THEN "B"
                  ELSE IF (x + 20) % 1024 >= XMax THEN "L" ELSE IF x <= XMin THEN "R" ELSE "none"
  BY <1>1 DEF AtEdge, XSize, YSize
<1>3. y <= 996 => (y + 27) % 1024 = y + 27
  OBVIOUS
<1>4. x <= 1003 => (x + 20) % 1024 = x + 20
  OBVIOUS
<1>5. y \in YMin - 2 .. YMin => AtEdge(u) = "B"
  BY <1>2, <1>3, BoundsHold
<1>6. y \in YMax - 27 .. YMax - 25 => AtEdge(u) = "T"
  BY <1>2, <1>3, BoundsHold
<1>7. x \in XMin - 2 .. XMin => AtEdge(u) \in {"T", "B", "R"}
  BY <1>2, <1>4, BoundsHold
<1>8. x \in XMax - 20 .. XMax - 18 => AtEdge(u) \in {"T", "B", "L"}
  BY <1>2, <1>4, BoundsHold, SMTT(30)
<1> QED BY <1>1, <1>5, <1>6, <1>7, <1>8

\* Where a frame of play takes a player: home, to the other player, nowhere, or one
\* pixel on, away from the first wall of its flags or as it moves.
Went(who, u, w, a, b) ==
    \/ <<w.x, w.y>> \in {Home[who], <<a, b>>}
    \/ w.x = u.x /\ w.y = u.y
    \/ "T" \in u.walls /\ w.x = u.x /\ w.y = (u.y - 1) % 1024
    \/ "L" \in u.walls /\ w.x = (u.x - 1) % 1024 /\ w.y = u.y
    \/ "R" \in u.walls /\ w.x = (u.x + 1) % 1024 /\ w.y = u.y
    \/ "B" \in u.walls /\ w.x = u.x /\ w.y = (u.y + 1) % 1024
    \/ /\ u.walls \intersect Walls = {}
       /\ w.x = (u.x + u.mx) % 1024 /\ w.y = (u.y + u.my) % 1024

\* One frame of play, in terms of the player before it.
LEMMA PlayedFacts ==
    ASSUME NEW who \in Users, NEW u \in PlayerType, u.mx = 0 \/ u.my = 0,
           NEW broken, NEW lethal, NEW key, NEW a \in Coord, NEW b \in Coord, NEW coin \in BOOLEAN
    PROVE  LET w == Played(who, u, broken, lethal, key, <<a, b>>, coin)
           IN  /\ w \in PlayerType
               /\ w.mx = 0 \/ w.my = 0
               /\ AtEdge(u) # "none" => AtEdge(u) \in w.walls
               /\ Went(who, u, w, a, b)
<1> DEFINE sensed == Sense(u, Seen(u, broken), lethal)
           v == Flagged(who, u, key)[sensed]
           w == Moved(who, u, v, <<a, b>>, coin)
<1>1. sensed \in Senses
  BY SenseRange
<1>2. AtEdge(u) # "none" => sensed = AtEdge(u) /\ sensed \in Walls
  BY EdgeFirst, EdgeIsWall
<1> HIDE DEF sensed
<1>3. /\ v \in PlayerType
      /\ v.x = u.x /\ v.y = u.y
      /\ v.mx = 0 \/ v.my = 0
      /\ sensed \in Walls => v.walls = u.walls \union {sensed}
  BY <1>1, FlaggedFacts
<1> HIDE DEF v
<1>4. /\ w \in PlayerType
      /\ w.walls = v.walls
      /\ (v.mx = 0 \/ v.my = 0) => (w.mx = 0 \/ w.my = 0)
      /\ \/ <<w.x, w.y>> \in {Home[who], <<a, b>>}
         \/ w.x = v.x /\ w.y = v.y
         \/ w.x = Walk(u, v).x /\ w.y = Walk(u, v).y
  BY <1>3, MovedFacts
<1> DEFINE q == Walk(u, v)
<1>6. \/ "T" \in u.walls /\ q.x = v.x /\ q.y = (u.y - 1) % 1024
      \/ "L" \in u.walls /\ q.x = (u.x - 1) % 1024 /\ q.y = v.y
      \/ "R" \in u.walls /\ q.x = (u.x + 1) % 1024 /\ q.y = v.y
      \/ "B" \in u.walls /\ q.x = v.x /\ q.y = (u.y + 1) % 1024
      \/ /\ u.walls \intersect Walls = {}
         /\ q.x = (u.x + u.mx) % 1024 /\ q.y = (u.y + u.my) % 1024
  BY <1>3, WalkFacts
<1> HIDE DEF w, q
<1>7. w = Played(who, u, broken, lethal, key, <<a, b>>, coin)
  BY DEF w, v, sensed, Played
<1>8. AtEdge(u) # "none" => AtEdge(u) \in w.walls
  BY <1>2, <1>3, <1>4
<1>9. Went(who, u, w, a, b)
  BY <1>3, <1>4, <1>6 DEF q, Went
<1> QED BY <1>3, <1>4, <1>7, <1>8, <1>9

-----------------------------------------------------------------------------
(* The other three things that happen to a player *)

LEMMA FreshFacts ==
    ASSUME NEW who \in Users, NEW port \in BOOLEAN
    PROVE  LET w == Fresh(who, port)
           IN  /\ w \in PlayerType /\ w.mx = 0 /\ w.my = 0
               /\ who = "user1" => w.x = XMin + 7 /\ w.y = YMin + 3
               /\ who = "user2" => w.x = XMax - 25 /\ w.y = YMax - 25
<1> DEFINE w == Fresh(who, port)
<1>1. /\ who = "user1" => Start[who][1] = XMin + 7 /\ Start[who][2] = YMin + 3
      /\ who = "user2" => Start[who][1] = XMax - 25 /\ Start[who][2] = YMax - 25
  BY DEF Start
<1>2. Start[who][1] \in 0 .. 1023 /\ Start[who][2] \in 0 .. 1023
  <2>1. /\ XMin + 7 \in 0 .. 1023 /\ YMin + 3 \in 0 .. 1023
        /\ XMax - 25 \in 0 .. 1023 /\ YMax - 25 \in 0 .. 1023
    BY BoundsHold
  <2>2. CASE who = "user1"
    BY <1>1, <2>1, <2>2, SMTT(30)
  <2>3. CASE who = "user2"
    <3>1. Start[who][1] = XMax - 25 /\ Start[who][2] = YMax - 25
      BY <1>1, <2>3
    <3> QED BY <2>1, <3>1
  <2> QED BY <2>2, <2>3 DEF Users
<1>3. w.x = Start[who][1] /\ w.y = Start[who][2] /\ w.mx = 0 /\ w.my = 0
  BY DEF Fresh
<1>4. w \in PlayerType
  <2> DEFINE a == Start[who][1]
             b == Start[who][2]
  <2>1. a \in 0 .. 1023 /\ b \in 0 .. 1023
    BY <1>2, Zenon
  <2>2. w = [x |-> a, y |-> b, mx |-> 0, my |-> 0, walls |-> {},
             bomb_flag |-> FALSE, port_flag |-> port, bomb_drop |-> FALSE, die_flag |-> FALSE,
             death_count |-> 0, max_lives |-> 6, erased |-> {}]
    BY Zenon DEF Fresh
  <2>3. 0 \in -1 .. 1 /\ 0 \in 0 .. 7 /\ 6 \in 0 .. 15
    OBVIOUS
  <2> HIDE DEF w, a, b
  <2> QED BY <2>1, <2>2, <2>3, SMTT(30) DEF PlayerType
<1> HIDE DEF w
<1> QED BY <1>1, <1>3, <1>4 DEF w

LEMMA FrozenFacts ==
    ASSUME NEW u \in PlayerType
    PROVE  LET w == Frozen(u)
           IN  /\ w \in PlayerType /\ w.mx = 0 /\ w.my = 0
               /\ w.x = u.x /\ w.y = u.y /\ w.walls = u.walls
<1> DEFINE q == [u EXCEPT !.mx = 0]
           r == [q EXCEPT !.my = 0]
<1>1. q \in PlayerType
  BY StopX
<1>2. r \in PlayerType
  <2> HIDE DEF q
  <2> QED BY <1>1, StopY
<1>3. r.mx = 0 /\ r.my = 0 /\ r.x = u.x /\ r.y = u.y /\ r.walls = u.walls
  BY Fields DEF Names
<1>4. Frozen(u) = r
  BY DEF Frozen
<1> HIDE DEF r
<1> QED BY <1>2, <1>3, <1>4

\* Every pixel on the screen has a tile number that the 10 bits can hold.
LEMMA TileRange == ASSUME NEW n \in Nat PROVE Tile(n) \in Tiles
<1>1. PICK k \in 0 .. 1023 : n % 1024 = k
  OBVIOUS
<1>2. k % 20 \in 0 .. 19 /\ k \div 20 \in 0 .. 51
  OBVIOUS
<1> QED BY <1>1, <1>2 DEF Tile, Tiles

LEMMA TileAtRange == ASSUME NEW a \in Coord, NEW b \in Coord PROVE TileAt(<<a, b>>) \in Tiles
<1>1. TileNumber(<<a, b>>) = (b \div 32) * 20 + a \div 32
  BY DEF TileNumber, Coord
<1>2. (b \div 32) * 20 + a \div 32 \in Nat
  BY DEF Coord
<1>3. TileNumber(<<a, b>>) \in Nat
  BY <1>1, <1>2
<1> QED BY <1>3, TileRange DEF TileAt

LEMMA OverwrittenFacts ==
    ASSUME NEW u \in PlayerType
    PROVE  LET w == Overwritten(u)
           IN  /\ w \in PlayerType /\ w.mx = u.mx /\ w.my = u.my
               /\ w.x = u.x /\ w.y = u.y /\ w.walls = u.walls
<1>1. PICK a \in Coord : u.x = a
  BY Registers DEF Coord
<1>2. PICK b \in Coord : u.y = b
  BY Registers DEF Coord
<1>3. Corner(u).tl = <<a, b>>
  BY <1>1, <1>2 DEF Corner
<1>4. PICK t \in Tiles : TileAt(Corner(u).tl) = t
  BY <1>3, TileAtRange
<1>5. u.erased \union {t} \in SUBSET Tiles
  BY DEF PlayerType
<1> DEFINE e == u.erased \union {t}
           w == [u EXCEPT !.erased = e]
<1>6. Overwritten(u) = w
  BY <1>4 DEF Overwritten
<1>7. w \in PlayerType
  <2> HIDE DEF e
  <2> QED BY <1>5, SetErased DEF e
<1>8. /\ w.mx = u.mx /\ w.my = u.my
      /\ w.x = u.x /\ w.y = u.y /\ w.walls = u.walls
  BY Fields DEF Names
<1> HIDE DEF w
<1> QED BY <1>6, <1>7, <1>8

-----------------------------------------------------------------------------
(* Hits *)

\* A hit is what the first chain sensed, now or since the last free frame.
LEMMA FlaggedHit ==
    ASSUME NEW who, NEW u \in PlayerType, NEW key, NEW sensed \in Senses
    PROVE  Flagged(who, u, key)[sensed].bomb_flag
              = (sensed = "hit" \/ (u.bomb_flag /\ sensed # "free"))
<1> DEFINE v == Flagged(who, u, key)[sensed]
<1>0. DOMAIN u = Names /\ u.bomb_flag \in BOOLEAN
  BY Fields DEF PlayerType
<1>1. CASE sensed \in Walls
  <2>1. v = [u EXCEPT !.walls = @ \union {sensed}]
    BY <1>1 DEF Flagged, Senses, Walls
  <2> QED BY <1>0, <1>1, <2>1 DEF Names, Walls
<1>2. CASE sensed = "hit"
  <2>1. v = [u EXCEPT !.bomb_flag = TRUE]
    BY <1>2 DEF Flagged, Senses, Walls
  <2> QED BY <1>0, <1>2, <2>1 DEF Names
<1>3. CASE sensed = "port"
  <2>1. v = [u EXCEPT !.port_flag = TRUE]
    BY <1>3 DEF Flagged, Senses, Walls
  <2> QED BY <1>0, <1>3, <2>1 DEF Names
<1>4. CASE sensed = "hazard"
  <2>1. v = [u EXCEPT !.max_lives = (@ + 2) % 16]
    BY <1>4 DEF Flagged, Senses, Walls
  <2> QED BY <1>0, <1>4, <2>1 DEF Names
<1>5. CASE sensed = "caught"
  <2>1. v = u
    BY <1>5 DEF Flagged, Senses, Walls
  <2> QED BY <1>0, <1>5, <2>1
<1>6. CASE sensed = "free"
  <2>1. v = [u EXCEPT !.walls = {}, !.bomb_flag = FALSE, !.port_flag = FALSE,
                      !.die_flag = FALSE, !.bomb_drop = (key = Keymap[who].bomb),
                      !.mx = Steer(who, u, key)[1], !.my = Steer(who, u, key)[2]]
    BY <1>6 DEF Flagged, Senses, Walls
  <2>2. v.bomb_flag = FALSE
    BY <1>0, <2>1 DEF Names
  <2> QED BY <1>6, <2>2
<1> QED BY <1>1, <1>2, <1>3, <1>4, <1>5, <1>6 DEF Senses

\* The second chain keeps the flag of the first; a hit sends the player home.
LEMMA MovedHit ==
    ASSUME NEW who \in Users, NEW u \in PlayerType, NEW v \in PlayerType, NEW other, NEW coin
    PROVE  LET w == Moved(who, u, v, other, coin)
           IN  /\ w.bomb_flag = v.bomb_flag
               /\ u.bomb_flag => <<w.x, w.y>> = Home[who] /\ w.mx = 0 /\ w.my = 0
<1> DEFINE w == Moved(who, u, v, other, coin)
<1>0. DOMAIN v = Names
  BY Fields
<1>1. CASE u.bomb_flag
  <2>1. PICK ha \in Coord, hb \in Coord : Home[who] = <<ha, hb>>
    BY HomeOnScreen
  <2>2. w = [At(v, <<ha, hb>>) EXCEPT !.death_count = (u.death_count + 1) % 8,
                                      !.die_flag = FALSE, !.max_lives = u.max_lives]
    BY <1>1, <2>1 DEF Moved
  <2>3. w.bomb_flag = v.bomb_flag /\ w.x = ha /\ w.y = hb /\ w.mx = 0 /\ w.my = 0
    BY <1>0, <2>2 DEF At, Names
  <2> QED BY <2>1, <2>3
<1>2. CASE ~u.bomb_flag /\ u.port_flag
  <2>1. w = At(v, PortTarget(who, other, coin))
    BY <1>2 DEF Moved
  <2> QED BY <1>0, <1>2, <2>1 DEF At, Names
<1>3. CASE ~u.bomb_flag /\ ~u.port_flag /\ u.death_count >= u.max_lives
  <2>1. w = [v EXCEPT !.die_flag = TRUE]
    BY <1>3 DEF Moved
  <2> QED BY <1>0, <1>3, <2>1 DEF Names
<1>4. CASE ~u.bomb_flag /\ ~u.port_flag /\ ~(u.death_count >= u.max_lives)
  <2>1. w = [Walk(u, v) EXCEPT !.die_flag = FALSE]
    BY <1>4 DEF Moved
  <2>2. Walk(u, v).bomb_flag = v.bomb_flag /\ DOMAIN Walk(u, v) = Names
    BY <1>0 DEF Walk, Names
  <2> QED BY <1>4, <2>1, <2>2 DEF Names
<1> QED BY <1>1, <1>2, <1>3, <1>4

\* One frame of play: who is hit afterwards, and where a hit player is.
LEMMA PlayedHit ==
    ASSUME NEW who \in Users, NEW u \in PlayerType, u.mx = 0 \/ u.my = 0,
           NEW broken, NEW lethal, NEW key, NEW other, NEW coin
    PROVE  LET w == Played(who, u, broken, lethal, key, other, coin)
               sensed == Sense(u, Seen(u, broken), lethal)
           IN  /\ w.bomb_flag = (sensed = "hit" \/ (u.bomb_flag /\ sensed # "free"))
               /\ u.bomb_flag => <<w.x, w.y>> = Home[who] /\ w.mx = 0 /\ w.my = 0
<1> DEFINE sensed == Sense(u, Seen(u, broken), lethal)
           v == Flagged(who, u, key)[sensed]
           w == Moved(who, u, v, other, coin)
<1>1. sensed \in Senses
  BY SenseRange
<1> HIDE DEF sensed
<1>2. v \in PlayerType /\ v.bomb_flag = (sensed = "hit" \/ (u.bomb_flag /\ sensed # "free"))
  BY <1>1, FlaggedFacts, FlaggedHit
<1> HIDE DEF v
<1>3. w.bomb_flag = v.bomb_flag /\ (u.bomb_flag => <<w.x, w.y>> = Home[who] /\ w.mx = 0 /\ w.my = 0)
  BY <1>2, MovedHit
<1> HIDE DEF w
<1>4. w = Played(who, u, broken, lethal, key, other, coin)
  BY DEF w, v, sensed, Played
<1> QED BY <1>2, <1>3, <1>4 DEF sensed
\* A frozen frame and a broken brick leave a hit as it is, and the player where it
\* stands; KEY[0] takes it away.
LEMMA HitKept ==
    ASSUME NEW u \in PlayerType
    PROVE  /\ Frozen(u).bomb_flag = u.bomb_flag
           /\ Overwritten(u).bomb_flag = u.bomb_flag
           /\ Standing(Overwritten(u)) = Standing(u)
           /\ AtEdge(Overwritten(u)) = AtEdge(u)
<1>0. DOMAIN u = Names
  BY Fields
<1>1. Frozen(u).bomb_flag = u.bomb_flag
  BY <1>0 DEF Frozen, Names
<1>2. Overwritten(u).bomb_flag = u.bomb_flag
  BY <1>0 DEF Overwritten, Names
<1>3. Overwritten(u).x = u.x /\ Overwritten(u).y = u.y
  BY OverwrittenFacts
<1>4. Corner(Overwritten(u)) = Corner(u)
  BY <1>3 DEF Corner
<1>5. AtEdge(Overwritten(u)) = AtEdge(u)
  BY <1>3 DEF AtEdge
<1> QED BY <1>1, <1>2, <1>4, <1>5 DEF Standing

LEMMA FreshHit == ASSUME NEW who, NEW port PROVE Fresh(who, port).bomb_flag = FALSE
BY DEF Fresh

\* Only a lethal tile below the player makes a hit.
LEMMA HitNeedsLethal ==
    ASSUME NEW u, NEW seen, NEW lethal, Sense(u, seen, lethal) = "hit"
    PROVE  Standing(u) \intersect lethal # {}
<1>1. AtEdge(u) # "hit"
  BY EdgeIsWall DEF Walls
<1>2. AtPillar(u) # "hit"
  BY DEF AtPillar
<1>3. AtBrick(u, seen) # "hit"
  BY DEF AtBrick
<1> QED BY <1>1, <1>2, <1>3 DEF Sense

LEMMA NotHitByNothing == ASSUME NEW u, NEW seen PROVE Sense(u, seen, {}) # "hit"
BY HitNeedsLethal

\* A player at home that stands still, on open tiles and with no blast about, is
\* in the open: its flags are cleared and its keys heard.
LEMMA HomeIsFree ==
    ASSUME NEW who \in Users, NEW u \in PlayerType, NEW broken,
           <<u.x, u.y>> = Home[who], u.mx = 0, u.my = 0,
           \A c \in Corners : Board[TileAt(Corner(u)[c])] = Path
    PROVE  Sense(u, Seen(u, broken), {}) = "free"
<1>1. AtEdge(u) = "none"
  <2>1. \/ u.x = XMin + 7 /\ u.y = YMin + 3
        \/ u.x = XMax - 28 /\ u.y = YMax - 28
    BY DEF Home, Users
  <2>a. u.x \in XMin + 7 .. XMax - 28
    BY <2>1, BoundsHold, SMTT(90)
  <2>b. u.y \in YMin + 3 .. YMax - 28
    BY <2>1, BoundsHold, SMTT(90)
  <2>2. PICK x \in XMin + 7 .. XMax - 28, y \in YMin + 3 .. YMax - 28 : u.x = x /\ u.y = y
    BY <2>a, <2>b
  <2>3. x + 20 \in 0 .. 1023 /\ y + 27 \in 0 .. 1023
    BY BoundsHold
  <2>4. (x + 20) % 1024 = x + 20 /\ (y + 27) % 1024 = y + 27
    BY <2>3
  <2>5. x + 20 < XMax /\ y + 27 < YMax /\ XMin < x /\ YMin < y
    BY BoundsHold
  <2> QED BY <2>2, <2>4, <2>5, BoundsHold, SMTT(30) DEF AtEdge, XSize, YSize
<1>2. AtPillar(u) = "none"
  BY DEF AtPillar
<1>3. \A c \in Corners : Seen(u, broken)[c] = Path
  BY DEF Seen, TypeOf
<1>4. AtBrick(u, Seen(u, broken)) = "none"
  BY <1>3 DEF AtBrick, Path, Wall, Brick
<1>5. \A side \in Walls : "tl" \in Lead[side] \/ "br" \in Lead[side]
  BY DEF Walls, Lead
<1>6. \A side \in Walls : Lead[side] \subseteq Corners
  BY DEF Walls, Lead, Corners
<1>7. ~OnBoth(Seen(u, broken), Safeport) /\ ~OnBoth(Seen(u, broken), Hazard)
  BY <1>3, <1>5, <1>6 DEF OnBoth, Path, Safeport, Hazard
<1> QED BY <1>1, <1>2, <1>4, <1>7 DEF Sense

-----------------------------------------------------------------------------
(* The other registers, frame by frame. *)

\* What the first chain does to the other registers: the motion and die_flag are
\* left alone except in a free frame, which clears every flag.
LEMMA FlaggedRest ==
    ASSUME NEW who, NEW u \in PlayerType, NEW key, NEW sensed \in Senses
    PROVE  LET v == Flagged(who, u, key)[sensed]
           IN  /\ sensed \in Walls => v.walls = u.walls \union {sensed}
               /\ sensed \notin Walls \union {"free"} => v.walls = u.walls
               /\ v.die_flag = (u.die_flag /\ sensed # "free")
               /\ v.port_flag = (sensed = "port" \/ (u.port_flag /\ sensed # "free"))
               /\ sensed # "hazard" => v.max_lives = u.max_lives
               /\ v.death_count = u.death_count
               /\ v.erased = u.erased
<1>0. u.die_flag \in BOOLEAN /\ u.port_flag \in BOOLEAN
  BY DEF PlayerType
<1>1. CASE sensed \in Walls
  BY <1>0, <1>1, Fields DEF Flagged, Names, Walls
<1>2. CASE sensed = "free"
  BY <1>0, <1>2, Fields DEF Flagged, Names, Walls
<1>3. CASE sensed \in {"hit", "port", "hazard", "caught"}
  BY <1>0, <1>3, Fields DEF Flagged, Names, Walls
<1> QED BY <1>1, <1>2, <1>3 DEF Senses

\* The second chain leaves the map copy and the teleport to the first.
LEMMA MovedKeeps ==
    ASSUME NEW who \in Users, NEW u \in PlayerType, NEW v \in PlayerType, NEW other, NEW coin
    PROVE  LET w == Moved(who, u, v, other, coin)
           IN  w.erased = v.erased /\ w.port_flag = v.port_flag
<1> DEFINE w == Moved(who, u, v, other, coin)
<1>1. CASE u.bomb_flag
  <2>1. PICK ha \in Coord, hb \in Coord : Home[who] = <<ha, hb>>
    BY HomeOnScreen
  <2> QED BY <1>1, <2>1, Fields DEF Moved, At, Names
<1>2. CASE ~u.bomb_flag
  BY <1>2, Fields DEF Moved, At, Walk, Names
<1> QED BY <1>1, <1>2

\* die_flag goes up only where all lives are gone.
LEMMA MovedDies ==
    ASSUME NEW who \in Users, NEW u \in PlayerType, NEW v \in PlayerType, NEW other, NEW coin,
           Moved(who, u, v, other, coin).die_flag = TRUE
    PROVE  LET w == Moved(who, u, v, other, coin)
           IN  \/ u.port_flag /\ v.die_flag = TRUE
               \/ /\ u.death_count >= u.max_lives
                  /\ w.death_count = v.death_count /\ w.max_lives = v.max_lives
                  /\ w.x = v.x /\ w.y = v.y
<1>1. ~u.bomb_flag
  BY Fields DEF Moved, At, Names
<1>2. CASE u.port_flag
  BY <1>1, <1>2, Fields DEF Moved, At, Names
<1>3. CASE ~u.port_flag
  <2>1. u.death_count >= u.max_lives
    BY <1>1, <1>3, Fields DEF Moved, Walk, Names
  <2> QED BY <1>1, <1>3, <2>1, Fields DEF Moved, Names
<1> QED BY <1>2, <1>3

\* Where no wall is sensed and no hit, every corner is in the open.
LEMMA OpenSense ==
    ASSUME NEW u, NEW seen, NEW lethal, Sense(u, seen, lethal) \in {"port", "hazard", "free"}
    PROVE  \A c \in Corners : seen[c] \notin {Wall, Brick}
<1>1. AtEdge(u) = "none" \/ AtEdge(u) \in Walls
  BY EdgeIsWall
<1>2. AtPillar(u) \in Walls \union {"none"}
  BY DEF AtPillar, Walls
<1>3. AtBrick(u, seen) \in Walls \union {"caught", "none"}
  BY DEF AtBrick, Walls
<1>4. AtBrick(u, seen) = "none"
  BY <1>1, <1>2, <1>3 DEF Sense, Walls
<1>5. {c \in Corners : seen[c] \in {Wall, Brick}} = {}
  BY <1>4 DEF AtBrick
<1> QED BY <1>5

LEMMA CaughtSense ==
    ASSUME NEW u, NEW seen, NEW lethal, Sense(u, seen, lethal) = "caught"
    PROVE  u.mx = 0 /\ u.my = 0
<1>1. AtEdge(u) = "none" \/ AtEdge(u) \in Walls
  BY EdgeIsWall
<1>2. AtPillar(u) \in Walls \union {"none"}
  BY DEF AtPillar, Walls
<1>4. AtBrick(u, seen) = "caught"
  BY <1>1, <1>2 DEF Sense, Walls
<1> QED BY <1>4 DEF AtBrick

LEMMA HazardSense ==
    ASSUME NEW u, NEW seen, NEW lethal, Sense(u, seen, lethal) = "hazard"
    PROVE  OnBoth(seen, Hazard)
<1>1. AtEdge(u) = "none" \/ AtEdge(u) \in Walls
  BY EdgeIsWall
<1>2. AtPillar(u) \in Walls \union {"none"}
  BY DEF AtPillar, Walls
<1>3. AtBrick(u, seen) \in Walls \union {"caught", "none"}
  BY DEF AtBrick, Walls
<1> QED BY <1>1, <1>2, <1>3 DEF Sense, Walls

\* Why die_flag is up after a frame of play.
Dies(u, w, sensed) ==
    w.die_flag = TRUE => \/ w.port_flag = TRUE
                         \/ sensed = "hazard" /\ w.x = u.x /\ w.y = u.y
                         \/ w.death_count >= w.max_lives

\* What a frame of play does to the wall flags, the top-left copy and die_flag.
LEMMA PlayedRest ==
    ASSUME NEW who \in Users, NEW u \in PlayerType, u.mx = 0 \/ u.my = 0, NEW B,
           NEW lethal, NEW key, NEW a \in Coord, NEW b \in Coord, NEW coin \in BOOLEAN
    PROVE  LET w == Played(who, u, B, lethal, key, <<a, b>>, coin)
               sensed == Sense(u, Seen(u, B), lethal)
           IN  /\ w.erased = u.erased
               /\ sensed \in Walls => w.walls = u.walls \union {sensed}
               /\ sensed \notin Walls \union {"free"} => w.walls = u.walls
               /\ Dies(u, w, sensed)
<1> DEFINE sensed == Sense(u, Seen(u, B), lethal)
           v == Flagged(who, u, key)[sensed]
           w == Moved(who, u, v, <<a, b>>, coin)
<1>1. sensed \in Senses
  BY SenseRange
<1> HIDE DEF sensed
<1>2. /\ sensed \in Walls => v.walls = u.walls \union {sensed}
      /\ sensed \notin Walls \union {"free"} => v.walls = u.walls
      /\ v.die_flag = (u.die_flag /\ sensed # "free")
      /\ v.port_flag = (sensed = "port" \/ (u.port_flag /\ sensed # "free"))
      /\ sensed # "hazard" => v.max_lives = u.max_lives
      /\ v.death_count = u.death_count
      /\ v.erased = u.erased
  BY <1>1, FlaggedRest
<1>3. v \in PlayerType /\ v.x = u.x /\ v.y = u.y
  BY <1>1, FlaggedFacts
<1> HIDE DEF v
<1>4. w.walls = v.walls
  BY <1>3, MovedFacts
<1>5. w.erased = v.erased /\ w.port_flag = v.port_flag
  BY <1>3, MovedKeeps
<1>d. w.die_flag = TRUE => \/ u.port_flag /\ v.die_flag = TRUE
                           \/ /\ u.death_count >= u.max_lives
                              /\ w.death_count = v.death_count /\ w.max_lives = v.max_lives
                              /\ w.x = v.x /\ w.y = v.y
  BY <1>3, MovedDies
<1> HIDE DEF w
<1>6. w = Played(who, u, B, lethal, key, <<a, b>>, coin)
  BY DEF w, v, sensed, Played
<1>7. Dies(u, w, sensed)
  <2> SUFFICES ASSUME w.die_flag = TRUE
               PROVE  \/ w.port_flag = TRUE
                      \/ sensed = "hazard" /\ w.x = u.x /\ w.y = u.y
                      \/ w.death_count >= w.max_lives
    BY DEF Dies
  <2>1. CASE u.port_flag /\ v.die_flag = TRUE
    BY <1>2, <1>5, <2>1
  <2>2. CASE /\ u.death_count >= u.max_lives
             /\ w.death_count = v.death_count /\ w.max_lives = v.max_lives
             /\ w.x = v.x /\ w.y = v.y
    <3>1. CASE sensed = "hazard"
      BY <1>3, <2>2, <3>1
    <3>2. CASE sensed # "hazard"
      BY <1>2, <2>2, <3>2
    <3> QED BY <3>1, <3>2
  <2> QED BY <1>d, <2>1, <2>2
<1>8. /\ w.erased = u.erased
      /\ sensed \in Walls => w.walls = u.walls \union {sensed}
      /\ sensed \notin Walls \union {"free"} => w.walls = u.walls
  BY <1>2, <1>4, <1>5
<1> QED BY <1>6, <1>7, <1>8 DEF sensed

LEMMA SeenIs ==
    ASSUME NEW u, NEW B, NEW c \in Corners
    PROVE  Seen(u, B)[c] = IF TileAt(Corner(u)[c]) \in B \union (IF c = "tl" THEN u.erased ELSE {})
                           THEN Path ELSE Board[TileAt(Corner(u)[c])]
BY DEF Seen, TypeOf

-----------------------------------------------------------------------------
(* Why die_flag is up. *)

\* What is sensed as a hazard is one on the board, for a copy loses tiles to the path.
LEMMA HazardTiles ==
    ASSUME NEW u, NEW B, NEW lethal, Sense(u, Seen(u, B), lethal) = "hazard"
    PROVE  OnHazardTiles(u)
<1>1. PICK side \in Walls : \A c \in Lead[side] : Seen(u, B)[c] = Hazard
  BY HazardSense DEF OnBoth
<1>2. Lead[side] \subseteq Corners
  BY DEF Lead, Walls, Corners
<1>3. ASSUME NEW c \in Lead[side] PROVE Board[TileAt(Corner(u)[c])] = Hazard
  <2>1. c \in Corners /\ Path # Hazard
    BY <1>2 DEF Path, Hazard
  <2> QED BY <1>1, <2>1, SeenIs
<1> QED BY <1>2, <1>3 DEF OnHazardTiles, OnBoth

LEMMA HazardTilesStay ==
    ASSUME NEW u, NEW w, w.x = u.x, w.y = u.y, OnHazardTiles(u)
    PROVE  OnHazardTiles(w)
<1>1. Corner(w) = Corner(u)
  BY DEF Corner
<1> QED BY <1>1 DEF OnHazardTiles

Honest(u) == u.die_flag = TRUE => \/ u.death_count >= u.max_lives
                                  \/ OnHazardTiles(u)
                                  \/ u.port_flag = TRUE

LEMMA HonestPlay ==
    ASSUME NEW who \in Users, NEW u \in PlayerType, u.mx = 0 \/ u.my = 0, NEW B,
           NEW lethal, NEW key, NEW a \in Coord, NEW b \in Coord, NEW coin \in BOOLEAN
    PROVE  Honest(Played(who, u, B, lethal, key, <<a, b>>, coin))
<1> DEFINE w == Played(who, u, B, lethal, key, <<a, b>>, coin)
           sensed == Sense(u, Seen(u, B), lethal)
<1>1. Dies(u, w, sensed)
  BY PlayedRest
<1>2. sensed = "hazard" => OnHazardTiles(u)
  BY HazardTiles
<1> HIDE DEF w, sensed
<1>3. Honest(w)
  BY <1>1, <1>2, HazardTilesStay DEF Honest, Dies
<1> QED BY <1>3 DEF w

LEMMA HonestKept ==
    ASSUME NEW u, NEW w, Honest(u), w.x = u.x, w.y = u.y, w.die_flag = u.die_flag,
           w.port_flag = u.port_flag, w.death_count = u.death_count, w.max_lives = u.max_lives
    PROVE  Honest(w)
BY HazardTilesStay DEF Honest

LEMMA HonestFlags ==
    ASSUME NEW u \in PlayerType
    PROVE  /\ Honest(u) => Honest(Frozen(u))
           /\ Honest(u) => Honest(Overwritten(u))
<1> DEFINE p == Frozen(u)
           q == Overwritten(u)
<1>1. /\ p.x = u.x /\ p.y = u.y /\ p.die_flag = u.die_flag /\ p.port_flag = u.port_flag
      /\ p.death_count = u.death_count /\ p.max_lives = u.max_lives
  BY Fields DEF Frozen, Names
<1>2. /\ q.x = u.x /\ q.y = u.y /\ q.die_flag = u.die_flag /\ q.port_flag = u.port_flag
      /\ q.death_count = u.death_count /\ q.max_lives = u.max_lives
  BY Fields DEF Overwritten, Names
<1> HIDE DEF p, q
<1>3. Honest(u) => Honest(p) /\ Honest(q)
  BY <1>1, <1>2, HonestKept
<1> QED BY <1>3 DEF p, q

LEMMA HonestFresh == ASSUME NEW who, NEW port PROVE Honest(Fresh(who, port))
BY DEF Honest, Fresh

-----------------------------------------------------------------------------
(* One step, and the tiles it can be taken back to. *)

Steps == -1 .. 1

\* One step, in the ten bits of a coordinate.
Stepped(m, d) == (m + d) % 1024

\* A step that is taken back, within the ten bits of a coordinate: the pixel to the
\* right of a sprite or below it is found where it was.
LEMMA TakenBack ==
    ASSUME NEW m \in Coord, NEW d \in Steps, NEW k \in 0 .. 27
    PROVE  (Stepped(m, d) - d + k) % 1024 = (m + k) % 1024
<1>1. CASE m + d = -1
  <2>1. m = 0 /\ d = -1
    BY <1>1 DEF Coord, Steps
  <2>2. Stepped(m, d) = 1023
    BY <1>1 DEF Stepped
  <2>3. (1024 + k) % 1024 = k % 1024
    BY SMTT(30)
  <2> QED BY <2>1, <2>2, <2>3
<1>2. CASE m + d = 1024
  <2>1. m = 1023 /\ d = 1
    BY <1>2 DEF Coord, Steps
  <2>2. Stepped(m, d) = 0
    BY <1>2 DEF Stepped
  <2>3. (k - 1) % 1024 = (1023 + k) % 1024
    BY SMTT(30)
  <2> QED BY <2>1, <2>2, <2>3
<1>3. CASE m + d \in 0 .. 1023
  <2>1. PICK n \in 0 .. 1023 : n = m + d
    BY <1>3
  <2>2. n % 1024 = n
    OBVIOUS
  <2>3. Stepped(m, d) = n
    BY <2>1, <2>2 DEF Stepped
  <2> QED BY <2>1, <2>3 DEF Coord, Steps
<1> QED BY <1>1, <1>2, <1>3 DEF Coord, Steps

\* A sprite that has gone one step from m has been at m, and reached as far.
LEMMA WasThere ==
    ASSUME NEW m \in Coord, NEW d \in Steps, NEW n \in Coord, n = Stepped(m, d), NEW k \in 0 .. 27
    PROVE  (n - d) % 1024 = m % 1024 /\ ((n - d) + k) % 1024 = (m + k) % 1024
<1>1. (n - d + k) % 1024 = (m + k) % 1024
  BY TakenBack
<1>2. (n - d + 0) % 1024 = (m + 0) % 1024
  BY TakenBack
<1>3. n - d + 0 = n - d /\ m + 0 = m
  BY DEF Coord, Steps
<1> QED BY <1>1, <1>2, <1>3

\* What the map shows at a corner depends on the coordinates modulo 1024.
LEMMA SameTile ==
    ASSUME NEW a, NEW b, NEW c, NEW d, a % 1024 = c % 1024, b % 1024 = d % 1024
    PROVE  TileAt(<<a, b>>) = TileAt(<<c, d>>)
BY DEF TileAt, TileNumber

LEMMA SameTiles ==
    ASSUME NEW u, NEW s,
           s.x % 1024 = u.x % 1024, (s.x + 20) % 1024 = (u.x + 20) % 1024,
           s.y % 1024 = u.y % 1024, (s.y + 27) % 1024 = (u.y + 27) % 1024
    PROVE  \A c \in Corners : TileAt(Corner(s)[c]) = TileAt(Corner(u)[c])
<1>1. TileAt(<<s.x, s.y>>) = TileAt(<<u.x, u.y>>)
  BY SameTile
<1>2. TileAt(<<s.x + 20, s.y>>) = TileAt(<<u.x + 20, u.y>>)
  BY SameTile
<1>3. TileAt(<<s.x, s.y + 27>>) = TileAt(<<u.x, u.y + 27>>)
  BY SameTile
<1>4. TileAt(<<s.x + 20, s.y + 27>>) = TileAt(<<u.x + 20, u.y + 27>>)
  BY SameTile
<1> QED BY <1>1, <1>2, <1>3, <1>4 DEF Corner, Corners, XSize, YSize

-----------------------------------------------------------------------------
(* The rim: a sprite on the outermost row or column that the bounces leave it  *)
(* holds the flag that takes it back, or one that lets it move along the edge  *)
(* only.                                                                       *)

RimOf(u) ==
    /\ u.y = YMin - 1 => "B" \in u.walls
    /\ u.y = YMax - YSize + 1 => "T" \in u.walls
    /\ u.x = XMin - 1 => u.walls \intersect {"T", "B", "R"} # {}
    /\ u.x = XMax - XSize + 1 => u.walls \intersect {"T", "B", "L"} # {}

Middle == 1 .. 1022

\* A coordinate that is neither the first nor the last did not wrap.
LEMMA StepNear ==
    ASSUME NEW m \in Coord, NEW d \in -1 .. 1
    PROVE  Stepped(m, d) \in Middle => Stepped(m, d) = m + d
<1>1. CASE m + d = -1
  <2>1. (m + d) % 1024 = 1023
    BY <1>1
  <2> QED BY <2>1 DEF Stepped, Middle
<1>2. CASE m + d = 1024
  <2>1. (m + d) % 1024 = 0
    BY <1>2
  <2> QED BY <2>1 DEF Stepped, Middle
<1>3. CASE m + d \in 0 .. 1023
  <2>1. PICK k \in 0 .. 1023 : k = m + d
    BY <1>3 DEF Coord
  <2>2. k % 1024 = k
    OBVIOUS
  <2> QED BY <2>1, <2>2 DEF Stepped
<1> QED BY <1>1, <1>2, <1>3 DEF Coord

\* A frame of play that brings the sprite to the rim raises a flag in the same
\* frame: the edge is tested a pixel before it is passed.
LEMMA RimStep ==
    ASSUME NEW who \in Users, NEW u \in PlayerType, u.mx = 0 \/ u.my = 0,
           NEW B, NEW lethal, NEW key, NEW a \in Coord, NEW b \in Coord, NEW coin \in BOOLEAN,
           a \in XMin .. XMax - 20, b \in YMin .. YMax - 27
    PROVE  RimOf(Played(who, u, B, lethal, key, <<a, b>>, coin))
<1> DEFINE w == Played(who, u, B, lethal, key, <<a, b>>, coin)
<1>1. /\ w \in PlayerType
      /\ AtEdge(u) # "none" => AtEdge(u) \in w.walls
      /\ Went(who, u, w, a, b)
  BY PlayedFacts
<1> HIDE DEF w
<1>2. PICK ha \in XMin + 7 .. XMax - 28, hb \in YMin + 2 .. YMax - 27 : Home[who] = <<ha, hb>>
  BY HomePlace
<1>3. PICK x \in 0 .. 1023 : u.x = x
  BY Registers
<1>4. PICK y \in 0 .. 1023 : u.y = y
  BY Registers
<1>5. PICK mx \in -1 .. 1 : u.mx = mx
  BY Registers
<1>6. PICK my \in -1 .. 1 : u.my = my
  BY Registers
<1>a. w \in PlayerType
  BY <1>1, SMTT(30)
<1>7. PICK wx \in 0 .. 1023 : w.x = wx
  <2>1. w.x \in 0 .. 1023
    BY <1>a, Registers, SMTT(30)
  <2> QED BY <2>1, SMTT(30)
<1>8. PICK wy \in 0 .. 1023 : w.y = wy
  <2>1. w.y \in 0 .. 1023
    BY <1>a, Registers, SMTT(30)
  <2> QED BY <2>1, SMTT(30)
<1>9. \/ wx = ha /\ wy = hb
      \/ wx = a /\ wy = b
      \/ wx \in {x, Stepped(x, -1), Stepped(x, 1), Stepped(x, mx)}
         /\ wy \in {y, Stepped(y, -1), Stepped(y, 1), Stepped(y, my)}
  <2>1. CASE <<w.x, w.y>> \in {Home[who], <<a, b>>}
    BY <2>1, <1>2, <1>7, <1>8
  <2>2. CASE w.x \in {u.x, (u.x - 1) % 1024, (u.x + 1) % 1024, (u.x + u.mx) % 1024}
             /\ w.y \in {u.y, (u.y - 1) % 1024, (u.y + 1) % 1024, (u.y + u.my) % 1024}
    BY <2>2, <1>3, <1>4, <1>5, <1>6, <1>7, <1>8 DEF Stepped
  <2> QED BY <1>1, <2>1, <2>2 DEF Went
<1>10. wx \in 1 .. 1022 => wx \in {ha, a, x - 1, x, x + 1}
  <2> SUFFICES ASSUME wx \in 1 .. 1022 PROVE wx \in {ha, a, x - 1, x, x + 1}
    OBVIOUS
  <2>0. x \in Coord /\ wx \in Middle
    BY DEF Coord, Middle
  <2>1. \A d \in -1 .. 1 : Stepped(x, d) \in Middle => Stepped(x, d) = x + d
    BY <2>0, StepNear
  <2>2. wx = Stepped(x, -1) => wx = x - 1
    BY <2>0, <2>1
  <2>3. wx = Stepped(x, 1) => wx = x + 1
    BY <2>0, <2>1
  <2>4. wx = Stepped(x, mx) => wx \in {x - 1, x, x + 1}
    BY <2>0, <2>1
  <2> QED BY <1>9, <2>2, <2>3, <2>4
<1>11. wy \in 1 .. 1022 => wy \in {hb, b, y - 1, y, y + 1}
  <2> SUFFICES ASSUME wy \in 1 .. 1022 PROVE wy \in {hb, b, y - 1, y, y + 1}
    OBVIOUS
  <2>0. y \in Coord /\ wy \in Middle
    BY DEF Coord, Middle
  <2>1. \A d \in -1 .. 1 : Stepped(y, d) \in Middle => Stepped(y, d) = y + d
    BY <2>0, StepNear
  <2>2. wy = Stepped(y, -1) => wy = y - 1
    BY <2>0, <2>1
  <2>3. wy = Stepped(y, 1) => wy = y + 1
    BY <2>0, <2>1
  <2>4. wy = Stepped(y, my) => wy \in {y - 1, y, y + 1}
    BY <2>0, <2>1
  <2> QED BY <1>9, <2>2, <2>3, <2>4
<1>12. /\ y \in YMin - 2 .. YMin => AtEdge(u) = "B"
       /\ y \in YMax - 27 .. YMax - 25 => AtEdge(u) = "T"
       /\ x \in XMin - 2 .. XMin => AtEdge(u) \in {"T", "B", "R"}
       /\ x \in XMax - 20 .. XMax - 18 => AtEdge(u) \in {"T", "B", "L"}
  BY <1>3, <1>4, EdgeFacts
<1>13. wy = YMin - 1 => "B" \in w.walls
  <2> SUFFICES ASSUME wy = YMin - 1 PROVE y \in YMin - 2 .. YMin
    BY <1>1, <1>12
  <2> QED BY <1>11, BoundsHold
<1>14. wy = YMax - 26 => "T" \in w.walls
  <2> SUFFICES ASSUME wy = YMax - 26 PROVE y \in YMax - 27 .. YMax - 25
    BY <1>1, <1>12
  <2> QED BY <1>11, BoundsHold
<1>15. wx = XMin - 1 => w.walls \intersect {"T", "B", "R"} # {}
  <2> SUFFICES ASSUME wx = XMin - 1 PROVE x \in XMin - 2 .. XMin
    BY <1>1, <1>12
  <2> QED BY <1>10, BoundsHold
<1>16. wx = XMax - 19 => w.walls \intersect {"T", "B", "L"} # {}
  <2> SUFFICES ASSUME wx = XMax - 19 PROVE x \in XMax - 20 .. XMax - 18
    BY <1>1, <1>12
  <2> QED BY <1>10, BoundsHold
<1>17. YMax - YSize + 1 = YMax - 26 /\ XMax - XSize + 1 = XMax - 19
  BY BoundsHold DEF XSize, YSize
<1>18. RimOf(w)
  BY <1>7, <1>8, <1>13, <1>14, <1>15, <1>16, <1>17 DEF RimOf
<1> QED BY <1>18 DEF w

LEMMA PlayedShape ==
    ASSUME NEW who \in Users, NEW u \in PlayerType, u.mx = 0 \/ u.my = 0,
           NEW B, NEW lethal, NEW key, NEW a \in Coord, NEW b \in Coord, NEW coin \in BOOLEAN
    PROVE  LET w == Played(who, u, B, lethal, key, <<a, b>>, coin)
           IN  w \in PlayerType /\ (w.mx = 0 \/ w.my = 0)
<1> DEFINE w == Played(who, u, B, lethal, key, <<a, b>>, coin)
<1>1. w \in PlayerType
  BY PlayedFacts
<1>2. w.mx = 0 \/ w.my = 0
  BY PlayedFacts
<1> QED BY <1>1, <1>2

-----------------------------------------------------------------------------
(* The field, and the place below it. *)

InField(u) == u.x \in XMin - 1 .. XMax - 19 /\ u.y \in YMin - 1 .. YMax - 26

\* One pixel from a coordinate well inside 10 bits does not wrap.
LEMMA OnePixel ==
    ASSUME NEW m \in 1 .. 1022
    PROVE  (m - 1) % 1024 = m - 1 /\ (m + 1) % 1024 = m + 1
<1>1. PICK k \in 0 .. 1023 : k = m - 1
  OBVIOUS
<1>2. PICK l \in 0 .. 1023 : l = m + 1
  OBVIOUS
<1>3. k % 1024 = k /\ l % 1024 = l
  OBVIOUS
<1> QED BY <1>1, <1>2, <1>3

LEMMA PlainPixel == ASSUME NEW m \in 1 .. 1022 PROVE m % 1024 = m
OBVIOUS

LEMMA LeaveStep ==
    ASSUME NEW who \in Users, NEW u \in PlayerType, u.mx = 0 \/ u.my = 0,
           RimOf(u), InField(u), \A f, g \in u.walls : f = g,
           NEW B, NEW lethal, NEW key, NEW a \in Coord, NEW b \in Coord, NEW coin \in BOOLEAN,
           a \in XMin - 1 .. XMax - 19, b \in YMin - 1 .. YMax - 26
    PROVE  InField(Played(who, u, B, lethal, key, <<a, b>>, coin))
<1> DEFINE w == Played(who, u, B, lethal, key, <<a, b>>, coin)
<1>1. Went(who, u, w, a, b)
  BY PlayedFacts
<1> SUFFICES InField(w)
  OBVIOUS
<1> HIDE DEF w
<1>2. PICK ha \in XMin + 7 .. XMax - 28, hb \in YMin + 2 .. YMax - 27 : Home[who] = <<ha, hb>>
  BY HomePlace
<1>3. PICK x \in XMin - 1 .. XMax - 19 : u.x = x
  BY DEF InField
<1>4. PICK y \in YMin - 1 .. YMax - 26 : u.y = y
  BY DEF InField
<1>5. PICK mx \in -1 .. 1 : u.mx = mx
  BY Registers
<1>6. PICK my \in -1 .. 1 : u.my = my
  BY Registers
<1>7. x \in 1 .. 1022 /\ y \in 1 .. 1022
  <2>1. x \in 1 .. 1022
    BY BoundsHold, SMTT(30)
  <2>2. y \in 1 .. 1022
    BY BoundsHold, SMTT(30)
  <2> QED BY <2>1, <2>2
<1>8. /\ (x - 1) % 1024 = x - 1 /\ (x + 1) % 1024 = x + 1 /\ x % 1024 = x
      /\ (y - 1) % 1024 = y - 1 /\ (y + 1) % 1024 = y + 1 /\ y % 1024 = y
  BY <1>7, OnePixel, PlainPixel
<1>9. /\ y = YMin - 1 => "B" \in u.walls
      /\ y = YMax - 26 => "T" \in u.walls
      /\ x = XMin - 1 => u.walls \intersect {"T", "B", "R"} # {}
      /\ x = XMax - 19 => u.walls \intersect {"T", "B", "L"} # {}
  BY <1>3, <1>4, BoundsHold DEF RimOf, XSize, YSize
<1>10. CASE <<w.x, w.y>> \in {Home[who], <<a, b>>}
  <2>1. CASE <<w.x, w.y>> = Home[who]
    <3>1. w.x = ha /\ w.y = hb
      BY <1>2, <2>1
    <3>2. ha \in XMin - 1 .. XMax - 19
      BY BoundsHold, SMTT(30)
    <3>3. hb \in YMin - 1 .. YMax - 26
      BY BoundsHold
    <3> QED BY <3>1, <3>2, <3>3 DEF InField
  <2>2. CASE <<w.x, w.y>> = <<a, b>>
    <3>1. w.x = a /\ w.y = b
      BY <2>2
    <3>2. a \in XMin - 1 .. XMax - 19 /\ b \in YMin - 1 .. YMax - 26
      BY BoundsHold
    <3> QED BY <3>1, <3>2 DEF InField
  <2> QED BY <1>10, <2>1, <2>2
<1>11. CASE w.x = u.x /\ w.y = u.y
  BY <1>11 DEF InField
<1>12. CASE "T" \in u.walls /\ w.x = u.x /\ w.y = (u.y - 1) % 1024
  <2>1. y # YMin - 1
    BY <1>9, <1>12
  <2>2. w.x = x /\ w.y = y - 1
    BY <1>3, <1>4, <1>8, <1>12
  <2> QED BY <2>1, <2>2, BoundsHold DEF InField
<1>13. CASE "L" \in u.walls /\ w.x = (u.x - 1) % 1024 /\ w.y = u.y
  <2>1. x # XMin - 1
    BY <1>9, <1>13
  <2>2. w.x = x - 1 /\ w.y = y
    BY <1>3, <1>4, <1>8, <1>13
  <2> QED BY <2>1, <2>2, BoundsHold DEF InField
<1>14. CASE "R" \in u.walls /\ w.x = (u.x + 1) % 1024 /\ w.y = u.y
  <2>1. x # XMax - 19
    BY <1>9, <1>14
  <2>2. w.x = x + 1 /\ w.y = y
    BY <1>3, <1>4, <1>8, <1>14
  <2> QED BY <2>1, <2>2, BoundsHold DEF InField
<1>15. CASE "B" \in u.walls /\ w.x = u.x /\ w.y = (u.y + 1) % 1024
  <2>1. y # YMax - 26
    BY <1>9, <1>15
  <2>2. w.x = x /\ w.y = y + 1
    BY <1>3, <1>4, <1>8, <1>15
  <2> QED BY <2>1, <2>2, BoundsHold DEF InField
<1>16. CASE /\ u.walls \intersect Walls = {}
            /\ w.x = (u.x + u.mx) % 1024 /\ w.y = (u.y + u.my) % 1024
  <2>1. x # XMin - 1 /\ x # XMax - 19 /\ y # YMin - 1 /\ y # YMax - 26
    BY <1>9, <1>16 DEF Walls
  <2>2. w.x \in {x - 1, x, x + 1}
    BY <1>3, <1>5, <1>8, <1>16
  <2>3. w.y \in {y - 1, y, y + 1}
    BY <1>4, <1>6, <1>8, <1>16
  <2> QED BY <2>1, <2>2, <2>3, BoundsHold DEF InField
<1> QED BY <1>1, <1>10, <1>11, <1>12, <1>13, <1>14, <1>15, <1>16 DEF Went

\* KEY[0] puts the first player into the field.
LEMMA FirstInField == ASSUME NEW port \in BOOLEAN PROVE InField(Fresh("user1", port))
BY FreshFacts, BoundsHold DEF Users, InField

\* Where KEY[0] puts the second player: the row is one below what its bounce keeps,
\* and the first thing that is sensed there is the wall to be pushed up from.
BelowField(u) ==
    /\ u.x = XMax - 25 /\ u.y = YMax - 25 /\ u.mx = 0 /\ u.my = 0
    /\ u.walls \subseteq {"T"}

LEMMA FreshPlace ==
    ASSUME NEW port \in BOOLEAN, NEW who \in Users
    PROVE  InField(Fresh(who, port)) \/ BelowField(Fresh(who, port))
<1>1. CASE who = "user1"
  BY <1>1, FirstInField
<1>2. CASE who = "user2"
  <2> DEFINE w == Fresh(who, port)
  <2>1. w.mx = 0 /\ w.my = 0 /\ w.x = XMax - 25 /\ w.y = YMax - 25
    BY <1>2, FreshFacts
  <2>2. w.walls = {}
    BY DEF Fresh
  <2> HIDE DEF w
  <2>3. BelowField(w)
    BY <2>1, <2>2 DEF BelowField
  <2> QED BY <2>3 DEF w
<1> QED BY <1>1, <1>2 DEF Users

\* No key is heard but in a free frame: a player that stands still stays still.
LEMMA StaysStill ==
    ASSUME NEW who \in Users, NEW u \in PlayerType, u.mx = 0, u.my = 0, NEW B, NEW lethal,
           NEW key, NEW other, NEW coin, Sense(u, Seen(u, B), lethal) # "free"
    PROVE  LET w == Played(who, u, B, lethal, key, other, coin)
           IN  w.mx = 0 /\ w.my = 0
<1> DEFINE sensed == Sense(u, Seen(u, B), lethal)
           v == Flagged(who, u, key)[sensed]
           w == Moved(who, u, v, other, coin)
<1>1. sensed \in Senses
  BY SenseRange
<1>2. sensed # "free"
  OBVIOUS
<1> HIDE DEF sensed
<1>3. v.mx = 0 /\ v.my = 0
  BY <1>1, <1>2, Fields DEF Flagged, Senses, Names, Walls
<1>4. v \in PlayerType
  BY <1>1, FlaggedFacts
<1> HIDE DEF v
<1>5. w.mx = 0 /\ w.my = 0
  <2>1. CASE u.bomb_flag
    <3>1. PICK ha \in Coord, hb \in Coord : Home[who] = <<ha, hb>>
      BY HomeOnScreen
    <3> QED BY <1>3, <1>4, <2>1, <3>1, Fields DEF Moved, At, Names
  <2>2. CASE ~u.bomb_flag
    BY <1>3, <1>4, <2>2, Fields DEF Moved, At, Walk, Names
  <2> QED BY <2>1, <2>2
<1> HIDE DEF w
<1>6. w = Played(who, u, B, lethal, key, other, coin)
  BY DEF w, v, sensed, Played
<1> QED BY <1>5, <1>6

\* A home, and a place where the other player can be, is in the field.
LEMMA PutInField ==
    ASSUME NEW who \in Users, NEW w, NEW a, NEW b,
           a \in XMin - 1 .. XMax - 19, b \in YMin - 1 .. YMax - 26,
           <<w.x, w.y>> \in {Home[who], <<a, b>>}
    PROVE  InField(w)
<1>1. PICK ha \in XMin + 7 .. XMax - 28, hb \in YMin + 2 .. YMax - 27 : Home[who] = <<ha, hb>>
  BY HomePlace
<1>2. CASE w.x = ha /\ w.y = hb
  <2>1. ha \in XMin - 1 .. XMax - 19
    BY BoundsHold, SMTT(30)
  <2>2. hb \in YMin - 1 .. YMax - 26
    BY BoundsHold, SMTT(30)
  <2> QED BY <1>2, <2>1, <2>2 DEF InField
<1>3. CASE w.x = a /\ w.y = b
  <2>1. a \in XMin - 1 .. XMax - 19 /\ b \in YMin - 1 .. YMax - 26
    BY BoundsHold
  <2> QED BY <1>3, <2>1 DEF InField
<1> QED BY <1>1, <1>2, <1>3

\* From below the field a frame of play leads into it, or leaves the player where it is
\* with the flag up that pushes it.
LEMMA ClimbStep ==
    ASSUME NEW who \in Users, NEW u \in PlayerType, BelowField(u),
           NEW B, NEW lethal, NEW key, NEW a \in Coord, NEW b \in Coord, NEW coin \in BOOLEAN,
           a \in XMin - 1 .. XMax - 19, b \in YMin - 1 .. YMax - 26
    PROVE  LET w == Played(who, u, B, lethal, key, <<a, b>>, coin)
           IN  "T" \in w.walls /\ (BelowField(w) \/ InField(w))
<1> DEFINE w == Played(who, u, B, lethal, key, <<a, b>>, coin)
           sensed == Sense(u, Seen(u, B), lethal)
<1>1. /\ u.x = XMax - 25 /\ u.y = YMax - 25 /\ u.mx = 0 /\ u.my = 0
      /\ u.walls \subseteq {"T"}
  BY DEF BelowField
<1>0. u.mx = 0 \/ u.my = 0
  BY <1>1
<1>2. AtEdge(u) = "T"
  BY <1>1, EdgeFacts, BoundsHold
<1>3. sensed = "T"
  BY <1>2, EdgeFirst
<1>4. w.mx = 0 /\ w.my = 0
  BY <1>1, <1>3, StaysStill
<1>5. sensed \in Walls => w.walls = u.walls \union {sensed}
  BY <1>0, PlayedRest
<1>6. Went(who, u, w, a, b)
  BY <1>0, PlayedFacts
<1> SUFFICES "T" \in w.walls /\ (BelowField(w) \/ InField(w))
  OBVIOUS
<1> HIDE DEF w, sensed
<1>7. "T" \in w.walls /\ w.walls \subseteq {"T"}
  BY <1>1, <1>3, <1>5 DEF Walls
<1>8. PICK x \in 1 .. 1022 : u.x = x /\ x = XMax - 25
  BY <1>1, BoundsHold
<1>9. PICK y \in 1 .. 1022 : u.y = y /\ y = YMax - 25
  BY <1>1, BoundsHold
<1>10. (y - 1) % 1024 = y - 1 /\ x % 1024 = x /\ y % 1024 = y /\ x + 0 = x /\ y + 0 = y
  BY OnePixel, PlainPixel
<1>11. \/ <<w.x, w.y>> \in {Home[who], <<a, b>>}
       \/ w.x = x /\ w.y = y
       \/ w.x = x /\ w.y = y - 1
  <2>1. /\ (u.x + u.mx) % 1024 = x /\ (u.y + u.my) % 1024 = y
        /\ (u.y - 1) % 1024 = y - 1
    BY <1>1, <1>8, <1>9, <1>10
  <2>2. "L" \notin u.walls /\ "R" \notin u.walls /\ "B" \notin u.walls
    BY <1>1
  <2> QED BY <1>6, <1>8, <1>9, <2>1, <2>2 DEF Went
<1>12. CASE <<w.x, w.y>> \in {Home[who], <<a, b>>}
  BY <1>7, <1>12, PutInField
<1>13. CASE w.x = x /\ w.y = y
  BY <1>4, <1>7, <1>8, <1>9, <1>13 DEF BelowField
<1>14. CASE w.x = x /\ w.y = y - 1
  BY <1>7, <1>8, <1>9, <1>14, BoundsHold DEF InField
<1> QED BY <1>11, <1>12, <1>13, <1>14

-----------------------------------------------------------------------------
(* A player that is being teleported is put somewhere in every frame, and may be *)
(* put on the rim: it walks again only after a frame without walls and motion.   *)

Sent(who, w, a, b) == /\ <<w.x, w.y>> \in {Home[who], <<a, b>>} /\ w.mx = 0 /\ w.my = 0
                      /\ w.port_flag = TRUE \/ w.walls = {}

LEMMA SentAway ==
    ASSUME NEW who \in Users, NEW u \in PlayerType, u.mx = 0 \/ u.my = 0, u.port_flag = TRUE,
           NEW B, NEW lethal, NEW key, NEW a \in Coord, NEW b \in Coord, NEW coin \in BOOLEAN
    PROVE  Sent(who, Played(who, u, B, lethal, key, <<a, b>>, coin), a, b)
<1> DEFINE sensed == Sense(u, Seen(u, B), lethal)
           v == Flagged(who, u, key)[sensed]
           w == Moved(who, u, v, <<a, b>>, coin)
<1>1. sensed \in Senses
  BY SenseRange
<1> HIDE DEF sensed
<1>2. v \in PlayerType
  BY <1>1, FlaggedFacts
<1>3. v.port_flag = TRUE \/ v.walls = {}
  <2>1. CASE sensed = "free"
    BY <2>1, Fields DEF Flagged, Names, Walls
  <2>2. CASE sensed # "free"
    BY <1>1, <2>2, Fields DEF Flagged, Senses, Names, Walls
  <2> QED BY <2>1, <2>2
<1> HIDE DEF v
<1>4. w.walls = v.walls
  BY <1>2, MovedFacts
<1>5. w.port_flag = v.port_flag
  BY <1>2, MovedKeeps
<1>6. PICK ha \in Coord, hb \in Coord : Home[who] = <<ha, hb>>
  BY HomeOnScreen
<1>7. PICK ta \in Coord, tb \in Coord :
         /\ PortTarget(who, <<a, b>>, coin) = <<ta, tb>>
         /\ <<ta, tb>> \in {Home[who], <<a, b>>}
  BY <1>6 DEF PortTarget
<1>8. /\ <<w.x, w.y>> \in {Home[who], <<a, b>>} /\ w.mx = 0 /\ w.my = 0
  <2>1. CASE u.bomb_flag
    BY <1>2, <1>6, <2>1, Fields DEF Moved, At, Names
  <2>2. CASE ~u.bomb_flag
    <3>1. w = At(v, <<ta, tb>>)
      BY <1>7, <2>2 DEF Moved
    <3>2. w.x = ta /\ w.y = tb /\ w.mx = 0 /\ w.my = 0
      BY <1>2, <3>1, Fields DEF At, Names
    <3> QED BY <1>7, <3>2
  <2> QED BY <2>1, <2>2
<1> HIDE DEF w
<1>9. w = Played(who, u, B, lethal, key, <<a, b>>, coin)
  BY DEF w, v, sensed, Played
<1> QED BY <1>3, <1>4, <1>5, <1>8, <1>9 DEF Sent

\* Without a teleport it does not matter where the other player is.
LEMMA OtherUnseen ==
    ASSUME NEW who, NEW u, u.port_flag = FALSE, NEW B, NEW lethal, NEW key, NEW coin,
           NEW other, NEW another
    PROVE  Played(who, u, B, lethal, key, other, coin) = Played(who, u, B, lethal, key, another, coin)
BY DEF Played, Moved

Rim(u) == \/ u.port_flag = TRUE
          \/ u.walls = {} /\ u.mx = 0 /\ u.my = 0
          \/ RimOf(u)

LEMMA RimKept ==
    ASSUME NEW u, NEW w, Rim(u), w.x = u.x, w.y = u.y, w.walls = u.walls,
           w.port_flag = u.port_flag, w.mx \in {u.mx, 0}, w.my \in {u.my, 0}
    PROVE  Rim(w)
BY DEF Rim, RimOf

LEMMA RimFlags ==
    ASSUME NEW u \in PlayerType, Rim(u)
    PROVE  Rim(Frozen(u)) /\ Rim(Overwritten(u))
<1> DEFINE p == Frozen(u)
           q == Overwritten(u)
<1>1. /\ p.x = u.x /\ p.y = u.y /\ p.walls = u.walls /\ p.port_flag = u.port_flag
      /\ p.mx = 0 /\ p.my = 0
  BY Fields DEF Frozen, Names
<1>2. /\ q.x = u.x /\ q.y = u.y /\ q.walls = u.walls /\ q.port_flag = u.port_flag
      /\ q.mx = u.mx /\ q.my = u.my
  BY Fields DEF Overwritten, Names
<1> HIDE DEF p, q
<1>3. Rim(p) /\ Rim(q)
  BY <1>1, <1>2, RimKept
<1> QED BY <1>3 DEF p, q

LEMMA FreshRim == ASSUME NEW who \in Users, NEW port \in BOOLEAN PROVE Rim(Fresh(who, port))
<1> DEFINE w == Fresh(who, port)
<1>1. w.mx = 0 /\ w.my = 0
  BY FreshFacts
<1>2. w.walls = {}
  BY DEF Fresh
<1> HIDE DEF w
<1>3. Rim(w)
  BY <1>1, <1>2 DEF Rim
<1> QED BY <1>3 DEF w

\* Nor does it where the teleport leads home instead.
LEMMA OtherUnmet ==
    ASSUME NEW who, NEW u, NEW B, NEW lethal, NEW key, NEW coin, NEW other,
           PortTarget(who, other, coin) = Home[who]
    PROVE  Played(who, u, B, lethal, key, other, coin) = Played(who, u, B, lethal, key, Home[who], coin)
<1>1. PortTarget(who, Home[who], coin) = Home[who]
  BY DEF PortTarget
<1> QED BY <1>1 DEF Played, Moved

\* Two places in the field, to stand for one that is not seen.
LEMMA InnerPlace == /\ XMin \in Coord /\ YMin \in Coord
                    /\ XMin \in XMin .. XMax - 20 /\ YMin \in YMin .. YMax - 27
                    /\ XMin \in XMin - 1 .. XMax - 19 /\ YMin \in YMin - 1 .. YMax - 26
BY BoundsHold DEF Coord

\* Every frame of play leaves a player so, wherever the other one is.
LEMMA RimHolds ==
    ASSUME NEW who \in Users, NEW u \in PlayerType, u.mx = 0 \/ u.my = 0,
           NEW B, NEW lethal, NEW key, NEW a \in Coord, NEW b \in Coord, NEW coin \in BOOLEAN
    PROVE  Rim(Played(who, u, B, lethal, key, <<a, b>>, coin))
<1>0. u.port_flag \in BOOLEAN
  BY DEF PlayerType
<1>1. CASE u.port_flag = TRUE
  <2> DEFINE w == Played(who, u, B, lethal, key, <<a, b>>, coin)
  <2>1. Sent(who, w, a, b)
    BY <1>1, SentAway
  <2> HIDE DEF w
  <2>2. Rim(w)
    BY <2>1 DEF Rim, Sent
  <2> QED BY <2>2 DEF w
<1>2. CASE u.port_flag = FALSE
  <2> DEFINE w == Played(who, u, B, lethal, key, <<XMin, YMin>>, coin)
  <2>1. RimOf(w)
    BY InnerPlace, RimStep
  <2>2. Played(who, u, B, lethal, key, <<a, b>>, coin) = w
    BY <1>2, OtherUnseen, ZenonT(40)
  <2> HIDE DEF w
  <2> QED BY <2>1, <2>2 DEF Rim
<1> QED BY <1>0, <1>1, <1>2

\* From the field a frame of play with at most one wall flag up leads nowhere else,
\* unless a teleport leads out of it.
LEMMA FieldHolds ==
    ASSUME NEW who \in Users, NEW u \in PlayerType, u.mx = 0 \/ u.my = 0,
           Rim(u), InField(u), \A f, g \in u.walls : f = g,
           NEW B, NEW lethal, NEW key, NEW a \in Coord, NEW b \in Coord, NEW coin \in BOOLEAN,
           a \in XMin - 1 .. XMax - 19, b \in YMin - 1 .. YMax - 26
    PROVE  InField(Played(who, u, B, lethal, key, <<a, b>>, coin))
<1>0. u.port_flag \in BOOLEAN
  BY DEF PlayerType
<1>1. CASE u.port_flag = TRUE
  <2> DEFINE w == Played(who, u, B, lethal, key, <<a, b>>, coin)
  <2>1. Sent(who, w, a, b)
    BY <1>1, SentAway
  <2> HIDE DEF w
  <2>2. InField(w)
    BY <2>1, PutInField DEF Sent
  <2> QED BY <2>2 DEF w
<1>2. CASE RimOf(u)
  BY <1>2, LeaveStep
<1>3. CASE u.walls = {} /\ u.mx = 0 /\ u.my = 0
  <2> DEFINE w == Played(who, u, B, lethal, key, <<a, b>>, coin)
  <2>1. Went(who, u, w, a, b)
    BY PlayedFacts
  <2> HIDE DEF w
  <2>2. PICK x \in 0 .. 1023 : u.x = x
    BY Registers
  <2>2y. PICK y \in 0 .. 1023 : u.y = y
    BY Registers
  <2>3. x % 1024 = x /\ y % 1024 = y /\ x + 0 = x /\ y + 0 = y
    OBVIOUS
  <2>4. (u.x + u.mx) % 1024 = u.x /\ (u.y + u.my) % 1024 = u.y
    BY <1>3, <2>2, <2>2y, <2>3
  <2>5. <<w.x, w.y>> \in {Home[who], <<a, b>>} \/ (w.x = u.x /\ w.y = u.y)
    BY <1>3, <2>1, <2>4 DEF Went
  <2>6. InField(w)
    BY <2>5, PutInField DEF InField
  <2> QED BY <2>6 DEF w
<1> QED BY <1>0, <1>1, <1>2, <1>3 DEF Rim

-----------------------------------------------------------------------------
(* Walking in the open: where nothing pushes, the place that was sensed was in *)
(* the open, and the step from it is one pixel along one axis.                 *)

LEMMA Coordinates == ASSUME NEW u \in PlayerType PROVE u.x \in Coord /\ u.y \in Coord
BY Registers DEF Coord

\* What the corners see is what is there, or what the top-left copy has lost.
LEMMA SeenOpen ==
    ASSUME NEW u, NEW B, \A c \in Corners : Seen(u, B)[c] \notin {Wall, Brick}
    PROVE  InTheOpen(u, B)
<1> SUFFICES ASSUME NEW c \in Corners, NEW t, t = TileAt(Corner(u)[c])
             PROVE  TypeOf(t, B) \notin {Wall, Brick} \/ (c = "tl" /\ t \in u.erased)
  BY DEF InTheOpen
<1>1. Seen(u, B)[c] \notin {Wall, Brick}
  OBVIOUS
<1>2. Path \notin {Wall, Brick}
  BY DEF Path, Wall, Brick
<1> QED BY <1>1, <1>2, SeenIs DEF TypeOf

\* A map that has lost more tiles is no less open.
LEMMA StaysOpen ==
    ASSUME NEW u, NEW w, NEW B, NEW C, InTheOpen(u, B),
           B \subseteq C, u.erased \subseteq w.erased,
           \A c \in Corners : TileAt(Corner(w)[c]) = TileAt(Corner(u)[c])
    PROVE  InTheOpen(w, C)
<1> SUFFICES ASSUME NEW c \in Corners, NEW t, t = TileAt(Corner(w)[c])
             PROVE  TypeOf(t, C) \notin {Wall, Brick} \/ (c = "tl" /\ t \in w.erased)
  BY DEF InTheOpen
<1>1. TypeOf(t, B) \notin {Wall, Brick} \/ (c = "tl" /\ t \in u.erased)
  BY DEF InTheOpen
<1>2. Path \notin {Wall, Brick}
  BY DEF Path, Wall, Brick
<1> QED BY <1>1, <1>2 DEF TypeOf

LEMMA ShiftedIs ==
    ASSUME NEW w \in PlayerType, NEW dx, NEW dy
    PROVE  LET s == Shifted(w, dx, dy)
           IN  s.x = w.x + dx /\ s.y = w.y + dy /\ s.erased = w.erased
BY Fields DEF Shifted, Names

\* One step along one axis from an open place.
LEMMA OneStep ==
    ASSUME NEW u \in PlayerType, NEW w \in PlayerType, NEW B, InTheOpen(u, B),
           NEW dx \in Steps, NEW dy \in Steps, dx = 0 \/ dy = 0,
           w.x = Stepped(u.x, dx), w.y = Stepped(u.y, dy), u.erased \subseteq w.erased
    PROVE  NearOpen(w, B)
<1>p. u.x \in Coord /\ u.y \in Coord
  BY Coordinates
<1>q. w.x \in Coord /\ w.y \in Coord
  BY Coordinates
<1>c. PICK x \in Coord : u.x = x
  BY <1>p
<1>d. PICK y \in Coord : u.y = y
  BY <1>p
<1>e. PICK wx \in Coord : w.x = wx
  BY <1>q
<1>f. PICK wy \in Coord : w.y = wy
  BY <1>q
<1>a. u.x = x /\ u.y = y /\ w.x = wx /\ w.y = wy
  BY <1>c, <1>d, <1>e, <1>f
<1>b. PICK ex \in Steps, ey \in Steps :
          wx + ex = wx - dx /\ wy + ey = wy - dy /\ (dx = 0 => ex = 0) /\ (dy = 0 => ey = 0)
  <2>1. 0 - dx \in Steps /\ 0 - dy \in Steps
    BY DEF Steps
  <2>2. wx + (0 - dx) = wx - dx /\ wy + (0 - dy) = wy - dy
    BY DEF Steps, Coord
  <2>3. (dx = 0 => 0 - dx = 0) /\ (dy = 0 => 0 - dy = 0)
    BY DEF Steps
  <2> QED BY <2>1, <2>2, <2>3
<1> DEFINE s == Shifted(w, ex, ey)
<1>1. s.x = wx - dx /\ s.y = wy - dy /\ s.erased = w.erased
  BY <1>a, <1>b, ShiftedIs
<1>2. (wx - dx) % 1024 = x % 1024 /\ ((wx - dx) + 20) % 1024 = (x + 20) % 1024
  <2>1. 20 \in 0 .. 27 /\ wx = Stepped(x, dx)
    BY <1>a
  <2> QED BY <2>1, WasThere
<1>3. (wy - dy) % 1024 = y % 1024 /\ ((wy - dy) + 27) % 1024 = (y + 27) % 1024
  <2>1. 27 \in 0 .. 27 /\ wy = Stepped(y, dy)
    BY <1>a
  <2> QED BY <2>1, WasThere
<1> HIDE DEF s
<1>4. /\ s.x % 1024 = u.x % 1024 /\ (s.x + 20) % 1024 = (u.x + 20) % 1024
      /\ s.y % 1024 = u.y % 1024 /\ (s.y + 27) % 1024 = (u.y + 27) % 1024
  <2>1. s.x % 1024 = u.x % 1024 /\ (s.x + 20) % 1024 = (u.x + 20) % 1024
    BY <1>1, <1>2, <1>a
  <2>2. s.y % 1024 = u.y % 1024 /\ (s.y + 27) % 1024 = (u.y + 27) % 1024
    BY <1>1, <1>3, <1>a
  <2> QED BY <2>1, <2>2
<1>5. \A c \in Corners : TileAt(Corner(s)[c]) = TileAt(Corner(u)[c])
  BY <1>4, SameTiles
<1>6. InTheOpen(s, B)
  BY <1>1, <1>5, StaysOpen
<1>7. s = Shifted(w, ex, 0) \/ s = Shifted(w, 0, ey)
  BY <1>b, Zenon DEF s
<1>8. ex \in -1 .. 1 /\ ey \in -1 .. 1
  BY <1>b DEF Steps
<1> HIDE DEF s
<1> QED BY <1>6, <1>7, <1>8 DEF NearOpen

LEMMA NoStep == ASSUME NEW m \in Coord PROVE m = Stepped(m, 0)
BY DEF Stepped, Coord

LEMMA StandsNearby ==
    ASSUME NEW u \in PlayerType, NEW w \in PlayerType, NEW B, InTheOpen(u, B),
           w.x = u.x, w.y = u.y, u.erased \subseteq w.erased
    PROVE  NearOpen(w, B)
<1>1. u.x = Stepped(u.x, 0) /\ u.y = Stepped(u.y, 0)
  <2>1. u.x \in Coord /\ u.y \in Coord
    BY Coordinates
  <2> QED BY <2>1, NoStep
<1>2. 0 \in Steps
  BY DEF Steps
<1> QED BY <1>1, <1>2, OneStep

\* A sprite that stays keeps what it stands near to, whatever the map loses.
LEMMA StaysNearby ==
    ASSUME NEW u \in PlayerType, NEW w \in PlayerType, NEW B, NEW C, NearOpen(u, B),
           w.x = u.x, w.y = u.y, u.erased \subseteq w.erased, B \subseteq C
    PROVE  NearOpen(w, C)
<1>1. ASSUME NEW dx, NEW dy, InTheOpen(Shifted(u, dx, dy), B)
      PROVE  InTheOpen(Shifted(w, dx, dy), C)
  <2> DEFINE s == Shifted(u, dx, dy)
             r == Shifted(w, dx, dy)
  <2>1. /\ s.x = u.x + dx /\ s.y = u.y + dy /\ s.erased = u.erased
        /\ r.x = w.x + dx /\ r.y = w.y + dy /\ r.erased = w.erased
    BY ShiftedIs
  <2>2. InTheOpen(s, B)
    BY <1>1
  <2> HIDE DEF s, r
  <2>3. r.x = s.x /\ r.y = s.y /\ s.erased \subseteq r.erased
    BY <2>1
  <2>4. Corner(r) = Corner(s)
    BY <2>3 DEF Corner
  <2>5. InTheOpen(r, C)
    BY <2>2, <2>3, <2>4, StaysOpen
  <2> QED BY <2>5 DEF r
<1> QED BY <1>1 DEF NearOpen

LEMMA OneStepIs ==
    ASSUME NEW m \in Coord
    PROVE  (m - 1) % 1024 = Stepped(m, -1) /\ (m + 1) % 1024 = Stepped(m, 1)
<1>1. m - 1 = m + (-1)
  BY DEF Coord
<1> QED BY <1>1 DEF Stepped

LEMMA OneWay ==
    ASSUME NEW u \in PlayerType, NEW w \in PlayerType, NEW B, InTheOpen(u, B),
           NEW d \in Steps, \/ w.x = Stepped(u.x, d) /\ w.y = u.y
                            \/ w.x = u.x /\ w.y = Stepped(u.y, d),
           u.erased \subseteq w.erased
    PROVE  NearOpen(w, B)
<1>1. u.x = Stepped(u.x, 0) /\ u.y = Stepped(u.y, 0) /\ 0 \in Steps
  BY Coordinates, NoStep DEF Steps
<1>2. CASE w.x = Stepped(u.x, d) /\ w.y = u.y
  BY <1>1, <1>2, OneStep
<1>3. CASE w.x = u.x /\ w.y = Stepped(u.y, d)
  BY <1>1, <1>3, OneStep
<1> QED BY <1>2, <1>3

\* Where a frame takes a player that is neither sent home nor teleported.
WalkedOn(u, w) ==
    \/ w.x = u.x /\ w.y = u.y
    \/ w.x = u.x /\ w.y = (u.y - 1) % 1024
    \/ w.x = (u.x - 1) % 1024 /\ w.y = u.y
    \/ w.x = (u.x + 1) % 1024 /\ w.y = u.y
    \/ w.x = u.x /\ w.y = (u.y + 1) % 1024
    \/ w.x = (u.x + u.mx) % 1024 /\ w.y = (u.y + u.my) % 1024

LEMMA WalksOn ==
    ASSUME NEW who \in Users, NEW u \in PlayerType, u.mx = 0 \/ u.my = 0,
           ~u.bomb_flag, ~u.port_flag,
           NEW B, NEW lethal, NEW key, NEW other, NEW coin
    PROVE  WalkedOn(u, Played(who, u, B, lethal, key, other, coin))
<1> DEFINE sensed == Sense(u, Seen(u, B), lethal)
           v == Flagged(who, u, key)[sensed]
           w == Moved(who, u, v, other, coin)
           q == Walk(u, v)
<1>1. sensed \in Senses
  BY SenseRange
<1> HIDE DEF sensed
<1>2. v \in PlayerType /\ v.x = u.x /\ v.y = u.y
  BY <1>1, FlaggedFacts
<1> HIDE DEF v
<1>3. /\ q \in PlayerType
      /\ \/ q.x = v.x /\ q.y = (u.y - 1) % 1024
         \/ q.x = (u.x - 1) % 1024 /\ q.y = v.y
         \/ q.x = (u.x + 1) % 1024 /\ q.y = v.y
         \/ q.x = v.x /\ q.y = (u.y + 1) % 1024
         \/ q.x = (u.x + u.mx) % 1024 /\ q.y = (u.y + u.my) % 1024
  BY <1>2, WalkFacts
<1>4. \/ w = [v EXCEPT !.die_flag = TRUE]
      \/ w = [q EXCEPT !.die_flag = FALSE]
  BY DEF Moved
<1> HIDE DEF q, w
<1>5. ASSUME w = [v EXCEPT !.die_flag = TRUE]
      PROVE  WalkedOn(u, w)
  <2>1. w.x = v.x /\ w.y = v.y
    BY <1>2, <1>5, Fields DEF Names
  <2> QED BY <1>2, <2>1 DEF WalkedOn
<1>6. ASSUME w = [q EXCEPT !.die_flag = FALSE]
      PROVE  WalkedOn(u, w)
  <2>1. w.x = q.x /\ w.y = q.y
    BY <1>3, <1>6, Fields DEF Names
  <2> QED BY <1>2, <1>3, <2>1 DEF WalkedOn
<1>7. w = Played(who, u, B, lethal, key, other, coin)
  BY DEF w, v, sensed, Played
<1> QED BY <1>4, <1>5, <1>6, <1>7

\* Whoever walks after a frame of play is near to where it was sensed in the open.
\* Nothing is asked of the place it was at, nor of where the other player is: what
\* was put somewhere, or is caught in a wall, stands still.
LEMMA WalkStep ==
    ASSUME NEW who \in Users, NEW u \in PlayerType, u.mx = 0 \/ u.my = 0,
           NEW B, NEW lethal, NEW key, NEW a \in Coord, NEW b \in Coord, NEW coin \in BOOLEAN,
           Walking(Played(who, u, B, lethal, key, <<a, b>>, coin))
    PROVE  NearOpen(Played(who, u, B, lethal, key, <<a, b>>, coin), B)
<1> DEFINE w == Played(who, u, B, lethal, key, <<a, b>>, coin)
           sensed == Sense(u, Seen(u, B), lethal)
<1>1. w \in PlayerType
  BY PlayedFacts
<1>2. /\ w.erased = u.erased
      /\ sensed \in Walls => w.walls = u.walls \union {sensed}
  BY PlayedRest
<1>3. /\ w.bomb_flag = (sensed = "hit" \/ (u.bomb_flag /\ sensed # "free"))
      /\ u.bomb_flag => w.mx = 0 /\ w.my = 0
  BY PlayedHit
<1>4. sensed \in Senses
  BY SenseRange
<1>5. /\ sensed \in {"port", "hazard", "free"} => InTheOpen(u, B)
      /\ sensed = "caught" => u.mx = 0 /\ u.my = 0
  BY OpenSense, CaughtSense, SeenOpen
<1>6. w.walls = {} /\ ~w.bomb_flag /\ ~(w.mx = 0 /\ w.my = 0)
  BY DEF Walking
<1>7. ~u.bomb_flag
  BY <1>3, <1>6
<1>8. ~u.port_flag
  <2>1. CASE u.port_flag = TRUE
    <3>1. Sent(who, w, a, b)
      BY <2>1, SentAway
    <3> QED BY <1>6, <3>1 DEF Sent
  <2>2. u.port_flag \in BOOLEAN
    BY DEF PlayerType
  <2> QED BY <2>1, <2>2
<1>9. sensed # "caught"
  <2> SUFFICES ASSUME sensed = "caught" PROVE FALSE
    OBVIOUS
  <2>1. w.mx = 0 /\ w.my = 0
    BY <1>5, StaysStill
  <2> QED BY <1>6, <2>1
<1>10. WalkedOn(u, w)
  BY <1>7, <1>8, WalksOn
<1> HIDE DEF w, sensed
<1>11. sensed \in {"port", "hazard", "free"}
  BY <1>2, <1>3, <1>4, <1>6, <1>9 DEF Senses
<1>12. NearOpen(w, B)
  <2>1. InTheOpen(u, B)
    BY <1>5, <1>11
  <2>2. u.x \in Coord /\ u.y \in Coord
    BY Coordinates
  <2>3. u.mx \in Steps /\ u.my \in Steps /\ -1 \in Steps /\ 0 \in Steps /\ 1 \in Steps
    BY Registers DEF Steps
  <2>4. ASSUME NEW d \in Steps, \/ w.x = Stepped(u.x, d) /\ w.y = u.y
                                \/ w.x = u.x /\ w.y = Stepped(u.y, d)
        PROVE  NearOpen(w, B)
    BY <1>1, <1>2, <2>1, <2>4, OneWay
  <2>5. CASE w.x = u.x /\ w.y = u.y
    BY <1>1, <1>2, <2>1, <2>5, StandsNearby
  <2>6. CASE w.x = u.x /\ w.y = (u.y - 1) % 1024
    BY <2>2, <2>3, <2>4, <2>6, OneStepIs
  <2>7. CASE w.x = (u.x - 1) % 1024 /\ w.y = u.y
    BY <2>2, <2>3, <2>4, <2>7, OneStepIs
  <2>8. CASE w.x = (u.x + 1) % 1024 /\ w.y = u.y
    BY <2>2, <2>3, <2>4, <2>8, OneStepIs
  <2>9. CASE w.x = u.x /\ w.y = (u.y + 1) % 1024
    BY <2>2, <2>3, <2>4, <2>9, OneStepIs
  <2>10. CASE w.x = (u.x + u.mx) % 1024 /\ w.y = (u.y + u.my) % 1024
    <3>1. w.x = Stepped(u.x, u.mx) /\ w.y = Stepped(u.y, u.my)
      BY <2>10 DEF Stepped
    <3>2. u.x = Stepped(u.x, 0) /\ u.y = Stepped(u.y, 0)
      BY <2>2, NoStep
    <3>3. CASE u.mx = 0
      BY <2>3, <2>4, <3>1, <3>2, <3>3
    <3>4. CASE u.my = 0
      BY <2>3, <2>4, <3>1, <3>2, <3>4
    <3> QED BY <3>3, <3>4
  <2> QED BY <1>10, <2>5, <2>6, <2>7, <2>8, <2>9, <2>10 DEF WalkedOn
<1> QED BY <1>12 DEF w

\* A frozen frame stops it, a broken brick leaves it where it stands, and KEY[0]
\* sets it down without motion.
LEMMA WalkKept ==
    ASSUME NEW u \in PlayerType, NEW B, NEW C, B \subseteq C,
           Walking(u) => NearOpen(u, B), Walking(Overwritten(u))
    PROVE  NearOpen(Overwritten(u), C)
<1> DEFINE w == Overwritten(u)
<1>1. w \in PlayerType /\ w.x = u.x /\ w.y = u.y /\ w.walls = u.walls
  BY OverwrittenFacts
<1>2. /\ u.erased \subseteq w.erased /\ w.bomb_flag = u.bomb_flag
      /\ w.mx = u.mx /\ w.my = u.my
  BY Fields DEF Overwritten, Names
<1>3. Walking(w)
  OBVIOUS
<1> HIDE DEF w
<1>4. NearOpen(u, B)
  BY <1>1, <1>2, <1>3 DEF Walking
<1> QED BY <1>1, <1>2, <1>4, StaysNearby DEF w

LEMMA FrozenStands == ASSUME NEW u \in PlayerType PROVE ~Walking(Frozen(u))
BY FrozenFacts DEF Walking

LEMMA FreshStands == ASSUME NEW who, NEW port PROVE ~Walking(Fresh(who, port))
BY DEF Walking, Fresh
=============================================================================

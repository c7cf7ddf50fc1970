SPECIFICATION Spec
CONSTANTS
    FuseEnd = 160
    Blast1End = 32
    Blast2End = 64
    Blast3End = 96
    UserSpots <- MCUserSpots
INVARIANTS
    HandShake
    SpotTracksBomb
    CountInPhase
PROPERTIES
    ImplementsBombLife
    EveryBombBurnsOut

---------------------------- MODULE ConsoleProofs ---------------------------
(***************************************************************************)
(* Proofs about Console for every geometry with an even line and every set *)
(* of rising thresholds: what the raster (VgaController) and the state     *)
(* machine (GameState) keep each on its own, and then where the two clocks *)
(* stand to each other.                                                    *)
(***************************************************************************)
EXTENDS Console, TLAPS

-----------------------------------------------------------------------------
(* The raster on its own, for every timing that satisfies TimingAssumption, *)
(* the 640 x 480 one of the source among them.                              *)

LEMMA TimingHolds == TimingAssumption
BY TimingAssumption

RasterInv == Vga!TypeOK /\ Vga!SyncInStep

\* The two counters never pass the ends of the frame.
LEMMA CountersStep ==
    ASSUME Vga!TypeOK, Vga!Counters
    PROVE  /\ hc' = IF hc = hpixels THEN 0 ELSE hc + 1
           /\ vc' = IF hc # hpixels THEN vc ELSE IF vc = vlines THEN 0 ELSE vc + 1
           /\ hc' \in 0 .. hpixels /\ vc' \in 0 .. vlines
BY TimingHolds DEF TimingAssumption, Vga!TypeOK, Vga!Counters

LEMMA RasterInit == Vga!Init => RasterInv
BY TimingHolds DEF TimingAssumption, Vga!Init, RasterInv, Vga!TypeOK, Vga!SyncInStep, Vga!PowerUp

LEMMA RasterStep == RasterInv /\ [Vga!Next]_(Vga!vars) => RasterInv'
<1> SUFFICES ASSUME RasterInv, [Vga!Next]_(Vga!vars)
             PROVE  RasterInv'
  OBVIOUS
<1> USE TimingHolds DEF TimingAssumption
<1>0. Vga!TypeOK /\ Vga!SyncInStep
  BY DEF RasterInv
<1>1. CASE Vga!PixelEdge
  <2>1. /\ hc' = IF hc = hpixels THEN 0 ELSE hc + 1
        /\ vc' = IF hc # hpixels THEN vc ELSE IF vc = vlines THEN 0 ELSE vc + 1
        /\ hc' \in 0 .. hpixels /\ vc' \in 0 .. vlines
    BY <1>0, <1>1, CountersStep DEF Vga!PixelEdge
  <2>2. Vga!TypeOK'
    BY <1>1, <2>1 DEF Vga!PixelEdge, Vga!Hsync, Vga!Vsync, Vga!TypeOK
  <2>3. hs' = 0 <=> hc' \in HSyncStart .. HSyncEnd - 1
    BY <1>0, <1>1, <2>1 DEF Vga!PixelEdge, Vga!Hsync, Vga!TypeOK
  <2>4. vs' = 0 <=> vc \in {VSyncFirst - 1, VSyncFirst}
    BY <1>0, <1>1 DEF Vga!PixelEdge, Vga!Vsync, Vga!TypeOK
  <2>5. vs' = 0 <=> \/ vc' = VSyncFirst - 1 /\ hc' > 0
                    \/ vc' = VSyncFirst
                    \/ vc' = VSyncSecond /\ hc' = 0
    BY <1>0, <2>1, <2>4 DEF Vga!TypeOK
  <2> QED BY <2>2, <2>3, <2>5 DEF RasterInv, Vga!SyncInStep
<1>2. CASE Vga!FallingEdge
  BY <1>0, <1>2 DEF Vga!FallingEdge, RasterInv, Vga!SyncInStep, Vga!PowerUp, Vga!TypeOK
<1>3. CASE UNCHANGED Vga!vars
  BY <1>0, <1>3 DEF Vga!vars, RasterInv, Vga!SyncInStep, Vga!PowerUp, Vga!TypeOK
<1> QED BY <1>1, <1>2, <1>3 DEF Vga!Next

\* The counters stay inside the frame and both sync pulses stay where the
\* counters put them.
THEOREM RasterInvariant == Vga!Safety => []RasterInv
BY RasterInit, RasterStep, PTL DEF Vga!Safety

\* hs and vs of vga_controller, registers of their own, are what the counters say one
\* pixel later, in every line and frame.
THEOREM RasterSyncCorrect == Vga!Safety => []Vga!SyncInStep
<1>1. RasterInv => Vga!SyncInStep
  BY DEF RasterInv
<1> QED BY <1>1, RasterInvariant, PTL

\* After power-up the frame clock rises only while nothing is displayed, and at one
\* place of the raster only: between two frame edges lies one whole visible scan, and
\* no edge inside one.
THEOREM RasterFrameEdgeCorrect ==
    Vga!Safety => Vga!FrameEdgeInBlanking /\ Vga!OneEdgePerScan
<1>1. RasterInv /\ RasterInv' /\ [Vga!Next]_(Vga!vars)
        => /\ [vs = 0 /\ vs' = 1 /\ ~Vga!PowerUp => ~Vga!display /\ ~Vga!display']_(Vga!vars)
           /\ [vs = 0 /\ vs' = 1 /\ ~Vga!PowerUp => hc = 0 /\ vc = VSyncSecond]_(Vga!vars)
  <2> SUFFICES ASSUME RasterInv, RasterInv', Vga!Next, vs = 0, vs' = 1, ~Vga!PowerUp
               PROVE  /\ ~Vga!display /\ ~Vga!display'
                      /\ hc = 0 /\ vc = VSyncSecond
    OBVIOUS
  <2> USE TimingHolds DEF TimingAssumption
  <2>1. vc \in VSyncFirst - 1 .. VSyncSecond
    BY DEF RasterInv, Vga!SyncInStep, Vga!TypeOK
  <2>2. vc' \in {vc, vc + 1}
    BY <2>1, CountersStep DEF RasterInv, Vga!Next, Vga!PixelEdge, Vga!FallingEdge, Vga!TypeOK
  <2>3. ~Vga!display /\ ~Vga!display'
    BY <2>1, <2>2 DEF Vga!display, RasterInv, Vga!TypeOK
  <2>4. vc \notin {VSyncFirst - 1, VSyncFirst}
    <3>1. Vga!Vsync
      BY DEF Vga!Next, Vga!PixelEdge, Vga!FallingEdge
    <3>2. vc + 1 \notin {VSyncFirst, VSyncSecond}
      BY <3>1 DEF Vga!Vsync
    <3> QED BY <3>2 DEF RasterInv, Vga!TypeOK
  <2>5. hc = 0 /\ vc = VSyncSecond
    BY <2>1, <2>4 DEF RasterInv, Vga!SyncInStep, Vga!TypeOK
  <2> QED BY <2>3, <2>5
<1> QED BY <1>1, RasterInvariant, PTL DEF Vga!Safety, Vga!FrameEdgeInBlanking, Vga!OneEdgePerScan

-----------------------------------------------------------------------------
(* The state machine on its own, for every choice of thresholds and keycodes. *)

GameInv == Fsm!TypeOK /\ Fsm!BlinkInStep

LEMMA Thresholds ==
    /\ CountMax \in Nat
    /\ FlickerOn1 \in 1 .. CountMax /\ FlickerOff1 \in 1 .. CountMax
    /\ FlickerOn2 \in 1 .. CountMax /\ FlickerOff2 \in 1 .. CountMax
    /\ WinEnd \in 1 .. CountMax
    /\ FlickerOn1 < FlickerOff1 /\ FlickerOff1 < FlickerOn2
    /\ FlickerOn2 < FlickerOff2 /\ FlickerOff2 <= WinEnd
BY FlickerAssumption DEF FlickerAssumption

LEMMA CountNextRange ==
    ASSUME count \in 0 .. CountMax
    PROVE  /\ Fsm!count_next \in 0 .. CountMax
           /\ curr_state \in {"Continue", "Pause"} => Fsm!count_next = 0
           /\ curr_state \notin {"Continue", "Pause"} =>
                 Fsm!count_next = IF count = CountMax THEN 0 ELSE count + 1
BY Thresholds DEF Fsm!count_next

LEMMA GameInit == Fsm!Init => GameInv
<1> SUFFICES ASSUME Fsm!Init PROVE GameInv
  OBVIOUS
<1>1. Fsm!TypeOK
  BY Thresholds DEF Fsm!Init, Fsm!TypeOK, Fsm!GameStates, Fsm!Menu
<1>2. Fsm!BlinkInStep
  <2>1. curr_state = "Start1" /\ count = 0
    BY DEF Fsm!Init
  <2>2. 0 \notin FlickerOn1 .. FlickerOff1 - 1 /\ 0 \notin FlickerOn2 .. FlickerOff2 - 1
    BY Thresholds
  <2> QED BY <2>1, <2>2 DEF Fsm!BlinkInStep
<1> QED BY <1>1, <1>2 DEF GameInv

LEMMA GameStep == GameInv /\ [Fsm!Next]_(Fsm!vars) => GameInv'
<1> SUFFICES ASSUME GameInv, [Fsm!Next]_(Fsm!vars)
             PROVE  GameInv'
  OBVIOUS
<1> USE Thresholds
<1>0. curr_state \in Fsm!GameStates /\ count \in 0 .. CountMax /\ keycode \in Fsm!Keys /\ Fsm!BlinkInStep
  BY DEF GameInv, Fsm!TypeOK
<1>1. ASSUME NEW p1die \in BOOLEAN, NEW p2die \in BOOLEAN,
             Fsm!FsmEdge(p1die, p2die), UNCHANGED keycode
      PROVE  GameInv'
  <2>0. count' \in 0 .. CountMax /\ count' = Fsm!count_next /\ keycode' \in Fsm!Keys
    BY <1>0, <1>1, CountNextRange DEF Fsm!FsmEdge
  <2>1. CASE Fsm!Begin
    BY <2>0, <2>1 DEF Fsm!Begin, GameInv, Fsm!TypeOK, Fsm!BlinkInStep, Fsm!GameStates, Fsm!Menu
  <2>2. CASE Fsm!HideText
    <3>1. count' \in {FlickerOn1, FlickerOn2}
      BY <2>0, <2>2 DEF Fsm!HideText
    <3>2. curr_state' = "Start2"
      BY <2>2 DEF Fsm!HideText
    <3> QED BY <2>0, <3>1, <3>2 DEF GameInv, Fsm!TypeOK, Fsm!BlinkInStep, Fsm!GameStates, Fsm!Menu
  <2>3. CASE Fsm!ShowText
    <3>1. count' \in {FlickerOff1, FlickerOff2}
      BY <2>0, <2>3 DEF Fsm!ShowText
    <3>2. curr_state' = "Start1"
      BY <2>3 DEF Fsm!ShowText
    <3> QED BY <2>0, <3>1, <3>2 DEF GameInv, Fsm!TypeOK, Fsm!BlinkInStep, Fsm!GameStates, Fsm!Menu
  <2>4. CASE Fsm!PauseGame
    BY <2>0, <2>4 DEF Fsm!PauseGame, GameInv, Fsm!TypeOK, Fsm!BlinkInStep, Fsm!GameStates, Fsm!Menu
  <2>5. CASE Fsm!EndGame(p1die, p2die)
    BY <2>0, <2>5 DEF Fsm!EndGame, GameInv, Fsm!TypeOK, Fsm!BlinkInStep, Fsm!GameStates, Fsm!Menu, Fsm!Wins
  <2>6. CASE Fsm!BackToMenu
    <3>1. count' = WinEnd /\ curr_state' = "Start1"
      BY <2>0, <2>6 DEF Fsm!BackToMenu
    <3> QED BY <2>0, <3>1 DEF GameInv, Fsm!TypeOK, Fsm!BlinkInStep, Fsm!GameStates, Fsm!Menu
  <2>7. CASE Fsm!Stay(p1die, p2die)
    <3>1. CASE curr_state = "Start1"
      <4>1. count' \notin {FlickerOn1, FlickerOn2} /\ curr_state' = "Start1"
        BY <2>0, <2>7, <3>1 DEF Fsm!Stay, Fsm!Wins
      <4>2. count' = IF count = CountMax THEN 0 ELSE count + 1
        BY <1>0, <2>0, <3>1, CountNextRange
      <4> QED BY <1>0, <2>0, <3>1, <4>1, <4>2
              DEF GameInv, Fsm!TypeOK, Fsm!BlinkInStep, Fsm!GameStates, Fsm!Menu
    <3>2. CASE curr_state = "Start2"
      <4>1. count' \notin {FlickerOff1, FlickerOff2} /\ curr_state' = "Start2"
        BY <2>0, <2>7, <3>2 DEF Fsm!Stay, Fsm!Wins
      <4>2. count' = IF count = CountMax THEN 0 ELSE count + 1
        BY <1>0, <2>0, <3>2, CountNextRange
      <4> QED BY <1>0, <2>0, <3>2, <4>1, <4>2
              DEF GameInv, Fsm!TypeOK, Fsm!BlinkInStep, Fsm!GameStates, Fsm!Menu
    <3>3. CASE curr_state \notin Fsm!Menu
      BY <1>0, <2>0, <2>7, <3>3 DEF Fsm!Stay, GameInv, Fsm!TypeOK, Fsm!BlinkInStep
    <3> QED BY <3>1, <3>2, <3>3 DEF Fsm!Menu
  <2> QED BY <1>1, <2>1, <2>2, <2>3, <2>4, <2>5, <2>6, <2>7 DEF Fsm!FsmEdge
<1>2. CASE Fsm!Reset
  BY <1>0, <1>2 DEF Fsm!Reset, GameInv, Fsm!TypeOK, Fsm!BlinkInStep, Fsm!GameStates, Fsm!Menu
<1>3. CASE Fsm!SetKeycode
  BY <1>0, <1>3 DEF Fsm!SetKeycode, Fsm!fsmVars, GameInv, Fsm!TypeOK, Fsm!BlinkInStep
<1>4. CASE UNCHANGED Fsm!vars
  BY <1>0, <1>4 DEF Fsm!vars, GameInv, Fsm!TypeOK, Fsm!BlinkInStep
<1> QED BY <1>1, <1>2, <1>3, <1>4 DEF Fsm!Next, Fsm!Frame

\* The count and the two start states stay in step for ever, over resets,
\* games, pauses and win screens: the text never blinks at the wrong rate.
THEOREM GameInvariant == Fsm!Safety => []GameInv
BY GameInit, GameStep, PTL DEF Fsm!Safety

\* state_machine takes the six states it names, and its count never passes CountMax.
THEOREM GameTypeCorrect == Fsm!Safety => []Fsm!TypeOK
<1>1. GameInv => Fsm!TypeOK
  BY DEF GameInv
<1> QED BY <1>1, GameInvariant, PTL

\* The start text is hidden exactly in the two windows of the count, also in a menu
\* that was reached from a win screen with a count that is not zero.
THEOREM GameBlinkCorrect == Fsm!Safety => []Fsm!BlinkInStep
<1>1. GameInv => Fsm!BlinkInStep
  BY DEF GameInv
<1> QED BY <1>1, GameInvariant, PTL

\* Whatever the count was when play began, every win screen starts at zero.
THEOREM GameWinScreenCorrect == Fsm!Safety => Fsm!WinStartsFromZero
<1>1. [Fsm!Next]_(Fsm!vars)
        => [curr_state \notin Fsm!Wins /\ curr_state' \in Fsm!Wins => count' = 0]_(Fsm!vars)
  <2> SUFFICES ASSUME Fsm!Next, curr_state \notin Fsm!Wins, curr_state' \in Fsm!Wins
               PROVE  count' = 0
    OBVIOUS
  <2>1. ~Fsm!Reset /\ ~Fsm!SetKeycode
    BY DEF Fsm!Reset, Fsm!SetKeycode, Fsm!fsmVars, Fsm!Wins
  <2>2. PICK p1die \in BOOLEAN, p2die \in BOOLEAN : Fsm!FsmEdge(p1die, p2die)
    BY <2>1 DEF Fsm!Next, Fsm!Frame
  <2>3. Fsm!EndGame(p1die, p2die)
    BY <2>2 DEF Fsm!FsmEdge, Fsm!Begin, Fsm!HideText, Fsm!ShowText, Fsm!PauseGame,
                Fsm!BackToMenu, Fsm!Stay, Fsm!Wins
  <2>4. Fsm!count_next = 0
    BY <2>3 DEF Fsm!EndGame, Fsm!count_next
  <2> QED BY <2>2, <2>4 DEF Fsm!FsmEdge
<1> QED BY <1>1, PTL DEF Fsm!Safety, Fsm!WinStartsFromZero

-----------------------------------------------------------------------------
(* Both, and the coins *)

\* The two coins are functions of the raster: one oscillator edge per clkdiv, and
\* one pixel per hc, which an even line wraps without losing a turn.
CoinsFollow == coin1 = clkdiv /\ coin2 = hc % 2

ConsoleInv == RasterInv /\ GameInv /\ CoinsFollow

-----------------------------------------------------------------------------
(* Every step of the whole is a step, or none, of either part. *)

LEMMA StepOfRaster == [Next]_vars => [Vga!Next]_(Vga!vars)
BY DEF Next, vars, raster, PixelEdge, FallingEdge, Reset, SetKeycode,
       Vga!PixelEdge, Vga!FallingEdge, Vga!vars, Vga!Next

LEMMA StepOfGame == [Next]_vars => [Fsm!Next]_(Fsm!vars)
<1> SUFFICES ASSUME [Next]_vars
             PROVE  Fsm!Next \/ UNCHANGED Fsm!vars
  OBVIOUS
<1>1. CASE PixelEdge
  <2>1. Fsm!Frame \/ UNCHANGED game
    BY <1>1 DEF PixelEdge
  <2> QED BY <2>1 DEF game, Fsm!Next, Fsm!vars
<1>2. CASE FallingEdge \/ UNCHANGED vars
  BY <1>2 DEF FallingEdge, vars, game, Fsm!vars
<1>3. CASE Reset
  BY <1>3 DEF Reset, Fsm!Reset, Fsm!Next
<1>4. CASE SetKeycode
  BY <1>4 DEF SetKeycode, Fsm!SetKeycode, Fsm!fsmVars, Fsm!Keys, Fsm!Next
<1> QED BY <1>1, <1>2, <1>3, <1>4 DEF Next

-----------------------------------------------------------------------------
(* The coins *)

LEMMA RasterFacts ==
    ASSUME RasterInv
    PROVE  /\ hpixels \in Nat /\ hpixels > 1 /\ (hpixels + 1) % 2 = 0
           /\ clkdiv \in {0, 1} /\ hc \in 0 .. hpixels /\ vs \in {0, 1}
BY TimingHolds, EvenLine DEF RasterInv, Vga!TypeOK, TimingAssumption

LEMMA PixelStep ==
    ASSUME RasterInv, PixelEdge
    PROVE  /\ clkdiv = 0 /\ clkdiv' = 1
           /\ hc' = IF hc = hpixels THEN 0 ELSE hc + 1
           /\ vs' = IF vc + 1 \in {VSyncFirst, VSyncSecond} THEN 0 ELSE 1
<1>1. Vga!Counters /\ Vga!TypeOK
  BY DEF PixelEdge, Vga!PixelEdge, Vga!Counters, RasterInv
<1>2. hc' = IF hc = hpixels THEN 0 ELSE hc + 1
  BY <1>1, CountersStep, TimingHolds
<1> QED BY <1>2 DEF PixelEdge, Vga!PixelEdge, Vga!Vsync

LEMMA CoinsStep == RasterInv /\ CoinsFollow /\ [Next]_vars => CoinsFollow'
<1> SUFFICES ASSUME RasterInv, CoinsFollow, [Next]_vars
             PROVE  CoinsFollow'
  OBVIOUS
<1>1. CASE PixelEdge
  <2>1. coin1' = 1 - coin1 /\ coin2' = 1 - coin2
    BY <1>1 DEF PixelEdge, Toss1, Toss2
  <2> QED BY <1>1, <2>1, PixelStep, RasterFacts DEF CoinsFollow
<1>2. CASE FallingEdge
  BY <1>2 DEF FallingEdge, Vga!FallingEdge, Toss1, CoinsFollow
<1>3. CASE Reset \/ SetKeycode \/ UNCHANGED vars
  BY <1>3 DEF Reset, SetKeycode, vars, raster, CoinsFollow
<1> QED BY <1>1, <1>2, <1>3 DEF Next

LEMMA InitInv == Init => ConsoleInv
<1> SUFFICES ASSUME Init PROVE ConsoleInv
  OBVIOUS
<1>1. Vga!Init /\ Fsm!Init
  BY DEF Init, Vga!Init, Fsm!Init, Fsm!Keys
<1>2. RasterInv /\ GameInv
  BY <1>1, RasterInit, GameInit
<1> QED BY <1>2 DEF Init, Vga!Init, CoinsFollow, ConsoleInv

LEMMA StepInv == ConsoleInv /\ [Next]_vars => ConsoleInv'
BY RasterStep, GameStep, StepOfRaster, StepOfGame, CoinsStep DEF ConsoleInv

\* Raster, state machine and coins stay in step with one another for ever.
THEOREM ConsoleInvariant == Spec => []ConsoleInv
BY InitInv, StepInv, PTL DEF Spec

-----------------------------------------------------------------------------
(* The properties of the runs *)

\* Both sync pulses stand where the counters say, whatever KEY[0] and the NIOS
\* program do to the rest.
THEOREM SyncCorrect == Spec => []SyncInStep
<1>1. ConsoleInv => SyncInStep
  BY DEF ConsoleInv, RasterInv, SyncInStep
<1> QED BY <1>1, ConsoleInvariant, PTL

\* The start text blinks with the count, on the frame clock the raster makes.
THEOREM BlinkCorrect == Spec => []BlinkInStep
<1>1. ConsoleInv => BlinkInStep
  BY DEF ConsoleInv, GameInv, BlinkInStep
<1> QED BY <1>1, ConsoleInvariant, PTL

\* VGA_VS rises at power-up, or with the second pixel of line VSyncSecond.
LEMMA TickPlace ==
    ASSUME ConsoleInv, [Next]_vars, Ticks
    PROVE  /\ PixelEdge /\ hc = 0
           /\ Vga!PowerUp \/ vc = VSyncSecond
<1>1. PixelEdge
  BY DEF Ticks, Next, vars, raster, FallingEdge, Vga!FallingEdge, Reset, SetKeycode
<1>2. Vga!PowerUp \/ (vc = VSyncSecond /\ hc = 0)
  BY <1>1, PixelStep, TimingHolds
     DEF ConsoleInv, RasterInv, Vga!TypeOK, Vga!SyncInStep, Ticks, TimingAssumption
<1> QED BY <1>1, <1>2 DEF Vga!PowerUp

\* port_count[0], the coin of the safeports, is 1 at every frame edge: a frame
\* takes an even number of either clock, for every geometry with an even line.
THEOREM CoinsCorrect == Spec => CoinsNeverTurn
<1>1. ConsoleInv /\ ConsoleInv' /\ [Next]_vars
        => [Ticks => coin1' = 1 /\ coin2' = 1]_vars
  <2> SUFFICES ASSUME ConsoleInv, ConsoleInv', [Next]_vars, Ticks
               PROVE  coin1' = 1 /\ coin2' = 1
    OBVIOUS
  <2>1. PixelEdge /\ hc = 0
    BY TickPlace
  <2>2. clkdiv' = 1 /\ hc' = 1
    BY <2>1, PixelStep, RasterFacts DEF ConsoleInv
  <2> QED BY <2>2 DEF ConsoleInv, CoinsFollow
<1> QED BY <1>1, ConsoleInvariant, PTL DEF Spec, CoinsNeverTurn

\* Between two frame edges the beam shows one state of the game, except where
\* KEY[0] is pressed in the middle of a picture.
THEOREM SteadyCorrect == Spec => SteadyUnderBeam
<1> DEFINE A == Vga!display /\ ~Vga!PowerUp /\ <<curr_state, count>>' # <<curr_state, count>>
                  => curr_state' = "Start1" /\ count' = 0 /\ UNCHANGED raster
<1>1. ConsoleInv /\ [Next]_vars => [A]_vars
  <2> SUFFICES ASSUME ConsoleInv, Next, Vga!display, ~Vga!PowerUp,
                      <<curr_state, count>>' # <<curr_state, count>>
               PROVE  curr_state' = "Start1" /\ count' = 0 /\ UNCHANGED raster
    OBVIOUS
  <2>1. CASE PixelEdge
    <3>1. ~(UNCHANGED game)
      BY DEF game
    <3>2. Ticks
      BY <2>1, <3>1 DEF PixelEdge
    <3>3. Vga!PowerUp \/ vc = VSyncSecond
      BY <3>2, TickPlace
    <3> QED BY <3>3, TimingHolds
            DEF Vga!PowerUp, Vga!display, TimingAssumption
  <2>2. CASE FallingEdge
    BY <2>2 DEF FallingEdge, game
  <2>3. CASE Reset
    BY <2>3 DEF Reset, Fsm!Reset
  <2>4. CASE SetKeycode
    BY <2>4 DEF SetKeycode, Fsm!SetKeycode, Fsm!fsmVars
  <2> QED BY <2>1, <2>2, <2>3, <2>4 DEF Next
<1> QED BY <1>1, ConsoleInvariant, PTL DEF Spec, SteadyUnderBeam
=============================================================================

------------------------------- MODULE Console ------------------------------
(***************************************************************************)
(* The two clocks of the game put together, as src/bomberman.sv wires      *)
(* them: the 50 MHz oscillator drives the raster (VgaController), the      *)
(* rising edge of VGA_VS that the raster makes drives the game state       *)
(* machine (GameState), and two free-running counters of the user modules  *)
(* are read at that edge: user1 counts oscillator edges, user2 counts      *)
(* pixel edges.  Only bit 0 of port_count is used, as the coin that is     *)
(* tossed when a player enters a safeport.                                 *)
(* KEY[0] and the NIOS program come in at any time between two clock edges.*)
(***************************************************************************)
EXTENDS VgaTiming, GameKeys

VARIABLES clkdiv, hc, vc, hs, vs,          \* the raster
          curr_state, count, keycode,      \* the game state machine and its PIO
          coin1, coin2                     \* port_count[0] of user1 and of user2

raster == <<clkdiv, hc, vc, hs, vs>>
game == <<curr_state, count, keycode>>
vars == <<raster, game, coin1, coin2>>

Vga == INSTANCE VgaController
Fsm == INSTANCE GameState

\* A line has an even number of pixels: 800.
ASSUME EvenLine == (hpixels + 1) % 2 = 0

Init == Vga!Init /\ Fsm!Init /\ coin1 = 0 /\ coin2 = 0

\* Mutant: user2 counts frames in place of pixels.
Toss2_Frames == coin2' = IF vs = 0 /\ vs' = 1 THEN 1 - coin2 ELSE coin2

\* port_count[0] turns over at every edge of the counter's own clock.
Toss1 == coin1' = 1 - coin1
Toss2 == coin2' = 1 - coin2

\* VGA_VS rises: the clock of everything that plays.
Ticks == vs = 0 /\ vs' = 1

\* A rising edge of MAX10_CLK1_50 that makes VGA_Clk rise, and with it perhaps
\* VGA_VS.
PixelEdge == /\ Vga!PixelEdge
             /\ Toss1 /\ Toss2
             /\ IF Ticks THEN Fsm!Frame ELSE UNCHANGED game

\* The one that makes VGA_Clk fall.
FallingEdge == /\ Vga!FallingEdge
               /\ Toss1 /\ UNCHANGED <<game, coin2>>

Clock == PixelEdge \/ FallingEdge

Reset == Fsm!Reset /\ UNCHANGED <<raster, coin1, coin2>>

SetKeycode == Fsm!SetKeycode /\ UNCHANGED <<raster, coin1, coin2>>

Next == PixelEdge \/ FallingEdge \/ Reset \/ SetKeycode

\* The oscillator never stops; nobody has to press a key.
Spec == Init /\ [][Next]_vars /\ WF_vars(Clock)

-----------------------------------------------------------------------------
(* Properties.  Those of the parts are asked of the whole, where the frame   *)
(* clock is the one the raster really makes and not a fair action.           *)

\* The sync pulses stand where the counters say (proved; the others lean on it).
SyncInStep == Vga!SyncInStep

\* The start text is hidden exactly in the two windows of the count.
BlinkInStep == Fsm!BlinkInStep

\* The state machine never changes under the beam, unless KEY[0] resets it: what
\* the picture shows of a scan is one state of the game.
SteadyUnderBeam ==
    [][Vga!display /\ ~Vga!PowerUp /\ <<curr_state, count>>' # <<curr_state, count>>
         => curr_state' = "Start1" /\ count' = 0 /\ UNCHANGED raster]_vars

\* The game gets one frame edge in every scan of the visible field, and the two
\* take turns for ever.
FramesAndScansAlternate == Vga!FramesAndScansAlternate

\* A restart key that is held down gets out of a win screen, with the frame clock
\* the raster makes.
HeldRestartWorks == Fsm!HeldRestartWorks

\* The coin never turns: a frame is an even number of oscillator edges and of
\* pixels, and the pulse ends on an odd one, so whenever the players read it
\* port_count[0] is 1, in both modules and from power-up on.
CoinsNeverTurn == [][Ticks => coin1' = 1 /\ coin2' = 1]_vars
=============================================================================

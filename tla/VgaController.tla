---------------------------- MODULE VgaController ---------------------------
(***************************************************************************)
(* The VGA timing generator, src/VGA_controller.sv.  Its vertical sync is  *)
(* more than a video signal: VGA_VS clocks the game state machine, both    *)
(* players, both bombs and both fuses (src/bomberman.sv:196-326), while    *)
(* color_mapper works on every pixel in between.  The rest of the models   *)
(* let a whole raster scan and a frame edge take turns; the properties     *)
(* here are what makes that sound.  KEY[0] does not reset this module: its *)
(* Reset is tied to 0, so its registers start at their power-up value 0.   *)
(***************************************************************************)
EXTENDS VgaTiming

VARIABLES clkdiv, hc, vc, hs, vs

vars == <<clkdiv, hc, vc, hs, vs>>

display == hc < HVisible /\ vc < VVisible

\* Mutants: the frame starts with its sync pulse; the two lines of the pulse do
\* not adjoin.
Vsync_First == vs' = IF vc = 0 THEN 0 ELSE 1

Vsync_Apart == vs' = IF vc + 1 \in {VSyncFirst, VSyncSecond + 1} THEN 0 ELSE 1

\* counter_proc, hsync_proc and vsync_proc: all three on the rising edge of
\* clkdiv, each reading the counters before the edge.
Counters == IF hc = hpixels
            THEN hc' = 0 /\ vc' = IF vc = vlines THEN 0 ELSE (vc + 1) % 1024
            ELSE hc' = (hc + 1) % 1024 /\ UNCHANGED vc

Hsync == hs' = IF hc + 1 >= HSyncStart /\ hc + 1 < HSyncEnd THEN 0 ELSE 1

Vsync == vs' = IF vc + 1 \in {VSyncFirst, VSyncSecond} THEN 0 ELSE 1

Init == clkdiv = 0 /\ hc = 0 /\ vc = 0 /\ hs = 0 /\ vs = 0

PixelEdge == /\ clkdiv = 0 /\ clkdiv' = 1
             /\ Counters /\ Hsync /\ Vsync

FallingEdge == /\ clkdiv = 1 /\ clkdiv' = 0
               /\ UNCHANGED <<hc, vc, hs, vs>>

Next == PixelEdge \/ FallingEdge

Safety == Init /\ [][Next]_vars

\* The 50 MHz oscillator never stops.
Spec == Safety /\ WF_vars(Next)

-----------------------------------------------------------------------------
(* Properties *)

\* Counters stay inside the frame, the other registers are single bits.
TypeOK == /\ clkdiv \in {0, 1} /\ hs \in {0, 1} /\ vs \in {0, 1}
          /\ hc \in 0 .. hpixels /\ vc \in 0 .. vlines

\* Before the first pixel edge.
PowerUp == clkdiv = 0 /\ hc = 0 /\ vc = 0 /\ hs = 0 /\ vs = 0

\* The registered sync pulses stand where the counters say: hs is low exactly at
\* pixels HSyncStart .. HSyncEnd - 1 of every line; vs is compared with vc + 1
\* but registered only one pixel later, so it is low from the second pixel of
\* line VSyncFirst - 1 to the first pixel of line VSyncSecond.
SyncInStep ==
    PowerUp \/ /\ hs = 0 <=> hc \in HSyncStart .. HSyncEnd - 1
               /\ vs = 0 <=> \/ vc = VSyncFirst - 1 /\ hc > 0
                             \/ vc = VSyncFirst
                             \/ vc = VSyncSecond /\ hc = 0

\* The game never changes under the beam: VGA_VS rises only while no pixel is
\* displayed, so positions, bomb states and the game state are constant over
\* the visible part of a scan.  (The one exception is the edge at power-up.)
FrameEdgeInBlanking == [][vs = 0 /\ vs' = 1 /\ ~PowerUp => ~display /\ ~display']_vars

\* One frame edge in every scan, not two: the clock of the game rises at one place of
\* the raster only, after the last visible line.  (Again but for power-up.)
OneEdgePerScan == [][vs = 0 /\ vs' = 1 /\ ~PowerUp => hc = 0 /\ vc = VSyncSecond]_vars

\* And always another one: the beam and the frame clock take turns for ever.
FramesAndScansAlternate ==
    /\ OneEdgePerScan
    /\ (vs = 0) ~> (hc = 0 /\ vc = 0)
    /\ (hc = 0 /\ vc = 0) ~> (vs = 0)
=============================================================================

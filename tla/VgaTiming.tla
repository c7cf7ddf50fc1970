------------------------------ MODULE VgaTiming -----------------------------
(* The geometry of the screen: the parameters of src/VGA_controller.sv and   *)
(* the numbers its processes compare the counters with.                      *)
EXTENDS Naturals

CONSTANTS hpixels, vlines,           \* last pixel of a line, last line: 799, 524
          HVisible, VVisible,        \* 640, 480
          HSyncStart, HSyncEnd,      \* 656, 752
          VSyncFirst, VSyncSecond    \* the lines compared with vc + 1: 490, 491

ASSUME TimingAssumption ==
    /\ hpixels \in Nat /\ vlines \in Nat /\ HVisible \in Nat /\ VVisible \in Nat
    /\ HSyncStart \in Nat /\ HSyncEnd \in Nat /\ VSyncFirst \in Nat /\ VSyncSecond \in Nat
    /\ 0 < HVisible /\ HVisible < HSyncStart /\ HSyncStart < HSyncEnd /\ HSyncEnd <= hpixels
    /\ 0 < VVisible /\ VVisible < VSyncFirst
    /\ VSyncSecond = VSyncFirst + 1 /\ VSyncSecond < vlines
    /\ hpixels < 1023 /\ vlines < 1023
=============================================================================

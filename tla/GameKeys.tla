------------------------------ MODULE GameKeys ------------------------------
(* The numbers that src/state_machine.sv compares its count with, and the    *)
(* keycodes it knows.                                                        *)
EXTENDS Naturals

CONSTANTS FlickerOn1, FlickerOff1,   \* 8'h40, 8'h80
          FlickerOn2, FlickerOff2,   \* 8'hC9, 8'hFF
          WinEnd,                    \* 8'hFF
          CountMax,                  \* the count wraps after 8'hFF
          Space, Esc, Restart,       \* keycodes 8'h2c, 8'h29, 122
          OtherKeys                  \* every other keycode, and none (0)

Keys == {Space, Esc, Restart} \union OtherKeys

\* The blinking thresholds rise, and the count a win screen ends with is not
\* in a phase in which the text is hidden.
ASSUME FlickerAssumption ==
    /\ CountMax \in Nat
    /\ {FlickerOn1, FlickerOff1, FlickerOn2, FlickerOff2, WinEnd} \subseteq 1 .. CountMax
    /\ FlickerOn1 < FlickerOff1 /\ FlickerOff1 < FlickerOn2
    /\ FlickerOn2 < FlickerOff2 /\ FlickerOff2 <= WinEnd

ASSUME KeyAssumption ==
    Space # Esc /\ Space # Restart /\ Esc # Restart
=============================================================================

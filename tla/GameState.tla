----------------------------- MODULE GameState ------------------------------
(***************************************************************************)
(* The game state machine, src/state_machine.sv, clocked by VGA_VS: start  *)
(* screen (two states that make the text blink), play, pause, and the two  *)
(* win screens.  It reads the keycode register that the NIOS program       *)
(* writes (src/software/usb_kb/main.c, setKeycode) and the die flags of    *)
(* the two players, which are inputs here.                                 *)
(***************************************************************************)
EXTENDS GameKeys

VARIABLES curr_state, count,
          keycode             \* the keycode PIO

fsmVars == <<curr_state, count>>
vars == <<curr_state, count, keycode>>

Menu == {"Start1", "Start2"}
Wins == {"P1Win", "P2Win"}
GameStates == Menu \union {"Continue", "Pause"} \union Wins

-----------------------------------------------------------------------------
(* One frame: count_next and the transitions of the always_comb block. *)

\* Mutants: a count wider than its register; a count that goes on in play; no
\* counting in the win screens.
count_next_Wide == IF curr_state \in {"Continue", "Pause"} THEN 0 ELSE count + 1

count_next_InPlay == IF curr_state = "Pause" \/ count = CountMax THEN 0 ELSE count + 1

count_next_MenuOnly == IF curr_state \in Menu /\ count # CountMax THEN count + 1 ELSE 0

count_next == IF curr_state \in {"Continue", "Pause"} \/ count = CountMax THEN 0 ELSE count + 1

Begin == /\ curr_state \in Menu \union {"Pause"} /\ keycode = Space
         /\ curr_state' = "Continue"

HideText == /\ curr_state = "Start1" /\ keycode # Space
            /\ count_next \in {FlickerOn1, FlickerOn2}
            /\ curr_state' = "Start2"

ShowText == /\ curr_state = "Start2" /\ keycode # Space
            /\ count_next \in {FlickerOff1, FlickerOff2}
            /\ curr_state' = "Start1"

PauseGame == /\ curr_state = "Continue" /\ keycode = Esc
             /\ curr_state' = "Pause"

\* Escape is tested before the die flags, player 1's flag before player 2's.
EndGame(p1die, p2die) ==
    /\ curr_state = "Continue" /\ keycode # Esc
    /\ \/ p1die /\ curr_state' = "P2Win"
       \/ ~p1die /\ p2die /\ curr_state' = "P1Win"

\* Mutant: the win screen is left as soon as the key is seen.
BackToMenu_AnyFrame == /\ curr_state \in Wins
                       /\ keycode = Restart
                       /\ curr_state' = "Start1"

\* The key is looked at in one frame of every 256.
BackToMenu == /\ curr_state \in Wins
              /\ count_next = WinEnd /\ keycode = Restart
              /\ curr_state' = "Start1"

Stay(p1die, p2die) ==
    /\ \/ curr_state = "Start1" /\ keycode # Space /\ count_next \notin {FlickerOn1, FlickerOn2}
       \/ curr_state = "Start2" /\ keycode # Space /\ count_next \notin {FlickerOff1, FlickerOff2}
       \/ curr_state = "Continue" /\ keycode # Esc /\ ~p1die /\ ~p2die
       \/ curr_state = "Pause" /\ keycode # Space
       \/ curr_state \in Wins /\ ~(count_next = WinEnd /\ keycode = Restart)
    /\ UNCHANGED curr_state

FsmEdge(p1die, p2die) ==
    /\ count' = count_next
    /\ \/ Begin \/ HideText \/ ShowText \/ PauseGame
       \/ EndGame(p1die, p2die) \/ BackToMenu \/ Stay(p1die, p2die)

-----------------------------------------------------------------------------

Init == curr_state = "Start1" /\ count = 0 /\ keycode \in Keys

\* KEY[0], at any time; the NIOS side is not reset.
Reset == curr_state' = "Start1" /\ count' = 0 /\ UNCHANGED keycode

Frame == /\ \E p1die, p2die \in BOOLEAN : FsmEdge(p1die, p2die)
         /\ UNCHANGED keycode

\* The NIOS program stores another keycode, at any time between two frames.
SetKeycode == keycode' \in Keys /\ UNCHANGED fsmVars

Next == Frame \/ Reset \/ SetKeycode

Safety == Init /\ [][Next]_vars

\* VGA_VS never stops.
Spec == Safety /\ WF_vars(Frame)

-----------------------------------------------------------------------------
(* Properties *)

\* Every register keeps a value of its width.
TypeOK == curr_state \in GameStates /\ count \in 0 .. CountMax /\ keycode \in Keys

\* The two start states blink in step with the free-running count: the text is
\* hidden exactly in the two windows the thresholds describe, also when the
\* menu was reached from a win screen and not by a reset.
BlinkInStep ==
    curr_state \in Menu =>
        (curr_state = "Start2" <=> count \in (FlickerOn1 .. FlickerOff1 - 1) \union
                                             (FlickerOn2 .. FlickerOff2 - 1))

\* A win screen starts counting from zero, whatever the count was when play
\* began (play can last a single frame), so it is up for at least WinEnd frames
\* before a held restart key can take it away.
WinStartsFromZero ==
    [][curr_state \notin Wins /\ curr_state' \in Wins => count' = 0]_vars

\* A restart key that is held down always gets out of a win screen.
HeldRestartWorks == <>[](keycode = Restart) => []<>(curr_state \notin Wins)
=============================================================================

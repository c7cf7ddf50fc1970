------------------------------ MODULE BombLife ------------------------------
(***************************************************************************)
(* What a bomb promises to the rest of the game, with one clock and no     *)
(* registers: it is planted at a spot, stays on that spot for exactly Life *)
(* video frames, is deadly in the frames Burst of its life and in no       *)
(* other, is then taken off the field, and can be planted again one frame  *)
(* later.  BombFuse (src/bomb1.sv with src/bombstate_machine.sv) is shown  *)
(* to implement this module.                                               *)
(***************************************************************************)
EXTENDS Naturals

CONSTANTS Spots,    \* where a bomb can lie
          Parked,   \* where the sprite is kept while there is no bomb
          Life,     \* frames from planting to removal
          Burst     \* the frames of a life in which the bomb is deadly

VARIABLES age,      \* 0: no bomb; 1..Life: frames on the field; Life + 1: cooling
          spot,     \* where the sprite and the blast are
          deadly    \* may the blast kill in this frame?

vars == <<age, spot, deadly>>

Init == age = 0 /\ spot = Parked /\ deadly = FALSE

Plant == /\ age = 0
         /\ age' = 1
         /\ spot' \in Spots
         /\ UNCHANGED deadly

Burn == /\ age \in 1 .. Life - 1
        /\ age' = age + 1
        /\ deadly' = (age' \in Burst)
        /\ UNCHANGED spot

Vanish == /\ age = Life
          /\ age' = Life + 1
          /\ spot' = Parked
          /\ deadly' = FALSE

CoolDown == /\ age = Life + 1
            /\ age' = 0
            /\ UNCHANGED <<spot, deadly>>

Reset == age' = 0 /\ spot' = Parked /\ deadly' = FALSE

Next == Plant \/ Burn \/ Vanish \/ CoolDown \/ Reset

Safety == Init /\ [][Next]_vars

Spec == Safety /\ WF_vars(Burn \/ Vanish \/ CoolDown)
=============================================================================

------------------------------ MODULE TextStream ------------------------------
(****************************************************************************)
(* What a terminal line promises: the characters written arrive in their    *)
(* order, none lost and none repeated, and so do the characters typed; with *)
(* room for a limited number of them on the way.                            *)
(****************************************************************************)
EXTENDS Naturals

CONSTANTS Room

VARIABLES written, shown,       \* from the program to the host
          typed, got            \* from the host to the program

Init == written = 0 /\ shown = 0 /\ typed = 0 /\ got = 0

\* A call takes some characters at once, as far as there is room.
Write == /\ written' \in written + 1 .. shown + Room
         /\ UNCHANGED <<shown, typed, got>>

Show == /\ shown < written /\ shown' = shown + 1
        /\ UNCHANGED <<written, typed, got>>

Type == /\ typed < got + Room /\ typed' = typed + 1
        /\ UNCHANGED <<written, shown, got>>

Get == /\ got' \in got + 1 .. typed
       /\ UNCHANGED <<written, shown, typed>>

Next == Write \/ Show \/ Type \/ Get

Spec == Init /\ [][Next]_<<written, shown, typed, got>>
===============================================================================

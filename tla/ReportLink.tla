------------------------------ MODULE ReportLink ------------------------------
(****************************************************************************)
(* What an interrupt endpoint promises: the reports of the device reach the *)
(* program in their order, each once, with at most one on the way when the  *)
(* next is offered.  A link that was slow once (late) may lose reports and  *)
(* bring the last one again, but never goes back to an earlier one.         *)
(****************************************************************************)
EXTENDS Naturals

VARIABLES offered,      \* the number of reports the device has put up
          taken,        \* the last report the program has got
          repeated,     \* whether it has got one twice
          late

vars == <<offered, taken, repeated, late>>

Init == offered = 0 /\ taken = 0 /\ repeated = FALSE /\ late = FALSE

Offer ==
    /\ offered <= taken + 1 \/ late
    /\ offered' = offered + 1
    /\ UNCHANGED <<taken, repeated, late>>

Take ==
    /\ taken' \in taken + 1 .. offered
    /\ late \/ taken' = taken + 1
    /\ UNCHANGED <<offered, repeated, late>>

Repeat == late /\ repeated' = TRUE /\ UNCHANGED <<offered, taken, late>>

Slow == late' = TRUE /\ UNCHANGED <<offered, taken, repeated>>

\* A device that is plugged in again starts afresh.
Replug == offered' = 0 /\ taken' = 0 /\ repeated' = FALSE /\ UNCHANGED late

Next == Offer \/ Take \/ Repeat \/ Slow \/ Replug

Spec == Init /\ [][Next]_vars
=============================================================================

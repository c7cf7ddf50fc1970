----------------------------- MODULE MCConsole ------------------------------
(* Console on a frame of 6 x 6 pixels of which 2 x 2 are visible (every      *)
(* margin of the real timing is there, only narrower), with the thresholds   *)
(* and keycodes of the source; one key stands for all those the state        *)
(* machine does not look at.                                                 *)
EXTENDS Console

MCOtherKeys == {0}
=============================================================================

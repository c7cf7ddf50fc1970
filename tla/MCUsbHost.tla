------------------------------ MODULE MCUsbHost ------------------------------
(* UsbHost with two addresses to give out and a clock of a few milliseconds.   *)
EXTENDS UsbHost

LowSpeedKinds == {"keyboard", "mouse"}
OneKey == {0, 44}
==============================================================================

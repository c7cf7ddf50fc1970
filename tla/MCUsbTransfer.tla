---------------------------- MODULE MCUsbTransfer ----------------------------
\* Packets of two bytes.  Three bytes are asked for: a descriptor of four is cut
\* short, one of two ends with an empty packet.
EXTENDS UsbTransfer

MCLengths == {2, 4}
MCRequests == {3}
=============================================================================

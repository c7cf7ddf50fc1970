-------------------------------- MODULE MCHal --------------------------------
EXTENDS Hal
CONSTANTS null, uart, spare, a1, a2, a3
MCMaxWritten == [print |-> 6, listen |-> 0]
MCMaxTyped == [print |-> 0, listen |-> 4, files |-> 0, alarms |-> 0, spi |-> 0]
==============================================================================

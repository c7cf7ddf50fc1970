------------------------------ MODULE SpiMaster ------------------------------
(****************************************************************************)
(* The way to the USB chip: alt_avalon_spi_command of altera_avalon_spi.c,  *)
(* called by the four register functions of MAX3421E.c, and the SPI core of *)
(* nios_soc_spi0.v, which shifts a byte out and a byte in at its own pace   *)
(* while the program polls, or is away in an interrupt handler.             *)
(*                                                                          *)
(* The bytes of a command are numbered from 1, and its zeros, which only    *)
(* clock answers in, are 0.  The chip's answer to the k-th byte of a frame  *)
(* is called k.  The slave select register holds 1 from reset on.           *)
(****************************************************************************)
EXTENDS Naturals, Integers, Sequences

CONSTANT SpiBytes               \* the lengths of the chip's FIFO transfers

ASSUME SpiAssumption == SpiBytes \subseteq Nat

VARIABLES
    cmd,                                    \* where the command is
    write_length, read_length,              \* its arguments
    sent, read_ignore, read_data, credits,  \* its locals: bytes written to the core,
                                            \* answers to drop, answers kept
    rrdy,                                   \* RRDY in the status it has read
    tx_holding, primed, shift_reg, transmitting,    \* the core
    rx_holding, RRDY, E,                    \* a byte received; ROE or TOE
    frame                                   \* what the chip has heard since it was selected

command == <<write_length, read_length>>
progress == <<sent, read_ignore, read_data, credits, rrdy>>
core == <<tx_holding, primed, shift_reg, transmitting, rx_holding, RRDY, E>>
spiVars == <<cmd, command, progress, core, frame>>

\* Mutant: two bytes under way, but one register for the answers.
Credits_Two == 2

\* "the hardware does not seem to work with credits > 1, leave it at 1 for now"
Credits == 1

TRDY == ~(transmitting /\ primed)
TMT == ~transmitting /\ ~primed

spiInit ==
    /\ cmd = "none" /\ write_length = 0 /\ read_length = 0
    /\ sent = 0 /\ read_ignore = 0 /\ read_data = << >> /\ credits = 0 /\ rrdy = FALSE
    /\ tx_holding = 0 /\ primed = FALSE /\ shift_reg = 0 /\ transmitting = FALSE
    /\ rx_holding = 0 /\ RRDY = FALSE /\ E = FALSE
    /\ frame = << >>

-----------------------------------------------------------------------------
(* alt_avalon_spi_command. *)

\* Up to SSO, which opens a frame.
CommandCalled(w, r) ==
    /\ cmd = "none" /\ cmd' = "discard"
    /\ write_length' = w /\ read_length' = r
    /\ sent' = 0 /\ read_ignore' = w /\ read_data' = << >> /\ credits' = Credits
    /\ frame' = << >>
    /\ UNCHANGED <<rrdy, core>>

MAXreg_wr == CommandCalled(2, 0)
MAXreg_rd == CommandCalled(1, 1)
MAXbytes_wr == \E nbytes \in SpiBytes : CommandCalled(nbytes + 1, 0)
MAXbytes_rd == \E nbytes \in SpiBytes : CommandCalled(1, nbytes)

\* A byte of an interrupted command may have stayed behind.
Discard ==
    /\ cmd = "discard" /\ cmd' = "poll"
    /\ RRDY' = FALSE
    /\ UNCHANGED <<command, progress, tx_holding, primed, shift_reg, transmitting, rx_holding, E, frame>>

\* The last reading of the status, with which the loop goes on.
Poll ==
    /\ cmd = "poll"
    /\ \/ TRDY /\ credits > 0 /\ cmd' = "put"
       \/ ~(TRDY /\ credits > 0) /\ RRDY /\ cmd' = "get"
    /\ rrdy' = RRDY
    /\ UNCHANGED <<command, sent, read_ignore, read_data, credits, core, frame>>

\* A write to TXDATA, if there is something to write.
Put ==
    /\ cmd = "put" /\ cmd' = IF rrdy THEN "get" ELSE "poll"
    /\ IF sent < write_length + read_length
       THEN /\ credits' = credits - 1 /\ sent' = sent + 1
            /\ IF TRDY
               THEN /\ tx_holding' = (IF sent < write_length THEN sent + 1 ELSE 0)
                    /\ primed' = TRUE /\ E' = E
               ELSE E' = TRUE /\ UNCHANGED <<tx_holding, primed>>
       ELSE credits' = -1024 /\ UNCHANGED <<sent, tx_holding, primed, E>>
    /\ UNCHANGED <<command, read_ignore, read_data, rrdy, shift_reg, transmitting, rx_holding, RRDY, frame>>

\* A read of RXDATA.
Get ==
    /\ cmd = "get"
    /\ RRDY' = FALSE /\ credits' = credits + 1
    /\ IF read_ignore > 0
       THEN read_ignore' = read_ignore - 1 /\ UNCHANGED read_data
       ELSE read_data' = Append(read_data, rx_holding) /\ UNCHANGED read_ignore
    /\ cmd' = IF read_ignore' = 0 /\ Len(read_data') = read_length THEN "drain" ELSE "poll"
    /\ UNCHANGED <<command, sent, rrdy, tx_holding, primed, shift_reg, transmitting, rx_holding, E, frame>>

\* SSO is cleared, and the chip deselected.
Release ==
    /\ cmd = "drain" /\ TMT /\ cmd' = "none"
    /\ UNCHANGED <<command, progress, core, frame>>

-----------------------------------------------------------------------------
(* The core.  With one credit the program reads a byte long before the next *)
(* one has been shifted, so the two never meet in one clock.                *)

Load ==
    /\ primed /\ ~transmitting
    /\ shift_reg' = tx_holding /\ transmitting' = TRUE /\ primed' = FALSE
    /\ UNCHANGED <<cmd, command, progress, tx_holding, rx_holding, RRDY, E, frame>>

\* Eight clocks of SCLK later; a byte not yet read is overwritten.
Shifted ==
    /\ transmitting /\ transmitting' = FALSE
    /\ frame' = Append(frame, shift_reg)
    /\ rx_holding' = Len(frame) + 1 /\ RRDY' = TRUE
    /\ E' = (E \/ RRDY)
    /\ UNCHANGED <<cmd, command, progress, tx_holding, primed, shift_reg>>

-----------------------------------------------------------------------------
(* Properties. *)

\* A command is one frame.  When it returns, the chip has heard its bytes and a
\* zero for each answer, in their order, and the program has the answers to the
\* zeros, none overwritten, shifted or left from before, however long handlers
\* have kept it from polling (altera_avalon_spi.c:53-57).
SpiExchange ==
    /\ ~E
    /\ cmd = "none" =>
        /\ frame = [i \in 1 .. write_length + read_length |-> IF i <= write_length THEN i ELSE 0]
        /\ read_data = [i \in 1 .. read_length |-> write_length + i]
==============================================================================

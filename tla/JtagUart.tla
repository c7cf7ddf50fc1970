------------------------------- MODULE JtagUart -------------------------------
(****************************************************************************)
(* The interrupt-driven driver of the JTAG UART, which carries stdin,       *)
(* stdout and stderr: altera_avalon_jtag_uart_init.c, _write.c, _read.c,    *)
(* _ioctl.c.  The program's calls, the interrupt handler and the timeout    *)
(* callback share two ring buffers without locks; the device of             *)
(* nios_soc_jtag_uart_0.v has two FIFOs, whose other ends the host uses.    *)
(* Characters are numbered in the order in which they are sent.  Whether    *)
(* the processor is running the program or a handler is the business of the *)
(* module Hal.                                                              *)
(****************************************************************************)
EXTENDS Naturals, Sequences

CONSTANTS BufLen,               \* ALTERA_AVALON_JTAG_UART_BUF_LEN, 2048
          DefaultTimeout,       \* ALTERA_AVALON_JTAG_UART_DEFAULT_TIMEOUT, 10
          IntMax,               \* INT_MAX
          Depth, Threshold      \* of the device's FIFOs: 64, 8

ASSUME UartAssumption ==
    /\ BufLen \in Nat /\ BufLen > 1
    /\ DefaultTimeout \in Nat /\ IntMax \in Nat /\ DefaultTimeout + 2 <= IntMax
    /\ Depth \in Nat /\ Threshold \in Nat /\ 0 < Threshold /\ Threshold < Depth

VARIABLES
    wfifo, rfifo,                   \* the FIFOs towards and from the host
    ien_AE, ien_AF, pause_irq, ac,  \* control bits WE, RE; the host pauses; AC
    irq_enable, host_inactive, timeout,             \* altera_avalon_jtag_uart_state
    rx_in, rx_out, tx_in, tx_out, rx_buf, tx_buf,
    call, count, seen, done, nonblock,  \* the call in progress and its locals: what is
                                        \* left, the pointer read, whether data moved
    isr, wi, space, ravail,             \* the interrupt handler and its locals
    written, shown, typed, got,     \* the characters accepted, shown, sent, returned
    connected                       \* the host is there

device == <<wfifo, rfifo, ien_AE, ien_AF, pause_irq, ac>>
state == <<irq_enable, host_inactive, timeout>>
rxRing == <<rx_in, rx_out, rx_buf>>
txRing == <<tx_in, tx_out, tx_buf>>
locals == <<count, seen, done, nonblock>>
handler == <<isr, wi, space, ravail>>
history == <<written, shown, typed, got, connected>>
uartVars == <<device, state, rxRing, txRing, call, locals, handler, history>>

Slots == 0 .. BufLen - 1
Plus(i, n) == (i + n) % BufLen
Used(in, out) == (in + BufLen - out) % BufLen       \* characters in a ring
AtMost(m, n) == IF m < n THEN m ELSE n

uartInit ==
    /\ wfifo = << >> /\ rfifo = << >>
    /\ ien_AE = FALSE /\ ien_AF = FALSE /\ pause_irq = FALSE /\ ac = FALSE
    /\ irq_enable = {} /\ host_inactive = 0 /\ timeout = DefaultTimeout
    /\ rx_in = 0 /\ rx_out = 0 /\ tx_in = 0 /\ tx_out = 0
    /\ rx_buf = [i \in Slots |-> 0] /\ tx_buf = rx_buf
    /\ call = "none" /\ count = 0 /\ seen = 0 /\ done = FALSE /\ nonblock = FALSE
    /\ isr = "none" /\ wi = FALSE /\ space = 0 /\ ravail = FALSE
    /\ written = 0 /\ shown = 0 /\ typed = 0 /\ got = 0 /\ connected = TRUE

-----------------------------------------------------------------------------
(* The device and the host behind it. *)

ipen_AE == ien_AE /\ Len(wfifo) <= Threshold
ipen_AF == ien_AF /\ (pause_irq \/ Depth - Len(rfifo) <= Threshold)
av_irq == ipen_AE \/ ipen_AF

\* irq_enable goes to the control register as well.
Enable(interrupts) ==
    /\ irq_enable' = interrupts
    /\ ien_AF' = ("RE" \in interrupts) /\ ien_AE' = ("WE" \in interrupts)

\* Characters for which the FIFO is full are dropped.
DataWrites(chars) == wfifo' = SubSeq(wfifo \o chars, 1, AtMost(Depth, Len(wfifo) + Len(chars)))

HostTakes ==
    /\ connected /\ wfifo # << >>
    /\ wfifo' = Tail(wfifo) /\ shown' = Head(wfifo)
    /\ UNCHANGED <<rfifo, ien_AE, ien_AF, pause_irq, ac, state, rxRing, txRing, call,
                   locals, handler, written, typed, got, connected>>

HostTypes ==
    /\ connected /\ Len(rfifo) < Depth
    /\ typed' = typed + 1 /\ rfifo' = Append(rfifo, typed')
    /\ ac' = TRUE
    /\ UNCHANGED <<wfifo, ien_AE, ien_AF, pause_irq, state, rxRing, txRing, call,
                   locals, handler, written, shown, got, connected>>

\* The host asks without sending.
HostPauses ==
    /\ connected
    /\ ac' = TRUE /\ pause_irq' = (pause_irq \/ rfifo # << >>)
    /\ UNCHANGED <<wfifo, rfifo, ien_AE, ien_AF, state, rxRing, txRing, call, locals,
                   handler, history>>

\* The cable is pulled.
HostGoes ==
    /\ connected /\ connected' = FALSE
    /\ UNCHANGED <<device, state, rxRing, txRing, call, locals, handler, written, shown,
                   typed, got>>

-----------------------------------------------------------------------------
(* altera_avalon_jtag_uart_init, but for the alarm. *)

Init_Enable ==
    /\ Enable({"RE"})
    /\ UNCHANGED <<wfifo, rfifo, pause_irq, ac, host_inactive, timeout, rxRing, txRing, call, locals, handler, history>>

-----------------------------------------------------------------------------
\* The call goes on, or returns: what it knew is gone then.
Goes(to) ==
    /\ call' = to
    /\ count' = (IF to = "none" THEN 0 ELSE count)
    /\ seen' = (IF to = "none" THEN 0 ELSE seen)
    /\ done' = (to # "none" /\ done) /\ nonblock' = (to # "none" /\ nonblock)

(* altera_avalon_jtag_uart_write.  Between any two steps the handlers may    *)
(* run.                                                                      *)

WriteCalled(n, nb) ==
    /\ call = "none" /\ call' = "write"
    /\ count' = n /\ seen' = 0 /\ done' = FALSE /\ nonblock' = nb
    /\ UNCHANGED <<device, state, rxRing, txRing, handler, history>>

\* Mutant: the ring is filled to the last slot, and then counts as empty.
FreeRun_Brim(in, out) == IF in < out THEN out - in ELSE BufLen - in

\* How many characters fit, up to the end of the buffer at most.
FreeRun(in, out) ==
    IF in < out THEN out - 1 - in ELSE IF out > 0 THEN BufLen - in ELSE BufLen - 1 - in

Write_Look ==
    /\ call = "write"
    /\ seen' = (IF count > 0 THEN tx_out ELSE seen)
    /\ call' = (IF count > 0 THEN "store" ELSE "kick")
    /\ UNCHANGED <<device, state, rxRing, txRing, count, done, nonblock, handler, history>>

Write_Store ==
    LET n == AtMost(count, FreeRun(tx_in, seen)) IN
    /\ call = "store"
    /\ tx_buf' = [i \in Slots |-> IF i \in tx_in .. tx_in + n - 1 THEN written + 1 + i - tx_in
                                  ELSE tx_buf[i]]
    /\ tx_in' = Plus(tx_in, n) /\ written' = written + n
    /\ count' = count - n /\ done' = (done \/ n > 0)
    /\ call' = (IF n = 0 THEN "kick" ELSE "write")
    /\ UNCHANGED <<device, state, rxRing, tx_out, seen, nonblock, handler, shown, typed, got,
                   connected>>

\* With the interrupts disabled, in one step therefore.
Write_Kick ==
    /\ call = "kick"
    /\ Enable(irq_enable \union {"WE"})
    /\ Goes(IF count = 0 \/ nonblock THEN "none" ELSE "full")
    /\ UNCHANGED <<wfifo, rfifo, pause_irq, ac, host_inactive, timeout, rxRing, txRing,
                   handler, history>>

\* The wait ends.  One second without the host is enough to give up.
Write_Waited ==
    /\ call = "full" /\ (seen # tx_out \/ host_inactive >= timeout)
    /\ Goes(IF host_inactive # 0 THEN "none" ELSE "write")
    /\ UNCHANGED <<device, state, rxRing, txRing, handler, history>>

-----------------------------------------------------------------------------
(* altera_avalon_jtag_uart_read *)

ReadCalled(n, nb) ==
    /\ call = "none" /\ call' = "read"
    /\ count' = n /\ seen' = 0 /\ done' = FALSE /\ nonblock' = nb
    /\ UNCHANGED <<device, state, rxRing, txRing, handler, history>>

\* How many characters there are, up to the end of the buffer at most.
FullRun(in, out) == IF in >= out THEN in - out ELSE BufLen - out

\* The last of the characters from..to of the ring when they are the ones that
\* follow `got'; 0 when they are not.
NextChars(from, n) ==
    IF \A i \in 0 .. n - 1 : rx_buf[from + i] = got + 1 + i THEN got + n ELSE 0

Read_Copy ==
    LET n == AtMost(count, FullRun(rx_in, rx_out)) IN
    /\ call = "read" /\ n > 0
    /\ got' = NextChars(rx_out, n) /\ rx_out' = Plus(rx_out, n)
    /\ count' = count - n /\ done' = TRUE
    /\ call' = (IF count = n THEN "listen" ELSE "read")
    /\ UNCHANGED <<device, state, rx_in, rx_buf, txRing, seen, nonblock, handler, written,
                   shown, typed, connected>>

Read_Empty ==
    /\ call = "read" /\ FullRun(rx_in, rx_out) = 0
    /\ \/ done /\ Goes("listen")
       \/ ~done /\ nonblock /\ Goes("none")
       \/ /\ ~done /\ ~nonblock /\ call' = "empty" /\ seen' = rx_in
          /\ UNCHANGED <<count, done, nonblock>>
    /\ UNCHANGED <<device, state, rxRing, txRing, handler, history>>

Read_Waited ==
    /\ call = "empty" /\ (seen # rx_in \/ host_inactive >= timeout)
    /\ Goes(IF seen = rx_in THEN "none" ELSE "read")
    /\ UNCHANGED <<device, state, rxRing, txRing, handler, history>>

\* Mutant: only a read that got all it asked for listens again.
Read_Listen_Full ==
    /\ call = "listen" /\ Goes("none")
    /\ Enable(IF count = 0 THEN irq_enable \union {"RE"} ELSE irq_enable)
    /\ UNCHANGED <<wfifo, rfifo, pause_irq, ac, host_inactive, timeout, rxRing, txRing,
                   handler, history>>

\* There is room in the ring again.
Read_Listen ==
    /\ call = "listen" /\ Goes("none")
    /\ Enable(irq_enable \union {"RE"})
    /\ UNCHANGED <<wfifo, rfifo, pause_irq, ac, host_inactive, timeout, rxRing, txRing,
                   handler, history>>

-----------------------------------------------------------------------------
(* altera_avalon_jtag_uart_close and _ioctl *)

CloseCalled(nb) ==
    /\ call = "none" /\ call' = "close"
    /\ nonblock' = nb /\ count' = 0 /\ seen' = 0 /\ done' = FALSE
    /\ UNCHANGED <<device, state, rxRing, txRing, handler, history>>

Close_Waited ==
    /\ call = "close" /\ (tx_out = tx_in \/ host_inactive >= timeout \/ nonblock)
    /\ Goes("none")
    /\ UNCHANGED <<device, state, rxRing, txRing, handler, history>>

TIOCSTIMEOUT(t) ==
    /\ timeout # IntMax
    /\ timeout' = (IF t >= 2 /\ t < IntMax THEN t ELSE IntMax - 1)
    /\ UNCHANGED <<device, irq_enable, host_inactive, rxRing, txRing, call, locals, handler,
                   history>>

-----------------------------------------------------------------------------
(* altera_avalon_jtag_uart_irq.  The program does not run meanwhile, the     *)
(* host does.                                                                *)

Irq_Enter ==
    /\ isr = "none" /\ isr' = "control"
    /\ UNCHANGED <<device, state, rxRing, txRing, call, locals, wi, space, ravail, history>>

\* One look at the control register for the whole pass.
Irq_Control ==
    /\ isr = "control"
    /\ wi' = ipen_AE /\ space' = (IF ipen_AE THEN Depth - Len(wfifo) ELSE 0)
    /\ ravail' = ipen_AF
    /\ isr' = (IF ipen_AF THEN "receive" ELSE IF ipen_AE THEN "transmit" ELSE "none")
    /\ UNCHANGED <<device, state, rxRing, txRing, call, locals, history>>

RingFull == Plus(rx_in, 1) = rx_out

Irq_Full ==
    /\ isr = "receive" /\ RingFull /\ isr' = "received"
    /\ UNCHANGED <<device, state, rxRing, txRing, call, locals, wi, space, ravail, history>>

\* Every read of the data register ends the pause.
Irq_Receive ==
    /\ isr = "receive" /\ ~RingFull /\ rfifo # << >>
    /\ rfifo' = Tail(rfifo) /\ pause_irq' = FALSE /\ ravail' = (Len(rfifo) > 1)
    /\ rx_buf' = [rx_buf EXCEPT ![rx_in] = Head(rfifo)] /\ rx_in' = Plus(rx_in, 1)
    /\ UNCHANGED <<wfifo, ien_AE, ien_AF, ac, state, rx_out, txRing, call, locals, isr, wi,
                   space, history>>

Irq_Nothing ==
    /\ isr = "receive" /\ ~RingFull /\ rfifo = << >>
    /\ pause_irq' = FALSE /\ ravail' = FALSE /\ isr' = "received"
    /\ UNCHANGED <<wfifo, rfifo, ien_AE, ien_AF, ac, state, rxRing, txRing, call, locals, wi,
                   space, history>>

\* The read finds nothing, but a character comes in the same clock: it is
\* counted by RAVAIL, which the device answers one clock later.
Irq_JustMissed ==
    /\ isr = "receive" /\ ~RingFull /\ rfifo = << >>
    /\ connected
    /\ typed' = typed + 1 /\ rfifo' = <<typed'>> /\ ac' = TRUE
    /\ pause_irq' = FALSE /\ ravail' = TRUE /\ isr' = "received"
    /\ UNCHANGED <<wfifo, ien_AE, ien_AF, state, rxRing, txRing, call, locals, wi, space,
                   written, shown, got, connected>>

\* "If there is still data available here then the buffer is full".
Irq_Received ==
    /\ isr = "received"
    /\ Enable(IF ravail THEN irq_enable \ {"RE"} ELSE irq_enable)
    /\ isr' = (IF wi THEN "transmit" ELSE "control") /\ ravail' = FALSE
    /\ UNCHANGED <<wfifo, rfifo, pause_irq, ac, host_inactive, timeout, rxRing, txRing, call,
                   locals, wi, space, history>>

\* Mutant: the write interrupt is turned off with characters left in the ring.
Irq_Transmit_Off ==
    LET n == AtMost(space, Used(tx_in, tx_out)) IN
    /\ isr = "transmit"
    /\ DataWrites([i \in 1 .. n |-> tx_buf[Plus(tx_out, i - 1)]])
    /\ tx_out' = Plus(tx_out, n)
    /\ Enable(irq_enable \ {"WE"})
    /\ isr' = "control" /\ wi' = FALSE /\ space' = 0
    /\ UNCHANGED <<rfifo, pause_irq, ac, host_inactive, timeout, rxRing, tx_in, tx_buf, call,
                   locals, ravail, history>>

\* Mutant: the write interrupt stays enabled when the ring is empty.
Irq_Transmit_Storm ==
    LET n == AtMost(space, Used(tx_in, tx_out)) IN
    /\ isr = "transmit"
    /\ DataWrites([i \in 1 .. n |-> tx_buf[Plus(tx_out, i - 1)]])
    /\ tx_out' = Plus(tx_out, n)
    /\ Enable(irq_enable)
    /\ isr' = "control" /\ wi' = FALSE /\ space' = 0
    /\ UNCHANGED <<rfifo, pause_irq, ac, host_inactive, timeout, rxRing, tx_in, tx_buf, call,
                   locals, ravail, history>>

Irq_Transmit ==
    LET n == AtMost(space, Used(tx_in, tx_out)) IN
    /\ isr = "transmit"
    /\ DataWrites([i \in 1 .. n |-> tx_buf[Plus(tx_out, i - 1)]])
    /\ tx_out' = Plus(tx_out, n)
    /\ Enable(IF space > n THEN irq_enable \ {"WE"} ELSE irq_enable)
    /\ isr' = "control" /\ wi' = FALSE /\ space' = 0
    /\ UNCHANGED <<rfifo, pause_irq, ac, host_inactive, timeout, rxRing, tx_in, tx_buf, call,
                   locals, ravail, history>>

-----------------------------------------------------------------------------
(* altera_avalon_jtag_uart_timeout, once a second. *)

Timeout ==
    /\ ac' = FALSE /\ Enable(irq_enable)
    /\ host_inactive' = (IF ac THEN 0 ELSE AtMost(host_inactive + 1, IntMax - 2))
    /\ UNCHANGED <<wfifo, rfifo, pause_irq, timeout, rxRing, txRing, call, locals, handler,
                   history>>
=============================================================================

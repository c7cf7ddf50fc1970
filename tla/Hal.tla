--------------------------------- MODULE Hal ---------------------------------
(****************************************************************************)
(* The board support package of the NIOS II as it runs on this system: one  *)
(* program, two interrupts.  alt_main and alt_sys_init bring the timer and  *)
(* the JTAG UART up; then the program calls the HAL while the handlers of   *)
(* the UART and of the timer interrupt it between any two steps.  Handlers  *)
(* are not interrupted; alt_irq_handler prefers the UART.                   *)
(*                                                                          *)
(* The program of the repository prints, looks at the clock and talks to    *)
(* the USB chip.  The HAL is modelled for any program that keeps to its     *)
(* interface: in a behaviour it mostly prints, or mostly reads, or it uses  *)
(* the descriptors, or the alarms, or the SPI core.                         *)
(****************************************************************************)
EXTENDS FileTable, JtagUart, Alarms, SpiMaster

CONSTANTS JtagUart0,        \* "/dev/jtag_uart_0", stdin, stdout and stderr
          UartAlarm,        \* sp->alarm
          Rate,             \* alt_ticks_per_second(), 1000
          Lengths,          \* of the program's reads and writes
          MaxWritten,       \* bounds on the characters of a behaviour,
          MaxTyped,         \* by what the program uses
          Timeouts,         \* its values for TIOCSTIMEOUT
          Delays, Periods   \* the ticks of its alarms

Terminals == {"print", "listen"}
Uses == Terminals \union {"files", "alarms", "spi"}

ASSUME HalAssumption ==
    /\ JtagUart0 \in Device \ {DevNull} /\ UartAlarm \in Alarm
    /\ Rate \in Nat \ {0} /\ Rate + 2 <= Wrap
    /\ Lengths \subseteq Nat \ {0} /\ Timeouts \subseteq Nat
    /\ MaxWritten \in [Terminals -> Nat] /\ MaxTyped \in [Uses -> Nat]
    /\ Delays \subseteq 0 .. Wrap - 2 /\ Periods \subseteq 1 .. Wrap - 1

VARIABLES
    use,            \* what the program uses: the terminal, "files", "alarms" or "spi"
    stage,          \* how far alt_main has come
    ienable         \* the interrupts that are enabled in the processor

halVars == <<use, stage, ienable>>
boardVars == <<halVars, fileVars, uartVars, alarmVars>>
vars == <<boardVars, spiVars>>

UserAlarms == Alarm \ {UartAlarm}

-----------------------------------------------------------------------------
(* Who runs. *)

UartPending == "uart" \in ienable /\ av_irq
NoHandler == isr = "none" /\ Resting

\* A pending interrupt is taken before the next instruction of the program.
ProgramRuns == NoHandler /\ ~UartPending

-----------------------------------------------------------------------------
(* alt_main: alt_irq_init, alt_sys_init, alt_io_redirect, main, exit. *)

Init == /\ use \in Uses
        /\ stage = "timer" /\ ienable = {}
        /\ filesInit /\ uartInit /\ alarmsInit /\ spiInit

\* alt_avalon_timer_sc_init
TimerInit ==
    /\ stage = "timer" /\ stage' = "uart"
    /\ alt_sysclk_init(Rate) /\ ienable' = ienable \union {"timer"}
    /\ UNCHANGED <<use, fileVars, uartVars>>

\* altera_avalon_jtag_uart_init, up to the alarm
UartInit ==
    /\ ProgramRuns /\ stage = "uart" /\ stage' = "alarm"
    /\ Init_Enable /\ ienable' = ienable \union {"uart"}
    /\ UNCHANGED <<use, fileVars, alarmVars>>

\* The rest of it, and alt_dev_reg.
UartAlarmInit ==
    /\ ProgramRuns /\ stage = "alarm" /\ stage' = "redirect"
    /\ Started(UartAlarm, Rate) /\ alt_dev_reg(JtagUart0)
    /\ UNCHANGED <<use, ienable, uartVars>>

Redirect ==
    /\ ProgramRuns /\ stage = "redirect" /\ stage' = "main"
    /\ alt_io_redirect(JtagUart0)
    /\ UNCHANGED <<use, ienable, uartVars, alarmVars>>

\* main is over: alt_main closes stdout, and exit waits for ever.
Return ==
    /\ ProgramRuns /\ stage = "main" /\ use \in Terminals /\ call = "none"
    /\ stage' = "exit" /\ CloseCalled(Has(1, "O_NONBLOCK"))
    /\ UNCHANGED <<use, ienable, fileVars, alarmVars>>

Exit ==
    /\ ProgramRuns /\ stage = "exit"
    /\ CloseReturns(1, tx_out # tx_in /\ host_inactive < timeout) /\ Close_Waited
    /\ UNCHANGED <<halVars, alarmVars>>

-----------------------------------------------------------------------------
(* The program uses the terminal. *)

Calls == ProgramRuns /\ stage = "main" /\ call = "none"

write == /\ Calls /\ use \in Terminals /\ MayWrite(1)
         /\ \E n \in Lengths : written + n <= MaxWritten[use] /\ WriteCalled(n, Has(1, "O_NONBLOCK"))
         /\ UNCHANGED <<halVars, fileVars, alarmVars>>

read == /\ Calls /\ use \in Terminals /\ MayRead(0)
        /\ \E n \in Lengths : ReadCalled(n, Has(0, "O_NONBLOCK"))
        /\ UNCHANGED <<halVars, fileVars, alarmVars>>

\* The driver goes on with the call.
UartCall ==
    /\ ProgramRuns
    /\ \/ Write_Look \/ Write_Store \/ Write_Kick \/ Write_Waited
       \/ Read_Copy \/ Read_Empty \/ Read_Waited \/ Read_Listen
    /\ UNCHANGED <<halVars, fileVars, alarmVars>>

-----------------------------------------------------------------------------
(* The program uses descriptors. *)

Open ==
    /\ Calls /\ use = "files"
    /\ \E dev \in Device, flags \in {{"O_WRONLY"}, {"O_RDWR", "O_NONBLOCK"}} : open(dev, flags)
    /\ UNCHANGED <<halVars, uartVars, alarmVars>>

\* Nothing is being sent, and the driver's close returns at once.
Close ==
    /\ Calls /\ use = "files" /\ tx_in = tx_out
    /\ \E fd \in held : CloseReturns(fd, FALSE)
    /\ UNCHANGED <<halVars, uartVars, alarmVars>>

\* Calls that do not come to the UART's driver.
Other ==
    /\ Calls /\ use = "files"
    /\ \E fd \in held \union StdFd :
           RefusedAccess(fd) \/ lseek(fd) \/ alt_dev_null_write(fd) \/ fstat(fd)
    /\ UNCHANGED <<halVars, uartVars, alarmVars>>

Lock ==
    /\ Calls /\ use = "files"
    /\ \E fd \in held \union StdFd : alt_fd_lock(fd) \/ alt_fd_unlock(fd)
    /\ UNCHANGED <<halVars, uartVars, alarmVars>>

\* A program that uses the terminal settles whether it wants to wait before it
\* starts.
Flags(fd) ==
    \/ use = "files" /\ fd \in held
    \/ written = 0 /\ got = 0 /\ typed = 0 /\ ((use = "print" /\ fd = 1) \/ (use = "listen" /\ fd = 0))

Fcntl ==
    /\ Calls
    /\ \E fd \in Fd, flags \in {{}, {"O_NONBLOCK"}} : Flags(fd) /\ fcntl(fd, flags)
    /\ UNCHANGED <<halVars, uartVars, alarmVars>>

ioctl ==
    /\ Calls /\ use = "files"
    /\ \E fd \in held, t \in Timeouts : Device_Of(fd) = JtagUart0 /\ TIOCSTIMEOUT(t)
    /\ UNCHANGED <<halVars, fileVars, alarmVars>>

-----------------------------------------------------------------------------
(* The program uses alarms. *)

StartAlarm ==
    /\ Calls /\ use = "alarms"
    /\ \E a \in UserAlarms \ Listed, n \in Delays : Started(a, n)
    /\ UNCHANGED <<halVars, fileVars, uartVars>>

StopAlarm ==
    /\ Calls /\ use = "alarms"
    /\ \E a \in UserAlarms : next[a] # NULL /\ alt_alarm_stop(a)
    /\ UNCHANGED <<halVars, fileVars, uartVars>>

-----------------------------------------------------------------------------
(* The program talks to the USB chip. *)

SpiCommand == Calls /\ use = "spi" /\ (MAXreg_wr \/ MAXreg_rd \/ MAXbytes_wr \/ MAXbytes_rd)

\* alt_avalon_spi_command goes on.
SpiCall == ProgramRuns /\ (Discard \/ Poll \/ Put \/ Get \/ Release)

\* The core does not wait for the processor.
SpiCore == Load \/ Shifted

-----------------------------------------------------------------------------
(* The handlers. *)

UartInterrupt ==
    /\ \/ NoHandler /\ UartPending /\ Irq_Enter
       \/ Irq_Control
       \/ Irq_Full \/ Irq_Receive \/ Irq_Nothing \/ (typed < MaxTyped[use] /\ Irq_JustMissed) \/ Irq_Received
       \/ Irq_Transmit
    /\ UNCHANGED <<halVars, fileVars, alarmVars>>

\* alt_avalon_timer_sc_irq.  Descriptors do not care about the time.
TimerInterrupt ==
    /\ "timer" \in ienable /\ ProgramRuns /\ use # "files"
    /\ alt_tick
    /\ UNCHANGED <<halVars, fileVars, uartVars>>

\* The callbacks: the UART's, once a second, and the program's.
Callback ==
    \/ alarm = UartAlarm /\ Recall(tick_rate) /\ Timeout
    \/ /\ alarm \in UserAlarms
       /\ \/ Expire
          \/ \E p \in Periods :
                 Recall(p) \/ \E other \in UserAlarms \intersect Listed : RecallAndStop(p, other)
       /\ UNCHANGED uartVars

Ticking ==
    /\ \/ Callback
       \/ NotDue /\ UNCHANGED uartVars
    /\ UNCHANGED <<halVars, fileVars>>

Host ==
    /\ use \in Terminals
    /\ HostTakes \/ (typed < MaxTyped[use] /\ HostTypes) \/ HostPauses \/ HostGoes
    /\ UNCHANGED <<halVars, fileVars, alarmVars>>

-----------------------------------------------------------------------------
Boot == TimerInit \/ UartInit \/ UartAlarmInit \/ Redirect

Client == write \/ read \/ ioctl \/ Open \/ Close \/ Other \/ Lock \/ Fcntl \/ StartAlarm \/ StopAlarm
          \/ Return

Board == Boot \/ Client \/ UartCall \/ Exit \/ UartInterrupt \/ TimerInterrupt \/ Ticking \/ Host

Spi == SpiCommand \/ SpiCall \/ SpiCore

Next == (Board /\ UNCHANGED spiVars) \/ (Spi /\ UNCHANGED boardVars)

\* The processor goes on, with a handler and, between two handlers, with the
\* program.  The clock and the SPI core go on.  A host that is there takes what it is given and
\* asks from time to time.  Nothing makes the program call, or the host type.
Fairness ==
    /\ SF_vars((Boot \/ UartCall \/ Exit) /\ UNCHANGED spiVars)
    /\ WF_vars((UartInterrupt \/ Ticking) /\ UNCHANGED spiVars)
    /\ SF_vars(TimerInterrupt /\ UNCHANGED spiVars)
    /\ SF_vars(SpiCall /\ UNCHANGED boardVars) /\ WF_vars(SpiCore /\ UNCHANGED boardVars)
    /\ WF_vars(HostTakes /\ UNCHANGED <<halVars, fileVars, alarmVars, spiVars>>)
    /\ WF_vars(HostPauses /\ UNCHANGED <<halVars, fileVars, alarmVars, spiVars>>)

Spec == Init /\ [][Next]_vars /\ Fairness

-----------------------------------------------------------------------------
(* Properties. *)

\* What the terminal promises: characters arrive in their order, none lost and
\* none repeated, in both directions (the two rings, altera_avalon_jtag_uart.h:105-114).
Terminal == INSTANCE TextStream WITH Room <- BufLen - 1 + Depth
ImplementsTextStream == Terminal!Spec

\* Characters in the ring are on their way: the write interrupt is enabled, in
\* the driver and in the device, as soon as the call that stored them has kicked
\* the handler (write.c:129-139, init.c:186-194).
TxArmed ==
    isr = "none" /\ tx_in # tx_out /\ call \notin {"write", "store", "kick"}
        => "WE" \in irq_enable /\ ien_AE

\* The driver may stop listening: when its ring is full, and, not meant so
\* (init.c:158-159), when a character comes in the very clock in which it finds
\* nothing more.  But it never waits for characters with its ears shut: whenever
\* the ring is empty and no read is about to say so, the read interrupt is
\* enabled, in the driver and in the device.
ListensWhenEmpty ==
    isr = "none" /\ stage = "main" /\ rx_in = rx_out /\ call \notin {"read", "listen"}
        => "RE" \in irq_enable /\ ien_AF

\* What the processor has still to finish: a write, a close, a read that has
\* something to return, a command to the USB chip, and a tick, unless a callback has stopped the alarm after
\* its own and alt_tick goes round in it for ever.
Owed ==
    \/ call \in {"write", "store", "kick", "full", "close", "listen"}
    \/ call \in {"read", "empty"} /\ typed > got
    \/ cmd # "none"
    \/ alarm \in Alarm /\ next[alarm] # alarm

\* It finishes, with the host or without it: no wait of the driver is for ever
\* (write.c:183-188, read.c:173-178, init.c:247-251), no interrupt storm keeps
\* the program from running, and alt_tick comes to the end of its list.
NothingHangs == []<>~Owed
==============================================================================

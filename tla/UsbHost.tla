------------------------------- MODULE UsbHost -------------------------------
(****************************************************************************)
(* The keyboard side: the program on the NIOS processor                     *)
(* (src/software/usb_kb).  Its main loop calls MAX3421E_Task, which samples *)
(* the bus when the host chip interrupts, then USB_Task, one step of the    *)
(* enumeration state machine, and then polls the device it has set up and   *)
(* writes the keycode the game reads.  The device is plugged, pulled and    *)
(* disturbed at any time; the chip's registers change under the program.    *)
(* A transfer is delivered or fails as a whole, after the retries of        *)
(* XferDispatchPkt; what descriptors and reports hold beyond the device's   *)
(* class and the key is left out, and so are the data toggles.              *)
(****************************************************************************)
EXTENDS Naturals

CONSTANTS NumDevices,   \* USB_NUMDEVICES
          SettleTime,   \* 200 ms
          ClockTop,     \* the last millisecond before alt_nticks()*1000 wraps
          LowSpeed,     \* the kinds of devices that are low speed
          Reports,      \* the values of keycode[0] in a report
          MaxUpsets     \* bound: how often the bus is disturbed

Kinds == {"keyboard", "mouse", "other"}
Slots == 1 .. NumDevices - 1        \* the loops over devtable start at 1
NoAddr == 128                       \* of a device the bus has not reset

ASSUME UsbAssumption ==
    /\ NumDevices \in 2 .. 127 /\ SettleTime \in Nat /\ ClockTop \in Nat
    /\ LowSpeed \subseteq Kinds /\ MaxUpsets \in Nat
    /\ 0 \in Reports

VARIABLES
    usb_task_state, epinfo, devclass,       \* transfer.c: devtable by index
    tmp_addr, usb_delay,                    \* transfer.c: statics of USB_Task
    hid_addr,                               \* HID.c: hid_device.addr
    device, runningdebugflag, keycode,      \* main.c, and the keycode PIO
    pc, sendback,                           \* where the main loop is
    condet, busevent, busrst, lowspeed,     \* bits of the host chip's registers
    attached, address,                      \* the device on the bus
    now, upsets

table == <<epinfo, devclass>>
enumeration == <<tmp_addr, usb_delay, hid_addr>>
mainVars == <<device, runningdebugflag, keycode>>
chip == <<condet, busevent, busrst, lowspeed>>
bus == <<attached, address>>
vars == <<usb_task_state, table, enumeration, mainVars, pc, sendback, chip, bus,
          now, upsets>>


\* USB.h, in decimal: the state is the high digit of the hexadecimal number.
INITIALIZE == 1
WAIT_FOR_DEVICE == 3
ILLEGAL == 4
ATTACHED == 16
SETTLE == 17
RESET_DEVICE == 18
WAIT_RESET_COMPLETE == 19
WAIT_SOF == 20
GET_DEVICE_DESCRIPTOR_SIZE == 21
ADDRESSING == 32
CONFIGURING == 48
RUNNING == 64
ERROR == 255
States == {INITIALIZE, WAIT_FOR_DEVICE, ILLEGAL, ATTACHED, SETTLE, RESET_DEVICE,
           WAIT_RESET_COMPLETE, WAIT_SOF, GET_DEVICE_DESCRIPTOR_SIZE, ADDRESSING,
           CONFIGURING, RUNNING, ERROR}
Detached == usb_task_state \div 16 = 0

\* alt_nticks()*1000, a 32-bit product, divided by 1000 ticks per second.
NextTick == IF now = ClockTop THEN 0 ELSE now + 1

\* A step of the program.  The unit of time is a pass of the main loop: passes
\* with transfers or a chip reset take longer, but USB_Task times nothing in them.
Runs(from, to) ==
    /\ pc = from /\ pc' = to
    /\ now' = IF from = "main" THEN NextTick ELSE now
    /\ UNCHANGED attached

Upset == upsets < MaxUpsets /\ upsets' = upsets + 1

-----------------------------------------------------------------------------
(* MAX3421E.c: the chip is initialised, or interrupts. *)

\* What a sample of the bus shows a host that runs at low speed, or not.
Line(slow) == IF attached = "none" THEN "SE0"
              ELSE IF (attached \in LowSpeed) = slow THEN "J" ELSE "K"

\* A bus that is disturbed may show both lines high.
Sampled(slow, sample) == \/ sample = Line(slow) /\ UNCHANGED upsets
                         \/ sample = "SE1" /\ Upset

\* Mutant: a bus reset, too, starts the attachment sequence.
MAX_busprobe_InReset(sample) ==
    CASE sample \in {"J", "K"} -> ATTACHED
      [] sample = "SE1" -> ILLEGAL
      [] sample = "SE0" -> IF Detached THEN WAIT_FOR_DEVICE ELSE INITIALIZE

MAX_busprobe(sample) ==
    CASE sample \in {"J", "K"} ->
            IF usb_task_state = WAIT_RESET_COMPLETE THEN usb_task_state ELSE ATTACHED
      [] sample = "SE1" -> ILLEGAL
      [] sample = "SE0" -> IF Detached THEN WAIT_FOR_DEVICE ELSE INITIALIZE

\* The speed the host runs at after the probe.
ProbedSpeed(sample, slow) ==
    CASE sample = "K" -> IF usb_task_state = WAIT_RESET_COMPLETE THEN slow ELSE ~slow
      [] sample = "SE0" -> slow /\ ~Detached
      [] OTHER -> slow

\* The chip is reset and the bus probed.  A bus reset in progress is cut off.
MAX3421E_init ==
    /\ Runs("init", "clear")
    /\ \E sample \in {"J", "K", "SE0", "SE1"} :
        /\ Sampled(FALSE, sample)
        /\ usb_task_state' = MAX_busprobe(sample)
        /\ lowspeed' = ProbedSpeed(sample, FALSE)
    /\ condet' = FALSE /\ busevent' = FALSE /\ busrst' = FALSE
    /\ UNCHANGED <<table, enumeration, mainVars, sendback, address>>

NoDevices == [epinfo |-> [i \in 1 .. NumDevices |-> "null"],
              devclass |-> [i \in 1 .. NumDevices |-> "none"]]

USB_init == epinfo' = NoDevices.epinfo /\ devclass' = NoDevices.devclass

\* The end of MAX3421E_init, and USB_init: a change of the bus since the probe
\* is forgotten with its interrupt.
InitDone ==
    /\ Runs("clear", "irq")
    /\ condet' = FALSE
    /\ USB_init
    /\ UNCHANGED <<usb_task_state, enumeration, mainVars, sendback, busevent, busrst,
                   lowspeed, address, upsets>>

\* MaxIntHandler up to the acknowledgement.  Only CONDETIRQ interrupts, but a
\* bus event that is pending is served as well.
MaxIntHandler ==
    /\ Runs("irq", "ack")
    /\ condet
    /\ \E sample \in {"J", "K", "SE0", "SE1"} :
        /\ Sampled(lowspeed, sample)
        /\ usb_task_state' = MAX_busprobe(sample) + (IF busevent THEN 1 ELSE 0)
        /\ lowspeed' = ProbedSpeed(sample, lowspeed)
    /\ sendback' = busevent
    /\ UNCHANGED <<table, enumeration, mainVars, condet, busevent, busrst, address>>

Acknowledge ==
    /\ Runs("ack", "task")
    /\ condet' = FALSE
    /\ busevent' = (busevent /\ ~sendback)
    /\ UNCHANGED <<usb_task_state, table, enumeration, mainVars, sendback, busrst,
                   lowspeed, address, upsets>>

NoInterrupt ==
    /\ Runs("irq", "task")
    /\ ~condet
    /\ UNCHANGED <<usb_task_state, table, enumeration, mainVars, sendback, chip,
                   address, upsets>>

-----------------------------------------------------------------------------
(* transfer.c and HID.c: USB_Task. *)

Answers(addr) == /\ attached # "none" /\ address = addr /\ ~busrst
                 /\ (attached \in LowSpeed) = lowspeed
Delivered(addr) == Answers(addr) /\ UNCHANGED upsets
Failed(addr) == IF Answers(addr) THEN Upset ELSE UNCHANGED upsets

Task(state) == Runs("task", "main") /\ usb_task_state = state
Enter(state) == usb_task_state' = state

Initialize ==
    /\ Task(INITIALIZE) /\ Enter(WAIT_FOR_DEVICE)
    /\ USB_init
    /\ UNCHANGED <<enumeration, mainVars, sendback, chip, address, upsets>>

StartSettling ==
    /\ Task(ATTACHED) /\ Enter(SETTLE)
    /\ usb_delay' = now + SettleTime
    /\ UNCHANGED <<table, tmp_addr, hid_addr, mainVars, sendback, chip, address, upsets>>

Settled ==
    /\ Task(SETTLE)
    /\ Enter(IF now > usb_delay THEN RESET_DEVICE ELSE SETTLE)
    /\ UNCHANGED <<table, enumeration, mainVars, sendback, chip, address, upsets>>

\* "bus reset causes connection detect interrupt", but need not.
ResetDevice ==
    /\ Task(RESET_DEVICE) /\ Enter(WAIT_RESET_COMPLETE)
    /\ busevent' = FALSE /\ busrst' = TRUE
    /\ condet' \in {condet, TRUE}
    /\ address' = NoAddr
    /\ UNCHANGED <<table, enumeration, mainVars, sendback, lowspeed, upsets>>

WaitResetComplete ==
    /\ Task(WAIT_RESET_COMPLETE)
    /\ Enter(IF busrst THEN WAIT_RESET_COMPLETE ELSE WAIT_SOF)
    /\ UNCHANGED <<table, enumeration, mainVars, sendback, chip, address, upsets>>

\* HIRQ | bmFRAMEIRQ: the condition is always true.
WaitSof ==
    /\ Task(WAIT_SOF) /\ Enter(GET_DEVICE_DESCRIPTOR_SIZE)
    /\ UNCHANGED <<table, enumeration, mainVars, sendback, chip, address, upsets>>

\* Only the first of the transfers decides.
GetDescriptor ==
    /\ Task(GET_DEVICE_DESCRIPTOR_SIZE)
    /\ \/ Delivered(0) /\ Enter(ADDRESSING)
       \/ Failed(0) /\ Enter(ERROR)
    /\ UNCHANGED <<table, enumeration, mainVars, sendback, chip, address>>

\* Mutant: the last entry of the table is given out, too.
FreeSlots_OneMore == {i \in 1 .. NumDevices : epinfo[i] = "null"}

FreeSlots == {i \in Slots : epinfo[i] = "null"}

\* The slot is taken before the device is asked, and kept if it does not answer.
SetAddress ==
    /\ Task(ADDRESSING)
    /\ \E i \in FreeSlots :
        /\ \A j \in FreeSlots : i <= j
        /\ epinfo' = [epinfo EXCEPT ![i] = "dev0ep"]
        /\ \/ Delivered(0) /\ address' = i /\ tmp_addr' = i /\ Enter(CONFIGURING)
           \/ Failed(0) /\ Enter(ERROR) /\ UNCHANGED tmp_addr
              /\ address' \in (IF Answers(0) THEN {0, i} ELSE {address})
    /\ UNCHANGED <<devclass, usb_delay, hid_addr, mainVars, sendback, chip>>

NoAddressLeft ==
    /\ Task(ADDRESSING) /\ FreeSlots = {} /\ Enter(ERROR)
    /\ UNCHANGED <<table, enumeration, mainVars, sendback, chip, address, upsets>>

\* Mutant: the endpoint record is not switched.
Claimed_KeepsEp(addr) == [epinfo EXCEPT ![addr] = "dev0ep"]

Claimed(addr) == [epinfo EXCEPT ![addr] = "hid_ep"]

\* The probe of the device's class enters it in the table, then configures it.
Configure ==
    /\ Task(CONFIGURING)
    /\ attached \in {"mouse", "keyboard"} /\ Answers(tmp_addr)
    /\ epinfo' = Claimed(tmp_addr)
    /\ devclass' = [devclass EXCEPT ![tmp_addr] = attached]
    /\ hid_addr' = tmp_addr
    /\ \/ Delivered(tmp_addr) /\ Enter(RUNNING)
       \/ Failed(tmp_addr) /\ Enter(ERROR)
    /\ UNCHANGED <<tmp_addr, usb_delay, mainVars, sendback, chip, address>>

\* No probe recognises the device, or gets its descriptors.
NoDriver ==
    /\ Task(CONFIGURING) /\ Enter(ERROR)
    /\ \/ Failed(tmp_addr)
       \/ attached = "other" /\ UNCHANGED upsets
    /\ UNCHANGED <<table, enumeration, mainVars, sendback, chip, address>>

\* States without a case, ERROR (255 is in no class) among them, and WAIT_FOR_DEVICE,
\* which only asks the chip for another sample of the line: HRSL is read as up to date.
NoTask ==
    /\ \E state \in {WAIT_FOR_DEVICE, ILLEGAL, RUNNING, ERROR,
                     INITIALIZE + 1, ILLEGAL + 1} : Task(state)
    /\ UNCHANGED <<usb_task_state, table, enumeration, mainVars, sendback, chip,
                   address, upsets>>

USB_Task ==
    \/ Initialize \/ StartSettling \/ Settled \/ ResetDevice \/ WaitResetComplete
    \/ WaitSof \/ GetDescriptor \/ SetAddress \/ NoAddressLeft \/ Configure
    \/ NoDriver \/ NoTask

-----------------------------------------------------------------------------
(* main.c: the rest of the loop. *)

\* Mutant: the search stops at the first device.
LastDevice_First == {i \in Slots : epinfo[i] # "null"
                                   /\ \A j \in Slots : epinfo[j] # "null" => i <= j}

LastDevice == {i \in Slots : epinfo[i] # "null"
                             /\ \A j \in Slots : epinfo[j] # "null" => j <= i}

GetDriverandReport ==
    /\ Runs("main", "irq")
    /\ usb_task_state = RUNNING /\ ~runningdebugflag
    /\ runningdebugflag' = TRUE
    /\ device' = IF LastDevice = {} THEN "unknown"
                 ELSE devclass[CHOOSE i \in LastDevice : TRUE]
    /\ UNCHANGED <<usb_task_state, table, enumeration, keycode, sendback, chip,
                   address, upsets>>

\* A poll that is answered with NAK, or not at all, leaves the keycode.
Poll ==
    /\ Runs("main", "irq")
    /\ usb_task_state = RUNNING /\ runningdebugflag
    /\ \/ keycode' \in Reports /\ device = "keyboard" /\ Answers(hid_addr)
       \/ UNCHANGED keycode
    /\ UNCHANGED <<usb_task_state, table, enumeration, device, runningdebugflag,
                   sendback, chip, address, upsets>>

\* Mutant: nothing is reset after a device has run.
AfterRunning_Goon == "irq"

\* Where the loop goes on in a state that is neither RUNNING nor ERROR.
AfterRunning == IF runningdebugflag THEN "init" ELSE "irq"

NotRunning ==
    /\ \/ usb_task_state = ERROR /\ Runs("main", "irq") /\ UNCHANGED runningdebugflag
       \/ /\ usb_task_state \notin {RUNNING, ERROR}
          /\ Runs("main", AfterRunning)
          /\ runningdebugflag' = FALSE
    /\ UNCHANGED <<usb_task_state, table, enumeration, device, keycode, sendback, chip,
                   address, upsets>>

Program == \/ MAX3421E_init \/ InitDone \/ MaxIntHandler \/ Acknowledge \/ NoInterrupt
           \/ USB_Task \/ GetDriverandReport \/ Poll \/ NotRunning

-----------------------------------------------------------------------------
(* The bus and the chip. *)

progVars == <<usb_task_state, table, enumeration, mainVars, pc, sendback>>

Plug ==
    /\ attached = "none" /\ attached' \in Kinds /\ address' = NoAddr
    /\ condet' = TRUE /\ Upset
    /\ UNCHANGED <<progVars, busevent, busrst, lowspeed, now>>

Unplug ==
    /\ attached # "none" /\ attached' = "none" /\ address' = NoAddr
    /\ condet' = TRUE /\ Upset
    /\ UNCHANGED <<progVars, busevent, busrst, lowspeed, now>>

\* The bus reset is over: whatever is plugged in answers address 0.
ResetEnds ==
    /\ busrst /\ busrst' = FALSE /\ busevent' = TRUE
    /\ address' = IF attached = "none" THEN NoAddr ELSE 0
    /\ UNCHANGED <<progVars, condet, lowspeed, attached, now, upsets>>

Init ==
    /\ usb_task_state = INITIALIZE
    /\ epinfo = NoDevices.epinfo /\ devclass = NoDevices.devclass
    /\ tmp_addr = 0 /\ usb_delay = 0 /\ hid_addr = 0
    /\ device = "unknown" /\ runningdebugflag = FALSE /\ keycode = 0
    /\ pc = "init" /\ sendback = FALSE
    /\ condet = FALSE /\ busevent = FALSE /\ busrst = FALSE /\ lowspeed = FALSE
    /\ attached \in Kinds \union {"none"} /\ address = NoAddr
    /\ now = 0 /\ upsets = 0

Next == Program \/ Plug \/ Unplug \/ ResetEnds

\* The processor runs, and a bus reset comes to its end.
Spec == Init /\ [][Next]_vars /\ WF_vars(Program) /\ WF_vars(ResetEnds)

-----------------------------------------------------------------------------
(* Properties. *)

Addresses == 0 .. NumDevices - 1

\* Every variable has a value of its type; besides the states USB.h names,
\* usb_task_state takes the two that usb_task_state++ makes of INITIALIZE and
\* ILLEGAL, and no others.
TypeOK ==
    /\ usb_task_state \in States \union {INITIALIZE + 1, ILLEGAL + 1}
    /\ epinfo \in [1 .. NumDevices -> {"null", "dev0ep", "hid_ep"}]
    /\ devclass \in [1 .. NumDevices -> {"none", "keyboard", "mouse"}]
    /\ tmp_addr \in Addresses /\ hid_addr \in Addresses
    /\ usb_delay \in 0 .. ClockTop + SettleTime
    /\ device \in {"none", "keyboard", "mouse", "unknown"}
    /\ runningdebugflag \in BOOLEAN /\ keycode \in Reports
    /\ pc \in {"init", "clear", "irq", "ack", "task", "main"} /\ sendback \in BOOLEAN
    /\ condet \in BOOLEAN /\ busevent \in BOOLEAN
    /\ busrst \in BOOLEAN /\ lowspeed \in BOOLEAN
    /\ attached \in Kinds \union {"none"} /\ address \in Addresses \union {NoAddr}
    /\ now \in 0 .. ClockTop /\ upsets \in 0 .. MaxUpsets

\* Wherever the program follows devtable[..].epinfo there is a record, and the
\* one it needs: the control endpoint of the device it configures and of the
\* address 1 main.c has hard-wired, the interrupt endpoint of the one it polls.
EndpointsExist ==
    /\ usb_task_state = CONFIGURING => epinfo[tmp_addr] # "null"
    /\ usb_task_state = RUNNING => epinfo[1] # "null" /\ epinfo[hid_addr] = "hid_ep"

\* main's device, looked up once per enumeration, is the class of the device
\* that is polled, whatever was plugged and pulled since: a mouse's report is
\* never taken for a keycode.
DriverFits ==
    usb_task_state = RUNNING /\ runningdebugflag =>
        /\ device = devclass[hid_addr] /\ device \in {"keyboard", "mouse"}
        /\ Answers(hid_addr) => attached = device

\* A device that runs and is pulled out leaves no trace in the device table,
\* and the host waits for the next one, unless the bus is disturbed again.
UnplugCleansUp ==
    \A n \in 0 .. MaxUpsets :
        (/\ usb_task_state = RUNNING /\ runningdebugflag
         /\ attached = "none" /\ condet /\ pc = "irq" /\ upsets = n)
        ~> (\/ usb_task_state = WAIT_FOR_DEVICE /\ \A i \in Slots : epinfo[i] = "null"
            \/ upsets # n)

\* A keyboard whose plugging the host is about to see, but not in the middle of
\* a bus reset, is set up and polled, unless the bus is disturbed again, every
\* address is held, or the settle time ends past the top of the clock: then
\* now > usb_delay never comes.
KeyboardServed ==
    \A n \in 0 .. MaxUpsets :
        (/\ attached = "keyboard" /\ condet /\ pc = "irq" /\ upsets = n
         /\ usb_task_state # WAIT_RESET_COMPLETE /\ FreeSlots # {})
        ~> (\/ usb_task_state = RUNNING /\ runningdebugflag /\ device = "keyboard"
               /\ Answers(hid_addr)
            \/ upsets # n
            \/ usb_task_state = SETTLE /\ usb_delay >= ClockTop)
=============================================================================

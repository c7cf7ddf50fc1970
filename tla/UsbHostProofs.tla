---------------------------- MODULE UsbHostProofs ----------------------------
(****************************************************************************)
(* That the device the main loop polls is the one it has set up, for every  *)
(* number of addresses, every clock and any number of disturbances.         *)
(****************************************************************************)
EXTENDS UsbHost, TLAPS

\* The parts of the type invariant.
TableTypes == /\ epinfo \in [1 .. NumDevices -> {"null", "dev0ep", "hid_ep"}]
              /\ devclass \in [1 .. NumDevices -> {"none", "keyboard", "mouse"}]
NumberTypes ==
    /\ usb_task_state \in States \union {INITIALIZE + 1, ILLEGAL + 1}
    /\ tmp_addr \in Addresses /\ hid_addr \in Addresses
    /\ usb_delay \in 0 .. ClockTop + SettleTime
    /\ now \in 0 .. ClockTop /\ upsets \in 0 .. MaxUpsets
NameTypes ==
    /\ device \in {"none", "keyboard", "mouse", "unknown"} /\ keycode \in Reports
    /\ pc \in {"init", "clear", "irq", "ack", "task", "main"}
    /\ attached \in Kinds \union {"none"} /\ address \in Addresses \union {NoAddr}
FlagTypes ==
    /\ runningdebugflag \in BOOLEAN /\ sendback \in BOOLEAN
    /\ condet \in BOOLEAN /\ busevent \in BOOLEAN
    /\ busrst \in BOOLEAN /\ lowspeed \in BOOLEAN

\* Addresses are given out from 1 upwards without gaps.
NoGaps == \A i, j \in Slots : epinfo[i] # "null" /\ j <= i => epinfo[j] # "null"

Newest(i) == /\ i \in Slots /\ epinfo[i] # "null"
             /\ \A j \in Slots : epinfo[j] # "null" => j <= i

\* The device that is being configured, or runs, has the newest slot, and the
\* table is not cleared while it does.
SlotHeld ==
    /\ usb_task_state = CONFIGURING => Newest(tmp_addr) /\ pc \notin {"init", "clear"}
    /\ usb_task_state = RUNNING => Newest(hid_addr) /\ pc \notin {"init", "clear"}

\* What runs is what the probe found, or something that has no address yet.
DriverSet ==
    usb_task_state = RUNNING =>
        /\ epinfo[hid_addr] = "hid_ep"
        /\ devclass[hid_addr] \in {"keyboard", "mouse"}
        /\ attached # "none" /\ address = hid_addr => attached = devclass[hid_addr]

\* The flag is up while a device runs, and then until the main loop next looks:
\* the state machine cannot get as far as the next device's address before.
FlagFresh ==
    runningdebugflag =>
        \/ /\ usb_task_state = RUNNING /\ device = devclass[hid_addr]
           /\ pc \in {"irq", "ack", "task", "main"}
        \/ /\ pc \in {"ack", "task"}
           /\ usb_task_state \in {INITIALIZE, INITIALIZE + 1, ILLEGAL, ILLEGAL + 1,
                                  ATTACHED, SETTLE}
        \/ /\ pc = "main"
           /\ usb_task_state \in {WAIT_FOR_DEVICE, INITIALIZE + 1, ILLEGAL, ILLEGAL + 1,
                                  SETTLE, RESET_DEVICE}

DriverInv == TypeOK /\ NoGaps /\ SlotHeld /\ DriverSet /\ FlagFresh

-----------------------------------------------------------------------------

LEMMA TypeParts == TypeOK <=> TableTypes /\ NumberTypes /\ NameTypes /\ FlagTypes
BY Zenon DEF TypeOK, TableTypes, NumberTypes, NameTypes, FlagTypes

LEMMA TypePartsNext == TypeOK' <=> TableTypes' /\ NumberTypes' /\ NameTypes' /\ FlagTypes'
BY TypeParts, PTL

LEMMA Sizes ==
    /\ NumDevices \in 2 .. 127 /\ SettleTime \in Nat /\ ClockTop \in Nat
    /\ MaxUpsets \in Nat /\ 0 \in Reports
    /\ Slots \subseteq 1 .. NumDevices /\ Slots \subseteq Addresses /\ 1 \in Slots
    /\ \A i \in Slots : i \in Nat /\ i # 0 /\ i # NoAddr
BY UsbAssumption DEF UsbAssumption, Slots, Addresses, NoAddr

\* What a probe of the bus makes of the state.
LEMMA ProbeResult ==
    ASSUME NEW sample \in {"J", "K", "SE0", "SE1"}
    PROVE  /\ \/ MAX_busprobe(sample) \in {INITIALIZE, ILLEGAL, ATTACHED}
              \/ MAX_busprobe(sample) = WAIT_FOR_DEVICE /\ Detached
              \/ MAX_busprobe(sample) = WAIT_RESET_COMPLETE
                 /\ usb_task_state = WAIT_RESET_COMPLETE
           /\ lowspeed \in BOOLEAN => /\ ProbedSpeed(sample, lowspeed) \in BOOLEAN
                                      /\ ProbedSpeed(sample, FALSE) \in BOOLEAN
<1>1. MAX_busprobe(sample) =
        IF sample \in {"J", "K"}
        THEN IF usb_task_state = WAIT_RESET_COMPLETE THEN usb_task_state ELSE ATTACHED
        ELSE IF sample = "SE1" THEN ILLEGAL
        ELSE IF Detached THEN WAIT_FOR_DEVICE ELSE INITIALIZE
  BY Zenon DEF MAX_busprobe
<1>2. ASSUME lowspeed \in BOOLEAN
      PROVE  /\ ProbedSpeed(sample, lowspeed) \in BOOLEAN
             /\ ProbedSpeed(sample, FALSE) \in BOOLEAN
  BY <1>2 DEF ProbedSpeed, Detached
<1> QED BY <1>1, <1>2

LEMMA RunningIsNotDetached == usb_task_state = RUNNING => ~Detached
BY DEF RUNNING, Detached

\* The slot that SetAddress takes is the newest one afterwards.
LEMMA TakenIsNewest ==
    ASSUME TypeOK, NoGaps, NEW i \in FreeSlots, \A j \in FreeSlots : i <= j,
           epinfo' = [epinfo EXCEPT ![i] = "dev0ep"]
    PROVE  NoGaps' /\ Newest(i)'
<1> USE Sizes
<1>1. /\ i \in Slots /\ epinfo[i] = "null"
      /\ epinfo \in [1 .. NumDevices -> {"null", "dev0ep", "hid_ep"}]
  BY DEF FreeSlots, TypeOK
<1>2. \A j \in Slots : epinfo'[j] = IF j = i THEN "dev0ep" ELSE epinfo[j]
  BY <1>1
<1>3. \A j \in Slots : epinfo[j] # "null" => j < i
  BY <1>1 DEF NoGaps
<1>4. \A j \in Slots : j < i => epinfo[j] # "null"
  BY <1>1 DEF FreeSlots
<1>5. Newest(i)'
  BY <1>1, <1>2, <1>3 DEF Newest
<1>6. NoGaps'
  BY <1>1, <1>2, <1>3, <1>4 DEF NoGaps
<1> QED BY <1>5, <1>6

LEMMA InitInv == Init => DriverInv
<1> SUFFICES ASSUME Init PROVE DriverInv
  OBVIOUS
<1> USE Sizes
<1>1. TypeOK
  <2>1. TableTypes
    BY DEF Init, TableTypes, NoDevices
  <2>2. NumberTypes
    BY DEF Init, NumberTypes, States, INITIALIZE, Addresses
  <2>3. NameTypes
    BY DEF Init, NameTypes
  <2>4. FlagTypes
    BY DEF Init, FlagTypes
  <2> QED BY <2>1, <2>2, <2>3, <2>4, TypeParts
<1>2. NoGaps
  BY DEF Init, NoGaps, NoDevices
<1>3. SlotHeld /\ DriverSet /\ FlagFresh
  BY DEF Init, SlotHeld, DriverSet, FlagFresh, INITIALIZE, CONFIGURING, RUNNING
<1> QED BY <1>1, <1>2, <1>3 DEF DriverInv

-----------------------------------------------------------------------------
(* One lemma for every group of actions that disturb the same conjuncts, a step *)
(* of it for every conjunct.  From here on the states are the numbers they are. *)

USE DEF INITIALIZE, WAIT_FOR_DEVICE, ILLEGAL, ATTACHED, SETTLE, RESET_DEVICE,
        WAIT_RESET_COMPLETE, WAIT_SOF, GET_DEVICE_DESCRIPTOR_SIZE, ADDRESSING,
        CONFIGURING, RUNNING, ERROR

LEMMA QuietStep ==
    ASSUME DriverInv,
           NoInterrupt \/ Acknowledge \/ StartSettling \/ Settled \/ WaitResetComplete
           \/ WaitSof \/ GetDescriptor \/ NoAddressLeft \/ NoDriver \/ NoTask
    PROVE  DriverInv'
<1> USE Sizes
<1>0. TypeOK /\ TableTypes /\ NumberTypes /\ NameTypes /\ FlagTypes
      /\ NoGaps /\ SlotHeld /\ DriverSet /\ FlagFresh
  BY TypeParts DEF DriverInv
<1>a. UNCHANGED <<epinfo, devclass, tmp_addr, hid_addr, device, runningdebugflag, keycode,
                  sendback, busrst, lowspeed, address, attached, now>>
  BY DEF NoInterrupt, Acknowledge, StartSettling, Settled, WaitResetComplete,
         WaitSof, GetDescriptor, NoAddressLeft, NoDriver, NoTask, Task, Runs, table,
         enumeration, mainVars, chip
<1>b. \/ pc' = "task" /\ pc \in {"irq", "ack"} /\ UNCHANGED usb_task_state
      \/ /\ pc = "task" /\ pc' = "main"
         /\ \/ /\ usb_task_state \in {ATTACHED, SETTLE}
               /\ usb_task_state' \in {SETTLE, RESET_DEVICE}
            \/ /\ usb_task_state \in {WAIT_RESET_COMPLETE, WAIT_SOF, CONFIGURING,
                                     GET_DEVICE_DESCRIPTOR_SIZE, ADDRESSING}
               /\ usb_task_state' \in {WAIT_RESET_COMPLETE, WAIT_SOF, ADDRESSING, ERROR,
                                      GET_DEVICE_DESCRIPTOR_SIZE}
            \/ /\ usb_task_state \in {WAIT_FOR_DEVICE, ILLEGAL, RUNNING, ERROR,
                                     INITIALIZE + 1, ILLEGAL + 1}
               /\ UNCHANGED usb_task_state
  BY DEF NoInterrupt, Acknowledge, StartSettling, Settled, WaitResetComplete,
         WaitSof, GetDescriptor, NoAddressLeft, NoDriver, NoTask, Task, Enter, Runs
<1>c. usb_delay' \in 0 .. ClockTop + SettleTime /\ upsets' \in 0 .. MaxUpsets
  BY <1>0 DEF NumberTypes, NoInterrupt, Acknowledge, StartSettling, Settled,
         WaitResetComplete, WaitSof, GetDescriptor, NoAddressLeft, NoDriver, NoTask,
         Task, Runs, Delivered, Failed, Upset, enumeration
<1>d. condet' \in BOOLEAN /\ busevent' \in BOOLEAN
  BY <1>0 DEF FlagTypes, NoInterrupt, Acknowledge, StartSettling, Settled,
         WaitResetComplete, WaitSof, GetDescriptor, NoAddressLeft, NoDriver, NoTask, chip
<1>1. TableTypes'
  BY <1>0, <1>a DEF TableTypes
<1>2. NumberTypes'
  BY <1>0, <1>a, <1>b, <1>c DEF NumberTypes, States
<1>3. NameTypes'
  BY <1>0, <1>a, <1>b DEF NameTypes
<1>4. FlagTypes'
  BY <1>0, <1>a, <1>d, Zenon DEF FlagTypes
<1>5. NoGaps'
  BY <1>0, <1>a DEF NoGaps
<1>6. SlotHeld'
  BY <1>0, <1>a, <1>b DEF SlotHeld, Newest
<1>7. DriverSet'
  BY <1>0, <1>a, <1>b DEF DriverSet
<1>8. FlagFresh'
  BY <1>0, <1>a, <1>b DEF FlagFresh
<1> QED BY <1>1, <1>2, <1>3, <1>4, <1>5, <1>6, <1>7, <1>8, TypePartsNext DEF DriverInv

LEMMA InitDoneStep ==
    ASSUME DriverInv, InitDone
    PROVE  DriverInv'
<1> USE Sizes
<1>0. TypeOK /\ TableTypes /\ NumberTypes /\ NameTypes /\ FlagTypes
      /\ NoGaps /\ SlotHeld /\ DriverSet /\ FlagFresh
  BY TypeParts DEF DriverInv
<1>1. TableTypes'
  BY <1>0 DEF InitDone, Runs, USB_init, NoDevices, TableTypes, table
<1>2. NumberTypes'
  BY <1>0 DEF InitDone, Runs, USB_init, NoDevices, NumberTypes, States, enumeration
<1>3. NameTypes'
  BY <1>0 DEF InitDone, Runs, USB_init, NoDevices, NameTypes, mainVars
<1>4. FlagTypes'
  BY <1>0 DEF InitDone, Runs, USB_init, NoDevices, FlagTypes, mainVars, chip
<1>5. NoGaps'
  BY <1>0 DEF InitDone, Runs, USB_init, NoDevices, NoGaps, table
<1>6. SlotHeld'
  BY <1>0 DEF InitDone, Runs, USB_init, NoDevices, SlotHeld, Newest, table, enumeration
<1>7. DriverSet'
  BY <1>0 DEF InitDone, Runs, SlotHeld, DriverSet
<1>8. FlagFresh'
  BY <1>0 DEF InitDone, Runs, USB_init, NoDevices, FlagFresh, table, enumeration, mainVars
<1> QED BY <1>1, <1>2, <1>3, <1>4, <1>5, <1>6, <1>7, <1>8, TypePartsNext DEF DriverInv

LEMMA InitializeStep ==
    ASSUME DriverInv, Initialize
    PROVE  DriverInv'
<1> USE Sizes
<1>0. TypeOK /\ TableTypes /\ NumberTypes /\ NameTypes /\ FlagTypes
      /\ NoGaps /\ SlotHeld /\ DriverSet /\ FlagFresh
  BY TypeParts DEF DriverInv
<1>1. TableTypes'
  BY <1>0 DEF Initialize, Task, Enter, Runs, USB_init, NoDevices, TableTypes, table
<1>2. NumberTypes'
  BY <1>0 DEF Initialize, Task, Enter, Runs, USB_init, NoDevices, NumberTypes, States,
       enumeration
<1>3. NameTypes'
  BY <1>0 DEF Initialize, Task, Enter, Runs, USB_init, NoDevices, NameTypes, mainVars
<1>4. FlagTypes'
  BY <1>0 DEF Initialize, Task, Enter, Runs, USB_init, NoDevices, FlagTypes, mainVars, chip
<1>5. NoGaps'
  BY <1>0 DEF Initialize, Task, Enter, Runs, USB_init, NoDevices, NoGaps, table
<1>6. SlotHeld'
  BY <1>0 DEF Initialize, Task, Enter, Runs, USB_init, NoDevices, SlotHeld, Newest,
       table, enumeration
<1>7. DriverSet'
  BY <1>0 DEF Initialize, Task, Enter, Runs, USB_init, NoDevices, DriverSet, table,
       enumeration
<1>8. FlagFresh'
  BY <1>0 DEF Initialize, Task, Enter, Runs, USB_init, NoDevices, FlagFresh, table,
       enumeration, mainVars
<1> QED BY <1>1, <1>2, <1>3, <1>4, <1>5, <1>6, <1>7, <1>8, TypePartsNext DEF DriverInv

LEMMA ResetDeviceStep ==
    ASSUME DriverInv, ResetDevice
    PROVE  DriverInv'
<1> USE Sizes
<1>0. TypeOK /\ TableTypes /\ NumberTypes /\ NameTypes /\ FlagTypes
      /\ NoGaps /\ SlotHeld /\ DriverSet /\ FlagFresh
  BY TypeParts DEF DriverInv
<1>1. TableTypes'
  BY <1>0 DEF ResetDevice, Task, Enter, Runs, TableTypes, table
<1>2. NumberTypes'
  BY <1>0 DEF ResetDevice, Task, Enter, Runs, NumberTypes, States, enumeration
<1>3. NameTypes'
  BY <1>0 DEF ResetDevice, Task, Enter, Runs, NameTypes, mainVars
<1>4. FlagTypes'
  BY <1>0 DEF ResetDevice, Task, Enter, Runs, FlagTypes, mainVars, chip
<1>5. NoGaps'
  BY <1>0 DEF ResetDevice, Task, Enter, Runs, NoGaps, table
<1>6. SlotHeld'
  BY <1>0 DEF ResetDevice, Task, Enter, Runs, SlotHeld, Newest, table, enumeration
<1>7. DriverSet'
  BY <1>0 DEF ResetDevice, Task, Enter, Runs, DriverSet, table, enumeration
<1>8. FlagFresh'
  BY <1>0 DEF ResetDevice, Task, Enter, Runs, FlagFresh, table, enumeration, mainVars
<1> QED BY <1>1, <1>2, <1>3, <1>4, <1>5, <1>6, <1>7, <1>8, TypePartsNext DEF DriverInv

LEMMA PollStep ==
    ASSUME DriverInv, Poll
    PROVE  DriverInv'
<1> USE Sizes
<1>0. TypeOK /\ TableTypes /\ NumberTypes /\ NameTypes /\ FlagTypes
      /\ NoGaps /\ SlotHeld /\ DriverSet /\ FlagFresh
  BY TypeParts DEF DriverInv
<1>1. TableTypes'
  BY <1>0 DEF Poll, Runs, NextTick, TableTypes, table
<1>2. NumberTypes'
  BY <1>0 DEF Poll, Runs, NextTick, NumberTypes, States, enumeration
<1>3. NameTypes'
  BY <1>0 DEF Poll, Runs, NextTick, NameTypes, mainVars
<1>4. FlagTypes'
  BY <1>0 DEF Poll, Runs, NextTick, FlagTypes, mainVars, chip
<1>5. NoGaps'
  BY <1>0 DEF Poll, Runs, NextTick, NoGaps, table
<1>6. SlotHeld'
  BY <1>0 DEF Poll, Runs, NextTick, SlotHeld, Newest, table, enumeration
<1>7. DriverSet'
  BY <1>0 DEF Poll, Runs, NextTick, DriverSet, table, enumeration
<1>8. FlagFresh'
  BY <1>0 DEF Poll, Runs, NextTick, FlagFresh, table, enumeration, mainVars
<1> QED BY <1>1, <1>2, <1>3, <1>4, <1>5, <1>6, <1>7, <1>8, TypePartsNext DEF DriverInv

LEMMA NotRunningStep ==
    ASSUME DriverInv, NotRunning
    PROVE  DriverInv'
<1> USE Sizes
<1>0. TypeOK /\ TableTypes /\ NumberTypes /\ NameTypes /\ FlagTypes
      /\ NoGaps /\ SlotHeld /\ DriverSet /\ FlagFresh
  BY TypeParts DEF DriverInv
<1>a. /\ UNCHANGED <<usb_task_state, table, enumeration, device, keycode, sendback,
                     chip, address, attached, upsets>>
      /\ now' \in 0 .. ClockTop /\ pc = "main" /\ usb_task_state # RUNNING
  BY <1>0 DEF NotRunning, Runs, NextTick, NumberTypes
<1>b. \/ pc' = "irq" /\ runningdebugflag' = runningdebugflag /\ usb_task_state = ERROR
      \/ pc' \in {"irq", "init"} /\ runningdebugflag' = FALSE /\ usb_task_state # ERROR
  BY DEF NotRunning, AfterRunning, Runs
<1>c. pc' \in {"irq", "init"} /\ (pc' = "init" => usb_task_state # CONFIGURING)
  <2>1. CASE usb_task_state = CONFIGURING
    <3>1. ~runningdebugflag
      BY <1>0, <1>a, <2>1 DEF FlagFresh
    <3>2. AfterRunning = "irq"
      BY <3>1 DEF AfterRunning
    <3> QED BY <2>1, <3>2 DEF NotRunning, Runs
  <2> QED BY <1>b, <2>1
<1>1. TableTypes'
  BY <1>0, <1>a DEF TableTypes, table
<1>2. NumberTypes'
  BY <1>0, <1>a DEF NumberTypes, enumeration
<1>3. NameTypes'
  BY <1>0, <1>a, <1>c DEF NameTypes
<1>4. FlagTypes'
  <2>1. runningdebugflag' \in BOOLEAN
    BY <1>0, <1>b DEF FlagTypes
  <2> QED BY <1>0, <1>a, <2>1, Zenon DEF FlagTypes, chip
<1>5. NoGaps'
  BY <1>0, <1>a DEF NoGaps, table
<1>6. SlotHeld'
  BY <1>0, <1>a, <1>c DEF SlotHeld, Newest, table, enumeration
<1>7. DriverSet'
  BY <1>0, <1>a DEF DriverSet
<1>8. FlagFresh'
  <2>1. CASE usb_task_state = ERROR
    <3>1. ~runningdebugflag
      BY <1>0, <2>1 DEF FlagFresh
    <3> QED BY <1>b, <3>1 DEF FlagFresh
  <2> QED BY <1>b, <2>1 DEF FlagFresh
<1> QED BY <1>1, <1>2, <1>3, <1>4, <1>5, <1>6, <1>7, <1>8, TypePartsNext DEF DriverInv

LEMMA PlugStep ==
    ASSUME DriverInv, Plug \/ Unplug
    PROVE  DriverInv'
<1> USE Sizes
<1>0. TypeOK /\ TableTypes /\ NumberTypes /\ NameTypes /\ FlagTypes
      /\ NoGaps /\ SlotHeld /\ DriverSet /\ FlagFresh
  BY TypeParts DEF DriverInv
<1>1. TableTypes'
  BY <1>0 DEF Plug, Unplug, Upset, progVars, NoAddr, TableTypes, table
<1>2. NumberTypes'
  BY <1>0 DEF Plug, Unplug, Upset, progVars, NoAddr, NumberTypes, States, enumeration
<1>3. NameTypes'
  BY <1>0 DEF Plug, Unplug, Upset, progVars, NoAddr, NameTypes, mainVars
<1>4. FlagTypes'
  BY <1>0, ZenonT(60) DEF Plug, Unplug, Upset, progVars, NoAddr, FlagTypes, mainVars, chip
<1>5. NoGaps'
  BY <1>0 DEF Plug, Unplug, Upset, progVars, NoAddr, NoGaps, table
<1>6. SlotHeld'
  BY <1>0 DEF Plug, Unplug, Upset, progVars, NoAddr, SlotHeld, Newest, table, enumeration
<1>7. DriverSet'
  <2>1. address' = NoAddr /\ UNCHANGED <<usb_task_state, epinfo, devclass, hid_addr>>
    BY DEF Plug, Unplug, progVars, table, enumeration
  <2>2. usb_task_state = RUNNING => hid_addr # NoAddr
    BY <1>0 DEF SlotHeld, Newest
  <2> QED BY <1>0, <2>1, <2>2 DEF DriverSet
<1>8. FlagFresh'
  BY <1>0, ZenonT(60) DEF Plug, Unplug, Upset, progVars, NoAddr, FlagFresh, table, enumeration, mainVars
<1> QED BY <1>1, <1>2, <1>3, <1>4, <1>5, <1>6, <1>7, <1>8, TypePartsNext DEF DriverInv

LEMMA ResetEndsStep ==
    ASSUME DriverInv, ResetEnds
    PROVE  DriverInv'
<1> USE Sizes
<1>0. TypeOK /\ TableTypes /\ NumberTypes /\ NameTypes /\ FlagTypes
      /\ NoGaps /\ SlotHeld /\ DriverSet /\ FlagFresh
  BY TypeParts DEF DriverInv
<1>1. TableTypes'
  BY <1>0 DEF ResetEnds, progVars, TableTypes, table
<1>2. NumberTypes'
  BY <1>0 DEF ResetEnds, progVars, NumberTypes, States, enumeration
<1>3. NameTypes'
  BY <1>0 DEF ResetEnds, progVars, NameTypes, mainVars, Addresses
<1>4. FlagTypes'
  BY <1>0 DEF ResetEnds, progVars, FlagTypes, mainVars, chip
<1>5. NoGaps'
  BY <1>0 DEF ResetEnds, progVars, NoGaps, table
<1>6. SlotHeld'
  BY <1>0 DEF ResetEnds, progVars, SlotHeld, Newest, table, enumeration
<1>7. DriverSet'
  <2>1. /\ UNCHANGED <<usb_task_state, epinfo, devclass, hid_addr, attached>>
        /\ attached # "none" => address' = 0
    BY DEF ResetEnds, progVars, table, enumeration
  <2>2. usb_task_state = RUNNING => hid_addr # 0
    BY <1>0 DEF SlotHeld, Newest
  <2> QED BY <1>0, <2>1, <2>2 DEF DriverSet
<1>8. FlagFresh'
  BY <1>0 DEF ResetEnds, progVars, FlagFresh, table, enumeration, mainVars
<1> QED BY <1>1, <1>2, <1>3, <1>4, <1>5, <1>6, <1>7, <1>8, TypePartsNext DEF DriverInv

LEMMA StutterStep ==
    ASSUME DriverInv, UNCHANGED vars
    PROVE  DriverInv'
<1> USE Sizes
<1>0. TypeOK /\ TableTypes /\ NumberTypes /\ NameTypes /\ FlagTypes
      /\ NoGaps /\ SlotHeld /\ DriverSet /\ FlagFresh
  BY TypeParts DEF DriverInv
<1>1. TableTypes'
  BY <1>0 DEF vars, chip, bus, TableTypes, table
<1>2. NumberTypes'
  BY <1>0 DEF vars, chip, bus, NumberTypes, States, enumeration
<1>3. NameTypes'
  BY <1>0 DEF vars, chip, bus, NameTypes, mainVars
<1>4. FlagTypes'
  BY <1>0 DEF vars, chip, bus, FlagTypes, mainVars, chip
<1>5. NoGaps'
  BY <1>0 DEF vars, chip, bus, NoGaps, table
<1>6. SlotHeld'
  BY <1>0 DEF vars, chip, bus, SlotHeld, Newest, table, enumeration
<1>7. DriverSet'
  BY <1>0 DEF vars, chip, bus, DriverSet, table, enumeration
<1>8. FlagFresh'
  BY <1>0 DEF vars, chip, bus, FlagFresh, table, enumeration, mainVars
<1> QED BY <1>1, <1>2, <1>3, <1>4, <1>5, <1>6, <1>7, <1>8, TypePartsNext DEF DriverInv

LEMMA ChipInitStep ==
    ASSUME DriverInv, MAX3421E_init
    PROVE  DriverInv'
<1> USE Sizes
<1>0. TypeOK /\ TableTypes /\ NumberTypes /\ NameTypes /\ FlagTypes
      /\ NoGaps /\ SlotHeld /\ DriverSet /\ FlagFresh
  BY TypeParts DEF DriverInv
<1>a. PICK sample \in {"J", "K", "SE0", "SE1"} :
        /\ Sampled(FALSE, sample)
        /\ usb_task_state' = MAX_busprobe(sample)
        /\ lowspeed' = ProbedSpeed(sample, FALSE)
  BY DEF MAX3421E_init
<1>b. upsets' \in 0 .. MaxUpsets
  <2>1. UNCHANGED upsets \/ Upset
    BY <1>a DEF Sampled
  <2> QED BY <1>0, <2>1 DEF Upset, NumberTypes
<1>c. /\ \/ MAX_busprobe(sample) \in {INITIALIZE, ILLEGAL, ATTACHED}
         \/ MAX_busprobe(sample) = WAIT_FOR_DEVICE /\ usb_task_state # RUNNING
         \/ MAX_busprobe(sample) = WAIT_RESET_COMPLETE
            /\ usb_task_state = WAIT_RESET_COMPLETE
      /\ lowspeed' \in BOOLEAN
  <2>1. lowspeed \in BOOLEAN
    BY <1>0 DEF FlagTypes
  <2> QED BY <1>a, <2>1, ProbeResult, RunningIsNotDetached
<1>d. usb_task_state' \in {INITIALIZE, ILLEGAL, ATTACHED, WAIT_FOR_DEVICE,
                          WAIT_RESET_COMPLETE}
  BY <1>a, <1>c
<1>e. /\ UNCHANGED <<table, enumeration, mainVars, sendback, address, attached, now>>
      /\ pc = "init" /\ pc' = "clear" /\ ~runningdebugflag
      /\ ~condet' /\ ~busevent' /\ ~busrst'
  BY <1>0 DEF MAX3421E_init, Runs, FlagFresh
<1>1. TableTypes'
  BY <1>0, <1>e DEF TableTypes, table
<1>2. NumberTypes'
  BY <1>0, <1>b, <1>d, <1>e DEF NumberTypes, States, enumeration
<1>3. NameTypes'
  BY <1>0, <1>e DEF NameTypes, mainVars
<1>4. FlagTypes'
  BY <1>0, <1>c, MAX3421E_init, Zenon DEF MAX3421E_init, FlagTypes, mainVars
<1>5. NoGaps'
  BY <1>0, <1>e DEF NoGaps, table
<1>6. SlotHeld'
  BY <1>d DEF SlotHeld
<1>7. DriverSet'
  BY <1>d DEF DriverSet
<1>8. FlagFresh'
  BY <1>e DEF FlagFresh, mainVars
<1> QED BY <1>1, <1>2, <1>3, <1>4, <1>5, <1>6, <1>7, <1>8, TypePartsNext DEF DriverInv

LEMMA IntHandlerStep ==
    ASSUME DriverInv, MaxIntHandler
    PROVE  DriverInv'
<1> USE Sizes
<1>0. TypeOK /\ TableTypes /\ NumberTypes /\ NameTypes /\ FlagTypes
      /\ NoGaps /\ SlotHeld /\ DriverSet /\ FlagFresh
  BY TypeParts DEF DriverInv
<1>a. PICK sample \in {"J", "K", "SE0", "SE1"} :
        /\ Sampled(lowspeed, sample)
        /\ usb_task_state' = MAX_busprobe(sample) + (IF busevent THEN 1 ELSE 0)
        /\ lowspeed' = ProbedSpeed(sample, lowspeed)
  BY DEF MaxIntHandler
<1>b. upsets' \in 0 .. MaxUpsets
  <2>1. UNCHANGED upsets \/ Upset
    BY <1>a DEF Sampled
  <2> QED BY <1>0, <2>1 DEF Upset, NumberTypes
<1>c. /\ \/ MAX_busprobe(sample) \in {INITIALIZE, ILLEGAL, ATTACHED}
         \/ MAX_busprobe(sample) = WAIT_FOR_DEVICE /\ usb_task_state # RUNNING
         \/ MAX_busprobe(sample) = WAIT_RESET_COMPLETE
            /\ usb_task_state = WAIT_RESET_COMPLETE
      /\ lowspeed' \in BOOLEAN
  <2>1. lowspeed \in BOOLEAN
    BY <1>0 DEF FlagTypes
  <2> QED BY <1>a, <2>1, ProbeResult, RunningIsNotDetached
<1>d. /\ usb_task_state' \in {INITIALIZE, INITIALIZE + 1, ILLEGAL, ILLEGAL + 1,
                             ATTACHED, SETTLE, WAIT_FOR_DEVICE, WAIT_RESET_COMPLETE,
                             WAIT_SOF}
      /\ usb_task_state = RUNNING =>
            usb_task_state' \in {INITIALIZE, INITIALIZE + 1, ILLEGAL, ILLEGAL + 1,
                                ATTACHED, SETTLE}
  BY <1>a, <1>c
<1>e. /\ UNCHANGED <<table, enumeration, mainVars, condet, busevent, busrst, address,
                     attached, now>>
      /\ pc = "irq" /\ pc' = "ack" /\ sendback' = busevent
      /\ runningdebugflag => usb_task_state = RUNNING
  BY <1>0 DEF MaxIntHandler, Runs, FlagFresh
<1>1. TableTypes'
  BY <1>0, <1>e DEF TableTypes, table
<1>2. NumberTypes'
  BY <1>0, <1>b, <1>d, <1>e DEF NumberTypes, States, enumeration
<1>3. NameTypes'
  BY <1>0, <1>e DEF NameTypes, mainVars
<1>4. FlagTypes'
  BY <1>0, <1>c, <1>e, Zenon DEF FlagTypes, mainVars
<1>5. NoGaps'
  BY <1>0, <1>e DEF NoGaps, table
<1>6. SlotHeld'
  BY <1>d DEF SlotHeld
<1>7. DriverSet'
  BY <1>d DEF DriverSet
<1>8. FlagFresh'
  BY <1>d, <1>e DEF FlagFresh, mainVars
<1> QED BY <1>1, <1>2, <1>3, <1>4, <1>5, <1>6, <1>7, <1>8, TypePartsNext DEF DriverInv

LEMMA SetAddressStep ==
    ASSUME DriverInv, SetAddress
    PROVE  DriverInv'
<1> USE Sizes
<1>0. TypeOK /\ TableTypes /\ NumberTypes /\ NameTypes /\ FlagTypes
      /\ NoGaps /\ SlotHeld /\ DriverSet /\ FlagFresh
  BY TypeParts DEF DriverInv
<1>p. PICK i \in FreeSlots :
        /\ \A j \in FreeSlots : i <= j
        /\ epinfo' = [epinfo EXCEPT ![i] = "dev0ep"]
        /\ \/ Delivered(0) /\ address' = i /\ tmp_addr' = i /\ Enter(CONFIGURING)
           \/ Failed(0) /\ Enter(ERROR) /\ UNCHANGED tmp_addr
              /\ address' \in (IF Answers(0) THEN {0, i} ELSE {address})
  BY DEF SetAddress
<1>a. \/ /\ UNCHANGED upsets /\ address' = i /\ tmp_addr' = i
         /\ usb_task_state' = CONFIGURING
      \/ /\ Failed(0) /\ usb_task_state' = ERROR /\ UNCHANGED tmp_addr
         /\ address' \in {0, i, address}
  BY <1>p DEF Delivered, Enter
<1>b. /\ UNCHANGED <<devclass, usb_delay, hid_addr, mainVars, sendback, chip, attached,
                     now>>
      /\ pc = "task" /\ pc' = "main" /\ usb_task_state = ADDRESSING
  BY DEF SetAddress, Task, Runs
<1>c. i \in Slots /\ NoGaps' /\ Newest(i)'
  <2>1. i \in Slots
    BY DEF FreeSlots
  <2> QED BY <1>0, <1>p, <2>1, TakenIsNewest
<1>d. ~runningdebugflag
  BY <1>0, <1>b DEF FlagFresh
<1>1. TableTypes'
  BY <1>0, <1>p, <1>b, <1>c DEF TableTypes
<1>2. NumberTypes'
  BY <1>0, <1>a, <1>b, <1>c DEF NumberTypes, States, Failed, Upset
<1>3. NameTypes'
  BY <1>0, <1>a, <1>b, <1>c DEF NameTypes, mainVars, Addresses
<1>4. FlagTypes'
  BY <1>0, <1>b, Zenon DEF FlagTypes, mainVars, chip
<1>5. NoGaps'
  BY <1>c
<1>6. SlotHeld'
  BY <1>a, <1>b, <1>c DEF SlotHeld, Newest
<1>7. DriverSet'
  BY <1>a DEF DriverSet
<1>8. FlagFresh'
  BY <1>b, <1>d DEF FlagFresh, mainVars
<1> QED BY <1>1, <1>2, <1>3, <1>4, <1>5, <1>6, <1>7, <1>8, TypePartsNext DEF DriverInv

LEMMA ConfigureStep ==
    ASSUME DriverInv, Configure
    PROVE  DriverInv'
<1> USE Sizes
<1>0. TypeOK /\ TableTypes /\ NumberTypes /\ NameTypes /\ FlagTypes
      /\ NoGaps /\ SlotHeld /\ DriverSet /\ FlagFresh
  BY TypeParts DEF DriverInv
<1>a. /\ attached \in {"mouse", "keyboard"}
      /\ epinfo' = [epinfo EXCEPT ![tmp_addr] = "hid_ep"]
      /\ devclass' = [devclass EXCEPT ![tmp_addr] = attached]
      /\ hid_addr' = tmp_addr /\ usb_task_state' \in {RUNNING, ERROR}
      /\ UNCHANGED <<tmp_addr, usb_delay, mainVars, sendback, chip, address, attached, now>>
      /\ pc = "task" /\ pc' = "main" /\ usb_task_state = CONFIGURING
  BY DEF Configure, Claimed, Task, Enter, Runs
<1>b. upsets' \in 0 .. MaxUpsets
  BY <1>0 DEF Configure, Delivered, Failed, Upset, NumberTypes
<1>c. Newest(tmp_addr) /\ ~runningdebugflag /\ tmp_addr \in Slots
  BY <1>0, <1>a DEF SlotHeld, FlagFresh, Newest
<1>d. \A j \in Slots : epinfo'[j] = IF j = tmp_addr THEN "hid_ep" ELSE epinfo[j]
  BY <1>0, <1>a, <1>c DEF TableTypes
<1>1. TableTypes'
  BY <1>0, <1>a, <1>c DEF TableTypes
<1>2. NumberTypes'
  BY <1>0, <1>a, <1>b DEF NumberTypes, States
<1>3. NameTypes'
  BY <1>0, <1>a DEF NameTypes, mainVars
<1>4. FlagTypes'
  BY <1>0, <1>a, Zenon DEF FlagTypes, mainVars, chip
<1>5. NoGaps'
  BY <1>0, <1>c, <1>d DEF NoGaps, Newest
<1>6. SlotHeld'
  BY <1>a, <1>c, <1>d DEF SlotHeld, Newest
<1>7. DriverSet'
  BY <1>0, <1>a, <1>c DEF DriverSet, TableTypes
<1>8. FlagFresh'
  BY <1>a, <1>c DEF FlagFresh, mainVars
<1> QED BY <1>1, <1>2, <1>3, <1>4, <1>5, <1>6, <1>7, <1>8, TypePartsNext DEF DriverInv

LEMMA ReportStep ==
    ASSUME DriverInv, GetDriverandReport
    PROVE  DriverInv'
<1> USE Sizes
<1>0. TypeOK /\ TableTypes /\ NumberTypes /\ NameTypes /\ FlagTypes
      /\ NoGaps /\ SlotHeld /\ DriverSet /\ FlagFresh
  BY TypeParts DEF DriverInv
<1>a. /\ UNCHANGED <<usb_task_state, table, enumeration, keycode, sendback, chip, address,
                     attached, upsets>>
      /\ pc = "main" /\ pc' = "irq" /\ usb_task_state = RUNNING /\ runningdebugflag'
      /\ now' \in 0 .. ClockTop
  BY <1>0 DEF GetDriverandReport, Runs, NextTick, NumberTypes
<1>b. hid_addr \in Slots /\ Newest(hid_addr) /\ devclass[hid_addr] \in {"keyboard", "mouse"}
  BY <1>0, <1>a DEF SlotHeld, Newest, DriverSet
<1>c. LastDevice = {hid_addr}
  <2>1. \A i \in LastDevice : i = hid_addr
    BY <1>b DEF LastDevice, Newest
  <2>2. hid_addr \in LastDevice
    BY <1>b DEF LastDevice, Newest
  <2> QED BY <2>1, <2>2
<1>d. device' = devclass[hid_addr]
  <2>1. (CHOOSE i \in LastDevice : TRUE) = hid_addr
    BY <1>c
  <2>2. LastDevice # {}
    BY <1>c
  <2> QED BY <2>1, <2>2 DEF GetDriverandReport
<1>1. TableTypes'
  BY <1>0, <1>a DEF TableTypes, table
<1>2. NumberTypes'
  BY <1>0, <1>a DEF NumberTypes, enumeration
<1>3. NameTypes'
  BY <1>0, <1>a, <1>b, <1>d DEF NameTypes
<1>4. FlagTypes'
  BY <1>0, <1>a, Zenon DEF FlagTypes, chip, GetDriverandReport
<1>5. NoGaps'
  BY <1>0, <1>a DEF NoGaps, table
<1>6. SlotHeld'
  BY <1>a, <1>b DEF SlotHeld, Newest, table, enumeration
<1>7. DriverSet'
  BY <1>0, <1>a DEF DriverSet, table, enumeration
<1>8. FlagFresh'
  BY <1>a, <1>d DEF FlagFresh, table, enumeration
<1> QED BY <1>1, <1>2, <1>3, <1>4, <1>5, <1>6, <1>7, <1>8, TypePartsNext DEF DriverInv

-----------------------------------------------------------------------------

LEMMA StepInv == DriverInv /\ [Next]_vars => DriverInv'
<1> SUFFICES ASSUME DriverInv, [Next]_vars
             PROVE  DriverInv'
  OBVIOUS
<1>1. CASE MAX3421E_init \/ InitDone \/ MaxIntHandler \/ Acknowledge \/ NoInterrupt
  BY <1>1, ChipInitStep, InitDoneStep, IntHandlerStep, QuietStep
<1>2. CASE USB_Task
  BY <1>2, InitializeStep, ResetDeviceStep, SetAddressStep, ConfigureStep, QuietStep
  DEF USB_Task
<1>3. CASE GetDriverandReport \/ Poll \/ NotRunning
  BY <1>3, ReportStep, PollStep, NotRunningStep
<1>4. CASE Plug \/ Unplug \/ ResetEnds
  BY <1>4, PlugStep, ResetEndsStep
<1>5. CASE UNCHANGED vars
  BY <1>5, StutterStep
<1> QED BY <1>1, <1>2, <1>3, <1>4, <1>5 DEF Next, Program

\* The inductive invariant, in every reachable state.
THEOREM DriverInvariant == Spec => []DriverInv
BY InitInv, StepInv, PTL DEF Spec

\* All variables of the program keep values of their types: usb_task_state++
\* makes no state but the two TypeOK names.
THEOREM TypeCorrect == Spec => []TypeOK
<1>1. DriverInv => TypeOK
  BY DEF DriverInv
<1> QED BY <1>1, DriverInvariant, PTL

\* No step follows a pointer of devtable that is not set, or set to the record
\* of another endpoint.
THEOREM EndpointsCorrect == Spec => []EndpointsExist
<1>1. DriverInv => EndpointsExist
  BY Sizes DEF DriverInv, EndpointsExist, SlotHeld, DriverSet, NoGaps, Newest, Slots
<1> QED BY <1>1, DriverInvariant, PTL

\* The class the main loop polls for is the class of the device that answers.
THEOREM DriverCorrect == Spec => []DriverFits
<1>1. DriverInv => DriverFits
  BY Sizes DEF DriverInv, DriverFits, DriverSet, FlagFresh, Answers
<1> QED BY <1>1, DriverInvariant, PTL

=============================================================================

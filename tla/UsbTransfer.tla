------------------------------ MODULE UsbTransfer ------------------------------
(****************************************************************************)
(* A transfer packet by packet: XferCtrlReq, XferInTransfer and             *)
(* XferDispatchPkt of transfer.c, the MAX3421E that exchanges a packet with *)
(* the device and says so in HIRQ and HRSL, and the device with a control   *)
(* endpoint (0) and an interrupt endpoint (1).  Tokens, data and handshakes *)
(* are lost or garbled, the device has nothing to say, is pulled out and    *)
(* plugged in again, and the chip answers after the program has given up,   *)
(* or never.  UsbHost takes each transfer as one step.                      *)
(****************************************************************************)
EXTENDS Naturals, Sequences

CONSTANTS NakLimit, RetryLimit,     \* USB_NAK_LIMIT, USB_RETRY_LIMIT
          XferTimeout,              \* USB_XFER_TIMEOUT
          ClockTop,                 \* the last millisecond before alt_nticks()*1000 wraps
          MaxPktSize,               \* of the control endpoint
          Lengths,                  \* how long the device's descriptor may be
          Requests,                 \* values of nbytes in a get
          MaxReports, MaxFaults, MaxLates   \* bounds

ASSUME TransferAssumption ==
    /\ NakLimit \in Nat \ {0} /\ RetryLimit \in Nat \ {0}
    /\ XferTimeout \in Nat \ {0} /\ ClockTop \in Nat \ {0}
    /\ MaxPktSize \in Nat \ {0} /\ Lengths \subseteq Nat \ {0} /\ Lengths # {}
    /\ Requests \subseteq Nat \ {0}
    /\ MaxReports \in Nat /\ MaxFaults \in Nat /\ MaxLates \in Nat

VARIABLES
    phase,                      \* what USB_Task and main have got to
    pc, kind, nbytes, token,    \* where the program is in which transfer
    nak_count, retry_count, timeout,
    data, rcode,                \* what the transfer has brought
    rcvToggle,                  \* hid_ep[1].rcvToggle
    busy, hxfrdn, hrsl, rcvtog, rcvfifo,    \* the chip: HXFR, HIRQ, HRSL, RCVFIFO
    dead,                       \* the chip has stopped answering
    configured, stage, length, sent, tog0,  \* the device: control endpoint
    tog1, offered, acked,       \* the device: interrupt endpoint
    taken,                      \* the last report that reached the program
    repeated,                   \* ... and whether one has reached it twice
    now, faults, lates

request == <<kind, nbytes, token>>
counts == <<nak_count, retry_count, timeout>>
result == <<data, rcode>>
reports == <<taken, repeated>>
progVars == <<phase, pc, request, counts, result, rcvToggle, reports>>
chipVars == <<busy, hxfrdn, hrsl, rcvtog, rcvfifo, dead>>
ep0 == <<configured, stage, length, sent, tog0>>
ep1 == <<tog1, offered, acked>>
env == <<now, faults, lates>>
vars == <<progVars, chipVars, ep0, ep1, env>>

Tokens == {"SETUP", "IN0", "IN1", "OUTHS", "INHS"}
HostResults == {"hrSUCCESS", "hrBUSY", "hrNAK", "hrSTALL", "hrTOGERR", "hrCRCERR",
                "hrTIMEOUT"}
NoReceive == "f0"       \* RCVDAVIRQ error
TimedOut == "ff"        \* the chip did not answer

\* The data on the bus: the bytes of the descriptor, and the numbered reports.
Byte(i) == <<"byte", i>>
Report(i) == <<"report", i>>
HasReport(packet) == packet # <<>> /\ packet[1][1] = "report"

Least(a, b) == IF a < b THEN a ELSE b
Fault == faults < MaxFaults /\ faults' = faults + 1
NoFault == UNCHANGED faults

-----------------------------------------------------------------------------
(* The program. *)

\* HXFR is written.  What a chip does that is still busy is its own affair: it
\* drops the old packet or ignores the new one.
Launch(t) ==
    /\ token' = t
    /\ busy' \in (IF busy = "none" THEN {t} ELSE {t, busy})
    /\ hrsl' = "hrBUSY"
    /\ pc' = "wait"

\* XferDispatchPkt is called.
Dispatch(t) ==
    /\ nak_count' = 0 /\ retry_count' = 0
    /\ timeout' = now + XferTimeout
    /\ Launch(t)

\* Mutant: the result of XferSetConf is not looked at.
Outcome_Unchecked(code) == IF kind = "set" THEN "query" ELSE phase

\* A probe returns FALSE when XferSetConf fails, and USB_Task ends in ERROR.
Outcome(code) == IF kind = "set" THEN (IF code = "hrSUCCESS" THEN "query" ELSE "error")
                 ELSE phase

Finish(code) ==
    /\ pc' = "idle" /\ rcode' = code /\ phase' = Outcome(code)
    /\ UNCHANGED <<token, counts, busy, hrsl>>

\* A descriptor, or the idle rate and protocol of a device in use, is asked for.
XferGet(n) ==
    /\ pc = "idle" /\ phase \in {"enum", "query"}
    /\ kind' = "get" /\ nbytes' = n /\ data' = <<>> /\ rcode' = "none"
    /\ Dispatch("SETUP")
    /\ UNCHANGED <<phase, rcvToggle, reports, hxfrdn, rcvtog, rcvfifo, dead, ep0, ep1, env>>

HID_init == rcvToggle' = 0

\* A probe has recognised the device: HID_init, then XferSetConf.
XferSetConf ==
    /\ pc = "idle" /\ phase = "enum"
    /\ HID_init
    /\ kind' = "set" /\ nbytes' = 0 /\ data' = <<>> /\ rcode' = "none"
    /\ Dispatch("SETUP")
    /\ UNCHANGED <<phase, reports, hxfrdn, rcvtog, rcvfifo, dead, ep0, ep1, env>>

\* kbdPoll, mousePoll: XferInTransfer on endpoint 1.
Poll ==
    /\ pc = "idle" /\ phase \in {"query", "poll"} /\ phase' = "poll"
    /\ kind' = "poll" /\ nbytes' = 1 /\ data' = <<>> /\ rcode' = "none"
    /\ rcvtog' = rcvToggle
    /\ Dispatch("IN1")
    /\ UNCHANGED <<rcvToggle, reports, hxfrdn, rcvfifo, dead, ep0, ep1, env>>

\* Mutant: the loop has no deadline.
Expired_Never == FALSE

Expired == now >= timeout

\* Mutant: the interrupt is left standing.
TransferDone_NotCleared ==
    /\ pc = "wait" /\ ~Expired /\ hxfrdn
    /\ pc' = "result"
    /\ UNCHANGED <<phase, request, counts, result, rcvToggle, reports, chipVars, ep0, ep1, env>>

\* The loop on HIRQ sees HXFRDNIRQ and clears it, whichever packet it is for.
TransferDone ==
    /\ pc = "wait" /\ ~Expired /\ hxfrdn
    /\ hxfrdn' = FALSE /\ pc' = "result"
    /\ UNCHANGED <<phase, request, counts, result, rcvToggle, reports, busy, hrsl, rcvtog,
                   rcvfifo, dead, ep0, ep1, env>>

TransferExpired ==
    /\ pc = "wait" /\ Expired
    /\ Finish(TimedOut)
    /\ UNCHANGED <<kind, nbytes, data, rcvToggle, reports, hxfrdn, rcvtog, rcvfifo,
                   dead, ep0, ep1, env>>

\* Mutant: one more than the limit.
Again_OneMore(count, limit) == count # limit

Again(count, limit) == count + 1 # limit

\* The same packet again, with the same toggle and deadline.
Resend ==
    /\ pc = "result"
    /\ \/ /\ hrsl = "hrNAK" /\ Again(nak_count, NakLimit)
          /\ nak_count' = nak_count + 1 /\ UNCHANGED retry_count
       \/ /\ hrsl = "hrTIMEOUT" /\ Again(retry_count, RetryLimit)
          /\ retry_count' = retry_count + 1 /\ UNCHANGED nak_count
    /\ Launch(token)
    /\ UNCHANGED <<phase, kind, nbytes, timeout, result, rcvToggle, reports, hxfrdn, rcvtog,
                   rcvfifo, dead, ep0, ep1, env>>

GivesUp == \/ hrsl = "hrNAK" /\ ~Again(nak_count, NakLimit)
           \/ hrsl = "hrTIMEOUT" /\ ~Again(retry_count, RetryLimit)
           \/ hrsl \notin {"hrSUCCESS", "hrNAK", "hrTIMEOUT"}

TransferFailed ==
    /\ pc = "result" /\ GivesUp
    /\ Finish(hrsl)
    /\ UNCHANGED <<kind, nbytes, data, rcvToggle, reports, hxfrdn, rcvtog, rcvfifo, dead,
                   ep0, ep1, env>>

\* The setup stage is over: XferCtrlData sets the toggle to DATA1 and reads,
\* XferCtrlND has the device confirm.
SetupDone ==
    /\ pc = "result" /\ hrsl = "hrSUCCESS" /\ token = "SETUP"
    /\ Dispatch(IF kind = "get" THEN "IN0" ELSE "INHS")
    /\ rcvtog' = IF kind = "get" THEN 1 ELSE rcvtog
    /\ UNCHANGED <<phase, kind, nbytes, result, rcvToggle, reports, hxfrdn, rcvfifo, dead,
                   ep0, ep1, env>>

StatusDone ==
    /\ pc = "result" /\ hrsl = "hrSUCCESS" /\ token \in {"OUTHS", "INHS"}
    /\ Finish("hrSUCCESS")
    /\ UNCHANGED <<kind, nbytes, data, rcvToggle, reports, hxfrdn, rcvtog, rcvfifo, dead,
                   ep0, ep1, env>>

\* An IN packet was acknowledged, but RCVDAVIRQ is not there.
NothingReceived ==
    /\ pc = "result" /\ hrsl = "hrSUCCESS" /\ token \in {"IN0", "IN1"} /\ rcvfifo = <<>>
    /\ Finish(NoReceive)
    /\ UNCHANGED <<kind, nbytes, data, rcvToggle, reports, hxfrdn, rcvtog, rcvfifo,
                   dead, ep0, ep1, env>>

\* Mutant: the next packet is counted as well.
LastPacket_Early(packet) ==
    Len(packet) < MaxPktSize \/ Len(data) + Len(packet) + MaxPktSize >= nbytes

\* A short packet, or enough bytes.
LastPacket(packet) == Len(packet) < MaxPktSize \/ Len(data) + Len(packet) >= nbytes

\* Mutant: the toggle is saved the other way round.
SavedToggle_Swapped(t) == 1 - t

\* HRSL's RCVTOGRD, as stored in the endpoint record.
SavedToggle(t) == t

\* The receive FIFO is read and freed, and the toggle saved with the last packet.
Receive ==
    /\ pc = "result" /\ hrsl = "hrSUCCESS" /\ token \in {"IN0", "IN1"} /\ rcvfifo # <<>>
    /\ rcvfifo' = Tail(rcvfifo)
    /\ data' = data \o Head(rcvfifo)
    /\ \/ /\ token = "IN1"
          /\ Finish("hrSUCCESS")
          /\ rcvToggle' = SavedToggle(rcvtog)
          /\ taken' = IF HasReport(data') THEN data'[1][2] ELSE taken
          /\ repeated' = (repeated \/ (HasReport(data') /\ taken' = taken))
       \/ /\ token = "IN0" /\ LastPacket(Head(rcvfifo))
          /\ Dispatch("OUTHS") /\ UNCHANGED <<phase, rcvToggle, reports, rcode>>
       \/ /\ token = "IN0" /\ ~LastPacket(Head(rcvfifo))
          /\ Dispatch("IN0") /\ UNCHANGED <<phase, rcvToggle, reports, rcode>>
    /\ UNCHANGED <<kind, nbytes, hxfrdn, rcvtog, dead, ep0, ep1, env>>

Start == (\E n \in Requests : XferGet(n)) \/ XferSetConf \/ Poll

Program == TransferDone \/ TransferExpired \/ Resend \/ TransferFailed \/ SetupDone
           \/ StatusDone \/ NothingReceived \/ Receive

-----------------------------------------------------------------------------
(* The chip and the device exchange the packet in busy. *)

\* The device is not there, its part of the exchange or the token is lost, or
\* (endpoint 1) it is not configured.
NoAnswer ==
    /\ \/ stage = "gone" /\ NoFault
       \/ busy = "IN1" /\ ~configured /\ NoFault
       \/ stage # "gone" /\ Fault
    /\ hrsl' = "hrTIMEOUT"
    /\ UNCHANGED <<rcvtog, rcvfifo, ep0, ep1>>

\* What the device says is garbled, or both buffers are full: the host does not
\* acknowledge it.
Garbled ==
    /\ stage # "gone" /\ busy \in {"IN0", "IN1", "INHS"}
    /\ IF Len(rcvfifo) = 2 THEN NoFault ELSE Fault
    /\ hrsl' = "hrCRCERR"
    /\ UNCHANGED <<rcvtog, rcvfifo, ep0, ep1>>

\* The device is not ready, or has no report.
Nak ==
    /\ \/ stage \in {"data", "status"} /\ busy \in {"IN0", "OUTHS", "INHS"}
       \/ stage # "gone" /\ configured /\ busy = "IN1" /\ offered = acked
    /\ hrsl' = "hrNAK"
    /\ NoFault
    /\ UNCHANGED <<rcvtog, rcvfifo, ep0, ep1>>

\* The device did not expect this token.
Stall ==
    /\ \/ busy = "IN0" /\ stage \notin {"data", "gone"}
       \/ busy = "INHS" /\ stage \notin {"status", "gone"}
       \/ busy = "OUTHS" /\ stage \notin {"data", "idle", "gone"}
    /\ hrsl' = "hrSTALL"
    /\ NoFault
    /\ UNCHANGED <<rcvtog, rcvfifo, ep0, ep1>>

\* The handshake arrives or gets lost; where it is the device's, the host then
\* sees no answer.
DeviceHandshake == \/ hrsl' = "hrSUCCESS" /\ NoFault
                   \/ hrsl' = "hrTIMEOUT" /\ Fault

\* The device takes every request, also in the middle of another one.
Setup ==
    /\ busy = "SETUP" /\ stage # "gone"
    /\ stage' = IF kind = "get" THEN "data" ELSE "status"
    /\ sent' = 0 /\ tog0' = 1
    /\ DeviceHandshake
    /\ UNCHANGED <<configured, length, rcvtog, rcvfifo, ep1>>

StatusOut ==
    /\ busy = "OUTHS" /\ stage \in {"data", "idle"}
    /\ stage' = "idle"
    /\ DeviceHandshake
    /\ UNCHANGED <<configured, length, sent, tog0, rcvtog, rcvfifo, ep1>>

\* An empty packet with DATA1, which the chip knows.  The endpoint is set up.
StatusIn ==
    /\ busy = "INHS" /\ stage = "status"
    /\ configured' = TRUE /\ tog1' = 0
    /\ hrsl' = "hrSUCCESS"
    /\ \/ stage' = "idle" /\ NoFault
       \/ UNCHANGED stage /\ Fault
    /\ UNCHANGED <<length, sent, tog0, offered, acked, rcvtog, rcvfifo>>

\* A data packet: a repeated one is acknowledged and thrown away.
Accept(packet, tog) ==
    IF tog = rcvtog
    THEN /\ rcvfifo' = Append(rcvfifo, packet) /\ rcvtog' = 1 - rcvtog
         /\ hrsl' = "hrSUCCESS"
    ELSE hrsl' = "hrTOGERR" /\ UNCHANGED <<rcvtog, rcvfifo>>

\* The bytes of the next packet.
NextSent == Least(sent + MaxPktSize, Least(nbytes, length))

DataIn0 ==
    /\ busy = "IN0" /\ stage = "data" /\ Len(rcvfifo) < 2
    /\ Accept([i \in 1 .. NextSent - sent |-> Byte(sent + i)], tog0)
    /\ \/ sent' = NextSent /\ tog0' = 1 - tog0 /\ NoFault
       \/ UNCHANGED <<sent, tog0>> /\ Fault
    /\ UNCHANGED <<configured, stage, length, ep1>>

DataIn1 ==
    /\ busy = "IN1" /\ stage # "gone" /\ configured /\ offered > acked
    /\ Len(rcvfifo) < 2
    /\ Accept(<<Report(offered)>>, tog1)
    /\ \/ acked' = offered /\ tog1' = 1 - tog1 /\ NoFault
       \/ UNCHANGED <<acked, tog1>> /\ Fault
    /\ UNCHANGED <<ep0, offered>>

Exchange ==
    /\ busy # "none" /\ ~dead
    /\ busy' = "none" /\ hxfrdn' = TRUE
    /\ NoAnswer \/ Garbled \/ Nak \/ Stall \/ Setup \/ StatusOut \/ StatusIn
       \/ DataIn0 \/ DataIn1
    /\ UNCHANGED <<progVars, dead, now, lates>>

\* The chip stops answering.
Die == ~dead /\ dead' = TRUE /\ Fault
       /\ UNCHANGED <<progVars, busy, hxfrdn, hrsl, rcvtog, rcvfifo, ep0, ep1, now, lates>>

Offer ==
    /\ stage # "gone" /\ configured
    /\ offered = acked /\ offered < MaxReports /\ offered' = offered + 1
    /\ UNCHANGED <<progVars, chipVars, ep0, tog1, acked, env>>

Unplug ==
    /\ stage # "gone" /\ stage' = "gone" /\ Fault
    /\ UNCHANGED <<progVars, chipVars, configured, length, sent, tog0, ep1, now, lates>>

\* A device that was unplugged is there again and has been reset, and
\* enumeration starts over; a chip whose device was in use has been reset, too.
Replug ==
    /\ pc = "idle" /\ stage = "gone"
    /\ phase' = "enum" /\ rcode' = "none" /\ taken' = 0 /\ repeated' = FALSE
    /\ IF phase \in {"query", "poll"}
       THEN busy' = "none" /\ hxfrdn' = FALSE /\ rcvfifo' = <<>>
       ELSE UNCHANGED <<busy, hxfrdn, rcvfifo>>
    /\ configured' = FALSE /\ stage' = "idle" /\ length' \in Lengths
    /\ sent' = 0 /\ tog0' = 0 /\ tog1' = 0 /\ offered' = 0 /\ acked' = 0
    /\ UNCHANGED <<pc, request, counts, data, rcvToggle, hrsl, rcvtog, dead, env>>

\* Time matters while a packet is awaited.  The program is fast, and so is the
\* chip: it answers before the deadline unless it is dead or, MaxLates times, late.
Tick ==
    /\ pc = "wait" /\ ~hxfrdn /\ now < timeout
    /\ now' = IF now = ClockTop THEN 0 ELSE now + 1
    /\ IF ~dead /\ now' >= timeout
       THEN lates < MaxLates /\ lates' = lates + 1
       ELSE UNCHANGED lates
    /\ UNCHANGED <<progVars, chipVars, ep0, ep1, faults>>

-----------------------------------------------------------------------------
Init ==
    /\ phase = "enum" /\ pc = "idle" /\ kind = "get" /\ nbytes = 0 /\ token = "SETUP"
    /\ nak_count = 0 /\ retry_count = 0 /\ timeout = 0
    /\ data = <<>> /\ rcode = "none" /\ rcvToggle = 0 /\ taken = 0 /\ repeated = FALSE
    /\ busy = "none" /\ hxfrdn = FALSE /\ hrsl = "hrSUCCESS" /\ rcvtog = 0
    /\ rcvfifo = <<>> /\ dead = FALSE
    /\ configured = FALSE /\ stage = "idle" /\ length \in Lengths
    /\ sent = 0 /\ tog0 = 0 /\ tog1 = 0 /\ offered = 0 /\ acked = 0
    /\ now \in 0 .. ClockTop /\ faults = 0 /\ lates = 0

Next == Start \/ Program \/ Exchange \/ Die \/ Offer \/ Unplug \/ Replug \/ Tick

\* The program and the clock run, and a chip that is not dead answers.
Spec == Init /\ [][Next]_vars /\ WF_vars(Program) /\ WF_vars(Tick) /\ WF_vars(Exchange)

-----------------------------------------------------------------------------
(* Properties. *)

\* Every variable has a value of its type; the counts stay below their limits,
\* and the receive FIFO has room for its two packets.
TypeOK ==
    /\ phase \in {"enum", "query", "poll", "error"} /\ pc \in {"idle", "wait", "result"}
    /\ kind \in {"get", "set", "poll"} /\ nbytes \in Nat /\ token \in Tokens
    /\ nak_count \in 0 .. NakLimit - 1 /\ retry_count \in 0 .. RetryLimit - 1
    /\ timeout \in 0 .. ClockTop + XferTimeout /\ now \in 0 .. ClockTop
    /\ rcode \in HostResults \union {NoReceive, TimedOut, "none"}
    /\ rcvToggle \in 0 .. 1 /\ rcvtog \in 0 .. 1 /\ tog0 \in 0 .. 1 /\ tog1 \in 0 .. 1
    /\ busy \in Tokens \union {"none"} /\ hxfrdn \in BOOLEAN /\ hrsl \in HostResults
    /\ Len(rcvfifo) <= 2
    /\ dead \in BOOLEAN /\ configured \in BOOLEAN
    /\ stage \in {"idle", "data", "status", "gone"} /\ length \in Lengths /\ sent \in 0 .. length
    /\ offered \in 0 .. MaxReports /\ acked \in 0 .. offered
    /\ taken \in 0 .. offered /\ repeated \in BOOLEAN
    /\ faults \in 0 .. MaxFaults /\ lates \in 0 .. MaxLates

\* A get that succeeds has brought the descriptor's bytes, each once and in
\* order, as many as were asked for and are there, whatever packet or handshake
\* was lost on the way.
DescriptorWhole ==
    (kind = "get" /\ rcode = "hrSUCCESS" /\ lates = 0) =>
        data = [i \in 1 .. Least(nbytes, length) |-> Byte(i)]

\* While devices are polled the device in use is configured: XferSetConf did not
\* return success for a request the device has not heard of.
PolledIsConfigured == phase \in {"query", "poll"} => configured

\* A packet's result is not taken for another's: the program reads HRSL when the
\* chip has finished what it launched last, unless it gave up on a packet before.
ResultIsOwn == pc = "result" /\ lates = 0 => busy = "none" /\ hrsl # "hrBUSY"

\* The interrupt endpoint, retries, lost handshakes and toggles included, is a
\* link that neither loses nor repeats a report.  A late chip makes it lose some
\* or bring the last one again, and even then none arrives after a later one.
Link == INSTANCE ReportLink WITH late <- lates > 0
ImplementsReportLink == Link!Spec

\* Every transfer ends, also with a chip that never answers, unless its deadline
\* lies past the top of the clock: then now >= timeout never comes.
TransferEnds == pc # "idle" ~> pc = "idle" \/ (dead /\ timeout > ClockTop)
=============================================================================

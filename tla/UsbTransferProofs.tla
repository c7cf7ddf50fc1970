--------------------------- MODULE UsbTransferProofs ---------------------------
(****************************************************************************)
(* Theorems about UsbTransfer.  The invariants say which token belongs to   *)
(* which transfer, what the chip may be doing when, and how far device and  *)
(* host are apart: a handshake that got lost leaves the device one packet   *)
(* behind, with the other toggle.  What needs an answer to come in time is  *)
(* stated for lates = 0.                                                    *)
(****************************************************************************)
EXTENDS UsbTransfer, Integers, TLAPS

\* The bytes from a + 1 to b of the descriptor, in one packet.
Piece(a, b) == [i \in 1 .. b - a |-> Byte(a + i)]
Whole == Least(nbytes, length)
\* As much as the next packet brings the program to.
Ahead == Least(Len(data) + MaxPktSize, Whole)

Words == {"byte", "report"} \X Nat

\* What TypeOK leaves out.
DataOK ==
    /\ data \in Seq(Words)
    /\ rcvfifo \in Seq(Seq(Words))

\* The token is one of the transfer's.
Tokened ==
    /\ busy = "IN1" => phase = "poll"
    /\ pc # "idle" =>
        /\ rcode = "none"
        /\ kind = "get" => token \in {"SETUP", "IN0", "OUTHS"} /\ phase \in {"enum", "query"}
        /\ kind = "set" => token \in {"SETUP", "INHS"} /\ phase = "enum" /\ rcvToggle = 0
        /\ kind = "poll" => token = "IN1" /\ phase = "poll" /\ data = <<>>

\* A status stage that the program takes for a success has configured the device.
Confirmed ==
    /\ busy # "none" => hrsl = "hrBUSY"
    /\ (pc # "idle" /\ kind = "set" /\ token = "INHS") =>
        /\ busy \in {"none", "INHS"}
        /\ hrsl = "hrSUCCESS" => configured = TRUE
    /\ PolledIsConfigured

\* No report reaches the host before it polls.
Unpolled ==
    phase \in {"enum", "error"} => acked = 0 /\ taken = 0 /\ tog1 = 0 /\ repeated = FALSE

\* The device has at most one report that it does not know to have arrived.
OneAhead == offered <= acked + 1

\* The reports in the FIFO are in order, and none is older than the last taken.
Ordered ==
    /\ \A k \in 1 .. Len(rcvfifo) : HasReport(rcvfifo[k]) =>
        phase = "poll" /\ rcvfifo[k][1][2] \in taken .. offered
    /\ \A k, l \in 1 .. Len(rcvfifo) :
        k < l /\ HasReport(rcvfifo[k]) /\ HasReport(rcvfifo[l]) =>
            rcvfifo[k][1][2] <= rcvfifo[l][1][2]

\* While no answer has been late, an interrupt is that of the packet launched last.
Prompt ==
    /\ pc = "result" => now < timeout
    /\ lates = 0 =>
        /\ hxfrdn = TRUE => pc = "wait" /\ busy = "none" /\ hrsl # "hrBUSY"
        /\ pc = "wait" /\ hrsl # "hrBUSY" => hxfrdn = TRUE
        /\ pc = "result" => busy = "none" /\ hrsl # "hrBUSY"
        /\ dead = FALSE => busy \in (IF pc = "idle" THEN {"none"} ELSE {"none", token})
        /\ pc = "wait" /\ (dead = FALSE \/ hxfrdn = TRUE) => now < timeout

\* ... and there is a packet in the FIFO only between its answer and its reading.
Fifo ==
    (lates = 0 /\ rcvfifo # <<>>) =>
        pc # "idle" /\ token \in {"IN0", "IN1"} /\ hrsl = "hrSUCCESS" /\ Len(rcvfifo) = 1

\* ... a device that was asked for a descriptor has its first byte ready, ...
ReadSetup ==
    (lates = 0 /\ pc # "idle" /\ kind = "get" /\ token = "SETUP") =>
        /\ data = <<>>
        /\ hrsl = "hrSUCCESS" => stage \in {"data", "gone"}
        /\ hrsl = "hrSUCCESS" /\ stage = "data" => sent = 0 /\ tog0 = 1

\* ... what the program has been sent is the descriptor up to where the device is,
\* which may be a packet behind, ...
ReadData ==
    (lates = 0 /\ pc # "idle" /\ kind = "get" /\ token = "IN0") =>
        /\ data = Piece(0, Len(data)) /\ Len(data) <= Whole
        /\ stage \in {"data", "gone"}
        /\ rcvfifo # <<>> => rcvfifo = <<Piece(Len(data), Ahead)>>
        /\ (stage = "data" /\ rcvtog = tog0 /\ hrsl # "hrTOGERR") =>
            sent = IF rcvfifo = <<>> THEN Len(data) ELSE Ahead

\* ... and is complete when the status stage begins.
ReadStatus ==
    (lates = 0 /\ pc # "idle" /\ kind = "get" /\ token = "OUTHS") => data = Piece(0, Whole)

Reading == ReadSetup /\ ReadData /\ ReadStatus /\ DescriptorWhole

\* The host expects toggle t and has n reports: both sides agree, or the device
\* has not heard the last handshake.
Synced(t, n) == \/ t = tog1 /\ n = acked
                \/ t # tog1 /\ n = acked + 1 /\ n = offered

\* ... and the program has the reports that the device believes it has.
Polling ==
    lates = 0 =>
        /\ repeated = FALSE
        /\ phase \in {"query", "poll"} =>
            /\ (pc = "idle" \/ kind # "poll") => Synced(rcvToggle, taken)
            /\ (pc # "idle" /\ kind = "poll") =>
                /\ rcvfifo = <<>> => rcvtog = rcvToggle
                /\ rcvfifo # <<>> => rcvfifo = <<<<Report(taken + 1)>>>>
                /\ Synced(rcvtog, taken + Len(rcvfifo))

IInv == TypeOK /\ DataOK /\ Tokened /\ Confirmed /\ Unpolled /\ OneAhead /\ Ordered
        /\ Prompt /\ Fifo /\ Reading /\ Polling
-----------------------------------------------------------------------------
\* Reading the receive FIFO.
LEMMA TailFifo ==
    ASSUME NEW S, NEW q \in Seq(S), q # <<>>
    PROVE  /\ Tail(q) \in Seq(S) /\ Head(q) \in S /\ Head(q) = q[1]
           /\ Len(q) \in Nat \ {0} /\ Len(Tail(q)) = Len(q) - 1
           /\ \A k \in 1 .. Len(q) - 1 : Tail(q)[k] = q[k + 1]
           /\ Len(q) = 1 => Tail(q) = <<>>
<1>1. Tail(q) \in Seq(S) /\ Head(q) \in S /\ Len(q) \in Nat \ {0} /\ Len(Tail(q)) = Len(q) - 1
  OBVIOUS
<1>2. Head(q) = q[1] /\ \A k \in 1 .. Len(q) - 1 : Tail(q)[k] = q[k + 1]
  OBVIOUS
<1>3. \A t \in Seq(S) : Len(t) = 0 => t = <<>>
  OBVIOUS
<1>. QED BY <1>1, <1>2, <1>3

\* A packet is put into the receive FIFO.
LEMMA AppendFifo ==
    ASSUME NEW S, NEW q \in Seq(S), NEW p
    PROVE  /\ Len(q) \in Nat /\ Len(Append(q, p)) = Len(q) + 1
           /\ \A k \in 1 .. Len(q) : Append(q, p)[k] = q[k]
           /\ Append(q, p)[Len(q) + 1] = p
           /\ q = <<>> => Append(q, p) = <<p>>
<1>1. Len(q) \in Nat /\ Len(Append(q, p)) = Len(q) + 1 /\ Append(q, p)[Len(q) + 1] = p
  OBVIOUS
<1>2. \A k \in 1 .. Len(q) : Append(q, p)[k] = q[k]
  OBVIOUS
<1>3. q = <<>> => Append(q, p) = <<p>>
  OBVIOUS
<1>. QED BY <1>1, <1>2, <1>3

\* Every step keeps the types.
LEMMA TypeStep ==
    ASSUME TypeOK, DataOK, Tokened, Ordered, Next PROVE TypeOK'
<1>. USE TransferAssumption DEF Fault, NoFault, request, counts, result, reports, progVars,
     chipVars, ep0, ep1, env
<1>1. ASSUME NEW n \in Requests, XferGet(n) PROVE TypeOK'
  BY <1>1 DEF XferGet, Dispatch, Launch, TypeOK, Tokens, HostResults, NoReceive,
         TimedOut
<1>2. CASE XferSetConf
  BY <1>2 DEF XferSetConf, HID_init, Dispatch, Launch, TypeOK, Tokens, HostResults,
         NoReceive, TimedOut
<1>3. CASE Poll
  BY <1>3 DEF Poll, Dispatch, Launch, TypeOK, Tokens, HostResults, NoReceive,
         TimedOut
<1>4. CASE TransferDone
  <2>1. /\ phase' \in {"enum", "query", "poll", "error"} /\ pc' \in {"idle", "wait", "result"}
        /\ kind' \in {"get", "set", "poll"} /\ nbytes' \in Nat /\ token' \in Tokens
        /\ nak_count' \in 0 .. NakLimit - 1 /\ retry_count' \in 0 .. RetryLimit - 1
        /\ timeout' \in 0 .. ClockTop + XferTimeout /\ now' \in 0 .. ClockTop
        /\ rcode' \in HostResults \union {NoReceive, TimedOut, "none"}
    BY <1>4 DEF TransferDone, TypeOK
  <2>2. /\ busy' \in Tokens \union {"none"} /\ hxfrdn' \in BOOLEAN /\ hrsl' \in HostResults
        /\ rcvToggle' \in 0 .. 1 /\ rcvtog' \in 0 .. 1 /\ tog0' \in 0 .. 1 /\ tog1' \in 0 .. 1
    BY <1>4 DEF TransferDone, TypeOK
  <2>3. /\ stage' \in {"idle", "data", "status", "gone"} /\ length' \in Lengths
        /\ sent' \in 0 .. length' /\ offered' \in 0 .. MaxReports
        /\ acked' \in 0 .. offered' /\ taken' \in 0 .. offered'
    BY <1>4 DEF TransferDone, TypeOK
  <2>. QED BY <1>4, <2>1, <2>2, <2>3 DEF TransferDone, TypeOK
<1>5. CASE TransferExpired
  BY <1>5 DEF TransferExpired, Expired, Finish, Outcome, TypeOK, Tokens,
         HostResults, NoReceive, TimedOut
<1>6. CASE Resend
  BY <1>6 DEF Resend, Again, Launch, TypeOK, Tokens, HostResults, NoReceive,
         TimedOut
<1>7. CASE TransferFailed
  BY <1>7 DEF TransferFailed, GivesUp, Finish, Outcome, TypeOK, Tokens, HostResults,
         NoReceive, TimedOut
<1>8. CASE SetupDone
  BY <1>8 DEF SetupDone, Dispatch, Launch, TypeOK, Tokens, HostResults, NoReceive,
         TimedOut
<1>9. CASE StatusDone
  BY <1>9 DEF StatusDone, Finish, Outcome, TypeOK, Tokens, HostResults, NoReceive,
         TimedOut
<1>10. CASE NothingReceived
  BY <1>10 DEF NothingReceived, Finish, Outcome, TypeOK, Tokens, HostResults,
         NoReceive, TimedOut
<1>11. CASE Receive
  <2>1. rcvfifo # <<>> /\ rcvfifo \in Seq(Seq(Words)) /\ data \in Seq(Words)
    BY <1>11 DEF Receive, DataOK
  <2>2. Len(Tail(rcvfifo)) <= 2 /\ Head(rcvfifo) = rcvfifo[1] /\ Len(rcvfifo) >= 1
    BY <2>1 DEF TypeOK
  <2>3. ASSUME token = "IN1" PROVE data' = rcvfifo[1]
    <3>1. data = <<>>
      BY <1>11, <2>3 DEF Receive, Tokened, TypeOK
    <3>2. rcvfifo[1] \in Seq(Words)
      BY <2>1, <2>2
    <3>. QED BY <1>11, <2>2, <3>1, <3>2 DEF Receive
  <2>4. taken' \in 0 .. offered' /\ repeated' \in BOOLEAN /\ rcvToggle' \in 0 .. 1
    <3>1. CASE token = "IN1"
      BY <1>11, <2>2, <2>3, <3>1 DEF Receive, Ordered, HasReport, TypeOK, SavedToggle
    <3>2. CASE token # "IN1"
      BY <1>11, <3>2 DEF Receive, TypeOK
    <3>. QED BY <3>1, <3>2
  <2>5. /\ pc' \in {"idle", "wait", "result"} /\ token' \in Tokens
        /\ phase' \in {"enum", "query", "poll", "error"}
        /\ rcode' \in HostResults \union {NoReceive, TimedOut, "none"}
        /\ busy' \in Tokens \union {"none"} /\ hrsl' \in HostResults
    BY <1>11 DEF Receive, Finish, Outcome, Dispatch, Launch, TypeOK, Tokens, HostResults
  <2>6. /\ nak_count' \in 0 .. NakLimit - 1 /\ retry_count' \in 0 .. RetryLimit - 1
        /\ timeout' \in 0 .. ClockTop + XferTimeout
    BY <1>11, SMTT(30) DEF Receive, Finish, Dispatch, TypeOK
  <2>7. /\ kind' = kind /\ nbytes' = nbytes /\ hxfrdn' = hxfrdn /\ rcvtog' = rcvtog
        /\ dead' = dead /\ rcvfifo' = Tail(rcvfifo)
        /\ UNCHANGED <<configured, stage, length, sent, tog0, tog1, offered, acked, now>>
        /\ UNCHANGED <<faults, lates>>
    BY <1>11 DEF Receive
  <2>. QED BY <2>2, <2>4, <2>5, <2>6, <2>7 DEF TypeOK
<1>12. CASE Exchange
  <2>1. CASE NoAnswer
    BY <1>12, <2>1 DEF Exchange, NoAnswer, TypeOK, Tokens, HostResults, NoReceive,
           TimedOut
  <2>2. CASE Garbled
    BY <1>12, <2>2 DEF Exchange, Garbled, TypeOK, Tokens, HostResults, NoReceive,
           TimedOut
  <2>3. CASE Nak
    BY <1>12, <2>3 DEF Exchange, Nak, TypeOK, Tokens, HostResults, NoReceive,
           TimedOut
  <2>4. CASE Stall
    BY <1>12, <2>4 DEF Exchange, Stall, TypeOK, Tokens, HostResults, NoReceive,
           TimedOut
  <2>5. CASE Setup
    BY <1>12, <2>5 DEF Exchange, Setup, DeviceHandshake, TypeOK, Tokens,
           HostResults, NoReceive, TimedOut
  <2>6. CASE StatusOut
    BY <1>12, <2>6 DEF Exchange, StatusOut, DeviceHandshake, TypeOK, Tokens,
           HostResults, NoReceive, TimedOut
  <2>7. CASE StatusIn
    BY <1>12, <2>7 DEF Exchange, StatusIn, TypeOK, Tokens, HostResults, NoReceive,
           TimedOut
  <2>8. CASE DataIn0
    <3>1. NextSent \in 0 .. length
      BY DEF NextSent, Least, TypeOK
    <3>2. sent' \in 0 .. length /\ tog0' \in 0 .. 1 /\ faults' \in 0 .. MaxFaults
      BY <2>8, <3>1 DEF DataIn0, TypeOK
    <3>3. rcvtog' \in 0 .. 1 /\ hrsl' \in HostResults
      BY <2>8 DEF DataIn0, Accept, TypeOK, HostResults
    <3>4. Len(rcvfifo') <= 2
      <4>1. ASSUME NEW p, rcvfifo' = Append(rcvfifo, p), Len(rcvfifo) < 2
            PROVE  Len(rcvfifo') <= 2
        BY <4>1 DEF DataOK
      <4>. QED BY <2>8, <4>1 DEF DataIn0, Accept, TypeOK
    <3>. QED BY <1>12, <2>8, <3>2, <3>3, <3>4 DEF Exchange, DataIn0, TypeOK
  <2>9. CASE DataIn1
    <3>1. acked' \in 0 .. offered /\ tog1' \in 0 .. 1 /\ faults' \in 0 .. MaxFaults
      BY <2>9 DEF DataIn1, TypeOK
    <3>2. rcvtog' \in 0 .. 1 /\ hrsl' \in HostResults
      BY <2>9 DEF DataIn1, Accept, TypeOK, HostResults
    <3>3. Len(rcvfifo') <= 2
      <4>1. ASSUME NEW p, rcvfifo' = Append(rcvfifo, p), Len(rcvfifo) < 2
            PROVE  Len(rcvfifo') <= 2
        BY <4>1 DEF DataOK
      <4>. QED BY <2>9, <4>1 DEF DataIn1, Accept, TypeOK
    <3>. QED BY <1>12, <2>9, <3>1, <3>2, <3>3 DEF Exchange, DataIn1, TypeOK
  <2>. QED BY <1>12, <2>1, <2>2, <2>3, <2>4, <2>5, <2>6, <2>7, <2>8, <2>9 DEF Exchange
<1>13. CASE Die
  BY <1>13 DEF Die, TypeOK, Tokens, HostResults, NoReceive, TimedOut
<1>14. CASE Offer
  BY <1>14 DEF Offer, TypeOK, Tokens, HostResults, NoReceive, TimedOut
<1>15. CASE Unplug
  BY <1>15 DEF Unplug, TypeOK, Tokens, HostResults, NoReceive, TimedOut
<1>16. CASE Replug
  <2>1. /\ phase' \in {"enum", "query", "poll", "error"} /\ pc' \in {"idle", "wait", "result"}
        /\ kind' \in {"get", "set", "poll"} /\ nbytes' \in Nat /\ token' \in Tokens
        /\ nak_count' \in 0 .. NakLimit - 1 /\ retry_count' \in 0 .. RetryLimit - 1
        /\ timeout' \in 0 .. ClockTop + XferTimeout /\ now' \in 0 .. ClockTop
        /\ rcode' \in HostResults \union {NoReceive, TimedOut, "none"}
    BY <1>16 DEF Replug, TypeOK
  <2>2. /\ busy' \in Tokens \union {"none"} /\ hxfrdn' \in BOOLEAN /\ hrsl' \in HostResults
    BY <1>16 DEF Replug, TypeOK
  <2>5. /\ rcvToggle' \in 0 .. 1 /\ rcvtog' \in 0 .. 1 /\ tog0' \in 0 .. 1 /\ tog1' \in 0 .. 1
    BY <1>16 DEF Replug, TypeOK
  <2>3. /\ stage' \in {"idle", "data", "status", "gone"} /\ length' \in Lengths
        /\ sent' \in 0 .. length' /\ offered' \in 0 .. MaxReports
        /\ acked' \in 0 .. offered' /\ taken' \in 0 .. offered'
    BY <1>16 DEF Replug, TypeOK
  <2>4. Len(rcvfifo') <= 2
    <3>1. rcvfifo' = <<>> \/ rcvfifo' = rcvfifo
      BY <1>16 DEF Replug
    <3>. QED BY <3>1 DEF TypeOK
  <2>. QED BY <1>16, <2>1, <2>2, <2>3, <2>4, <2>5 DEF Replug, TypeOK
<1>17. CASE Tick
  BY <1>17 DEF Tick, TypeOK, Tokens, HostResults, NoReceive, TimedOut
<1>. QED BY <1>1, <1>2, <1>3, <1>4, <1>5, <1>6, <1>7, <1>8, <1>9, <1>10, <1>11,
       <1>12, <1>13, <1>14, <1>15, <1>16, <1>17 DEF Next, Start, Program

\* The pieces of a descriptor.
LEMMA PieceFacts ==
    ASSUME NEW a \in Nat, NEW b \in Nat
    PROVE  /\ Piece(a, b) \in Seq(Words)
           /\ a <= b => Len(Piece(a, b)) = b - a
           /\ Piece(0, 0) = <<>>
           /\ Piece(0, b) = [i \in 1 .. b |-> Byte(i)]
<1>1. \A i \in 1 .. b - a : Byte(a + i) \in Words
  BY DEF Byte, Words
<1>2. Piece(a, b) \in Seq(Words)
  BY <1>1 DEF Piece
<1>3. a <= b => Len(Piece(a, b)) = b - a
  BY DEF Piece
<1>4. Piece(0, 0) = <<>>
  BY DEF Piece
<1>5. Piece(0, b) = [i \in 1 .. b |-> Byte(i)]
  BY DEF Piece
<1>. QED BY <1>2, <1>3, <1>4, <1>5

\* A piece and the next one are one piece.
LEMMA PieceJoin ==
    ASSUME NEW a \in Nat, NEW b \in Nat, a <= b
    PROVE  Piece(0, a) \o Piece(a, b) = Piece(0, b)
<1>1. Piece(0, a) \in Seq(Words) /\ Piece(a, b) \in Seq(Words) /\ Piece(0, b) \in Seq(Words)
  BY PieceFacts
<1>2. Len(Piece(0, a)) = a /\ Len(Piece(a, b)) = b - a /\ Len(Piece(0, b)) = b
  <2>1. a - 0 = a /\ b - 0 = b /\ 0 <= a /\ 0 <= b /\ 0 \in Nat
    OBVIOUS
  <2>2. Len(Piece(0, a)) = a - 0
    BY <2>1, PieceFacts
  <2>3. Len(Piece(0, b)) = b - 0
    BY <2>1, PieceFacts
  <2>4. Len(Piece(a, b)) = b - a
    BY PieceFacts
  <2>. QED BY <2>1, <2>2, <2>3, <2>4
<1>3. ASSUME NEW i \in 1 .. b PROVE (Piece(0, a) \o Piece(a, b))[i] = Piece(0, b)[i]
  <2>1. CASE i <= a
    <3>1. (Piece(0, a) \o Piece(a, b))[i] = Piece(0, a)[i]
      BY <1>1, <1>2, <2>1
    <3>. QED BY <3>1, <2>1 DEF Piece
  <2>2. CASE i > a
    <3>1. (Piece(0, a) \o Piece(a, b))[i] = Piece(a, b)[i - a]
      BY <1>1, <1>2, <2>2
    <3>2. i - a \in 1 .. b - a /\ a + (i - a) = i
      BY <2>2
    <3>3. Piece(a, b)[i - a] = Byte(i) /\ Piece(0, b)[i] = Byte(i)
      BY <3>2 DEF Piece
    <3>. QED BY <3>1, <3>3
  <2>3. i <= a \/ i > a
    OBVIOUS
  <2>. QED BY <2>1, <2>2, <2>3
<1>. DEFINE q == Piece(0, a) \o Piece(a, b)
<1>4. q \in Seq(Words) /\ Len(q) = b
  BY <1>1, <1>2
<1>. HIDE DEF q
<1>5. q = [i \in 1 .. b |-> q[i]]
  BY <1>4
<1>6. Piece(0, b) = [i \in 1 .. b |-> Piece(0, b)[i]]
  BY <1>1, <1>2
<1>7. \A i \in 1 .. b : q[i] = Piece(0, b)[i]
  BY <1>3 DEF q
<1>8. q = Piece(0, b)
  BY <1>5, <1>6, <1>7
<1>. QED BY <1>8 DEF q

\* Every step keeps the types of what is transferred.
LEMMA DataStep ==
    ASSUME TypeOK, DataOK, Next PROVE DataOK'
<1>. USE TransferAssumption DEF Fault, NoFault, request, counts, result, reports, progVars,
     chipVars, ep0, ep1, env
<1>1. ASSUME NEW n \in Requests, XferGet(n) PROVE DataOK'
  BY <1>1 DEF XferGet, Dispatch, Launch, DataOK
<1>2. CASE XferSetConf
  BY <1>2 DEF XferSetConf, HID_init, Dispatch, Launch, DataOK
<1>3. CASE Poll
  BY <1>3 DEF Poll, Dispatch, Launch, DataOK
<1>4. CASE TransferDone
  BY <1>4 DEF TransferDone, Expired, DataOK
<1>5. CASE TransferExpired
  BY <1>5 DEF TransferExpired, Expired, Finish, Outcome, DataOK
<1>6. CASE Resend
  BY <1>6 DEF Resend, Again, Launch, DataOK
<1>7. CASE TransferFailed
  BY <1>7 DEF TransferFailed, GivesUp, Finish, Outcome, DataOK
<1>8. CASE SetupDone
  BY <1>8 DEF SetupDone, Dispatch, Launch, DataOK
<1>9. CASE StatusDone
  BY <1>9 DEF StatusDone, Finish, Outcome, DataOK
<1>10. CASE NothingReceived
  BY <1>10 DEF NothingReceived, Finish, Outcome, DataOK
<1>11. CASE Receive
  <2>1. rcvfifo # <<>>
    BY <1>11 DEF Receive
  <2>2. Head(rcvfifo) \in Seq(Words) /\ Tail(rcvfifo) \in Seq(Seq(Words))
    BY <2>1 DEF DataOK
  <2>. QED BY <1>11, <2>2 DEF Receive, DataOK
<1>12. CASE Exchange
  <2>1. CASE NoAnswer
    BY <1>12, <2>1 DEF Exchange, NoAnswer, DataOK
  <2>2. CASE Garbled
    BY <1>12, <2>2 DEF Exchange, Garbled, DataOK
  <2>3. CASE Nak
    BY <1>12, <2>3 DEF Exchange, Nak, DataOK
  <2>4. CASE Stall
    BY <1>12, <2>4 DEF Exchange, Stall, DataOK
  <2>5. CASE Setup
    BY <1>12, <2>5 DEF Exchange, Setup, DeviceHandshake, DataOK
  <2>6. CASE StatusOut
    BY <1>12, <2>6 DEF Exchange, StatusOut, DeviceHandshake, DataOK
  <2>7. CASE StatusIn
    BY <1>12, <2>7 DEF Exchange, StatusIn, DataOK
  <2>8. CASE DataIn0
    <3>1. NextSent - sent \in Int
      BY DEF NextSent, Least, TypeOK
    <3>2. [i \in 1 .. NextSent - sent |-> Byte(sent + i)] \in Seq(Words)
      BY <3>1 DEF Byte, Words, TypeOK
    <3>. QED BY <1>12, <2>8, <3>2, SMTT(30) DEF Exchange, DataIn0, Accept, DataOK
  <2>9. CASE DataIn1
    <3>1. <<Report(offered)>> \in Seq(Words)
      BY DEF Report, Words, TypeOK
    <3>. QED BY <1>12, <2>9, <3>1, SMTT(30) DEF Exchange, DataIn1, Accept, DataOK
  <2>. QED BY <1>12, <2>1, <2>2, <2>3, <2>4, <2>5, <2>6, <2>7, <2>8, <2>9 DEF Exchange
<1>13. CASE Die
  BY <1>13 DEF Die, DataOK
<1>14. CASE Offer
  BY <1>14 DEF Offer, DataOK
<1>15. CASE Unplug
  BY <1>15 DEF Unplug, DataOK
<1>16. CASE Replug
  <2>1. <<>> \in Seq(Seq(Words))
    OBVIOUS
  <2>. QED BY <1>16, <2>1 DEF Replug, DataOK
<1>17. CASE Tick
  BY <1>17 DEF Tick, DataOK
<1>. QED BY <1>1, <1>2, <1>3, <1>4, <1>5, <1>6, <1>7, <1>8, <1>9, <1>10, <1>11,
       <1>12, <1>13, <1>14, <1>15, <1>16, <1>17 DEF Next, Start, Program

\* Every step keeps Tokened.
LEMMA TokenedStep ==
    ASSUME TypeOK, Tokened, Next PROVE Tokened'
<1>. USE TransferAssumption DEF Fault, NoFault, request, counts, result, reports, progVars,
     chipVars, ep0, ep1, env
<1>1. ASSUME NEW n \in Requests, XferGet(n) PROVE Tokened'
  BY <1>1 DEF XferGet, Dispatch, Launch, TypeOK, Tokened
<1>2. CASE XferSetConf
  BY <1>2 DEF XferSetConf, HID_init, Dispatch, Launch, TypeOK, Tokened
<1>3. CASE Poll
  BY <1>3 DEF Poll, Dispatch, Launch, TypeOK, Tokened
<1>4. CASE TransferDone
  BY <1>4 DEF TransferDone, Expired, TypeOK, Tokened
<1>5. CASE TransferExpired
  BY <1>5 DEF TransferExpired, Expired, Finish, Outcome, TypeOK, Tokened
<1>6. CASE Resend
  BY <1>6 DEF Resend, Again, Launch, TypeOK, Tokened
<1>7. CASE TransferFailed
  BY <1>7 DEF TransferFailed, GivesUp, Finish, Outcome, TypeOK, Tokened
<1>8. CASE SetupDone
  BY <1>8 DEF SetupDone, Dispatch, Launch, TypeOK, Tokened
<1>9. CASE StatusDone
  BY <1>9 DEF StatusDone, Finish, Outcome, TypeOK, Tokened
<1>10. CASE NothingReceived
  BY <1>10 DEF NothingReceived, Finish, Outcome, TypeOK, Tokened
<1>11. CASE Receive
  BY <1>11 DEF Receive, Finish, Outcome, Dispatch, Launch, SavedToggle, TypeOK,
         Tokened
<1>12. CASE Exchange
  <2>1. CASE NoAnswer
    BY <1>12, <2>1 DEF Exchange, NoAnswer, TypeOK, Tokened
  <2>2. CASE Garbled
    BY <1>12, <2>2 DEF Exchange, Garbled, TypeOK, Tokened
  <2>3. CASE Nak
    BY <1>12, <2>3 DEF Exchange, Nak, TypeOK, Tokened
  <2>4. CASE Stall
    BY <1>12, <2>4 DEF Exchange, Stall, TypeOK, Tokened
  <2>5. CASE Setup
    BY <1>12, <2>5 DEF Exchange, Setup, DeviceHandshake, TypeOK, Tokened
  <2>6. CASE StatusOut
    BY <1>12, <2>6 DEF Exchange, StatusOut, DeviceHandshake, TypeOK, Tokened
  <2>7. CASE StatusIn
    BY <1>12, <2>7 DEF Exchange, StatusIn, TypeOK, Tokened
  <2>8. CASE DataIn0
    BY <1>12, <2>8 DEF Exchange, DataIn0, Accept, TypeOK, Tokened
  <2>9. CASE DataIn1
    BY <1>12, <2>9 DEF Exchange, DataIn1, Accept, TypeOK, Tokened
  <2>. QED BY <1>12, <2>1, <2>2, <2>3, <2>4, <2>5, <2>6, <2>7, <2>8, <2>9 DEF Exchange
<1>13. CASE Die
  BY <1>13 DEF Die, TypeOK, Tokened
<1>14. CASE Offer
  BY <1>14 DEF Offer, TypeOK, Tokened
<1>15. CASE Unplug
  BY <1>15 DEF Unplug, TypeOK, Tokened
<1>16. CASE Replug
  BY <1>16 DEF Replug, TypeOK, Tokened
<1>17. CASE Tick
  BY <1>17 DEF Tick, TypeOK, Tokened
<1>. QED BY <1>1, <1>2, <1>3, <1>4, <1>5, <1>6, <1>7, <1>8, <1>9, <1>10, <1>11,
       <1>12, <1>13, <1>14, <1>15, <1>16, <1>17 DEF Next, Start, Program

\* Every step keeps Confirmed.
LEMMA ConfirmedStep ==
    ASSUME TypeOK, Tokened, Confirmed, Next PROVE Confirmed'
<1>. USE TransferAssumption DEF Fault, NoFault, request, counts, result, reports, progVars,
     chipVars, ep0, ep1, env
<1>1. ASSUME NEW n \in Requests, XferGet(n) PROVE Confirmed'
  BY <1>1 DEF XferGet, Dispatch, Launch, TypeOK, Tokened, Confirmed,
         PolledIsConfigured
<1>2. CASE XferSetConf
  BY <1>2 DEF XferSetConf, HID_init, Dispatch, Launch, TypeOK, Tokened, Confirmed,
         PolledIsConfigured
<1>3. CASE Poll
  BY <1>3 DEF Poll, Dispatch, Launch, TypeOK, Tokened, Confirmed, PolledIsConfigured
<1>4. CASE TransferDone
  BY <1>4 DEF TransferDone, Expired, TypeOK, Tokened, Confirmed, PolledIsConfigured
<1>5. CASE TransferExpired
  BY <1>5 DEF TransferExpired, Expired, Finish, Outcome, TypeOK, Tokened, Confirmed,
         PolledIsConfigured, TimedOut
<1>6. CASE Resend
  BY <1>6 DEF Resend, Again, Launch, TypeOK, Tokened, Confirmed, PolledIsConfigured
<1>7. CASE TransferFailed
  BY <1>7 DEF TransferFailed, GivesUp, Finish, Outcome, TypeOK, Tokened, Confirmed,
         PolledIsConfigured
<1>8. CASE SetupDone
  BY <1>8 DEF SetupDone, Dispatch, Launch, TypeOK, Tokened, Confirmed,
         PolledIsConfigured
<1>9. CASE StatusDone
  BY <1>9 DEF StatusDone, Finish, Outcome, TypeOK, Tokened, Confirmed,
         PolledIsConfigured
<1>10. CASE NothingReceived
  BY <1>10 DEF NothingReceived, Finish, Outcome, TypeOK, Tokened, Confirmed,
         PolledIsConfigured, NoReceive
<1>11. CASE Receive
  BY <1>11 DEF Receive, Finish, Outcome, Dispatch, Launch, SavedToggle, TypeOK,
         Tokened, Confirmed, PolledIsConfigured
<1>12. CASE Exchange
  <2>1. CASE NoAnswer
    BY <1>12, <2>1 DEF Exchange, NoAnswer, TypeOK, Tokened, Confirmed,
           PolledIsConfigured
  <2>2. CASE Garbled
    BY <1>12, <2>2 DEF Exchange, Garbled, TypeOK, Tokened, Confirmed,
           PolledIsConfigured
  <2>3. CASE Nak
    BY <1>12, <2>3 DEF Exchange, Nak, TypeOK, Tokened, Confirmed, PolledIsConfigured
  <2>4. CASE Stall
    BY <1>12, <2>4 DEF Exchange, Stall, TypeOK, Tokened, Confirmed,
           PolledIsConfigured
  <2>5. CASE Setup
    BY <1>12, <2>5 DEF Exchange, Setup, DeviceHandshake, TypeOK, Tokened, Confirmed,
           PolledIsConfigured
  <2>6. CASE StatusOut
    BY <1>12, <2>6 DEF Exchange, StatusOut, DeviceHandshake, TypeOK, Tokened,
           Confirmed, PolledIsConfigured
  <2>7. CASE StatusIn
    BY <1>12, <2>7 DEF Exchange, StatusIn, TypeOK, Tokened, Confirmed,
           PolledIsConfigured
  <2>8. CASE DataIn0
    BY <1>12, <2>8 DEF Exchange, DataIn0, Accept, TypeOK, Tokened, Confirmed,
           PolledIsConfigured
  <2>9. CASE DataIn1
    BY <1>12, <2>9 DEF Exchange, DataIn1, Accept, TypeOK, Tokened, Confirmed,
           PolledIsConfigured
  <2>. QED BY <1>12, <2>1, <2>2, <2>3, <2>4, <2>5, <2>6, <2>7, <2>8, <2>9 DEF Exchange
<1>13. CASE Die
  BY <1>13 DEF Die, TypeOK, Tokened, Confirmed, PolledIsConfigured
<1>14. CASE Offer
  BY <1>14 DEF Offer, TypeOK, Tokened, Confirmed, PolledIsConfigured
<1>15. CASE Unplug
  BY <1>15 DEF Unplug, TypeOK, Tokened, Confirmed, PolledIsConfigured
<1>16. CASE Replug
  BY <1>16 DEF Replug, TypeOK, Tokened, Confirmed, PolledIsConfigured
<1>17. CASE Tick
  BY <1>17 DEF Tick, TypeOK, Tokened, Confirmed, PolledIsConfigured
<1>. QED BY <1>1, <1>2, <1>3, <1>4, <1>5, <1>6, <1>7, <1>8, <1>9, <1>10, <1>11,
       <1>12, <1>13, <1>14, <1>15, <1>16, <1>17 DEF Next, Start, Program

\* Every step keeps Unpolled.
LEMMA UnpolledStep ==
    ASSUME TypeOK, Tokened, Unpolled, Next PROVE Unpolled'
<1>. USE TransferAssumption DEF Fault, NoFault, request, counts, result, reports, progVars,
     chipVars, ep0, ep1, env
<1>1. ASSUME NEW n \in Requests, XferGet(n) PROVE Unpolled'
  BY <1>1 DEF XferGet, Dispatch, Launch, TypeOK, Tokened, Unpolled
<1>2. CASE XferSetConf
  BY <1>2 DEF XferSetConf, HID_init, Dispatch, Launch, TypeOK, Tokened, Unpolled
<1>3. CASE Poll
  BY <1>3 DEF Poll, Dispatch, Launch, TypeOK, Tokened, Unpolled
<1>4. CASE TransferDone
  BY <1>4 DEF TransferDone, Expired, TypeOK, Tokened, Unpolled
<1>5. CASE TransferExpired
  BY <1>5 DEF TransferExpired, Expired, Finish, Outcome, TypeOK, Tokened, Unpolled
<1>6. CASE Resend
  BY <1>6 DEF Resend, Again, Launch, TypeOK, Tokened, Unpolled
<1>7. CASE TransferFailed
  BY <1>7 DEF TransferFailed, GivesUp, Finish, Outcome, TypeOK, Tokened, Unpolled
<1>8. CASE SetupDone
  BY <1>8 DEF SetupDone, Dispatch, Launch, TypeOK, Tokened, Unpolled
<1>9. CASE StatusDone
  BY <1>9 DEF StatusDone, Finish, Outcome, TypeOK, Tokened, Unpolled
<1>10. CASE NothingReceived
  BY <1>10 DEF NothingReceived, Finish, Outcome, TypeOK, Tokened, Unpolled
<1>11. CASE Receive
  BY <1>11 DEF Receive, Finish, Outcome, Dispatch, Launch, SavedToggle, TypeOK,
         Tokened, Unpolled
<1>12. CASE Exchange
  <2>1. CASE NoAnswer
    BY <1>12, <2>1 DEF Exchange, NoAnswer, TypeOK, Tokened, Unpolled
  <2>2. CASE Garbled
    BY <1>12, <2>2 DEF Exchange, Garbled, TypeOK, Tokened, Unpolled
  <2>3. CASE Nak
    BY <1>12, <2>3 DEF Exchange, Nak, TypeOK, Tokened, Unpolled
  <2>4. CASE Stall
    BY <1>12, <2>4 DEF Exchange, Stall, TypeOK, Tokened, Unpolled
  <2>5. CASE Setup
    BY <1>12, <2>5 DEF Exchange, Setup, DeviceHandshake, TypeOK, Tokened, Unpolled
  <2>6. CASE StatusOut
    BY <1>12, <2>6 DEF Exchange, StatusOut, DeviceHandshake, TypeOK, Tokened,
           Unpolled
  <2>7. CASE StatusIn
    BY <1>12, <2>7 DEF Exchange, StatusIn, TypeOK, Tokened, Unpolled
  <2>8. CASE DataIn0
    BY <1>12, <2>8 DEF Exchange, DataIn0, Accept, TypeOK, Tokened, Unpolled
  <2>9. CASE DataIn1
    BY <1>12, <2>9 DEF Exchange, DataIn1, Accept, TypeOK, Tokened, Unpolled
  <2>. QED BY <1>12, <2>1, <2>2, <2>3, <2>4, <2>5, <2>6, <2>7, <2>8, <2>9 DEF Exchange
<1>13. CASE Die
  BY <1>13 DEF Die, TypeOK, Tokened, Unpolled
<1>14. CASE Offer
  BY <1>14 DEF Offer, TypeOK, Tokened, Unpolled
<1>15. CASE Unplug
  BY <1>15 DEF Unplug, TypeOK, Tokened, Unpolled
<1>16. CASE Replug
  BY <1>16 DEF Replug, TypeOK, Tokened, Unpolled
<1>17. CASE Tick
  BY <1>17 DEF Tick, TypeOK, Tokened, Unpolled
<1>. QED BY <1>1, <1>2, <1>3, <1>4, <1>5, <1>6, <1>7, <1>8, <1>9, <1>10, <1>11,
       <1>12, <1>13, <1>14, <1>15, <1>16, <1>17 DEF Next, Start, Program

\* Every step keeps OneAhead.
LEMMA OneAheadStep ==
    ASSUME TypeOK, OneAhead, Next PROVE OneAhead'
<1>. USE TransferAssumption DEF Fault, NoFault, request, counts, result, reports, progVars,
     chipVars, ep0, ep1, env
<1>1. ASSUME NEW n \in Requests, XferGet(n) PROVE OneAhead'
  BY <1>1 DEF XferGet, Dispatch, Launch, TypeOK, OneAhead
<1>2. CASE XferSetConf
  BY <1>2 DEF XferSetConf, HID_init, Dispatch, Launch, TypeOK, OneAhead
<1>3. CASE Poll
  BY <1>3 DEF Poll, Dispatch, Launch, TypeOK, OneAhead
<1>4. CASE TransferDone
  BY <1>4 DEF TransferDone, Expired, TypeOK, OneAhead
<1>5. CASE TransferExpired
  BY <1>5 DEF TransferExpired, Expired, Finish, Outcome, TypeOK, OneAhead
<1>6. CASE Resend
  BY <1>6 DEF Resend, Again, Launch, TypeOK, OneAhead
<1>7. CASE TransferFailed
  BY <1>7 DEF TransferFailed, GivesUp, Finish, Outcome, TypeOK, OneAhead
<1>8. CASE SetupDone
  BY <1>8 DEF SetupDone, Dispatch, Launch, TypeOK, OneAhead
<1>9. CASE StatusDone
  BY <1>9 DEF StatusDone, Finish, Outcome, TypeOK, OneAhead
<1>10. CASE NothingReceived
  BY <1>10 DEF NothingReceived, Finish, Outcome, TypeOK, OneAhead
<1>11. CASE Receive
  BY <1>11 DEF Receive, Finish, Outcome, Dispatch, Launch, SavedToggle, TypeOK,
         OneAhead
<1>12. CASE Exchange
  <2>1. CASE NoAnswer
    BY <1>12, <2>1 DEF Exchange, NoAnswer, TypeOK, OneAhead
  <2>2. CASE Garbled
    BY <1>12, <2>2 DEF Exchange, Garbled, TypeOK, OneAhead
  <2>3. CASE Nak
    BY <1>12, <2>3 DEF Exchange, Nak, TypeOK, OneAhead
  <2>4. CASE Stall
    BY <1>12, <2>4 DEF Exchange, Stall, TypeOK, OneAhead
  <2>5. CASE Setup
    BY <1>12, <2>5 DEF Exchange, Setup, DeviceHandshake, TypeOK, OneAhead
  <2>6. CASE StatusOut
    BY <1>12, <2>6 DEF Exchange, StatusOut, DeviceHandshake, TypeOK, OneAhead
  <2>7. CASE StatusIn
    BY <1>12, <2>7 DEF Exchange, StatusIn, TypeOK, OneAhead
  <2>8. CASE DataIn0
    BY <1>12, <2>8 DEF Exchange, DataIn0, Accept, TypeOK, OneAhead
  <2>9. CASE DataIn1
    BY <1>12, <2>9 DEF Exchange, DataIn1, Accept, TypeOK, OneAhead
  <2>. QED BY <1>12, <2>1, <2>2, <2>3, <2>4, <2>5, <2>6, <2>7, <2>8, <2>9 DEF Exchange
<1>13. CASE Die
  BY <1>13 DEF Die, TypeOK, OneAhead
<1>14. CASE Offer
  BY <1>14 DEF Offer, TypeOK, OneAhead
<1>15. CASE Unplug
  BY <1>15 DEF Unplug, TypeOK, OneAhead
<1>16. CASE Replug
  BY <1>16 DEF Replug, TypeOK, OneAhead
<1>17. CASE Tick
  BY <1>17 DEF Tick, TypeOK, OneAhead
<1>. QED BY <1>1, <1>2, <1>3, <1>4, <1>5, <1>6, <1>7, <1>8, <1>9, <1>10, <1>11,
       <1>12, <1>13, <1>14, <1>15, <1>16, <1>17 DEF Next, Start, Program

\* Every step keeps Prompt.
LEMMA PromptStep ==
    ASSUME TypeOK, Confirmed, Prompt, Next PROVE Prompt'
<1>. USE TransferAssumption DEF Fault, NoFault, request, counts, result, reports, progVars,
     chipVars, ep0, ep1, env
<1>1. ASSUME NEW n \in Requests, XferGet(n) PROVE Prompt'
  BY <1>1 DEF XferGet, Dispatch, Launch, TypeOK, Confirmed, Prompt
<1>2. CASE XferSetConf
  BY <1>2 DEF XferSetConf, HID_init, Dispatch, Launch, TypeOK, Confirmed, Prompt
<1>3. CASE Poll
  BY <1>3 DEF Poll, Dispatch, Launch, TypeOK, Confirmed, Prompt
<1>4. CASE TransferDone
  BY <1>4 DEF TransferDone, Expired, TypeOK, Confirmed, Prompt
<1>5. CASE TransferExpired
  BY <1>5 DEF TransferExpired, Expired, Finish, Outcome, TypeOK, Confirmed, Prompt
<1>6. CASE Resend
  BY <1>6 DEF Resend, Again, Launch, TypeOK, Confirmed, Prompt
<1>7. CASE TransferFailed
  BY <1>7 DEF TransferFailed, GivesUp, Finish, Outcome, TypeOK, Confirmed, Prompt
<1>8. CASE SetupDone
  BY <1>8 DEF SetupDone, Dispatch, Launch, TypeOK, Confirmed, Prompt
<1>9. CASE StatusDone
  BY <1>9 DEF StatusDone, Finish, Outcome, TypeOK, Confirmed, Prompt
<1>10. CASE NothingReceived
  BY <1>10 DEF NothingReceived, Finish, Outcome, TypeOK, Confirmed, Prompt
<1>11. CASE Receive
  BY <1>11 DEF Receive, Finish, Outcome, Dispatch, Launch, SavedToggle, TypeOK,
         Confirmed, Prompt
<1>12. CASE Exchange
  <2>1. CASE NoAnswer
    BY <1>12, <2>1 DEF Exchange, NoAnswer, TypeOK, Confirmed, Prompt
  <2>2. CASE Garbled
    BY <1>12, <2>2 DEF Exchange, Garbled, TypeOK, Confirmed, Prompt
  <2>3. CASE Nak
    BY <1>12, <2>3 DEF Exchange, Nak, TypeOK, Confirmed, Prompt
  <2>4. CASE Stall
    BY <1>12, <2>4 DEF Exchange, Stall, TypeOK, Confirmed, Prompt
  <2>5. CASE Setup
    BY <1>12, <2>5 DEF Exchange, Setup, DeviceHandshake, TypeOK, Confirmed, Prompt
  <2>6. CASE StatusOut
    BY <1>12, <2>6 DEF Exchange, StatusOut, DeviceHandshake, TypeOK, Confirmed,
           Prompt
  <2>7. CASE StatusIn
    BY <1>12, <2>7 DEF Exchange, StatusIn, TypeOK, Confirmed, Prompt
  <2>8. CASE DataIn0
    BY <1>12, <2>8 DEF Exchange, DataIn0, Accept, TypeOK, Confirmed, Prompt
  <2>9. CASE DataIn1
    BY <1>12, <2>9 DEF Exchange, DataIn1, Accept, TypeOK, Confirmed, Prompt
  <2>. QED BY <1>12, <2>1, <2>2, <2>3, <2>4, <2>5, <2>6, <2>7, <2>8, <2>9 DEF Exchange
<1>13. CASE Die
  BY <1>13 DEF Die, TypeOK, Confirmed, Prompt
<1>14. CASE Offer
  BY <1>14 DEF Offer, TypeOK, Confirmed, Prompt
<1>15. CASE Unplug
  BY <1>15 DEF Unplug, TypeOK, Confirmed, Prompt
<1>16. CASE Replug
  BY <1>16 DEF Replug, TypeOK, Confirmed, Prompt
<1>17. CASE Tick
  BY <1>17 DEF Tick, TypeOK, Confirmed, Prompt
<1>. QED BY <1>1, <1>2, <1>3, <1>4, <1>5, <1>6, <1>7, <1>8, <1>9, <1>10, <1>11,
       <1>12, <1>13, <1>14, <1>15, <1>16, <1>17 DEF Next, Start, Program

\* Every step keeps Fifo.
LEMMA FifoStep ==
    ASSUME TypeOK, DataOK, Confirmed, Prompt, Fifo, Next PROVE Fifo'
<1>. USE TransferAssumption DEF Fault, NoFault, request, counts, result, reports, progVars,
     chipVars, ep0, ep1, env
<1>1. ASSUME NEW n \in Requests, XferGet(n) PROVE Fifo'
  BY <1>1 DEF XferGet, Dispatch, Launch, TypeOK, Confirmed, Prompt, Fifo
<1>2. CASE XferSetConf
  BY <1>2 DEF XferSetConf, HID_init, Dispatch, Launch, TypeOK, Confirmed, Prompt,
         Fifo
<1>3. CASE Poll
  BY <1>3 DEF Poll, Dispatch, Launch, TypeOK, Confirmed, Prompt, Fifo
<1>4. CASE TransferDone
  BY <1>4 DEF TransferDone, Expired, TypeOK, Confirmed, Prompt, Fifo
<1>5. CASE TransferExpired
  BY <1>5 DEF TransferExpired, Expired, Finish, Outcome, TypeOK, Confirmed, Prompt,
         Fifo
<1>6. CASE Resend
  BY <1>6 DEF Resend, Again, Launch, TypeOK, Confirmed, Prompt, Fifo
<1>7. CASE TransferFailed
  BY <1>7 DEF TransferFailed, GivesUp, Finish, Outcome, TypeOK, Confirmed, Prompt,
         Fifo, HostResults
<1>8. CASE SetupDone
  BY <1>8 DEF SetupDone, Dispatch, Launch, TypeOK, Confirmed, Prompt, Fifo
<1>9. CASE StatusDone
  BY <1>9 DEF StatusDone, Finish, Outcome, TypeOK, Confirmed, Prompt, Fifo
<1>10. CASE NothingReceived
  BY <1>10 DEF NothingReceived, Finish, Outcome, TypeOK, Confirmed, Prompt, Fifo
<1>11. CASE Receive
  <2>1. rcvfifo # <<>> /\ rcvfifo' = Tail(rcvfifo) /\ lates' = lates
    BY <1>11 DEF Receive
  <2>2. lates = 0 => Tail(rcvfifo) = <<>>
    BY <2>1, TailFifo DEF Fifo, DataOK
  <2>. QED BY <2>1, <2>2 DEF Fifo
<1>12. CASE Exchange
  <2>1. CASE NoAnswer
    BY <1>12, <2>1 DEF Exchange, NoAnswer, TypeOK, Confirmed, Prompt, Fifo
  <2>2. CASE Garbled
    BY <1>12, <2>2 DEF Exchange, Garbled, TypeOK, Confirmed, Prompt, Fifo
  <2>3. CASE Nak
    BY <1>12, <2>3 DEF Exchange, Nak, TypeOK, Confirmed, Prompt, Fifo
  <2>4. CASE Stall
    BY <1>12, <2>4 DEF Exchange, Stall, TypeOK, Confirmed, Prompt, Fifo
  <2>5. CASE Setup
    BY <1>12, <2>5 DEF Exchange, Setup, DeviceHandshake, TypeOK, Confirmed, Prompt,
           Fifo
  <2>6. CASE StatusOut
    BY <1>12, <2>6 DEF Exchange, StatusOut, DeviceHandshake, TypeOK, Confirmed,
           Prompt, Fifo
  <2>7. CASE StatusIn
    BY <1>12, <2>7 DEF Exchange, StatusIn, TypeOK, Confirmed, Prompt, Fifo
  <2>8. CASE DataIn0
    <3>1. lates = 0 => rcvfifo = <<>> /\ pc # "idle" /\ token = "IN0"
      BY <1>12, <2>8 DEF Exchange, DataIn0, Confirmed, Prompt, Fifo, TypeOK
    <3>2. \A p : lates = 0 => Len(Append(rcvfifo, p)) = 1
      BY <3>1, AppendFifo DEF DataOK
    <3>3. /\ UNCHANGED <<pc, token, lates>>
          /\ rcvfifo' # <<>> => rcvfifo' = rcvfifo \/ hrsl' = "hrSUCCESS"
      BY <1>12, <2>8 DEF Exchange, DataIn0, Accept
    <3>4. rcvfifo' = rcvfifo \/ \E p : rcvfifo' = Append(rcvfifo, p)
      BY <2>8 DEF DataIn0, Accept
    <3>. QED BY <3>1, <3>2, <3>3, <3>4 DEF Fifo
  <2>9. CASE DataIn1
    <3>1. lates = 0 => rcvfifo = <<>> /\ pc # "idle" /\ token = "IN1"
      BY <1>12, <2>9 DEF Exchange, DataIn1, Confirmed, Prompt, Fifo, TypeOK
    <3>2. \A p : lates = 0 => Len(Append(rcvfifo, p)) = 1
      BY <3>1, AppendFifo DEF DataOK
    <3>3. /\ UNCHANGED <<pc, token, lates>>
          /\ rcvfifo' # <<>> => rcvfifo' = rcvfifo \/ hrsl' = "hrSUCCESS"
      BY <1>12, <2>9 DEF Exchange, DataIn1, Accept
    <3>4. rcvfifo' = rcvfifo \/ \E p : rcvfifo' = Append(rcvfifo, p)
      BY <2>9 DEF DataIn1, Accept
    <3>. QED BY <3>1, <3>2, <3>3, <3>4 DEF Fifo
  <2>. QED BY <1>12, <2>1, <2>2, <2>3, <2>4, <2>5, <2>6, <2>7, <2>8, <2>9 DEF Exchange
<1>13. CASE Die
  BY <1>13 DEF Die, TypeOK, Confirmed, Prompt, Fifo
<1>14. CASE Offer
  BY <1>14 DEF Offer, TypeOK, Confirmed, Prompt, Fifo
<1>15. CASE Unplug
  BY <1>15 DEF Unplug, TypeOK, Confirmed, Prompt, Fifo
<1>16. CASE Replug
  BY <1>16 DEF Replug, TypeOK, Confirmed, Prompt, Fifo
<1>17. CASE Tick
  BY <1>17 DEF Tick, TypeOK, Confirmed, Prompt, Fifo
<1>. QED BY <1>1, <1>2, <1>3, <1>4, <1>5, <1>6, <1>7, <1>8, <1>9, <1>10, <1>11,
       <1>12, <1>13, <1>14, <1>15, <1>16, <1>17 DEF Next, Start, Program

\* A piece of the descriptor is no report.
LEMMA PieceIsNoReport ==
    ASSUME NEW a \in Nat, NEW b \in Nat PROVE ~HasReport([i \in 1 .. b - a |-> Byte(a + i)])
<1>. DEFINE p == [i \in 1 .. b - a |-> Byte(a + i)]
<1>1. CASE b - a < 1
  <2>1. p = <<>>
    BY <1>1
  <2>. QED BY <2>1 DEF HasReport
<1>2. CASE b - a >= 1
  <2>1. p[1] = Byte(a + 1)
    BY <1>2
  <2>. QED BY <2>1 DEF HasReport, Byte
<1>. QED BY <1>1, <1>2

\* Every step keeps Ordered.
LEMMA OrderedStep ==
    ASSUME TypeOK, DataOK, Tokened, Ordered, Next PROVE Ordered'
<1>. USE TransferAssumption DEF Fault, NoFault, request, counts, result, reports, progVars,
     chipVars, ep0, ep1, env
<1>1. ASSUME NEW n \in Requests, XferGet(n) PROVE Ordered'
  BY <1>1 DEF XferGet, Dispatch, Launch, TypeOK, Tokened, Ordered
<1>2. CASE XferSetConf
  BY <1>2 DEF XferSetConf, HID_init, Dispatch, Launch, TypeOK, Tokened, Ordered
<1>3. CASE Poll
  BY <1>3 DEF Poll, Dispatch, Launch, TypeOK, Tokened, Ordered
<1>4. CASE TransferDone
  BY <1>4 DEF TransferDone, Expired, TypeOK, Tokened, Ordered
<1>5. CASE TransferExpired
  BY <1>5 DEF TransferExpired, Expired, Finish, Outcome, TypeOK, Tokened, Ordered
<1>6. CASE Resend
  BY <1>6 DEF Resend, Again, Launch, TypeOK, Tokened, Ordered
<1>7. CASE TransferFailed
  BY <1>7 DEF TransferFailed, GivesUp, Finish, Outcome, TypeOK, Tokened, Ordered
<1>8. CASE SetupDone
  BY <1>8 DEF SetupDone, Dispatch, Launch, TypeOK, Tokened, Ordered
<1>9. CASE StatusDone
  BY <1>9 DEF StatusDone, Finish, Outcome, TypeOK, Tokened, Ordered
<1>10. CASE NothingReceived
  BY <1>10 DEF NothingReceived, Finish, Outcome, TypeOK, Tokened, Ordered
<1>11. CASE Receive
  <2>1. rcvfifo # <<>> /\ rcvfifo' = Tail(rcvfifo) /\ offered' = offered
    BY <1>11 DEF Receive
  <2>2. /\ Len(rcvfifo) \in Nat \ {0} /\ Len(rcvfifo') = Len(rcvfifo) - 1
        /\ \A k \in 1 .. Len(rcvfifo') : rcvfifo'[k] = rcvfifo[k + 1]
    BY <2>1, TailFifo DEF DataOK
  <2>3. (phase' = phase /\ taken' = taken) \/ token = "IN1"
    BY <1>11 DEF Receive
  <2>4. ASSUME token = "IN1" PROVE phase' = phase /\ data' = rcvfifo[1]
    <3>1. data = <<>> /\ kind = "poll"
      BY <1>11, <2>4 DEF Receive, Tokened, TypeOK
    <3>2. Head(rcvfifo) \in Seq(Words) /\ Head(rcvfifo) = rcvfifo[1]
      BY <2>1, TailFifo DEF DataOK
    <3>. QED BY <1>11, <2>4, <3>1, <3>2 DEF Receive, Finish, Outcome
  <2>5. phase' = phase
    BY <2>3, <2>4
  <2>6. taken' = taken \/ (HasReport(rcvfifo[1]) /\ taken' = rcvfifo[1][1][2])
    BY <1>11, <2>3, <2>4 DEF Receive, HasReport
  <2>7. ASSUME NEW k \in 1 .. Len(rcvfifo'), HasReport(rcvfifo'[k])
        PROVE  phase = "poll" /\ rcvfifo'[k][1][2] \in taken' .. offered
    <3>1. /\ k + 1 \in 1 .. Len(rcvfifo) /\ 1 \in 1 .. Len(rcvfifo) /\ 1 < k + 1
          /\ rcvfifo'[k] = rcvfifo[k + 1]
      BY <2>2
    <3>2. phase = "poll" /\ rcvfifo[k + 1][1][2] \in taken .. offered
      BY <2>7, <3>1, SMTT(30) DEF Ordered
    <3>3. HasReport(rcvfifo[1]) => /\ rcvfifo[1][1][2] <= rcvfifo[k + 1][1][2]
                                   /\ rcvfifo[1][1][2] \in taken .. offered
      BY <2>7, <3>1, SMTT(30) DEF Ordered
    <3>. QED BY <2>6, <3>1, <3>2, <3>3, SMTT(30) DEF TypeOK
  <2>8. ASSUME NEW k \in 1 .. Len(rcvfifo'), NEW l \in 1 .. Len(rcvfifo'), k < l,
               HasReport(rcvfifo'[k]), HasReport(rcvfifo'[l])
        PROVE  rcvfifo'[k][1][2] <= rcvfifo'[l][1][2]
    <3>1. /\ k + 1 \in 1 .. Len(rcvfifo) /\ l + 1 \in 1 .. Len(rcvfifo) /\ k + 1 < l + 1
          /\ rcvfifo'[k] = rcvfifo[k + 1] /\ rcvfifo'[l] = rcvfifo[l + 1]
      BY <2>2, <2>8, SMTT(30)
    <3>. QED BY <2>8, <3>1, SMTT(30) DEF Ordered
  <2>9. \A k \in 1 .. Len(rcvfifo') : HasReport(rcvfifo'[k]) =>
           phase' = "poll" /\ rcvfifo'[k][1][2] \in taken' .. offered'
    BY <2>1, <2>5, <2>7
  <2>10. \A k, l \in 1 .. Len(rcvfifo') :
            k < l /\ HasReport(rcvfifo'[k]) /\ HasReport(rcvfifo'[l]) =>
                rcvfifo'[k][1][2] <= rcvfifo'[l][1][2]
    BY <2>8
  <2>11. Ordered' <=>
            /\ \A k \in 1 .. Len(rcvfifo') : HasReport(rcvfifo'[k]) =>
                  phase' = "poll" /\ rcvfifo'[k][1][2] \in taken' .. offered'
            /\ \A k, l \in 1 .. Len(rcvfifo') :
                  k < l /\ HasReport(rcvfifo'[k]) /\ HasReport(rcvfifo'[l]) =>
                      rcvfifo'[k][1][2] <= rcvfifo'[l][1][2]
    BY Zenon DEF Ordered, HasReport
  <2>. QED BY <2>9, <2>10, <2>11, Zenon
<1>12. CASE Exchange
  <2>1. CASE NoAnswer
    BY <1>12, <2>1 DEF Exchange, NoAnswer, TypeOK, Tokened, Ordered
  <2>2. CASE Garbled
    BY <1>12, <2>2 DEF Exchange, Garbled, TypeOK, Tokened, Ordered
  <2>3. CASE Nak
    BY <1>12, <2>3 DEF Exchange, Nak, TypeOK, Tokened, Ordered
  <2>4. CASE Stall
    BY <1>12, <2>4 DEF Exchange, Stall, TypeOK, Tokened, Ordered
  <2>5. CASE Setup
    BY <1>12, <2>5 DEF Exchange, Setup, DeviceHandshake, TypeOK, Tokened, Ordered
  <2>6. CASE StatusOut
    BY <1>12, <2>6 DEF Exchange, StatusOut, DeviceHandshake, TypeOK, Tokened,
           Ordered
  <2>7. CASE StatusIn
    BY <1>12, <2>7 DEF Exchange, StatusIn, TypeOK, Tokened, Ordered
  <2>8. CASE DataIn0
    <3>1. ~HasReport([i \in 1 .. NextSent - sent |-> Byte(sent + i)])
      <4>1. sent \in Nat /\ NextSent \in Nat
        BY DEF NextSent, Least, TypeOK
      <4>. QED BY <4>1, PieceIsNoReport
    <3>2. UNCHANGED <<phase, taken, offered>>
      BY <1>12, <2>8 DEF Exchange, DataIn0
    <3>3. CASE rcvfifo' = rcvfifo
      BY <3>2, <3>3 DEF Ordered
    <3>4. CASE rcvfifo' = Append(rcvfifo, [i \in 1 .. NextSent - sent |-> Byte(sent + i)])
      <4>1. /\ Len(rcvfifo) \in Nat /\ Len(rcvfifo') = Len(rcvfifo) + 1
            /\ \A k \in 1 .. Len(rcvfifo) : rcvfifo'[k] = rcvfifo[k]
            /\ ~HasReport(rcvfifo'[Len(rcvfifo) + 1])
        BY <3>1, <3>4, AppendFifo DEF DataOK
      <4>2. \A k \in 1 .. Len(rcvfifo') : HasReport(rcvfifo'[k]) =>
                k \in 1 .. Len(rcvfifo) /\ rcvfifo'[k] = rcvfifo[k]
        BY <4>1
      <4>. QED BY <3>2, <4>2 DEF Ordered
    <3>. QED BY <2>8, <3>3, <3>4 DEF DataIn0, Accept
  <2>9. CASE DataIn1
    <3>1. /\ phase = "poll" /\ <<Report(offered)>>[1][2] = offered /\ offered \in taken .. offered
      BY <1>12, <2>9 DEF Exchange, DataIn1, Report, Tokened, TypeOK
    <3>2. UNCHANGED <<phase, taken, offered>>
      BY <1>12, <2>9 DEF Exchange, DataIn1
    <3>3. CASE rcvfifo' = rcvfifo
      BY <3>2, <3>3 DEF Ordered
    <3>4. CASE rcvfifo' = Append(rcvfifo, <<Report(offered)>>)
      <4>1. /\ Len(rcvfifo) \in Nat /\ Len(rcvfifo') = Len(rcvfifo) + 1
            /\ \A k \in 1 .. Len(rcvfifo) : rcvfifo'[k] = rcvfifo[k]
            /\ rcvfifo'[Len(rcvfifo) + 1][1][2] = offered
        BY <3>1, <3>4, AppendFifo DEF DataOK
      <4>2. ASSUME NEW k \in 1 .. Len(rcvfifo'), HasReport(rcvfifo'[k])
            PROVE  phase = "poll" /\ rcvfifo'[k][1][2] \in taken .. offered
        BY <3>1, <4>1, <4>2 DEF Ordered
      <4>3. ASSUME NEW k \in 1 .. Len(rcvfifo'), NEW l \in 1 .. Len(rcvfifo'), k < l,
                   HasReport(rcvfifo'[k]), HasReport(rcvfifo'[l])
            PROVE  rcvfifo'[k][1][2] <= rcvfifo'[l][1][2]
        <5>1. k \in 1 .. Len(rcvfifo) /\ rcvfifo'[k] = rcvfifo[k]
          BY <4>1, <4>3
        <5>2. CASE l \in 1 .. Len(rcvfifo)
          BY <4>1, <4>3, <5>1, <5>2 DEF Ordered
        <5>3. CASE l = Len(rcvfifo) + 1
          <6>1. rcvfifo'[k][1][2] \in taken .. offered /\ rcvfifo'[l][1][2] = offered
            BY <4>1, <4>2, <4>3, <5>3
          <6>. QED BY <6>1 DEF TypeOK
        <5>. QED BY <4>1, <5>2, <5>3
      <4>. QED BY <3>2, <4>2, <4>3 DEF Ordered
    <3>. QED BY <2>9, <3>3, <3>4 DEF DataIn1, Accept
  <2>. QED BY <1>12, <2>1, <2>2, <2>3, <2>4, <2>5, <2>6, <2>7, <2>8, <2>9 DEF Exchange
<1>13. CASE Die
  BY <1>13 DEF Die, TypeOK, Tokened, Ordered
<1>14. CASE Offer
  BY <1>14 DEF Offer, TypeOK, Tokened, Ordered
<1>15. CASE Unplug
  BY <1>15 DEF Unplug, TypeOK, Tokened, Ordered
<1>16. CASE Replug
  <2>1. CASE rcvfifo' = <<>>
    BY <2>1 DEF Ordered
  <2>2. CASE rcvfifo' # <<>>
    BY <1>16, <2>2 DEF Replug, Ordered, TypeOK
  <2>. QED BY <2>1, <2>2
<1>17. CASE Tick
  BY <1>17 DEF Tick, TypeOK, Tokened, Ordered
<1>. QED BY <1>1, <1>2, <1>3, <1>4, <1>5, <1>6, <1>7, <1>8, <1>9, <1>10, <1>11,
       <1>12, <1>13, <1>14, <1>15, <1>16, <1>17 DEF Next, Start, Program

\* Every step keeps ReadSetup.
LEMMA ReadSetupStep ==
    ASSUME TypeOK, Tokened, Confirmed, Prompt, ReadSetup, Next PROVE ReadSetup'
<1>. USE TransferAssumption DEF Fault, NoFault, request, counts, result, reports, progVars,
     chipVars, ep0, ep1, env
<1>1. ASSUME NEW n \in Requests, XferGet(n) PROVE ReadSetup'
  BY <1>1 DEF XferGet, Dispatch, Launch, TypeOK, Tokened, Confirmed, Prompt,
         ReadSetup
<1>2. CASE XferSetConf
  BY <1>2 DEF XferSetConf, HID_init, Dispatch, Launch, TypeOK, Tokened, Confirmed,
         Prompt, ReadSetup
<1>3. CASE Poll
  BY <1>3 DEF Poll, Dispatch, Launch, TypeOK, Tokened, Confirmed, Prompt, ReadSetup
<1>4. CASE TransferDone
  BY <1>4 DEF TransferDone, Expired, TypeOK, Tokened, Confirmed, Prompt, ReadSetup
<1>5. CASE TransferExpired
  BY <1>5 DEF TransferExpired, Expired, Finish, Outcome, TypeOK, Tokened, Confirmed,
         Prompt, ReadSetup
<1>6. CASE Resend
  BY <1>6 DEF Resend, Again, Launch, TypeOK, Tokened, Confirmed, Prompt, ReadSetup
<1>7. CASE TransferFailed
  BY <1>7 DEF TransferFailed, GivesUp, Finish, Outcome, TypeOK, Tokened, Confirmed,
         Prompt, ReadSetup
<1>8. CASE SetupDone
  BY <1>8 DEF SetupDone, Dispatch, Launch, TypeOK, Tokened, Confirmed, Prompt,
         ReadSetup
<1>9. CASE StatusDone
  BY <1>9 DEF StatusDone, Finish, Outcome, TypeOK, Tokened, Confirmed, Prompt,
         ReadSetup
<1>10. CASE NothingReceived
  BY <1>10 DEF NothingReceived, Finish, Outcome, TypeOK, Tokened, Confirmed, Prompt,
         ReadSetup
<1>11. CASE Receive
  BY <1>11 DEF Receive, Finish, Outcome, Dispatch, Launch, SavedToggle, TypeOK,
         Tokened, Confirmed, Prompt, ReadSetup
<1>12. CASE Exchange
  <2>1. CASE NoAnswer
    BY <1>12, <2>1 DEF Exchange, NoAnswer, TypeOK, Tokened, Confirmed, Prompt,
           ReadSetup
  <2>2. CASE Garbled
    BY <1>12, <2>2 DEF Exchange, Garbled, TypeOK, Tokened, Confirmed, Prompt,
           ReadSetup
  <2>3. CASE Nak
    BY <1>12, <2>3 DEF Exchange, Nak, TypeOK, Tokened, Confirmed, Prompt, ReadSetup
  <2>4. CASE Stall
    BY <1>12, <2>4 DEF Exchange, Stall, TypeOK, Tokened, Confirmed, Prompt,
           ReadSetup
  <2>5. CASE Setup
    BY <1>12, <2>5 DEF Exchange, Setup, DeviceHandshake, TypeOK, Tokened, Confirmed,
           Prompt, ReadSetup
  <2>6. CASE StatusOut
    BY <1>12, <2>6 DEF Exchange, StatusOut, DeviceHandshake, TypeOK, Tokened,
           Confirmed, Prompt, ReadSetup
  <2>7. CASE StatusIn
    BY <1>12, <2>7 DEF Exchange, StatusIn, TypeOK, Tokened, Confirmed, Prompt,
           ReadSetup
  <2>8. CASE DataIn0
    BY <1>12, <2>8 DEF Exchange, DataIn0, Accept, TypeOK, Tokened, Confirmed,
           Prompt, ReadSetup
  <2>9. CASE DataIn1
    BY <1>12, <2>9 DEF Exchange, DataIn1, Accept, TypeOK, Tokened, Confirmed,
           Prompt, ReadSetup
  <2>. QED BY <1>12, <2>1, <2>2, <2>3, <2>4, <2>5, <2>6, <2>7, <2>8, <2>9 DEF Exchange
<1>13. CASE Die
  BY <1>13 DEF Die, TypeOK, Tokened, Confirmed, Prompt, ReadSetup
<1>14. CASE Offer
  BY <1>14 DEF Offer, TypeOK, Tokened, Confirmed, Prompt, ReadSetup
<1>15. CASE Unplug
  BY <1>15 DEF Unplug, TypeOK, Tokened, Confirmed, Prompt, ReadSetup
<1>16. CASE Replug
  BY <1>16 DEF Replug, TypeOK, Tokened, Confirmed, Prompt, ReadSetup
<1>17. CASE Tick
  BY <1>17 DEF Tick, TypeOK, Tokened, Confirmed, Prompt, ReadSetup
<1>. QED BY <1>1, <1>2, <1>3, <1>4, <1>5, <1>6, <1>7, <1>8, <1>9, <1>10, <1>11,
       <1>12, <1>13, <1>14, <1>15, <1>16, <1>17 DEF Next, Start, Program

\* Every step keeps ReadData.
LEMMA ReadDataStep ==
    ASSUME TypeOK, DataOK, Tokened, Confirmed, Prompt, Fifo, ReadSetup, ReadData, Next
    PROVE  ReadData'
<1>. USE TransferAssumption DEF Fault, NoFault, request, counts, result, reports, progVars,
     chipVars, ep0, ep1, env
<1>1. ASSUME NEW n \in Requests, XferGet(n) PROVE ReadData'
  BY <1>1 DEF XferGet, Dispatch, Launch, TypeOK, Tokened, Confirmed, Prompt,
         ReadData, Ahead, Whole
<1>2. CASE XferSetConf
  BY <1>2 DEF XferSetConf, HID_init, Dispatch, Launch, TypeOK, Tokened, Confirmed,
         Prompt, ReadData, Ahead, Whole
<1>3. CASE Poll
  BY <1>3 DEF Poll, Dispatch, Launch, TypeOK, Tokened, Confirmed, Prompt, ReadData,
         Ahead, Whole
<1>4. CASE TransferDone
  BY <1>4 DEF TransferDone, Expired, TypeOK, Tokened, Confirmed, Prompt, ReadData,
         Ahead, Whole
<1>5. CASE TransferExpired
  BY <1>5 DEF TransferExpired, Expired, Finish, Outcome, TypeOK, Tokened, Confirmed,
         Prompt, ReadData, Ahead, Whole
<1>6. CASE Resend
  BY <1>6 DEF Resend, Again, Launch, TypeOK, Tokened, Confirmed, Prompt, ReadData,
         Ahead, Whole
<1>7. CASE TransferFailed
  BY <1>7 DEF TransferFailed, GivesUp, Finish, Outcome, TypeOK, Tokened, Confirmed,
         Prompt, ReadData, Ahead, Whole
<1>8. CASE SetupDone
  <2>. SUFFICES ASSUME lates = 0, kind = "get" PROVE ReadData'
    BY <1>8 DEF SetupDone, ReadData
  <2>1. data = <<>> /\ stage \in {"data", "gone"} /\ (stage = "data" => sent = 0) /\ rcvfifo = <<>>
    BY <1>8 DEF SetupDone, ReadSetup, Fifo
  <2>2. data' = <<>> /\ stage' = stage /\ sent' = sent /\ rcvfifo' = <<>>
    BY <1>8, <2>1 DEF SetupDone
  <2>3. data' = Piece(0, Len(data')) /\ Len(data') = 0
    BY <2>2, PieceFacts
  <2>4. Whole' >= 0
    BY <1>8 DEF SetupDone, Whole, Least, TypeOK
  <2>. QED BY <2>1, <2>2, <2>3, <2>4 DEF ReadData
<1>9. CASE StatusDone
  BY <1>9 DEF StatusDone, Finish, Outcome, TypeOK, Tokened, Confirmed, Prompt,
         ReadData, Ahead, Whole
<1>10. CASE NothingReceived
  BY <1>10 DEF NothingReceived, Finish, Outcome, TypeOK, Tokened, Confirmed, Prompt,
         ReadData, Ahead, Whole
<1>11. CASE Receive
  <2>. SUFFICES ASSUME lates = 0, kind = "get", token = "IN0", pc' # "idle", token' = "IN0"
               PROVE  ReadData'
    BY <1>11 DEF Receive, Finish, Dispatch, Launch, ReadData, Tokened, TypeOK
  <2>1. /\ rcvfifo = <<Piece(Len(data), Ahead)>> /\ data = Piece(0, Len(data)) /\ Len(data) <= Whole
        /\ stage \in {"data", "gone"} /\ (stage = "data" /\ rcvtog = tog0 => sent = Ahead)
    BY <1>11 DEF Receive, ReadData
  <2>2. Len(data) \in Nat /\ Ahead \in Nat /\ Len(data) <= Ahead /\ Ahead <= Whole
    BY <2>1 DEF DataOK, Ahead, Whole, Least, TypeOK
  <2>3. /\ data' = data \o Piece(Len(data), Ahead) /\ rcvfifo' = <<>>
        /\ UNCHANGED <<stage, sent, rcvtog, tog0, nbytes, length>>
    BY <1>11, <2>1 DEF Receive
  <2>4. data' = Piece(0, Ahead)
    BY <2>1, <2>2, <2>3, PieceJoin
  <2>5. Len(Piece(0, Ahead)) = Ahead - 0
    BY <2>2, PieceFacts
  <2>6. Len(data') = Ahead /\ Whole' = Whole
    BY <2>2, <2>3, <2>4, <2>5 DEF Whole
  <2>. QED BY <2>1, <2>2, <2>3, <2>4, <2>6 DEF ReadData
<1>12. CASE Exchange
  <2>1. CASE NoAnswer
    BY <1>12, <2>1 DEF Exchange, NoAnswer, TypeOK, Tokened, Confirmed, Prompt,
           ReadData, Ahead, Whole
  <2>2. CASE Garbled
    BY <1>12, <2>2 DEF Exchange, Garbled, TypeOK, Tokened, Confirmed, Prompt,
           ReadData, Ahead, Whole
  <2>3. CASE Nak
    BY <1>12, <2>3 DEF Exchange, Nak, TypeOK, Tokened, Confirmed, Prompt, ReadData,
           Ahead, Whole
  <2>4. CASE Stall
    BY <1>12, <2>4 DEF Exchange, Stall, TypeOK, Tokened, Confirmed, Prompt,
           ReadData, Ahead, Whole
  <2>5. CASE Setup
    BY <1>12, <2>5 DEF Exchange, Setup, DeviceHandshake, TypeOK, Tokened, Confirmed,
           Prompt, ReadData, Ahead, Whole
  <2>6. CASE StatusOut
    BY <1>12, <2>6 DEF Exchange, StatusOut, DeviceHandshake, TypeOK, Tokened,
           Confirmed, Prompt, ReadData, Ahead, Whole
  <2>7. CASE StatusIn
    BY <1>12, <2>7 DEF Exchange, StatusIn, TypeOK, Tokened, Confirmed, Prompt,
           ReadData, Ahead, Whole
  <2>8. CASE DataIn0
    <3>. SUFFICES ASSUME lates = 0, pc # "idle", kind = "get" PROVE ReadData'
      BY <1>12, <2>8 DEF Exchange, DataIn0, ReadData
    <3>1. token = "IN0" /\ rcvfifo = <<>> /\ hrsl # "hrTOGERR"
      BY <1>12, <2>8 DEF Exchange, DataIn0, Confirmed, Prompt, Fifo, TypeOK
    <3>2. /\ data = Piece(0, Len(data)) /\ Len(data) <= Whole /\ stage = "data"
          /\ rcvtog = tog0 => sent = Len(data)
      BY <2>8, <3>1 DEF DataIn0, ReadData
    <3>3. UNCHANGED <<data, stage, nbytes, length>> /\ Whole' = Whole /\ Ahead' = Ahead
      BY <1>12, <2>8 DEF Exchange, DataIn0, Whole, Ahead
    <3>4. sent = Len(data) => NextSent = Ahead
      BY DEF NextSent, Ahead, Whole
    <3>5. CASE tog0 = rcvtog
      <4>1. rcvfifo' = <<Piece(Len(data), Ahead)>>
        BY <2>8, <3>1, <3>2, <3>4, <3>5, AppendFifo DEF DataIn0, Accept, Piece, DataOK
      <4>2. rcvtog' = 1 - rcvtog /\ \/ sent' = Ahead
                                    \/ tog0' = tog0
        BY <2>8, <3>2, <3>4, <3>5 DEF DataIn0, Accept
      <4>3. rcvtog' = tog0' => sent' = Ahead
        BY <3>5, <4>2 DEF TypeOK
      <4>. QED BY <3>2, <3>3, <4>1, <4>3 DEF ReadData
    <3>6. CASE tog0 # rcvtog
      <4>1. hrsl' = "hrTOGERR" /\ rcvfifo' = <<>>
        BY <2>8, <3>1, <3>6 DEF DataIn0, Accept
      <4>. QED BY <3>2, <3>3, <4>1 DEF ReadData
    <3>. QED BY <3>5, <3>6
  <2>9. CASE DataIn1
    BY <1>12, <2>9 DEF Exchange, DataIn1, Accept, TypeOK, Tokened, Confirmed,
           Prompt, ReadData, Ahead, Whole
  <2>. QED BY <1>12, <2>1, <2>2, <2>3, <2>4, <2>5, <2>6, <2>7, <2>8, <2>9 DEF Exchange
<1>13. CASE Die
  BY <1>13 DEF Die, TypeOK, Tokened, Confirmed, Prompt, ReadData, Ahead, Whole
<1>14. CASE Offer
  BY <1>14 DEF Offer, TypeOK, Tokened, Confirmed, Prompt, ReadData, Ahead, Whole
<1>15. CASE Unplug
  BY <1>15 DEF Unplug, TypeOK, Tokened, Confirmed, Prompt, ReadData, Ahead, Whole
<1>16. CASE Replug
  BY <1>16 DEF Replug, TypeOK, Tokened, Confirmed, Prompt, ReadData, Ahead, Whole
<1>17. CASE Tick
  BY <1>17 DEF Tick, TypeOK, Tokened, Confirmed, Prompt, ReadData, Ahead, Whole
<1>. QED BY <1>1, <1>2, <1>3, <1>4, <1>5, <1>6, <1>7, <1>8, <1>9, <1>10, <1>11,
       <1>12, <1>13, <1>14, <1>15, <1>16, <1>17 DEF Next, Start, Program

\* Every step keeps ReadStatus.
LEMMA ReadStatusStep ==
    ASSUME TypeOK, DataOK, Tokened, Prompt, Fifo, ReadData, ReadStatus, Next PROVE ReadStatus'
<1>. USE TransferAssumption DEF Fault, NoFault, request, counts, result, reports, progVars,
     chipVars, ep0, ep1, env
<1>1. ASSUME NEW n \in Requests, XferGet(n) PROVE ReadStatus'
  BY <1>1 DEF XferGet, Dispatch, Launch, TypeOK, Tokened, ReadStatus, Whole
<1>2. CASE XferSetConf
  BY <1>2 DEF XferSetConf, HID_init, Dispatch, Launch, TypeOK, Tokened, ReadStatus,
         Whole
<1>3. CASE Poll
  BY <1>3 DEF Poll, Dispatch, Launch, TypeOK, Tokened, ReadStatus, Whole
<1>4. CASE TransferDone
  BY <1>4 DEF TransferDone, Expired, TypeOK, Tokened, ReadStatus, Whole
<1>5. CASE TransferExpired
  BY <1>5 DEF TransferExpired, Expired, Finish, Outcome, TypeOK, Tokened,
         ReadStatus, Whole
<1>6. CASE Resend
  BY <1>6 DEF Resend, Again, Launch, TypeOK, Tokened, ReadStatus, Whole
<1>7. CASE TransferFailed
  BY <1>7 DEF TransferFailed, GivesUp, Finish, Outcome, TypeOK, Tokened, ReadStatus,
         Whole
<1>8. CASE SetupDone
  BY <1>8 DEF SetupDone, Dispatch, Launch, TypeOK, Tokened, ReadStatus, Whole
<1>9. CASE StatusDone
  BY <1>9 DEF StatusDone, Finish, Outcome, TypeOK, Tokened, ReadStatus, Whole
<1>10. CASE NothingReceived
  BY <1>10 DEF NothingReceived, Finish, Outcome, TypeOK, Tokened, ReadStatus, Whole
<1>11. CASE Receive
  <2>. SUFFICES ASSUME lates = 0, kind = "get", token = "IN0", pc' # "idle", token' = "OUTHS"
               PROVE  data' = Piece(0, Whole)'
    BY <1>11 DEF Receive, Finish, Dispatch, Launch, ReadStatus, Tokened, TypeOK
  <2>1. rcvfifo = <<Piece(Len(data), Ahead)>> /\ data = Piece(0, Len(data)) /\ Len(data) <= Whole
    BY <1>11 DEF Receive, ReadData
  <2>2. Len(data) \in Nat /\ Ahead \in Nat /\ Len(data) <= Ahead /\ Ahead <= Whole
    BY <2>1 DEF DataOK, Ahead, Whole, Least, TypeOK
  <2>3. Len(Piece(Len(data), Ahead)) = Ahead - Len(data)
    BY <2>2, PieceFacts
  <2>4. LastPacket(Piece(Len(data), Ahead)) /\ Whole' = Whole
    BY <1>11, <2>1 DEF Receive, Finish, Dispatch, Launch, Whole
  <2>5. Ahead - Len(data) < MaxPktSize \/ Len(data) + (Ahead - Len(data)) >= nbytes
    BY <2>3, <2>4 DEF LastPacket
  <2>6. Ahead = Whole
    BY <2>2, <2>5 DEF Ahead, Whole, Least, TypeOK
  <2>7. data' = data \o Piece(Len(data), Ahead)
    BY <1>11, <2>1 DEF Receive
  <2>. QED BY <2>1, <2>2, <2>4, <2>6, <2>7, PieceJoin
<1>12. CASE Exchange
  <2>1. CASE NoAnswer
    BY <1>12, <2>1 DEF Exchange, NoAnswer, TypeOK, Tokened, ReadStatus, Whole
  <2>2. CASE Garbled
    BY <1>12, <2>2 DEF Exchange, Garbled, TypeOK, Tokened, ReadStatus, Whole
  <2>3. CASE Nak
    BY <1>12, <2>3 DEF Exchange, Nak, TypeOK, Tokened, ReadStatus, Whole
  <2>4. CASE Stall
    BY <1>12, <2>4 DEF Exchange, Stall, TypeOK, Tokened, ReadStatus, Whole
  <2>5. CASE Setup
    BY <1>12, <2>5 DEF Exchange, Setup, DeviceHandshake, TypeOK, Tokened,
           ReadStatus, Whole
  <2>6. CASE StatusOut
    BY <1>12, <2>6 DEF Exchange, StatusOut, DeviceHandshake, TypeOK, Tokened,
           ReadStatus, Whole
  <2>7. CASE StatusIn
    BY <1>12, <2>7 DEF Exchange, StatusIn, TypeOK, Tokened, ReadStatus, Whole
  <2>8. CASE DataIn0
    BY <1>12, <2>8 DEF Exchange, DataIn0, Accept, TypeOK, Tokened, ReadStatus, Whole
  <2>9. CASE DataIn1
    BY <1>12, <2>9 DEF Exchange, DataIn1, Accept, TypeOK, Tokened, ReadStatus, Whole
  <2>. QED BY <1>12, <2>1, <2>2, <2>3, <2>4, <2>5, <2>6, <2>7, <2>8, <2>9 DEF Exchange
<1>13. CASE Die
  BY <1>13 DEF Die, TypeOK, Tokened, ReadStatus, Whole
<1>14. CASE Offer
  BY <1>14 DEF Offer, TypeOK, Tokened, ReadStatus, Whole
<1>15. CASE Unplug
  BY <1>15 DEF Unplug, TypeOK, Tokened, ReadStatus, Whole
<1>16. CASE Replug
  BY <1>16 DEF Replug, TypeOK, Tokened, ReadStatus, Whole
<1>17. CASE Tick
  BY <1>17 DEF Tick, TypeOK, Tokened, ReadStatus, Whole
<1>. QED BY <1>1, <1>2, <1>3, <1>4, <1>5, <1>6, <1>7, <1>8, <1>9, <1>10, <1>11,
       <1>12, <1>13, <1>14, <1>15, <1>16, <1>17 DEF Next, Start, Program

\* Every step keeps DescriptorWhole.
LEMMA DescriptorStep ==
    ASSUME TypeOK, Tokened, ReadStatus, DescriptorWhole, Next PROVE DescriptorWhole'
<1>. USE TransferAssumption DEF Fault, NoFault, request, counts, result, reports, progVars,
     chipVars, ep0, ep1, env
<1>1. ASSUME NEW n \in Requests, XferGet(n) PROVE DescriptorWhole'
  BY <1>1 DEF XferGet, Dispatch, Launch, TypeOK, Tokened, DescriptorWhole
<1>2. CASE XferSetConf
  BY <1>2 DEF XferSetConf, HID_init, Dispatch, Launch, TypeOK, Tokened,
         DescriptorWhole
<1>3. CASE Poll
  BY <1>3 DEF Poll, Dispatch, Launch, TypeOK, Tokened, DescriptorWhole
<1>4. CASE TransferDone
  BY <1>4 DEF TransferDone, Expired, TypeOK, Tokened, DescriptorWhole
<1>5. CASE TransferExpired
  BY <1>5 DEF TransferExpired, Expired, Finish, Outcome, TypeOK, Tokened,
         DescriptorWhole, TimedOut
<1>6. CASE Resend
  BY <1>6 DEF Resend, Again, Launch, TypeOK, Tokened, DescriptorWhole
<1>7. CASE TransferFailed
  BY <1>7 DEF TransferFailed, GivesUp, Finish, Outcome, TypeOK, Tokened,
         DescriptorWhole
<1>8. CASE SetupDone
  BY <1>8 DEF SetupDone, Dispatch, Launch, TypeOK, Tokened, DescriptorWhole
<1>9. CASE StatusDone
  <2>. SUFFICES ASSUME kind = "get", lates = 0
               PROVE  data' = [i \in 1 .. Least(nbytes, length)' |-> Byte(i)]
    BY <1>9 DEF StatusDone, DescriptorWhole
  <2>1. data' = Piece(0, Whole) /\ UNCHANGED <<nbytes, length>>
    BY <1>9 DEF StatusDone, Tokened, ReadStatus
  <2>2. Whole \in Nat
    BY DEF Whole, Least, TypeOK
  <2>. QED BY <2>1, <2>2, PieceFacts DEF Whole
<1>10. CASE NothingReceived
  BY <1>10 DEF NothingReceived, Finish, Outcome, TypeOK, Tokened, DescriptorWhole,
         NoReceive
<1>11. CASE Receive
  BY <1>11 DEF Receive, Finish, Outcome, Dispatch, Launch, SavedToggle, TypeOK,
         Tokened, DescriptorWhole
<1>12. CASE Exchange
  <2>1. CASE NoAnswer
    BY <1>12, <2>1 DEF Exchange, NoAnswer, TypeOK, Tokened, DescriptorWhole
  <2>2. CASE Garbled
    BY <1>12, <2>2 DEF Exchange, Garbled, TypeOK, Tokened, DescriptorWhole
  <2>3. CASE Nak
    BY <1>12, <2>3 DEF Exchange, Nak, TypeOK, Tokened, DescriptorWhole
  <2>4. CASE Stall
    BY <1>12, <2>4 DEF Exchange, Stall, TypeOK, Tokened, DescriptorWhole
  <2>5. CASE Setup
    BY <1>12, <2>5 DEF Exchange, Setup, DeviceHandshake, TypeOK, Tokened,
           DescriptorWhole
  <2>6. CASE StatusOut
    BY <1>12, <2>6 DEF Exchange, StatusOut, DeviceHandshake, TypeOK, Tokened,
           DescriptorWhole
  <2>7. CASE StatusIn
    BY <1>12, <2>7 DEF Exchange, StatusIn, TypeOK, Tokened, DescriptorWhole
  <2>8. CASE DataIn0
    BY <1>12, <2>8 DEF Exchange, DataIn0, Accept, TypeOK, Tokened, DescriptorWhole
  <2>9. CASE DataIn1
    BY <1>12, <2>9 DEF Exchange, DataIn1, Accept, TypeOK, Tokened, DescriptorWhole
  <2>. QED BY <1>12, <2>1, <2>2, <2>3, <2>4, <2>5, <2>6, <2>7, <2>8, <2>9 DEF Exchange
<1>13. CASE Die
  BY <1>13 DEF Die, TypeOK, Tokened, DescriptorWhole
<1>14. CASE Offer
  BY <1>14 DEF Offer, TypeOK, Tokened, DescriptorWhole
<1>15. CASE Unplug
  BY <1>15 DEF Unplug, TypeOK, Tokened, DescriptorWhole
<1>16. CASE Replug
  BY <1>16 DEF Replug, TypeOK, Tokened, DescriptorWhole
<1>17. CASE Tick
  BY <1>17 DEF Tick, TypeOK, Tokened, DescriptorWhole
<1>. QED BY <1>1, <1>2, <1>3, <1>4, <1>5, <1>6, <1>7, <1>8, <1>9, <1>10, <1>11,
       <1>12, <1>13, <1>14, <1>15, <1>16, <1>17 DEF Next, Start, Program

\* Every step keeps Polling.
LEMMA PollingStep ==
    ASSUME TypeOK, DataOK, Tokened, Confirmed, Unpolled, Prompt, Fifo, OneAhead, Polling, Next
    PROVE  Polling'
<1>. USE TransferAssumption DEF Fault, NoFault, request, counts, result, reports, progVars,
     chipVars, ep0, ep1, env
<1>1. ASSUME NEW n \in Requests, XferGet(n) PROVE Polling'
  BY <1>1 DEF XferGet, Dispatch, Launch, TypeOK, Tokened, Confirmed, Unpolled,
         Prompt, Polling, Synced
<1>2. CASE XferSetConf
  BY <1>2 DEF XferSetConf, HID_init, Dispatch, Launch, TypeOK, Tokened, Confirmed,
         Unpolled, Prompt, Polling, Synced
<1>3. CASE Poll
  <2>1. lates' = lates /\ repeated' = repeated /\ pc' = "wait" /\ kind' = "poll" /\ phase' = "poll"
    BY <1>3 DEF Poll, Dispatch, Launch
  <2>2. UNCHANGED <<taken, tog1, acked, offered, rcvToggle, rcvfifo>> /\ rcvtog' = rcvToggle
    BY <1>3 DEF Poll
  <2>3. lates = 0 => rcvfifo = <<>> /\ Synced(rcvToggle, taken) /\ repeated = FALSE
    BY <1>3 DEF Poll, Fifo, Polling
  <2>4. Len(<<>>) = 0 /\ taken + 0 = taken
    BY DEF TypeOK
  <2>. QED BY <2>1, <2>2, <2>3, <2>4 DEF Polling, Synced
<1>4. CASE TransferDone
  BY <1>4 DEF TransferDone, Expired, TypeOK, Tokened, Confirmed, Unpolled, Prompt,
         Polling, Synced
<1>5. CASE TransferExpired
  <2>1. /\ UNCHANGED <<lates, repeated, taken, tog1, acked, offered>>
        /\ UNCHANGED <<rcvToggle, rcvtog, rcvfifo, kind>>
        /\ pc = "wait" \/ pc = "result"
        /\ pc' = "idle"
    BY <1>5 DEF TransferExpired, Finish
  <2>2. ASSUME lates = 0 PROVE rcvfifo = <<>>
    BY <1>5, <2>2 DEF TransferExpired, Prompt, Fifo, Expired, TypeOK
  <2>3. phase' = phase \/ (kind = "set" /\ phase' = "error")
    BY <1>5 DEF TransferExpired, Finish, Outcome, TimedOut
  <2>4. lates = 0 /\ phase \in {"query", "poll"} => Synced(rcvToggle, taken)
    <3>1. Len(<<>>) = 0 /\ taken + 0 = taken
      BY DEF TypeOK
    <3>. QED BY <2>1, <2>2, <3>1 DEF Polling
  <2>. QED BY <2>1, <2>3, <2>4 DEF Polling, Synced
<1>6. CASE Resend
  BY <1>6 DEF Resend, Again, Launch, TypeOK, Tokened, Confirmed, Unpolled, Prompt,
         Polling, Synced
<1>7. CASE TransferFailed
  <2>1. /\ UNCHANGED <<lates, repeated, taken, tog1, acked, offered>>
        /\ UNCHANGED <<rcvToggle, rcvtog, rcvfifo, kind>>
        /\ pc = "wait" \/ pc = "result"
        /\ pc' = "idle"
    BY <1>7 DEF TransferFailed, Finish
  <2>2. ASSUME lates = 0 PROVE rcvfifo = <<>>
    BY <1>7, <2>2 DEF TransferFailed, GivesUp, Fifo
  <2>3. phase' = phase \/ (kind = "set" /\ phase' = "error")
    BY <1>7 DEF TransferFailed, GivesUp, Finish, Outcome
  <2>4. lates = 0 /\ phase \in {"query", "poll"} => Synced(rcvToggle, taken)
    <3>1. Len(<<>>) = 0 /\ taken + 0 = taken
      BY DEF TypeOK
    <3>. QED BY <2>1, <2>2, <3>1 DEF Polling
  <2>. QED BY <2>1, <2>3, <2>4 DEF Polling, Synced
<1>8. CASE SetupDone
  BY <1>8 DEF SetupDone, Dispatch, Launch, TypeOK, Tokened, Confirmed, Unpolled,
         Prompt, Polling, Synced
<1>9. CASE StatusDone
  BY <1>9 DEF StatusDone, Finish, Outcome, TypeOK, Tokened, Confirmed, Unpolled,
         Prompt, Polling, Synced
<1>10. CASE NothingReceived
  BY <1>10 DEF NothingReceived, Finish, Outcome, TypeOK, Tokened, Confirmed,
         Unpolled, Prompt, Polling, Synced
<1>11. CASE Receive
  <2>1. CASE token = "IN0"
    BY <1>11, <2>1 DEF Receive, Dispatch, Launch, Tokened, Polling, Synced, TypeOK
  <2>2. CASE token = "IN1"
    <3>1. kind = "poll" /\ phase = "poll" /\ data = <<>> /\ rcvfifo # <<>> /\ pc # "idle"
      BY <1>11, <2>2 DEF Receive, Tokened, TypeOK
    <3>2. /\ UNCHANGED <<lates, kind, tog1, acked, offered>> /\ pc' = "idle" /\ phase' = "poll"
          /\ rcvToggle' = rcvtog /\ data' = data \o Head(rcvfifo)
      BY <1>11, <2>2, <3>1 DEF Receive, Finish, Outcome, SavedToggle
    <3>3. ASSUME lates = 0 PROVE repeated' = FALSE /\ Synced(rcvtog, taken')
      <4>1. rcvfifo = <<<<Report(taken + 1)>>>> /\ Synced(rcvtog, taken + 1) /\ repeated = FALSE
        BY <3>1, <3>3 DEF Polling
      <4>2. data' = <<Report(taken + 1)>>
        BY <3>1, <3>2, <4>1
      <4>3. HasReport(data') /\ data'[1][2] = taken + 1
        BY <4>2 DEF HasReport, Report
      <4>4. taken' = taken + 1 /\ (repeated' = (repeated \/ taken' = taken))
        BY <1>11, <2>2, <4>3 DEF Receive
      <4>5. taken + 1 # taken
        BY DEF TypeOK
      <4>. QED BY <4>1, <4>4, <4>5
    <3>. QED BY <3>2, <3>3 DEF Polling, Synced
  <2>. QED BY <1>11, <2>1, <2>2 DEF Receive
<1>12. CASE Exchange
  <2>1. CASE NoAnswer
    BY <1>12, <2>1 DEF Exchange, NoAnswer, TypeOK, Tokened, Confirmed, Unpolled,
           Prompt, Polling, Synced
  <2>2. CASE Garbled
    BY <1>12, <2>2 DEF Exchange, Garbled, TypeOK, Tokened, Confirmed, Unpolled,
           Prompt, Polling, Synced
  <2>3. CASE Nak
    BY <1>12, <2>3 DEF Exchange, Nak, TypeOK, Tokened, Confirmed, Unpolled, Prompt,
           Polling, Synced
  <2>4. CASE Stall
    BY <1>12, <2>4 DEF Exchange, Stall, TypeOK, Tokened, Confirmed, Unpolled,
           Prompt, Polling, Synced
  <2>5. CASE Setup
    BY <1>12, <2>5 DEF Exchange, Setup, DeviceHandshake, TypeOK, Tokened, Confirmed,
           Unpolled, Prompt, Polling, Synced
  <2>6. CASE StatusOut
    BY <1>12, <2>6 DEF Exchange, StatusOut, DeviceHandshake, TypeOK, Tokened,
           Confirmed, Unpolled, Prompt, Polling, Synced
  <2>7. CASE StatusIn
    BY <1>12, <2>7 DEF Exchange, StatusIn, TypeOK, Tokened, Confirmed, Unpolled,
           Prompt, Polling, Synced
  <2>8. CASE DataIn0
    BY <1>12, <2>8 DEF Exchange, DataIn0, Accept, TypeOK, Tokened, Confirmed,
           Unpolled, Prompt, Polling, Synced
  <2>9. CASE DataIn1
    <3>1. /\ UNCHANGED <<lates, phase, pc, kind, taken, offered, rcvToggle, repeated>>
          /\ phase = "poll" /\ ~dead
      BY <1>12, <2>9 DEF Exchange, DataIn1, Tokened
    <3>. SUFFICES ASSUME lates = 0 PROVE Polling'
      BY <3>1 DEF Polling
    <3>2. pc # "idle" /\ token = "IN1" /\ kind = "poll" /\ rcvfifo = <<>>
      BY <1>12, <2>9 DEF Exchange, DataIn1, Confirmed, Prompt, Fifo, Tokened, TypeOK
    <3>3. rcvtog = rcvToggle /\ Synced(rcvtog, taken + Len(rcvfifo)) /\ repeated = FALSE
      BY <3>1, <3>2 DEF Polling
    <3>4. Len(rcvfifo) = 0 /\ taken + 0 = taken
      BY <3>2 DEF TypeOK
    <3>5. Synced(rcvtog, taken)
      BY <3>3, <3>4
    <3>6. CASE tog1 = rcvtog
      <4>1. acked = taken /\ offered > acked
        BY <2>9, <3>5, <3>6 DEF DataIn1, Synced
      <4>2. offered = taken + 1
        BY <1>12, <2>9, <4>1, <3>6 DEF OneAhead, TypeOK
      <4>3. rcvfifo' = <<<<Report(taken + 1)>>>> /\ rcvtog' = 1 - rcvtog
        BY <2>9, <3>2, <3>6, <4>2, AppendFifo DEF DataIn1, Accept, DataOK
      <4>4. \/ acked' = offered /\ tog1' = 1 - tog1
            \/ UNCHANGED <<acked, tog1>>
        BY <2>9 DEF DataIn1
      <4>5. Len(rcvfifo') = 1
        BY <4>3
      <4>6. Synced(rcvtog, taken + 1)'
        BY <3>1, <3>6, <4>1, <4>2, <4>3, <4>4 DEF Synced, TypeOK
      <4>. QED BY <3>1, <3>2, <3>3, <4>3, <4>5, <4>6 DEF Polling
    <3>7. CASE tog1 # rcvtog
      <4>1. UNCHANGED <<rcvfifo, rcvtog>>
        BY <2>9, <3>7 DEF DataIn1, Accept
      <4>2. \/ acked' = offered /\ tog1' = 1 - tog1
            \/ UNCHANGED <<acked, tog1>>
        BY <2>9 DEF DataIn1
      <4>3. Synced(rcvtog, taken)'
        BY <3>1, <3>5, <3>7, <4>1, <4>2 DEF Synced, TypeOK
      <4>. QED BY <3>1, <3>2, <3>3, <3>4, <4>1, <4>3 DEF Polling
    <3>. QED BY <3>6, <3>7
  <2>. QED BY <1>12, <2>1, <2>2, <2>3, <2>4, <2>5, <2>6, <2>7, <2>8, <2>9 DEF Exchange
<1>13. CASE Die
  BY <1>13 DEF Die, TypeOK, Tokened, Confirmed, Unpolled, Prompt, Polling, Synced
<1>14. CASE Offer
  BY <1>14 DEF Offer, TypeOK, Tokened, Confirmed, Unpolled, Prompt, Polling, Synced
<1>15. CASE Unplug
  BY <1>15 DEF Unplug, TypeOK, Tokened, Confirmed, Unpolled, Prompt, Polling, Synced
<1>16. CASE Replug
  BY <1>16 DEF Replug, TypeOK, Tokened, Confirmed, Unpolled, Prompt, Polling, Synced
<1>17. CASE Tick
  BY <1>17 DEF Tick, TypeOK, Tokened, Confirmed, Unpolled, Prompt, Polling, Synced
<1>. QED BY <1>1, <1>2, <1>3, <1>4, <1>5, <1>6, <1>7, <1>8, <1>9, <1>10, <1>11,
       <1>12, <1>13, <1>14, <1>15, <1>16, <1>17 DEF Next, Start, Program

\* Nothing but the program's reading, the device's next report, the clock and
\* plugging in concerns the link.
LEMMA Quiet ==
    ASSUME Next PROVE \/ UNCHANGED <<offered, taken, repeated, lates>>
                      \/ Receive \/ Offer \/ Tick \/ Replug
<1>. USE DEF Fault, NoFault, request, counts, result, reports, progVars, chipVars, ep0, ep1, env
<1>1. Start => UNCHANGED <<offered, taken, repeated, lates>>
  BY DEF Start, XferGet, XferSetConf, Poll
<1>2. Program => UNCHANGED <<offered, taken, repeated, lates>> \/ Receive
  BY DEF Program, TransferDone, TransferExpired, Resend, TransferFailed, SetupDone,
     StatusDone, NothingReceived
<1>3. Exchange => UNCHANGED <<offered, taken, repeated, lates>>
  BY DEF Exchange, NoAnswer, Garbled, Nak, Stall, Setup, StatusOut, StatusIn, DataIn0, DataIn1
<1>4. Die \/ Unplug => UNCHANGED <<offered, taken, repeated, lates>>
  BY DEF Die, Unplug
<1>. QED BY <1>1, <1>2, <1>3, <1>4 DEF Next

-----------------------------------------------------------------------------
(* The invariant. *)

LEMMA InitInv == Init => IInv
<1>. SUFFICES ASSUME Init PROVE IInv
  OBVIOUS
<1>. USE TransferAssumption DEF Init
<1>1. TypeOK
  <2>1. /\ length \in Lengths /\ sent \in 0 .. length /\ now \in 0 .. ClockTop
        /\ 0 \in 0 .. NakLimit - 1 /\ 0 \in 0 .. RetryLimit - 1
        /\ 0 \in 0 .. ClockTop + XferTimeout
        /\ 0 \in 0 .. MaxReports /\ 0 \in 0 .. MaxFaults /\ 0 \in 0 .. MaxLates
        /\ 0 \in 0 .. 1 /\ 0 \in 0 .. 0 /\ 0 \in Nat
    OBVIOUS
  <2>2. /\ token \in Tokens /\ busy \in Tokens \union {"none"} /\ hrsl \in HostResults
        /\ Len(rcvfifo) <= 2
    BY DEF Tokens, HostResults
  <2>. QED BY <2>1, <2>2 DEF TypeOK
<1>2. DataOK
  BY DEF DataOK
<1>3. Tokened /\ Confirmed /\ Unpolled /\ OneAhead /\ Ordered
  BY DEF Tokened, Confirmed, PolledIsConfigured, Unpolled, OneAhead, Ordered
<1>4. Prompt /\ Fifo /\ Reading /\ Polling
  BY DEF Prompt, Fifo, Reading, ReadSetup, ReadData, ReadStatus, DescriptorWhole, Polling
<1>. QED BY <1>1, <1>2, <1>3, <1>4 DEF IInv

LEMMA StutterInv == ASSUME IInv, UNCHANGED vars PROVE IInv'
<1>. USE DEF vars, request, counts, result, reports, progVars, chipVars, ep0, ep1, env
<1>1. TypeOK'
  BY DEF IInv, TypeOK
<1>2. DataOK' /\ Tokened' /\ Confirmed' /\ Unpolled' /\ OneAhead'
  BY DEF IInv, DataOK, Tokened, Confirmed, PolledIsConfigured, Unpolled, OneAhead
<1>3. Ordered'
  BY DEF IInv, Ordered
<1>4. Prompt' /\ Fifo'
  BY DEF IInv, Prompt, Fifo
<1>5. Reading'
  BY DEF IInv, Reading, ReadSetup, ReadData, ReadStatus, DescriptorWhole, Whole, Ahead
<1>6. Polling'
  BY DEF IInv, Polling, Synced
<1>. QED BY <1>1, <1>2, <1>3, <1>4, <1>5, <1>6 DEF IInv

LEMMA NextInv == ASSUME IInv, Next PROVE IInv'
<1>1. TypeOK' /\ DataOK'
  BY TypeStep, DataStep DEF IInv
<1>2. Tokened' /\ Confirmed' /\ Unpolled' /\ OneAhead' /\ Ordered'
  BY TokenedStep, ConfirmedStep, UnpolledStep, OneAheadStep, OrderedStep DEF IInv
<1>3. Prompt' /\ Fifo' /\ Polling'
  BY PromptStep, FifoStep, PollingStep DEF IInv
<1>4. Reading'
  BY ReadSetupStep, ReadDataStep, ReadStatusStep, DescriptorStep DEF IInv, Reading
<1>. QED BY <1>1, <1>2, <1>3, <1>4 DEF IInv

\* The invariant holds: Prompt, Fifo, Reading and Polling say where program, chip
\* and device are in a transfer.
THEOREM TransferInvariant == Spec => []IInv
<1>1. IInv /\ [Next]_vars => IInv'
  BY StutterInv, NextInv
<1>. QED BY InitInv, <1>1, PTL DEF Spec

-----------------------------------------------------------------------------
(* What follows from it. *)

\* Every variable has a value of its type: the counts of NAKs and retries stay
\* below their limits, and the receive FIFO never holds more than two packets.
THEOREM TransferTypes == Spec => []TypeOK
BY TransferInvariant, PTL DEF IInv

\* XferDispatchPkt reads HRSL for the packet it launched, unless it gave up on one
\* before whose answer came late.
THEOREM ResultIsItsOwn == Spec => []ResultIsOwn
<1>1. IInv => ResultIsOwn
  BY DEF IInv, Prompt, ResultIsOwn
<1>. QED BY <1>1, TransferInvariant, PTL

\* A device that is polled is configured, also when answers came late: a status
\* stage that XferCtrlND takes for a success is the device's own.
THEOREM PolledIsConfiguredAlways == Spec => []PolledIsConfigured
<1>1. IInv => PolledIsConfigured
  BY DEF IInv, Confirmed
<1>. QED BY <1>1, TransferInvariant, PTL

\* XferCtrlReq returns 0 for a read only with the descriptor's bytes in order,
\* whatever got lost, for every packet size, descriptor and request.
THEOREM DescriptorIsWhole == Spec => []DescriptorWhole
<1>1. IInv => DescriptorWhole
  BY DEF IInv, Reading
<1>. QED BY <1>1, TransferInvariant, PTL

\* What a step does to the link when a packet is read.
LEMMA ReceiveLink ==
    ASSUME IInv, IInv', Receive PROVE [Link!Next]_(Link!vars)
<1>. USE DEF Link!Next, Link!vars, Link!Take, Link!Repeat
<1>1. UNCHANGED <<offered, lates>> /\ rcvfifo # <<>>
  BY DEF Receive, ep1, env
<1>2. CASE ~(token = "IN1" /\ HasReport(data'))
  <2>1. taken' = taken /\ repeated' = repeated
    BY <1>2 DEF Receive, reports, IInv, TypeOK
  <2>. QED BY <1>1, <2>1
<1>3. CASE token = "IN1" /\ HasReport(data')
  <2>1. data = <<>> /\ kind = "poll" /\ phase = "poll"
    BY <1>3 DEF Receive, IInv, Tokened, TypeOK
  <2>2. /\ Head(rcvfifo) = rcvfifo[1] /\ Head(rcvfifo) \in Seq(Words)
        /\ 1 \in 1 .. Len(rcvfifo)
    BY <1>1, TailFifo DEF IInv, DataOK
  <2>3. data' = rcvfifo[1]
    BY <2>1, <2>2 DEF Receive
  <2>4. /\ taken' = rcvfifo[1][1][2]
        /\ repeated' = (repeated \/ (taken' = taken))
    BY <1>3, <2>3 DEF Receive
  <2>5. taken' \in taken .. offered
    BY <1>3, <2>2, <2>3, <2>4 DEF IInv, Ordered
  <2>6. CASE lates = 0
    <3>1. repeated' = FALSE /\ repeated = FALSE
      BY <1>1, <2>6 DEF IInv, Polling
    <3>2. rcvfifo = <<<<Report(taken + 1)>>>>
      BY <1>1, <2>1, <2>6 DEF Receive, IInv, Polling
    <3>3. taken' = taken + 1
      BY <2>4, <3>2 DEF Report
    <3>4. taken' \in taken + 1 .. offered
      BY <2>5, <3>3 DEF IInv, TypeOK
    <3>. QED BY <1>1, <3>1, <3>3, <3>4
  <2>7. CASE lates > 0
    <3>1. CASE taken' = taken
      BY <1>1, <2>4, <2>7, <3>1
    <3>2. CASE taken' # taken
      <4>1. taken' \in taken + 1 .. offered
        BY <2>5, <3>2 DEF IInv, TypeOK
      <4>2. repeated' = repeated
        BY <2>4, <3>2 DEF IInv, TypeOK
      <4>. QED BY <1>1, <2>7, <4>1, <4>2
    <3>. QED BY <3>1, <3>2
  <2>8. lates = 0 \/ lates > 0
    BY DEF IInv, TypeOK
  <2>. QED BY <2>6, <2>7, <2>8
<1>. QED BY <1>2, <1>3

\* What a step does to the link when the device has a new report.
LEMMA OfferLink ==
    ASSUME IInv, Offer PROVE [Link!Next]_(Link!vars)
<1>1. offered = acked /\ offered' = offered + 1 /\ UNCHANGED <<taken, repeated, lates>>
  BY DEF Offer, progVars, reports, env
<1>2. ASSUME lates = 0 PROVE offered <= taken + 1
  <2>1. CASE phase \in {"enum", "error"}
    BY <1>1, <2>1 DEF IInv, Unpolled
  <2>2. CASE phase \in {"query", "poll"} /\ (pc = "idle" \/ kind # "poll")
    BY <1>1, <1>2, <2>2 DEF IInv, Polling, Synced, TypeOK
  <2>3. CASE phase \in {"query", "poll"} /\ pc # "idle" /\ kind = "poll"
    <3>1. Len(rcvfifo) \in 0 .. 1
      BY <1>2 DEF IInv, Fifo
    <3>2. Synced(rcvtog, taken + Len(rcvfifo))
      BY <1>2, <2>3 DEF IInv, Polling
    <3>3. PICK n \in 0 .. 1 : taken + n = acked \/ taken + n = offered
      BY <3>1, <3>2 DEF Synced
    <3>. QED BY <1>1, <3>3 DEF IInv, TypeOK
  <2>. QED BY <2>1, <2>2, <2>3 DEF IInv, TypeOK
<1>3. CASE lates = 0
  BY <1>1, <1>2, <1>3 DEF Link!Next, Link!Offer
<1>4. CASE lates > 0
  BY <1>1, <1>4 DEF Link!Next, Link!Offer
<1>. QED BY <1>3, <1>4 DEF IInv, TypeOK

\* Every step of the transfers is a step of the link or leaves it alone.
LEMMA LinkStep ==
    ASSUME IInv, IInv', Next PROVE [Link!Next]_(Link!vars)
<1>1. CASE UNCHANGED <<offered, taken, repeated, lates>>
  BY <1>1 DEF Link!vars
<1>2. CASE Receive
  BY <1>2, ReceiveLink
<1>3. CASE Offer
  BY <1>3, OfferLink
<1>4. CASE Tick
  <2>1. UNCHANGED <<offered, taken, repeated>> /\ lates' \in {lates, lates + 1}
    BY <1>4 DEF Tick, progVars, reports, ep1
  <2>2. CASE lates' = lates
    BY <2>1, <2>2 DEF Link!vars
  <2>3. CASE lates' = lates + 1
    <3>1. (lates > 0)' = TRUE
      BY <2>3 DEF IInv, TypeOK
    <3>. QED BY <2>1, <3>1 DEF Link!Next, Link!Slow
  <2>. QED BY <2>1, <2>2, <2>3
<1>5. CASE Replug
  BY <1>5 DEF Replug, env, Link!Next, Link!Replug
<1>. QED BY <1>1, <1>2, <1>3, <1>4, <1>5, Quiet

\* The interrupt endpoint implements ReportLink: with toggles, retries and lost
\* handshakes every report is taken once and in order, and a late chip costs
\* reports or brings the last one again, never an older one.
THEOREM LinkIsImplemented == Spec => ImplementsReportLink
<1>1. Init => Link!Init
  BY DEF Init, Link!Init
<1>2. IInv /\ IInv' /\ [Next]_vars => [Link!Next]_(Link!vars)
  <2>1. ASSUME UNCHANGED vars PROVE UNCHANGED Link!vars
    BY <2>1 DEF vars, progVars, reports, ep1, env, Link!vars
  <2>. QED BY <2>1, LinkStep
<1>. QED BY <1>1, <1>2, TransferInvariant, PTL DEF Spec, ImplementsReportLink, Link!Spec
================================================================================

------------------------------ MODULE HalProofs ------------------------------
(****************************************************************************)
(* Proofs about the board support package, for every number of descriptors, *)
(* every length of the driver's buffers and of the device's FIFOs, every    *)
(* program and any number of characters.  First the exchange with the USB   *)
(* chip, where with one credit at most one byte is on its way: in the       *)
(* holding register, in the shift register, or answered and not yet read.   *)
(* Then the table of descriptors, the two interrupts of the terminal, where *)
(* each character is on its way from one end of it to the other, and the    *)
(* alarms, on a list of any length.                                         *)
(****************************************************************************)
EXTENDS Hal, TLAPS, SequenceTheorems, WellFoundedInduction

-----------------------------------------------------------------------------
(* The exchange with the USB chip. *)

USE SpiAssumption DEF SpiAssumption

\* The first n bytes of a command with w bytes, and the first n answers it keeps.
Byte(w, i) == IF i <= w THEN i ELSE 0
Said(w, n) == [i \in 1 .. n |-> Byte(w, i)]
Kept(w, n) == [i \in 1 .. n |-> w + i]

LEMMA SaidNext ==
    ASSUME NEW w \in Nat, NEW n \in Nat
    PROVE  Append(Said(w, n), Byte(w, n + 1)) = Said(w, n + 1)
BY DEF Said, Byte

LEMMA SaidLength ==
    ASSUME NEW w \in Nat, NEW n \in Nat
    PROVE  Said(w, n) \in Seq(Nat) /\ Len(Said(w, n)) = n
BY DEF Said, Byte

LEMMA KeptNext ==
    ASSUME NEW w \in Nat, NEW n \in Nat
    PROVE  Append(Kept(w, n), w + n + 1) = Kept(w, n + 1)
BY DEF Kept

LEMMA KeptLength ==
    ASSUME NEW w \in Nat, NEW n \in Nat
    PROVE  Kept(w, n) \in Seq(Nat) /\ Len(Kept(w, n)) = n
BY DEF Kept

LEMMA NothingYet == \A w : << >> = Said(w, 0) /\ << >> = Kept(w, 0)
BY DEF Said, Kept

-----------------------------------------------------------------------------
(* The invariant. *)

\* The answers the program has taken from the core, kept or dropped.
Taken == write_length - read_ignore + Len(read_data)

SpiTypes ==
    /\ write_length \in Nat /\ read_length \in Nat
    /\ sent \in Nat /\ read_ignore \in 0 .. write_length /\ read_data \in Seq(Nat)
    /\ rrdy \in BOOLEAN /\ RRDY \in BOOLEAN /\ primed \in BOOLEAN /\ transmitting \in BOOLEAN
    /\ cmd \in {"none", "discard", "poll", "put", "get", "drain"}

\* What it has taken is dropped first and then kept, in order.
Sorted ==
    /\ read_data = Kept(write_length, Len(read_data))
    /\ read_ignore > 0 => Len(read_data) = 0

Quiet == ~primed /\ ~transmitting /\ ~RRDY

\* One byte is under way, in one of three places.
UnderWay ==
    \/ /\ primed /\ ~transmitting /\ ~RRDY /\ tx_holding = Byte(write_length, sent)
       /\ frame = Said(write_length, sent - 1)
    \/ /\ ~primed /\ transmitting /\ ~RRDY /\ shift_reg = Byte(write_length, sent)
       /\ frame = Said(write_length, sent - 1)
    \/ /\ ~primed /\ ~transmitting /\ RRDY /\ rx_holding = sent
       /\ frame = Said(write_length, sent)

Total == write_length + read_length

SpiInv ==
    /\ SpiTypes /\ Sorted /\ ~E
    /\ cmd \in {"none", "drain"} =>
           Quiet /\ Taken = Total /\ frame = Said(write_length, Total)
    /\ cmd = "discard" =>
           /\ Total > 0 /\ Taken = 0 /\ sent = 0 /\ credits = 1
           /\ ~primed /\ ~transmitting /\ frame = << >>
    /\ cmd \in {"poll", "put", "get"} =>
           /\ Taken < Total
           /\ \/ /\ cmd # "get" /\ credits = 1 /\ sent = Taken
                 /\ Quiet /\ frame = Said(write_length, sent)
              \/ /\ cmd # "put" /\ credits = 0 /\ sent = Taken + 1
                 /\ UnderWay
    /\ cmd = "put" => ~rrdy
    /\ cmd = "get" => RRDY

LEMMA InitSpi == spiInit => SpiInv
<1> SUFFICES ASSUME spiInit PROVE SpiInv
  OBVIOUS
<1>1. Len(read_data) = 0 /\ write_length = 0 /\ frame = Said(0, 0) /\ read_data = Kept(0, 0)
  BY NothingYet DEF spiInit
<1>2. SpiTypes /\ Quiet
  <2>1. read_data \in Seq(Nat)
    BY DEF spiInit
  <2>2. read_ignore \in 0 .. write_length
    BY DEF spiInit
  <2> QED BY <2>1, <2>2 DEF spiInit, SpiTypes, Quiet
<1>4. Sorted
  BY <1>1 DEF Sorted
<1>3. Taken = 0 /\ Total = 0
  BY <1>1 DEF spiInit, Taken, Total
<1> QED BY <1>1, <1>2, <1>3, <1>4 DEF spiInit, SpiInv

LEMMA CallSpi ==
    ASSUME SpiInv, NEW w \in Nat, NEW r \in Nat, w > 0, CommandCalled(w, r)
    PROVE  SpiInv'
<1>1. Len(read_data') = 0 /\ frame' = << >> /\ read_data' = Kept(w, 0)
  BY NothingYet DEF CommandCalled
<1>2. Credits = 1
  BY DEF Credits
<1>3. SpiTypes' /\ Sorted'
  BY <1>1 DEF CommandCalled, SpiInv, SpiTypes, Sorted, core, progress
<1> QED BY <1>1, <1>2, <1>3 DEF CommandCalled, SpiInv, Taken, Total, Quiet, core

LEMMA DiscardSpi ==
    ASSUME SpiInv, Discard
    PROVE  SpiInv'
<1>1. frame = Said(write_length, 0)
  BY NothingYet DEF Discard, SpiInv
<1>2. SpiTypes' /\ Sorted'
  BY DEF Discard, SpiInv, SpiTypes, Sorted, command, progress
<1>3. UNCHANGED <<Taken, Total>>
  BY DEF Discard, Taken, Total, command, progress
<1> QED BY <1>1, <1>2, <1>3 DEF Discard, SpiInv, Quiet, command, progress

LEMMA PollSpi ==
    ASSUME SpiInv, Poll
    PROVE  SpiInv'
<1>1. SpiTypes' /\ Sorted'
  BY DEF Poll, SpiInv, SpiTypes, Sorted, command, core
<1>2. UNCHANGED <<Taken, Total, Quiet, UnderWay>>
  BY DEF Poll, Taken, Total, Quiet, UnderWay, command, core
<1> QED BY <1>1, <1>2 DEF Poll, SpiInv, TRDY, Quiet, UnderWay, command, core

LEMMA PutSpi ==
    ASSUME SpiInv, Put
    PROVE  SpiInv'
<1>1. /\ Taken < Total /\ sent = Taken /\ credits = 1 /\ Quiet /\ ~rrdy /\ ~E
      /\ frame = Said(write_length, sent) /\ cmd = "put" /\ cmd' = "poll" /\ sent \in Nat
  BY DEF Put, SpiInv, SpiTypes
<1>2. sent < write_length + read_length /\ TRDY
  BY <1>1 DEF Total, TRDY, Quiet
<1>3. /\ credits' = 0 /\ sent' = sent + 1 /\ tx_holding' = Byte(write_length, sent + 1)
      /\ primed' /\ ~E'
      /\ UNCHANGED <<write_length, read_length, read_ignore, read_data, rrdy, shift_reg,
                     transmitting, rx_holding, RRDY, frame>>
  <2>1. sent + 1 <= write_length <=> sent < write_length
    BY <1>1 DEF SpiInv, SpiTypes
  <2> QED BY <1>1, <1>2, <2>1 DEF Put, Byte, command
<1>4. UNCHANGED <<Taken, Total>>
  BY <1>3 DEF Taken, Total
<1>5. SpiTypes' /\ Sorted'
  BY <1>1, <1>3 DEF SpiInv, SpiTypes, Sorted, Put
<1>6. UnderWay'
  BY <1>1, <1>3 DEF UnderWay, Quiet
<1> QED BY <1>1, <1>3, <1>4, <1>5, <1>6 DEF SpiInv

\* The loop's two conditions for leaving are one.
LEMMA AllTaken ==
    ASSUME NEW w \in Nat, NEW r \in Nat, NEW i \in Nat, NEW k \in Nat,
           i <= w, i > 0 => k = 0, k <= r \/ i > 0
    PROVE  w - i + k = w + r <=> i = 0 /\ k = r
OBVIOUS

LEMMA GetSpi ==
    ASSUME SpiInv, Get
    PROVE  SpiInv'
<1>0. /\ write_length \in Nat /\ read_length \in Nat /\ sent \in Nat
      /\ read_ignore \in 0 .. write_length /\ read_data \in Seq(Nat) /\ Len(read_data) \in Nat
  BY DEF SpiInv, SpiTypes
<1>1. /\ Taken < Total /\ sent = Taken + 1 /\ credits = 0 /\ ~E
      /\ primed = FALSE /\ transmitting = FALSE /\ rx_holding = sent /\ frame = Said(write_length, sent)
  BY DEF Get, SpiInv, SpiTypes, UnderWay
<1>2. /\ credits' = 1 /\ RRDY' = FALSE
      /\ UNCHANGED <<write_length, read_length, sent, rrdy, primed, transmitting, E, frame>>
  BY <1>1 DEF Get, command
<1>3. /\ Sorted' /\ Taken' = Taken + 1 /\ Len(read_data') \in Nat
      /\ read_ignore' \in 0 .. write_length /\ read_data' \in Seq(Nat)
  <2>1. CASE read_ignore > 0
    BY <1>0, <1>2, <2>1 DEF Get, Sorted, SpiInv, Taken
  <2>2. CASE ~(read_ignore > 0)
    <3> DEFINE n == Len(read_data)
    <3>1. read_ignore = 0 /\ read_ignore' = 0 /\ rx_holding = write_length + n + 1
      BY <1>0, <1>1, <2>2 DEF Get, Taken
    <3>2. read_data' = Append(Kept(write_length, n), write_length + n + 1)
      BY <2>2, <3>1 DEF Get, SpiInv, Sorted
    <3>3. read_data' = Kept(write_length, n + 1)
      BY <1>0, <3>2, KeptNext
    <3>4. Len(read_data') = n + 1 /\ read_data' \in Seq(Nat)
      BY <1>0, <3>3, KeptLength
    <3>5. Sorted'
      BY <1>2, <3>1, <3>3, <3>4 DEF Sorted
    <3>6. Taken' = Taken + 1
      BY <1>0, <1>2, <3>1, <3>4 DEF Taken
    <3> QED BY <1>0, <3>1, <3>4, <3>5, <3>6
  <2> QED BY <2>1, <2>2
<1>4. Total' = Total /\ Quiet'
  BY <1>1, <1>2 DEF Total, Quiet
<1>5. Len(read_data') <= read_length \/ read_ignore' > 0
  BY <1>0, <1>1, <1>2, <1>3, SMTT(30) DEF Taken, Total
<1>6. cmd' = IF Taken' = Total' THEN "drain" ELSE "poll"
  <2>1. read_ignore' > 0 => Len(read_data') = 0
    BY <1>3 DEF Sorted
  <2>2. /\ write_length \in Nat /\ read_length \in Nat
        /\ read_ignore' \in Nat /\ read_ignore' <= write_length /\ Len(read_data') \in Nat
    BY <1>0, <1>3
  <2>3. /\ Taken' = write_length - read_ignore' + Len(read_data')
        /\ Total' = write_length + read_length
    BY <1>2 DEF Taken, Total
  <2>4. Taken' = Total' <=> read_ignore' = 0 /\ Len(read_data') = read_length
    BY <1>5, <2>1, <2>2, <2>3, AllTaken
  <2> QED BY <2>4 DEF Get
<1>7. SpiTypes'
  BY <1>0, <1>2, <1>3, <1>6 DEF SpiInv, SpiTypes
<1>8. Taken' = sent' /\ sent' \in Int /\ Total' \in Int /\ Taken' <= Total'
  BY <1>0, <1>1, <1>2, <1>3, <1>4 DEF Taken, Total
<1>9. frame' = Said(write_length', sent') /\ (Taken' = Total' \/ Taken' < Total')
  BY <1>1, <1>2, <1>8
<1> QED BY <1>0, <1>1, <1>2, <1>3, <1>4, <1>6, <1>7, <1>8, <1>9 DEF SpiInv

LEMMA ReleaseSpi ==
    ASSUME SpiInv, Release
    PROVE  SpiInv'
<1>1. SpiTypes' /\ Sorted'
  BY DEF Release, SpiInv, SpiTypes, Sorted, command, progress, core
<1>2. UNCHANGED <<Taken, Total, Quiet>>
  BY DEF Release, Taken, Total, Quiet, command, progress, core
<1> QED BY <1>1, <1>2 DEF Release, SpiInv, command, progress, core

LEMMA LoadSpi ==
    ASSUME SpiInv, Load
    PROVE  SpiInv'
<1>1. cmd \in {"poll", "get"} /\ UnderWay /\ ~RRDY
  BY DEF Load, SpiInv, SpiTypes, Quiet, UnderWay
<1>2. UnderWay'
  BY <1>1 DEF Load, UnderWay, command, progress
<1>3. UNCHANGED <<Taken, Total>> /\ SpiTypes' /\ Sorted'
  BY DEF Load, SpiInv, SpiTypes, Sorted, Taken, Total, command, progress
<1> QED BY <1>1, <1>2, <1>3 DEF Load, SpiInv, Quiet, command, progress

LEMMA ShiftedSpi ==
    ASSUME SpiInv, Shifted
    PROVE  SpiInv'
<1>1. /\ cmd = "poll" /\ credits = 0 /\ sent = Taken + 1 /\ ~E /\ ~RRDY /\ ~primed
      /\ shift_reg = Byte(write_length, sent) /\ frame = Said(write_length, sent - 1)
  BY DEF Shifted, SpiInv, SpiTypes, Quiet, UnderWay
<1>2. sent \in Nat /\ write_length \in Nat /\ sent - 1 \in Nat
  BY <1>1 DEF SpiInv, SpiTypes, Taken
<1>3. PICK n \in Nat : n = sent - 1 /\ n + 1 = sent
  BY <1>2
<1>4. Len(frame) = n /\ Append(frame, shift_reg) = Said(write_length, n + 1)
  BY <1>1, <1>2, <1>3, SaidNext, SaidLength, ZenonT(60)
<1>5. UnderWay'
  BY <1>1, <1>3, <1>4 DEF Shifted, UnderWay, command, progress
<1>6. UNCHANGED <<Taken, Total>> /\ SpiTypes' /\ Sorted'
  BY DEF Shifted, SpiInv, SpiTypes, Sorted, Taken, Total, command, progress
<1> QED BY <1>1, <1>5, <1>6 DEF Shifted, SpiInv, command, progress

LEMMA StaySpi ==
    ASSUME SpiInv, UNCHANGED spiVars
    PROVE  SpiInv'
BY DEF SpiInv, SpiTypes, Sorted, Quiet, UnderWay, Taken, Total, spiVars, command, progress, core

-----------------------------------------------------------------------------
(* What the module Hal needs. *)

\* Every step of a command or of the core.
LEMMA SpiStep ==
    ASSUME SpiInv,
           \/ MAXreg_wr \/ MAXreg_rd \/ MAXbytes_wr \/ MAXbytes_rd
           \/ Discard \/ Poll \/ Put \/ Get \/ Release \/ Load \/ Shifted
    PROVE  SpiInv'
<1>1. CASE MAXreg_wr \/ MAXreg_rd \/ MAXbytes_wr \/ MAXbytes_rd
  <2>1. PICK w \in Nat, r \in Nat : w > 0 /\ CommandCalled(w, r)
    BY <1>1 DEF MAXreg_wr, MAXreg_rd, MAXbytes_wr, MAXbytes_rd
  <2> QED BY <2>1, CallSpi
<1> QED BY <1>1, DiscardSpi, PollSpi, PutSpi, GetSpi, ReleaseSpi, LoadSpi, ShiftedSpi

LEMMA SpiExchanges == SpiInv => SpiExchange
<1> SUFFICES ASSUME SpiInv, cmd = "none"
             PROVE  /\ frame = Said(write_length, Total)
                    /\ read_data = Kept(write_length, read_length)
  BY DEF SpiInv, SpiExchange, Said, Byte, Kept, Total
<1>1. Taken = Total /\ Sorted /\ frame = Said(write_length, Total) /\ SpiTypes
  BY DEF SpiInv
<1>2. Len(read_data) = read_length
  BY <1>1 DEF Taken, Total, Sorted, SpiTypes
<1> QED BY <1>1, <1>2 DEF Sorted

HIDE SpiAssumption DEF SpiAssumption

-----------------------------------------------------------------------------
(* The table of descriptors. *)

FlagNames == {"O_RDONLY", "O_WRONLY", "O_RDWR", "O_NONBLOCK", "O_APPEND", "ALT_FD_DEV", "ALT_FD_EXCL"}

Entries == [dev : Device \union {NoDev}, flags : SUBSET FlagNames]

FileTypes ==
    /\ alt_dev_list \subseteq Device
    /\ alt_fd_list \in [Fd -> Entries]
    /\ alt_max_fd \in Int
    /\ held \subseteq Fd

\* The high-water mark is above everything that is in use or locked; that is
\* why the searches for a lock find it.
BelowMark ==
    \A fd \in Fd : /\ fd \notin StdFd /\ ~IsFree(fd) => fd <= alt_max_fd
                   /\ Has(fd, "ALT_FD_EXCL") => ~IsFree(fd) /\ fd <= alt_max_fd

StreamsStay == \A fd \in StdFd : ~IsFree(fd)

\* Before main nothing is locked or held, and from then on the mark is above the
\* streams: alt_io_redirect has had a fourth descriptor for a moment.
Redirected ==
    IF stage \in {"main", "exit"} THEN alt_max_fd > 2
    ELSE held = {} /\ \A fd \in Fd : ~Has(fd, "ALT_FD_EXCL")

FileInv == FileTypes /\ NoLeak /\ BelowMark /\ StreamsStay /\ Redirected

USE FileAssumption, HalAssumption DEF FileAssumption, HalAssumption

-----------------------------------------------------------------------------
(* The steps of the table. *)

Less == {pair \in Nat \X Nat : pair[1] < pair[2]}

LEMMA LessWellFounded == IsWellFoundedOn(Less, Nat)
BY NatLessThanWellFounded, Zenon DEF Less, OpToRel

\* The search of alt_get_fd finds the first free descriptor.
LEMMA GetFd ==
    ASSUME FileInv, FreeFds # {}
    PROVE  /\ alt_get_fd \in Fd /\ alt_get_fd > 2
           /\ IsFree(alt_get_fd) /\ alt_get_fd \notin held
<1>1. FreeFds \subseteq Nat /\ FreeFds \subseteq Fd
  BY DEF FreeFds, Fd
<1>2. PICK fd \in FreeFds : \A other \in FreeFds : ~(<<other, fd>> \in Less)
  BY <1>1, LessWellFounded, WFMin, Zenon
<1>3. \A other \in FreeFds : fd <= other
  <2> SUFFICES ASSUME NEW other \in FreeFds, other < fd
               PROVE  FALSE
    BY <1>1
  <2>1. <<other, fd>> \in Less
    BY <1>1 DEF Less
  <2> QED BY <1>2, <2>1, Zenon
<1>4. alt_get_fd \in FreeFds
  BY <1>3 DEF alt_get_fd
<1>5. alt_get_fd \in Fd /\ IsFree(alt_get_fd)
  BY <1>4 DEF FreeFds
<1>6. alt_get_fd \notin StdFd
  BY <1>5 DEF FileInv, StreamsStay
<1> QED BY <1>5, <1>6 DEF FileInv, NoLeak, Fd, StdFd

LEMMA InitFiles == Init => FileInv
BY DEF Init, filesInit, FileInv, FileTypes, NoLeak, BelowMark, StreamsStay, Redirected, Entries,
       FlagNames, Fd, StdFd, Free, IsFree, Device_Of, Has

LEMMA RegStep ==
    ASSUME FileInv, alt_dev_reg(JtagUart0), stage \notin {"main", "exit"}, stage' \notin {"main", "exit"}
    PROVE  FileInv'
BY DEF FileInv, FileTypes, NoLeak, BelowMark, StreamsStay, Redirected, alt_dev_reg, IsFree,
     Device_Of, Has

LEMMA RedirectStep ==
    ASSUME FileInv, alt_io_redirect(JtagUart0), stage \notin {"main", "exit"}, FreeFds # {}
    PROVE  FileInv'
<1>0. alt_get_fd \in Fd /\ alt_get_fd > 2
  BY GetFd
<1> DEFINE As(mode) == [dev |-> JtagUart0, flags |-> {mode, "ALT_FD_DEV"}]
<1>a. As("O_RDONLY") \in Entries /\ As("O_WRONLY") \in Entries
  BY DEF Entries, FlagNames
<1>b. /\ alt_fd_list \in [Fd -> Entries] /\ 0 \in Fd /\ 1 \in Fd /\ 2 \in Fd
      /\ alt_fd_list' = [alt_fd_list EXCEPT ![0] = As("O_RDONLY"), ![1] = As("O_WRONLY"),
                                           ![2] = As("O_WRONLY")]
  BY DEF FileInv, FileTypes, alt_io_redirect, Fd
<1>c. alt_fd_list' \in [Fd -> Entries]
  <2> HIDE DEF As
  <2> QED BY <1>a, <1>b
<1>1. FileTypes'
  <2>1. alt_max_fd' \in Int
    BY <1>0 DEF FileInv, FileTypes, alt_io_redirect, Fd, MaxWith
  <2> QED BY <1>c, <2>1 DEF FileInv, FileTypes, alt_io_redirect
<1>2. \A fd \in Fd \ StdFd : alt_fd_list'[fd] = alt_fd_list[fd]
  BY DEF FileInv, FileTypes, alt_io_redirect, Fd, StdFd
<1>3. \A fd \in StdFd : alt_fd_list'[fd].dev = JtagUart0 /\ "ALT_FD_EXCL" \notin alt_fd_list'[fd].flags
  <2>1. StdFd = {0, 1, 2}
    BY DEF StdFd
  <2>2. \A fd \in StdFd : alt_fd_list'[fd] \in {As("O_RDONLY"), As("O_WRONLY")}
    <3> HIDE DEF As
    <3> QED BY <1>b, <2>1
  <2> QED BY <2>2
<1>4. alt_max_fd' > 2 /\ alt_max_fd' >= alt_max_fd /\ held' = held
  BY <1>0 DEF alt_io_redirect, MaxWith, Fd, FileInv, FileTypes
<1>5. StdFd \subseteq Fd /\ JtagUart0 # NoDev
  BY DEF StdFd, Fd
<1>6. NoLeak'
  BY <1>2, <1>4 DEF FileInv, NoLeak, IsFree, Device_Of
<1>7. StreamsStay'
  BY <1>3, <1>5 DEF StreamsStay, IsFree, Device_Of
<1>8. BelowMark'
  <2> SUFFICES ASSUME NEW fd \in Fd
               PROVE  (/\ fd \notin StdFd /\ ~IsFree(fd) => fd <= alt_max_fd
                       /\ Has(fd, "ALT_FD_EXCL") => ~IsFree(fd) /\ fd <= alt_max_fd)'
    BY DEF BelowMark
  <2>1. CASE fd \in StdFd
    BY <2>1, <1>3 DEF Has
  <2>2. CASE fd \notin StdFd
    BY <2>2, <1>1, <1>2, <1>4 DEF FileInv, BelowMark, Has, IsFree, Device_Of, FileTypes, Fd
  <2> QED BY <2>1, <2>2
<1>9. Redirected'
  <2>1. \A fd \in Fd : ~Has(fd, "ALT_FD_EXCL")'
    BY <1>2, <1>3 DEF FileInv, Redirected, Has
  <2> QED BY <2>1, <1>4 DEF FileInv, Redirected
<1> QED BY <1>1, <1>6, <1>7, <1>8, <1>9 DEF FileInv

LEMMA CloseStep ==
    ASSUME FileInv, NEW fd \in held \union StdFd, NEW refused, CloseReturns(fd, refused),
           stage \in {"main", "exit"}, stage' \in {"main", "exit"}
    PROVE  FileInv'
<1>0. fd \in Fd /\ \A other \in Fd : other \notin StdFd <=> other > 2
  BY DEF FileInv, FileTypes, Fd, StdFd
<1>1. CASE fd \in StdFd
  <2>1. ~(fd > 2) /\ fd \notin held
    BY <1>0, <1>1 DEF FileInv, NoLeak
  <2>2. UNCHANGED <<alt_dev_list, alt_fd_list, alt_max_fd, held>>
    BY <2>1 DEF CloseReturns, alt_release_fd
  <2> QED BY <2>2 DEF FileInv, FileTypes, NoLeak, BelowMark, StreamsStay, Redirected, IsFree,
                     Device_Of, Has
<1>2. CASE fd \notin StdFd
  <2>1. /\ alt_fd_list' = [alt_fd_list EXCEPT ![fd] = Free] /\ held' = held \ {fd}
        /\ UNCHANGED <<alt_dev_list, alt_max_fd>> /\ Free \in Entries
    BY <1>0, <1>2 DEF CloseReturns, alt_release_fd, Free, Entries
  <2>2. alt_fd_list'[fd] = Free /\ \A other \in Fd \ {fd} : alt_fd_list'[other] = alt_fd_list[other]
    BY <1>0, <2>1 DEF FileInv, FileTypes
  <2>3. FileTypes'
    BY <2>1 DEF FileInv, FileTypes
  <2>4. IsFree(fd)' /\ ~Has(fd, "ALT_FD_EXCL")'
    BY <2>2 DEF IsFree, Device_Of, Has, Free
  <2>5. \A other \in Fd \ {fd} : /\ IsFree(other)' = IsFree(other)
                                 /\ Has(other, "ALT_FD_EXCL")' = Has(other, "ALT_FD_EXCL")
    BY <2>2 DEF IsFree, Device_Of, Has
  <2>6. NoLeak'
    BY <1>0, <1>2, <2>1, <2>4, <2>5 DEF FileInv, NoLeak
  <2>7. BelowMark' /\ StreamsStay'
    BY <1>2, <2>1, <2>4, <2>5 DEF FileInv, BelowMark, StreamsStay, StdFd, Fd
  <2> QED BY <2>1, <2>3, <2>6, <2>7 DEF FileInv, Redirected
<1> QED BY <1>1, <1>2

\* TIOCEXCL, TIOCNXCL and F_SETFL.
LEMMA FlagStep ==
    ASSUME FileInv, NEW fd \in held \union StdFd, NEW flags \in SUBSET FlagNames, SetFlags(fd, flags),
           stage = "main", stage' = "main"
    PROVE  FileInv'
<1>0. fd \in Fd /\ ~IsFree(fd) /\ fd <= alt_max_fd
  BY DEF FileInv, FileTypes, Fd, StdFd, NoLeak, BelowMark, StreamsStay, Redirected
<1>1. alt_fd_list'[fd] = [dev |-> alt_fd_list[fd].dev, flags |-> flags]
  BY <1>0 DEF SetFlags, FileInv, FileTypes, Entries
<1>2. \A other \in Fd \ {fd} : alt_fd_list'[other] = alt_fd_list[other]
  BY <1>0 DEF SetFlags, FileInv, FileTypes
<1>3. FileTypes'
  BY <1>0 DEF SetFlags, FileInv, FileTypes, Entries
<1>4. \A other \in Fd : Device_Of(other)' = Device_Of(other) /\ IsFree(other)' = IsFree(other)
  BY <1>0, <1>1, <1>2 DEF IsFree, Device_Of
<1>5. UNCHANGED <<alt_max_fd, held>>
  BY DEF SetFlags
<1>6. NoLeak' /\ StreamsStay'
  BY <1>4, <1>5 DEF FileInv, NoLeak, StreamsStay, StdFd, Fd
<1>7. BelowMark'
  BY <1>0, <1>2, <1>4, <1>5 DEF FileInv, BelowMark, Has
<1> QED BY <1>3, <1>5, <1>6, <1>7 DEF FileInv, Redirected

LEMMA OpenStep ==
    ASSUME FileInv, NEW dev \in Device, NEW flags \in SUBSET (FlagNames \ {"ALT_FD_EXCL"}), open(dev, flags),
           stage = "main", stage' = "main"
    PROVE  FileInv'
<1>1. CASE OpenFails(dev)
  BY <1>1 DEF OpenFails, FileInv, FileTypes, NoLeak, BelowMark, StreamsStay, Redirected, IsFree,
              Device_Of, Has
<1>2. ASSUME FreeFds # {}, OpenDenied(dev, flags) \/ OpenSucceeds(dev, flags)
      PROVE  FileInv'
  <2>0. PICK fd \in Fd : fd = alt_get_fd
    BY <1>2, GetFd
  <2>1. fd \in Fd /\ fd > 2 /\ fd \notin StdFd /\ IsFree(fd) /\ fd \notin held
    BY <1>2, <2>0, GetFd DEF StdFd
  <2>2. alt_max_fd' \in Int /\ alt_max_fd' >= alt_max_fd /\ alt_max_fd' >= fd
    BY <1>2, <2>0, <2>1 DEF OpenDenied, OpenSucceeds, MaxWith, FileInv, FileTypes, Fd
  <2>3. CASE OpenDenied(dev, flags)
    <3>1. alt_fd_list' = [alt_fd_list EXCEPT ![fd] = Free] /\ Free \in Entries
      BY <2>0, <2>1, <2>3 DEF OpenDenied, Opened, alt_release_fd, FileInv, FileTypes, Free, Entries
    <3>2. held' = held /\ alt_dev_list' = alt_dev_list
      BY <2>3 DEF OpenDenied
    <3>3. FileTypes'
      BY <2>2, <3>1, <3>2 DEF FileInv, FileTypes
    <3>4. /\ IsFree(fd)' /\ ~Has(fd, "ALT_FD_EXCL")'
          /\ \A other \in Fd \ {fd} : /\ IsFree(other)' = IsFree(other)
                                       /\ Has(other, "ALT_FD_EXCL")' = Has(other, "ALT_FD_EXCL")
      BY <2>1, <3>1 DEF FileInv, FileTypes, Free, IsFree, Device_Of, Has
    <3>5. NoLeak' /\ StreamsStay'
      BY <2>1, <3>2, <3>4 DEF FileInv, NoLeak, StreamsStay, StdFd, Fd
    <3>6. BelowMark'
      BY <2>1, <2>2, <3>4 DEF FileInv, FileTypes, BelowMark, Fd
    <3> QED BY <2>2, <3>3, <3>5, <3>6 DEF FileInv, FileTypes, Redirected
  <2>4. CASE OpenSucceeds(dev, flags)
    <3> DEFINE entry == [dev |-> dev, flags |-> flags \union {"ALT_FD_DEV"}]
    <3>1. alt_fd_list' = [alt_fd_list EXCEPT ![fd] = entry] /\ entry \in Entries
      BY <2>0, <2>4 DEF OpenSucceeds, Opened, Entries, FlagNames
    <3>2. held' = held \union {fd} /\ alt_dev_list' = alt_dev_list
      BY <2>0, <2>4 DEF OpenSucceeds
    <3>3. FileTypes'
      <4> HIDE DEF entry
      <4> QED BY <2>1, <2>2, <3>1, <3>2 DEF FileInv, FileTypes
    <3>4. /\ ~IsFree(fd)' /\ ~Has(fd, "ALT_FD_EXCL")'
          /\ \A other \in Fd \ {fd} : /\ IsFree(other)' = IsFree(other)
                                       /\ Has(other, "ALT_FD_EXCL")' = Has(other, "ALT_FD_EXCL")
      BY <2>1, <3>1 DEF FileInv, FileTypes, IsFree, Device_Of, Has
    <3>5. NoLeak' /\ StreamsStay'
      BY <2>1, <3>2, <3>4 DEF FileInv, NoLeak, StreamsStay, StdFd, Fd
    <3>6. BelowMark'
      BY <2>1, <2>2, <3>4 DEF FileInv, FileTypes, BelowMark, Fd
    <3> QED BY <2>2, <3>3, <3>5, <3>6 DEF FileInv, FileTypes, Redirected
  <2> QED BY <1>2, <2>3, <2>4
<1> QED BY <1>1, <1>2 DEF open, OpenDenied, OpenSucceeds

-----------------------------------------------------------------------------
(* The terminal: what the rings, the interrupt enables and the FIFOs have to *)
(* do with each other between any two steps of program, handlers and host.   *)

UartTypes ==
    /\ rx_in \in Slots /\ rx_out \in Slots /\ tx_in \in Slots /\ tx_out \in Slots
    /\ wfifo \in Seq(Int) /\ Len(wfifo) <= Depth /\ rfifo \in Seq(Int)
    /\ tx_buf \in [Slots -> Int]
    /\ space \in 0 .. Depth
    /\ count \in Int /\ seen \in Int /\ written \in Int /\ typed \in Int

\* The device knows what the driver has enabled.
Mirrored == (ien_AF <=> "RE" \in irq_enable) /\ (ien_AE <=> "WE" \in irq_enable)

\* Nobody uses the driver before it is initialised.
Early == stage \in {"timer", "uart"} => /\ tx_in = tx_out /\ call = "none" /\ isr = "none"
                                        /\ "uart" \notin ienable

\* TxArmed, in the handler as well.
Transmitting == tx_in # tx_out /\ call \notin {"write", "store", "kick"} => "WE" \in irq_enable

\* The host's pause is about characters it has sent.
Paused == pause_irq => rfifo # << >>

\* ListensWhenEmpty, in the handler as well, and in a read that has nothing yet.
Listening ==
    stage \notin {"timer", "uart"} /\ rx_in = rx_out /\ call # "listen" /\ ~(call = "read" /\ done)
        => "RE" \in irq_enable

\* The handler stops listening only with something in the ring: it was called for
\* a character, and has either found the ring full or taken that character.
Receiving ==
    /\ isr = "receive" => rx_in # rx_out \/ rfifo # << >>
    /\ isr = "received" /\ ravail => rx_in # rx_out

UartInv == UartTypes /\ Mirrored /\ Early /\ Transmitting /\ Paused /\ Listening /\ Receiving

USE UartAssumption DEF UartAssumption

LEMMA Modulo == \A i \in Int : i % BufLen \in 0 .. BufLen - 1
OBVIOUS

LEMMA ModuloSmall == \A i \in 0 .. BufLen - 1 : i % BufLen = i /\ (i + BufLen) % BufLen = i
OBVIOUS

LEMMA PlusType == \A i, n \in Int : Plus(i, n) \in Slots
BY Modulo DEF Plus, Slots

LEMMA PlusUsed == \A in, out \in Slots : Used(in, out) \in Slots /\ Plus(out, Used(in, out)) = in
<1> SUFFICES ASSUME NEW in \in Slots, NEW out \in Slots
             PROVE  Used(in, out) \in Slots /\ Plus(out, Used(in, out)) = in
  OBVIOUS
<1> USE DEF Slots
<1>1. CASE in >= out
  <2>1. (in - out + BufLen) % BufLen = in - out
    BY <1>1, ModuloSmall
  <2>2. Used(in, out) = in - out
    BY <2>1 DEF Used
  <2> QED BY <1>1, <2>2, ModuloSmall DEF Plus
<1>2. CASE in < out
  <2>1. Used(in, out) = in - out + BufLen
    BY <1>2, ModuloSmall DEF Used
  <2> QED BY <1>2, <2>1, ModuloSmall DEF Plus
<1> QED BY <1>1, <1>2

LEMMA PlusOne == \A i \in Slots : Plus(i, 1) # i
<1> SUFFICES ASSUME NEW i \in Slots
             PROVE  Plus(i, 1) # i
  OBVIOUS
<1>1. CASE i < BufLen - 1
  BY <1>1, ModuloSmall DEF Plus, Slots
<1>2. CASE i = BufLen - 1
  BY <1>2, ModuloSmall DEF Plus, Slots
<1> QED BY <1>1, <1>2 DEF Slots

LEMMA Number == \A m, n \in Int : AtMost(m, n) \in Int /\ AtMost(m, n) <= m /\ AtMost(m, n) <= n
BY DEF AtMost

LEMMA EnableStep == ASSUME NEW interrupts, Enable(interrupts)
                    PROVE  Mirrored' /\ irq_enable' = interrupts
BY Zenon DEF Enable, Mirrored

\* A call of the program comes between two handlers and after the start.
Interruptible == UartInv /\ isr = "none" /\ stage \notin {"timer", "uart"}

LEMMA WriteStep ==
    ASSUME Interruptible, UNCHANGED <<stage, ienable>>,
           Write_Look \/ Write_Store \/ Write_Kick \/ Write_Waited
    PROVE  UartInv'
<1> USE DEF Interruptible, UartInv
<1>1. CASE Write_Look
  BY <1>1 DEF Write_Look, UartTypes, Mirrored, Early, Transmitting, Paused, Listening, Receiving,
       Slots, uartVars, device, state, rxRing, txRing, locals, handler, history
<1>2. CASE Write_Store
  <2> DEFINE n == AtMost(count, FreeRun(tx_in, seen))
  <2>1. n \in Int
    <3>1. FreeRun(tx_in, seen) \in Int /\ count \in Int
      BY DEF FreeRun, UartTypes, Slots
    <3> QED BY <3>1, Number
  <2>2. tx_in' \in Slots
    BY <1>2, <2>1, PlusType, SMTT(30) DEF Write_Store, UartTypes, Slots
  <2> HIDE DEF n
  <2>3. /\ tx_buf' = [i \in Slots |-> IF i \in tx_in .. tx_in + n - 1 THEN written + 1 + i - tx_in
                                       ELSE tx_buf[i]]
        /\ written' = written + n /\ count' = count - n
    BY <1>2 DEF Write_Store, n
  <2>4. tx_buf' \in [Slots -> Int]
    BY <2>1, <2>3 DEF UartTypes, Slots
  <2>5. UartTypes'
    BY <1>2, <2>1, <2>2, <2>3, <2>4 DEF Write_Store, UartTypes, device, state, rxRing, txRing, handler
  <2>6. call' \in {"kick", "write"}
    BY <1>2 DEF Write_Store
  <2> QED BY <1>2, <2>5, <2>6 DEF Write_Store, Mirrored, Early, Transmitting, Paused, Listening,
                                 Receiving, device, state, rxRing, handler
<1>3. CASE Write_Kick
  <2>1. Mirrored' /\ irq_enable' = irq_enable \union {"WE"}
    BY <1>3, EnableStep DEF Write_Kick
  <2>2. count' \in {0, count} /\ seen' \in {0, seen} /\ call' \in {"none", "full"}
    BY <1>3 DEF Write_Kick, Goes
  <2>3. UNCHANGED <<wfifo, rfifo, pause_irq, rxRing, txRing, handler, history>>
    BY <1>3 DEF Write_Kick
  <2> QED BY <1>3, <2>1, <2>2, <2>3 DEF Write_Kick, UartTypes, Early, Transmitting, Paused, Listening,
             Receiving, rxRing, txRing, handler, history
<1>4. CASE Write_Waited
  BY <1>4 DEF Write_Waited, Goes, UartTypes, Mirrored, Early, Transmitting, Paused, Listening,
       Receiving, uartVars, device, state, rxRing, txRing, locals, handler, history
<1> QED BY <1>1, <1>2, <1>3, <1>4

LEMMA ReadStep ==
    ASSUME Interruptible, UNCHANGED <<stage, ienable>>,
           Read_Copy \/ Read_Empty \/ Read_Waited \/ Read_Listen
    PROVE  UartInv'
<1> USE DEF Interruptible, UartInv
<1>1. CASE Read_Copy
  <2> DEFINE n == AtMost(count, FullRun(rx_in, rx_out))
  <2>1. n \in Int
    <3>1. FullRun(rx_in, rx_out) \in Int /\ count \in Int
      BY DEF FullRun, UartTypes, Slots
    <3> QED BY <3>1, Number
  <2>2. rx_out' = Plus(rx_out, n) /\ count' = count - n
    BY <1>1 DEF Read_Copy
  <2> HIDE DEF n
  <2>a. rx_out' \in Slots /\ count' \in Int
    BY <2>1, <2>2, PlusType DEF UartTypes, Slots
  <2>3. done' /\ call' \in {"listen", "read"}
    BY <1>1 DEF Read_Copy
  <2> QED BY <1>1, <2>a, <2>3 DEF Read_Copy, UartTypes, Mirrored, Early, Transmitting, Paused,
       Listening, Receiving, device, state, txRing, handler
<1>2. CASE Read_Empty
  BY <1>2, SMTT(30) DEF Read_Empty, Goes, UartTypes, Mirrored, Early, Transmitting, Paused, Listening,
       Receiving, Slots, uartVars, device, state, rxRing, txRing, locals, handler, history
<1>3. CASE Read_Waited
  BY <1>3 DEF Read_Waited, Goes, UartTypes, Mirrored, Early, Transmitting, Paused, Listening,
       Receiving, uartVars, device, state, rxRing, txRing, locals, handler, history
<1>4. CASE Read_Listen
  <2>1. Mirrored' /\ irq_enable' = irq_enable \union {"RE"}
    BY <1>4, EnableStep DEF Read_Listen
  <2>2. count' = 0 /\ seen' = 0 /\ call' = "none"
    BY <1>4 DEF Read_Listen, Goes
  <2>3. UNCHANGED <<wfifo, rfifo, pause_irq, rxRing, txRing, handler, history>>
    BY <1>4 DEF Read_Listen
  <2> QED BY <1>4, <2>1, <2>2, <2>3 DEF Read_Listen, UartTypes, Early, Transmitting, Paused, Listening,
             Receiving, rxRing, txRing, handler, history
<1> QED BY <1>1, <1>2, <1>3, <1>4

LEMMA CallStep ==
    ASSUME Interruptible, stage' \notin {"timer", "uart"}, UNCHANGED ienable,
           \/ \E n \in Lengths : \E nb : WriteCalled(n, nb) \/ ReadCalled(n, nb)
           \/ \E nb : CloseCalled(nb)
           \/ Close_Waited
           \/ \E t \in Timeouts : TIOCSTIMEOUT(t)
    PROVE  UartInv'
<1> USE DEF Interruptible, UartInv
<1>1. ASSUME NEW n \in Lengths, NEW nb, WriteCalled(n, nb) \/ ReadCalled(n, nb)
      PROVE  UartInv'
  <2>1. /\ UNCHANGED <<device, state, rxRing, txRing, handler, history>>
        /\ call = "none" /\ count' \in Int /\ seen' = 0
    BY <1>1 DEF WriteCalled, ReadCalled
  <2>2. UartTypes' /\ Mirrored'
    BY <2>1 DEF UartTypes, Mirrored, device, state, rxRing, txRing, handler, history
  <2> QED BY <1>1, <2>1, <2>2 DEF WriteCalled, ReadCalled, Early, Transmitting, Paused, Listening,
             Receiving, device, state, rxRing, txRing, handler
<1>2. ASSUME NEW nb, CloseCalled(nb)
      PROVE  UartInv'
  BY <1>2 DEF CloseCalled, UartTypes, Mirrored, Early, Transmitting, Paused, Listening, Receiving,
       uartVars, device, state, rxRing, txRing, locals, handler, history
<1>3. CASE Close_Waited
  BY <1>3 DEF Close_Waited, Goes, UartTypes, Mirrored, Early, Transmitting, Paused, Listening,
       Receiving, uartVars, device, state, rxRing, txRing, locals, handler, history
<1>4. ASSUME NEW t, TIOCSTIMEOUT(t)
      PROVE  UartInv'
  BY <1>4 DEF TIOCSTIMEOUT, UartTypes, Mirrored, Early, Transmitting, Paused, Listening, Receiving,
       uartVars, device, state, rxRing, txRing, locals, handler, history
<1> QED BY <1>1, <1>2, <1>3, <1>4

LEMMA IrqStep ==
    ASSUME UartInv, stage \notin {"timer", "uart"}, UNCHANGED <<stage, ienable>>,
           \/ Irq_Enter \/ Irq_Control \/ Irq_Full \/ Irq_Receive \/ Irq_Nothing \/ Irq_JustMissed
           \/ Irq_Received \/ Irq_Transmit
    PROVE  UartInv'
<1> USE DEF UartInv
<1>1. CASE Irq_Enter
  BY <1>1 DEF Irq_Enter, UartTypes, Mirrored, Early, Transmitting, Paused, Listening, Receiving,
       device, state, rxRing, txRing, locals, handler, history
<1>2. CASE Irq_Control
  <2>1. ipen_AF => rfifo # << >>
    BY DEF ipen_AF, Paused, UartTypes
  <2>2. space' \in 0 .. Depth
    BY <1>2 DEF Irq_Control, UartTypes
  <2> QED BY <1>2, <2>1, <2>2 DEF Irq_Control, UartTypes, Mirrored, Early, Transmitting, Paused,
       Listening, Receiving, device, state, rxRing, txRing, locals, handler, history
<1>3. CASE Irq_Full
  <2>1. rx_in # rx_out
    BY <1>3, PlusOne DEF Irq_Full, RingFull, UartTypes
  <2> QED BY <1>3, <2>1 DEF Irq_Full, UartTypes, Mirrored, Early, Transmitting, Paused, Listening,
       Receiving, device, state, rxRing, txRing, locals, handler, history
<1>4. CASE Irq_Receive
  <2>1. rx_in' \in Slots /\ rx_in' # rx_out
    BY <1>4, PlusType DEF Irq_Receive, RingFull, UartTypes, Slots
  <2>2. rfifo' \in Seq(Int) /\ ~pause_irq'
    BY <1>4 DEF Irq_Receive, UartTypes
  <2> QED BY <1>4, <2>1, <2>2 DEF Irq_Receive, UartTypes, Mirrored, Early, Transmitting, Paused,
       Listening, Receiving, device, state, rxRing, txRing, locals, handler, history
<1>5. CASE Irq_Nothing
  BY <1>5 DEF Irq_Nothing, UartTypes, Mirrored, Early, Transmitting, Paused, Listening, Receiving,
       device, state, rxRing, txRing, locals, handler, history
<1>6. CASE Irq_JustMissed
  <2>1. rfifo' \in Seq(Int) /\ typed' \in Int
    BY <1>6 DEF Irq_JustMissed, UartTypes
  <2> QED BY <1>6, <2>1 DEF Irq_JustMissed, UartTypes, Mirrored, Early, Transmitting, Paused,
       Listening, Receiving, device, state, rxRing, txRing, locals, handler, history
<1>7. CASE Irq_Received
  <2>1. Mirrored' /\ irq_enable' = (IF ravail THEN irq_enable \ {"RE"} ELSE irq_enable)
    BY <1>7, EnableStep DEF Irq_Received
  <2> QED BY <1>7, <2>1 DEF Irq_Received, UartTypes, Early, Transmitting, Paused, Listening, Receiving,
             device, state, rxRing, txRing, locals, handler, history
<1>8. CASE Irq_Transmit
  <2> DEFINE n == AtMost(space, Used(tx_in, tx_out))
             chars == [i \in 1 .. n |-> tx_buf[Plus(tx_out, i - 1)]]
  <2>0. /\ Used(tx_in, tx_out) \in Nat /\ Plus(tx_out, Used(tx_in, tx_out)) = tx_in
        /\ tx_in = tx_out => Used(tx_in, tx_out) = 0
    <3>1. tx_in \in Slots /\ tx_out \in Slots
      BY DEF UartTypes
    <3>2. tx_in = tx_out => Used(tx_in, tx_out) = 0
      BY <3>1, ModuloSmall DEF Used, Slots
    <3> QED BY <3>1, <3>2, PlusUsed DEF Slots
  <2>1. /\ n \in Nat /\ n <= space /\ (space > n => n = Used(tx_in, tx_out))
        /\ Used(tx_in, tx_out) = 0 => n = 0
    BY <2>0 DEF UartTypes, AtMost
  <2>2. /\ DataWrites(chars) /\ tx_out' = Plus(tx_out, n)
        /\ Enable(IF space > n THEN irq_enable \ {"WE"} ELSE irq_enable)
        /\ isr' = "control" /\ space' = 0
        /\ UNCHANGED <<rfifo, pause_irq, rxRing, tx_in, tx_buf, call, locals, ravail, history>>
    BY <1>8 DEF Irq_Transmit
  <2>3. chars \in Seq(Int) /\ Len(chars) = n
    <3> HIDE DEF n
    <3>1. \A i \in 1 .. n : i - 1 \in Int /\ tx_out \in Int
      BY <2>1 DEF UartTypes, Slots
    <3>2. \A i \in 1 .. n : tx_buf[Plus(tx_out, i - 1)] \in Int
      BY <3>1, PlusType DEF UartTypes
    <3> QED BY <2>1, <3>2
  <2> HIDE DEF n, chars
  <2>4. wfifo' \in Seq(Int) /\ Len(wfifo') <= Depth
    <3>1. wfifo \o chars \in Seq(Int) /\ Len(wfifo \o chars) = Len(wfifo) + n /\ Len(wfifo) \in Nat
      <4>1. wfifo \in Seq(Int)
        BY DEF UartTypes
      <4> QED BY <2>1, <2>3, <4>1, ConcatProperties, LenProperties
    <3> DEFINE m == AtMost(Depth, Len(wfifo) + Len(chars))
    <3>2. m \in 0 .. Len(wfifo \o chars) /\ m <= Depth /\ wfifo' = SubSeq(wfifo \o chars, 1, m)
      BY <2>1, <2>2, <2>3, <3>1 DEF DataWrites, AtMost
    <3> HIDE DEF m
    <3> QED BY <3>1, <3>2
  <2>5. tx_out' \in Slots /\ (n = Used(tx_in, tx_out) => tx_out' = tx_in)
    BY <2>0, <2>1, <2>2, PlusType DEF UartTypes, Slots
  <2>6. Mirrored' /\ irq_enable' = (IF space > n THEN irq_enable \ {"WE"} ELSE irq_enable)
    BY <2>2, EnableStep
  <2>7. Transmitting'
    BY <2>0, <2>1, <2>2, <2>5, <2>6 DEF Transmitting
  <2>8. UartTypes'
    BY <2>2, <2>4, <2>5 DEF UartTypes, rxRing, locals, history
  <2> QED BY <2>2, <2>6, <2>7, <2>8 DEF Early, Paused, Listening, Receiving, rxRing, locals
<1> QED BY <1>1, <1>2, <1>3, <1>4, <1>5, <1>6, <1>7, <1>8

LEMMA TimeoutStep ==
    ASSUME UartInv, UNCHANGED <<stage, ienable>>, Timeout
    PROVE  UartInv'
<1>1. Mirrored' /\ irq_enable' = irq_enable
  BY EnableStep DEF Timeout
<1> QED BY <1>1 DEF Timeout, UartInv, UartTypes, Early, Transmitting, Paused, Listening, Receiving,
           device, state, rxRing, txRing, locals, handler, history

LEMMA HostStep ==
    ASSUME UartInv, UNCHANGED <<stage, ienable>>, HostTakes \/ HostTypes \/ HostPauses \/ HostGoes
    PROVE  UartInv'
<1> USE DEF UartInv
<1>1. CASE HostTakes
  <2>1. wfifo' \in Seq(Int) /\ Len(wfifo') <= Depth
    BY <1>1 DEF HostTakes, UartTypes
  <2> QED BY <1>1, <2>1 DEF HostTakes, UartTypes, Mirrored, Early, Transmitting, Paused, Listening,
       Receiving, device, state, rxRing, txRing, locals, handler, history
<1>2. CASE HostTypes
  <2>1. rfifo' \in Seq(Int) /\ rfifo' # << >> /\ typed' \in Int
    BY <1>2 DEF HostTypes, UartTypes
  <2> QED BY <1>2, <2>1 DEF HostTypes, UartTypes, Mirrored, Early, Transmitting, Paused, Listening,
       Receiving, device, state, rxRing, txRing, locals, handler, history
<1>3. CASE HostPauses
  BY <1>3 DEF HostPauses, UartTypes, Mirrored, Early, Transmitting, Paused, Listening, Receiving,
       device, state, rxRing, txRing, locals, handler, history
<1>4. CASE HostGoes
  BY <1>4 DEF HostGoes, UartTypes, Mirrored, Early, Transmitting, Paused, Listening, Receiving,
       device, state, rxRing, txRing, locals, handler, history
<1> QED BY <1>1, <1>2, <1>3, <1>4

LEMMA InitUart == Init => UartInv
BY DEF Init, uartInit, UartInv, UartTypes, Mirrored, Early, Transmitting, Paused, Listening, Receiving,
       Slots

LEMMA StartStep ==
    ASSUME UartInv, stage = "uart", stage' = "alarm", Init_Enable
    PROVE  UartInv'
<1>1. Mirrored' /\ irq_enable' = {"RE"}
  BY EnableStep DEF Init_Enable
<1> QED BY <1>1 DEF Init_Enable, UartInv, UartTypes, Early, Transmitting, Paused, Listening, Receiving,
           rxRing, txRing, locals, handler, history

\* The program, or alt_main, does something that is not the driver's business.
LEMMA ElsewhereStep ==
    ASSUME UartInv, UNCHANGED uartVars,
           \/ UNCHANGED <<stage, ienable>>
           \/ stage = "timer" /\ stage' = "uart" /\ ienable' = ienable \union {"timer"}
           \/ stage \notin {"timer", "uart"} /\ stage' \notin {"timer", "uart"}
    PROVE  UartInv'
BY DEF UartInv, UartTypes, Mirrored, Early, Transmitting, Paused, Listening, Receiving, uartVars,
     device,
       state, rxRing, txRing, locals, handler, history

-----------------------------------------------------------------------------
(* The composition. *)

Stages == stage \in {"timer", "uart", "alarm", "redirect", "main", "exit"}

HalInv == Stages /\ FileInv /\ UartInv

LEMMA InitInv == Init => HalInv
BY InitFiles, InitUart DEF HalInv, Init, Stages

LEMMA FilesStay ==
    ASSUME FileInv, UNCHANGED fileVars,
           stage \in {"main", "exit"} <=> stage' \in {"main", "exit"}
    PROVE  FileInv'
BY DEF FileInv, FileTypes, NoLeak, BelowMark, StreamsStay, Redirected, fileVars, IsFree, Device_Of, Has

LEMMA BootStep ==
    ASSUME HalInv, Boot
    PROVE  HalInv'
<1> USE DEF HalInv, Stages
<1>1. CASE TimerInit
  BY <1>1, FilesStay, ElsewhereStep DEF TimerInit
<1>2. CASE UartInit
  BY <1>2, FilesStay, StartStep DEF UartInit
<1>3. CASE UartAlarmInit
  BY <1>3, RegStep, ElsewhereStep DEF UartAlarmInit
<1>4. CASE Redirect
  <2>1. FreeFds # {}
    <3>1. held = {} /\ 3 \in Fd \ StdFd
      BY <1>4 DEF Redirect, FileInv, Redirected, Fd, StdFd
    <3> QED BY <3>1 DEF FileInv, NoLeak, FreeFds
  <2> QED BY <1>4, <2>1, RedirectStep, ElsewhereStep DEF Redirect
<1> QED BY <1>1, <1>2, <1>3, <1>4 DEF Boot

LEMMA ClientStep ==
    ASSUME HalInv, Client
    PROVE  HalInv'
<1> USE DEF HalInv, Stages
<1>1. CASE write \/ read
  <2>1. Interruptible /\ UNCHANGED <<fileVars, stage, ienable>>
    BY <1>1 DEF write, read, Calls, ProgramRuns, NoHandler, Interruptible, halVars
  <2>2. \E n \in Lengths : \E nb : WriteCalled(n, nb) \/ ReadCalled(n, nb)
    BY <1>1 DEF write, read, Has
  <2> QED BY <2>1, <2>2, FilesStay, CallStep DEF Interruptible
<1>2. CASE ioctl
  <2>1. Interruptible /\ UNCHANGED <<fileVars, stage, ienable>>
    BY <1>2 DEF ioctl, Calls, ProgramRuns, NoHandler, Interruptible, halVars
  <2>2. \E t \in Timeouts : TIOCSTIMEOUT(t)
    BY <1>2 DEF ioctl
  <2> QED BY <2>1, <2>2, FilesStay, CallStep DEF Interruptible
<1>3. CASE Return
  <2>1. Interruptible /\ UNCHANGED <<fileVars, ienable>> /\ stage = "main" /\ stage' = "exit"
    BY <1>3 DEF Return, ProgramRuns, NoHandler, Interruptible
  <2>2. \E nb : CloseCalled(nb)
    BY <1>3 DEF Return, Has
  <2> QED BY <2>1, <2>2, FilesStay, CallStep
<1>4. CASE StartAlarm \/ StopAlarm
  BY <1>4, FilesStay, ElsewhereStep DEF StartAlarm, StopAlarm, halVars
<1>5. CASE Open \/ Close \/ Other \/ Lock \/ Fcntl
  <2>1. UNCHANGED <<halVars, uartVars>> /\ stage = "main"
    BY <1>5 DEF Open, Close, Other, Lock, Fcntl, Calls
  <2>2. UartInv' /\ stage' = "main"
    BY <2>1, ElsewhereStep DEF halVars
  <2>3. CASE Open
    <3>1. PICK dev \in Device, flags \in {{"O_WRONLY"}, {"O_RDWR", "O_NONBLOCK"}} : open(dev, flags)
      BY <2>3 DEF Open
    <3>2. flags \in SUBSET (FlagNames \ {"ALT_FD_EXCL"})
      BY DEF FlagNames
    <3> QED BY <2>1, <2>2, <3>1, <3>2, OpenStep
  <2>4. CASE Close
    BY <2>1, <2>2, <2>4, CloseStep DEF Close
  <2>5. ASSUME NEW error, Answers(error)
        PROVE  FileInv'
    BY <2>1, <2>2, <2>5 DEF Answers, FileInv, FileTypes, NoLeak, BelowMark, StreamsStay, Redirected,
                           IsFree, Device_Of, Has
  <2>6. CASE Other
    BY <2>2, <2>5, <2>6 DEF Other, RefusedAccess, lseek, alt_dev_null_write, fstat
  <2>7. ASSUME NEW fd \in held \union StdFd
        PROVE  fd \in Fd /\ alt_fd_list[fd].flags \in SUBSET FlagNames
    BY DEF FileInv, FileTypes, Entries, Fd, StdFd
  <2>8. CASE Lock
    <3>1. PICK fd \in held \union StdFd : alt_fd_lock(fd) \/ alt_fd_unlock(fd)
      BY <2>8 DEF Lock
    <3>2. /\ alt_fd_list[fd].flags \union {"ALT_FD_EXCL"} \in SUBSET FlagNames
          /\ alt_fd_list[fd].flags \ {"ALT_FD_EXCL"} \in SUBSET FlagNames
      BY <2>7 DEF FlagNames
    <3> QED BY <2>1, <2>2, <2>5, <3>1, <3>2, FlagStep DEF alt_fd_lock, alt_fd_unlock
  <2>9. CASE Fcntl
    <3>1. PICK fd \in Fd, flags \in {{}, {"O_NONBLOCK"}} : Flags(fd) /\ fcntl(fd, flags)
      BY <2>9 DEF Fcntl
    <3>2. fd \in held \union StdFd
      BY <3>1 DEF Flags, StdFd
    <3>3. flags \intersect {"O_NONBLOCK", "O_APPEND"} \subseteq FlagNames
      BY DEF FlagNames
    <3>4. (alt_fd_list[fd].flags \ {"O_NONBLOCK", "O_APPEND"})
              \union (flags \intersect {"O_NONBLOCK", "O_APPEND"}) \in SUBSET FlagNames
      BY <2>7, <3>2, <3>3
    <3> QED BY <2>1, <2>2, <3>1, <3>2, <3>4, FlagStep DEF fcntl
  <2> QED BY <1>5, <2>1, <2>2, <2>3, <2>4, <2>6, <2>8, <2>9
<1> QED BY <1>1, <1>2, <1>3, <1>4, <1>5 DEF Client

\* The driver's steps, the handlers and the host.
LEMMA DriverStep ==
    ASSUME HalInv, UartCall \/ Exit \/ UartInterrupt \/ TimerInterrupt \/ Ticking \/ Host
    PROVE  HalInv'
<1> USE DEF HalInv, Stages
<1>1. CASE UartCall
  <2>1. call # "none" /\ isr = "none" /\ UNCHANGED <<fileVars, stage, ienable>>
    BY <1>1 DEF UartCall, ProgramRuns, NoHandler, halVars, Write_Look, Write_Store, Write_Kick,
                Write_Waited, Read_Copy, Read_Empty, Read_Waited, Read_Listen
  <2>2. Interruptible
    BY <2>1 DEF Interruptible, UartInv, Early
  <2> QED BY <1>1, <2>1, <2>2, FilesStay, WriteStep, ReadStep DEF UartCall
<1>2. CASE Exit
  <2>1. Interruptible /\ stage = "exit" /\ stage' = "exit" /\ UNCHANGED ienable
    BY <1>2 DEF Exit, ProgramRuns, NoHandler, Interruptible, halVars
  <2>2. FileInv'
    BY <1>2, <2>1, CloseStep DEF Exit, StdFd
  <2> QED BY <1>2, <2>1, <2>2, CallStep DEF Exit
<1>3. CASE UartInterrupt
  <2>1. stage \notin {"timer", "uart"} /\ UNCHANGED <<fileVars, stage, ienable>>
    BY <1>3 DEF UartInterrupt, UartPending, halVars, UartInv, Early, Irq_Control, Irq_Full, Irq_Receive,
                Irq_Nothing, Irq_JustMissed, Irq_Received, Irq_Transmit
  <2> QED BY <1>3, <2>1, FilesStay, IrqStep DEF UartInterrupt
<1>4. CASE TimerInterrupt
  BY <1>4, FilesStay, ElsewhereStep DEF TimerInterrupt, halVars
<1>5. CASE Ticking
  <2>1. UNCHANGED <<fileVars, stage, ienable>> /\ (UNCHANGED uartVars \/ Timeout)
    BY <1>5 DEF Ticking, Callback, halVars
  <2> QED BY <2>1, FilesStay, ElsewhereStep, TimeoutStep
<1>6. CASE Host
  BY <1>6, FilesStay, HostStep DEF Host, halVars
<1> QED BY <1>1, <1>2, <1>3, <1>4, <1>5, <1>6

LEMMA StepInv == HalInv /\ [Next]_vars => HalInv'
<1> SUFFICES ASSUME HalInv, [Next]_vars
             PROVE  HalInv'
  OBVIOUS
<1>1. CASE UNCHANGED vars
  BY <1>1, FilesStay, ElsewhereStep DEF HalInv, Stages, vars, boardVars, halVars
<1>2. CASE Board
  BY <1>2, BootStep, ClientStep, DriverStep DEF Board
<1>3. CASE UNCHANGED boardVars
  BY <1>3, FilesStay, ElsewhereStep DEF HalInv, Stages, boardVars, halVars
<1> QED BY <1>1, <1>2, <1>3 DEF Next

\* Descriptors, rings and interrupt enables stay in step, whatever the program
\* calls and whenever the handlers and the host come in between.
THEOREM HalInvariant == Spec => []HalInv
BY InitInv, StepInv, PTL DEF Spec

\* An open that fails on its way keeps no descriptor, and a close gives back what
\* an open has given.
THEOREM NoLeakCorrect == Spec => []NoLeak
<1>1. HalInv => NoLeak
  BY DEF HalInv, FileInv
<1> QED BY <1>1, HalInvariant, PTL

\* Characters in the transmit ring always have the interrupt that fetches them.
THEOREM TxArmedCorrect == Spec => []TxArmed
<1>1. HalInv => TxArmed
  BY DEF HalInv, UartInv, Transmitting, Mirrored, TxArmed
<1> QED BY <1>1, HalInvariant, PTL

\* The handler may stop listening, but not while the program waits for characters.
THEOREM ListensCorrect == Spec => []ListensWhenEmpty
<1>1. HalInv => ListensWhenEmpty
  BY DEF HalInv, UartInv, Listening, Mirrored, ListensWhenEmpty
<1> QED BY <1>1, HalInvariant, PTL

\* A command to the USB chip is one frame, and its answers are the right ones,
\* for commands of every length and whatever interrupts the polling.
THEOREM SpiExchangeCorrect == Spec => []SpiExchange
<1>1. Init => SpiInv
  BY InitSpi DEF Init
<1>2. SpiInv /\ [Next]_vars => SpiInv'
  <2> SUFFICES ASSUME SpiInv, [Next]_vars
               PROVE  SpiInv'
    OBVIOUS
  <2>1. CASE UNCHANGED spiVars
    BY <2>1, StaySpi
  <2>2. CASE Spi
    BY <2>2, SpiStep DEF Spi, SpiCommand, SpiCall, SpiCore
  <2> QED BY <2>1, <2>2 DEF Next, vars
<1>3. SpiInv => SpiExchange
  BY SpiExchanges
<1> QED BY <1>1, <1>2, <1>3, PTL DEF Spec

\* A device that one descriptor has to itself stays closed to all others.
THEOREM LockedCorrect == Spec => LockedStaysClosed
<1> DEFINE Closed == \A i, j \in Fd : Has(i, "ALT_FD_EXCL") /\ i # j /\ Device_Of(j) # Device_Of(i)
                                        => alt_fd_list'[j].dev # Device_Of(i)
           SameDevices == \A fd \in Fd : alt_fd_list'[fd].dev = Device_Of(fd)
<1>1. SameDevices => Closed
  OBVIOUS
<1>2. ASSUME FileInv, NEW fd \in held \union StdFd, NEW refused, CloseReturns(fd, refused)
      PROVE  Closed
  <2>1. \A j \in Fd : alt_fd_list'[j].dev \in {Device_Of(j), NoDev}
    BY <1>2 DEF CloseReturns, alt_release_fd, Free, Device_Of, FileInv, FileTypes, Entries
  <2>2. \A i \in Fd : Has(i, "ALT_FD_EXCL") => Device_Of(i) # NoDev
    BY <1>2 DEF FileInv, BelowMark, IsFree
  <2> QED BY <2>1, <2>2
<1>3. ASSUME FileInv, NEW fd \in held \union StdFd, NEW flags, SetFlags(fd, flags)
      PROVE  SameDevices
  BY <1>3 DEF SetFlags, Device_Of, FileInv, FileTypes, Entries
<1>4. ASSUME FileInv, NEW dev \in Device, NEW flags, open(dev, flags), stage = "main"
      PROVE  Closed
  <2>1. CASE OpenFails(dev)
    BY <2>1 DEF OpenFails, Device_Of
  <2>2. ASSUME FreeFds # {}, OpenDenied(dev, flags) \/ OpenSucceeds(dev, flags)
        PROVE  Closed
    <3>0. PICK fd \in Fd : fd = alt_get_fd
      BY <1>4, <2>2, GetFd
    <3>1. fd > 2 /\ IsFree(fd)
      BY <1>4, <2>2, <3>0, GetFd
    <3>2. \A i \in Fd : Has(i, "ALT_FD_EXCL") => Device_Of(i) # NoDev /\ i \in 0 .. MaxWith(fd)
      BY <1>4, <3>0 DEF FileInv, FileTypes, BelowMark, IsFree, Fd, MaxWith
    <3>3. CASE OpenDenied(dev, flags)
      <4>1. \A j \in Fd : alt_fd_list'[j].dev \in {Device_Of(j), NoDev}
        BY <1>4, <3>0, <3>1, <3>3 DEF OpenDenied, Opened, alt_release_fd, Free, Device_Of, FileInv,
                                     FileTypes, Entries
      <4> QED BY <3>2, <4>1
    <3>4. CASE OpenSucceeds(dev, flags)
      <4>1. /\ alt_fd_list'[fd].dev = dev
            /\ \A j \in Fd \ {fd} : alt_fd_list'[j].dev = Device_Of(j)
        BY <1>4, <3>0, <3>4 DEF OpenSucceeds, Opened, Device_Of, FileInv, FileTypes
      <4>2. \A i \in Fd \ {fd} : Has(i, "ALT_FD_EXCL") => Device_Of(i) # dev
        BY <3>0, <3>2, <3>4 DEF OpenSucceeds, alt_file_locked
      <4> QED BY <4>1, <4>2
    <3> QED BY <2>2, <3>3, <3>4
  <2> QED BY <1>4, <2>1, <2>2 DEF open, OpenDenied, OpenSucceeds
<1>5. ASSUME HalInv, Boot
      PROVE  Closed
  <2>1. CASE Redirect
    BY <1>5, <2>1 DEF Redirect, HalInv, FileInv, Redirected
  <2> QED BY <1>1, <1>5, <2>1 DEF Boot, TimerInit, UartInit, UartAlarmInit, alt_dev_reg, fileVars,
       Device_Of
<1>6. ASSUME HalInv, Client
      PROVE  Closed
  <2>1. CASE Open
    BY <1>4, <1>6, <2>1 DEF Open, Calls, HalInv
  <2>2. CASE Close
    BY <1>2, <1>6, <2>2 DEF Close, HalInv
  <2>3. CASE Lock
    BY <1>1, <1>3, <1>6, <2>3 DEF Lock, alt_fd_lock, alt_fd_unlock, Answers, HalInv, Device_Of
  <2>4. CASE Fcntl
    <3>1. PICK fd \in Fd, flags \in {{}, {"O_NONBLOCK"}} : Flags(fd) /\ fcntl(fd, flags)
      BY <2>4 DEF Fcntl
    <3>2. fd \in held \union StdFd
      BY <3>1 DEF Flags, StdFd
    <3> QED BY <1>1, <1>3, <1>6, <3>1, <3>2 DEF fcntl, HalInv
  <2>5. CASE Other
    BY <1>1, <2>5 DEF Other, RefusedAccess, lseek, alt_dev_null_write, fstat, Answers, Device_Of
  <2>6. CASE write \/ read \/ ioctl \/ StartAlarm \/ StopAlarm \/ Return
    BY <1>1, <2>6 DEF write, read, ioctl, StartAlarm, StopAlarm, Return, fileVars, Device_Of
  <2> QED BY <1>6, <2>1, <2>2, <2>3, <2>4, <2>5, <2>6 DEF Client
<1>7. ASSUME HalInv, UartCall \/ Exit \/ UartInterrupt \/ TimerInterrupt \/ Ticking \/ Host
      PROVE  Closed
  <2>1. CASE Exit
    <3>1. \E refused : CloseReturns(1, refused)
      BY <2>1, Zenon DEF Exit
    <3> QED BY <1>2, <1>7, <3>1 DEF StdFd, HalInv
  <2> QED BY <1>1, <1>7, <2>1 DEF UartCall, UartInterrupt, TimerInterrupt, Ticking, Host, fileVars,
       Device_Of
<1>8. HalInv /\ [Next]_vars => [Closed]_alt_fd_list
  <2>1. UNCHANGED vars \/ UNCHANGED boardVars => UNCHANGED alt_fd_list
    BY DEF vars, boardVars, fileVars
  <2> QED BY <1>5, <1>6, <1>7, <2>1 DEF Next, Board
<1> QED BY <1>8, HalInvariant, PTL DEF Spec, LockedStaysClosed

-----------------------------------------------------------------------------
(* The characters: where each of them is between program and host.  From one *)
(* end of a line to the other they are numbered without a gap.               *)

\* Used and Plus without their modulo.
LEMMA UsedIs == \A k, out \in Slots :
                    Used(k, out) = IF k >= out THEN k - out ELSE k - out + BufLen
<1> SUFFICES ASSUME NEW k \in Slots, NEW out \in Slots
             PROVE  Used(k, out) = IF k >= out THEN k - out ELSE k - out + BufLen
  OBVIOUS
<1> USE DEF Slots
<1>1. CASE k >= out
  <2>1. (k - out + BufLen) % BufLen = k - out
    BY <1>1, ModuloSmall
  <2> QED BY <1>1, <2>1 DEF Used
<1>2. CASE k < out
  BY <1>2, ModuloSmall DEF Used
<1> QED BY <1>1, <1>2

LEMMA PlusIs == \A i \in Slots, n \in 0 .. BufLen :
                    Plus(i, n) = IF i + n < BufLen THEN i + n ELSE i + n - BufLen
<1> SUFFICES ASSUME NEW i \in Slots, NEW n \in 0 .. BufLen
             PROVE  Plus(i, n) = IF i + n < BufLen THEN i + n ELSE i + n - BufLen
  OBVIOUS
<1> USE DEF Slots
<1>1. CASE i + n < BufLen
  BY <1>1, ModuloSmall DEF Plus
<1>2. CASE ~(i + n < BufLen)
  <2>1. PICK r \in 0 .. BufLen - 1 : i + n = r + BufLen
    <3>1. i + n - BufLen \in 0 .. BufLen - 1
      BY <1>2
    <3> QED BY <3>1
  <2>2. (r + BufLen) % BufLen = r
    BY ModuloSmall
  <2> QED BY <1>2, <2>1, <2>2 DEF Plus
<1> QED BY <1>1, <1>2

LEMMA PlusSlot == \A i \in Slots, n \in 0 .. BufLen : Plus(i, n) \in Slots
<1> SUFFICES ASSUME NEW i \in Slots, NEW n \in 0 .. BufLen
             PROVE  Plus(i, n) \in Slots
  OBVIOUS
<1>1. i \in Int /\ n \in Int
  BY DEF Slots
<1> QED BY <1>1, PlusType

\* The n oldest characters leave a ring.
LEMMA RingTaken ==
    ASSUME NEW in \in Slots, NEW out \in Slots, NEW n \in 0 .. Used(in, out)
    PROVE  /\ Plus(out, n) \in Slots
           /\ Used(in, Plus(out, n)) = Used(in, out) - n
           /\ \A k \in Slots : Used(k, Plus(out, n)) < Used(in, Plus(out, n)) =>
                  Used(k, out) < Used(in, out) /\ Used(k, out) = Used(k, Plus(out, n)) + n
<1>1. Used(in, out) \in Slots /\ n \in 0 .. BufLen
  BY PlusUsed DEF Slots
<1>2. PICK new \in Slots : /\ new = Plus(out, n)
                           /\ new = IF out + n < BufLen THEN out + n ELSE out + n - BufLen
  BY <1>1, PlusIs, PlusSlot
<1>3. Used(in, out) = IF in >= out THEN in - out ELSE in - out + BufLen
  BY UsedIs
<1>4. Used(in, new) = IF in >= new THEN in - new ELSE in - new + BufLen
  BY UsedIs
<1>5. Used(in, new) = Used(in, out) - n
  BY <1>1, <1>2, <1>3, <1>4 DEF Slots
<1>6. ASSUME NEW k \in Slots, Used(k, new) < Used(in, new)
      PROVE  Used(k, out) < Used(in, out) /\ Used(k, out) = Used(k, new) + n
  <2>1. Used(k, new) = IF k >= new THEN k - new ELSE k - new + BufLen
    BY UsedIs
  <2>2. Used(k, out) = IF k >= out THEN k - out ELSE k - out + BufLen
    BY UsedIs
  <2> QED BY <1>1, <1>2, <1>3, <1>5, <1>6, <2>1, <2>2, SMTT(30) DEF Slots
<1> QED BY <1>2, <1>5, <1>6

\* n new characters come into it, up to the end of the buffer at most.
LEMMA RingAdded ==
    ASSUME NEW in \in Slots, NEW out \in Slots, NEW n \in Nat,
           in + n <= BufLen, Used(in, out) + n <= BufLen - 1
    PROVE  /\ Plus(in, n) \in Slots
           /\ Used(Plus(in, n), out) = Used(in, out) + n
           /\ \A k \in Slots : Used(k, out) < Used(in, out) + n =>
                  IF k \in in .. in + n - 1 THEN Used(k, out) = Used(in, out) + k - in
                  ELSE Used(k, out) < Used(in, out)
<1>1. Used(in, out) \in Slots /\ n \in 0 .. BufLen
  BY PlusUsed DEF Slots
<1>2. PICK new \in Slots : new = Plus(in, n) /\ new = IF in + n < BufLen THEN in + n ELSE in + n - BufLen
  BY <1>1, PlusIs, PlusSlot
<1>3. Used(in, out) = IF in >= out THEN in - out ELSE in - out + BufLen
  BY UsedIs
<1>4. Used(new, out) = IF new >= out THEN new - out ELSE new - out + BufLen
  BY UsedIs
<1>5. Used(new, out) = Used(in, out) + n
  BY <1>1, <1>2, <1>3, <1>4 DEF Slots
<1>6. ASSUME NEW k \in Slots, Used(k, out) < Used(in, out) + n
      PROVE  IF k \in in .. in + n - 1 THEN Used(k, out) = Used(in, out) + k - in
             ELSE Used(k, out) < Used(in, out)
  <2>1. Used(k, out) = IF k >= out THEN k - out ELSE k - out + BufLen
    BY UsedIs
  <2> QED BY <1>1, <1>3, <1>6, <2>1, SMTT(30) DEF Slots
<1> QED BY <1>2, <1>5, <1>6

\* The i-th character of a ring, counted from 0.
LEMMA RingSlot ==
    ASSUME NEW out \in Slots, NEW i \in 0 .. BufLen - 1
    PROVE  Plus(out, i) \in Slots /\ Used(Plus(out, i), out) = i
<1>1. PICK k \in Slots : k = Plus(out, i) /\ k = IF out + i < BufLen THEN out + i ELSE out + i - BufLen
  <2>1. i \in 0 .. BufLen
    OBVIOUS
  <2> QED BY <2>1, PlusIs, PlusSlot
<1>2. Used(k, out) = IF k >= out THEN k - out ELSE k - out + BufLen
  BY UsedIs
<1> QED BY <1>1, <1>2 DEF Slots

-----------------------------------------------------------------------------
(* The invariant. *)

DataTypes == shown \in Int /\ got \in Int /\ rx_buf \in [Slots -> Int] /\ count \in Nat

\* After the characters shown come those in the device's FIFO, then those in the
\* ring, up to the last one written.
Sending ==
    /\ written = shown + Len(wfifo) + Used(tx_in, tx_out)
    /\ \A i \in 1 .. Len(wfifo) : wfifo[i] = shown + i
    /\ \A k \in Slots : Used(k, tx_out) < Used(tx_in, tx_out) =>
           tx_buf[k] = shown + Len(wfifo) + 1 + Used(k, tx_out)

\* The handler puts into the FIFO no more than what it has seen room for: the host
\* only takes meanwhile.
Fits == Len(wfifo) + space <= Depth

\* The pointer a write has read is behind the handler's, and not past the program's.
OldPointer == call = "store" => seen \in Slots /\ Used(tx_in, tx_out) <= Used(tx_in, seen)

\* After the characters returned come those in the ring, then those in the FIFO.
Arriving ==
    /\ typed = got + Used(rx_in, rx_out) + Len(rfifo)
    /\ \A i \in 1 .. Len(rfifo) : rfifo[i] = got + Used(rx_in, rx_out) + i
    /\ \A k \in Slots : Used(k, rx_out) < Used(rx_in, rx_out) =>
           rx_buf[k] = got + 1 + Used(k, rx_out)

DataInv == DataTypes /\ Sending /\ Fits /\ OldPointer /\ Arriving

\* What a step of the terminal has to show.
Carried == DataInv' /\ [Terminal!Next]_<<written, shown, typed, got>>

\* Both rings hold one character less than they have slots.
LEMMA Amounts ==
    ASSUME UartTypes, DataInv
    PROVE  /\ Used(tx_in, tx_out) \in 0 .. BufLen - 1 /\ Used(rx_in, rx_out) \in 0 .. BufLen - 1
           /\ Len(wfifo) \in Nat /\ Len(rfifo) \in Nat
           /\ space \in Nat /\ written \in Int /\ typed \in Int /\ shown \in Int /\ got \in Int
<1>1. \A in, out \in Slots : Used(in, out) \in 0 .. BufLen - 1
  BY PlusUsed DEF Slots
<1>2. Len(wfifo) \in Nat /\ Len(rfifo) \in Nat
  BY DEF UartTypes
<1> QED BY <1>1, <1>2 DEF UartTypes, DataInv, DataTypes

\* Most steps leave one direction or both alone.
LEMMA SendingStays ==
    ASSUME DataInv, UNCHANGED <<wfifo, txRing, space, written, shown>>,
           call' = "store" => UNCHANGED <<call, seen>>
    PROVE  Sending' /\ Fits' /\ OldPointer'
BY DEF DataInv, Sending, Fits, OldPointer, txRing

LEMMA ArrivingStays ==
    ASSUME DataInv, UNCHANGED <<rfifo, rxRing, typed, got>>
    PROVE  Arriving'
BY DEF DataInv, Arriving, rxRing

LEMMA LineStays ==
    ASSUME DataInv, UNCHANGED <<wfifo, txRing, space, written, shown, rfifo, rxRing, typed, got>>,
           count' \in Nat, call' = "store" => UNCHANGED <<call, seen>>
    PROVE  Carried
<1>1. DataTypes'
  BY DEF DataInv, DataTypes, rxRing
<1> QED BY <1>1, SendingStays, ArrivingStays DEF Carried, DataInv

LEMMA TailIs ==
    ASSUME NEW q \in Seq(Int), q # << >>
    PROVE  /\ Len(q) \in Nat \ {0} /\ Head(q) = q[1]
           /\ Tail(q) \in Seq(Int) /\ Len(Tail(q)) = Len(q) - 1
           /\ \A i \in 1 .. Len(q) - 1 : Tail(q)[i] = q[i + 1]
OBVIOUS

-----------------------------------------------------------------------------
(* The steps that move characters. *)

\* As many as fit between two pointers fit into the ring as it is now.
LEMMA StoreCarries ==
    ASSUME UartTypes, DataInv, Write_Store
    PROVE  Carried
<1> DEFINE n == AtMost(count, FreeRun(tx_in, seen))
           u == Used(tx_in, tx_out)
<1>1. tx_in \in Slots /\ tx_out \in Slots /\ seen \in Slots /\ u <= Used(tx_in, seen)
  BY DEF UartTypes, DataInv, OldPointer, Write_Store
<1>2. /\ FreeRun(tx_in, seen) \in Nat /\ tx_in + FreeRun(tx_in, seen) <= BufLen
      /\ Used(tx_in, seen) + FreeRun(tx_in, seen) <= BufLen - 1
  <2>1. Used(tx_in, seen) = IF tx_in >= seen THEN tx_in - seen ELSE tx_in - seen + BufLen
    BY <1>1, UsedIs
  <2> QED BY <1>1, <2>1 DEF FreeRun, Slots
<1>3. u \in 0 .. BufLen - 1 /\ Used(tx_in, seen) \in 0 .. BufLen - 1
  BY <1>1, PlusUsed DEF Slots
<1>4. count \in Nat
  BY DEF DataInv, DataTypes
<1>5. n \in Nat /\ n <= count /\ n <= FreeRun(tx_in, seen)
  BY <1>2, <1>4 DEF AtMost
<1>6. /\ tx_buf' = [i \in Slots |-> IF i \in tx_in .. tx_in + n - 1 THEN written + 1 + i - tx_in
                                     ELSE tx_buf[i]]
      /\ tx_in' = Plus(tx_in, n) /\ written' = written + n /\ count' = count - n
      /\ call' # "store" /\ UNCHANGED <<wfifo, space, tx_out, shown, rfifo, rxRing, typed, got>>
  BY DEF Write_Store, device, handler
<1> HIDE DEF n
<1>7. tx_in + n <= BufLen /\ u + n <= BufLen - 1
  BY <1>1, <1>2, <1>3, <1>5 DEF Slots
<1>8. /\ Used(tx_in', tx_out) = u + n
      /\ \A k \in Slots : Used(k, tx_out) < u + n =>
             IF k \in tx_in .. tx_in + n - 1 THEN Used(k, tx_out) = u + k - tx_in
             ELSE Used(k, tx_out) < u
  BY <1>1, <1>5, <1>6, <1>7, RingAdded
<1>9. Sending'
  <2>1. written = shown + Len(wfifo) + u /\ Len(wfifo) \in Nat /\ shown \in Int
    BY Amounts DEF DataInv, Sending
  <2>2. written' = shown' + Len(wfifo') + Used(tx_in, tx_out)'
    BY <1>3, <1>5, <1>6, <1>8, <2>1
  <2>3. ASSUME NEW k \in Slots, Used(k, tx_out) < u + n
        PROVE  tx_buf'[k] = shown + Len(wfifo) + 1 + Used(k, tx_out)
    <3>1. CASE k \in tx_in .. tx_in + n - 1
      <4>1. tx_buf'[k] = written + 1 + k - tx_in /\ Used(k, tx_out) = u + k - tx_in
        BY <1>6, <1>8, <2>3, <3>1
      <4> QED BY <1>1, <1>3, <2>1, <4>1, SMTT(30) DEF Slots
    <3>2. CASE ~(k \in tx_in .. tx_in + n - 1)
      <4>1. tx_buf'[k] = tx_buf[k] /\ Used(k, tx_out) < u
        BY <1>6, <1>8, <2>3, <3>2
      <4> QED BY <4>1 DEF DataInv, Sending
    <3> QED BY <3>1, <3>2
  <2> QED BY <1>6, <1>8, <2>2, <2>3 DEF DataInv, Sending
<1>10. Fits' /\ OldPointer' /\ Arriving' /\ DataTypes'
  <2>1. Arriving'
    BY <1>6, ArrivingStays
  <2>2. count' \in Nat
    BY <1>4, <1>5, <1>6
  <2> QED BY <1>6, <2>1, <2>2 DEF DataInv, Fits, OldPointer, DataTypes, rxRing
<1>11. n = 0 => UNCHANGED <<written, shown, typed, got>>
  BY <1>6, Amounts
<1>12. n > 0 => Terminal!Write
  <2>1. written = shown + Len(wfifo) + u /\ Len(wfifo) \in Nat /\ Len(wfifo) <= Depth /\ shown \in Int
    BY Amounts DEF DataInv, Sending, UartTypes
  <2>2. n > 0 => written' \in written + 1 .. shown + (BufLen - 1 + Depth)
    BY <1>3, <1>5, <1>6, <1>7, <2>1, SMTT(30)
  <2> QED BY <1>6, <2>2 DEF Terminal!Write
<1> QED BY <1>5, <1>9, <1>10, <1>11, <1>12 DEF Carried, DataInv, Terminal!Next

\* A read returns the characters that follow the last one it has returned.
LEMMA CopyCarries ==
    ASSUME UartTypes, DataInv, Read_Copy
    PROVE  Carried
<1> DEFINE n == AtMost(count, FullRun(rx_in, rx_out))
           u == Used(rx_in, rx_out)
<1>1. rx_in \in Slots /\ rx_out \in Slots /\ u \in 0 .. BufLen - 1
  BY Amounts DEF UartTypes
<1>2. /\ FullRun(rx_in, rx_out) \in Nat /\ FullRun(rx_in, rx_out) <= u
      /\ rx_out + FullRun(rx_in, rx_out) <= BufLen
  <2>1. u = IF rx_in >= rx_out THEN rx_in - rx_out ELSE rx_in - rx_out + BufLen
    BY <1>1, UsedIs
  <2> QED BY <1>1, <2>1 DEF FullRun, Slots
<1>3. count \in Nat
  BY DEF DataInv, DataTypes
<1>4. n \in Nat /\ n <= count /\ n <= FullRun(rx_in, rx_out)
  BY <1>2, <1>3 DEF AtMost
<1>5. /\ n > 0 /\ got' = NextChars(rx_out, n) /\ rx_out' = Plus(rx_out, n) /\ count' = count - n
      /\ call' # "store" /\ UNCHANGED <<wfifo, space, txRing, shown, written, rfifo, rx_in, rx_buf, typed>>
  BY DEF Read_Copy, device, handler
<1> HIDE DEF n
<1>6. n \in 0 .. u /\ rx_out + n <= BufLen
  BY <1>1, <1>2, <1>4 DEF Slots
<1>7. got' = got + n
  <2>1. ASSUME NEW i \in 0 .. n - 1
        PROVE  rx_buf[rx_out + i] = got + 1 + i
    <3>1. i \in 0 .. BufLen - 1 /\ rx_out + i \in Slots /\ rx_out + i < BufLen /\ i < u
      BY <1>1, <1>4, <1>6 DEF Slots
    <3>2. Used(rx_out + i, rx_out) = i
      <4>1. PICK k \in Slots : k = rx_out + i
        BY <3>1
      <4>2. k >= rx_out /\ k - rx_out = i
        BY <1>1, <3>1, <4>1 DEF Slots
      <4>3. Used(k, rx_out) = i
        BY <1>1, <4>2, UsedIs
      <4> QED BY <4>1, <4>3
    <3> QED BY <3>1, <3>2 DEF DataInv, Arriving
  <2> QED BY <1>5, <2>1 DEF NextChars
<1>8. /\ Used(rx_in, rx_out') = u - n
      /\ \A k \in Slots : Used(k, rx_out') < Used(rx_in, rx_out') =>
             Used(k, rx_out) < u /\ Used(k, rx_out) = Used(k, rx_out') + n
  BY <1>1, <1>5, <1>6, RingTaken
<1>9. Arriving'
  <2>1. /\ typed = got + u + Len(rfifo) /\ Len(rfifo) \in Nat /\ got \in Int
        /\ \A i \in 1 .. Len(rfifo) : rfifo[i] = got + u + i
    BY Amounts DEF DataInv, Arriving
  <2>2. got' + Used(rx_in, rx_out)' = got + u
    BY <1>1, <1>4, <1>5, <1>7, <1>8, <2>1
  <2>3. ASSUME NEW k \in Slots, Used(k, rx_out') < Used(rx_in, rx_out')
        PROVE  rx_buf[k] = got' + 1 + Used(k, rx_out')
    <3>1. rx_buf[k] = got + 1 + Used(k, rx_out) /\ Used(k, rx_out) = Used(k, rx_out') + n
      BY <1>8, <2>3 DEF DataInv, Arriving
    <3>2. Used(k, rx_out) \in Int
      BY <1>1, PlusUsed DEF Slots
    <3>3. Used(k, rx_out') \in Int
      <4>1. rx_out' \in Slots
        BY <1>1, <1>5, <1>6, RingTaken
      <4> QED BY <4>1, PlusUsed DEF Slots
    <3> QED BY <1>4, <1>7, <2>1, <3>1, <3>2, <3>3
  <2> QED BY <1>5, <2>1, <2>2, <2>3 DEF Arriving
<1>10. Sending' /\ Fits' /\ OldPointer'
  BY <1>5, SendingStays
<1>11. DataTypes'
  BY <1>3, <1>4, <1>5, <1>7 DEF DataInv, DataTypes
<1>12. Terminal!Get
  <2>1. typed = got + u + Len(rfifo) /\ Len(rfifo) \in Nat /\ got \in Int /\ typed \in Int
    BY Amounts DEF DataInv, Arriving
  <2>2. got' \in got + 1 .. typed
    BY <1>1, <1>4, <1>5, <1>6, <1>7, <2>1
  <2> QED BY <1>5, <2>2 DEF Terminal!Get
<1> QED BY <1>9, <1>10, <1>11, <1>12 DEF Carried, DataInv, Terminal!Next

LEMMA LookCarries ==
    ASSUME UartTypes, DataInv, Write_Look
    PROVE  Carried
<1>1. UNCHANGED <<wfifo, txRing, space, written, shown, rfifo, rxRing, typed, got, count>>
  BY DEF Write_Look, device, handler, history
<1>2. DataTypes'
  BY <1>1 DEF DataInv, DataTypes, rxRing
<1>3. Sending' /\ Fits' /\ Arriving'
  BY <1>1, ArrivingStays DEF DataInv, Sending, Fits, txRing
<1>4. OldPointer'
  <2>1. CASE count > 0
    <3>1. seen' = tx_out /\ UNCHANGED <<tx_in, tx_out>>
      BY <1>1, <2>1 DEF Write_Look, txRing
    <3>2. tx_out \in Slots /\ Used(tx_in, tx_out) <= Used(tx_in, tx_out)
      BY Amounts DEF UartTypes
    <3> QED BY <3>1, <3>2 DEF OldPointer
  <2>2. CASE ~(count > 0)
    BY <2>2 DEF Write_Look, OldPointer
  <2> QED BY <2>1, <2>2
<1> QED BY <1>1, <1>2, <1>3, <1>4 DEF Carried, DataInv

LEMMA ControlCarries ==
    ASSUME UartTypes, DataInv, Irq_Control
    PROVE  Carried
<1>1. UNCHANGED <<wfifo, txRing, written, shown, rfifo, rxRing, typed, got, count, call, seen>>
  BY DEF Irq_Control, device, locals, history
<1>2. DataTypes' /\ Sending' /\ OldPointer' /\ Arriving'
  BY <1>1, ArrivingStays DEF DataInv, DataTypes, Sending, OldPointer, rxRing, txRing
<1>3. Fits'
  <2>1. space' \in {0, Depth - Len(wfifo)} /\ Len(wfifo) \in Nat /\ Len(wfifo) <= Depth
    BY Amounts DEF Irq_Control, UartTypes
  <2> QED BY <1>1, <2>1 DEF Fits
<1> QED BY <1>1, <1>2, <1>3 DEF Carried, DataInv

\* Of what the handler writes to the FIFO nothing is dropped.
LEMMA TransmitCarries ==
    ASSUME UartTypes, DataInv, Irq_Transmit
    PROVE  Carried
<1> DEFINE u == Used(tx_in, tx_out)
           n == AtMost(space, u)
           w == Len(wfifo)
           chars == [i \in 1 .. n |-> tx_buf[Plus(tx_out, i - 1)]]
<1>1. /\ tx_in \in Slots /\ tx_out \in Slots /\ u \in 0 .. BufLen - 1 /\ w \in Nat
      /\ space \in Nat /\ w + space <= Depth /\ wfifo \in Seq(Int) /\ shown \in Int
  BY Amounts DEF UartTypes, DataInv, Fits
<1>2. n \in 0 .. u /\ n <= space
  BY <1>1 DEF AtMost
<1>3. /\ DataWrites(chars) /\ tx_out' = Plus(tx_out, n) /\ space' = 0
      /\ UNCHANGED <<rfifo, rxRing, tx_in, tx_buf, call, count, seen, written, shown, typed, got>>
  BY DEF Irq_Transmit, locals, history
<1>4. \A i \in 1 .. n : tx_buf[Plus(tx_out, i - 1)] = shown + w + i
  <2> SUFFICES ASSUME NEW i \in 1 .. n
               PROVE  tx_buf[Plus(tx_out, i - 1)] = shown + w + i
    OBVIOUS
  <2> HIDE DEF n
  <2>1. i - 1 \in 0 .. BufLen - 1 /\ i - 1 < u
    BY <1>1, <1>2
  <2>2. Plus(tx_out, i - 1) \in Slots /\ Used(Plus(tx_out, i - 1), tx_out) = i - 1
    BY <1>1, <2>1, RingSlot
  <2>3. tx_buf[Plus(tx_out, i - 1)] = shown + w + 1 + (i - 1)
    BY <2>1, <2>2 DEF DataInv, Sending
  <2> QED BY <1>1, <1>2, <2>3
<1> HIDE DEF n
<1>5. chars = [i \in 1 .. n |-> shown + w + i]
  BY <1>4
<1>6. chars \in Seq(Int) /\ Len(chars) = n
  <2> DEFINE numbers == [i \in 1 .. n |-> shown + w + i]
  <2>1. numbers \in Seq(Int) /\ Len(numbers) = n
    BY <1>1, <1>2
  <2> QED BY <1>5, <2>1
<1>7. /\ Len(wfifo') = w + n
      /\ \A i \in 1 .. w + n : wfifo'[i] = shown + i
  <2>1. AtMost(Depth, w + n) = w + n
    BY <1>1, <1>2 DEF AtMost
  <2>2. wfifo' = SubSeq(wfifo \o chars, 1, w + n)
    BY <1>3, <1>6, <2>1 DEF DataWrites
  <2> HIDE DEF w, chars
  <2>3. wfifo \o chars \in Seq(Int) /\ Len(wfifo \o chars) = w + n
    BY <1>1, <1>6, ConcatProperties DEF w
  <2>4. Len(wfifo') = w + n /\ \A i \in 1 .. w + n : wfifo'[i] = (wfifo \o chars)[i]
    BY <1>1, <1>2, <2>2, <2>3
  <2>5. ASSUME NEW i \in 1 .. w + n
        PROVE  (wfifo \o chars)[i] = shown + i
    <3>1. CASE i <= w
      <4>1. (wfifo \o chars)[i] = wfifo[i] /\ i \in 1 .. w
        BY <1>1, <1>2, <1>6, <3>1, ConcatProperties DEF w
      <4> QED BY <4>1 DEF DataInv, Sending, w
    <3>2. CASE ~(i <= w)
      <4>1. (wfifo \o chars)[i] = chars[i - w] /\ i - w \in 1 .. n
        BY <1>1, <1>2, <1>6, <3>2, ConcatProperties DEF w
      <4>2. chars[i - w] = shown + w + (i - w)
        BY <1>5, <4>1
      <4> QED BY <1>1, <1>2, <4>1, <4>2
    <3> QED BY <3>1, <3>2
  <2> QED BY <2>4, <2>5
<1>8. /\ tx_out' \in Slots /\ Used(tx_in, tx_out') = u - n
      /\ \A k \in Slots : Used(k, tx_out') < Used(tx_in, tx_out') =>
             Used(k, tx_out) < u /\ Used(k, tx_out) = Used(k, tx_out') + n
  BY <1>1, <1>2, <1>3, RingTaken
<1>9. Sending'
  <2>1. written = shown + w + u
    BY DEF DataInv, Sending
  <2>2. written' = shown' + Len(wfifo') + Used(tx_in, tx_out)'
    BY <1>1, <1>2, <1>3, <1>7, <1>8, <2>1
  <2>3. ASSUME NEW k \in Slots, Used(k, tx_out') < Used(tx_in, tx_out')
        PROVE  tx_buf[k] = shown + (w + n) + 1 + Used(k, tx_out')
    <3>1. tx_buf[k] = shown + w + 1 + Used(k, tx_out) /\ Used(k, tx_out) = Used(k, tx_out') + n
      BY <1>8, <2>3 DEF DataInv, Sending
    <3>2. Used(k, tx_out) \in Int
      BY <1>1, PlusUsed DEF Slots
    <3>3. Used(k, tx_out') \in Int
      BY <1>8, PlusUsed DEF Slots
    <3> QED BY <1>1, <1>2, <3>1, <3>2, <3>3
  <2> QED BY <1>3, <1>7, <2>2, <2>3 DEF Sending
<1>10. Fits'
  BY <1>1, <1>2, <1>3, <1>7 DEF Fits
<1>11. OldPointer'
  <2>1. ASSUME call = "store"
        PROVE  seen \in Slots /\ Used(tx_in, tx_out') <= Used(tx_in, seen)
    <3>1. seen \in Slots /\ u <= Used(tx_in, seen)
      BY <2>1 DEF DataInv, OldPointer
    <3>2. Used(tx_in, seen) \in Int
      BY <1>1, <3>1, PlusUsed DEF Slots
    <3> QED BY <1>1, <1>2, <1>8, <3>1, <3>2
  <2> QED BY <1>3, <2>1 DEF OldPointer
<1>12. DataTypes' /\ Arriving'
  BY <1>3, ArrivingStays DEF DataInv, DataTypes, rxRing
<1> QED BY <1>3, <1>9, <1>10, <1>11, <1>12 DEF Carried, DataInv

\* A character moves from the FIFO to the ring, which has room for it.
LEMMA ReceiveCarries ==
    ASSUME UartTypes, DataInv, Irq_Receive
    PROVE  Carried
<1> DEFINE u == Used(rx_in, rx_out)
<1>1. /\ rx_in \in Slots /\ rx_out \in Slots /\ u \in 0 .. BufLen - 1 /\ got \in Int
      /\ rfifo \in Seq(Int) /\ rfifo # << >>
  BY Amounts DEF UartTypes, Irq_Receive
<1>2. u + 1 <= BufLen - 1 /\ rx_in + 1 <= BufLen
  <2>1. u = IF rx_in >= rx_out THEN rx_in - rx_out ELSE rx_in - rx_out + BufLen
    BY <1>1, UsedIs
  <2>2. 1 \in 0 .. BufLen
    OBVIOUS
  <2>3. Plus(rx_in, 1) = IF rx_in + 1 < BufLen THEN rx_in + 1 ELSE rx_in + 1 - BufLen
    BY <1>1, <2>2, PlusIs
  <2>4. Plus(rx_in, 1) # rx_out
    BY DEF Irq_Receive, RingFull
  <2> QED BY <1>1, <2>1, <2>3, <2>4 DEF Slots
<1>3. /\ rfifo' = Tail(rfifo) /\ rx_buf' = [rx_buf EXCEPT ![rx_in] = Head(rfifo)]
      /\ rx_in' = Plus(rx_in, 1)
      /\ UNCHANGED <<wfifo, txRing, space, written, shown, typed, got, rx_out, count, call, seen>>
  BY DEF Irq_Receive, locals, history
<1>4. /\ Used(rx_in', rx_out) = u + 1
      /\ \A k \in Slots : Used(k, rx_out) < u + 1 =>
             IF k \in rx_in .. rx_in + 1 - 1 THEN Used(k, rx_out) = u + k - rx_in
             ELSE Used(k, rx_out) < u
  BY <1>1, <1>2, <1>3, RingAdded
<1>5. /\ Len(rfifo) \in Nat \ {0} /\ Head(rfifo) = rfifo[1] /\ rfifo' \in Seq(Int)
      /\ Len(rfifo') = Len(rfifo) - 1
      /\ \A i \in 1 .. Len(rfifo) - 1 : rfifo'[i] = rfifo[i + 1]
  BY <1>1, <1>3, TailIs
<1>6. /\ typed = got + u + Len(rfifo)
      /\ \A i \in 1 .. Len(rfifo) : rfifo[i] = got + u + i
  BY DEF DataInv, Arriving
<1>7. Head(rfifo) = got + u + 1
  BY <1>5, <1>6
<1>8. Arriving'
  <2>1. typed' = got' + Used(rx_in, rx_out)' + Len(rfifo')
    BY <1>1, <1>3, <1>4, <1>5, <1>6
  <2>2. ASSUME NEW i \in 1 .. Len(rfifo')
        PROVE  rfifo'[i] = got + (u + 1) + i
    <3>1. i + 1 \in 1 .. Len(rfifo) /\ rfifo'[i] = rfifo[i + 1]
      BY <1>5
    <3> QED BY <1>1, <1>6, <3>1
  <2>3. ASSUME NEW k \in Slots, Used(k, rx_out) < u + 1
        PROVE  rx_buf'[k] = got + 1 + Used(k, rx_out)
    <3>0. rx_buf \in [Slots -> Int]
      BY DEF DataInv, DataTypes
    <3>1. CASE k = rx_in
      <4>1. rx_buf'[k] = got + u + 1
        BY <1>1, <1>3, <1>7, <3>0, <3>1
      <4> QED BY <1>1, <3>1, <4>1
    <3>2. CASE k # rx_in
      <4>1. ~(k \in rx_in .. rx_in + 1 - 1)
        BY <1>1, <3>2 DEF Slots
      <4>2. rx_buf'[k] = rx_buf[k] /\ Used(k, rx_out) < u
        BY <1>1, <1>3, <1>4, <2>3, <3>0, <3>2, <4>1
      <4> QED BY <4>2 DEF DataInv, Arriving
    <3> QED BY <3>1, <3>2
  <2> QED BY <1>3, <1>4, <2>1, <2>2, <2>3 DEF Arriving
<1>9. DataTypes'
  <2>1. rx_buf' \in [Slots -> Int]
    BY <1>1, <1>3, <1>7 DEF DataInv, DataTypes
  <2> QED BY <1>3, <2>1 DEF DataInv, DataTypes
<1>10. Sending' /\ Fits' /\ OldPointer'
  BY <1>3, SendingStays
<1> QED BY <1>3, <1>8, <1>9, <1>10 DEF Carried, DataInv

LEMMA JustMissedCarries ==
    ASSUME UartTypes, DataInv, Irq_JustMissed
    PROVE  Carried
<1> DEFINE u == Used(rx_in, rx_out)
<1>1. /\ rfifo = << >> /\ typed' = typed + 1 /\ rfifo' = <<typed'>>
      /\ UNCHANGED <<wfifo, txRing, space, written, shown, got, rxRing, count, call, seen>>
  BY DEF Irq_JustMissed, locals
<1>2. u \in 0 .. BufLen - 1 /\ got \in Int /\ typed = got + u
  BY <1>1, Amounts DEF DataInv, Arriving
<1>3. Len(rfifo') = 1 /\ \A i \in 1 .. 1 : rfifo'[i] = typed'
  BY <1>1
<1>4. Arriving'
  <2>1. UNCHANGED <<rx_in, rx_out, rx_buf>>
    BY <1>1 DEF rxRing
  <2>2. typed' = got + u + Len(rfifo') /\ \A i \in 1 .. Len(rfifo') : rfifo'[i] = got + u + i
    BY <1>1, <1>2, <1>3
  <2> QED BY <1>1, <2>1, <2>2 DEF DataInv, Arriving
<1>5. DataTypes' /\ Sending' /\ Fits' /\ OldPointer'
  BY <1>1, SendingStays DEF DataInv, DataTypes, rxRing
<1>6. Terminal!Type
  <2>1. typed < got + (BufLen - 1 + Depth)
    BY <1>2
  <2> QED BY <1>1, <2>1 DEF Terminal!Type
<1> QED BY <1>4, <1>5, <1>6 DEF Carried, DataInv, Terminal!Next

LEMMA TypesCarries ==
    ASSUME UartTypes, DataInv, HostTypes
    PROVE  Carried
<1> DEFINE u == Used(rx_in, rx_out)
           l == Len(rfifo)
<1>1. /\ l < Depth /\ typed' = typed + 1 /\ rfifo' = Append(rfifo, typed')
      /\ UNCHANGED <<wfifo, txRing, space, written, shown, got, rxRing, count, call, seen>>
  BY DEF HostTypes, locals, handler
<1>2. u \in 0 .. BufLen - 1 /\ l \in Nat /\ got \in Int /\ typed = got + u + l /\ rfifo \in Seq(Int)
  BY Amounts DEF DataInv, Arriving, UartTypes
<1>3. /\ Len(rfifo') = l + 1 /\ rfifo'[l + 1] = typed'
      /\ \A i \in 1 .. l : rfifo'[i] = rfifo[i]
  <2>1. typed' \in Int
    BY <1>1, <1>2
  <2> QED BY <1>1, <1>2, <2>1
<1>4. Arriving'
  <2>1. UNCHANGED <<rx_in, rx_out, rx_buf>>
    BY <1>1 DEF rxRing
  <2>2. typed' = got + u + Len(rfifo')
    BY <1>1, <1>2, <1>3
  <2>3. ASSUME NEW i \in 1 .. l + 1
        PROVE  rfifo'[i] = got + u + i
    <3>1. CASE i = l + 1
      BY <1>1, <1>2, <1>3, <3>1
    <3>2. CASE i # l + 1
      <4>1. i \in 1 .. l
        BY <1>2, <3>2
      <4> QED BY <1>3, <4>1 DEF DataInv, Arriving
    <3> QED BY <3>1, <3>2
  <2> QED BY <1>1, <1>3, <2>1, <2>2, <2>3 DEF DataInv, Arriving
<1>5. DataTypes' /\ Sending' /\ Fits' /\ OldPointer'
  BY <1>1, SendingStays DEF DataInv, DataTypes, rxRing
<1>6. Terminal!Type
  <2>1. typed < got + (BufLen - 1 + Depth)
    BY <1>1, <1>2
  <2> QED BY <1>1, <2>1 DEF Terminal!Type
<1> QED BY <1>4, <1>5, <1>6 DEF Carried, DataInv, Terminal!Next

LEMMA TakesCarries ==
    ASSUME UartTypes, DataInv, HostTakes
    PROVE  Carried
<1> DEFINE u == Used(tx_in, tx_out)
           w == Len(wfifo)
<1>1. /\ wfifo # << >> /\ wfifo' = Tail(wfifo) /\ shown' = Head(wfifo)
      /\ UNCHANGED <<txRing, space, written, typed, got, rfifo, rxRing, count, call, seen>>
  BY DEF HostTakes, locals, handler
<1>2. /\ wfifo \in Seq(Int) /\ shown \in Int /\ u \in 0 .. BufLen - 1 /\ space \in Nat
      /\ w + space <= Depth
  BY Amounts DEF UartTypes, DataInv, Fits
<1>3. /\ w \in Nat \ {0} /\ Head(wfifo) = wfifo[1] /\ Len(wfifo') = w - 1
      /\ \A i \in 1 .. w - 1 : wfifo'[i] = wfifo[i + 1]
  BY <1>1, <1>2, TailIs
<1>4. /\ written = shown + w + u
      /\ \A i \in 1 .. w : wfifo[i] = shown + i
  BY DEF DataInv, Sending
<1>5. shown' = shown + 1
  BY <1>1, <1>3, <1>4
<1>6. Sending'
  <2>1. UNCHANGED <<tx_in, tx_out, tx_buf>>
    BY <1>1 DEF txRing
  <2>2. written' = shown' + Len(wfifo') + u
    BY <1>1, <1>2, <1>3, <1>4, <1>5
  <2>3. ASSUME NEW i \in 1 .. Len(wfifo')
        PROVE  wfifo'[i] = shown' + i
    <3>1. i + 1 \in 1 .. w /\ wfifo'[i] = wfifo[i + 1]
      BY <1>3
    <3> QED BY <1>2, <1>4, <1>5, <3>1
  <2>4. shown' + Len(wfifo') + 1 = shown + w + 1
    BY <1>2, <1>3, <1>5
  <2> QED BY <2>1, <2>2, <2>3, <2>4 DEF DataInv, Sending
<1>7. Fits' /\ OldPointer'
  <2>1. Fits'
    BY <1>1, <1>2, <1>3 DEF Fits
  <2> QED BY <1>1, <2>1 DEF DataInv, OldPointer, txRing
<1>8. DataTypes' /\ Arriving'
  BY <1>1, <1>2, <1>5, ArrivingStays DEF DataInv, DataTypes, rxRing
<1>9. Terminal!Show
  <2>1. shown < written
    BY <1>2, <1>3, <1>4
  <2> QED BY <1>1, <1>5, <2>1 DEF Terminal!Show
<1> QED BY <1>6, <1>7, <1>8, <1>9 DEF Carried, DataInv, Terminal!Next

-----------------------------------------------------------------------------
(* All steps. *)

\* Calls and handlers that move no character.
LEMMA QuietSteps ==
    ASSUME DataInv,
           \/ \E n \in Lengths : \E nb : WriteCalled(n, nb) \/ ReadCalled(n, nb)
           \/ \E nb : CloseCalled(nb)
           \/ \E t : TIOCSTIMEOUT(t)
           \/ Write_Kick \/ Write_Waited \/ Read_Empty \/ Read_Waited \/ Read_Listen \/ Close_Waited
           \/ Irq_Enter \/ Irq_Full \/ Irq_Nothing \/ Irq_Received
           \/ Init_Enable \/ Timeout \/ HostPauses \/ HostGoes \/ UNCHANGED uartVars
    PROVE  Carried
<1>0. count \in Nat
  BY DEF DataInv, DataTypes
<1> DEFINE Still == UNCHANGED <<wfifo, txRing, space, written, shown, rfifo, rxRing, typed, got>>
<1>1. ASSUME NEW n \in Lengths, NEW nb, WriteCalled(n, nb) \/ ReadCalled(n, nb)
      PROVE  Still /\ count' \in Nat /\ call' # "store"
  <2>1. n \in Nat
    BY <1>1
  <2> QED BY <1>1, <2>1 DEF WriteCalled, ReadCalled, device, handler, history
<1>2. ASSUME NEW nb, CloseCalled(nb)
      PROVE  Still /\ count' \in Nat /\ call' # "store"
  BY <1>2 DEF CloseCalled, device, handler, history
<1>3. CASE Write_Kick \/ Read_Listen
  <2>1. Still /\ count' \in Nat /\ call' # "store"
    BY <1>0, <1>3 DEF Write_Kick, Read_Listen, Goes, handler, history
  <2> QED BY <2>1, LineStays
<1>4. CASE Write_Waited \/ Read_Waited \/ Read_Empty \/ Close_Waited
  <2>1. Still /\ count' \in Nat /\ call' # "store"
    BY <1>0, <1>4 DEF Write_Waited, Read_Waited, Read_Empty, Close_Waited, Goes, device, handler, history
  <2> QED BY <2>1, LineStays
<1>5. CASE Irq_Enter \/ Irq_Full \/ Irq_Nothing \/ Irq_Received
  <2>1. Still /\ UNCHANGED <<count, call, seen>>
    BY <1>5 DEF Irq_Enter, Irq_Full, Irq_Nothing, Irq_Received, device, locals, history
  <2> QED BY <1>0, <2>1, LineStays
<1>6. CASE Init_Enable \/ Timeout \/ (\E t : TIOCSTIMEOUT(t))
  <2>1. Still /\ UNCHANGED <<count, call, seen>>
    BY <1>6 DEF Init_Enable, Timeout, TIOCSTIMEOUT, device, locals, handler, history
  <2> QED BY <1>0, <2>1, LineStays
<1>7. CASE HostPauses \/ HostGoes \/ UNCHANGED uartVars
  <2>1. Still /\ UNCHANGED <<count, call, seen>>
    BY <1>7 DEF HostPauses, HostGoes, uartVars, device, locals, handler, history
  <2> QED BY <1>0, <2>1, LineStays
<1> QED BY <1>1, <1>2, <1>3, <1>4, <1>5, <1>6, <1>7, LineStays

LEMMA BoardCarries ==
    ASSUME HalInv, DataInv, Board
    PROVE  Carried
<1> UartTypes
  BY DEF HalInv, UartInv
<1>1. CASE Boot
  BY <1>1, QuietSteps DEF Boot, TimerInit, UartInit, UartAlarmInit, Redirect
<1>2. CASE Client
  <2>1. CASE write \/ read
    <3>1. \E n \in Lengths : \E nb : WriteCalled(n, nb) \/ ReadCalled(n, nb)
      BY <2>1 DEF write, read
    <3> QED BY <3>1, QuietSteps
  <2>2. CASE ioctl
    BY <2>2, QuietSteps DEF ioctl
  <2>3. CASE Return
    BY <2>3, QuietSteps DEF Return
  <2>4. CASE Open \/ Close \/ Other \/ Lock \/ Fcntl \/ StartAlarm \/ StopAlarm
    BY <2>4, QuietSteps DEF Open, Close, Other, Lock, Fcntl, StartAlarm, StopAlarm
  <2> QED BY <1>2, <2>1, <2>2, <2>3, <2>4 DEF Client
<1>3. CASE UartCall
  BY <1>3, QuietSteps, LookCarries, StoreCarries, CopyCarries DEF UartCall
<1>4. CASE Exit
  BY <1>4, QuietSteps DEF Exit
<1>5. CASE UartInterrupt
  BY <1>5, QuietSteps, ControlCarries, ReceiveCarries, JustMissedCarries, TransmitCarries
     DEF UartInterrupt
<1>6. CASE TimerInterrupt \/ Ticking
  BY <1>6, QuietSteps DEF TimerInterrupt, Ticking, Callback
<1>7. CASE Host
  BY <1>7, QuietSteps, TakesCarries, TypesCarries DEF Host
<1> QED BY <1>1, <1>2, <1>3, <1>4, <1>5, <1>6, <1>7 DEF Board

LEMMA InitData == Init => DataInv
<1> SUFFICES ASSUME Init
             PROVE  DataInv
  OBVIOUS
<1>1. /\ wfifo = << >> /\ rfifo = << >> /\ space = 0 /\ call = "none" /\ count = 0
      /\ rx_in = 0 /\ rx_out = 0 /\ tx_in = 0 /\ tx_out = 0 /\ rx_buf = [i \in Slots |-> 0]
      /\ written = 0 /\ shown = 0 /\ typed = 0 /\ got = 0
  BY DEF Init, uartInit
<1>2. Used(0, 0) = 0 /\ 0 \in Slots
  BY UsedIs DEF Slots
<1>3. \A k \in Slots : ~(Used(k, 0) < 0)
  BY <1>2, PlusUsed DEF Slots
<1>4. Len(wfifo) = 0 /\ Len(rfifo) = 0
  BY <1>1
<1>5. DataTypes /\ Fits /\ OldPointer
  BY <1>1, <1>4 DEF DataTypes, Fits, OldPointer
<1>6. Sending /\ Arriving
  BY <1>1, <1>2, <1>3, <1>4 DEF Sending, Arriving
<1> QED BY <1>5, <1>6 DEF DataInv

\* Where the characters are, for rings and FIFOs of every length.
THEOREM DataInvariant == Spec => []DataInv
<1>1. HalInv /\ DataInv /\ [Next]_vars => DataInv'
  BY BoardCarries, QuietSteps DEF Next, vars, boardVars, Carried
<1> QED BY <1>1, InitData, HalInvariant, PTL DEF Spec

\* The terminal loses, repeats and swaps no character in either direction, although
\* program and handler index the rings without a lock, and the program with a
\* pointer that may be old.
THEOREM TextStreamCorrect == Spec => ImplementsTextStream
<1>1. Init => Terminal!Init
  BY DEF Init, uartInit, Terminal!Init
<1>2. HalInv /\ DataInv /\ [Next]_vars => [Terminal!Next]_<<written, shown, typed, got>>
  BY BoardCarries, QuietSteps DEF Next, vars, boardVars, Carried
<1> QED BY <1>1, <1>2, HalInvariant, DataInvariant, PTL DEF Spec, ImplementsTextStream, Terminal!Spec

-----------------------------------------------------------------------------
(* The list of alarms. *)

Entry == Alarm \union {alt_alarm_list}

\* The list, from its head round to its head, over the m alarms of c.  An alarm
\* that was never on it points nowhere, one that was removed to itself.
Chain(m, c) ==
    /\ c \in [0 .. m + 1 -> Entry]
    /\ c[0] = alt_alarm_list /\ c[m + 1] = alt_alarm_list
    /\ \A i \in 1 .. m : c[i] \in Alarm
    /\ \A i, j \in 1 .. m : c[i] = c[j] => i = j
    /\ \A i \in 0 .. m : next[c[i]] = c[i + 1] /\ previous[c[i + 1]] = c[i]
    /\ \A a \in Alarm : (\A i \in 1 .. m : a # c[i]) => next[a] \in {a, NULL} /\ previous[a] = next[a]

Links == next \in [Entry -> Entry \union {NULL}] /\ previous \in [Entry -> Entry \union {NULL}]

USE AlarmAssumption DEF AlarmAssumption

LEMMA Ends ==
    ASSUME NEW m, NEW c, Chain(m, c)
    PROVE  c[0] = alt_alarm_list /\ c[m + 1] = alt_alarm_list
BY DEF Chain

LEMMA ChainListed ==
    ASSUME NEW m \in Nat, NEW c, Chain(m, c)
    PROVE  /\ \A i \in 1 .. m : c[i] \in Listed
           /\ \A a \in Listed : \E i \in 1 .. m : a = c[i]
<1>1. ASSUME NEW i \in 1 .. m
      PROVE  c[i] \in Listed
  <2>1. i \in 0 .. m /\ next[c[i]] = c[i + 1] /\ c[i] \in Alarm /\ i + 1 \in 0 .. m + 1
    BY <1>1 DEF Chain
  <2>2. c[i + 1] \in Entry /\ c[i + 1] # NULL
    BY <2>1 DEF Chain, Entry
  <2>3. c[i + 1] # c[i]
    <3>1. CASE i = m
      BY <3>1, <2>1 DEF Chain
    <3>2. CASE i # m
      <4>1. i + 1 \in 1 .. m /\ i + 1 # i
        BY <3>2
      <4> QED BY <4>1 DEF Chain
    <3> QED BY <3>1, <3>2
  <2> QED BY <2>1, <2>2, <2>3 DEF Listed
<1>2. ASSUME NEW a \in Listed
      PROVE  \E i \in 1 .. m : a = c[i]
  BY <1>2 DEF Listed, Chain
<1> QED BY <1>1, <1>2

\* The list with a new alarm at its front, and without its alarm j.
Fore(m, c, a) == [i \in 0 .. m + 2 |-> IF i = 0 THEN c[0] ELSE IF i = 1 THEN a ELSE c[i - 1]]
Without(m, c, j) == [i \in 0 .. m |-> IF i < j THEN c[i] ELSE c[i + 1]]

LEMMA Inserted ==
    ASSUME NEW m \in Nat, NEW c, Chain(m, c), Links, NEW a \in Alarm, a \notin Listed,
           alt_llist_insert(a)
    PROVE  Chain(m + 1, Fore(m, c, a))' /\ Links'
<1> DEFINE d == Fore(m, c, a)
           h == alt_alarm_list
<1>1. \A i \in 1 .. m : c[i] # a
  BY ChainListed
<1>2. c[0] = h /\ next[h] = c[1] /\ c[1] \in Entry /\ c[1] # a /\ h # a /\ h \in Entry /\ a \in Entry
  <2>1. 0 \in 0 .. m /\ 1 \in 0 .. m + 1 /\ 0 + 1 = 1
    OBVIOUS
  <2>2. c[0] = h /\ next[c[0]] = c[1] /\ c[1] \in Entry
    BY <2>1 DEF Chain
  <2>3. c[1] # a
    BY <1>1 DEF Chain
  <2> QED BY <2>2, <2>3 DEF Entry
<1>3. /\ \A e \in Entry : next'[e] = IF e = h THEN a ELSE IF e = a THEN c[1] ELSE next[e]
      /\ \A e \in Entry : previous'[e] = IF e = c[1] THEN a ELSE IF e = a THEN h ELSE previous[e]
      /\ Links'
  BY <1>2 DEF alt_llist_insert, Links
<1>4. \A i \in 0 .. m + 2 : d[i] = IF i = 0 THEN h ELSE IF i = 1 THEN a ELSE c[i - 1]
  BY <1>2 DEF Fore
<1>5. d \in [0 .. (m + 1) + 1 -> Entry] /\ d[0] = h /\ d[(m + 1) + 1] = h
  <2>1. \A i \in 2 .. m + 2 : i - 1 \in 0 .. m + 1 /\ c[i - 1] \in Entry
    BY DEF Chain
  <2>2. m + 2 = (m + 1) + 1 /\ (m + 2) - 1 = m + 1 /\ m + 2 # 0 /\ m + 2 # 1 /\ m + 2 \in 0 .. m + 2
    OBVIOUS
  <2>3. d \in [0 .. m + 2 -> Entry]
    BY <1>2, <2>1 DEF Fore
  <2> QED BY <1>4, <2>2, <2>3 DEF Chain
<1>6. \A i \in 1 .. m + 1 : d[i] = IF i = 1 THEN a ELSE c[i - 1]
  BY <1>4
<1>7. \A i \in 1 .. m + 1 : d[i] \in Alarm
  BY <1>6 DEF Chain
<1>8. ASSUME NEW i \in 1 .. m + 1, NEW j \in 1 .. m + 1, d[i] = d[j]
      PROVE  i = j
  <2>1. CASE i = 1 \/ j = 1
    <3>1. \A k \in 1 .. m + 1 : k # 1 => k - 1 \in 1 .. m
      OBVIOUS
    <3> QED BY <1>1, <1>6, <1>8, <2>1, <3>1
  <2>2. CASE i # 1 /\ j # 1
    <3>1. i - 1 \in 1 .. m /\ j - 1 \in 1 .. m /\ c[i - 1] = c[j - 1]
      BY <1>6, <1>8, <2>2
    <3>2. i - 1 = j - 1
      BY <3>1 DEF Chain
    <3> QED BY <3>2
  <2> QED BY <2>1, <2>2
<1>9. ASSUME NEW i \in 0 .. m + 1
      PROVE  next'[d[i]] = d[i + 1] /\ previous'[d[i + 1]] = d[i]
  <2>1. CASE i = 0
    <3>1. d[0] = h /\ d[0 + 1] = a
      BY <1>4
    <3> QED BY <1>2, <1>3, <2>1, <3>1
  <2>2. CASE i = 1
    <3>1. d[1] = a /\ d[1 + 1] = c[1]
      <4>1. 1 \in 0 .. m + 2 /\ 2 \in 0 .. m + 2 /\ 2 - 1 = 1 /\ 1 + 1 = 2
        OBVIOUS
      <4> QED BY <1>4, <4>1
    <3> QED BY <1>2, <1>3, <2>2, <3>1
  <2>3. CASE i > 1
    <3>1. d[i] = c[i - 1] /\ d[i + 1] = c[i] /\ i - 1 \in 1 .. m /\ (i - 1) + 1 = i /\ i \in 1 .. m + 1
          /\ i - 1 \in 0 .. m
      <4>1. i \in 0 .. m + 2 /\ i + 1 \in 0 .. m + 2 /\ (i + 1) - 1 = i
        OBVIOUS
      <4> QED BY <1>4, <2>3, <4>1
    <3>2. next[c[i - 1]] = c[i] /\ previous[c[i]] = c[i - 1] /\ c[i - 1] \in Alarm /\ c[i] \in Entry
      BY <3>1 DEF Chain
    <3>3. c[i - 1] # a /\ c[i - 1] # h /\ c[i] # a
      BY <1>1, <1>2, <3>1, <3>2 DEF Chain
    <3>4. c[i] # c[1]
      <4>1. CASE i = m + 1
        <5>1. 1 \in 1 .. m /\ c[1] \in Alarm
          BY <2>3, <4>1 DEF Chain
        <5> QED BY <4>1, <5>1 DEF Chain
      <4>2. CASE i # m + 1
        <5>1. 1 \in 1 .. m /\ i \in 1 .. m
          BY <2>3, <4>2
        <5> QED BY <2>3, <5>1 DEF Chain
      <4> QED BY <4>1, <4>2
    <3>5. c[i - 1] \in Entry
      BY <3>2 DEF Entry
    <3> QED BY <1>3, <3>1, <3>2, <3>3, <3>4, <3>5
  <2> QED BY <2>1, <2>2, <2>3
<1>10. ASSUME NEW b \in Alarm, \A i \in 1 .. m + 1 : b # d[i]
       PROVE  next'[b] \in {b, NULL} /\ previous'[b] = next'[b]
  <2>1. b # a
    <3>1. 1 \in 1 .. m + 1
      OBVIOUS
    <3> QED BY <1>6, <1>10, <3>1
  <2>2. ASSUME NEW i \in 1 .. m
        PROVE  b # c[i]
    <3>1. i + 1 \in 1 .. m + 1 /\ i + 1 # 1 /\ (i + 1) - 1 = i
      OBVIOUS
    <3> QED BY <1>6, <1>10, <3>1
  <2>3. next[b] \in {b, NULL} /\ previous[b] = next[b]
    BY <2>2 DEF Chain
  <2>4. b # c[1] /\ b # h /\ b \in Entry
    <3>1. CASE m = 0
      BY <3>1 DEF Chain, Entry
    <3>2. CASE m # 0
      <4>1. 1 \in 1 .. m
        BY <3>2
      <4> QED BY <2>2, <4>1 DEF Entry
    <3> QED BY <3>1, <3>2
  <2> QED BY <1>3, <2>1, <2>3, <2>4
<1> HIDE DEF d
<1>11. Chain(m + 1, d)'
  BY <1>5, <1>7, <1>8, <1>9, <1>10 DEF Chain
<1> QED BY <1>3, <1>11 DEF d

LEMMA Removed ==
    ASSUME NEW m \in Nat, NEW c, Chain(m, c), Links, NEW j \in 1 .. m, alt_llist_remove(c[j])
    PROVE  /\ m - 1 \in Nat /\ Chain(m - 1, Without(m, c, j))' /\ Links'
           /\ next'[c[j]] = c[j]
<1> DEFINE d == Without(m, c, j)
           e == c[j]
<1>1. /\ next[e] = c[j + 1] /\ previous[e] = c[j - 1] /\ e \in Alarm /\ e \in Entry
      /\ c[j + 1] \in Entry /\ c[j - 1] \in Entry
  <2>1. j \in 0 .. m /\ j - 1 \in 0 .. m /\ (j - 1) + 1 = j /\ j + 1 \in 0 .. m + 1 /\ j - 1 \in 0 .. m + 1
    OBVIOUS
  <2>2. next[c[j]] = c[j + 1] /\ e \in Alarm /\ c[j + 1] \in Entry /\ c[j - 1] \in Entry
    BY <2>1 DEF Chain
  <2>3. previous[c[(j - 1) + 1]] = c[j - 1]
    BY <2>1 DEF Chain
  <2> QED BY <2>1, <2>2, <2>3 DEF Entry
<1>2. \A i \in 0 .. m + 1 : i # j => c[i] # e
  <2>1. ASSUME NEW i \in 0 .. m + 1, i # j
        PROVE  c[i] # e
    <3>1. CASE i = 0 \/ i = m + 1
      <4>1. c[i] = alt_alarm_list
        BY <3>1, Ends
      <4> QED BY <1>1, <4>1
    <3>2. CASE i \in 1 .. m
      BY <2>1, <3>2 DEF Chain
    <3> QED BY <3>1, <3>2
  <2> QED BY <2>1
<1>3. /\ \A f \in Entry : next'[f] = IF f = e THEN e ELSE IF f = c[j - 1] THEN c[j + 1] ELSE next[f]
      /\ \A f \in Entry : previous'[f] = IF f = e THEN e ELSE IF f = c[j + 1] THEN c[j - 1] ELSE previous[f]
      /\ Links'
  BY <1>1 DEF alt_llist_remove, Links
<1>4. \A i \in 0 .. m : d[i] = IF i < j THEN c[i] ELSE c[i + 1]
  BY DEF Without
<1>5. d \in [0 .. (m - 1) + 1 -> Entry] /\ d[0] = alt_alarm_list /\ d[(m - 1) + 1] = alt_alarm_list
  <2>1. \A i \in 0 .. m : c[i] \in Entry /\ i + 1 \in 0 .. m + 1 /\ c[i + 1] \in Entry
    BY DEF Chain
  <2>2. d \in [0 .. m -> Entry] /\ (m - 1) + 1 = m
    BY <2>1 DEF Without
  <2>3. d[0] = c[0] /\ d[m] = c[m + 1]
    BY <1>4
  <2> QED BY <2>2, <2>3 DEF Chain
<1>6. \A i \in 1 .. m - 1 : /\ d[i] = IF i < j THEN c[i] ELSE c[i + 1]
                            /\ i \in 1 .. m /\ i + 1 \in 1 .. m
  BY <1>4
<1>7. \A i \in 1 .. m - 1 : d[i] \in Alarm
  BY <1>6 DEF Chain
<1>8. ASSUME NEW i \in 1 .. m - 1, NEW k \in 1 .. m - 1, d[i] = d[k]
      PROVE  i = k
  <2> DEFINE at(n) == IF n < j THEN n ELSE n + 1
  <2>1. at(i) \in 1 .. m /\ at(k) \in 1 .. m /\ c[at(i)] = c[at(k)]
    BY <1>6, <1>8
  <2>2. at(i) = at(k)
    BY <2>1 DEF Chain
  <2> QED BY <2>2
<1>9. ASSUME NEW i \in 0 .. m - 1
      PROVE  next'[d[i]] = d[i + 1] /\ previous'[d[i + 1]] = d[i]
  <2>1. i \in 0 .. m /\ i + 1 \in 0 .. m /\ i \in 0 .. m + 1 /\ i + 1 \in 0 .. m + 1 /\ i + 2 \in 0 .. m + 1
        /\ (i + 1) + 1 = i + 2
    OBVIOUS
  <2>2. /\ next[c[i]] = c[i + 1] /\ previous[c[i + 1]] = c[i]
        /\ next[c[i + 1]] = c[i + 2] /\ previous[c[i + 2]] = c[i + 1]
        /\ c[i] \in Entry /\ c[i + 1] \in Entry /\ c[i + 2] \in Entry
    <3>1. next[c[i]] = c[i + 1] /\ previous[c[i + 1]] = c[i]
      BY <2>1 DEF Chain
    <3>2. next[c[i + 1]] = c[(i + 1) + 1] /\ previous[c[(i + 1) + 1]] = c[i + 1]
      BY <2>1 DEF Chain
    <3>3. c[i] \in Entry /\ c[i + 1] \in Entry /\ c[i + 2] \in Entry
      BY <2>1 DEF Chain
    <3> QED BY <2>1, <3>1, <3>2, <3>3
  <2>3. CASE i + 1 < j
    <3>1. d[i] = c[i] /\ d[i + 1] = c[i + 1]
      BY <1>4, <2>1, <2>3
    <3>2. c[i] # e /\ c[i + 1] # e
      BY <1>2, <2>1, <2>3
    <3>3. c[i] # c[j - 1]
      <4>1. j - 1 \in 0 .. m /\ (j - 1) + 1 = j
        OBVIOUS
      <4>2. next[c[j - 1]] = c[j]
        BY <4>1 DEF Chain
      <4> QED BY <2>2, <3>2, <4>2
    <3>4. c[i + 1] # c[j + 1]
      <4>1. j \in 0 .. m /\ i # j
        BY <2>3
      <4>2. previous[c[j + 1]] = c[j]
        BY <4>1 DEF Chain
      <4> QED BY <2>2, <3>2, <4>2
    <3> QED BY <1>3, <2>2, <3>1, <3>2, <3>3, <3>4
  <2>4. CASE i + 1 = j
    <3>1. d[i] = c[j - 1] /\ d[i + 1] = c[j + 1]
      BY <1>4, <2>1, <2>4
    <3>2. c[j - 1] # e /\ c[j + 1] # e
      <4>1. j - 1 \in 0 .. m + 1 /\ j + 1 \in 0 .. m + 1 /\ j - 1 # j /\ j + 1 # j
        OBVIOUS
      <4> QED BY <1>2, <4>1
    <3> QED BY <1>1, <1>3, <3>1, <3>2
  <2>5. CASE i + 1 > j
    <3>1. d[i] = c[i + 1] /\ d[i + 1] = c[i + 2]
      BY <1>4, <2>1, <2>5
    <3>2. c[i + 1] # e /\ c[i + 2] # e
      BY <1>2, <2>1, <2>5
    <3>3. c[i + 1] # c[j - 1]
      <4>1. j - 1 \in 0 .. m /\ (j - 1) + 1 = j
        OBVIOUS
      <4>2. next[c[j - 1]] = c[j]
        BY <4>1 DEF Chain
      <4> QED BY <2>2, <3>2, <4>2
    <3>4. c[i + 2] # c[j + 1]
      <4>1. j \in 0 .. m
        OBVIOUS
      <4>2. previous[c[j + 1]] = c[j]
        BY <4>1 DEF Chain
      <4> QED BY <2>2, <3>2, <4>2
    <3> QED BY <1>3, <2>2, <3>1, <3>2, <3>3, <3>4
  <2> QED BY <2>3, <2>4, <2>5
<1>10. ASSUME NEW b \in Alarm, \A i \in 1 .. m - 1 : b # d[i]
       PROVE  next'[b] \in {b, NULL} /\ previous'[b] = next'[b]
  <2>1. b \in Entry /\ (b = e => next'[b] = b /\ previous'[b] = b)
    BY <1>3 DEF Entry
  <2>2. CASE b # e
    <3>1. ASSUME NEW i \in 1 .. m
          PROVE  b # c[i]
      <4>1. CASE i < j
        <5>1. i \in 1 .. m - 1
          BY <4>1
        <5> QED BY <1>6, <1>10, <4>1, <5>1
      <4>2. CASE i > j
        <5>1. i - 1 \in 1 .. m - 1 /\ (i - 1) + 1 = i /\ ~(i - 1 < j)
          BY <4>2
        <5> QED BY <1>6, <1>10, <5>1
      <4> QED BY <2>2, <4>1, <4>2
    <3>2. next[b] \in {b, NULL} /\ previous[b] = next[b]
      BY <3>1 DEF Chain
    <3>3. b # c[j - 1] /\ b # c[j + 1]
      <4>1. ASSUME NEW i \in 0 .. m + 1
            PROVE  b # c[i]
        <5>1. CASE i = 0 \/ i = m + 1
          <6>1. c[i] = alt_alarm_list
            BY <5>1, Ends
          <6> QED BY <6>1
        <5>2. CASE i \in 1 .. m
          BY <3>1, <5>2
        <5> QED BY <5>1, <5>2
      <4>2. j - 1 \in 0 .. m + 1 /\ j + 1 \in 0 .. m + 1
        OBVIOUS
      <4> QED BY <4>1, <4>2
    <3> QED BY <1>3, <2>1, <2>2, <3>2, <3>3
  <2> QED BY <2>1, <2>2
<1>11. m - 1 \in Nat
  OBVIOUS
<1> HIDE DEF d
<1>12. Chain(m - 1, d)'
  BY <1>5, <1>7, <1>8, <1>9, <1>10 DEF Chain
<1> QED BY <1>1, <1>3, <1>11, <1>12 DEF d

\* To remove what is not on the list changes nothing.
LEMMA NotRemoved ==
    ASSUME NEW m \in Nat, NEW c, Chain(m, c), Links, NEW a \in Alarm, next[a] = a, alt_llist_remove(a)
    PROVE  UNCHANGED llist
<1>1. a \notin Listed
  BY DEF Listed
<1>2. \A i \in 1 .. m : a # c[i]
  BY <1>1, ChainListed
<1>3. previous[a] = a /\ a \in Entry
  BY <1>2 DEF Chain, Entry
<1> QED BY <1>3 DEF alt_llist_remove, Links, llist

-----------------------------------------------------------------------------
(* An alarm and the clock. *)

\* The time of the alarm is as many ticks away as it has to wait.
InStep(a) == time[a] = IF nticks + wait[a] < Wrap THEN nticks + wait[a] ELSE nticks + wait[a] - Wrap

\* The walk has passed the alarm: its flag tells whether the clock wraps before.
Done(a) == InStep(a) /\ wait[a] > 0 /\ (rollover[a] <=> nticks + wait[a] >= Wrap)

\* The walk has still to come to it: in the tick in which the clock has wrapped
\* the flag is still up.
Pending(a) == InStep(a) /\ (rollover[a] <=> nticks + wait[a] >= Wrap \/ nticks = 0)

Clocks ==
    /\ time \in [Alarm -> 0 .. Wrap - 1] /\ rollover \in [Alarm -> BOOLEAN]
    /\ wait \in [Alarm -> 0 .. Wrap - 1] /\ nticks \in 0 .. Wrap - 1

LEMMA Sum ==
    ASSUME NEW s \in Int, NEW t \in Int, 0 <= s, 0 <= t, s < Wrap, t < Wrap
    PROVE  /\ (s + t) % Wrap = IF s + t < Wrap THEN s + t ELSE s + t - Wrap
           /\ (s + t) % Wrap \in 0 .. Wrap - 1
<1>1. s + t < Wrap => (s + t) % Wrap = s + t
  BY SMTT(30)
<1>2. s + t >= Wrap => (s + t) % Wrap = s + t - Wrap
  BY SMTT(30)
<1> QED BY <1>1, <1>2

LEMMA DueNow ==
    ASSUME Clocks, NEW a \in Alarm, Pending(a)
    PROVE  Due(a) <=> wait[a] = 0
<1>1. time[a] \in 0 .. Wrap - 1 /\ wait[a] \in 0 .. Wrap - 1 /\ nticks \in 0 .. Wrap - 1
  BY DEF Clocks
<1> QED BY <1>1 DEF Pending, InStep, Due, Rolled

LEMMA TickNext ==
    ASSUME Clocks, NEW a \in Listed, Done(a), alt_tick
    PROVE  Pending(a)'
<1>1. a \in Alarm /\ wait[a] \in 0 .. Wrap - 1 /\ nticks \in 0 .. Wrap - 1 /\ wait[a] > 0
  BY DEF Clocks, Done, Listed
<1>2. wait'[a] = wait[a] - 1 /\ time' = time /\ rollover' = rollover
  BY <1>1 DEF alt_tick
<1>3. CASE Wrap = 1
  BY <1>1, <1>3
<1>4. CASE Wrap # 1
  <2>1. nticks' = IF nticks + 1 < Wrap THEN nticks + 1 ELSE nticks + 1 - Wrap
    BY <1>1, <1>4, Sum DEF alt_tick
  <2> QED BY <1>1, <1>2, <2>1 DEF Done, Pending, InStep
<1> QED BY <1>3, <1>4

LEMMA LaterDone ==
    ASSUME Clocks, NEW a \in Alarm, NEW n \in 1 .. Wrap - 1,
           Later(a, nticks, n), wait' = [wait EXCEPT ![a] = n], UNCHANGED nticks
    PROVE  /\ Done(a)' /\ Clocks'
           /\ \A b \in Alarm : b # a => (Done(b) => Done(b)') /\ (Pending(b) => Pending(b)')
<1>1. nticks \in 0 .. Wrap - 1 /\ wait'[a] = n
  BY DEF Clocks
<1>2. time'[a] = (nticks + n) % Wrap /\ (rollover'[a] <=> (nticks + n) % Wrap < nticks)
  BY DEF Later, Clocks
<1>3. /\ (nticks + n) % Wrap = IF nticks + n < Wrap THEN nticks + n ELSE nticks + n - Wrap
      /\ (nticks + n) % Wrap \in 0 .. Wrap - 1
  BY <1>1, Sum
<1>4. Done(a)'
  BY <1>1, <1>2, <1>3 DEF Done, InStep
<1>5. Clocks'
  BY <1>3 DEF Later, Clocks
<1>6. ASSUME NEW b \in Alarm, b # a
      PROVE  (Done(b) => Done(b)') /\ (Pending(b) => Pending(b)')
  <2>1. time'[b] = time[b] /\ rollover'[b] = rollover[b] /\ wait'[b] = wait[b] /\ nticks' = nticks
    BY <1>6 DEF Later, Clocks
  <2> QED BY <2>1 DEF Done, Pending, InStep
<1> QED BY <1>4, <1>5, <1>6
-----------------------------------------------------------------------------
(* The walk of alt_tick along the list. *)

\* It stands before alarm j: those it has passed are done with.
At(m, c, j) ==
    /\ alarm = Before(c[j])
    /\ \A i \in 1 .. j - 1 : Done(c[i])
    /\ \A i \in j .. m : Pending(c[i])

\* A callback has stopped the alarm after its own: alt_tick stays with it for ever.
Astray == alarm \in Alarm /\ next[alarm] = alarm

Walking ==
    \E m \in Nat : \E c : Chain(m, c) /\ (Astray \/ \E j \in 1 .. m + 1 : At(m, c, j))

WalkInv == Links /\ Clocks /\ alarm \in Alarm \union {NULL} /\ Walking

\* The UART's alarm is the first to be started.
Unstarted == stage \in {"timer", "uart", "alarm"} => Listed = {}

AlarmInv == WalkInv /\ tick_rate \in {0, Rate} /\ Unstarted

LEMMA Rested ==
    ASSUME WalkInv, Resting
    PROVE  \E m \in Nat : \E c : Chain(m, c) /\ \A i \in 1 .. m : Done(c[i])
<1>1. PICK m \in Nat : \E c : Chain(m, c) /\ (Astray \/ \E j \in 1 .. m + 1 : At(m, c, j))
  BY DEF WalkInv, Walking
<1>2. PICK c : Chain(m, c) /\ (Astray \/ \E j \in 1 .. m + 1 : At(m, c, j))
  BY <1>1
<1>3. PICK j \in 1 .. m + 1 : At(m, c, j)
  BY <1>2 DEF Astray, Resting
<1>4. j = m + 1
  <2>1. CASE j \in 1 .. m
    <3>1. c[j] \in Alarm
      BY <1>2, <2>1 DEF Chain
    <3> QED BY <1>3, <3>1 DEF At, Before, Resting
  <2> QED BY <2>1
<1> QED BY <1>2, <1>3, <1>4 DEF At

LEMMA ChainStays ==
    ASSUME NEW m \in Nat, NEW c, Chain(m, c), UNCHANGED llist
    PROVE  Chain(m, c)'
BY DEF Chain, llist

LEMMA StartedStep ==
    ASSUME WalkInv, Resting, NEW a \in Alarm \ Listed, NEW n \in 0 .. Wrap - 2, Started(a, n)
    PROVE  WalkInv'
<1>1. PICK m \in Nat : \E c : Chain(m, c) /\ \A i \in 1 .. m : Done(c[i])
  BY Rested
<1>2. PICK c : Chain(m, c) /\ \A i \in 1 .. m : Done(c[i])
  BY <1>1
<1> DEFINE d == Fore(m, c, a)
<1>3. Chain(m + 1, d)' /\ Links'
  BY <1>2, Inserted DEF Started, WalkInv
<1>4. n + 1 \in 1 .. Wrap - 1
  OBVIOUS
<1>5. Clocks /\ Later(a, nticks, n + 1) /\ wait' = [wait EXCEPT ![a] = n + 1] /\ nticks' = nticks
      /\ alarm' = alarm
  BY DEF Started, WalkInv
<1>6. Done(a)' /\ Clocks' /\ \A b \in Alarm : b # a => (Done(b) => Done(b)')
  BY <1>4, <1>5, LaterDone
<1>7. \A i \in 1 .. m + 1 : Done(d[i])'
  <2>1. ASSUME NEW i \in 1 .. m + 1, i # 1
        PROVE  Done(d[i])'
    <3>1. i - 1 \in 1 .. m /\ d[i] = c[i - 1]
      BY <2>1 DEF Fore
    <3>2. c[i - 1] \in Listed /\ c[i - 1] # a /\ Done(c[i - 1]) /\ c[i - 1] \in Alarm
      BY <1>2, <3>1, ChainListed DEF Listed
    <3>3. Done(c[i - 1])'
      BY <1>6, <3>2
    <3> QED BY <3>1, <3>3
  <2>2. d[1] = a
    BY DEF Fore
  <2> QED BY <1>6, <2>1, <2>2
<1>8. d[(m + 1) + 1] = alt_alarm_list
  BY <1>3 DEF Chain
<1> HIDE DEF d
<1>9. At(m + 1, d, (m + 1) + 1)'
  BY <1>5, <1>7, <1>8 DEF At, Before, Resting
<1>10. m + 1 \in Nat /\ (m + 1) + 1 \in 1 .. (m + 1) + 1
  OBVIOUS
<1>11. Walking'
  BY <1>3, <1>9, <1>10 DEF Walking
<1> QED BY <1>3, <1>5, <1>6, <1>11 DEF WalkInv

\* What is without the alarm k.
LEMMA WithoutIs ==
    ASSUME NEW m \in Nat, NEW c, NEW k \in 1 .. m, NEW i \in 1 .. m
    PROVE  Without(m, c, k)[i] = IF i < k THEN c[i] ELSE c[i + 1]
BY DEF Without

LEMMA StoppedStep ==
    ASSUME WalkInv, Resting, NEW a \in Alarm, next[a] # NULL, alt_alarm_stop(a)
    PROVE  WalkInv'
<1>1. PICK m \in Nat : \E c : Chain(m, c) /\ \A i \in 1 .. m : Done(c[i])
  BY Rested
<1>2. PICK c : Chain(m, c) /\ \A i \in 1 .. m : Done(c[i])
  BY <1>1
<1>3. Links /\ Clocks /\ alarm = NULL /\ alarm' = NULL /\ alt_llist_remove(a)
      /\ UNCHANGED <<nticks, time, rollover, wait>>
  BY DEF alt_alarm_stop, WalkInv, Resting
<1>4. Clocks' /\ \A b \in Alarm : Done(b) => Done(b)'
  BY <1>3 DEF Clocks, Done, InStep
<1>5. CASE a \in Listed
  <2>1. PICK k \in 1 .. m : a = c[k]
    BY <1>2, <1>5, ChainListed
  <2> DEFINE d == Without(m, c, k)
  <2>2. m - 1 \in Nat /\ Chain(m - 1, d)' /\ Links'
    BY <1>2, <1>3, <2>1, Removed
  <2>3. ASSUME NEW i \in 1 .. m - 1
        PROVE  Done(d[i])'
    <3>1. i \in 1 .. m /\ i + 1 \in 1 .. m
      OBVIOUS
    <3>2. /\ Done(c[i]) /\ c[i] \in Alarm /\ Done(c[i + 1]) /\ c[i + 1] \in Alarm
      BY <1>2, <3>1 DEF Chain
    <3>3. Done(c[i])' /\ Done(c[i + 1])'
      BY <1>4, <3>2
    <3>4. d[i] = IF i < k THEN c[i] ELSE c[i + 1]
      BY <3>1, WithoutIs
    <3> QED BY <3>3, <3>4
  <2>4. d[(m - 1) + 1] = alt_alarm_list
    BY <2>2 DEF Chain
  <2> HIDE DEF d
  <2>5. At(m - 1, d, (m - 1) + 1)' /\ (m - 1) + 1 \in 1 .. (m - 1) + 1
    BY <1>3, <2>3, <2>4 DEF At, Before
  <2>6. Walking'
    BY <2>2, <2>5 DEF Walking
  <2> QED BY <1>3, <1>4, <2>2, <2>6 DEF WalkInv
<1>6. CASE a \notin Listed
  <2>1. next[a] = a
    BY <1>6 DEF Listed
  <2>2. UNCHANGED llist
    BY <1>2, <1>3, <2>1, NotRemoved
  <2>3. Chain(m, c)' /\ Links'
    BY <1>2, <1>3, <2>2, ChainStays DEF Links, llist
  <2>4. ASSUME NEW i \in 1 .. m
        PROVE  Done(c[i])'
    <3>1. c[i] \in Alarm /\ Done(c[i])
      BY <1>2 DEF Chain
    <3> QED BY <1>4, <3>1
  <2>5. At(m, c, m + 1)' /\ m + 1 \in 1 .. m + 1
    BY <1>2, <1>3, <2>4 DEF At, Before, Chain
  <2>6. Walking'
    BY <2>3, <2>5 DEF Walking
  <2> QED BY <1>3, <1>4, <2>3, <2>6 DEF WalkInv
<1> QED BY <1>5, <1>6

LEMMA TickStep ==
    ASSUME WalkInv, alt_tick
    PROVE  WalkInv'
<1>0. Resting
  BY DEF alt_tick
<1>1. PICK m \in Nat : \E c : Chain(m, c) /\ \A i \in 1 .. m : Done(c[i])
  BY <1>0, Rested
<1>2. PICK c : Chain(m, c) /\ \A i \in 1 .. m : Done(c[i])
  BY <1>1
<1>3. Links /\ Clocks /\ UNCHANGED <<llist, time, rollover>> /\ alarm' = Before(next[alt_alarm_list])
  BY DEF alt_tick, WalkInv
<1>4. Chain(m, c)' /\ Links'
  BY <1>2, <1>3, ChainStays DEF Links, llist
<1>5. ASSUME NEW i \in 1 .. m
      PROVE  Pending(c[i])'
  <2>1. c[i] \in Listed /\ Done(c[i])
    BY <1>2, ChainListed
  <2> QED BY <1>3, <2>1, TickNext
<1>6. next[alt_alarm_list] = c[1] /\ c[1] \in Entry
  <2>1. 0 \in 0 .. m /\ 0 + 1 = 1 /\ 1 \in 0 .. m + 1
    OBVIOUS
  <2>2. next[c[0]] = c[0 + 1] /\ c[1] \in Entry
    BY <1>2, <2>1 DEF Chain
  <2> QED BY <1>2, <2>1, <2>2, Ends
<1>7. At(m, c, 1)' /\ 1 \in 1 .. m + 1
  BY <1>3, <1>5, <1>6 DEF At
<1>8. Walking'
  BY <1>4, <1>7 DEF Walking
<1>9. alarm' \in Alarm \union {NULL}
  BY <1>3, <1>6 DEF Before, Entry
<1>10. Clocks'
  <2>1. nticks' \in 0 .. Wrap - 1
    <3>1. nticks \in 0 .. Wrap - 1
      BY <1>3 DEF Clocks
    <3>2. nticks' = (nticks + 1) % Wrap
      BY DEF alt_tick
    <3>3. CASE nticks + 1 < Wrap
      <4>1. nticks' = nticks + 1
        BY <3>1, <3>2, <3>3, SMTT(30)
      <4> QED BY <3>1, <3>3, <4>1
    <3>4. CASE nticks + 1 = Wrap
      <4>1. nticks' = 0
        BY <3>1, <3>2, <3>4, SMTT(30)
      <4> QED BY <4>1
    <3> QED BY <3>1, <3>3, <3>4
  <2>2. wait' \in [Alarm -> 0 .. Wrap - 1]
    <3>1. \A a \in Alarm : wait[a] \in 0 .. Wrap - 1
      BY <1>3 DEF Clocks
    <3> QED BY <3>1 DEF alt_tick
  <2> QED BY <1>3, <2>1, <2>2 DEF Clocks
<1> QED BY <1>4, <1>8, <1>9, <1>10 DEF WalkInv

-----------------------------------------------------------------------------
(* The steps of the walk. *)

\* Before an alarm, and not astray.
LEMMA Standing ==
    ASSUME NEW m \in Nat, NEW c, Chain(m, c), NEW j \in 1 .. m + 1, At(m, c, j), alarm \in Alarm
    PROVE  /\ j \in 1 .. m /\ alarm = c[j] /\ next[alarm] = c[j + 1] /\ Pending(alarm)
           /\ alarm \in Listed /\ \A i \in 1 .. m : i # j => c[i] # alarm
<1>1. j # m + 1
  BY Ends DEF At, Before
<1>2. j \in 1 .. m /\ j \in 0 .. m
  BY <1>1
<1>3. c[j] \in Alarm
  BY <1>2 DEF Chain
<1>4. alarm = c[j]
  BY <1>3 DEF At, Before
<1>5. next[c[j]] = c[j + 1]
  BY <1>2 DEF Chain
<1>6. Pending(c[j])
  BY <1>2 DEF At
<1>7. \A i \in 1 .. m : i # j => c[i] # c[j]
  BY <1>2 DEF Chain
<1> QED BY <1>2, <1>4, <1>5, <1>6, <1>7, ChainListed

\* The alarm is done with, and no other is touched.
Dealt == \A b \in Alarm : IF b = alarm THEN Done(b)'
                          ELSE (Done(b) => Done(b)') /\ (Pending(b) => Pending(b)')

LEMMA Passed ==
    ASSUME NEW m \in Nat, NEW c, Chain(m, c), NEW j \in 1 .. m + 1, At(m, c, j), alarm \in Alarm, Dealt
    PROVE  (\A i \in 1 .. j : Done(c[i])') /\ (\A i \in j + 1 .. m : Pending(c[i])')
<1>1. j \in 1 .. m /\ alarm = c[j] /\ \A i \in 1 .. m : i # j => c[i] # alarm
  BY Standing
<1>2. \A i \in 1 .. m : c[i] \in Alarm
  BY DEF Chain
<1>3. ASSUME NEW i \in 1 .. j
      PROVE  Done(c[i])'
  <2>1. CASE i = j
    BY <1>1, <1>2, <2>1 DEF Dealt
  <2>2. CASE i # j
    <3>1. i \in 1 .. j - 1 /\ i \in 1 .. m
      BY <1>1, <2>2
    <3>2. Done(c[i]) /\ c[i] \in Alarm /\ c[i] # alarm
      BY <1>1, <1>2, <2>2, <3>1 DEF At
    <3> QED BY <3>2 DEF Dealt
  <2> QED BY <2>1, <2>2
<1>4. ASSUME NEW i \in j + 1 .. m
      PROVE  Pending(c[i])'
  <2>1. i \in j .. m /\ i \in 1 .. m /\ i # j
    BY <1>1
  <2>2. Pending(c[i]) /\ c[i] \in Alarm /\ c[i] # alarm
    BY <1>1, <1>2, <2>1 DEF At
  <2> QED BY <2>2 DEF Dealt
<1> QED BY <1>3, <1>4

\* It goes on along the list as it was.
LEMMA GoesOn ==
    ASSUME WalkInv, alarm \in Alarm, alarm' = Before(next[alarm]), UNCHANGED llist, Clocks',
           ~Astray => Dealt
    PROVE  WalkInv'
<1>1. PICK m \in Nat : \E c : Chain(m, c) /\ (Astray \/ \E j \in 1 .. m + 1 : At(m, c, j))
  BY DEF WalkInv, Walking
<1>2. PICK c : Chain(m, c) /\ (Astray \/ \E j \in 1 .. m + 1 : At(m, c, j))
  BY <1>1
<1>3. Chain(m, c)' /\ Links'
  BY <1>2, ChainStays DEF WalkInv, Links, llist
<1>4. CASE Astray
  <2>1. alarm' = alarm /\ Astray'
    BY <1>4 DEF Astray, Before, llist
  <2>2. Walking'
    BY <1>3, <2>1 DEF Walking
  <2> QED BY <1>3, <2>1, <2>2 DEF WalkInv
<1>5. CASE ~Astray
  <2>1. PICK j \in 1 .. m + 1 : At(m, c, j)
    BY <1>2, <1>5
  <2>2. j \in 1 .. m /\ next[alarm] = c[j + 1]
    BY <1>2, <2>1, Standing
  <2>3. (\A i \in 1 .. j : Done(c[i])') /\ (\A i \in j + 1 .. m : Pending(c[i])')
    BY <1>2, <1>5, <2>1, Passed
  <2>4. j + 1 \in 1 .. m + 1 /\ j + 1 \in 0 .. m + 1 /\ (j + 1) - 1 = j
    BY <2>2
  <2>5. At(m, c, j + 1)'
    BY <2>2, <2>3, <2>4 DEF At
  <2>6. Walking'
    BY <1>3, <2>4, <2>5 DEF Walking
  <2>7. c[j + 1] \in Entry
    BY <1>2, <2>4 DEF Chain
  <2>8. alarm' \in Alarm \union {NULL}
    BY <2>2, <2>7 DEF Before, Entry
  <2> QED BY <1>3, <2>6, <2>8 DEF WalkInv
<1> QED BY <1>4, <1>5

\* Unless the walk is astray, the alarm it stands before is pending.
LEMMA Stands == WalkInv /\ alarm \in Alarm /\ ~Astray => Pending(alarm) /\ alarm \in Listed
<1> SUFFICES ASSUME WalkInv, alarm \in Alarm, ~Astray
             PROVE  Pending(alarm) /\ alarm \in Listed
  OBVIOUS
<1>1. PICK m \in Nat : \E c : Chain(m, c) /\ \E j \in 1 .. m + 1 : At(m, c, j)
  BY DEF WalkInv, Walking
<1>2. PICK c : Chain(m, c) /\ \E j \in 1 .. m + 1 : At(m, c, j)
  BY <1>1
<1>3. PICK j \in 1 .. m + 1 : At(m, c, j)
  BY <1>2
<1> QED BY <1>2, <1>3, Standing

LEMMA NotDueStep ==
    ASSUME WalkInv, NotDue
    PROVE  WalkInv'
<1>1. /\ alarm \in Alarm /\ Clocks /\ alarm' = Before(next[alarm]) /\ UNCHANGED <<nticks, llist, time, wait>>
      /\ rollover' = [rollover EXCEPT ![alarm] = Rolled(alarm)]
  BY DEF NotDue, WalkInv
<1>2. Rolled(alarm) \in BOOLEAN /\ rollover' \in [Alarm -> BOOLEAN]
  <2>1. rollover[alarm] \in BOOLEAN
    BY <1>1 DEF Clocks
  <2>2. Rolled(alarm) \in BOOLEAN
    BY <2>1 DEF Rolled
  <2> QED BY <1>1, <2>2 DEF Clocks
<1>3. Clocks'
  BY <1>1, <1>2 DEF Clocks
<1>4. ASSUME ~Astray
      PROVE  Dealt
  <2>1. Pending(alarm) /\ wait[alarm] # 0
    BY <1>1, <1>4, Stands, DueNow DEF NotDue
  <2>2. wait[alarm] \in 0 .. Wrap - 1 /\ nticks \in 0 .. Wrap - 1 /\ rollover'[alarm] = Rolled(alarm)
    BY <1>1 DEF Clocks
  <2>3. ASSUME NEW b \in Alarm, b = alarm
        PROVE  Done(b)'
    <3>1. InStep(b)' /\ wait'[b] > 0
      BY <1>1, <2>1, <2>2, <2>3 DEF Pending, InStep
    <3>2. rollover'[b] <=> nticks + wait[b] >= Wrap
      <4>1. rollover'[b] <=> rollover[b] /\ nticks # 0
        BY <2>2, <2>3, Zenon DEF Rolled
      <4>2. rollover[b] <=> nticks + wait[b] >= Wrap \/ nticks = 0
        BY <2>1, <2>3, Zenon DEF Pending
      <4>3. nticks = 0 => ~(nticks + wait[b] >= Wrap)
        BY <2>2, <2>3
      <4> QED BY <4>1, <4>2, <4>3
    <3> QED BY <1>1, <3>1, <3>2 DEF Done, InStep
  <2>4. ASSUME NEW b \in Alarm, b # alarm
        PROVE  (Done(b) => Done(b)') /\ (Pending(b) => Pending(b)')
    <3>1. rollover'[b] = rollover[b] /\ time' = time /\ wait' = wait /\ nticks' = nticks
      BY <1>1, <2>4 DEF Clocks
    <3> QED BY <3>1 DEF Done, Pending, InStep
  <2> QED BY <2>3, <2>4 DEF Dealt
<1> QED BY <1>1, <1>3, <1>4, GoesOn

\* The callback wants to be called again.
LEMMA Renewed ==
    ASSUME WalkInv, alarm \in Alarm, Due(alarm), NEW period \in 1 .. Wrap - 1,
           Later(alarm, time[alarm], period), wait' = [wait EXCEPT ![alarm] = period], UNCHANGED nticks
    PROVE  Clocks' /\ (~Astray => Dealt)
<1>1. Clocks /\ time[alarm] \in 0 .. Wrap - 1
  BY DEF WalkInv, Clocks
<1>2. Clocks'
  <2>1. (time[alarm] + period) % Wrap \in 0 .. Wrap - 1
    BY <1>1, Sum
  <2> QED BY <1>1, <2>1 DEF Clocks, Later
<1>3. ASSUME ~Astray
      PROVE  Dealt
  <2>1. Pending(alarm) /\ wait[alarm] = 0 /\ nticks \in 0 .. Wrap - 1
    BY <1>1, <1>3, Stands, DueNow DEF Clocks
  <2>2. time[alarm] = nticks
    BY <2>1 DEF Pending, InStep
  <2>3. PICK a \in Alarm : a = alarm
    OBVIOUS
  <2>4. Later(a, nticks, period) /\ wait' = [wait EXCEPT ![a] = period]
    BY <2>2, <2>3
  <2>5. /\ Done(a)'
        /\ \A b \in Alarm : b # a => (Done(b) => Done(b)') /\ (Pending(b) => Pending(b)')
    BY <1>1, <2>4, LaterDone
  <2> QED BY <2>3, <2>5 DEF Dealt
<1> QED BY <1>2, <1>3

LEMMA RecallStep ==
    ASSUME WalkInv, NEW period \in 1 .. Wrap - 1, Recall(period)
    PROVE  WalkInv'
<1>1. /\ alarm \in Alarm /\ Due(alarm) /\ Later(alarm, time[alarm], period)
      /\ wait' = [wait EXCEPT ![alarm] = period] /\ alarm' = Before(next[alarm]) /\ UNCHANGED <<nticks, llist>>
  BY DEF Recall
<1>2. Clocks' /\ (~Astray => Dealt)
  BY <1>1, Renewed
<1> QED BY <1>1, <1>2, GoesOn

LEMMA ExpireStep ==
    ASSUME WalkInv, Expire
    PROVE  WalkInv'
<1>1. /\ alarm \in Alarm /\ Due(alarm) /\ alt_llist_remove(alarm) /\ Links /\ Clocks
      /\ rollover' = [rollover EXCEPT ![alarm] = FALSE] /\ alarm' = Before(next[alarm])
      /\ UNCHANGED <<nticks, time, wait>>
  BY DEF Expire, WalkInv
<1>2. Clocks'
  BY <1>1 DEF Clocks
<1>3. PICK m \in Nat : \E c : Chain(m, c) /\ (Astray \/ \E j \in 1 .. m + 1 : At(m, c, j))
  BY DEF WalkInv, Walking
<1>4. PICK c : Chain(m, c) /\ (Astray \/ \E j \in 1 .. m + 1 : At(m, c, j))
  BY <1>3
<1>5. CASE Astray
  <2>1. UNCHANGED llist
    BY <1>1, <1>4, <1>5, NotRemoved DEF Astray
  <2>2. Chain(m, c)' /\ Links'
    BY <1>1, <1>4, <2>1, ChainStays DEF Links, llist
  <2>3. alarm' = alarm /\ Astray'
    BY <1>1, <1>5, <2>1 DEF Astray, Before, llist
  <2>4. Walking'
    BY <2>2, <2>3 DEF Walking
  <2> QED BY <1>1, <1>2, <2>2, <2>3, <2>4 DEF WalkInv
<1>6. CASE ~Astray
  <2>1. PICK j \in 1 .. m + 1 : At(m, c, j)
    BY <1>4, <1>6
  <2>2. j \in 1 .. m /\ alarm = c[j] /\ next[alarm] = c[j + 1] /\ \A i \in 1 .. m : i # j => c[i] # alarm
    BY <1>1, <1>4, <2>1, Standing
  <2> DEFINE d == Without(m, c, j)
  <2>3. m - 1 \in Nat /\ Chain(m - 1, d)' /\ Links'
    BY <1>1, <1>4, <2>2, Removed
  <2>4. ASSUME NEW b \in Alarm, b # alarm
        PROVE  (Done(b) => Done(b)') /\ (Pending(b) => Pending(b)')
    <3>1. rollover'[b] = rollover[b] /\ time' = time /\ wait' = wait /\ nticks' = nticks
      BY <1>1, <2>4 DEF Clocks
    <3> QED BY <3>1 DEF Done, Pending, InStep
  <2>5. \A i \in 1 .. m : d[i] = IF i < j THEN c[i] ELSE c[i + 1]
    BY <2>2, WithoutIs
  <2>6. \A i \in 1 .. j - 1 : Done(d[i])'
    <3>1. ASSUME NEW i \in 1 .. j - 1
          PROVE  Done(d[i])'
      <4>1. i \in 1 .. m /\ i # j /\ d[i] = c[i]
        BY <2>2, <2>5
      <4>2. Done(c[i]) /\ c[i] \in Alarm /\ c[i] # alarm
        BY <1>4, <2>1, <2>2, <4>1 DEF At, Chain
      <4> QED BY <2>4, <4>1, <4>2
    <3> QED BY <3>1
  <2>7. \A i \in j .. m - 1 : Pending(d[i])'
    <3>1. ASSUME NEW i \in j .. m - 1
          PROVE  Pending(d[i])'
      <4>1. i \in 1 .. m /\ i + 1 # j /\ d[i] = c[i + 1] /\ i + 1 \in j .. m /\ i + 1 \in 1 .. m
        BY <2>2, <2>5
      <4>2. Pending(c[i + 1]) /\ c[i + 1] \in Alarm /\ c[i + 1] # alarm
        BY <1>4, <2>1, <2>2, <4>1 DEF At, Chain
      <4> QED BY <2>4, <4>1, <4>2
    <3> QED BY <3>1
  <2>8. d[j] = c[j + 1] /\ j \in 1 .. (m - 1) + 1 /\ c[j + 1] \in Entry
    <3>1. j + 1 \in 0 .. m + 1 /\ (m - 1) + 1 = m /\ ~(j < j)
      BY <2>2
    <3>2. c[j + 1] \in Entry
      BY <1>4, <3>1 DEF Chain
    <3> QED BY <2>2, <2>5, <3>1, <3>2
  <2> HIDE DEF d
  <2>9. At(m - 1, d, j)'
    BY <1>1, <2>2, <2>6, <2>7, <2>8 DEF At
  <2>10. Walking'
    BY <2>3, <2>8, <2>9 DEF Walking
  <2>11. alarm' \in Alarm \union {NULL}
    BY <1>1, <2>2, <2>8 DEF Before, Entry
  <2> QED BY <1>2, <2>3, <2>10, <2>11 DEF WalkInv
<1> QED BY <1>5, <1>6

LEMMA RecallAndStopStep ==
    ASSUME WalkInv, NEW period \in 1 .. Wrap - 1, NEW other \in Listed, RecallAndStop(period, other)
    PROVE  WalkInv'
<1>1. /\ alarm \in Alarm /\ Due(alarm) /\ alt_llist_remove(other) /\ Links /\ other # alarm
      /\ Later(alarm, time[alarm], period) /\ wait' = [wait EXCEPT ![alarm] = period]
      /\ alarm' = Before(next[alarm]) /\ nticks' = nticks
  BY DEF RecallAndStop, WalkInv
<1>2. Clocks' /\ (~Astray => Dealt)
  BY <1>1, Renewed
<1>3. PICK m \in Nat : \E c : Chain(m, c) /\ (Astray \/ \E j \in 1 .. m + 1 : At(m, c, j))
  BY DEF WalkInv, Walking
<1>4. PICK c : Chain(m, c) /\ (Astray \/ \E j \in 1 .. m + 1 : At(m, c, j))
  BY <1>3
<1>5. PICK k \in 1 .. m : other = c[k]
  BY <1>4, ChainListed
<1> DEFINE d == Without(m, c, k)
<1>6. m - 1 \in Nat /\ Chain(m - 1, d)' /\ Links' /\ next'[other] = other
  BY <1>1, <1>4, <1>5, Removed
<1>7. \A i \in 1 .. m : d[i] = IF i < k THEN c[i] ELSE c[i + 1]
  BY <1>5, WithoutIs
<1> HIDE DEF d
<1>8. CASE Astray
  <2>1. alarm' = alarm /\ next[alarm] = alarm /\ alarm \in Entry
    BY <1>1, <1>8 DEF Astray, Before, Entry
  <2>2. next'[alarm] = alarm
    <3>1. previous[other] = c[k - 1]
      <4>1. k - 1 \in 0 .. m /\ (k - 1) + 1 = k
        OBVIOUS
      <4>2. previous[c[(k - 1) + 1]] = c[k - 1]
        BY <1>4, <4>1 DEF Chain
      <4> QED BY <1>5, <4>1, <4>2
    <3>2. c[k - 1] # alarm
      <4>1. CASE k = 1
        BY <1>1, <1>4, <4>1, Ends
      <4>2. CASE k # 1
        <5>1. k - 1 \in 1 .. m
          BY <4>2
        <5>2. c[k - 1] \in Listed
          BY <1>4, <5>1, ChainListed
        <5> QED BY <1>8, <5>2 DEF Astray, Listed
      <4> QED BY <4>1, <4>2
    <3> QED BY <1>1, <2>1, <3>1, <3>2 DEF alt_llist_remove, Links
  <2>3. Walking'
    BY <1>1, <1>6, <2>1, <2>2 DEF Walking, Astray
  <2> QED BY <1>1, <1>2, <1>6, <2>1, <2>3 DEF WalkInv
<1>9. CASE ~Astray
  <2>1. PICK j \in 1 .. m + 1 : At(m, c, j)
    BY <1>4, <1>9
  <2>2. j \in 1 .. m /\ alarm = c[j] /\ next[alarm] = c[j + 1]
    BY <1>1, <1>4, <2>1, Standing
  <2>3. (\A i \in 1 .. j : Done(c[i])') /\ (\A i \in j + 1 .. m : Pending(c[i])')
    BY <1>1, <1>2, <1>4, <1>9, <2>1, Passed
  <2>4. k # j /\ j + 1 \in 0 .. m + 1
    BY <1>1, <1>5, <2>2
  <2>5. c[j + 1] \in Entry
    BY <1>4, <2>4 DEF Chain
  <2>6. alarm' = Before(c[j + 1]) /\ alarm' \in Alarm \union {NULL}
    BY <1>1, <2>2, <2>5 DEF Before, Entry
  <2>7. CASE k < j
    <3>1. ASSUME NEW i \in 1 .. j - 1
          PROVE  Done(d[i])'
      <4>1. i \in 1 .. j /\ i + 1 \in 1 .. j /\ i \in 1 .. m
        BY <2>2
      <4>2. Done(c[i])' /\ Done(c[i + 1])'
        BY <2>3, <4>1
      <4> QED BY <1>7, <4>1, <4>2
    <3>2. ASSUME NEW i \in j .. m - 1
          PROVE  Pending(d[i])'
      <4>1. i + 1 \in j + 1 .. m /\ i \in 1 .. m /\ ~(i < k)
        BY <2>2, <2>7
      <4>2. Pending(c[i + 1])'
        BY <2>3, <4>1
      <4> QED BY <1>7, <4>1, <4>2
    <3>3. d[j] = c[j + 1] /\ j \in 1 .. (m - 1) + 1
      BY <1>7, <2>2, <2>7
    <3>4. At(m - 1, d, j)'
      BY <2>6, <3>1, <3>2, <3>3 DEF At
    <3>5. Walking'
      BY <1>6, <3>3, <3>4 DEF Walking
    <3> QED BY <1>2, <1>6, <2>6, <3>5 DEF WalkInv
  <2>8. CASE k = j + 1
    <3>1. alarm' = other
      <4>1. other \in Alarm
        BY DEF Listed
      <4> QED BY <1>5, <2>6, <2>8, <4>1 DEF Before
    <3>2. Astray'
      BY <1>6, <3>1 DEF Astray, Listed
    <3>3. Walking'
      BY <1>6, <3>2 DEF Walking
    <3> QED BY <1>2, <1>6, <2>6, <3>3 DEF WalkInv
  <2>9. CASE k > j + 1
    <3>1. ASSUME NEW i \in 1 .. (j + 1) - 1
          PROVE  Done(d[i])'
      <4>1. i \in 1 .. j /\ i \in 1 .. m /\ i < k
        BY <2>2, <2>9
      <4>2. Done(c[i])'
        BY <2>3, <4>1
      <4> QED BY <1>7, <4>1, <4>2
    <3>2. ASSUME NEW i \in j + 1 .. m - 1
          PROVE  Pending(d[i])'
      <4>1. i + 1 \in j + 1 .. m /\ i \in j + 1 .. m /\ i \in 1 .. m
        BY <2>2
      <4>2. Pending(c[i])' /\ Pending(c[i + 1])'
        BY <2>3, <4>1
      <4> QED BY <1>7, <4>1, <4>2
    <3>3. d[j + 1] = c[j + 1] /\ j + 1 \in 1 .. (m - 1) + 1
      <4>1. j + 1 \in 1 .. m /\ j + 1 < k /\ (m - 1) + 1 = m
        BY <2>2, <2>9
      <4> QED BY <1>7, <4>1
    <3>4. At(m - 1, d, j + 1)'
      BY <2>6, <3>1, <3>2, <3>3 DEF At
    <3>5. Walking'
      BY <1>6, <3>3, <3>4 DEF Walking
    <3> QED BY <1>2, <1>6, <2>6, <3>5 DEF WalkInv
  <2> QED BY <2>4, <2>7, <2>8, <2>9
<1> QED BY <1>8, <1>9

-----------------------------------------------------------------------------
(* All steps. *)

LEMMA WalkStays ==
    ASSUME WalkInv, UNCHANGED <<nticks, llist, time, rollover, alarm, wait>>
    PROVE  WalkInv' /\ Listed' = Listed
<1>1. Links' /\ Clocks' /\ alarm' \in Alarm \union {NULL} /\ Listed' = Listed
  BY DEF WalkInv, Links, Clocks, llist, Listed
<1>2. PICK m \in Nat : \E c : Chain(m, c) /\ (Astray \/ \E j \in 1 .. m + 1 : At(m, c, j))
  BY DEF WalkInv, Walking
<1>3. PICK c : Chain(m, c) /\ (Astray \/ \E j \in 1 .. m + 1 : At(m, c, j))
  BY <1>2
<1>4. Chain(m, c)'
  BY <1>3, ChainStays
<1>5. Astray' <=> Astray
  BY DEF Astray, llist
<1>6. ASSUME NEW j \in 1 .. m + 1, At(m, c, j)
      PROVE  At(m, c, j)'
  BY <1>6, Zenon DEF At, Done, Pending, InStep
<1>7. Walking'
  BY <1>3, <1>4, <1>5, <1>6 DEF Walking
<1> QED BY <1>1, <1>7 DEF WalkInv

LEMMA AlarmsStep ==
    ASSUME Stages, AlarmInv, Board
    PROVE  AlarmInv'
<1> WalkInv /\ tick_rate \in {0, Rate} /\ Unstarted
  BY DEF AlarmInv
<1>1. CASE Boot
  <2>1. CASE TimerInit
    BY <2>1, WalkStays DEF TimerInit, alt_sysclk_init, AlarmInv, Unstarted
  <2>2. CASE UartInit
    BY <2>2, WalkStays DEF UartInit, alarmVars, AlarmInv, Unstarted
  <2>3. CASE UartAlarmInit
    <3>1. Listed = {} /\ Resting /\ Rate \in 0 .. Wrap - 2 /\ Started(UartAlarm, Rate)
      BY <2>3 DEF UartAlarmInit, Unstarted, ProgramRuns, NoHandler
    <3>2. UartAlarm \in Alarm \ Listed
      BY <3>1
    <3>3. WalkInv'
      BY <3>1, <3>2, StartedStep
    <3>4. tick_rate' = tick_rate /\ stage' = "redirect"
      BY <2>3, <3>1 DEF UartAlarmInit, Started
    <3> QED BY <3>3, <3>4 DEF AlarmInv, Unstarted
  <2>4. CASE Redirect
    BY <2>4, WalkStays DEF Redirect, alarmVars, AlarmInv, Unstarted
  <2> QED BY <1>1, <2>1, <2>2, <2>3, <2>4 DEF Boot
<1>2. CASE StartAlarm
  <2>1. PICK a \in UserAlarms \ Listed, n \in Delays : Started(a, n)
    BY <1>2 DEF StartAlarm
  <2>2. Resting /\ stage = "main" /\ stage' = "main" /\ n \in 0 .. Wrap - 2 /\ a \in Alarm \ Listed
    BY <1>2 DEF StartAlarm, Calls, ProgramRuns, NoHandler, halVars, UserAlarms
  <2>3. WalkInv' /\ tick_rate' = tick_rate
    BY <2>1, <2>2, StartedStep DEF Started
  <2> QED BY <2>2, <2>3 DEF AlarmInv, Unstarted
<1>3. CASE StopAlarm
  <2>1. PICK a \in UserAlarms : next[a] # NULL /\ alt_alarm_stop(a)
    BY <1>3 DEF StopAlarm
  <2>2. Resting /\ stage = "main" /\ stage' = "main" /\ a \in Alarm
    BY <1>3 DEF StopAlarm, Calls, ProgramRuns, NoHandler, halVars, UserAlarms
  <2>3. WalkInv' /\ tick_rate' = tick_rate
    BY <2>1, <2>2, StoppedStep DEF alt_alarm_stop
  <2> QED BY <2>2, <2>3 DEF AlarmInv, Unstarted
<1>4. CASE TimerInterrupt \/ Ticking
  <2>1. UNCHANGED stage
    BY <1>4 DEF TimerInterrupt, Ticking, halVars
  <2>2. WalkInv' /\ tick_rate' = tick_rate
    <3>1. CASE TimerInterrupt
      BY <3>1, TickStep DEF TimerInterrupt, alt_tick
    <3>2. CASE NotDue
      BY <3>2, NotDueStep DEF NotDue
    <3>3. ASSUME Recall(tick_rate)
          PROVE  WalkInv' /\ tick_rate' = tick_rate
      <4>1. tick_rate \in 1 .. Wrap - 1
        BY <3>3 DEF Recall
      <4> QED BY <3>3, <4>1, RecallStep DEF Recall
    <3>4. CASE Expire
      BY <3>4, ExpireStep DEF Expire
    <3>5. ASSUME NEW p \in Periods, Recall(p)
          PROVE  WalkInv' /\ tick_rate' = tick_rate
      <4>1. p \in 1 .. Wrap - 1
        OBVIOUS
      <4> QED BY <3>5, <4>1, RecallStep DEF Recall
    <3>6. ASSUME NEW p \in Periods, NEW other \in Listed, RecallAndStop(p, other)
          PROVE  WalkInv' /\ tick_rate' = tick_rate
      <4>1. p \in 1 .. Wrap - 1
        OBVIOUS
      <4> QED BY <3>6, <4>1, RecallAndStopStep DEF RecallAndStop
    <3> QED BY <1>4, <3>1, <3>2, <3>3, <3>4, <3>5, <3>6 DEF Ticking, Callback
  <2>3. Unstarted'
    <3>1. CASE stage \in {"timer", "uart", "alarm"}
      <4>1. Listed = {}
        BY <3>1 DEF Unstarted
      <4>2. UNCHANGED llist
        <5>1. CASE TimerInterrupt \/ NotDue \/ \E p : Recall(p)
          BY <5>1 DEF TimerInterrupt, alt_tick, NotDue, Recall
        <5>2. CASE Expire \/ \E p, other : other \in Listed /\ RecallAndStop(p, other)
          <6>1. ~\E p, other : other \in Listed /\ RecallAndStop(p, other)
            BY <4>1
          <6>2. Expire /\ alarm \in Alarm
            BY <5>2, <6>1 DEF Expire
          <6>3. Astray
            BY <4>1, <6>2, Stands
          <6>4. PICK m \in Nat : \E c : Chain(m, c)
            BY DEF WalkInv, Walking
          <6>5. PICK c : Chain(m, c)
            BY <6>4
          <6> QED BY <6>2, <6>3, <6>5, NotRemoved DEF Astray, Expire, WalkInv
        <5> QED BY <1>4, <5>1, <5>2 DEF Ticking, Callback
      <4> QED BY <4>1, <4>2 DEF Unstarted, Listed, llist
    <3>2. CASE stage \notin {"timer", "uart", "alarm"}
      BY <2>1, <3>2 DEF Unstarted
    <3> QED BY <3>1, <3>2
  <2> QED BY <2>2, <2>3 DEF AlarmInv
<1>5. CASE write \/ read \/ ioctl \/ Open \/ Close \/ Other \/ Lock \/ Fcntl \/ UartCall \/ Exit \/ UartInterrupt \/ Host
           \/ Return
  <2>1. UNCHANGED alarmVars /\ (stage' = stage \/ stage' = "exit")
    BY <1>5 DEF write, read, ioctl, Open, Close, Other, Lock, Fcntl, UartCall, Exit, UartInterrupt, Host,
                Return, halVars
  <2>2. WalkInv' /\ Listed' = Listed /\ tick_rate' = tick_rate
    BY <2>1, WalkStays DEF alarmVars
  <2> QED BY <2>1, <2>2 DEF AlarmInv, Unstarted
<1> QED BY <1>1, <1>2, <1>3, <1>4, <1>5 DEF Board, Client

LEMMA InitAlarms == Init => AlarmInv
<1> SUFFICES ASSUME Init
             PROVE  AlarmInv
  OBVIOUS
<1>1. /\ tick_rate = 0 /\ nticks = 0 /\ alarm = NULL
      /\ next = [e \in Entry |-> IF e = alt_alarm_list THEN alt_alarm_list ELSE NULL] /\ previous = next
      /\ time = [a \in Alarm |-> 0] /\ rollover = [a \in Alarm |-> FALSE] /\ wait = [a \in Alarm |-> 0]
  BY DEF Init, alarmsInit, Entry
<1>2. Links /\ Clocks /\ Listed = {}
  BY <1>1 DEF Links, Clocks, Listed, Entry
<1> DEFINE c == [i \in 0 .. 0 + 1 |-> alt_alarm_list]
<1>3. Chain(0, c)
  BY <1>1 DEF Chain, Entry
<1>4. At(0, c, 1) /\ 0 \in Nat /\ 1 \in 1 .. 0 + 1
  BY <1>1 DEF At, Before
<1> HIDE DEF c
<1>5. Walking
  BY <1>3, <1>4 DEF Walking
<1> QED BY <1>1, <1>2, <1>5 DEF AlarmInv, WalkInv, Unstarted

\* The list stays a list, and alt_tick knows where on it it is.
THEOREM AlarmInvariant == Spec => []AlarmInv
<1>1. HalInv /\ AlarmInv /\ [Next]_vars => AlarmInv'
  <2> SUFFICES ASSUME HalInv, AlarmInv, [Next]_vars
               PROVE  AlarmInv'
    OBVIOUS
  <2>1. CASE Board
    BY <2>1, AlarmsStep DEF HalInv
  <2>2. CASE UNCHANGED boardVars
    <3>1. UNCHANGED <<stage, tick_rate, nticks, llist, time, rollover, alarm, wait>>
      BY <2>2 DEF boardVars, halVars, alarmVars
    <3>2. WalkInv' /\ Listed' = Listed
      BY <3>1, WalkStays DEF AlarmInv
    <3> QED BY <3>1, <3>2 DEF AlarmInv, Unstarted
  <2> QED BY <2>1, <2>2 DEF Next, vars
<1> QED BY <1>1, InitAlarms, HalInvariant, PTL DEF Spec

\* A callback comes in the tick for which it was asked, in every list of alarms and
\* for every width of the clock, whichever alarms other callbacks stop.
THEOREM AlarmOnTimeCorrect == Spec => []AlarmOnTime
<1>1. AlarmInv => AlarmOnTime
  <2> SUFFICES ASSUME WalkInv
               PROVE  AlarmOnTime
    BY DEF AlarmInv
  <2>1. ASSUME alarm \in Listed
        PROVE  Due(alarm) <=> wait[alarm] = 0
    <3>1. alarm \in Alarm /\ ~Astray /\ Clocks
      BY <2>1 DEF Listed, Astray, WalkInv
    <3> QED BY <3>1, Stands, DueNow
  <2>2. ASSUME Resting, NEW a \in Listed
        PROVE  wait[a] > 0
    <3>1. PICK m \in Nat : \E c : Chain(m, c) /\ \A i \in 1 .. m : Done(c[i])
      BY <2>2, Rested
    <3>2. PICK c : Chain(m, c) /\ \A i \in 1 .. m : Done(c[i])
      BY <3>1
    <3>3. PICK i \in 1 .. m : a = c[i]
      BY <3>2, ChainListed
    <3> QED BY <3>2, <3>3 DEF Done
  <2> QED BY <2>1, <2>2 DEF AlarmOnTime
<1> QED BY <1>1, AlarmInvariant, PTL

==============================================================================

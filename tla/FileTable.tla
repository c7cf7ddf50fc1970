------------------------------ MODULE FileTable ------------------------------
(****************************************************************************)
(* The file descriptors of the HAL: alt_dev.c, alt_open.c, alt_close.c,     *)
(* alt_get_fd.c, alt_release_fd.c, alt_fd_lock.c, alt_fd_unlock.c,          *)
(* alt_read.c, alt_write.c, alt_lseek.c, alt_fstat.c, alt_fcntl.c,          *)
(* alt_io_redirect.c.  The table belongs to the program alone, so every     *)
(* call is one step.  There are no file systems, and no device of this      *)
(* system has an open, an lseek or an fstat function.                       *)
(****************************************************************************)
EXTENDS Integers, FiniteSets

CONSTANTS Device,               \* the names of devices; alt_dev_list holds some of them
          DevNull,              \* "/dev/null", which is always there
          NoDev,                \* the dev field of a free descriptor
          ALT_MAX_FD            \* 32

ASSUME FileAssumption ==
    ALT_MAX_FD \in Nat /\ ALT_MAX_FD > 3 /\ DevNull \in Device /\ NoDev \notin Device

VARIABLES
    alt_dev_list,           \* the registered devices
    alt_fd_list,            \* dev and fd_flags of every descriptor
    alt_max_fd,             \* the highest descriptor ever allocated
    held,                   \* what open gave to the program and close did not take back
    failed                  \* whether the last call returned an error

fileVars == <<alt_dev_list, alt_fd_list, alt_max_fd, held, failed>>

Fd == 0 .. ALT_MAX_FD - 1
StdFd == 0 .. 2
Free == [dev |-> NoDev, flags |-> {}]

filesInit ==
    /\ alt_dev_list = {DevNull}
    /\ alt_fd_list = [fd \in Fd |-> IF fd \in StdFd THEN [dev |-> DevNull, flags |-> {"O_RDONLY"}] ELSE Free]
    /\ alt_max_fd = -1 /\ held = {} /\ failed = FALSE

Device_Of(fd) == alt_fd_list[fd].dev
Has(fd, flag) == flag \in alt_fd_list[fd].flags
IsFree(fd) == Device_Of(fd) = NoDev

alt_dev_reg(dev) ==
    /\ alt_dev_list' = alt_dev_list \union {dev}
    /\ UNCHANGED <<alt_fd_list, alt_max_fd, held, failed>>

-----------------------------------------------------------------------------
(* open: the steps of ALT_OPEN as operators on a table. *)

FreeFds == {fd \in Fd : IsFree(fd)}
alt_get_fd == CHOOSE fd \in FreeFds : \A other \in FreeFds : fd <= other
MaxWith(fd) == IF fd > alt_max_fd THEN fd ELSE alt_max_fd

\* Mutant: the bound of the loop in alt_fd_lock.
alt_file_locked_Below(fd, dev) ==
    \E i \in 0 .. MaxWith(fd) - 1 : i # fd /\ Device_Of(i) = dev /\ Has(i, "ALT_FD_EXCL")

\* Another descriptor has the device to itself.
alt_file_locked(fd, dev) ==
    \E i \in 0 .. MaxWith(fd) : i # fd /\ Device_Of(i) = dev /\ Has(i, "ALT_FD_EXCL")

alt_release_fd(table, fd) == IF fd > 2 THEN [table EXCEPT ![fd] = Free] ELSE table

Opened(fd, dev, flags) ==
    [alt_fd_list EXCEPT ![fd] = [dev |-> dev, flags |-> flags \union {"ALT_FD_DEV"}]]

\* Mutant: what a failing open has allocated is not released.
OpenDenied_Kept(dev, flags) ==
    /\ dev \in alt_dev_list /\ FreeFds # {} /\ alt_file_locked(alt_get_fd, dev)
    /\ alt_fd_list' = Opened(alt_get_fd, dev, flags)
    /\ alt_max_fd' = MaxWith(alt_get_fd)
    /\ failed' = TRUE /\ UNCHANGED <<alt_dev_list, held>>

\* -ENODEV, or -EMFILE.
OpenFails(dev) ==
    /\ dev \notin alt_dev_list \/ FreeFds = {}
    /\ failed' = TRUE /\ UNCHANGED <<alt_dev_list, alt_fd_list, alt_max_fd, held>>

\* -EACCES: the device is locked.
OpenDenied(dev, flags) ==
    /\ dev \in alt_dev_list /\ FreeFds # {} /\ alt_file_locked(alt_get_fd, dev)
    /\ alt_fd_list' = alt_release_fd(Opened(alt_get_fd, dev, flags), alt_get_fd)
    /\ alt_max_fd' = MaxWith(alt_get_fd)
    /\ failed' = TRUE /\ UNCHANGED <<alt_dev_list, held>>

OpenSucceeds(dev, flags) ==
    /\ dev \in alt_dev_list /\ FreeFds # {} /\ ~alt_file_locked(alt_get_fd, dev)
    /\ alt_fd_list' = Opened(alt_get_fd, dev, flags)
    /\ alt_max_fd' = MaxWith(alt_get_fd) /\ held' = held \union {alt_get_fd}
    /\ failed' = FALSE /\ UNCHANGED alt_dev_list

open(dev, flags) == OpenFails(dev) \/ OpenDenied(dev, flags) \/ OpenSucceeds(dev, flags)

-----------------------------------------------------------------------------
(* alt_io_redirect opens the device once for each stream, copies the         *)
(* descriptor and releases it.                                               *)

alt_io_redirect(dev) ==
    LET As(mode) == [dev |-> dev, flags |-> {mode, "ALT_FD_DEV"}] IN
    /\ dev \in alt_dev_list
    /\ alt_fd_list' = [alt_fd_list EXCEPT ![0] = As("O_RDONLY"), ![1] = As("O_WRONLY"),
                                         ![2] = As("O_WRONLY")]
    /\ alt_max_fd' = MaxWith(alt_get_fd)
    /\ UNCHANGED <<alt_dev_list, held, failed>>

-----------------------------------------------------------------------------
(* What the program does to a descriptor it has. *)

\* The driver has waited as long as it wanted.  The descriptor is released even
\* when the driver has answered -EWOULDBLOCK.
CloseReturns(fd, refused) ==
    /\ alt_fd_list' = alt_release_fd(alt_fd_list, fd)
    /\ held' = held \ {fd} /\ failed' = refused
    /\ UNCHANGED <<alt_dev_list, alt_max_fd>>

\* A call that changes nothing but errno, or nothing at all.
Answers(error) == failed' = error /\ UNCHANGED <<alt_dev_list, alt_fd_list, alt_max_fd, held>>

\* Whether the driver is asked; /dev/null has no read function.
MayRead(fd) == ~Has(fd, "O_WRONLY") /\ Device_Of(fd) # DevNull
MayWrite(fd) == ~Has(fd, "O_RDONLY")

\* read or write without access, -EACCES, and lseek, -ENOTSUP; what is written to
\* /dev/null is gone, and fstat and isatty call every device a terminal.
RefusedAccess(fd) == (~MayRead(fd) \/ ~MayWrite(fd)) /\ Answers(TRUE)
lseek(fd) == Answers(TRUE)
alt_dev_null_write(fd) == MayWrite(fd) /\ Device_Of(fd) = DevNull /\ Answers(FALSE)
fstat(fd) == Answers(FALSE)

SetFlags(fd, flags) ==
    /\ alt_fd_list' = [alt_fd_list EXCEPT ![fd].flags = flags]
    /\ failed' = FALSE /\ UNCHANGED <<alt_dev_list, alt_max_fd, held>>

\* F_SETFL changes O_NONBLOCK and O_APPEND and nothing else.
fcntl(fd, flags) ==
    LET Changed == {"O_NONBLOCK", "O_APPEND"} IN
    SetFlags(fd, (alt_fd_list[fd].flags \ Changed) \union (flags \intersect Changed))

\* The highest descriptor is not looked at.
alt_fd_lock(fd) ==
    LET Shared == \E i \in 0 .. alt_max_fd - 1 : i # fd /\ Device_Of(i) = Device_Of(fd) IN
    /\ Has(fd, "ALT_FD_DEV")
    /\ \/ ~Shared /\ SetFlags(fd, alt_fd_list[fd].flags \union {"ALT_FD_EXCL"})
       \/ Shared /\ Answers(TRUE)

alt_fd_unlock(fd) ==
    Has(fd, "ALT_FD_DEV") /\ SetFlags(fd, alt_fd_list[fd].flags \ {"ALT_FD_EXCL"})

-----------------------------------------------------------------------------
(* Properties. *)

\* Every allocated descriptor above the standard streams is one the program
\* holds: an open that fails on its way (alt_open.c:159-166) keeps nothing.
NoLeak == {fd \in Fd \ StdFd : ~IsFree(fd)} = held

\* Once a descriptor has a device to itself, no other descriptor comes to the
\* device, whichever descriptor the search for the lock has to find.
LockedStaysClosed ==
    [][\A i, j \in Fd : Has(i, "ALT_FD_EXCL") /\ i # j /\ Device_Of(j) # Device_Of(i)
                          => alt_fd_list'[j].dev # Device_Of(i)]_alt_fd_list
=============================================================================

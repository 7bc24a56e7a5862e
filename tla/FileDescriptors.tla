-------------------------- MODULE FileDescriptors --------------------------
(***************************************************************************)
(* The file descriptors of the hardware abstraction layer: the tables of   *)
(* devices, file systems and descriptors, and the system calls on them     *)
(* (alt_open.c, alt_close.c, alt_read.c, ...), from the start-up that      *)
(* points the standard streams at the JTAG UART to the exit that spins,    *)
(* and through a reset of the board.                                       *)
(*                                                                         *)
(* One thread makes all the calls and no interrupt routine touches these   *)
(* tables, so a call is one step; what a driver's method answers is        *)
(* external.  A name is the sequence of its components.  Calls are made on *)
(* open descriptors and on -1, what a failed open returns: the code checks *)
(* for no other.                                                           *)
(***************************************************************************)
EXTENDS Integers, Sequences, SequencesExt, FiniteSets

CONSTANTS
    MaxFd,        \* ALT_MAX_FD
    Null,         \* "/dev/null"
    Console,      \* ALT_STDIN, ALT_STDOUT and ALT_STDERR
    Devices,      \* the names character devices register under
    FileSystems,  \* the names file systems register under: mount points
    Names,        \* the names the program opens
    OpenModes,    \* the access modes it opens them with
    FlagArgs,     \* the sets of flags it gives to open and fcntl
    Methods       \* the methods each device or file system provides

NoDev == <<"no device">>

\* The console is the JTAG UART, whose driver provides no open.
ASSUME FileDescriptorsAssumption ==
    /\ MaxFd \in Nat /\ MaxFd > 3
    /\ {Null, Console} \subseteq Devices
    /\ Devices \cap FileSystems = {} /\ NoDev \notin Devices \cup FileSystems
    /\ \A d \in Devices \cup FileSystems \cup Names : d \in Seq(STRING)
    /\ OpenModes \subseteq {"RDONLY", "WRONLY", "RDWR"}
    /\ FlagArgs \subseteq SUBSET {"APPEND", "NONBLOCK", "EXCL", "DEV"}
    /\ DOMAIN Methods = Devices \cup FileSystems
    /\ "open" \notin Methods[Console]

\* errno values of newlib.
EIO == 5
EACCES == 13
ENODEV == 19
EINVAL == 22
EMFILE == 24
ENOTTY == 25
EBADFD == 81
ENOTSUP == 134

VARIABLES
    phase,       \* start-up, main, or the end
    dev_list,    \* alt_dev_list, first entry first
    fs_list,     \* alt_fs_list, first entry first
    fd_list,     \* alt_fd_list: dev, mode and flags of each descriptor
    alt_max_fd,  \* the highest descriptor ever allocated
    last         \* the last call: what it returned, and the errno it set or 0

vars == <<phase, dev_list, fs_list, fd_list, alt_max_fd, last>>

Fds    == 0 .. MaxFd - 1
Stdio  == 0 .. 2
Modes  == {"RDONLY", "WRONLY", "RDWR"}
Free   == [dev |-> NoDev, mode |-> "RDONLY", flags |-> {}]
OpenFds == {i \in Fds : fd_list[i].dev # NoDev}

UserFlags    == {"APPEND", "NONBLOCK"}
PrivateFlags == {"EXCL", "DEV"}      \* ALT_FD_FLAGS_MASK

\* alt_dev.c: the tables as they are loaded.
Init ==
    /\ phase = "register"
    /\ dev_list = <<Null>>
    /\ fs_list = <<>>
    /\ fd_list = [i \in Fds |-> IF i \in Stdio THEN [Free EXCEPT !.dev = Null] ELSE Free]
    /\ alt_max_fd = -1
    /\ last = [call |-> "none", result |-> 0, errno |-> 0]

-----------------------------------------------------------------------------
(* Finding a device, and taking and giving back a descriptor. *)

\* alt_find_dev: the whole name.
FindDev(name) == IF Contains(dev_list, name) THEN name ELSE NoDev

\* alt_find_file: the first file system the name lies under.
FindFile(name) ==
    LET k == SelectInSeq(fs_list, LAMBDA mount : IsPrefix(mount, name))
    IN  IF k = 0 THEN NoDev ELSE fs_list[k]

Find(name) == IF FindDev(name) # NoDev THEN FindDev(name) ELSE FindFile(name)

Unused == Fds \ OpenFds
\* alt_get_fd: the lowest descriptor that is free.
NextFd == CHOOSE i \in Unused : \A j \in Unused : i <= j

\* Variant: the water mark is that of the last descriptor handed out.
HighWaterLast(i) == i
HighWater(i) == IF i > alt_max_fd THEN i ELSE alt_max_fd

\* Variant: the standard streams are released like any other.
ReleasedAny(table, i) == [table EXCEPT ![i] = Free]
\* Variant: the flags of a descriptor outlive it.
ReleasedFlagged(table, i) == IF i > 2 THEN [table EXCEPT ![i].dev = NoDev] ELSE table
\* alt_release_fd: the standard streams are never given back, and a negative
\* index, what a failed alt_get_fd leaves, does nothing.
Released(table, i) == IF i > 2 THEN [table EXCEPT ![i] = Free] ELSE table

\* Variant: the descriptor at the water mark is left out.
LockedByOtherBelow(dev, fd) ==
    \E i \in 0 .. HighWater(fd) - 1 : fd_list[i].dev = dev /\ "EXCL" \in fd_list[i].flags /\ i # fd

\* alt_file_locked: another descriptor holds the device for itself.
LockedByOther(dev, fd) ==
    \E i \in 0 .. HighWater(fd) : fd_list[i].dev = dev /\ "EXCL" \in fd_list[i].flags /\ i # fd

-----------------------------------------------------------------------------
(* How a call ends. *)

Returns(name, value) == last' = [call |-> name, result |-> value, errno |-> 0]

FailsWith(name, e, value) == last' = [call |-> name, result |-> value, errno |-> e]

Fails(name, e) == FailsWith(name, e, -1)

NoTableChange == UNCHANGED <<phase, dev_list, fs_list, fd_list, alt_max_fd>>

\* What a method answers: success, or the driver's own error.
Answers == {0, -EIO}

-----------------------------------------------------------------------------
(* open. *)

\* ALT_OPEN's index: the descriptor it takes, negative when there is none.
Index(name) ==
    IF Find(name) = NoDev THEN -1 ELSE IF Unused = {} THEN -EMFILE ELSE NextFd

\* That descriptor once alt_get_fd has put dev in it, ALT_OPEN the flags, and
\* alt_file_locked the mark of a device.
Opened(dev, mode, flags) ==
    [dev |-> dev, mode |-> mode,
     flags |-> (flags \ PrivateFlags) \cup (IF dev \in Devices THEN {"DEV"} ELSE {})]

\* The statuses with which opening name may end, 0 when it is open.
OpenStatus(name) ==
    LET dev == Find(name) IN
    IF dev = NoDev THEN {-ENODEV}
    ELSE IF Index(name) < 0 THEN {Index(name)}
    ELSE IF FindDev(name) # NoDev /\ LockedByOther(dev, NextFd) THEN {-EACCES}
    ELSE IF "open" \in Methods[dev] THEN Answers
    ELSE {0}

\* What taking the descriptor makes of the water mark and of the table, before
\* it is known whether the open succeeds.
OpenMark(name) == IF Index(name) < 0 THEN alt_max_fd ELSE HighWater(Index(name))

Taken(name, mode, flags) ==
    IF Index(name) < 0 THEN fd_list
    ELSE [fd_list EXCEPT ![Index(name)] = Opened(Find(name), mode, flags)]

\* The table when the open has ended: a failure gives back what was taken.
OpenTable(name, mode, flags, status) ==
    IF status < 0 THEN Released(Taken(name, mode, flags), Index(name)) ELSE Taken(name, mode, flags)

Open(name, mode, flags) ==
    /\ \E status \in OpenStatus(name) :
          /\ fd_list' = OpenTable(name, mode, flags, status)
          /\ IF status < 0 THEN Fails("open", -status) ELSE Returns("open", Index(name))
    /\ alt_max_fd' = OpenMark(name)
    /\ UNCHANGED <<phase, dev_list, fs_list>>

-----------------------------------------------------------------------------
(* The calls on an open descriptor; -1 fails with EBADFD in each of them. *)

Provides(fd, method) == method \in Methods[fd_list[fd].dev]

\* The method is called, and its error becomes errno and the value -1.
CallMethod(name) ==
    \E answer \in Answers : IF answer < 0 THEN Fails(name, -answer) ELSE Returns(name, answer)

Close(fd) ==
    /\ IF Provides(fd, "close") THEN CallMethod("close") ELSE Returns("close", 0)
    /\ fd_list' = Released(fd_list, fd)
    /\ UNCHANGED <<phase, dev_list, fs_list, alt_max_fd>>

Read(fd) ==
    /\ IF fd_list[fd].mode # "WRONLY" /\ Provides(fd, "read")
         THEN CallMethod("read") ELSE Fails("read", EACCES)
    /\ NoTableChange

Write(fd) ==
    /\ IF fd_list[fd].mode # "RDONLY" /\ Provides(fd, "write")
         THEN CallMethod("write") ELSE Fails("write", EACCES)
    /\ NoTableChange

Lseek(fd) ==
    /\ IF Provides(fd, "lseek") THEN CallMethod("lseek") ELSE Fails("lseek", ENOTSUP)
    /\ NoTableChange

\* fstat hands on what the method answers and leaves errno alone.
FstatAnswers(fd) == IF Provides(fd, "fstat") THEN Answers ELSE {0}

Fstat(fd) ==
    /\ \E answer \in FstatAnswers(fd) : Returns("fstat", answer)
    /\ NoTableChange

\* 1 for a terminal: a device without fstat is one, of others fstat decides.
Isatty(fd) ==
    /\ \E tty \in IF Provides(fd, "fstat") THEN {0, 1} ELSE {1} : Returns("isatty", tty)
    /\ NoTableChange

\* alt_fd_lock: refused when another descriptor below the water mark has the
\* device.
SharedBelowWater(fd) ==
    \E i \in 0 .. alt_max_fd - 1 : i # fd /\ fd_list[i].dev = fd_list[fd].dev

\* Variant: the flag is set without looking for other descriptors.
LockAtOnce(fd) ==
    /\ fd_list' = [fd_list EXCEPT ![fd].flags = @ \cup {"EXCL"}]
    /\ Returns("ioctl", 0)

Lock(fd) ==
    \/ /\ SharedBelowWater(fd)
       /\ FailsWith("ioctl", EACCES, -EACCES)
       /\ UNCHANGED fd_list
    \/ /\ ~SharedBelowWater(fd)
       /\ fd_list' = [fd_list EXCEPT ![fd].flags = @ \cup {"EXCL"}]
       /\ Returns("ioctl", 0)

\* alt_fd_unlock
Unlock(fd) ==
    /\ fd_list' = [fd_list EXCEPT ![fd].flags = @ \ {"EXCL"}]
    /\ Returns("ioctl", 0)

\* Every other request, and every request on a file system.
DriverIoctl(fd) ==
    /\ \E rc \in IF Provides(fd, "ioctl") THEN Answers ELSE {-ENOTTY} :
          IF rc < 0 THEN FailsWith("ioctl", -rc, rc) ELSE Returns("ioctl", rc)
    /\ UNCHANGED fd_list

IsDevice(fd) == "DEV" \in fd_list[fd].flags

Ioctl(fd, req) ==
    /\ \/ IsDevice(fd) /\ req = "TIOCEXCL" /\ Lock(fd)
       \/ IsDevice(fd) /\ req = "TIOCNXCL" /\ Unlock(fd)
       \/ ~IsDevice(fd) /\ DriverIoctl(fd)
       \/ req = "other" /\ DriverIoctl(fd)
    /\ UNCHANGED <<phase, dev_list, fs_list, alt_max_fd>>

\* Variant: F_SETFL replaces all the flags.
SetFlagsAll(fd, flags) ==
    /\ fd_list' = [fd_list EXCEPT ![fd].flags = flags]
    /\ Returns("fcntl", 0)
    /\ UNCHANGED <<phase, dev_list, fs_list, alt_max_fd>>

\* fcntl, F_SETFL: O_APPEND and O_NONBLOCK and no other flag.
SetFlags(fd, flags) ==
    /\ fd_list' = [fd_list EXCEPT ![fd].flags = (@ \ UserFlags) \cup (flags \cap UserFlags)]
    /\ Returns("fcntl", 0)
    /\ UNCHANGED <<phase, dev_list, fs_list, alt_max_fd>>

\* fcntl with any command but F_SETFL and F_GETFL.
FcntlOther(fd) == Fails("fcntl", EINVAL) /\ NoTableChange

\* The calls on a descriptor of -1.
CallsOnFailedOpen ==
    /\ \/ \E call \in {"close", "read", "write", "lseek", "fstat", "fcntl"} : Fails(call, EBADFD)
       \/ FailsWith("ioctl", EBADFD, -EBADFD)
       \/ FailsWith("isatty", EBADFD, 0)
    /\ NoTableChange

\* stat: open, fstat and close; after a failed open both act on -1.
Stat(name) ==
    /\ \E status \in OpenStatus(name) :
          LET dev == Find(name)
              opened == OpenTable(name, "RDONLY", {}, status)
          IN  IF status < 0 THEN fd_list' = opened /\ Fails("stat", EBADFD)
              ELSE /\ fd_list' = Released(opened, Index(name))
                   /\ \E answer \in IF "fstat" \in Methods[dev] THEN Answers ELSE {0},
                         closing \in IF "close" \in Methods[dev] THEN Answers ELSE {0} :
                            FailsWith("stat", -closing, answer)
    /\ alt_max_fd' = OpenMark(name)
    /\ UNCHANGED <<phase, dev_list, fs_list>>

-----------------------------------------------------------------------------
(* Start-up, registration and the end. *)

\* alt_dev_reg, by the drivers' initialisation and by the program.
RegisterDevice(name) ==
    /\ name \in Devices /\ ~Contains(dev_list, name)
    /\ phase = "register" => name = Console
    /\ dev_list' = <<name>> \o dev_list
    /\ phase' = IF phase = "register" THEN "stdout" ELSE phase
    /\ Returns("alt_dev_reg", 0)
    /\ UNCHANGED <<fs_list, fd_list, alt_max_fd>>

\* alt_fs_reg
RegisterFileSystem(name) ==
    /\ name \in FileSystems /\ ~Contains(fs_list, name)
    /\ fs_list' = <<name>> \o fs_list
    /\ Returns("alt_fs_reg", 0)
    /\ UNCHANGED <<phase, dev_list, fd_list, alt_max_fd>>

\* alt_open_fd: an open, whose descriptor is copied to the stream's place and
\* given back.
Redirect(stream, mode, next) ==
    /\ \E status \in OpenStatus(Console) :
          LET opened == OpenTable(Console, mode, {}, status)
              old == Index(Console)
          IN  IF status < 0 THEN fd_list' = opened /\ Fails("open", -status)
              ELSE /\ fd_list' = Released([opened EXCEPT ![stream] = opened[old]], old)
                   /\ Returns("open", old)
    /\ alt_max_fd' = OpenMark(Console)
    /\ phase' = next
    /\ UNCHANGED <<dev_list, fs_list>>

\* alt_io_redirect
RedirectStdout == phase = "stdout" /\ Redirect(1, "WRONLY", "stdin")
RedirectStdin  == phase = "stdin" /\ Redirect(0, "RDONLY", "stderr")
RedirectStderr == phase = "stderr" /\ Redirect(2, "WRONLY", "main")

\* alt_main: main returned, standard output is closed and exit called.
MainReturns ==
    /\ phase = "main"
    /\ IF Provides(1, "close") THEN CallMethod("close") ELSE Returns("close", 0)
    /\ fd_list' = Released(fd_list, 1)
    /\ phase' = "exit"
    /\ UNCHANGED <<dev_list, fs_list, alt_max_fd>>

\* alt_exit: there is nowhere to go.
Spins == phase = "exit" /\ UNCHANGED vars

\* The board is reset: the start-up code copies the initial values of .rwdata
\* from their image (alt_load), clears .bss and starts over.
Restart ==
    /\ phase' = "register"
    /\ dev_list' = <<Null>>
    /\ fs_list' = <<>>
    /\ fd_list' = [i \in Fds |-> IF i \in Stdio THEN [Free EXCEPT !.dev = Null] ELSE Free]
    /\ alt_max_fd' = -1
    /\ last' = [call |-> "none", result |-> 0, errno |-> 0]

Program ==
    /\ phase = "main"
    /\ \/ \E name \in Names, mode \in OpenModes, flags \in FlagArgs :
             Open(name, mode, flags)
       \/ \E fd \in OpenFds :
             \/ Close(fd) \/ Read(fd) \/ Write(fd) \/ Lseek(fd) \/ Fstat(fd) \/ Isatty(fd)
             \/ \E req \in {"TIOCEXCL", "TIOCNXCL", "other"} : Ioctl(fd, req)
             \/ \E flags \in FlagArgs : SetFlags(fd, flags)
             \/ FcntlOther(fd)
       \/ CallsOnFailedOpen
       \/ \E name \in Names : Stat(name)
       \/ \E name \in FileSystems : RegisterFileSystem(name)

Next ==
    \/ \E name \in Devices : phase \in {"register", "main"} /\ RegisterDevice(name)
    \/ RedirectStdout \/ RedirectStdin \/ RedirectStderr
    \/ Program
    \/ MainReturns
    \/ Spins
    \/ Restart

Spec == Init /\ [][Next]_vars

-----------------------------------------------------------------------------
(* Properties. *)

Descriptor == [dev : Devices \cup FileSystems \cup {NoDev}, mode : Modes,
               flags : SUBSET (UserFlags \cup PrivateFlags)]

TypeOK ==
    /\ phase \in {"register", "stdout", "stdin", "stderr", "main", "exit"}
    /\ dev_list \in Seq(Devices) /\ fs_list \in Seq(FileSystems)
    /\ fd_list \in [Fds -> Descriptor]
    /\ alt_max_fd \in -1 .. MaxFd - 1
    /\ last \in [call : STRING, result : Int, errno : Nat]

\* Every descriptor handed out lies at or below the water mark, where open
\* and ioctl look for others on the same device (0 to 2 were never handed out).
BelowHighWater == \A i \in OpenFds : i > 2 => i <= alt_max_fd

\* Whatever the program closes, the standard streams stay open, on the
\* terminal, and each in its direction; printf has somewhere to print until
\* the end.
StdioStaysOnConsole ==
    phase \in {"main", "exit"} =>
        /\ \A i \in Stdio : fd_list[i].dev = Console
        /\ fd_list[0].mode = "RDONLY"
        /\ fd_list[1].mode = "WRONLY" /\ fd_list[2].mode = "WRONLY"

\* ALT_FD_DEV marks the descriptors of devices and no others, whatever flags
\* open and fcntl are given: on it depends who handles an exclusive lock.
DeviceFlagTells ==
    phase \in {"main", "exit"} =>
        \A i \in Fds : ("DEV" \in fd_list[i].flags) <=> (fd_list[i].dev \in Devices)

Holders(dev) == {i \in Fds : fd_list[i].dev = dev /\ "EXCL" \in fd_list[i].flags}
Users(dev)   == {i \in Fds : fd_list[i].dev = dev}

\* Two descriptors never hold the same device for themselves.
OneHolder == \A dev \in Devices : Cardinality(Holders(dev)) <= 1

\* While a device is locked nobody else gets to it: until a restart its
\* descriptors only become fewer.
LockKeepsOthersOut ==
    [][\/ phase' = "register"
       \/ \A dev \in Devices : Holders(dev) # {} => Users(dev)' \subseteq Users(dev)]_vars

\* An open that fails, at whichever point, and a stat, which opens and closes
\* whatever comes of it, leave the table of descriptors as it was: what they
\* have taken and filled in goes back, and nothing of it stays in the entry.
FailedOpenLeavesNoTrace ==
    [][(last'.call = "open" /\ last'.result < 0) \/ last'.call = "stat" => fd_list' = fd_list]_vars

\* alt_fd_lock.c:43: "If there are no other open file descriptors which
\* reference the same device, then alt_fd_lock() will grant the lock": a
\* device is locked only by its single user.
HolderIsAlone ==
    [][\A dev \in Devices :
           Holders(dev) = {} /\ Holders(dev)' # {} => Cardinality(Users(dev)') = 1]_vars

=============================================================================

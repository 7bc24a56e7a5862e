----------------------- MODULE FileDescriptorsProofs -----------------------
(***************************************************************************)
(* Theorems of the file descriptors, for tables of every length and every  *)
(* set of devices, file systems and names.                                 *)
(*                                                                         *)
(* What a step does to the table and the water mark is one of a few        *)
(* effects, whatever the call; the invariant is proved effect by effect.   *)
(***************************************************************************)
EXTENDS FileDescriptors, TLAPS, SequenceTheorems, FiniteSetTheorems, WellFoundedInduction

-----------------------------------------------------------------------------
(* The invariant. *)

StartUp == {"register", "stdout", "stdin", "stderr"}
Phases  == StartUp \cup {"main", "exit"}

TablesTyped ==
    /\ phase \in Phases
    /\ dev_list \in Seq(Devices) /\ fs_list \in Seq(FileSystems)
    /\ fd_list \in [Fds -> Descriptor]
    /\ alt_max_fd \in -1 .. MaxFd - 1
    /\ phase # "register" => Contains(dev_list, Console)

OnConsole(i, mode) == fd_list[i].dev = Console /\ fd_list[i].mode = mode /\ "DEV" \in fd_list[i].flags

\* Start-up redirects the streams one by one and opens nothing else.
Streams ==
    /\ \A i \in Stdio : fd_list[i].dev # NoDev
    /\ phase \in StartUp => \A i \in Fds : (i > 2 => fd_list[i].dev = NoDev) /\ "EXCL" \notin fd_list[i].flags
    /\ phase \in {"stdin", "stderr", "main", "exit"} => OnConsole(1, "WRONLY") /\ alt_max_fd >= 3
    /\ phase \in {"stderr", "main", "exit"} => OnConsole(0, "RDONLY")
    /\ phase \in {"main", "exit"} => OnConsole(2, "WRONLY")

FlagTells == \A i \in Fds : i > 2 => (("DEV" \in fd_list[i].flags) <=> (fd_list[i].dev \in Devices))

\* Who locks a device is alone on it, or lies below the water mark, where the
\* next one to try looks.
Exclusive ==
    \A i, j \in Fds : "EXCL" \in fd_list[i].flags =>
        /\ fd_list[i].dev \in Devices
        /\ j # i /\ fd_list[j].dev = fd_list[i].dev => i < alt_max_fd /\ "EXCL" \notin fd_list[j].flags

TableInv == TablesTyped /\ Streams /\ BelowHighWater /\ FlagTells /\ Exclusive

\* Nothing of an earlier use stays in a descriptor that is free.
FreeAreBlank == \A i \in Fds : fd_list[i].dev = NoDev => fd_list[i] = Free

-----------------------------------------------------------------------------
(* Finding a device and a descriptor. *)

LEMMA LeastExists ==
    ASSUME NEW set \in SUBSET Nat, set # {}
    PROVE  \E i \in set : \A j \in set : i <= j
<1> DEFINE less == OpToRel(<, Nat)
<1>1. \A i, j \in Nat : i < j => <<i, j>> \in less
    BY DEF OpToRel
<1>2. IsWellFoundedOn(less, Nat)
    BY NatLessThanWellFounded
<1> HIDE DEF less
<1>3. PICK i \in set : \A j \in set : <<j, i>> \notin less
    BY <1>2, WFMin, Zenon
<1>4. ASSUME NEW j \in set PROVE i <= j
    <2>1. i \in Nat /\ j \in Nat
        OBVIOUS
    <2>2. ~(j < i)
        BY <1>1, <1>3, <2>1
    <2> QED
        BY <2>1, <2>2
<1> QED
    BY <1>4

LEMMA FdsAreNat == Fds \subseteq Nat /\ Stdio \subseteq Fds /\ \A i \in Fds : i > 2 <=> i \notin Stdio
BY FileDescriptorsAssumption DEF Fds, Stdio

LEMMA NextFdIsUnused == Unused # {} => NextFd \in Unused /\ NextFd \in Fds
<1> SUFFICES ASSUME Unused # {} PROVE NextFd \in Unused /\ NextFd \in Fds
    OBVIOUS
<1>1. Unused \in SUBSET Nat /\ Unused \subseteq Fds
    BY FdsAreNat DEF Unused
<1>2. \E i \in Unused : \A j \in Unused : i <= j
    BY <1>1, LeastExists
<1> QED
    BY <1>1, <1>2 DEF NextFd

\* The streams are taken: a descriptor handed out is another.
LEMMA NextFdIsNoStream ==
    ASSUME TablesTyped, Streams, Unused # {}
    PROVE  NextFd \in Fds /\ NextFd > 2 /\ fd_list[NextFd].dev = NoDev
<1>1. NextFd \in Fds /\ fd_list[NextFd].dev = NoDev
    BY NextFdIsUnused DEF Unused, OpenFds
<1> QED
    BY <1>1, FdsAreNat DEF Streams

LEMMA HighWaterType ==
    ASSUME TablesTyped, NEW i \in Fds
    PROVE  HighWater(i) \in -1 .. MaxFd - 1 /\ HighWater(i) >= alt_max_fd /\ HighWater(i) >= i
BY FileDescriptorsAssumption DEF TablesTyped, HighWater, Fds

LEMMA FindFileType ==
    ASSUME TablesTyped, NEW name
    PROVE  FindFile(name) \in FileSystems \cup {NoDev}
<1> DEFINE hits == {i \in 1 .. Len(fs_list) : IsPrefix(fs_list[i], name)}
<1>1. Len(fs_list) \in Nat /\ \A i \in 1 .. Len(fs_list) : fs_list[i] \in FileSystems
    BY LenProperties, ElementOfSeq DEF TablesTyped
<1>2. CASE hits = {}
    BY <1>2 DEF FindFile, SelectInSeq
<1>3. CASE hits # {}
    <2>1. hits \in SUBSET Nat
        BY <1>1
    <2>2. Min(hits) \in hits
        BY <1>3, <2>1, LeastExists DEF Min
    <2>3. FindFile(name) = fs_list[Min(hits)]
        BY <1>1, <1>3, <2>2 DEF FindFile, SelectInSeq
    <2> QED
        BY <1>1, <2>2, <2>3
<1> QED
    BY <1>2, <1>3

LEMMA FindType ==
    ASSUME TablesTyped, NEW name
    PROVE  /\ Find(name) \in Devices \cup FileSystems \cup {NoDev}
           /\ Find(name) \in Devices => FindDev(name) # NoDev
<1>1. FindDev(name) # NoDev => name \in Devices
    BY ElementOfSeq DEF FindDev, Contains, TablesTyped
<1> QED
    BY <1>1, FindFileType, FileDescriptorsAssumption DEF Find, FindDev

-----------------------------------------------------------------------------
(* The effects of a step. *)

Untouched == UNCHANGED <<phase, fd_list, alt_max_fd>>

\* A descriptor was taken and given back at once.
Marks ==
    /\ Unused # {} /\ alt_max_fd' = HighWater(NextFd)
    /\ UNCHANGED <<phase, fd_list>>

Opens(dev, mode, flags) ==
    /\ phase = "main" /\ Unused # {}
    /\ dev \in Devices => ~LockedByOther(dev, NextFd)
    /\ fd_list' = [fd_list EXCEPT ![NextFd] = Opened(dev, mode, flags)]
    /\ alt_max_fd' = HighWater(NextFd)
    /\ UNCHANGED phase

Gives(fd) ==
    /\ phase = "main" /\ phase' \in {"main", "exit"}
    /\ fd_list' = Released(fd_list, fd)
    /\ UNCHANGED alt_max_fd

Locks(fd) ==
    /\ phase = "main" /\ IsDevice(fd) /\ ~SharedBelowWater(fd)
    /\ fd_list' = [fd_list EXCEPT ![fd].flags = @ \cup {"EXCL"}]
    /\ UNCHANGED <<phase, alt_max_fd>>

Unlocks(fd) ==
    /\ phase = "main"
    /\ fd_list' = [fd_list EXCEPT ![fd].flags = @ \ {"EXCL"}]
    /\ UNCHANGED <<phase, alt_max_fd>>

Reflags(fd, flags) ==
    /\ phase = "main"
    /\ fd_list' = [fd_list EXCEPT ![fd].flags = (@ \ UserFlags) \cup (flags \cap UserFlags)]
    /\ UNCHANGED <<phase, alt_max_fd>>

Redirects(stream, mode) ==
    /\ Unused # {}
    /\ fd_list' = [fd_list EXCEPT ![stream] = Opened(Console, mode, {})]
    /\ alt_max_fd' = HighWater(NextFd)

RegistersConsole == phase = "register" /\ phase' = "stdout" /\ UNCHANGED <<fd_list, alt_max_fd>>

Effect ==
    \/ Untouched
    \/ Marks
    \/ \E dev \in Devices \cup FileSystems, mode \in Modes, flags \in FlagArgs : Opens(dev, mode, flags)
    \/ \E fd \in OpenFds : Gives(fd)
    \/ Gives(1)
    \/ \E fd \in OpenFds : Locks(fd) \/ Unlocks(fd) \/ \E flags \in FlagArgs : Reflags(fd, flags)
    \/ phase = "stdout" /\ phase' = "stdin" /\ Redirects(1, "WRONLY")
    \/ phase = "stdin" /\ phase' = "stderr" /\ Redirects(0, "RDONLY")
    \/ phase = "stderr" /\ phase' = "main" /\ Redirects(2, "WRONLY")
    \/ RegistersConsole
    \/ Restart

\* Putting a free entry back in the place of whatever was put there restores
\* the table: what an open that fails, a stat and a redirection rely on.
LEMMA GivingBackRestores ==
    ASSUME TablesTyped, Streams, FreeAreBlank, Unused # {}, NEW state
    PROVE  Released([fd_list EXCEPT ![NextFd] = state], NextFd) = fd_list
<1>1. NextFd \in Fds /\ NextFd > 2 /\ fd_list[NextFd].dev = NoDev
    BY NextFdIsNoStream
<1>2. fd_list[NextFd] = Free
    BY <1>1 DEF FreeAreBlank
<1>3. fd_list \in [Fds -> Descriptor]
    BY DEF TablesTyped
<1> QED
    BY <1>1, <1>2, <1>3 DEF Released

\* An index is the next descriptor, or negative: then nothing is taken.
LEMMA IndexType ==
    ASSUME NEW name
    PROVE  \/ Index(name) < 0 /\ \A status \in OpenStatus(name) : status < 0
           \/ /\ Index(name) = NextFd /\ ~(Index(name) < 0)
              /\ Unused # {} /\ Find(name) # NoDev
<1>1. CASE Find(name) = NoDev \/ Unused = {}
    BY <1>1 DEF Index, OpenStatus, ENODEV, EMFILE
<1>2. CASE Find(name) # NoDev /\ Unused # {}
    <2>1. NextFd \in Nat
        BY <1>2, NextFdIsUnused, FdsAreNat
    <2> QED
        BY <1>2, <2>1 DEF Index
<1> QED
    BY <1>1, <1>2

LEMMA TakenType ==
    ASSUME NEW name, NEW mode, NEW flags, ~(Index(name) < 0)
    PROVE  Taken(name, mode, flags) = [fd_list EXCEPT ![NextFd] = Opened(Find(name), mode, flags)]
BY IndexType DEF Taken

\* Whatever has been taken, an open that fails ends with the table it found.
LEMMA FailedOpenRestores ==
    ASSUME TablesTyped, Streams, FreeAreBlank, NEW name, NEW mode, NEW flags, NEW status, status < 0
    PROVE  OpenTable(name, mode, flags, status) = fd_list
<1>1. OpenTable(name, mode, flags, status) = Released(Taken(name, mode, flags), Index(name))
    BY DEF OpenTable
<1>2. CASE Index(name) < 0
    <2>1. ~(Index(name) > 2)
        <3>1. Unused # {} => NextFd \in Nat
            BY NextFdIsUnused, FdsAreNat
        <3>2. Find(name) = NoDev \/ Unused = {} => Index(name) = -1 \/ Index(name) = -24
            BY DEF Index, EMFILE
        <3>3. Find(name) # NoDev /\ Unused # {} => Index(name) = NextFd
            BY DEF Index
        <3> QED
            BY <1>2, <3>1, <3>2, <3>3
    <2> QED
        BY <1>1, <1>2, <2>1 DEF Taken, Released
<1>3. CASE ~(Index(name) < 0)
    BY <1>1, <1>3, IndexType, TakenType, GivingBackRestores
<1> QED
    BY <1>2, <1>3

\* A stat gives back what it opened.
LEMMA StatRestores ==
    ASSUME TablesTyped, Streams, FreeAreBlank, NEW name, Stat(name)
    PROVE  fd_list' = fd_list
<1>1. PICK status \in OpenStatus(name) :
        LET opened == OpenTable(name, "RDONLY", {}, status)
        IN  IF status < 0 THEN fd_list' = opened ELSE fd_list' = Released(opened, Index(name))
    BY DEF Stat
<1>2. CASE status < 0
    BY <1>1, <1>2, FailedOpenRestores
<1>3. CASE ~(status < 0)
    <2>1. ~(Index(name) < 0) /\ Index(name) = NextFd /\ Unused # {}
        BY <1>1, <1>3, IndexType
    <2>2. fd_list' = Released(Taken(name, "RDONLY", {}), Index(name))
        BY <1>1, <1>3 DEF OpenTable
    <2> QED
        BY <2>1, <2>2, TakenType, GivingBackRestores
<1> QED
    BY <1>2, <1>3

LEMMA MarkEffect ==
    ASSUME NEW name, alt_max_fd' = OpenMark(name), UNCHANGED <<phase, fd_list>>
    PROVE  Effect
<1>1. CASE Index(name) < 0
    BY <1>1 DEF OpenMark, Effect, Untouched
<1>2. CASE ~(Index(name) < 0)
    BY <1>2, IndexType DEF OpenMark, Effect, Marks
<1> QED
    BY <1>1, <1>2

LEMMA OpenEffect ==
    ASSUME TablesTyped, Streams, FreeAreBlank,
           NEW name, NEW mode \in OpenModes, NEW flags \in FlagArgs,
           phase = "main", Open(name, mode, flags)
    PROVE  Effect
<1>1. PICK status \in OpenStatus(name) :
          /\ alt_max_fd' = OpenMark(name)
          /\ fd_list' = OpenTable(name, mode, flags, status)
          /\ UNCHANGED phase
    BY DEF Open
<1>2. CASE status < 0
    BY <1>1, <1>2, FailedOpenRestores, MarkEffect
<1>3. CASE ~(status < 0)
    <2>1. Index(name) = NextFd /\ ~(Index(name) < 0) /\ Unused # {} /\ Find(name) # NoDev
        BY <1>1, <1>3, IndexType
    <2>2. FindDev(name) # NoDev => ~LockedByOther(Find(name), NextFd)
        BY <1>1, <1>3, <2>1 DEF OpenStatus, EACCES
    <2>3. Find(name) \in Devices \cup FileSystems /\ (Find(name) \in Devices => ~LockedByOther(Find(name), NextFd))
        BY <2>1, <2>2, FindType
    <2>4. mode \in Modes
        BY FileDescriptorsAssumption DEF Modes
    <2>5. fd_list' = [fd_list EXCEPT ![NextFd] = Opened(Find(name), mode, flags)]
        BY <1>1, <1>3, <2>1, TakenType DEF OpenTable
    <2>6. alt_max_fd' = HighWater(NextFd)
        BY <1>1, <2>1 DEF OpenMark
    <2>7. Opens(Find(name), mode, flags)
        BY <1>1, <2>1, <2>3, <2>5, <2>6 DEF Opens
    <2> QED
        BY <2>3, <2>4, <2>7 DEF Effect
<1> QED
    BY <1>2, <1>3

\* Nothing is locked and descriptors are free when a stream is redirected, so
\* that the console opens; the copy stays and the descriptor goes back.
LEMMA RedirectEffect ==
    ASSUME TablesTyped, Streams, FreeAreBlank, NEW stream \in Stdio, NEW mode, NEW next,
           phase \in {"stdout", "stdin", "stderr"}, Redirect(stream, mode, next)
    PROVE  /\ phase' = next /\ Redirects(stream, mode)
           /\ last'.call = "open" => ~(last'.result < 0)
<1>1. Contains(dev_list, Console) /\ Console # NoDev
    BY FileDescriptorsAssumption DEF TablesTyped
<1>2. Find(Console) = Console /\ FindDev(Console) = Console
    BY <1>1 DEF Find, FindDev
<1>3. Unused # {}
    <2>1. 3 \in Fds /\ fd_list[3].dev = NoDev
        BY FileDescriptorsAssumption DEF Fds, Streams, StartUp
    <2> QED
        BY <2>1 DEF Unused, OpenFds
<1>4. ~LockedByOther(Console, NextFd)
    <2>1. HighWater(NextFd) \in -1 .. MaxFd - 1
        BY <1>3, NextFdIsUnused, HighWaterType
    <2>2. 0 .. HighWater(NextFd) \subseteq Fds
        BY <2>1, FileDescriptorsAssumption DEF Fds
    <2> QED
        BY <2>2 DEF LockedByOther, Streams, StartUp
<1>5. Index(Console) = NextFd /\ ~(Index(Console) < 0)
    <2>1. NextFd \in Nat
        BY <1>3, NextFdIsUnused, FdsAreNat
    <2>2. Find(Console) # NoDev
        BY <1>1, <1>2, Zenon
    <2>3. Index(Console) = NextFd
        BY <1>3, <2>2, Zenon DEF Index
    <2> QED
        BY <2>1, <2>3
<1>6. OpenStatus(Console) = {0}
    BY <1>1, <1>2, <1>4, <1>5, FileDescriptorsAssumption DEF OpenStatus
<1> DEFINE state == Opened(Console, mode, {})
           opened == [fd_list EXCEPT ![NextFd] = state]
<1>7. OpenTable(Console, mode, {}, 0) = opened
    BY <1>2, <1>5, TakenType DEF OpenTable
<1>8. /\ fd_list' = Released([opened EXCEPT ![stream] = opened[NextFd]], NextFd)
      /\ Returns("open", NextFd)
    <2>1. PICK status \in OpenStatus(Console) :
            IF status < 0 THEN fd_list' = OpenTable(Console, mode, {}, status)
            ELSE /\ fd_list' = Released([OpenTable(Console, mode, {}, status) EXCEPT
                                        ![stream] = OpenTable(Console, mode, {}, status)[Index(Console)]],
                                      Index(Console))
                 /\ Returns("open", Index(Console))
        BY DEF Redirect
    <2>2. status = 0
        BY <1>6
    <2> HIDE DEF opened
    <2> QED
        BY <1>5, <1>7, <2>1, <2>2
<1>9. NextFd \in Fds /\ NextFd > 2 /\ fd_list[NextFd] = Free
    BY <1>3, NextFdIsNoStream DEF FreeAreBlank
<1>10. stream \in Fds /\ stream # NextFd
    BY <1>9, FdsAreNat
<1>11. fd_list \in [Fds -> Descriptor]
    BY DEF TablesTyped
<1>12. fd_list' = [fd_list EXCEPT ![stream] = state]
    <2> HIDE DEF state
    <2>1. opened[NextFd] = state
        BY <1>9, <1>11
    <2>2. fd_list' = [[opened EXCEPT ![stream] = state] EXCEPT ![NextFd] = Free]
        BY <1>8, <1>9, <2>1 DEF Released
    <2> QED
        BY <1>9, <1>10, <1>11, <2>2
<1>13. alt_max_fd' = HighWater(NextFd) /\ phase' = next
    BY <1>5 DEF Redirect, OpenMark
<1>14. last'.call = "open" => ~(last'.result < 0)
    BY <1>5, <1>8 DEF Returns
<1> QED
    BY <1>3, <1>12, <1>13, <1>14 DEF Redirects

LEMMA RedirectionsEffect ==
    ASSUME TablesTyped, Streams, FreeAreBlank, RedirectStdout \/ RedirectStdin \/ RedirectStderr
    PROVE  Effect /\ (last'.call = "open" => ~(last'.result < 0))
<1>1. 0 \in Stdio /\ 1 \in Stdio /\ 2 \in Stdio
    BY DEF Stdio
<1> QED
    BY <1>1, RedirectEffect DEF RedirectStdout, RedirectStdin, RedirectStderr, Effect

LEMMA NextEffect ==
    ASSUME TablesTyped, Streams, FreeAreBlank, Next
    PROVE  Effect
<1>1. CASE \E name \in Devices : phase \in {"register", "main"} /\ RegisterDevice(name)
    BY <1>1 DEF RegisterDevice, Effect, Untouched, RegistersConsole
<1>2. CASE RedirectStdout
    BY <1>2, RedirectionsEffect
<1>3. CASE RedirectStdin
    BY <1>3, RedirectionsEffect
<1>4. CASE RedirectStderr
    BY <1>4, RedirectionsEffect
<1>5. CASE Program
    <2> USE <1>5 DEF Program
    <2>1. CASE \E name \in Names, mode \in OpenModes, flags \in FlagArgs : Open(name, mode, flags)
        BY <2>1, OpenEffect
    <2>2. ASSUME NEW fd \in OpenFds,
                 \/ Read(fd) \/ Write(fd) \/ Lseek(fd) \/ Fstat(fd) \/ Isatty(fd) \/ FcntlOther(fd)
          PROVE  Effect
        BY <2>2 DEF Read, Write, Lseek, Fstat, Isatty, FcntlOther, NoTableChange, Effect, Untouched
    <2>3. ASSUME NEW fd \in OpenFds, Close(fd) PROVE Effect
        BY <2>3 DEF Close, Effect, Gives
    <2>4. ASSUME NEW fd \in OpenFds, NEW req \in {"TIOCEXCL", "TIOCNXCL", "other"}, Ioctl(fd, req)
          PROVE  Effect
        <3>1. CASE IsDevice(fd) /\ Lock(fd)
            BY <2>4, <3>1 DEF Ioctl, Lock, Effect, Untouched, Locks
        <3>2. CASE Unlock(fd)
            BY <2>4, <3>2 DEF Ioctl, Unlock, Effect, Unlocks
        <3>3. CASE DriverIoctl(fd)
            BY <2>4, <3>3 DEF Ioctl, DriverIoctl, Effect, Untouched
        <3> QED
            BY <2>4, <3>1, <3>2, <3>3 DEF Ioctl
    <2>5. ASSUME NEW fd \in OpenFds, NEW flags \in FlagArgs, SetFlags(fd, flags) PROVE Effect
        BY <2>5 DEF SetFlags, Effect, Reflags
    <2>6. CASE CallsOnFailedOpen
        BY <2>6 DEF CallsOnFailedOpen, NoTableChange, Effect, Untouched
    <2>7. ASSUME NEW name \in Names, Stat(name) PROVE Effect
        <3>1. alt_max_fd' = OpenMark(name) /\ UNCHANGED phase
            BY <2>7 DEF Stat
        <3> QED
            BY <2>7, <3>1, StatRestores, MarkEffect
    <2>8. CASE \E name \in FileSystems : RegisterFileSystem(name)
        BY <2>8 DEF RegisterFileSystem, Effect, Untouched
    <2> QED
        BY <2>1, <2>2, <2>3, <2>4, <2>5, <2>6, <2>7, <2>8
<1>6. CASE MainReturns
    BY <1>6 DEF MainReturns, Effect, Gives
<1>7. CASE Spins
    BY <1>7 DEF Spins, vars, Effect, Untouched
<1>8. CASE Restart
    BY <1>8 DEF Effect
<1> QED
    BY <1>1, <1>2, <1>3, <1>4, <1>5, <1>6, <1>7, <1>8 DEF Next

-----------------------------------------------------------------------------
(* The lists of devices and file systems. *)

LEMMA PrependType ==
    ASSUME NEW S, NEW list \in Seq(S), NEW name \in S
    PROVE  /\ <<name>> \o list \in Seq(S)
           /\ Contains(<<name>> \o list, name)
           /\ \A x : Contains(list, x) => Contains(<<name>> \o list, x)
<1> DEFINE first == <<name>>
           longer == first \o list
<1>1. first \in Seq(S) /\ Len(first) = 1 /\ first[1] = name
    OBVIOUS
<1>2. Len(list) \in Nat
    BY LenProperties
<1> HIDE DEF first
<1>3. /\ longer \in Seq(S) /\ Len(longer) = 1 + Len(list)
      /\ \A i \in 1 .. 1 + Len(list) : longer[i] = IF i <= 1 THEN first[1] ELSE list[i - 1]
    <2>1. /\ longer \in Seq(S) /\ Len(longer) = Len(first) + Len(list)
          /\ \A i \in 1 .. Len(first) + Len(list) :
                longer[i] = IF i <= Len(first) THEN first[i] ELSE list[i - Len(first)]
        BY <1>1, ConcatProperties
    <2> QED
        BY <1>1, <1>2, <2>1
<1>4. 1 \in 1 .. Len(longer) /\ longer[1] = name
    BY <1>1, <1>2, <1>3
<1>5. ASSUME NEW x, NEW k \in 1 .. Len(list), list[k] = x
      PROVE  k + 1 \in 1 .. Len(longer) /\ longer[k + 1] = x
    BY <1>2, <1>3, <1>5
<1> QED
    BY <1>3, <1>4, <1>5 DEF Contains, first

ListsTyped ==
    /\ dev_list \in Seq(Devices) /\ fs_list \in Seq(FileSystems)
    /\ phase # "register" => Contains(dev_list, Console)

LEMMA InitLists ==
    /\ <<Null>> \in Seq(Devices)
    /\ <<>> \in Seq(FileSystems)
BY FileDescriptorsAssumption

\* A start-up that has registered the console never loses it.
LEMMA ListsHold ==
    ASSUME TablesTyped, Next
    PROVE  ListsTyped'
<1> USE DEF TablesTyped, ListsTyped
<1>1. ASSUME NEW name \in Devices, phase \in {"register", "main"}, RegisterDevice(name)
      PROVE  ListsTyped'
    BY <1>1, PrependType DEF RegisterDevice
<1>2. CASE RedirectStdout
    BY <1>2 DEF RedirectStdout, Redirect
<1>3. CASE RedirectStdin
    BY <1>3 DEF RedirectStdin, Redirect
<1>4. CASE RedirectStderr
    BY <1>4 DEF RedirectStderr, Redirect
<1>5. CASE Program
    <2>1. ASSUME NEW name \in FileSystems, RegisterFileSystem(name) PROVE ListsTyped'
        BY <2>1, PrependType DEF RegisterFileSystem
    <2>2. CASE UNCHANGED <<phase, dev_list, fs_list>>
        BY <2>2
    <2> QED
        BY <1>5, <2>1, <2>2 DEF Program, Open, Close, Read, Write, Lseek, Fstat, Isatty, Ioctl, SetFlags,
                                FcntlOther, CallsOnFailedOpen, Stat, NoTableChange
<1>6. CASE MainReturns
    BY <1>6 DEF MainReturns
<1>7. CASE Spins
    BY <1>7 DEF Spins, vars
<1>8. CASE Restart
    BY <1>8, InitLists DEF Restart
<1> QED
    BY <1>1, <1>2, <1>3, <1>4, <1>5, <1>6, <1>7, <1>8 DEF Next

-----------------------------------------------------------------------------
(* The table, effect by effect. *)

\* The tables as they are loaded.
Loaded ==
    /\ phase = "register" /\ dev_list = <<Null>> /\ fs_list = <<>>
    /\ fd_list = [i \in Fds |-> IF i \in Stdio THEN [Free EXCEPT !.dev = Null] ELSE Free]
    /\ alt_max_fd = -1

LEMMA FreeType ==
    /\ Free \in Descriptor /\ Free.dev = NoDev /\ Free.flags = {}
    /\ [Free EXCEPT !.dev = Null] \in Descriptor
    /\ [Free EXCEPT !.dev = Null].dev = Null /\ [Free EXCEPT !.dev = Null].flags = {}
    /\ Null \in Devices /\ Console \in Devices /\ Null # NoDev /\ Console # NoDev /\ NoDev \notin Devices
BY FileDescriptorsAssumption DEF Free, Descriptor, Modes

LEMMA OpenedType ==
    ASSUME NEW dev \in Devices \cup FileSystems, NEW mode \in Modes, NEW flags \in FlagArgs \cup {{}}
    PROVE  /\ Opened(dev, mode, flags) \in Descriptor
           /\ Opened(dev, mode, flags).dev = dev /\ Opened(dev, mode, flags).mode = mode
           /\ dev # NoDev
           /\ ("DEV" \in Opened(dev, mode, flags).flags) <=> dev \in Devices
           /\ "EXCL" \notin Opened(dev, mode, flags).flags
<1>1. flags \subseteq UserFlags \cup PrivateFlags
    BY FileDescriptorsAssumption DEF UserFlags, PrivateFlags
<1>2. Opened(dev, mode, flags).flags \subseteq UserFlags \cup PrivateFlags
    BY <1>1 DEF Opened, PrivateFlags
<1>3. ("DEV" \in Opened(dev, mode, flags).flags) <=> dev \in Devices
    BY DEF Opened, PrivateFlags
<1>4. "EXCL" \notin Opened(dev, mode, flags).flags
    BY DEF Opened, PrivateFlags
<1> QED
    BY <1>2, <1>3, <1>4, FileDescriptorsAssumption DEF Opened, Descriptor

LEMMA LoadedInv == Loaded => TableInv
<1> SUFFICES ASSUME Loaded PROVE TableInv
    OBVIOUS
<1>1. \A i \in Fds : /\ fd_list[i] \in Descriptor /\ fd_list[i].flags = {}
                     /\ i > 2 => fd_list[i].dev = NoDev
                     /\ i \in Stdio => fd_list[i].dev = Null
    BY FreeType, FdsAreNat DEF Loaded
<1>2. TablesTyped
    <2>1. fd_list \in [Fds -> Descriptor]
        BY <1>1 DEF Loaded
    <2>2. -1 \in -1 .. MaxFd - 1
        BY FileDescriptorsAssumption
    <2> QED
        BY <2>1, <2>2, InitLists DEF Loaded, TablesTyped, Phases, StartUp
<1>3. Streams
    BY <1>1, FreeType, FdsAreNat DEF Loaded, Streams, StartUp
<1>4. BelowHighWater
    BY <1>1 DEF BelowHighWater, OpenFds
<1>5. FlagTells
    BY <1>1, FreeType DEF FlagTells
<1>6. Exclusive
    BY <1>1 DEF Exclusive
<1> QED
    BY <1>2, <1>3, <1>4, <1>5, <1>6 DEF TableInv

LEMMA InitTable == Init => TableInv
BY LoadedInv DEF Init, Loaded

LEMMA RestartTable == Restart => TableInv'
<1>1. Restart => Loaded'
    BY DEF Restart, Loaded
<1>2. Loaded' => TableInv'
    BY LoadedInv, PTL
<1> QED
    BY <1>1, <1>2

\* One descriptor is given another state; the others keep theirs.
Sets(fd, state) == fd_list' = [fd_list EXCEPT ![fd] = state]

LEMMA SetsType ==
    ASSUME TablesTyped, NEW fd \in Fds, NEW state \in Descriptor, Sets(fd, state)
    PROVE  /\ fd_list' \in [Fds -> Descriptor]
           /\ fd_list'[fd] = state
           /\ \A i \in Fds : i # fd => fd_list'[i] = fd_list[i]
BY DEF TablesTyped, Sets

LEMMA TypedTable == TablesTyped => \A i \in Fds : fd_list[i] \in Descriptor
BY DEF TablesTyped

LEMMA OpensTable ==
    ASSUME TableInv, NEW dev \in Devices \cup FileSystems, NEW mode \in Modes, NEW flags \in FlagArgs,
           Opens(dev, mode, flags), ListsTyped'
    PROVE  TableInv'
<1> DEFINE fd == NextFd
<1>1. fd \in Fds /\ fd > 2 /\ fd_list[fd].dev = NoDev
    BY NextFdIsNoStream DEF TableInv, Opens
<1>2. /\ fd_list' \in [Fds -> Descriptor]
      /\ fd_list'[fd].dev = dev /\ dev # NoDev
      /\ ("DEV" \in fd_list'[fd].flags) <=> dev \in Devices
      /\ "EXCL" \notin fd_list'[fd].flags
      /\ \A i \in Fds : i # fd => fd_list'[i] = fd_list[i]
    <2> DEFINE state == Opened(dev, mode, flags)
    <2>1. /\ state \in Descriptor /\ state.dev = dev /\ dev # NoDev
          /\ ("DEV" \in state.flags) <=> dev \in Devices
          /\ "EXCL" \notin state.flags
        BY OpenedType
    <2> HIDE DEF state
    <2>2. Sets(fd, state) /\ TablesTyped
        BY DEF Opens, Sets, state, TableInv
    <2>3. /\ fd_list' \in [Fds -> Descriptor] /\ fd_list'[fd] = state
          /\ \A i \in Fds : i # fd => fd_list'[i] = fd_list[i]
        BY <1>1, <2>1, <2>2, SetsType
    <2> QED
        BY <2>1, <2>3
<1>3. alt_max_fd' \in -1 .. MaxFd - 1 /\ alt_max_fd' >= alt_max_fd /\ alt_max_fd' >= fd
    BY <1>1, HighWaterType DEF TableInv, Opens
<1>4. phase = "main" /\ phase' = "main" /\ alt_max_fd \in Int /\ alt_max_fd' \in Int /\ Fds \subseteq Nat
    BY <1>3, FdsAreNat, FileDescriptorsAssumption DEF TableInv, TablesTyped, Opens
<1> HIDE DEF fd
<1>5. TablesTyped'
    BY <1>2, <1>3, <1>4 DEF TablesTyped, ListsTyped, Phases
<1>6. Streams'
    <2>1. \A i \in Stdio : i \in Fds /\ fd_list'[i] = fd_list[i]
        BY <1>1, <1>2, FdsAreNat
    <2>2. alt_max_fd' >= 3
        BY <1>3, <1>4 DEF TableInv, Streams
    <2> QED
        BY <1>4, <2>1, <2>2 DEF TableInv, Streams, StartUp, Stdio, OnConsole
<1>7. BelowHighWater'
    BY <1>2, <1>3, <1>4 DEF TableInv, BelowHighWater, OpenFds
<1>8. FlagTells'
    BY <1>2 DEF TableInv, FlagTells
<1>9. Exclusive'
    <2> SUFFICES ASSUME NEW i \in Fds, NEW j \in Fds, "EXCL" \in fd_list'[i].flags
                 PROVE  /\ fd_list'[i].dev \in Devices
                        /\ j # i /\ fd_list'[j].dev = fd_list'[i].dev =>
                               i < alt_max_fd' /\ "EXCL" \notin fd_list'[j].flags
        BY DEF Exclusive
    <2>1. i # fd /\ fd_list'[i] = fd_list[i] /\ fd_list[i].dev \in Devices
        BY <1>2 DEF TableInv, Exclusive
    <2>2. CASE j # fd
        BY <1>2, <1>3, <1>4, <2>1, <2>2 DEF TableInv, Exclusive
    <2>3. CASE j = fd /\ fd_list'[j].dev = fd_list'[i].dev
        <3>1. dev \in Devices /\ fd_list[i].dev = dev /\ "EXCL" \in fd_list[i].flags
            BY <1>2, <2>1, <2>3
        <3>2. i <= alt_max_fd
            <4>1. i \in OpenFds
                BY <2>1, FreeType DEF OpenFds
            <4>2. i > 2 => i <= alt_max_fd
                BY <4>1 DEF TableInv, BelowHighWater
            <4>3. alt_max_fd >= 3
                BY <1>4 DEF TableInv, Streams
            <4> QED
                BY <1>4, <4>2, <4>3
        <3>3. i \in 0 .. HighWater(NextFd)
            BY <1>3, <1>4, <3>2 DEF Opens
        <3>4. LockedByOther(dev, NextFd)
            BY <2>1, <3>1, <3>3 DEF LockedByOther, fd
        <3> QED
            BY <3>1, <3>4 DEF Opens
    <2> QED
        BY <2>1, <2>2, <2>3
<1> QED
    BY <1>5, <1>6, <1>7, <1>8, <1>9 DEF TableInv

\* A descriptor that is given back, or keeps its device and whose it is: the
\* streams are never given back.
Keeps(fd, state) ==
    /\ state \in Descriptor
    /\ \/ state.dev = NoDev /\ state.flags = {} /\ fd > 2
       \/ /\ state.dev = fd_list[fd].dev /\ state.mode = fd_list[fd].mode
          /\ ("DEV" \in state.flags) <=> ("DEV" \in fd_list[fd].flags)

LEMMA KeepsTable ==
    ASSUME TableInv, phase \in {"main", "exit"}, phase' \in {"main", "exit"}, alt_max_fd' = alt_max_fd, ListsTyped',
           NEW fd \in Fds, NEW state, Sets(fd, state), Keeps(fd, state)
    PROVE  TablesTyped' /\ Streams' /\ BelowHighWater' /\ FlagTells'
<1>1. /\ fd_list' \in [Fds -> Descriptor] /\ fd_list'[fd] = state
      /\ \A i \in Fds : i # fd => fd_list'[i] = fd_list[i]
    BY SetsType DEF TableInv, Keeps
<1>2. TablesTyped'
    BY <1>1 DEF TableInv, TablesTyped, ListsTyped, Phases
<1>3. Streams'
    <2>1. \A i \in Stdio : /\ i \in Fds /\ fd_list'[i].dev = fd_list[i].dev /\ fd_list'[i].mode = fd_list[i].mode
                           /\ ("DEV" \in fd_list'[i].flags) <=> ("DEV" \in fd_list[i].flags)
        BY <1>1, FdsAreNat DEF Keeps
    <2>2. 0 \in Stdio /\ 1 \in Stdio /\ 2 \in Stdio
        BY DEF Stdio
    <2>3. OnConsole(0, "RDONLY")' /\ OnConsole(1, "WRONLY")' /\ OnConsole(2, "WRONLY")'
        BY <2>1, <2>2 DEF TableInv, Streams, OnConsole
    <2> QED
        BY <2>1, <2>3 DEF TableInv, Streams, StartUp
<1>4. BelowHighWater'
    BY <1>1 DEF TableInv, BelowHighWater, OpenFds, Keeps
<1>5. FlagTells'
    BY <1>1, FreeType DEF TableInv, FlagTells, Keeps
<1> QED
    BY <1>2, <1>3, <1>4, <1>5

\* Without a new lock nothing becomes shared.
LEMMA KeepsExclusive ==
    ASSUME TableInv, alt_max_fd' = alt_max_fd, NEW fd \in Fds, NEW state, Sets(fd, state), Keeps(fd, state),
           "EXCL" \in state.flags => "EXCL" \in fd_list[fd].flags
    PROVE  Exclusive'
<1>1. /\ fd_list'[fd] = state
      /\ \A i \in Fds : i # fd => fd_list'[i] = fd_list[i]
    BY SetsType DEF TableInv, Keeps
<1>2. \A i \in Fds : /\ "EXCL" \in fd_list'[i].flags => "EXCL" \in fd_list[i].flags /\ fd_list'[i].dev = fd_list[i].dev
                     /\ fd_list'[i].dev \in {fd_list[i].dev, NoDev}
    BY <1>1 DEF Keeps
<1>3. \A i \in Fds : "EXCL" \in fd_list[i].flags => fd_list[i].dev \in Devices
    BY DEF TableInv, Exclusive
<1> QED
    BY <1>2, <1>3, FreeType DEF TableInv, Exclusive

LEMMA LocksTable ==
    ASSUME TableInv, NEW fd \in OpenFds, Locks(fd), ListsTyped'
    PROVE  TableInv'
<1> DEFINE state == [fd_list[fd] EXCEPT !.flags = @ \cup {"EXCL"}]
<1>1. fd \in Fds /\ fd_list[fd] \in Descriptor
    BY TypedTable DEF OpenFds, TableInv
<1>2. /\ state \in Descriptor /\ state.dev = fd_list[fd].dev /\ state.mode = fd_list[fd].mode
      /\ state.flags = fd_list[fd].flags \cup {"EXCL"}
    BY <1>1 DEF Descriptor, PrivateFlags
<1>3. Sets(fd, state)
    BY DEF Locks, Sets
<1> HIDE DEF state
<1>4. Keeps(fd, state)
    BY <1>2 DEF Keeps
<1>5. /\ fd_list'[fd] = state
      /\ \A i \in Fds : i # fd => fd_list'[i] = fd_list[i]
    BY <1>1, <1>2, <1>3, SetsType DEF TableInv
<1>6. phase = "main" /\ phase' = "main" /\ alt_max_fd' = alt_max_fd /\ ~SharedBelowWater(fd)
    BY DEF Locks
<1>7. fd_list[fd].dev \in Devices
    <2>1. "DEV" \in fd_list[fd].flags
        BY DEF Locks, IsDevice
    <2>2. CASE fd > 2
        BY <1>1, <2>1, <2>2 DEF TableInv, FlagTells
    <2>3. CASE fd \in Stdio
        <3>1. fd \in {0, 1, 2}
            BY <2>3 DEF Stdio
        <3> QED
            BY <1>6, <3>1, FreeType DEF TableInv, Streams, OnConsole
    <2> QED
        BY <1>1, <2>2, <2>3, FdsAreNat
<1>8. alt_max_fd \in Int /\ alt_max_fd >= 3 /\ \A i \in Fds : i \in Nat
    BY <1>6, FdsAreNat, FileDescriptorsAssumption DEF TableInv, TablesTyped, Streams
<1>9. \A i \in Fds : fd_list[i].dev = fd_list[fd].dev => i <= alt_max_fd
    <2> SUFFICES ASSUME NEW i \in Fds, fd_list[i].dev = fd_list[fd].dev PROVE i <= alt_max_fd
        OBVIOUS
    <2>1. i \in OpenFds
        BY <1>7, FreeType DEF OpenFds
    <2> QED
        BY <1>8, <2>1 DEF TableInv, BelowHighWater
<1>10. \A i \in Fds : i # fd /\ fd_list[i].dev = fd_list[fd].dev => i = alt_max_fd
    <2> SUFFICES ASSUME NEW i \in Fds, i # fd, fd_list[i].dev = fd_list[fd].dev PROVE i = alt_max_fd
        OBVIOUS
    <2>1. i \notin 0 .. alt_max_fd - 1
        BY <1>6 DEF SharedBelowWater
    <2> QED
        BY <1>8, <1>9, <2>1
<1>11. Exclusive'
    <2> SUFFICES ASSUME NEW i \in Fds, NEW j \in Fds, "EXCL" \in fd_list'[i].flags
                 PROVE  /\ fd_list'[i].dev \in Devices
                        /\ j # i /\ fd_list'[j].dev = fd_list'[i].dev =>
                               i < alt_max_fd' /\ "EXCL" \notin fd_list'[j].flags
        BY DEF Exclusive
    <2>1. \A k \in Fds : fd_list'[k].dev = fd_list[k].dev
        BY <1>2, <1>5
    <2>2. CASE i = fd
        <3>1. ASSUME j # i, fd_list[j].dev = fd_list[i].dev
              PROVE  i < alt_max_fd /\ "EXCL" \notin fd_list[j].flags
            <4>1. j = alt_max_fd
                BY <1>10, <2>2, <3>1
            <4>2. i < alt_max_fd
                BY <1>1, <1>8, <1>9, <2>2, <3>1, <4>1
            <4>3. "EXCL" \notin fd_list[j].flags
                BY <1>8, <3>1, <4>1 DEF TableInv, Exclusive
            <4> QED
                BY <4>2, <4>3
        <3> QED
            BY <1>5, <1>6, <1>7, <2>1, <2>2, <3>1
    <2>3. CASE i # fd
        <3>1. "EXCL" \in fd_list[i].flags
            BY <1>5, <2>3
        <3>2. fd_list[i].dev # fd_list[fd].dev
            BY <1>1, <1>8, <1>10, <2>3, <3>1 DEF TableInv, Exclusive
        <3> QED
            BY <1>5, <1>6, <2>1, <2>3, <3>1, <3>2 DEF TableInv, Exclusive
    <2> QED
        BY <2>2, <2>3
<1> QED
    BY <1>1, <1>3, <1>4, <1>6, <1>11, KeepsTable DEF TableInv

LEMMA GivesTable ==
    ASSUME TableInv, NEW fd \in Fds, Gives(fd), ListsTyped'
    PROVE  TableInv'
<1> DEFINE state == IF fd > 2 THEN Free ELSE fd_list[fd]
<1>1. fd_list[fd] \in Descriptor /\ fd_list \in [Fds -> Descriptor]
    BY TypedTable DEF TableInv, TablesTyped
<1>2. Keeps(fd, state)
    BY <1>1, FreeType DEF Keeps
<1>3. Sets(fd, state)
    BY <1>1 DEF Gives, Released, Sets
<1>4. "EXCL" \in state.flags => "EXCL" \in fd_list[fd].flags
    BY FreeType
<1>5. phase = "main" /\ phase' \in {"main", "exit"} /\ alt_max_fd' = alt_max_fd
    BY DEF Gives
<1> HIDE DEF state
<1> QED
    BY <1>2, <1>3, <1>4, <1>5, KeepsTable, KeepsExclusive DEF TableInv

LEMMA UnlocksTable ==
    ASSUME TableInv, NEW fd \in Fds, Unlocks(fd), ListsTyped'
    PROVE  TableInv'
<1> DEFINE state == [fd_list[fd] EXCEPT !.flags = @ \ {"EXCL"}]
<1>1. fd_list[fd] \in Descriptor
    BY TypedTable DEF TableInv
<1>2. /\ state \in Descriptor /\ state.dev = fd_list[fd].dev /\ state.mode = fd_list[fd].mode
      /\ state.flags = fd_list[fd].flags \ {"EXCL"}
    BY <1>1 DEF Descriptor
<1>3. Sets(fd, state) /\ phase = "main" /\ phase' = "main" /\ alt_max_fd' = alt_max_fd
    BY DEF Unlocks, Sets
<1> HIDE DEF state
<1>4. Keeps(fd, state)
    BY <1>2 DEF Keeps
<1> QED
    BY <1>2, <1>3, <1>4, KeepsTable, KeepsExclusive DEF TableInv

LEMMA ReflagsTable ==
    ASSUME TableInv, NEW fd \in Fds, NEW flags \in FlagArgs, Reflags(fd, flags), ListsTyped'
    PROVE  TableInv'
<1> DEFINE state == [fd_list[fd] EXCEPT !.flags = (@ \ UserFlags) \cup (flags \cap UserFlags)]
<1>1. fd_list[fd] \in Descriptor
    BY TypedTable DEF TableInv
<1>2. /\ state \in Descriptor /\ state.dev = fd_list[fd].dev /\ state.mode = fd_list[fd].mode
      /\ state.flags = (fd_list[fd].flags \ UserFlags) \cup (flags \cap UserFlags)
    BY <1>1 DEF Descriptor
<1>3. Sets(fd, state) /\ phase = "main" /\ phase' = "main" /\ alt_max_fd' = alt_max_fd
    BY DEF Reflags, Sets
<1> HIDE DEF state
<1>4. \A f \in PrivateFlags : f \in state.flags <=> f \in fd_list[fd].flags
    BY <1>2 DEF UserFlags, PrivateFlags
<1>5. Keeps(fd, state) /\ ("EXCL" \in state.flags => "EXCL" \in fd_list[fd].flags)
    BY <1>2, <1>4 DEF Keeps, PrivateFlags
<1> QED
    BY <1>3, <1>5, KeepsTable, KeepsExclusive DEF TableInv

\* What redirecting a stream leaves: nothing but the streams is open.
RedirectedTable(stream, mode) ==
    /\ fd_list' \in [Fds -> Descriptor]
    /\ fd_list'[stream].dev = Console /\ fd_list'[stream].mode = mode /\ "DEV" \in fd_list'[stream].flags
    /\ \A i \in Fds : i # stream => fd_list'[i] = fd_list[i]
    /\ \A i \in Fds : (i > 2 => fd_list'[i].dev = NoDev /\ "DEV" \notin fd_list'[i].flags)
                      /\ "EXCL" \notin fd_list'[i].flags
    /\ \A i \in Stdio : fd_list'[i].dev # NoDev
    /\ alt_max_fd' \in -1 .. MaxFd - 1 /\ alt_max_fd' >= 3
    /\ NoDev \notin Devices

LEMMA RedirectsTable ==
    ASSUME TableInv, NEW stream \in Stdio, NEW mode \in Modes, phase \in StartUp, Redirects(stream, mode)
    PROVE  RedirectedTable(stream, mode)
<1> DEFINE state == Opened(Console, mode, {})
<1>1. /\ state \in Descriptor /\ state.dev = Console /\ state.mode = mode
      /\ "DEV" \in state.flags /\ "EXCL" \notin state.flags
    BY OpenedType, FreeType
<1>2. Sets(stream, state) /\ TablesTyped /\ stream \in Fds
    BY FdsAreNat DEF Redirects, Sets, TableInv
<1> HIDE DEF state
<1>3. /\ fd_list' \in [Fds -> Descriptor] /\ fd_list'[stream] = state
      /\ \A i \in Fds : i # stream => fd_list'[i] = fd_list[i]
    BY <1>1, <1>2, SetsType
<1>4. \A i \in Fds : /\ i > 2 => fd_list[i].dev = NoDev /\ "DEV" \notin fd_list[i].flags
                     /\ "EXCL" \notin fd_list[i].flags
    BY FreeType DEF TableInv, Streams, FlagTells
<1>5. NextFd \in Fds /\ NextFd > 2
    BY NextFdIsNoStream DEF TableInv, Redirects
<1>6. alt_max_fd' \in -1 .. MaxFd - 1 /\ alt_max_fd' >= NextFd
    BY <1>5, HighWaterType DEF TableInv, Redirects
<1>7. alt_max_fd' >= 3
    BY <1>5, <1>6, FileDescriptorsAssumption DEF Fds
<1>8. \A i \in Fds : /\ i > 2 => i # stream
                     /\ i > 2 => fd_list'[i].dev = NoDev /\ "DEV" \notin fd_list'[i].flags
                     /\ "EXCL" \notin fd_list'[i].flags
    BY <1>1, <1>3, <1>4, FdsAreNat
<1>9. \A i \in Stdio : fd_list'[i].dev # NoDev
    BY <1>1, <1>3, FdsAreNat, FreeType DEF TableInv, Streams
<1> QED
    BY <1>1, <1>3, <1>6, <1>7, <1>8, <1>9, FreeType DEF RedirectedTable

LEMMA StdoutTable ==
    ASSUME TableInv, phase = "stdout", phase' = "stdin", Redirects(1, "WRONLY"), ListsTyped'
    PROVE  TableInv'
<1>1. 1 \in Fds /\ 1 \in Stdio /\ phase \in StartUp /\ "WRONLY" \in Modes
    BY FileDescriptorsAssumption DEF Fds, Stdio, StartUp, Modes
<1>2. RedirectedTable(1, "WRONLY")
    BY <1>1, RedirectsTable
<1>3. 0 \in Stdio /\ 1 \in Stdio /\ 2 \in Stdio /\ Stdio \subseteq Fds /\ Fds \subseteq Nat
    BY FdsAreNat DEF Stdio
<1>4. TablesTyped'
    BY <1>2 DEF RedirectedTable, TableInv, TablesTyped, ListsTyped, Phases, StartUp
<1>5. Streams'
    BY <1>2, <1>3 DEF RedirectedTable, TableInv, Streams, OnConsole, StartUp
<1>6. BelowHighWater'
    BY <1>2, <1>3 DEF RedirectedTable, BelowHighWater, OpenFds
<1>7. FlagTells'
    BY <1>2 DEF RedirectedTable, FlagTells
<1>8. Exclusive'
    BY <1>2 DEF RedirectedTable, Exclusive
<1> QED
    BY <1>4, <1>5, <1>6, <1>7, <1>8 DEF TableInv

LEMMA StdinTable ==
    ASSUME TableInv, phase = "stdin", phase' = "stderr", Redirects(0, "RDONLY"), ListsTyped'
    PROVE  TableInv'
<1>1. 0 \in Fds /\ 0 \in Stdio /\ phase \in StartUp /\ "RDONLY" \in Modes
    BY FileDescriptorsAssumption DEF Fds, Stdio, StartUp, Modes
<1>2. RedirectedTable(0, "RDONLY")
    BY <1>1, RedirectsTable
<1>3. 0 \in Stdio /\ 1 \in Stdio /\ 2 \in Stdio /\ Stdio \subseteq Fds /\ Fds \subseteq Nat
    BY FdsAreNat DEF Stdio
<1>4. TablesTyped'
    BY <1>2 DEF RedirectedTable, TableInv, TablesTyped, ListsTyped, Phases, StartUp
<1>5. Streams'
    BY <1>2, <1>3 DEF RedirectedTable, TableInv, Streams, OnConsole, StartUp
<1>6. BelowHighWater'
    BY <1>2, <1>3 DEF RedirectedTable, BelowHighWater, OpenFds
<1>7. FlagTells'
    BY <1>2 DEF RedirectedTable, FlagTells
<1>8. Exclusive'
    BY <1>2 DEF RedirectedTable, Exclusive
<1> QED
    BY <1>4, <1>5, <1>6, <1>7, <1>8 DEF TableInv

LEMMA StderrTable ==
    ASSUME TableInv, phase = "stderr", phase' = "main", Redirects(2, "WRONLY"), ListsTyped'
    PROVE  TableInv'
<1>1. 2 \in Fds /\ 2 \in Stdio /\ phase \in StartUp /\ "WRONLY" \in Modes
    BY FileDescriptorsAssumption DEF Fds, Stdio, StartUp, Modes
<1>2. RedirectedTable(2, "WRONLY")
    BY <1>1, RedirectsTable
<1>3. 0 \in Stdio /\ 1 \in Stdio /\ 2 \in Stdio /\ Stdio \subseteq Fds /\ Fds \subseteq Nat
    BY FdsAreNat DEF Stdio
<1>4. TablesTyped'
    BY <1>2 DEF RedirectedTable, TableInv, TablesTyped, ListsTyped, Phases, StartUp
<1>5. Streams'
    BY <1>2, <1>3 DEF RedirectedTable, TableInv, Streams, OnConsole, StartUp
<1>6. BelowHighWater'
    BY <1>2, <1>3 DEF RedirectedTable, BelowHighWater, OpenFds
<1>7. FlagTells'
    BY <1>2 DEF RedirectedTable, FlagTells
<1>8. Exclusive'
    BY <1>2 DEF RedirectedTable, Exclusive
<1> QED
    BY <1>4, <1>5, <1>6, <1>7, <1>8 DEF TableInv

LEMMA MarksTable ==
    ASSUME TableInv, Marks, ListsTyped'
    PROVE  TableInv'
<1>1. alt_max_fd' \in -1 .. MaxFd - 1 /\ alt_max_fd' >= alt_max_fd /\ alt_max_fd \in Int /\ Fds \subseteq Nat
    <2>1. TablesTyped /\ NextFd \in Fds /\ alt_max_fd' = HighWater(NextFd)
        BY NextFdIsUnused DEF TableInv, Marks
    <2>2. alt_max_fd \in Int
        BY <2>1, FileDescriptorsAssumption DEF TablesTyped
    <2> QED
        BY <2>1, <2>2, HighWaterType, FdsAreNat
<1>2. phase' = phase /\ fd_list' = fd_list
    BY DEF Marks
<1>3. TablesTyped'
    BY <1>1, <1>2 DEF TableInv, TablesTyped, ListsTyped
<1>4. Streams'
    BY <1>1, <1>2 DEF TableInv, Streams, OnConsole
<1>5. BelowHighWater'
    BY <1>1, <1>2 DEF TableInv, BelowHighWater, OpenFds
<1>6. FlagTells'
    BY <1>2 DEF TableInv, FlagTells
<1>7. Exclusive'
    BY <1>1, <1>2 DEF TableInv, Exclusive
<1> QED
    BY <1>3, <1>4, <1>5, <1>6, <1>7 DEF TableInv

LEMMA SameTable ==
    ASSUME TableInv, ListsTyped', Untouched \/ RegistersConsole
    PROVE  TableInv'
<1>1. fd_list' = fd_list /\ alt_max_fd' = alt_max_fd
    BY DEF Untouched, RegistersConsole
<1>2. phase' = phase \/ (phase = "register" /\ phase' = "stdout")
    BY DEF Untouched, RegistersConsole
<1>3. TablesTyped'
    BY <1>1, <1>2 DEF TableInv, TablesTyped, ListsTyped, Phases, StartUp
<1>4. Streams'
    BY <1>1, <1>2 DEF TableInv, Streams, OnConsole, StartUp
<1>5. BelowHighWater' /\ FlagTells' /\ Exclusive'
    BY <1>1 DEF TableInv, BelowHighWater, OpenFds, FlagTells, Exclusive
<1> QED
    BY <1>3, <1>4, <1>5 DEF TableInv

LEMMA TableHolds == TableInv /\ FreeAreBlank /\ Next => TableInv'
<1> SUFFICES ASSUME TableInv, FreeAreBlank, Next PROVE TableInv'
    OBVIOUS
<1>1. Effect /\ ListsTyped'
    BY NextEffect, ListsHold DEF TableInv
<1>2. CASE Untouched \/ RegistersConsole
    BY <1>1, <1>2, SameTable
<1>3. CASE Marks
    BY <1>1, <1>3, MarksTable
<1>4. ASSUME NEW dev \in Devices \cup FileSystems, NEW mode \in Modes, NEW flags \in FlagArgs,
             Opens(dev, mode, flags)
      PROVE  TableInv'
    BY <1>1, <1>4, OpensTable
<1>5. ASSUME NEW fd \in Fds, Gives(fd) PROVE TableInv'
    BY <1>1, <1>5, GivesTable
<1>6. ASSUME NEW fd \in OpenFds, Locks(fd) PROVE TableInv'
    BY <1>1, <1>6, LocksTable
<1>7. ASSUME NEW fd \in Fds, Unlocks(fd) PROVE TableInv'
    BY <1>1, <1>7, UnlocksTable
<1>8. ASSUME NEW fd \in Fds, NEW flags \in FlagArgs, Reflags(fd, flags) PROVE TableInv'
    BY <1>1, <1>8, ReflagsTable
<1>9. CASE phase = "stdout" /\ phase' = "stdin" /\ Redirects(1, "WRONLY")
    BY <1>1, <1>9, StdoutTable
<1>10. CASE phase = "stdin" /\ phase' = "stderr" /\ Redirects(0, "RDONLY")
    BY <1>1, <1>10, StdinTable
<1>11. CASE phase = "stderr" /\ phase' = "main" /\ Redirects(2, "WRONLY")
    BY <1>1, <1>11, StderrTable
<1>12. CASE Restart
    BY <1>12, RestartTable
<1>13. OpenFds \subseteq Fds /\ 1 \in Fds
    BY FileDescriptorsAssumption DEF OpenFds, Fds
<1> QED
    BY <1>1, <1>2, <1>3, <1>4, <1>5, <1>6, <1>7, <1>8, <1>9, <1>10, <1>11, <1>12, <1>13 DEF Effect

LEMMA TableStutter == TableInv /\ UNCHANGED vars => TableInv'
BY DEF TableInv, TablesTyped, Streams, OnConsole, BelowHighWater, OpenFds, FlagTells, Exclusive, vars

-----------------------------------------------------------------------------
(* Free entries. *)

LEMMA InitBlank == Init => FreeAreBlank
BY FreeType DEF Init, FreeAreBlank

LEMMA BlankHolds ==
    ASSUME TableInv, FreeAreBlank, Effect
    PROVE  FreeAreBlank'
<1>1. SUFFICES ASSUME NEW i \in Fds, fd_list'[i].dev = NoDev PROVE fd_list'[i] = Free
    BY DEF FreeAreBlank
<1>2. TablesTyped /\ Streams
    BY DEF TableInv
<1>3. CASE fd_list' = fd_list
    BY <1>1, <1>3 DEF FreeAreBlank
<1>4. ASSUME NEW d \in Devices \cup FileSystems, NEW mode \in Modes, NEW flags \in FlagArgs,
             Opens(d, mode, flags)
      PROVE  fd_list'[i] = Free
    <2>1. NextFd \in Fds
        BY <1>2, <1>4, NextFdIsNoStream DEF Opens
    <2>2. Opened(d, mode, flags) \in Descriptor /\ Opened(d, mode, flags).dev # NoDev
        BY OpenedType
    <2>3. /\ fd_list'[NextFd].dev # NoDev
          /\ \A k \in Fds : k # NextFd => fd_list'[k] = fd_list[k]
        BY <1>2, <1>4, <2>1, <2>2, SetsType DEF Opens, Sets
    <2> QED
        BY <1>1, <2>3 DEF FreeAreBlank
<1>5. ASSUME NEW fd \in Fds, Gives(fd) PROVE fd_list'[i] = Free
    BY <1>1, <1>2, <1>5 DEF Gives, Released, TablesTyped, FreeAreBlank
<1>6. ASSUME NEW fd \in OpenFds, NEW flags, fd_list' = [fd_list EXCEPT ![fd].flags = flags]
      PROVE  fd_list'[i] = Free
    <2>1. \A k \in Fds : fd_list[k] \in Descriptor
        BY <1>2, TypedTable
    <2>2. fd \in Fds /\ fd_list[fd].dev # NoDev
        BY DEF OpenFds
    <2>3. i # fd
        BY <1>1, <1>2, <1>6, <2>1, <2>2 DEF TablesTyped, Descriptor
    <2> QED
        BY <1>1, <1>2, <1>6, <2>3 DEF TablesTyped, FreeAreBlank
<1>7. ASSUME NEW fd \in OpenFds, Locks(fd) \/ Unlocks(fd) \/ \E flags \in FlagArgs : Reflags(fd, flags)
      PROVE  fd_list'[i] = Free
    BY <1>6, <1>7 DEF Locks, Unlocks, Reflags
<1>8. ASSUME NEW stream \in Stdio, NEW mode \in Modes, Redirects(stream, mode)
      PROVE  fd_list'[i] = Free
    <2>1. stream \in Fds
        BY FdsAreNat
    <2>2. Opened(Console, mode, {}) \in Descriptor /\ Opened(Console, mode, {}).dev # NoDev
        BY OpenedType, FreeType
    <2>3. /\ fd_list'[stream].dev # NoDev
          /\ \A k \in Fds : k # stream => fd_list'[k] = fd_list[k]
        BY <1>2, <1>8, <2>1, <2>2, SetsType DEF Redirects, Sets
    <2> QED
        BY <1>1, <2>3 DEF FreeAreBlank
<1>9. CASE Restart
    BY <1>1, <1>9, FreeType DEF Restart
<1>10. OpenFds \subseteq Fds /\ 1 \in Fds /\ {0, 1, 2} = Stdio /\ {"WRONLY", "RDONLY"} \subseteq Modes
    BY FileDescriptorsAssumption DEF OpenFds, Fds, Stdio, Modes
<1> QED
    BY <1>3, <1>4, <1>5, <1>7, <1>8, <1>9, <1>10 DEF Effect, Untouched, Marks, RegistersConsole

-----------------------------------------------------------------------------
(* The theorems. *)

\* The invariant holds through start-up, every sequence of calls and resets,
\* and a descriptor that is free holds nothing of an earlier use.
THEOREM TableTheorem == Spec => [](TableInv /\ FreeAreBlank)
<1>1. TableInv /\ FreeAreBlank /\ Next => (TableInv /\ FreeAreBlank)'
    BY TableHolds, NextEffect, BlankHolds DEF TableInv
<1>2. TableInv /\ FreeAreBlank /\ UNCHANGED vars => (TableInv /\ FreeAreBlank)'
    BY TableStutter DEF FreeAreBlank, vars
<1> QED
    BY <1>1, <1>2, InitTable, InitBlank, PTL DEF Spec

\* Whatever the program opens and closes, every descriptor it holds lies at or
\* below the water mark, which bounds the searches for other users.
THEOREM HighWaterTheorem == Spec => []BelowHighWater
<1>1. TableInv => BelowHighWater
    BY DEF TableInv
<1> QED
    BY <1>1, TableTheorem, PTL

\* The standard streams are on the console, each in its direction, from the
\* end of start-up on.
THEOREM StdioTheorem == Spec => []StdioStaysOnConsole
<1>1. TableInv => StdioStaysOnConsole
    <2> SUFFICES ASSUME TableInv, phase \in {"main", "exit"}
                 PROVE  /\ \A i \in Stdio : fd_list[i].dev = Console
                        /\ fd_list[0].mode = "RDONLY"
                        /\ fd_list[1].mode = "WRONLY" /\ fd_list[2].mode = "WRONLY"
        BY DEF StdioStaysOnConsole
    <2>1. OnConsole(0, "RDONLY") /\ OnConsole(1, "WRONLY") /\ OnConsole(2, "WRONLY")
        BY DEF TableInv, Streams
    <2>2. Stdio = {0, 1, 2}
        BY DEF Stdio
    <2> QED
        BY <2>1, <2>2 DEF OnConsole
<1> QED
    BY <1>1, TableTheorem, PTL

\* ALT_FD_DEV tells the descriptors of devices from those of file systems.
THEOREM DeviceFlagTheorem == Spec => []DeviceFlagTells
<1>1. TableInv => DeviceFlagTells
    <2> SUFFICES ASSUME TableInv, phase \in {"main", "exit"}, NEW i \in Fds
                 PROVE  ("DEV" \in fd_list[i].flags) <=> (fd_list[i].dev \in Devices)
        BY DEF DeviceFlagTells
    <2>1. CASE i > 2
        BY <2>1 DEF TableInv, FlagTells
    <2>2. CASE i \in {0, 1, 2}
        BY <2>2, FreeType DEF TableInv, Streams, OnConsole
    <2> QED
        BY <2>1, <2>2, FdsAreNat DEF Stdio
<1> QED
    BY <1>1, TableTheorem, PTL

\* Two descriptors never hold a device for themselves, although a lock is
\* granted without looking at the descriptor at the water mark.
THEOREM OneHolderTheorem == Spec => []OneHolder
<1>1. TableInv => OneHolder
    <2> SUFFICES ASSUME TableInv, NEW dev \in Devices PROVE Cardinality(Holders(dev)) <= 1
        BY DEF OneHolder
    <2>1. \A i, j \in Holders(dev) : i = j
        BY DEF TableInv, Exclusive, Holders
    <2>2. CASE Holders(dev) = {}
        BY <2>2, FS_EmptySet
    <2>3. CASE \E i : Holders(dev) = {i}
        <3>1. PICK i : Holders(dev) = {i}
            BY <2>3
        <3>2. Cardinality({i}) = 1
            BY FS_Singleton
        <3> QED
            BY <3>1, <3>2
    <2> QED
        BY <2>1, <2>2, <2>3
<1> QED
    BY <1>1, TableTheorem, PTL

-----------------------------------------------------------------------------
(* What a step may not do. *)

LEMMA EffectKeepsOthersOut ==
    ASSUME TableInv, Effect, phase' # "register", NEW dev \in Devices, Holders(dev) # {}
    PROVE  Users(dev)' \subseteq Users(dev)
<1>1. PICK h \in Fds : fd_list[h].dev = dev /\ "EXCL" \in fd_list[h].flags
    BY DEF Holders
<1>2. phase \notin StartUp
    BY <1>1 DEF TableInv, Streams
<1>3. SUFFICES ASSUME NEW i \in Fds, fd_list'[i].dev = dev PROVE fd_list[i].dev = dev
    BY DEF Users
<1>4. dev # NoDev
    BY FreeType
<1>5. CASE fd_list' = fd_list
    BY <1>3, <1>5
<1>6. ASSUME NEW d \in Devices \cup FileSystems, NEW mode \in Modes, NEW flags \in FlagArgs,
             Opens(d, mode, flags)
      PROVE  fd_list[i].dev = dev
    <2>1. NextFd \in Fds /\ fd_list[NextFd].dev = NoDev /\ TablesTyped
        BY <1>6, NextFdIsNoStream DEF TableInv, Opens
    <2>2. Opened(d, mode, flags) \in Descriptor /\ Opened(d, mode, flags).dev = d
        BY OpenedType
    <2>3. /\ fd_list'[NextFd].dev = d
          /\ \A k \in Fds : k # NextFd => fd_list'[k] = fd_list[k]
        BY <1>6, <2>1, <2>2, SetsType DEF Opens, Sets
    <2>4. d = dev => LockedByOther(dev, NextFd)
        <3>1. h # NextFd
            BY <1>1, <1>4, <2>1
        <3>2. h \in OpenFds
            BY <1>1, <1>4 DEF OpenFds
        <3>3. h <= alt_max_fd /\ alt_max_fd \in Int /\ h \in Nat
            <4>1. h \in Nat /\ alt_max_fd \in Int
                BY <2>1, FdsAreNat, FileDescriptorsAssumption DEF TablesTyped
            <4>2. h > 2 => h <= alt_max_fd
                BY <3>2 DEF TableInv, BelowHighWater
            <4>3. alt_max_fd >= 3
                BY <1>6 DEF TableInv, Streams, Opens
            <4> QED
                BY <4>1, <4>2, <4>3
        <3>4. HighWater(NextFd) >= alt_max_fd /\ HighWater(NextFd) \in Int
            BY <2>1, HighWaterType, FileDescriptorsAssumption
        <3>5. h \in 0 .. HighWater(NextFd)
            BY <3>3, <3>4
        <3> QED
            BY <1>1, <3>1, <3>5 DEF LockedByOther
    <2>5. d # dev
        BY <1>6, <2>4 DEF Opens
    <2> QED
        BY <1>3, <2>3, <2>5
<1>7. ASSUME NEW fd \in Fds, Gives(fd) PROVE fd_list[i].dev = dev
    BY <1>3, <1>4, <1>7, FreeType DEF Gives, Released, TableInv, TablesTyped
<1>8. ASSUME NEW fd \in Fds, NEW flags, fd_list' = [fd_list EXCEPT ![fd].flags = flags]
      PROVE  fd_list[i].dev = dev
    <2>1. \A k \in Fds : fd_list[k] \in Descriptor
        BY TypedTable DEF TableInv
    <2> QED
        BY <1>3, <1>8, <2>1 DEF TableInv, TablesTyped, Descriptor
<1>9. OpenFds \subseteq Fds /\ 1 \in Fds
    BY FileDescriptorsAssumption DEF OpenFds, Fds
<1>10. ~Restart /\ ~RegistersConsole /\ phase \notin {"stdout", "stdin", "stderr"}
    BY <1>2 DEF Restart, RegistersConsole, StartUp
<1>11. ASSUME NEW fd \in OpenFds, Locks(fd) \/ Unlocks(fd) \/ \E flags \in FlagArgs : Reflags(fd, flags)
       PROVE  fd_list[i].dev = dev
    BY <1>8, <1>9, <1>11 DEF Locks, Unlocks, Reflags
<1> QED
    BY <1>5, <1>6, <1>7, <1>9, <1>10, <1>11 DEF Effect, Untouched, Marks

\* While somebody holds a device nobody else gets to it.
THEOREM LockTheorem == Spec => LockKeepsOthersOut
<1>1. ASSUME TableInv, FreeAreBlank, [Next]_vars
      PROVE  phase' = "register" \/ \A dev \in Devices : Holders(dev) # {} => Users(dev)' \subseteq Users(dev)
    <2>1. CASE Next
        BY <1>1, <2>1, NextEffect, EffectKeepsOthersOut DEF TableInv
    <2>2. CASE UNCHANGED vars
        BY <2>2 DEF vars, Users
    <2> QED
        BY <1>1, <2>1, <2>2
<1> QED
    BY <1>1, TableTheorem, PTL DEF Spec, LockKeepsOthersOut

\* Every call but open, stat and the redirections ends under another name.
LEMMA OtherCalls ==
    ASSUME Next,
           ~(\E name \in Names, mode \in OpenModes, flags \in FlagArgs : Open(name, mode, flags)),
           ~(\E name \in Names : Stat(name)),
           ~RedirectStdout, ~RedirectStdin, ~RedirectStderr, ~Spins
    PROVE  last'.call \notin {"open", "stat"}
<1> USE DEF Returns, Fails, FailsWith, CallMethod
<1>1. CASE \E name \in Devices : phase \in {"register", "main"} /\ RegisterDevice(name)
    BY <1>1 DEF RegisterDevice
<1>2. CASE Program
    <2>1. ASSUME NEW fd \in OpenFds,
                 \/ Close(fd) \/ Read(fd) \/ Write(fd) \/ Lseek(fd) \/ Fstat(fd) \/ Isatty(fd)
                 \/ FcntlOther(fd)
          PROVE  last'.call \notin {"open", "stat"}
        BY <2>1 DEF Close, Read, Write, Lseek, Fstat, Isatty, FcntlOther
    <2>2. ASSUME NEW fd \in OpenFds, NEW req \in {"TIOCEXCL", "TIOCNXCL", "other"}, Ioctl(fd, req)
          PROVE  last'.call \notin {"open", "stat"}
        BY <2>2 DEF Ioctl, Lock, Unlock, DriverIoctl
    <2>3. ASSUME NEW fd \in OpenFds, NEW flags \in FlagArgs, SetFlags(fd, flags)
          PROVE  last'.call \notin {"open", "stat"}
        BY <2>3 DEF SetFlags
    <2>4. CASE CallsOnFailedOpen
        BY <2>4 DEF CallsOnFailedOpen
    <2>5. CASE \E name \in FileSystems : RegisterFileSystem(name)
        BY <2>5 DEF RegisterFileSystem
    <2> QED
        BY <1>2, <2>1, <2>2, <2>3, <2>4, <2>5 DEF Program
<1>3. CASE MainReturns
    BY <1>3 DEF MainReturns
<1>4. CASE Restart
    BY <1>4 DEF Restart
<1> QED
    BY <1>1, <1>2, <1>3, <1>4 DEF Next

LEMMA FailureLeavesTable ==
    ASSUME TableInv, FreeAreBlank, Next, (last'.call = "open" /\ last'.result < 0) \/ last'.call = "stat"
    PROVE  fd_list' = fd_list
<1>1. TablesTyped /\ Streams
    BY DEF TableInv
<1>2. ASSUME NEW name, NEW mode, NEW flags, Open(name, mode, flags)
      PROVE  fd_list' = fd_list
    <2>1. PICK status \in OpenStatus(name) :
              /\ fd_list' = OpenTable(name, mode, flags, status)
              /\ IF status < 0 THEN Fails("open", -status) ELSE Returns("open", Index(name))
        BY <1>2 DEF Open
    <2>2. CASE status < 0
        BY <1>1, <2>1, <2>2, FailedOpenRestores
    <2>3. CASE ~(status < 0)
        <3>1. ~(Index(name) < 0)
            BY <2>1, <2>3, IndexType
        <3>2. last'.call = "open" /\ last'.result = Index(name)
            BY <2>1, <2>3 DEF Returns
        <3> QED
            BY <3>1, <3>2
    <2> QED
        BY <2>2, <2>3
<1>3. ASSUME NEW name, Stat(name) PROVE fd_list' = fd_list
    BY <1>1, <1>3, StatRestores
<1>4. CASE RedirectStdout \/ RedirectStdin \/ RedirectStderr
    <2>1. ASSUME NEW stream, NEW mode, NEW next, Redirect(stream, mode, next)
          PROVE  last'.call = "open"
        BY <2>1 DEF Redirect, Returns, Fails, FailsWith
    <2>2. last'.call = "open"
        BY <1>4, <2>1 DEF RedirectStdout, RedirectStdin, RedirectStderr
    <2> QED
        BY <1>1, <1>4, <2>2, RedirectionsEffect
<1>5. CASE Spins
    BY <1>5 DEF Spins, vars
<1> QED
    BY <1>2, <1>3, <1>4, <1>5, OtherCalls

\* An open that fails, for whatever reason and at whatever moment, and a stat
\* give their descriptor back through alt_release_fd as they found it, and leave
\* every other as it was.  It rests on the streams never being free, so that the
\* descriptor taken is one that is released, and on free entries being blank.
THEOREM FailedOpenTheorem == Spec => FailedOpenLeavesNoTrace
<1>1. ASSUME TableInv, FreeAreBlank, [Next]_vars
      PROVE  (last'.call = "open" /\ last'.result < 0) \/ last'.call = "stat" => fd_list' = fd_list
    BY <1>1, FailureLeavesTable DEF vars
<1> QED
    BY <1>1, TableTheorem, PTL DEF Spec, FailedOpenLeavesNoTrace

=============================================================================

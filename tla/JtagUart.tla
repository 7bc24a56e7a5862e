------------------------------ MODULE JtagUart ------------------------------
(***************************************************************************)
(* The JTAG UART driver of the board support package, through which every  *)
(* printf and scanf of main.c goes: altera_avalon_jtag_uart_init.c,        *)
(* _read.c, _write.c and _ioctl.c.                                         *)
(*                                                                         *)
(* One thread calls read, write, close and ioctl; the interrupt routine    *)
(* may run between any two of its accesses to the state they share, and    *)
(* the timer routine too when the system has a clock (this one has none:   *)
(* alt_alarm_start fails).  A step is one such access.  The routine        *)
(* preempts the thread, never the reverse, and alt_irq_disable_all holds   *)
(* both routines off.                                                      *)
(*                                                                         *)
(* The driver was built without an operating system, so its semaphores     *)
(* and event flags are empty macros and waiting is spinning.               *)
(***************************************************************************)
EXTENDS UartCore, Integers

CONSTANTS
    BufLen,         \* ALTERA_AVALON_JTAG_UART_BUF_LEN
    Clock,          \* whether alt_alarm_start finds a system clock
    DefaultTimeout, \* ALTERA_AVALON_JTAG_UART_DEFAULT_TIMEOUT
    IntMax,         \* INT_MAX
    Timeouts,       \* the arguments of TIOCSTIMEOUT
    MaxCount,       \* bound: bytes asked for by one call
    MaxSent         \* bound: bytes the program writes

ASSUME JtagUartAssumption ==
    /\ BufLen \in Nat /\ BufLen >= 2
    /\ Clock \in BOOLEAN
    /\ IntMax \in Nat /\ IntMax >= 3
    /\ DefaultTimeout \in 1 .. IntMax - 2
    /\ Timeouts \subseteq 0 .. IntMax
    /\ MaxCount \in Nat /\ MaxSent \in Nat

EIO         == 5
EWOULDBLOCK == 11

VARIABLES
    irq_enable,     \* the driver's copy of RE and WE
    rx_in, rx_out,  \* receive ring: where the routine stores, where read takes
    tx_in, tx_out,  \* transmit ring: where write stores, where the routine takes
    rx_buf, tx_buf,
    host_inactive,  \* ticks since the host was last seen
    timeout,        \* ticks until it is taken to be gone
    call,           \* the call in progress: op, left, done, nonblock
    pc,             \* where the thread is in it
    in, out, n,     \* its locals
    loaded,         \* irq_enable as read in the critical section
    pie,            \* interrupts are enabled in the processor
    isr,            \* where the interrupt routine is; "off" when not running
    wi, space,      \* its locals: WI as read, and the FIFO space left
    ravail,         \* its local: RAVAIL of the last byte is not zero
    result,         \* the value the last call returned, until the next call
    got,            \* history: the bytes read has handed out, in order
    sent,           \* history: the number of bytes write has taken
    told            \* history: the sums of what read and write returned

rings    == <<rx_in, rx_out, tx_in, tx_out, rx_buf, tx_buf>>
clockVars == <<host_inactive, timeout>>
locals   == <<in, out, n, loaded>>
isrVars  == <<isr, wi, space, ravail>>
tallies  == <<got, sent, told>>
threadVars == <<call, pc, in, out, n, loaded, pie, result, got, sent, told>>
vars == <<coreVars, hostVars, irq_enable, rings, clockVars, threadVars, isrVars>>

NoCall == [op |-> "none", left |-> 0, done |-> 0, nonblock |-> FALSE]
Ring   == 0 .. BufLen - 1

-----------------------------------------------------------------------------
(* The rings. *)

\* Variant: the index is not wrapped.
NextIndexUnwrapped(i) == i + 1
NextIndex(i) == (i + 1) % BufLen

\* The bytes from one index up to another, oldest first.
Held(buf, first, last) ==
    [k \in 1 .. ((last + BufLen) - first) % BufLen |-> buf[((first + k) - 1) % BufLen]]

ReceivedBytes == Held(rx_buf, rx_out, rx_in)
PendingBytes  == Held(tx_buf, tx_out, tx_in)

\* How far read may copy without wrapping.
Available(i, o) == IF i >= o THEN i - o ELSE BufLen - o
\* How far write may: one slot tells a full ring from an empty one.
Room(i, o) ==
    CASE i < o            -> (o - 1) - i
      [] i >= o /\ o > 0  -> BufLen - i
      [] OTHER            -> (BufLen - 1) - i

-----------------------------------------------------------------------------
(* Start-up and the system clock. *)

\* The state the loader leaves: ALTERA_AVALON_JTAG_UART_STATE_INSTANCE.
Init ==
    /\ CoreReset
    /\ irq_enable = {}
    /\ rx_in = 0 /\ rx_out = 0 /\ tx_in = 0 /\ tx_out = 0
    /\ rx_buf = [i \in Ring |-> 0] /\ tx_buf = [i \in Ring |-> 0]
    /\ host_inactive = 0 /\ timeout = DefaultTimeout
    /\ call = NoCall /\ pc = "boot"
    /\ in = 0 /\ out = 0 /\ n = 0 /\ loaded = {}
    /\ pie = TRUE
    /\ isr = "off" /\ wi = FALSE /\ space = 0 /\ ravail = FALSE
    /\ result = 0 /\ got = <<>> /\ sent = 0
    /\ told = [read |-> 0, write |-> 0]

\* altera_avalon_jtag_uart_init; the routine is registered last, so nothing
\* interrupts it.
DriverStarts ==
    /\ pc = "boot"
    /\ irq_enable' = {"RE"}
    /\ WriteControl({"RE"}, FALSE)
    /\ host_inactive' = 0
    /\ timeout' = IF Clock THEN timeout ELSE IntMax
    /\ pc' = "idle"
    /\ UNCHANGED <<hostVars, rings, isrVars, call, locals, pie, result, tallies>>

\* altera_avalon_jtag_uart_timeout, from the timer's interrupt.
Tick ==
    /\ Clock /\ pie /\ isr = "off" /\ pc # "boot"
    /\ \/ /\ ac
          /\ WriteControl(irq_enable, TRUE)
          /\ host_inactive' = 0
       \/ /\ ~ac
          /\ host_inactive' = IF host_inactive < IntMax - 2 THEN host_inactive + 1
                                                           ELSE host_inactive
          /\ UNCHANGED coreVars
    /\ UNCHANGED <<hostVars, irq_enable, rings, timeout, threadVars, isrVars>>

HostGone == host_inactive >= timeout

-----------------------------------------------------------------------------
(* The interrupt routine, altera_avalon_jtag_uart_irq. *)

IsrGoto(s) == isr' = s

\* The interrupt is taken; the processor clears PIE until it returns.
IsrEnters ==
    /\ pie /\ isr = "off" /\ pc # "boot"
    /\ Irq
    /\ IsrGoto("control")
    /\ UNCHANGED <<coreVars, hostVars, irq_enable, rings, clockVars, threadVars, wi, space, ravail>>

IsrReadsControl ==
    /\ isr = "control"
    /\ IsrGoto(CASE RI -> "receive" [] ~RI /\ WI -> "send" [] OTHER -> "off")
    /\ wi' = WI
    /\ space' = IF WI THEN WSpace ELSE 0
    /\ ravail' = RI
    /\ UNCHANGED <<coreVars, hostVars, irq_enable, rings, clockVars, threadVars>>

\* A turn of the receive loop, up to the first clock of its read; the host may
\* send a byte before the second.
IsrReceives ==
    /\ isr = "receive"
    /\ \/ /\ NextIndex(rx_in) = rx_out
          /\ IsrGoto("received")
          /\ UNCHANGED <<coreVars, rx_in, rx_buf>>
       \/ /\ NextIndex(rx_in) # rx_out
          /\ TakeNothing
          /\ IsrGoto("none")
          /\ UNCHANGED <<rx_in, rx_buf>>
       \/ /\ NextIndex(rx_in) # rx_out
          /\ TakeReceived
          /\ rx_buf' = [rx_buf EXCEPT ![rx_in] = Head(rfifo)]
          /\ rx_in' = NextIndex(rx_in)
          /\ IsrGoto("taken")
    /\ UNCHANGED <<hostVars, irq_enable, rx_out, tx_in, tx_out, tx_buf,
                   clockVars, threadVars, wi, space, ravail>>

\* The second clock: the loop ends at a word whose RVALID is 0, and goes on to
\* the test of RAVAIL with that word.
IsrSeesAvail ==
    /\ isr \in {"taken", "none"}
    /\ ravail' = RAvail
    /\ IsrGoto(IF isr = "taken" THEN "receive" ELSE "received")
    /\ UNCHANGED <<coreVars, hostVars, irq_enable, rings, clockVars, threadVars, wi, space>>

\* Turn an interrupt off: the copy and the register, nothing runs in between.
TurnsOff(bit) ==
    /\ irq_enable' = irq_enable \ {bit}
    /\ WriteControl(irq_enable', FALSE)

IsrReceived ==
    /\ isr = "received"
    /\ \/ ravail /\ TurnsOff("RE")
       \/ ~ravail /\ UNCHANGED <<coreVars, irq_enable>>
    /\ IsrGoto(IF wi THEN "send" ELSE "control")
    /\ ravail' = FALSE
    /\ UNCHANGED <<hostVars, rings, clockVars, threadVars, wi, space>>

\* Variant: the index is advanced before the byte is fetched.
IsrSendsOneAhead ==
    /\ isr = "send"
    /\ space > 0 /\ tx_out # tx_in
    /\ WriteData(tx_buf[NextIndex(tx_out)])
    /\ tx_out' = NextIndex(tx_out)
    /\ space' = space - 1
    /\ UNCHANGED <<hostVars, irq_enable, rx_in, rx_out, tx_in, rx_buf, tx_buf,
                   clockVars, threadVars, isr, wi, ravail>>

IsrSends ==
    /\ isr = "send"
    /\ space > 0 /\ tx_out # tx_in
    /\ WriteData(tx_buf[tx_out])
    /\ tx_out' = NextIndex(tx_out)
    /\ space' = space - 1
    /\ UNCHANGED <<hostVars, irq_enable, rx_in, rx_out, tx_in, rx_buf, tx_buf,
                   clockVars, threadVars, isr, wi, ravail>>

\* Variant: transmit interrupts are turned off once the FIFO is full, too.
IsrSentAlwaysOff ==
    /\ isr = "send"
    /\ space = 0 \/ tx_out = tx_in
    /\ TurnsOff("WE")
    /\ IsrGoto("control")
    /\ space' = 0 /\ wi' = FALSE
    /\ UNCHANGED <<hostVars, rings, clockVars, threadVars, ravail>>

IsrSent ==
    /\ isr = "send"
    /\ space = 0 \/ tx_out = tx_in
    /\ \/ space > 0 /\ TurnsOff("WE")
       \/ space = 0 /\ UNCHANGED <<coreVars, irq_enable>>
    /\ IsrGoto("control")
    /\ space' = 0 /\ wi' = FALSE
    /\ UNCHANGED <<hostVars, rings, clockVars, threadVars, ravail>>

Isr == IsrReadsControl \/ IsrReceives \/ IsrSeesAvail \/ IsrReceived \/ IsrSends \/ IsrSent

-----------------------------------------------------------------------------
(* The thread: calls, and how they end. *)

Goto(s) == pc' = s

\* A step of the thread: the routine is not running.
Thread(s) == isr = "off" /\ pc = s

Blocked == IF call.nonblock THEN -EWOULDBLOCK ELSE -EIO

Return(value) ==
    /\ result' = value
    /\ call' = NoCall
    /\ told' = IF value > 0 THEN [told EXCEPT ![call.op] = @ + value] ELSE told
    /\ Goto("idle")
    /\ in' = 0 /\ out' = 0 /\ n' = 0 /\ loaded' = {}

Undisturbed == UNCHANGED <<hostVars, clockVars, isrVars>>

Calls(op, entry) ==
    /\ Thread("idle")
    /\ \E count \in 0 .. MaxCount, nonblock \in BOOLEAN :
          /\ op = "write" => sent + count <= MaxSent
          /\ call' = [op |-> op, left |-> count, done |-> 0, nonblock |-> nonblock]
    /\ Goto(entry)
    /\ result' = 0
    /\ UNCHANGED <<coreVars, irq_enable, rings, locals, pie, tallies>>
    /\ Undisturbed

CallsRead  == Calls("read", "read")
CallsWrite == Calls("write", "write")
CallsClose == Calls("close", "close")

\* TIOCSTIMEOUT; without a clock it is refused and changes nothing.
CallsIoctl ==
    /\ Thread("idle") /\ timeout # IntMax
    /\ \E arg \in Timeouts :
          timeout' = IF arg >= 2 /\ arg < IntMax THEN arg ELSE IntMax - 1
    /\ UNCHANGED <<coreVars, hostVars, irq_enable, rings, host_inactive, threadVars, isrVars>>

-----------------------------------------------------------------------------
(* altera_avalon_jtag_uart_read. *)

Least(a, b) == IF a <= b THEN a ELSE b

\* Variant: a read that got data returns without enabling interrupts.
ReadLoopEndsQuietly ==
    IF call.done > 0 THEN Return(call.done)
    ELSE IF call.nonblock \/ call.left = 0 THEN Return(Blocked)
    ELSE Goto("read_wait") /\ in' = rx_in /\ n' = 0 /\ UNCHANGED <<call, told, result, out, loaded>>

\* What follows the copying loop.
ReadLoopEnds ==
    IF call.done > 0 THEN Goto("disable") /\ UNCHANGED <<call, told, result, in, out, n, loaded>>
    ELSE IF call.nonblock \/ call.left = 0 THEN Return(Blocked)
    ELSE Goto("read_wait") /\ in' = rx_in /\ n' = 0 /\ UNCHANGED <<call, told, result, out, loaded>>

ReadLooks ==
    /\ Thread("read")
    /\ LET count == Least(Available(rx_in, rx_out), call.left) IN
         IF count = 0 THEN ReadLoopEnds
         ELSE /\ in' = rx_in /\ out' = rx_out /\ n' = count
              /\ Goto("read_copy")
              /\ UNCHANGED <<call, told, result, loaded>>
    /\ UNCHANGED <<coreVars, irq_enable, rings, pie, got, sent>>
    /\ Undisturbed

\* Variant: memcpy from the start of the ring.
ReadCopiesFromStart ==
    /\ Thread("read_copy")
    /\ got' = got \o [k \in 1 .. n |-> rx_buf[k - 1]]
    /\ Goto("read_advance")
    /\ UNCHANGED <<coreVars, irq_enable, rings, call, locals, pie, result, sent, told>>
    /\ Undisturbed

\* memcpy from the ring; the bytes are the caller's from here on.
ReadCopies ==
    /\ Thread("read_copy")
    /\ got' = got \o [k \in 1 .. n |-> rx_buf[(out + k) - 1]]
    /\ Goto("read_advance")
    /\ UNCHANGED <<coreVars, irq_enable, rings, call, locals, pie, result, sent, told>>
    /\ Undisturbed

\* Variant: the call goes on counting from this chunk.
ReadAdvancesForgetting ==
    /\ Thread("read_advance")
    /\ rx_out' = (out + n) % BufLen
    /\ call' = [call EXCEPT !.left = @ - n, !.done = n]
    /\ Goto("read")
    /\ UNCHANGED <<coreVars, irq_enable, rx_in, tx_in, tx_out, rx_buf, tx_buf,
                   locals, pie, result, tallies>>
    /\ Undisturbed

\* Variant: the ring emptied instead of advanced by what was copied.
ReadAdvancesToTheEnd ==
    /\ Thread("read_advance")
    /\ rx_out' = rx_in
    /\ call' = [call EXCEPT !.left = @ - n, !.done = @ + n]
    /\ Goto("read")
    /\ UNCHANGED <<coreVars, irq_enable, rx_in, tx_in, tx_out, rx_buf, tx_buf,
                   locals, pie, result, tallies>>
    /\ Undisturbed

ReadAdvances ==
    /\ Thread("read_advance")
    /\ rx_out' = (out + n) % BufLen
    /\ call' = [call EXCEPT !.left = @ - n, !.done = @ + n]
    /\ Goto("read")
    /\ UNCHANGED <<coreVars, irq_enable, rx_in, tx_in, tx_out, rx_buf, tx_buf,
                   locals, pie, result, tallies>>
    /\ Undisturbed

\* The spin ends; the index is read once more to see why.
ReadStopsWaiting ==
    /\ Thread("read_wait")
    /\ rx_in # in \/ HostGone
    /\ Goto("read_check")
    /\ UNCHANGED <<coreVars, irq_enable, rings, call, locals, pie, result, tallies>>
    /\ Undisturbed

ReadChecks ==
    /\ Thread("read_check")
    /\ IF rx_in = in THEN Return(Blocked)
                     ELSE Goto("read") /\ UNCHANGED <<call, told, result, locals>>
    /\ UNCHANGED <<coreVars, irq_enable, rings, pie, got, sent>>
    /\ Undisturbed

-----------------------------------------------------------------------------
(* altera_avalon_jtag_uart_write. *)

WriteLooks ==
    /\ Thread("write")
    /\ LET count == Least(Room(tx_in, tx_out), call.left) IN
         /\ in' = tx_in /\ out' = tx_out /\ n' = count
         /\ Goto(IF count = 0 THEN "disable" ELSE "write_copy")
    /\ UNCHANGED <<coreVars, irq_enable, rings, call, loaded, pie, result, tallies>>
    /\ Undisturbed

WriteCopies ==
    /\ Thread("write_copy")
    /\ tx_buf' = [i \in Ring |-> IF i \in in .. (in + n) - 1 THEN sent + ((i - in) + 1) ELSE tx_buf[i]]
    /\ Goto("write_advance")
    /\ UNCHANGED <<coreVars, irq_enable, rx_in, rx_out, tx_in, tx_out, rx_buf,
                   call, locals, pie, result, tallies>>
    /\ Undisturbed

WriteAdvances ==
    /\ Thread("write_advance")
    /\ tx_in' = (in + n) % BufLen
    /\ sent' = sent + n
    /\ call' = [call EXCEPT !.left = @ - n, !.done = @ + n]
    /\ Goto("write")
    /\ UNCHANGED <<coreVars, irq_enable, rx_in, rx_out, tx_out, rx_buf, tx_buf,
                   locals, pie, result, got, told>>
    /\ Undisturbed

WriteStopsWaiting ==
    /\ Thread("write_wait")
    /\ tx_out # out \/ HostGone
    /\ Goto("write_check")
    /\ UNCHANGED <<coreVars, irq_enable, rings, call, locals, pie, result, tallies>>
    /\ Undisturbed

Written == IF call.done > 0 THEN call.done ELSE Blocked

WriteChecks ==
    /\ Thread("write_check")
    /\ IF host_inactive # 0 THEN Return(Written)
                            ELSE Goto("write") /\ UNCHANGED <<call, told, result, locals>>
    /\ UNCHANGED <<coreVars, irq_enable, rings, pie, got, sent>>
    /\ Undisturbed

-----------------------------------------------------------------------------
(* The critical section that ends a read and follows every fill of write:  *)
(* irq_enable is changed by both sides, so the thread's read-modify-write  *)
(* of it and of the control register runs with interrupts disabled.        *)

CallBit == IF call.op = "read" THEN "RE" ELSE "WE"

\* Variant: alt_irq_disable_all left out.
DisablesNothing ==
    /\ Thread("disable")
    /\ Goto("load")
    /\ UNCHANGED <<coreVars, irq_enable, rings, call, locals, pie, result, tallies>>
    /\ Undisturbed

Disables ==
    /\ Thread("disable")
    /\ pie' = FALSE
    /\ Goto("load")
    /\ UNCHANGED <<coreVars, irq_enable, rings, call, locals, result, tallies>>
    /\ Undisturbed

LoadsMask ==
    /\ Thread("load")
    /\ loaded' = irq_enable
    /\ Goto("store")
    /\ UNCHANGED <<coreVars, irq_enable, rings, call, in, out, n, pie, result, tallies>>
    /\ Undisturbed

\* Variant: the routine kicked only while bytes are left to write.
StoresMaskWhenFull ==
    /\ Thread("store")
    /\ irq_enable' = IF call.op = "read" \/ call.left > 0 THEN loaded \cup {CallBit} ELSE loaded
    /\ Goto("control")
    /\ UNCHANGED <<coreVars, rings, call, locals, pie, result, tallies>>
    /\ Undisturbed

StoresMask ==
    /\ Thread("store")
    /\ irq_enable' = loaded \cup {CallBit}
    /\ Goto("control")
    /\ UNCHANGED <<coreVars, rings, call, locals, pie, result, tallies>>
    /\ Undisturbed

WritesControl ==
    /\ Thread("control")
    /\ WriteControl(irq_enable, FALSE)
    /\ Goto("enable")
    /\ UNCHANGED <<irq_enable, rings, call, locals, pie, result, tallies>>
    /\ Undisturbed

Enables ==
    /\ Thread("enable")
    /\ pie' = TRUE
    /\ IF call.op = "read" THEN Return(call.done)
       ELSE IF call.left > 0 /\ ~call.nonblock
            THEN Goto("write_wait") /\ UNCHANGED <<call, told, result, locals>>
            ELSE Return(Written)
    /\ UNCHANGED <<coreVars, irq_enable, rings, got, sent>>
    /\ Undisturbed

-----------------------------------------------------------------------------
(* altera_avalon_jtag_uart_close. *)

\* Variant: close waits for the ring only.
ClosesOnlyWhenDrained ==
    /\ Thread("close")
    /\ \/ tx_out = tx_in /\ Return(0)
       \/ tx_out # tx_in /\ call.nonblock /\ Return(-EWOULDBLOCK)
    /\ UNCHANGED <<coreVars, irq_enable, rings, pie, got, sent>>
    /\ Undisturbed

Closes ==
    /\ Thread("close")
    /\ \/ (tx_out = tx_in \/ HostGone) /\ Return(0)
       \/ tx_out # tx_in /\ ~HostGone /\ call.nonblock /\ Return(-EWOULDBLOCK)
    /\ UNCHANGED <<coreVars, irq_enable, rings, pie, got, sent>>
    /\ Undisturbed

-----------------------------------------------------------------------------
InCall ==
    \/ ReadLooks \/ ReadCopies \/ ReadAdvances \/ ReadStopsWaiting \/ ReadChecks
    \/ WriteLooks \/ WriteCopies \/ WriteAdvances \/ WriteStopsWaiting \/ WriteChecks
    \/ Disables \/ LoadsMask \/ StoresMask \/ WritesControl \/ Enables
    \/ Closes

NewCall == CallsRead \/ CallsWrite \/ CallsClose \/ CallsIoctl

HostStep == Host /\ UNCHANGED <<irq_enable, rings, clockVars, threadVars, isrVars>>

Next ==
    \/ DriverStarts \/ NewCall \/ InCall
    \/ IsrEnters \/ Isr
    \/ Tick
    \/ HostStep

-----------------------------------------------------------------------------
(* Fairness.  The processor executes: whatever it is in the middle of goes *)
(* on, strongly for the thread, which the routine preempts, and for the    *)
(* interrupt, whose line stays high while a critical section runs.  A host *)
(* that is connected polls, and takes what is sent to it.                  *)

Fairness ==
    /\ WF_vars(DriverStarts)
    /\ SF_vars(InCall)
    /\ SF_vars(IsrEnters)
    /\ WF_vars(Isr)
    /\ SF_vars(Tick)
    /\ WF_vars(HostPauses /\ UNCHANGED <<irq_enable, rings, clockVars, threadVars, isrVars>>)
    /\ WF_vars(HostTakes /\ UNCHANGED <<irq_enable, rings, clockVars, threadVars, isrVars>>)

Spec == Init /\ [][Next]_vars

FairSpec == Spec /\ Fairness

-----------------------------------------------------------------------------
(* Invariants. *)

Call == [op : {"none", "read", "write", "close"}, left : Nat, done : Nat, nonblock : BOOLEAN]

ThreadSteps == {"boot", "idle", "read", "read_copy", "read_advance", "read_wait", "read_check",
                "write", "write_copy", "write_advance", "write_wait", "write_check",
                "disable", "load", "store", "control", "enable", "close"}

IsrSteps == {"off", "control", "receive", "taken", "none", "received", "send"}

\* The types; an index never leaves its ring.
TypeOK ==
    /\ CoreTypeOK
    /\ irq_enable \subseteq {"RE", "WE"}
    /\ rx_in \in Ring /\ rx_out \in Ring /\ tx_in \in Ring /\ tx_out \in Ring
    /\ rx_buf \in [Ring -> Nat] /\ tx_buf \in [Ring -> Nat]
    /\ host_inactive \in 0 .. IntMax - 2 /\ timeout \in 0 .. IntMax
    /\ call \in Call /\ pc \in ThreadSteps
    /\ in \in Ring /\ out \in Ring /\ n \in Nat
    /\ loaded \subseteq {"RE", "WE"}
    /\ pie \in BOOLEAN
    /\ isr \in IsrSteps /\ wi \in BOOLEAN /\ space \in 0 .. FifoDepth /\ ravail \in BOOLEAN
    /\ result \in Int /\ got \in Seq(Nat) /\ sent \in Nat
    /\ told \in [read : Nat, write : Nat]

Numbered(k) == [j \in 1 .. k |-> j]

\* Bytes of the receive ring that read has not copied out yet.
Unread == IF pc = "read_advance" THEN Held(rx_buf, (rx_out + n) % BufLen, rx_in)
                                 ELSE ReceivedBytes

\* What the host types is what read hands out, then what the ring holds, then
\* what the FIFO holds: whatever the routine and the thread do to the ring at
\* the same time, no byte is lost, repeated or reordered.
ReceivedInOrder == (got \o Unread) \o rfifo = Numbered(typed)

\* The same for what write has taken and the host has been shown; a write to
\* a full FIFO would lose a byte here.
SentInOrder == (shown \o wfifo) \o PendingBytes = Numbered(sent)

\* irq_enable and the control register agree wherever either side may look,
\* and only its own critical section or a routine is between the two.
MaskIsWritten ==
    isr # "off" \/ pc \notin {"boot", "control"} =>
        /\ ien_AF = ("RE" \in irq_enable)
        /\ ien_AE = ("WE" \in irq_enable)

\* An interrupt is off only while something is left that brings it back.  The
\* receive side may be turned off with slots of the ring free, by a byte that
\* comes between RVALID and RAVAIL, but never with the ring empty: the next read
\* finds bytes and turns it on as it ends, or is on its way to that.  Off with
\* the ring empty, a blocking read would spin for bytes that stay in the FIFO.
\* The transmit side is off only with its ring empty, or while the write that
\* has filled it is on its way to turning it on.
InterruptsComeBack ==
    (pc # "boot" /\ isr = "off") =>
        /\ \/ "RE" \in irq_enable \/ rx_in # rx_out
           \/ call.op = "read" /\ call.done > 0
        /\ \/ "WE" \in irq_enable \/ tx_in = tx_out
           \/ call.op = "write" /\ call.done > 0

\* The program that adds up what its calls return knows how many bytes moved.
CallersAreTold ==
    call = NoCall => told.read = Len(got) /\ told.write = sent

-----------------------------------------------------------------------------
(* Liveness. *)

\* A read with a byte typed and not handed out returns, blocking or not; a
\* write returns, and so does a close, which waits for the ring to drain.
CallsReturn ==
    /\ (call.op = "read" /\ typed > Len(got)) ~> (call.op # "read")
    /\ (call.op \in {"write", "close"}) ~> (call.op \notin {"write", "close"})

\* With the host gone for good and a clock to notice, no call waits for ever.
CallsEndWithoutHost ==
    (<>[](~connected /\ timeout < IntMax - 1)) => []<>(pc = "idle")

=============================================================================

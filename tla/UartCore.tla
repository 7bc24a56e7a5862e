------------------------------ MODULE UartCore ------------------------------
(***************************************************************************)
(* lab9_soc_jtag_uart_0.v: the JTAG UART between the Nios II and the       *)
(* terminal on the host, as its two registers show it to software.         *)
(*                                                                         *)
(* The k-th byte of either direction is named k: the core and the driver   *)
(* never look at a byte's value, so a byte lost, repeated or out of order  *)
(* shows as a gap in the numbers.  The host (the JTAG cable and the        *)
(* terminal program) is external: it types, polls, and takes bytes away,   *)
(* and may be unplugged.                                                   *)
(***************************************************************************)
EXTENDS Naturals, Sequences, FiniteSets

CONSTANTS
    FifoDepth,    \* entries of each FIFO (64 in this system)
    Threshold,    \* the interrupt thresholds (8 in this system)
    MaxTyped,     \* bound: bytes the host types
    MayUnplug     \* whether the host may go away

ASSUME UartCoreAssumption ==
    /\ FifoDepth \in Nat \ {0}
    /\ Threshold \in 0 .. FifoDepth - 1
    /\ MaxTyped \in Nat
    /\ MayUnplug \in BOOLEAN

VARIABLES
    rfifo,      \* bytes from the host, not yet read by the processor
    wfifo,      \* bytes from the processor, not yet taken by the host
    ien_AF,     \* interrupt enable of the receive side (control bit RE)
    ien_AE,     \* interrupt enable of the transmit side (control bit WE)
    pause_irq,  \* the host paused with bytes in rfifo
    ac,         \* the host has been active since software cleared the bit
    woverflow,  \* a byte was written to a full FIFO and dropped
    connected,  \* the host is there
    typed,      \* number of bytes the host has typed
    shown       \* history: the bytes the host has taken, in order

coreVars == <<rfifo, wfifo, ien_AF, ien_AE, pause_irq, ac, woverflow>>
hostVars == <<connected, typed, shown>>

CoreTypeOK ==
    /\ rfifo \in Seq(Nat)
    /\ wfifo \in Seq(Nat)
    /\ ien_AF \in BOOLEAN
    /\ ien_AE \in BOOLEAN
    /\ pause_irq \in BOOLEAN
    /\ ac \in BOOLEAN
    /\ woverflow \in BOOLEAN
    /\ connected \in BOOLEAN
    /\ typed \in Nat
    /\ shown \in Seq(Nat)

CoreReset ==
    /\ rfifo = <<>> /\ wfifo = <<>>
    /\ ien_AF = FALSE /\ ien_AE = FALSE
    /\ pause_irq = FALSE /\ ac = FALSE /\ woverflow = FALSE
    /\ connected = TRUE /\ typed = 0 /\ shown = <<>>

-----------------------------------------------------------------------------
(* What the control register shows. *)

WSpace == FifoDepth - Len(wfifo)
RI == ien_AF /\ (pause_irq \/ FifoDepth - Len(rfifo) <= Threshold)
WI == ien_AE /\ Len(wfifo) <= Threshold
Irq == RI \/ WI

(* Accesses of the processor. *)

\* A read of the data register takes two clocks.  In the first the core
\* samples RVALID and takes a byte out of the FIFO if it holds one.  (The
\* pause is cleared in the second; nobody looks at it in between.)

\* Variant: reading a byte leaves the pause standing.
TakeReceivedStillPaused ==
    /\ rfifo # <<>>
    /\ rfifo' = Tail(rfifo)
    /\ UNCHANGED <<wfifo, ien_AF, ien_AE, pause_irq, ac, woverflow>>

\* The first clock, with RVALID 1.
TakeReceived ==
    /\ rfifo # <<>>
    /\ rfifo' = Tail(rfifo)
    /\ pause_irq' = FALSE
    /\ UNCHANGED <<wfifo, ien_AF, ien_AE, ac, woverflow>>

\* The first clock, with RVALID 0.
TakeNothing ==
    /\ rfifo = <<>>
    /\ pause_irq' = FALSE
    /\ UNCHANGED <<rfifo, wfifo, ien_AF, ien_AE, ac, woverflow>>

\* The second clock: RAVAIL is not zero.  It is what the FIFO holds now, a
\* byte that came in the first clock included, whatever RVALID said of it.
RAvail == rfifo # <<>>

WriteData(byte) ==
    /\ IF Len(wfifo) < FifoDepth
         THEN wfifo' = Append(wfifo, byte) /\ woverflow' = FALSE
         ELSE woverflow' = TRUE /\ UNCHANGED wfifo
    /\ UNCHANGED <<rfifo, ien_AF, ien_AE, pause_irq, ac>>

WriteControl(mask, clear_ac) ==
    /\ ien_AF' = ("RE" \in mask)
    /\ ien_AE' = ("WE" \in mask)
    /\ ac' = (ac /\ ~clear_ac)
    /\ UNCHANGED <<rfifo, wfifo, pause_irq, woverflow>>

-----------------------------------------------------------------------------
(* The host. *)

HostTypes ==
    /\ connected
    /\ typed < MaxTyped /\ Len(rfifo) < FifoDepth
    /\ typed' = typed + 1
    /\ rfifo' = Append(rfifo, typed + 1)
    /\ ac' = TRUE
    /\ UNCHANGED <<wfifo, ien_AF, ien_AE, pause_irq, woverflow, connected, shown>>

\* The host polls the cable and has nothing (more) to send.
HostPauses ==
    /\ connected
    /\ pause_irq' = (pause_irq \/ rfifo # <<>>)
    /\ ac' = TRUE
    /\ UNCHANGED <<rfifo, wfifo, ien_AF, ien_AE, woverflow, hostVars>>

HostTakes ==
    /\ connected
    /\ wfifo # <<>>
    /\ shown' = Append(shown, Head(wfifo))
    /\ wfifo' = Tail(wfifo)
    /\ UNCHANGED <<rfifo, ien_AF, ien_AE, pause_irq, ac, woverflow, connected, typed>>

HostUnplugged ==
    /\ MayUnplug /\ connected
    /\ connected' = FALSE
    /\ UNCHANGED <<coreVars, typed, shown>>

HostPlugged ==
    /\ ~connected
    /\ connected' = TRUE
    /\ UNCHANGED <<coreVars, typed, shown>>

Host == HostTypes \/ HostPauses \/ HostTakes \/ HostUnplugged \/ HostPlugged

=============================================================================

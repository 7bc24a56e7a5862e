--------------------------- MODULE JtagUartProofs ---------------------------
(***************************************************************************)
(* Theorems of the JTAG UART driver, for every length of the rings and of  *)
(* the FIFOs, with a clock or without, whatever the host does.             *)
(*                                                                         *)
(* The first invariant has six parts, each proved on the ones before:      *)
(* where the calls are and what they hold (Calling), the room or the bytes *)
(* that a chunk counts on (ChunkIsFree), the mask and the critical section *)
(* (Masking), what the running routine still has to serve (Serving), that  *)
(* its receive loop never ends without a byte in the ring, whatever RVALID *)
(* and RAVAIL say (Fetching), and that an interrupt which is off is off    *)
(* with something left to turn it on (Wanting).                            *)
(*                                                                         *)
(* The second is about the bytes themselves: none is lost, repeated or     *)
(* reordered, callers are told how many moved, and each direction is a     *)
(* pipe.  It says of each byte where its number puts it.  Bytes are        *)
(* counted from the end they leave by: in a direction, Gone or Passed of   *)
(* them have left the ring, the slot at distance d from its reading index  *)
(* holds number d + 1 after those, and the FIFO the numbers that follow.   *)
(***************************************************************************)
EXTENDS JtagUartPipes, SequenceTheorems, TLAPS

-----------------------------------------------------------------------------
(* The invariant of the control. *)

Indexed ==
    /\ rx_in \in Ring /\ rx_out \in Ring /\ tx_in \in Ring /\ tx_out \in Ring
    /\ in \in Ring /\ out \in Ring /\ n \in Nat
    /\ call \in Call

ReadSteps    == {"read", "read_copy", "read_advance", "read_wait", "read_check"}
WriteSteps   == {"write", "write_copy", "write_advance", "write_wait", "write_check"}
SectionSteps == {"disable", "load", "store", "control", "enable"}
ChunkSteps   == {"read_copy", "read_advance", "write_copy", "write_advance"}

CallIsOf ==
    /\ pc \in ReadSteps => call.op = "read"
    /\ pc \in WriteSteps => call.op = "write"
    /\ pc \in SectionSteps => call.op \in {"read", "write"}

\* A chunk that is copied has bytes, and no more than the call asked for.
ChunkFits == pc \in ChunkSteps => n \in 1 .. call.left

Calling == Indexed /\ CallIsOf /\ ChunkFits

InSection == pc \in {"load", "store", "control", "enable"}

\* The routine never runs inside the critical section, or before start-up ends.
SectionIsCritical ==
    /\ isr # "off" => pie /\ pc # "boot"
    /\ InSection => ~pie
    /\ pc = "store" => loaded = irq_enable

Masking == SectionIsCritical /\ MaskIsWritten

\* The routine serves what is enabled.
Serving ==
    /\ isr \in {"receive", "taken", "none", "received"} => "RE" \in irq_enable
    /\ wi => "WE" \in irq_enable
    /\ isr = "off" => ~wi
    /\ isr = "send" => wi

\* The receive interrupt is raised for bytes that are there, so the loop it
\* starts fetches one or finds the ring full: either way the ring holds bytes
\* when the loop ends.
Fetching ==
    /\ rfifo \in Seq(Nat) /\ typed \in Nat
    /\ pause_irq => rfifo # <<>>
    /\ isr = "receive" => rfifo # <<>> \/ rx_in # rx_out
    /\ isr \in {"taken", "none", "received"} => rx_in # rx_out

\* The steps of a call from the moment it makes room, or work, to the store
\* that turns the interrupt on.
ReadOwes  == call.op = "read" /\ call.done > 0
             /\ pc \in {"read", "read_copy", "read_advance", "disable", "load", "store"}
WriteOwes == call.op = "write" /\ call.done > 0
             /\ pc \in {"write", "write_copy", "write_advance", "disable", "load", "store"}

Wanting ==
    /\ "RE" \in irq_enable \/ rx_in # rx_out \/ pc = "boot" \/ ReadOwes
    /\ "WE" \in irq_enable \/ tx_in = tx_out \/ WriteOwes
    /\ pc = "boot" => tx_in = tx_out

\* What memcpy moves between taking the indices and storing the new one is
\* the thread's alone: a read copies slots the routine has filled, a write
\* slots it has emptied, and neither runs over the end of the ring.
ChunkIsFree ==
    /\ pc \in {"read_copy", "read_advance"} => out = rx_out /\ n <= Available(rx_in, rx_out)
    /\ pc \in {"write_copy", "write_advance"} => in = tx_in /\ n <= Room(tx_in, tx_out)

DriverInv == Calling /\ ChunkIsFree /\ Masking /\ Serving /\ Fetching /\ Wanting

-----------------------------------------------------------------------------
(* The rings. *)

LEMMA WrapType == \A i \in Nat : i % BufLen \in Ring
BY JtagUartAssumption DEF Ring

LEMMA NextIndexType == \A i \in Ring : NextIndex(i) \in Ring
BY JtagUartAssumption, WrapType DEF Ring, NextIndex

LEMMA AvailableType == \A i, o \in Ring : Available(i, o) \in Nat
BY JtagUartAssumption DEF Ring, Available

LEMMA RoomType == \A i, o \in Ring : Room(i, o) \in Nat
BY JtagUartAssumption DEF Ring, Room

LEMMA NextIndexValue == \A i \in Ring : NextIndex(i) = IF i = BufLen - 1 THEN 0 ELSE i + 1
BY JtagUartAssumption DEF Ring, NextIndex

LEMMA RoomValue ==
    \A i, o \in Ring :
        Room(i, o) = IF i < o THEN (o - 1) - i ELSE IF o > 0 THEN BufLen - i ELSE (BufLen - 1) - i
BY JtagUartAssumption DEF Ring, Room

\* Storing a byte in a ring that is not full takes none from the reader.
LEMMA AvailableGrows ==
    ASSUME NEW i \in Ring, NEW o \in Ring, NextIndex(i) # o
    PROVE  Available(i, o) <= Available(NextIndex(i), o)
BY JtagUartAssumption, NextIndexValue DEF Ring, Available

\* Taking a byte from a ring that is not empty takes no room from the writer.
LEMMA RoomGrows ==
    ASSUME NEW i \in Ring, NEW o \in Ring, i # o
    PROVE  Room(i, o) <= Room(i, NextIndex(o))
<1>1. NextIndex(o) \in Ring
    BY NextIndexType
<1> QED
    BY <1>1, JtagUartAssumption, NextIndexValue, RoomValue DEF Ring

LEMMA LeastType ==
    ASSUME NEW a \in Nat, NEW b \in Nat
    PROVE  Least(a, b) \in 0 .. b /\ Least(a, b) <= a
BY DEF Least

LEMMA ZeroIsInRing == 0 \in Ring
BY JtagUartAssumption DEF Ring

-----------------------------------------------------------------------------
(* The calls. *)

LEMMA InitCalling == Init => Calling
BY ZeroIsInRing
   DEF Init, CoreReset, Calling, Indexed, CallIsOf, ChunkFits, ReadSteps, WriteSteps, SectionSteps,
       ChunkSteps, Call, NoCall

\* What a call that returns leaves: the thread idle, with no locals.
Ended == pc = "idle" /\ call = NoCall /\ in = 0 /\ out = 0 /\ n = 0

LEMMA EndedIsCalling ==
    ASSUME Calling, UNCHANGED rings, Ended'
    PROVE  Calling'
BY ZeroIsInRing
   DEF Calling, Indexed, CallIsOf, ChunkFits, ReadSteps, WriteSteps, SectionSteps, ChunkSteps,
       Call, NoCall, Ended, rings

\* A call goes on by the bytes of its chunk.
LEMMA ChunkAdvances ==
    ASSUME call \in Call, n \in 1 .. call.left, call' = [call EXCEPT !.left = @ - n, !.done = @ + n]
    PROVE  call' \in Call /\ call'.op = call.op /\ call'.done > 0
<1>1. call.left \in Nat /\ call.done \in Nat /\ n \in Nat /\ n <= call.left /\ n > 0
    BY DEF Call
<1>2. call.left - n \in Nat /\ call.done + n \in Nat /\ call.done + n > 0
    BY <1>1
<1> DEFINE left == call.left - n
           done == call.done + n
<1>3. call' = [call EXCEPT !.left = left, !.done = done]
    OBVIOUS
<1> HIDE DEF left, done
<1>4. call' \in Call /\ call'.op = call.op /\ call'.done = done
    BY <1>2, <1>3 DEF Call, left, done
<1> QED
    BY <1>2, <1>4 DEF done

LEMMA CallingHolds ==
    ASSUME Calling, Next
    PROVE  Calling'
<1> USE DEF Thread, Goto, IsrGoto, Undisturbed, vars, coreVars, hostVars, rings, clockVars,
            threadVars, locals, tallies, isrVars
<1> USE ZeroIsInRing
    DEF Calling, Indexed, CallIsOf, ChunkFits, ReadSteps, WriteSteps, SectionSteps, ChunkSteps, Call, NoCall
<1>1. CASE DriverStarts
    BY <1>1 DEF DriverStarts, WriteControl
<1>2. CASE CallsRead
    BY <1>2 DEF CallsRead, Calls
<1>3. CASE CallsWrite
    BY <1>3 DEF CallsWrite, Calls
<1>4. CASE CallsClose
    BY <1>4 DEF CallsClose, Calls
<1>5. CASE CallsIoctl
    BY <1>5 DEF CallsIoctl
<1>6. CASE ReadLooks
    <2> DEFINE count == Least(Available(rx_in, rx_out), call.left)
    <2>1. call.left \in Nat /\ Available(rx_in, rx_out) \in Nat
        BY AvailableType DEF Call
    <2>2. count \in 0 .. call.left
        BY <2>1, LeastType
    <2>3. CASE count # 0
        BY <1>6, <2>1, <2>2, <2>3 DEF ReadLooks
    <2>4. CASE count = 0
        <3>1. ReadLoopEnds /\ UNCHANGED rings /\ pc = "read"
            BY <1>6, <2>4 DEF ReadLooks
        <3>2. CASE call.done > 0
            BY <3>1, <3>2 DEF ReadLoopEnds
        <3>3. CASE ~(call.done > 0) /\ (call.nonblock \/ call.left = 0)
            <4>1. Ended'
                BY <3>1, <3>3 DEF ReadLoopEnds, Return, Ended
            <4> QED
                BY <3>1, <4>1, EndedIsCalling
        <3>4. CASE ~(call.done > 0) /\ ~(call.nonblock \/ call.left = 0)
            BY <3>1, <3>4 DEF ReadLoopEnds
        <3> QED
            BY <3>2, <3>3, <3>4
    <2> QED
        BY <2>3, <2>4
<1>7. CASE ReadCopies
    BY <1>7 DEF ReadCopies
<1>8. CASE ReadAdvances
    <2>1. call' \in Call /\ call'.op = call.op
        BY <1>8, ChunkAdvances DEF ReadAdvances
    <2>2. (out + n) % BufLen \in Ring
        BY WrapType, JtagUartAssumption DEF Ring
    <2> QED
        BY <1>8, <2>1, <2>2 DEF ReadAdvances
<1>9. CASE ReadStopsWaiting
    BY <1>9 DEF ReadStopsWaiting
<1>10. CASE ReadChecks
    <2>1. UNCHANGED rings
        BY <1>10 DEF ReadChecks
    <2>2. CASE rx_in = in
        <3>1. Ended'
            BY <1>10, <2>2 DEF ReadChecks, Return, Ended
        <3> QED
            BY <2>1, <3>1, EndedIsCalling
    <2>3. CASE ~(rx_in = in)
        BY <1>10, <2>3 DEF ReadChecks
    <2> QED
        BY <2>2, <2>3
<1>11. CASE WriteLooks
    <2> DEFINE count == Least(Room(tx_in, tx_out), call.left)
    <2>1. call.left \in Nat /\ Room(tx_in, tx_out) \in Nat
        BY RoomType DEF Call
    <2>2. count \in 0 .. call.left
        BY <2>1, LeastType
    <2> HIDE DEF count
    <2>3. n' = count /\ in' = tx_in /\ out' = tx_out /\ pc = "write" /\ UNCHANGED <<rings, call>>
        BY <1>11 DEF WriteLooks, count
    <2>4. pc' = IF count = 0 THEN "disable" ELSE "write_copy"
        BY <1>11 DEF WriteLooks, count
    <2> QED
        BY <2>2, <2>3, <2>4
<1>12. CASE WriteCopies
    BY <1>12 DEF WriteCopies
<1>13. CASE WriteAdvances
    <2>1. call' \in Call /\ call'.op = call.op
        BY <1>13, ChunkAdvances DEF WriteAdvances
    <2>2. (in + n) % BufLen \in Ring
        BY WrapType, JtagUartAssumption DEF Ring
    <2> QED
        BY <1>13, <2>1, <2>2 DEF WriteAdvances
<1>14. CASE WriteStopsWaiting
    BY <1>14 DEF WriteStopsWaiting
<1>15. CASE WriteChecks
    <2>1. UNCHANGED rings
        BY <1>15 DEF WriteChecks
    <2>2. CASE host_inactive # 0
        <3>1. Ended'
            BY <1>15, <2>2 DEF WriteChecks, Return, Ended
        <3> QED
            BY <2>1, <3>1, EndedIsCalling
    <2>3. CASE ~(host_inactive # 0)
        BY <1>15, <2>3 DEF WriteChecks
    <2> QED
        BY <2>2, <2>3
<1>16. CASE Disables
    BY <1>16 DEF Disables
<1>17. CASE LoadsMask
    BY <1>17 DEF LoadsMask
<1>18. CASE StoresMask
    BY <1>18 DEF StoresMask, CallBit
<1>19. CASE WritesControl
    BY <1>19 DEF WritesControl, WriteControl
<1>20. CASE Enables
    <2>1. UNCHANGED rings
        BY <1>20 DEF Enables
    <2>2. CASE call.op = "read" \/ ~(call.left > 0 /\ ~call.nonblock)
        <3>1. Ended'
            BY <1>20, <2>2 DEF Enables, Return, Ended
        <3> QED
            BY <2>1, <3>1, EndedIsCalling
    <2>3. CASE ~(call.op = "read" \/ ~(call.left > 0 /\ ~call.nonblock))
        BY <1>20, <2>3 DEF Enables
    <2> QED
        BY <2>2, <2>3
<1>21. CASE Closes
    <2>1. UNCHANGED rings
        BY <1>21 DEF Closes
    <2>2. Ended'
        BY <1>21 DEF Closes, Return, Ended
    <2> QED
        BY <2>1, <2>2, EndedIsCalling
<1>22. CASE IsrEnters
    BY <1>22 DEF IsrEnters
<1>23. CASE IsrReadsControl
    BY <1>23 DEF IsrReadsControl, RI, WI
<1>24. CASE IsrReceives
    BY <1>24, NextIndexType DEF IsrReceives, TakeNothing, TakeReceived
<1>25. CASE IsrReceived
    BY <1>25 DEF IsrReceived, TurnsOff
<1>26. CASE IsrSends
    BY <1>26, NextIndexType DEF IsrSends, WriteData
<1>27. CASE IsrSent
    BY <1>27 DEF IsrSent, TurnsOff
<1>28. CASE Tick
    BY <1>28 DEF Tick, WriteControl
<1>29. CASE HostStep
    BY <1>29 DEF HostStep, Host, HostTypes, HostPauses, HostTakes, HostUnplugged, HostPlugged
<1>30. CASE IsrSeesAvail
    BY <1>30 DEF IsrSeesAvail
<1> QED
    BY <1>1, <1>2, <1>3, <1>4, <1>5, <1>6, <1>7, <1>8, <1>9, <1>10, <1>11, <1>12, <1>13, <1>14,
       <1>15, <1>16, <1>17, <1>18, <1>19, <1>20, <1>21, <1>22, <1>23, <1>24, <1>25, <1>26, <1>27,
       <1>28, <1>29, <1>30 DEF Next, NewCall, InCall, Isr

-----------------------------------------------------------------------------
(* The chunk being copied. *)

LEMMA InitChunk == Init => ChunkIsFree
BY DEF Init, ChunkIsFree

LEMMA ChunkHolds ==
    ASSUME Calling, Masking, ChunkIsFree, Next
    PROVE  ChunkIsFree'
<1> USE DEF Thread, Goto, IsrGoto, Undisturbed, vars, coreVars, hostVars, rings, clockVars,
            threadVars, locals, tallies, isrVars
<1> USE DEF ChunkIsFree
<1>1. CASE DriverStarts
    BY <1>1 DEF DriverStarts
<1>2. CASE CallsRead
    BY <1>2 DEF CallsRead, Calls
<1>3. CASE CallsWrite
    BY <1>3 DEF CallsWrite, Calls
<1>4. CASE CallsClose
    BY <1>4 DEF CallsClose, Calls
<1>5. CASE CallsIoctl
    BY <1>5 DEF CallsIoctl
<1>6. CASE ReadLooks
    <2>1. call.left \in Nat /\ rx_in \in Ring /\ rx_out \in Ring /\ Available(rx_in, rx_out) \in Nat
        BY AvailableType DEF Calling, Indexed, Call
    <2>2. Least(Available(rx_in, rx_out), call.left) <= Available(rx_in, rx_out)
        BY <2>1, LeastType
    <2> QED
        BY <1>6, <2>2 DEF ReadLooks, ReadLoopEnds, Return
<1>7. CASE ReadCopies
    BY <1>7 DEF ReadCopies
<1>8. CASE ReadAdvances
    BY <1>8 DEF ReadAdvances
<1>9. CASE ReadStopsWaiting
    BY <1>9 DEF ReadStopsWaiting
<1>10. CASE ReadChecks
    BY <1>10 DEF ReadChecks, Return
<1>11. CASE WriteLooks
    <2>1. call.left \in Nat /\ tx_in \in Ring /\ tx_out \in Ring /\ Room(tx_in, tx_out) \in Nat
        BY RoomType DEF Calling, Indexed, Call
    <2>2. Least(Room(tx_in, tx_out), call.left) <= Room(tx_in, tx_out)
        BY <2>1, LeastType
    <2> QED
        BY <1>11, <2>2 DEF WriteLooks
<1>12. CASE WriteCopies
    BY <1>12 DEF WriteCopies
<1>13. CASE WriteAdvances
    BY <1>13 DEF WriteAdvances
<1>14. CASE WriteStopsWaiting
    BY <1>14 DEF WriteStopsWaiting
<1>15. CASE WriteChecks
    BY <1>15 DEF WriteChecks, Return
<1>16. CASE Disables
    BY <1>16 DEF Disables
<1>17. CASE LoadsMask
    BY <1>17 DEF LoadsMask
<1>18. CASE StoresMask
    BY <1>18 DEF StoresMask
<1>19. CASE WritesControl
    BY <1>19 DEF WritesControl
<1>20. CASE Enables
    BY <1>20 DEF Enables, Return
<1>21. CASE Closes
    BY <1>21 DEF Closes, Return
<1>22. CASE IsrEnters
    BY <1>22 DEF IsrEnters
<1>23. CASE IsrReadsControl
    BY <1>23 DEF IsrReadsControl
<1>24. CASE IsrReceives
    <2>1. rx_in \in Ring /\ rx_out \in Ring /\ NextIndex(rx_in) \in Ring /\ n \in Nat
        BY NextIndexType DEF Calling, Indexed
    <2>2. CASE UNCHANGED rx_in
        BY <1>24, <2>2 DEF IsrReceives
    <2>3. CASE NextIndex(rx_in) # rx_out /\ rx_in' = NextIndex(rx_in)
        <3>1. Available(rx_in, rx_out) <= Available(rx_in', rx_out)
            BY <2>1, <2>3, AvailableGrows
        <3>2. Available(rx_in, rx_out) \in Nat /\ Available(rx_in', rx_out) \in Nat
            BY <2>1, <2>3, AvailableType
        <3> QED
            BY <1>24, <2>1, <3>1, <3>2 DEF IsrReceives
    <2> QED
        BY <1>24, <2>2, <2>3 DEF IsrReceives
<1>25. CASE IsrReceived
    BY <1>25 DEF IsrReceived
<1>26. CASE IsrSends
    <2>1. tx_in \in Ring /\ tx_out \in Ring /\ NextIndex(tx_out) \in Ring /\ n \in Nat
        BY NextIndexType DEF Calling, Indexed
    <2>2. tx_out # tx_in /\ tx_out' = NextIndex(tx_out)
        BY <1>26 DEF IsrSends
    <2>3. Room(tx_in, tx_out) <= Room(tx_in, tx_out')
        BY <2>1, <2>2, RoomGrows
    <2>4. Room(tx_in, tx_out) \in Nat /\ Room(tx_in, tx_out') \in Nat
        BY <2>1, <2>2, RoomType
    <2> QED
        BY <1>26, <2>1, <2>3, <2>4 DEF IsrSends
<1>27. CASE IsrSent
    BY <1>27 DEF IsrSent
<1>28. CASE Tick
    BY <1>28 DEF Tick
<1>29. CASE HostStep
    BY <1>29 DEF HostStep
<1>30. CASE IsrSeesAvail
    BY <1>30 DEF IsrSeesAvail
<1> QED
    BY <1>1, <1>2, <1>3, <1>4, <1>5, <1>6, <1>7, <1>8, <1>9, <1>10, <1>11, <1>12, <1>13, <1>14,
       <1>15, <1>16, <1>17, <1>18, <1>19, <1>20, <1>21, <1>22, <1>23, <1>24, <1>25, <1>26, <1>27,
       <1>28, <1>29, <1>30 DEF Next, NewCall, InCall, Isr

-----------------------------------------------------------------------------
(* The mask. *)

LEMMA InitMasking == Init => Masking
BY DEF Init, CoreReset, Masking, SectionIsCritical, InSection, MaskIsWritten

LEMMA MaskingHolds ==
    ASSUME Masking, Next
    PROVE  Masking'
<1> USE DEF Thread, Goto, IsrGoto, Undisturbed, vars, coreVars, hostVars, rings, clockVars,
            threadVars, locals, tallies, isrVars
<1> USE DEF Masking, SectionIsCritical, InSection, MaskIsWritten
<1>1. CASE DriverStarts
    BY <1>1 DEF DriverStarts, WriteControl
<1>2. CASE CallsRead
    BY <1>2 DEF CallsRead, Calls
<1>3. CASE CallsWrite
    BY <1>3 DEF CallsWrite, Calls
<1>4. CASE CallsClose
    BY <1>4 DEF CallsClose, Calls
<1>5. CASE CallsIoctl
    BY <1>5 DEF CallsIoctl
<1>6. CASE ReadLooks
    BY <1>6 DEF ReadLooks, Return, ReadLoopEnds, Blocked
<1>7. CASE ReadCopies
    BY <1>7 DEF ReadCopies
<1>8. CASE ReadAdvances
    BY <1>8 DEF ReadAdvances
<1>9. CASE ReadStopsWaiting
    BY <1>9 DEF ReadStopsWaiting
<1>10. CASE ReadChecks
    BY <1>10 DEF ReadChecks, Return, Blocked
<1>11. CASE WriteLooks
    BY <1>11 DEF WriteLooks
<1>12. CASE WriteCopies
    BY <1>12 DEF WriteCopies
<1>13. CASE WriteAdvances
    BY <1>13 DEF WriteAdvances
<1>14. CASE WriteStopsWaiting
    BY <1>14 DEF WriteStopsWaiting
<1>15. CASE WriteChecks
    BY <1>15 DEF WriteChecks, Return, Blocked, Written
<1>16. CASE Disables
    BY <1>16 DEF Disables
<1>17. CASE LoadsMask
    BY <1>17 DEF LoadsMask
<1>18. CASE StoresMask
    BY <1>18 DEF StoresMask, CallBit
<1>19. CASE WritesControl
    BY <1>19 DEF WritesControl, WriteControl
<1>20. CASE Enables
    BY <1>20 DEF Enables, Return, Blocked, Written
<1>21. CASE Closes
    BY <1>21 DEF Closes, Return, Blocked
<1>22. CASE IsrEnters
    BY <1>22 DEF IsrEnters
<1>23. CASE IsrReadsControl
    BY <1>23 DEF IsrReadsControl, RI, WI
<1>24. CASE IsrReceives
    BY <1>24 DEF IsrReceives, TakeNothing, TakeReceived
<1>25. CASE IsrReceived
    BY <1>25 DEF IsrReceived, TurnsOff, WriteControl
<1>26. CASE IsrSends
    BY <1>26 DEF IsrSends, WriteData
<1>27. CASE IsrSent
    BY <1>27 DEF IsrSent, TurnsOff, WriteControl
<1>28. CASE Tick
    BY <1>28 DEF Tick, WriteControl
<1>29. CASE HostStep
    BY <1>29 DEF HostStep, Host, HostTypes, HostPauses, HostTakes, HostUnplugged, HostPlugged
<1>30. CASE IsrSeesAvail
    BY <1>30 DEF IsrSeesAvail
<1> QED
    BY <1>1, <1>2, <1>3, <1>4, <1>5, <1>6, <1>7, <1>8, <1>9, <1>10, <1>11, <1>12, <1>13, <1>14,
       <1>15, <1>16, <1>17, <1>18, <1>19, <1>20, <1>21, <1>22, <1>23, <1>24, <1>25, <1>26, <1>27,
       <1>28, <1>29, <1>30 DEF Next, NewCall, InCall, Isr

-----------------------------------------------------------------------------
(* What is enabled, and what is wanted. *)

LEMMA InitServing == Init => Serving
BY DEF Init, CoreReset, Serving

LEMMA ServingHolds ==
    ASSUME Masking, Serving, Next
    PROVE  Serving'
<1> USE DEF Thread, Goto, IsrGoto, Undisturbed, vars, coreVars, hostVars, rings, clockVars,
            threadVars, locals, tallies, isrVars
<1> USE DEF Masking, SectionIsCritical, InSection, MaskIsWritten, Serving
<1>1. CASE DriverStarts
    <2>1. isr = "off" /\ ~wi /\ UNCHANGED <<isr, wi>>
        BY <1>1 DEF DriverStarts
    <2> QED
        BY <2>1
<1>2. CASE CallsRead
    BY <1>2 DEF CallsRead, Calls
<1>3. CASE CallsWrite
    BY <1>3 DEF CallsWrite, Calls
<1>4. CASE CallsClose
    BY <1>4 DEF CallsClose, Calls
<1>5. CASE CallsIoctl
    BY <1>5 DEF CallsIoctl
<1>6. CASE ReadLooks
    BY <1>6 DEF ReadLooks, Return, ReadLoopEnds, Blocked
<1>7. CASE ReadCopies
    BY <1>7 DEF ReadCopies
<1>8. CASE ReadAdvances
    BY <1>8 DEF ReadAdvances
<1>9. CASE ReadStopsWaiting
    BY <1>9 DEF ReadStopsWaiting
<1>10. CASE ReadChecks
    BY <1>10 DEF ReadChecks, Return, Blocked
<1>11. CASE WriteLooks
    BY <1>11 DEF WriteLooks
<1>12. CASE WriteCopies
    BY <1>12 DEF WriteCopies
<1>13. CASE WriteAdvances
    BY <1>13 DEF WriteAdvances
<1>14. CASE WriteStopsWaiting
    BY <1>14 DEF WriteStopsWaiting
<1>15. CASE WriteChecks
    BY <1>15 DEF WriteChecks, Return, Blocked, Written
<1>16. CASE Disables
    BY <1>16 DEF Disables
<1>17. CASE LoadsMask
    BY <1>17 DEF LoadsMask
<1>18. CASE StoresMask
    BY <1>18 DEF StoresMask, CallBit
<1>19. CASE WritesControl
    BY <1>19 DEF WritesControl, WriteControl
<1>20. CASE Enables
    BY <1>20 DEF Enables, Return, Blocked, Written
<1>21. CASE Closes
    BY <1>21 DEF Closes, Return, Blocked
<1>22. CASE IsrEnters
    BY <1>22 DEF IsrEnters
<1>23. CASE IsrReadsControl
    BY <1>23 DEF IsrReadsControl, RI, WI
<1>24. CASE IsrReceives
    BY <1>24 DEF IsrReceives, TakeNothing, TakeReceived
<1>25. CASE IsrReceived
    BY <1>25 DEF IsrReceived, TurnsOff
<1>26. CASE IsrSends
    BY <1>26 DEF IsrSends, WriteData
<1>27. CASE IsrSent
    BY <1>27 DEF IsrSent, TurnsOff
<1>28. CASE Tick
    BY <1>28 DEF Tick, WriteControl
<1>29. CASE HostStep
    BY <1>29 DEF HostStep, Host, HostTypes, HostPauses, HostTakes, HostUnplugged, HostPlugged
<1>30. CASE IsrSeesAvail
    BY <1>30 DEF IsrSeesAvail
<1> QED
    BY <1>1, <1>2, <1>3, <1>4, <1>5, <1>6, <1>7, <1>8, <1>9, <1>10, <1>11, <1>12, <1>13, <1>14,
       <1>15, <1>16, <1>17, <1>18, <1>19, <1>20, <1>21, <1>22, <1>23, <1>24, <1>25, <1>26, <1>27,
       <1>28, <1>29, <1>30 DEF Next, NewCall, InCall, Isr

LEMMA InitFetching == Init => Fetching
BY DEF Init, CoreReset, Fetching

\* Everything but the routine's receive loop and the host leaves alone what the
\* loop has to fetch, and happens outside of it.
Elsewhere ==
    /\ UNCHANGED <<rfifo, typed, pause_irq>>
    /\ isr' \notin {"receive", "taken", "none", "received"}

LEMMA OutsideTheLoop ==
    ASSUME Masking, DriverStarts \/ NewCall \/ InCall \/ IsrEnters \/ IsrSends \/ IsrSent \/ Tick
    PROVE  Elsewhere
<1> USE DEF Elsewhere, Thread, Goto, IsrGoto, Undisturbed, coreVars, hostVars, isrVars
<1>1. CASE DriverStarts
    BY <1>1 DEF DriverStarts, WriteControl, Masking, SectionIsCritical
<1>2. CASE NewCall
    BY <1>2 DEF NewCall, CallsRead, CallsWrite, CallsClose, Calls, CallsIoctl
<1>3. CASE ReadLooks \/ ReadCopies \/ ReadAdvances \/ ReadStopsWaiting \/ ReadChecks
    BY <1>3 DEF ReadLooks, ReadCopies, ReadAdvances, ReadStopsWaiting, ReadChecks
<1>4. CASE WriteLooks \/ WriteCopies \/ WriteAdvances \/ WriteStopsWaiting \/ WriteChecks
    BY <1>4 DEF WriteLooks, WriteCopies, WriteAdvances, WriteStopsWaiting, WriteChecks
<1>5. CASE Disables \/ LoadsMask \/ StoresMask \/ WritesControl \/ Enables \/ Closes
    BY <1>5 DEF Disables, LoadsMask, StoresMask, WritesControl, WriteControl, Enables, Closes
<1>6. CASE IsrEnters
    BY <1>6 DEF IsrEnters
<1>7. CASE IsrSends
    BY <1>7 DEF IsrSends, WriteData
<1>8. CASE IsrSent
    BY <1>8 DEF IsrSent, TurnsOff, WriteControl
<1>9. CASE Tick
    BY <1>9 DEF Tick, WriteControl
<1> QED
    BY <1>1, <1>2, <1>3, <1>4, <1>5, <1>6, <1>7, <1>8, <1>9 DEF InCall

LEMMA FetchingHolds ==
    ASSUME Calling, Serving, Fetching, Masking, Next
    PROVE  Fetching'
<1> USE DEF Fetching
<1>1. CASE DriverStarts \/ NewCall \/ InCall \/ IsrEnters \/ IsrSends \/ IsrSent \/ Tick
    BY <1>1, OutsideTheLoop DEF Elsewhere
<1>2. CASE IsrReadsControl
    <2>1. RI => rfifo # <<>>
        BY UartCoreAssumption DEF RI
    <2>2. UNCHANGED <<rfifo, typed, pause_irq>> /\ isr' \in {"receive", "send", "off"}
          /\ (isr' = "receive" => RI)
        BY <1>2 DEF IsrReadsControl, IsrGoto, coreVars, hostVars
    <2> QED
        BY <2>1, <2>2
<1>3. CASE IsrReceives
    <2>1. isr = "receive" /\ rx_in \in Ring /\ rx_out \in Ring /\ UNCHANGED <<typed, rx_out>>
        BY <1>3 DEF IsrReceives, Calling, Indexed, hostVars
    <2>2. CASE NextIndex(rx_in) = rx_out /\ isr' = "received" /\ UNCHANGED <<coreVars, rx_in>>
        <3>1. rx_in # rx_out
            BY <2>1, <2>2, NextIndexValue, JtagUartAssumption DEF Ring
        <3> QED
            BY <2>1, <2>2, <3>1 DEF coreVars
    <2>3. CASE TakeNothing /\ isr' = "none" /\ UNCHANGED rx_in
        BY <2>1, <2>3 DEF TakeNothing
    <2>4. CASE NextIndex(rx_in) # rx_out /\ TakeReceived /\ isr' = "taken" /\ rx_in' = NextIndex(rx_in)
        BY <2>1, <2>4 DEF TakeReceived
    <2> QED
        BY <1>3, <2>2, <2>3, <2>4 DEF IsrReceives, IsrGoto
<1>4. CASE IsrSeesAvail
    BY <1>4 DEF IsrSeesAvail, IsrGoto, coreVars, hostVars, rings
<1>5. CASE IsrReceived
    BY <1>5 DEF IsrReceived, IsrGoto, TurnsOff, WriteControl, coreVars, hostVars
<1>6. CASE HostStep
    <2>1. UNCHANGED <<isr, rx_in, rx_out>>
        BY <1>6 DEF HostStep, isrVars, rings
    <2>2. CASE HostTypes
        <3>1. rfifo' \in Seq(Nat) /\ rfifo' # <<>> /\ typed' \in Nat
            BY <2>2 DEF HostTypes
        <3> QED
            BY <2>1, <3>1
    <2>3. CASE HostPauses
        BY <2>1, <2>3 DEF HostPauses, hostVars
    <2>4. CASE HostTakes \/ HostUnplugged \/ HostPlugged
        BY <2>1, <2>4 DEF HostTakes, HostUnplugged, HostPlugged, coreVars
    <2> QED
        BY <1>6, <2>2, <2>3, <2>4 DEF HostStep, Host
<1> QED
    BY <1>1, <1>2, <1>3, <1>4, <1>5, <1>6 DEF Next, Isr

LEMMA InitWanting == Init => Wanting
BY DEF Init, CoreReset, Wanting

LEMMA WantingHolds ==
    ASSUME DriverInv, Next
    PROVE  Wanting'
<1> USE DEF Thread, Goto, IsrGoto, Undisturbed, vars, coreVars, hostVars, rings, clockVars,
            threadVars, locals, tallies, isrVars
<1> USE DEF DriverInv, Calling, CallIsOf, ChunkFits, ReadSteps, WriteSteps, SectionSteps, ChunkSteps,
           Masking, SectionIsCritical, InSection, Serving, Fetching, Wanting, ReadOwes, WriteOwes
<1>1. CASE DriverStarts
    BY <1>1 DEF DriverStarts, WriteControl
<1>2. CASE CallsRead
    BY <1>2 DEF CallsRead, Calls
<1>3. CASE CallsWrite
    BY <1>3 DEF CallsWrite, Calls
<1>4. CASE CallsClose
    BY <1>4 DEF CallsClose, Calls
<1>5. CASE CallsIoctl
    BY <1>5 DEF CallsIoctl
<1>6. CASE ReadLooks
    BY <1>6 DEF ReadLooks, Return, ReadLoopEnds, Blocked
<1>7. CASE ReadCopies
    BY <1>7 DEF ReadCopies
<1>8. CASE ReadAdvances
    <2>1. call'.op = call.op /\ call'.done > 0
        BY <1>8, ChunkAdvances DEF ReadAdvances, Indexed
    <2> QED
        BY <1>8, <2>1 DEF ReadAdvances
<1>9. CASE ReadStopsWaiting
    BY <1>9 DEF ReadStopsWaiting
<1>10. CASE ReadChecks
    BY <1>10 DEF ReadChecks, Return, Blocked
<1>11. CASE WriteLooks
    BY <1>11 DEF WriteLooks
<1>12. CASE WriteCopies
    BY <1>12 DEF WriteCopies
<1>13. CASE WriteAdvances
    <2>1. call'.op = call.op /\ call'.done > 0
        BY <1>13, ChunkAdvances DEF WriteAdvances, Indexed
    <2> QED
        BY <1>13, <2>1 DEF WriteAdvances
<1>14. CASE WriteStopsWaiting
    BY <1>14 DEF WriteStopsWaiting
<1>15. CASE WriteChecks
    BY <1>15 DEF WriteChecks, Return, Blocked, Written
<1>16. CASE Disables
    BY <1>16 DEF Disables
<1>17. CASE LoadsMask
    BY <1>17 DEF LoadsMask
<1>18. CASE StoresMask
    BY <1>18 DEF StoresMask, CallBit
<1>19. CASE WritesControl
    BY <1>19 DEF WritesControl, WriteControl
<1>20. CASE Enables
    BY <1>20 DEF Enables, Return, Blocked, Written
<1>21. CASE Closes
    BY <1>21 DEF Closes, Return, Blocked
<1>22. CASE IsrEnters
    BY <1>22 DEF IsrEnters
<1>23. CASE IsrReadsControl
    BY <1>23 DEF IsrReadsControl, RI, WI
<1>24. CASE IsrReceives
    BY <1>24 DEF IsrReceives, TakeNothing, TakeReceived
<1>25. CASE IsrReceived
    BY <1>25 DEF IsrReceived, TurnsOff
<1>26. CASE IsrSends
    BY <1>26 DEF IsrSends, WriteData
<1>27. CASE IsrSent
    <2>1. "WE" \in irq_enable
        BY <1>27 DEF IsrSent
    <2>2. CASE space > 0 /\ TurnsOff("WE")
        BY <1>27, <2>2 DEF IsrSent, TurnsOff
    <2>3. CASE UNCHANGED irq_enable
        BY <1>27, <2>1, <2>3 DEF IsrSent
    <2> QED
        BY <1>27, <2>2, <2>3 DEF IsrSent
<1>28. CASE Tick
    BY <1>28 DEF Tick, WriteControl
<1>29. CASE HostStep
    BY <1>29 DEF HostStep, Host, HostTypes, HostPauses, HostTakes, HostUnplugged, HostPlugged
<1>30. CASE IsrSeesAvail
    BY <1>30 DEF IsrSeesAvail
<1> QED
    BY <1>1, <1>2, <1>3, <1>4, <1>5, <1>6, <1>7, <1>8, <1>9, <1>10, <1>11, <1>12, <1>13, <1>14,
       <1>15, <1>16, <1>17, <1>18, <1>19, <1>20, <1>21, <1>22, <1>23, <1>24, <1>25, <1>26, <1>27,
       <1>28, <1>29, <1>30 DEF Next, NewCall, InCall, Isr

-----------------------------------------------------------------------------
(* The theorems. *)

LEMMA InitDriverInv == Init => DriverInv
BY InitCalling, InitChunk, InitMasking, InitServing, InitFetching, InitWanting DEF DriverInv

LEMMA StutterDriverInv == DriverInv /\ UNCHANGED vars => DriverInv'
BY DEF DriverInv, Calling, Indexed, CallIsOf, ChunkFits, ChunkIsFree, Masking, SectionIsCritical,
   InSection,
       MaskIsWritten, Serving, Fetching, Wanting, ReadOwes, WriteOwes,
       vars, coreVars, hostVars, rings, clockVars, threadVars, locals, tallies, isrVars

LEMMA StepDriverInv == DriverInv /\ [Next]_vars => DriverInv'
<1> SUFFICES ASSUME DriverInv, [Next]_vars PROVE DriverInv'
    OBVIOUS
<1>1. CASE Next
    BY <1>1, CallingHolds, ChunkHolds, MaskingHolds, ServingHolds, FetchingHolds, WantingHolds
       DEF DriverInv
<1>2. CASE UNCHANGED vars
    BY <1>2, StutterDriverInv
<1> QED
    BY <1>1, <1>2

\* The layers together hold in every state the driver can reach.
THEOREM DriverKeepsInv == Spec => []DriverInv
BY InitDriverInv, StepDriverInv, PTL DEF Spec

\* irq_enable and the control register agree wherever the thread or the
\* interrupt routine may look, for rings and FIFOs of every length.
THEOREM MaskTheorem == Spec => []MaskIsWritten
<1>1. DriverInv => MaskIsWritten
    BY DEF DriverInv, Masking
<1> QED
    BY <1>1, DriverKeepsInv, PTL

\* No interrupt is left off without something that will turn it on: with the
\* receive interrupt off the ring holds a byte for the next read, though it need
\* not be full.  What keeps a blocking call from spinning for ever, for rings
\* and FIFOs of every length.
THEOREM ComeBackTheorem == Spec => []InterruptsComeBack
<1>1. DriverInv => InterruptsComeBack
    BY DEF DriverInv, Wanting, InterruptsComeBack, ReadOwes, WriteOwes
<1> QED
    BY <1>1, DriverKeepsInv, PTL

\* What a memcpy moves is the thread's alone until the new index is stored,
\* whatever the routine does meanwhile: no byte is copied before it is there,
\* none is overwritten before it is taken, and neither end of a ring is passed.
THEOREM ChunkTheorem == Spec => []ChunkIsFree
<1>1. DriverInv => ChunkIsFree
    BY DEF DriverInv
<1> QED
    BY <1>1, DriverKeepsInv, PTL

-----------------------------------------------------------------------------
(* The invariant of the bytes. *)

\* Slots from one index up to another.
Count(first, last) == IF last >= first THEN last - first ELSE (last + BufLen) - first

\* Bytes read has copied out and not yet taken out of the ring.
Handed == IF pc = "read_advance" THEN n ELSE 0
\* Bytes that have left the ring.
Gone == Len(got) - Handed
Received == Count(rx_out, rx_in)

ReceiveTyped ==
    /\ rfifo \in Seq(Nat) /\ got \in Seq(Nat) /\ typed \in Nat /\ rx_buf \in [Ring -> Nat]
    /\ Len(rfifo) <= FifoDepth

Receiving ==
    /\ typed = (Gone + Received) + Len(rfifo)
    /\ Gone >= 0
    /\ \A j \in 1 .. Len(got) : got[j] = j
    /\ \A i \in Ring : Count(rx_out, i) < Received => rx_buf[i] = (Gone + Count(rx_out, i)) + 1
    /\ \A j \in 1 .. Len(rfifo) : rfifo[j] = (Gone + Received) + j

\* The same towards the terminal: a byte has passed once it is in the FIFO.
Pending == Count(tx_out, tx_in)
Passed  == Len(shown) + Len(wfifo)

SendTyped ==
    /\ wfifo \in Seq(Nat) /\ shown \in Seq(Nat) /\ sent \in Nat /\ tx_buf \in [Ring -> Nat]
    /\ space \in Nat /\ Len(wfifo) + space <= FifoDepth

Sending ==
    /\ sent = Passed + Pending
    /\ \A j \in 1 .. Len(shown) : shown[j] = j
    /\ \A j \in 1 .. Len(wfifo) : wfifo[j] = Len(shown) + j
    /\ \A i \in Ring : Count(tx_out, i) < Pending => tx_buf[i] = (Passed + Count(tx_out, i)) + 1
    /\ pc = "write_advance" => \A i \in in .. (in + n) - 1 : tx_buf[i] = sent + ((i - in) + 1)

Telling ==
    /\ told \in [read : Nat, write : Nat]
    /\ pc \in {"idle", "boot"} <=> call.op = "none"
    /\ pc = "close" <=> call.op = "close"
    /\ told.read + (IF call.op = "read" THEN call.done + Handed ELSE 0) = Len(got)
    /\ told.write + (IF call.op = "write" THEN call.done ELSE 0) = sent
    /\ pc \in {"read_wait", "read_check"} => call.done = 0
    /\ pc \in SectionSteps /\ call.op = "read" => call.done > 0

OrderInv == DriverInv /\ ReceiveTyped /\ Receiving /\ SendTyped /\ Sending /\ Telling

-----------------------------------------------------------------------------
(* The rings. *)

LEMMA CountType == \A i, o \in Ring : Count(o, i) \in Ring
BY JtagUartAssumption DEF Ring, Count

LEMMA CountOfNext ==
    ASSUME NEW i \in Ring, NEW o \in Ring, NextIndex(i) # o
    PROVE  Count(o, NextIndex(i)) = Count(o, i) + 1
BY JtagUartAssumption, NextIndexValue DEF Ring, Count

LEMMA CountFromNext ==
    ASSUME NEW i \in Ring, NEW o \in Ring, i # o
    PROVE  Count(NextIndex(o), i) = Count(o, i) - 1
<1>1. NextIndex(o) \in Ring
    BY NextIndexType
<1> QED
    BY <1>1, JtagUartAssumption, NextIndexValue DEF Ring, Count

LEMMA CountIsInjective ==
    ASSUME NEW o \in Ring, NEW i \in Ring, NEW k \in Ring, Count(o, i) = Count(o, k)
    PROVE  i = k
BY JtagUartAssumption DEF Ring, Count

LEMMA WrapValue ==
    \A i \in 0 .. BufLen + BufLen - 1 : i % BufLen = IF i < BufLen THEN i ELSE i - BufLen
BY JtagUartAssumption

LEMMA AvailableCounts ==
    \A i, o \in Ring : Available(i, o) <= Count(o, i) /\ o + Available(i, o) <= BufLen
BY JtagUartAssumption DEF Ring, Available, Count

LEMMA RoomCounts ==
    ASSUME NEW i \in Ring, NEW o \in Ring
    PROVE  Count(o, i) + Room(i, o) <= BufLen - 1 /\ i + Room(i, o) <= BufLen
<1>1. Room(i, o) = IF i < o THEN (o - 1) - i ELSE IF o > 0 THEN BufLen - i ELSE (BufLen - 1) - i
    BY RoomValue
<1> QED
    BY <1>1, JtagUartAssumption DEF Ring, Count

\* Advancing an index by a chunk that does not run over the end of the ring.
LEMMA AdvanceValue ==
    ASSUME NEW o \in Ring, NEW k \in Nat, o + k <= BufLen
    PROVE  /\ (o + k) % BufLen = IF o + k = BufLen THEN 0 ELSE o + k
           /\ (o + k) % BufLen \in Ring
BY JtagUartAssumption, WrapValue DEF Ring

-----------------------------------------------------------------------------
(* From the terminal to the program. *)

ReceiveVars == <<rfifo, typed, got, rx_buf, rx_in, rx_out, Handed>>

Types   == HostTypes /\ UNCHANGED <<got, rx_buf, rx_in, rx_out, Handed>>
Fetches ==
    /\ NextIndex(rx_in) # rx_out /\ rfifo # <<>>
    /\ rfifo' = Tail(rfifo) /\ rx_buf' = [rx_buf EXCEPT ![rx_in] = Head(rfifo)]
    /\ rx_in' = NextIndex(rx_in)
    /\ UNCHANGED <<typed, got, rx_out, Handed>>

LEMMA ReceiveEffect ==
    ASSUME Calling, Next
    PROVE  UNCHANGED ReceiveVars \/ Types \/ Fetches \/ ReadCopies \/ ReadAdvances
<1> USE DEF Thread, Goto, IsrGoto, Undisturbed, vars, coreVars, hostVars, rings, clockVars,
            threadVars, locals, tallies, isrVars
<1> USE DEF ReceiveVars, Handed
<1>1. CASE DriverStarts
    BY <1>1 DEF DriverStarts, WriteControl
<1>2. CASE CallsRead
    BY <1>2 DEF CallsRead, Calls
<1>3. CASE CallsWrite
    BY <1>3 DEF CallsWrite, Calls
<1>4. CASE CallsClose
    BY <1>4 DEF CallsClose, Calls
<1>5. CASE CallsIoctl
    BY <1>5 DEF CallsIoctl
<1>6. CASE ReadLooks
    BY <1>6 DEF ReadLooks, ReadLoopEnds, Return
<1>7. CASE ReadCopies
    BY <1>7
<1>8. CASE ReadAdvances
    BY <1>8
<1>9. CASE ReadStopsWaiting
    BY <1>9 DEF ReadStopsWaiting
<1>10. CASE ReadChecks
    BY <1>10 DEF ReadChecks, Return
<1>11. CASE WriteLooks
    BY <1>11 DEF WriteLooks
<1>12. CASE WriteCopies
    BY <1>12 DEF WriteCopies
<1>13. CASE WriteAdvances
    BY <1>13 DEF WriteAdvances
<1>14. CASE WriteStopsWaiting
    BY <1>14 DEF WriteStopsWaiting
<1>15. CASE WriteChecks
    BY <1>15 DEF WriteChecks, Return
<1>16. CASE Disables
    BY <1>16 DEF Disables
<1>17. CASE LoadsMask
    BY <1>17 DEF LoadsMask
<1>18. CASE StoresMask
    BY <1>18 DEF StoresMask
<1>19. CASE WritesControl
    BY <1>19 DEF WritesControl, WriteControl
<1>20. CASE Enables
    BY <1>20 DEF Enables, Return
<1>21. CASE Closes
    BY <1>21 DEF Closes, Return
<1>22. CASE IsrEnters
    BY <1>22 DEF IsrEnters
<1>23. CASE IsrReadsControl
    BY <1>23 DEF IsrReadsControl
<1>24. CASE IsrReceives
    BY <1>24 DEF IsrReceives, TakeNothing, TakeReceived, Fetches
<1>25. CASE IsrReceived
    BY <1>25 DEF IsrReceived, TurnsOff, WriteControl
<1>26. CASE IsrSends
    BY <1>26 DEF IsrSends, WriteData
<1>27. CASE IsrSent
    BY <1>27 DEF IsrSent, TurnsOff, WriteControl
<1>28. CASE Tick
    BY <1>28 DEF Tick, WriteControl
<1>29. CASE HostStep
    BY <1>29 DEF HostStep, Host, HostTypes, HostPauses, HostTakes, HostUnplugged, HostPlugged, Types
<1>30. CASE IsrSeesAvail
    BY <1>30 DEF IsrSeesAvail
<1> QED
    BY <1>1, <1>2, <1>3, <1>4, <1>5, <1>6, <1>7, <1>8, <1>9, <1>10, <1>11, <1>12, <1>13, <1>14,
       <1>15, <1>16, <1>17, <1>18, <1>19, <1>20, <1>21, <1>22, <1>23, <1>24, <1>25, <1>26, <1>27,
       <1>28, <1>29, <1>30 DEF Next, NewCall, InCall, Isr

LEMMA InitReceiving == Init => ReceiveTyped /\ Receiving
<1> SUFFICES ASSUME Init PROVE ReceiveTyped /\ Receiving
    OBVIOUS
<1>1. /\ rfifo = <<>> /\ got = <<>> /\ typed = 0 /\ rx_in = 0 /\ rx_out = 0 /\ Handed = 0
      /\ rx_buf \in [Ring -> Nat]
    BY DEF Init, CoreReset, Handed
<1>2. \A i \in Ring : Count(0, i) >= 0
    BY DEF Count, Ring
<1> QED
    BY <1>1, <1>2, ZeroIsInRing, UartCoreAssumption DEF ReceiveTyped, Receiving, Gone, Received, Count

LEMMA ReceivingFrame ==
    ReceiveTyped /\ Receiving /\ UNCHANGED ReceiveVars => (ReceiveTyped /\ Receiving)'
BY DEF ReceiveTyped, Receiving, ReceiveVars, Gone, Received, Count
LEMMA TypesReceiving ==
    ASSUME Calling, ReceiveTyped, Receiving, Types
    PROVE  (ReceiveTyped /\ Receiving)'
<1>1. rfifo' = Append(rfifo, typed + 1) /\ typed' = typed + 1 /\ Len(rfifo) < FifoDepth
    BY DEF Types, HostTypes
<1>2. rfifo' \in Seq(Nat) /\ Len(rfifo') = Len(rfifo) + 1
    BY <1>1 DEF ReceiveTyped
<1>3. \A j \in 1 .. Len(rfifo') : rfifo'[j] = IF j <= Len(rfifo) THEN rfifo[j] ELSE typed + 1
    BY <1>1 DEF ReceiveTyped
<1>4. Len(rfifo) \in Nat /\ Gone' = Gone /\ Received' = Received
    BY DEF ReceiveTyped, Types, Gone, Received, Count
<1>5. Gone \in Int /\ Received \in Int
    BY CountType DEF Calling, Indexed, Ring, Received, Gone, ReceiveTyped, Handed
<1>6. ReceiveTyped'
    BY <1>1, <1>2, <1>4, UartCoreAssumption DEF ReceiveTyped, Types
<1>7. typed' = (Gone' + Received') + Len(rfifo')
    BY <1>1, <1>2, <1>4, <1>5 DEF Receiving, ReceiveTyped
<1>8. ASSUME NEW j \in 1 .. Len(rfifo') PROVE rfifo'[j] = (Gone' + Received') + j
    <2>1. CASE j <= Len(rfifo)
        BY <1>2, <1>3, <1>4, <2>1 DEF Receiving
    <2>2. CASE ~(j <= Len(rfifo))
        BY <1>2, <1>3, <1>4, <1>5, <2>2 DEF Receiving
    <2> QED
        BY <2>1, <2>2
<1>9. \A k \in Ring : Count(rx_out, k)' < Received' => rx_buf'[k] = (Gone' + Count(rx_out, k)') + 1
    BY <1>4 DEF Receiving, Types, Count
<1> QED
    BY <1>4, <1>6, <1>7, <1>8, <1>9 DEF Receiving, Types

LEMMA FetchesReceiving ==
    ASSUME Calling, ReceiveTyped, Receiving, Fetches
    PROVE  (ReceiveTyped /\ Receiving)'
<1>1. rx_in \in Ring /\ rx_out \in Ring /\ rx_in' \in Ring
    BY NextIndexType DEF Calling, Indexed, Fetches
<1>2. Received \in Ring /\ Received' = Received + 1
    BY <1>1, CountType, CountOfNext DEF Received, Fetches, Count
<1>3. Gone \in Nat /\ Gone' = Gone
    BY DEF Receiving, Gone, Fetches, Calling, Indexed, ReceiveTyped, Handed
<1>4. rfifo \in Seq(Nat) /\ rfifo # <<>> /\ Len(rfifo) \in Nat \ {0}
    BY DEF ReceiveTyped, Fetches
<1>5. /\ rfifo' \in Seq(Nat) /\ Len(rfifo') = Len(rfifo) - 1
      /\ \A j \in 1 .. Len(rfifo') : rfifo'[j] = rfifo[j + 1]
      /\ Head(rfifo) = rfifo[1]
    BY <1>4, HeadTailProperties DEF Fetches
<1>6. rfifo[1] = (Gone + Received) + 1 /\ rfifo[1] \in Nat
    BY <1>2, <1>3, <1>4 DEF Receiving, Ring
<1>7. ReceiveTyped'
    BY <1>1, <1>4, <1>5, <1>6, UartCoreAssumption DEF ReceiveTyped, Fetches
<1>8. typed' = (Gone' + Received') + Len(rfifo')
    BY <1>2, <1>3, <1>4, <1>5 DEF Receiving, Fetches, Ring
<1>9. \A j \in 1 .. Len(rfifo') : rfifo'[j] = (Gone' + Received') + j
    BY <1>2, <1>3, <1>4, <1>5 DEF Receiving, Ring
<1>10. ASSUME NEW k \in Ring, Count(rx_out, k) < Received'
       PROVE  rx_buf'[k] = (Gone + Count(rx_out, k)) + 1
    <2>1. Count(rx_out, k) \in Ring /\ Count(rx_out, rx_in) = Received
        BY <1>1, CountType DEF Received
    <2>2. CASE k = rx_in
        BY <1>1, <1>5, <1>6, <2>1, <2>2 DEF Fetches, ReceiveTyped
    <2>3. CASE k # rx_in
        <3>1. Count(rx_out, k) # Received
            BY <1>1, <2>1, <2>3, CountIsInjective
        <3>2. Count(rx_out, k) < Received
            BY <1>2, <1>10, <2>1, <3>1 DEF Ring
        <3>3. rx_buf'[k] = rx_buf[k]
            BY <2>3 DEF Fetches, ReceiveTyped
        <3> QED
            BY <3>2, <3>3 DEF Receiving
    <2> QED
        BY <2>2, <2>3
<1>11. \A k \in Ring : Count(rx_out, k)' = Count(rx_out, k)
    BY DEF Count, Fetches
<1> QED
    BY <1>3, <1>7, <1>8, <1>9, <1>10, <1>11 DEF Receiving, Fetches

\* What is copied is what is next in the ring.
LEMMA ChunkIsNext ==
    ASSUME Calling, ChunkIsFree, ReceiveTyped, Receiving, pc = "read_copy"
    PROVE  \A k \in 1 .. n : rx_buf[(out + k) - 1] = Len(got) + k /\ (out + k) - 1 \in Ring
<1>1. /\ out = rx_out /\ out \in Ring /\ rx_in \in Ring /\ n \in Nat
      /\ n <= Available(rx_in, rx_out)
    BY DEF Calling, Indexed, ChunkIsFree
<1>2. n <= Received /\ out + n <= BufLen /\ Received \in Ring
    BY <1>1, AvailableCounts, AvailableType, CountType, JtagUartAssumption DEF Received, Ring
<1>3. Gone = Len(got)
    BY DEF Gone, Handed, ReceiveTyped
<1> SUFFICES ASSUME NEW k \in 1 .. n
             PROVE  rx_buf[(out + k) - 1] = Len(got) + k /\ (out + k) - 1 \in Ring
    OBVIOUS
<1>4. (out + k) - 1 \in Ring /\ Count(rx_out, (out + k) - 1) = k - 1
    BY <1>1, <1>2, JtagUartAssumption DEF Ring, Count
<1>5. k - 1 < Received
    BY <1>1, <1>2 DEF Ring
<1> QED
    BY <1>1, <1>3, <1>4, <1>5 DEF Receiving, ReceiveTyped

LEMMA CopiesReceiving ==
    ASSUME Calling, ChunkIsFree, ReceiveTyped, Receiving, ReadCopies
    PROVE  (ReceiveTyped /\ Receiving)'
<1> DEFINE chunk == [k \in 1 .. n |-> rx_buf[(out + k) - 1]]
<1>1. /\ pc = "read_copy" /\ pc' = "read_advance" /\ got' = got \o chunk
      /\ UNCHANGED <<rings, coreVars, hostVars, n>>
    BY DEF ReadCopies, Thread, Goto, Undisturbed, locals
<1>2. n \in Nat /\ got \in Seq(Nat)
    BY DEF Calling, Indexed, ReceiveTyped
<1>3. \A k \in 1 .. n : chunk[k] = Len(got) + k
    BY <1>1, ChunkIsNext
<1>4. chunk \in Seq(Nat) /\ Len(chunk) = n
    BY <1>2, <1>3
<1> HIDE DEF chunk
<1>5. got' \in Seq(Nat) /\ Len(got') = Len(got) + n
    BY <1>1, <1>2, <1>4, ConcatProperties
<1>6. \A j \in 1 .. Len(got') : got'[j] = IF j <= Len(got) THEN got[j] ELSE chunk[j - Len(got)]
    BY <1>1, <1>2, <1>4, <1>5, ConcatProperties
<1>7. ASSUME NEW j \in 1 .. Len(got') PROVE got'[j] = j
    <2>1. CASE j <= Len(got)
        BY <1>2, <1>5, <1>6, <2>1 DEF Receiving
    <2>2. CASE ~(j <= Len(got))
        <3>1. j - Len(got) \in 1 .. n
            BY <1>2, <1>5, <2>2
        <3> QED
            BY <1>2, <1>3, <1>6, <2>2, <3>1
    <2> QED
        BY <2>1, <2>2
<1>8. Gone' = Gone /\ Received' = Received /\ Gone \in Nat
    BY <1>1, <1>2, <1>5 DEF Gone, Handed, Received, Count, rings
<1>9. ReceiveTyped'
    BY <1>1, <1>5 DEF ReceiveTyped, rings, coreVars, hostVars
<1> QED
    BY <1>1, <1>7, <1>8, <1>9 DEF Receiving, rings, coreVars, hostVars, Count

LEMMA AdvancesReceiving ==
    ASSUME Calling, ChunkIsFree, ReceiveTyped, Receiving, ReadAdvances
    PROVE  (ReceiveTyped /\ Receiving)'
<1>1. /\ pc = "read_advance" /\ pc' = "read" /\ rx_out' = (out + n) % BufLen
      /\ UNCHANGED <<rx_in, rx_buf, coreVars, hostVars, got>>
    BY DEF ReadAdvances, Thread, Goto, Undisturbed, tallies
<1>2. /\ out = rx_out /\ rx_out \in Ring /\ rx_in \in Ring /\ n \in Nat
      /\ n <= Available(rx_in, rx_out)
    BY <1>1 DEF Calling, Indexed, ChunkIsFree
<1>3. n <= Received /\ out + n <= BufLen /\ Received \in Ring
    BY <1>2, AvailableCounts, AvailableType, CountType, JtagUartAssumption DEF Received, Ring
<1>4. rx_out' = (IF out + n = BufLen THEN 0 ELSE out + n) /\ rx_out' \in Ring
    BY <1>1, <1>2, <1>3, AdvanceValue
<1>5. Len(got) \in Nat /\ Gone = Len(got) - n /\ Gone' = Len(got)
    BY <1>1, <1>2 DEF Gone, Handed, ReceiveTyped
<1>6. ASSUME NEW k \in Ring
      PROVE  Count(rx_out, k)' = IF Count(rx_out, k) >= n THEN Count(rx_out, k) - n
                                 ELSE (Count(rx_out, k) - n) + BufLen
    BY <1>2, <1>3, <1>4, JtagUartAssumption DEF Ring, Count
<1>7. Received' = Received - n
    <2>1. Received' = Count(rx_out, rx_in)'
        BY DEF Received
    <2>2. Count(rx_out, rx_in)' = IF Count(rx_out, rx_in) >= n THEN Count(rx_out, rx_in) - n
                                 ELSE (Count(rx_out, rx_in) - n) + BufLen
        BY <1>1, <1>2, <1>3, <1>4, JtagUartAssumption DEF Ring, Count
    <2> QED
        BY <1>2, <1>3, <2>1, <2>2 DEF Received, Ring
<1>8. ReceiveTyped'
    BY <1>1 DEF ReceiveTyped, coreVars, hostVars
<1>9. ASSUME NEW k \in Ring, Count(rx_out, k)' < Received'
      PROVE  rx_buf[k] = (Gone' + Count(rx_out, k)') + 1
    <2>1. Count(rx_out, k) \in Ring
        BY <1>2, CountType
    <2>2. Count(rx_out, k) >= n /\ Count(rx_out, k)' = Count(rx_out, k) - n
        BY <1>2, <1>3, <1>6, <1>7, <1>9, <2>1, JtagUartAssumption DEF Ring
    <2>3. rx_buf[k] = (Gone + Count(rx_out, k)) + 1
        BY <1>2, <1>3, <1>7, <1>9, <2>1, <2>2 DEF Receiving, Ring
    <2> QED
        BY <1>2, <1>5, <2>1, <2>2, <2>3 DEF Ring
<1>10. Gone + Received = Gone' + Received'
    BY <1>2, <1>3, <1>5, <1>7 DEF Ring
<1> QED
    BY <1>1, <1>5, <1>8, <1>9, <1>10 DEF Receiving, coreVars, hostVars

LEMMA ReceivingHolds ==
    ASSUME Calling, ChunkIsFree, ReceiveTyped, Receiving, [Next]_vars
    PROVE  (ReceiveTyped /\ Receiving)'
<1>1. UNCHANGED vars => UNCHANGED ReceiveVars
    BY DEF vars, coreVars, hostVars, rings, threadVars, ReceiveVars, Handed
<1> QED
    BY <1>1, ReceiveEffect, ReceivingFrame, TypesReceiving, FetchesReceiving, CopiesReceiving,
       AdvancesReceiving


-----------------------------------------------------------------------------
(* From the program to the terminal. *)

SendVars == <<wfifo, shown, sent, tx_buf, tx_in, tx_out, space>>

Keeps == pc' = "write_advance" => pc = "write_advance" /\ UNCHANGED <<in, n>>

Shows  == HostTakes /\ UNCHANGED <<sent, tx_buf, tx_in, tx_out, space>> /\ Keeps
Counts == space' \in {0, WSpace} /\ UNCHANGED <<wfifo, shown, sent, tx_buf, tx_in, tx_out>> /\ Keeps

LEMMA SendEffect ==
    ASSUME Calling, Next
    PROVE  (UNCHANGED SendVars /\ Keeps) \/ Shows \/ Counts \/ IsrSends \/ WriteCopies \/ WriteAdvances
<1> USE DEF Thread, Goto, IsrGoto, Undisturbed, vars, coreVars, hostVars, rings, clockVars,
            threadVars, locals, tallies, isrVars
<1> USE DEF SendVars, Keeps
<1>1. CASE DriverStarts
    BY <1>1 DEF DriverStarts, WriteControl
<1>2. CASE CallsRead
    BY <1>2 DEF CallsRead, Calls
<1>3. CASE CallsWrite
    BY <1>3 DEF CallsWrite, Calls
<1>4. CASE CallsClose
    BY <1>4 DEF CallsClose, Calls
<1>5. CASE CallsIoctl
    BY <1>5 DEF CallsIoctl
<1>6. CASE ReadLooks
    BY <1>6 DEF ReadLooks, ReadLoopEnds, Return
<1>7. CASE ReadCopies
    BY <1>7 DEF ReadCopies
<1>8. CASE ReadAdvances
    BY <1>8 DEF ReadAdvances
<1>9. CASE ReadStopsWaiting
    BY <1>9 DEF ReadStopsWaiting
<1>10. CASE ReadChecks
    BY <1>10 DEF ReadChecks, Return
<1>11. CASE WriteLooks
    BY <1>11 DEF WriteLooks
<1>12. CASE WriteCopies
    BY <1>12
<1>13. CASE WriteAdvances
    BY <1>13
<1>14. CASE WriteStopsWaiting
    BY <1>14 DEF WriteStopsWaiting
<1>15. CASE WriteChecks
    BY <1>15 DEF WriteChecks, Return
<1>16. CASE Disables
    BY <1>16 DEF Disables
<1>17. CASE LoadsMask
    BY <1>17 DEF LoadsMask
<1>18. CASE StoresMask
    BY <1>18 DEF StoresMask
<1>19. CASE WritesControl
    BY <1>19 DEF WritesControl, WriteControl
<1>20. CASE Enables
    BY <1>20 DEF Enables, Return
<1>21. CASE Closes
    BY <1>21 DEF Closes, Return
<1>22. CASE IsrEnters
    BY <1>22 DEF IsrEnters
<1>23. CASE IsrReadsControl
    BY <1>23 DEF IsrReadsControl, Counts
<1>24. CASE IsrReceives
    BY <1>24 DEF IsrReceives, TakeNothing, TakeReceived, Fetches
<1>25. CASE IsrReceived
    BY <1>25 DEF IsrReceived, TurnsOff, WriteControl
<1>26. CASE IsrSends
    BY <1>26
<1>27. CASE IsrSent
    BY <1>27 DEF IsrSent, TurnsOff, WriteControl, Counts
<1>28. CASE Tick
    BY <1>28 DEF Tick, WriteControl
<1>29. CASE HostStep
    BY <1>29 DEF HostStep, Host, HostTypes, HostPauses, HostTakes, HostUnplugged, HostPlugged, Shows
<1>30. CASE IsrSeesAvail
    BY <1>30 DEF IsrSeesAvail
<1> QED
    BY <1>1, <1>2, <1>3, <1>4, <1>5, <1>6, <1>7, <1>8, <1>9, <1>10, <1>11, <1>12, <1>13, <1>14,
       <1>15, <1>16, <1>17, <1>18, <1>19, <1>20, <1>21, <1>22, <1>23, <1>24, <1>25, <1>26, <1>27,
       <1>28, <1>29, <1>30 DEF Next, NewCall, InCall, Isr

LEMMA InitSending == Init => SendTyped /\ Sending
<1> SUFFICES ASSUME Init PROVE SendTyped /\ Sending
    OBVIOUS
<1>1. /\ wfifo = <<>> /\ shown = <<>> /\ sent = 0 /\ tx_in = 0 /\ tx_out = 0 /\ space = 0 /\ pc = "boot"
      /\ tx_buf \in [Ring -> Nat]
    BY DEF Init, CoreReset
<1>2. \A i \in Ring : Count(0, i) >= 0
    BY DEF Count, Ring
<1> QED
    BY <1>1, <1>2, ZeroIsInRing, UartCoreAssumption DEF SendTyped, Sending, Passed, Pending, Count

LEMMA SendingFrame == SendTyped /\ Sending /\ UNCHANGED SendVars /\ Keeps => (SendTyped /\ Sending)'
BY DEF SendTyped, Sending, SendVars, Keeps, Passed, Pending, Count

LEMMA ShowsSending ==
    ASSUME Calling, SendTyped, Sending, Shows
    PROVE  (SendTyped /\ Sending)'
<1>1. /\ wfifo # <<>> /\ shown' = Append(shown, Head(wfifo)) /\ wfifo' = Tail(wfifo)
      /\ UNCHANGED <<sent, tx_buf, tx_in, tx_out, space>>
    BY DEF Shows, HostTakes
<1>2. wfifo \in Seq(Nat) /\ shown \in Seq(Nat) /\ Len(wfifo) \in Nat \ {0} /\ Len(shown) \in Nat
    BY <1>1 DEF SendTyped
<1>3. /\ wfifo' \in Seq(Nat) /\ Len(wfifo') = Len(wfifo) - 1
      /\ \A j \in 1 .. Len(wfifo') : wfifo'[j] = wfifo[j + 1]
      /\ Head(wfifo) = wfifo[1]
    BY <1>1, <1>2, HeadTailProperties
<1>4. wfifo[1] = Len(shown) + 1 /\ wfifo[1] \in Nat
    BY <1>2 DEF Sending
<1>5. /\ shown' \in Seq(Nat) /\ Len(shown') = Len(shown) + 1
      /\ \A j \in 1 .. Len(shown') : shown'[j] = IF j <= Len(shown) THEN shown[j] ELSE Len(shown) + 1
    BY <1>1, <1>2, <1>3, <1>4, AppendProperties
<1>6. Passed' = Passed /\ Pending' = Pending
    BY <1>1, <1>2, <1>3, <1>5 DEF Passed, Pending, Count
<1>7. SendTyped'
    BY <1>1, <1>2, <1>3, <1>5, UartCoreAssumption DEF SendTyped
<1>8. ASSUME NEW j \in 1 .. Len(shown') PROVE shown'[j] = j
    <2>1. CASE j <= Len(shown)
        <3>1. j \in 1 .. Len(shown)
            BY <1>2, <1>5, <2>1
        <3> QED
            BY <1>5, <2>1, <3>1 DEF Sending
    <2>2. CASE ~(j <= Len(shown))
        BY <1>2, <1>5, <2>2
    <2> QED
        BY <2>1, <2>2
<1>9. \A j \in 1 .. Len(wfifo') : wfifo'[j] = Len(shown') + j
    BY <1>2, <1>3, <1>5 DEF Sending
<1> QED
    BY <1>1, <1>6, <1>7, <1>8, <1>9 DEF Sending, Shows, Keeps, Count

LEMMA CountsSending ==
    ASSUME SendTyped, Sending, Counts
    PROVE  (SendTyped /\ Sending)'
<1>1. Len(wfifo) \in Nat /\ Len(wfifo) <= FifoDepth /\ FifoDepth \in Nat
    BY UartCoreAssumption DEF SendTyped
<1>2. space' \in Nat /\ Len(wfifo) + space' <= FifoDepth
    BY <1>1 DEF Counts, WSpace
<1> QED
    BY <1>2 DEF SendTyped, Sending, Counts, Keeps, Passed, Pending, Count

\* The FIFO has the room the routine counted, so no byte is dropped.
LEMMA SendsSending ==
    ASSUME Calling, SendTyped, Sending, IsrSends
    PROVE  (SendTyped /\ Sending)'
<1> DEFINE byte == tx_buf[tx_out]
<1>1. /\ space > 0 /\ tx_out # tx_in /\ tx_out' = NextIndex(tx_out) /\ space' = space - 1
      /\ UNCHANGED <<shown, sent, tx_in, tx_buf, pc, in, n>>
    BY DEF IsrSends, hostVars, threadVars
<1>2. /\ Len(wfifo) \in Nat /\ space \in Nat /\ FifoDepth \in Nat /\ Len(wfifo) < FifoDepth
      /\ Len(shown) \in Nat
    BY <1>1, UartCoreAssumption DEF SendTyped
<1>3. wfifo' = Append(wfifo, byte)
    BY <1>2 DEF IsrSends, WriteData
<1>4. tx_in \in Ring /\ tx_out \in Ring /\ tx_out' \in Ring
    BY <1>1, NextIndexType DEF Calling, Indexed
<1>5. Pending \in Ring /\ Pending > 0 /\ Pending' = Pending - 1
    <2>1. Pending' = Count(tx_out, tx_in) - 1
        BY <1>1, <1>4, CountFromNext DEF Pending, Count
    <2>2. Count(tx_out, tx_in) \in Ring /\ Count(tx_out, tx_in) # 0
        BY <1>1, <1>4, CountType, JtagUartAssumption DEF Count, Ring
    <2> QED
        BY <2>1, <2>2 DEF Pending, Ring
<1>6. Count(tx_out, tx_out) = 0
    BY <1>4 DEF Count, Ring
<1>7. byte = Passed + 1 /\ byte \in Nat
    BY <1>2, <1>4, <1>5, <1>6 DEF Sending, SendTyped, Passed
<1> HIDE DEF byte
<1>8. /\ wfifo' \in Seq(Nat) /\ Len(wfifo') = Len(wfifo) + 1
      /\ \A j \in 1 .. Len(wfifo') : wfifo'[j] = IF j <= Len(wfifo) THEN wfifo[j] ELSE byte
    BY <1>3, <1>7, AppendProperties DEF SendTyped
<1>9. Passed \in Nat /\ Passed' = Passed + 1
    BY <1>1, <1>2, <1>8 DEF Passed
<1>10. SendTyped'
    BY <1>1, <1>2, <1>8 DEF SendTyped
<1>11. ASSUME NEW j \in 1 .. Len(wfifo') PROVE wfifo'[j] = Len(shown') + j
    <2>1. CASE j <= Len(wfifo)
        <3>1. j \in 1 .. Len(wfifo)
            BY <1>2, <1>8, <2>1
        <3> QED
            BY <1>1, <1>8, <2>1, <3>1 DEF Sending
    <2>2. CASE ~(j <= Len(wfifo))
        BY <1>1, <1>2, <1>7, <1>8, <2>2 DEF Passed
    <2> QED
        BY <2>1, <2>2
<1>12. ASSUME NEW k \in Ring, Count(tx_out, k)' < Pending'
       PROVE  tx_buf[k] = (Passed' + Count(tx_out, k)') + 1
    <2>1. k # tx_out
        <3>1. Count(NextIndex(tx_out), tx_out) = BufLen - 1
            BY <1>4, NextIndexValue, JtagUartAssumption DEF Count, Ring
        <3> QED
            BY <1>1, <1>5, <1>12, <3>1, JtagUartAssumption DEF Ring, Count
    <2>2. Count(tx_out, k)' = Count(tx_out, k) - 1 /\ Count(tx_out, k) \in Ring
        BY <1>1, <1>4, <2>1, CountFromNext, CountType DEF Count
    <2>3. Count(tx_out, k) < Pending
        BY <1>5, <1>12, <2>2 DEF Ring
    <2>4. tx_buf[k] = (Passed + Count(tx_out, k)) + 1
        BY <2>3 DEF Sending
    <2> QED
        BY <1>9, <2>2, <2>4 DEF Ring
<1>13. sent' = Passed' + Pending'
    BY <1>1, <1>5, <1>9 DEF Sending, Ring
<1> QED
    BY <1>1, <1>10, <1>11, <1>12, <1>13 DEF Sending

LEMMA WriteCopiesSending ==
    ASSUME Calling, ChunkIsFree, SendTyped, Sending, WriteCopies
    PROVE  (SendTyped /\ Sending)'
<1>1. /\ pc = "write_copy" /\ pc' = "write_advance"
      /\ tx_buf' = [i \in Ring |-> IF i \in in .. (in + n) - 1 THEN sent + ((i - in) + 1) ELSE tx_buf[i]]
      /\ UNCHANGED <<tx_in, tx_out, in, n, wfifo, shown, sent, space>>
    BY DEF WriteCopies, Thread, Goto, Undisturbed, locals, coreVars, hostVars, tallies, isrVars
<1>2. in = tx_in /\ tx_in \in Ring /\ tx_out \in Ring /\ n \in Nat /\ n <= Room(tx_in, tx_out)
    BY <1>1 DEF Calling, Indexed, ChunkIsFree
<1>3. Pending \in Ring /\ Pending + n <= BufLen - 1 /\ in + n <= BufLen
    BY <1>2, RoomCounts, RoomType, CountType, JtagUartAssumption DEF Pending, Ring
<1>4. Passed' = Passed /\ Pending' = Pending
    BY <1>1 DEF Passed, Pending, Count
<1>5. \A k \in in .. (in + n) - 1 : k \in Ring
    BY <1>2, <1>3, JtagUartAssumption DEF Ring
<1>6. SendTyped'
    <2>1. ASSUME NEW i \in Ring PROVE tx_buf'[i] \in Nat
        <3>1. CASE i \in in .. (in + n) - 1
            <4>1. sent + ((i - in) + 1) \in Nat
                BY <1>2, <3>1 DEF SendTyped, Ring
            <4> QED
                BY <1>1, <3>1, <4>1
        <3>2. CASE i \notin in .. (in + n) - 1
            BY <1>1, <3>2 DEF SendTyped
        <3> QED
            BY <3>1, <3>2
    <2> QED
        BY <1>1, <2>1 DEF SendTyped
<1>7. \A k \in in .. (in + n) - 1 : tx_buf'[k] = sent + ((k - in) + 1)
    BY <1>1, <1>5
<1>8. ASSUME NEW k \in Ring, Count(tx_out, k) < Pending
      PROVE  tx_buf'[k] = (Passed + Count(tx_out, k)) + 1
    <2>1. k \notin in .. (in + n) - 1
        BY <1>2, <1>3, <1>8, JtagUartAssumption DEF Ring, Count, Pending
    <2> QED
        BY <1>1, <1>8, <2>1 DEF Sending
<1>9. \A k \in Ring : Count(tx_out, k)' = Count(tx_out, k)
    BY <1>1 DEF Count
<1> QED
    BY <1>1, <1>4, <1>6, <1>7, <1>8, <1>9 DEF Sending

LEMMA WriteAdvancesSending ==
    ASSUME Calling, ChunkIsFree, SendTyped, Sending, WriteAdvances
    PROVE  (SendTyped /\ Sending)'
<1>1. /\ pc = "write_advance" /\ pc' = "write" /\ tx_in' = (in + n) % BufLen /\ sent' = sent + n
      /\ UNCHANGED <<tx_out, tx_buf, wfifo, shown, space>>
    BY DEF WriteAdvances, Thread, Goto, Undisturbed, coreVars, hostVars, isrVars
<1>2. in = tx_in /\ tx_in \in Ring /\ tx_out \in Ring /\ n \in Nat /\ n <= Room(tx_in, tx_out)
    BY <1>1 DEF Calling, Indexed, ChunkIsFree
<1>3. Pending \in Ring /\ Pending + n <= BufLen - 1 /\ in + n <= BufLen
    BY <1>2, RoomCounts, RoomType, CountType, JtagUartAssumption DEF Pending, Ring
<1>4. tx_in' = (IF in + n = BufLen THEN 0 ELSE in + n) /\ tx_in' \in Ring
    BY <1>1, <1>2, <1>3, AdvanceValue
<1>5. Pending' = Pending + n
    <2>1. Pending' = Count(tx_out, tx_in')
        BY <1>1 DEF Pending, Count
    <2> QED
        BY <1>2, <1>3, <1>4, <2>1, JtagUartAssumption DEF Pending, Ring, Count
<1>6. Passed \in Nat /\ Passed' = Passed
    BY <1>1 DEF Passed, SendTyped
<1>7. sent = Passed + Pending /\ sent' = Passed' + Pending'
    BY <1>1, <1>2, <1>3, <1>5, <1>6 DEF Sending, Ring
<1>8. SendTyped'
    BY <1>1, <1>2 DEF SendTyped
<1>9. ASSUME NEW k \in Ring, Count(tx_out, k) < Pending'
      PROVE  tx_buf[k] = (Passed + Count(tx_out, k)) + 1
    <2>1. CASE Count(tx_out, k) < Pending
        BY <2>1 DEF Sending
    <2>2. CASE ~(Count(tx_out, k) < Pending)
        <3>1. k \in in .. (in + n) - 1 /\ Count(tx_out, k) = Pending + (k - in)
            BY <1>2, <1>3, <1>5, <1>9, <2>2, JtagUartAssumption DEF Ring, Count, Pending
        <3>2. tx_buf[k] = sent + ((k - in) + 1)
            BY <1>1, <3>1 DEF Sending
        <3> QED
            BY <1>2, <1>3, <1>6, <1>7, <3>1, <3>2 DEF Ring
    <2> QED
        BY <2>1, <2>2
<1>10. \A k \in Ring : Count(tx_out, k)' = Count(tx_out, k)
    BY <1>1 DEF Count
<1> QED
    BY <1>1, <1>6, <1>7, <1>8, <1>9, <1>10 DEF Sending

LEMMA SendingHolds ==
    ASSUME Calling, ChunkIsFree, SendTyped, Sending, [Next]_vars
    PROVE  (SendTyped /\ Sending)'
<1>1. UNCHANGED vars => UNCHANGED SendVars /\ Keeps
    BY DEF vars, coreVars, hostVars, rings, threadVars, isrVars, SendVars, Keeps
<1> QED
    BY <1>1, SendEffect, SendingFrame, ShowsSending, CountsSending, SendsSending, WriteCopiesSending,
       WriteAdvancesSending


-----------------------------------------------------------------------------
(* What callers are told. *)

LEMMA InitTelling == Init => Telling
BY DEF Init, CoreReset, Telling, NoCall, SectionSteps

\* A call that returns adds to the sums what it has moved.
Returns(value) ==
    /\ Return(value) /\ UNCHANGED <<got, sent>>
    /\ pc # "read_advance"
    /\ call.op = "read" => value = call.done \/ (value < 0 /\ call.done = 0)
    /\ call.op = "write" => value = call.done \/ (value < 0 /\ call.done = 0)
    /\ call.op \in {"read", "write"} \/ value <= 0
    /\ value \in Int

LEMMA ReturnsTelling ==
    ASSUME Calling, Telling, NEW value, Returns(value)
    PROVE  Telling'
<1>1. call \in Call /\ told \in [read : Nat, write : Nat] /\ value \in Int
    BY DEF Calling, Indexed, Telling, Returns
<1>2. call' = NoCall /\ pc' = "idle" /\ UNCHANGED <<got, sent>>
    BY DEF Returns, Return, Goto
<1>3. /\ told.read + (IF call.op = "read" THEN call.done ELSE 0) = Len(got)
      /\ told.write + (IF call.op = "write" THEN call.done ELSE 0) = sent
    BY <1>1 DEF Telling, Returns, Handed, Call
<1>4. told' = IF value > 0 THEN [told EXCEPT ![call.op] = @ + value] ELSE told
    BY DEF Returns, Return
<1>5. told' \in [read : Nat, write : Nat] /\ told'.read = Len(got) /\ told'.write = sent
    <2>1. CASE value > 0
        <3>1. call.op \in {"read", "write"} /\ value = call.done /\ value \in Nat
            BY <1>1, <2>1 DEF Returns
        <3>2. CASE call.op = "read"
            <4>1. told' = [told EXCEPT !.read = @ + value]
                BY <1>4, <2>1, <3>2
            <4> QED
                BY <1>1, <1>3, <3>1, <3>2, <4>1
        <3>3. CASE call.op = "write"
            <4>1. told' = [told EXCEPT !.write = @ + value]
                BY <1>4, <2>1, <3>3
            <4> QED
                BY <1>1, <1>3, <3>1, <3>3, <4>1
        <3> QED
            BY <3>1, <3>2, <3>3
    <2>2. CASE ~(value > 0)
        <3>1. call.op \in {"read", "write"} => call.done = 0
            BY <1>1, <2>2 DEF Returns, Call
        <3>2. told' = told
            BY <1>4, <2>2
        <3> QED
            BY <1>1, <1>3, <3>1, <3>2
    <2> QED
        BY <2>1, <2>2
<1>6. told'.read + 0 = told'.read /\ told'.write + 0 = told'.write
    BY <1>5
<1> QED
    BY <1>2, <1>5, <1>6 DEF Telling, NoCall, SectionSteps

LEMMA BlockedType == Blocked \in Int /\ Blocked < 0
BY DEF Blocked, EWOULDBLOCK, EIO

LEMMA TellingHolds ==
    ASSUME Calling, ReceiveTyped, SendTyped, Telling, Next
    PROVE  Telling'
<1> USE DEF Thread, Goto, IsrGoto, Undisturbed, vars, coreVars, hostVars, rings, clockVars,
            threadVars, locals, tallies, isrVars
<1>a. call \in Call /\ n \in Nat /\ CallIsOf /\ ChunkFits
    BY DEF Calling, Indexed
<1>b. call.op \in {"none", "read", "write", "close"} /\ call.left \in Nat /\ call.done \in Nat
    BY <1>a DEF Call
<1>1. CASE DriverStarts
    BY <1>1 DEF DriverStarts, WriteControl, Telling, SectionSteps, Handed
<1>2. CASE CallsRead
    BY <1>2 DEF CallsRead, Calls, Telling, SectionSteps, Handed
<1>3. CASE CallsWrite
    BY <1>3 DEF CallsWrite, Calls, Telling, SectionSteps, Handed
<1>4. CASE CallsClose
    BY <1>4 DEF CallsClose, Calls, Telling, SectionSteps, Handed
<1>5. CASE CallsIoctl
    BY <1>5 DEF CallsIoctl, Telling, SectionSteps, Handed
<1>6. CASE ReadLooks
    <2>0. pc = "read" /\ call.op = "read" /\ UNCHANGED <<got, sent>>
        BY <1>6, <1>a DEF ReadLooks, CallIsOf, ReadSteps
    <2>1. CASE Least(Available(rx_in, rx_out), call.left) # 0
        BY <1>6, <2>0, <2>1 DEF ReadLooks, Telling, SectionSteps, Handed
    <2>2. CASE Least(Available(rx_in, rx_out), call.left) = 0
        <3>1. ReadLoopEnds
            BY <1>6, <2>2 DEF ReadLooks
        <3>2. CASE call.done > 0
            BY <2>0, <3>1, <3>2 DEF ReadLoopEnds, Telling, SectionSteps, Handed
        <3>3. CASE ~(call.done > 0) /\ (call.nonblock \/ call.left = 0)
            <4>1. Returns(Blocked)
                BY <1>b, <2>0, <3>1, <3>3, BlockedType DEF ReadLoopEnds, Returns
            <4> QED
                BY <4>1, BlockedType, ReturnsTelling
        <3>4. CASE ~(call.done > 0) /\ ~(call.nonblock \/ call.left = 0)
            BY <1>b, <2>0, <3>1, <3>4 DEF ReadLoopEnds, Telling, SectionSteps, Handed
        <3> QED
            BY <3>2, <3>3, <3>4
    <2> QED
        BY <2>1, <2>2
<1>7. CASE ReadCopies
    <2> DEFINE chunk == [k \in 1 .. n |-> rx_buf[(out + k) - 1]]
    <2>1. pc = "read_copy" /\ pc' = "read_advance" /\ got' = got \o chunk /\ call.op = "read"
          /\ UNCHANGED <<n, call, sent, told>>
        BY <1>7, <1>a DEF ReadCopies, CallIsOf, ReadSteps
    <2>2. Len(got') = Len(got) + n /\ Len(got) \in Nat
        <3>1. Len(chunk) = n /\ chunk \in Seq(UNION {{rx_buf[(out + k) - 1]} : k \in 1 .. n})
            BY <1>a
        <3> QED
            BY <2>1, <3>1, <1>a DEF ReceiveTyped
    <2> HIDE DEF chunk
    <2>3. told.read + call.done = Len(got) /\ told.read \in Nat
        BY <1>b, <2>1 DEF Telling, Handed
    <2>4. told'.read + (call'.done + n') = Len(got')
        BY <1>a, <1>b, <2>1, <2>2, <2>3
    <2> QED
        BY <2>1, <2>4 DEF Telling, SectionSteps, Handed
<1>8. CASE ReadAdvances
    <2>1. /\ pc = "read_advance" /\ pc' = "read" /\ call.op = "read" /\ n \in 1 .. call.left
          /\ call' = [call EXCEPT !.left = @ - n, !.done = @ + n]
          /\ UNCHANGED <<got, sent, told>>
        BY <1>8, <1>a DEF ReadAdvances, CallIsOf, ReadSteps, ChunkFits, ChunkSteps
    <2>2. call'.op = "read" /\ call'.done = call.done + n
        BY <1>a, <2>1 DEF Call
    <2> QED
        BY <1>a, <1>b, <2>1, <2>2 DEF Telling, SectionSteps, Handed
<1>9. CASE ReadStopsWaiting
    BY <1>9 DEF ReadStopsWaiting, Telling, SectionSteps, Handed
<1>10. CASE ReadChecks
    <2>1. pc = "read_check" /\ call.op = "read" /\ call.done = 0 /\ UNCHANGED <<got, sent>>
        BY <1>10, <1>a DEF ReadChecks, CallIsOf, ReadSteps, Telling
    <2>2. CASE rx_in = in
        <3>1. Returns(Blocked)
            BY <1>10, <2>1, <2>2, BlockedType DEF ReadChecks, Returns
        <3> QED
            BY <3>1, ReturnsTelling
    <2>3. CASE ~(rx_in = in)
        BY <1>10, <2>1, <2>3 DEF ReadChecks, Telling, SectionSteps, Handed
    <2> QED
        BY <2>2, <2>3
<1>11. CASE WriteLooks
    <2>1. pc = "write" /\ call.op = "write" /\ pc' \in {"disable", "write_copy"}
          /\ UNCHANGED <<call, got, sent, told>>
        BY <1>11, <1>a DEF WriteLooks, CallIsOf, WriteSteps
    <2> QED
        BY <2>1 DEF Telling, SectionSteps, Handed
<1>12. CASE WriteCopies
    BY <1>12, <1>a DEF WriteCopies, Telling, SectionSteps, Handed, CallIsOf, WriteSteps
<1>13. CASE WriteAdvances
    <2>1. /\ pc = "write_advance" /\ pc' = "write" /\ call.op = "write" /\ n \in 1 .. call.left
          /\ call' = [call EXCEPT !.left = @ - n, !.done = @ + n]
          /\ sent' = sent + n
          /\ UNCHANGED <<got, told>>
        BY <1>13, <1>a DEF WriteAdvances, CallIsOf, WriteSteps, ChunkFits, ChunkSteps
    <2>2. call'.op = "write" /\ call'.done = call.done + n
        BY <1>a, <2>1 DEF Call
    <2>3. /\ told' = told /\ told \in [read : Nat, write : Nat]
          /\ told.write + call.done = sent /\ told.read = Len(got)
        BY <2>1 DEF Telling, Handed
    <2>4. told'.write + call'.done = sent'
        BY <1>a, <1>b, <2>1, <2>2, <2>3 DEF SendTyped
    <2>5. told'.read + 0 = Len(got')
        BY <2>1, <2>3
    <2> QED
        BY <2>1, <2>2, <2>3, <2>4, <2>5 DEF Telling, SectionSteps, Handed
<1>14. CASE WriteStopsWaiting
    BY <1>14 DEF WriteStopsWaiting, Telling, SectionSteps, Handed
<1>15. CASE WriteChecks
    <2>1. pc = "write_check" /\ call.op = "write" /\ UNCHANGED <<got, sent>>
        BY <1>15, <1>a DEF WriteChecks, CallIsOf, WriteSteps
    <2>2. CASE host_inactive # 0
        <3>1. Return(Written)
            BY <1>15, <2>2 DEF WriteChecks
        <3>2. Written = call.done \/ (Written = Blocked /\ call.done = 0)
            BY <1>b DEF Written
        <3>3. Returns(Written)
            BY <1>b, <2>1, <3>1, <3>2, BlockedType DEF Returns, Return
        <3> QED
            BY <3>3, ReturnsTelling
    <2>3. CASE ~(host_inactive # 0)
        BY <1>15, <2>1, <2>3 DEF WriteChecks, Telling, SectionSteps, Handed
    <2> QED
        BY <2>2, <2>3
<1>16. CASE Disables
    BY <1>16 DEF Disables, Telling, SectionSteps, Handed
<1>17. CASE LoadsMask
    BY <1>17 DEF LoadsMask, Telling, SectionSteps, Handed
<1>18. CASE StoresMask
    BY <1>18 DEF StoresMask, Telling, SectionSteps, Handed
<1>19. CASE WritesControl
    BY <1>19 DEF WritesControl, WriteControl, Telling, SectionSteps, Handed
<1>20. CASE Enables
    <2>1. pc = "enable" /\ call.op \in {"read", "write"} /\ UNCHANGED <<got, sent>>
          /\ (call.op = "read" => call.done > 0)
        BY <1>20, <1>a DEF Enables, CallIsOf, SectionSteps, Telling
    <2>2. CASE call.op = "read"
        <3>1. Return(call.done)
            BY <1>20, <2>2 DEF Enables
        <3>2. Returns(call.done)
            BY <1>b, <2>1, <2>2, <3>1 DEF Returns, Return
        <3> QED
            BY <3>2, ReturnsTelling
    <2>3. CASE call.op = "write" /\ call.left > 0 /\ ~call.nonblock
        BY <1>20, <2>1, <2>3 DEF Enables, Telling, SectionSteps, Handed
    <2>4. CASE call.op = "write" /\ ~(call.left > 0 /\ ~call.nonblock)
        <3>1. Return(Written)
            BY <1>20, <2>4 DEF Enables
        <3>2. Written = call.done \/ (Written = Blocked /\ call.done = 0)
            BY <1>b DEF Written
        <3>3. Returns(Written)
            BY <1>b, <2>1, <2>4, <3>1, <3>2, BlockedType DEF Returns, Return
        <3> QED
            BY <3>3, ReturnsTelling
    <2> QED
        BY <2>1, <2>2, <2>3, <2>4
<1>21. CASE Closes
    <2>1. pc = "close" /\ call.op = "close" /\ UNCHANGED <<got, sent>>
        BY <1>21 DEF Closes, Telling
    <2>2. Return(0) \/ Return(-EWOULDBLOCK)
        BY <1>21 DEF Closes
    <2>3. Returns(0) \/ Returns(-EWOULDBLOCK)
        BY <2>1, <2>2 DEF Returns, EWOULDBLOCK
    <2> QED
        BY <2>3, ReturnsTelling
<1>22. CASE IsrEnters
    BY <1>22 DEF IsrEnters, Telling, SectionSteps, Handed
<1>23. CASE IsrReadsControl
    BY <1>23 DEF IsrReadsControl, Telling, SectionSteps, Handed
<1>24. CASE IsrReceives
    BY <1>24 DEF IsrReceives, Telling, SectionSteps, Handed
<1>25. CASE IsrReceived
    BY <1>25 DEF IsrReceived, Telling, SectionSteps, Handed
<1>26. CASE IsrSends
    BY <1>26 DEF IsrSends, Telling, SectionSteps, Handed
<1>27. CASE IsrSent
    BY <1>27 DEF IsrSent, Telling, SectionSteps, Handed
<1>28. CASE Tick
    BY <1>28 DEF Tick, Telling, SectionSteps, Handed
<1>29. CASE HostStep
    BY <1>29 DEF HostStep, Telling, SectionSteps, Handed
<1>30. CASE IsrSeesAvail
    BY <1>30 DEF IsrSeesAvail, Telling, SectionSteps, Handed
<1> QED
    BY <1>1, <1>2, <1>3, <1>4, <1>5, <1>6, <1>7, <1>8, <1>9, <1>10, <1>11, <1>12, <1>13, <1>14,
       <1>15, <1>16, <1>17, <1>18, <1>19, <1>20, <1>21, <1>22, <1>23, <1>24, <1>25, <1>26, <1>27,
       <1>28, <1>29, <1>30 DEF Next, NewCall, InCall, Isr


-----------------------------------------------------------------------------
(* The theorems. *)

LEMMA StutterTelling == Telling /\ UNCHANGED vars => Telling'
BY DEF Telling, Handed, SectionSteps, vars, threadVars

LEMMA StepOrderInv == OrderInv /\ [Next]_vars => OrderInv'
<1> SUFFICES ASSUME OrderInv, [Next]_vars PROVE OrderInv'
    OBVIOUS
<1>1. DriverInv' /\ Calling /\ ChunkIsFree
    BY StepDriverInv DEF OrderInv, DriverInv
<1>2. (ReceiveTyped /\ Receiving)'
    BY <1>1, ReceivingHolds DEF OrderInv
<1>3. (SendTyped /\ Sending)'
    BY <1>1, SendingHolds DEF OrderInv
<1>4. Telling'
    BY <1>1, TellingHolds, StutterTelling DEF OrderInv
<1> QED
    BY <1>1, <1>2, <1>3, <1>4 DEF OrderInv

\* Each byte is where its number says, in every state the driver can reach.
THEOREM DriverKeepsOrder == Spec => []OrderInv
<1>1. Init => OrderInv
    BY InitDriverInv, InitReceiving, InitSending, InitTelling DEF OrderInv
<1> QED
    BY <1>1, StepOrderInv, PTL DEF Spec

\* The k-th slot from the first that holds a byte.
LEMMA HeldValue ==
    ASSUME NEW buf \in [Ring -> Nat], NEW first \in Ring, NEW last \in Ring
    PROVE  /\ Held(buf, first, last) \in Seq(Nat)
           /\ Len(Held(buf, first, last)) = Count(first, last)
           /\ \A k \in 1 .. Count(first, last) :
                 \E i \in Ring : Count(first, i) = k - 1 /\ Held(buf, first, last)[k] = buf[i]
<1> DEFINE slot(k) == ((first + k) - 1) % BufLen
<1>1. Count(first, last) \in Ring /\ ((last + BufLen) - first) % BufLen = Count(first, last)
    <2>1. (last + BufLen) - first \in 0 .. BufLen + BufLen - 1
        BY JtagUartAssumption DEF Ring
    <2>2. ((last + BufLen) - first) % BufLen = IF (last + BufLen) - first < BufLen THEN (last + BufLen) - first
                                               ELSE ((last + BufLen) - first) - BufLen
        BY <2>1, WrapValue
    <2> QED
        BY <2>2, CountType, JtagUartAssumption DEF Ring, Count
<1>2. ASSUME NEW k \in 1 .. Count(first, last)
      PROVE  slot(k) \in Ring /\ Count(first, slot(k)) = k - 1
    <2>1. (first + k) - 1 \in 0 .. BufLen + BufLen - 1 /\ k \in Nat /\ k <= BufLen - 1 /\ k > 0
        BY <1>1, JtagUartAssumption DEF Ring
    <2>2. slot(k) = IF (first + k) - 1 < BufLen THEN (first + k) - 1 ELSE ((first + k) - 1) - BufLen
        BY <2>1, WrapValue
    <2> HIDE DEF slot
    <2> QED
        BY <2>1, <2>2, JtagUartAssumption DEF Ring, Count
<1>3. Held(buf, first, last) = [k \in 1 .. Count(first, last) |-> buf[slot(k)]]
    BY <1>1 DEF Held
<1> HIDE DEF slot
<1>4. Count(first, last) \in Nat /\ \A k \in 1 .. Count(first, last) : buf[slot(k)] \in Nat
    BY <1>1, <1>2 DEF Ring
<1>5. Held(buf, first, last) \in Seq(Nat) /\ Len(Held(buf, first, last)) = Count(first, last)
    BY <1>3, <1>4
<1> QED
    BY <1>2, <1>3, <1>5

LEMMA NumberedType == \A k \in Nat : Numbered(k) \in Seq(Nat) /\ Len(Numbered(k)) = k
BY DEF Numbered

LEMMA IsNumbered ==
    ASSUME NEW s \in Seq(Nat), \A j \in 1 .. Len(s) : s[j] = j
    PROVE  s = Numbered(Len(s))
<1>1. Len(s) \in Nat /\ Numbered(Len(s)) \in Seq(Nat) /\ Len(Numbered(Len(s))) = Len(s)
    BY NumberedType
<1>2. \A j \in 1 .. Len(s) : Numbered(Len(s))[j] = j
    BY DEF Numbered
<1> QED
    BY <1>1, <1>2, SeqEqual

\* Bytes in three places, numbered on from one to the next.
LEMMA NumberedInParts ==
    ASSUME NEW a \in Seq(Nat), NEW b \in Seq(Nat), NEW c \in Seq(Nat),
           \A j \in 1 .. Len(a) : a[j] = j,
           \A j \in 1 .. Len(b) : b[j] = Len(a) + j,
           \A j \in 1 .. Len(c) : c[j] = (Len(a) + Len(b)) + j
    PROVE  (a \o b) \o c = Numbered((Len(a) + Len(b)) + Len(c))
<1> DEFINE ab == a \o b
           abc == ab \o c
<1>1. Len(a) \in Nat /\ Len(b) \in Nat /\ Len(c) \in Nat
    OBVIOUS
<1>2. /\ ab \in Seq(Nat) /\ Len(ab) = Len(a) + Len(b)
      /\ \A j \in 1 .. Len(ab) : ab[j] = IF j <= Len(a) THEN a[j] ELSE b[j - Len(a)]
    BY ConcatProperties
<1> HIDE DEF ab
<1>3. /\ ab \o c \in Seq(Nat) /\ Len(ab \o c) = Len(ab) + Len(c)
      /\ \A j \in 1 .. Len(ab) + Len(c) : (ab \o c)[j] = IF j <= Len(ab) THEN ab[j] ELSE c[j - Len(ab)]
    BY <1>2, ConcatProperties
<1>3a. /\ abc \in Seq(Nat) /\ Len(abc) = Len(ab) + Len(c)
       /\ \A j \in 1 .. Len(abc) : abc[j] = IF j <= Len(ab) THEN ab[j] ELSE c[j - Len(ab)]
    BY <1>3
<1> HIDE DEF abc
<1>4. ASSUME NEW j \in 1 .. Len(ab) PROVE ab[j] = j
    <2>1. CASE j <= Len(a)
        <3>1. j \in 1 .. Len(a)
            BY <1>1, <1>2, <2>1
        <3> QED
            BY <1>1, <1>2, <2>1, <3>1
    <2>2. CASE ~(j <= Len(a))
        <3>1. j - Len(a) \in 1 .. Len(b) /\ ab[j] = b[j - Len(a)]
            BY <1>1, <1>2, <2>2
        <3>2. b[j - Len(a)] = Len(a) + (j - Len(a))
            BY <3>1
        <3> QED
            BY <1>1, <1>2, <3>1, <3>2
    <2> QED
        BY <2>1, <2>2
<1>5. ASSUME NEW j \in 1 .. Len(abc) PROVE abc[j] = j
    <2>1. CASE j <= Len(ab)
        <3>1. j \in 1 .. Len(ab)
            BY <1>1, <1>2, <1>3a, <2>1
        <3> QED
            BY <1>3a, <1>4, <2>1, <3>1
    <2>2. CASE ~(j <= Len(ab))
        <3>1. j - Len(ab) \in 1 .. Len(c) /\ abc[j] = c[j - Len(ab)]
            BY <1>1, <1>2, <1>3a, <2>2
        <3>2. c[j - Len(ab)] = (Len(a) + Len(b)) + (j - Len(ab))
            BY <3>1
        <3> QED
            BY <1>1, <1>2, <1>3a, <3>1, <3>2
    <2> QED
        BY <2>1, <2>2
<1>6. abc = Numbered(Len(abc))
    BY <1>3a, <1>5, IsNumbered
<1> QED
    BY <1>2, <1>3a, <1>6 DEF abc, ab

\* No byte the host types is lost, repeated or reordered on its way to the
\* callers of read, whatever the routine and the thread do to the ring at the
\* same time, for rings and FIFOs of every length.
THEOREM ReceivedTheorem == Spec => []ReceivedInOrder
<1>1. ASSUME OrderInv PROVE ReceivedInOrder
    <2>1. /\ rx_buf \in [Ring -> Nat] /\ got \in Seq(Nat) /\ rfifo \in Seq(Nat)
          /\ rx_in \in Ring /\ rx_out \in Ring /\ n \in Nat
          /\ \A j \in 1 .. Len(got) : got[j] = j
        BY <1>1 DEF OrderInv, ReceiveTyped, Receiving, DriverInv, Calling, Indexed
    <2>2. /\ Unread \in Seq(Nat) /\ Len(got) + Len(Unread) = Gone + Received
          /\ \A j \in 1 .. Len(Unread) : Unread[j] = Len(got) + j
        <3>1. Received \in Ring
            BY <2>1, CountType DEF Received
        <3>2. CASE pc = "read_advance"
            <4>1. out = rx_out /\ n <= Available(rx_in, rx_out) /\ out \in Ring
                BY <1>1, <2>1, <3>2 DEF OrderInv, DriverInv, ChunkIsFree
            <4>2. n <= Received /\ out + n <= BufLen
                <5>1. /\ Available(rx_in, rx_out) \in Nat /\ Available(rx_in, rx_out) <= Received
                      /\ rx_out + Available(rx_in, rx_out) <= BufLen
                    BY <2>1, AvailableCounts, AvailableType DEF Received
                <5> QED
                    BY <2>1, <3>1, <4>1, <5>1, JtagUartAssumption DEF Ring
            <4> DEFINE next == (out + n) % BufLen
            <4>3. next = (IF out + n = BufLen THEN 0 ELSE out + n) /\ next \in Ring
                BY <2>1, <4>1, <4>2, AdvanceValue
            <4>4. Unread = Held(rx_buf, next, rx_in)
                BY <3>2, <4>1, Zenon DEF Unread
            <4> HIDE DEF next
            <4>5. Count(next, rx_in) = Received - n
                BY <2>1, <4>1, <4>2, <4>3, JtagUartAssumption DEF Received, Count, Ring
            <4>6. Gone = Len(got) - n /\ Len(got) \in Nat
                BY <2>1, <3>2 DEF Gone, Handed
            <4>7. ASSUME NEW j \in 1 .. Len(Unread) PROVE Unread[j] = Len(got) + j
                <5>0. /\ Len(Unread) = Count(next, rx_in)
                      /\ \A k \in 1 .. Count(next, rx_in) :
                            \E i \in Ring : Count(next, i) = k - 1 /\ Unread[k] = rx_buf[i]
                    <6> DEFINE held == Held(rx_buf, next, rx_in)
                    <6>1. /\ Len(held) = Count(next, rx_in)
                          /\ \A k \in 1 .. Count(next, rx_in) :
                                \E i \in Ring : Count(next, i) = k - 1 /\ held[k] = rx_buf[i]
                        <7>1. rx_buf \in [Ring -> Nat] /\ next \in Ring /\ rx_in \in Ring
                            BY <2>1, <4>3
                        <7> QED
                            BY ONLY <7>1, HeldValue, ZenonT(60) DEF held
                    <6> QED
                        BY <4>4, <6>1, Zenon
                <5>1. j \in 1 .. Count(next, rx_in)
                    BY <5>0
                <5>2. PICK i \in Ring : Count(next, i) = j - 1 /\ Unread[j] = rx_buf[i]
                    BY <5>0, <5>1
                <5>3. Count(rx_out, i) = (j - 1) + n
                    BY <2>1, <3>1, <4>1, <4>2, <4>3, <4>5, <5>1, <5>2, JtagUartAssumption DEF Count, Ring, Received
                <5>4. Count(rx_out, i) < Received
                    BY <2>1, <3>1, <4>5, <5>1, <5>3 DEF Ring
                <5>5. rx_buf[i] = (Gone + Count(rx_out, i)) + 1
                    BY <1>1, <5>4 DEF OrderInv, Receiving
                <5> QED
                    BY <2>1, <4>6, <5>2, <5>3, <5>5
            <4>8. Unread \in Seq(Nat) /\ Len(Unread) = Received - n
                BY <2>1, <4>3, <4>4, <4>5, HeldValue
            <4> QED
                BY <2>1, <3>1, <4>6, <4>7, <4>8 DEF Ring
        <3>3. CASE pc # "read_advance"
            <4>1. Unread = Held(rx_buf, rx_out, rx_in) /\ Gone = Len(got)
                BY <2>1, <3>3 DEF Unread, ReceivedBytes, Gone, Handed
            <4>2. Unread \in Seq(Nat) /\ Len(Unread) = Received
                BY <2>1, <4>1, HeldValue DEF Received
            <4>3. ASSUME NEW j \in 1 .. Len(Unread) PROVE Unread[j] = Len(got) + j
                <5>0. \A k \in 1 .. Count(rx_out, rx_in) :
                         \E i \in Ring : Count(rx_out, i) = k - 1 /\ Unread[k] = rx_buf[i]
                    <6> DEFINE held == Held(rx_buf, rx_out, rx_in)
                    <6>1. \A k \in 1 .. Count(rx_out, rx_in) :
                             \E i \in Ring : Count(rx_out, i) = k - 1 /\ held[k] = rx_buf[i]
                        BY <2>1, HeldValue, ZenonT(60)
                    <6> QED
                        BY <4>1, <6>1, Zenon
                <5>1. PICK i \in Ring : Count(rx_out, i) = j - 1 /\ Unread[j] = rx_buf[i]
                    BY <4>2, <5>0 DEF Received
                <5>2. rx_buf[i] = (Gone + (j - 1)) + 1
                    BY <1>1, <3>1, <4>2, <5>1 DEF OrderInv, Receiving, Ring
                <5> QED
                    BY <2>1, <4>1, <5>1, <5>2
            <4> QED
                BY <4>1, <4>2, <4>3
        <3> QED
            BY <3>2, <3>3
    <2>3. /\ \A j \in 1 .. Len(rfifo) : rfifo[j] = (Len(got) + Len(Unread)) + j
          /\ typed = (Len(got) + Len(Unread)) + Len(rfifo)
        BY <1>1, <2>2 DEF OrderInv, Receiving
    <2> HIDE DEF Unread
    <2> QED
        BY <2>1, <2>2, <2>3, NumberedInParts DEF ReceivedInOrder
<1> QED
    BY <1>1, DriverKeepsOrder, PTL

\* No byte the program writes is lost, repeated or reordered on its way to the
\* terminal, and none is dropped at a full FIFO, for rings and FIFOs of every
\* length.
THEOREM SentTheorem == Spec => []SentInOrder
<1>1. ASSUME OrderInv PROVE SentInOrder
    <2>1. /\ tx_buf \in [Ring -> Nat] /\ shown \in Seq(Nat) /\ wfifo \in Seq(Nat)
          /\ tx_in \in Ring /\ tx_out \in Ring
          /\ \A j \in 1 .. Len(shown) : shown[j] = j
          /\ \A j \in 1 .. Len(wfifo) : wfifo[j] = Len(shown) + j
          /\ sent = Passed + Pending
        BY <1>1 DEF OrderInv, SendTyped, Sending, DriverInv, Calling, Indexed
    <2>2. PendingBytes \in Seq(Nat) /\ Len(PendingBytes) = Pending
        BY <2>1, HeldValue DEF PendingBytes, Pending
    <2>3. ASSUME NEW j \in 1 .. Len(PendingBytes)
          PROVE  PendingBytes[j] = (Len(shown) + Len(wfifo)) + j
        <3>0. \A k \in 1 .. Count(tx_out, tx_in) :
                 \E i \in Ring : Count(tx_out, i) = k - 1 /\ PendingBytes[k] = tx_buf[i]
            BY <2>1, HeldValue, ZenonT(60) DEF PendingBytes
        <3>1. PICK i \in Ring : Count(tx_out, i) = j - 1 /\ PendingBytes[j] = tx_buf[i]
            BY <2>2, <3>0 DEF Pending
        <3>2. Pending \in Nat
            BY <2>1, CountType DEF Pending, Ring
        <3>3. tx_buf[i] = (Passed + (j - 1)) + 1
            BY <1>1, <2>2, <3>1, <3>2 DEF OrderInv, Sending
        <3> QED
            BY <2>1, <2>2, <3>1, <3>2, <3>3 DEF Passed
    <2> HIDE DEF PendingBytes
    <2> QED
        BY <2>1, <2>2, <2>3, NumberedInParts DEF SentInOrder, Passed
<1> QED
    BY <1>1, DriverKeepsOrder, PTL

\* A program that adds up what its calls return knows how many bytes moved,
\* whatever the sizes of the calls and however they end.
THEOREM ToldTheorem == Spec => []CallersAreTold
<1>1. ASSUME OrderInv PROVE CallersAreTold
    <2>1. told \in [read : Nat, write : Nat]
        BY <1>1 DEF OrderInv, Telling
    <2> QED
        BY <1>1, <2>1 DEF OrderInv, Telling, CallersAreTold, NoCall
<1> QED
    BY <1>1, DriverKeepsOrder, PTL

-----------------------------------------------------------------------------
(* The two directions are pipes. *)

LEMMA NumberedPrefix ==
    ASSUME NEW m \in Nat, NEW k \in 0 .. m
    PROVE  SubSeq(Numbered(m), 1, k) = Numbered(k)
<1>1. Numbered(m) \in Seq(Nat) /\ Len(Numbered(m)) = m /\ \A j \in 1 .. m : Numbered(m)[j] = j
    BY NumberedType DEF Numbered
<1> DEFINE s == SubSeq(Numbered(m), 1, k)
<1>2. s \in Seq(Nat) /\ Len(s) = k /\ \A j \in 1 .. k : s[j] = j
    BY <1>1, SubSeqProperties
<1> HIDE DEF s
<1>3. s = Numbered(k)
    BY <1>2, IsNumbered
<1> QED
    BY <1>3 DEF s


LEMMA NoneIsNumbered == Numbered(0) = <<>>
<1>1. Numbered(0) \in Seq(Nat) /\ Len(Numbered(0)) = 0
    BY NumberedType
<1> QED
    BY <1>1, EmptySeq

\* Bytes that go in are new at the end.
LEMMA Longer ==
    ASSUME NEW k \in Nat, NEW m \in Nat, k < m
    PROVE  /\ Len(Numbered(k)) = k /\ Len(Numbered(m)) = m
           /\ SubSeq(Numbered(k), 1, Len(Numbered(k))) = SubSeq(Numbered(m), 1, Len(Numbered(k)))
           /\ Numbered(k) # Numbered(m)
<1>1. Len(Numbered(k)) = k /\ Len(Numbered(m)) = m
    BY NumberedType
<1>2. SubSeq(Numbered(k), 1, k) = Numbered(k) /\ SubSeq(Numbered(m), 1, k) = Numbered(k)
    <2>1. k \in 0 .. k /\ k \in 0 .. m
        OBVIOUS
    <2> QED
        BY <2>1, NumberedPrefix
<1> QED
    BY <1>1, <1>2

\* The next bytes that come out are the next of those that went in.
LEMMA ComesOut ==
    ASSUME NEW m \in Nat, NEW s \in Seq(Nat), NEW t \in Seq(Nat), Len(s) < Len(t), Len(t) <= m,
           \A j \in 1 .. Len(t) : t[j] = j
    PROVE  \E k \in Len(s) + 1 .. Len(Numbered(m)) : t = SubSeq(Numbered(m), 1, k)
<1>1. Len(t) \in Len(s) + 1 .. Len(Numbered(m)) /\ Len(t) \in 0 .. m
    BY NumberedType
<1>2. t = SubSeq(Numbered(m), 1, Len(t))
    BY <1>1, NumberedPrefix, IsNumbered
<1> QED
    BY <1>1, <1>2

\* The bytes under way from the terminal: what the ring and the FIFO hold.
InputUnderWay ==
    /\ got \in Seq(Nat) /\ \A j \in 1 .. Len(got) : got[j] = j
    /\ typed \in Nat /\ Len(got) <= typed /\ typed - Len(got) <= PipeCapacity

LEMMA UnderWayIn == OrderInv => InputUnderWay
<1> SUFFICES ASSUME OrderInv PROVE InputUnderWay
    OBVIOUS
<1> USE DEF InputUnderWay
<1>1. /\ got \in Seq(Nat) /\ typed \in Nat /\ Len(rfifo) \in Nat /\ Len(rfifo) <= FifoDepth
      /\ typed = (Gone + Received) + Len(rfifo)
      /\ \A j \in 1 .. Len(got) : got[j] = j
    BY DEF OrderInv, ReceiveTyped, Receiving
<1>2. rx_in \in Ring /\ rx_out \in Ring /\ n \in Nat
    BY DEF OrderInv, DriverInv, Calling, Indexed
<1>3. Received \in Ring
    BY <1>2, CountType DEF Received
<1>4. Handed \in Nat /\ Handed <= Received
    <2>1. Available(rx_in, rx_out) \in Nat /\ Available(rx_in, rx_out) <= Received
        BY <1>2, AvailableCounts, AvailableType DEF Received
    <2>2. pc = "read_advance" => n <= Available(rx_in, rx_out)
        BY DEF OrderInv, DriverInv, ChunkIsFree
    <2> QED
        BY <1>2, <1>3, <2>1, <2>2 DEF Handed, Ring
<1> QED
    BY <1>1, <1>3, <1>4, JtagUartAssumption, UartCoreAssumption DEF Gone, Ring, PipeCapacity

LEMMA InputStep ==
    ASSUME OrderInv, OrderInv', [Next]_vars
    PROVE  [TerminalToProgram!PipeNext]_(TerminalToProgram!pipeVars)
<1> USE DEF TerminalToProgram!PipeNext, TerminalToProgram!pipeVars
<1>0. Calling
    BY DEF OrderInv, DriverInv
<1>a. InputUnderWay /\ InputUnderWay'
    BY UnderWayIn, PTL
<1>1. /\ got \in Seq(Nat) /\ typed \in Nat /\ Len(got) <= typed
      /\ got' \in Seq(Nat) /\ typed' \in Nat /\ Len(got') <= typed' /\ typed' - Len(got') <= PipeCapacity
      /\ \A j \in 1 .. Len(got') : got'[j] = j
    BY <1>a DEF InputUnderWay, PipeCapacity
<1>2. CASE UNCHANGED <<typed, got>>
    BY <1>2
<1>3. CASE Types
    <2>1. typed' = typed + 1 /\ UNCHANGED got
        BY <1>3 DEF Types, HostTypes
    <2>2. typed < typed'
        BY <1>1, <2>1
    <2>3. TerminalToProgram!Put
        BY <1>1, <2>1, <2>2, Longer
           DEF TerminalToProgram!Put, TerminalToProgram!IsStrictPrefix, TerminalToProgram!IsPrefix
    <2> QED
        BY <2>3
<1>4. CASE ReadCopies
    <2>1. n \in 1 .. call.left /\ n \in Nat /\ UNCHANGED typed
        BY <1>0, <1>4 DEF ReadCopies, Thread, Calling, ChunkFits, ChunkSteps, Indexed, Undisturbed, hostVars
    <2>2. Len(got) < Len(got')
        <3> DEFINE chunk == [k \in 1 .. n |-> rx_buf[(out + k) - 1]]
        <3>1. got' = got \o chunk
            BY <1>4 DEF ReadCopies
        <3>2. \A k \in 1 .. n : rx_buf[(out + k) - 1] = Len(got) + k
            BY <1>4, ChunkIsNext DEF OrderInv, DriverInv, ReadCopies, Thread
        <3>3. chunk \in Seq(Nat) /\ Len(chunk) = n
            BY <1>1, <2>1, <3>2
        <3> HIDE DEF chunk
        <3>4. Len(got') = Len(got) + n
            BY <1>1, <3>1, <3>3, ConcatProperties
        <3> QED
            BY <1>1, <2>1, <3>4
    <2>3. TerminalToProgram!Take
        BY <1>1, <2>1, <2>2, ComesOut DEF TerminalToProgram!Take
    <2> QED
        BY <2>3
<1>5. \/ UNCHANGED vars \/ UNCHANGED ReceiveVars \/ Types \/ Fetches \/ ReadCopies \/ ReadAdvances
    BY <1>0, ReceiveEffect
<1>6. (UNCHANGED vars \/ UNCHANGED ReceiveVars \/ Fetches \/ ReadAdvances) => UNCHANGED <<typed, got>>
    BY DEF vars, hostVars, threadVars, ReceiveVars, Fetches, ReadAdvances, Undisturbed, tallies
<1> QED
    BY <1>2, <1>3, <1>4, <1>5, <1>6

\* From the terminal to the program, the ring, the FIFO and the interrupts
\* that move the bytes between them implement one pipe: bytes come out in the
\* order typed, and never more are under way than the two hold together.
THEOREM InputPipeTheorem == Spec => InputIsAPipe
<1>1. Init => TerminalToProgram!PipeInit
    BY NoneIsNumbered DEF Init, CoreReset, TerminalToProgram!PipeInit
<1>2. OrderInv /\ OrderInv' /\ [Next]_vars => [TerminalToProgram!PipeNext]_(TerminalToProgram!pipeVars)
    BY InputStep
<1> QED
    BY <1>1, <1>2, DriverKeepsOrder, PTL DEF Spec, InputIsAPipe, TerminalToProgram!PipeSpec

OutputUnderWay ==
    /\ shown \in Seq(Nat) /\ \A j \in 1 .. Len(shown) : shown[j] = j
    /\ sent \in Nat /\ Len(shown) <= sent /\ sent - Len(shown) <= PipeCapacity

LEMMA UnderWayOut == OrderInv => OutputUnderWay
<1> SUFFICES ASSUME OrderInv PROVE OutputUnderWay
    OBVIOUS
<1> USE DEF OutputUnderWay
<1>1. /\ shown \in Seq(Nat) /\ sent \in Nat /\ Len(wfifo) \in Nat /\ Len(wfifo) <= FifoDepth
      /\ Len(shown) \in Nat
      /\ sent = Passed + Pending
      /\ \A j \in 1 .. Len(shown) : shown[j] = j
    BY UartCoreAssumption DEF OrderInv, SendTyped, Sending
<1>2. Pending \in Ring
    BY CountType DEF Pending, OrderInv, DriverInv, Calling, Indexed
<1> QED
    BY <1>1, <1>2, JtagUartAssumption, UartCoreAssumption DEF Passed, Ring, PipeCapacity

LEMMA OutputStep ==
    ASSUME OrderInv, OrderInv', [Next]_vars
    PROVE  [ProgramToTerminal!PipeNext]_(ProgramToTerminal!pipeVars)
<1> USE DEF ProgramToTerminal!PipeNext, ProgramToTerminal!pipeVars
<1>0. Calling
    BY DEF OrderInv, DriverInv
<1>a. OutputUnderWay /\ OutputUnderWay'
    BY UnderWayOut, PTL
<1>1. /\ shown \in Seq(Nat) /\ sent \in Nat /\ Len(shown) <= sent
      /\ shown' \in Seq(Nat) /\ sent' \in Nat /\ Len(shown') <= sent' /\ sent' - Len(shown') <= PipeCapacity
      /\ \A j \in 1 .. Len(shown') : shown'[j] = j
    BY <1>a DEF OutputUnderWay, PipeCapacity
<1>2. CASE UNCHANGED <<sent, shown>>
    BY <1>2
<1>3. CASE WriteAdvances
    <2>1. n \in 1 .. call.left /\ n \in Nat /\ sent' = sent + n /\ UNCHANGED shown
        BY <1>0, <1>3 DEF WriteAdvances, Thread, Calling, ChunkFits, ChunkSteps, Indexed, Undisturbed, hostVars
    <2>2. sent < sent'
        BY <1>1, <2>1
    <2>3. ProgramToTerminal!Put
        <3>1. /\ Len(Numbered(sent)) = sent /\ Len(Numbered(sent')) = sent'
              /\ SubSeq(Numbered(sent), 1, Len(Numbered(sent))) = SubSeq(Numbered(sent'), 1, Len(Numbered(sent)))
              /\ Numbered(sent) # Numbered(sent')
            BY <1>1, <2>2, Longer
        <3>2. ProgramToTerminal!IsStrictPrefix(Numbered(sent), Numbered(sent'))
            BY <1>1, <2>2, <3>1 DEF ProgramToTerminal!IsStrictPrefix, ProgramToTerminal!IsPrefix
        <3> HIDE DEF ProgramToTerminal!IsStrictPrefix
        <3>3. Len(Numbered(sent')) - Len(shown) <= PipeCapacity /\ UNCHANGED shown
            BY <1>1, <2>1, <3>1
        <3> QED
            BY <3>2, <3>3 DEF ProgramToTerminal!Put
    <2> QED
        BY <2>3
<1>4. CASE Shows
    <2>1. UNCHANGED sent /\ wfifo # <<>> /\ shown' = Append(shown, Head(wfifo))
        BY <1>4 DEF Shows, HostTakes
    <2>2. Len(shown) < Len(shown')
        BY <1>1, <2>1
    <2>3. ProgramToTerminal!Take
        BY <1>1, <2>1, <2>2, ComesOut DEF ProgramToTerminal!Take
    <2> QED
        BY <2>3
<1>5. UNCHANGED vars \/ UNCHANGED SendVars \/ Shows \/ Counts \/ IsrSends \/ WriteCopies \/ WriteAdvances
    BY <1>0, SendEffect
<1>6. (UNCHANGED vars \/ UNCHANGED SendVars \/ Counts \/ IsrSends \/ WriteCopies) => UNCHANGED <<sent, shown>>
    BY DEF vars, hostVars, threadVars, SendVars, Counts, IsrSends, WriteCopies, Undisturbed, tallies
<1> QED
    BY <1>2, <1>3, <1>4, <1>5, <1>6

\* The same from the program to the terminal; that the pipe is drained is a
\* liveness property.
THEOREM OutputPipeTheorem == Spec => ProgramToTerminal!PipeSpec
<1>1. Init => ProgramToTerminal!PipeInit
    BY NoneIsNumbered DEF Init, CoreReset, ProgramToTerminal!PipeInit
<1>2. OrderInv /\ OrderInv' /\ [Next]_vars => [ProgramToTerminal!PipeNext]_(ProgramToTerminal!pipeVars)
    BY OutputStep
<1> QED
    BY <1>1, <1>2, DriverKeepsOrder, PTL DEF Spec, ProgramToTerminal!PipeSpec


-----------------------------------------------------------------------------
(* The types. *)

Bits ==
    /\ ien_AF \in BOOLEAN /\ ien_AE \in BOOLEAN /\ pause_irq \in BOOLEAN
    /\ ac \in BOOLEAN /\ woverflow \in BOOLEAN /\ connected \in BOOLEAN
    /\ pie \in BOOLEAN /\ wi \in BOOLEAN /\ ravail \in BOOLEAN

Values ==
    /\ irq_enable \subseteq {"RE", "WE"} /\ loaded \subseteq {"RE", "WE"}
    /\ host_inactive \in 0 .. IntMax - 2 /\ timeout \in 0 .. IntMax
    /\ pc \in ThreadSteps /\ isr \in IsrSteps
    /\ result \in Int

Typing == Bits /\ Values

LEMMA InitTyping == Init => Typing
<1>1. Init => Bits
    BY DEF Init, CoreReset, Bits
<1>2. Init => Values
    BY JtagUartAssumption DEF Init, Values, ThreadSteps, IsrSteps
<1> QED
    BY <1>1, <1>2 DEF Typing

LEMMA ValuesHold ==
    ASSUME Calling, Values, Next
    PROVE  Values'
<1> USE DEF Thread, Goto, IsrGoto, Undisturbed, vars, coreVars, hostVars, rings, clockVars,
            threadVars, locals, tallies, isrVars
<1> USE DEF Values, ThreadSteps, IsrSteps
<1>a. call.done \in Int
    BY DEF Calling, Indexed, Call
<1>1. CASE DriverStarts
    BY <1>1, JtagUartAssumption DEF DriverStarts, WriteControl
<1>2. CASE CallsRead
    BY <1>2 DEF CallsRead, Calls
<1>3. CASE CallsWrite
    BY <1>3 DEF CallsWrite, Calls
<1>4. CASE CallsClose
    BY <1>4 DEF CallsClose, Calls
<1>5. CASE CallsIoctl
    BY <1>5, JtagUartAssumption DEF CallsIoctl
<1>6. CASE ReadLooks
    BY <1>6, <1>a, BlockedType DEF ReadLooks, ReadLoopEnds, Return
<1>7. CASE ReadCopies
    BY <1>7 DEF ReadCopies
<1>8. CASE ReadAdvances
    BY <1>8 DEF ReadAdvances
<1>9. CASE ReadStopsWaiting
    BY <1>9 DEF ReadStopsWaiting
<1>10. CASE ReadChecks
    BY <1>10, <1>a, BlockedType DEF ReadChecks, Return
<1>11. CASE WriteLooks
    BY <1>11 DEF WriteLooks
<1>12. CASE WriteCopies
    BY <1>12 DEF WriteCopies
<1>13. CASE WriteAdvances
    BY <1>13 DEF WriteAdvances
<1>14. CASE WriteStopsWaiting
    BY <1>14 DEF WriteStopsWaiting
<1>15. CASE WriteChecks
    BY <1>15, <1>a, BlockedType DEF WriteChecks, Return, Written
<1>16. CASE Disables
    BY <1>16 DEF Disables
<1>17. CASE LoadsMask
    BY <1>17 DEF LoadsMask
<1>18. CASE StoresMask
    BY <1>18 DEF StoresMask, CallBit
<1>19. CASE WritesControl
    BY <1>19 DEF WritesControl, WriteControl
<1>20. CASE Enables
    BY <1>20, <1>a, BlockedType DEF Enables, Return, Written
<1>21. CASE Closes
    BY <1>21 DEF Closes, Return, EWOULDBLOCK
<1>22. CASE IsrEnters
    BY <1>22 DEF IsrEnters
<1>23. CASE IsrReadsControl
    BY <1>23 DEF IsrReadsControl, RI, WI
<1>24. CASE IsrReceives
    BY <1>24 DEF IsrReceives, TakeNothing, TakeReceived
<1>25. CASE IsrReceived
    BY <1>25 DEF IsrReceived, TurnsOff, WriteControl
<1>26. CASE IsrSends
    BY <1>26 DEF IsrSends, WriteData
<1>27. CASE IsrSent
    BY <1>27 DEF IsrSent, TurnsOff, WriteControl
<1>28. CASE Tick
    BY <1>28, JtagUartAssumption DEF Tick, WriteControl
<1>29. CASE HostStep
    BY <1>29 DEF HostStep, Host, HostTypes, HostPauses, HostTakes, HostUnplugged, HostPlugged
<1>30. CASE IsrSeesAvail
    BY <1>30 DEF IsrSeesAvail
<1> QED
    BY <1>1, <1>2, <1>3, <1>4, <1>5, <1>6, <1>7, <1>8, <1>9, <1>10, <1>11, <1>12, <1>13, <1>14,
       <1>15, <1>16, <1>17, <1>18, <1>19, <1>20, <1>21, <1>22, <1>23, <1>24, <1>25, <1>26, <1>27,
       <1>28, <1>29, <1>30 DEF Next, NewCall, InCall, Isr

LEMMA BitsHold ==
    ASSUME Bits, Next
    PROVE  Bits'
<1> USE DEF Thread, Goto, IsrGoto, Undisturbed, vars, coreVars, hostVars, rings, clockVars,
            threadVars, locals, tallies, isrVars
<1> USE DEF Bits
<1>1. CASE DriverStarts
    BY <1>1 DEF DriverStarts, WriteControl
<1>2. CASE CallsRead
    BY <1>2 DEF CallsRead, Calls
<1>3. CASE CallsWrite
    BY <1>3 DEF CallsWrite, Calls
<1>4. CASE CallsClose
    BY <1>4 DEF CallsClose, Calls
<1>5. CASE CallsIoctl
    BY <1>5 DEF CallsIoctl
<1>6. CASE ReadLooks
    BY <1>6 DEF ReadLooks, ReadLoopEnds
<1>7. CASE ReadCopies
    BY <1>7 DEF ReadCopies
<1>8. CASE ReadAdvances
    BY <1>8 DEF ReadAdvances
<1>9. CASE ReadStopsWaiting
    BY <1>9 DEF ReadStopsWaiting
<1>10. CASE ReadChecks
    BY <1>10 DEF ReadChecks
<1>11. CASE WriteLooks
    BY <1>11 DEF WriteLooks
<1>12. CASE WriteCopies
    BY <1>12 DEF WriteCopies
<1>13. CASE WriteAdvances
    BY <1>13 DEF WriteAdvances
<1>14. CASE WriteStopsWaiting
    BY <1>14 DEF WriteStopsWaiting
<1>15. CASE WriteChecks
    BY <1>15 DEF WriteChecks
<1>16. CASE Disables
    BY <1>16 DEF Disables
<1>17. CASE LoadsMask
    BY <1>17 DEF LoadsMask
<1>18. CASE StoresMask
    BY <1>18 DEF StoresMask
<1>19. CASE WritesControl
    BY <1>19 DEF WritesControl, WriteControl
<1>20. CASE Enables
    BY <1>20 DEF Enables
<1>21. CASE Closes
    BY <1>21 DEF Closes
<1>22. CASE IsrEnters
    BY <1>22 DEF IsrEnters
<1>23. CASE IsrReadsControl
    BY <1>23 DEF IsrReadsControl, RI, WI
<1>24. CASE IsrReceives
    BY <1>24 DEF IsrReceives, TakeNothing, TakeReceived
<1>25. CASE IsrReceived
    <2>1. UNCHANGED <<pause_irq, woverflow, connected, pie, wi>> /\ ravail' = FALSE
        BY <1>25 DEF IsrReceived, TurnsOff, WriteControl
    <2>2. CASE TurnsOff("RE")
        <3>1. ien_AF' \in BOOLEAN /\ ien_AE' \in BOOLEAN
            BY <2>2 DEF TurnsOff, WriteControl
        <3>2. ac' = ac
            BY <2>2 DEF TurnsOff, WriteControl
        <3> QED
            BY <2>1, <3>1, <3>2
    <2>3. CASE UNCHANGED coreVars
        BY <2>1, <2>3
    <2> QED
        BY <1>25, <2>2, <2>3 DEF IsrReceived
<1>26. CASE IsrSends
    BY <1>26 DEF IsrSends, WriteData
<1>27. CASE IsrSent
    <2>1. UNCHANGED <<pause_irq, woverflow, connected, pie, ravail>> /\ wi' = FALSE
        BY <1>27 DEF IsrSent, TurnsOff, WriteControl
    <2>2. CASE TurnsOff("WE")
        <3>1. ien_AF' \in BOOLEAN /\ ien_AE' \in BOOLEAN
            BY <2>2 DEF TurnsOff, WriteControl
        <3>2. ac' = ac
            BY <2>2 DEF TurnsOff, WriteControl
        <3> QED
            BY <2>1, <3>1, <3>2
    <2>3. CASE UNCHANGED coreVars
        BY <2>1, <2>3
    <2> QED
        BY <1>27, <2>2, <2>3 DEF IsrSent
<1>28. CASE Tick
    <2>1. UNCHANGED <<connected, pie, wi, ravail>>
        BY <1>28 DEF Tick
    <2>2. CASE WriteControl(irq_enable, TRUE)
        BY <2>1, <2>2 DEF WriteControl
    <2>3. CASE UNCHANGED coreVars
        BY <2>1, <2>3
    <2> QED
        BY <1>28, <2>2, <2>3 DEF Tick
<1>29. CASE HostStep
    BY <1>29 DEF HostStep, Host, HostTypes, HostPauses, HostTakes, HostUnplugged, HostPlugged
<1>30. CASE IsrSeesAvail
    BY <1>30 DEF IsrSeesAvail, RAvail
<1> QED
    BY <1>1, <1>2, <1>3, <1>4, <1>5, <1>6, <1>7, <1>8, <1>9, <1>10, <1>11, <1>12, <1>13, <1>14,
       <1>15, <1>16, <1>17, <1>18, <1>19, <1>20, <1>21, <1>22, <1>23, <1>24, <1>25, <1>26, <1>27,
       <1>28, <1>29, <1>30 DEF Next, NewCall, InCall, Isr

\* Every variable of the driver and of the core keeps its type; an index never
\* leaves its ring, nor the room counted in the FIFO its depth.
THEOREM TypeTheorem == Spec => []TypeOK
<1>1. Init => OrderInv /\ Typing
    BY InitDriverInv, InitReceiving, InitSending, InitTelling, InitTyping DEF OrderInv
<1>2. Typing /\ UNCHANGED vars => Typing'
    BY DEF Typing, Bits, Values, vars, coreVars, hostVars, clockVars, threadVars, isrVars
<1>3. OrderInv /\ Typing /\ [Next]_vars => (OrderInv /\ Typing)'
    BY <1>2, StepOrderInv, ValuesHold, BitsHold DEF OrderInv, DriverInv, Typing
<1>4. OrderInv /\ Typing => TypeOK
    <2> SUFFICES ASSUME OrderInv, Typing PROVE TypeOK
        OBVIOUS
    <2>1. /\ rfifo \in Seq(Nat) /\ got \in Seq(Nat) /\ typed \in Nat /\ rx_buf \in [Ring -> Nat]
          /\ wfifo \in Seq(Nat) /\ shown \in Seq(Nat) /\ sent \in Nat /\ tx_buf \in [Ring -> Nat]
          /\ told \in [read : Nat, write : Nat]
        BY DEF OrderInv, ReceiveTyped, SendTyped, Telling
    <2>2. space \in 0 .. FifoDepth
        BY UartCoreAssumption DEF OrderInv, SendTyped
    <2>3. Indexed
        BY DEF OrderInv, DriverInv, Calling
    <2> QED
        BY <2>1, <2>2, <2>3 DEF TypeOK, CoreTypeOK, Typing, Bits, Values, Indexed
<1> QED
    BY <1>1, <1>3, <1>4, PTL DEF Spec

=============================================================================

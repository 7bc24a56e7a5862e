--------------------------- MODULE JtagUartPipes ---------------------------
(***************************************************************************)
(* The JTAG UART driver implements two byte pipes, one each way.  A pipe   *)
(* holds what the ring and the FIFO hold together; a ring of BufLen slots  *)
(* keeps one of them empty.                                                *)
(***************************************************************************)
EXTENDS JtagUart

PipeCapacity == (BufLen - 1) + FifoDepth

TerminalToProgram == INSTANCE BytePipe WITH
    Capacity <- PipeCapacity, put <- Numbered(typed), taken <- got
ProgramToTerminal == INSTANCE BytePipe WITH
    Capacity <- PipeCapacity, put <- Numbered(sent), taken <- shown

\* From the terminal to the program: rings, FIFO and interrupts are one pipe.
InputIsAPipe == TerminalToProgram!PipeSpec

\* From the program to the terminal: a pipe, and everything write accepts is
\* shown, the last byte too, with no further call to push it out.
OutputIsADrainedPipe == ProgramToTerminal!DrainedPipeSpec

=============================================================================

----------------------------- MODULE MCJtagUart -----------------------------
(***************************************************************************)
(* Instances of the JTAG UART driver for TLC: rings of two or three slots, *)
(* which fill up and wrap within a call, in front of FIFOs of one or two   *)
(* bytes, which fill up as well.                                           *)
(***************************************************************************)
EXTENDS JtagUartPipes

=============================================================================

------------------------------- MODULE Blocks -------------------------------
(***************************************************************************)
(* The data the two sides of Lab 9 exchange: blocks of N bytes, and the    *)
(* two-bit signals that pace the exchange.  N is 16 in the code.           *)
(***************************************************************************)
EXTENDS Integers

CONSTANTS
    N,      \* bytes in a block
    Byte,   \* the values a byte may have
    Zero    \* the byte 8'd0

ASSUME BlockAssumption == N \in Nat \ {0} /\ Zero \in Byte

Index     == 0 .. N-1
Block     == [Index -> Byte]
ZeroBlock == [j \in Index |-> Zero]

\* The values of to_hw_sig and of to_sw_sig.
Signal == 0 .. 3

=============================================================================

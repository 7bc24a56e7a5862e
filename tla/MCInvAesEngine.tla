--------------------------- MODULE MCInvAesEngine ---------------------------
(***************************************************************************)
(* A small instance of the engine: two words of two bits, and operations   *)
(* on them that tell places and rounds apart.                              *)
(***************************************************************************)
EXTENDS InvAesEngine

MCByte == {0, 1}
MCZero == 0
MCXor(a, b) == (a + b) % 2
MCSub == [b \in MCByte |-> 1 - b]
MCRcon == [r \in 1 .. Rounds |-> r % 2]
MCMul == [i \in WordIndex |-> [b \in MCByte |-> IF i = 0 THEN 0 ELSE 1 - b]]

Bits(a, b, c, d) == [j \in Index |-> <<a, b, c, d>>[j + 1]]

MCInputs  == {Bits(0,0,0,0), Bits(0,1,1,0)} \X {Bits(0,0,0,0), Bits(0,1,0,0)}
MCPowerUp == {Bits(0,0,0,0), Bits(1,0,1,1)}

=============================================================================

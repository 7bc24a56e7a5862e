------------------------------- MODULE Words -------------------------------
(***************************************************************************)
(* Blocks as the ciphers see them: W words of W bytes, 4 of 4 in the code, *)
(* byte q of word i at place W * i + q.                                    *)
(***************************************************************************)
EXTENDS Blocks

CONSTANTS
    W,              \* words in a block, and bytes in a word
    Rounds,         \* round keys after the cipher key itself (10)
    ByteXor(_, _)   \* bytewise exclusive or

WordIndex == 0 .. W-1
Word      == [WordIndex -> Byte]

ASSUME WordAssumption ==
    /\ W \in Nat \ {0}
    /\ N = W * W
    /\ Rounds \in Nat \ {0}
    /\ \A a, b \in Byte : ByteXor(a, b) \in Byte

=============================================================================

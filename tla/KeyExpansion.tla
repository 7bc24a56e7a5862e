---------------------------- MODULE KeyExpansion ----------------------------
(***************************************************************************)
(* KeyExpansion.sv: the round keys of a cipher key.                        *)
(*                                                                         *)
(* Each round key is combinational in the one before it and in the outputs *)
(* of S-boxes that are clocked ROMs.  The schedule is a pipeline: when the *)
(* cipher key changes, round key r changes at once, changes again with     *)
(* each clock, and is right after r clocks.                                *)
(***************************************************************************)
EXTENDS Words

CONSTANTS
    Sub,    \* the ROM of SubBytes.sv
    Rcon    \* Rcon[r] is the constant of round key r

ASSUME RomAssumption ==
    /\ Sub \in [Byte -> Byte]
    /\ Rcon \in [1 .. Rounds -> Byte]

VARIABLE
    subword     \* subword[r]: the outputs of the S-boxes of round key r

SubwordTypeOK == subword \in [1 .. Rounds -> Word]

\* What the S-boxes of the next round key make of the last word of oldkey;
\* they are wired to it rotated by one byte.
SubRotWord(oldkey) == [q \in WordIndex |-> Sub[oldkey[(W * (W-1)) + ((q+1) % W)]]]

\* KeyExpansionOne: the first word takes the substituted one and the round
\* constant, each further word the word before it.
NewKey(oldkey, sub, rcon) ==
    LET FirstWord == [q \in WordIndex |-> IF q = 0 THEN ByteXor(sub[0], rcon) ELSE sub[q]]
        new[j \in Index] ==
            ByteXor(oldkey[j], IF j < W THEN FirstWord[j] ELSE new[j - W])
    IN  [j \in Index |-> new[j]]

\* The round keys as they stand on the wires.
KeySchedule(cipherkey) ==
    LET k[r \in 0 .. Rounds] ==
            IF r = 0 THEN cipherkey ELSE NewKey(k[r-1], subword[r], Rcon[r])
    IN  k

\* Variant: the S-boxes of the first round key alone follow the key.
SubwordEdgeFirstOnly(cipherkey) ==
    subword' = [subword EXCEPT ![1] = SubRotWord(cipherkey)]

\* Every clock edge reads every S-box.
SubwordEdge(cipherkey) ==
    subword' = [r \in 1 .. Rounds |-> SubRotWord(KeySchedule(cipherkey)[r-1])]

\* The round keys once the pipeline has settled.
Expanded(cipherkey) ==
    LET k[r \in 0 .. Rounds] ==
            IF r = 0 THEN cipherkey ELSE NewKey(k[r-1], SubRotWord(k[r-1]), Rcon[r])
    IN  k

=============================================================================

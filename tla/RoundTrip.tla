----------------------------- MODULE RoundTrip -----------------------------
(***************************************************************************)
(* A message through both halves: main.c encrypts it, the engine decrypts  *)
(* it.  Lab9 has how the pair gets from the one to the other; here it      *)
(* stands at the engine's inputs once the software is done.                *)
(***************************************************************************)
EXTENDS InvAesEngine

CONSTANTS fbox, sbox, RconTop, xtime(_, _), Messages, Keys

ASSUME TableAssumption ==
    /\ fbox \in [Byte -> Byte]
    /\ sbox \in [Byte -> Byte]
    /\ RconTop \in [0 .. Rounds-1 -> Byte]
    /\ \A b \in Byte : xtime(b, 2) \in Byte /\ xtime(b, 3) \in Byte
    /\ Messages \subseteq Block
    /\ Keys \subseteq Block

VARIABLES sw_pc, n, pairs_hex, cipher_key, w, block

S == INSTANCE SoftwareAes

softVars == <<sw_pc, n, pairs_hex, cipher_key, w, block>>
tripVars == <<vars, softVars>>

TripTypeOK == S!SoftwareTypeOK

TripInit == Init /\ S!EncryptInit

Encrypt == S!Encrypting /\ UNCHANGED vars

HandOver ==
    /\ sw_pc = "done" /\ ~run
    /\ inputs' = <<block, cipher_key>>
    /\ run' = TRUE
    /\ UNCHANGED <<state, rnd, grp, latches, roms, held, job, intact, softVars>>

Decrypt == run /\ EngineEdge /\ UNCHANGED <<inputs, run, softVars>>

TripSpec == TripInit /\ [][Encrypt \/ HandOver \/ Decrypt]_tripVars

-----------------------------------------------------------------------------

\* What exclusive or is on bytes.
XorFits ==
    \A a, b \in Byte :
        /\ ByteXor(a, Zero) = a
        /\ ByteXor(a, a) = Zero
        /\ ByteXor(a, b) = ByteXor(b, a)
        /\ \A c \in Byte : ByteXor(ByteXor(a, b), c) = ByteXor(a, ByteXor(b, c))

\* Both key schedules substitute alike and add the same constants.
SchedulesFit ==
    /\ sbox = Sub
    /\ \A r \in 1 .. Rounds : RconTop[r-1] = Rcon[r]

\* The substitution of AES.c and the ROM of InvSubBytes.
SubstitutionsFit == \A b \in Byte : InvSub[fbox[b]] = b

\* The products of a byte that InvMixColumns sums up where MixColumns spread
\* it: they come to the byte in its own place, and to 0 in the three others.
ProductsFit ==
    LET sum(a, b, c, d) == ByteXor(ByteXor(ByteXor(a, b), c), d)
    IN  /\ W = 4
        /\ \A i \in WordIndex : \A a, b \in Byte :
              Mul[i][ByteXor(a, b)] = ByteXor(Mul[i][a], Mul[i][b])
        /\ \A b \in Byte :
              /\ sum(Mul[0][xtime(b, 2)], Mul[1][b], Mul[2][b], Mul[3][xtime(b, 3)]) = b
              /\ sum(Mul[0][xtime(b, 3)], Mul[1][xtime(b, 2)], Mul[2][b], Mul[3][b]) = Zero
              /\ sum(Mul[0][b], Mul[1][xtime(b, 3)], Mul[2][xtime(b, 2)], Mul[3][b]) = Zero
              /\ sum(Mul[0][b], Mul[1][b], Mul[2][xtime(b, 3)], Mul[3][xtime(b, 2)]) = Zero

\* Round key r of the software, as a block.
SoftwareKey(r) == [j \in Index |-> w[W * r + (j \div W)][j % W]]

\* The software expands the key to the round keys that the hardware settles
\* on: keyexpansion.c and KeyExpansion.sv were written apart, and nothing
\* compares them when the lab runs.
SchedulesAgree ==
    sw_pc # "expand" =>
        /\ SoftwareKey(0) = cipher_key
        /\ \A r \in 1 .. Rounds :
              SoftwareKey(r) = NewKey(SoftwareKey(r-1), SubRotWord(SoftwareKey(r-1)), Rcon[r])

\* InvMixColumns of the columns of a block, which are its words.
ColumnsUnmixed(in) ==
    [j \in Index |-> InvMixColumns([q \in WordIndex |-> in[W * (j \div W) + q]])[j % W]]

\* The hardware's parts undo each round of AES.c, if they are given the
\* round's own key in its own byte order and the columns of the block: ROMs,
\* multipliers and shifts fit the software's, whatever invAES makes of them.
RoundsCanBeUndone ==
    [][ /\ S!Round =>
             block = InvSubBytes(InvShiftRows(ColumnsUnmixed(S!AddRoundKey(block', n))))
        /\ S!LastRound =>
             block = InvSubBytes(InvShiftRows(S!AddRoundKey(block', n))) ]_tripVars

\* main.c prints the engine's result under "Decoded message:" (main.c:157):
\* it is the message that main.c encrypted.
DecodedIsTheMessage == Ready => Plaintext = pairs_hex

=============================================================================

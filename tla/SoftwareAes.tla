---------------------------- MODULE SoftwareAes ----------------------------
(***************************************************************************)
(* AES.c and keyexpansion.c as main.c calls them: KeyExpansion fills w one *)
(* word at a time, AES takes the block through the rounds.  One action is  *)
(* one turn of a loop.                                                     *)
(*                                                                         *)
(* An unsigned long of the Nios II has 32 bits: a word is its four bytes,  *)
(* the most significant first, and the shifts that take it apart and put   *)
(* it together lose nothing.                                               *)
(***************************************************************************)
EXTENDS Words

CONSTANTS
    fbox, sbox,     \* the substitution tables of AES.c and keyexpansion.c
    RconTop,        \* RconTop[n] is the top byte of Rcon[n], whose others are 0
    xtime(_, _),    \* the product of two bytes (xtime of AES.c)
    Messages, Keys  \* what the user may type

Nk      == W
KeyWord == 0 .. W * (Rounds + 1) - 1

VARIABLES
    sw_pc,      \* "expand", "start", "rounds" or "done"
    n,          \* i of KeyExpansion, then j of AES
    pairs_hex,  \* the message
    cipher_key, \* key_pairs_hex
    w,          \* key_expansion, as far as it is filled
    block       \* state of AES, and at the end its out

SoftwareTypeOK ==
    /\ sw_pc \in {"expand", "start", "rounds", "done"}
    /\ n \in 0 .. (IF sw_pc = "rounds" THEN Rounds ELSE W * (Rounds + 1))
    /\ pairs_hex \in Messages
    /\ cipher_key \in Keys
    /\ w \in [0 .. (IF sw_pc = "expand" THEN n ELSE W * (Rounds + 1)) - 1 -> Word]
    /\ block \in Block

-----------------------------------------------------------------------------
(* keyexpansion.c *)

WordXor(a, b) == [q \in WordIndex |-> ByteXor(a[q], b[q])]

SubWord(word) == [q \in WordIndex |-> sbox[word[q]]]
RotWord(word) == [q \in WordIndex |-> word[(q + 1) % W]]
RconWord(r)   == [q \in WordIndex |-> IF q = 0 THEN RconTop[r] ELSE Zero]

Append(word) == w' = [k \in 0 .. n |-> IF k = n THEN word ELSE w[k]]

CopyKeyWord ==
    /\ sw_pc = "expand" /\ n < Nk
    /\ Append([q \in WordIndex |-> cipher_key[W * n + q]])
    /\ n' = n + 1
    /\ UNCHANGED <<sw_pc, pairs_hex, cipher_key, block>>

\* Variant: the round constants taken from the one after.
ExpandWordNextRcon ==
    /\ sw_pc = "expand" /\ n \in Nk .. W * (Rounds + 1) - 1
    /\ LET temp == IF n % Nk = 0 THEN WordXor(SubWord(RotWord(w[n-1])), RconWord((n \div Nk) % Rounds))
                                 ELSE w[n-1]
       IN  Append(WordXor(w[n - Nk], temp))
    /\ n' = n + 1
    /\ UNCHANGED <<sw_pc, pairs_hex, cipher_key, block>>
ExpandWord ==
    /\ sw_pc = "expand" /\ n \in Nk .. W * (Rounds + 1) - 1
    /\ LET temp == IF n % Nk = 0 THEN WordXor(SubWord(RotWord(w[n-1])), RconWord(n \div Nk - 1))
                                 ELSE w[n-1]
       IN  Append(WordXor(w[n - Nk], temp))
    /\ n' = n + 1
    /\ UNCHANGED <<sw_pc, pairs_hex, cipher_key, block>>

Expanded ==
    /\ sw_pc = "expand" /\ n = W * (Rounds + 1)
    /\ sw_pc' = "start"
    /\ n' = 0
    /\ UNCHANGED <<pairs_hex, cipher_key, w, block>>

-----------------------------------------------------------------------------
(* AES.c *)

\* Variant: the words of w for the rows, as in the loop commented out.
AddRoundKeyByRows(s, r) == [j \in Index |-> ByteXor(s[j], w[W * r + (j % W)][j \div W])]

\* temp holds the words of w that belong to turn r.
AddRoundKey(s, r) == [j \in Index |-> ByteXor(s[j], w[W * r + (j \div W)][j % W])]

SubBytes(s) == [j \in Index |-> fbox[s[j]]]

\* Byte r of each column comes from the column r places on.
ShiftRows(s) == [j \in Index |-> s[W * (((j \div W) + (j % W)) % W) + (j % W)]]

\* Byte q of a column: twice itself, three times the next, once each other.
MixColumns(s) ==
    [j \in Index |->
        LET a == [k \in WordIndex |-> s[W * (j \div W) + (((j % W) + k) % W)]]
            sum[k \in WordIndex] ==
                CASE k = 0 -> xtime(a[0], 2)
                  [] k = 1 -> ByteXor(sum[0], xtime(a[1], 3))
                  [] OTHER -> ByteXor(sum[k-1], a[k])
        IN  sum[W-1]]

StartAes ==
    /\ sw_pc = "start"
    /\ block' = AddRoundKey(pairs_hex, 0)
    /\ n' = 1
    /\ sw_pc' = "rounds"
    /\ UNCHANGED <<pairs_hex, cipher_key, w>>

\* Variant: the rows shifted after the columns are mixed.
RoundShiftLast ==
    /\ sw_pc = "rounds" /\ n < Rounds
    /\ block' = AddRoundKey(ShiftRows(MixColumns(SubBytes(block))), n)
    /\ n' = n + 1
    /\ UNCHANGED <<sw_pc, pairs_hex, cipher_key, w>>
Round ==
    /\ sw_pc = "rounds" /\ n < Rounds
    /\ block' = AddRoundKey(MixColumns(ShiftRows(SubBytes(block))), n)
    /\ n' = n + 1
    /\ UNCHANGED <<sw_pc, pairs_hex, cipher_key, w>>

LastRound ==
    /\ sw_pc = "rounds" /\ n = Rounds
    /\ block' = AddRoundKey(ShiftRows(SubBytes(block)), Rounds)
    /\ sw_pc' = "done"
    /\ UNCHANGED <<n, pairs_hex, cipher_key, w>>

Encrypting == CopyKeyWord \/ ExpandWord \/ Expanded \/ StartAes \/ Round \/ LastRound

EncryptInit ==
    /\ sw_pc = "expand"
    /\ n = 0
    /\ pairs_hex \in Messages
    /\ cipher_key \in Keys
    /\ w = <<>>
    /\ block = ZeroBlock

=============================================================================

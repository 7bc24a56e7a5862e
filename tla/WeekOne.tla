------------------------------ MODULE WeekOne ------------------------------
(***************************************************************************)
(* The cipher of the week 1 program (lab9software), built by its Makefile  *)
(* with the gcc of the host.  The source is that of the lab's program but  *)
(* for gmul; what differs is the unsigned long, which has eight bytes on a *)
(* 64-bit host while an int keeps four: the shifts of KeyExpansion are     *)
(* done in int and extend its sign, and SubWord and RotWord take "word >>  *)
(* 24" for the top byte.                                                   *)
(***************************************************************************)
EXTENDS Words, FiniteSets

CONSTANTS
    Long,           \* bytes of an unsigned long
    fbox, sbox,     \* the substitution tables of AES.c and keyexpansion.c
    RconTop,        \* RconTop[n] is the byte of Rcon[n] at 24
    gmul(_, _),     \* the product of two bytes
    Messages, Keys  \* what the user may type

Base == Cardinality(Byte)

ASSUME WeekOneAssumption ==
    /\ Base \in Nat /\ Byte = 0 .. Base - 1 /\ Base % 2 = 0 /\ Zero = 0
    /\ \A a, b \in {0, Base - 1} : ByteXor(a, b) = IF a = b THEN 0 ELSE Base - 1
    /\ Long \in Nat /\ Long >= W
    /\ sbox \in [Byte -> Byte]
    /\ RconTop \in [0 .. Rounds-1 -> Byte]
    /\ \A b \in Byte : gmul(b, 1) = b
    /\ Keys \subseteq Block

\* A value of type unsigned long: byte k is the one at bit 8 * k.
LongIndex == 0 .. Long - 1

VARIABLES
    sw_pc, n, pairs_hex, cipher_key, block,  \* as in SoftwareAes
    w,          \* key_expansion, as far as it is filled
    outside     \* SubWord has read outside of sbox

hostVars == <<sw_pc, n, pairs_hex, cipher_key, block, w, outside>>

\* AddRoundKey takes a word's four low bytes: "key >> (24 - i * 8)" into a
\* char.
KeyBytes == [i \in DOMAIN w |-> [q \in WordIndex |-> w[i][W - 1 - q]]]

Lab == INSTANCE SoftwareAes WITH w <- KeyBytes, xtime <- gmul

-----------------------------------------------------------------------------
(* keyexpansion.c on an unsigned long. *)

LongXor(a, b) == [k \in LongIndex |-> ByteXor(a[k], b[k])]

\* The sum, modulo 2^(8 * Long).
LongSum(a, b) ==
    LET carry[k \in 0 .. Long] == IF k = 0 THEN 0 ELSE ((a[k-1] + b[k-1]) + carry[k-1]) \div Base
    IN  [k \in LongIndex |-> ((a[k] + b[k]) + carry[k]) % Base]

Negative(top) == top >= Base \div 2

\* (key[4*i] << 24) + ...: the int made of the key's bytes, converted.
KeyWord(i) ==
    LET sign == IF Negative(cipher_key[W * i]) THEN Base - 1 ELSE 0
    IN  [k \in LongIndex |-> IF k < W THEN cipher_key[W * i + ((W - 1) - k)] ELSE sign]

\* word >> 24: the top byte of four, and all those above it.
TopByte(word) == [k \in LongIndex |-> IF k + (W - 1) < Long THEN word[k + (W - 1)] ELSE 0]

\* Variant: the bytes rotated the other way round.
RotWordRight(word) ==
    LongSum([k \in LongIndex |-> IF k < W - 1 THEN word[k + 1] ELSE 0],
            [k \in LongIndex |-> IF k = W - 1 THEN word[0] ELSE 0])

RotWord(word) == LongSum([k \in LongIndex |-> IF k \in 1 .. W - 1 THEN word[k-1] ELSE 0], TopByte(word))

\* The index y*16 + x into sbox is what bite was: a byte, or more than one.
InTable(word) == \A k \in 1 .. Long - 1 : TopByte(word)[k] = 0

SubWord(word) == [k \in LongIndex |-> IF k < W THEN sbox[word[k]] ELSE 0]
RconWord(r)   == [k \in LongIndex |-> IF k = W - 1 THEN RconTop[r] ELSE 0]

AppendWord(word) == w' = [i \in 0 .. n |-> IF i = n THEN word ELSE w[i]]

CopyKeyWord ==
    /\ sw_pc = "expand" /\ n < Lab!Nk
    /\ AppendWord(KeyWord(n))
    /\ n' = n + 1
    /\ UNCHANGED <<sw_pc, pairs_hex, cipher_key, block, outside>>

Expanding == sw_pc = "expand" /\ n \in Lab!Nk .. W * (Rounds + 1) - 1

ExpandPlainWord ==
    /\ Expanding /\ n % Lab!Nk # 0
    /\ AppendWord(LongXor(w[n - Lab!Nk], w[n-1]))
    /\ n' = n + 1
    /\ UNCHANGED <<sw_pc, pairs_hex, cipher_key, block, outside>>

ExpandCoreWord ==
    /\ Expanding /\ n % Lab!Nk = 0 /\ ~outside
    /\ InTable(RotWord(w[n-1]))
    /\ AppendWord(LongXor(w[n - Lab!Nk], LongXor(SubWord(RotWord(w[n-1])), RconWord(n \div Lab!Nk - 1))))
    /\ n' = n + 1
    /\ UNCHANGED <<sw_pc, pairs_hex, cipher_key, block, outside>>

\* Nothing is said of a program that has read outside of its table.
ReadsOutside ==
    /\ Expanding /\ n % Lab!Nk = 0 /\ ~outside
    /\ ~InTable(RotWord(w[n-1]))
    /\ outside' = TRUE
    /\ UNCHANGED <<sw_pc, n, pairs_hex, cipher_key, block, w>>

Expanded == UNCHANGED <<w, outside>> /\ Lab!Expanded

\* AES.c with gmul for xtime; it multiplies by 1 too.
HostAes == UNCHANGED <<w, outside>> /\ (Lab!StartAes \/ Lab!Round \/ Lab!LastRound)

HostInit ==
    /\ w = <<>> /\ outside = FALSE
    /\ Lab!EncryptInit

HostSpec ==
    HostInit /\ [][ CopyKeyWord \/ ExpandPlainWord \/ ExpandCoreWord \/ ReadsOutside
                    \/ Expanded \/ HostAes ]_hostVars

-----------------------------------------------------------------------------
(* Properties. *)

\* Built with an unsigned long of eight bytes, the program computes what the
\* lab's does, step by step, unless it reads outside of sbox: extended signs
\* reach no byte of a round key in silence.
ImplementsSoftwareAes ==
    Lab!EncryptInit /\ [][Lab!Encrypting]_<<sw_pc, n, pairs_hex, cipher_key, KeyBytes, block>>

\* "hex values of byte -> row & column" (lab9software/keyexpansion.c:68):
\* what SubWord looks up is a byte.
LooksUpBytes == ~outside

=============================================================================

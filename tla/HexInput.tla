------------------------------ MODULE HexInput ------------------------------
(***************************************************************************)
(* How main.c gets a message and a key from the terminal and prints what   *)
(* it computes: scanf into two arrays of digits, charsToHex on each pair   *)
(* of digits, printf of each byte.                                         *)
(*                                                                         *)
(* The arrays lie in main's stack frame in the order in which they are     *)
(* declared (lab9_app.objdump: plaintext at -304(fp) to key_expansion at   *)
(* -176(fp)), and scanf("%s") neither knows an array's length nor clears   *)
(* it: the terminating zero of a text of the right length already falls    *)
(* into the next array, a shorter text leaves old digits behind it.  So    *)
(* the frame is one piece of memory here, and an array an address in it.   *)
(*                                                                         *)
(* A character is its code; main.c stores it in a byte.                    *)
(***************************************************************************)
EXTENDS Integers, Sequences, SequencesExt

CONSTANTS
    N,          \* bytes of a block (16)
    Texts,      \* what the user may type: lines without white space
    Blocks,     \* what AES and the hardware may answer
    Leftovers   \* bytes that may lie on the stack before main runs

Byte == 0 .. 255

ASSUME HexInputAssumption ==
    /\ N \in Nat \ {0}
    /\ \A t \in Texts : t \in Seq(Byte \ {0}) /\ Len(t) < 4 * N
    /\ Blocks \subseteq [0 .. N-1 -> Byte]
    /\ Leftovers \subseteq Byte

\* The frame: unsigned char plaintext[32], key[32], str[16],
\* encrypted_message[16], pairs_hex[16], key_pairs_hex[16].
Frame == 0 .. 8 * N - 1

\* Variant: plaintext declared after key.
PlaintextAfterKey == 4 * N
plaintext         == 0
key               == 2 * N
str               == 4 * N
encrypted_message == 5 * N
pairs_hex         == 6 * N
key_pairs_hex     == 7 * N

VARIABLES
    frame,      \* the contents of the arrays
    line,       \* where main is in the turn
    turn,       \* i of its loops
    typed       \* history: the texts of this turn, <<>> where scanf got none

inputVars == <<frame, line, turn, typed>>

-----------------------------------------------------------------------------
(* Digits and bytes. *)

\* charToHex: any other character is left as it is.
charToHex(c) ==
    CASE c \in 48 .. 57  -> c - 48            \* '0' to '9'
      [] c \in 65 .. 70  -> (c - 65) + 10     \* 'A' to 'F'
      [] c \in 97 .. 102 -> (c - 97) + 10     \* 'a' to 'f'
      [] OTHER           -> c

\* charsToHex: a sum in eight bits.
charsToHex(c1, c2) == (16 * charToHex(c1) + charToHex(c2)) % 256

Digit(v) == IF v < 10 THEN 48 + v ELSE 97 + (v - 10)

\* Variant: printf("%x"), as in the week 1 program.
WithoutLeadingZero(b) == IF b < 16 THEN <<Digit(b)>> ELSE <<Digit(b \div 16), Digit(b % 16)>>

\* printf("%02x")
TwoDigits(b) == <<Digit(b \div 16), Digit(b % 16)>>

\* The loops that print encrypted_message and str.
Printed(array) == FlattenSeq([j \in 1 .. N |-> TwoDigits(frame[array + (j - 1)])])

-----------------------------------------------------------------------------
(* main *)

InputInit ==
    /\ \E b \in Leftovers : frame = [a \in Frame |-> b]
    /\ line = "message" /\ turn = 0
    /\ typed = [message |-> <<>>, key |-> <<>>]

\* scanf("%s"): the characters and a zero.
Stored(array, text) ==
    [a \in Frame |->
        CASE a \in array .. (array + Len(text)) - 1 -> text[(a - array) + 1]
          [] a = array + Len(text)                  -> 0
          [] OTHER                                  -> frame[a]]

\* main ignores what scanf returns.
Scan(array, what) ==
    \/ \E text \in Texts :
          /\ frame' = Stored(array, text)
          /\ typed' = [typed EXCEPT ![what] = text]
    \/ /\ typed' = [typed EXCEPT ![what] = <<>>]
       /\ UNCHANGED frame

ScanMessage == line = "message" /\ Scan(plaintext, "message") /\ line' = "key" /\ UNCHANGED turn
ScanKey     == line = "key" /\ Scan(key, "key") /\ line' = "pairs" /\ UNCHANGED turn

\* One turn of a loop over a block, and where the loop leaves to.
Turn(here, next) ==
    /\ line = here
    /\ turn' = (turn + 1) % N
    /\ line' = IF turn = N - 1 THEN next ELSE here

Pair(from, to) ==
    frame' = [frame EXCEPT ![to + turn] = charsToHex(frame[from + 2 * turn], frame[(from + 2 * turn) + 1])]

PairMessage == Turn("pairs", "key_pairs") /\ Pair(plaintext, pairs_hex) /\ UNCHANGED typed
PairKey     == Turn("key_pairs", "encrypt") /\ Pair(key, key_pairs_hex) /\ UNCHANGED typed

\* AES fills encrypted_message, the exchange fills str; SoftwareAes and Lab9
\* have how.
Filled(array) ==
    \E block \in Blocks :
        frame' = [a \in Frame |-> IF a \in array .. (array + N) - 1 THEN block[a - array] ELSE frame[a]]

Encrypt ==
    /\ line = "encrypt"
    /\ Filled(encrypted_message)
    /\ line' = "exchange"
    /\ UNCHANGED <<turn, typed>>

Exchange ==
    /\ line = "exchange"
    /\ Filled(str)
    /\ line' = "decoded"
    /\ UNCHANGED <<turn, typed>>

\* The decoded message is printed, and the loop starts again.
NextTurn ==
    /\ line = "decoded"
    /\ line' = "message"
    /\ typed' = [message |-> <<>>, key |-> <<>>]
    /\ UNCHANGED <<frame, turn>>

InputNext == ScanMessage \/ ScanKey \/ PairMessage \/ PairKey \/ Encrypt \/ Exchange \/ NextTurn

InputSpec == InputInit /\ [][InputNext]_inputVars

-----------------------------------------------------------------------------
(* Properties. *)

InputTypeOK ==
    /\ frame \in [Frame -> Byte]
    /\ line \in {"message", "key", "pairs", "key_pairs", "encrypt", "exchange", "decoded"}
    /\ turn \in 0 .. N-1
    /\ \A what \in {"message", "key"} : typed[what] \in Texts \cup {<<>>}

LowerDigits == <<48, 49, 50, 51, 52, 53, 54, 55, 56, 57, 97, 98, 99, 100, 101, 102>>
UpperDigits == <<48, 49, 50, 51, 52, 53, 54, 55, 56, 57, 65, 66, 67, 68, 69, 70>>
ValueOf(c)  == CHOOSE v \in 0 .. 15 : c \in {LowerDigits[v+1], UpperDigits[v+1]}

IsBlockText(text) ==
    /\ Len(text) = 2 * N
    /\ \A k \in 1 .. 2 * N : \E v \in 1 .. 16 : text[k] \in {LowerDigits[v], UpperDigits[v]}

\* The bytes of array are those that text spells.
Spells(text, array) ==
    \A j \in 0 .. N-1 : frame[array + j] = 16 * ValueOf(text[2*j + 1]) + ValueOf(text[2*j + 2])

\* A message of the right length and alphabet becomes the block it spells, and
\* so does a key, whatever was typed beside it or in earlier turns: no
\* terminating zero and no overlong text of the other falls on digits that are
\* still to be read.
PairsAreTyped ==
    line = "encrypt" =>
        /\ IsBlockText(typed.message) => Spells(typed.message, pairs_hex)
        /\ IsBlockText(typed.key) => Spells(typed.key, key_pairs_hex)

\* What the program prints of a block can be typed in again and is the block
\* it was: it has every digit, and charsToHex undoes printf.
PrintedReadsBack ==
    line \in {"exchange", "decoded"} =>
        LET text == Printed(encrypted_message) IN
        /\ Len(text) = 2 * N
        /\ \A j \in 0 .. N-1 : charsToHex(text[2*j + 1], text[2*j + 2]) = frame[encrypted_message + j]

=============================================================================

--------------------------- MODULE SupportProofs ---------------------------
(***************************************************************************)
(* Theorems of the software around the exchange: main's input and output,  *)
(* for every block length, whatever is typed and whatever the ciphers      *)
(* answer; the alarms, for every set of them, width of the tick counter,   *)
(* delays and periods; and the interrupts, for every number of them and of *)
(* drivers and every depth to which critical sections nest.  The three     *)
(* share no state; each has its invariant.                                 *)
(*                                                                         *)
(* InputInv: the digits paired so far spell the bytes made of them, and a  *)
(* text is in its array until they all are.                                *)
(*                                                                         *)
(* AlarmInv: the running alarms are a ring with the head, and the time of  *)
(* each is its due tick's, on the side of alt_tick's walk it is on.        *)
(*                                                                         *)
(* InterruptInv: the contexts that alt_irq_disable_all has returned are a  *)
(* stack with TRUE at its bottom only (Nesting), the three copies of what  *)
(* is enabled differ only where a section is open (Masking), an entry of   *)
(* the table is whole, and there for whatever is enabled, outside of the   *)
(* section that registers it (Tables), and the dispatcher has something to *)
(* serve (Serving).                                                        *)
(***************************************************************************)
EXTENDS HexInput, Alarms, Interrupts,
        NaturalsInduction, SequenceTheorems, WellFoundedInduction, TLAPS

-----------------------------------------------------------------------------
(* Input and output: the invariant. *)

\* text stands in the frame f from array on.
Placed(f, text, array) == \A k \in 1 .. 2 * N : f[array + (k - 1)] = text[k]

\* The first n bytes of array are those that text spells.
SpellsFirst(f, n, text, array) ==
    \A j \in 0 .. n - 1 : f[array + j] = 16 * ValueOf(text[2*j + 1]) + ValueOf(text[2*j + 2])

\* How far the loops over the digits have come.
MessagePaired == CASE line = "pairs" -> turn [] line \in {"key_pairs", "encrypt"} -> N [] OTHER -> 0
KeyPaired     == CASE line = "key_pairs" -> turn [] line = "encrypt" -> N [] OTHER -> 0

InputInv ==
    /\ InputTypeOK
    /\ typed \in [message : Texts \cup {<<>>}, key : Texts \cup {<<>>}]
    /\ line \notin {"pairs", "key_pairs"} => turn = 0
    /\ IsBlockText(typed.message) =>
          /\ line \in {"key", "pairs"} => Placed(frame, typed.message, plaintext)
          /\ SpellsFirst(frame, MessagePaired, typed.message, pairs_hex)
    /\ IsBlockText(typed.key) =>
          /\ line \in {"pairs", "key_pairs"} => Placed(frame, typed.key, key)
          /\ SpellsFirst(frame, KeyPaired, typed.key, key_pairs_hex)

-----------------------------------------------------------------------------
(* Digits. *)

LEMMA DigitLists ==
    \A v \in 0 .. 15 :
        /\ charToHex(LowerDigits[v+1]) = v
        /\ charToHex(UpperDigits[v+1]) = v
<1> SUFFICES ASSUME NEW v \in 0 .. 15
             PROVE  charToHex(LowerDigits[v+1]) = v /\ charToHex(UpperDigits[v+1]) = v
    OBVIOUS
<1>1. /\ LowerDigits[v+1] = IF v < 10 THEN 48 + v ELSE 97 + (v - 10)
      /\ UpperDigits[v+1] = IF v < 10 THEN 48 + v ELSE 65 + (v - 10)
    BY DEF LowerDigits, UpperDigits
<1> QED
    BY <1>1 DEF charToHex

\* charToHex gives a digit its value.
LEMMA DigitValue ==
    ASSUME NEW c, \E v \in 1 .. 16 : c \in {LowerDigits[v], UpperDigits[v]}
    PROVE  charToHex(c) = ValueOf(c) /\ ValueOf(c) \in 0 .. 15
<1>1. \E v \in 0 .. 15 : c \in {LowerDigits[v+1], UpperDigits[v+1]}
    <2>1. PICK v \in 1 .. 16 : c \in {LowerDigits[v], UpperDigits[v]}
        OBVIOUS
    <2>2. v - 1 \in 0 .. 15 /\ (v - 1) + 1 = v
        OBVIOUS
    <2> QED
        BY <2>1, <2>2
<1>2. ValueOf(c) \in 0 .. 15 /\ c \in {LowerDigits[ValueOf(c)+1], UpperDigits[ValueOf(c)+1]}
    BY <1>1 DEF ValueOf
<1> QED
    BY <1>2, DigitLists

LEMMA DigitsPair ==
    ASSUME NEW c1, NEW c2,
           \E v \in 1 .. 16 : c1 \in {LowerDigits[v], UpperDigits[v]},
           \E v \in 1 .. 16 : c2 \in {LowerDigits[v], UpperDigits[v]}
    PROVE  charsToHex(c1, c2) = 16 * ValueOf(c1) + ValueOf(c2)
<1>1. /\ charToHex(c1) = ValueOf(c1) /\ ValueOf(c1) \in 0 .. 15
      /\ charToHex(c2) = ValueOf(c2) /\ ValueOf(c2) \in 0 .. 15
    BY DigitValue
<1> QED
    BY <1>1 DEF charsToHex

\* charToHex undoes the digits that printf prints.
LEMMA DigitUndone == \A v \in 0 .. 15 : charToHex(Digit(v)) = v
BY DEF charToHex, Digit

LEMMA TwoDigitsUndone ==
    ASSUME NEW b \in Byte
    PROVE  charsToHex(TwoDigits(b)[1], TwoDigits(b)[2]) = b
<1>1. b \div 16 \in 0 .. 15 /\ b % 16 \in 0 .. 15 /\ b = 16 * (b \div 16) + (b % 16)
    BY DEF Byte
<1>2. TwoDigits(b)[1] = Digit(b \div 16) /\ TwoDigits(b)[2] = Digit(b % 16)
    BY DEF TwoDigits
<1>3. /\ charToHex(TwoDigits(b)[1]) = b \div 16
      /\ charToHex(TwoDigits(b)[2]) = b % 16
    BY <1>1, <1>2, DigitUndone
<1> QED
    BY <1>1, <1>3 DEF charsToHex, Byte

\* charToHex leaves a byte a byte, charsToHex too.
LEMMA charsToHexType ==
    ASSUME NEW c1 \in Byte, NEW c2 \in Byte
    PROVE  charsToHex(c1, c2) \in Byte
<1>1. \A c \in Byte : charToHex(c) \in Int
    BY DEF charToHex, Byte
<1>2. charToHex(c1) \in Int /\ charToHex(c2) \in Int
    BY <1>1
<1>3. \A x \in Int : x % 256 \in 0 .. 255
    OBVIOUS
<1>4. 16 * charToHex(c1) + charToHex(c2) \in Int
    BY <1>2
<1> QED
    BY <1>3, <1>4 DEF charsToHex, Byte

-----------------------------------------------------------------------------
(* The frame. *)

LEMMA FrameFacts ==
    /\ N \in Nat /\ N > 0
    /\ plaintext = 0 /\ key = 2 * N /\ str = 4 * N
    /\ encrypted_message = 5 * N /\ pairs_hex = 6 * N /\ key_pairs_hex = 7 * N
    /\ Frame = 0 .. 8 * N - 1
BY HexInputAssumption
DEF plaintext, key, str, encrypted_message, pairs_hex, key_pairs_hex, Frame

LEMMA StoredType ==
    ASSUME InputTypeOK, NEW text \in Texts, NEW array \in {plaintext, key}
    PROVE  /\ Stored(array, text) \in [Frame -> Byte]
           /\ \A a \in Frame : a < array => Stored(array, text)[a] = frame[a]
           /\ IsBlockText(text) => \A k \in 1 .. 2 * N : Stored(array, text)[array + (k - 1)] = text[k]
<1>a. /\ text \in Seq(Byte \ {0}) /\ Len(text) \in Nat /\ frame \in [Frame -> Byte]
      /\ \A k \in 1 .. Len(text) : text[k] \in Byte
    BY HexInputAssumption, ElementOfSeq, LenProperties DEF InputTypeOK
<1>b. array \in Nat /\ array + 2 * N <= 4 * N
    BY FrameFacts
<1>1. ASSUME NEW a \in Frame PROVE Stored(array, text)[a] \in Byte
    <2>a. a \in Int
        BY FrameFacts
    <2>1. CASE a \in array .. (array + Len(text)) - 1
        <3>1. (a - array) + 1 \in 1 .. Len(text)
            BY <1>a, <1>b, <2>a, <2>1
        <3>2. Stored(array, text)[a] = text[(a - array) + 1]
            BY <2>1 DEF Stored
        <3> QED
            BY <1>a, <3>1, <3>2
    <2>2. CASE a \notin array .. (array + Len(text)) - 1
        BY <1>a, <2>2 DEF Stored, Byte
    <2> QED
        BY <2>1, <2>2
<1>2. ASSUME NEW a \in Frame, a < array PROVE Stored(array, text)[a] = frame[a]
    <2>1. a \in Int
        BY FrameFacts
    <2>2. a \notin array .. (array + Len(text)) - 1 /\ a # array + Len(text)
        BY <1>a, <1>b, <1>2, <2>1
    <2> QED
        BY <2>2 DEF Stored
<1>3. ASSUME IsBlockText(text), NEW k \in 1 .. 2 * N
      PROVE  Stored(array, text)[array + (k - 1)] = text[k]
    <2>1. Len(text) = 2 * N
        BY <1>3 DEF IsBlockText
    <2>2. /\ array + (k - 1) \in array .. (array + Len(text)) - 1
          /\ array + (k - 1) \in Frame
          /\ ((array + (k - 1)) - array) + 1 = k
        BY <1>b, <2>1, FrameFacts
    <2> QED
        BY <2>2 DEF Stored
<1> QED
    BY <1>1, <1>2, <1>3 DEF Stored

-----------------------------------------------------------------------------
(* The steps. *)

LEMMA InputInvInit == InputInit => InputInv
<1> SUFFICES ASSUME InputInit PROVE InputInv
    OBVIOUS
<1> USE DEF InputInit
<1>1. typed.message = <<>> /\ typed.key = <<>>
    OBVIOUS
<1>2. ~IsBlockText(<<>>)
    <2>1. Len(<<>>) = 0
        OBVIOUS
    <2> QED
        BY <2>1, FrameFacts DEF IsBlockText
<1>3. typed \in [message : Texts \cup {<<>>}, key : Texts \cup {<<>>}]
    OBVIOUS
<1>4. InputTypeOK
    <2>1. frame \in [Frame -> Byte]
        BY HexInputAssumption
    <2>2. \A what \in {"message", "key"} : typed[what] \in Texts \cup {<<>>}
        OBVIOUS
    <2> QED
        BY <2>1, <2>2, FrameFacts DEF InputTypeOK
<1> QED
    BY <1>1, <1>2, <1>3, <1>4 DEF InputInv

LEMMA EmptyIsNoBlock == ~IsBlockText(<<>>)
<1>1. Len(<<>>) = 0
    OBVIOUS
<1> QED
    BY <1>1, FrameFacts DEF IsBlockText

\* What scanf does to the two texts, and to the frame below its array.
LEMMA ScanEffect ==
    ASSUME InputInv, NEW array \in {plaintext, key}, NEW what \in {"message", "key"}, Scan(array, what)
    PROVE  /\ frame' \in [Frame -> Byte]
           /\ \A a \in Frame : a < array => frame'[a] = frame[a]
           /\ typed' \in [message : Texts \cup {<<>>}, key : Texts \cup {<<>>}]
           /\ what = "message" => typed'.key = typed.key
           /\ what = "key" => typed'.message = typed.message
           /\ IsBlockText(typed'[what]) => Placed(frame', typed'[what], array)
<1>a. InputTypeOK /\ typed \in [message : Texts \cup {<<>>}, key : Texts \cup {<<>>}]
    BY DEF InputInv
<1>b. frame \in [Frame -> Byte]
    BY <1>a DEF InputTypeOK
<1>c. array \in {plaintext, key} /\ array' = array
    BY DEF plaintext, key
<1>1. ASSUME NEW text \in Texts \cup {<<>>}, typed' = [typed EXCEPT ![what] = text]
      PROVE  /\ typed' \in [message : Texts \cup {<<>>}, key : Texts \cup {<<>>}]
             /\ what = "message" => typed'.key = typed.key
             /\ what = "key" => typed'.message = typed.message
             /\ typed'[what] = text
    BY <1>a, <1>1
<1>2. CASE typed' = [typed EXCEPT ![what] = <<>>] /\ UNCHANGED frame
    BY <1>1, <1>2, <1>b, EmptyIsNoBlock
<1>3. ASSUME NEW text \in Texts, frame' = Stored(array, text), typed' = [typed EXCEPT ![what] = text]
      PROVE  /\ frame' \in [Frame -> Byte]
             /\ \A a \in Frame : a < array => frame'[a] = frame[a]
             /\ IsBlockText(text) => \A k \in 1 .. 2 * N : frame'[array + (k - 1)] = text[k]
    BY <1>3, <1>a, StoredType
<1> QED
    BY <1>1, <1>2, <1>3 DEF Scan, Placed

LEMMA ScanMessageHolds ==
    ASSUME InputInv, ScanMessage
    PROVE  InputInv'
<1>a. line = "message" /\ line' = "key" /\ turn' = turn /\ turn = 0
    BY DEF ScanMessage, InputInv
<1>1. /\ frame' \in [Frame -> Byte]
      /\ typed' \in [message : Texts \cup {<<>>}, key : Texts \cup {<<>>}]
      /\ IsBlockText(typed'.message) => Placed(frame', typed'.message, plaintext)
    BY ScanEffect DEF ScanMessage
<1>2. InputTypeOK'
    BY <1>a, <1>1, FrameFacts DEF InputTypeOK
<1>3. MessagePaired' = 0 /\ KeyPaired' = 0
    BY <1>a DEF MessagePaired, KeyPaired
<1>4. \A text, array : SpellsFirst(frame', 0, text, array)
    BY DEF SpellsFirst
<1> QED
    BY <1>a, <1>1, <1>2, <1>3, <1>4 DEF InputInv

LEMMA ScanKeyHolds ==
    ASSUME InputInv, ScanKey
    PROVE  InputInv'
<1>a. line = "key" /\ line' = "pairs" /\ turn' = turn /\ turn = 0
    BY DEF ScanKey, InputInv
<1>1. /\ frame' \in [Frame -> Byte]
      /\ \A a \in Frame : a < key => frame'[a] = frame[a]
      /\ typed' \in [message : Texts \cup {<<>>}, key : Texts \cup {<<>>}]
      /\ typed'.message = typed.message
      /\ IsBlockText(typed'.key) => Placed(frame', typed'.key, key)
    BY ScanEffect DEF ScanKey
<1>2. InputTypeOK'
    BY <1>a, <1>1, FrameFacts DEF InputTypeOK
<1>3. MessagePaired' = 0 /\ KeyPaired' = 0
    BY <1>a DEF MessagePaired, KeyPaired
<1>4. \A text, array : SpellsFirst(frame', 0, text, array)
    BY DEF SpellsFirst
<1>5. IsBlockText(typed'.message) => Placed(frame', typed'.message, plaintext)
    <2> SUFFICES ASSUME IsBlockText(typed.message), NEW k \in 1 .. 2 * N
                 PROVE  frame'[plaintext + (k - 1)] = typed.message[k]
        BY <1>1 DEF Placed, plaintext
    <2>1. frame[plaintext + (k - 1)] = typed.message[k]
        BY <1>a DEF InputInv, Placed
    <2>2. plaintext + (k - 1) \in Frame /\ plaintext + (k - 1) < key
        BY FrameFacts
    <2> QED
        BY <1>1, <2>1, <2>2
<1> QED
    BY <1>a, <1>1, <1>2, <1>3, <1>4, <1>5 DEF InputInv

\* One turn of a loop of charsToHex: the place written, and nothing else.
LEMMA PairEffect ==
    ASSUME InputInv, NEW from \in {plaintext, key}, NEW to \in {pairs_hex, key_pairs_hex},
           Pair(from, to)
    PROVE  /\ frame' \in [Frame -> Byte]
           /\ \A a \in Frame : a # to + turn => frame'[a] = frame[a]
           /\ frame'[to + turn] = charsToHex(frame[from + 2 * turn], frame[(from + 2 * turn) + 1])
<1>a. frame \in [Frame -> Byte] /\ turn \in 0 .. N-1
    BY DEF InputInv, InputTypeOK
<1>1. /\ from + 2 * turn \in Frame /\ (from + 2 * turn) + 1 \in Frame /\ to + turn \in Frame
    BY <1>a, FrameFacts
<1>2. charsToHex(frame[from + 2 * turn], frame[(from + 2 * turn) + 1]) \in Byte
    BY <1>a, <1>1, charsToHexType
<1> QED
    BY <1>a, <1>1, <1>2 DEF Pair

\* Two digits of a text of digits make the byte they spell.
LEMMA PairSpells ==
    ASSUME NEW text, IsBlockText(text), NEW j \in 0 .. N-1
    PROVE  charsToHex(text[2*j + 1], text[2*j + 2]) = 16 * ValueOf(text[2*j + 1]) + ValueOf(text[2*j + 2])
<1>1. 2*j + 1 \in 1 .. 2 * N /\ 2*j + 2 \in 1 .. 2 * N
    BY FrameFacts
<1> QED
    BY <1>1, DigitsPair DEF IsBlockText

LEMMA TurnFacts ==
    ASSUME InputInv, NEW here, NEW then, Turn(here, then)
    PROVE  /\ turn \in 0 .. N-1
           /\ turn = N - 1 => turn' = 0 /\ line' = then
           /\ turn # N - 1 => turn' = turn + 1 /\ line' = here
           /\ turn' \in 0 .. N-1
<1>1. turn \in 0 .. N-1 /\ N \in Nat /\ N > 0
    BY FrameFacts DEF InputInv, InputTypeOK
<1>2. (turn + 1) % N = IF turn = N - 1 THEN 0 ELSE turn + 1
    BY <1>1
<1> QED
    BY <1>1, <1>2 DEF Turn

LEMMA PairMessageHolds ==
    ASSUME InputInv, PairMessage
    PROVE  InputInv'
<1>a. line = "pairs" /\ typed' = typed /\ Turn("pairs", "key_pairs") /\ Pair(plaintext, pairs_hex)
    BY DEF PairMessage, Turn
<1>b. /\ turn \in 0 .. N-1 /\ turn' \in 0 .. N-1
      /\ turn = N - 1 => turn' = 0 /\ line' = "key_pairs"
      /\ turn # N - 1 => turn' = turn + 1 /\ line' = "pairs"
    BY <1>a, TurnFacts
<1>1. /\ frame' \in [Frame -> Byte]
      /\ \A a \in Frame : a # pairs_hex + turn => frame'[a] = frame[a]
      /\ frame'[pairs_hex + turn]
             = charsToHex(frame[plaintext + 2 * turn], frame[(plaintext + 2 * turn) + 1])
    BY <1>a, PairEffect
<1>2. InputTypeOK'
    BY <1>a, <1>b, <1>1 DEF InputInv, InputTypeOK
<1>3. MessagePaired' = turn + 1 /\ MessagePaired = turn /\ KeyPaired' = 0
    BY <1>a, <1>b, FrameFacts DEF MessagePaired, KeyPaired
<1>4. ASSUME NEW text, NEW array \in {plaintext, key}, Placed(frame, text, array)
      PROVE  Placed(frame', text, array)
    <2> SUFFICES ASSUME NEW k \in 1 .. 2 * N PROVE frame'[array + (k - 1)] = text[k]
        BY DEF Placed, plaintext, key
    <2>1. array + (k - 1) \in Frame /\ array + (k - 1) # pairs_hex + turn
        BY <1>b, FrameFacts
    <2> QED
        BY <1>1, <1>4, <2>1 DEF Placed
<1>5. ASSUME IsBlockText(typed.message) PROVE SpellsFirst(frame', turn + 1, typed.message, pairs_hex)
    <2>a. Placed(frame, typed.message, plaintext) /\ SpellsFirst(frame, turn, typed.message, pairs_hex)
        BY <1>5, <1>a, <1>3 DEF InputInv
    <2> DEFINE text == typed.message
    <2>1. ASSUME NEW j \in 0 .. N - 1, j < turn
          PROVE  frame'[pairs_hex + j] = 16 * ValueOf(text[2*j + 1]) + ValueOf(text[2*j + 2])
        <3>1. pairs_hex + j \in Frame /\ pairs_hex + j # pairs_hex + turn /\ j \in 0 .. turn - 1
            BY <2>1, <1>b, FrameFacts
        <3> QED
            BY <1>1, <2>a, <3>1 DEF SpellsFirst
    <2>2. frame'[pairs_hex + turn] = 16 * ValueOf(text[2*turn + 1]) + ValueOf(text[2*turn + 2])
        <3>1. 2*turn + 1 \in 1 .. 2 * N /\ 2*turn + 2 \in 1 .. 2 * N
            BY <1>b, FrameFacts
        <3>2. frame[plaintext + ((2*turn + 1) - 1)] = text[2*turn + 1]
            BY <2>a, <3>1 DEF Placed
        <3>3. frame[plaintext + ((2*turn + 2) - 1)] = text[2*turn + 2]
            BY <2>a, <3>1 DEF Placed
        <3>4. /\ plaintext + ((2*turn + 1) - 1) = plaintext + 2 * turn
              /\ plaintext + ((2*turn + 2) - 1) = (plaintext + 2 * turn) + 1
            BY <1>b, FrameFacts
        <3> QED
            BY <1>1, <1>5, <1>b, <3>2, <3>3, <3>4, PairSpells
    <2>3. \A j \in 0 .. (turn + 1) - 1 : j \in 0 .. N - 1 /\ (j < turn \/ j = turn)
        BY <1>b, FrameFacts
    <2> QED
        BY <2>1, <2>2, <2>3 DEF SpellsFirst
<1>6. \A text, array : SpellsFirst(frame', 0, text, array)
    BY DEF SpellsFirst
<1> QED
    BY <1>a, <1>b, <1>1, <1>2, <1>3, <1>4, <1>5, <1>6 DEF InputInv

LEMMA PairKeyHolds ==
    ASSUME InputInv, PairKey
    PROVE  InputInv'
<1>a. line = "key_pairs" /\ typed' = typed /\ Turn("key_pairs", "encrypt") /\ Pair(key, key_pairs_hex)
    BY DEF PairKey, Turn
<1>b. /\ turn \in 0 .. N-1 /\ turn' \in 0 .. N-1
      /\ turn = N - 1 => turn' = 0 /\ line' = "encrypt"
      /\ turn # N - 1 => turn' = turn + 1 /\ line' = "key_pairs"
    BY <1>a, TurnFacts
<1>1. /\ frame' \in [Frame -> Byte]
      /\ \A a \in Frame : a # key_pairs_hex + turn => frame'[a] = frame[a]
      /\ frame'[key_pairs_hex + turn] = charsToHex(frame[key + 2 * turn], frame[(key + 2 * turn) + 1])
    BY <1>a, PairEffect
<1>2. InputTypeOK'
    BY <1>a, <1>b, <1>1 DEF InputInv, InputTypeOK
<1>3. MessagePaired' = N /\ MessagePaired = N /\ KeyPaired' = turn + 1 /\ KeyPaired = turn
    BY <1>a, <1>b, FrameFacts DEF MessagePaired, KeyPaired
<1>4. ASSUME NEW text, Placed(frame, text, key)
      PROVE  Placed(frame', text, key)
    <2> SUFFICES ASSUME NEW k \in 1 .. 2 * N PROVE frame'[key + (k - 1)] = text[k]
        BY DEF Placed
    <2>1. key + (k - 1) \in Frame /\ key + (k - 1) # key_pairs_hex + turn
        BY <1>b, FrameFacts
    <2> QED
        BY <1>1, <1>4, <2>1 DEF Placed
<1>5. ASSUME NEW text, SpellsFirst(frame, N, text, pairs_hex)
      PROVE  SpellsFirst(frame', N, text, pairs_hex)
    <2> SUFFICES ASSUME NEW j \in 0 .. N - 1 PROVE frame'[pairs_hex + j] = frame[pairs_hex + j]
        BY <1>5 DEF SpellsFirst
    <2>1. pairs_hex + j \in Frame /\ pairs_hex + j # key_pairs_hex + turn
        BY <1>b, FrameFacts
    <2> QED
        BY <1>1, <2>1
<1>6. ASSUME IsBlockText(typed.key) PROVE SpellsFirst(frame', turn + 1, typed.key, key_pairs_hex)
    <2>a. Placed(frame, typed.key, key) /\ SpellsFirst(frame, turn, typed.key, key_pairs_hex)
        BY <1>6, <1>a, <1>3 DEF InputInv
    <2> DEFINE text == typed.key
    <2>1. ASSUME NEW j \in 0 .. N - 1, j < turn
          PROVE  frame'[key_pairs_hex + j] = 16 * ValueOf(text[2*j + 1]) + ValueOf(text[2*j + 2])
        <3>1. /\ key_pairs_hex + j \in Frame /\ key_pairs_hex + j # key_pairs_hex + turn
              /\ j \in 0 .. turn - 1
            BY <2>1, <1>b, FrameFacts
        <3> QED
            BY <1>1, <2>a, <3>1 DEF SpellsFirst
    <2>2. frame'[key_pairs_hex + turn] = 16 * ValueOf(text[2*turn + 1]) + ValueOf(text[2*turn + 2])
        <3>1. 2*turn + 1 \in 1 .. 2 * N /\ 2*turn + 2 \in 1 .. 2 * N
            BY <1>b, FrameFacts
        <3>2. frame[key + ((2*turn + 1) - 1)] = text[2*turn + 1]
            BY <2>a, <3>1 DEF Placed
        <3>3. frame[key + ((2*turn + 2) - 1)] = text[2*turn + 2]
            BY <2>a, <3>1 DEF Placed
        <3>4. /\ key + ((2*turn + 1) - 1) = key + 2 * turn
              /\ key + ((2*turn + 2) - 1) = (key + 2 * turn) + 1
            BY <1>b, FrameFacts
        <3> QED
            BY <1>1, <1>6, <1>b, <3>2, <3>3, <3>4, PairSpells
    <2>3. \A j \in 0 .. (turn + 1) - 1 : j \in 0 .. N - 1 /\ (j < turn \/ j = turn)
        BY <1>b, FrameFacts
    <2> QED
        BY <2>1, <2>2, <2>3 DEF SpellsFirst
<1> QED
    BY <1>a, <1>b, <1>1, <1>2, <1>3, <1>4, <1>5, <1>6 DEF InputInv

\* After the loops nothing is asked of the arrays any more.
LEMMA LaterHolds ==
    ASSUME InputInv, Encrypt \/ Exchange \/ NextTurn
    PROVE  InputInv'
<1>a. /\ turn' = 0 /\ line' \in {"exchange", "decoded", "message"}
      /\ typed' \in {typed, [message |-> <<>>, key |-> <<>>]}
    BY DEF Encrypt, Exchange, NextTurn, InputInv
<1>1. typed' \in [message : Texts \cup {<<>>}, key : Texts \cup {<<>>}]
    BY <1>a DEF InputInv
<1>2. frame' \in [Frame -> Byte]
    <2>1. ASSUME NEW array, NEW block \in Blocks,
                 frame' = [a \in Frame |-> IF a \in array .. (array + N) - 1 THEN block[a - array]
                                                                            ELSE frame[a]],
                 array \in Int
          PROVE  frame' \in [Frame -> Byte]
        <3>1. block \in [0 .. N-1 -> Byte] /\ frame \in [Frame -> Byte]
            BY HexInputAssumption DEF InputInv, InputTypeOK
        <3>2. \A a \in Frame : a \in array .. (array + N) - 1 => a - array \in 0 .. N-1
            BY <2>1, FrameFacts
        <3> QED
            BY <2>1, <3>1, <3>2
    <2>2. encrypted_message \in Int /\ str \in Int
        BY FrameFacts
    <2> QED
        BY <2>1, <2>2 DEF Encrypt, Exchange, NextTurn, Filled, InputInv, InputTypeOK
<1>3. InputTypeOK'
    BY <1>a, <1>1, <1>2, FrameFacts DEF InputTypeOK
<1>4. MessagePaired' = 0 /\ KeyPaired' = 0
    BY <1>a DEF MessagePaired, KeyPaired
<1>5. \A text, array : SpellsFirst(frame', 0, text, array)
    BY DEF SpellsFirst
<1> QED
    BY <1>a, <1>1, <1>3, <1>4, <1>5 DEF InputInv

\* Through every turn of main, whatever is typed and answered.
THEOREM InputInvariance == InputSpec => []InputInv
<1>1. InputInit => InputInv
    BY InputInvInit
<1>2. ASSUME InputInv, [InputNext]_inputVars PROVE InputInv'
    <2>1. CASE UNCHANGED inputVars
        BY <1>2, <2>1 DEF inputVars, InputInv, InputTypeOK, MessagePaired, KeyPaired
    <2> QED
        BY <1>2, <2>1, ScanMessageHolds, ScanKeyHolds, PairMessageHolds, PairKeyHolds, LaterHolds
        DEF InputNext
<1> QED
    BY <1>1, <1>2, PTL DEF InputSpec

\* A message and a key of the right length and alphabet become the blocks
\* they spell, whatever was typed beside them or in earlier turns: no
\* terminating zero and no overlong text of the other falls on digits that
\* main has still to read.
THEOREM TypedTheorem == InputSpec => []PairsAreTyped
<1>1. ASSUME InputInv PROVE PairsAreTyped
    <2>1. ASSUME line = "encrypt" PROVE MessagePaired = N /\ KeyPaired = N
        BY <2>1 DEF MessagePaired, KeyPaired
    <2> QED
        BY <1>1, <2>1 DEF InputInv, PairsAreTyped, Spells, SpellsFirst
<1> QED
    BY <1>1, InputInvariance, PTL

-----------------------------------------------------------------------------
(* What is printed. *)

\* FlattenSeq recurses over the places of its argument: that its result is
\* the one below follows by taking the first place where it would differ.
LEMMA LeastExists ==
    ASSUME NEW set \in SUBSET Nat, set # {}
    PROVE  \E i \in set : \A j \in set : i <= j
<1> DEFINE less == OpToRel(<, Nat)
<1>1. \A i, j \in Nat : i < j => <<i, j>> \in less
    BY DEF OpToRel
<1>2. IsWellFoundedOn(less, Nat)
    BY NatLessThanWellFounded
<1> HIDE DEF less
<1>3. PICK i \in set : \A j \in set : <<j, i>> \notin less
    BY <1>2, WFMin, Zenon
<1>4. ASSUME NEW j \in set PROVE i <= j
    <2>1. i \in Nat /\ j \in Nat
        OBVIOUS
    <2>2. ~(j < i)
        BY <1>1, <1>3, <2>1
    <2> QED
        BY <2>1, <2>2
<1> QED
    BY <1>4

\* The pairs of digits one after the other, as FlattenSeq puts them.
Paired(s, i) == [k \in 1 .. 2 * i |-> s[(k + 1) \div 2][2 - (k % 2)]]

LEMMA PairedGrows ==
    ASSUME NEW n \in Nat, NEW s, \A i \in 1 .. n : s[i] \in Seq(Int) /\ Len(s[i]) = 2, NEW i \in 1 .. n
    PROVE  /\ Paired(s, i) \in Seq(Int) /\ Len(Paired(s, i)) = 2 * i
           /\ i = 1 => Paired(s, i) = s[1]
           /\ i # 1 => Paired(s, i) = Paired(s, i - 1) \o s[i]
<1>1. ASSUME NEW i0 \in 1 .. n
      PROVE  Paired(s, i0) \in Seq(Int) /\ Len(Paired(s, i0)) = 2 * i0
    <2>1. ASSUME NEW k \in 1 .. 2 * i0 PROVE s[(k + 1) \div 2][2 - (k % 2)] \in Int
        <3>1. (k + 1) \div 2 \in 1 .. n /\ 2 - (k % 2) \in 1 .. 2
            OBVIOUS
        <3> QED
            BY <3>1, ElementOfSeq
    <2>2. 2 * i0 \in Nat
        OBVIOUS
    <2>3. Paired(s, i0) \in [1 .. 2 * i0 -> Int]
        BY <2>1 DEF Paired
    <2> QED
        BY <2>2, <2>3
<1>2. CASE i = 1
    <2>a. s[1] \in Seq(Int) /\ Len(s[1]) = 2
        BY <1>2
    <2>1. s[1] \in [1 .. 2 -> Int]
        BY <2>a, LenProperties
    <2>2. ASSUME NEW k \in 1 .. 2 PROVE (k + 1) \div 2 = 1 /\ 2 - (k % 2) = k
        <3>1. k = 1 \/ k = 2
            OBVIOUS
        <3> QED
            BY <3>1
    <2>3. 2 * 1 = 2
        OBVIOUS
    <2>4. Paired(s, 1) = s[1]
        BY <2>1, <2>2, <2>3 DEF Paired
    <2> QED
        BY <1>1, <1>2, <2>4
<1>3. CASE i # 1
    <2>a. i - 1 \in 1 .. n /\ i \in Nat
        BY <1>3
    <2> DEFINE whole == Paired(s, i - 1) \o s[i]
    <2>1. /\ Paired(s, i - 1) \in Seq(Int) /\ Len(Paired(s, i - 1)) = 2 * (i - 1)
          /\ s[i] \in Seq(Int) /\ Len(s[i]) = 2
        BY <1>1, <2>a
    <2>b. 2 * (i - 1) + 2 = 2 * i
        BY <2>a
    <2>c. \A t1, t2 \in Seq(Int) :
             /\ t1 \o t2 \in Seq(Int) /\ Len(t1 \o t2) = Len(t1) + Len(t2)
             /\ \A k \in 1 .. Len(t1) + Len(t2) :
                   (t1 \o t2)[k] = IF k <= Len(t1) THEN t1[k] ELSE t2[k - Len(t1)]
        BY ConcatProperties
    <2>2. whole \in Seq(Int) /\ Len(whole) = 2 * i
        <3> HIDE DEF Paired
        <3> QED
            BY <2>1, <2>b, <2>c
    <2>3. \A k \in 1 .. 2 * i :
             whole[k] = IF k <= 2 * (i - 1) THEN Paired(s, i - 1)[k] ELSE s[i][k - 2 * (i - 1)]
        <3> HIDE DEF Paired
        <3>1. \A k \in 1 .. Len(Paired(s, i - 1)) + Len(s[i]) :
                 whole[k] = IF k <= Len(Paired(s, i - 1)) THEN Paired(s, i - 1)[k]
                                                          ELSE s[i][k - Len(Paired(s, i - 1))]
            BY <2>1, <2>c
        <3>2. Len(Paired(s, i - 1)) + Len(s[i]) = 2 * i
            BY <2>1, <2>b
        <3> HIDE DEF whole
        <3> QED
            BY <2>1, <3>1, <3>2
    <2>4. ASSUME NEW k \in 1 .. 2 * i PROVE whole[k] = Paired(s, i)[k]
        <3>1. CASE k <= 2 * (i - 1)
            BY <2>3, <3>1, <2>a DEF Paired
        <3>2. CASE ~(k <= 2 * (i - 1))
            <4>1. k = 2 * i - 1 \/ k = 2 * i
                BY <2>a, <3>2
            <4>2. (k + 1) \div 2 = i /\ 2 - (k % 2) = k - 2 * (i - 1)
                BY <4>1, <2>a
            <4>3. Paired(s, i)[k] = s[i][k - 2 * (i - 1)]
                BY <4>2 DEF Paired
            <4> QED
                BY <2>3, <3>2, <4>3
        <3> QED
            BY <3>1, <3>2
    <2>5. whole \in [1 .. 2 * i -> Int] /\ Paired(s, i) \in [1 .. 2 * i -> Int]
        BY <2>2, <1>1, LenProperties
    <2>6. whole = Paired(s, i)
        <3> HIDE DEF whole
        <3> QED
            BY <2>4, <2>5
    <2> QED
        BY <1>1, <1>3, <2>6
<1> QED
    BY <1>2, <1>3

LEMMA FlattenPairs ==
    ASSUME NEW n \in Nat, n > 0, NEW s, Len(s) = n,
           \A i \in 1 .. n : s[i] \in Seq(Int) /\ Len(s[i]) = 2
    PROVE  FlattenSeq(s) = Paired(s, n)
<1> DEFINE Unfolds(f) == f = [i \in 1 .. Len(s) |-> IF i = 1 THEN s[i] ELSE f[i-1] \o s[i]]
           whole == [i \in 1 .. n |-> Paired(s, i)]
           chosen == CHOOSE f : Unfolds(f)
<1>1. FlattenSeq(s) = chosen[n]
    BY DEF FlattenSeq
<1>2. Unfolds(whole)
    <2>1. ASSUME NEW i \in 1 .. n
          PROVE  Paired(s, i) = IF i = 1 THEN s[i] ELSE whole[i-1] \o s[i]
        <3>1. i # 1 => i - 1 \in 1 .. n
            OBVIOUS
        <3>2. i # 1 => whole[i-1] = Paired(s, i-1)
            BY <3>1
        <3>3. (i = 1 => Paired(s, i) = s[1]) /\ (i # 1 => Paired(s, i) = Paired(s, i - 1) \o s[i])
            BY PairedGrows
        <3> QED
            BY <3>2, <3>3
    <2> QED
        BY <2>1
<1>3. Unfolds(chosen)
    <2> HIDE DEF Unfolds, whole
    <2> QED
        BY <1>2
<1>a. /\ chosen = [i \in 1 .. n |-> IF i = 1 THEN s[i] ELSE chosen[i-1] \o s[i]]
      /\ whole = [i \in 1 .. n |-> IF i = 1 THEN s[i] ELSE whole[i-1] \o s[i]]
    BY <1>2, <1>3
<1> HIDE DEF chosen, whole
<1>4. \A i \in 1 .. n : chosen[i] = whole[i]
    <2> DEFINE wrong == {i \in 1 .. n : chosen[i] # whole[i]}
    <2> SUFFICES ASSUME wrong # {} PROVE FALSE
        OBVIOUS
    <2>1. wrong \in SUBSET Nat
        OBVIOUS
    <2>2. PICK i \in wrong : \A j \in wrong : i <= j
        BY <2>1, LeastExists
    <2>3. i # 1
        BY <2>2, <1>a
    <2>4. i - 1 \in 1 .. n /\ i - 1 \notin wrong
        BY <2>2, <2>3
    <2>5. chosen[i-1] = whole[i-1]
        BY <2>4
    <2>6. /\ chosen[i] = IF i = 1 THEN s[i] ELSE chosen[i-1] \o s[i]
          /\ whole[i] = IF i = 1 THEN s[i] ELSE whole[i-1] \o s[i]
        <3>1. i \in 1 .. n
            BY <2>2
        <3> QED
            BY <1>a, <3>1
    <2> QED
        BY <2>2, <2>3, <2>5, <2>6
<1>5. n \in 1 .. n
    OBVIOUS
<1> QED
    BY <1>1, <1>4, <1>5 DEF whole

\* What the loops of printf print of an array, digit by digit.
LEMMA PrintedDigits ==
    ASSUME frame \in [Frame -> Byte], NEW j \in 0 .. N - 1
    PROVE  LET text == Printed(encrypted_message)
               b == frame[encrypted_message + j]
           IN  /\ b \in Byte /\ Len(text) = 2 * N
               /\ text[2*j + 1] = TwoDigits(b)[1] /\ text[2*j + 2] = TwoDigits(b)[2]
<1> DEFINE digits == [i \in 1 .. N |-> TwoDigits(frame[encrypted_message + (i - 1)])]
<1>1. ASSUME NEW i \in 1 .. N
      PROVE  frame[encrypted_message + (i - 1)] \in Byte
    <2>1. encrypted_message + (i - 1) \in Frame
        BY FrameFacts
    <2> QED
        BY <2>1
<1>2. \A b \in Byte : TwoDigits(b) \in Seq(Int) /\ Len(TwoDigits(b)) = 2
    <2>1. \A v \in Int : Digit(v) \in Int
        BY DEF Digit
    <2>2. \A b \in Byte : b \div 16 \in Int /\ b % 16 \in Int
        BY DEF Byte
    <2> QED
        BY <2>1, <2>2 DEF TwoDigits
<1>3. Len(digits) = N /\ \A i \in 1 .. N : digits[i] \in Seq(Int) /\ Len(digits[i]) = 2
    <2>1. \A i \in 1 .. N : digits[i] = TwoDigits(frame[encrypted_message + (i - 1)])
        OBVIOUS
    <2>2. Len(digits) = N
        BY FrameFacts
    <2> HIDE DEF digits
    <2> QED
        BY <1>1, <1>2, <2>1, <2>2
<1>4. FlattenSeq(digits) = Paired(digits, N)
    <2> HIDE DEF digits
    <2> QED
        BY <1>3, FrameFacts, FlattenPairs
<1>5. Printed(encrypted_message) = Paired(digits, N)
    BY <1>4 DEF Printed
<1>6. /\ 2*j + 1 \in 1 .. 2 * N /\ 2*j + 2 \in 1 .. 2 * N
      /\ ((2*j + 1) + 1) \div 2 = j + 1 /\ ((2*j + 2) + 1) \div 2 = j + 1
      /\ 2 - ((2*j + 1) % 2) = 1 /\ 2 - ((2*j + 2) % 2) = 2
      /\ j + 1 \in 1 .. N /\ (j + 1) - 1 = j
    BY FrameFacts
<1>7. digits[j + 1] = TwoDigits(frame[encrypted_message + j])
    BY <1>6
<1>8. Len(Paired(digits, N)) = 2 * N
    <2>1. N \in 1 .. N
        BY FrameFacts
    <2> HIDE DEF digits
    <2> QED
        <3>1. N \in Nat
            BY FrameFacts
        <3>2. \A i \in 1 .. N : digits[i] \in Seq(Int) /\ Len(digits[i]) = 2
            BY <1>3
        <3>3. \A i \in 1 .. N : Len(Paired(digits, i)) = 2 * i
            BY <3>1, <3>2, PairedGrows
        <3> QED
            BY <2>1, <3>3
<1>9. /\ Paired(digits, N)[2*j + 1] = digits[j + 1][1]
      /\ Paired(digits, N)[2*j + 2] = digits[j + 1][2]
    <2> HIDE DEF digits
    <2> QED
        BY <1>6 DEF Paired
<1>10. frame[encrypted_message + j] \in Byte
    BY <1>1, <1>6
<1> QED
    BY <1>5, <1>7, <1>8, <1>9, <1>10

\* What the program prints of a block has every digit of it and reads back,
\* typed in again, as the block: charsToHex undoes printf for every byte.
THEOREM PrintedTheorem == InputSpec => []PrintedReadsBack
<1>1. ASSUME InputInv PROVE PrintedReadsBack
    <2>1. frame \in [Frame -> Byte]
        BY <1>1 DEF InputInv, InputTypeOK
    <2>2. 0 \in 0 .. N - 1
        BY FrameFacts
    <2>3. Len(Printed(encrypted_message)) = 2 * N
        BY <2>1, <2>2, PrintedDigits
    <2>4. ASSUME NEW j \in 0 .. N - 1
          PROVE  charsToHex(Printed(encrypted_message)[2*j + 1], Printed(encrypted_message)[2*j + 2])
                     = frame[encrypted_message + j]
        BY <2>1, PrintedDigits, TwoDigitsUndone
    <2> QED
        BY <2>3, <2>4 DEF PrintedReadsBack
<1> QED
    BY <1>1, InputInvariance, PTL


-----------------------------------------------------------------------------
(* Alarms, the list: one ring of the head and the running alarms.          *)

head == alt_alarm_list

ClosedBy(nx, set) == head \in set /\ \A e \in set : nx[e] \in set

Linked(nx, pv, alarms) ==
    /\ nx \in [Entry -> Entry] /\ pv \in [Entry -> Entry] /\ alarms \in SUBSET Alarm
    /\ \A e \in Entry : pv[nx[e]] = e /\ nx[pv[e]] = e
    /\ \A a \in Alarm \ alarms : nx[a] = a
    /\ \A set \in SUBSET Entry : ClosedBy(nx, set) => alarms \subseteq set

\* pending is the part of the list from place to its end, which the tick has
\* still to visit.
Ahead(nx, pv, place, pending) ==
    /\ place \in pending \cup {head}
    /\ place = head => pending = {}
    /\ place # head => pv[place] \notin pending
    /\ \A a \in pending : nx[a] \in pending \cup {head}
    /\ \A a \in pending : a = place \/ pv[a] \in pending

\* Where alt_tick goes on.
Place == IF calling THEN following ELSE visiting

-----------------------------------------------------------------------------
(* The times. *)

\* The tick at which an alarm is to be called, in the form in which the
\* alarm has it: a time and a flag for the wrap of the counter before it.
Clock(a, flag) == nticks + left[a] = time[a] + (IF flag THEN Wrap ELSE 0)

\* An alarm that this tick has still to visit has the flag of the tick before.
Waits(a) == left[a] < Wrap - 1 /\ Clock(a, rollover[a] /\ nticks # 0)

\* One that it has visited, or that was started since.
Passed(a) == left[a] > 0 /\ left[a] < Wrap /\ Clock(a, rollover[a])

\* The one whose callback runs.
Called(a) == left[a] = 0 /\ time[a] = nticks /\ ~rollover[a]

OnTime(pending) ==
    \A a \in running :
        IF a \in pending THEN Waits(a) ELSE IF calling /\ a = visiting THEN Called(a) ELSE Passed(a)

Scheduled ==
    \E pending \in SUBSET running :
        /\ Ahead(next, previous, Place, pending)
        /\ calling => visiting \notin pending
        /\ OnTime(pending)

AlarmInv ==
    /\ AlarmTypeOK
    /\ Linked(next, previous, running)
    /\ Scheduled
    /\ astray = {}

-----------------------------------------------------------------------------
(* What the list operations do to the ring. *)

LEMMA HeadIsEntry == head \in Entry /\ head \notin Alarm /\ Alarm \subseteq Entry
BY AlarmsAssumption DEF head, Entry

\* Nothing outside the ring is linked to anything in it.
LEMMA RingFacts ==
    ASSUME NEW nx, NEW pv, NEW alarms, Linked(nx, pv, alarms)
    PROVE  /\ \A e \in Entry : nx[e] \in Entry /\ pv[e] \in Entry
           /\ \A d, e \in Entry : nx[d] = nx[e] => d = e
           /\ \A a \in Alarm \ alarms : pv[a] = a
           /\ \A e \in alarms \cup {head} : nx[e] \in alarms \cup {head}
           /\ \A a \in alarms : nx[a] # a
<1> USE HeadIsEntry DEF Linked
<1>1. \A e \in Entry : nx[e] \in Entry /\ pv[e] \in Entry
    OBVIOUS
<1>2. \A d, e \in Entry : nx[d] = nx[e] => d = e
    <2> SUFFICES ASSUME NEW d \in Entry, NEW e \in Entry, nx[d] = nx[e] PROVE d = e
        OBVIOUS
    <2>1. pv[nx[d]] = d /\ pv[nx[e]] = e
        OBVIOUS
    <2> QED
        BY <2>1
<1>3. \A a \in Alarm \ alarms : pv[a] = a
    <2> SUFFICES ASSUME NEW a \in Alarm \ alarms PROVE pv[a] = a
        OBVIOUS
    <2>1. nx[a] = a /\ pv[nx[a]] = a
        OBVIOUS
    <2> QED
        BY <2>1
<1>4. ASSUME NEW e \in alarms \cup {head} PROVE nx[e] \in alarms \cup {head}
    <2>1. SUFFICES ASSUME nx[e] \notin alarms \cup {head} PROVE FALSE
        OBVIOUS
    <2>2. e \in Entry /\ nx[e] \in Alarm \ alarms
        BY <1>1, <2>1 DEF Entry, head
    <2>3. nx[nx[e]] = nx[e]
        BY <2>2
    <2>4. nx[e] = e
        BY <1>1, <1>2, <2>2, <2>3
    <2> QED
        BY <2>1, <2>4
<1>5. ASSUME NEW a \in alarms, nx[a] = a PROVE FALSE
    <2>1. ClosedBy(nx, Entry \ {a})
        BY <1>1, <1>2, <1>5 DEF ClosedBy
    <2>2. alarms \subseteq Entry \ {a}
        BY <2>1
    <2> QED
        BY <2>2
<1> QED
    BY <1>1, <1>2, <1>3, <1>4, <1>5

\* alt_llist_insert of an alarm that is not listed.
LEMMA InsertLinks ==
    ASSUME NEW nx, NEW pv, NEW alarms, Linked(nx, pv, alarms), NEW e \in Alarm \ alarms
    PROVE  LET links == Inserted([next |-> nx, previous |-> pv], e)
           IN  Linked(links.next, links.previous, alarms \cup {e})
<1> DEFINE first == nx[head]
           nx2 == [nx EXCEPT ![e] = first, ![head] = e]
           pv2 == [pv EXCEPT ![e] = head, ![first] = e]
<1>a. /\ nx \in [Entry -> Entry] /\ pv \in [Entry -> Entry] /\ alarms \in SUBSET Alarm
      /\ head \in Entry /\ e \in Entry /\ e # head /\ first \in Entry
      /\ nx[e] = e /\ pv[e] = e
    BY HeadIsEntry, RingFacts DEF Linked
<1>b. first # e
    BY <1>a, RingFacts
<1>1. nx2 \in [Entry -> Entry] /\ pv2 \in [Entry -> Entry]
    BY <1>a
<1>2. /\ nx2[e] = first /\ nx2[head] = e
      /\ \A d \in Entry : d # e /\ d # head => nx2[d] = nx[d]
      /\ pv2[e] = head /\ pv2[first] = e
      /\ \A d \in Entry : d # e /\ d # first => pv2[d] = pv[d]
    BY <1>a, <1>b
<1> HIDE DEF nx2, pv2
<1>3. ASSUME NEW d \in Entry PROVE pv2[nx2[d]] = d /\ nx2[pv2[d]] = d
    <2>1. pv[nx[d]] = d /\ nx[pv[d]] = d /\ nx[d] \in Entry /\ pv[d] \in Entry
        BY RingFacts DEF Linked
    <2>2. d # head => nx[d] # first
        BY <1>a, RingFacts
    <2>3. d # e => nx[d] # e /\ pv[d] # e
        BY <1>a, <2>1, RingFacts
    <2>4. pv[first] = head
        BY <1>a DEF Linked
    <2>5. d # first => pv[d] # head
        BY <2>1
    <2>6. pv2[nx2[d]] = d
        BY <1>a, <1>b, <1>2, <2>1, <2>2, <2>3
    <2>7. nx2[pv2[d]] = d
        BY <1>a, <1>b, <1>2, <2>1, <2>3, <2>5
    <2> QED
        BY <2>6, <2>7
<1>4. \A a \in Alarm \ (alarms \cup {e}) : nx2[a] = a
    BY <1>2, HeadIsEntry DEF Linked
<1>5. ASSUME NEW set \in SUBSET Entry, ClosedBy(nx2, set) PROVE alarms \cup {e} \subseteq set
    <2>1. e \in set /\ first \in set /\ head \in set
        BY <1>2, <1>5 DEF ClosedBy
    <2>2. ASSUME NEW d \in set \ {e} PROVE nx[d] \in set \ {e}
        <3>1. CASE d = head
            BY <1>b, <2>1, <3>1
        <3>2. CASE d # head
            <4>1. nx[d] = nx2[d]
                BY <1>2, <3>2
            <4>2. d \in Entry /\ nx[d] # nx[e]
                BY <1>a, RingFacts
            <4>3. nx2[d] \in set
                BY <1>5 DEF ClosedBy
            <4> QED
                BY <1>a, <4>1, <4>2, <4>3
        <3> QED
            BY <3>1, <3>2
    <2>3. ClosedBy(nx, set \ {e})
        BY <1>a, <2>1, <2>2 DEF ClosedBy
    <2>4. alarms \subseteq set \ {e}
        BY <2>3 DEF Linked
    <2> QED
        BY <2>1, <2>4
<1>6. Linked(nx2, pv2, alarms \cup {e})
    BY <1>1, <1>3, <1>4, <1>5, <1>a DEF Linked
<1> QED
    BY <1>6 DEF Inserted, nx2, pv2, head

\* alt_llist_remove: of an alarm that is listed, or of one that is not.
LEMMA RemoveLinks ==
    ASSUME NEW nx, NEW pv, NEW alarms, Linked(nx, pv, alarms), NEW e \in Alarm
    PROVE  LET links == Removed([next |-> nx, previous |-> pv], e)
           IN  Linked(links.next, links.previous, alarms \ {e})
<1> DEFINE before == pv[e]
           after == nx[e]
           nx2 == [nx EXCEPT ![before] = after, ![e] = e]
           pv2 == [pv EXCEPT ![after] = before, ![e] = e]
<1>a. /\ nx \in [Entry -> Entry] /\ pv \in [Entry -> Entry] /\ alarms \in SUBSET Alarm
      /\ head \in Entry /\ e \in Entry /\ e # head /\ before \in Entry /\ after \in Entry
      /\ nx[before] = e /\ pv[after] = e
    BY HeadIsEntry, RingFacts DEF Linked
<1>1. nx2 \in [Entry -> Entry] /\ pv2 \in [Entry -> Entry]
    BY <1>a
<1>2. /\ nx2[e] = e /\ pv2[e] = e
      /\ before # e => nx2[before] = after
      /\ after # e => pv2[after] = before
      /\ \A d \in Entry : d # e /\ d # before => nx2[d] = nx[d]
      /\ \A d \in Entry : d # e /\ d # after => pv2[d] = pv[d]
    BY <1>a
<1> HIDE DEF nx2, pv2
<1>3. ASSUME NEW d \in Entry PROVE pv2[nx2[d]] = d /\ nx2[pv2[d]] = d
    <2>1. pv[nx[d]] = d /\ nx[pv[d]] = d /\ nx[d] \in Entry /\ pv[d] \in Entry
        BY RingFacts DEF Linked
    <2>2. d # before => nx[d] # e
        BY <1>a, RingFacts
    <2>3. d # after => pv[d] # e
        BY <2>1
    <2>4. d # e => nx[d] # after /\ pv[d] # before
        BY <1>a, <2>1, RingFacts
    <2>5. before = e <=> after = e
        BY <1>a
    <2>6. pv2[nx2[d]] = d
        BY <1>a, <1>2, <2>1, <2>2, <2>4, <2>5
    <2>7. nx2[pv2[d]] = d
        BY <1>a, <1>2, <2>1, <2>3, <2>4, <2>5
    <2> QED
        BY <2>6, <2>7
<1>4. ASSUME NEW a \in Alarm \ (alarms \ {e}) PROVE nx2[a] = a
    <2>1. CASE a = e
        BY <1>2, <2>1
    <2>2. CASE a # e
        <3>1. nx[a] = a /\ a \in Entry
            BY <2>2, HeadIsEntry DEF Linked
        <3>2. a # before
            BY <1>a, <2>2, <3>1
        <3> QED
            BY <1>2, <2>2, <3>1, <3>2
    <2> QED
        BY <2>1, <2>2
<1>5. ASSUME NEW set \in SUBSET Entry, ClosedBy(nx2, set) PROVE alarms \ {e} \subseteq set
    <2>1. CASE before \in set
        <3>1. after \in set
            BY <1>2, <1>5, <1>a, <2>1 DEF ClosedBy
        <3>2. ASSUME NEW d \in set \cup {e} PROVE nx[d] \in set \cup {e}
            <4>1. CASE d = e \/ d = before
                BY <1>a, <3>1, <4>1
            <4>2. CASE d # e /\ d # before
                <5>1. nx2[d] = nx[d]
                    BY <1>2, <4>2
                <5> QED
                    BY <1>5, <4>2, <5>1 DEF ClosedBy
            <4> QED
                BY <4>1, <4>2
        <3>3. ClosedBy(nx, set \cup {e})
            BY <1>5, <3>2 DEF ClosedBy
        <3> QED
            BY <1>a, <3>3 DEF Linked
    <2>2. CASE before \notin set
        <3>1. ASSUME NEW d \in set \ {e} PROVE nx[d] \in set \ {e}
            <4>1. nx2[d] = nx[d]
                BY <1>2, <2>2
            <4>2. nx[d] # e
                BY <1>a, <2>2, RingFacts
            <4> QED
                BY <1>5, <4>1, <4>2 DEF ClosedBy
        <3>2. ClosedBy(nx, set \ {e})
            BY <1>5, <1>a, <3>1 DEF ClosedBy
        <3> QED
            BY <1>a, <3>2 DEF Linked
    <2> QED
        BY <2>1, <2>2
<1>6. Linked(nx2, pv2, alarms \ {e})
    BY <1>1, <1>3, <1>4, <1>5, <1>a DEF Linked
<1> QED
    BY <1>6 DEF Removed, nx2, pv2

-----------------------------------------------------------------------------
(* What they do to the part of the ring that the tick has still to visit. *)

LEMMA InsertAhead ==
    ASSUME NEW nx, NEW pv, NEW alarms, Linked(nx, pv, alarms), NEW e \in Alarm \ alarms,
           NEW place, NEW pending \in SUBSET alarms, Ahead(nx, pv, place, pending)
    PROVE  LET links == Inserted([next |-> nx, previous |-> pv], e)
           IN  Ahead(links.next, links.previous, place, pending)
<1> DEFINE first == nx[head]
           nx2 == [nx EXCEPT ![e] = first, ![head] = e]
           pv2 == [pv EXCEPT ![e] = head, ![first] = e]
<1>a. /\ nx \in [Entry -> Entry] /\ pv \in [Entry -> Entry] /\ alarms \in SUBSET Alarm
      /\ head \in Entry /\ e \in Entry /\ e # head /\ first \in Entry
      /\ head \notin pending /\ e \notin pending /\ pending \subseteq Entry
    BY HeadIsEntry, RingFacts DEF Linked
<1>1. /\ \A d \in Entry : d # e /\ d # head => nx2[d] = nx[d]
      /\ pv2[first] = (IF first = e THEN pv2[e] ELSE e)
      /\ \A d \in Entry : d # e /\ d # first => pv2[d] = pv[d]
    BY <1>a
<1>2. first # e
    <2>1. nx[e] = e
        BY DEF Linked
    <2> QED
        BY <1>a, <2>1, RingFacts
<1>3. pv[first] = head
    BY <1>a DEF Linked
<1> HIDE DEF nx2, pv2
<1>4. place # head => pv2[place] \notin pending
    BY <1>a, <1>1, <1>2 DEF Ahead
<1>5. \A a \in pending : nx2[a] \in pending \cup {head}
    BY <1>a, <1>1 DEF Ahead
<1>6. ASSUME NEW a \in pending PROVE a = place \/ pv2[a] \in pending
    BY <1>a, <1>1, <1>3 DEF Ahead
<1>7. Ahead(nx2, pv2, place, pending)
    BY <1>4, <1>5, <1>6 DEF Ahead
<1> QED
    BY <1>7 DEF Inserted, nx2, pv2, head

\* The alarm that alt_tick visits next must not be the one removed.
LEMMA RemoveAhead ==
    ASSUME NEW nx, NEW pv, NEW alarms, Linked(nx, pv, alarms), NEW e \in Alarm,
           NEW place, NEW pending \in SUBSET alarms, Ahead(nx, pv, place, pending),
           e # place
    PROVE  LET links == Removed([next |-> nx, previous |-> pv], e)
           IN  Ahead(links.next, links.previous, place, pending \ {e})
<1> DEFINE before == pv[e]
           after == nx[e]
           nx2 == [nx EXCEPT ![before] = after, ![e] = e]
           pv2 == [pv EXCEPT ![after] = before, ![e] = e]
<1>a. /\ nx \in [Entry -> Entry] /\ pv \in [Entry -> Entry] /\ alarms \in SUBSET Alarm
      /\ head \in Entry /\ e \in Entry /\ e # head /\ before \in Entry /\ after \in Entry
      /\ nx[before] = e /\ pv[after] = e
      /\ head \notin pending /\ pending \subseteq Entry /\ pending \subseteq Alarm
    BY HeadIsEntry, RingFacts DEF Linked
<1>1. /\ before # e => nx2[before] = after
      /\ after # e => pv2[after] = before
      /\ \A d \in Entry : d # e /\ d # before => nx2[d] = nx[d]
      /\ \A d \in Entry : d # e /\ d # after => pv2[d] = pv[d]
    BY <1>a
<1> HIDE DEF nx2, pv2
<1>2. before \in pending => e \in pending
    BY <1>a DEF Ahead
<1>3. e \in pending => before \in pending
    BY DEF Ahead
<1>4. place \in Entry
    BY <1>a DEF Ahead
<1>5. e \in alarms => after # e
    BY RingFacts
<1>6. place # head => pv2[place] \notin pending \ {e}
    BY <1>a, <1>1, <1>2, <1>4 DEF Ahead
<1>7. ASSUME NEW a \in pending \ {e} PROVE nx2[a] \in (pending \ {e}) \cup {head}
    <2>1. CASE a = before
        <3>1. after \in pending \cup {head} /\ after # e
            BY <1>2, <1>5, <2>1 DEF Ahead
        <3> QED
            BY <1>1, <2>1, <3>1
    <2>2. CASE a # before
        <3>1. nx[a] # e /\ nx2[a] = nx[a]
            <4>1. pv[nx[a]] = a /\ a \in Entry /\ a # e
                BY <1>7, <1>a DEF Linked
            <4> QED
                BY <1>1, <2>2, <4>1
        <3> QED
            BY <3>1 DEF Ahead
    <2> QED
        BY <2>1, <2>2
<1>8. ASSUME NEW a \in pending \ {e}, a # place PROVE pv2[a] \in pending \ {e}
    <2>1. pv[a] \in pending /\ nx[pv[a]] = a
        BY <1>8, <1>a DEF Ahead, Linked
    <2>2. CASE a = after
        <3>1. e \in pending /\ before \in pending /\ before # e
            BY <1>3, <1>a, <1>5, <2>1, <2>2
        <3> QED
            BY <1>1, <2>2, <3>1
    <2>3. CASE a # after
        BY <1>1, <1>a, <2>1, <2>3
    <2> QED
        BY <2>2, <2>3
<1>9. Ahead(nx2, pv2, place, pending \ {e})
    BY <1>6, <1>7, <1>8 DEF Ahead
<1> QED
    BY <1>9 DEF Removed, nx2, pv2

\* alt_tick goes from one alarm to the next.
LEMMA AdvanceAhead ==
    ASSUME NEW nx, NEW pv, NEW alarms, Linked(nx, pv, alarms),
           NEW place, NEW pending \in SUBSET alarms, Ahead(nx, pv, place, pending), place # head
    PROVE  Ahead(nx, pv, nx[place], pending \ {place}) /\ place \in pending
<1> DEFINE rest == pending \ {place}
<1>a. /\ place \in pending /\ alarms \in SUBSET Alarm
      /\ head \notin pending /\ pending \subseteq Entry /\ head \in Entry
    BY HeadIsEntry DEF Ahead, Linked
<1>b. place \in Entry
    BY <1>a
<1>1. pv[nx[place]] = place /\ nx[place] # place
    <2>1. pv[nx[place]] = place
        BY <1>b DEF Linked
    <2>2. \A a \in alarms : nx[a] # a
        BY RingFacts
    <2> QED
        BY <1>a, <2>1, <2>2
<1>2. nx[place] \in rest \cup {head}
    BY <1>a, <1>1 DEF Ahead
<1>3. ASSUME NEW a \in rest PROVE nx[a] \in rest \cup {head}
    <2>1. nx[a] # place
        <3>1. pv[nx[a]] = a
            BY <1>a DEF Linked
        <3> QED
            BY <1>a, <3>1 DEF Ahead
    <2> QED
        BY <2>1 DEF Ahead
<1>4. ASSUME NEW a \in rest, a # nx[place] PROVE pv[a] \in rest
    <2>1. pv[a] \in pending /\ nx[pv[a]] = a
        BY <1>a DEF Ahead, Linked
    <2> QED
        BY <1>4, <2>1
<1>5. ASSUME nx[place] = head PROVE rest = {}
    <2>1. ASSUME NEW e \in Entry \ rest PROVE nx[e] \in Entry \ rest
        <3>1. nx[e] \in Entry /\ pv[nx[e]] = e
            BY RingFacts DEF Linked
        <3> QED
            BY <1>4, <1>5, <1>a, <2>1, <3>1
    <2>2. ClosedBy(nx, Entry \ rest)
        BY <1>a, <2>1 DEF ClosedBy
    <2>3. alarms \subseteq Entry \ rest
        BY <2>2 DEF Linked
    <2> QED
        BY <2>3
<1> QED
    BY <1>1, <1>2, <1>3, <1>4, <1>5, <1>a DEF Ahead

\* The whole ring is ahead of a tick that starts.
LEMMA StartAhead ==
    ASSUME NEW nx, NEW pv, NEW alarms, Linked(nx, pv, alarms)
    PROVE  Ahead(nx, pv, nx[head], alarms)
<1>a. head \in Entry /\ head \notin alarms /\ alarms \subseteq Entry
    BY HeadIsEntry DEF Linked
<1>1. pv[nx[head]] = head
    BY <1>a DEF Linked
<1>2. \A e \in alarms \cup {head} : nx[e] \in alarms \cup {head}
    BY RingFacts
<1>3. ASSUME NEW a \in alarms, a # nx[head] PROVE pv[a] \in alarms
    <2>1. pv[a] \in Entry /\ nx[pv[a]] = a
        BY <1>a, RingFacts DEF Linked
    <2>2. pv[a] # head
        BY <1>3, <2>1
    <2>3. pv[a] \in Alarm
        BY <2>1, <2>2 DEF Entry, head
    <2> QED
        BY <2>1, <2>3 DEF Linked
<1>4. nx[head] = head => alarms = {}
    <2>1. nx[head] = head => ClosedBy(nx, {head})
        BY DEF ClosedBy
    <2> QED
        BY <1>a, <2>1 DEF Linked
<1> QED
    BY <1>1, <1>2, <1>3, <1>4, <1>a DEF Ahead

-----------------------------------------------------------------------------
(* Arithmetic on the counter. *)

LEMMA WrapValue ==
    \A x \in 0 .. Wrap + Wrap - 1 : x % Wrap = IF x < Wrap THEN x ELSE x - Wrap
BY AlarmsAssumption

LEMMA TickValue ==
    ASSUME nticks \in 0 .. Wrap - 1
    PROVE  (nticks + 1) % Wrap = IF nticks = Wrap - 1 THEN 0 ELSE nticks + 1
BY AlarmsAssumption, WrapValue

\* alt_alarm_start gives an alarm the tick it is to be called at.
LEMMA StartClock ==
    ASSUME nticks \in 0 .. Wrap - 1, NEW delay \in Delays
    PROVE  /\ Due(delay) \in 0 .. Wrap - 1 /\ Wraps(delay) \in BOOLEAN
           /\ delay + 1 \in Nat /\ delay + 1 > 0 /\ delay + 1 < Wrap
           /\ nticks + (delay + 1) = Due(delay) + (IF Wraps(delay) THEN Wrap ELSE 0)
<1>1. delay \in 0 .. Wrap - 2 /\ Wrap \in Nat
    BY AlarmsAssumption
<1>2. (delay + nticks) + 1 \in 0 .. Wrap + Wrap - 1
    BY <1>1
<1>3. Due(delay) = IF (delay + nticks) + 1 < Wrap THEN (delay + nticks) + 1
                                                  ELSE ((delay + nticks) + 1) - Wrap
    BY <1>2, WrapValue DEF Due
<1> QED
    BY <1>1, <1>3 DEF Wraps

\* And so does alt_tick for an alarm that asks to be called again.
LEMMA RepeatClock ==
    ASSUME nticks \in 0 .. Wrap - 1, NEW period \in Periods,
           NEW due, due = (nticks + period) % Wrap
    PROVE  /\ due \in 0 .. Wrap - 1
           /\ period \in Nat /\ period > 0 /\ period < Wrap
           /\ nticks + period = due + (IF due < nticks THEN Wrap ELSE 0)
<1>1. period \in 1 .. Wrap - 1 /\ Wrap \in Nat
    BY AlarmsAssumption
<1>2. nticks + period \in 0 .. Wrap + Wrap - 1
    BY <1>1
<1>3. due = IF nticks + period < Wrap THEN nticks + period ELSE (nticks + period) - Wrap
    BY <1>2, WrapValue
<1> QED
    BY <1>1, <1>3

\* The values of an alarm.
LEMMA AlarmFacts ==
    ASSUME AlarmTypeOK, NEW a \in Alarm
    PROVE  /\ nticks \in 0 .. Wrap - 1 /\ Wrap \in Nat /\ Wrap > 2
           /\ time[a] \in 0 .. Wrap - 1 /\ left[a] \in Nat /\ rollover[a] \in BOOLEAN
BY AlarmsAssumption DEF AlarmTypeOK

\* An alarm that waits for its visit is expired exactly when its time has come.
LEMMA ExpiredMeansDue ==
    ASSUME AlarmTypeOK, visiting \in Alarm, Waits(visiting)
    PROVE  /\ Expired <=> left[visiting] = 0
           /\ Expired => time[visiting] = nticks
<1>1. CASE RolledOver
    BY <1>1, AlarmFacts DEF Waits, Clock, Expired, RolledOver
<1>2. CASE ~RolledOver
    BY <1>2, AlarmFacts DEF Waits, Clock, Expired, RolledOver
<1> QED
    BY <1>1, <1>2

-----------------------------------------------------------------------------
(* The invariant holds at first. *)

LEMMA AlarmInvInit == AlarmInit => AlarmInv
<1> SUFFICES ASSUME AlarmInit PROVE AlarmInv
    OBVIOUS
<1> USE DEF AlarmInit
<1>1. AlarmTypeOK
    <2>1. nticks \in 0 .. Wrap - 1 /\ 0 \in 0 .. Wrap - 1
        BY AlarmsAssumption
    <2>2. next \in [Entry -> Entry] /\ previous \in [Entry -> Entry]
        OBVIOUS
    <2>3. time \in [Alarm -> 0 .. Wrap - 1] /\ left \in [Alarm -> Nat]
        BY <2>1
    <2>4. rollover \in [Alarm -> BOOLEAN] /\ calling \in BOOLEAN
        OBVIOUS
    <2>5. visiting \in Entry /\ following \in Entry
        BY DEF Entry
    <2> QED
        BY <2>1, <2>2, <2>3, <2>4, <2>5 DEF AlarmTypeOK
<1>2. Linked(next, previous, running)
    BY HeadIsEntry DEF Linked
<1>3. Ahead(next, previous, Place, {})
    BY DEF Ahead, Place, head
<1>4. Scheduled
    BY <1>3 DEF Scheduled, OnTime
<1> QED
    BY <1>1, <1>2, <1>4 DEF AlarmInv

-----------------------------------------------------------------------------
(* alt_alarm_start and alt_alarm_stop. *)

LEMMA StartHolds ==
    ASSUME AlarmInv, NEW a \in Alarm, NEW delay \in Delays, AlarmStart(a, delay)
    PROVE  AlarmInv'
<1>a. AlarmTypeOK /\ Linked(next, previous, running) /\ a \in Alarm \ running /\ a # visiting
    BY DEF AlarmInv, AlarmStart
<1>b. /\ next' = Inserted([next |-> next, previous |-> previous], a).next
      /\ previous' = Inserted([next |-> next, previous |-> previous], a).previous
      /\ running' = running \cup {a}
    BY DEF AlarmStart, LinksBecome, Links
<1>c. UNCHANGED <<nticks, visiting, following, calling, astray>>
    BY DEF AlarmStart
<1>1. Linked(next', previous', running')
    BY <1>a, <1>b, InsertLinks
<1>d. nticks \in 0 .. Wrap - 1
    BY <1>a DEF AlarmTypeOK
<1>2. AlarmTypeOK'
    <2>1. next' \in [Entry -> Entry] /\ previous' \in [Entry -> Entry]
        BY <1>1 DEF Linked
    <2>2. /\ time' \in [Alarm -> 0 .. Wrap - 1] /\ rollover' \in [Alarm -> BOOLEAN]
          /\ left' \in [Alarm -> Nat]
        BY <1>a, <1>d, StartClock DEF AlarmStart, AlarmTypeOK
    <2>3. running' \subseteq started' /\ started' \subseteq Alarm
        BY <1>a DEF AlarmStart, AlarmTypeOK
    <2> QED
        BY <1>a, <1>c, <2>1, <2>2, <2>3 DEF AlarmTypeOK
<1>3. PICK pending \in SUBSET running :
          /\ Ahead(next, previous, Place, pending) /\ OnTime(pending)
          /\ calling => visiting \notin pending
    BY DEF AlarmInv, Scheduled
<1>4. Ahead(next', previous', Place', pending)
    BY <1>a, <1>b, <1>c, <1>3, InsertAhead DEF Place
<1>5. OnTime(pending)'
    <2>1. ASSUME NEW b \in running, b # a
          PROVE  left'[b] = left[b] /\ time'[b] = time[b] /\ rollover'[b] = rollover[b]
        BY <1>a, <2>1 DEF AlarmStart, AlarmTypeOK
    <2>2. ASSUME NEW b \in running, b # a
          PROVE  IF b \in pending THEN Waits(b)'
                 ELSE IF calling' /\ b = visiting' THEN Called(b)' ELSE Passed(b)'
        BY <1>3, <1>c, <2>1, <2>2 DEF OnTime, Waits, Called, Passed, Clock
    <2>3. Passed(a)'
        <3>1. left'[a] = delay + 1 /\ time'[a] = Due(delay) /\ rollover'[a] = Wraps(delay)
            BY <1>a DEF AlarmStart, AlarmTypeOK
        <3> QED
            BY <1>c, <1>d, <3>1, StartClock DEF Passed, Clock
    <2> QED
        BY <1>a, <1>b, <1>c, <2>2, <2>3 DEF OnTime
<1>6. Scheduled'
    BY <1>b, <1>c, <1>3, <1>4, <1>5 DEF Scheduled
<1> QED
    BY <1>1, <1>2, <1>6, <1>c DEF AlarmInv

LEMMA StopHolds ==
    ASSUME AlarmInv, NEW a \in Alarm, AlarmStop(a)
    PROVE  AlarmInv'
<1>a. AlarmTypeOK /\ Linked(next, previous, running)
    BY DEF AlarmInv
<1>b. /\ next' = Removed([next |-> next, previous |-> previous], a).next
      /\ previous' = Removed([next |-> next, previous |-> previous], a).previous
      /\ running' = running \ {a}
    BY DEF AlarmStop, LinksBecome, Links
<1>c. UNCHANGED <<nticks, time, rollover, visiting, following, calling, started, astray>>
    BY DEF AlarmStop
<1>1. Linked(next', previous', running')
    BY <1>a, <1>b, RemoveLinks
<1>2. AlarmTypeOK'
    <2>1. next' \in [Entry -> Entry] /\ previous' \in [Entry -> Entry]
        BY <1>1 DEF Linked
    <2>2. left' \in [Alarm -> Nat]
        BY <1>a DEF AlarmStop, AlarmTypeOK
    <2> QED
        BY <1>a, <1>b, <1>c, <2>1, <2>2 DEF AlarmTypeOK
<1>3. PICK pending \in SUBSET running :
          /\ Ahead(next, previous, Place, pending) /\ OnTime(pending)
          /\ calling => visiting \notin pending
    BY DEF AlarmInv, Scheduled
<1>4. a # Place
    BY HeadIsEntry DEF AlarmStop, CanCall, Place, head
<1>5. Ahead(next', previous', Place', pending \ {a})
    BY <1>a, <1>b, <1>c, <1>3, <1>4, RemoveAhead DEF Place
<1>6. OnTime(pending \ {a})'
    <2>1. ASSUME NEW b \in running, b # a PROVE left'[b] = left[b]
        BY <1>a, <2>1 DEF AlarmStop, AlarmTypeOK
    <2>2. ASSUME NEW b \in running, b # a
          PROVE  IF b \in pending \ {a} THEN Waits(b)'
                 ELSE IF calling' /\ b = visiting' THEN Called(b)' ELSE Passed(b)'
        BY <1>3, <1>c, <2>1, <2>2 DEF OnTime, Waits, Called, Passed, Clock
    <2> QED
        BY <1>b, <2>2 DEF OnTime
<1>7. pending \ {a} \in SUBSET running' /\ (calling' => visiting' \notin pending \ {a})
    BY <1>b, <1>c, <1>3
<1>8. Scheduled'
    BY <1>5, <1>6, <1>7 DEF Scheduled
<1> QED
    BY <1>1, <1>2, <1>8, <1>c DEF AlarmInv

-----------------------------------------------------------------------------
(* alt_tick. *)

LEMMA TickStartHolds ==
    ASSUME AlarmInv, TickStarts
    PROVE  AlarmInv'
<1>a. AlarmTypeOK /\ Linked(next, previous, running) /\ visiting = head
    BY DEF AlarmInv, TickStarts, head
<1>b. /\ nticks' = (nticks + 1) % Wrap /\ visiting' = next[head]
      /\ UNCHANGED <<next, previous, time, rollover, following, calling, started, running, astray>>
    BY DEF TickStarts, head
<1>c. ~calling /\ Place = head
    BY <1>a DEF AlarmTypeOK, Place, head
<1>d. running \subseteq Alarm
    BY <1>a DEF AlarmTypeOK
<1>1. ASSUME NEW b \in running
      PROVE  left'[b] = left[b] - 1 /\ Passed(b)
    <2>1. left'[b] = left[b] - 1
        BY <1>d DEF TickStarts
    <2>2. Passed(b)
        BY <1>c DEF AlarmInv, Scheduled, Ahead, OnTime
    <2> QED
        BY <2>1, <2>2
<1>2. nticks' = IF nticks = Wrap - 1 THEN 0 ELSE nticks + 1
    BY <1>a, <1>b, TickValue DEF AlarmTypeOK
<1>3. AlarmTypeOK'
    <2>1. nticks' \in 0 .. Wrap - 1
        BY <1>2, <1>a, AlarmsAssumption DEF AlarmTypeOK
    <2>2. visiting' \in Entry
        BY <1>a, <1>b, HeadIsEntry, RingFacts
    <2>3. left' \in [Alarm -> Nat]
        <3>1. \A b \in running : left[b] \in Nat /\ left[b] - 1 \in Nat
            BY <1>1, <1>a, <1>d, AlarmFacts DEF Passed
        <3>2. \A b \in Alarm : left[b] \in Nat
            BY <1>a, AlarmFacts
        <3> QED
            BY <3>1, <3>2 DEF TickStarts
    <2> QED
        BY <1>a, <1>b, <1>c, <2>1, <2>2, <2>3 DEF AlarmTypeOK
<1>4. Ahead(next', previous', Place', running')
    BY <1>a, <1>b, <1>c, StartAhead DEF Place
<1>5. OnTime(running)'
    <2>1. ASSUME NEW b \in running PROVE Waits(b)'
        <3>1. /\ left'[b] = left[b] - 1 /\ left[b] > 0 /\ left[b] < Wrap
              /\ nticks + left[b] = time[b] + (IF rollover[b] THEN Wrap ELSE 0)
            BY <1>1 DEF Passed, Clock
        <3>2. b \in Alarm
            BY <1>d
        <3>3. left'[b] < Wrap - 1
            BY <1>a, <3>1, <3>2, AlarmFacts
        <3>4. CASE nticks = Wrap - 1
            <4>1. nticks' = 0 /\ nticks' + left'[b] = time[b]
                BY <1>2, <1>a, <3>1, <3>2, <3>4, AlarmFacts
            <4> QED
                BY <1>a, <1>b, <3>2, <3>3, <4>1, AlarmFacts DEF Waits, Clock
        <3>5. CASE nticks # Wrap - 1
            <4>1. nticks' # 0 /\ nticks' + left'[b] = nticks + left[b]
                BY <1>2, <1>a, <3>1, <3>2, <3>5, AlarmFacts
            <4> QED
                BY <1>b, <3>1, <3>3, <4>1 DEF Waits, Clock
        <3> QED
            BY <3>4, <3>5
    <2> QED
        BY <1>b, <2>1 DEF OnTime
<1>6. Scheduled'
    BY <1>4, <1>5, <1>b, <1>c DEF Scheduled
<1> QED
    BY <1>3, <1>6, <1>a, <1>b DEF AlarmInv

\* What alt_tick knows of the alarm it visits.
LEMMA VisitFacts ==
    ASSUME AlarmInv, Visits
    PROVE  /\ visiting \in Alarm /\ Place = visiting /\ visiting # head
           /\ \E pending \in SUBSET running :
                 /\ Ahead(next, previous, visiting, pending) /\ OnTime(pending)
                 /\ visiting \in pending /\ Waits(visiting)
                 /\ Ahead(next, previous, next[visiting], pending \ {visiting})
<1>1. visiting \in Alarm /\ Place = visiting /\ visiting # head
    BY DEF Visits, AlarmInv, AlarmTypeOK, Entry, Place, head
<1>2. PICK pending \in SUBSET running : Ahead(next, previous, visiting, pending) /\ OnTime(pending)
    BY <1>1 DEF AlarmInv, Scheduled
<1>3. visiting \in pending /\ Ahead(next, previous, next[visiting], pending \ {visiting})
    BY <1>1, <1>2, AdvanceAhead DEF AlarmInv
<1>4. Waits(visiting)
    BY <1>2, <1>3 DEF OnTime
<1> QED
    BY <1>1, <1>2, <1>3, <1>4

LEMMA PassHolds ==
    ASSUME AlarmInv, TickPasses
    PROVE  AlarmInv'
<1>a. AlarmTypeOK /\ Linked(next, previous, running) /\ Visits /\ ~Expired /\ ~calling
    BY DEF AlarmInv, TickPasses, Visits
<1>b. /\ visiting' = next[visiting]
      /\ UNCHANGED <<nticks, next, previous, time, following, calling, started, running, left, astray>>
    BY DEF TickPasses
<1>c. visiting \in Alarm /\ visiting \in Entry
    BY <1>a, VisitFacts DEF Entry
<1>1. /\ rollover' \in [Alarm -> BOOLEAN]
      /\ rollover'[visiting] = RolledOver
      /\ \A b \in Alarm : b # visiting => rollover'[b] = rollover[b]
    <2>1. RolledOver \in BOOLEAN
        BY DEF RolledOver
    <2> QED
        BY <1>a, <1>c, <2>1 DEF TickPasses, AlarmTypeOK
<1>2. AlarmTypeOK'
    <2>1. visiting' \in Entry
        BY <1>a, <1>b, <1>c, RingFacts
    <2> QED
        BY <1>a, <1>b, <1>1, <2>1 DEF AlarmTypeOK
<1>3. PICK pending \in SUBSET running :
          /\ OnTime(pending) /\ visiting \in pending /\ Waits(visiting)
          /\ Ahead(next, previous, next[visiting], pending \ {visiting})
    BY <1>a, VisitFacts
<1>4. PICK at : at = visiting
    OBVIOUS
<1>5. Ahead(next', previous', Place', pending \ {at})
    BY <1>3, <1>4, <1>a, <1>b DEF Place
<1>6. OnTime(pending \ {at})'
    <2>1. Passed(at)'
        <3>1. left[at] > 0 /\ left[at] < Wrap
            BY <1>3, <1>4, <1>a, <1>c, ExpiredMeansDue, AlarmFacts DEF Waits
        <3> QED
            BY <1>1, <1>3, <1>4, <1>b, <3>1 DEF Passed, Waits, Clock, RolledOver
    <2>2. ASSUME NEW b \in running, b # at
          PROVE  IF b \in pending THEN Waits(b)' ELSE Passed(b)'
        <3>1. rollover'[b] = rollover[b]
            BY <1>1, <1>4, <1>a, <2>2 DEF AlarmTypeOK
        <3> QED
            BY <1>3, <1>a, <1>b, <3>1, <2>2 DEF OnTime, Waits, Passed, Clock
    <2>3. running' = running /\ ~calling'
        BY <1>a, <1>b
    <2> QED
        BY <2>1, <2>2, <2>3 DEF OnTime
<1>7. Scheduled'
    <2>1. pending \ {at} \in SUBSET running' /\ ~calling'
        BY <1>a, <1>b
    <2> QED
        BY <1>5, <1>6, <2>1 DEF Scheduled
<1> QED
    BY <1>2, <1>7, <1>a, <1>b DEF AlarmInv

LEMMA CallHolds ==
    ASSUME AlarmInv, TickCalls
    PROVE  AlarmInv'
<1>a. AlarmTypeOK /\ Linked(next, previous, running) /\ Visits /\ Expired /\ ~calling /\ astray = {}
    BY DEF AlarmInv, TickCalls, Visits
<1>b. /\ following' = next[visiting] /\ calling'
      /\ UNCHANGED <<nticks, next, previous, time, visiting, started, running, left>>
    BY DEF TickCalls
<1>c. visiting \in Alarm /\ visiting \in Entry /\ visiting # head
    BY <1>a, VisitFacts DEF Entry
<1>1. /\ rollover' \in [Alarm -> BOOLEAN]
      /\ rollover'[visiting] = RolledOver
      /\ \A b \in Alarm : b # visiting => rollover'[b] = rollover[b]
    <2>1. RolledOver \in BOOLEAN
        BY DEF RolledOver
    <2> QED
        BY <1>a, <1>c, <2>1 DEF TickCalls, AlarmTypeOK
<1>2. PICK pending \in SUBSET running :
          /\ OnTime(pending) /\ visiting \in pending /\ Waits(visiting)
          /\ Ahead(next, previous, next[visiting], pending \ {visiting})
    BY <1>a, VisitFacts
<1>3. left[visiting] = 0 /\ time[visiting] = nticks /\ ~RolledOver
    BY <1>2, <1>a, <1>c, ExpiredMeansDue DEF Expired
<1>4. astray' = {}
    BY <1>2, <1>3, <1>a DEF TickCalls
<1>5. AlarmTypeOK'
    <2>1. following' \in Entry
        BY <1>a, <1>b, <1>c, RingFacts
    <2>2. calling' \in BOOLEAN /\ visiting' # alt_alarm_list
        BY <1>b, <1>c DEF TickCalls, head
    <2> QED
        BY <1>a, <1>b, <1>1, <1>4, <2>1, <2>2 DEF AlarmTypeOK
<1>6. PICK at : at = visiting
    OBVIOUS
<1>7. Ahead(next', previous', Place', pending \ {at})
    BY <1>2, <1>6, <1>b DEF Place
<1>8. OnTime(pending \ {at})'
    <2>1. Called(at)' /\ at = visiting'
        BY <1>1, <1>3, <1>6, <1>b DEF Called
    <2>2. ASSUME NEW b \in running, b # at
          PROVE  IF b \in pending THEN Waits(b)' ELSE Passed(b)'
        <3>1. rollover'[b] = rollover[b]
            BY <1>1, <1>6, <1>a, <2>2 DEF AlarmTypeOK
        <3> QED
            BY <1>2, <1>a, <1>b, <3>1, <2>2 DEF OnTime, Waits, Passed, Clock
    <2>3. running' = running
        BY <1>b
    <2> QED
        BY <1>b, <2>1, <2>2, <2>3 DEF OnTime
<1>9. Scheduled'
    <2>1. pending \ {at} \in SUBSET running' /\ visiting' \notin pending \ {at}
        BY <1>6, <1>b
    <2> QED
        BY <1>7, <1>8, <2>1 DEF Scheduled
<1> QED
    BY <1>4, <1>5, <1>9, <1>a, <1>b DEF AlarmInv

LEMMA RetireHolds ==
    ASSUME AlarmInv, CallbackRetires
    PROVE  AlarmInv'
<1>a. AlarmTypeOK /\ Linked(next, previous, running) /\ calling /\ Place = following
    BY DEF AlarmInv, CallbackRetires, Place
<1>c. visiting \in Alarm
    BY <1>a DEF AlarmTypeOK, Entry
<1>b. PICK at \in Alarm : at = visiting
    BY <1>c
<1>d. /\ next' = Removed([next |-> next, previous |-> previous], at).next
      /\ previous' = Removed([next |-> next, previous |-> previous], at).previous
      /\ running' = running \ {at} /\ visiting' = following /\ ~calling'
      /\ UNCHANGED <<nticks, time, rollover, started, astray>>
    BY <1>b DEF CallbackRetires, TickGoesOn, LinksBecome, Links
<1>1. Linked(next', previous', running')
    BY <1>a, <1>d, RemoveLinks
<1>2. AlarmTypeOK'
    <2>1. next' \in [Entry -> Entry] /\ previous' \in [Entry -> Entry]
        BY <1>1 DEF Linked
    <2>2. left' \in [Alarm -> Nat]
        BY <1>a DEF CallbackRetires, AlarmTypeOK
    <2>3. visiting' \in Entry /\ following' \in Entry /\ calling' \in BOOLEAN
        BY <1>a, <1>d, HeadIsEntry DEF CallbackRetires, TickGoesOn, AlarmTypeOK, head
    <2> QED
        BY <1>a, <1>d, <2>1, <2>2, <2>3 DEF AlarmTypeOK
<1>3. PICK pending \in SUBSET running :
          Ahead(next, previous, Place, pending) /\ at \notin pending /\ OnTime(pending)
    BY <1>a, <1>b DEF AlarmInv, Scheduled
<1>4. at # Place
    BY <1>3, <1>b, HeadIsEntry DEF Ahead
<1>5. Ahead(next', previous', Place', pending)
    <2>1. pending \ {at} = pending /\ Place' = Place
        BY <1>3, <1>a, <1>d DEF Place
    <2> QED
        BY <1>3, <1>4, <1>a, <1>d, <2>1, RemoveAhead
<1>6. OnTime(pending)'
    <2>1. ASSUME NEW b \in running, b # at PROVE left'[b] = left[b]
        BY <1>a, <1>b, <2>1 DEF CallbackRetires, AlarmTypeOK
    <2>2. ASSUME NEW b \in running, b # at
          PROVE  IF b \in pending THEN Waits(b)' ELSE Passed(b)'
        BY <1>3, <1>b, <1>d, <2>1, <2>2 DEF OnTime, Waits, Passed, Clock
    <2> QED
        BY <1>d, <2>2 DEF OnTime
<1>7. Scheduled'
    <2>1. pending \in SUBSET running'
        BY <1>3, <1>d
    <2> QED
        BY <1>5, <1>6, <1>d, <2>1 DEF Scheduled
<1> QED
    BY <1>1, <1>2, <1>7, <1>d DEF AlarmInv

LEMMA RepeatHolds ==
    ASSUME AlarmInv, NEW period \in Periods, CallbackRepeats(period)
    PROVE  AlarmInv'
<1>a. AlarmTypeOK /\ Linked(next, previous, running) /\ calling /\ Place = following
    BY DEF AlarmInv, CallbackRepeats, Place
<1>c. visiting \in Alarm
    BY <1>a DEF AlarmTypeOK, Entry
<1>b. PICK at \in Alarm : at = visiting
    BY <1>c
<1>d. /\ visiting' = following /\ ~calling'
      /\ UNCHANGED <<next, previous, nticks, started, running, astray>>
    BY DEF CallbackRepeats, TickGoesOn
<1>e. nticks \in 0 .. Wrap - 1 /\ time[at] \in 0 .. Wrap - 1 /\ Wrap \in Nat /\ period \in Nat
    BY <1>a, AlarmFacts, AlarmsAssumption
<1>1. /\ time'[at] = (time[at] + period) % Wrap
      /\ rollover'[at] = (rollover[at] \/ time'[at] < nticks)
      /\ left'[at] = IF at \in running THEN period ELSE 0
      /\ \A b \in Alarm : b # at =>
            time'[b] = time[b] /\ rollover'[b] = rollover[b] /\ left'[b] = left[b]
    BY <1>a, <1>b DEF CallbackRepeats, AlarmTypeOK
<1>2. AlarmTypeOK'
    <2>1. (time[at] + period) % Wrap \in 0 .. Wrap - 1
        <3>1. time[at] + period \in 0 .. Wrap + Wrap - 1
            BY <1>e, AlarmsAssumption
        <3> QED
            BY <1>e, <3>1, WrapValue
    <2>2. time' \in [Alarm -> 0 .. Wrap - 1]
        BY <1>a, <1>b, <2>1 DEF CallbackRepeats, AlarmTypeOK
    <2>3. (rollover[at] \/ time'[at] < nticks) \in BOOLEAN
        OBVIOUS
    <2>4. rollover' \in [Alarm -> BOOLEAN]
        BY <1>a, <1>b, <2>3 DEF CallbackRepeats, AlarmTypeOK
    <2>5. left' \in [Alarm -> Nat]
        BY <1>a, <1>e DEF CallbackRepeats, AlarmTypeOK
    <2>6. visiting' \in Entry /\ following' \in Entry /\ calling' \in BOOLEAN
        BY <1>a, <1>d, HeadIsEntry DEF CallbackRepeats, TickGoesOn, AlarmTypeOK, head
    <2> QED
        BY <1>a, <1>d, <2>2, <2>4, <2>5, <2>6 DEF AlarmTypeOK
<1>3. PICK pending \in SUBSET running :
          Ahead(next, previous, Place, pending) /\ at \notin pending /\ OnTime(pending)
    BY <1>a, <1>b DEF AlarmInv, Scheduled
<1>4. Ahead(next', previous', Place', pending)
    BY <1>3, <1>a, <1>d DEF Place
<1>5. OnTime(pending)'
    <2>1. ASSUME at \in running PROVE Passed(at)'
        <3>1. Called(at)
            BY <1>3, <1>a, <1>b, <2>1 DEF OnTime
        <3>2. left'[at] = period /\ time'[at] = (nticks + period) % Wrap
            BY <1>1, <2>1, <3>1 DEF Called
        <3>3. rollover'[at] <=> time'[at] < nticks
            BY <1>1, <3>1 DEF Called
        <3>4. /\ period > 0 /\ period < Wrap
              /\ nticks + period = time'[at] + (IF time'[at] < nticks THEN Wrap ELSE 0)
            BY <1>e, <3>2, RepeatClock
        <3> QED
            BY <1>d, <3>2, <3>3, <3>4 DEF Passed, Clock
    <2>2. ASSUME NEW b \in running, b # at
          PROVE  IF b \in pending THEN Waits(b)' ELSE Passed(b)'
        <3>1. time'[b] = time[b] /\ rollover'[b] = rollover[b] /\ left'[b] = left[b]
            BY <1>1, <1>a, <2>2 DEF AlarmTypeOK
        <3> QED
            BY <1>3, <1>b, <1>d, <2>2, <3>1 DEF OnTime, Waits, Passed, Clock
    <2> QED
        BY <1>3, <1>d, <2>1, <2>2 DEF OnTime
<1>6. Scheduled'
    <2>1. pending \in SUBSET running'
        BY <1>d
    <2> QED
        BY <1>4, <1>5, <1>d, <2>1 DEF Scheduled
<1> QED
    BY <1>2, <1>6, <1>a, <1>d DEF AlarmInv

-----------------------------------------------------------------------------
(* The theorems. *)

LEMMA AlarmInvStutter ==
    ASSUME AlarmInv, UNCHANGED alarmVars
    PROVE  AlarmInv'
<1> USE DEF alarmVars
<1>1. AlarmTypeOK' /\ Linked(next, previous, running)' /\ astray' = {}
    BY DEF AlarmInv, AlarmTypeOK
<1>2. Scheduled'
    <2>1. PICK pending \in SUBSET running :
              /\ Ahead(next, previous, Place, pending) /\ OnTime(pending)
              /\ calling => visiting \notin pending
        BY DEF AlarmInv, Scheduled
    <2>2. OnTime(pending)'
        BY <2>1 DEF OnTime, Waits, Passed, Called, Clock
    <2>3. Ahead(next', previous', Place', pending)
        BY <2>1 DEF Place
    <2> QED
        BY <2>1, <2>2, <2>3 DEF Scheduled
<1> QED
    BY <1>1, <1>2 DEF AlarmInv

\* The ring and the schedule hold at every step of alt_tick, of its callbacks
\* and of the thread.
THEOREM AlarmInvariance == AlarmSpec => []AlarmInv
<1>1. AlarmInit => AlarmInv
    BY AlarmInvInit
<1>2. ASSUME AlarmInv, [AlarmNext]_alarmVars PROVE AlarmInv'
    BY <1>2, StartHolds, StopHolds, TickStartHolds, PassHolds, CallHolds, RetireHolds, RepeatHolds,
       AlarmInvStutter DEF AlarmNext
<1> QED
    BY <1>1, <1>2, PTL DEF AlarmSpec

\* The links, the times and the flags keep their types; in particular no
\* running alarm has ever waited past its tick.
THEOREM AlarmTypeTheorem == AlarmSpec => []AlarmTypeOK
<1>1. AlarmInv => AlarmTypeOK
    BY DEF AlarmInv
<1> QED
    BY <1>1, AlarmInvariance, PTL

\* The list is the running alarms, read forwards and backwards, also while
\* alt_tick is in the middle of it and callbacks start and stop alarms.
THEOREM ListTheorem == AlarmSpec => []ListHoldsTheRunning
<1>1. ASSUME AlarmInv PROVE ListHoldsTheRunning
    <2>a. Linked(next, previous, running)
        BY <1>1 DEF AlarmInv
    <2>1. \A e \in Entry : previous[next[e]] = e
        BY <2>a DEF Linked
    <2>2. ASSUME NEW set \in SUBSET Entry, Closed(set) PROVE running \cup {alt_alarm_list} \subseteq set
        BY <2>2, <2>a DEF Closed, Linked, ClosedBy, head
    <2>3. Closed(running \cup {alt_alarm_list})
        BY <2>a, RingFacts DEF Closed, head
    <2>4. running \cup {alt_alarm_list} \subseteq Entry
        BY <2>a, HeadIsEntry DEF Linked, Entry
    <2> QED
        BY <2>1, <2>2, <2>3, <2>4 DEF ListHoldsTheRunning, Reached
<1> QED
    BY <1>1, AlarmInvariance, PTL

\* Every alarm is called at its tick and at no other, across any number of
\* wraps of the counter: no call is early, late, repeated or left out.
THEOREM OnTimeTheorem == AlarmSpec => []AlarmsRunOnTime
<1>1. ASSUME AlarmInv PROVE AlarmsRunOnTime
    <2>1. ASSUME visiting = alt_alarm_list, NEW a \in running PROVE left[a] > 0
        <3>1. ~calling /\ Place = head
            BY <1>1, <2>1 DEF AlarmInv, AlarmTypeOK, Place, head
        <3>2. Passed(a)
            BY <1>1, <3>1 DEF AlarmInv, Scheduled, Ahead, OnTime
        <3> QED
            BY <3>2 DEF Passed
    <2> QED
        BY <1>1, <2>1 DEF AlarmInv, AlarmsRunOnTime
<1> QED
    BY <1>1, AlarmInvariance, PTL

-----------------------------------------------------------------------------
(* Interrupts: the invariant.                                              *)

Request ==
    [op : {"none", "enable", "disable"}, irq : Nat, driver : Driver \cup {NoDriver}, registers : BOOLEAN]

MaskSteps == {"mask", "load", "store", "write"}

\* The request in hand: what it is for, and that it names an interrupt.
Requested ==
    /\ request \in Request
    /\ irqpc \in MaskSteps \cup {"register", "handler", "context"} =>
           request.irq \in Irq /\ request.op \in {"enable", "disable"}
    /\ irqpc \in {"register", "handler", "context", "registered"} => request.registers
    /\ irqpc \in MaskSteps \cup {"register", "handler", "context"} /\ request.registers =>
           (request.op = "enable" <=> request.driver # NoDriver)

\* The sections that the call in progress has open.
Depth ==
    IF irqpc \in {"load", "store", "write", "restore"} THEN (IF request.registers THEN 2 ELSE 1)
    ELSE IF irqpc \in {"handler", "context", "registered"} \/ (irqpc = "mask" /\ request.registers) THEN 1
    ELSE 0

\* Contexts are restored in the order they were saved: only the outermost
\* section found interrupts enabled.
Stacked(stack) ==
    /\ stack \in Seq(BOOLEAN)
    /\ \A k \in 1 .. Len(stack) : stack[k] <=> k = Len(stack)

Nesting ==
    /\ Stacked(contexts)
    /\ Len(contexts) >= Depth
    /\ PIE \in BOOLEAN /\ (PIE <=> contexts = <<>> /\ dispatch = "off" /\ irqpc # "reset")
    /\ dispatch # "off" => contexts = <<>> /\ irqpc # "reset"
    /\ irqpc = "reset" => contexts = <<>>

Masking ==
    /\ IENABLE \subseteq Irq /\ alt_irq_active \subseteq Irq
    /\ alt_irq_active = enabled
    /\ irqpc = "reset" => enabled = {}
    /\ irqpc = "store" => loadedActive = alt_irq_active
    /\ irqpc = "write" => alt_irq_active = Changed(IENABLE, request.op, request.irq)
    /\ irqpc \notin {"reset", "write"} => IENABLE = alt_irq_active

Tables ==
    /\ alt_irq \in [Irq -> TableEntry]
    /\ \A i \in Irq : alt_irq[i].context = alt_irq[i].handler \/ (irqpc = "context" /\ i = request.irq)
    /\ irqpc = "context" => alt_irq[request.irq].handler = request.driver
    /\ irqpc \in MaskSteps /\ request.op = "enable" => alt_irq[request.irq].handler # NoDriver
    /\ irqpc # "reset" => \A i \in IENABLE :
           \/ alt_irq[i].handler # NoDriver
           \/ irqpc \in MaskSteps \cup {"context"} /\ request.registers /\ request.op = "disable" /\ request.irq = i

Serving ==
    /\ dispatch # "unknown"
    /\ dispatch \in {"test", "read"} => ipending # {}
    /\ dispatch = "call" => active # {} /\ active \subseteq IENABLE

InterruptInv == Requested /\ Nesting /\ Masking /\ Tables /\ Serving

-----------------------------------------------------------------------------
(* The stack of contexts. *)

LEMMA PushStacked ==
    ASSUME NEW stack, Stacked(stack), NEW found \in BOOLEAN, found <=> stack = <<>>
    PROVE  /\ Stacked(<<found>> \o stack)
           /\ Len(<<found>> \o stack) = Len(stack) + 1
<1> DEFINE top == <<found>>
<1>0. top \in Seq(BOOLEAN) /\ Len(top) = 1
    OBVIOUS
<1>1. top[1] <=> stack = <<>>
    OBVIOUS
<1>2. stack \in Seq(BOOLEAN) /\ Len(stack) \in Nat /\ (stack = <<>> <=> Len(stack) = 0)
    BY LenProperties, EmptySeq DEF Stacked
<1> HIDE DEF top
<1>3. /\ top \o stack \in Seq(BOOLEAN)
      /\ Len(top \o stack) = 1 + Len(stack)
      /\ \A i \in 1 .. 1 + Len(stack) : (top \o stack)[i] = IF i <= 1 THEN top[i] ELSE stack[i - 1]
    <2>1. stack \in Seq(BOOLEAN)
        BY <1>2
    <2>2. /\ top \o stack \in Seq(BOOLEAN)
          /\ Len(top \o stack) = Len(top) + Len(stack)
          /\ \A i \in 1 .. Len(top) + Len(stack) :
                (top \o stack)[i] = IF i <= Len(top) THEN top[i] ELSE stack[i - Len(top)]
        BY <1>0, <2>1, ConcatProperties, Zenon
    <2> QED
        BY <1>0, <2>2
<1>4. ASSUME NEW k \in 1 .. Len(top \o stack)
      PROVE  ((top \o stack)[k]) <=> k = Len(top \o stack)
    <2>1. CASE k = 1
        BY <1>1, <1>2, <1>3, <2>1
    <2>2. CASE k # 1
        <3>1. k - 1 \in 1 .. Len(stack) /\ (top \o stack)[k] = stack[k - 1]
            BY <1>2, <1>3, <2>2
        <3> QED
            BY <1>2, <1>3, <3>1 DEF Stacked
    <2> QED
        BY <2>1, <2>2
<1> QED
    BY <1>2, <1>3, <1>4 DEF Stacked, top

LEMMA PopStacked ==
    ASSUME NEW stack, Stacked(stack), stack # <<>>
    PROVE  /\ Stacked(Tail(stack))
           /\ Len(Tail(stack)) = Len(stack) - 1
           /\ Head(stack) \in BOOLEAN
           /\ Head(stack) <=> Tail(stack) = <<>>
<1>1. stack \in Seq(BOOLEAN) /\ Len(stack) \in Nat /\ Len(stack) > 0
    BY LenProperties, EmptySeq DEF Stacked
<1>2. /\ Tail(stack) \in Seq(BOOLEAN)
      /\ Len(Tail(stack)) = Len(stack) - 1
      /\ \A i \in 1 .. Len(Tail(stack)) : Tail(stack)[i] = stack[i + 1]
    BY <1>1, HeadTailProperties
<1>3. Tail(stack) = <<>> <=> Len(stack) = 1
    <2>1. Tail(stack) = <<>> <=> Len(Tail(stack)) = 0
        BY <1>2, EmptySeq
    <2> QED
        BY <1>1, <1>2, <2>1
<1>4. Head(stack) = stack[1]
    BY <1>1
<1>5. stack[1] <=> 1 = Len(stack)
    BY <1>1 DEF Stacked
<1>6. ASSUME NEW k \in 1 .. Len(Tail(stack))
      PROVE  Tail(stack)[k] <=> k = Len(Tail(stack))
    <2>1. k + 1 \in 1 .. Len(stack) /\ Tail(stack)[k] = stack[k + 1]
        BY <1>1, <1>2
    <2>2. stack[k + 1] <=> k + 1 = Len(stack)
        BY <2>1 DEF Stacked
    <2>3. k + 1 = Len(stack) <=> k = Len(Tail(stack))
        BY <1>1, <1>2
    <2>4. Tail(stack)[k] <=> stack[k + 1]
        BY <2>1, Zenon
    <2> QED
        BY <2>2, <2>3, <2>4
<1>7. Head(stack) \in BOOLEAN /\ (Head(stack) <=> Tail(stack) = <<>>)
    <2>1. Head(stack) \in BOOLEAN
        BY <1>1, HeadTailProperties
    <2>2. Head(stack) <=> stack[1]
        BY <1>4, Zenon
    <2> QED
        BY <2>1, <2>2, <1>3, <1>5
<1> QED
    BY <1>2, <1>6, <1>7 DEF Stacked

LEMMA LenType ==
    ASSUME NEW stack, Stacked(stack)
    PROVE  Len(stack) \in Nat /\ (stack = <<>> <=> Len(stack) = 0)
BY LenProperties, EmptySeq DEF Stacked

LEMMA EmptyStacked == Stacked(<<>>)
BY DEF Stacked

-----------------------------------------------------------------------------
(* The request in hand. *)

LEMMA InitRequested == InterruptInit => Requested
BY DEF InterruptInit, Requested, Request, NoRequest, MaskSteps

LEMMA RequestedHolds ==
    ASSUME Requested, InterruptNext
    PROVE  Requested'
<1> USE DEF At, irqTables, irqThread, irqDispatch
<1> USE DEF Requested, Request, NoRequest, MaskSteps
<1>1. CASE Restarts
    BY <1>1 DEF Restarts, AfterReset
<1>2. CASE IrqInit
    BY <1>2 DEF IrqInit
<1>3. CASE EntersSection
    BY <1>3 DEF EntersSection, DisableAll
<1>4. CASE LeavesSection
    BY <1>4 DEF LeavesSection, EnableAll
<1>5. CASE CallsRegister
    BY <1>5, InterruptsAssumption DEF CallsRegister
<1>6. CASE RegisterDisables
    BY <1>6 DEF RegisterDisables, DisableAll
<1>7. CASE StoresHandler
    BY <1>7 DEF StoresHandler
<1>8. CASE StoresContext
    BY <1>8 DEF StoresContext
<1>9. CASE CallsMask
    BY <1>9, InterruptsAssumption DEF CallsMask
<1>10. CASE MaskDisables
    BY <1>10 DEF MaskDisables, DisableAll
<1>11. CASE MaskLoads
    BY <1>11 DEF MaskLoads
<1>12. CASE MaskStores
    BY <1>12 DEF MaskStores
<1>13. CASE MaskWrites
    BY <1>13 DEF MaskWrites
<1>14. CASE MaskRestores
    <2>1. CASE request.registers
        BY <1>14, <2>1 DEF MaskRestores
    <2>2. CASE ~request.registers
        <3>1. Finished
            BY <1>14, <2>2, Zenon DEF MaskRestores
        <3> QED
            BY <3>1 DEF Finished
    <2> QED
        BY <2>1, <2>2
<1>15. CASE RegisterRestores
    BY <1>15 DEF RegisterRestores, EnableAll, Finished
<1>16. CASE DeviceAsks
    BY <1>16 DEF DeviceAsks
<1>17. CASE TakesInterrupt
    BY <1>17 DEF TakesInterrupt
<1>18. CASE TestsPending
    BY <1>18 DEF TestsPending
<1>19. CASE ReadsPending
    BY <1>19 DEF ReadsPending
<1>20. CASE CallsHandler
    BY <1>20 DEF CallsHandler, HandlerMasks
<1> QED
    BY <1>1, <1>2, <1>3, <1>4, <1>5, <1>6, <1>7, <1>8, <1>9, <1>10, <1>11, <1>12, <1>13, <1>14,
       <1>15, <1>16, <1>17, <1>18, <1>19, <1>20 DEF InterruptNext

-----------------------------------------------------------------------------
(* Nesting. *)

LEMMA InitNesting == InterruptInit => Nesting
<1> SUFFICES ASSUME InterruptInit PROVE Nesting
    OBVIOUS
<1>1. contexts = <<>> /\ Depth = 0 /\ dispatch = "off" /\ irqpc = "reset"
    BY DEF InterruptInit, Depth
<1>2. PIE \in BOOLEAN /\ ~PIE
    BY DEF InterruptInit
<1>3. Stacked(contexts) /\ Len(contexts) = 0
    BY <1>1, EmptyStacked, LenType
<1> QED
    BY <1>1, <1>2, <1>3 DEF Nesting

LEMMA NestingHolds ==
    ASSUME Requested, Nesting, InterruptNext
    PROVE  Nesting'
<1> USE DEF At, irqTables, irqThread, irqDispatch
<1> USE DEF Nesting
<1>1. CASE Restarts
    <2>1. contexts' = <<>> /\ Depth' = 0
        BY <1>1 DEF Restarts, AfterReset, Depth
    <2>2. Stacked(contexts') /\ Len(contexts') = 0
        BY <2>1, EmptyStacked, LenType
    <2>3. PIE' \in BOOLEAN /\ (PIE' <=> (dispatch' = "off" /\ irqpc' # "reset"))
        BY <1>1 DEF Restarts, AfterReset
    <2>4. dispatch' # "off" => irqpc' # "reset"
        BY <1>1 DEF Restarts, AfterReset
    <2> QED
        BY <2>1, <2>2, <2>3, <2>4
<1>2. CASE IrqInit
    <2>1. contexts' = <<>> /\ Depth' = 0
        BY <1>2 DEF IrqInit, Depth
    <2>2. Stacked(contexts') /\ Len(contexts') = 0
        BY <2>1, EmptyStacked, LenType
    <2>3. PIE' \in BOOLEAN /\ (PIE' <=> (dispatch' = "off" /\ irqpc' # "reset"))
        BY <1>2 DEF IrqInit
    <2>4. dispatch' # "off" => irqpc' # "reset"
        BY <1>2 DEF IrqInit
    <2> QED
        BY <2>1, <2>2, <2>3, <2>4
<1>3. CASE EntersSection
    <2>1. PIE <=> contexts = <<>>
        BY <1>3 DEF EntersSection
    <2>2. contexts' = <<PIE>> \o contexts /\ PIE' = FALSE
        BY <1>3 DEF EntersSection, DisableAll
    <2>3. Stacked(contexts') /\ Len(contexts') = Len(contexts) + 1
        BY <2>1, <2>2, PushStacked
    <2>4. Len(contexts) \in Nat /\ contexts' # <<>>
        BY <2>3, LenType
    <2>5. Depth' <= Depth + 1 /\ Depth' \in Nat /\ Depth \in Nat
        BY <1>3 DEF EntersSection, Depth, Requested
    <2>6. dispatch = "off" /\ dispatch' = "off" /\ irqpc' # "reset"
        BY <1>3 DEF EntersSection
    <2>7. PIE' \in BOOLEAN /\ ~PIE'
        BY <2>2, Zenon
    <2> QED
        BY <2>3, <2>4, <2>5, <2>6, <2>7
<1>4. CASE LeavesSection
    <2>1. contexts # <<>> /\ contexts' = Tail(contexts) /\ PIE' = Head(contexts)
        BY <1>4, LenType DEF LeavesSection, EnableAll, Depth, Requested
    <2>2. Stacked(contexts') /\ Len(contexts') = Len(contexts) - 1
        BY <2>1, PopStacked
    <2>3. PIE' \in BOOLEAN /\ (PIE' <=> contexts' = <<>>)
        BY <2>1, PopStacked
    <2>4. Len(contexts) \in Nat /\ Len(contexts) > 0
        BY <2>1, LenType
    <2>5. Depth' + 1 <= Len(contexts) /\ Depth' \in Nat
        BY <1>4, <2>4 DEF LeavesSection, Finished, NoRequest, Depth, Requested
    <2>6. dispatch' = "off" /\ irqpc' # "reset"
        BY <1>4 DEF LeavesSection, Finished
    <2> QED
        BY <2>2, <2>3, <2>4, <2>5, <2>6
<1>5. CASE CallsRegister
    BY <1>5 DEF CallsRegister, Depth, Requested
<1>6. CASE RegisterDisables
    <2>1. PIE <=> contexts = <<>>
        BY <1>6 DEF RegisterDisables
    <2>2. contexts' = <<PIE>> \o contexts /\ PIE' = FALSE
        BY <1>6 DEF RegisterDisables, DisableAll
    <2>3. Stacked(contexts') /\ Len(contexts') = Len(contexts) + 1
        BY <2>1, <2>2, PushStacked
    <2>4. Len(contexts) \in Nat /\ contexts' # <<>>
        BY <2>3, LenType
    <2>5. Depth' <= Depth + 1 /\ Depth' \in Nat /\ Depth \in Nat
        BY <1>6 DEF RegisterDisables, Depth, Requested
    <2>6. dispatch = "off" /\ dispatch' = "off" /\ irqpc' # "reset"
        BY <1>6 DEF RegisterDisables
    <2>7. PIE' \in BOOLEAN /\ ~PIE'
        BY <2>2, Zenon
    <2> QED
        BY <2>3, <2>4, <2>5, <2>6, <2>7
<1>7. CASE StoresHandler
    BY <1>7 DEF StoresHandler, Depth, Requested
<1>8. CASE StoresContext
    BY <1>8 DEF StoresContext, Depth, Requested
<1>9. CASE CallsMask
    BY <1>9 DEF CallsMask, Depth, Requested
<1>10. CASE MaskDisables
    <2>1. PIE <=> contexts = <<>>
        BY <1>10 DEF MaskDisables
    <2>2. contexts' = <<PIE>> \o contexts /\ PIE' = FALSE
        BY <1>10 DEF MaskDisables, DisableAll
    <2>3. Stacked(contexts') /\ Len(contexts') = Len(contexts) + 1
        BY <2>1, <2>2, PushStacked
    <2>4. Len(contexts) \in Nat /\ contexts' # <<>>
        BY <2>3, LenType
    <2>5. Depth' <= Depth + 1 /\ Depth' \in Nat /\ Depth \in Nat
        BY <1>10 DEF MaskDisables, Depth, Requested
    <2>6. dispatch = "off" /\ dispatch' = "off" /\ irqpc' # "reset"
        BY <1>10 DEF MaskDisables
    <2>7. PIE' \in BOOLEAN /\ ~PIE'
        BY <2>2, Zenon
    <2> QED
        BY <2>3, <2>4, <2>5, <2>6, <2>7
<1>11. CASE MaskLoads
    BY <1>11 DEF MaskLoads, Depth, Requested
<1>12. CASE MaskStores
    BY <1>12 DEF MaskStores, Depth, Requested
<1>13. CASE MaskWrites
    BY <1>13 DEF MaskWrites, Depth, Requested
<1>14. CASE MaskRestores
    <2>1. contexts # <<>> /\ contexts' = Tail(contexts) /\ PIE' = Head(contexts)
        BY <1>14, LenType DEF MaskRestores, EnableAll, Depth, Requested
    <2>2. Stacked(contexts') /\ Len(contexts') = Len(contexts) - 1
        BY <2>1, PopStacked
    <2>3. PIE' \in BOOLEAN /\ (PIE' <=> contexts' = <<>>)
        BY <2>1, PopStacked
    <2>4. Len(contexts) \in Nat /\ Len(contexts) > 0
        BY <2>1, LenType
    <2>5. Depth' + 1 <= Len(contexts) /\ Depth' \in Nat
        BY <1>14, <2>4 DEF MaskRestores, Finished, NoRequest, Depth, Requested
    <2>6. dispatch' = "off" /\ irqpc' # "reset"
        BY <1>14 DEF MaskRestores, Finished
    <2> QED
        BY <2>2, <2>3, <2>4, <2>5, <2>6
<1>15. CASE RegisterRestores
    <2>1. contexts # <<>> /\ contexts' = Tail(contexts) /\ PIE' = Head(contexts)
        BY <1>15, LenType DEF RegisterRestores, EnableAll, Depth, Requested
    <2>2. Stacked(contexts') /\ Len(contexts') = Len(contexts) - 1
        BY <2>1, PopStacked
    <2>3. PIE' \in BOOLEAN /\ (PIE' <=> contexts' = <<>>)
        BY <2>1, PopStacked
    <2>4. Len(contexts) \in Nat /\ Len(contexts) > 0
        BY <2>1, LenType
    <2>5. Depth' + 1 <= Len(contexts) /\ Depth' \in Nat
        BY <1>15, <2>4 DEF RegisterRestores, Finished, NoRequest, Depth, Requested
    <2>6. dispatch' = "off" /\ irqpc' # "reset"
        BY <1>15 DEF RegisterRestores, Finished
    <2> QED
        BY <2>2, <2>3, <2>4, <2>5, <2>6
<1>16. CASE DeviceAsks
    BY <1>16 DEF DeviceAsks, Depth, Requested
<1>17. CASE TakesInterrupt
    <2>1. contexts' = <<>> /\ Depth' = 0
        BY <1>17 DEF TakesInterrupt, Depth
    <2>2. Stacked(contexts') /\ Len(contexts') = 0
        BY <2>1, EmptyStacked, LenType
    <2>3. PIE' \in BOOLEAN /\ (PIE' <=> (dispatch' = "off" /\ irqpc' # "reset"))
        BY <1>17 DEF TakesInterrupt
    <2>4. dispatch' # "off" => irqpc' # "reset"
        BY <1>17 DEF TakesInterrupt
    <2> QED
        BY <2>1, <2>2, <2>3, <2>4
<1>18. CASE TestsPending
    BY <1>18 DEF TestsPending, Depth, Requested
<1>19. CASE ReadsPending
    <2>1. contexts' = <<>> /\ Depth' = 0
        BY <1>19 DEF ReadsPending, Depth
    <2>2. Stacked(contexts') /\ Len(contexts') = 0
        BY <2>1, EmptyStacked, LenType
    <2>3. PIE' \in BOOLEAN /\ (PIE' <=> (dispatch' = "off" /\ irqpc' # "reset"))
        BY <1>19 DEF ReadsPending
    <2>4. dispatch' # "off" => irqpc' # "reset"
        BY <1>19 DEF ReadsPending
    <2> QED
        BY <2>1, <2>2, <2>3, <2>4
<1>20. CASE CallsHandler
    BY <1>20 DEF CallsHandler, HandlerMasks, Depth, Requested
<1> QED
    BY <1>1, <1>2, <1>3, <1>4, <1>5, <1>6, <1>7, <1>8, <1>9, <1>10, <1>11, <1>12, <1>13, <1>14,
       <1>15, <1>16, <1>17, <1>18, <1>19, <1>20 DEF InterruptNext

-----------------------------------------------------------------------------
(* The three copies of what is enabled. *)

LEMMA InitMasking == InterruptInit => Masking
BY DEF InterruptInit, Masking

\* Inside of a section the dispatcher is not running.
LEMMA SectionsExclude ==
    ASSUME Nesting, irqpc \in {"handler", "context", "load", "store", "write", "restore", "registered"}
                    \/ (irqpc = "mask" /\ request.registers), Requested
    PROVE  dispatch = "off" /\ contexts # <<>> /\ ~PIE
<1>1. Depth > 0 /\ Depth \in Nat
    BY DEF Depth, Requested
<1>2. contexts # <<>>
    BY <1>1, LenType DEF Nesting
<1> QED
    BY <1>2 DEF Nesting

LEMMA MaskingHolds ==
    ASSUME Requested, Nesting, Masking, InterruptNext
    PROVE  Masking'
<1> USE DEF At, irqTables, irqThread, irqDispatch
<1> USE DEF Masking, Changed
<1>1. CASE Restarts
    BY <1>1 DEF Restarts, AfterReset
<1>2. CASE IrqInit
    BY <1>2 DEF IrqInit
<1>3. CASE EntersSection
    BY <1>3 DEF EntersSection, DisableAll
<1>4. CASE LeavesSection
    BY <1>4 DEF LeavesSection, EnableAll
<1>5. CASE CallsRegister
    BY <1>5 DEF CallsRegister
<1>6. CASE RegisterDisables
    BY <1>6 DEF RegisterDisables, DisableAll
<1>7. CASE StoresHandler
    BY <1>7 DEF StoresHandler
<1>8. CASE StoresContext
    BY <1>8 DEF StoresContext
<1>9. CASE CallsMask
    BY <1>9 DEF CallsMask
<1>10. CASE MaskDisables
    BY <1>10 DEF MaskDisables, DisableAll
<1>11. CASE MaskLoads
    BY <1>11 DEF MaskLoads
<1>12. CASE MaskStores
    <2>1. request.irq \in Irq /\ request.op \in {"enable", "disable"}
        BY <1>12 DEF MaskStores, Requested, MaskSteps
    <2> QED
        BY <1>12, <2>1 DEF MaskStores
<1>13. CASE MaskWrites
    BY <1>13 DEF MaskWrites
<1>14. CASE MaskRestores
    BY <1>14 DEF MaskRestores, EnableAll, Finished
<1>15. CASE RegisterRestores
    BY <1>15 DEF RegisterRestores, EnableAll, Finished
<1>16. CASE DeviceAsks
    BY <1>16 DEF DeviceAsks
<1>17. CASE TakesInterrupt
    BY <1>17 DEF TakesInterrupt
<1>18. CASE TestsPending
    BY <1>18 DEF TestsPending
<1>19. CASE ReadsPending
    BY <1>19 DEF ReadsPending
<1>20. CASE CallsHandler
    <2>1. irqpc \notin {"store", "write", "reset"}
        BY <1>20, SectionsExclude DEF CallsHandler, Nesting
    <2> QED
        BY <1>20, <2>1 DEF CallsHandler, HandlerMasks
<1> QED
    BY <1>1, <1>2, <1>3, <1>4, <1>5, <1>6, <1>7, <1>8, <1>9, <1>10, <1>11, <1>12, <1>13, <1>14,
       <1>15, <1>16, <1>17, <1>18, <1>19, <1>20 DEF InterruptNext

-----------------------------------------------------------------------------
(* The table. *)

LEMMA InitTables == InterruptInit => Tables
BY DEF InterruptInit, Tables, NoEntry, TableEntry, MaskSteps

LEMMA TablesHold ==
    ASSUME Requested, Nesting, Masking, Tables, InterruptNext
    PROVE  Tables'
<1> USE DEF At, irqTables, irqThread, irqDispatch
<1> USE DEF Tables, TableEntry, NoEntry, MaskSteps
<1>1. CASE Restarts
    BY <1>1 DEF Restarts, AfterReset
<1>2. CASE IrqInit
    BY <1>2 DEF IrqInit
<1>3. CASE EntersSection
    BY <1>3 DEF EntersSection, DisableAll
<1>4. CASE LeavesSection
    BY <1>4 DEF LeavesSection, EnableAll
<1>5. CASE CallsRegister
    BY <1>5 DEF CallsRegister
<1>6. CASE RegisterDisables
    BY <1>6 DEF RegisterDisables, DisableAll
<1>7. CASE StoresHandler
    <2>1. /\ request.irq \in Irq /\ request.driver \in Driver \cup {NoDriver}
          /\ request.op = "enable" <=> request.driver # NoDriver
          /\ request.registers /\ request.op \in {"enable", "disable"}
        BY <1>7 DEF StoresHandler, Requested, Request
    <2>2. irqpc = "handler" /\ irqpc' = "context" /\ UNCHANGED <<request, IENABLE>>
        BY <1>7 DEF StoresHandler
    <2>3. alt_irq' = [alt_irq EXCEPT ![request.irq].handler = request.driver]
        BY <1>7 DEF StoresHandler
    <2>4. /\ alt_irq' \in [Irq -> TableEntry]
          /\ \A i \in Irq : i # request.irq => alt_irq'[i] = alt_irq[i]
          /\ alt_irq'[request.irq].handler = request.driver
          /\ alt_irq'[request.irq].context = alt_irq[request.irq].context
        BY <2>1, <2>3
    <2>5. IENABLE \subseteq Irq
        BY DEF Masking
    <2> QED
        BY <2>1, <2>2, <2>4, <2>5
<1>8. CASE StoresContext
    <2>1. /\ request.irq \in Irq /\ request.driver \in Driver \cup {NoDriver}
          /\ request.op = "enable" <=> request.driver # NoDriver
          /\ request.registers /\ request.op \in {"enable", "disable"}
        BY <1>8 DEF StoresContext, Requested, Request
    <2>2. irqpc = "context" /\ irqpc' = "mask" /\ UNCHANGED <<request, IENABLE>>
        BY <1>8 DEF StoresContext
    <2>3. alt_irq' = [alt_irq EXCEPT ![request.irq].context = request.driver]
        BY <1>8 DEF StoresContext
    <2>4. /\ alt_irq' \in [Irq -> TableEntry]
          /\ \A i \in Irq : i # request.irq => alt_irq'[i] = alt_irq[i]
          /\ alt_irq'[request.irq].context = request.driver
          /\ alt_irq'[request.irq].handler = alt_irq[request.irq].handler
        BY <2>1, <2>3
    <2>5. IENABLE \subseteq Irq
        BY DEF Masking
    <2> QED
        BY <2>1, <2>2, <2>4, <2>5
<1>9. CASE CallsMask
    BY <1>9 DEF CallsMask
<1>10. CASE MaskDisables
    BY <1>10 DEF MaskDisables, DisableAll
<1>11. CASE MaskLoads
    BY <1>11 DEF MaskLoads
<1>12. CASE MaskStores
    BY <1>12 DEF MaskStores
<1>13. CASE MaskWrites
    <2>1. request.irq \in Irq /\ request.op \in {"enable", "disable"}
        BY <1>13 DEF MaskWrites, Requested
    <2>2. IENABLE' = Changed(IENABLE, request.op, request.irq) /\ IENABLE \subseteq Irq
        BY <1>13 DEF MaskWrites, Masking
    <2> QED
        BY <1>13, <2>1, <2>2 DEF MaskWrites, Changed
<1>14. CASE MaskRestores
    BY <1>14 DEF MaskRestores, EnableAll, Finished
<1>15. CASE RegisterRestores
    BY <1>15 DEF RegisterRestores, EnableAll, Finished
<1>16. CASE DeviceAsks
    BY <1>16 DEF DeviceAsks
<1>17. CASE TakesInterrupt
    BY <1>17 DEF TakesInterrupt
<1>18. CASE TestsPending
    BY <1>18 DEF TestsPending
<1>19. CASE ReadsPending
    BY <1>19 DEF ReadsPending
<1>20. CASE CallsHandler
    <2>1. irqpc \notin {"store", "write", "reset", "context"} /\ UNCHANGED <<irqpc, request, alt_irq>>
        BY <1>20, SectionsExclude DEF CallsHandler, HandlerMasks, Nesting
    <2> QED
        BY <1>20, <2>1 DEF CallsHandler, HandlerMasks, Changed, Masking
<1> QED
    BY <1>1, <1>2, <1>3, <1>4, <1>5, <1>6, <1>7, <1>8, <1>9, <1>10, <1>11, <1>12, <1>13, <1>14,
       <1>15, <1>16, <1>17, <1>18, <1>19, <1>20 DEF InterruptNext

-----------------------------------------------------------------------------
(* The dispatcher. *)

LEMMA InitServing == InterruptInit => Serving
BY DEF InterruptInit, Serving

\* While the dispatcher runs the thread does not change what is enabled.
LEMMA ServingHolds ==
    ASSUME Nesting, Serving, InterruptNext
    PROVE  Serving'
<1> USE DEF At, irqTables, irqThread, irqDispatch
<1> USE DEF Serving, ipending
<1>1. CASE Restarts
    BY <1>1 DEF Restarts, AfterReset
<1>2. CASE IrqInit
    BY <1>2 DEF IrqInit
<1>3. CASE EntersSection
    BY <1>3 DEF EntersSection, DisableAll
<1>4. CASE LeavesSection
    BY <1>4 DEF LeavesSection, EnableAll
<1>5. CASE CallsRegister
    BY <1>5 DEF CallsRegister
<1>6. CASE RegisterDisables
    BY <1>6 DEF RegisterDisables, DisableAll
<1>7. CASE StoresHandler
    BY <1>7 DEF StoresHandler
<1>8. CASE StoresContext
    BY <1>8 DEF StoresContext
<1>9. CASE CallsMask
    BY <1>9 DEF CallsMask
<1>10. CASE MaskDisables
    BY <1>10 DEF MaskDisables, DisableAll
<1>11. CASE MaskLoads
    BY <1>11 DEF MaskLoads
<1>12. CASE MaskStores
    BY <1>12 DEF MaskStores
<1>13. CASE MaskWrites
    BY <1>13 DEF MaskWrites
<1>14. CASE MaskRestores
    BY <1>14 DEF MaskRestores, EnableAll, Finished
<1>15. CASE RegisterRestores
    BY <1>15 DEF RegisterRestores, EnableAll, Finished
<1>16. CASE DeviceAsks
    BY <1>16 DEF DeviceAsks
<1>17. CASE TakesInterrupt
    BY <1>17 DEF TakesInterrupt
<1>18. CASE TestsPending
    BY <1>18 DEF TestsPending
<1>19. CASE ReadsPending
    BY <1>19 DEF ReadsPending
<1>20. CASE CallsHandler
    BY <1>20 DEF CallsHandler, HandlerMasks
<1> QED
    BY <1>1, <1>2, <1>3, <1>4, <1>5, <1>6, <1>7, <1>8, <1>9, <1>10, <1>11, <1>12, <1>13, <1>14,
       <1>15, <1>16, <1>17, <1>18, <1>19, <1>20 DEF InterruptNext


-----------------------------------------------------------------------------
(* The theorems. *)

LEMMA InitInv == InterruptInit => InterruptInv
BY InitRequested, InitNesting, InitMasking, InitTables, InitServing DEF InterruptInv

LEMMA StutterInv == InterruptInv /\ UNCHANGED irqVars => InterruptInv'
BY DEF InterruptInv, Requested, Nesting, Depth, Stacked, Masking, Tables, Serving, ipending,
       irqVars, irqTables, irqThread, irqDispatch

LEMMA StepInv == InterruptInv /\ [InterruptNext]_irqVars => InterruptInv'
BY RequestedHolds, NestingHolds, MaskingHolds, TablesHold, ServingHolds, StutterInv DEF InterruptInv

\* The parts together hold in every reachable state, a reset included.
THEOREM InterruptsKeepInv == InterruptSpec => []InterruptInv
BY InitInv, StepInv, PTL DEF InterruptSpec

\* Whatever is registered, enabled and disabled, by the thread in nested
\* sections and by handlers in between, the register, its copy and what was
\* asked for agree, and interrupts are on outside of sections.
THEOREM EnablesTheorem == InterruptSpec => []EnablesAreKept
<1>1. InterruptInv => EnablesAreKept
    BY DEF InterruptInv, Nesting, Masking, EnablesAreKept
<1> QED
    BY <1>1, InterruptsKeepInv, PTL

\* Among the pending interrupts there is a first one.
LEMMA FirstIsOne ==
    ASSUME NEW set, set \subseteq Irq, set # {}
    PROVE  First(set) \in set
<1>1. set \in SUBSET Nat
    BY InterruptsAssumption
<1> DEFINE less == OpToRel(<, Nat)
<1>2. \A i, j \in Nat : i < j => <<i, j>> \in less
    BY DEF OpToRel
<1>3. IsWellFoundedOn(less, Nat)
    BY NatLessThanWellFounded
<1> HIDE DEF less
<1>4. \E i \in set : \A j \in set : <<j, i>> \notin less
    BY <1>1, <1>3, WFMin, Zenon
<1>5. \E i \in set : \A j \in set : i <= j
    <2>1. PICK i \in set : \A j \in set : <<j, i>> \notin less
        BY <1>4
    <2>2. ASSUME NEW j \in set PROVE i <= j
        <3>1. i \in Nat /\ j \in Nat
            BY <1>1
        <3>2. ~(j < i)
            BY <1>2, <2>1, <3>1
        <3> QED
            BY <3>1, <3>2
    <2> QED
        BY <2>2
<1> QED
    BY <1>5 DEF First

\* The dispatcher never calls an empty or half-written entry, and never runs
\* without a pending interrupt to serve.
THEOREM HandlersTheorem == InterruptSpec => []HandlersAreCalledWhole
<1>1. ASSUME InterruptInv PROVE HandlersAreCalledWhole
    <2>1. CASE dispatch = "call"
        <3>1. irqpc \notin {"reset", "context", "load", "store", "write"} /\ ~(irqpc = "mask" /\ request.registers)
            BY <1>1, <2>1, SectionsExclude DEF InterruptInv, Nesting
        <3>2. active # {} /\ active \subseteq IENABLE /\ IENABLE \subseteq Irq
            BY <1>1, <2>1 DEF InterruptInv, Serving, Masking
        <3>3. First(active) \in IENABLE /\ First(active) \in Irq
            BY <3>2, FirstIsOne
        <3>4. /\ alt_irq[First(active)].handler # NoDriver
              /\ alt_irq[First(active)].context = alt_irq[First(active)].handler
            BY <1>1, <3>1, <3>3 DEF InterruptInv, Tables, MaskSteps
        <3> QED
            BY <1>1, <3>2, <3>4 DEF InterruptInv, Serving, HandlersAreCalledWhole
    <2>2. CASE dispatch # "call"
        BY <1>1, <2>2 DEF InterruptInv, Serving, HandlersAreCalledWhole
    <2> QED
        BY <2>1, <2>2
<1> QED
    BY <1>1, InterruptsKeepInv, PTL

=============================================================================

--------------------------- MODULE WeekOneProofs ---------------------------
(***************************************************************************)
(* Theorems of the week 1 program, for every size of a word and of an      *)
(* unsigned long that is a word, as on the board, or twice as long or      *)
(* longer, as on a 64-bit host.                                            *)
(***************************************************************************)
EXTENDS WeekOne, NaturalsInduction, WellFoundedInduction, TLAPS

-----------------------------------------------------------------------------
(* Numbers. *)

LEMMA LeastExists ==
    ASSUME NEW set \in SUBSET Nat, set # {}
    PROVE  \E i \in set : \A j \in set : i <= j
<1> DEFINE less == OpToRel(<, Nat)
<1>1. \A i, j \in Nat : i < j => <<i, j>> \in less
    BY DEF OpToRel
<1>2. IsWellFoundedOn(less, Nat)
    BY NatLessThanWellFounded
<1> HIDE DEF less
<1>3. PICK i \in set : \A j \in set : <<j, i>> \notin less
    BY <1>2, WFMin, Zenon
<1>4. ASSUME NEW j \in set PROVE i <= j
    <2>1. i \in Nat /\ j \in Nat
        OBVIOUS
    <2>2. ~(j < i)
        BY <1>1, <1>3, <2>1
    <2> QED
        BY <2>1, <2>2
<1> QED
    BY <1>4

\* What holds at the first place, and at each place after one where it
\* holds, holds at all.
LEMMA ChainInduction ==
    ASSUME NEW last \in Nat, NEW good \in SUBSET Nat, 0 \in good,
           \A r \in 1 .. last : r - 1 \in good => r \in good
    PROVE  0 .. last \subseteq good
<1> DEFINE bad == {r \in 0 .. last : r \notin good}
<1>1. bad = {}
    <2> SUFFICES ASSUME bad # {} PROVE FALSE
        OBVIOUS
    <2>1. bad \in SUBSET Nat
        OBVIOUS
    <2>2. PICK r \in bad : \A i \in bad : r <= i
        BY <2>1, LeastExists
    <2>3. r \in 1 .. last /\ r \notin good
        BY <2>2
    <2>4. r - 1 \in 0 .. last /\ r - 1 \notin bad
        BY <2>2, <2>3
    <2> QED
        BY <2>3, <2>4
<1> QED
    BY <1>1

LEMMA Sizes ==
    /\ W \in Nat /\ W > 0 /\ Rounds \in Nat /\ Rounds > 0 /\ Long \in Nat /\ Long >= W
    /\ Base \in Nat /\ Base > 1
    /\ Byte = 0 .. Base - 1 /\ 0 \in Byte /\ Base - 1 \in Byte /\ Zero = 0
    /\ \A a, b \in Byte : ByteXor(a, b) \in Byte
<1>1. Base \in Nat /\ Byte = 0 .. Base - 1 /\ Base % 2 = 0 /\ Zero = 0 /\ Zero \in Byte
    BY WeekOneAssumption, BlockAssumption
<1>2. Base # 0 /\ Base # 1
    BY <1>1
<1> QED
    BY <1>1, <1>2, WordAssumption, WeekOneAssumption

LEMMA Quotient ==
    ASSUME NEW s \in 0 .. 2 * Base - 1
    PROVE  /\ s < Base => s \div Base = 0 /\ s % Base = s
           /\ s >= Base => s \div Base = 1 /\ s % Base = s - Base
<1>1. Base \in Nat /\ Base > 1
    BY Sizes
<1>2. s < Base => s \div Base = 0 /\ s % Base = s
    BY <1>1
<1>3. ASSUME s >= Base PROVE s \div Base = 1 /\ s % Base = s - Base
    <2>1. PICK r \in 0 .. Base - 1 : s = Base + r
        BY <1>1, <1>3
    <2>2. (Base + r) \div Base = 1 /\ (Base + r) % Base = r
        BY <1>1
    <2> QED
        BY <1>1, <2>1, <2>2
<1> QED
    BY <1>2, <1>3

-----------------------------------------------------------------------------
(* The sum of two long words. *)

LongWord == [LongIndex -> Byte]

\* c are the carries of the sum, of its first m places.
CarryOf(c, a, b, m) ==
    /\ c[0] = 0
    /\ \A k \in 1 .. m : c[k] = ((a[k-1] + b[k-1]) + c[k-1]) \div Base

LEMMA CarryBit ==
    ASSUME NEW x \in Byte, NEW y \in Byte, NEW c \in {0, 1}
    PROVE  ((x + y) + c) \div Base \in {0, 1} /\ ((x + y) + c) % Base \in Byte
<1> DEFINE s == (x + y) + c
<1>1. s \in 0 .. 2 * Base - 1
    BY Sizes
<1> HIDE DEF s
<1>2. s \div Base \in {0, 1} /\ s % Base \in 0 .. Base - 1
    <2>1. Base \in Nat /\ Base > 1 /\ s \in Nat
        BY <1>1, Sizes
    <2>2. (s < Base => s \div Base = 0 /\ s % Base = s) /\ (s >= Base => s \div Base = 1 /\ s % Base = s - Base)
        BY <1>1, Quotient
    <2>3. CASE s < Base
        BY <2>1, <2>2, <2>3
    <2>4. CASE s >= Base
        <3>1. s - Base \in 0 .. Base - 1
            BY <1>1, <2>1, <2>4
        <3> QED
            BY <2>2, <2>4, <3>1
    <2> QED
        BY <2>1, <2>3, <2>4
<1> QED
    BY <1>2, Sizes DEF s

LEMMA CarriesExist ==
    ASSUME NEW a \in LongWord, NEW b \in LongWord
    PROVE  \E c \in [0 .. Long -> {0, 1}] : CarryOf(c, a, b, Long)
<1> DEFINE good == {m \in Nat : m <= Long => \E c \in [0 .. m -> {0, 1}] : CarryOf(c, a, b, m)}
<1>1. 0 \in good
    <2> DEFINE c == [k \in 0 .. 0 |-> 0]
    <2>1. c \in [0 .. 0 -> {0, 1}] /\ CarryOf(c, a, b, 0)
        BY DEF CarryOf
    <2> QED
        BY <2>1
<1>2. ASSUME NEW m \in 1 .. Long, m - 1 \in good PROVE m \in good
    <2>1. m \in Nat /\ m - 1 \in 0 .. Long - 1
        BY Sizes
    <2>a. m - 1 <= Long
        BY <2>1, Sizes
    <2>2. PICK c \in [0 .. m-1 -> {0, 1}] : CarryOf(c, a, b, m - 1)
        BY <1>2, <2>a
    <2> DEFINE last == ((a[m-1] + b[m-1]) + c[m-1]) \div Base
               d == [k \in 0 .. m |-> IF k = m THEN last ELSE c[k]]
    <2>3. last \in {0, 1}
        <3>1. a[m-1] \in Byte /\ b[m-1] \in Byte /\ c[m-1] \in {0, 1}
            BY <2>1, <2>2 DEF LongWord, LongIndex
        <3> QED
            BY <3>1, CarryBit
    <2>4. \A k \in 0 .. m : k # m => k \in 0 .. m-1
        BY <2>1
    <2>5. d \in [0 .. m -> {0, 1}]
        <3> HIDE DEF last
        <3> QED
            BY <2>3, <2>4
    <2>6. CarryOf(d, a, b, m)
        <3>1. d[0] = 0
            BY <2>1, <2>2 DEF CarryOf
        <3>2. ASSUME NEW k \in 1 .. m PROVE d[k] = ((a[k-1] + b[k-1]) + d[k-1]) \div Base
            <4>1. k \in 0 .. m /\ k - 1 \in 0 .. m /\ k - 1 # m
                BY <2>1
            <4>2. d[k-1] = c[k-1]
                BY <4>1
            <4>3. CASE k = m
                BY <4>1, <4>2, <4>3
            <4>4. CASE k # m
                <5>1. k \in 1 .. m-1
                    BY <2>1, <4>4
                <5>2. d[k] = c[k]
                    BY <4>1, <4>4
                <5> QED
                    BY <2>2, <4>2, <5>1, <5>2 DEF CarryOf
            <4> QED
                BY <4>3, <4>4
        <3> QED
            BY <3>1, <3>2 DEF CarryOf
    <2> QED
        BY <2>1, <2>5, <2>6
<1>3. good \in SUBSET Nat
    OBVIOUS
<1>4. Long \in Nat
    BY Sizes
<1> HIDE DEF good
<1>5. 0 .. Long \subseteq good
    BY <1>1, <1>2, <1>3, <1>4, ChainInduction
<1>6. Long \in good
    BY <1>4, <1>5
<1> QED
    BY <1>4, <1>6 DEF good

\* The places of a sum, with the carry into each.
LEMMA Carries ==
    ASSUME NEW a \in LongWord, NEW b \in LongWord
    PROVE  \E c \in [0 .. Long -> {0, 1}] :
              /\ CarryOf(c, a, b, Long)
              /\ \A k \in LongIndex : LongSum(a, b)[k] = ((a[k] + b[k]) + c[k]) % Base
<1> DEFINE Unfolds(c) ==
               c = [k \in 0 .. Long |-> IF k = 0 THEN 0 ELSE ((a[k-1] + b[k-1]) + c[k-1]) \div Base]
           chosen == CHOOSE c : Unfolds(c)
<1>1. LongSum(a, b) = [k \in LongIndex |-> ((a[k] + b[k]) + chosen[k]) % Base]
    BY DEF LongSum
<1>2. Unfolds(chosen)
    <2>1. PICK c \in [0 .. Long -> {0, 1}] : CarryOf(c, a, b, Long)
        BY CarriesExist
    <2>2. \A k \in 0 .. Long : k # 0 => k \in 1 .. Long
        BY Sizes
    <2>3. Unfolds(c)
        BY <2>1, <2>2 DEF CarryOf
    <2> HIDE DEF Unfolds
    <2> QED
        BY <2>3
<1>3. chosen = [k \in 0 .. Long |-> chosen[k]] /\ CarryOf(chosen, a, b, Long)
    <2>1. 0 \in 0 .. Long /\ \A k \in 1 .. Long : k \in 0 .. Long /\ k # 0
        BY Sizes
    <2>2. chosen = [k \in 0 .. Long |->
                       IF k = 0 THEN 0 ELSE ((a[k-1] + b[k-1]) + chosen[k-1]) \div Base]
        BY <1>2
    <2> HIDE DEF chosen
    <2> QED
        BY <2>1, <2>2 DEF CarryOf
<1> HIDE DEF chosen
<1>4. \A k \in 0 .. Long : chosen[k] \in {0, 1}
    <2> DEFINE good == {k \in Nat : chosen[k] \in {0, 1}}
    <2>1. 0 \in good
        BY <1>3 DEF CarryOf
    <2>2. ASSUME NEW k \in 1 .. Long, k - 1 \in good PROVE k \in good
        <3>1. k - 1 \in LongIndex /\ k \in Nat
            BY Sizes DEF LongIndex
        <3>2. a[k-1] \in Byte /\ b[k-1] \in Byte /\ chosen[k-1] \in {0, 1}
            BY <2>2, <3>1 DEF LongWord
        <3>3. chosen[k] = ((a[k-1] + b[k-1]) + chosen[k-1]) \div Base
            BY <1>3 DEF CarryOf
        <3> QED
            BY <3>1, <3>2, <3>3, CarryBit
    <2>3. good \in SUBSET Nat
        OBVIOUS
    <2> HIDE DEF good
    <2>4. 0 .. Long \subseteq good
        BY <2>1, <2>2, <2>3, Sizes, ChainInduction
    <2> QED
        BY <2>4 DEF good
<1>5. chosen \in [0 .. Long -> {0, 1}]
    BY <1>3, <1>4
<1> QED
    BY <1>1, <1>3, <1>5

-----------------------------------------------------------------------------
(* A word rotated. *)

\* What the theorems ask of the target: an unsigned long is a word, or has
\* room for another above it.
LongFits == Long = W \/ Long >= 2 * W

\* The bytes above a word's own are those of a sign.
Extended(word) == \E e \in {0, Base - 1} : \A k \in W .. Long - 1 : word[k] = e

\* word << 8, cut to four bytes.
Shifted(word) == [k \in LongIndex |-> IF k \in 1 .. W - 1 THEN word[k-1] ELSE 0]

LEMMA RotatedSum ==
    ASSUME NEW word \in LongWord
    PROVE  /\ Shifted(word) \in LongWord /\ TopByte(word) \in LongWord
           /\ RotWord(word) = LongSum(Shifted(word), TopByte(word))
<1>1. ASSUME NEW k \in LongIndex
      PROVE  Shifted(word)[k] \in Byte /\ TopByte(word)[k] \in Byte
    <2>1. k \in 1 .. W - 1 => k - 1 \in LongIndex
        BY Sizes DEF LongIndex
    <2>2. k + (W - 1) < Long => k + (W - 1) \in LongIndex
        BY Sizes DEF LongIndex
    <2> QED
        BY <2>1, <2>2, Sizes DEF LongWord, Shifted, TopByte
<1>2. Shifted(word) \in LongWord
    BY <1>1 DEF LongWord, Shifted
<1>3. TopByte(word) \in LongWord
    BY <1>1 DEF LongWord, TopByte
<1> QED
    BY <1>2, <1>3 DEF RotWord, Shifted

\* What the places of the two terms are.
LEMMA RotatedTerms ==
    ASSUME NEW word \in LongWord
    PROVE  /\ \A k \in LongIndex : k \in 1 .. W - 1 => Shifted(word)[k] = word[k-1]
           /\ \A k \in LongIndex : k \notin 1 .. W - 1 => Shifted(word)[k] = 0
           /\ \A k \in LongIndex : k + (W - 1) < Long => TopByte(word)[k] = word[k + (W - 1)]
           /\ \A k \in LongIndex : ~(k + (W - 1) < Long) => TopByte(word)[k] = 0
BY DEF Shifted, TopByte

\* SubWord looks up a byte only if nothing stands above the word: what a sign
\* leaves there shows in the index.
LEMMA NothingAbove ==
    ASSUME LongFits, NEW word \in LongWord, Extended(word), InTable(RotWord(word))
    PROVE  \A k \in W .. Long - 1 : word[k] = 0
<1> SUFFICES ASSUME NEW bad \in W .. Long - 1, word[bad] # 0 PROVE FALSE
    OBVIOUS
<1> DEFINE low == Shifted(word)  top == TopByte(word)  rot == RotWord(word)
<1>1. /\ W \in Nat /\ W > 0 /\ Long \in Nat /\ Base \in Nat /\ Base > 1 /\ Byte = 0 .. Base - 1
      /\ Long >= 2 * W
    BY Sizes DEF LongFits
<1>2. \A k \in W .. Long - 1 : word[k] = Base - 1
    BY DEF Extended
<1>3. \A k \in W .. Long - 1 : rot[k] = 0
    <2> SUFFICES ASSUME NEW k \in W .. Long - 1 PROVE rot[k] = 0
        OBVIOUS
    <2>1. k - (W - 1) \in 1 .. Long - 1 /\ k - (W - 1) \in LongIndex /\ (k - (W - 1)) + (W - 1) = k /\ k < Long
        BY <1>1 DEF LongIndex
    <2>2. TopByte(rot)[k - (W - 1)] = 0
        BY <2>1 DEF InTable
    <2>3. TopByte(rot)[k - (W - 1)] = rot[k]
        BY <2>1 DEF TopByte
    <2> QED
        BY <2>2, <2>3
<1>4. low \in LongWord /\ top \in LongWord /\ rot = LongSum(low, top)
    BY RotatedSum
<1>5. /\ low[0] = 0 /\ \A k \in W .. Long - 1 : low[k] = 0
      /\ \A k \in 1 .. Long - W : top[k] = Base - 1
      /\ \A k \in (Long - W) + 1 .. Long - 1 : top[k] = 0
    <2>1. low[0] = 0 /\ \A k \in W .. Long - 1 : low[k] = 0
        BY <1>1, RotatedTerms DEF LongIndex
    <2>2. ASSUME NEW k \in 1 .. Long - W PROVE top[k] = Base - 1
        <3>1. k \in LongIndex /\ k + (W - 1) < Long /\ k + (W - 1) \in W .. Long - 1
            BY <1>1 DEF LongIndex
        <3> QED
            BY <1>2, <3>1, RotatedTerms
    <2>3. ASSUME NEW k \in (Long - W) + 1 .. Long - 1 PROVE top[k] = 0
        <3>1. k \in LongIndex /\ ~(k + (W - 1) < Long)
            BY <1>1 DEF LongIndex
        <3> QED
            BY <3>1, RotatedTerms
    <2> QED
        BY <2>1, <2>2, <2>3
<1>6. top[0] \in Byte
    BY <1>1, <1>4 DEF LongWord, LongIndex
<1> HIDE DEF low, top, rot
<1>7. PICK c \in [0 .. Long -> {0, 1}] :
          /\ CarryOf(c, low, top, Long)
          /\ \A k \in LongIndex : rot[k] = ((low[k] + top[k]) + c[k]) % Base
    BY <1>4, Carries
<1>8. \A k \in LongIndex : c[k+1] = ((low[k] + top[k]) + c[k]) \div Base
    <2> SUFFICES ASSUME NEW k \in LongIndex PROVE c[k+1] = ((low[k] + top[k]) + c[k]) \div Base
        OBVIOUS
    <2>1. k + 1 \in 1 .. Long /\ (k + 1) - 1 = k
        BY <1>1 DEF LongIndex
    <2> QED
        BY <1>7, <2>1 DEF CarryOf
<1>9. c[W] = 1
    <2>1. W \in LongIndex /\ W \in W .. Long - 1 /\ W \in 1 .. Long - W /\ W \in 0 .. Long
        BY <1>1 DEF LongIndex
    <2>2. c[W] \in {0, 1} /\ ((0 + (Base - 1)) + c[W]) % Base = 0
        BY <1>3, <1>5, <1>7, <2>1
    <2>3. c[W] # 0
        <3> SUFFICES ASSUME c[W] = 0 PROVE FALSE
            OBVIOUS
        <3>1. Base - 1 \in 0 .. 2 * Base - 1 /\ Base - 1 < Base /\ ((0 + (Base - 1)) + 0) = Base - 1
            BY <1>1
        <3>2. (Base - 1) % Base = Base - 1
            BY <3>1, Quotient
        <3> QED
            BY <1>1, <2>2, <3>1, <3>2
    <2> QED
        BY <2>2, <2>3
<1>10. W > 1
    <2> SUFFICES ASSUME W = 1 PROVE FALSE
        BY <1>1
    <2>1. 0 \in LongIndex /\ 0 + 1 = W
        BY <1>1 DEF LongIndex
    <2>2. c[W] = ((0 + top[0]) + 0) \div Base
        BY <1>5, <1>7, <1>8, <2>1 DEF CarryOf
    <2>3. top[0] \in 0 .. 2 * Base - 1 /\ top[0] < Base /\ (0 + top[0]) + 0 = top[0]
        BY <1>1, <1>6
    <2>4. top[0] \div Base = 0
        BY <2>3, Quotient
    <2> QED
        BY <1>9, <2>2, <2>3, <2>4
<1>11. c[(Long - W) + 1] = 1
    <2> DEFINE good == {m \in Nat : c[W + m] = 1}
    <2>1. 0 \in good /\ good \in SUBSET Nat
        BY <1>1, <1>9
    <2>2. ASSUME NEW m \in 1 .. (Long - 2 * W) + 1, m - 1 \in good PROVE m \in good
        <3> DEFINE k == W + (m - 1)
        <3>1. k \in LongIndex /\ k \in W .. Long - 1 /\ k \in 1 .. Long - W /\ k + 1 = W + m /\ m \in Nat
            BY <1>1 DEF LongIndex
        <3>2. c[k] = 1
            BY <2>2
        <3> HIDE DEF k
        <3>3. c[k+1] = ((0 + (Base - 1)) + 1) \div Base
            BY <1>5, <1>8, <3>1, <3>2
        <3>4. (0 + (Base - 1)) + 1 = Base /\ Base \in 0 .. 2 * Base - 1 /\ Base >= Base
            BY <1>1
        <3>5. Base \div Base = 1
            BY <3>4, Quotient
        <3> QED
            BY <3>1, <3>3, <3>4, <3>5
    <2>3. (Long - 2 * W) + 1 \in Nat /\ W + ((Long - 2 * W) + 1) = (Long - W) + 1
        BY <1>1
    <2> HIDE DEF good
    <2>4. 0 .. (Long - 2 * W) + 1 \subseteq good
        BY <2>1, <2>2, <2>3, ChainInduction
    <2>5. (Long - 2 * W) + 1 \in good
        BY <2>3, <2>4
    <2> QED
        BY <2>3, <2>5 DEF good
<1>12. rot[(Long - W) + 1] = 1
    <2>1. (Long - W) + 1 \in LongIndex /\ (Long - W) + 1 \in W .. Long - 1
          /\ (Long - W) + 1 \in (Long - W) + 1 .. Long - 1
        BY <1>1, <1>10 DEF LongIndex
    <2>2. rot[(Long - W) + 1] = ((0 + 0) + 1) % Base
        BY <1>5, <1>7, <1>11, <2>1
    <2>3. (0 + 0) + 1 = 1 /\ 1 \in 0 .. 2 * Base - 1 /\ 1 < Base
        BY <1>1
    <2> QED
        BY <2>2, <2>3, Quotient
<1>13. (Long - W) + 1 \in W .. Long - 1
    BY <1>1, <1>10
<1> QED
    BY <1>3, <1>12, <1>13

\* Then the sum has no carries, and the word is rotated.
LEMMA Rotated ==
    ASSUME NEW word \in LongWord, \A k \in W .. Long - 1 : word[k] = 0
    PROVE  /\ RotWord(word)[0] = word[W-1]
           /\ \A k \in 1 .. W - 1 : RotWord(word)[k] = word[k-1]
<1> DEFINE low == Shifted(word)  top == TopByte(word)  rot == RotWord(word)
<1>1. W \in Nat /\ W > 0 /\ Long \in Nat /\ Long >= W /\ Base \in Nat /\ Base > 1 /\ Byte = 0 .. Base - 1
    BY Sizes
<1>2. low \in LongWord /\ top \in LongWord /\ rot = LongSum(low, top)
    BY RotatedSum
<1>3. /\ low[0] = 0 /\ top[0] = word[W-1]
      /\ \A k \in 1 .. W - 1 : low[k] = word[k-1]
      /\ \A k \in 1 .. Long - 1 : top[k] = 0
    <2>1. 0 \in LongIndex /\ 0 \notin 1 .. W - 1 /\ 0 + (W - 1) < Long /\ 0 + (W - 1) = W - 1
        BY <1>1 DEF LongIndex
    <2>2. low[0] = 0 /\ top[0] = word[W-1]
        BY <2>1, RotatedTerms
    <2>3. ASSUME NEW k \in 1 .. W - 1 PROVE low[k] = word[k-1]
        <3>1. k \in LongIndex
            BY <1>1 DEF LongIndex
        <3> QED
            BY <3>1, RotatedTerms
    <2>4. ASSUME NEW k \in 1 .. Long - 1 PROVE top[k] = 0
        <3>1. k \in LongIndex /\ (k + (W - 1) < Long => k + (W - 1) \in W .. Long - 1)
            BY <1>1 DEF LongIndex
        <3>2. CASE k + (W - 1) < Long
            BY <3>1, <3>2, RotatedTerms
        <3>3. CASE ~(k + (W - 1) < Long)
            BY <3>1, <3>3, RotatedTerms
        <3> QED
            BY <3>2, <3>3
    <2> QED
        BY <2>2, <2>3, <2>4
<1>4. \A k \in LongIndex : low[k] \in Byte /\ top[k] \in Byte /\ (low[k] = 0 \/ top[k] = 0)
    <2> SUFFICES ASSUME NEW k \in LongIndex
                 PROVE  low[k] \in Byte /\ top[k] \in Byte /\ (low[k] = 0 \/ top[k] = 0)
        OBVIOUS
    <2>1. k = 0 \/ k \in 1 .. Long - 1
        BY <1>1 DEF LongIndex
    <2> HIDE DEF low, top
    <2> QED
        BY <1>2, <1>3, <2>1 DEF LongWord
<1> HIDE DEF low, top, rot
<1>5. \A k \in LongIndex : /\ ((low[k] + top[k]) + 0) \div Base = 0
                           /\ ((low[k] + top[k]) + 0) % Base = low[k] + top[k]
    <2> SUFFICES ASSUME NEW k \in LongIndex
                 PROVE  /\ ((low[k] + top[k]) + 0) \div Base = 0
                        /\ ((low[k] + top[k]) + 0) % Base = low[k] + top[k]
        OBVIOUS
    <2>1. PICK s \in 0 .. Base - 1 : s = (low[k] + top[k]) + 0 /\ s = low[k] + top[k]
        BY <1>1, <1>4
    <2>2. s \in 0 .. 2 * Base - 1 /\ s < Base
        BY <1>1
    <2> QED
        BY <2>1, <2>2, Quotient
<1>6. PICK c \in [0 .. Long -> {0, 1}] :
          /\ CarryOf(c, low, top, Long)
          /\ \A k \in LongIndex : rot[k] = ((low[k] + top[k]) + c[k]) % Base
    BY <1>2, Carries
<1>7. \A k \in 0 .. Long : c[k] = 0
    <2> DEFINE good == {k \in Nat : c[k] = 0}
    <2>1. 0 \in good /\ good \in SUBSET Nat
        BY <1>6 DEF CarryOf
    <2>2. ASSUME NEW k \in 1 .. Long, k - 1 \in good PROVE k \in good
        <3>1. k - 1 \in LongIndex /\ k \in Nat
            BY <1>1 DEF LongIndex
        <3>2. c[k] = ((low[k-1] + top[k-1]) + c[k-1]) \div Base /\ c[k-1] = 0
            BY <1>6, <2>2 DEF CarryOf
        <3> QED
            BY <1>5, <3>1, <3>2
    <2> HIDE DEF good
    <2>3. 0 .. Long \subseteq good
        BY <1>1, <2>1, <2>2, ChainInduction
    <2> QED
        BY <2>3 DEF good
<1>8. \A k \in LongIndex : rot[k] = low[k] + top[k]
    <2> SUFFICES ASSUME NEW k \in LongIndex PROVE rot[k] = low[k] + top[k]
        OBVIOUS
    <2>1. c[k] = 0
        BY <1>1, <1>7 DEF LongIndex
    <2> QED
        BY <1>5, <1>6, <2>1
<1>9. rot[0] = word[W-1] /\ \A k \in 1 .. W - 1 : rot[k] = word[k-1]
    <2>1. word[W-1] \in Int /\ \A k \in 1 .. W - 1 : word[k-1] \in Int
        <3>1. W - 1 \in LongIndex /\ \A k \in 1 .. W - 1 : k - 1 \in LongIndex
            BY <1>1 DEF LongIndex
        <3> QED
            BY <1>1, <3>1 DEF LongWord
    <2>2. 0 \in LongIndex /\ \A k \in 1 .. W - 1 : k \in LongIndex /\ k \in 1 .. Long - 1
        BY <1>1 DEF LongIndex
    <2> QED
        BY <1>3, <1>8, <2>1, <2>2
<1> QED
    BY <1>9 DEF rot

-----------------------------------------------------------------------------
(* The words of the key expansion. *)

\* The four low bytes of a word, the most significant first.
Low(word) == [q \in WordIndex |-> word[(W - 1) - q]]

LEMMA LowByte ==
    ASSUME NEW q \in WordIndex
    PROVE  /\ (W - 1) - q \in LongIndex /\ (W - 1) - q \in 0 .. W - 1
           /\ W - 1 - q = (W - 1) - q
BY Sizes DEF WordIndex, LongIndex

LEMMA ByteOfKey ==
    ASSUME NEW i \in 0 .. W - 1, NEW q \in 0 .. W - 1
    PROVE  W * i + q \in Index
<1>1. W \in Nat /\ W > 0 /\ N = W * W
    BY Sizes, WordAssumption
<1>2. W * W = (W * i + W * ((W - 1) - i)) + W
    BY <1>1
<1>3. W * i \in Nat /\ W * ((W - 1) - i) \in Nat
    BY <1>1
<1> QED
    BY <1>1, <1>2, <1>3 DEF Index

\* A word that KeyExpansion takes from the key.
LEMMA KeyWordMade ==
    ASSUME cipher_key \in Block, NEW i \in 0 .. W - 1
    PROVE  /\ KeyWord(i) \in LongWord /\ Extended(KeyWord(i))
           /\ Low(KeyWord(i)) = [q \in WordIndex |-> cipher_key[W * i + q]]
<1>1. W \in Nat /\ W > 0 /\ Long \in Nat /\ Long >= W
    BY Sizes
<1>2. ASSUME NEW k \in LongIndex, k < W
      PROVE  KeyWord(i)[k] = cipher_key[W * i + ((W - 1) - k)] /\ KeyWord(i)[k] \in Byte
    <2>1. KeyWord(i)[k] = cipher_key[W * i + ((W - 1) - k)]
        BY <1>1, <1>2 DEF KeyWord, LongIndex
    <2>2. (W - 1) - k \in 0 .. W - 1
        BY <1>1, <1>2 DEF LongIndex
    <2>3. W * i + ((W - 1) - k) \in Index
        BY <2>2, ByteOfKey
    <2> QED
        BY <2>1, <2>3 DEF Block
<1> DEFINE sign == IF Negative(cipher_key[W * i]) THEN Base - 1 ELSE 0
<1>3. ASSUME NEW k \in LongIndex, k >= W PROVE KeyWord(i)[k] = sign
    <2>1. ~(k < W)
        BY <1>1, <1>3 DEF LongIndex
    <2> QED
        BY <1>3, <2>1 DEF KeyWord
<1>4. sign \in {0, Base - 1} /\ sign \in Byte
    BY Sizes
<1> HIDE DEF sign
<1>5. ASSUME NEW k \in LongIndex PROVE KeyWord(i)[k] \in Byte
    <2>1. k < W \/ k >= W
        BY <1>1 DEF LongIndex
    <2> QED
        BY <1>2, <1>3, <1>4, <2>1
<1>6. KeyWord(i) \in LongWord
    <2>1. KeyWord(i) = [k \in LongIndex |-> KeyWord(i)[k]]
        BY DEF KeyWord
    <2> QED
        BY <1>5, <2>1 DEF LongWord
<1>7. Extended(KeyWord(i))
    <2>1. \A k \in W .. Long - 1 : k \in LongIndex /\ k >= W
        BY <1>1 DEF LongIndex
    <2> QED
        BY <1>3, <1>4, <2>1 DEF Extended
<1>8. ASSUME NEW q \in WordIndex PROVE KeyWord(i)[(W - 1) - q] = cipher_key[W * i + q]
    <2>1. (W - 1) - q \in LongIndex /\ (W - 1) - q < W /\ (W - 1) - ((W - 1) - q) = q
        BY <1>1 DEF WordIndex, LongIndex
    <2> QED
        BY <1>2, <2>1
<1> QED
    BY <1>6, <1>7, <1>8 DEF Low

\* The exclusive or of two words keeps to the bytes and to the signs.
LEMMA LongXorMade ==
    ASSUME NEW a \in LongWord, NEW b \in LongWord, Extended(a), Extended(b)
    PROVE  /\ LongXor(a, b) \in LongWord /\ Extended(LongXor(a, b))
           /\ Low(LongXor(a, b)) = Lab!WordXor(Low(a), Low(b))
<1>1. LongXor(a, b) \in LongWord
    BY Sizes DEF LongXor, LongWord
<1>2. PICK d \in {0, Base - 1} : \A k \in W .. Long - 1 : a[k] = d
    BY DEF Extended
<1>3. PICK e \in {0, Base - 1} : \A k \in W .. Long - 1 : b[k] = e
    BY DEF Extended
<1>4. ByteXor(d, e) \in {0, Base - 1}
    BY <1>2, <1>3, WeekOneAssumption
<1>5. \A k \in W .. Long - 1 : LongXor(a, b)[k] = ByteXor(d, e)
    <2>1. \A k \in W .. Long - 1 : k \in LongIndex
        BY Sizes DEF LongIndex
    <2> QED
        BY <1>2, <1>3, <2>1 DEF LongXor
<1>6. Extended(LongXor(a, b))
    BY <1>4, <1>5 DEF Extended
<1>7. Low(LongXor(a, b)) = Lab!WordXor(Low(a), Low(b))
    BY LowByte DEF Low, LongXor, Lab!WordXor, Lab!WordIndex, WordIndex
<1> QED
    BY <1>1, <1>6, <1>7

\* What SubWord and Rcon make of a word that has been rotated.
LEMMA CoreMade ==
    ASSUME LongFits, NEW word \in LongWord, Extended(word), InTable(RotWord(word)), NEW r \in 0 .. Rounds-1
    PROVE  LET core == LongXor(SubWord(RotWord(word)), RconWord(r))
           IN  /\ core \in LongWord /\ Extended(core)
               /\ Low(core) = Lab!WordXor(Lab!SubWord(Lab!RotWord(Low(word))), Lab!RconWord(r))
<1> DEFINE rot == RotWord(word)
<1>1. /\ W \in Nat /\ W > 0 /\ Long \in Nat /\ Long >= W /\ 0 \in Byte /\ Zero = 0
      /\ sbox \in [Byte -> Byte] /\ RconTop \in [0 .. Rounds-1 -> Byte]
    BY Sizes, WeekOneAssumption
<1>2. rot[0] = word[W-1] /\ \A k \in 1 .. W - 1 : rot[k] = word[k-1]
    BY NothingAbove, Rotated
<1>3. ASSUME NEW k \in 0 .. W - 1 PROVE rot[k] \in Byte
    <2>1. W - 1 \in LongIndex /\ (k # 0 => k \in 1 .. W - 1 /\ k - 1 \in LongIndex)
        BY <1>1 DEF LongIndex
    <2> HIDE DEF rot
    <2> QED
        BY <1>2, <2>1 DEF LongWord
<1> HIDE DEF rot
<1>4. SubWord(rot) \in LongWord /\ Extended(SubWord(rot))
    <2>1. \A k \in LongIndex : k < W => k \in 0 .. W - 1
        BY <1>1 DEF LongIndex
    <2>2. SubWord(rot) \in LongWord
        BY <1>1, <1>3, <2>1 DEF SubWord, LongWord
    <2>3. \A k \in W .. Long - 1 : SubWord(rot)[k] = 0
        BY <1>1 DEF SubWord, LongIndex
    <2> QED
        BY <2>2, <2>3 DEF Extended
<1>5. RconWord(r) \in LongWord /\ Extended(RconWord(r))
    <2>1. RconWord(r) \in LongWord
        BY <1>1 DEF RconWord, LongWord
    <2>2. \A k \in W .. Long - 1 : RconWord(r)[k] = 0
        BY <1>1 DEF RconWord, LongIndex
    <2> QED
        BY <2>1, <2>2 DEF Extended
<1>6. Low(SubWord(rot)) = Lab!SubWord(Lab!RotWord(Low(word)))
    <2>1. ASSUME NEW q \in WordIndex
          PROVE  SubWord(rot)[(W - 1) - q] = sbox[Low(word)[(q + 1) % W]]
        <3>1. SubWord(rot)[(W - 1) - q] = sbox[rot[(W - 1) - q]]
            BY <1>1 DEF SubWord, LongIndex, WordIndex
        <3>2. CASE q = W - 1
            <4>1. (q + 1) % W = 0 /\ 0 \in WordIndex /\ (W - 1) - q = 0 /\ (W - 1) - 0 = W - 1
                BY <1>1, <3>2 DEF WordIndex
            <4> QED
                BY <1>2, <3>1, <4>1 DEF Low
        <3>3. CASE q # W - 1
            <4>1. /\ (q + 1) % W = q + 1 /\ q + 1 \in WordIndex
                  /\ (W - 1) - q \in 1 .. W - 1 /\ (W - 1) - (q + 1) = ((W - 1) - q) - 1
                BY <1>1, <3>3 DEF WordIndex
            <4>2. rot[(W - 1) - q] = word[((W - 1) - q) - 1]
                BY <1>2, <4>1
            <4>3. Low(word)[q + 1] = word[(W - 1) - (q + 1)]
                BY <4>1 DEF Low
            <4> QED
                BY <3>1, <4>1, <4>2, <4>3
        <3> QED
            BY <3>2, <3>3
    <2>2. \A q \in WordIndex : (q + 1) % W \in WordIndex
        BY <1>1 DEF WordIndex
    <2> QED
        BY <2>1, <2>2 DEF Low, Lab!SubWord, Lab!RotWord, Lab!WordIndex, WordIndex
<1>7. Low(RconWord(r)) = Lab!RconWord(r)
    <2>1. \A q \in WordIndex : (W - 1) - q \in LongIndex /\ ((W - 1) - q = W - 1 <=> q = 0)
        BY <1>1 DEF WordIndex, LongIndex
    <2> QED
        BY <1>1, <2>1 DEF Low, RconWord, Lab!RconWord, Lab!WordIndex, WordIndex
<1> QED
    BY <1>4, <1>5, <1>6, <1>7, LongXorMade DEF rot

-----------------------------------------------------------------------------
(* The invariant. *)

AllWords == W * (Rounds + 1)

HostInv ==
    /\ cipher_key \in Block
    /\ sw_pc = "expand" =>
          /\ n \in 0 .. AllWords
          /\ w \in [0 .. n-1 -> LongWord]
          /\ \A i \in 0 .. n-1 : Extended(w[i])

\* A good word appended, here and to the words of the lab's program.
LEMMA Appended ==
    ASSUME HostInv, sw_pc = "expand", n < AllWords, n' = n + 1, UNCHANGED cipher_key,
           NEW word \in LongWord, Extended(word), AppendWord(word)
    PROVE  /\ HostInv'
           /\ KeyBytes' = [k \in 0 .. n |-> IF k = n THEN Low(word) ELSE KeyBytes[k]]
<1>1. /\ n \in 0 .. AllWords /\ w \in [0 .. n-1 -> LongWord] /\ \A i \in 0 .. n-1 : Extended(w[i])
      /\ cipher_key \in Block /\ AllWords \in Nat
    BY Sizes DEF HostInv, AllWords
<1>2. n' \in 0 .. AllWords /\ n' - 1 = n /\ n \in Nat
    BY <1>1
<1>3. w' = [i \in 0 .. n |-> IF i = n THEN word ELSE w[i]]
    BY DEF AppendWord
<1>4. \A i \in 0 .. n : i # n => i \in 0 .. n-1
    BY <1>1
<1>5. w' \in [0 .. n -> LongWord] /\ \A i \in 0 .. n : Extended(w'[i])
    <2>1. \A i \in 0 .. n : w'[i] \in LongWord /\ Extended(w'[i])
        BY <1>1, <1>3, <1>4
    <2> QED
        BY <1>3, <2>1
<1>6. HostInv'
    BY <1>1, <1>2, <1>5 DEF HostInv, AllWords, Block, Index, LongWord, LongIndex, Extended, Base
<1>7. KeyBytes' = [k \in 0 .. n |-> IF k = n THEN Low(word) ELSE KeyBytes[k]]
    <2>1. KeyBytes' = [k \in 0 .. n |-> Low(w'[k])]
        <3>1. DOMAIN w' = 0 .. n
            BY <1>3
        <3>2. \A q \in WordIndex : W - 1 - q = (W - 1) - q
            BY LowByte
        <3> QED
            BY <3>1, <3>2 DEF KeyBytes, Low, WordIndex
    <2>2. KeyBytes = [k \in 0 .. n-1 |-> Low(w[k])]
        <3>1. DOMAIN w = 0 .. n-1
            BY <1>1
        <3>2. \A q \in WordIndex : W - 1 - q = (W - 1) - q
            BY LowByte
        <3> QED
            BY <3>1, <3>2 DEF KeyBytes, Low
    <2>3. ASSUME NEW k \in 0 .. n
          PROVE  Low(w'[k]) = IF k = n THEN Low(word) ELSE KeyBytes[k]
        BY <1>3, <1>4, <2>2
    <2> QED
        BY <2>1, <2>3
<1> QED
    BY <1>6, <1>7

-----------------------------------------------------------------------------
(* Turn by turn what the lab's program does. *)

HostNext ==
    CopyKeyWord \/ ExpandPlainWord \/ ExpandCoreWord \/ ReadsOutside \/ Expanded \/ HostAes

labVars == <<sw_pc, n, pairs_hex, cipher_key, KeyBytes, block>>

LEMMA WordCount == W \in 0 .. AllWords - 1 /\ AllWords \in Nat /\ AllWords = W * Rounds + W
<1>1. W \in Nat /\ W > 0 /\ Rounds \in Nat /\ Rounds > 0
    BY Sizes
<1>2. W * (Rounds + 1) = W * Rounds + W
    BY <1>1
<1>3. W * Rounds = W * (Rounds - 1) + W
    BY <1>1
<1>4. W * (Rounds - 1) \in Nat
    BY <1>1
<1> QED
    BY <1>1, <1>2, <1>3, <1>4 DEF AllWords

LEMMA CoreNumber ==
    ASSUME NEW i \in W .. AllWords - 1, i % W = 0
    PROVE  i \div W - 1 \in 0 .. Rounds - 1
<1>1. W \in Nat /\ W > 0 /\ Rounds \in Nat /\ AllWords = W * (Rounds + 1) /\ AllWords \in Nat
    BY Sizes, WordCount DEF AllWords
<1> DEFINE d == i \div W
<1>2. d \in Int /\ i = W * d /\ i \in Nat
    BY <1>1
<1> HIDE DEF d
<1>3. d > 0
    <2> SUFFICES ASSUME d <= 0 PROVE FALSE
        BY <1>2
    <2>1. W * (0 - d) >= 0 /\ W * d = 0 - W * (0 - d)
        BY <1>1, <1>2
    <2>2. W * d \in Int /\ W * (0 - d) \in Int
        BY <1>1, <1>2
    <2> QED
        BY <1>1, <1>2, <2>1, <2>2
<1>4. d < Rounds + 1
    <2> SUFFICES ASSUME d >= Rounds + 1 PROVE FALSE
        BY <1>1, <1>2
    <2>1. W * (d - (Rounds + 1)) >= 0 /\ W * d = W * (Rounds + 1) + W * (d - (Rounds + 1))
        BY <1>1, <1>2
    <2>2. W * d \in Int /\ W * (Rounds + 1) \in Int /\ W * (d - (Rounds + 1)) \in Int
        BY <1>1, <1>2
    <2> QED
        BY <1>1, <1>2, <2>1, <2>2
<1> QED
    BY <1>1, <1>2, <1>3, <1>4 DEF d

\* The bytes of a word that has been filled.
LEMMA WordOfKey ==
    ASSUME HostInv, sw_pc = "expand", NEW i \in 0 .. n - 1
    PROVE  w[i] \in LongWord /\ Extended(w[i]) /\ KeyBytes[i] = Low(w[i])
<1>1. w \in [0 .. n-1 -> LongWord] /\ \A k \in 0 .. n-1 : Extended(w[k])
    BY DEF HostInv
<1>2. DOMAIN w = 0 .. n-1
    BY <1>1
<1>3. \A q \in WordIndex : W - 1 - q = (W - 1) - q
    BY LowByte
<1>4. KeyBytes[i] = Low(w[i])
    BY <1>2, <1>3 DEF KeyBytes, Low
<1> QED
    BY <1>1, <1>4

LEMMA InitHost == HostInit => HostInv
<1> SUFFICES ASSUME HostInit PROVE HostInv
    OBVIOUS
<1>1. n = 0 /\ cipher_key \in Keys /\ w = <<>> /\ Keys \subseteq Block
    BY WeekOneAssumption DEF HostInit, Lab!EncryptInit
<1>2. AllWords \in Nat
    BY WordCount
<1> QED
    BY <1>1, <1>2 DEF HostInv

LEMMA CopyStep == HostInv /\ CopyKeyWord => HostInv' /\ Lab!CopyKeyWord
<1> SUFFICES ASSUME HostInv, CopyKeyWord PROVE HostInv' /\ Lab!CopyKeyWord
    OBVIOUS
<1>1. /\ sw_pc = "expand" /\ n < W /\ AppendWord(KeyWord(n)) /\ n' = n + 1
      /\ UNCHANGED <<sw_pc, pairs_hex, cipher_key, block>>
    BY DEF CopyKeyWord, Lab!Nk
<1>2. cipher_key \in Block /\ n \in 0 .. AllWords
    BY <1>1 DEF HostInv
<1>3. n \in 0 .. W - 1 /\ n < AllWords
    BY <1>1, <1>2, WordCount, Sizes
<1>4. /\ KeyWord(n) \in LongWord /\ Extended(KeyWord(n))
      /\ Low(KeyWord(n)) = [q \in WordIndex |-> cipher_key[W * n + q]]
    BY <1>2, <1>3, KeyWordMade
<1>5. /\ HostInv'
      /\ KeyBytes' = [k \in 0 .. n |-> IF k = n THEN Low(KeyWord(n)) ELSE KeyBytes[k]]
    BY <1>1, <1>3, <1>4, Appended
<1> QED
    BY <1>1, <1>4, <1>5 DEF Lab!CopyKeyWord, Lab!Append, Lab!Nk, Lab!WordIndex, WordIndex

LEMMA PlainStep == HostInv /\ ExpandPlainWord => HostInv' /\ Lab!ExpandWord
<1> SUFFICES ASSUME HostInv, ExpandPlainWord PROVE HostInv' /\ Lab!ExpandWord
    OBVIOUS
<1>1. /\ sw_pc = "expand" /\ n \in W .. AllWords - 1 /\ n % W # 0 /\ n' = n + 1
      /\ AppendWord(LongXor(w[n - W], w[n-1]))
      /\ UNCHANGED <<sw_pc, pairs_hex, cipher_key, block>>
    BY DEF ExpandPlainWord, Expanding, Lab!Nk, AllWords
<1>2. n - W \in 0 .. n - 1 /\ n - 1 \in 0 .. n - 1 /\ n < AllWords
    BY <1>1, Sizes, WordCount
<1>3. /\ w[n - W] \in LongWord /\ Extended(w[n - W]) /\ KeyBytes[n - W] = Low(w[n - W])
      /\ w[n-1] \in LongWord /\ Extended(w[n-1]) /\ KeyBytes[n-1] = Low(w[n-1])
    BY <1>1, <1>2, WordOfKey
<1> DEFINE word == LongXor(w[n - W], w[n-1])
<1>4. word \in LongWord /\ Extended(word) /\ Low(word) = Lab!WordXor(KeyBytes[n - W], KeyBytes[n-1])
    BY <1>3, LongXorMade
<1> HIDE DEF word
<1>5. HostInv' /\ KeyBytes' = [k \in 0 .. n |-> IF k = n THEN Low(word) ELSE KeyBytes[k]]
    BY <1>1, <1>2, <1>4, Appended DEF word
<1> QED
    BY <1>1, <1>4, <1>5 DEF Lab!ExpandWord, Lab!Append, Lab!Nk, AllWords

LEMMA CoreStep == LongFits /\ HostInv /\ ExpandCoreWord => HostInv' /\ Lab!ExpandWord
<1> SUFFICES ASSUME LongFits, HostInv, ExpandCoreWord PROVE HostInv' /\ Lab!ExpandWord
    OBVIOUS
<1> DEFINE r == n \div W - 1
           core == LongXor(SubWord(RotWord(w[n-1])), RconWord(r))
           word == LongXor(w[n - W], core)
<1>1. /\ sw_pc = "expand" /\ n \in W .. AllWords - 1 /\ n % W = 0 /\ n' = n + 1
      /\ InTable(RotWord(w[n-1])) /\ AppendWord(word)
      /\ UNCHANGED <<sw_pc, pairs_hex, cipher_key, block>>
    BY DEF ExpandCoreWord, Expanding, Lab!Nk, AllWords
<1>2. n - W \in 0 .. n - 1 /\ n - 1 \in 0 .. n - 1 /\ n < AllWords
    BY <1>1, Sizes, WordCount
<1>3. /\ w[n - W] \in LongWord /\ Extended(w[n - W]) /\ KeyBytes[n - W] = Low(w[n - W])
      /\ w[n-1] \in LongWord /\ Extended(w[n-1]) /\ KeyBytes[n-1] = Low(w[n-1])
    BY <1>1, <1>2, WordOfKey
<1>4. r \in 0 .. Rounds - 1
    BY <1>1, CoreNumber
<1> HIDE DEF r
<1>5. /\ core \in LongWord /\ Extended(core)
      /\ Low(core) = Lab!WordXor(Lab!SubWord(Lab!RotWord(KeyBytes[n-1])), Lab!RconWord(r))
    BY <1>1, <1>3, <1>4, CoreMade
<1> HIDE DEF core
<1>6. word \in LongWord /\ Extended(word) /\ Low(word) = Lab!WordXor(KeyBytes[n - W], Low(core))
    BY <1>3, <1>5, LongXorMade
<1> HIDE DEF word
<1>7. HostInv' /\ KeyBytes' = [k \in 0 .. n |-> IF k = n THEN Low(word) ELSE KeyBytes[k]]
    BY <1>1, <1>2, <1>6, Appended
<1> QED
    BY <1>1, <1>5, <1>6, <1>7 DEF Lab!ExpandWord, Lab!Append, Lab!Nk, AllWords, r

LEMMA OtherSteps ==
    ASSUME HostInv, ReadsOutside \/ Expanded \/ HostAes \/ UNCHANGED hostVars
    PROVE  HostInv' /\ [Lab!Encrypting]_labVars
<1>1. CASE ReadsOutside \/ UNCHANGED hostVars
    <2>1. UNCHANGED <<sw_pc, n, pairs_hex, cipher_key, block, w>>
        BY <1>1 DEF ReadsOutside, hostVars
    <2>2. HostInv'
        BY <2>1 DEF HostInv, AllWords, Block, Index, LongWord, LongIndex, Extended, Base
    <2>3. UNCHANGED labVars
        BY <2>1 DEF labVars, KeyBytes, WordIndex
    <2> QED
        BY <2>2, <2>3
<1>2. CASE Expanded \/ HostAes
    <2>1. sw_pc' # "expand" /\ UNCHANGED cipher_key /\ Lab!Encrypting
        BY <1>2 DEF Expanded, HostAes, Lab!Encrypting, Lab!Expanded, Lab!StartAes, Lab!Round, Lab!LastRound
    <2>2. HostInv'
        BY <2>1 DEF HostInv, Block, Index
    <2> QED
        BY <2>1, <2>2
<1> QED
    BY <1>1, <1>2

\* The host's program goes through the lab's turns, or stops where it has read
\* outside of its table.
THEOREM WeekOneInvariance == ASSUME LongFits PROVE HostSpec => []HostInv
<1>1. HostInv /\ [HostNext]_hostVars => HostInv'
    BY CopyStep, PlainStep, CoreStep, OtherSteps DEF HostNext
<1> QED
    BY <1>1, InitHost, PTL DEF HostSpec, HostNext

\* Where the lab's processor has words of four bytes the host has eight, and
\* the sums and shifts of keyexpansion.c leave signs in the upper four: these
\* reach no byte of a round key, whatever the key, but in a program that reads
\* outside of sbox.
THEOREM WeekOneTheorem == ASSUME LongFits PROVE HostSpec => ImplementsSoftwareAes
<1>1. HostInit => Lab!EncryptInit
    BY DEF HostInit
<1>2. HostInv /\ [HostNext]_hostVars => [Lab!Encrypting]_labVars
    BY CopyStep, PlainStep, CoreStep, OtherSteps DEF HostNext, Lab!Encrypting
<1> QED
    BY <1>1, <1>2, WeekOneInvariance, PTL DEF HostSpec, HostNext, ImplementsSoftwareAes, labVars

\* Where an unsigned long is a word, as on the board, what SubWord looks up is
\* always a byte: the fault of the 64-bit program is not the lab's.
THEOREM ShortWordsTheorem == ASSUME Long = W PROVE HostSpec => []LooksUpBytes
<1>1. ASSUME NEW word PROVE InTable(word)
    <2>1. \A k \in 1 .. Long - 1 : k \in LongIndex /\ ~(k + (W - 1) < Long)
        BY Sizes DEF LongIndex
    <2> QED
        BY <2>1 DEF InTable, TopByte
<1>2. HostInit => LooksUpBytes
    BY DEF HostInit, LooksUpBytes
<1>3. LooksUpBytes /\ [HostNext]_hostVars => LooksUpBytes'
    BY <1>1 DEF LooksUpBytes, HostNext, CopyKeyWord, ExpandPlainWord, ExpandCoreWord, ReadsOutside,
                Expanded, HostAes, hostVars
<1> QED
    BY <1>2, <1>3, PTL DEF HostSpec, HostNext

=============================================================================

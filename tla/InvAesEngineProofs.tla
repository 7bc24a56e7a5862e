------------------------- MODULE InvAesEngineProofs -------------------------
(***************************************************************************)
(* Theorems of the engine, for blocks of W words of W bytes, any number of *)
(* rounds, and any ROMs and multiplications.                               *)
(***************************************************************************)
EXTENDS InvAesEngine, NaturalsInduction, WellFoundedInduction, TLAPS

-----------------------------------------------------------------------------
(* Places in a block. *)

LEMMA WordFacts == W \in Nat /\ W > 0 /\ N = W * W /\ Rounds \in Nat /\ Rounds > 0
BY WordAssumption

LEMMA TimesMonotone ==
    ASSUME NEW z \in Nat, NEW x \in Int, NEW y \in Int, x <= y
    PROVE  z * x <= z * y
<1>1. z * y = z * x + z * (y - x)
    OBVIOUS
<1>2. z * (y - x) >= 0
    OBVIOUS
<1>3. z * x \in Int /\ z * y \in Int /\ z * (y - x) \in Int
    OBVIOUS
<1> QED
    BY <1>1, <1>2, <1>3

LEMMA Places ==
    ASSUME NEW i \in WordIndex, NEW q \in WordIndex
    PROVE  W * i + q \in Index
<1>1. i \in Int /\ q \in Int /\ i >= 0 /\ q >= 0 /\ i + 1 <= W /\ q + 1 <= W
    BY WordFacts DEF WordIndex
<1>2. W * i \in Nat /\ W * (i + 1) = W * i + W
    BY <1>1, WordFacts
<1>3. W * (i + 1) <= W * W
    BY <1>1, WordFacts
<1> QED
    BY <1>1, <1>2, <1>3, WordFacts DEF Index

LEMMA PlaceOf ==
    ASSUME NEW j \in Index
    PROVE  j \div W \in WordIndex /\ j % W \in WordIndex /\ j = W * (j \div W) + (j % W)
<1>1. j \in Nat /\ j < W * W
    BY WordFacts DEF Index
<1>2. j \div W \in Int /\ j % W \in 0 .. W-1 /\ j = W * (j \div W) + (j % W)
    BY <1>1, WordFacts
<1>3. j \div W >= 0
    BY <1>1, WordFacts
<1>4. j \div W < W
    <2> SUFFICES ASSUME j \div W >= W PROVE FALSE
        BY <1>2, WordFacts
    <2>a. PICK d \in Int : d = j \div W
        BY <1>2
    <2>b. W <= d
        BY <2>a, WordFacts
    <2>c. W * W <= W * d
        BY <2>b, WordFacts, TimesMonotone
    <2>1. W * (j \div W) >= W * W
        BY <2>a, <2>c
    <2>2. W * (j \div W) \in Int /\ W * W \in Int
        BY <1>2, WordFacts
    <2> QED
        BY <1>1, <1>2, <2>1, <2>2, WordFacts
<1> QED
    BY <1>2, <1>3, <1>4, WordFacts DEF WordIndex

LEMMA AroundTheWord ==
    ASSUME NEW i \in Int
    PROVE  i % W \in WordIndex
BY WordFacts DEF WordIndex

-----------------------------------------------------------------------------
(* Recursive functions. *)

LEMMA LeastExists ==
    ASSUME NEW set \in SUBSET Nat, set # {}
    PROVE  \E i \in set : \A j \in set : i <= j
<1> DEFINE less == OpToRel(<, Nat)
<1>1. \A i, j \in Nat : i < j => <<i, j>> \in less
    BY DEF OpToRel
<1>2. IsWellFoundedOn(less, Nat)
    BY NatLessThanWellFounded
<1> HIDE DEF less
<1>3. PICK i \in set : \A j \in set : <<j, i>> \notin less
    BY <1>2, WFMin, Zenon
<1>4. ASSUME NEW j \in set PROVE i <= j
    <2>1. i \in Nat /\ j \in Nat
        OBVIOUS
    <2>2. ~(j < i)
        BY <1>1, <1>3, <2>1
    <2> QED
        BY <2>1, <2>2
<1> QED
    BY <1>4

\* A function that takes the value at each place from the place before it.
IsChain(f, base, last, step) == f[0] = base /\ \A r \in 1 .. last : f[r] = step[r][f[r-1]]

LEMMA ChainExists ==
    ASSUME NEW S, NEW base \in S, NEW last \in Nat, NEW step \in [1 .. last -> [S -> S]]
    PROVE  \E f \in [0 .. last -> S] : IsChain(f, base, last, step)
<1> DEFINE Chain(f, m) == f[0] = base /\ \A r \in 1 .. m : f[r] = step[r][f[r-1]]
           missing == {m \in 0 .. last : ~\E f \in [0 .. m -> S] : Chain(f, m)}
<1>1. missing = {}
    <2> SUFFICES ASSUME missing # {} PROVE FALSE
        OBVIOUS
    <2>1. missing \in SUBSET Nat
        OBVIOUS
    <2> HIDE DEF missing
    <2>2. PICK m \in missing : \A i \in missing : m <= i
        BY <2>1, LeastExists
    <2>3. m \in 0 .. last /\ ~\E f \in [0 .. m -> S] : Chain(f, m)
        BY <2>2 DEF missing
    <2>4. m # 0
        <3> SUFFICES ASSUME m = 0 PROVE \E f \in [0 .. 0 -> S] : Chain(f, 0)
            BY <2>3
        <3> WITNESS [r \in 0 .. 0 |-> base] \in [0 .. 0 -> S]
        <3> QED
            OBVIOUS
    <2>5. m - 1 \in 0 .. last /\ m - 1 \notin missing
        BY <2>2, <2>3, <2>4
    <2>6. PICK f \in [0 .. m-1 -> S] : Chain(f, m-1)
        BY <2>5 DEF missing
    <2> DEFINE longer == [r \in 0 .. m |-> IF r = m THEN step[m][f[m-1]] ELSE f[r]]
    <2>7. longer \in [0 .. m -> S]
        <3>1. m \in 1 .. last /\ m - 1 \in 0 .. m-1
            BY <2>3, <2>4
        <3>2. step[m][f[m-1]] \in S
            BY <3>1
        <3>3. \A r \in 0 .. m : r # m => r \in 0 .. m-1
            BY <2>3
        <3> QED
            BY <3>2, <3>3
    <2>8. Chain(longer, m)
        <3>1. longer[0] = base
            BY <2>3, <2>4, <2>6
        <3>2. ASSUME NEW r \in 1 .. m PROVE longer[r] = step[r][longer[r-1]]
            <4>1. r - 1 \in 0 .. m /\ r \in 0 .. m /\ r - 1 # m
                BY <2>3
            <4>2. longer[r-1] = f[r-1]
                BY <4>1
            <4>3. CASE r = m
                BY <4>1, <4>2, <4>3
            <4>4. CASE r # m
                <5>1. r \in 1 .. m-1
                    BY <2>3, <4>4
                <5>2. f[r] = step[r][f[r-1]]
                    BY <2>6, <5>1
                <5> QED
                    BY <4>1, <4>2, <4>4, <5>2
            <4> QED
                BY <4>3, <4>4
        <3> QED
            BY <3>1, <3>2
    <2> QED
        BY <2>3, <2>7, <2>8
<1>2. last \notin missing
    BY <1>1
<1> QED
    BY <1>2 DEF IsChain

\* What holds at the first place, and at each place after one where it
\* holds, holds at all.
LEMMA ChainInduction ==
    ASSUME NEW last \in Nat, NEW good \in SUBSET Nat, 0 \in good,
           \A r \in 1 .. last : r - 1 \in good => r \in good
    PROVE  0 .. last \subseteq good
<1> DEFINE bad == {r \in 0 .. last : r \notin good}
<1>1. bad = {}
    <2> SUFFICES ASSUME bad # {} PROVE FALSE
        OBVIOUS
    <2>1. bad \in SUBSET Nat
        OBVIOUS
    <2>2. PICK r \in bad : \A i \in bad : r <= i
        BY <2>1, LeastExists
    <2>3. r \in 1 .. last /\ r \notin good
        BY <2>2
    <2>4. r - 1 \in 0 .. last /\ r - 1 \notin bad
        BY <2>2, <2>3
    <2> QED
        BY <2>3, <2>4
<1> QED
    BY <1>1

-----------------------------------------------------------------------------
(* The key schedule. *)

\* The bytes of a new round key exist: each meets the one W places before it.
LEMMA NewKeyExists ==
    ASSUME NEW old \in Block, NEW first \in Word
    PROVE  \E f \in Block : \A j \in Index : f[j] = ByteXor(old[j], IF j < W THEN first[j] ELSE f[j - W])
<1> DEFINE Grown(f, m) == \A j \in 0 .. m : f[j] = ByteXor(old[j], IF j < W THEN first[j] ELSE f[j - W])
           grown == {m \in 0 .. N-1 : \E f \in [0 .. m -> Byte] : Grown(f, m)}
<1>a. N \in Nat /\ N > 0 /\ Index = 0 .. N-1 /\ \A a, b \in Byte : ByteXor(a, b) \in Byte
    BY BlockAssumption, WordAssumption DEF Index
<1>b. (\A j \in Index : old[j] \in Byte) /\ \A j \in Index : j < W => first[j] \in Byte
    BY <1>a, WordFacts DEF Block, Word, WordIndex
<1>1. 0 \in grown
    <2>1. 0 \in Index /\ 0 < W
        BY <1>a, WordFacts
    <2>2. ByteXor(old[0], first[0]) \in Byte
        BY <1>a, <1>b, <2>1
    <2> DEFINE f == [j \in 0 .. 0 |-> ByteXor(old[0], first[0])]
    <2>3. f \in [0 .. 0 -> Byte] /\ Grown(f, 0)
        BY <2>1, <2>2
    <2> QED
        BY <1>a, <2>3
<1>2. ASSUME NEW m \in 1 .. N-1, m - 1 \in grown PROVE m \in grown
    <2>1. PICK f \in [0 .. m-1 -> Byte] : Grown(f, m-1)
        BY <1>2
    <2> DEFINE value == ByteXor(old[m], IF m < W THEN first[m] ELSE f[m - W])
               longer == [j \in 0 .. m |-> IF j = m THEN value ELSE f[j]]
    <2>2. value \in Byte
        <3>1. m \in Index
            BY <1>a
        <3>2. ~(m < W) => m - W \in 0 .. m-1
            BY WordFacts
        <3>3. (IF m < W THEN first[m] ELSE f[m - W]) \in Byte
            BY <1>b, <3>1, <3>2
        <3> QED
            BY <1>a, <1>b, <3>1, <3>3
    <2> HIDE DEF value
    <2>3. longer \in [0 .. m -> Byte]
        <3>1. \A j \in 0 .. m : j # m => j \in 0 .. m-1
            OBVIOUS
        <3> QED
            BY <2>2, <3>1
    <2>4. ASSUME NEW j \in 0 .. m
          PROVE  longer[j] = ByteXor(old[j], IF j < W THEN first[j] ELSE longer[j - W])
        <3>1. ~(j < W) => j - W \in 0 .. m /\ j - W # m /\ longer[j - W] = f[j - W]
            BY WordFacts
        <3>2. CASE j = m
            BY <3>1, <3>2 DEF value
        <3>3. CASE j # m
            <4>1. j \in 0 .. m-1
                BY <3>3
            <4>2. f[j] = ByteXor(old[j], IF j < W THEN first[j] ELSE f[j - W])
                BY <2>1, <4>1
            <4>3. longer[j] = f[j]
                BY <3>3
            <4> HIDE DEF longer
            <4> QED
                BY <3>1, <4>2, <4>3
        <3> QED
            BY <3>2, <3>3
    <2> HIDE DEF longer
    <2>5. Grown(longer, m)
        BY <2>4
    <2> QED
        BY <1>a, <2>3, <2>5
<1>3. grown \in SUBSET Nat /\ N - 1 \in Nat
    BY <1>a
<1> HIDE DEF grown
<1>4. N - 1 \in grown
    <2>1. 0 .. N-1 \subseteq grown
        BY <1>1, <1>2, <1>3, ChainInduction
    <2> QED
        BY <2>1, <1>3
<1> QED
    BY <1>4, <1>a DEF grown, Block

\* A round key is a block, each byte made of one of the key before it and
\* either what the S-boxes hold or the byte W places before.
LEMMA NewKeyUnfolds ==
    ASSUME NEW old \in Block, NEW sub \in Word, NEW rcon \in Byte
    PROVE  /\ NewKey(old, sub, rcon) \in Block
           /\ \A j \in Index :
                 NewKey(old, sub, rcon)[j] =
                     ByteXor(old[j], IF j < W THEN (IF j = 0 THEN ByteXor(sub[0], rcon) ELSE sub[j])
                                              ELSE NewKey(old, sub, rcon)[j - W])
<1> DEFINE first == [q \in WordIndex |-> IF q = 0 THEN ByteXor(sub[0], rcon) ELSE sub[q]]
           Unfolds(f) == f = [j \in Index |-> ByteXor(old[j], IF j < W THEN first[j] ELSE f[j - W])]
           chosen == CHOOSE f : Unfolds(f)
<1>a. N \in Nat /\ N > 0 /\ Index = 0 .. N-1 /\ \A a, b \in Byte : ByteXor(a, b) \in Byte
    BY BlockAssumption, WordAssumption DEF Index
<1>1. NewKey(old, sub, rcon) = [j \in Index |-> chosen[j]]
    BY DEF NewKey
<1>2. first \in Word
    <2>1. 0 \in WordIndex
        BY WordFacts DEF WordIndex
    <2> QED
        BY <2>1, <1>a DEF Word
<1>f. \A j \in Index : j < W => first[j] = IF j = 0 THEN ByteXor(sub[0], rcon) ELSE sub[j]
    BY <1>a, WordFacts DEF WordIndex
<1> HIDE DEF first
<1>3. Unfolds(chosen)
    <2>1. PICK f \in Block : \A j \in Index : f[j] = ByteXor(old[j], IF j < W THEN first[j] ELSE f[j - W])
        BY <1>2, NewKeyExists
    <2>2. Unfolds(f)
        BY <2>1 DEF Block
    <2> HIDE DEF Unfolds
    <2> QED
        BY <2>2
<1>4. \A j \in Index : chosen[j] = ByteXor(old[j], IF j < W THEN first[j] ELSE chosen[j - W])
    BY <1>3
<1> HIDE DEF chosen
<1>5. \A j \in Index : chosen[j] \in Byte
    <2> DEFINE wrong == {j \in Index : chosen[j] \notin Byte}
    <2> SUFFICES ASSUME wrong # {} PROVE FALSE
        OBVIOUS
    <2>1. wrong \in SUBSET Nat
        BY <1>a
    <2>2. PICK j \in wrong : \A i \in wrong : j <= i
        BY <2>1, LeastExists
    <2>3. j < W => first[j] \in Byte
        <3>1. j < W => j \in WordIndex
            BY <1>a, <2>2, WordFacts DEF WordIndex
        <3> QED
            BY <1>2, <3>1 DEF Word
    <2>4. ~(j < W) => chosen[j - W] \in Byte
        BY <1>a, <2>2, WordFacts
    <2>5. old[j] \in Byte
        BY <2>2 DEF Block
    <2> QED
        BY <1>4, <1>a, <2>2, <2>3, <2>4, <2>5
<1>6. NewKey(old, sub, rcon) \in Block
    BY <1>1, <1>5 DEF Block
<1>7. ASSUME NEW j \in Index
      PROVE  NewKey(old, sub, rcon)[j] =
                 ByteXor(old[j], IF j < W THEN (IF j = 0 THEN ByteXor(sub[0], rcon) ELSE sub[j])
                                          ELSE NewKey(old, sub, rcon)[j - W])
    <2>1. ~(j < W) => j - W \in Index /\ NewKey(old, sub, rcon)[j - W] = chosen[j - W]
        BY <1>1, <1>a, WordFacts
    <2> QED
        BY <1>1, <1>4, <1>f, <2>1
<1> QED
    BY <1>6, <1>7

LEMMA NewKeyType ==
    ASSUME NEW old \in Block, NEW sub \in Word, NEW rcon \in Byte
    PROVE  NewKey(old, sub, rcon) \in Block
BY NewKeyUnfolds

LEMMA SubRotWordType ==
    ASSUME NEW old \in Block
    PROVE  SubRotWord(old) \in Word
<1> SUFFICES ASSUME NEW q \in WordIndex PROVE Sub[old[(W * (W-1)) + ((q+1) % W)]] \in Byte
    BY DEF SubRotWord, Word
<1>1. W - 1 \in WordIndex /\ (q + 1) % W \in WordIndex
    BY WordFacts, AroundTheWord DEF WordIndex
<1>2. (W * (W-1)) + ((q+1) % W) \in Index
    BY <1>1, Places
<1> QED
    BY <1>2, RomAssumption DEF Block

\* A round key from the one before it and what the S-boxes hold.
LEMMA KeyScheduleUnfolds ==
    ASSUME SubwordTypeOK, NEW key \in Block
    PROVE  /\ KeySchedule(key)[0] = key
           /\ \A r \in 1 .. Rounds :
                 KeySchedule(key)[r] = NewKey(KeySchedule(key)[r-1], subword[r], Rcon[r])
           /\ \A r \in 0 .. Rounds : KeySchedule(key)[r] \in Block
<1> DEFINE Unfolds(k) ==
               k = [r \in 0 .. Rounds |-> IF r = 0 THEN key ELSE NewKey(k[r-1], subword[r], Rcon[r])]
           chosen == CHOOSE k : Unfolds(k)
           step == [r \in 1 .. Rounds |-> [b \in Block |-> NewKey(b, subword[r], Rcon[r])]]
<1>a. Rounds \in Nat
    BY WordFacts
<1>1. KeySchedule(key) = chosen
    BY DEF KeySchedule
<1>2. \A r \in 1 .. Rounds, b \in Block : NewKey(b, subword[r], Rcon[r]) \in Block
    BY NewKeyType, RomAssumption DEF SubwordTypeOK
<1>3. Unfolds(chosen)
    <2>1. step \in [1 .. Rounds -> [Block -> Block]]
        BY <1>2
    <2>2. PICK f \in [0 .. Rounds -> Block] :
             f[0] = key /\ \A r \in 1 .. Rounds : f[r] = step[r][f[r-1]]
        <3> HIDE DEF step
        <3>1. \E f \in [0 .. Rounds -> Block] : IsChain(f, key, Rounds, step)
            BY <1>a, <2>1, ChainExists
        <3> QED
            BY <3>1 DEF IsChain
    <2>3. \A r \in 1 .. Rounds : f[r] = NewKey(f[r-1], subword[r], Rcon[r])
        <3> SUFFICES ASSUME NEW r \in 1 .. Rounds PROVE f[r] = NewKey(f[r-1], subword[r], Rcon[r])
            OBVIOUS
        <3>1. r - 1 \in 0 .. Rounds
            BY <1>a
        <3> QED
            BY <2>2, <3>1
    <2>4. Unfolds(f)
        <3>1. \A r \in 0 .. Rounds : r # 0 => r \in 1 .. Rounds
            BY <1>a
        <3> QED
            BY <2>2, <2>3, <3>1
    <2> HIDE DEF Unfolds
    <2> QED
        BY <2>4
<1>4. chosen[0] = key /\ \A r \in 1 .. Rounds : chosen[r] = NewKey(chosen[r-1], subword[r], Rcon[r])
    <2>1. 0 \in 0 .. Rounds /\ \A r \in 1 .. Rounds : r \in 0 .. Rounds /\ r # 0
        BY <1>a
    <2>2. chosen = [r \in 0 .. Rounds |->
                       IF r = 0 THEN key ELSE NewKey(chosen[r-1], subword[r], Rcon[r])]
        BY <1>3
    <2> HIDE DEF chosen
    <2> QED
        BY <2>1, <2>2
<1> HIDE DEF chosen
<1>5. \A r \in 0 .. Rounds : chosen[r] \in Block
    <2> DEFINE good == {r \in Nat : chosen[r] \in Block}
    <2>1. 0 \in good /\ \A r \in 1 .. Rounds : r - 1 \in good => r \in good
        BY <1>2, <1>4
    <2> HIDE DEF good
    <2>2. 0 .. Rounds \subseteq good
        BY <1>a, <2>1, ChainInduction DEF good
    <2> QED
        BY <2>2 DEF good
<1> QED
    BY <1>1, <1>4, <1>5

\* The same once the pipeline has settled.
LEMMA ExpandedUnfolds ==
    ASSUME NEW key \in Block
    PROVE  /\ Expanded(key)[0] = key
           /\ \A r \in 1 .. Rounds :
                 Expanded(key)[r] = NewKey(Expanded(key)[r-1], SubRotWord(Expanded(key)[r-1]), Rcon[r])
           /\ \A r \in 0 .. Rounds : Expanded(key)[r] \in Block
<1> DEFINE Unfolds(k) ==
               k = [r \in 0 .. Rounds |->
                       IF r = 0 THEN key ELSE NewKey(k[r-1], SubRotWord(k[r-1]), Rcon[r])]
           chosen == CHOOSE k : Unfolds(k)
           step == [r \in 1 .. Rounds |-> [b \in Block |-> NewKey(b, SubRotWord(b), Rcon[r])]]
<1>a. Rounds \in Nat
    BY WordFacts
<1>1. Expanded(key) = chosen
    BY DEF Expanded
<1>2. \A r \in 1 .. Rounds, b \in Block : NewKey(b, SubRotWord(b), Rcon[r]) \in Block
    BY NewKeyType, SubRotWordType, RomAssumption
<1>3. Unfolds(chosen)
    <2>1. step \in [1 .. Rounds -> [Block -> Block]]
        BY <1>2
    <2>2. PICK f \in [0 .. Rounds -> Block] :
             f[0] = key /\ \A r \in 1 .. Rounds : f[r] = step[r][f[r-1]]
        <3> HIDE DEF step
        <3>1. \E f \in [0 .. Rounds -> Block] : IsChain(f, key, Rounds, step)
            BY <1>a, <2>1, ChainExists
        <3> QED
            BY <3>1 DEF IsChain
    <2>3. \A r \in 1 .. Rounds : f[r] = NewKey(f[r-1], SubRotWord(f[r-1]), Rcon[r])
        <3> SUFFICES ASSUME NEW r \in 1 .. Rounds
                     PROVE  f[r] = NewKey(f[r-1], SubRotWord(f[r-1]), Rcon[r])
            OBVIOUS
        <3>1. r - 1 \in 0 .. Rounds
            BY <1>a
        <3> QED
            BY <2>2, <3>1
    <2>4. Unfolds(f)
        <3>1. \A r \in 0 .. Rounds : r # 0 => r \in 1 .. Rounds
            BY <1>a
        <3> QED
            BY <2>2, <2>3, <3>1
    <2> HIDE DEF Unfolds
    <2> QED
        BY <2>4
<1>4. /\ chosen[0] = key
      /\ \A r \in 1 .. Rounds : chosen[r] = NewKey(chosen[r-1], SubRotWord(chosen[r-1]), Rcon[r])
    <2>1. 0 \in 0 .. Rounds /\ \A r \in 1 .. Rounds : r \in 0 .. Rounds /\ r # 0
        BY <1>a
    <2>2. chosen = [r \in 0 .. Rounds |->
                       IF r = 0 THEN key ELSE NewKey(chosen[r-1], SubRotWord(chosen[r-1]), Rcon[r])]
        BY <1>3
    <2> HIDE DEF chosen
    <2> QED
        BY <2>1, <2>2
<1> HIDE DEF chosen
<1>5. \A r \in 0 .. Rounds : chosen[r] \in Block
    <2> DEFINE good == {r \in Nat : chosen[r] \in Block}
    <2>1. 0 \in good /\ \A r \in 1 .. Rounds : r - 1 \in good => r \in good
        BY <1>2, <1>4
    <2> HIDE DEF good
    <2>2. 0 .. Rounds \subseteq good
        BY <1>a, <2>1, ChainInduction DEF good
    <2> QED
        BY <2>2 DEF good
<1> QED
    BY <1>1, <1>4, <1>5

\* Round keys whose S-boxes hold what belongs there are the settled ones.
LEMMA SettledKeys ==
    ASSUME SubwordTypeOK, NEW key \in Block, NEW m \in Nat,
           \A r \in 1 .. Rounds : r <= m => subword[r] = SubRotWord(Expanded(key)[r-1])
    PROVE  \A r \in 0 .. Rounds : r <= m => KeySchedule(key)[r] = Expanded(key)[r]
<1> DEFINE good == {r \in Nat : r <= m => KeySchedule(key)[r] = Expanded(key)[r]}
<1>1. 0 \in good
    BY KeyScheduleUnfolds, ExpandedUnfolds
<1>2. ASSUME NEW r \in 1 .. Rounds, r - 1 \in good PROVE r \in good
    <2> SUFFICES ASSUME r <= m PROVE KeySchedule(key)[r] = Expanded(key)[r]
        BY WordFacts
    <2>1. KeySchedule(key)[r-1] = Expanded(key)[r-1]
        BY <1>2, WordFacts
    <2> QED
        BY <2>1, KeyScheduleUnfolds, ExpandedUnfolds
<1>3. good \in SUBSET Nat
    OBVIOUS
<1> HIDE DEF good
<1>4. 0 .. Rounds \subseteq good
    BY <1>1, <1>2, <1>3, WordFacts, ChainInduction
<1> QED
    BY <1>4 DEF good

\* One clock more, and one round key more has settled.
LEMMA SettlesOn ==
    ASSUME SubwordTypeOK, NEW key \in Block, NEW m \in Nat, SubwordEdge(key),
           \A r \in 1 .. Rounds : r <= m => subword[r] = SubRotWord(Expanded(key)[r-1])
    PROVE  \A r \in 1 .. Rounds : r <= m + 1 => subword'[r] = SubRotWord(Expanded(key)[r-1])
<1> SUFFICES ASSUME NEW r \in 1 .. Rounds, r <= m + 1
             PROVE  subword'[r] = SubRotWord(Expanded(key)[r-1])
    OBVIOUS
<1>1. r - 1 \in 0 .. Rounds /\ r - 1 <= m
    BY WordFacts
<1>2. KeySchedule(key)[r-1] = Expanded(key)[r-1]
    BY <1>1, SettledKeys
<1> QED
    BY <1>2 DEF SubwordEdge

-----------------------------------------------------------------------------
(* The data path. *)

LEMMA AddRoundKeyType ==
    ASSUME NEW in \in Block, NEW k \in Block
    PROVE  AddRoundKey(in, k) \in Block
<1> SUFFICES ASSUME NEW j \in Index
             PROVE  ByteXor(in[j], k[W * (j % W) + (W-1 - (j \div W))]) \in Byte
    BY DEF AddRoundKey, Block
<1>1. j % W \in WordIndex /\ W-1 - (j \div W) \in WordIndex
    BY PlaceOf, WordFacts DEF WordIndex
<1>2. W * (j % W) + (W-1 - (j \div W)) \in Index
    BY <1>1, Places
<1> QED
    BY <1>2, WordAssumption DEF Block

LEMMA InvShiftRowsType ==
    ASSUME NEW in \in Block
    PROVE  InvShiftRows(in) \in Block
<1> SUFFICES ASSUME NEW j \in Index
             PROVE  in[W * (((j \div W) - (j % W)) % W) + (j % W)] \in Byte
    BY DEF InvShiftRows, Block
<1>1. j % W \in WordIndex /\ ((j \div W) - (j % W)) % W \in WordIndex
    <2>1. j % W \in WordIndex /\ (j \div W) - (j % W) \in Int
        BY PlaceOf, WordFacts DEF WordIndex
    <2> QED
        BY <2>1, AroundTheWord
<1>2. W * (((j \div W) - (j % W)) % W) + (j % W) \in Index
    BY <1>1, Places
<1> QED
    BY <1>2 DEF Block

LEMMA InvSubBytesType ==
    ASSUME NEW in \in Block
    PROVE  InvSubBytes(in) \in Block
BY DataPathAssumption DEF InvSubBytes, Block

LEMMA GatheredType ==
    ASSUME NEW in \in Block, NEW g \in 1 .. W
    PROVE  Gathered(in, g) \in Word
<1> SUFFICES ASSUME NEW q \in WordIndex PROVE in[W * q + (g-1)] \in Byte
    BY DEF Gathered, Word
<1>1. g - 1 \in WordIndex
    BY WordFacts DEF WordIndex
<1>2. W * q + (g-1) \in Index
    BY <1>1, Places
<1> QED
    BY <1>2 DEF Block

\* A byte that is summed up from W terms.
IsSum(f, terms) == f = [i \in WordIndex |-> IF i = 0 THEN terms[0] ELSE ByteXor(f[i-1], terms[i])]

LEMMA SumExists ==
    ASSUME NEW terms \in [WordIndex -> Byte]
    PROVE  \E f \in [WordIndex -> Byte] : IsSum(f, terms)
<1>a. W - 1 \in Nat /\ WordIndex = 0 .. W-1 /\ \A a, b \in Byte : ByteXor(a, b) \in Byte
    BY WordFacts, WordAssumption DEF WordIndex
<1> DEFINE step == [i \in 1 .. W-1 |-> [b \in Byte |-> ByteXor(b, terms[i])]]
<1>1. /\ step \in [1 .. W-1 -> [Byte -> Byte]]
      /\ \A i \in 1 .. W-1 : i \in WordIndex
      /\ terms[0] \in Byte
    BY <1>a
<1>2. PICK f \in [0 .. W-1 -> Byte] :
         f[0] = terms[0] /\ \A i \in 1 .. W-1 : f[i] = step[i][f[i-1]]
    <2> HIDE DEF step
    <2>1. \E f \in [0 .. W-1 -> Byte] : IsChain(f, terms[0], W-1, step)
        BY <1>a, <1>1, ChainExists
    <2> QED
        BY <2>1 DEF IsChain
<1>3. \A i \in 1 .. W-1 : f[i] = ByteXor(f[i-1], terms[i])
    <2> SUFFICES ASSUME NEW i \in 1 .. W-1 PROVE f[i] = ByteXor(f[i-1], terms[i])
        OBVIOUS
    <2>1. i - 1 \in 0 .. W-1
        BY <1>a
    <2> QED
        BY <1>2, <2>1
<1>4. \A i \in WordIndex : f[i] = IF i = 0 THEN terms[0] ELSE ByteXor(f[i-1], terms[i])
    <2>1. \A i \in WordIndex : i = 0 \/ i \in 1 .. W-1
        BY <1>a
    <2> QED
        BY <1>2, <1>3, <2>1
<1>5. IsSum(f, terms)
    BY <1>a, <1>4 DEF IsSum
<1> QED
    BY <1>5, <1>a

\* The sum that a recursive definition chooses.
LEMMA SumChosen ==
    ASSUME NEW terms \in [WordIndex -> Byte], NEW f, f = CHOOSE g : IsSum(g, terms)
    PROVE  /\ f \in [WordIndex -> Byte]
           /\ \A i \in WordIndex : f[i] = IF i = 0 THEN terms[0] ELSE ByteXor(f[i-1], terms[i])
<1>a. W - 1 \in Nat /\ WordIndex = 0 .. W-1 /\ \A a, b \in Byte : ByteXor(a, b) \in Byte
    BY WordFacts, WordAssumption DEF WordIndex
<1>1. IsSum(f, terms)
    BY SumExists
<1>2. \A i \in WordIndex : f[i] = IF i = 0 THEN terms[0] ELSE ByteXor(f[i-1], terms[i])
    BY <1>1 DEF IsSum
<1> DEFINE good == {i \in Nat : f[i] \in Byte}
<1>3. 0 \in good
    BY <1>2, <1>a
<1>4. ASSUME NEW i \in 1 .. W-1, i - 1 \in good PROVE i \in good
    BY <1>2, <1>a, <1>4
<1> HIDE DEF good
<1>5. 0 .. W-1 \subseteq good
    BY <1>a, <1>3, <1>4, ChainInduction DEF good
<1>6. f = [i \in WordIndex |-> f[i]]
    BY <1>1 DEF IsSum
<1> QED
    BY <1>2, <1>5, <1>6, <1>a DEF good

\* InvMixColumns sums up a byte from W products.
LEMMA InvMixColumnsUnfolds ==
    ASSUME NEW in \in Word, NEW q \in WordIndex
    PROVE  \E terms \in [WordIndex -> Byte], f \in [WordIndex -> Byte] :
              /\ \A i \in WordIndex : terms[i] = Mul[i][in[(q + i) % W]]
              /\ \A i \in WordIndex : f[i] = IF i = 0 THEN terms[0] ELSE ByteXor(f[i-1], terms[i])
              /\ InvMixColumns(in)[q] = f[W-1]
<1> DEFINE term(x, i) == Mul[i][in[(x + i) % W]]
           Unfolds(f, x) == f = [i \in WordIndex |->
                                   IF i = 0 THEN term(x, i) ELSE ByteXor(f[i-1], term(x, i))]
           chosen(x) == CHOOSE f : Unfolds(f, x)
<1>1. InvMixColumns(in) = [x \in WordIndex |-> chosen(x)[W-1]]
    BY DEF InvMixColumns
<1>2. \A i \in WordIndex : term(q, i) \in Byte
    <2> SUFFICES ASSUME NEW i \in WordIndex PROVE term(q, i) \in Byte
        OBVIOUS
    <2>1. (q + i) % W \in WordIndex
        <3>1. q + i \in Int
            BY WordFacts DEF WordIndex
        <3> QED
            BY <3>1, AroundTheWord
    <2> QED
        BY <2>1, DataPathAssumption DEF Word
<1>3. PICK terms \in [WordIndex -> Byte] : \A i \in WordIndex : terms[i] = term(q, i)
    <2>1. [i \in WordIndex |-> term(q, i)] \in [WordIndex -> Byte]
        BY <1>2
    <2> QED
        BY <2>1
<1>4. chosen(q) = CHOOSE f : IsSum(f, terms)
    <2>1. ASSUME NEW f PROVE Unfolds(f, q) <=> IsSum(f, terms)
        <3>1. \A i \in WordIndex : (IF i = 0 THEN term(q, i) ELSE ByteXor(f[i-1], term(q, i)))
                                       = IF i = 0 THEN terms[0] ELSE ByteXor(f[i-1], terms[i])
            BY <1>3
        <3> HIDE DEF term
        <3>2. [i \in WordIndex |-> IF i = 0 THEN term(q, i) ELSE ByteXor(f[i-1], term(q, i))]
                  = [i \in WordIndex |-> IF i = 0 THEN terms[0] ELSE ByteXor(f[i-1], terms[i])]
            BY <3>1
        <3> QED
            BY <3>2 DEF IsSum
    <2> HIDE DEF Unfolds
    <2> QED
        BY <2>1
<1>5. PICK f : f = chosen(q)
    OBVIOUS
<1>6. /\ f \in [WordIndex -> Byte]
      /\ \A i \in WordIndex : f[i] = IF i = 0 THEN terms[0] ELSE ByteXor(f[i-1], terms[i])
    <2> HIDE DEF chosen
    <2>1. f = CHOOSE g : IsSum(g, terms)
        BY <1>4, <1>5
    <2> QED
        BY <2>1, SumChosen
<1>7. InvMixColumns(in)[q] = f[W-1]
    BY <1>1, <1>5
<1> HIDE DEF chosen
<1> QED
    BY <1>3, <1>6, <1>7

LEMMA InvMixColumnsType ==
    ASSUME NEW in \in Word
    PROVE  InvMixColumns(in) \in Word
<1>1. ASSUME NEW q \in WordIndex PROVE InvMixColumns(in)[q] \in Byte
    <2>1. W - 1 \in WordIndex
        BY WordFacts DEF WordIndex
    <2> QED
        BY <2>1, InvMixColumnsUnfolds
<1>2. InvMixColumns(in) = [q \in WordIndex |-> InvMixColumns(in)[q]]
    BY DEF InvMixColumns
<1> QED
    BY <1>1, <1>2 DEF Word

LEMMA MixedColumnsType ==
    ASSUME NEW in \in Block
    PROVE  MixedColumns(in) \in Block
<1> SUFFICES ASSUME NEW j \in Index
             PROVE  InvMixColumns(Gathered(in, j \div W + 1))[j % W] \in Byte
    BY DEF MixedColumns, Block
<1>1. j % W \in WordIndex /\ j \div W + 1 \in 1 .. W
    BY PlaceOf, WordFacts DEF WordIndex
<1>2. InvMixColumns(Gathered(in, j \div W + 1)) \in Word
    BY <1>1, GatheredType, InvMixColumnsType
<1> QED
    BY <1>1, <1>2 DEF Word

\* What goes into InvShiftRows for round key r, and what comes out of
\* InvSubBytes.
Unmixed(c, k, r)  == IF r = 1 THEN Decoded(c, k)[0] ELSE MixedColumns(Decoded(c, k)[r-1])
Replaced(c, k, r) == InvSubBytes(InvShiftRows(Unmixed(c, k, r)))

LEMMA DecodedUnfolds ==
    ASSUME NEW c \in Block, NEW key \in Block
    PROVE  /\ Decoded(c, key)[0] = AddRoundKey(c, Expanded(key)[0])
           /\ \A r \in 1 .. Rounds :
                 Decoded(c, key)[r] = AddRoundKey(Replaced(c, key, r), Expanded(key)[r])
           /\ \A r \in 0 .. Rounds : Decoded(c, key)[r] \in Block
<1> DEFINE rk == Expanded(key)
           mixed(r, b) == IF r = 1 THEN b ELSE MixedColumns(b)
           round(r, b) == AddRoundKey(InvSubBytes(InvShiftRows(mixed(r, b))), rk[r])
           Unfolds(d) ==
               d = [r \in 0 .. Rounds |->
                       IF r = 0 THEN AddRoundKey(c, rk[0])
                       ELSE LET m == IF r = 1 THEN d[0] ELSE MixedColumns(d[r-1])
                            IN  AddRoundKey(InvSubBytes(InvShiftRows(m)), rk[r])]
           chosen == CHOOSE d : Unfolds(d)
           step == [r \in 1 .. Rounds |-> [b \in Block |-> round(r, b)]]
<1>a. Rounds \in Nat /\ \A r \in 0 .. Rounds : rk[r] \in Block
    BY WordFacts, ExpandedUnfolds
<1>1. Decoded(c, key) = chosen
    BY DEF Decoded
<1>2. \A r \in 1 .. Rounds, b \in Block : round(r, b) \in Block
    <2> SUFFICES ASSUME NEW r \in 1 .. Rounds, NEW b \in Block PROVE round(r, b) \in Block
        OBVIOUS
    <2>1. mixed(r, b) \in Block /\ rk[r] \in Block
        BY <1>a, MixedColumnsType
    <2> HIDE DEF mixed
    <2> QED
        BY <2>1, InvShiftRowsType, InvSubBytesType, AddRoundKeyType
<1>0. AddRoundKey(c, rk[0]) \in Block
    BY <1>a, AddRoundKeyType
<1>3. Unfolds(chosen)
    <2>1. step \in [1 .. Rounds -> [Block -> Block]]
        BY <1>2
    <2>2. PICK f \in [0 .. Rounds -> Block] :
             f[0] = AddRoundKey(c, rk[0]) /\ \A r \in 1 .. Rounds : f[r] = step[r][f[r-1]]
        <3> HIDE DEF step
        <3>1. \E f \in [0 .. Rounds -> Block] : IsChain(f, AddRoundKey(c, rk[0]), Rounds, step)
            BY <1>a, <1>0, <2>1, ChainExists
        <3> QED
            BY <3>1 DEF IsChain
    <2>3. \A r \in 1 .. Rounds : f[r] = round(r, f[r-1])
        <3> SUFFICES ASSUME NEW r \in 1 .. Rounds PROVE f[r] = round(r, f[r-1])
            OBVIOUS
        <3>1. r - 1 \in 0 .. Rounds
            BY <1>a
        <3> HIDE DEF round
        <3> QED
            BY <2>2, <3>1
    <2>4. Unfolds(f)
        <3>1. \A r \in 0 .. Rounds : r # 0 => r \in 1 .. Rounds
            BY <1>a
        <3>2. \A r \in 1 .. Rounds :
                 round(r, f[r-1]) = AddRoundKey(InvSubBytes(InvShiftRows(
                                        IF r = 1 THEN f[0] ELSE MixedColumns(f[r-1]))), rk[r])
            OBVIOUS
        <3> HIDE DEF round, rk
        <3> QED
            BY <2>2, <2>3, <3>1, <3>2
    <2> HIDE DEF Unfolds
    <2> QED
        BY <2>4
<1>4. /\ chosen[0] = AddRoundKey(c, rk[0])
      /\ \A r \in 1 .. Rounds : chosen[r] = round(r, chosen[r-1])
    <2>1. 0 \in 0 .. Rounds /\ \A r \in 1 .. Rounds : r \in 0 .. Rounds /\ r # 0
        BY <1>a
    <2>2. chosen = [r \in 0 .. Rounds |->
                       IF r = 0 THEN AddRoundKey(c, rk[0])
                       ELSE LET m == IF r = 1 THEN chosen[0] ELSE MixedColumns(chosen[r-1])
                            IN  AddRoundKey(InvSubBytes(InvShiftRows(m)), rk[r])]
        BY <1>3
    <2> HIDE DEF chosen, rk
    <2>3. chosen[0] = AddRoundKey(c, rk[0])
        BY <2>1, <2>2
    <2>4. ASSUME NEW r \in 1 .. Rounds PROVE chosen[r] = round(r, chosen[r-1])
        <3>1. mixed(r, chosen[r-1]) = IF r = 1 THEN chosen[0] ELSE MixedColumns(chosen[r-1])
            OBVIOUS
        <3>2. chosen[r] = AddRoundKey(InvSubBytes(InvShiftRows(
                              IF r = 1 THEN chosen[0] ELSE MixedColumns(chosen[r-1]))), rk[r])
            BY <2>1, <2>2
        <3> HIDE DEF mixed
        <3> QED
            BY <3>1, <3>2
    <2> QED
        BY <2>3, <2>4
<1> HIDE DEF chosen
<1>5. \A r \in 0 .. Rounds : chosen[r] \in Block
    <2> DEFINE good == {r \in Nat : chosen[r] \in Block}
    <2>1. 0 \in good
        BY <1>0, <1>4
    <2>2. ASSUME NEW r \in 1 .. Rounds, r - 1 \in good PROVE r \in good
        <3> HIDE DEF round
        <3> QED
            BY <1>2, <1>4, <2>2
    <2> HIDE DEF good
    <2>3. 0 .. Rounds \subseteq good
        BY <1>a, <2>1, <2>2, ChainInduction DEF good
    <2> QED
        BY <2>3 DEF good
<1>6. \A r \in 1 .. Rounds : chosen[r] = AddRoundKey(Replaced(c, key, r), rk[r])
    <2> SUFFICES ASSUME NEW r \in 1 .. Rounds
                 PROVE  round(r, chosen[r-1]) = AddRoundKey(Replaced(c, key, r), rk[r])
        BY <1>4
    <2>1. mixed(r, chosen[r-1]) = Unmixed(c, key, r)
        BY <1>1 DEF Unmixed
    <2> HIDE DEF mixed, rk
    <2> QED
        BY <2>1 DEF Replaced
<1> QED
    BY <1>1, <1>4, <1>5, <1>6

LEMMA UnmixedType ==
    ASSUME NEW c \in Block, NEW key \in Block, NEW r \in 1 .. Rounds
    PROVE  Unmixed(c, key, r) \in Block /\ Replaced(c, key, r) \in Block
<1>1. Unmixed(c, key, r) \in Block
    <2>1. Decoded(c, key)[0] \in Block /\ Decoded(c, key)[r-1] \in Block
        BY DecodedUnfolds, WordFacts
    <2> QED
        BY <2>1, MixedColumnsType DEF Unmixed
<1> QED
    BY <1>1, InvShiftRowsType, InvSubBytesType DEF Replaced

-----------------------------------------------------------------------------
(* The inductive invariant. *)

\* The states that a number belongs to, and reset.
OnPath ==
    /\ held => In("WAIT")
    /\ In("INV_ADDROUND") => rnd \in 1 .. Rounds + 1
    /\ In("INV_SHIFTROWS") \/ In("INV_SUBBYTES") => rnd \in 1 .. Rounds
    /\ In("INV_MIXCOLUMNS") \/ In("INV_MIXCOLUMNS_1") => rnd \in 1 .. Rounds - 1 /\ grp \in 1 .. W

\* The S-boxes of the first m round keys hold what belongs to the job.
SettledTo(m) ==
    \A i \in 1 .. Rounds : i <= m => subword[i] = SubRotWord(Expanded(job[2])[i-1])

\* The output of AddRoundKey while its latches are shut.
Summed == AddRoundKey(add_in, addkey)

HoldsSum(r) == addkey = Expanded(job[2])[r] /\ Summed = Decoded(job[1], job[2])[r]

\* The first g words of mix_out are written.
WordsMixed(g) == \A j \in Index : j \div W < g => mix_out[j] = MixedColumns(Decoded(job[1], job[2])[rnd])[j]

\* How far the job has come, state by state.
Progress ==
    /\ In("INV_SHIFTROWS") =>
          /\ SettledTo(rnd) /\ addkey = Expanded(job[2])[rnd-1]
          /\ (IF rnd = 1 THEN Summed ELSE mix_out) = Unmixed(job[1], job[2], rnd)
    /\ In("INV_SUBBYTES") =>
          /\ SettledTo(rnd) /\ addkey = Expanded(job[2])[rnd-1]
          /\ shift_in = Unmixed(job[1], job[2], rnd)
    /\ In("INV_ADDROUND") /\ rnd # 1 => SettledTo(rnd) /\ sub_out = Replaced(job[1], job[2], rnd - 1)
    /\ In("INV_MIXCOLUMNS") \/ In("INV_MIXCOLUMNS_1") =>
          SettledTo(rnd + 1) /\ HoldsSum(rnd) /\ WordsMixed(grp - 1)
    /\ In("INV_MIXCOLUMNS_1") => mixin = Gathered(Decoded(job[1], job[2])[rnd], grp)
    /\ In("FINISH") => Summed = Decoded(job[1], job[2])[Rounds]

EngineInv == EngineTypeOK /\ OnPath /\ (intact => Progress)

-----------------------------------------------------------------------------
(* Types. *)

LEMMA TypeParts ==
    ASSUME EngineTypeOK
    PROVE  /\ add_in \in Block /\ addkey \in Block /\ mix_out \in Block /\ shift_in \in Block
           /\ sub_in \in Block /\ sub_out \in Block /\ mixin \in Word /\ SubwordTypeOK
           /\ Ciphertext \in Block /\ Cipherkey \in Block /\ inputs \in Pair
           /\ job \in Pair /\ job[1] \in Block /\ job[2] \in Block
BY DataPathAssumption DEF EngineTypeOK, Ciphertext, Cipherkey, Pair

LEMMA LatchTypes ==
    ASSUME EngineTypeOK, OnPath
    PROVE  /\ ADD_IN \in Block /\ ADDKEY \in Block /\ AddOut \in Block
           /\ MIXIN \in Word /\ MIX_OUT \in Block /\ SHIFT_IN \in Block /\ SUB_IN \in Block
<1>1. ADD_IN \in Block
    BY TypeParts DEF ADD_IN
<1>2. ADDKEY \in Block
    <2>1. In("INV_ADDROUND") => rnd - 1 \in 0 .. Rounds
        BY WordFacts DEF OnPath
    <2> QED
        BY <2>1, TypeParts, KeyScheduleUnfolds DEF ADDKEY
<1>3. AddOut \in Block
    BY <1>1, <1>2, AddRoundKeyType DEF AddOut
<1>4. MIXIN \in Word
    BY <1>3, TypeParts, GatheredType DEF MIXIN, OnPath
<1>5. MIX_OUT \in Block
    <2>1. InvMixColumns(mixin) \in Word
        BY TypeParts, InvMixColumnsType
    <2>2. Scattered(InvMixColumns(mixin), grp) \in Block
        <3>1. \A j \in Index : j % W \in WordIndex
            BY PlaceOf
        <3> QED
            BY <2>1, <3>1, TypeParts DEF Scattered, Block, Word
    <2> QED
        BY <2>2, TypeParts DEF MIX_OUT
<1>6. SHIFT_IN \in Block
    BY <1>3, TypeParts DEF SHIFT_IN
<1>7. SUB_IN \in Block
    BY TypeParts, InvShiftRowsType DEF SUB_IN
<1> QED
    BY <1>1, <1>2, <1>3, <1>4, <1>5, <1>6, <1>7

LEMMA RomTypes ==
    ASSUME EngineTypeOK, OnPath, RomEdge
    PROVE  sub_out' \in Block /\ SubwordTypeOK'
<1>1. sub_out' \in Block
    BY LatchTypes, InvSubBytesType DEF RomEdge
<1>2. \A r \in 1 .. Rounds : SubRotWord(KeySchedule(Cipherkey)[r-1]) \in Word
    <2>1. \A r \in 1 .. Rounds : r - 1 \in 0 .. Rounds
        BY WordFacts
    <2> QED
        BY <2>1, TypeParts, KeyScheduleUnfolds, SubRotWordType
<1> QED
    BY <1>1, <1>2 DEF RomEdge, SubwordEdge, SubwordTypeOK

LEMMA LatchedTypes ==
    ASSUME EngineTypeOK, OnPath, Latch
    PROVE  /\ add_in' \in Block /\ addkey' \in Block /\ mix_out' \in Block
           /\ shift_in' \in Block /\ sub_in' \in Block /\ mixin' \in Word
BY LatchTypes DEF Latch

LEMMA ControlTypes ==
    ASSUME EngineTypeOK, OnPath, NextState, ~held
    PROVE  /\ state' \in {"WAIT", "FINISH", "INV_ADDROUND", "INV_SHIFTROWS", "INV_SUBBYTES",
                          "INV_MIXCOLUMNS", "INV_MIXCOLUMNS_1"}
           /\ rnd' \in 0 .. Rounds + 1 /\ grp' \in 0 .. W
           /\ UNCHANGED held => OnPath'
<1> USE WordFacts DEF Goto, In, OnPath
<1>1. CASE Start
    BY <1>1 DEF Start
<1>2. CASE Idle
    BY <1>2 DEF Idle
<1>3. CASE Added
    BY <1>3 DEF Added
<1>4. CASE Gather
    BY <1>4 DEF Gather
<1>5. CASE Scatter
    BY <1>5 DEF Scatter
<1>6. CASE Shifted
    BY <1>6 DEF Shifted
<1>7. CASE Subbed
    BY <1>7 DEF Subbed
<1>8. CASE Finished
    BY <1>8 DEF Finished
<1> QED
    BY <1>1, <1>2, <1>3, <1>4, <1>5, <1>6, <1>7, <1>8 DEF NextState

\* Types and path, whatever the step.
LEMMA TypesHold ==
    ASSUME EngineTypeOK, OnPath, Next
    PROVE  EngineTypeOK' /\ OnPath'
<1>1. CASE Edge
    <2>1. ~held /\ NextState /\ Latch /\ RomEdge /\ Record /\ UNCHANGED held /\ Drive
        BY <1>1 DEF Edge, EngineEdge
    <2>2. job' \in Pair /\ intact' \in BOOLEAN
        <3>1. intact \in BOOLEAN
            BY DEF EngineTypeOK
        <3>2. Capture \in BOOLEAN
            BY DEF Capture, In
        <3> QED
            BY <2>1, <3>1, <3>2, TypeParts DEF Record
    <2> QED
        BY <2>1, <2>2, ControlTypes, LatchedTypes, RomTypes DEF EngineTypeOK, Drive
<1>2. CASE EdgeInReset
    <2>1. RomEdge /\ Drive /\ UNCHANGED <<state, rnd, grp, latches, held, job, intact>>
        BY <1>2 DEF EdgeInReset
    <2> QED
        BY <2>1, RomTypes DEF EngineTypeOK, OnPath, In, Drive, latches
<1>3. CASE Reset
    <2>1. Latch /\ Drive /\ UNCHANGED <<roms, job, intact>> /\ held' = TRUE /\ Goto("WAIT", 0, 0)
        BY <1>3 DEF Reset
    <2>2. OnPath'
        BY <2>1 DEF OnPath, In, Goto
    <2>3. SubwordTypeOK' /\ sub_out' \in Block
        BY <2>1, TypeParts DEF roms, SubwordTypeOK
    <2>4. state' = "WAIT" /\ rnd' \in 0 .. Rounds + 1 /\ grp' \in 0 .. W
        BY <2>1, WordFacts DEF Goto
    <2> QED
        BY <2>1, <2>2, <2>3, <2>4, LatchedTypes DEF EngineTypeOK, Drive
<1>4. CASE Release
    BY <1>4 DEF Release, EngineTypeOK, OnPath, In, Drive, latches, roms, SubwordTypeOK
<1> QED
    BY <1>1, <1>2, <1>3, <1>4 DEF Next

-----------------------------------------------------------------------------
(* The steps. *)

LEMMA InitHolds == Init => EngineInv
<1> SUFFICES ASSUME Init PROVE EngineInv
    OBVIOUS
<1>1. PICK b \in PowerUp :
          /\ add_in = b /\ addkey = b /\ mix_out = b /\ shift_in = b /\ sub_in = b
          /\ mixin = Gathered(b, 1)
          /\ sub_out = b
          /\ subword = [r \in 1 .. Rounds |-> Gathered(b, 1)]
    BY DEF Init
<1>2. b \in Block /\ Gathered(b, 1) \in Word
    <2>1. b \in Block /\ 1 \in 1 .. W
        BY DataPathAssumption, WordFacts
    <2> QED
        BY <2>1, GatheredType
<1>3. ZeroBlock \in Block
    BY BlockAssumption DEF ZeroBlock, Block
<1>4. EngineTypeOK
    <2>1. rnd \in 0 .. Rounds + 1 /\ grp \in 0 .. W /\ job \in Pair
        BY <1>3, WordFacts DEF Init, Pair
    <2>2. {add_in, addkey, mix_out, shift_in, sub_in, sub_out} \subseteq Block /\ mixin \in Word
        BY <1>1, <1>2
    <2>3. SubwordTypeOK
        BY <1>1, <1>2 DEF SubwordTypeOK
    <2> QED
        BY <2>1, <2>2, <2>3 DEF Init, EngineTypeOK
<1> QED
    BY <1>4 DEF Init, EngineInv, OnPath, In

\* While the engine works, its job counts only as long as it stands at the
\* inputs.
LEMMA WorkingOn ==
    ASSUME EngineTypeOK, Record, Working, intact'
    PROVE  intact /\ job' = job /\ Ciphertext = job[1] /\ Cipherkey = job[2]
BY DEF Record, Working, Ciphertext, Cipherkey

LEMMA SettledOn ==
    ASSUME EngineTypeOK, RomEdge, job' = job, Cipherkey = job[2], NEW m \in Nat, SettledTo(m)
    PROVE  /\ \A r \in 1 .. Rounds : r <= m + 1 => subword'[r] = SubRotWord(Expanded(job'[2])[r-1])
           /\ \A r \in 0 .. Rounds : r <= m => KeySchedule(Cipherkey)[r] = Expanded(job'[2])[r]
<1>1. SubwordTypeOK /\ Cipherkey \in Block /\ SubwordEdge(Cipherkey)
    BY TypeParts DEF RomEdge
<1>2. \A r \in 1 .. Rounds : r <= m => subword[r] = SubRotWord(Expanded(Cipherkey)[r-1])
    BY DEF SettledTo
<1> QED
    BY <1>1, <1>2, SettlesOn, SettledKeys

\* The first round key is added to what has just been read.
LEMMA FirstAdded ==
    ASSUME EngineInv, EngineEdge, Added, rnd = 1
    PROVE  Progress'
<1>a. EngineTypeOK /\ Latch /\ RomEdge /\ Record /\ In("INV_ADDROUND")
    BY DEF EngineInv, EngineEdge, Added
<1>b. state' = "INV_SHIFTROWS" /\ rnd' = 1 /\ job' = inputs
    BY <1>a, WordFacts DEF Added, Goto, Record, Capture
<1>c. Ciphertext = job'[1] /\ Cipherkey = job'[2] /\ Cipherkey \in Block /\ Ciphertext \in Block
    BY <1>a, <1>b, TypeParts DEF Ciphertext, Cipherkey
<1>1. SettledTo(1)'
    <2>1. SubwordTypeOK /\ SubwordEdge(Cipherkey)
        BY <1>a, TypeParts DEF RomEdge
    <2>2. \A r \in 1 .. Rounds : r <= 0 => subword[r] = SubRotWord(Expanded(Cipherkey)[r-1])
        BY WordFacts
    <2>3. \A r \in 1 .. Rounds : r <= 0 + 1 => subword'[r] = SubRotWord(Expanded(Cipherkey)[r-1])
        BY <1>c, <2>1, <2>2, SettlesOn
    <2> QED
        BY <1>c, <2>3 DEF SettledTo
<1>2. addkey' = Expanded(job'[2])[0]
    BY <1>a, <1>c, TypeParts, KeyScheduleUnfolds, ExpandedUnfolds DEF Latch, ADDKEY
<1>3. add_in' = job'[1]
    BY <1>a, <1>c DEF Latch, ADD_IN
<1>4. AddRoundKey(add_in', addkey') = Unmixed(job'[1], job'[2], 1)
    BY <1>2, <1>3, <1>c, DecodedUnfolds DEF Unmixed
<1>5. addkey' = Expanded(job'[2])[1 - 1]
    BY <1>2
<1> QED
    BY <1>b, <1>1, <1>4, <1>5 DEF Progress, In, SettledTo, Summed

\* A further round key is added: it has settled by then.
LEMMA FurtherAdded ==
    ASSUME EngineInv, EngineEdge, Added, rnd # 1, intact'
    PROVE  Progress'
<1>a. EngineTypeOK /\ Latch /\ RomEdge /\ Record /\ In("INV_ADDROUND") /\ rnd \in 2 .. Rounds + 1
    BY WordFacts DEF EngineInv, EngineEdge, Added, OnPath
<1>b. intact /\ job' = job /\ Ciphertext = job[1] /\ Cipherkey = job[2]
    <2>1. Working
        BY <1>a DEF Working, Capture, In
    <2> QED
        BY <1>a, <2>1, WorkingOn
<1>c. SettledTo(rnd) /\ sub_out = Replaced(job[1], job[2], rnd - 1) /\ rnd \in Nat /\ rnd - 1 \in 1 .. Rounds
    BY <1>a, <1>b, WordFacts DEF EngineInv, Progress
<1>1. /\ \A r \in 1 .. Rounds : r <= rnd + 1 => subword'[r] = SubRotWord(Expanded(job'[2])[r-1])
      /\ \A r \in 0 .. Rounds : r <= rnd => KeySchedule(Cipherkey)[r] = Expanded(job'[2])[r]
    BY <1>a, <1>b, <1>c, SettledOn
<1>2. addkey' = Expanded(job'[2])[rnd - 1]
    <2>1. rnd - 1 \in 0 .. Rounds /\ rnd - 1 <= rnd
        BY <1>c
    <2> QED
        BY <1>a, <1>1, <2>1 DEF Latch, ADDKEY
<1>3. AddRoundKey(add_in', addkey') = Decoded(job'[1], job'[2])[rnd - 1]
    <2>1. add_in' = Replaced(job'[1], job'[2], rnd - 1)
        BY <1>a, <1>b, <1>c DEF Latch, ADD_IN
    <2>2. job'[1] \in Block /\ job'[2] \in Block
        BY <1>a, <1>b, TypeParts
    <2> QED
        BY <1>2, <1>c, <2>1, <2>2, DecodedUnfolds
<1>4. CASE rnd \in 2 .. Rounds
    <2>1. state' = "INV_MIXCOLUMNS" /\ rnd' = rnd - 1 /\ grp' = 1
        BY <1>4, <1>a, WordFacts DEF Added, Goto
    <2>2. \A j \in Index : ~(j \div W < grp' - 1)
        BY <2>1, PlaceOf, WordFacts DEF WordIndex
    <2>3. SettledTo(rnd + 1)' /\ HoldsSum(rnd)' /\ WordsMixed(grp - 1)'
        BY <1>1, <1>2, <1>3, <1>c, <2>1, <2>2 DEF SettledTo, HoldsSum, Summed, WordsMixed
    <2> QED
        BY <2>1, <2>3 DEF Progress, In
<1>5. CASE rnd = Rounds + 1
    <2>1. state' = "FINISH" /\ rnd - 1 = Rounds
        BY <1>5, <1>a, WordFacts DEF Added, Goto
    <2> QED
        BY <1>3, <2>1 DEF Progress, In, Summed
<1> QED
    BY <1>a, <1>4, <1>5, WordFacts

\* What stays while a round key's sum is put through InvMixColumns.
LEMMA MixingOn ==
    ASSUME EngineInv, EngineEdge, In("INV_MIXCOLUMNS") \/ In("INV_MIXCOLUMNS_1"), intact'
    PROVE  /\ intact /\ job' = job /\ rnd \in 1 .. Rounds - 1 /\ grp \in 1 .. W
           /\ SettledTo(rnd + 1) /\ HoldsSum(rnd) /\ WordsMixed(grp - 1)
           /\ \A r \in 1 .. Rounds : r <= rnd + 1 => subword'[r] = SubRotWord(Expanded(job'[2])[r-1])
           /\ add_in' = add_in /\ addkey' = addkey /\ AddOut = Summed
           /\ job[1] \in Block /\ job[2] \in Block
<1>a. EngineTypeOK /\ Latch /\ RomEdge /\ Record /\ OnPath
    BY DEF EngineInv, EngineEdge
<1>b. intact /\ job' = job /\ Ciphertext = job[1] /\ Cipherkey = job[2]
    <2>1. Working
        BY DEF Working, Capture, In
    <2> QED
        BY <1>a, <2>1, WorkingOn
<1>c. /\ rnd \in 1 .. Rounds - 1 /\ grp \in 1 .. W /\ rnd + 1 \in Nat
      /\ SettledTo(rnd + 1) /\ HoldsSum(rnd) /\ WordsMixed(grp - 1)
    BY <1>a, <1>b DEF EngineInv, OnPath, Progress
<1>1. \A r \in 1 .. Rounds : r <= rnd + 1 => subword'[r] = SubRotWord(Expanded(job'[2])[r-1])
    <2>1. \A r \in 1 .. Rounds :
             r <= (rnd + 1) + 1 => subword'[r] = SubRotWord(Expanded(job'[2])[r-1])
        BY <1>a, <1>b, <1>c, SettledOn
    <2> QED
        BY <2>1, <1>c
<1>2. ADD_IN = add_in /\ ADDKEY = addkey
    BY DEF ADD_IN, ADDKEY, In
<1> QED
    BY <1>a, <1>b, <1>c, <1>1, <1>2, TypeParts DEF Latch, AddOut, Summed

LEMMA GatherHolds ==
    ASSUME EngineInv, EngineEdge, Gather, intact'
    PROVE  Progress'
<1>a. In("INV_MIXCOLUMNS") /\ Latch
    BY DEF Gather, EngineEdge
<1>b. state' = "INV_MIXCOLUMNS_1" /\ rnd' = rnd /\ grp' = grp
    BY DEF Gather, Goto
<1>1. mixin' = Gathered(Decoded(job[1], job[2])[rnd], grp) /\ mix_out' = mix_out
    BY <1>a, MixingOn DEF Latch, MIXIN, MIX_OUT, HoldsSum, In
<1>2. SettledTo(rnd + 1)' /\ HoldsSum(rnd)' /\ WordsMixed(grp - 1)'
    BY <1>a, <1>b, <1>1, MixingOn DEF SettledTo, HoldsSum, Summed, WordsMixed
<1>3. mixin' = Gathered(Decoded(job'[1], job'[2])[rnd'], grp')
    BY <1>a, <1>b, <1>1, MixingOn
<1> QED
    BY <1>b, <1>2, <1>3 DEF Progress, In

\* A word of InvMixColumns more is in its place.
LEMMA WordScattered ==
    ASSUME NEW in \in Block, NEW g \in 1 .. W, NEW j \in Index, j \div W < g,
           \A i \in Index : i \div W < g - 1 => mix_out[i] = MixedColumns(in)[i]
    PROVE  Scattered(InvMixColumns(Gathered(in, g)), g)[j] = MixedColumns(in)[j]
<1>1. j \div W \in Int /\ g \in Int
    BY PlaceOf, WordFacts DEF WordIndex
<1>2. CASE j \div W = g - 1
    <2>1. j \div W + 1 = g
        BY <1>1, <1>2
    <2> QED
        BY <1>2, <2>1 DEF Scattered, MixedColumns
<1>3. CASE j \div W # g - 1
    <2>1. j \div W < g - 1
        BY <1>1, <1>3
    <2> QED
        BY <1>3, <2>1 DEF Scattered
<1> QED
    BY <1>2, <1>3

LEMMA ScatterHolds ==
    ASSUME EngineInv, EngineEdge, Scatter, intact'
    PROVE  Progress'
<1>a. In("INV_MIXCOLUMNS_1") /\ Latch /\ intact
    BY MixingOn DEF Scatter, EngineEdge
<1>b. PICK in \in Block : in = Decoded(job[1], job[2])[rnd]
    <2>1. rnd \in 0 .. Rounds
        BY <1>a, MixingOn, WordFacts
    <2> QED
        BY <1>a, <2>1, MixingOn, DecodedUnfolds
<1>1. mix_out' = Scattered(InvMixColumns(Gathered(in, grp)), grp)
    BY <1>a, <1>b DEF Latch, MIX_OUT, EngineInv, Progress
<1>2. \A j \in Index : j \div W < grp => mix_out'[j] = MixedColumns(in)[j]
    BY <1>a, <1>b, <1>1, MixingOn, WordScattered DEF WordsMixed
<1>3. CASE grp < W
    <2>1. state' = "INV_MIXCOLUMNS" /\ rnd' = rnd /\ grp' = grp + 1 /\ grp' - 1 = grp
        BY <1>3, <1>a, MixingOn, WordFacts DEF Scatter, Goto
    <2>2. SettledTo(rnd + 1)' /\ HoldsSum(rnd)'
        BY <1>a, <2>1, MixingOn DEF SettledTo, HoldsSum, Summed
    <2>3. WordsMixed(grp - 1)'
        BY <1>a, <1>b, <1>2, <2>1, MixingOn DEF WordsMixed
    <2> QED
        BY <2>1, <2>2, <2>3 DEF Progress, In
<1>4. CASE grp = W
    <2>1. state' = "INV_SHIFTROWS" /\ rnd' = rnd + 1 /\ rnd' # 1 /\ rnd' - 1 = rnd
        BY <1>4, <1>a, MixingOn, WordFacts DEF Scatter, Goto
    <2>2. SettledTo(rnd)' /\ addkey' = Expanded(job'[2])[rnd' - 1]
        BY <1>a, <2>1, MixingOn DEF SettledTo, HoldsSum
    <2>3. mix_out' = MixedColumns(in)
        <3>1. \A j \in Index : mix_out'[j] = MixedColumns(in)[j]
            BY <1>2, <1>4, PlaceOf, WordFacts DEF WordIndex
        <3>2. mix_out' \in Block /\ MixedColumns(in) \in Block
            BY MixedColumnsType, LatchedTypes, <1>a DEF EngineInv
        <3> QED
            BY <3>1, <3>2 DEF Block
    <2>4. mix_out' = Unmixed(job'[1], job'[2], rnd')
        BY <1>a, <1>b, <2>1, <2>3, MixingOn DEF Unmixed
    <2> QED
        BY <2>1, <2>2, <2>4 DEF Progress, In
<1> QED
    BY <1>3, <1>4 DEF Scatter

\* What stays from one round key's sum to the next.
LEMMA ReplacingOn ==
    ASSUME EngineInv, EngineEdge, In("INV_SHIFTROWS") \/ In("INV_SUBBYTES"), intact'
    PROVE  /\ intact /\ job' = job /\ rnd \in 1 .. Rounds
           /\ \A r \in 1 .. Rounds : r <= rnd + 1 => subword'[r] = SubRotWord(Expanded(job'[2])[r-1])
           /\ addkey' = addkey /\ addkey = Expanded(job[2])[rnd-1] /\ AddOut = Summed
<1>a. EngineTypeOK /\ Latch /\ RomEdge /\ Record /\ OnPath
    BY DEF EngineInv, EngineEdge
<1>b. intact /\ job' = job /\ Ciphertext = job[1] /\ Cipherkey = job[2]
    <2>1. Working
        BY DEF Working, Capture, In
    <2> QED
        BY <1>a, <2>1, WorkingOn
<1>c. rnd \in 1 .. Rounds /\ rnd \in Nat /\ SettledTo(rnd) /\ addkey = Expanded(job[2])[rnd-1]
    BY <1>a, <1>b DEF EngineInv, OnPath, Progress
<1>1. \A r \in 1 .. Rounds : r <= rnd + 1 => subword'[r] = SubRotWord(Expanded(job'[2])[r-1])
    BY <1>a, <1>b, <1>c, SettledOn
<1>2. ADD_IN = add_in /\ ADDKEY = addkey
    BY DEF ADD_IN, ADDKEY, In
<1> QED
    BY <1>a, <1>b, <1>c, <1>1, <1>2 DEF Latch, AddOut, Summed

LEMMA ShiftedHolds ==
    ASSUME EngineInv, EngineEdge, Shifted, intact'
    PROVE  Progress'
<1>a. In("INV_SHIFTROWS") /\ Latch /\ state' = "INV_SUBBYTES" /\ rnd' = rnd
    BY DEF Shifted, EngineEdge, Goto
<1>1. shift_in' = Unmixed(job'[1], job'[2], rnd')
    BY <1>a, ReplacingOn DEF Latch, SHIFT_IN, EngineInv, Progress
<1>2. SettledTo(rnd)' /\ addkey' = Expanded(job'[2])[rnd' - 1]
    BY <1>a, ReplacingOn DEF SettledTo
<1> QED
    BY <1>a, <1>1, <1>2 DEF Progress, In

LEMMA SubbedHolds ==
    ASSUME EngineInv, EngineEdge, Subbed, intact'
    PROVE  Progress'
<1>a. In("INV_SUBBYTES") /\ Latch /\ RomEdge /\ state' = "INV_ADDROUND" /\ rnd' = rnd + 1
    BY DEF Subbed, EngineEdge, Goto
<1>b. rnd' - 1 = rnd
    BY <1>a, ReplacingOn
<1>1. sub_out' = Replaced(job'[1], job'[2], rnd' - 1)
    BY <1>a, <1>b, ReplacingOn DEF RomEdge, SUB_IN, EngineInv, Progress, Replaced
<1>2. SettledTo(rnd)'
    BY <1>a, ReplacingOn DEF SettledTo
<1> QED
    BY <1>a, <1>1, <1>2 DEF Progress, In

LEMMA FinishedHolds ==
    ASSUME EngineInv, EngineEdge, Finished, intact'
    PROVE  Progress'
<1>a. In("FINISH") /\ Latch /\ Record /\ state' = "FINISH"
    BY DEF Finished, EngineEdge, Goto
<1>1. intact /\ job' = job
    BY <1>a DEF Record, Capture, Working, In
<1>2. add_in' = add_in /\ addkey' = addkey
    BY <1>a DEF Latch, ADD_IN, ADDKEY, In
<1> QED
    BY <1>a, <1>1, <1>2 DEF Progress, In, Summed, EngineInv

LEMMA EdgeHolds ==
    ASSUME EngineInv, EngineEdge, intact'
    PROVE  Progress'
<1>1. CASE Start \/ Idle
    <2>1. state' = "WAIT" \/ (state' = "INV_ADDROUND" /\ rnd' = 1)
        BY <1>1 DEF Start, Idle, Goto
    <2> QED
        BY <2>1 DEF Progress, In
<1> QED
    BY <1>1, FirstAdded, FurtherAdded, GatherHolds, ScatterHolds, ShiftedHolds, SubbedHolds, FinishedHolds
    DEF EngineEdge, NextState

\* No step leaves the invariant.
LEMMA EngineNext ==
    ASSUME EngineInv, [Next]_vars
    PROVE  EngineInv'
<1>1. CASE UNCHANGED vars
    BY <1>1 DEF vars, latches, roms, EngineInv, EngineTypeOK, SubwordTypeOK, OnPath, Progress,
        In, SettledTo, Summed, HoldsSum, WordsMixed
<1>2. ASSUME Next PROVE EngineTypeOK' /\ OnPath'
    BY <1>2, TypesHold DEF EngineInv
<1>3. ASSUME Next, intact' PROVE Progress'
    <2>1. CASE Edge
        BY <1>3, <2>1, EdgeHolds DEF Edge
    <2>2. CASE ~Edge
        <3>1. state' = "WAIT"
            BY <1>3, <2>2
            DEF Next, EdgeInReset, Reset, Release, Goto, EngineInv, OnPath, In
        <3> QED
            BY <3>1 DEF Progress, In
    <2> QED
        BY <2>1, <2>2
<1> QED
    BY <1>1, <1>2, <1>3 DEF EngineInv

\* Along every path, among inputs that move at will and resets.
THEOREM EngineInvariance == Spec => []EngineInv
BY InitHolds, EngineNext, PTL DEF Spec

-----------------------------------------------------------------------------
(* Where the engine is. *)

LEMMA StrideFacts ==
    /\ Stride \in Nat /\ Stride = 2 * W + 3
    /\ PathLength \in Nat /\ PathLength = 4 + Stride * (Rounds - 1)
    /\ \A r \in Int : Stride * r \in Int /\ Stride * (r + 1) = Stride * r + Stride
<1>1. Stride \in Nat /\ Stride = 2 * W + 3
    BY WordFacts DEF Stride
<1>2. (2 * W + 3) * (Rounds - 1) = 2 * W * (Rounds - 1) + 3 * (Rounds - 1)
    BY WordFacts
<1>3. 2 * W * (Rounds - 1) \in Int
    BY WordFacts
<1>4. PathLength = 4 + Stride * (Rounds - 1)
    BY <1>1, <1>2, <1>3, WordFacts DEF PathLength
<1>5. Stride * (Rounds - 1) \in Nat
    BY <1>1, WordFacts
<1>6. ASSUME NEW r \in Int PROVE Stride * r \in Int /\ Stride * (r + 1) = Stride * r + Stride
    BY <1>1
<1>7. PathLength \in Nat
    BY <1>4, <1>5
<1> HIDE DEF PathLength
<1> QED
    BY <1>1, <1>4, <1>6, <1>7

\* A round begins no earlier than the ones before it are over.
LEMMA StridesFit ==
    ASSUME NEW r \in Int, NEW last \in Int, r <= last
    PROVE  Stride * r <= Stride * last
BY StrideFacts, TimesMonotone

\* Between WAIT and FINISH the position lies on the path.
LEMMA PosFacts ==
    ASSUME EngineTypeOK, OnPath
    PROVE  /\ In("WAIT") => Pos = 0
           /\ In("FINISH") => Pos = PathLength + 1
           /\ Capture => Pos = 1
           /\ Working => Pos \in 2 .. PathLength
<1> USE WordFacts, StrideFacts
<1>1. In("WAIT") => Pos = 0
    BY DEF Pos, In
<1>2. In("FINISH") => Pos = PathLength + 1
    BY DEF Pos, In
<1>3. Capture => Pos = 1
    BY DEF Capture, Pos, In
<1>4. ASSUME Working, In("INV_ADDROUND") PROVE Pos \in 2 .. PathLength
    <2>1. rnd \in 2 .. Rounds + 1
        BY <1>4 DEF Working, Capture, OnPath, In
    <2>2. Stride * 0 <= Stride * (rnd - 2) /\ Stride * (rnd - 2) <= Stride * (Rounds - 1)
        BY <2>1, StridesFit
    <2>3. Pos = 4 + Stride * (rnd - 2)
        BY <1>4, <2>1 DEF Pos, In
    <2> QED
        BY <2>1, <2>2, <2>3
<1>5. ASSUME In("INV_MIXCOLUMNS") \/ In("INV_MIXCOLUMNS_1") PROVE Pos \in 2 .. PathLength
    <2>1. rnd \in 1 .. Rounds - 1 /\ grp \in 1 .. W
        BY <1>5 DEF OnPath
    <2>2. Stride * 0 <= Stride * (rnd - 1) /\ Stride * rnd <= Stride * (Rounds - 1)
        BY <2>1, StridesFit
    <2>3. Stride * ((rnd - 1) + 1) = Stride * (rnd - 1) + Stride /\ (rnd - 1) + 1 = rnd
        BY <2>1
    <2>4. Pos = 4 + Stride * (rnd - 1) + 2 * grp - 1 \/ Pos = 4 + Stride * (rnd - 1) + 2 * grp
        BY <1>5 DEF Pos, In
    <2>5. Stride * (rnd - 1) \in Int
        BY <2>1
    <2> QED
        BY <2>1, <2>2, <2>3, <2>4, <2>5
<1>6. ASSUME In("INV_SHIFTROWS") \/ In("INV_SUBBYTES") PROVE Pos \in 2 .. PathLength
    <2>1. rnd \in 1 .. Rounds
        BY <1>6 DEF OnPath
    <2>2. Stride * 0 <= Stride * (rnd - 1) /\ Stride * (rnd - 1) <= Stride * (Rounds - 1)
        BY <2>1, StridesFit
    <2>4. Pos = 2 + Stride * (rnd - 1) \/ Pos = 3 + Stride * (rnd - 1)
        BY <1>6 DEF Pos, In
    <2>5. Stride * (rnd - 1) \in Int
        BY <2>1
    <2> QED
        BY <2>1, <2>2, <2>4, <2>5
<1>7. Working => \/ In("INV_ADDROUND")
                 \/ In("INV_MIXCOLUMNS") \/ In("INV_MIXCOLUMNS_1")
                 \/ In("INV_SHIFTROWS") \/ In("INV_SUBBYTES")
    BY DEF EngineTypeOK, Working, In
<1> QED
    BY <1>1, <1>2, <1>3, <1>4, <1>5, <1>6, <1>7

\* From state to state the position grows by one.
LEMMA PosSteps ==
    ASSUME EngineTypeOK, OnPath, NextState
    PROVE  /\ In("WAIT") => Pos' = IF run THEN 1 ELSE 0
           /\ In("FINISH") => Pos' = Pos
           /\ Capture \/ Working => Pos' = Pos + 1
<1> USE WordFacts, StrideFacts
<1>1. CASE Start \/ Idle
    BY <1>1 DEF Start, Idle, Goto, Pos, In, Capture, Working
<1>2. CASE Added
    <2>a. In("INV_ADDROUND") /\ rnd \in 1 .. Rounds + 1 /\ 2 * W \in Nat
        BY <1>2 DEF Added, OnPath
    <2>1. CASE rnd = 1
        <3>1. state' = "INV_SHIFTROWS" /\ rnd' = 1 /\ Pos = 1 /\ Stride * 0 = 0
            BY <1>2, <2>1 DEF Added, Goto, Pos, In
        <3> QED
            BY <2>a, <3>1 DEF Pos, In
    <2>2. CASE rnd \in 2 .. Rounds
        <3>1. state' = "INV_MIXCOLUMNS" /\ rnd' = rnd - 1 /\ grp' = 1
            BY <1>2, <2>2 DEF Added, Goto
        <3>2. Pos = 4 + Stride * (rnd - 2)
            BY <2>a, <2>2 DEF Pos, In
        <3>3. Pos' = 4 + Stride * (rnd' - 1) + 2 * grp' - 1
            BY <3>1 DEF Pos, In
        <3>4. rnd' - 1 = rnd - 2 /\ Stride * (rnd - 2) \in Int
            BY <2>2, <3>1
        <3> QED
            BY <2>a, <3>1, <3>2, <3>3, <3>4 DEF In
    <2>3. CASE rnd = Rounds + 1
        <3>1. state' = "FINISH" /\ rnd - 2 = Rounds - 1
            BY <1>2, <2>3 DEF Added, Goto
        <3>2. Pos = 4 + Stride * (rnd - 2)
            BY <2>a, <2>3 DEF Pos, In
        <3>3. Pos' = PathLength + 1
            BY <3>1 DEF Pos, In
        <3> QED
            BY <2>a, <3>1, <3>2, <3>3 DEF In
    <2> QED
        BY <2>a, <2>1, <2>2, <2>3
<1>3. CASE Gather
    <2>1. In("INV_MIXCOLUMNS") /\ rnd \in 1 .. Rounds - 1 /\ grp \in 1 .. W
        BY <1>3 DEF Gather, OnPath
    <2>2. state' = "INV_MIXCOLUMNS_1" /\ rnd' = rnd /\ grp' = grp
        BY <1>3 DEF Gather, Goto
    <2>3. Pos = 4 + Stride * (rnd - 1) + 2 * grp - 1 /\ Pos' = 4 + Stride * (rnd - 1) + 2 * grp
        BY <2>1, <2>2 DEF Pos, In
    <2>4. Stride * (rnd - 1) \in Int
        BY <2>1
    <2> QED
        BY <2>1, <2>3, <2>4 DEF In
<1>4. CASE Scatter
    <2>1. In("INV_MIXCOLUMNS_1") /\ rnd \in 1 .. Rounds - 1 /\ grp \in 1 .. W
        BY <1>4 DEF Scatter, OnPath
    <2>2. Pos = 4 + Stride * (rnd - 1) + 2 * grp /\ Stride * (rnd - 1) \in Int
        BY <2>1 DEF Pos, In
    <2>3. CASE grp < W
        <3>1. state' = "INV_MIXCOLUMNS" /\ rnd' = rnd /\ grp' = grp + 1
            BY <1>4, <2>1, <2>3 DEF Scatter, Goto
        <3>2. Pos' = 4 + Stride * (rnd - 1) + 2 * (grp + 1) - 1
            BY <3>1 DEF Pos, In
        <3> QED
            BY <2>1, <2>2, <3>2 DEF In
    <2>4. CASE grp = W
        <3>1. state' = "INV_SHIFTROWS" /\ rnd' = rnd + 1 /\ rnd' - 1 = rnd
            BY <1>4, <2>1, <2>4 DEF Scatter, Goto
        <3>2. Pos' = 2 + Stride * rnd
            BY <3>1 DEF Pos, In
        <3>3. Stride * ((rnd - 1) + 1) = Stride * (rnd - 1) + Stride /\ (rnd - 1) + 1 = rnd
            BY <2>1
        <3> QED
            BY <2>1, <2>2, <2>4, <3>2, <3>3 DEF In
    <2> QED
        BY <1>4, <2>3, <2>4 DEF Scatter
<1>5. CASE Shifted
    <2>1. In("INV_SHIFTROWS") /\ rnd \in 1 .. Rounds /\ state' = "INV_SUBBYTES" /\ rnd' = rnd
        BY <1>5 DEF Shifted, OnPath, Goto
    <2>2. Pos = 2 + Stride * (rnd - 1) /\ Pos' = 3 + Stride * (rnd - 1) /\ Stride * (rnd - 1) \in Int
        BY <2>1 DEF Pos, In
    <2> QED
        BY <2>1, <2>2 DEF In
<1>6. CASE Subbed
    <2>1. /\ In("INV_SUBBYTES") /\ rnd \in 1 .. Rounds /\ state' = "INV_ADDROUND"
          /\ rnd' = rnd + 1 /\ rnd' # 1 /\ rnd' - 2 = rnd - 1
        BY <1>6 DEF Subbed, OnPath, Goto
    <2>2. Pos = 3 + Stride * (rnd - 1) /\ Pos' = 4 + Stride * (rnd' - 2) /\ Stride * (rnd - 1) \in Int
        BY <2>1 DEF Pos, In
    <2> QED
        BY <2>1, <2>2 DEF In
<1>7. CASE Finished
    BY <1>7 DEF Finished, Goto, Pos, In, Capture, Working
<1> QED
    BY <1>1, <1>2, <1>3, <1>4, <1>5, <1>6, <1>7 DEF NextState

-----------------------------------------------------------------------------
(* The theorems. *)

\* The types of the engine's registers and latches, whatever is at its
\* inputs: no state is ever entered with a number its name does not have.
THEOREM EngineTypeTheorem == Spec => []EngineTypeOK
<1>1. EngineInv => EngineTypeOK
    BY DEF EngineInv
<1> QED
    BY <1>1, EngineInvariance, PTL

\* No AddRoundKey meets a round key that is still changing.
LEMMA RoundKeysHold ==
    ASSUME EngineInv
    PROVE  RoundKeysHaveSettled
<1> SUFFICES ASSUME intact, Working, ~In("INV_ADDROUND")
             PROVE  addkey = Expanded(job[2])[IF In("INV_SHIFTROWS") \/ In("INV_SUBBYTES")
                                              THEN rnd - 1 ELSE rnd]
    BY DEF RoundKeysHaveSettled
<1>1. Progress
    BY DEF EngineInv
<1>2. CASE In("INV_SHIFTROWS") \/ In("INV_SUBBYTES")
    BY <1>1, <1>2 DEF Progress
<1>3. CASE ~(In("INV_SHIFTROWS") \/ In("INV_SUBBYTES"))
    <2>1. In("INV_MIXCOLUMNS") \/ In("INV_MIXCOLUMNS_1")
        BY <1>3 DEF EngineInv, EngineTypeOK, Working, In
    <2> QED
        BY <1>1, <1>3, <2>1 DEF Progress, HoldsSum
<1> QED
    BY <1>2, <1>3

\* Each AddRoundKey works with the settled round key of its job, for any
\* number of rounds: the pipeline of KeyExpansion.sv keeps ahead of
\* invAES.sv, which does not wait for it.
THEOREM RoundKeysTheorem == Spec => []RoundKeysHaveSettled
BY RoundKeysHold, EngineInvariance, PTL

\* The path is not empty and the result of a pair is a block: what
\* AesController asks of the engine's constants.
LEMMA EngineConstants == Result \in [Pair -> Block] /\ PathLength \in Nat \ {0}
<1>1. ASSUME NEW p \in Pair PROVE Decoded(p[1], p[2])[Rounds] \in Block
    <2>1. p[1] \in Block /\ p[2] \in Block /\ Rounds \in 0 .. Rounds
        BY WordFacts DEF Pair
    <2> QED
        BY <2>1, DecodedUnfolds
<1>2. PathLength \in Nat \ {0}
    <2>1. Stride * 0 <= Stride * (Rounds - 1)
        BY WordFacts, StridesFit
    <2> QED
        BY <2>1, StrideFacts, WordFacts
<1> QED
    BY <1>1, <1>2 DEF Result

\* What stands at the engine's outputs, as far as AesController tells.
LEMMA OutputsHold ==
    ASSUME EngineInv
    PROVE  OutputsOfTheEngine
<1>a. EngineTypeOK /\ OnPath
    BY DEF EngineInv
<1>1. Ready <=> A!AesDone
    <2>1. In("WAIT") \/ In("FINISH") \/ Capture \/ Working
        BY DEF Working
    <2>2. Ready <=> Pos = PathLength + 1
        <3>1. PathLength \in Nat /\ (In("FINISH") => Pos = PathLength + 1)
            BY <1>a, PosFacts, StrideFacts
        <3>2. In("WAIT") \/ Capture \/ Working => Pos # PathLength + 1
            <4>1. Pos \in 0 .. PathLength \/ ~(In("WAIT") \/ Capture \/ Working)
                BY <1>a, <3>1, PosFacts, StrideFacts, WordFacts
            <4> QED
                BY <3>1, <4>1
        <3> QED
            BY <2>1, <3>1, <3>2 DEF Ready
    <2> QED
        BY <2>2 DEF A!AesDone, A!Finish
<1>2. ASSUME A!AesDone, intact PROVE Plaintext = Result[job]
    <2>1. In("FINISH")
        BY <1>1, <1>2 DEF Ready
    <2>2. AddOut = Summed /\ Summed = Decoded(job[1], job[2])[Rounds]
        BY <1>2, <2>1 DEF EngineInv, Progress, AddOut, Summed, ADD_IN, ADDKEY, In
    <2>3. Result[job] = Decoded(job[1], job[2])[Rounds]
        BY <1>a, TypeParts DEF Result
    <2> QED
        BY <2>2, <2>3 DEF Plaintext
<1>3. Plaintext \in Block
    BY <1>a, LatchTypes DEF Plaintext
<1>4. Plaintext \in A!MsgDe
    BY <1>2, <1>3 DEF A!MsgDe, A!Block, A!Index, Block, Index
<1> QED
    BY <1>1, <1>4 DEF OutputsOfTheEngine

\* A clock edge out of reset is one of AesController's engine.
LEMMA EdgeIsAbstract ==
    ASSUME EngineInv, EngineEdge
    PROVE  A!EngineEdge(inputs)
<1>t. EngineTypeOK /\ OnPath
    BY DEF EngineInv
<1>a. ~held /\ NextState /\ Record
    BY DEF EngineEdge
<1>1. CASE In("WAIT")
    <2>1. UNCHANGED <<job, intact>>
        BY <1>1, <1>a, <1>t DEF Record, Capture, Working, In, EngineTypeOK
    <2>2. Pos = 0 /\ Pos' = IF run THEN 1 ELSE 0
        BY <1>t, <1>1, <1>a, PosFacts, PosSteps
    <2>3. CASE run
        <3>1. A!Leave
            BY <2>1, <2>2, <2>3 DEF A!Leave, A!StartAes
        <3> QED
            BY <3>1 DEF A!EngineEdge
    <2>4. CASE ~run
        <3>1. A!EngineHolds
            BY <2>1, <2>2, <2>4 DEF A!EngineHolds, A!StartAes
        <3> QED
            BY <3>1 DEF A!EngineEdge
    <2> QED
        BY <2>3, <2>4
<1>2. CASE In("FINISH")
    <2>1. UNCHANGED <<job, intact>>
        BY <1>2, <1>a, <1>t DEF Record, Capture, Working, In, EngineTypeOK
    <2>2. Pos = PathLength + 1 /\ Pos' = Pos
        BY <1>t, <1>2, <1>a, PosFacts, PosSteps
    <2>3. A!EngineHolds
        BY <2>1, <2>2 DEF A!EngineHolds, A!AesDone, A!Finish
    <2> QED
        BY <2>3 DEF A!EngineEdge
<1>3. CASE Capture
    <2>1. job' = inputs /\ intact' = TRUE
        BY <1>3, <1>a, <1>t DEF Record, Capture, Working, In, EngineTypeOK
    <2>2. Pos = 1 /\ Pos' = 1 + 1
        BY <1>t, <1>3, <1>a, PosFacts, PosSteps
    <2>3. A!Capture(inputs)
        BY <2>1, <2>2 DEF A!Capture
    <2> QED
        BY <2>3 DEF A!EngineEdge
<1>4. CASE Working
    <2>1. job' = job /\ intact' = (intact /\ inputs = job)
        BY <1>4, <1>a DEF Record, Working
    <2>2. Pos \in 2 .. PathLength /\ Pos' = Pos + 1
        BY <1>t, <1>4, <1>a, PosFacts, PosSteps
    <2>3. A!Compute(inputs)
        BY <2>1, <2>2 DEF A!Compute
    <2> QED
        BY <2>3 DEF A!EngineEdge
<1> QED
    BY <1>1, <1>2, <1>3, <1>4 DEF Working

\* The engine's outputs are those AesController gives it: Ready in its last
\* state alone, and there, if the inputs have not moved, the result of the
\* pair it started on, whatever its latches and ROM registers held before.
THEOREM OutputsTheorem == Spec => []OutputsOfTheEngine
BY OutputsHold, EngineInvariance, PTL

\* Every step is one of AesController's engine, or a reset's: it runs down
\* one path, one clock a state, and reads its inputs where that engine does.
THEOREM StepsTheorem == Spec => StepsOfTheEngine
<1> DEFINE Step == \/ ~held /\ A!EngineEdge(inputs)
                   \/ held' /\ Pos' = 0 /\ UNCHANGED <<job, intact>>
<1>1. ASSUME EngineInv, [Next]_vars PROVE [Step]_<<Pos, job, intact>>
    <2>a. EngineTypeOK /\ OnPath
        BY <1>1 DEF EngineInv
    <2>1. CASE EngineEdge
        BY <1>1, <2>1, EdgeIsAbstract DEF EngineEdge
    <2>2. CASE Reset
        BY <2>2 DEF Reset, Goto, Pos, In
    <2>3. CASE EdgeInReset \/ Release \/ UNCHANGED vars
        BY <2>3 DEF EdgeInReset, Release, vars, Pos, In
    <2> QED
        BY <1>1, <2>1, <2>2, <2>3 DEF Next, Edge
<1> QED
    BY <1>1, EngineInvariance, PTL DEF Spec, StepsOfTheEngine

=============================================================================

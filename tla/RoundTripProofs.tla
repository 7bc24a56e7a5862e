-------------------------- MODULE RoundTripProofs --------------------------
(***************************************************************************)
(* Theorems of a message's way through both halves, for every size, every  *)
(* message and every key: the two key schedules agree if their tables do,  *)
(* the hardware's parts undo the software's rounds if the tables and the   *)
(* products fit, and three connections between those parts are what keeps  *)
(* the engine from undoing all of them.                                    *)
(***************************************************************************)
EXTENDS RoundTrip, InvAesEngineProofs

-----------------------------------------------------------------------------
(* The software's words and blocks are the hardware's. *)

LEMMA SameBlocks ==
    /\ S!Word = Word /\ S!WordIndex = WordIndex
    /\ S!Block = Block /\ S!Index = Index /\ S!ZeroBlock = ZeroBlock
    /\ S!Nk = W
BY DEF S!Word, Word, S!WordIndex, WordIndex, S!Block, Block, S!Index, Index, S!ZeroBlock, ZeroBlock, S!Nk

LEMMA XorType == \A a, b \in Byte : ByteXor(a, b) \in Byte
BY WordAssumption

LEMMA WordXorType ==
    ASSUME NEW a \in Word, NEW b \in Word
    PROVE  S!WordXor(a, b) \in Word
BY SameBlocks, XorType DEF S!WordXor, Word

\* The word that every W-th one of the schedule meets.
Core(word, r) == S!WordXor(S!SubWord(S!RotWord(word)), S!RconWord(r))

LEMMA CoreValue ==
    ASSUME NEW word \in Word, NEW r \in 0 .. Rounds-1
    PROVE  /\ Core(word, r) \in Word
           /\ \A q \in WordIndex :
                 Core(word, r)[q] = ByteXor(sbox[word[(q + 1) % W]], IF q = 0 THEN RconTop[r] ELSE Zero)
<1>1. \A q \in WordIndex : (q + 1) % W \in WordIndex
    BY WordFacts, AroundTheWord DEF WordIndex
<1>2. S!RotWord(word) = [q \in WordIndex |-> word[(q + 1) % W]]
    BY SameBlocks DEF S!RotWord
<1>3. S!SubWord(S!RotWord(word)) = [q \in WordIndex |-> sbox[word[(q + 1) % W]]]
    BY <1>2, SameBlocks DEF S!SubWord
<1>4. S!RconWord(r) = [q \in WordIndex |-> IF q = 0 THEN RconTop[r] ELSE Zero]
    BY SameBlocks DEF S!RconWord
<1>5. Core(word, r) =
          [q \in WordIndex |-> ByteXor(sbox[word[(q + 1) % W]], IF q = 0 THEN RconTop[r] ELSE Zero)]
    BY <1>3, <1>4, SameBlocks DEF Core, S!WordXor
<1>6. \A q \in WordIndex : sbox[word[(q + 1) % W]] \in Byte
    BY <1>1, TableAssumption DEF Word
<1>7. \A q \in WordIndex : (IF q = 0 THEN RconTop[r] ELSE Zero) \in Byte
    BY TableAssumption, BlockAssumption
<1> QED
    BY <1>5, <1>6, <1>7, XorType DEF Word

-----------------------------------------------------------------------------
(* The words of the schedule, as far as they are there. *)

AllWords == W * (Rounds + 1)
Filled   == IF sw_pc = "expand" THEN n ELSE AllWords

\* The first W words are the key's; each further one is made of two before it.
FirstWords == \A i \in 0 .. Filled-1 : i < W => \A q \in WordIndex : w[i][q] = cipher_key[W * i + q]
Grown(i)   == w[i] = S!WordXor(w[i - W], IF i % W = 0 THEN Core(w[i-1], i \div W - 1) ELSE w[i-1])
LaterWords == \A i \in 0 .. Filled-1 : i >= W => Grown(i)

WordsTyped == n \in 0 .. AllWords /\ cipher_key \in Keys /\ w \in [0 .. Filled-1 -> Word]
ScheduleInv == WordsTyped /\ FirstWords /\ LaterWords

LEMMA AllWordsFacts == AllWords \in Nat /\ W <= AllWords /\ AllWords = W * Rounds + W
<1>1. W * (Rounds + 1) = W * Rounds + W /\ W * Rounds \in Nat
    BY WordFacts
<1> QED
    BY <1>1, WordFacts DEF AllWords

LEMMA CoreNumber ==
    ASSUME NEW i \in W .. AllWords-1, i % W = 0
    PROVE  i \div W - 1 \in 0 .. Rounds-1
<1>1. i \in Nat /\ i \div W \in Int /\ i = W * (i \div W)
    <2>1. i \in Nat
        BY WordFacts, AllWordsFacts
    <2>2. i \div W \in Int /\ i = W * (i \div W) + (i % W)
        BY <2>1, WordFacts
    <2>3. W * (i \div W) \in Int
        BY <2>2, WordFacts
    <2> QED
        BY <2>1, <2>2, <2>3
<1> PICK d \in Int : d = i \div W
    BY <1>1
<1>2. i = W * d
    BY <1>1
<1>3. d >= 1
    <2> SUFFICES ASSUME d <= 0 PROVE FALSE
        OBVIOUS
    <2>1. W * d <= W * 0
        BY WordFacts, TimesMonotone
    <2> QED
        BY <1>2, <2>1, WordFacts
<1>4. d <= Rounds
    <2> SUFFICES ASSUME Rounds + 1 <= d PROVE FALSE
        BY WordFacts
    <2>1. W * (Rounds + 1) <= W * d
        BY WordFacts, TimesMonotone
    <2>2. W * (Rounds + 1) = AllWords
        BY DEF AllWords
    <2> QED
        BY <1>2, <2>1, <2>2, AllWordsFacts
<1> QED
    BY <1>3, <1>4, WordFacts

LEMMA InitSchedule == TripInit => ScheduleInv
<1> SUFFICES ASSUME TripInit PROVE ScheduleInv
    OBVIOUS
<1>1. sw_pc = "expand" /\ n = 0 /\ cipher_key \in Keys /\ w = <<>>
    BY DEF TripInit, S!EncryptInit
<1>2. Filled = 0
    BY <1>1 DEF Filled
<1>3. w \in [0 .. Filled-1 -> Word]
    <2>1. 0 .. Filled-1 = {} /\ DOMAIN w = {} /\ w = [i \in DOMAIN w |-> w[i]]
        BY <1>1, <1>2
    <2> QED
        BY <2>1
<1>4. WordsTyped
    BY <1>1, <1>3, AllWordsFacts DEF WordsTyped
<1>5. FirstWords /\ LaterWords
    BY <1>2 DEF FirstWords, LaterWords
<1> QED
    BY <1>4, <1>5 DEF ScheduleInv

\* A word that is put after those that are there.
LEMMA AppendHolds ==
    ASSUME ScheduleInv, sw_pc = "expand", sw_pc' = "expand", n < AllWords, n' = n + 1,
           UNCHANGED cipher_key, NEW word \in Word,
           w' = [k \in 0 .. n |-> IF k = n THEN word ELSE w[k]],
           n < W => \A q \in WordIndex : word[q] = cipher_key[W * n + q],
           n >= W => word = S!WordXor(w[n - W], IF n % W = 0 THEN Core(w[n-1], n \div W - 1) ELSE w[n-1])
    PROVE  ScheduleInv'
<1>1. n \in Nat /\ Filled = n /\ Filled' = n + 1 /\ W \in Nat /\ W > 0
    BY WordFacts, AllWordsFacts DEF ScheduleInv, WordsTyped, Filled
<1>2. /\ w \in [0 .. n-1 -> Word]
      /\ \A i \in 0 .. n-1 : i < W => \A q \in WordIndex : w[i][q] = cipher_key[W * i + q]
      /\ \A i \in 0 .. n-1 : i >= W => Grown(i)
    BY <1>1 DEF ScheduleInv, WordsTyped, FirstWords, LaterWords
<1>3. \A i \in 0 .. n : w'[i] = IF i = n THEN word ELSE w[i]
    OBVIOUS
<1>4. w' \in [0 .. n -> Word]
    <2>1. \A i \in 0 .. n : i # n => i \in 0 .. n-1
        BY <1>1
    <2> QED
        BY <1>2, <2>1
<1>5. ASSUME NEW i \in 0 .. n, i < W, NEW q \in WordIndex
      PROVE  w'[i][q] = cipher_key[W * i + q]
    <2>1. CASE i = n
        BY <1>3, <1>5, <2>1
    <2>2. CASE i # n
        <3>1. i \in 0 .. n-1
            BY <1>1, <2>2
        <3> QED
            BY <1>2, <1>3, <1>5, <2>2, <3>1
    <2> QED
        BY <2>1, <2>2
<1>6. ASSUME NEW i \in 0 .. n, i >= W
      PROVE  w'[i] = S!WordXor(w'[i - W], IF i % W = 0 THEN Core(w'[i-1], i \div W - 1) ELSE w'[i-1])
    <2>1. i - W \in 0 .. n-1 /\ i - 1 \in 0 .. n-1
        BY <1>1, <1>6
    <2>2. w'[i - W] = w[i - W] /\ w'[i-1] = w[i-1]
        BY <1>1, <1>3, <2>1
    <2>3. w'[i] = S!WordXor(w[i - W], IF i % W = 0 THEN Core(w[i-1], i \div W - 1) ELSE w[i-1])
        <3>1. CASE i = n
            BY <1>3, <1>6, <3>1
        <3>2. CASE i # n
            <4>1. i \in 0 .. n-1
                BY <1>1, <3>2
            <4>2. Grown(i) /\ w'[i] = w[i]
                BY <1>2, <1>3, <1>6, <3>2, <4>1
            <4> QED
                BY <4>2 DEF Grown
        <3> QED
            BY <3>1, <3>2
    <2> QED
        BY <2>2, <2>3
<1>8. WordsTyped'
    <2>1. n' \in 0 .. AllWords
        BY <1>1, AllWordsFacts
    <2>2. w' \in [0 .. (Filled' - 1) -> Word]
        BY <1>1, <1>4
    <2> QED
        BY <2>1, <2>2 DEF WordsTyped, ScheduleInv
<1>9. FirstWords'
    <2> SUFFICES ASSUME NEW i \in 0 .. (Filled' - 1), i < W, NEW q \in WordIndex
                 PROVE  w'[i][q] = cipher_key'[W * i + q]
        BY DEF FirstWords
    <2>1. i \in 0 .. n
        BY <1>1
    <2> QED
        BY <1>5, <2>1
<1>10. LaterWords'
    <2> SUFFICES ASSUME NEW i \in 0 .. (Filled' - 1), i >= W
                 PROVE  w'[i] = S!WordXor(w'[i - W], IF i % W = 0 THEN Core(w'[i-1], i \div W - 1) ELSE w'[i-1])
        BY DEF LaterWords, Grown
    <2>1. i \in 0 .. n
        BY <1>1
    <2> QED
        BY <1>6, <2>1
<1> QED
    BY <1>8, <1>9, <1>10 DEF ScheduleInv

LEMMA CopyHolds == ScheduleInv /\ S!CopyKeyWord => ScheduleInv'
<1> SUFFICES ASSUME ScheduleInv, S!CopyKeyWord PROVE ScheduleInv'
    OBVIOUS
<1> DEFINE word == [q \in WordIndex |-> cipher_key[W * n + q]]
<1>1. sw_pc = "expand" /\ sw_pc' = "expand" /\ n < W /\ n' = n + 1 /\ UNCHANGED cipher_key
    BY SameBlocks DEF S!CopyKeyWord
<1>2. w' = [k \in 0 .. n |-> IF k = n THEN word ELSE w[k]]
    BY SameBlocks DEF S!CopyKeyWord, S!Append
<1>3. n \in Nat /\ n \in WordIndex /\ cipher_key \in Block /\ n < AllWords
    BY <1>1, WordFacts, AllWordsFacts, TableAssumption DEF ScheduleInv, WordsTyped, WordIndex
<1>4. word \in Word
    BY <1>3, Places DEF Word, Block
<1>5. \A q \in WordIndex : word[q] = cipher_key[W * n + q]
    OBVIOUS
<1> HIDE DEF word
<1>6. ~(n >= W)
    BY <1>1, <1>3, WordFacts
<1> QED
    BY <1>1, <1>2, <1>3, <1>4, <1>5, <1>6, AppendHolds

LEMMA ExpandHolds == ScheduleInv /\ S!ExpandWord => ScheduleInv'
<1> SUFFICES ASSUME ScheduleInv, S!ExpandWord PROVE ScheduleInv'
    OBVIOUS
<1> DEFINE temp == IF n % W = 0 THEN Core(w[n-1], n \div W - 1) ELSE w[n-1]
           word == S!WordXor(w[n - W], temp)
<1>1. sw_pc = "expand" /\ sw_pc' = "expand" /\ n \in W .. AllWords-1 /\ n' = n + 1 /\ UNCHANGED cipher_key
    BY SameBlocks DEF S!ExpandWord, AllWords
<1>2. w' = [k \in 0 .. n |-> IF k = n THEN word ELSE w[k]]
    BY SameBlocks DEF S!ExpandWord, S!Append, Core
<1>3. n \in Nat /\ W \in Nat /\ W > 0 /\ n >= W /\ n < AllWords /\ Filled = n
    BY <1>1, WordFacts, AllWordsFacts DEF Filled
<1>4. w \in [0 .. n-1 -> Word] /\ n - 1 \in 0 .. n-1 /\ n - W \in 0 .. n-1
    BY <1>3 DEF ScheduleInv, WordsTyped
<1>5. temp \in Word
    <2>1. CASE n % W = 0
        <3>1. n \div W - 1 \in 0 .. Rounds-1
            BY <1>1, <2>1, CoreNumber
        <3>2. w[n-1] \in Word
            BY <1>4
        <3> QED
            BY <2>1, <3>1, <3>2, CoreValue
    <2>2. CASE n % W # 0
        BY <1>4, <2>2
    <2> QED
        BY <2>1, <2>2
<1>6. word \in Word
    <2>1. w[n - W] \in Word
        BY <1>4
    <2> HIDE DEF temp
    <2> QED
        BY <1>5, <2>1, WordXorType
<1>7. n >= W => word = S!WordXor(w[n - W], IF n % W = 0 THEN Core(w[n-1], n \div W - 1) ELSE w[n-1])
    OBVIOUS
<1> HIDE DEF word
<1>8. ~(n < W)
    BY <1>3
<1> QED
    BY <1>1, <1>2, <1>3, <1>6, <1>7, <1>8, AppendHolds

\* From then on the words stay.
LEMMA ScheduleStays ==
    ASSUME ScheduleInv, n' \in 0 .. AllWords, Filled' = Filled, UNCHANGED <<cipher_key, w>>
    PROVE  ScheduleInv'
<1>1. WordsTyped' /\ FirstWords'
    BY DEF ScheduleInv, WordsTyped, FirstWords
<1>2. LaterWords'
    BY DEF ScheduleInv, LaterWords, Grown
<1> QED
    BY <1>1, <1>2 DEF ScheduleInv

-----------------------------------------------------------------------------
(* Types of the rounds. *)

\* The byte of a column from which MixColumns starts to sum up byte j, and
\* the k-th after it.
ColumnByte(s, j, k) == s[W * (j \div W) + (((j % W) + k) % W)]
MixTerm(s, j, k) ==
    CASE k = 0 -> xtime(ColumnByte(s, j, 0), 2)
      [] k = 1 -> xtime(ColumnByte(s, j, 1), 3)
      [] OTHER -> ColumnByte(s, j, k)

LEMMA ColumnByteType ==
    ASSUME NEW s \in Block, NEW j \in Index, NEW k \in WordIndex
    PROVE  ColumnByte(s, j, k) \in Byte
<1>1. j \div W \in WordIndex /\ (j % W) + k \in Int
    BY PlaceOf, WordFacts DEF WordIndex
<1>2. ((j % W) + k) % W \in WordIndex
    BY <1>1, AroundTheWord
<1> QED
    BY <1>1, <1>2, Places DEF ColumnByte, Block

LEMMA MixColumnsUnfolds ==
    ASSUME NEW s \in Block, NEW j \in Index
    PROVE  \E terms \in [WordIndex -> Byte], f \in [WordIndex -> Byte] :
              /\ \A k \in WordIndex : terms[k] = MixTerm(s, j, k)
              /\ \A k \in WordIndex : f[k] = IF k = 0 THEN terms[0] ELSE ByteXor(f[k-1], terms[k])
              /\ S!MixColumns(s)[j] = f[W-1]
<1> DEFINE a(x) == [k \in WordIndex |-> s[W * (x \div W) + (((x % W) + k) % W)]]
           Unfolds(f, x) == f = [k \in WordIndex |->
                                   CASE k = 0 -> xtime(a(x)[0], 2)
                                     [] k = 1 -> ByteXor(f[0], xtime(a(x)[1], 3))
                                     [] OTHER -> ByteXor(f[k-1], a(x)[k])]
           chosen(x) == CHOOSE f : Unfolds(f, x)
<1>1. S!MixColumns(s) = [x \in Index |-> chosen(x)[W-1]]
    BY SameBlocks DEF S!MixColumns
<1>a. WordIndex = 0 .. W-1 /\ W \in Nat /\ 0 \in WordIndex
    BY WordFacts DEF WordIndex
<1>2. \A k \in WordIndex : a(j)[k] = ColumnByte(s, j, k) /\ ColumnByte(s, j, k) \in Byte
    BY ColumnByteType DEF ColumnByte
<1>3. PICK terms \in [WordIndex -> Byte] : \A k \in WordIndex : terms[k] = MixTerm(s, j, k)
    <2>1. \A k \in WordIndex : MixTerm(s, j, k) \in Byte
        BY <1>2, TableAssumption DEF MixTerm
    <2>2. [k \in WordIndex |-> MixTerm(s, j, k)] \in [WordIndex -> Byte]
        BY <2>1
    <2> QED
        BY <2>2
<1>4. chosen(j) = CHOOSE f : IsSum(f, terms)
    <2>1. ASSUME NEW f PROVE Unfolds(f, j) <=> IsSum(f, terms)
        <3>1. ASSUME NEW k \in WordIndex
              PROVE  (CASE k = 0 -> xtime(a(j)[0], 2)
                        [] k = 1 -> ByteXor(f[0], xtime(a(j)[1], 3))
                        [] OTHER -> ByteXor(f[k-1], a(j)[k]))
                      = IF k = 0 THEN terms[0] ELSE ByteXor(f[k-1], terms[k])
            <4> HIDE DEF a
            <4>1. CASE k = 0
                BY <1>2, <1>3, <1>a, <4>1 DEF MixTerm
            <4>2. CASE k = 1
                BY <1>2, <1>3, <1>a, <4>2 DEF MixTerm
            <4>3. CASE k # 0 /\ k # 1
                BY <1>2, <1>3, <1>a, <4>3 DEF MixTerm
            <4> QED
                BY <4>1, <4>2, <4>3
        <3> HIDE DEF a
        <3>2. [k \in WordIndex |-> CASE k = 0 -> xtime(a(j)[0], 2)
                                     [] k = 1 -> ByteXor(f[0], xtime(a(j)[1], 3))
                                     [] OTHER -> ByteXor(f[k-1], a(j)[k])]
                  = [k \in WordIndex |-> IF k = 0 THEN terms[0] ELSE ByteXor(f[k-1], terms[k])]
            BY <3>1, Zenon
        <3> QED
            BY <3>2 DEF IsSum
    <2> HIDE DEF Unfolds
    <2> QED
        BY <2>1
<1>5. PICK f : f = chosen(j)
    OBVIOUS
<1>6. /\ f \in [WordIndex -> Byte]
      /\ \A k \in WordIndex : f[k] = IF k = 0 THEN terms[0] ELSE ByteXor(f[k-1], terms[k])
    <2> HIDE DEF chosen
    <2>1. f = CHOOSE g : IsSum(g, terms)
        BY <1>4, <1>5
    <2> QED
        BY <2>1, SumChosen
<1>7. S!MixColumns(s)[j] = f[W-1]
    BY <1>1, <1>5
<1> HIDE DEF chosen
<1> QED
    BY <1>3, <1>6, <1>7

LEMMA MixColumnsType ==
    ASSUME NEW s \in Block
    PROVE  S!MixColumns(s) \in Block
<1>1. ASSUME NEW j \in Index PROVE S!MixColumns(s)[j] \in Byte
    <2>1. W - 1 \in WordIndex
        BY WordFacts DEF WordIndex
    <2> QED
        BY <2>1, MixColumnsUnfolds
<1>2. S!MixColumns(s) = [j \in Index |-> S!MixColumns(s)[j]]
    BY SameBlocks DEF S!MixColumns
<1> QED
    BY <1>1, <1>2 DEF Block

LEMMA SubBytesType ==
    ASSUME NEW s \in Block
    PROVE  S!SubBytes(s) \in Block
BY SameBlocks, TableAssumption DEF S!SubBytes, Block

LEMMA ShiftRowsType ==
    ASSUME NEW s \in Block
    PROVE  S!ShiftRows(s) \in Block
<1> SUFFICES ASSUME NEW j \in Index
             PROVE  s[W * (((j \div W) + (j % W)) % W) + (j % W)] \in Byte
    BY SameBlocks DEF S!ShiftRows, Block
<1>1. j % W \in WordIndex /\ (j \div W) + (j % W) \in Int
    BY PlaceOf, WordFacts DEF WordIndex
<1>2. ((j \div W) + (j % W)) % W \in WordIndex
    BY <1>1, AroundTheWord
<1> QED
    BY <1>1, <1>2, Places DEF Block

\* The words of round key r.
LEMMA KeyPlace ==
    ASSUME NEW r \in 0 .. Rounds, NEW i \in WordIndex
    PROVE  W * r + i \in 0 .. AllWords-1
<1>1. W * r <= W * Rounds
    BY WordFacts, TimesMonotone
<1>2. W * r \in Nat /\ i \in 0 .. W-1
    BY WordFacts DEF WordIndex
<1> QED
    BY <1>1, <1>2, WordFacts, AllWordsFacts

LEMMA KeyBytesType ==
    ASSUME WordsTyped, sw_pc # "expand", NEW r \in 0 .. Rounds, NEW j \in Index
    PROVE  w[W * r + (j \div W)][j % W] \in Byte
<1>1. w \in [0 .. AllWords-1 -> Word]
    BY DEF WordsTyped, Filled
<1>2. j \div W \in WordIndex /\ j % W \in WordIndex
    BY PlaceOf
<1>3. W * r + (j \div W) \in 0 .. AllWords-1
    BY <1>2, KeyPlace
<1> QED
    BY <1>1, <1>2, <1>3 DEF Word

LEMMA SoftwareRoundKeyType ==
    ASSUME WordsTyped, sw_pc # "expand", NEW s \in Block, NEW r \in 0 .. Rounds
    PROVE  S!AddRoundKey(s, r) \in Block
<1> SUFFICES ASSUME NEW j \in Index PROVE ByteXor(s[j], w[W * r + (j \div W)][j % W]) \in Byte
    BY SameBlocks DEF S!AddRoundKey, Block
<1> QED
    BY KeyBytesType, XorType DEF Block

-----------------------------------------------------------------------------
(* The invariant. *)

TripInv ==
    /\ sw_pc \in {"expand", "start", "rounds", "done"}
    /\ ScheduleInv
    /\ sw_pc = "rounds" => n \in 0 .. Rounds
    /\ pairs_hex \in Messages
    /\ block \in Block

TripNext == Encrypt \/ HandOver \/ Decrypt

LEMMA InitTrip == TripInit => TripInv
<1> SUFFICES ASSUME TripInit PROVE TripInv
    OBVIOUS
<1>1. sw_pc = "expand" /\ pairs_hex \in Messages /\ block = ZeroBlock
    BY SameBlocks DEF TripInit, S!EncryptInit
<1>2. ZeroBlock \in Block
    BY BlockAssumption DEF ZeroBlock, Block
<1> QED
    BY <1>1, <1>2, InitSchedule DEF TripInv

LEMMA StepTrip == TripInv /\ [TripNext]_tripVars => TripInv'
<1> SUFFICES ASSUME TripInv, [TripNext]_tripVars PROVE TripInv'
    OBVIOUS
<1>0. sw_pc # "expand" => Filled = AllWords
    BY DEF Filled
<1>r. Rounds \in 0 .. AllWords /\ AllWords \in Nat /\ Rounds \in Nat /\ Rounds > 0
    <2>1. 1 <= W
        BY WordFacts
    <2>2. Rounds * 1 <= Rounds * W
        BY <2>1, WordFacts, TimesMonotone
    <2>3. Rounds * W = W * Rounds
        BY WordFacts
    <2> QED
        BY <2>2, <2>3, WordFacts, AllWordsFacts
<1>1. CASE S!CopyKeyWord
    <2>1. UNCHANGED <<sw_pc, pairs_hex, block>> /\ sw_pc = "expand"
        BY <1>1 DEF S!CopyKeyWord
    <2> QED
        BY <1>1, <2>1, CopyHolds DEF TripInv
<1>2. CASE S!ExpandWord
    <2>1. UNCHANGED <<sw_pc, pairs_hex, block>> /\ sw_pc = "expand"
        BY <1>2 DEF S!ExpandWord
    <2> QED
        BY <1>2, <2>1, ExpandHolds DEF TripInv
<1>3. CASE S!Expanded
    <2>1. /\ UNCHANGED <<cipher_key, w, pairs_hex, block>>
          /\ sw_pc = "expand" /\ sw_pc' = "start" /\ n' = 0 /\ n = AllWords
        BY <1>3 DEF S!Expanded, AllWords
    <2>2. Filled' = Filled
        BY <2>1 DEF Filled, AllWords
    <2> QED
        BY <1>r, <2>1, <2>2, ScheduleStays DEF TripInv
<1>4. CASE S!StartAes
    <2>1. /\ UNCHANGED <<cipher_key, w, pairs_hex>>
          /\ sw_pc = "start" /\ sw_pc' = "rounds" /\ n' = 1 /\ block' = S!AddRoundKey(pairs_hex, 0)
        BY <1>4 DEF S!StartAes
    <2>2. Filled' = Filled
        BY <2>1 DEF Filled, AllWords
    <2>3. pairs_hex \in Block /\ 0 \in 0 .. Rounds
        BY <1>r, TableAssumption DEF TripInv
    <2>4. block' \in Block
        BY <2>1, <2>3, SoftwareRoundKeyType DEF TripInv, ScheduleInv
    <2> QED
        BY <1>r, <2>1, <2>2, <2>4, ScheduleStays DEF TripInv
<1>5. CASE S!Round
    <2>1. /\ UNCHANGED <<cipher_key, w, pairs_hex, sw_pc>>
          /\ sw_pc = "rounds" /\ n < Rounds /\ n' = n + 1
          /\ block' = S!AddRoundKey(S!MixColumns(S!ShiftRows(S!SubBytes(block))), n)
        BY <1>5 DEF S!Round
    <2>2. Filled' = Filled
        BY <2>1 DEF Filled, AllWords
    <2>3. n \in 0 .. Rounds /\ n' \in 0 .. Rounds /\ n' \in 0 .. AllWords
        BY <1>r, <2>1 DEF TripInv
    <2>4. S!MixColumns(S!ShiftRows(S!SubBytes(block))) \in Block
        BY SubBytesType, ShiftRowsType, MixColumnsType DEF TripInv
    <2>5. block' \in Block
        BY <2>1, <2>3, <2>4, SoftwareRoundKeyType DEF TripInv, ScheduleInv
    <2> QED
        BY <2>1, <2>2, <2>3, <2>5, ScheduleStays DEF TripInv
<1>6. CASE S!LastRound
    <2>1. /\ UNCHANGED <<cipher_key, w, pairs_hex, n>>
          /\ sw_pc = "rounds" /\ sw_pc' = "done"
          /\ block' = S!AddRoundKey(S!ShiftRows(S!SubBytes(block)), Rounds)
        BY <1>6 DEF S!LastRound
    <2>2. Filled' = Filled
        BY <2>1 DEF Filled, AllWords
    <2>3. Rounds \in 0 .. Rounds /\ n' \in 0 .. AllWords
        BY <1>r, <2>1 DEF TripInv, ScheduleInv, WordsTyped
    <2>4. S!ShiftRows(S!SubBytes(block)) \in Block
        BY SubBytesType, ShiftRowsType DEF TripInv
    <2>5. block' \in Block
        BY <2>1, <2>3, <2>4, SoftwareRoundKeyType DEF TripInv, ScheduleInv
    <2> QED
        BY <2>1, <2>2, <2>3, <2>5, ScheduleStays DEF TripInv
<1>7. CASE UNCHANGED softVars
    <2>1. UNCHANGED <<cipher_key, w, pairs_hex, n, sw_pc, block>>
        BY <1>7 DEF softVars
    <2>2. Filled' = Filled
        BY <2>1 DEF Filled, AllWords
    <2> QED
        BY <2>1, <2>2, ScheduleStays DEF TripInv, ScheduleInv, WordsTyped
<1>8. CASE Encrypt
    BY <1>1, <1>2, <1>3, <1>4, <1>5, <1>6, <1>8 DEF Encrypt, S!Encrypting
<1>9. HandOver \/ Decrypt \/ UNCHANGED tripVars => UNCHANGED softVars
    BY DEF HandOver, Decrypt, tripVars
<1> QED
    BY <1>7, <1>8, <1>9 DEF TripNext

\* What the software and the engine do together keeps the invariant.
THEOREM TripInvariance == TripSpec => []TripInv
<1>1. TripInit => TripInv
    BY InitTrip
<1>2. TripInv /\ [TripNext]_tripVars => TripInv'
    BY StepTrip
<1>3. [Encrypt \/ HandOver \/ Decrypt]_tripVars => [TripNext]_tripVars
    BY DEF TripNext
<1> QED
    BY <1>1, <1>2, <1>3, PTL DEF TripSpec

\* The software's part is of its types: its loops fill key_expansion from the
\* first word to the last and never read a word that is not there, for blocks
\* of every size and any number of rounds.
THEOREM TripTypeTheorem == TripSpec => []TripTypeOK
<1>1. TripInv => TripTypeOK
    <2> SUFFICES ASSUME TripInv PROVE TripTypeOK
        OBVIOUS
    <2>1. w \in [0 .. (IF sw_pc = "expand" THEN n ELSE W * (Rounds + 1)) - 1 -> Word]
        BY DEF TripInv, ScheduleInv, WordsTyped, Filled, AllWords
    <2>2. n \in 0 .. (IF sw_pc = "rounds" THEN Rounds ELSE W * (Rounds + 1)) /\ cipher_key \in Keys
        BY DEF TripInv, ScheduleInv, WordsTyped, AllWords
    <2> QED
        BY <2>1, <2>2, SameBlocks DEF TripInv, TripTypeOK, S!SoftwareTypeOK
<1> QED
    BY <1>1, TripInvariance, PTL

-----------------------------------------------------------------------------
(* The two key schedules. *)

LEMMA PlaceParts ==
    ASSUME NEW i \in WordIndex, NEW q \in WordIndex
    PROVE  (W * i + q) \div W = i /\ (W * i + q) % W = q
<1>1. W \in Nat /\ W > 0 /\ i \in Nat /\ q \in 0 .. W-1
    BY WordFacts DEF WordIndex
<1>2. W * i \in Nat
    BY <1>1
<1> QED
    BY <1>1, <1>2

LEMMA SoftwareKeyType ==
    ASSUME WordsTyped, sw_pc # "expand", NEW r \in 0 .. Rounds
    PROVE  SoftwareKey(r) \in Block
BY KeyBytesType DEF SoftwareKey, Block

\* Round key r meets the one before it, byte by byte.
LEMMA SoftwareKeyUnfolds ==
    ASSUME ScheduleInv, sw_pc # "expand", SchedulesFit, XorFits,
           NEW r \in 1 .. Rounds, NEW j \in Index
    PROVE  SoftwareKey(r)[j] =
               ByteXor(SoftwareKey(r-1)[j],
                       IF j < W THEN (IF j = 0 THEN ByteXor(SubRotWord(SoftwareKey(r-1))[0], Rcon[r])
                                               ELSE SubRotWord(SoftwareKey(r-1))[j])
                                ELSE SoftwareKey(r)[j - W])
<1> PICK i \in WordIndex, q \in WordIndex : i = j \div W /\ q = j % W /\ j = W * i + q
    BY PlaceOf
<1> PICK k \in Nat : k = W * r + i
    BY WordFacts DEF WordIndex
<1>a. i \in 0 .. W-1 /\ q \in 0 .. W-1 /\ W \in Nat /\ W > 0 /\ r \in Nat /\ r >= 1 /\ r <= Rounds
    BY WordFacts DEF WordIndex
<1>b. W * (r-1) = W * r - W /\ W * r \in Nat /\ W * (r-1) \in Nat
    BY <1>a
<1>1. k \in 0 .. AllWords-1 /\ k >= W /\ k - W = W * (r-1) + i
    <2>1. r \in 0 .. Rounds
        BY <1>a
    <2> QED
        BY <1>a, <1>b, <2>1, KeyPlace
<1>2. k % W = i /\ k \div W = r
    BY <1>a, <1>b
<1>3. w \in [0 .. AllWords-1 -> Word] /\ Grown(k)
    BY <1>1 DEF ScheduleInv, WordsTyped, Filled, LaterWords
<1>4. k - W \in 0 .. AllWords-1 /\ k - 1 \in 0 .. AllWords-1
    <2>1. k \in Nat /\ AllWords \in Nat /\ k <= AllWords - 1 /\ k >= W
        BY <1>1, AllWordsFacts
    <2> QED
        BY <1>a, <2>1
<1> DEFINE temp == IF k % W = 0 THEN Core(w[k-1], k \div W - 1) ELSE w[k-1]
<1>5. w[k][q] = ByteXor(w[k-W][q], temp[q])
    BY <1>3, SameBlocks DEF Grown, S!WordXor
<1>6. SoftwareKey(r)[j] = w[k][q] /\ SoftwareKey(r-1)[j] = w[k-W][q]
    BY <1>1 DEF SoftwareKey
<1>7. CASE i = 0
    <2>1. j = q /\ j < W /\ (j = 0 <=> q = 0)
        <3>1. W * i = 0
            BY <1>7, <1>a
        <3> QED
            BY <3>1, <1>a
    <2>2. k % W = 0 /\ k \div W - 1 = r - 1 /\ r - 1 \in 0 .. Rounds-1
        <3>1. r - 1 \in 0 .. Rounds-1
            BY <1>a, WordFacts
        <3>2. k % W = 0 /\ k \div W = r
            BY <1>2, <1>7
        <3> QED
            BY <3>1, <3>2
    <2>3. temp[q] = ByteXor(sbox[w[k-1][(q + 1) % W]], IF q = 0 THEN RconTop[r-1] ELSE Zero)
        BY <1>3, <1>4, <2>2, CoreValue
    <2>4. SubRotWord(SoftwareKey(r-1))[q] = Sub[w[k-1][(q + 1) % W]]
        <3>1. (q + 1) % W \in WordIndex /\ W - 1 \in WordIndex
            BY <1>a, AroundTheWord DEF WordIndex
        <3> PICK p \in WordIndex : p = (q + 1) % W
            BY <3>1
        <3>2. W * (W-1) + p \in Index /\ (W * (W-1) + p) \div W = W - 1 /\ (W * (W-1) + p) % W = p
            BY <3>1, Places, PlaceParts
        <3>3. SoftwareKey(r-1)[W * (W-1) + p] = w[W * (r-1) + (W-1)][p]
            BY <3>2 DEF SoftwareKey
        <3>4. W * (r-1) + (W-1) = k - 1
            BY <1>7, <1>a, <1>b, <1>1
        <3> QED
            BY <3>3, <3>4 DEF SubRotWord
    <2>5. sbox[w[k-1][(q + 1) % W]] \in Byte
        <3>1. (q + 1) % W \in WordIndex
            BY <1>a, AroundTheWord
        <3>2. w[k-1][(q + 1) % W] \in Byte
            BY <1>3, <1>4, <3>1 DEF Word
        <3> QED
            BY <3>2, TableAssumption
    <2>6. RconTop[r-1] = Rcon[r] /\ sbox = Sub /\ \A b \in Byte : ByteXor(b, Zero) = b
        BY DEF SchedulesFit, XorFits
    <2> HIDE DEF temp
    <2>7. temp[q] = IF q = 0 THEN ByteXor(SubRotWord(SoftwareKey(r-1))[0], Rcon[r])
                             ELSE SubRotWord(SoftwareKey(r-1))[q]
        BY <2>3, <2>4, <2>5, <2>6
    <2> QED
        BY <1>5, <1>6, <2>1, <2>7
<1>8. CASE i # 0
    <2>1. ~(j < W) /\ j - W = W * (i-1) + q
        <3>1. i - 1 \in Nat /\ W * i = W * (i-1) + W /\ W * (i-1) >= 0
            BY <1>8, <1>a
        <3> QED
            BY <1>a, <3>1
    <2>2. temp = w[k-1]
        BY <1>2, <1>8
    <2>3. SoftwareKey(r)[j - W] = w[k-1][q]
        <3>1. i - 1 \in WordIndex
            BY <1>8, <1>a DEF WordIndex
        <3> PICK h \in WordIndex : h = i - 1
            BY <3>1
        <3>2. W * h + q \in Index
            BY Places
        <3>3. (W * h + q) \div W = h /\ (W * h + q) % W = q
            BY PlaceParts
        <3>4. SoftwareKey(r)[W * h + q] = w[W * r + h][q]
            BY <3>2, <3>3 DEF SoftwareKey
        <3>5. W * r + h = k - 1
            BY <1>a, <1>b
        <3> QED
            BY <2>1, <3>4, <3>5
    <2> HIDE DEF temp
    <2> QED
        BY <1>5, <1>6, <2>1, <2>2, <2>3
<1> QED
    BY <1>7, <1>8

\* What is made of a round key as NewKey makes it is NewKey.
LEMMA NewKeyUnique ==
    ASSUME NEW old \in Block, NEW sub \in Word, NEW rcon \in Byte, NEW new \in Block,
           \A j \in Index : new[j] = ByteXor(old[j], IF j < W THEN (IF j = 0 THEN ByteXor(sub[0], rcon) ELSE sub[j])
                                                              ELSE new[j - W])
    PROVE  new = NewKey(old, sub, rcon)
<1> DEFINE key == NewKey(old, sub, rcon)
           wrong == {j \in Index : new[j] # key[j]}
<1>1. /\ key \in Block
      /\ \A j \in Index : key[j] = ByteXor(old[j], IF j < W THEN (IF j = 0 THEN ByteXor(sub[0], rcon) ELSE sub[j])
                                                           ELSE key[j - W])
    BY NewKeyUnfolds
<1> HIDE DEF key
<1>2. wrong = {}
    <2> SUFFICES ASSUME wrong # {} PROVE FALSE
        OBVIOUS
    <2>1. wrong \in SUBSET Nat
        BY BlockAssumption DEF Index
    <2>2. PICK j \in wrong : \A i \in wrong : j <= i
        BY <2>1, LeastExists
    <2>3. ~(j < W) => j - W \in Index /\ j - W \notin wrong
        BY <2>2, WordFacts, BlockAssumption DEF Index
    <2>4. ~(j < W) => new[j - W] = key[j - W]
        BY <2>3
    <2>5. new[j] = key[j]
        BY <1>1, <2>2, <2>4
    <2> QED
        BY <2>2, <2>5
<1>3. new = key
    BY <1>1, <1>2 DEF Block
<1> QED
    BY <1>3 DEF key

\* keyexpansion.c and KeyExpansion.sv expand every key to the same round
\* keys, whatever the sizes and the number of rounds, if they share the S-box
\* and the round constants: the one word by word in software's order, the
\* other as a chain of modules.
THEOREM SchedulesTheorem ==
    ASSUME SchedulesFit, XorFits
    PROVE  TripSpec => []SchedulesAgree
<1>1. TripInv => SchedulesAgree
    <2> SUFFICES ASSUME TripInv, sw_pc # "expand"
                 PROVE  /\ SoftwareKey(0) = cipher_key
                        /\ \A r \in 1 .. Rounds :
                              SoftwareKey(r) = NewKey(SoftwareKey(r-1), SubRotWord(SoftwareKey(r-1)), Rcon[r])
        BY DEF SchedulesAgree
    <2>1. ScheduleInv /\ WordsTyped /\ cipher_key \in Block /\ Filled = AllWords
        BY TableAssumption DEF TripInv, ScheduleInv, WordsTyped, Filled
    <2>2. SoftwareKey(0) = cipher_key
        <3>1. ASSUME NEW j \in Index PROVE w[W * 0 + (j \div W)][j % W] = cipher_key[j]
            <4> PICK i \in WordIndex, q \in WordIndex : i = j \div W /\ q = j % W /\ j = W * i + q
                BY PlaceOf
            <4>1. i \in 0 .. AllWords-1 /\ i < W /\ W * 0 + i = i
                BY WordFacts, AllWordsFacts DEF WordIndex
            <4> QED
                BY <2>1, <4>1 DEF ScheduleInv, FirstWords
        <3> QED
            BY <2>1, <3>1 DEF SoftwareKey, Block
    <2>3. ASSUME NEW r \in 1 .. Rounds
          PROVE  SoftwareKey(r) = NewKey(SoftwareKey(r-1), SubRotWord(SoftwareKey(r-1)), Rcon[r])
        <3>1. r \in 0 .. Rounds /\ r - 1 \in 0 .. Rounds
            BY WordFacts
        <3>2. SoftwareKey(r) \in Block /\ SoftwareKey(r-1) \in Block
            BY <2>1, <3>1, SoftwareKeyType
        <3>3. SubRotWord(SoftwareKey(r-1)) \in Word
            BY <3>2, SubRotWordType
        <3>4. Rcon[r] \in Byte
            BY RomAssumption
        <3>5. \A j \in Index : SoftwareKey(r)[j] =
                ByteXor(SoftwareKey(r-1)[j],
                        IF j < W THEN (IF j = 0 THEN ByteXor(SubRotWord(SoftwareKey(r-1))[0], Rcon[r])
                                                ELSE SubRotWord(SoftwareKey(r-1))[j])
                                 ELSE SoftwareKey(r)[j - W])
            BY <2>1, SoftwareKeyUnfolds
        <3> QED
            BY <3>2, <3>3, <3>4, <3>5, NewKeyUnique
    <2> QED
        BY <2>2, <2>3
<1> QED
    BY <1>1, TripInvariance, PTL

-----------------------------------------------------------------------------
(* The hardware's parts undo the software's, each its own. *)

LEMMA Substituted ==
    ASSUME SubstitutionsFit, NEW s \in Block
    PROVE  InvSubBytes(S!SubBytes(s)) = s
BY SameBlocks DEF SubstitutionsFit, InvSubBytes, S!SubBytes, Block

LEMMA RowsShiftedBack ==
    ASSUME NEW s \in Block
    PROVE  InvShiftRows(S!ShiftRows(s)) = s
<1>1. ASSUME NEW j \in Index PROVE InvShiftRows(S!ShiftRows(s))[j] = s[j]
    <2> PICK i \in WordIndex, q \in WordIndex : i = j \div W /\ q = j % W /\ j = W * i + q
        BY PlaceOf
    <2>a. W \in Nat /\ W > 0 /\ i \in 0 .. W-1 /\ q \in 0 .. W-1
        BY WordFacts DEF WordIndex
    <2>1. (i - q) % W \in WordIndex
        BY <2>a, AroundTheWord
    <2> PICK x \in WordIndex : x = (i - q) % W
        BY <2>1
    <2>2. W * x + q \in Index /\ (W * x + q) \div W = x /\ (W * x + q) % W = q
        BY Places, PlaceParts
    <2>3. (x + q) % W = i
        <3>1. x = i - q \/ x = (i - q) + W
            <4>1. CASE i >= q
                BY <2>a, <4>1
            <4>2. CASE i < q
                BY <2>a, <4>2
            <4> QED
                BY <2>a, <4>1, <4>2
        <3>2. x + q = i \/ x + q = i + W
            BY <2>a, <3>1
        <3> QED
            BY <2>a, <3>2
    <2>4. InvShiftRows(S!ShiftRows(s))[j] = S!ShiftRows(s)[W * x + q]
        BY DEF InvShiftRows
    <2>5. S!ShiftRows(s)[W * x + q] = s[W * ((x + q) % W) + q]
        BY <2>2, SameBlocks DEF S!ShiftRows
    <2> QED
        BY <2>3, <2>4, <2>5
<1>2. InvShiftRows(S!ShiftRows(s)) \in Block
    BY ShiftRowsType, InvShiftRowsType
<1> QED
    BY <1>1, <1>2 DEF Block

\* A key that is added twice is gone.
LEMMA AddedTwice ==
    ASSUME XorFits, WordsTyped, sw_pc # "expand", NEW s \in Block, NEW r \in 0 .. Rounds
    PROVE  S!AddRoundKey(S!AddRoundKey(s, r), r) = s
<1>1. ASSUME NEW j \in Index PROVE S!AddRoundKey(S!AddRoundKey(s, r), r)[j] = s[j]
    <2> DEFINE k == w[W * r + (j \div W)][j % W]
    <2>1. k \in Byte /\ s[j] \in Byte
        BY KeyBytesType DEF Block
    <2>2. S!AddRoundKey(S!AddRoundKey(s, r), r)[j] = ByteXor(ByteXor(s[j], k), k)
        BY SameBlocks DEF S!AddRoundKey
    <2> HIDE DEF k
    <2> QED
        BY <2>1, <2>2 DEF XorFits
<1>2. S!AddRoundKey(S!AddRoundKey(s, r), r) \in Block
    BY SoftwareRoundKeyType
<1> QED
    BY <1>1, <1>2 DEF Block

Sum(a, b, c, d) == ByteXor(ByteXor(ByteXor(a, b), c), d)

LEMMA SumType == \A a, b, c, d \in Byte : Sum(a, b, c, d) \in Byte
BY XorType DEF Sum

LEMMA Middle ==
    ASSUME XorFits, NEW a \in Byte, NEW b \in Byte, NEW c \in Byte, NEW d \in Byte
    PROVE  ByteXor(ByteXor(a, b), ByteXor(c, d)) = ByteXor(ByteXor(a, c), ByteXor(b, d))
<1>1. \A x, y \in Byte : ByteXor(x, y) = ByteXor(y, x)
    BY DEF XorFits
<1>2. \A x, y, z \in Byte : ByteXor(ByteXor(x, y), z) = ByteXor(x, ByteXor(y, z))
    BY DEF XorFits
<1>3. ByteXor(ByteXor(a, b), ByteXor(c, d)) = ByteXor(a, ByteXor(b, ByteXor(c, d)))
    BY <1>2, XorType
<1>4. ByteXor(b, ByteXor(c, d)) = ByteXor(ByteXor(b, c), d)
    BY <1>2
<1>5. ByteXor(ByteXor(b, c), d) = ByteXor(ByteXor(c, b), d)
    BY <1>1
<1>6. ByteXor(ByteXor(c, b), d) = ByteXor(c, ByteXor(b, d))
    BY <1>2
<1>7. ByteXor(ByteXor(a, c), ByteXor(b, d)) = ByteXor(a, ByteXor(c, ByteXor(b, d)))
    BY <1>2, XorType
<1> QED
    BY <1>3, <1>4, <1>5, <1>6, <1>7

FourBytes == [0 .. 3 -> Byte]
Total(f)  == Sum(f[0], f[1], f[2], f[3])

LEMMA FourOfThem ==
    ASSUME NEW f \in FourBytes
    PROVE  f[0] \in Byte /\ f[1] \in Byte /\ f[2] \in Byte /\ f[3] \in Byte
BY DEF FourBytes

\* Two sums added are the sum of what was added up.
LEMMA SumOfTwo ==
    ASSUME XorFits, NEW a \in FourBytes, NEW b \in FourBytes
    PROVE  ByteXor(Total(a), Total(b)) = Total([k \in 0 .. 3 |-> ByteXor(a[k], b[k])])
<1>1. a[0] \in Byte /\ a[1] \in Byte /\ b[0] \in Byte /\ b[1] \in Byte
    BY FourOfThem
<1>2. a[2] \in Byte /\ b[2] \in Byte
    BY FourOfThem
<1>3. a[3] \in Byte /\ b[3] \in Byte
    BY FourOfThem
<1>4. ByteXor(ByteXor(a[0], a[1]), ByteXor(b[0], b[1])) = ByteXor(ByteXor(a[0], b[0]), ByteXor(a[1], b[1]))
    BY <1>1, Middle
<1> PICK a2 \in Byte, b2 \in Byte : a2 = ByteXor(a[0], a[1]) /\ b2 = ByteXor(b[0], b[1])
    BY <1>1, XorType
<1>5. ByteXor(ByteXor(a2, a[2]), ByteXor(b2, b[2])) = ByteXor(ByteXor(a2, b2), ByteXor(a[2], b[2]))
    BY <1>2, Middle
<1> PICK a3 \in Byte, b3 \in Byte : a3 = ByteXor(a2, a[2]) /\ b3 = ByteXor(b2, b[2])
    BY <1>2, XorType
<1>6. ByteXor(ByteXor(a3, a[3]), ByteXor(b3, b[3])) = ByteXor(ByteXor(a3, b3), ByteXor(a[3], b[3]))
    BY <1>3, Middle
<1> QED
    BY <1>4, <1>5, <1>6 DEF Sum, Total

\* Four sums of four, added up the other way.
LEMMA SumOfSums ==
    ASSUME XorFits, NEW m0 \in FourBytes, NEW m1 \in FourBytes, NEW m2 \in FourBytes, NEW m3 \in FourBytes
    PROVE  Sum(Total(m0), Total(m1), Total(m2), Total(m3))
             = Sum(Sum(m0[0], m1[0], m2[0], m3[0]), Sum(m0[1], m1[1], m2[1], m3[1]),
                   Sum(m0[2], m1[2], m2[2], m3[2]), Sum(m0[3], m1[3], m2[3], m3[3]))
<1> DEFINE s1 == [k \in 0 .. 3 |-> ByteXor(m0[k], m1[k])]
           s2 == [k \in 0 .. 3 |-> ByteXor(s1[k], m2[k])]
           s3 == [k \in 0 .. 3 |-> ByteXor(s2[k], m3[k])]
<1>1. s1 \in FourBytes
    BY XorType DEF FourBytes
<1>2. s2 \in FourBytes
    <2> HIDE DEF s1
    <2> QED
        BY <1>1, XorType DEF FourBytes
<1>4. ByteXor(Total(m0), Total(m1)) = Total(s1)
    BY SumOfTwo
<1>5. ByteXor(Total(s1), Total(m2)) = Total(s2)
    <2> HIDE DEF s1
    <2> QED
        BY <1>1, SumOfTwo
<1>6. ByteXor(Total(s2), Total(m3)) = Total(s3)
    <2> HIDE DEF s2
    <2> QED
        BY <1>2, SumOfTwo
<1>7. Sum(Total(m0), Total(m1), Total(m2), Total(m3)) = Total(s3)
    <2> HIDE DEF s1, s2, s3
    <2> QED
        BY <1>4, <1>5, <1>6 DEF Sum
<1>8. \A k \in 0 .. 3 : s3[k] = Sum(m0[k], m1[k], m2[k], m3[k])
    BY DEF Sum
<1> HIDE DEF s3
<1> QED
    BY <1>7, <1>8 DEF Total

LEMMA SumTurned ==
    ASSUME XorFits, NEW a \in Byte, NEW b \in Byte, NEW c \in Byte, NEW d \in Byte
    PROVE  Sum(a, b, c, d) = Sum(d, a, b, c)
<1>1. \A x, y \in Byte : ByteXor(x, y) = ByteXor(y, x)
    BY DEF XorFits
<1>2. \A x, y, z \in Byte : ByteXor(ByteXor(x, y), z) = ByteXor(x, ByteXor(y, z))
    BY DEF XorFits
<1> PICK ab \in Byte, abc \in Byte : ab = ByteXor(a, b) /\ abc = ByteXor(ab, c)
    BY XorType
<1>3. ByteXor(abc, d) = ByteXor(d, abc)
    BY <1>1
<1>4. ByteXor(d, ByteXor(ab, c)) = ByteXor(ByteXor(d, ab), c)
    BY <1>2
<1>5. ByteXor(d, ByteXor(a, b)) = ByteXor(ByteXor(d, a), b)
    BY <1>2
<1> QED
    BY <1>3, <1>4, <1>5 DEF Sum

\* A sum may start at any of its four.
LEMMA TotalTurned ==
    ASSUME XorFits, NEW f \in FourBytes
    PROVE  /\ Sum(f[1], f[2], f[3], f[0]) = Total(f)
           /\ Sum(f[2], f[3], f[0], f[1]) = Total(f)
           /\ Sum(f[3], f[0], f[1], f[2]) = Total(f)
<1>a. f[0] \in Byte /\ f[1] \in Byte /\ f[2] \in Byte /\ f[3] \in Byte
    BY FourOfThem
<1>1. Sum(f[1], f[2], f[3], f[0]) = Sum(f[0], f[1], f[2], f[3])
    BY <1>a, SumTurned
<1>2. Sum(f[2], f[3], f[0], f[1]) = Sum(f[1], f[2], f[3], f[0])
    BY <1>a, SumTurned
<1>3. Sum(f[0], f[1], f[2], f[3]) = Sum(f[3], f[0], f[1], f[2])
    BY <1>a, SumTurned
<1> QED
    BY <1>1, <1>2, <1>3 DEF Total

\* A multiplier of the hardware takes a sum of the software's apart.
LEMMA MulOfTotal ==
    ASSUME ProductsFit, NEW i \in WordIndex, NEW f \in FourBytes
    PROVE  /\ [k \in 0 .. 3 |-> Mul[i][f[k]]] \in FourBytes
           /\ Mul[i][Total(f)] = Total([k \in 0 .. 3 |-> Mul[i][f[k]]])
<1>1. \A x, y \in Byte : Mul[i][ByteXor(x, y)] = ByteXor(Mul[i][x], Mul[i][y])
    BY DEF ProductsFit
<1>a. f[0] \in Byte /\ f[1] \in Byte /\ f[2] \in Byte /\ f[3] \in Byte
    BY FourOfThem
<1> PICK ab \in Byte, abc \in Byte : ab = ByteXor(f[0], f[1]) /\ abc = ByteXor(ab, f[2])
    BY <1>a, XorType
<1>2. Mul[i][ByteXor(abc, f[3])] = ByteXor(Mul[i][abc], Mul[i][f[3]])
    BY <1>1, <1>a
<1>3. Mul[i][ByteXor(ab, f[2])] = ByteXor(Mul[i][ab], Mul[i][f[2]])
    BY <1>1, <1>a
<1>4. Mul[i][ByteXor(f[0], f[1])] = ByteXor(Mul[i][f[0]], Mul[i][f[1]])
    BY <1>1, <1>a
<1>5. [k \in 0 .. 3 |-> Mul[i][f[k]]] \in FourBytes
    BY DataPathAssumption DEF FourBytes
<1> QED
    BY <1>2, <1>3, <1>4, <1>5 DEF Sum, Total

\* What the four multipliers make of the rows, where each column of products
\* adds up to 0 but for the first.
LEMMA ProductsAddUp ==
    ASSUME XorFits, ProductsFit, NEW b \in Byte,
           NEW r0 \in FourBytes, NEW r1 \in FourBytes, NEW r2 \in FourBytes, NEW r3 \in FourBytes,
           Sum(Mul[0][r0[0]], Mul[1][r1[0]], Mul[2][r2[0]], Mul[3][r3[0]]) = b,
           Sum(Mul[0][r0[1]], Mul[1][r1[1]], Mul[2][r2[1]], Mul[3][r3[1]]) = Zero,
           Sum(Mul[0][r0[2]], Mul[1][r1[2]], Mul[2][r2[2]], Mul[3][r3[2]]) = Zero,
           Sum(Mul[0][r0[3]], Mul[1][r1[3]], Mul[2][r2[3]], Mul[3][r3[3]]) = Zero
    PROVE  Sum(Mul[0][Total(r0)], Mul[1][Total(r1)], Mul[2][Total(r2)], Mul[3][Total(r3)]) = b
<1>w. 0 \in WordIndex /\ 1 \in WordIndex /\ 2 \in WordIndex /\ 3 \in WordIndex
    BY DEF ProductsFit, WordIndex
<1> DEFINE m0 == [k \in 0 .. 3 |-> Mul[0][r0[k]]]
           m1 == [k \in 0 .. 3 |-> Mul[1][r1[k]]]
           m2 == [k \in 0 .. 3 |-> Mul[2][r2[k]]]
           m3 == [k \in 0 .. 3 |-> Mul[3][r3[k]]]
<1>0. m0 \in FourBytes /\ Mul[0][Total(r0)] = Total(m0)
    BY <1>w, MulOfTotal
<1>1. m1 \in FourBytes /\ Mul[1][Total(r1)] = Total(m1)
    BY <1>w, MulOfTotal
<1>2. m2 \in FourBytes /\ Mul[2][Total(r2)] = Total(m2)
    BY <1>w, MulOfTotal
<1>3. m3 \in FourBytes /\ Mul[3][Total(r3)] = Total(m3)
    BY <1>w, MulOfTotal
<1>4. /\ Sum(m0[0], m1[0], m2[0], m3[0]) = b /\ Sum(m0[1], m1[1], m2[1], m3[1]) = Zero
      /\ Sum(m0[2], m1[2], m2[2], m3[2]) = Zero /\ Sum(m0[3], m1[3], m2[3], m3[3]) = Zero
    OBVIOUS
<1> HIDE DEF m0, m1, m2, m3
<1>5. Sum(Total(m0), Total(m1), Total(m2), Total(m3)) = Sum(b, Zero, Zero, Zero)
    BY <1>0, <1>1, <1>2, <1>3, <1>4, SumOfSums
<1>6. Sum(b, Zero, Zero, Zero) = b
    BY DEF XorFits, Sum
<1> QED
    BY <1>0, <1>1, <1>2, <1>3, <1>5, <1>6

\* Four bytes of a mixed column, from the one in place on, where e is twice
\* d and t three times d: what InvMixColumns sums up of them is the byte.
LEMMA ProductsOfMixed ==
    ASSUME XorFits, ProductsFit,
           NEW d \in FourBytes, NEW e \in FourBytes, NEW t \in FourBytes,
           \A k \in 0 .. 3 :
               /\ Sum(Mul[0][e[k]], Mul[1][d[k]], Mul[2][d[k]], Mul[3][t[k]]) = d[k]
               /\ Sum(Mul[0][t[k]], Mul[1][e[k]], Mul[2][d[k]], Mul[3][d[k]]) = Zero
               /\ Sum(Mul[0][d[k]], Mul[1][t[k]], Mul[2][e[k]], Mul[3][d[k]]) = Zero
               /\ Sum(Mul[0][d[k]], Mul[1][d[k]], Mul[2][t[k]], Mul[3][e[k]]) = Zero
    PROVE  Sum(Mul[0][Sum(e[0], t[1], d[2], d[3])], Mul[1][Sum(e[1], t[2], d[3], d[0])],
               Mul[2][Sum(e[2], t[3], d[0], d[1])], Mul[3][Sum(e[3], t[0], d[1], d[2])]) = d[0]
<1> DEFINE r0 == [k \in 0 .. 3 |-> IF k = 0 THEN e[0] ELSE IF k = 1 THEN t[1] ELSE d[k]]
           r1 == [k \in 0 .. 3 |-> IF k = 1 THEN e[1] ELSE IF k = 2 THEN t[2] ELSE d[k]]
           r2 == [k \in 0 .. 3 |-> IF k = 2 THEN e[2] ELSE IF k = 3 THEN t[3] ELSE d[k]]
           r3 == [k \in 0 .. 3 |-> IF k = 3 THEN e[3] ELSE IF k = 0 THEN t[0] ELSE d[k]]
<1>1. r0 \in FourBytes /\ r1 \in FourBytes /\ r2 \in FourBytes /\ r3 \in FourBytes
    BY DEF FourBytes
<1>2. /\ r0[0] = e[0] /\ r0[1] = t[1] /\ r0[2] = d[2] /\ r0[3] = d[3]
      /\ r1[0] = d[0] /\ r1[1] = e[1] /\ r1[2] = t[2] /\ r1[3] = d[3]
      /\ r2[0] = d[0] /\ r2[1] = d[1] /\ r2[2] = e[2] /\ r2[3] = t[3]
      /\ r3[0] = t[0] /\ r3[1] = d[1] /\ r3[2] = d[2] /\ r3[3] = e[3]
    OBVIOUS
<1> HIDE DEF r0, r1, r2, r3
<1>3. Sum(Mul[0][r0[0]], Mul[1][r1[0]], Mul[2][r2[0]], Mul[3][r3[0]]) = d[0]
    BY <1>2
<1>4. Sum(Mul[0][r0[1]], Mul[1][r1[1]], Mul[2][r2[1]], Mul[3][r3[1]]) = Zero
    BY <1>2
<1>5. Sum(Mul[0][r0[2]], Mul[1][r1[2]], Mul[2][r2[2]], Mul[3][r3[2]]) = Zero
    BY <1>2
<1>6. Sum(Mul[0][r0[3]], Mul[1][r1[3]], Mul[2][r2[3]], Mul[3][r3[3]]) = Zero
    BY <1>2
<1>7. d[0] \in Byte
    BY FourOfThem
<1>8. Sum(Mul[0][Total(r0)], Mul[1][Total(r1)], Mul[2][Total(r2)], Mul[3][Total(r3)]) = d[0]
    BY <1>1, <1>3, <1>4, <1>5, <1>6, <1>7, ProductsAddUp
<1>9. Total(r0) = Sum(e[0], t[1], d[2], d[3])
    BY <1>2 DEF Total
<1>10. Total(r1) = Sum(e[1], t[2], d[3], d[0])
    BY <1>1, <1>2, TotalTurned
<1>11. Total(r2) = Sum(e[2], t[3], d[0], d[1])
    BY <1>1, <1>2, TotalTurned
<1>12. Total(r3) = Sum(e[3], t[0], d[1], d[2])
    BY <1>1, <1>2, TotalTurned
<1> QED
    BY <1>8, <1>9, <1>10, <1>11, <1>12

LEMMA ProductsCancel ==
    ASSUME XorFits, ProductsFit, NEW d \in FourBytes
    PROVE  Sum(Mul[0][Sum(xtime(d[0], 2), xtime(d[1], 3), d[2], d[3])],
               Mul[1][Sum(xtime(d[1], 2), xtime(d[2], 3), d[3], d[0])],
               Mul[2][Sum(xtime(d[2], 2), xtime(d[3], 3), d[0], d[1])],
               Mul[3][Sum(xtime(d[3], 2), xtime(d[0], 3), d[1], d[2])]) = d[0]
<1> DEFINE e == [k \in 0 .. 3 |-> xtime(d[k], 2)]
           t == [k \in 0 .. 3 |-> xtime(d[k], 3)]
<1>1. e \in FourBytes /\ t \in FourBytes
    BY TableAssumption DEF FourBytes
<1>2. \A b \in Byte :
          /\ Sum(Mul[0][xtime(b, 2)], Mul[1][b], Mul[2][b], Mul[3][xtime(b, 3)]) = b
          /\ Sum(Mul[0][xtime(b, 3)], Mul[1][xtime(b, 2)], Mul[2][b], Mul[3][b]) = Zero
          /\ Sum(Mul[0][b], Mul[1][xtime(b, 3)], Mul[2][xtime(b, 2)], Mul[3][b]) = Zero
          /\ Sum(Mul[0][b], Mul[1][b], Mul[2][xtime(b, 3)], Mul[3][xtime(b, 2)]) = Zero
    BY DEF ProductsFit, Sum
<1>3. \A k \in 0 .. 3 : d[k] \in Byte /\ e[k] = xtime(d[k], 2) /\ t[k] = xtime(d[k], 3)
    BY DEF FourBytes
<1> HIDE DEF e, t
<1>4. \A k \in 0 .. 3 :
          /\ Sum(Mul[0][e[k]], Mul[1][d[k]], Mul[2][d[k]], Mul[3][t[k]]) = d[k]
          /\ Sum(Mul[0][t[k]], Mul[1][e[k]], Mul[2][d[k]], Mul[3][d[k]]) = Zero
          /\ Sum(Mul[0][d[k]], Mul[1][t[k]], Mul[2][e[k]], Mul[3][d[k]]) = Zero
          /\ Sum(Mul[0][d[k]], Mul[1][d[k]], Mul[2][t[k]], Mul[3][e[k]]) = Zero
    BY <1>2, <1>3
<1>5. Sum(Mul[0][Sum(e[0], t[1], d[2], d[3])], Mul[1][Sum(e[1], t[2], d[3], d[0])],
          Mul[2][Sum(e[2], t[3], d[0], d[1])], Mul[3][Sum(e[3], t[0], d[1], d[2])]) = d[0]
    BY <1>1, <1>4, ProductsOfMixed
<1> QED
    BY <1>3, <1>5

\* A byte that MixColumns makes, of the four of its column from it on.
LEMMA MixedByte ==
    ASSUME ProductsFit, NEW s \in Block, NEW j \in Index
    PROVE  S!MixColumns(s)[j] = Sum(xtime(ColumnByte(s, j, 0), 2), xtime(ColumnByte(s, j, 1), 3),
                                    ColumnByte(s, j, 2), ColumnByte(s, j, 3))
<1>1. W = 4 /\ 0 \in WordIndex /\ 1 \in WordIndex /\ 2 \in WordIndex /\ 3 \in WordIndex
    BY DEF ProductsFit, WordIndex
<1>2. PICK terms \in [WordIndex -> Byte], f \in [WordIndex -> Byte] :
              /\ \A k \in WordIndex : terms[k] = MixTerm(s, j, k)
              /\ \A k \in WordIndex : f[k] = IF k = 0 THEN terms[0] ELSE ByteXor(f[k-1], terms[k])
              /\ S!MixColumns(s)[j] = f[W-1]
    BY MixColumnsUnfolds
<1>3. f[0] = terms[0] /\ f[1] = ByteXor(f[0], terms[1]) /\ f[2] = ByteXor(f[1], terms[2])
      /\ f[3] = ByteXor(f[2], terms[3])
    BY <1>1, <1>2
<1>4. /\ terms[0] = xtime(ColumnByte(s, j, 0), 2) /\ terms[1] = xtime(ColumnByte(s, j, 1), 3)
      /\ terms[2] = ColumnByte(s, j, 2) /\ terms[3] = ColumnByte(s, j, 3)
    BY <1>1, <1>2 DEF MixTerm
<1>5. S!MixColumns(s)[j] = f[3]
    BY <1>1, <1>2
<1> QED
    BY <1>3, <1>4, <1>5 DEF Sum

LEMMA UnmixedByte ==
    ASSUME ProductsFit, NEW in \in Word, NEW q \in WordIndex
    PROVE  InvMixColumns(in)[q] = Sum(Mul[0][in[q % 4]], Mul[1][in[(q + 1) % 4]],
                                      Mul[2][in[(q + 2) % 4]], Mul[3][in[(q + 3) % 4]])
<1>1. W = 4 /\ 0 \in WordIndex /\ 1 \in WordIndex /\ 2 \in WordIndex /\ 3 \in WordIndex
    BY DEF ProductsFit, WordIndex
<1>2. PICK terms \in [WordIndex -> Byte], f \in [WordIndex -> Byte] :
              /\ \A i \in WordIndex : terms[i] = Mul[i][in[(q + i) % W]]
              /\ \A i \in WordIndex : f[i] = IF i = 0 THEN terms[0] ELSE ByteXor(f[i-1], terms[i])
              /\ InvMixColumns(in)[q] = f[W-1]
    BY InvMixColumnsUnfolds
<1>3. f[0] = terms[0] /\ f[1] = ByteXor(f[0], terms[1]) /\ f[2] = ByteXor(f[1], terms[2])
      /\ f[3] = ByteXor(f[2], terms[3])
    BY <1>1, <1>2
<1>q. q \in 0 .. 3
    BY <1>1 DEF WordIndex
<1>4. /\ terms[0] = Mul[0][in[q % 4]] /\ terms[1] = Mul[1][in[(q + 1) % 4]]
      /\ terms[2] = Mul[2][in[(q + 2) % 4]] /\ terms[3] = Mul[3][in[(q + 3) % 4]]
    BY <1>1, <1>2, <1>q
<1>5. InvMixColumns(in)[q] = f[3]
    BY <1>1, <1>2
<1> QED
    BY <1>3, <1>4, <1>5 DEF Sum

\* The places of a word of four bytes, from q on.
LEMMA AroundFour ==
    ASSUME NEW q \in 0 .. 3
    PROVE  \E p, r, t \in 0 .. 3 :
              /\ (q + 0) % 4 = q /\ (q + 1) % 4 = p /\ (q + 2) % 4 = r /\ (q + 3) % 4 = t /\ q % 4 = q
              /\ (p + 0) % 4 = p /\ (p + 1) % 4 = r /\ (p + 2) % 4 = t /\ (p + 3) % 4 = q
              /\ (r + 0) % 4 = r /\ (r + 1) % 4 = t /\ (r + 2) % 4 = q /\ (r + 3) % 4 = p
              /\ (t + 0) % 4 = t /\ (t + 1) % 4 = q /\ (t + 2) % 4 = p /\ (t + 3) % 4 = r
<1> WITNESS (q + 1) % 4 \in 0 .. 3, (q + 2) % 4 \in 0 .. 3, (q + 3) % 4 \in 0 .. 3
<1> QED
    OBVIOUS

LEMMA MixedByteAt ==
    ASSUME ProductsFit, NEW s \in Block, NEW i \in WordIndex,
           NEW p0 \in WordIndex, NEW p1 \in WordIndex, NEW p2 \in WordIndex, NEW p3 \in WordIndex,
           (p0 + 0) % 4 = p0, (p0 + 1) % 4 = p1, (p0 + 2) % 4 = p2, (p0 + 3) % 4 = p3
    PROVE  S!MixColumns(s)[W * i + p0] =
               Sum(xtime(s[W * i + p0], 2), xtime(s[W * i + p1], 3), s[W * i + p2], s[W * i + p3])
<1>w. W = 4
    BY DEF ProductsFit
<1> PICK x \in Index : x = W * i + p0
    BY Places
<1>1. x \div W = i /\ x % W = p0
    BY PlaceParts
<1>2. /\ ColumnByte(s, x, 0) = s[W * i + p0] /\ ColumnByte(s, x, 1) = s[W * i + p1]
      /\ ColumnByte(s, x, 2) = s[W * i + p2] /\ ColumnByte(s, x, 3) = s[W * i + p3]
    BY <1>w, <1>1 DEF ColumnByte
<1>3. S!MixColumns(s)[x] = Sum(xtime(ColumnByte(s, x, 0), 2), xtime(ColumnByte(s, x, 1), 3),
                               ColumnByte(s, x, 2), ColumnByte(s, x, 3))
    BY MixedByte
<1> QED
    BY <1>2, <1>3

LEMMA ColumnsUnmixedBack ==
    ASSUME XorFits, ProductsFit, NEW s \in Block
    PROVE  ColumnsUnmixed(S!MixColumns(s)) = s
<1>w. W = 4 /\ WordIndex = 0 .. 3
    BY DEF ProductsFit, WordIndex
<1> DEFINE mixed == S!MixColumns(s)
<1>1. mixed \in Block
    BY MixColumnsType
<1>2. ASSUME NEW j \in Index PROVE ColumnsUnmixed(mixed)[j] = s[j]
    <2> PICK i \in WordIndex, q \in WordIndex : i = j \div W /\ q = j % W /\ j = W * i + q
        BY PlaceOf
    <2> DEFINE col == [x \in WordIndex |-> mixed[W * i + x]]
    <2>1. ColumnsUnmixed(mixed)[j] = InvMixColumns(col)[q]
        BY DEF ColumnsUnmixed
    <2>2. col \in Word
        BY <1>1, Places DEF Word, Block
    <2>3. PICK p \in WordIndex, r \in WordIndex, t \in WordIndex :
              /\ (q + 0) % 4 = q /\ (q + 1) % 4 = p /\ (q + 2) % 4 = r /\ (q + 3) % 4 = t /\ q % 4 = q
              /\ (p + 0) % 4 = p /\ (p + 1) % 4 = r /\ (p + 2) % 4 = t /\ (p + 3) % 4 = q
              /\ (r + 0) % 4 = r /\ (r + 1) % 4 = t /\ (r + 2) % 4 = q /\ (r + 3) % 4 = p
              /\ (t + 0) % 4 = t /\ (t + 1) % 4 = q /\ (t + 2) % 4 = p /\ (t + 3) % 4 = r
        BY <1>w, AroundFour
    <2> PICK d \in FourBytes :
            d[0] = s[W * i + q] /\ d[1] = s[W * i + p] /\ d[2] = s[W * i + r] /\ d[3] = s[W * i + t]
        <3> DEFINE f == [k \in 0 .. 3 |-> IF k = 0 THEN s[W * i + q] ELSE IF k = 1 THEN s[W * i + p]
                                         ELSE IF k = 2 THEN s[W * i + r] ELSE s[W * i + t]]
        <3>1. /\ s[W * i + q] \in Byte /\ s[W * i + p] \in Byte
              /\ s[W * i + r] \in Byte /\ s[W * i + t] \in Byte
            BY Places DEF Block
        <3>2. f \in FourBytes
            BY <3>1 DEF FourBytes
        <3> QED
            BY <3>2
    <2>4. /\ col[q] = mixed[W * i + q] /\ col[p] = mixed[W * i + p]
          /\ col[r] = mixed[W * i + r] /\ col[t] = mixed[W * i + t]
        OBVIOUS
    <2> HIDE DEF col
    <2>5. mixed[W * i + q] = Sum(xtime(d[0], 2), xtime(d[1], 3), d[2], d[3])
        <3>1. (q + 0) % 4 = q /\ (q + 1) % 4 = p /\ (q + 2) % 4 = r /\ (q + 3) % 4 = t
            BY <2>3
        <3>2. S!MixColumns(s)[W * i + q] =
                  Sum(xtime(s[W * i + q], 2), xtime(s[W * i + p], 3), s[W * i + r], s[W * i + t])
            BY ONLY ProductsFit, s \in Block, i \in WordIndex, q \in WordIndex, p \in WordIndex,
               r \in WordIndex, t \in WordIndex, <3>1, MixedByteAt
        <3> QED
            BY <3>2
    <2>6. mixed[W * i + p] = Sum(xtime(d[1], 2), xtime(d[2], 3), d[3], d[0])
        <3>1. (p + 0) % 4 = p /\ (p + 1) % 4 = r /\ (p + 2) % 4 = t /\ (p + 3) % 4 = q
            BY <2>3
        <3>2. S!MixColumns(s)[W * i + p] =
                  Sum(xtime(s[W * i + p], 2), xtime(s[W * i + r], 3), s[W * i + t], s[W * i + q])
            BY ONLY ProductsFit, s \in Block, i \in WordIndex, p \in WordIndex, r \in WordIndex,
               t \in WordIndex, q \in WordIndex, <3>1, MixedByteAt
        <3> QED
            BY <3>2
    <2>7. mixed[W * i + r] = Sum(xtime(d[2], 2), xtime(d[3], 3), d[0], d[1])
        <3>1. (r + 0) % 4 = r /\ (r + 1) % 4 = t /\ (r + 2) % 4 = q /\ (r + 3) % 4 = p
            BY <2>3
        <3>2. S!MixColumns(s)[W * i + r] =
                  Sum(xtime(s[W * i + r], 2), xtime(s[W * i + t], 3), s[W * i + q], s[W * i + p])
            BY ONLY ProductsFit, s \in Block, i \in WordIndex, r \in WordIndex, t \in WordIndex,
               q \in WordIndex, p \in WordIndex, <3>1, MixedByteAt
        <3> QED
            BY <3>2
    <2>8. mixed[W * i + t] = Sum(xtime(d[3], 2), xtime(d[0], 3), d[1], d[2])
        <3>1. (t + 0) % 4 = t /\ (t + 1) % 4 = q /\ (t + 2) % 4 = p /\ (t + 3) % 4 = r
            BY <2>3
        <3>2. S!MixColumns(s)[W * i + t] =
                  Sum(xtime(s[W * i + t], 2), xtime(s[W * i + q], 3), s[W * i + p], s[W * i + r])
            BY ONLY ProductsFit, s \in Block, i \in WordIndex, t \in WordIndex, q \in WordIndex,
               p \in WordIndex, r \in WordIndex, <3>1, MixedByteAt
        <3> QED
            BY <3>2
    <2>9. InvMixColumns(col)[q] = Sum(Mul[0][col[q]], Mul[1][col[p]], Mul[2][col[r]], Mul[3][col[t]])
        BY <2>2, <2>3, UnmixedByte
    <2>10. InvMixColumns(col)[q] = d[0]
        <3> HIDE DEF mixed
        <3> QED
            BY <2>4, <2>5, <2>6, <2>7, <2>8, <2>9, ProductsCancel
    <2> QED
        BY <2>1, <2>10
<1>3. ColumnsUnmixed(mixed) = [j \in Index |-> ColumnsUnmixed(mixed)[j]]
    BY DEF ColumnsUnmixed
<1> HIDE DEF mixed
<1>4. ColumnsUnmixed(mixed) = s
    BY <1>2, <1>3 DEF Block
<1> QED
    BY <1>4 DEF mixed

\* Each round of AES.c is undone by the hardware's parts with the round's
\* key, on every block and for every key, if the tables and products of the
\* two sides fit: what the runs see on a few messages.
THEOREM UndoneTheorem ==
    ASSUME XorFits, SubstitutionsFit, ProductsFit
    PROVE  TripSpec => RoundsCanBeUndone
<1> DEFINE Undone ==
        /\ S!Round =>
             block = InvSubBytes(InvShiftRows(ColumnsUnmixed(S!AddRoundKey(block', n))))
        /\ S!LastRound =>
             block = InvSubBytes(InvShiftRows(S!AddRoundKey(block', n)))
<1>1. TripInv => Undone
    <2> SUFFICES ASSUME TripInv PROVE Undone
        OBVIOUS
    <2>1. block \in Block /\ WordsTyped
        BY DEF TripInv, ScheduleInv
    <2>2. S!SubBytes(block) \in Block /\ S!ShiftRows(S!SubBytes(block)) \in Block
        BY <2>1, SubBytesType, ShiftRowsType
    <2>3. InvSubBytes(InvShiftRows(S!ShiftRows(S!SubBytes(block)))) = block
        BY <2>1, <2>2, RowsShiftedBack, Substituted
    <2>4. ASSUME S!Round
          PROVE  block = InvSubBytes(InvShiftRows(ColumnsUnmixed(S!AddRoundKey(block', n))))
        <3> DEFINE mixed == S!MixColumns(S!ShiftRows(S!SubBytes(block)))
        <3>1. sw_pc = "rounds" /\ n \in 0 .. Rounds /\ block' = S!AddRoundKey(mixed, n)
            BY <2>4 DEF S!Round, TripInv
        <3>2. mixed \in Block /\ ColumnsUnmixed(mixed) = S!ShiftRows(S!SubBytes(block))
            BY <2>2, MixColumnsType, ColumnsUnmixedBack
        <3> HIDE DEF mixed
        <3>3. S!AddRoundKey(S!AddRoundKey(mixed, n), n) = mixed
            BY <2>1, <3>1, <3>2, AddedTwice
        <3> QED
            BY <2>3, <3>1, <3>2, <3>3
    <2>5. ASSUME S!LastRound
          PROVE  block = InvSubBytes(InvShiftRows(S!AddRoundKey(block', n)))
        <3> DEFINE shifted == S!ShiftRows(S!SubBytes(block))
        <3>1. sw_pc = "rounds" /\ n = Rounds /\ Rounds \in 0 .. Rounds /\ block' = S!AddRoundKey(shifted, n)
            BY <2>5, WordFacts DEF S!LastRound
        <3> HIDE DEF shifted
        <3>2. S!AddRoundKey(S!AddRoundKey(shifted, n), n) = shifted
            BY <2>1, <2>2, <3>1, AddedTwice DEF shifted
        <3>3. S!AddRoundKey(block', n) = shifted
            BY <3>1, <3>2
        <3> QED
            BY <2>3, <3>3 DEF shifted
    <2> QED
        BY <2>4, <2>5
<1>2. TripInv => [Undone]_tripVars
    BY <1>1
<1> QED
    BY <1>2, TripInvariance, PTL DEF RoundsCanBeUndone

-----------------------------------------------------------------------------
(* The engine with three of its connections changed.                       *)

KeyAdded(in, k) == [j \in Index |-> ByteXor(in[j], k[j])]

\* Decoded with the round keys taken from the last to the first, each byte of
\* the block added to the byte of the key at its own place, and the columns
\* of the block given to InvMixColumns.
Reconnected(c, k) ==
    LET rk == Expanded(k)
        d[r \in 0 .. Rounds] ==
            IF r = 0 THEN KeyAdded(c, rk[Rounds])
            ELSE LET mixed == IF r = 1 THEN d[0] ELSE ColumnsUnmixed(d[r-1])
                 IN  KeyAdded(InvSubBytes(InvShiftRows(mixed)), rk[Rounds - r])
    IN  d

\* So connected, the engine gives main.c its message back.
ReconnectedDecodes == sw_pc = "done" => Reconnected(block, cipher_key)[Rounds] = pairs_hex

LEMMA KeyAddedType ==
    ASSUME NEW b \in Block, NEW k \in Block
    PROVE  KeyAdded(b, k) \in Block
BY XorType DEF KeyAdded, Block

LEMMA ColumnsUnmixedType ==
    ASSUME NEW b \in Block
    PROVE  ColumnsUnmixed(b) \in Block
<1> SUFFICES ASSUME NEW j \in Index
             PROVE  InvMixColumns([q \in WordIndex |-> b[W * (j \div W) + q]])[j % W] \in Byte
    BY DEF ColumnsUnmixed, Block
<1>1. j \div W \in WordIndex /\ j % W \in WordIndex
    BY PlaceOf
<1> PICK i \in WordIndex, x \in WordIndex : i = j \div W /\ x = j % W
    BY <1>1
<1>2. [q \in WordIndex |-> b[W * i + q]] \in Word
    BY Places DEF Word, Block
<1>3. InvMixColumns([q \in WordIndex |-> b[W * i + q]]) \in Word
    BY <1>2, InvMixColumnsType
<1> QED
    BY <1>3 DEF Word

\* What goes into KeyAdded for round r.
Mixed(c, k, r) == IF r = 1 THEN Reconnected(c, k)[0] ELSE ColumnsUnmixed(Reconnected(c, k)[r-1])
Returned(c, k, r) == InvSubBytes(InvShiftRows(Mixed(c, k, r)))

LEMMA ReconnectedUnfolds ==
    ASSUME NEW c \in Block, NEW key \in Block
    PROVE  /\ Reconnected(c, key)[0] = KeyAdded(c, Expanded(key)[Rounds])
           /\ \A r \in 1 .. Rounds :
                 Reconnected(c, key)[r] = KeyAdded(Returned(c, key, r), Expanded(key)[Rounds - r])
           /\ \A r \in 0 .. Rounds : Reconnected(c, key)[r] \in Block
<1> DEFINE rk == Expanded(key)
           mixed(r, b) == IF r = 1 THEN b ELSE ColumnsUnmixed(b)
           round(r, b) == KeyAdded(InvSubBytes(InvShiftRows(mixed(r, b))), rk[Rounds - r])
           Unfolds(d) ==
               d = [r \in 0 .. Rounds |->
                       IF r = 0 THEN KeyAdded(c, rk[Rounds])
                       ELSE LET m == IF r = 1 THEN d[0] ELSE ColumnsUnmixed(d[r-1])
                            IN  KeyAdded(InvSubBytes(InvShiftRows(m)), rk[Rounds - r])]
           chosen == CHOOSE d : Unfolds(d)
           step == [r \in 1 .. Rounds |-> [b \in Block |-> round(r, b)]]
<1>a. /\ Rounds \in Nat /\ \A r \in 0 .. Rounds : rk[r] \in Block
      /\ \A r \in 0 .. Rounds : Rounds - r \in 0 .. Rounds
    BY WordFacts, ExpandedUnfolds
<1>1. Reconnected(c, key) = chosen
    BY DEF Reconnected
<1>2. \A r \in 1 .. Rounds, b \in Block : round(r, b) \in Block
    <2> SUFFICES ASSUME NEW r \in 1 .. Rounds, NEW b \in Block PROVE round(r, b) \in Block
        OBVIOUS
    <2>1. r \in 0 .. Rounds
        BY <1>a
    <2>2. mixed(r, b) \in Block /\ rk[Rounds - r] \in Block
        BY <1>a, <2>1, ColumnsUnmixedType
    <2> HIDE DEF mixed
    <2> QED
        BY <2>2, InvShiftRowsType, InvSubBytesType, KeyAddedType
<1>0. KeyAdded(c, rk[Rounds]) \in Block
    BY <1>a, KeyAddedType
<1>3. Unfolds(chosen)
    <2>1. step \in [1 .. Rounds -> [Block -> Block]]
        BY <1>2
    <2>2. PICK f \in [0 .. Rounds -> Block] :
             f[0] = KeyAdded(c, rk[Rounds]) /\ \A r \in 1 .. Rounds : f[r] = step[r][f[r-1]]
        <3> HIDE DEF step
        <3>1. \E f \in [0 .. Rounds -> Block] : IsChain(f, KeyAdded(c, rk[Rounds]), Rounds, step)
            BY <1>a, <1>0, <2>1, ChainExists
        <3> QED
            BY <3>1 DEF IsChain
    <2>3. \A r \in 1 .. Rounds : f[r] = round(r, f[r-1])
        <3> SUFFICES ASSUME NEW r \in 1 .. Rounds PROVE f[r] = round(r, f[r-1])
            OBVIOUS
        <3>1. r - 1 \in 0 .. Rounds
            BY <1>a
        <3> HIDE DEF round
        <3> QED
            BY <2>2, <3>1
    <2>4. Unfolds(f)
        <3>1. \A r \in 0 .. Rounds : r # 0 => r \in 1 .. Rounds
            BY <1>a
        <3>2. \A r \in 1 .. Rounds :
                 round(r, f[r-1]) = KeyAdded(InvSubBytes(InvShiftRows(
                                        IF r = 1 THEN f[0] ELSE ColumnsUnmixed(f[r-1]))), rk[Rounds - r])
            OBVIOUS
        <3> HIDE DEF round, rk
        <3> QED
            BY <2>2, <2>3, <3>1, <3>2
    <2> HIDE DEF Unfolds
    <2> QED
        BY <2>4
<1>4. /\ chosen[0] = KeyAdded(c, rk[Rounds])
      /\ \A r \in 1 .. Rounds : chosen[r] = round(r, chosen[r-1])
    <2>1. 0 \in 0 .. Rounds /\ \A r \in 1 .. Rounds : r \in 0 .. Rounds /\ r # 0
        BY <1>a
    <2>2. chosen = [r \in 0 .. Rounds |->
                       IF r = 0 THEN KeyAdded(c, rk[Rounds])
                       ELSE LET m == IF r = 1 THEN chosen[0] ELSE ColumnsUnmixed(chosen[r-1])
                            IN  KeyAdded(InvSubBytes(InvShiftRows(m)), rk[Rounds - r])]
        BY <1>3
    <2> HIDE DEF chosen, rk
    <2>3. chosen[0] = KeyAdded(c, rk[Rounds])
        BY <2>1, <2>2
    <2>4. ASSUME NEW r \in 1 .. Rounds PROVE chosen[r] = round(r, chosen[r-1])
        <3>1. mixed(r, chosen[r-1]) = IF r = 1 THEN chosen[0] ELSE ColumnsUnmixed(chosen[r-1])
            OBVIOUS
        <3>2. chosen[r] = KeyAdded(InvSubBytes(InvShiftRows(
                              IF r = 1 THEN chosen[0] ELSE ColumnsUnmixed(chosen[r-1]))), rk[Rounds - r])
            BY <2>1, <2>2
        <3> HIDE DEF mixed
        <3> QED
            BY <3>1, <3>2
    <2> QED
        BY <2>3, <2>4
<1> HIDE DEF chosen
<1>5. \A r \in 0 .. Rounds : chosen[r] \in Block
    <2> DEFINE good == {r \in Nat : chosen[r] \in Block}
    <2>1. 0 \in good
        BY <1>0, <1>4
    <2>2. ASSUME NEW r \in 1 .. Rounds, r - 1 \in good PROVE r \in good
        <3> HIDE DEF round
        <3> QED
            BY <1>2, <1>4, <2>2
    <2> HIDE DEF good
    <2>3. 0 .. Rounds \subseteq good
        BY <1>a, <2>1, <2>2, ChainInduction DEF good
    <2> QED
        BY <2>3 DEF good
<1>6. \A r \in 1 .. Rounds : chosen[r] = KeyAdded(Returned(c, key, r), rk[Rounds - r])
    <2> SUFFICES ASSUME NEW r \in 1 .. Rounds
                 PROVE  round(r, chosen[r-1]) = KeyAdded(Returned(c, key, r), rk[Rounds - r])
        BY <1>4
    <2>1. mixed(r, chosen[r-1]) = Mixed(c, key, r)
        BY <1>1 DEF Mixed
    <2> HIDE DEF mixed, rk
    <2> QED
        BY <2>1 DEF Returned
<1> QED
    BY <1>1, <1>4, <1>5, <1>6

\* Both expand the key to the same round keys.
LEMMA SameRoundKeys ==
    ASSUME SchedulesFit, XorFits, TripInv, SchedulesAgree, sw_pc # "expand"
    PROVE  \A r \in 0 .. Rounds : SoftwareKey(r) = Expanded(cipher_key)[r]
<1> DEFINE good == {r \in Nat : SoftwareKey(r) = Expanded(cipher_key)[r]}
<1>1. cipher_key \in Block /\ Rounds \in Nat
    BY TableAssumption, WordFacts DEF TripInv, ScheduleInv, WordsTyped
<1>2. /\ SoftwareKey(0) = cipher_key
      /\ \A r \in 1 .. Rounds :
            SoftwareKey(r) = NewKey(SoftwareKey(r-1), SubRotWord(SoftwareKey(r-1)), Rcon[r])
    BY DEF SchedulesAgree
<1>3. /\ Expanded(cipher_key)[0] = cipher_key
      /\ \A r \in 1 .. Rounds :
            Expanded(cipher_key)[r] =
                NewKey(Expanded(cipher_key)[r-1], SubRotWord(Expanded(cipher_key)[r-1]), Rcon[r])
    BY <1>1, ExpandedUnfolds
<1>4. 0 \in good
    BY <1>2, <1>3
<1>5. ASSUME NEW r \in 1 .. Rounds, r - 1 \in good PROVE r \in good
    <2>1. SoftwareKey(r-1) = Expanded(cipher_key)[r-1] /\ r \in Nat
        BY <1>1, <1>5
    <2>2. SoftwareKey(r) = NewKey(SoftwareKey(r-1), SubRotWord(SoftwareKey(r-1)), Rcon[r])
        BY <1>2
    <2>3. Expanded(cipher_key)[r] =
              NewKey(Expanded(cipher_key)[r-1], SubRotWord(Expanded(cipher_key)[r-1]), Rcon[r])
        BY <1>3
    <2>4. SoftwareKey(r) = Expanded(cipher_key)[r]
        BY <2>1, <2>2, <2>3
    <2> QED
        BY <2>1, <2>4
<1> HIDE DEF good
<1>6. 0 .. Rounds \subseteq good
    BY <1>1, <1>4, <1>5, ChainInduction DEF good
<1> QED
    BY <1>6 DEF good

LEMMA SameAddition ==
    ASSUME NEW s, NEW r
    PROVE  S!AddRoundKey(s, r) = KeyAdded(s, SoftwareKey(r))
BY SameBlocks DEF S!AddRoundKey, KeyAdded, SoftwareKey

\* The turns of AES that are over.
Turned == IF sw_pc = "done" THEN Rounds ELSE n - 1

\* What a round makes of a block, undone.
Undone(b, r) ==
    InvSubBytes(InvShiftRows(
        IF r = Rounds THEN S!AddRoundKey(b, r) ELSE ColumnsUnmixed(S!AddRoundKey(b, r))))

\* trail has the blocks from StartAes to b: each of the t rounds can be undone.
Leads(trail, t, b) ==
    /\ trail[0] = S!AddRoundKey(pairs_hex, 0)
    /\ trail[t] = b
    /\ \A r \in 1 .. t : trail[r-1] = Undone(trail[r], r)

TrailInv ==
    sw_pc \in {"rounds", "done"} =>
        /\ Turned \in 0 .. Rounds
        /\ \E trail \in [0 .. Rounds -> Block] : Leads(trail, Turned, block)

\* A round that can be undone makes the trail longer.
LEMMA TrailGrows ==
    ASSUME NEW t \in 0 .. Rounds - 1, NEW b \in Block, NEW c \in Block, b = Undone(c, t + 1),
           NEW trail \in [0 .. Rounds -> Block], Leads(trail, t, b)
    PROVE  \E longer \in [0 .. Rounds -> Block] : Leads(longer, t + 1, c)
<1>a. t \in Nat /\ t + 1 \in 0 .. Rounds /\ Rounds \in Nat
    BY WordFacts
<1> DEFINE longer == [trail EXCEPT ![t + 1] = c]
<1>1. longer \in [0 .. Rounds -> Block] /\ longer[t + 1] = c
    BY <1>a
<1>2. \A r \in 0 .. t : longer[r] = trail[r]
    BY <1>a
<1> HIDE DEF longer
<1>3. trail[0] = S!AddRoundKey(pairs_hex, 0) /\ trail[t] = b /\ \A r \in 1 .. t : trail[r-1] = Undone(trail[r], r)
    BY DEF Leads
<1>4. ASSUME NEW r \in 1 .. t + 1 PROVE longer[r-1] = Undone(longer[r], r)
    <2>1. CASE r = t + 1
        <3>1. longer[t] = b /\ r - 1 = t
            BY <1>a, <1>2, <1>3, <2>1
        <3> QED
            BY <1>1, <2>1, <3>1
    <2>2. CASE r # t + 1
        <3>1. r \in 1 .. t /\ r \in 0 .. t /\ r - 1 \in 0 .. t
            BY <1>a, <2>2
        <3> QED
            BY <1>2, <1>3, <3>1
    <2> QED
        BY <2>1, <2>2
<1>5. longer[0] = S!AddRoundKey(pairs_hex, 0)
    BY <1>a, <1>2, <1>3
<1>6. Leads(longer, t + 1, c)
    BY <1>1, <1>4, <1>5 DEF Leads
<1> QED
    BY <1>1, <1>6

\* The trail stays the same while the key and the message do.
LEMMA TrailStays ==
    ASSUME UNCHANGED <<w, pairs_hex>>
    PROVE  \A trail, t, b : Leads(trail, t, b)' = Leads(trail, t, b)
<1>1. \A s, r : S!AddRoundKey(s, r)' = S!AddRoundKey(s, r)
    BY DEF S!AddRoundKey
<1>2. \A b, r : Undone(b, r)' = Undone(b, r)
    BY <1>1 DEF Undone
<1> QED
    BY <1>1, <1>2 DEF Leads

LEMMA TrailBegins ==
    ASSUME TripInv, S!StartAes
    PROVE  TrailInv'
<1>1. /\ sw_pc = "start" /\ sw_pc' = "rounds" /\ n' = 1 /\ block' = S!AddRoundKey(pairs_hex, 0)
      /\ UNCHANGED <<w, pairs_hex>>
    BY DEF S!StartAes
<1>2. 0 \in 0 .. Rounds /\ pairs_hex \in Block /\ WordsTyped
    BY WordFacts, TableAssumption DEF TripInv, ScheduleInv
<1> PICK c \in Block : c = block'
    BY <1>1, <1>2, SoftwareRoundKeyType
<1> DEFINE trail == [r \in 0 .. Rounds |-> c]
<1>3. trail \in [0 .. Rounds -> Block] /\ trail[0] = c
    BY <1>2
<1> HIDE DEF trail
<1>4. Leads(trail, 0, c)
    BY <1>1, <1>3 DEF Leads
<1>5. Leads(trail, 0, c)'
    BY <1>1, <1>4, TrailStays
<1>6. Turned' = 0
    BY <1>1 DEF Turned
<1>7. Leads(trail, Turned, block)'
    BY <1>5, <1>6
<1> QED
    BY <1>2, <1>3, <1>6, <1>7 DEF TrailInv, Block

LEMMA TrailGoesOn ==
    ASSUME XorFits, SubstitutionsFit, ProductsFit, TripInv, TrailInv, S!Round \/ S!LastRound
    PROVE  TrailInv'
<1>1. WordsTyped /\ block \in Block /\ n \in 0 .. Rounds /\ sw_pc = "rounds" /\ UNCHANGED <<w, pairs_hex>>
    BY DEF TripInv, ScheduleInv, S!Round, S!LastRound
<1>2. PICK t \in 0 .. Rounds - 1 : t = n - 1 /\ Turned = t /\ Turned' = t + 1
    <2>1. n - 1 \in 0 .. Rounds
        BY <1>1 DEF TrailInv, Turned
    <2>2. n - 1 \in 0 .. Rounds - 1 /\ Turned = n - 1
        BY <1>1, <2>1, WordFacts DEF Turned
    <2>3. Turned' = n
        BY <1>1, WordFacts DEF S!Round, S!LastRound, Turned
    <2> QED
        BY <1>1, <2>2, <2>3
<1>3. PICK trail \in [0 .. Rounds -> Block] : Leads(trail, t, block)
    BY <1>1, <1>2 DEF TrailInv
<1>4. S!SubBytes(block) \in Block /\ S!ShiftRows(S!SubBytes(block)) \in Block
    BY <1>1, SubBytesType, ShiftRowsType
<1>5. InvSubBytes(InvShiftRows(S!ShiftRows(S!SubBytes(block)))) = block
    BY <1>1, <1>4, RowsShiftedBack, Substituted
<1>6. block' \in Block /\ block = Undone(block', n)
    <2>1. CASE S!Round
        <3> DEFINE mixed == S!MixColumns(S!ShiftRows(S!SubBytes(block)))
        <3>1. n # Rounds /\ block' = S!AddRoundKey(mixed, n)
            BY <1>1, <2>1, WordFacts DEF S!Round
        <3>2. mixed \in Block /\ ColumnsUnmixed(mixed) = S!ShiftRows(S!SubBytes(block))
            BY <1>4, MixColumnsType, ColumnsUnmixedBack
        <3> HIDE DEF mixed
        <3>3. S!AddRoundKey(S!AddRoundKey(mixed, n), n) = mixed /\ block' \in Block
            BY <1>1, <3>1, <3>2, AddedTwice, SoftwareRoundKeyType
        <3> QED
            BY <1>5, <3>1, <3>2, <3>3 DEF Undone
    <2>2. CASE S!LastRound
        <3> DEFINE shifted == S!ShiftRows(S!SubBytes(block))
        <3>1. n = Rounds /\ block' = S!AddRoundKey(shifted, n) /\ shifted \in Block
            BY <1>4, <2>2 DEF S!LastRound
        <3>2. InvSubBytes(InvShiftRows(shifted)) = block
            BY <1>5
        <3> HIDE DEF shifted
        <3>3. S!AddRoundKey(S!AddRoundKey(shifted, n), n) = shifted /\ block' \in Block
            BY <1>1, <3>1, AddedTwice, SoftwareRoundKeyType
        <3> QED
            BY <3>1, <3>2, <3>3 DEF Undone
    <2> QED
        BY <2>1, <2>2
<1> PICK b \in Block, c \in Block : b = block /\ c = block' /\ b = Undone(c, t + 1)
    <2>1. n = t + 1
        BY <1>1, <1>2
    <2> QED
        BY <1>1, <1>6, <2>1
<1>7. PICK longer \in [0 .. Rounds -> Block] : Leads(longer, t + 1, c)
    BY <1>3, TrailGrows
<1>8. Leads(longer, t + 1, c)'
    BY <1>1, <1>7, TrailStays
<1>9. Leads(longer, Turned, block)' /\ Turned' \in 0 .. Rounds
    BY <1>2, <1>8, WordFacts
<1> QED
    BY <1>9 DEF TrailInv, Block

LEMMA StepTrail ==
    ASSUME XorFits, SubstitutionsFit, ProductsFit, TripInv, TrailInv, [TripNext]_tripVars
    PROVE  TrailInv'
<1>1. CASE S!CopyKeyWord \/ S!ExpandWord \/ S!Expanded
    <2>1. sw_pc' \notin {"rounds", "done"}
        BY <1>1 DEF S!CopyKeyWord, S!ExpandWord, S!Expanded
    <2> QED
        BY <2>1 DEF TrailInv
<1>2. CASE S!StartAes
    BY <1>2, TrailBegins
<1>3. CASE S!Round \/ S!LastRound
    BY <1>3, TrailGoesOn
<1>4. CASE UNCHANGED softVars
    <2>1. UNCHANGED <<w, pairs_hex, n, sw_pc, block>>
        BY <1>4 DEF softVars
    <2>2. Turned' = Turned
        BY <2>1 DEF Turned
    <2>3. \A trail : Leads(trail, Turned, block)' = Leads(trail, Turned, block)
        BY <2>1, <2>2 DEF Leads, Undone, S!AddRoundKey
    <2> QED
        BY <2>1, <2>2, <2>3 DEF TrailInv, Block
<1>5. CASE Encrypt
    BY <1>1, <1>2, <1>3, <1>5 DEF Encrypt, S!Encrypting
<1>6. HandOver \/ Decrypt \/ UNCHANGED tripVars => UNCHANGED softVars
    BY DEF HandOver, Decrypt, tripVars
<1> QED
    BY <1>4, <1>5, <1>6 DEF TripNext

\* The reconnected engine goes the trail back.
LEMMA TrailGoneBack ==
    ASSUME XorFits, SchedulesFit, TripInv, TrailInv, SchedulesAgree, sw_pc = "done"
    PROVE  Reconnected(block, cipher_key)[Rounds] = pairs_hex
<1> DEFINE rk(r) == Expanded(cipher_key)[r]
           d(r)  == Reconnected(block, cipher_key)[r]
<1>a. /\ Rounds \in Nat /\ Rounds > 0
      /\ block \in Block /\ cipher_key \in Block /\ pairs_hex \in Block /\ WordsTyped
    BY WordFacts, TableAssumption DEF TripInv, ScheduleInv, WordsTyped
<1>1. PICK trail \in [0 .. Rounds -> Block] : Leads(trail, Rounds, block)
    BY DEF TrailInv, Turned
<1>2. \A s : \A r \in 0 .. Rounds : KeyAdded(s, rk(r)) = S!AddRoundKey(s, r)
    BY SameRoundKeys, SameAddition
<1>3. /\ d(0) = KeyAdded(block, rk(Rounds))
      /\ \A r \in 1 .. Rounds : d(r) = KeyAdded(Returned(block, cipher_key, r), rk(Rounds - r))
    BY <1>a, ReconnectedUnfolds
<1>4. \A r \in 1 .. Rounds :
         Returned(block, cipher_key, r) =
             InvSubBytes(InvShiftRows(IF r = 1 THEN d(0) ELSE ColumnsUnmixed(d(r-1))))
    BY DEF Returned, Mixed
<1> HIDE DEF rk, d
<1> DEFINE good == {r \in Nat : d(r) = S!AddRoundKey(trail[Rounds - r], Rounds - r)}
<1>5. 0 \in good
    <2>1. Rounds - 0 = Rounds /\ Rounds \in 0 .. Rounds
        BY <1>a
    <2>2. trail[Rounds] = block
        BY <1>1 DEF Leads
    <2>3. d(0) = S!AddRoundKey(trail[Rounds], Rounds)
        BY <1>2, <1>3, <2>1, <2>2
    <2> QED
        BY <2>1, <2>3
<1>6. ASSUME NEW r \in 1 .. Rounds, r - 1 \in good PROVE r \in good
    <2> PICK x \in 1 .. Rounds : x = Rounds - (r - 1)
        BY <1>a
    <2>1. x - 1 = Rounds - r /\ x - 1 \in 0 .. Rounds /\ (r = 1 <=> x = Rounds) /\ r \in Nat
        BY <1>a
    <2>2. d(r-1) = S!AddRoundKey(trail[x], x)
        BY <1>6
    <2>3. trail[x-1] = Undone(trail[x], x)
        BY <1>1 DEF Leads
    <2>4. Returned(block, cipher_key, r) =
              InvSubBytes(InvShiftRows(IF r = 1 THEN d(0) ELSE ColumnsUnmixed(d(r-1))))
        BY <1>4
    <2>5. r = 1 => d(0) = d(r-1)
        OBVIOUS
    <2>6. Returned(block, cipher_key, r) = trail[x-1]
        <3> HIDE DEF good
        <3> QED
            BY <2>1, <2>2, <2>3, <2>4, <2>5 DEF Undone
    <2>7. d(r) = KeyAdded(trail[x-1], rk(x-1))
        BY <1>3, <2>1, <2>6
    <2>8. d(r) = S!AddRoundKey(trail[Rounds - r], Rounds - r)
        BY <1>2, <2>1, <2>7
    <2> QED
        BY <2>1, <2>8
<1>7. 0 .. Rounds \subseteq good
    <2> HIDE DEF good
    <2>1. good \in SUBSET Nat
        BY DEF good
    <2> QED
        BY <1>a, <1>5, <1>6, <2>1, ChainInduction
<1>8. d(Rounds) = S!AddRoundKey(trail[0], 0)
    <2>1. Rounds \in 0 .. Rounds /\ Rounds - Rounds = 0
        BY <1>a
    <2> QED
        BY <1>7, <2>1
<1>9. trail[0] = S!AddRoundKey(pairs_hex, 0)
    BY <1>1 DEF Leads
<1>10. S!AddRoundKey(S!AddRoundKey(pairs_hex, 0), 0) = pairs_hex
    BY <1>a, AddedTwice
<1> QED
    BY <1>8, <1>9, <1>10 DEF d

\* main.c's message comes back, for every message and key, if the states of
\* invAES.sv are connected in this way: with the repository's own key
\* schedules, ROMs, products and shifts, these three connections are all that
\* is between the engine and what main.c prints as "Decoded message:".
THEOREM ReconnectedTheorem ==
    ASSUME XorFits, SchedulesFit, SubstitutionsFit, ProductsFit
    PROVE  TripSpec => []ReconnectedDecodes
<1>1. TripInit => TrailInv
    BY DEF TripInit, S!EncryptInit, TrailInv
<1>2. TripInv /\ TrailInv /\ [TripNext]_tripVars => TrailInv'
    BY StepTrail
<1>3. TripInv /\ TrailInv /\ SchedulesAgree => ReconnectedDecodes
    BY TrailGoneBack DEF ReconnectedDecodes
<1>4. [Encrypt \/ HandOver \/ Decrypt]_tripVars => [TripNext]_tripVars
    BY DEF TripNext
<1>5. TripSpec => []SchedulesAgree
    BY SchedulesTheorem
<1>6. TripSpec => []TripInv
    BY TripInvariance
<1> QED
    BY <1>1, <1>2, <1>3, <1>4, <1>5, <1>6, PTL DEF TripSpec

=============================================================================

---------------------------- MODULE InvAesEngine ----------------------------
(***************************************************************************)
(* invAES.sv with its data path: the engine that AesController describes   *)
(* by a counter and a function.                                            *)
(*                                                                         *)
(* INV_ADDROUND3 is state = "INV_ADDROUND" with rnd = 3, INV_MIXCOLUMNS2_4 *)
(* is "INV_MIXCOLUMNS" with rnd = 2 and grp = 4, INV_MIXCOLUMNS2_4_1 is    *)
(* "INV_MIXCOLUMNS_1" with the same numbers.  A number a name does not     *)
(* have is 0.                                                              *)
(*                                                                         *)
(* The engine's data are in latches: each is open in some states and then  *)
(* follows its source, and keeps its value in the others.  A variable      *)
(* holds what its latch kept; the operator of the same name in capitals    *)
(* is what stands at the latch's output.  No reset reaches the latches.    *)
(***************************************************************************)
EXTENDS KeyExpansion

CONSTANTS
    InvSub,    \* the ROM of InvSubBytes
    Mul,       \* the multiplications of InvMixColumns.sv: Mul[0] is GF_Mul_e,
               \* Mul[1] GF_Mul_b, Mul[2] GF_Mul_d, Mul[3] GF_Mul_9
    Inputs,    \* the pairs <<Ciphertext, Cipherkey>> at the inputs
    PowerUp    \* what the latches may hold at power-up

Pair == Block \X Block

ASSUME DataPathAssumption ==
    /\ InvSub \in [Byte -> Byte]
    /\ Mul \in [WordIndex -> [Byte -> Byte]]
    /\ Inputs \subseteq Pair
    /\ PowerUp \subseteq Block

VARIABLES
    state, rnd, grp,      \* the state, taken apart
    add_in, addkey,       \* latches at AddRoundKey
    mixin, mix_out,       \* latches before and after InvMixColumns
    shift_in,             \* latch before InvShiftRows
    sub_in,               \* latch before the S-boxes
    sub_out,              \* the S-boxes' clocked outputs
    inputs,               \* <<Ciphertext, Cipherkey>>
    run,                  \* Run
    held,                 \* Reset is low
    job,                  \* history: the pair read in INV_ADDROUND1
    intact                \* history: the inputs have not moved since

latches == <<add_in, addkey, mixin, mix_out, shift_in, sub_in>>
roms    == <<sub_out, subword>>
vars    == <<state, rnd, grp, latches, roms, inputs, run, held, job, intact>>

Ciphertext == inputs[1]
Cipherkey  == inputs[2]

EngineTypeOK ==
    /\ state \in {"WAIT", "FINISH", "INV_ADDROUND", "INV_SHIFTROWS", "INV_SUBBYTES",
                  "INV_MIXCOLUMNS", "INV_MIXCOLUMNS_1"}
    /\ rnd \in 0 .. Rounds + 1
    /\ grp \in 0 .. W
    /\ {add_in, addkey, mix_out, shift_in, sub_in, sub_out} \subseteq Block
    /\ mixin \in Word
    /\ SubwordTypeOK
    /\ inputs \in Inputs
    /\ run \in BOOLEAN
    /\ held \in BOOLEAN
    /\ job \in Pair
    /\ intact \in BOOLEAN

-----------------------------------------------------------------------------
(* The data path. *)

\* AddRoundKey.sv: byte j of the block meets the byte of the key at the
\* place of j in the transposed key, its rows from the last to the first.
AddRoundKey(in, k) ==
    [j \in Index |-> ByteXor(in[j], k[W * (j % W) + (W-1 - (j \div W))])]

\* InvShiftRows.sv: row r of the block, the bytes r, W+r, ..., goes r
\* places to the right.
InvShiftRows(in) ==
    [j \in Index |-> in[W * (((j \div W) - (j % W)) % W) + (j % W)]]

InvSubBytes(in) == [j \in Index |-> InvSub[in[j]]]

\* InvMixColumns.sv: byte q of the result takes byte q of the word times
\* Mul[0], the byte after it times Mul[1], and so on round the word.
InvMixColumns(in) ==
    [q \in WordIndex |->
        LET sum[i \in WordIndex] ==
                LET term == Mul[i][in[(q + i) % W]]
                IN  IF i = 0 THEN term ELSE ByteXor(sum[i-1], term)
        IN  sum[W-1]]

\* The bytes given to InvMixColumns in INV_MIXCOLUMNSr_g, and their places
\* in mix_out.
Gathered(in, g)    == [q \in WordIndex |-> in[W * q + (g-1)]]
Scattered(word, g) ==
    [j \in Index |-> IF j \div W = g-1 THEN word[j % W] ELSE mix_out[j]]

-----------------------------------------------------------------------------
(* The latches. *)

In(s) == state = s

ADD_IN == IF In("INV_ADDROUND") THEN (IF rnd = 1 THEN Ciphertext ELSE sub_out) ELSE add_in
ADDKEY == IF In("INV_ADDROUND") THEN KeySchedule(Cipherkey)[rnd-1] ELSE addkey

AddOut == AddRoundKey(ADD_IN, ADDKEY)

MIXIN  == IF In("INV_MIXCOLUMNS") THEN Gathered(AddOut, grp) ELSE mixin
\* Variant: the last word of mix_out never written.
MixOutButLast ==
    IF In("INV_MIXCOLUMNS_1") /\ grp < W THEN Scattered(InvMixColumns(mixin), grp) ELSE mix_out
MIX_OUT == IF In("INV_MIXCOLUMNS_1") THEN Scattered(InvMixColumns(mixin), grp) ELSE mix_out

SHIFT_IN == IF In("INV_SHIFTROWS") THEN (IF rnd = 1 THEN AddOut ELSE mix_out) ELSE shift_in
SUB_IN   == IF In("INV_SUBBYTES") THEN InvShiftRows(shift_in) ELSE sub_in

\* What the latches keep when a state ends.
Latch ==
    /\ add_in' = ADD_IN
    /\ addkey' = ADDKEY
    /\ mixin' = MIXIN
    /\ mix_out' = MIX_OUT
    /\ shift_in' = SHIFT_IN
    /\ sub_in' = SUB_IN

Plaintext == AddOut
Ready     == In("FINISH")

-----------------------------------------------------------------------------
(* The next state. *)

Goto(s, r, g) == state' = s /\ rnd' = r /\ grp' = g

Start == In("WAIT") /\ run /\ Goto("INV_ADDROUND", 1, 0)
Idle == In("WAIT") /\ ~run /\ Goto("WAIT", 0, 0)
\* Variant: the last round key left out.
AddedOneShort ==
    /\ In("INV_ADDROUND")
    /\ \/ rnd = 1                /\ Goto("INV_SHIFTROWS", 1, 0)
       \/ rnd \in 2 .. Rounds-1  /\ Goto("INV_MIXCOLUMNS", rnd - 1, 1)
       \/ rnd >= Rounds          /\ Goto("FINISH", 0, 0)
Added ==
    /\ In("INV_ADDROUND")
    /\ \/ rnd = 1             /\ Goto("INV_SHIFTROWS", 1, 0)
       \/ rnd \in 2 .. Rounds /\ Goto("INV_MIXCOLUMNS", rnd - 1, 1)
       \/ rnd = Rounds + 1    /\ Goto("FINISH", 0, 0)
Gather == In("INV_MIXCOLUMNS") /\ Goto("INV_MIXCOLUMNS_1", rnd, grp)
Scatter ==
    /\ In("INV_MIXCOLUMNS_1")
    /\ \/ grp < W /\ Goto("INV_MIXCOLUMNS", rnd, grp + 1)
       \/ grp = W /\ Goto("INV_SHIFTROWS", rnd + 1, 0)
Shifted == In("INV_SHIFTROWS") /\ Goto("INV_SUBBYTES", rnd, 0)
Subbed == In("INV_SUBBYTES") /\ Goto("INV_ADDROUND", rnd + 1, 0)
Finished == In("FINISH") /\ Goto("FINISH", 0, 0)

NextState ==
    Start \/ Idle \/ Added \/ Gather \/ Scatter \/ Shifted \/ Subbed \/ Finished

\* Every clock edge reads the S-boxes, in reset or not.
RomEdge == sub_out' = InvSubBytes(SUB_IN) /\ SubwordEdge(Cipherkey)

-----------------------------------------------------------------------------
(* Where the engine is on its path, as AesController counts. *)

Stride     == 2 * W + 3
PathLength == 1 + 3 * Rounds + 2 * W * (Rounds - 1)

Pos ==
    CASE In("WAIT")             -> 0
      [] In("FINISH")           -> PathLength + 1
      [] In("INV_ADDROUND")     -> IF rnd = 1 THEN 1 ELSE 4 + Stride * (rnd - 2)
      [] In("INV_MIXCOLUMNS")   -> 4 + Stride * (rnd - 1) + 2 * grp - 1
      [] In("INV_MIXCOLUMNS_1") -> 4 + Stride * (rnd - 1) + 2 * grp
      [] In("INV_SHIFTROWS")    -> 2 + Stride * (rnd - 1)
      [] In("INV_SUBBYTES")     -> 3 + Stride * (rnd - 1)

\* The history variables; Working are the states in which the inputs matter.
Capture == In("INV_ADDROUND") /\ rnd = 1
Working == ~(Capture \/ In("WAIT") \/ In("FINISH"))

Record ==
    /\ job' = IF Capture THEN inputs ELSE job
    /\ intact' = IF Working THEN intact /\ inputs = job ELSE intact \/ Capture

-----------------------------------------------------------------------------
(* The engine among inputs that move at will. *)

Drive == inputs' \in Inputs /\ run' \in BOOLEAN

EngineEdge == ~held /\ NextState /\ Latch /\ RomEdge /\ Record /\ UNCHANGED held

Edge == EngineEdge /\ Drive

EdgeInReset == held /\ RomEdge /\ Drive /\ UNCHANGED <<state, rnd, grp, latches, held, job, intact>>

\* Reset goes low between two edges: the latches keep what they had followed.
Reset ==
    /\ ~held
    /\ held' = TRUE
    /\ Goto("WAIT", 0, 0)
    /\ Latch
    /\ Drive
    /\ UNCHANGED <<roms, job, intact>>

Release == held /\ held' = FALSE /\ Drive /\ UNCHANGED <<state, rnd, grp, latches, roms, job, intact>>

Next == Edge \/ EdgeInReset \/ Reset \/ Release

\* Power-up; what the latches and ROM registers hold is not defined by the code.
Init ==
    /\ state = "WAIT" /\ rnd = 0 /\ grp = 0
    /\ \E b \in PowerUp :
          /\ add_in = b /\ addkey = b /\ mix_out = b /\ shift_in = b /\ sub_in = b
          /\ mixin = Gathered(b, 1)
          /\ sub_out = b
          /\ subword = [r \in 1 .. Rounds |-> Gathered(b, 1)]
    /\ inputs \in Inputs
    /\ run = FALSE
    /\ held = FALSE
    /\ job = <<ZeroBlock, ZeroBlock>>
    /\ intact = FALSE

Spec == Init /\ [][Next]_vars

-----------------------------------------------------------------------------
(* What the engine computes, without its clock. *)

\* mix_out once all its words are written.
MixedColumns(in) == [j \in Index |-> InvMixColumns(Gathered(in, j \div W + 1))[j % W]]

\* The block at the output of AddRoundKey after round key r.
Decoded(c, k) ==
    LET rk == Expanded(k)
        d[r \in 0 .. Rounds] ==
            IF r = 0 THEN AddRoundKey(c, rk[0])
            ELSE LET mixed == IF r = 1 THEN d[0] ELSE MixedColumns(d[r-1])
                 IN  AddRoundKey(InvSubBytes(InvShiftRows(mixed)), rk[r])
    IN  d

Result == [p \in Pair |-> Decoded(p[1], p[2])[Rounds]]

-----------------------------------------------------------------------------
(* Properties. *)

A == INSTANCE AesController WITH
        InvAes  <- Result,
        Latency <- PathLength,
        ctrl    <- IF run THEN "COMPUTE" ELSE "WAIT",
        eng     <- Pos

\* The round key that each AddRoundKey has latched is that round's key of
\* the job: nothing in invAES.sv waits for the pipeline of KeyExpansion.sv,
\* the states in between have to last long enough.
RoundKeysHaveSettled ==
    intact /\ Working /\ ~In("INV_ADDROUND") =>
        LET added == IF In("INV_SHIFTROWS") \/ In("INV_SUBBYTES") THEN rnd - 1 ELSE rnd
        IN  addkey = Expanded(job[2])[added]

\* The engine's outputs are those AesController gives it: Ready in its last
\* state, and then, if the inputs did not move, the result of the pair it
\* started on, whatever the latches and ROM registers held before.
OutputsOfTheEngine ==
    /\ Ready <=> A!AesDone
    /\ Plaintext \in A!MsgDe

\* Every step is one of the abstract engine's: one path, one clock a state.
StepsOfTheEngine ==
    [][ \/ ~held /\ A!EngineEdge(inputs)
        \/ held' /\ Pos' = 0 /\ UNCHANGED <<job, intact>> ]_<<Pos, job, intact>>

=============================================================================

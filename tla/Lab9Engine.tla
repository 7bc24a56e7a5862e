----------------------------- MODULE Lab9Engine -----------------------------
(***************************************************************************)
(* lab9.sv with invAES.sv itself in it: the system of Lab9, where the      *)
(* engine is not the counter and function of AesController but the states, *)
(* latches and ROMs of InvAesEngine.                                       *)
(*                                                                         *)
(* The engine's inputs are io_module's registers, its Run is start_aes of  *)
(* aes_controller, its Reset is KEY[1], and what io_module reads is what   *)
(* stands at the engine's outputs, whatever that is.                       *)
(*                                                                         *)
(* The two components are instances with their theorems, from which those  *)
(* of the whole follow: invAES.sv is driven as InvAesEngine supposes, and  *)
(* so does what Lab9 supposes of an engine.  Each of the two facts needs   *)
(* the other's invariant; they are proved by one induction.                *)
(***************************************************************************)
EXTENDS IoModule, NiosMain, KeyExpansion, TLAPS

CONSTANTS InvSub, Mul    \* as in InvAesEngine

VARIABLES
    ctrl,                                   \* state of aes_controller
    state, rnd, grp,                        \* the registers of invAES and of
    add_in, addkey, mixin, mix_out,         \* its data path, as in
    shift_in, sub_in, sub_out,              \* InvAesEngine
    job, intact,                            \* history, as in InvAesEngine
    key0_down, key1_down, aligned, served   \* as in Lab9

StartAes == ctrl = "COMPUTE"
AesReady == ctrl = "READY"

\* aes_controller's invaes0: nothing is known of the latches at power-up.
E == INSTANCE InvAesEngineProofs WITH
        inputs  <- <<msg_en, key>>,
        run     <- StartAes,
        held    <- key1_down,
        Inputs  <- Block \X Block,
        PowerUp <- Block

\* Lab9, its abstract engine placed where the real one is on its path and
\* computing what the real one computes.
L == INSTANCE Lab9Proofs WITH
        InvAes  <- E!Result,
        Latency <- E!PathLength,
        eng     <- E!Pos

latches     == <<add_in, addkey, mixin, mix_out, shift_in, sub_in>>
roms        == <<sub_out, subword>>
engineState == <<state, rnd, grp, latches, roms>>
swVars      == <<niosVars, pioIn>>
boardVars   == <<ioVars, ctrl, engineState, job, intact, swVars,
                 key0_down, key1_down, aligned, served>>

Init ==
    /\ IoInit
    /\ ctrl = "WAIT"
    /\ E!Init
    /\ NiosInit
    /\ key0_down = FALSE
    /\ aligned = TRUE
    /\ served = FALSE

-----------------------------------------------------------------------------
(* A clock edge. *)

CtrlEdge ==
    \/ ctrl = "WAIT" /\ IoReady /\ ctrl' = "COMPUTE"
    \/ ctrl = "COMPUTE" /\ E!Ready /\ ctrl' = "READY"
    \/ /\ \/ ctrl = "WAIT" /\ ~IoReady
          \/ ctrl = "COMPUTE" /\ ~E!Ready
          \/ ctrl = "READY"
       /\ UNCHANGED ctrl

HardwareRuns ==
    /\ L!IoEdge(to_hw_sig, to_hw_port, {E!Plaintext}, AesReady)
    /\ CtrlEdge
    /\ E!EngineEdge

\* The S-boxes are clocked ROMs without a reset.
HardwareHeld ==
    /\ key1_down
    /\ E!RomEdge
    /\ UNCHANGED <<ioVars, ctrl, state, rnd, grp, latches, job, intact>>

Edge ==
    /\ HardwareRuns \/ HardwareHeld
    /\ L!SoftwareEdge(L!NiosStep) \/ L!SoftwareEdge(L!NiosWaits) \/ L!SoftwareHeld
    /\ UNCHANGED <<key0_down, key1_down, aligned>>

-----------------------------------------------------------------------------
(* The buttons.  KEY[1] reaches the states of invAES and not its latches,  *)
(* which keep what they had followed; KEY[0] does not reach the hardware.  *)

Key1Down ==
    /\ ~key1_down
    /\ key1_down' = TRUE
    /\ L!IoReset
    /\ ctrl' = "WAIT"
    /\ E!Goto("WAIT", 0, 0)
    /\ E!Latch
    /\ served' = FALSE
    /\ UNCHANGED <<roms, job, intact, swVars, key0_down, aligned>>

Key1Up   == UNCHANGED engineState /\ L!Key1Up
Key0Down == UNCHANGED engineState /\ L!Key0Down
Key0Up   == UNCHANGED engineState /\ L!Key0Up

Next == Edge \/ Key1Down \/ Key1Up \/ Key0Down \/ Key0Up

Spec == Init /\ [][Next]_boardVars

-----------------------------------------------------------------------------
(* What is to be shown. *)

\* The ROMs and multiplications of the data path take bytes to bytes.
DataPathFits ==
    /\ InvSub \in [Byte -> Byte]
    /\ Mul \in [WordIndex -> [Byte -> Byte]]

\* invAES.sv is in the surroundings InvAesEngine supposes: its inputs move
\* only as blocks do, Run is the controller's, and a reset that comes at any
\* moment clears the inputs and the states together.
DrivesTheEngine == E!Init /\ [][E!Next]_(E!vars)

\* The abstract engine of AesController may stand for it: every step of the
\* board is one of Lab9's.
ImplementsLab9 == L!Init /\ [][L!Next]_(L!vars)

\* The board answers as Decryptor does, with what invAES.sv computes.
ImplementsDecryptor == L!D!DecryptorInit /\ [][L!D!DecryptorNext]_(L!D!dVars)

\* Both invariants, of the engine's data and of the exchange.
BoardInv == E!EngineInv /\ L!RInv

-----------------------------------------------------------------------------
(* What the components ask of their constants. *)

LEMMA ConstantsFit ==
    ASSUME DataPathFits
    PROVE  /\ E!DataPathAssumption /\ E!RomAssumption /\ E!WordAssumption /\ E!BlockAssumption
           /\ L!BlockAssumption /\ L!JobsAssumption
<1>1. E!WordIndex = WordIndex /\ E!Pair = Block \X Block /\ E!Word = Word
    BY DEF E!WordIndex, WordIndex, E!Pair, E!Block, Block, E!Index, Index, E!Word, Word
<1> QED
    BY <1>1, BlockAssumption, WordAssumption, RomAssumption, JobsAssumption
    DEF DataPathFits, E!DataPathAssumption, E!RomAssumption, E!WordAssumption, E!BlockAssumption,
        L!BlockAssumption, L!JobsAssumption, E!Block, Block, E!Index, Index, L!Block, L!Index

LEMMA SameBlocks ==
    /\ E!Block = Block /\ L!Block = Block /\ E!Pair = Block \X Block /\ L!Pair = Block \X Block
    /\ E!ZeroBlock = ZeroBlock /\ L!ZeroBlock = ZeroBlock
BY DEF E!Block, L!Block, Block, E!Index, L!Index, Index, E!Pair, L!Pair,
       E!ZeroBlock, L!ZeroBlock, ZeroBlock

LEMMA EngineFits ==
    ASSUME DataPathFits
    PROVE  L!EngineAssumption
<1>1. E!Result \in [E!Pair -> E!Block] /\ E!PathLength \in Nat \ {0}
    BY ConstantsFit, E!EngineConstants
<1> QED
    BY <1>1, SameBlocks DEF L!EngineAssumption

-----------------------------------------------------------------------------
(* The engine of the board is the abstract one. *)

\* What the abstract engine sees of the real one: the outputs, and the step
\* of a clock edge.
LEMMA EngineSeen ==
    ASSUME DataPathFits, E!EngineInv
    PROVE  /\ E!Ready <=> L!AesDone
           /\ E!Plaintext \in L!MsgDe
           /\ E!EngineEdge => L!EngineEdge(<<msg_en, key>>)
<1>1. E!OutputsOfTheEngine
    BY ConstantsFit, E!OutputsHold
<1>2. E!EngineEdge => E!A!EngineEdge(<<msg_en, key>>)
    BY ConstantsFit, E!EdgeIsAbstract
<1>3. (E!Ready <=> L!AesDone) /\ E!Plaintext \in L!MsgDe
    BY <1>1
    DEF E!OutputsOfTheEngine, E!A!AesDone, E!A!Finish, E!A!MsgDe, E!A!Block, E!A!Index,
        L!AesDone, L!Finish, L!MsgDe, L!Block, L!Index
<1>4. E!A!EngineEdge(<<msg_en, key>>) => L!EngineEdge(<<msg_en, key>>)
    BY DEF E!A!EngineEdge, E!A!Leave, E!A!Capture, E!A!Compute, E!A!EngineHolds, E!A!StartAes,
        E!A!AesDone, E!A!Finish, L!EngineEdge, L!Leave, L!Capture, L!Compute, L!EngineHolds,
        L!StartAes, L!AesDone, L!Finish, StartAes
<1> QED
    BY <1>2, <1>3, <1>4

LEMMA EdgeImplements ==
    ASSUME DataPathFits, E!EngineInv, HardwareRuns
    PROVE  L!HardwareRuns
<1>1. L!EngineEdge(<<msg_en, key>>) /\ ~key1_down
    BY EngineSeen DEF HardwareRuns, E!EngineEdge
<1>2. L!CtrlEdge(L!IoReady)
    BY EngineSeen
    DEF HardwareRuns, CtrlEdge, IoReady, L!CtrlEdge, L!StartEngine, L!EngineDone, L!CtrlHolds, L!IoReady
<1>3. L!IoEdge(to_hw_sig, to_hw_port, L!MsgDe, L!AesReady)
    <2>1. L!IoEdge(to_hw_sig, to_hw_port, {E!Plaintext}, L!AesReady)
        BY DEF HardwareRuns, AesReady, L!AesReady
    <2>2. \A sig : L!SendBack(sig, {E!Plaintext}) => L!SendBack(sig, L!MsgDe)
        BY EngineSeen DEF L!SendBack, L!LatchSendBack
    <2> QED
        BY <2>1, <2>2 DEF L!IoEdge
<1> QED
    BY <1>1, <1>2, <1>3 DEF L!HardwareRuns

\* A clock edge, a button: each is Lab9's.
LEMMA StepIsLab9 ==
    ASSUME DataPathFits, E!EngineInv, [Next]_boardVars
    PROVE  [L!Next]_(L!vars)
<1>1. CASE Edge
    <2>1. CASE HardwareRuns
        BY <1>1, <2>1, EdgeImplements DEF Edge, L!Next, L!Edge, L!HardwareEdge, L!buttons
    <2>2. CASE HardwareHeld
        <3>1. L!HardwareHeld
            BY <2>2 DEF HardwareHeld, ioVars, L!HardwareHeld, L!hwVars, L!ioVars, L!ctrlVars, E!Pos, E!In
        <3> QED
            BY <1>1, <3>1 DEF Edge, L!Next, L!Edge, L!HardwareEdge, L!buttons
    <2> QED
        BY <1>1, <2>1, <2>2 DEF Edge
<1>2. CASE Key1Down
    <2>1. E!Pos' = 0
        BY <1>2 DEF Key1Down, E!Goto, E!Pos, E!In
    <2> QED
        BY <1>2, <2>1
        DEF Key1Down, L!Next, L!Buttons, L!Key1Down, L!CtrlReset,
            swVars, niosVars, userVars, pioIn, L!swVars, L!niosVars, L!userVars, L!pioIn
<1>3. CASE Key1Up \/ Key0Down \/ Key0Up
    BY <1>3 DEF Key1Up, Key0Down, Key0Up, L!Next, L!Buttons
<1>4. CASE UNCHANGED boardVars
    BY <1>4
    DEF boardVars, engineState, ioVars, swVars, niosVars, userVars, pioIn, E!Pos, E!In,
        L!vars, L!hwVars, L!ioVars, L!ctrlVars, L!swVars, L!niosVars, L!userVars, L!pioIn,
        L!buttons, L!history
<1> QED
    BY <1>1, <1>2, <1>3, <1>4 DEF Next

-----------------------------------------------------------------------------
(* The board drives the engine as InvAesEngine supposes. *)

LEMMA StepDrives ==
    ASSUME L!IInv', [Next]_boardVars
    PROVE  [E!Next]_(E!vars)
<1>1. <<msg_en, key>>' \in Block \X Block
    BY SameBlocks DEF L!IInv, L!TypeOK, L!IoTypeOK
<1>2. E!Drive
    BY <1>1 DEF E!Drive, StartAes
<1>3. CASE Edge
    <2>1. CASE HardwareRuns
        BY <1>2, <2>1 DEF HardwareRuns, E!Next, E!Edge
    <2>2. CASE HardwareHeld
        BY <1>2, <1>3, <2>2 DEF HardwareHeld, latches, Edge, E!Next, E!EdgeInReset, E!latches
    <2> QED
        BY <1>3, <2>1, <2>2 DEF Edge
<1>4. CASE Key1Down
    BY <1>2, <1>4 DEF Key1Down, roms, E!Next, E!Reset, E!roms
<1>5. CASE Key1Up
    BY <1>2, <1>5
    DEF Key1Up, engineState, latches, roms, L!Key1Up, L!hwVars, L!ctrlVars,
        E!Next, E!Release, E!latches, E!roms
<1>6. CASE Key0Down \/ Key0Up \/ UNCHANGED boardVars
    BY <1>6
    DEF Key0Down, Key0Up, boardVars, engineState, latches, roms, ioVars, StartAes,
        L!Key0Down, L!Key0Up, L!hwVars, L!ctrlVars, L!ioVars, E!vars, E!latches, E!roms
<1> QED
    BY <1>3, <1>4, <1>5, <1>6 DEF Next

-----------------------------------------------------------------------------
(* One induction for both. *)

LEMMA StartOfBoth ==
    ASSUME Init
    PROVE  E!Init /\ L!Init
BY DEF Init, IoInit, NiosInit, L!Init, L!IoInit, L!CtrlInit, L!NiosInit, E!Init, E!Pos, E!In,
       E!ZeroBlock, E!Index, ZeroBlock, Index, L!ZeroBlock, L!Index

LEMMA BoardInit ==
    ASSUME DataPathFits, Init
    PROVE  BoardInv
<1>1. E!EngineInv
    BY StartOfBoth, ConstantsFit, E!InitHolds
<1>2. L!RInv
    BY StartOfBoth, ConstantsFit, EngineFits, L!RInvInit
<1> QED
    BY <1>1, <1>2 DEF BoardInv

LEMMA BoardNext ==
    ASSUME DataPathFits, BoardInv, [Next]_boardVars
    PROVE  BoardInv' /\ [L!Next]_(L!vars) /\ [E!Next]_(E!vars)
<1>1. [L!Next]_(L!vars)
    BY StepIsLab9 DEF BoardInv
<1>2. L!RInv'
    BY <1>1, ConstantsFit, EngineFits, L!RInvNext DEF BoardInv
<1>3. [E!Next]_(E!vars)
    BY <1>2, StepDrives DEF L!RInv
<1>4. E!EngineInv'
    BY <1>3, ConstantsFit, E!EngineNext DEF BoardInv
<1> QED
    BY <1>1, <1>2, <1>3, <1>4 DEF BoardInv

LEMMA BoardInvariance ==
    ASSUME DataPathFits
    PROVE  Spec => []BoardInv
<1>1. Init => BoardInv
    BY BoardInit
<1>2. BoardInv /\ [Next]_boardVars => BoardInv'
    BY BoardNext
<1> QED
    BY <1>1, <1>2, PTL DEF Spec

-----------------------------------------------------------------------------
(* The theorems. *)

\* io_module.sv, aes_controller.sv and the two buttons never do to invAES.sv
\* what InvAesEngine does not allow its surroundings to do.
THEOREM EngineIsDriven ==
    ASSUME DataPathFits
    PROVE  Spec => DrivesTheEngine
<1>1. Init => E!Init
    BY StartOfBoth
<1>2. BoardInv /\ [Next]_boardVars => [E!Next]_(E!vars)
    BY BoardNext
<1> QED
    BY <1>1, <1>2, BoardInvariance, PTL DEF Spec, DrivesTheEngine

\* With the states, latches and ROMs of invAES.sv in the place of Lab9's
\* counter and function, the system does nothing that Lab9 does not: the
\* abstraction under all of Lab9's runs and theorems is sound.
THEOREM EngineMayBeAbstract ==
    ASSUME DataPathFits
    PROVE  Spec => ImplementsLab9
<1>1. Init => L!Init
    BY StartOfBoth
<1>2. BoardInv /\ [Next]_boardVars => [L!Next]_(L!vars)
    BY BoardNext
<1> QED
    BY <1>1, <1>2, BoardInvariance, PTL DEF Spec, ImplementsLab9

\* Hence what holds of Lab9 holds of the board: main.c and io_module.sv stay
\* at the same byte, none is lost either way, and no result is of inputs
\* that moved.
THEOREM ExchangeOnTheBoard ==
    ASSUME DataPathFits
    PROVE  Spec => []( /\ L!Lockstep
                       /\ L!SentBytesArrived
                       /\ L!RetrievedBytesAreTheResult
                       /\ L!ResultsAreOfSteadyInputs )
<1>1. ASSUME BoardInv
      PROVE  /\ L!Lockstep /\ L!SentBytesArrived
             /\ L!RetrievedBytesAreTheResult /\ L!ResultsAreOfSteadyInputs
    BY <1>1 DEF BoardInv, L!RInv, L!IInv, L!EngineInStep, L!ResultsAreOfSteadyInputs
<1> QED
    BY <1>1, BoardInvariance, PTL

\* And what holds of invAES.sv holds of the one on the board: each of its
\* additions takes a settled round key, and its outputs are as promised.
THEOREM EngineOnTheBoard ==
    ASSUME DataPathFits
    PROVE  Spec => [](E!RoundKeysHaveSettled /\ E!OutputsOfTheEngine)
<1>1. BoardInv => E!RoundKeysHaveSettled /\ E!OutputsOfTheEngine
    BY ConstantsFit, E!RoundKeysHold, E!OutputsHold DEF BoardInv
<1> QED
    BY <1>1, BoardInvariance, PTL

\* While io_module.sv sends a result back, byte by byte at the pace of the
\* program's polls, what stands on msg_de is the decryption of the pair the
\* engine read, and no longer what a latch followed.
WiresHoldTheResult ==
    io_state \in {"GET_FROM_AES", "SEND_BACK", "GOT_ACK"} =>
        E!Plaintext = E!Decoded(job[1], job[2])[Rounds]

\* In the first round after a reset main.c prints what the states of
\* invAES.sv, one after the other, make of the message and key of the round.
FirstRoundIsDecoded ==
    L!InForce /\ ~served /\ pc = "print" =>
        str = E!Decoded(encrypted_message, key_pairs_hex)[Rounds]

\* From the keyboard's bytes to the printed ones through every register of
\* the board, for any number of rounds and any tables.
THEOREM BoardDecodes ==
    ASSUME DataPathFits
    PROVE  Spec => [](WiresHoldTheResult /\ FirstRoundIsDecoded)
<1>1. ASSUME BoardInv PROVE WiresHoldTheResult
    <2> SUFFICES ASSUME io_state \in {"GET_FROM_AES", "SEND_BACK", "GOT_ACK"}
                 PROVE  E!Plaintext = E!Decoded(job[1], job[2])[Rounds]
        BY DEF WiresHoldTheResult
    <2>1. L!AesDone /\ intact
        BY <1>1 DEF BoardInv, L!RInv, L!IInv, L!EngineInStep
    <2>2. E!Plaintext = E!Result[job]
        BY <1>1, <2>1, EngineSeen DEF BoardInv, L!MsgDe
    <2>3. job \in E!Pair
        BY <1>1 DEF BoardInv, E!EngineInv, E!EngineTypeOK
    <2> QED
        BY <2>2, <2>3 DEF E!Result
<1>2. ASSUME BoardInv PROVE FirstRoundIsDecoded
    <2>1. L!FirstRoundDecodesItsPair
        BY <1>2, ConstantsFit, EngineFits, L!FirstRoundHolds DEF BoardInv, L!RInv
    <2>2. <<encrypted_message, key_pairs_hex>> \in E!Pair
        BY <1>2, SameBlocks DEF BoardInv, L!RInv, L!IInv, L!TypeOK, L!NiosTypeOK
    <2>3. E!Result[<<encrypted_message, key_pairs_hex>>] =
              E!Decoded(encrypted_message, key_pairs_hex)[Rounds]
        BY <2>2 DEF E!Result
    <2> QED
        BY <2>1, <2>3 DEF FirstRoundIsDecoded, L!FirstRoundDecodesItsPair
<1> QED
    BY <1>1, <1>2, BoardInvariance, PTL

\* The whole board, the engine's data path included, takes the steps of
\* Decryptor and no others: all that a user can see of main.c, io_module.sv,
\* aes_controller.sv, invAES.sv and the two buttons.
THEOREM BoardIsADecryptor ==
    ASSUME DataPathFits
    PROVE  Spec => ImplementsDecryptor
<1>1. Init => L!D!DecryptorInit
    BY StartOfBoth, ConstantsFit, EngineFits, L!StartImplements
<1>2. BoardInv /\ BoardInv' /\ [Next]_boardVars => [L!D!DecryptorNext]_(L!D!dVars)
    BY BoardNext, ConstantsFit, EngineFits, L!StepImplements DEF BoardInv
<1> QED
    BY <1>1, <1>2, BoardInvariance, PTL DEF Spec, ImplementsDecryptor

=============================================================================

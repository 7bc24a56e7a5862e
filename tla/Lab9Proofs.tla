----------------------------- MODULE Lab9Proofs -----------------------------
(***************************************************************************)
(* Theorems of Lab9, for every block length, byte set, engine function and *)
(* latency: every register keeps its type, the two sides stay in lockstep  *)
(* and every byte arrives, and together they implement the steps of        *)
(* Decryptor.                                                              *)
(***************************************************************************)
EXTENDS Lab9Decryptor, TLAPS

-----------------------------------------------------------------------------
(* Blocks and outputs. *)

LEMMA StoreType ==
    ASSUME NEW b \in Block, NEW v \in Byte, NEW j
    PROVE  [b EXCEPT ![j] = v] \in Block
BY DEF Block

LEMMA SelectType ==
    ASSUME NEW b \in Block, NEW j \in Index
    PROVE  b[j] \in Byte
BY DEF Block

LEMMA ZeroTypes == ZeroBlock \in Block /\ Zero \in Byte /\ 0 \in Index /\ N-1 \in Index
BY BlockAssumption DEF ZeroBlock, Block, Index

LEMMA ToSwSigType == ToSwSig \in Signal
BY DEF ToSwSig, Signal

LEMMA MsgDeType ==
    ASSUME CtrlTypeOK
    PROVE  MsgDe \subseteq Block
BY EngineAssumption DEF CtrlTypeOK, MsgDe, Pair

-----------------------------------------------------------------------------
(* Type correctness. *)

LEMMA InitType == Init => TypeOK
<1> SUFFICES ASSUME Init PROVE TypeOK
    OBVIOUS
<1>1. IoTypeOK
    BY ZeroTypes DEF Init, IoInit, IoTypeOK, PlainStates
<1>2. CtrlTypeOK
    <2>1. eng \in 0 .. Finish
        BY EngineAssumption DEF Init, CtrlInit, Finish
    <2>2. ctrl \in {"WAIT", "COMPUTE", "READY"} /\ job \in Pair /\ intact \in BOOLEAN
        BY ZeroTypes DEF Init, CtrlInit, Pair
    <2> QED
        BY <2>1, <2>2 DEF CtrlTypeOK
<1>3. NiosTypeOK
    BY ZeroTypes DEF Init, NiosInit, NiosTypeOK, Locations, Signal
<1> QED
    BY <1>1, <1>2, <1>3 DEF Init, TypeOK

\* Each state of io_module moves to a state that exists, at a byte that exists.
LEMMA IoEdgeType ==
    ASSUME TypeOK, IoEdge(to_hw_sig, to_hw_port, MsgDe, AesReady)
    PROVE  IoTypeOK'
<1> USE DEF PlainStates, NumberedStates, Goto, Stay, AwaitSignal
<1>a. io_idx \in Index /\ (io_idx # N-1 => io_idx + 1 \in Index) /\ 0 \in Index
    BY BlockAssumption DEF TypeOK, IoTypeOK, Index
<1>b. to_hw_port \in Byte /\ msg_en \in Block /\ key \in Block /\ to_sw_port \in Byte
    BY DEF TypeOK, IoTypeOK, NiosTypeOK
<1>1. CASE InReset
    BY <1>1, <1>a, <1>b DEF InReset, LeaveReset, NoLatch, IoTypeOK
<1>2. CASE Waiting(to_hw_sig)
    BY <1>2, <1>a, <1>b DEF Waiting, Dispatch, NoLatch, IoTypeOK
<1>3. CASE ReadMsg(to_hw_sig, to_hw_port)
    BY <1>3, <1>a, <1>b, StoreType DEF ReadMsg, AfterReadMsg, LatchMsg, IoTypeOK
<1>4. CASE AckMsg(to_hw_sig)
    BY <1>4, <1>a, <1>b DEF AckMsg, AfterAckMsg, AwaitNextByte, NoLatch, IoTypeOK
<1>5. CASE ReadKey(to_hw_sig, to_hw_port)
    BY <1>5, <1>a, <1>b, StoreType DEF ReadKey, AfterReadKey, LatchKey, IoTypeOK
<1>6. CASE AckKey(to_hw_sig)
    BY <1>6, <1>a, <1>b DEF AckKey, AfterAckKey, AwaitNextByte, NoLatch, IoTypeOK
<1>7. CASE SendToAes(AesReady)
    BY <1>7, <1>a, <1>b DEF SendToAes, AfterSendToAes, NoLatch, IoTypeOK
<1>8. CASE GetFromAes(to_hw_sig)
    BY <1>8, <1>a, <1>b DEF GetFromAes, AfterGetFromAes, NoLatch, IoTypeOK
<1>9. CASE SendBack(to_hw_sig, MsgDe)
    <2>1. to_sw_port' \in Byte
        BY <1>9, <1>a, MsgDeType, SelectType DEF SendBack, LatchSendBack, TypeOK
    <2> QED
        BY <1>9, <1>a, <1>b, <2>1 DEF SendBack, AfterSendBack, LatchSendBack, IoTypeOK
<1>10. CASE GotAck(to_hw_sig)
    BY <1>10, <1>a, <1>b DEF GotAck, AfterGotAck, AwaitNextByte, NoLatch, IoTypeOK
<1> QED
    BY <1>1, <1>2, <1>3, <1>4, <1>5, <1>6, <1>7, <1>8, <1>9, <1>10 DEF IoEdge

LEMMA CtrlEdgeType ==
    ASSUME TypeOK, CtrlEdge(IoReady), EngineEdge(<<msg_en, key>>)
    PROVE  CtrlTypeOK'
<1>1. ctrl' \in {"WAIT", "COMPUTE", "READY"}
    BY DEF TypeOK, CtrlTypeOK, CtrlEdge, StartEngine, EngineDone, CtrlHolds
<1>2. eng' \in 0 .. Finish
    BY EngineAssumption
    DEF TypeOK, CtrlTypeOK, EngineEdge, Leave, Capture, Compute, EngineHolds, Finish
<1>3. job' \in Pair
    BY DEF TypeOK, IoTypeOK, CtrlTypeOK, EngineEdge, Leave, Capture, Compute, EngineHolds, Pair
<1>4. intact' \in BOOLEAN
    BY DEF TypeOK, CtrlTypeOK, EngineEdge, Leave, Capture, Compute, EngineHolds
<1> QED
    BY <1>1, <1>2, <1>3, <1>4 DEF CtrlTypeOK, Finish

LEMMA HardwareEdgeType ==
    ASSUME TypeOK, HardwareEdge
    PROVE  IoTypeOK' /\ CtrlTypeOK'
<1>1. CASE HardwareRuns
    BY <1>1, IoEdgeType, CtrlEdgeType DEF HardwareRuns
<1>2. CASE HardwareHeld
    BY <1>2 DEF HardwareHeld, hwVars, ioVars, ctrlVars, TypeOK, IoTypeOK, CtrlTypeOK, Finish
<1> QED
    BY <1>1, <1>2 DEF HardwareEdge

\* Every access leaves the program at a place that exists, in the bounds of
\* its arrays.
LEMMA NiosStepType ==
    ASSUME TypeOK, NiosStep
    PROVE  /\ pc' \in Locations
           /\ i' \in Index
           /\ encrypted_message' \in Block
           /\ key_pairs_hex' \in Block
           /\ str' \in Block
           /\ to_hw_sig' \in Signal
           /\ to_hw_port' \in Byte
<1> USE DEF userVars, pioOut
<1>a. /\ i \in Index /\ (i < N-1 => i + 1 \in Index) /\ 0 \in Index /\ Zero \in Byte
    BY ZeroTypes, BlockAssumption DEF TypeOK, NiosTypeOK, Index
<1>b. /\ encrypted_message \in Block
      /\ key_pairs_hex \in Block
      /\ str \in Block
      /\ to_hw_sig \in Signal
      /\ to_hw_port \in Byte
      /\ port_read \in Byte
      /\ encrypted_message[i] \in Byte
      /\ key_pairs_hex[i] \in Byte
    BY <1>a, SelectType DEF TypeOK, NiosTypeOK
<1>1. CASE Start
    BY <1>1, <1>a, <1>b DEF Start, ClearSig, ClearPort, AwaitReset, WriteSig, WritePort, Poll, Locations, Signal
<1>2. CASE Idle
    BY <1>2, <1>a, <1>b DEF Idle, WriteSig, Locations, Signal
<1>3. CASE SendMsg
    BY <1>3, <1>a, <1>b
    DEF SendMsg, MsgSig, MsgPort, MsgWait1, MsgAck, MsgWait0, MsgDone,
        WriteSig, WritePort, Poll, PollNext, Locations, Signal
<1>4. CASE SendKey
    BY <1>4, <1>a, <1>b
    DEF SendKey, KeySig, KeyPort, KeyWait1, KeyAck, KeyWait0, KeyDone,
        WriteSig, WritePort, Poll, PollNext, Locations, Signal
<1>5. CASE Retrieve
    <2>1. CASE GetPort
        BY <2>1, <1>a, <1>b, StoreType DEF GetPort, Locations
    <2>2. CASE Retrieve /\ ~GetPort
        BY <2>2, <1>a, <1>b
        DEF Retrieve, AwaitResult, GetSig, GetWait1, GetAck, GetWait0,
            WriteSig, Poll, PollNext, Locations, Signal
    <2> QED
        BY <1>5, <2>1, <2>2
<1>6. CASE PrintDecoded
    BY <1>6, <1>a, <1>b DEF PrintDecoded, Locations
<1>7. CASE Prompt
    BY <1>7, <1>a, <1>b, JobsAssumption DEF Prompt, Locations
<1> QED
    BY <1>1, <1>2, <1>3, <1>4, <1>5, <1>6, <1>7 DEF NiosStep, NiosRuns

LEMMA SoftwareEdgeType ==
    ASSUME TypeOK,
           SoftwareEdge(NiosStep) \/ SoftwareEdge(NiosWaits) \/ SoftwareHeld
    PROVE  NiosTypeOK' /\ served' \in BOOLEAN
<1>1. CASE SoftwareEdge(NiosStep)
    <2>1. sig_read' \in Signal /\ port_read' \in Byte /\ served' \in BOOLEAN
        BY <1>1, ToSwSigType DEF SoftwareEdge, SampleInputs, TypeOK, IoTypeOK
    <2> QED
        BY <1>1, <2>1, NiosStepType DEF SoftwareEdge, NiosTypeOK
<1>2. CASE SoftwareEdge(NiosWaits)
    <2>1. sig_read' \in Signal /\ port_read' \in Byte /\ served' \in BOOLEAN
        BY <1>2, ToSwSigType DEF SoftwareEdge, SampleInputs, TypeOK, IoTypeOK
    <2> QED
        BY <1>2, <2>1 DEF SoftwareEdge, NiosWaits, niosVars, NiosTypeOK, TypeOK
<1>3. CASE SoftwareHeld
    BY <1>3 DEF SoftwareHeld, swVars, niosVars, pioIn, NiosTypeOK, TypeOK
<1> QED
    BY <1>1, <1>2, <1>3

LEMMA ButtonsType ==
    ASSUME TypeOK, Buttons
    PROVE  TypeOK'
<1> USE DEF TypeOK, swVars, niosVars, pioIn, hwVars, ioVars, ctrlVars, history
<1>1. CASE Key1Down
    <2>1. IoTypeOK'
        BY <1>1, ZeroTypes DEF Key1Down, IoReset, Goto, IoTypeOK, PlainStates
    <2>2. CtrlTypeOK'
        BY <1>1, EngineAssumption DEF Key1Down, CtrlReset, CtrlTypeOK, Finish
    <2>3. NiosTypeOK'
        BY <1>1 DEF Key1Down, NiosTypeOK
    <2> QED
        BY <1>1, <2>1, <2>2, <2>3 DEF Key1Down
<1>2. CASE Key1Up
    <2>1. IoTypeOK' /\ CtrlTypeOK' /\ NiosTypeOK'
        BY <1>2 DEF Key1Up, IoTypeOK, CtrlTypeOK, NiosTypeOK, Finish
    <2> QED
        BY <1>2, <2>1 DEF Key1Up, SafeToRelease
<1>3. CASE Key0Down
    <2>1. IoTypeOK' /\ CtrlTypeOK'
        BY <1>3 DEF Key0Down, IoTypeOK, CtrlTypeOK, Finish
    <2>2. NiosTypeOK'
        BY <1>3, ZeroTypes DEF Key0Down, NiosReset, userVars, NiosTypeOK, Locations, Signal
    <2> QED
        BY <1>3, <2>1, <2>2 DEF Key0Down
<1>4. CASE Key0Up
    <2>1. IoTypeOK' /\ CtrlTypeOK' /\ NiosTypeOK'
        BY <1>4 DEF Key0Up, IoTypeOK, CtrlTypeOK, NiosTypeOK, Finish
    <2> QED
        BY <1>4, <2>1 DEF Key0Up
<1> QED
    BY <1>1, <1>2, <1>3, <1>4 DEF Buttons

LEMMA StutterType ==
    ASSUME TypeOK, UNCHANGED vars
    PROVE  TypeOK'
<1> USE DEF vars, hwVars, ioVars, ctrlVars, swVars, niosVars, pioIn, buttons, history
<1>1. IoTypeOK' /\ CtrlTypeOK'
    BY DEF TypeOK, IoTypeOK, CtrlTypeOK, Finish
<1>2. NiosTypeOK'
    BY DEF TypeOK, NiosTypeOK
<1> QED
    BY <1>1, <1>2 DEF TypeOK

LEMMA NextType ==
    ASSUME TypeOK, [Next]_vars
    PROVE  TypeOK'
<1>1. CASE Edge
    <2>1. IoTypeOK' /\ CtrlTypeOK'
        BY <1>1, HardwareEdgeType DEF Edge
    <2>2. NiosTypeOK' /\ served' \in BOOLEAN
        BY <1>1, SoftwareEdgeType DEF Edge
    <2> QED
        BY <1>1, <2>1, <2>2 DEF Edge, TypeOK, buttons
<1>2. CASE Buttons
    BY <1>2, ButtonsType
<1>3. CASE UNCHANGED vars
    BY <1>3, StutterType
<1> QED
    BY <1>1, <1>2, <1>3 DEF Next

\* Every register, the program's arrays and its loop counter keep their
\* types: in particular no loop of main.c runs past its array, and no state
\* of io_module or invAES leads outside its enumeration.
THEOREM TypeCorrect == Spec => []TypeOK
<1>1. Init => TypeOK
    BY InitType
<1>2. TypeOK /\ [Next]_vars => TypeOK'
    BY NextType
<1> QED
    BY <1>1, <1>2, PTL DEF Spec

-----------------------------------------------------------------------------
(* What one clock edge does to io_module. *)

LEMMA IoMoves ==
    ASSUME TypeOK, IoEdge(to_hw_sig, to_hw_port, MsgDe, AesReady)
    PROVE  /\ io_state = "RESET" => io_state' = "WAIT"
           /\ io_state = "WAIT" =>
                 /\ to_hw_sig = 0 => io_state' = "WAIT"
                 /\ to_hw_sig = 1 => At("READ_MSG", 0)'
                 /\ to_hw_sig = 2 => At("READ_KEY", 0)'
                 /\ to_hw_sig = 3 => io_state' = "SEND_TO_AES"
           /\ io_state = "READ_MSG" =>
                 /\ to_hw_sig = 2 => io_state' = "ACK_MSG" /\ io_idx' = io_idx
                 /\ to_hw_sig # 2 => io_state' = "READ_MSG" /\ io_idx' = io_idx
           /\ io_state = "ACK_MSG" /\ io_idx # N-1 =>
                 /\ to_hw_sig = 1 => io_state' = "READ_MSG" /\ io_idx' = io_idx + 1
                 /\ to_hw_sig # 1 => io_state' = "ACK_MSG" /\ io_idx' = io_idx
           /\ io_state = "ACK_MSG" /\ io_idx = N-1 =>
                 /\ to_hw_sig = 0 => io_state' = "WAIT"
                 /\ to_hw_sig # 0 => io_state' = "ACK_MSG" /\ io_idx' = io_idx
           /\ io_state = "READ_KEY" =>
                 /\ to_hw_sig = 1 => io_state' = "ACK_KEY" /\ io_idx' = io_idx
                 /\ to_hw_sig # 1 => io_state' = "READ_KEY" /\ io_idx' = io_idx
           /\ io_state = "ACK_KEY" /\ io_idx # N-1 =>
                 /\ to_hw_sig = 2 => io_state' = "READ_KEY" /\ io_idx' = io_idx + 1
                 /\ to_hw_sig # 2 => io_state' = "ACK_KEY" /\ io_idx' = io_idx
           /\ io_state = "ACK_KEY" /\ io_idx = N-1 =>
                 /\ to_hw_sig = 3 => io_state' = "WAIT"
                 /\ to_hw_sig # 3 => io_state' = "ACK_KEY" /\ io_idx' = io_idx
           /\ io_state = "SEND_TO_AES" =>
                 /\ ctrl = "READY" => io_state' = "GET_FROM_AES"
                 /\ ctrl # "READY" => io_state' = "SEND_TO_AES"
           /\ io_state = "GET_FROM_AES" =>
                 /\ to_hw_sig = 1 => At("SEND_BACK", 0)'
                 /\ to_hw_sig # 1 => io_state' = "GET_FROM_AES"
           /\ io_state = "SEND_BACK" =>
                 /\ to_hw_sig = 2 => io_state' = "GOT_ACK" /\ io_idx' = io_idx
                 /\ to_hw_sig # 2 => io_state' = "SEND_BACK" /\ io_idx' = io_idx
           /\ io_state = "GOT_ACK" /\ io_idx # N-1 =>
                 /\ to_hw_sig = 1 => io_state' = "SEND_BACK" /\ io_idx' = io_idx + 1
                 /\ to_hw_sig # 1 => io_state' = "GOT_ACK" /\ io_idx' = io_idx
           /\ io_state = "GOT_ACK" /\ io_idx = N-1 =>
                 /\ to_hw_sig = 1 => io_state' = "WAIT"
                 /\ to_hw_sig # 1 => io_state' = "GOT_ACK" /\ io_idx' = io_idx
BY DEF IoEdge, InReset, LeaveReset, Waiting, Dispatch, ReadMsg, AfterReadMsg,
       AckMsg, AfterAckMsg, ReadKey, AfterReadKey, AckKey, AfterAckKey,
       SendToAes, AfterSendToAes, GetFromAes, AfterGetFromAes, SendBack, AfterSendBack,
       GotAck, AfterGotAck, AwaitSignal, AwaitNextByte, Goto, Stay, AesReady,
       At, TypeOK, NiosTypeOK, Signal

\* A byte register changes only in the state that is there to receive it.
LEMMA IoLatches ==
    ASSUME TypeOK, IoEdge(to_hw_sig, to_hw_port, MsgDe, AesReady)
    PROVE  /\ msg_en' = (IF io_state = "READ_MSG"
                            THEN [msg_en EXCEPT ![io_idx] = to_hw_port] ELSE msg_en)
           /\ key' = (IF io_state = "READ_KEY"
                         THEN [key EXCEPT ![io_idx] = to_hw_port] ELSE key)
           /\ IF io_state = "SEND_BACK"
                 THEN \E block \in MsgDe : to_sw_port' = block[io_idx]
                 ELSE to_sw_port' = to_sw_port
BY DEF IoEdge, InReset, Waiting, ReadMsg, AckMsg, ReadKey, AckKey, SendToAes,
       GetFromAes, SendBack, GotAck, NoLatch, LatchMsg, LatchKey, LatchSendBack

LEMMA IndexFacts ==
    ASSUME TypeOK
    PROVE  /\ i \in Int /\ 0 <= i /\ i <= N-1 /\ N \in Int /\ N > 0
           /\ io_idx \in Int /\ 0 <= io_idx /\ io_idx <= N-1
BY BlockAssumption DEF TypeOK, NiosTypeOK, IoTypeOK, Index

-----------------------------------------------------------------------------
(* Lockstep at a clock edge at which the program makes no access. *)

LEMMA WaitInStep ==
    ASSUME TypeOK, InStep, UNCHANGED niosVars,
           IoEdge(to_hw_sig, to_hw_port, MsgDe, AesReady),
           sig_read' = ToSwSig
    PROVE  InStep'
<1> USE DEF niosVars, At, ToSwSig, InStep
<1>1. StartInStep'
    BY IoMoves, IndexFacts DEF StartInStep
<1>2. IdleInStep'
    BY IoMoves, IndexFacts DEF IdleInStep, AtRest
<1>3. MsgInStep'
    BY IoMoves, IndexFacts DEF MsgInStep, Before, AtRest
<1>4. KeyInStep'
    BY IoMoves, IndexFacts DEF KeyInStep, Before
<1>5. ResultInStep'
    BY IoMoves, IndexFacts DEF ResultInStep, Before
<1> QED
    BY <1>1, <1>2, <1>3, <1>4, <1>5

-----------------------------------------------------------------------------
(* Lockstep at a clock edge at which the program makes an access. *)

LEMMA StepInStep ==
    ASSUME TypeOK, LoopsStartAtZero, InStep, NiosStep,
           IoEdge(to_hw_sig, to_hw_port, MsgDe, AesReady),
           sig_read' = ToSwSig
    PROVE  InStep'
<1> USE IoMoves, IndexFacts
    DEF userVars, pioOut, At, AtRest, Before, ToSwSig, InStep,
        StartInStep, IdleInStep, MsgInStep, KeyInStep, ResultInStep,
        LoopsStartAtZero, MsgPhase, KeyPhase, ResultPhase
<1>1. CASE Start
    <2>1. CASE ClearSig
        BY <2>1 DEF ClearSig, WriteSig
    <2>2. CASE ClearPort
        BY <2>2 DEF ClearPort, WritePort
    <2>3. CASE AwaitReset
        BY <2>3 DEF AwaitReset, Poll
    <2> QED
        BY <1>1, <2>1, <2>2, <2>3 DEF Start
<1>2. CASE Idle
    BY <1>2 DEF Idle, WriteSig
<1>3. CASE Prompt
    BY <1>3 DEF Prompt
<1>4. CASE SendMsg
    <2>1. CASE MsgSig
        BY <2>1 DEF MsgSig, WriteSig
    <2>2. CASE MsgPort
        BY <2>2 DEF MsgPort, WritePort
    <2>3. CASE MsgWait1
        BY <2>3 DEF MsgWait1, Poll
    <2>4. CASE MsgAck
        BY <2>4 DEF MsgAck, WriteSig
    <2>5. CASE MsgWait0
        BY <2>5 DEF MsgWait0, PollNext
    <2>6. CASE MsgDone
        BY <2>6 DEF MsgDone, WriteSig
    <2> QED
        BY <1>4, <2>1, <2>2, <2>3, <2>4, <2>5, <2>6 DEF SendMsg
<1>5. CASE SendKey
    <2>1. CASE KeySig
        BY <2>1 DEF KeySig, WriteSig
    <2>2. CASE KeyPort
        BY <2>2 DEF KeyPort, WritePort
    <2>3. CASE KeyWait1
        BY <2>3 DEF KeyWait1, Poll
    <2>4. CASE KeyAck
        BY <2>4 DEF KeyAck, WriteSig
    <2>5. CASE KeyWait0
        BY <2>5 DEF KeyWait0, PollNext
    <2>6. CASE KeyDone
        BY <2>6 DEF KeyDone, WriteSig
    <2> QED
        BY <1>5, <2>1, <2>2, <2>3, <2>4, <2>5, <2>6 DEF SendKey
<1>6. CASE Retrieve
    <2>1. CASE AwaitResult
        BY <2>1 DEF AwaitResult, Poll
    <2>2. CASE GetSig
        BY <2>2 DEF GetSig, WriteSig
    <2>3. CASE GetWait1
        BY <2>3 DEF GetWait1, Poll
    <2>4. CASE GetPort
        BY <2>4 DEF GetPort
    <2>5. CASE GetAck
        BY <2>5 DEF GetAck, WriteSig
    <2>6. CASE GetWait0
        BY <2>6 DEF GetWait0, PollNext
    <2> QED
        BY <1>6, <2>1, <2>2, <2>3, <2>4, <2>5, <2>6 DEF Retrieve
<1>7. CASE PrintDecoded
    BY <1>7 DEF PrintDecoded
<1> QED
    BY <1>1, <1>2, <1>3, <1>4, <1>5, <1>6, <1>7 DEF NiosStep, NiosRuns

LEMMA EdgeInStep ==
    ASSUME TypeOK, LoopsStartAtZero, ResetHolds, InStep, HardwareRuns,
           SoftwareEdge(NiosStep) \/ SoftwareEdge(NiosWaits) \/ SoftwareHeld
    PROVE  InStep'
<1>1. CASE SoftwareEdge(NiosStep)
    BY <1>1, StepInStep DEF SoftwareEdge, SampleInputs, HardwareRuns
<1>2. CASE SoftwareEdge(NiosWaits)
    BY <1>2, WaitInStep DEF SoftwareEdge, SampleInputs, HardwareRuns, NiosWaits
<1>3. CASE SoftwareHeld
    <2>1. pc = "start0" /\ to_hw_sig = 0 /\ sig_read = 0
        BY <1>3 DEF SoftwareHeld, ResetHolds
    <2> QED
        BY <1>3, <2>1 DEF SoftwareHeld, swVars, niosVars, pioIn, InStep,
            StartInStep, IdleInStep, MsgInStep, KeyInStep, ResultInStep
<1> QED
    BY <1>1, <1>2, <1>3

-----------------------------------------------------------------------------
(* The parts of the invariant that hold whatever the buttons do. *)

LEMMA ProgramStep ==
    ASSUME TypeOK, LoopsStartAtZero, ProgramOutputs, NiosStep
    PROVE  LoopsStartAtZero' /\ ProgramOutputs'
<1> USE IndexFacts
    DEF LoopsStartAtZero, ProgramOutputs, MsgPhase, KeyPhase, ResultPhase, userVars, pioOut,
            WriteSig, WritePort, Poll, PollNext
<1>1. CASE Start
    BY <1>1 DEF Start, ClearSig, ClearPort, AwaitReset
<1>2. CASE Idle \/ PrintDecoded \/ Prompt
    BY <1>2 DEF Idle, PrintDecoded, Prompt
<1>3. CASE SendMsg
    BY <1>3 DEF SendMsg, MsgSig, MsgPort, MsgWait1, MsgAck, MsgWait0, MsgDone
<1>4. CASE SendKey
    BY <1>4 DEF SendKey, KeySig, KeyPort, KeyWait1, KeyAck, KeyWait0, KeyDone
<1>5. CASE Retrieve
    BY <1>5 DEF Retrieve, AwaitResult, GetSig, GetWait1, GetPort, GetAck, GetWait0
<1> QED
    BY <1>1, <1>2, <1>3, <1>4, <1>5 DEF NiosStep, NiosRuns

LEMMA ProgramNext ==
    ASSUME TypeOK, LoopsStartAtZero, ProgramOutputs, [Next]_vars
    PROVE  LoopsStartAtZero' /\ ProgramOutputs'
<1> USE DEF LoopsStartAtZero, ProgramOutputs, MsgPhase, KeyPhase, ResultPhase
<1>1. CASE Edge /\ SoftwareEdge(NiosStep)
    BY <1>1, ProgramStep DEF SoftwareEdge
<1>2. CASE Edge /\ ~SoftwareEdge(NiosStep)
    BY <1>2 DEF Edge, SoftwareEdge, NiosWaits, SoftwareHeld, swVars, niosVars
<1>3. CASE Buttons
    BY <1>3 DEF Buttons, Key1Down, Key1Up, Key0Down, Key0Up, NiosReset, swVars, niosVars
<1>4. CASE UNCHANGED vars
    BY <1>4 DEF vars, swVars, niosVars
<1> QED
    BY <1>1, <1>2, <1>3, <1>4 DEF Next

LEMMA ResetHoldsNext ==
    ASSUME TypeOK, ResetHolds, [Next]_vars
    PROVE  ResetHolds'
<1>1. CASE Edge
    <2>1. key0_down' => pc' = "start0" /\ to_hw_sig' = 0 /\ sig_read' = 0
        BY <1>1 DEF Edge, buttons, SoftwareEdge, SoftwareHeld, swVars, niosVars, pioIn, ResetHolds
    <2>2. CASE HardwareHeld
        BY <1>1, <2>1, <2>2 DEF Edge, buttons, HardwareHeld, hwVars, ioVars, ctrlVars, ResetHolds
    <2>3. CASE HardwareRuns
        <3>1. ~key1_down'
            BY <1>1, <2>3 DEF Edge, buttons, HardwareRuns
        <3>2. io_state' # "RESET"
            BY <2>3, IoMoves, IndexFacts DEF HardwareRuns, TypeOK, IoTypeOK, PlainStates,
                NumberedStates, NiosTypeOK, Signal, At
        <3> QED
            BY <2>1, <3>1, <3>2 DEF ResetHolds
    <2> QED
        BY <1>1, <2>2, <2>3 DEF Edge, HardwareEdge
<1>2. CASE Buttons
    BY <1>2 DEF Buttons, Key1Down, Key1Up, Key0Down, Key0Up, NiosReset, IoReset, CtrlReset, Goto,
        swVars, niosVars, pioIn, hwVars, ioVars, ctrlVars, ResetHolds
<1>3. CASE UNCHANGED vars
    BY <1>3 DEF vars, swVars, niosVars, pioIn, hwVars, ioVars, ctrlVars, buttons, ResetHolds
<1> QED
    BY <1>1, <1>2, <1>3 DEF Next

LEMMA EngineEdgeInStep ==
    ASSUME TypeOK, ResetHolds, EngineInStep, HardwareRuns
    PROVE  EngineInStep'
<1> USE DEF HardwareRuns
<1>a. Latency \in Nat \ {0} /\ eng \in 0 .. Finish /\ Finish = Latency + 1
    BY EngineAssumption DEF TypeOK, CtrlTypeOK, Finish
<1>1. CASE ctrl = "WAIT"
    <2>1. eng = 0 /\ eng' = 0
        BY <1>1, <1>a DEF EngineInStep, EngineEdge, Leave, Capture, Compute, EngineHolds,
            StartAes, AesDone
    <2>2. ctrl' = "WAIT" \/ (ctrl' = "COMPUTE" /\ io_state = "SEND_TO_AES")
        BY <1>1 DEF CtrlEdge, StartEngine, EngineDone, CtrlHolds, IoReady
    <2>3. io_state = "SEND_TO_AES" => io_state' = "SEND_TO_AES"
        BY <1>1, IoMoves
    <2>4. io_state' \notin {"GET_FROM_AES", "SEND_BACK", "GOT_ACK"}
        BY <1>1, IoMoves, IndexFacts DEF EngineInStep, TypeOK, IoTypeOK, PlainStates,
            NumberedStates, NiosTypeOK, Signal, At
    <2> QED
        BY <2>1, <2>2, <2>3, <2>4 DEF EngineInStep
<1>2. CASE ctrl = "COMPUTE"
    <2>1. /\ io_state = "SEND_TO_AES" /\ io_state' = "SEND_TO_AES"
          /\ msg_en' = msg_en /\ key' = key
        BY <1>2, IoMoves, IoLatches DEF EngineInStep
    <2>2. eng' > 1 => intact' /\ job' = <<msg_en, key>>
        <3>1. CASE Leave
            BY <3>1 DEF Leave
        <3>2. CASE Capture(<<msg_en, key>>)
            BY <3>2 DEF Capture
        <3>3. CASE Compute(<<msg_en, key>>)
            <4>1. eng > 1
                BY <3>3, <1>a DEF Compute
            <4>2. intact /\ job = <<msg_en, key>>
                BY <1>2, <4>1 DEF EngineInStep
            <4>3. job' = job /\ intact' = (intact /\ <<msg_en, key>> = job)
                BY <3>3 DEF Compute
            <4> QED
                BY <4>2, <4>3
        <3>4. CASE EngineHolds
            BY <1>2, <3>4 DEF EngineHolds, EngineInStep
        <3> QED
            BY <3>1, <3>2, <3>3, <3>4 DEF EngineEdge
    <2>3. CASE ctrl' = "COMPUTE"
        BY <2>1, <2>2, <2>3 DEF EngineInStep
    <2>4. CASE ctrl' = "READY" /\ AesDone
        BY <1>a, <2>1, <2>2, <2>4 DEF EngineInStep, AesDone, EngineEdge, Leave, Capture, Compute,
            EngineHolds, Finish
    <2> QED
        BY <1>2, <2>3, <2>4 DEF CtrlEdge, StartEngine, EngineDone, CtrlHolds
<1>3. CASE ctrl = "READY"
    <2>1. ctrl' = "READY"
        BY <1>3 DEF CtrlEdge, StartEngine, EngineDone, CtrlHolds
    <2>2. eng' = eng /\ intact' = intact /\ AesDone /\ intact
        <3>1. AesDone /\ intact
            BY <1>3 DEF EngineInStep
        <3>2. eng # 0 /\ eng # 1 /\ eng \notin 2 .. Latency
            BY <3>1, <1>a DEF AesDone
        <3>3. EngineHolds
            BY <3>2 DEF EngineEdge, Leave, Capture, Compute
        <3> QED
            BY <3>1, <3>3 DEF EngineHolds
    <2> QED
        BY <2>1, <2>2 DEF EngineInStep, AesDone, Finish
<1> QED
    BY <1>1, <1>2, <1>3 DEF TypeOK, CtrlTypeOK

LEMMA EngineInStepNext ==
    ASSUME TypeOK, ResetHolds, EngineInStep, [Next]_vars
    PROVE  EngineInStep'
<1> USE DEF hwVars, ioVars, ctrlVars
<1>1. CASE Edge
    <2>1. CASE HardwareRuns
        BY <2>1, EngineEdgeInStep
    <2>2. CASE HardwareHeld
        BY <2>2 DEF HardwareHeld, EngineInStep, AesDone, Finish
    <2> QED
        BY <1>1, <2>1, <2>2 DEF Edge, HardwareEdge
<1>2. CASE Key1Down
    BY <1>2 DEF Key1Down, IoReset, CtrlReset, Goto, EngineInStep
<1>3. CASE Key1Up \/ Key0Down \/ Key0Up \/ UNCHANGED vars
    BY <1>3 DEF Key1Up, Key0Down, Key0Up, vars, EngineInStep, AesDone, Finish
<1> QED
    BY <1>1, <1>2, <1>3 DEF Next, Buttons

-----------------------------------------------------------------------------
(* The bytes. *)

\* A finished engine keeps its result.
LEMMA ResultStays ==
    ASSUME TypeOK, EngineInStep, EngineEdge(<<msg_en, key>>), ctrl = "READY"
    PROVE  job' = job /\ MsgDe = {InvAes[job]}
<1>1. AesDone /\ intact
    BY DEF EngineInStep
<1>2. eng # 0 /\ eng # 1 /\ eng \notin 2 .. Latency
    BY <1>1, EngineAssumption DEF AesDone, Finish
<1>3. EngineHolds
    BY <1>2 DEF EngineEdge, Leave, Capture, Compute
<1> QED
    BY <1>1, <1>3 DEF EngineHolds, MsgDe

\* A clock edge leaves what has been sent alone, whatever the program does.
LEMMA SentKept ==
    ASSUME TypeOK, InStep, IoEdge(to_hw_sig, to_hw_port, MsgDe, AesReady)
    PROVE  /\ \A k \in Index : k < MsgSent => msg_en'[k] = msg_en[k]
           /\ \A k \in Index : k < KeySent => key'[k] = key[k]
<1> USE DEF InStep, StartInStep, IdleInStep, MsgInStep, KeyInStep, ResultInStep,
            At, AtRest, Before, MsgPhase, KeyPhase, ResultPhase
<1>1. ASSUME NEW k \in Index, k < MsgSent
      PROVE  msg_en'[k] = msg_en[k]
    BY <1>1, IoLatches, IndexFacts DEF MsgSent, TypeOK, IoTypeOK, Block
<1>2. ASSUME NEW k \in Index, k < KeySent
      PROVE  key'[k] = key[k]
    BY <1>2, IoLatches, IndexFacts DEF KeySent, TypeOK, IoTypeOK, Block
<1> QED
    BY <1>1, <1>2

\* The program takes one more byte for sent only when the hardware has
\* acknowledged it.
LEMMA SentGrows ==
    ASSUME TypeOK, LoopsStartAtZero, InStep, NiosStep, NEW k \in Index
    PROVE  /\ k < MsgSent' =>
                 /\ encrypted_message' = encrypted_message
                 /\ k < MsgSent \/ (k = i /\ pc = "msgWait0" /\ At("ACK_MSG", i))
           /\ k < KeySent' =>
                 /\ key_pairs_hex' = key_pairs_hex
                 /\ k < KeySent \/ (k = i /\ pc = "keyWait0" /\ At("ACK_KEY", i))
<1> USE IndexFacts
    DEF MsgSent, KeySent, MsgPhase, KeyPhase, ResultPhase, userVars, pioOut, LoopsStartAtZero,
        InStep, MsgInStep, KeyInStep, WriteSig, WritePort, Poll, PollNext, Index
<1>1. CASE Start
    BY <1>1 DEF Start, ClearSig, ClearPort, AwaitReset
<1>2. CASE Idle \/ PrintDecoded \/ Prompt
    BY <1>2 DEF Idle, PrintDecoded, Prompt
<1>3. CASE SendMsg
    BY <1>3 DEF SendMsg, MsgSig, MsgPort, MsgWait1, MsgAck, MsgWait0, MsgDone
<1>4. CASE SendKey
    BY <1>4 DEF SendKey, KeySig, KeyPort, KeyWait1, KeyAck, KeyWait0, KeyDone
<1>5. CASE Retrieve
    BY <1>5 DEF Retrieve, AwaitResult, GetSig, GetWait1, GetPort, GetAck, GetWait0
<1> QED
    BY <1>1, <1>2, <1>3, <1>4, <1>5 DEF NiosStep, NiosRuns

LEMMA SentStep ==
    ASSUME TypeOK, LoopsStartAtZero, InStep, ByteInFlight, MsgArrived, KeyArrived,
           IoEdge(to_hw_sig, to_hw_port, MsgDe, AesReady),
           NiosStep \/ UNCHANGED niosVars
    PROVE  MsgArrived' /\ KeyArrived'
<1>1. CASE UNCHANGED niosVars
    BY <1>1, SentKept DEF niosVars, MsgArrived, KeyArrived, MsgSent, KeySent
<1>2. CASE NiosStep
    <2>1. io_state = "ACK_MSG" => msg_en' = msg_en
        BY IoLatches
    <2>2. io_state = "ACK_KEY" => key' = key
        BY IoLatches
    <2>3. ASSUME NEW k \in Index, k < MsgSent'
          PROVE  msg_en'[k] = encrypted_message'[k]
        BY <1>2, <2>1, <2>3, SentKept, SentGrows DEF MsgArrived, ByteInFlight, At
    <2>4. ASSUME NEW k \in Index, k < KeySent'
          PROVE  key'[k] = key_pairs_hex'[k]
        BY <1>2, <2>2, <2>4, SentKept, SentGrows DEF KeyArrived, ByteInFlight, At
    <2> QED
        BY <2>3, <2>4 DEF MsgArrived, KeyArrived
<1> QED
    BY <1>1, <1>2

\* In the loop that retrieves the result the engine is done with it.
LEMMA RetrieveWhileReady ==
    ASSUME InStep, EngineInStep
    PROVE  pc \in ResultPhase \cup {"print"} => ctrl = "READY"
BY DEF InStep, ResultInStep, EngineInStep, ResultPhase, At, Before

LEMMA ResultGrows ==
    ASSUME TypeOK, LoopsStartAtZero, ByteInFlight, NiosStep, NEW k \in Index, k < Retrieved'
    PROVE  /\ k < Retrieved \/ (k = i /\ pc = "getWait0")
           /\ str'[k] = str[k]
           /\ pc \in ResultPhase
<1> USE IndexFacts
    DEF Retrieved, MsgPhase, KeyPhase, ResultPhase, userVars, pioOut, LoopsStartAtZero,
        WriteSig, WritePort, Poll, PollNext, Index, TypeOK, NiosTypeOK, Block
<1>1. CASE Start
    BY <1>1 DEF Start, ClearSig, ClearPort, AwaitReset
<1>2. CASE Idle \/ PrintDecoded \/ Prompt
    BY <1>2 DEF Idle, PrintDecoded, Prompt
<1>3. CASE SendMsg
    BY <1>3 DEF SendMsg, MsgSig, MsgPort, MsgWait1, MsgAck, MsgWait0, MsgDone
<1>4. CASE SendKey
    BY <1>4 DEF SendKey, KeySig, KeyPort, KeyWait1, KeyAck, KeyWait0, KeyDone
<1>5. CASE Retrieve
    BY <1>5 DEF Retrieve, AwaitResult, GetSig, GetWait1, GetPort, GetAck, GetWait0
<1> QED
    BY <1>1, <1>2, <1>3, <1>4, <1>5 DEF NiosStep, NiosRuns

LEMMA ResultStep ==
    ASSUME TypeOK, LoopsStartAtZero, InStep, EngineInStep, ByteInFlight, ResultSoFar,
           EngineEdge(<<msg_en, key>>), NiosStep \/ UNCHANGED niosVars
    PROVE  ResultSoFar'
<1>1. CASE UNCHANGED niosVars
    <2>1. pc \in ResultPhase \cup {"print"} => job' = job
        BY RetrieveWhileReady, ResultStays
    <2> QED
        BY <1>1, <2>1, IndexFacts DEF niosVars, ResultSoFar, Retrieved, Index
<1>2. CASE NiosStep
    <2>1. ASSUME NEW k \in Index, k < Retrieved'
          PROVE  str'[k] = InvAes[job'][k]
        BY <1>2, <2>1, ResultGrows, RetrieveWhileReady, ResultStays
        DEF ResultSoFar, ByteInFlight
    <2> QED
        BY <2>1 DEF ResultSoFar
<1> QED
    BY <1>1, <1>2

\* What io_module latches in a receiving state, and in the sending state once
\* the engine is done.
LEMMA Latched ==
    ASSUME TypeOK, EngineInStep, HardwareRuns
    PROVE  /\ io_state = "READ_MSG" => msg_en'[io_idx] = to_hw_port
           /\ io_state = "READ_KEY" => key'[io_idx] = to_hw_port
           /\ io_state # "READ_MSG" => msg_en' = msg_en
           /\ io_state # "READ_KEY" => key' = key
           /\ io_state = "SEND_BACK" => to_sw_port' = InvAes[job][io_idx]
           /\ io_state \in {"GET_FROM_AES", "SEND_BACK", "GOT_ACK"} => job' = job
<1>1. io_state \in {"GET_FROM_AES", "SEND_BACK", "GOT_ACK"} =>
         job' = job /\ MsgDe = {InvAes[job]}
    BY ResultStays DEF EngineInStep, HardwareRuns
<1> QED
    BY <1>1, IoLatches DEF HardwareRuns, TypeOK, IoTypeOK, Block

LEMMA FlightWait ==
    ASSUME TypeOK, ProgramOutputs, InStep, EngineInStep, ByteInFlight, HardwareRuns, UNCHANGED niosVars,
           sig_read' = ToSwSig, port_read' = to_sw_port
    PROVE  ByteInFlight'
<1>1. IoEdge(to_hw_sig, to_hw_port, MsgDe, AesReady)
    BY DEF HardwareRuns
<1> QED
    BY <1>1, IoMoves, Latched, IndexFacts
    DEF niosVars, ByteInFlight, ProgramOutputs, InStep, MsgInStep, KeyInStep, ResultInStep, At, AtRest,
        Before, ToSwSig

LEMMA FlightStep ==
    ASSUME TypeOK, LoopsStartAtZero, ProgramOutputs, InStep, EngineInStep, ByteInFlight, HardwareRuns, NiosStep,
           sig_read' = ToSwSig, port_read' = to_sw_port
    PROVE  ByteInFlight'
<1>a. IoEdge(to_hw_sig, to_hw_port, MsgDe, AesReady)
    BY DEF HardwareRuns
<1>b. i \in Index /\ str \in Block
    BY DEF TypeOK, NiosTypeOK
<1> USE <1>a, <1>b, IoMoves, Latched, IndexFacts
    DEF ByteInFlight, ProgramOutputs, InStep, MsgInStep, KeyInStep, ResultInStep, At, AtRest,
        Before, ToSwSig, userVars, pioOut, WriteSig, WritePort, Poll, PollNext, Block
<1>1. CASE Start
    BY <1>1 DEF Start, ClearSig, ClearPort, AwaitReset
<1>2. CASE Idle \/ PrintDecoded \/ Prompt
    BY <1>2 DEF Idle, PrintDecoded, Prompt
<1>3. CASE SendMsg
    BY <1>3 DEF SendMsg, MsgSig, MsgPort, MsgWait1, MsgAck, MsgWait0, MsgDone
<1>4. CASE SendKey
    BY <1>4 DEF SendKey, KeySig, KeyPort, KeyWait1, KeyAck, KeyWait0, KeyDone
<1>5. CASE Retrieve
    BY <1>5 DEF Retrieve, AwaitResult, GetSig, GetWait1, GetPort, GetAck, GetWait0
<1> QED
    BY <1>1, <1>2, <1>3, <1>4, <1>5 DEF NiosStep, NiosRuns

-----------------------------------------------------------------------------
(* The first round after a reset. *)

LEMMA AllArrived ==
    ASSUME TypeOK, MsgArrived, KeyArrived, MsgSent = N, KeySent = N
    PROVE  <<msg_en, key>> = <<encrypted_message, key_pairs_hex>>
<1>1. \A k \in Index : msg_en[k] = encrypted_message[k] /\ key[k] = key_pairs_hex[k]
    BY IndexFacts DEF MsgArrived, KeyArrived, Index
<1>2. msg_en \in Block /\ encrypted_message \in Block /\ key \in Block /\ key_pairs_hex \in Block
    BY DEF TypeOK, IoTypeOK, NiosTypeOK
<1>3. msg_en = encrypted_message
    BY <1>1, <1>2 DEF Block
<1>4. key = key_pairs_hex
    BY <1>1, <1>2 DEF Block
<1> QED
    BY <1>3, <1>4

\* The engine holds its first inputs, or takes them up while io_module waits
\* for it.
LEMMA EngineInputs ==
    ASSUME TypeOK, EngineInStep, HardwareRuns, eng' > 1
    PROVE  \/ eng > 1 /\ job' = job
           \/ /\ eng = 1 /\ ctrl = "COMPUTE" /\ io_state = "SEND_TO_AES"
              /\ job' = <<msg_en, key>>
<1>a. Latency \in Nat \ {0} /\ eng \in 0 .. Finish /\ Finish = Latency + 1
    BY EngineAssumption DEF TypeOK, CtrlTypeOK, Finish
<1>1. CASE Leave
    BY <1>1 DEF Leave
<1>2. CASE Capture(<<msg_en, key>>)
    <2>1. ctrl # "WAIT" /\ ctrl # "READY"
        BY <1>2, <1>a DEF Capture, EngineInStep, AesDone
    <2> QED
        BY <1>2, <2>1 DEF Capture, EngineInStep, TypeOK, CtrlTypeOK
<1>3. CASE Compute(<<msg_en, key>>)
    BY <1>3, <1>a DEF Compute
<1>4. CASE EngineHolds
    BY <1>4 DEF EngineHolds
<1> QED
    BY <1>1, <1>2, <1>3, <1>4 DEF HardwareRuns, EngineEdge

\* The program's progress through a round, as far as EngineFresh tells.
LEMMA FreshPlaces ==
    ASSUME NiosStep \/ UNCHANGED niosVars, ~PrintDecoded
    PROVE  /\ pc' \in {"start0", "start1", "await3"} => pc \in {"start0", "start1", "await3"}
           /\ pc' \in {"idle", "prompt", "msgDone", "keyDone"} \cup MsgPhase \cup KeyPhase =>
                 \/ pc \in {"idle", "prompt", "msgDone", "keyDone"} \cup MsgPhase \cup KeyPhase
                 \/ pc = "await3" /\ sig_read = 3
           /\ pc' \in {"await2", "print"} \cup ResultPhase =>
                 /\ pc \in {"keyDone", "await2", "print"} \cup ResultPhase
                 /\ encrypted_message' = encrypted_message
                 /\ key_pairs_hex' = key_pairs_hex
<1> USE DEF MsgPhase, KeyPhase, ResultPhase, userVars, pioOut, WriteSig, WritePort, Poll, PollNext
<1>0. CASE UNCHANGED niosVars
    BY <1>0 DEF niosVars
<1>1. CASE Start
    BY <1>1 DEF Start, ClearSig, ClearPort, AwaitReset
<1>2. CASE Idle \/ Prompt
    BY <1>2 DEF Idle, Prompt
<1>3. CASE SendMsg
    BY <1>3 DEF SendMsg, MsgSig, MsgPort, MsgWait1, MsgAck, MsgWait0, MsgDone
<1>4. CASE SendKey
    BY <1>4 DEF SendKey, KeySig, KeyPort, KeyWait1, KeyAck, KeyWait0, KeyDone
<1>5. CASE Retrieve
    BY <1>5 DEF Retrieve, AwaitResult, GetSig, GetWait1, GetPort, GetAck, GetWait0
<1> QED
    BY <1>0, <1>1, <1>2, <1>3, <1>4, <1>5 DEF NiosStep, NiosRuns

LEMMA FreshStep ==
    ASSUME TypeOK, InStep, ResetHolds, EngineInStep, MsgArrived, KeyArrived, EngineFresh,
           HardwareRuns, NiosStep \/ UNCHANGED niosVars, ~PrintDecoded,
           sig_read' = ToSwSig
    PROVE  EngineFresh'
<1>1. ASSUME pc' \in {"start0", "start1", "await3"}, sig_read' = 3
      PROVE  ctrl' = "WAIT"
    <2>1. io_state = "RESET" /\ ctrl = "WAIT"
        BY <1>1 DEF ToSwSig, ResetHolds
    <2> QED
        BY <2>1 DEF HardwareRuns, CtrlEdge, StartEngine, EngineDone, CtrlHolds, IoReady
<1>2. ASSUME pc' \in {"idle", "prompt", "msgDone", "keyDone"} \cup MsgPhase \cup KeyPhase
      PROVE  ctrl' = "WAIT"
    <2>1. \/ pc \in {"idle", "prompt", "msgDone", "keyDone"} \cup MsgPhase \cup KeyPhase
          \/ pc = "await3" /\ sig_read = 3
        BY <1>2, FreshPlaces
    <2>2. ctrl = "WAIT"
        BY <2>1 DEF EngineFresh
    <2>3. io_state # "SEND_TO_AES"
        BY <2>1 DEF InStep, StartInStep, IdleInStep, MsgInStep, KeyInStep, At, AtRest, Before,
            MsgPhase, KeyPhase
    <2> QED
        BY <2>2, <2>3 DEF HardwareRuns, CtrlEdge, StartEngine, EngineDone, CtrlHolds, IoReady
<1>3. ASSUME pc' \in {"await2", "print"} \cup ResultPhase, eng' > 1
      PROVE  job' = <<encrypted_message', key_pairs_hex'>>
    <2>1. /\ pc \in {"keyDone", "await2", "print"} \cup ResultPhase
          /\ encrypted_message' = encrypted_message
          /\ key_pairs_hex' = key_pairs_hex
        BY <1>3, FreshPlaces
    <2>2. CASE eng > 1 /\ job' = job
        <3>1. pc # "keyDone"
            BY <2>2 DEF EngineFresh, EngineInStep
        <3> QED
            BY <2>1, <2>2, <3>1 DEF EngineFresh
    <2>3. CASE ctrl = "COMPUTE" /\ io_state = "SEND_TO_AES" /\ job' = <<msg_en, key>>
        <3>1. pc = "await2"
            BY <2>1, <2>3 DEF InStep, KeyInStep, ResultInStep, ResultPhase, At, Before
        <3>2. MsgSent = N /\ KeySent = N
            BY <3>1 DEF MsgSent, KeySent
        <3> QED
            BY <2>1, <2>3, <3>2, AllArrived
    <2> QED
        BY <1>3, <2>2, <2>3, EngineInputs
<1> QED
    BY <1>1, <1>2, <1>3 DEF EngineFresh

-----------------------------------------------------------------------------
(* The whole invariant. *)

\* What is true of the two sides together while they are in step.
InForcePart ==
    /\ InStep
    /\ ByteInFlight
    /\ MsgArrived
    /\ KeyArrived
    /\ ResultSoFar
    /\ ~served => EngineFresh

LEMMA EdgeInForce ==
    ASSUME IInv, Edge, InForce
    PROVE  InForcePart'
<1>1. /\ TypeOK /\ LoopsStartAtZero /\ ProgramOutputs /\ ResetHolds /\ EngineInStep
      /\ InStep /\ ByteInFlight /\ MsgArrived /\ KeyArrived /\ ResultSoFar
      /\ ~served => EngineFresh
    BY DEF IInv, Lockstep, SentBytesArrived, RetrievedBytesAreTheResult
<1>2. HardwareRuns
    BY DEF Edge, HardwareEdge, HardwareHeld, InForce
<1>3. IoEdge(to_hw_sig, to_hw_port, MsgDe, AesReady) /\ EngineEdge(<<msg_en, key>>)
    BY <1>2 DEF HardwareRuns
<1>4. InStep'
    BY <1>1, <1>2, EdgeInStep DEF Edge
<1>5. CASE SoftwareEdge(NiosStep) \/ SoftwareEdge(NiosWaits)
    <2>1. /\ NiosStep \/ UNCHANGED niosVars
          /\ sig_read' = ToSwSig /\ port_read' = to_sw_port
          /\ ~served' => ~served /\ ~PrintDecoded
        BY <1>5 DEF SoftwareEdge, SampleInputs, NiosWaits
    <2>2. ByteInFlight'
        BY <1>1, <1>2, <2>1, FlightWait, FlightStep
    <2>3. MsgArrived' /\ KeyArrived'
        BY <1>1, <1>3, <2>1, SentStep
    <2>4. ResultSoFar'
        BY <1>1, <1>3, <2>1, ResultStep
    <2>5. ~served' => EngineFresh'
        BY <1>1, <1>2, <2>1, FreshStep
    <2> QED
        BY <1>4, <2>2, <2>3, <2>4, <2>5 DEF InForcePart
<1>6. CASE SoftwareHeld
    <2>1. pc' = "start0" /\ sig_read' = 0
        BY <1>1, <1>6 DEF SoftwareHeld, swVars, niosVars, pioIn, ResetHolds, Edge
    <2>2. ByteInFlight' /\ EngineFresh'
        BY <2>1 DEF ByteInFlight, EngineFresh, MsgPhase, KeyPhase, ResultPhase
    <2>3. MsgArrived' /\ KeyArrived' /\ ResultSoFar'
        BY <2>1 DEF MsgArrived, KeyArrived, ResultSoFar, MsgSent, KeySent, Retrieved,
            MsgPhase, KeyPhase, ResultPhase, Index
    <2> QED
        BY <1>4, <2>2, <2>3 DEF InForcePart
<1> QED
    BY <1>5, <1>6 DEF Edge

\* A program that has only just started, or announces its first byte to
\* hardware that has just been reset, has nothing to lose.
LEMMA NothingSent ==
    ASSUME TypeOK,
           \/ pc \in {"start0", "start1", "await3", "idle", "prompt"}
           \/ pc \in {"msgSig", "msgPort", "msgWait1"} /\ i = 0
    PROVE  MsgArrived /\ KeyArrived /\ ResultSoFar
BY DEF MsgArrived, KeyArrived, ResultSoFar, MsgSent, KeySent, Retrieved,
       MsgPhase, KeyPhase, ResultPhase, Index

LEMMA ReleaseInForce ==
    ASSUME IInv, Key1Up, SafeToRelease
    PROVE  InForcePart
<1>1. /\ TypeOK /\ LoopsStartAtZero /\ ProgramOutputs
      /\ io_state = "RESET" /\ eng = 0 /\ ctrl = "WAIT"
    BY DEF IInv, Key1Up, ResetHolds
<1>2. pc = "msgSig" => i = 0
    BY <1>1 DEF SafeToRelease, ProgramOutputs
<1>3. \/ pc \in {"start0", "start1", "await3", "idle", "prompt"}
      \/ pc \in {"msgSig", "msgPort", "msgWait1"} /\ i = 0
    BY <1>2 DEF SafeToRelease
<1>4. InStep
    BY <1>1, <1>2, <1>3 DEF SafeToRelease, ProgramOutputs, InStep, StartInStep, IdleInStep,
        MsgInStep, KeyInStep, ResultInStep, AtRest, Before
<1>5. ByteInFlight /\ EngineFresh
    BY <1>1, <1>3 DEF ByteInFlight, EngineFresh, ResultPhase
<1> QED
    BY <1>1, <1>3, <1>4, <1>5, NothingSent DEF InForcePart

LEMMA Unmoved ==
    ASSUME InForcePart, UNCHANGED <<hwVars, swVars, served>>
    PROVE  InForcePart'
BY DEF hwVars, ioVars, ctrlVars, swVars, niosVars, pioIn, InForcePart, InStep, StartInStep,
       IdleInStep, MsgInStep, KeyInStep, ResultInStep, At, AtRest, Before, ByteInFlight,
       MsgArrived, KeyArrived, ResultSoFar, MsgSent, KeySent, Retrieved, EngineFresh

LEMMA ButtonsInForce ==
    ASSUME IInv, Buttons \/ UNCHANGED vars, InForce'
    PROVE  InForcePart'
<1>1. CASE Key1Down
    BY <1>1 DEF Key1Down, InForce
<1>2. CASE Key1Up
    <2>1. SafeToRelease
        BY <1>2 DEF Key1Up, InForce
    <2> QED
        BY <1>2, <2>1, ReleaseInForce, Unmoved DEF Key1Up
<1>3. CASE Key0Down
    <2>1. TypeOK'
        BY <1>3, NextType DEF IInv, Next, Buttons
    <2>2. pc' = "start0" /\ to_hw_sig' = 0 /\ sig_read' = 0
        BY <1>3 DEF Key0Down, NiosReset
    <2>3. InStep' /\ ByteInFlight' /\ EngineFresh'
        BY <2>2 DEF InStep, StartInStep, IdleInStep, MsgInStep, KeyInStep, ResultInStep,
            ByteInFlight, EngineFresh, MsgPhase, KeyPhase, ResultPhase
    <2>4. MsgArrived' /\ KeyArrived' /\ ResultSoFar'
        BY <2>1, <2>2 DEF MsgArrived, KeyArrived, ResultSoFar, MsgSent, KeySent, Retrieved,
            MsgPhase, KeyPhase, ResultPhase, Index
    <2> QED
        BY <2>3, <2>4 DEF InForcePart
<1>4. CASE Key0Up \/ UNCHANGED vars
    <2>1. InForce /\ UNCHANGED <<hwVars, swVars, served>>
        <3>1. UNCHANGED <<hwVars, swVars, key1_down, aligned, served>>
            BY <1>4 DEF Key0Up, vars, buttons, history
        <3>2. aligned' = aligned /\ key1_down' = key1_down
            BY <3>1
        <3>3. InForce
            BY <3>2, Zenon DEF InForce
        <3> QED
            BY <3>1, <3>3
    <2>2. InForcePart
        BY <2>1 DEF IInv, Lockstep, SentBytesArrived, RetrievedBytesAreTheResult, InForcePart
    <2> QED
        BY <2>1, <2>2, Unmoved
<1> QED
    BY <1>1, <1>2, <1>3, <1>4 DEF Buttons

LEMMA InvariantInit == Init => IInv
<1> SUFFICES ASSUME Init PROVE IInv
    OBVIOUS
<1>1. TypeOK
    BY InitType
<1>2. /\ pc = "start0" /\ i = 0 /\ to_hw_sig = 0 /\ sig_read = 0
      /\ io_state = "RESET" /\ ctrl = "WAIT" /\ eng = 0 /\ ~key0_down /\ ~key1_down
    BY DEF Init, IoInit, CtrlInit, NiosInit
<1>3. LoopsStartAtZero /\ ProgramOutputs /\ ResetHolds /\ EngineInStep
    BY <1>2 DEF LoopsStartAtZero, ProgramOutputs, ResetHolds, EngineInStep
<1>4. InStep /\ ByteInFlight /\ EngineFresh
    BY <1>2 DEF InStep, StartInStep, IdleInStep, MsgInStep, KeyInStep, ResultInStep,
        ByteInFlight, EngineFresh, MsgPhase, KeyPhase, ResultPhase
<1> QED
    BY <1>1, <1>2, <1>3, <1>4, NothingSent
    DEF IInv, Lockstep, SentBytesArrived, RetrievedBytesAreTheResult

LEMMA InvariantNext ==
    ASSUME IInv, [Next]_vars
    PROVE  IInv'
<1>1. TypeOK'
    BY NextType DEF IInv
<1>2. LoopsStartAtZero' /\ ProgramOutputs'
    BY ProgramNext DEF IInv
<1>3. ResetHolds'
    BY ResetHoldsNext DEF IInv
<1>4. EngineInStep'
    BY EngineInStepNext DEF IInv
<1>5. ASSUME InForce' PROVE InForcePart'
    <2>1. CASE Edge
        BY <1>5, <2>1, EdgeInForce DEF Edge, buttons, InForce
    <2>2. CASE Buttons \/ UNCHANGED vars
        BY <1>5, <2>2, ButtonsInForce
    <2> QED
        BY <2>1, <2>2 DEF Next
<1> QED
    BY <1>1, <1>2, <1>3, <1>4, <1>5
    DEF IInv, Lockstep, SentBytesArrived, RetrievedBytesAreTheResult, InForcePart

\* The invariant from which every safety property of Lab9 follows.
THEOREM Invariance == Spec => []IInv
<1>1. Init => IInv
    BY InvariantInit
<1>2. IInv /\ [Next]_vars => IInv'
    BY InvariantNext
<1> QED
    BY <1>1, <1>2, PTL DEF Spec

-----------------------------------------------------------------------------
(* What follows from it. *)

\* main.c and io_module.sv stay at the same byte of the same transfer, and
\* no answer is taken for the answer to something else.
THEOREM SidesStayInLockstep == Spec => []Lockstep
<1>1. IInv => Lockstep
    BY DEF IInv
<1> QED
    BY <1>1, Invariance, PTL

\* No byte of the message or of the key is lost, repeated or displaced on the
\* way to the engine.
THEOREM EveryByteArrives == Spec => []SentBytesArrived
<1>1. IInv => SentBytesArrived
    BY DEF IInv
<1> QED
    BY <1>1, Invariance, PTL

\* No byte of the result is lost, repeated or displaced on the way back.
THEOREM EveryByteReturns == Spec => []RetrievedBytesAreTheResult
<1>1. IInv => RetrievedBytesAreTheResult
    BY DEF IInv
<1> QED
    BY <1>1, Invariance, PTL

\* Whatever the buttons do, no result comes from inputs that moved while the
\* engine worked on them.
THEOREM InputsAreSteady == Spec => []ResultsAreOfSteadyInputs
<1>1. IInv => ResultsAreOfSteadyInputs
    BY DEF IInv, EngineInStep, ResultsAreOfSteadyInputs
<1> QED
    BY <1>1, Invariance, PTL

LEMMA FirstRoundHolds ==
    ASSUME IInv
    PROVE  FirstRoundDecodesItsPair
<1>1. SUFFICES ASSUME InForce, ~served, pc = "print"
               PROVE  str = InvAes[<<encrypted_message, key_pairs_hex>>]
    BY DEF FirstRoundDecodesItsPair
<1>2. TypeOK /\ EngineInStep /\ InStep /\ ResultSoFar /\ EngineFresh
    BY <1>1 DEF IInv, Lockstep, RetrievedBytesAreTheResult
<1>3. eng > 1
    <2>1. AesDone
        BY <1>1, <1>2 DEF InStep, ResultInStep, EngineInStep, At
    <2> QED
        BY <2>1, EngineAssumption DEF AesDone, Finish
<1>4. job = <<encrypted_message, key_pairs_hex>>
    BY <1>1, <1>2, <1>3 DEF EngineFresh
<1>5. \A k \in Index : str[k] = InvAes[job][k]
    BY <1>1, <1>2, IndexFacts DEF ResultSoFar, Retrieved, Index
<1>6. str \in Block /\ InvAes[job] \in Block
    BY <1>2, EngineAssumption DEF TypeOK, NiosTypeOK, CtrlTypeOK
<1>7. str = InvAes[job]
    BY <1>5, <1>6 DEF Block
<1> QED
    BY <1>4, <1>7

\* The first round after a reset prints the engine's result for the message
\* and the key of that round.
THEOREM FirstRoundIsRight == Spec => []FirstRoundDecodesItsPair
BY FirstRoundHolds, Invariance, PTL

-----------------------------------------------------------------------------
(* What the refinement needs beside the inductive invariant of Lab9. *)

\* The signal of RESET is read only while the controller is as the reset
\* left it: the program cannot begin with an engine that already has a pair.
ResetAnswered == sig_read = 3 => ctrl = "WAIT"

\* From Prompt on, the program works on what the user typed.
PairTyped ==
    pc \notin {"start0", "start1", "await3", "idle", "prompt"} =>
        <<encrypted_message, key_pairs_hex>> \in Jobs

LEMMA RefinementInit == Init => ResetAnswered /\ PairTyped
BY DEF Init, NiosInit, ResetAnswered, PairTyped

LEMMA JobsArePairs ==
    ASSUME NEW p \in Jobs
    PROVE  <<p[1], p[2]>> = p
BY JobsAssumption

LEMMA ResetAnsweredNext ==
    ASSUME IInv, ResetAnswered, [Next]_vars
    PROVE  ResetAnswered'
<1> USE DEF ResetAnswered
<1>1. CASE Edge
    <2>1. CASE SoftwareHeld
        BY <2>1 DEF SoftwareHeld, swVars, pioIn, ResetHolds, IInv
    <2>2. CASE sig_read' = ToSwSig
        <3>1. SUFFICES ASSUME io_state = "RESET" PROVE ctrl' = "WAIT"
            BY <2>2 DEF ToSwSig
        <3>2. ctrl = "WAIT"
            BY <3>1 DEF IInv, ResetHolds
        <3>3. CASE HardwareRuns
            BY <3>1, <3>2, <3>3
            DEF HardwareRuns, CtrlEdge, StartEngine, EngineDone, CtrlHolds, IoReady
        <3> QED
            BY <1>1, <3>2, <3>3 DEF Edge, HardwareEdge, HardwareHeld, hwVars, ctrlVars
    <2> QED
        BY <1>1, <2>1, <2>2 DEF Edge, SoftwareEdge, SampleInputs
<1>2. CASE Key1Down
    BY <1>2 DEF Key1Down, CtrlReset
<1>3. CASE Key1Up
    BY <1>3 DEF Key1Up, hwVars, ctrlVars, swVars, pioIn
<1>4. CASE Key0Down
    BY <1>4 DEF Key0Down, NiosReset
<1>5. CASE Key0Up
    BY <1>5 DEF Key0Up, hwVars, ctrlVars, swVars, pioIn
<1>6. CASE UNCHANGED vars
    BY <1>6 DEF vars, hwVars, ctrlVars, swVars, pioIn
<1> QED
    BY <1>1, <1>2, <1>3, <1>4, <1>5, <1>6 DEF Next, Buttons

\* An access keeps the pair, except the one that reads it from the user.
LEMMA StepKeepsPair ==
    ASSUME NiosStep, ~Prompt
    PROVE  UNCHANGED userVars
<1>1. CASE Start \/ Idle \/ PrintDecoded
    BY <1>1 DEF Start, ClearSig, ClearPort, AwaitReset, Idle, PrintDecoded,
        WriteSig, WritePort, Poll
<1>2. CASE SendMsg
    BY <1>2 DEF SendMsg, MsgSig, MsgPort, MsgWait1, MsgAck, MsgWait0, MsgDone,
        WriteSig, WritePort, Poll, PollNext
<1>3. CASE SendKey
    BY <1>3 DEF SendKey, KeySig, KeyPort, KeyWait1, KeyAck, KeyWait0, KeyDone,
        WriteSig, WritePort, Poll, PollNext
<1>4. CASE Retrieve
    BY <1>4 DEF Retrieve, AwaitResult, GetSig, GetWait1, GetPort, GetAck, GetWait0,
        WriteSig, Poll, PollNext
<1> QED
    BY <1>1, <1>2, <1>3, <1>4 DEF NiosStep, NiosRuns

\* Where an access leads: within a round, or over one of its two ends.
Rest  == {"start0", "start1", "await3"}
Ready == {"idle", "prompt"}
Round == Locations \ (Rest \cup Ready \cup {"print"})

LEMMA StepPlaces ==
    ASSUME TypeOK, NiosStep
    PROVE  \/ pc \in Rest /\ pc' \in Rest
           \/ AwaitReset
           \/ pc \in Ready /\ pc' \in Ready
           \/ Prompt
           \/ pc \in Round /\ pc' \in Round
           \/ GetWait0 /\ pc' = "print"
           \/ PrintDecoded
<1> USE DEF Rest, Ready, Round, Locations
<1>1. CASE Start
    BY <1>1 DEF Start, ClearSig, ClearPort, AwaitReset, WriteSig, WritePort, Poll
<1>2. CASE Idle
    BY <1>2 DEF Idle, WriteSig
<1>3. CASE SendMsg
    BY <1>3 DEF SendMsg, MsgSig, MsgPort, MsgWait1, MsgAck, MsgWait0, MsgDone,
        WriteSig, WritePort, Poll, PollNext
<1>4. CASE SendKey
    BY <1>4 DEF SendKey, KeySig, KeyPort, KeyWait1, KeyAck, KeyWait0, KeyDone,
        WriteSig, WritePort, Poll, PollNext
<1>5. CASE Retrieve /\ ~GetWait0
    BY <1>5 DEF Retrieve, AwaitResult, GetSig, GetWait1, GetPort, GetAck, WriteSig, Poll
<1>6. CASE GetWait0
    BY <1>6 DEF GetWait0, PollNext
<1> QED
    BY <1>1, <1>2, <1>3, <1>4, <1>5, <1>6 DEF NiosStep, NiosRuns

LEMMA PairTypedNext ==
    ASSUME IInv, PairTyped, [Next]_vars
    PROVE  PairTyped'
<1> USE DEF PairTyped
<1>1. CASE UNCHANGED niosVars
    BY <1>1 DEF niosVars
<1>2. CASE SoftwareEdge(NiosStep)
    <2>1. NiosStep /\ TypeOK
        BY <1>2 DEF SoftwareEdge, IInv
    <2>2. CASE Prompt
        <3>1. PICK p \in Jobs : encrypted_message' = p[1] /\ key_pairs_hex' = p[2]
            BY <2>2 DEF Prompt
        <3> QED
            BY <3>1, JobsArePairs
    <2>3. CASE ~Prompt
        BY <2>1, <2>3, StepKeepsPair, StepPlaces
        DEF userVars, Rest, Ready, Round, AwaitReset, Poll, GetWait0, PollNext, PrintDecoded
    <2> QED
        BY <2>2, <2>3
<1>3. CASE Key0Down
    BY <1>3 DEF Key0Down, NiosReset
<1> QED
    BY <1>1, <1>2, <1>3
    DEF Next, Edge, Buttons, SoftwareEdge, NiosWaits, SoftwareHeld, swVars,
        Key1Down, Key1Up, Key0Up, vars

RInv == IInv /\ ResetAnswered /\ PairTyped

LEMMA RInvInit == Init => RInv
BY InvariantInit, RefinementInit DEF RInv

LEMMA RInvNext ==
    ASSUME RInv, [Next]_vars
    PROVE  RInv'
BY InvariantNext, ResetAnsweredNext, PairTypedNext DEF RInv

LEMMA RefinementInvariant == Spec => []RInv
BY RInvInit, RInvNext, PTL DEF Spec

-----------------------------------------------------------------------------
(* The mapping at the places of a round. *)

LEMMA Mapping ==
    TypeOK =>
        /\ ~Up => Phase = "down" /\ Asked = <<>> /\ Held = <<>> /\ Shown = <<>>
        /\ Up /\ pc \in Ready => Phase = "free" /\ Asked = <<>> /\ Shown = <<>>
        /\ Up /\ pc \in Round =>
              /\ Phase = "asked"
              /\ Asked = <<encrypted_message, key_pairs_hex>>
              /\ Shown = <<>>
        /\ Up /\ pc = "print" =>
              /\ Phase = "answered"
              /\ Asked = <<encrypted_message, key_pairs_hex>>
              /\ Shown = str
BY DEF Phase, Asked, Held, Shown, Up, Ready, Round, Rest, Locations

\* A step after which the decryptor is down is a GoDown.
LEMMA Falls ==
    ASSUME TypeOK', ~Up'
    PROVE  [D!DecryptorNext]_(D!dVars)
<1>1. Phase' = "down" /\ Asked' = <<>> /\ Held' = <<>> /\ Shown' = <<>>
    BY DEF Phase, Asked, Held, Shown
<1> QED
    BY <1>1 DEF D!DecryptorNext, D!GoDown, D!NoPair

\* What the engine does at an edge, as far as the decryptor shows it: it may
\* take up its pair while the program waits for the result, and then it has
\* every byte of the message and of the key.
LEMMA HeldMoves ==
    ASSUME IInv, Up, Up', HardwareRuns
    PROVE  \/ Held' = Held
           \/ /\ pc = "await2" /\ sig_read # 2
              /\ Held = <<>>
              /\ Held' = <<encrypted_message, key_pairs_hex>>
<1>a. /\ TypeOK /\ InStep /\ MsgArrived /\ KeyArrived /\ EngineInStep
      /\ pc \notin Rest
    BY DEF IInv, Up, Lockstep, SentBytesArrived, Rest
<1>b. Latency \in Nat \ {0} /\ eng \in 0 .. Finish /\ Finish = Latency + 1
    BY <1>a, EngineAssumption DEF TypeOK, CtrlTypeOK, Finish
<1>1. CASE eng' > 1
    <2>1. CASE eng > 1 /\ job' = job
        BY <1>1, <2>1 DEF Held
    <2>2. CASE /\ eng = 1 /\ ctrl = "COMPUTE" /\ io_state = "SEND_TO_AES"
               /\ job' = <<msg_en, key>>
        <3>1. pc = "await2" /\ sig_read # 2
            BY <1>a, <2>2, IndexFacts
            DEF InStep, StartInStep, IdleInStep, MsgInStep, KeyInStep, ResultInStep,
                At, Before, AtRest, TypeOK, NiosTypeOK, Locations, Rest
        <3>2. <<msg_en, key>> = <<encrypted_message, key_pairs_hex>>
            BY <1>a, <3>1, AllArrived DEF MsgSent, KeySent
        <3> QED
            BY <1>1, <2>2, <3>1, <3>2 DEF Held
    <2> QED
        BY <1>a, <1>1, <2>1, <2>2, EngineInputs
<1>2. CASE ~(eng' > 1)
    <2>1. ~(eng > 1)
        BY <1>b, <1>2
        DEF HardwareRuns, EngineEdge, Leave, Capture, Compute, EngineHolds
    <2> QED
        BY <1>2, <2>1 DEF Held
<1> QED
    BY <1>1, <1>2

-----------------------------------------------------------------------------
(* One step of Lab9 is one step of Decryptor, or none. *)

\* An edge that leaves the program where it was, or moves it without passing
\* an end of the round: the pair may be taken up.
LEMMA WithinRound ==
    ASSUME IInv, TypeOK', Up, Up', HardwareRuns, UNCHANGED userVars,
           \/ pc' = pc /\ str' = str
           \/ pc \in Ready /\ pc' \in Ready
           \/ pc \in Round /\ pc' \in Round
    PROVE  [D!DecryptorNext]_(D!dVars)
<1>1. Phase' = Phase /\ Asked' = Asked /\ Shown' = Shown
    BY DEF Phase, Asked, Shown, Ready, Round, Rest, Locations, userVars
<1>2. CASE Held' = Held
    BY <1>1, <1>2 DEF D!dVars
<1>3. CASE pc = "await2" /\ Held = <<>> /\ Held' = <<encrypted_message, key_pairs_hex>>
    <2>1. Phase = "asked" /\ Asked = <<encrypted_message, key_pairs_hex>>
        BY <1>3 DEF Phase, Asked
    <2> QED
        BY <1>1, <1>3, <2>1 DEF D!DecryptorNext, D!TakeUp, D!NoPair
<1> QED
    BY <1>2, <1>3, HeldMoves

\* The access that ends the round answers it: the engine is done with its
\* pair, and every byte of its output is in str.
LEMMA EndOfRound ==
    ASSUME IInv, IInv', Up, Up', HardwareRuns, GetWait0, pc' = "print"
    PROVE  D!Answer
<1>a. TypeOK /\ TypeOK' /\ InStep /\ EngineInStep /\ ResultSoFar'
    BY DEF IInv, Up, Lockstep, RetrievedBytesAreTheResult
<1>1. pc = "getWait0" /\ UNCHANGED userVars /\ str' = str
    BY DEF GetWait0, PollNext
<1>2. eng = Finish /\ eng > 1
    <2>1. AesDone
        BY <1>a, <1>1 DEF InStep, ResultInStep, EngineInStep, At
    <2> QED
        BY <2>1, EngineAssumption DEF AesDone, Finish
<1>3. Held' = Held
    BY <1>1, HeldMoves
<1>4. Held = job /\ job # <<>>
    <2>1. job \in Block \X Block
        BY <1>a DEF TypeOK, CtrlTypeOK, Pair
    <2>2. job # <<>>
        BY <2>1
    <2> QED
        BY <1>2, <2>2 DEF Held
<1>5. job' = job
    BY <1>2, EngineAssumption
    DEF HardwareRuns, EngineEdge, Leave, Capture, Compute, EngineHolds, AesDone, Finish
<1>6. str' = InvAes[job]
    <2>1. \A k \in Index : str'[k] = InvAes[job][k]
        BY <1>a, <1>5, IndexFacts DEF ResultSoFar, Retrieved, Index
    <2>2. str' \in Block /\ InvAes[job] \in Block
        BY <1>a, EngineAssumption DEF TypeOK, NiosTypeOK, CtrlTypeOK
    <2> QED
        BY <2>1, <2>2 DEF Block
<1>7. /\ Phase = "asked" /\ Phase' = "answered"
      /\ Asked' = Asked
      /\ Shown' = str'
    BY <1>1 DEF Phase, Asked, Shown, userVars
<1> QED
    BY <1>3, <1>4, <1>6, <1>7 DEF D!Answer, D!NoPair

\* Where an access can take the decryptor while it is up.
LEMMA AccessWhileUp ==
    ASSUME IInv, IInv', PairTyped', Up, Up', HardwareRuns, NiosStep
    PROVE  [D!DecryptorNext]_(D!dVars)
<1>a. TypeOK /\ TypeOK' /\ pc \notin Rest
    BY DEF IInv, Up, Rest
<1>b. pc # "await2" => Held' = Held
    BY HeldMoves
<1>1. CASE Prompt
    <2>1. /\ Phase = "free" /\ Phase' = "asked"
          /\ Asked' = <<encrypted_message, key_pairs_hex>>'
          /\ Shown' = Shown /\ Held' = Held
        BY <1>1, <1>b DEF Prompt, Phase, Asked, Shown
    <2>2. <<encrypted_message, key_pairs_hex>>' \in Jobs
        BY <1>1 DEF Prompt, PairTyped
    <2> QED
        BY <2>1, <2>2 DEF D!DecryptorNext, D!Ask
<1>2. CASE PrintDecoded
    <2>1. /\ Phase = "answered" /\ Phase' = "free"
          /\ Asked' = <<>> /\ Shown' = <<>> /\ Held' = Held
        BY <1>2, <1>b DEF PrintDecoded, Phase, Asked, Shown
    <2> QED
        BY <2>1 DEF D!DecryptorNext, D!Again, D!NoPair
<1>3. CASE GetWait0 /\ pc' = "print"
    BY <1>3, EndOfRound DEF D!DecryptorNext
<1>4. CASE /\ ~Prompt
           /\ \/ pc \in Ready /\ pc' \in Ready
              \/ pc \in Round /\ pc' \in Round
    BY <1>a, <1>4, StepKeepsPair, WithinRound
<1> QED
    BY <1>a, <1>1, <1>2, <1>3, <1>4, StepPlaces DEF AwaitReset, Poll, Rest, Round, Ready, Prompt

\* The decryptor comes back by AwaitReset, at an edge, or when KEY[1] is
\* released early enough: in both cases the engine has no pair.
LEMMA Rises ==
    ASSUME RInv, RInv', [Next]_vars, ~Up, Up'
    PROVE  D!ComeUp
<1>a. /\ Phase = "down" /\ Held = <<>> /\ Shown = <<>>
      /\ TypeOK /\ TypeOK' /\ EngineInStep
    BY DEF Phase, Held, Shown, RInv, IInv
<1>b. Up' => pc' \notin Rest /\ InForce'
    BY DEF Up, Rest
<1>1. CASE Edge
    <2>1. InForce /\ HardwareRuns /\ pc \in Rest
        BY <1>1, <1>b DEF Edge, HardwareEdge, HardwareHeld, buttons, InForce, Up, Rest
    <2>2. AwaitReset
        <3>1. NiosStep
            BY <1>1, <1>b, <2>1
            DEF Edge, SoftwareEdge, NiosWaits, niosVars, SoftwareHeld, swVars
        <3> QED
            BY <1>a, <1>b, <2>1, <3>1, StepPlaces
            DEF Rest, Ready, Round, Prompt, GetWait0, PollNext, PrintDecoded
    <2>3. pc' = "idle" /\ sig_read = 3
        BY <2>2 DEF AwaitReset, Poll
    <2>4. eng = 0 /\ ctrl = "WAIT"
        BY <1>a, <2>3 DEF RInv, ResetAnswered, EngineInStep
    <2>5. eng' = 0
        BY <2>1, <2>4, EngineAssumption
        DEF HardwareRuns, EngineEdge, Leave, Capture, Compute, EngineHolds, StartAes
    <2>6. Phase' = "free" /\ Asked' = <<>> /\ Held' = <<>> /\ Shown' = <<>>
        BY <2>3, <2>5 DEF Phase, Asked, Held, Shown
    <2> QED
        BY <1>a, <2>6 DEF D!ComeUp, D!NoPair
<1>2. CASE Key1Up
    <2>1. eng = 0 /\ eng' = 0 /\ SafeToRelease /\ pc' = pc
        BY <1>2, <1>b
        DEF Key1Up, hwVars, ctrlVars, swVars, niosVars, RInv, IInv, ResetHolds, InForce
    <2>2. Held' = <<>>
        BY <2>1 DEF Held
    <2>3. CASE pc' \in Ready
        BY <1>a, <2>2, <2>3 DEF Ready, Phase, Asked, Shown, D!ComeUp, D!NoPair
    <2>4. CASE pc' \in {"msgSig", "msgPort", "msgWait1"}
        <3>1. /\ Phase' = "asked" /\ Shown' = <<>>
              /\ Asked' = <<encrypted_message, key_pairs_hex>>'
            BY <2>4 DEF Phase, Asked, Shown
        <3>2. <<encrypted_message, key_pairs_hex>>' \in Jobs
            BY <2>4 DEF RInv, PairTyped
        <3> QED
            BY <1>a, <2>2, <3>1, <3>2 DEF D!ComeUp
    <2> QED
        BY <1>b, <2>1, <2>3, <2>4 DEF SafeToRelease, Ready, Rest
<1>3. CASE Key1Down
    BY <1>3, <1>b DEF Key1Down, InForce
<1>4. CASE Key0Down
    BY <1>4, <1>b DEF Key0Down, NiosReset, Rest
<1>5. CASE Key0Up \/ UNCHANGED vars
    <2>1. pc' = pc /\ aligned' = aligned /\ key1_down' = key1_down
        BY <1>5 DEF Key0Up, vars, swVars, niosVars, buttons, history
    <2> QED
        BY <2>1, <1>b DEF Up, InForce
<1> QED
    BY <1>1, <1>2, <1>3, <1>4, <1>5 DEF Next, Buttons

LEMMA StartImplements == Init => D!DecryptorInit
BY DEF Init, NiosInit, D!DecryptorInit, D!NoPair, Phase, Asked, Held, Shown, Up

LEMMA StepImplements ==
    ASSUME RInv, RInv', [Next]_vars
    PROVE  [D!DecryptorNext]_(D!dVars)
<1>a. IInv /\ IInv' /\ PairTyped' /\ TypeOK /\ TypeOK'
    BY DEF RInv, IInv
<1>1. CASE ~Up'
    BY <1>1, <1>a, Falls
<1>2. CASE ~Up /\ Up'
    BY <1>2, Rises DEF D!DecryptorNext
<1>3. CASE Up /\ Up'
    <2>a. ~key1_down /\ ~key1_down' /\ pc' # "start0" /\ ~key0_down
        BY <1>3, <1>a DEF Up, InForce, IInv, ResetHolds
    <2>1. CASE Edge
        <3>1. HardwareRuns
            BY <2>a, <2>1 DEF Edge, HardwareEdge, HardwareHeld
        <3>2. CASE NiosStep
            BY <1>3, <1>a, <3>1, <3>2, AccessWhileUp
        <3>3. CASE UNCHANGED niosVars
            BY <1>3, <1>a, <3>1, <3>3, WithinRound DEF niosVars, userVars
        <3> QED
            BY <2>a, <2>1, <3>2, <3>3 DEF Edge, SoftwareEdge, NiosWaits, SoftwareHeld
    <2>2. CASE Key1Down \/ Key1Up \/ Key0Down \/ Key0Up
        BY <2>2, <2>a DEF Key1Down, Key1Up, Key0Down, Key0Up, NiosReset
    <2>3. CASE UNCHANGED vars
        BY <2>3
        DEF vars, hwVars, ctrlVars, swVars, niosVars, userVars, buttons, history,
            D!dVars, Phase, Asked, Held, Shown, Up, InForce
    <2> QED
        BY <2>1, <2>2, <2>3 DEF Next, Buttons
<1> QED
    BY <1>1, <1>2, <1>3

\* main.c, io_module.sv and aes_controller.sv together take every step that
\* the decryptor may take and no other: what the program prints is the
\* result of the one pair the engine took up since the reset, and that pair
\* is the pair of the round in which it was taken up.
THEOREM Refinement == Spec => D!DecryptorInit /\ [][D!DecryptorNext]_(D!dVars)
<1>1. RInv /\ RInv' /\ [Next]_vars => [D!DecryptorNext]_(D!dVars)
    BY StepImplements
<1> QED
    BY <1>1, StartImplements, RefinementInvariant, PTL DEF Spec

=============================================================================

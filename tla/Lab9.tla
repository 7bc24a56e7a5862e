-------------------------------- MODULE Lab9 --------------------------------
(***************************************************************************)
(* lab9.sv: the Nios II, io_module and aes_controller on one clock, and    *)
(* the two push buttons that reset them.                                   *)
(*                                                                         *)
(* KEY[0] resets the Nios II and its PIO registers, KEY[1] resets          *)
(* io_module and aes_controller; neither button resets the other side.     *)
(* Both resets are asynchronous and active low: a button that is down      *)
(* holds its side in reset.                                                *)
(*                                                                         *)
(* A step is one clock edge, or a button going down or up.  At an edge     *)
(* every register reads the values from before the edge.  The program      *)
(* makes at most one access per edge, at its own pace.                     *)
(***************************************************************************)
EXTENDS IoModule, AesController, NiosMain

VARIABLES
    key0_down,   \* KEY[0] is pressed
    key1_down,   \* KEY[1] is pressed
    aligned,     \* history: the last release of KEY[1] found main.c where
                 \* it can go on (SafeToRelease), or KEY[0] restarted it
    served       \* history: a round has ended since KEY[1] was pressed

hwVars   == <<ioVars, ctrlVars>>
swVars   == <<niosVars, pioIn>>
buttons  == <<key0_down, key1_down>>
history  == <<aligned, served>>
vars     == <<hwVars, swVars, buttons, history>>

TypeOK ==
    /\ IoTypeOK
    /\ CtrlTypeOK
    /\ NiosTypeOK
    /\ key0_down \in BOOLEAN
    /\ key1_down \in BOOLEAN
    /\ aligned \in BOOLEAN
    /\ served \in BOOLEAN

Init ==
    /\ IoInit
    /\ CtrlInit
    /\ NiosInit
    /\ key0_down = FALSE
    /\ key1_down = FALSE
    /\ aligned = TRUE
    /\ served = FALSE

-----------------------------------------------------------------------------
(* A clock edge. *)

HardwareRuns ==
    /\ ~key1_down
    /\ IoEdge(to_hw_sig, to_hw_port, MsgDe, AesReady)
    /\ CtrlEdge(IoReady)
    /\ EngineEdge(<<msg_en, key>>)

HardwareHeld == key1_down /\ UNCHANGED hwVars

HardwareEdge == HardwareRuns \/ HardwareHeld

\* The edge passes without an access that changes anything.
NiosWaits == UNCHANGED niosVars

SoftwareEdge(step) ==
    /\ ~key0_down
    /\ step
    /\ SampleInputs(ToSwSig, to_sw_port)
    /\ served' = (served \/ PrintDecoded)

SoftwareHeld == key0_down /\ UNCHANGED <<swVars, served>>

Edge ==
    /\ HardwareEdge
    /\ SoftwareEdge(NiosStep) \/ SoftwareEdge(NiosWaits) \/ SoftwareHeld
    /\ UNCHANGED <<buttons, aligned>>

-----------------------------------------------------------------------------
(* The buttons. *)

\* Where a release of KEY[1] leaves the two sides able to go on: main.c has
\* sent nothing of the round, or announces the first byte and has not taken
\* an answer from before the reset for the answer to it.
SafeToRelease ==
    \/ to_hw_sig = 0 /\ pc \in {"start0", "start1", "await3", "idle", "prompt", "msgSig"}
    \/ pc \in {"msgPort", "msgWait1"} /\ i = 0 /\ sig_read # 1

Key1Down ==
    /\ ~key1_down
    /\ key1_down' = TRUE
    /\ IoReset
    /\ CtrlReset
    /\ served' = FALSE
    /\ UNCHANGED <<swVars, key0_down, aligned>>

Key1Up ==
    /\ key1_down
    /\ key1_down' = FALSE
    /\ aligned' = SafeToRelease
    /\ UNCHANGED <<hwVars, swVars, key0_down, served>>

Key0Down ==
    /\ ~key0_down
    /\ key0_down' = TRUE
    /\ NiosReset
    /\ aligned' = TRUE
    /\ UNCHANGED <<hwVars, key1_down, served>>

Key0Up ==
    /\ key0_down
    /\ key0_down' = FALSE
    /\ UNCHANGED <<hwVars, swVars, key1_down, history>>

Buttons == Key1Down \/ Key1Up \/ Key0Down \/ Key0Up

Next == Edge \/ Buttons

-----------------------------------------------------------------------------
(* The clock ticks, and the processor goes on executing main: a poll that  *)
(* can succeed at every edge from some point on does.  Nothing obliges the *)
(* user to press or release a button, or to type.                          *)

ProgramEdge == HardwareEdge /\ SoftwareEdge(NiosRuns) /\ UNCHANGED <<buttons, aligned>>

Spec == Init /\ [][Next]_vars /\ WF_vars(Edge) /\ WF_vars(ProgramEdge)

-----------------------------------------------------------------------------
(* The lockstep of the two sides, while no release of KEY[1] has upset it. *)

InForce == aligned /\ ~key1_down

\* The loops of main.c.
MsgPhase    == {"msgSig", "msgPort", "msgWait1", "msgAck", "msgWait0"}
KeyPhase    == {"keySig", "keyPort", "keyWait1", "keyAck", "keyWait0"}
ResultPhase == {"getSig", "getWait1", "getPort", "getAck", "getWait0"}

At(s, j) == io_state = s /\ io_idx = j

\* Where a round may find the hardware: GOT_ACK_15 is left only when the
\* next round sets to_hw_sig to 1.
AtRest == io_state \in {"RESET", "WAIT"} \/ At("GOT_ACK", N-1)

\* The hardware at the end of the previous byte of a loop, or at the place
\* the loop begins from.
Before(first, s) == IF i = 0 THEN first ELSE At(s, i-1)

StartInStep ==
    pc \in {"start0", "start1", "await3"} =>
        /\ to_hw_sig = 0
        /\ sig_read = 3 => io_state \in {"RESET", "WAIT"}

IdleInStep ==
    /\ pc = "idle" => \/ to_hw_sig = 0 /\ io_state \in {"RESET", "WAIT"}
                      \/ to_hw_sig = 2 /\ At("GOT_ACK", N-1)
    /\ pc = "prompt" => to_hw_sig = 0 /\ AtRest

MsgInStep ==
    /\ pc = "msgSig" => /\ Before(AtRest, "ACK_MSG")
                        /\ to_hw_sig = (IF i = 0 THEN 0 ELSE 2)
    /\ pc \in {"msgPort", "msgWait1"} =>
          /\ to_hw_sig = 1
          /\ At("READ_MSG", i) \/ Before(AtRest, "ACK_MSG")
          /\ sig_read = 1 => At("READ_MSG", i)
    /\ pc = "msgAck" => to_hw_sig = 1 /\ At("READ_MSG", i)
    /\ pc = "msgWait0" =>
          /\ to_hw_sig = 2
          /\ At("READ_MSG", i) \/ At("ACK_MSG", i)
          /\ sig_read = 0 => At("ACK_MSG", i)
    /\ pc = "msgDone" => to_hw_sig = 2 /\ At("ACK_MSG", N-1)

KeyInStep ==
    /\ pc = "keySig" => /\ Before(At("ACK_MSG", N-1) \/ io_state = "WAIT", "ACK_KEY")
                        /\ to_hw_sig = (IF i = 0 THEN 0 ELSE 1)
    /\ pc \in {"keyPort", "keyWait1"} =>
          /\ to_hw_sig = 2
          /\ At("READ_KEY", i) \/ Before(io_state = "WAIT", "ACK_KEY")
          /\ sig_read = 1 => At("READ_KEY", i)
    /\ pc = "keyAck" => to_hw_sig = 2 /\ At("READ_KEY", i)
    /\ pc = "keyWait0" =>
          /\ to_hw_sig = 1
          /\ At("READ_KEY", i) \/ At("ACK_KEY", i)
          /\ sig_read = 0 => At("ACK_KEY", i)
    /\ pc = "keyDone" => to_hw_sig = 1 /\ At("ACK_KEY", N-1)

ResultInStep ==
    /\ pc = "await2" =>
          /\ to_hw_sig = 3
          /\ \/ At("ACK_KEY", N-1)
             \/ io_state \in {"WAIT", "SEND_TO_AES", "GET_FROM_AES"}
          /\ sig_read = 2 => io_state = "GET_FROM_AES"
    /\ pc = "getSig" => /\ Before(io_state = "GET_FROM_AES", "GOT_ACK")
                        /\ to_hw_sig = (IF i = 0 THEN 3 ELSE 2)
    /\ pc = "getWait1" =>
          /\ to_hw_sig = 1
          /\ At("SEND_BACK", i) \/ Before(io_state = "GET_FROM_AES", "GOT_ACK")
          /\ sig_read = 1 => At("SEND_BACK", i)
    /\ pc \in {"getPort", "getAck"} => to_hw_sig = 1 /\ At("SEND_BACK", i)
    /\ pc = "getWait0" =>
          /\ to_hw_sig = 2
          /\ At("SEND_BACK", i) \/ At("GOT_ACK", i)
          /\ sig_read = 0 => At("GOT_ACK", i)
    /\ pc = "print" => to_hw_sig = 2 /\ At("GOT_ACK", N-1)

InStep == StartInStep /\ IdleInStep /\ MsgInStep /\ KeyInStep /\ ResultInStep

\* Both sides are at the same byte of the same transfer, as far as the
\* program's accesses have taken them, and no answer the program may read is
\* one the hardware gave to something else.  main.c and io_module.sv each
\* hold one half of this; nothing in either of them checks it.
Lockstep == InForce => InStep

-----------------------------------------------------------------------------
(* The bytes. *)

MsgSent ==
    IF pc \in {"msgDone", "keyDone", "await2"} \cup KeyPhase THEN N
    ELSE IF pc \in MsgPhase THEN i ELSE 0
KeySent ==
    IF pc \in {"keyDone", "await2"} THEN N ELSE IF pc \in KeyPhase THEN i ELSE 0
Retrieved ==
    IF pc = "print" THEN N ELSE IF pc \in ResultPhase THEN i ELSE 0

MsgArrived  == \A k \in Index : k < MsgSent => msg_en[k] = encrypted_message[k]
KeyArrived  == \A k \in Index : k < KeySent => key[k] = key_pairs_hex[k]
ResultSoFar == \A k \in Index : k < Retrieved => str[k] = InvAes[job][k]

\* Every byte of the message and of the key that the program takes for
\* acknowledged is in the register io_module gives to the engine, whatever
\* stood on to_hw_port when the byte was announced (main.c sets to_hw_sig
\* before to_hw_port) and whenever either side moved.
SentBytesArrived == InForce => MsgArrived /\ KeyArrived

\* Every byte the program has stored in str is that byte of the engine's
\* output, although to_sw_port follows to_sw_sig by one edge and the program
\* reads both through registers.
RetrievedBytesAreTheResult == InForce => ResultSoFar

\* The result that is read back comes from inputs that did not move while
\* the engine worked, whatever the buttons did: the engine reads both
\* registers directly, and its key schedule follows the key as it changes.
ResultsAreOfSteadyInputs ==
    io_state \in {"GET_FROM_AES", "SEND_BACK", "GOT_ACK"} => AesDone /\ intact

\* In the first round after a reset the program prints the decryption of
\* the message and the key of that round.
FirstRoundDecodesItsPair ==
    InForce /\ ~served /\ pc = "print" =>
        str = InvAes[<<encrypted_message, key_pairs_hex>>]

\* main.c:113 and :127, "Transmit encrypted message to hardware side for
\* decryption", in a loop without end (main.c:76): each round prints the
\* decryption of the message and the key of that round.
EveryRoundDecodesItsPair ==
    InForce /\ pc = "print" => str = InvAes[<<encrypted_message, key_pairs_hex>>]

-----------------------------------------------------------------------------
(* The inductive invariant: the properties above, and what they rest on. *)

\* A button that is down keeps its side where the reset put it.
ResetHolds ==
    /\ key0_down => pc = "start0" /\ to_hw_sig = 0 /\ sig_read = 0
    /\ key1_down => io_state = "RESET" /\ eng = 0
    /\ io_state = "RESET" => ctrl = "WAIT"

\* What the program alone keeps true, in step with the hardware or not.
LoopsStartAtZero == pc \notin MsgPhase \cup KeyPhase \cup ResultPhase => i = 0

ProgramOutputs ==
    /\ pc = "prompt" => to_hw_sig = 0
    /\ pc = "msgSig" => to_hw_sig = (IF i = 0 THEN 0 ELSE 2)
    /\ pc \in {"msgPort", "msgWait1", "msgAck"} => to_hw_sig = 1
    /\ pc = "msgWait0" => to_hw_sig = 2
    /\ pc \in {"msgWait1", "msgAck", "msgWait0"} => to_hw_port = encrypted_message[i]
    /\ pc \in {"keyWait1", "keyAck", "keyWait0"} => to_hw_port = key_pairs_hex[i]

\* The controller's states, the engine's and the interface's go together.
EngineInStep ==
    /\ ctrl = "WAIT" => eng = 0
    /\ ctrl = "COMPUTE" =>
          /\ io_state = "SEND_TO_AES"
          /\ eng > 1 => intact /\ job = <<msg_en, key>>
    /\ ctrl = "READY" => AesDone /\ intact
    /\ io_state \in {"GET_FROM_AES", "SEND_BACK", "GOT_ACK"} => ctrl = "READY"

\* The byte under way.
ByteInFlight ==
    /\ pc = "msgWait0" /\ At("ACK_MSG", i) => msg_en[i] = encrypted_message[i]
    /\ pc = "keyWait0" /\ At("ACK_KEY", i) => key[i] = key_pairs_hex[i]
    /\ pc = "getWait1" /\ sig_read = 1 => to_sw_port = InvAes[job][i]
    /\ pc = "getPort" => to_sw_port = InvAes[job][i] /\ port_read = InvAes[job][i]
    /\ pc \in {"getAck", "getWait0"} => str[i] = InvAes[job][i]

\* Until the first round of the engine, it has not started; once it has, it
\* works on the pair of that round.
EngineFresh ==
    /\ pc \in {"start0", "start1", "await3"} /\ sig_read = 3 => ctrl = "WAIT"
    /\ pc \in {"idle", "prompt", "msgDone", "keyDone"} \cup MsgPhase \cup KeyPhase
          => ctrl = "WAIT"
    /\ pc \in {"await2", "print"} \cup ResultPhase =>
          (eng > 1 => job = <<encrypted_message, key_pairs_hex>>)

IInv ==
    /\ TypeOK
    /\ LoopsStartAtZero
    /\ ProgramOutputs
    /\ ResetHolds
    /\ EngineInStep
    /\ Lockstep
    /\ InForce => ByteInFlight
    /\ SentBytesArrived
    /\ RetrievedBytesAreTheResult
    /\ InForce /\ ~served => EngineFresh

-----------------------------------------------------------------------------
(* Progress. *)

\* A round that has begun in step ends, unless a button is pressed.
RoundEnds ==
    (pc = "msgSig" /\ i = 0 /\ InForce /\ ~key0_down)
        ~> (pc = "print" \/ key0_down \/ key1_down)

\* "Press reset!" (main.c:73): a program that waits for the reset goes on if
\* the button is held long enough, whatever the hardware was doing before.
ResetIsSeen ==
    (pc = "await3" /\ key1_down) ~> (pc = "idle" \/ ~key1_down \/ key0_down)

=============================================================================

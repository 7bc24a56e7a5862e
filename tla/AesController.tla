--------------------------- MODULE AesController ---------------------------
(***************************************************************************)
(* aes_controller.sv, and the control of the decryption engine it starts   *)
(* (invAES.sv).                                                            *)
(*                                                                         *)
(* The engine's 105 states form one path: WAIT, 103 states that each last  *)
(* one clock, and FINISH.  eng is the position on that path, Latency the   *)
(* number of states between its ends.  What the data path computes from a  *)
(* ciphertext and a key is the constant InvAes: nothing here depends on    *)
(* its being the inverse of a cipher.                                      *)
(***************************************************************************)
EXTENDS Blocks

CONSTANTS
    InvAes,   \* InvAes[<<c, k>>] is the output for ciphertext c and key k
    Latency   \* states of the engine between WAIT and FINISH (103)

Pair == Block \X Block

ASSUME EngineAssumption ==
    /\ InvAes \in [Pair -> Block]
    /\ Latency \in Nat \ {0}

VARIABLES
    ctrl,     \* state of aes_controller
    eng,      \* state of invAES
    job,      \* the pair invAES was started on
    intact    \* the pair at its inputs has not changed since

ctrlVars == <<ctrl, eng, job, intact>>

Finish == Latency + 1

CtrlTypeOK ==
    /\ ctrl \in {"WAIT", "COMPUTE", "READY"}
    /\ eng \in 0 .. Finish
    /\ job \in Pair
    /\ intact \in BOOLEAN

-----------------------------------------------------------------------------
(* Outputs. *)

AesReady == ctrl = "READY"
StartAes == ctrl = "COMPUTE"
AesDone  == eng = Finish

\* The values msg_de may have: the result once the engine has finished on
\* inputs that did not move, anything the latches may hold before that.
MsgDe == IF AesDone /\ intact THEN {InvAes[job]} ELSE Block

-----------------------------------------------------------------------------
(* One clock edge of the controller. *)

StartEngine(io_ready) == ctrl = "WAIT" /\ io_ready /\ ctrl' = "COMPUTE"
EngineDone == ctrl = "COMPUTE" /\ AesDone /\ ctrl' = "READY"
CtrlHolds(io_ready) ==
    /\ \/ ctrl = "WAIT" /\ ~io_ready
       \/ ctrl = "COMPUTE" /\ ~AesDone
       \/ ctrl = "READY"
    /\ UNCHANGED ctrl

CtrlEdge(io_ready) ==
    \/ StartEngine(io_ready)
    \/ EngineDone
    \/ CtrlHolds(io_ready)

-----------------------------------------------------------------------------
(* One clock edge of the engine; inputs is the pair at its inputs. *)

Leave           == eng = 0 /\ StartAes /\ eng' = 1 /\ UNCHANGED <<job, intact>>
Capture(inputs) == eng = 1 /\ eng' = 2 /\ job' = inputs /\ intact' = TRUE
Compute(inputs) ==
    /\ eng \in 2 .. Latency
    /\ eng' = eng + 1
    /\ intact' = (intact /\ inputs = job)
    /\ UNCHANGED job
EngineHolds ==
    /\ \/ eng = 0 /\ ~StartAes
       \/ AesDone
    /\ UNCHANGED <<eng, job, intact>>

EngineEdge(inputs) ==
    \/ Leave
    \/ Capture(inputs)
    \/ Compute(inputs)
    \/ EngineHolds

CtrlInit ==
    /\ ctrl = "WAIT"
    /\ eng = 0
    /\ job = <<ZeroBlock, ZeroBlock>>
    /\ intact = FALSE

\* Variant: the reset of the controller's state forgotten.
CtrlResetEngineOnly == eng' = 0 /\ UNCHANGED <<ctrl, job, intact>>

\* The falling edge of reset_n.
CtrlReset == ctrl' = "WAIT" /\ eng' = 0 /\ UNCHANGED <<job, intact>>

=============================================================================

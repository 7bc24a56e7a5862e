------------------------------ MODULE IoModule ------------------------------
(***************************************************************************)
(* io_module.sv: the state machine that receives the encrypted message and *)
(* the key from the Nios II one byte at a time, hands them to the AES      *)
(* controller, and sends the decrypted message back one byte at a time.    *)
(*                                                                         *)
(* The Verilog unrolls every transfer into one state per byte: READ_MSG_3  *)
(* is io_state = "READ_MSG" with io_idx = 3.  io_idx is 0 in the states    *)
(* that have no number.  Byte j of a block is bits [127-8j : 120-8j] of    *)
(* the 128-bit register.                                                   *)
(*                                                                         *)
(* The module gives the initial state, the asynchronous reset and the      *)
(* step of one clock edge; its inputs (to_hw_sig, to_hw_port, msg_de,      *)
(* aes_ready) are the parameters of that step.                             *)
(***************************************************************************)
EXTENDS Blocks

VARIABLES
    io_state,   \* state, without its number
    io_idx,     \* the number in the name of the state
    msg_en,     \* register: the encrypted message
    key,        \* register: the cipher key
    to_sw_port  \* register: the byte sent back to software

ioVars == <<io_state, io_idx, msg_en, key, to_sw_port>>

PlainStates    == {"RESET", "WAIT", "SEND_TO_AES", "GET_FROM_AES"}
NumberedStates == {"READ_MSG", "ACK_MSG", "READ_KEY", "ACK_KEY", "SEND_BACK", "GOT_ACK"}

IoTypeOK ==
    /\ io_state \in PlainStates \cup NumberedStates
    /\ io_idx \in Index
    /\ msg_en \in Block
    /\ key \in Block
    /\ to_sw_port \in Byte

-----------------------------------------------------------------------------
(* Outputs: functions of the state alone. *)

\* Variant: the state RESET left to the default of the always_comb block.
ToSwSigQuietReset ==
    CASE io_state = "GET_FROM_AES"                          -> 2
      [] io_state \in {"READ_MSG", "READ_KEY", "SEND_BACK"} -> 1
      [] OTHER                                              -> 0

ToSwSig ==
    CASE io_state = "RESET"                                  -> 3
      [] io_state = "GET_FROM_AES"                           -> 2
      [] io_state \in {"READ_MSG", "READ_KEY", "SEND_BACK"}  -> 1
      [] OTHER                                               -> 0

IoReady == io_state = "SEND_TO_AES"

-----------------------------------------------------------------------------
(* The next state. *)

Goto(s, j) == io_state' = s /\ io_idx' = j

Stay == Goto(io_state, io_idx)

\* A state that waits for the signal sig to have the value v.
AwaitSignal(sig, v, s, j) ==
    \/ sig = v  /\ Goto(s, j)
    \/ sig # v  /\ Stay

\* An acknowledged byte: the next byte starts on v, the last one ends on last.
AwaitNextByte(sig, v, s, last) ==
    IF io_idx = N-1 THEN AwaitSignal(sig, last, "WAIT", 0)
                    ELSE AwaitSignal(sig, v, s, io_idx + 1)

LeaveReset == Goto("WAIT", 0)

Dispatch(sig) ==
    CASE sig = 1 -> Goto("READ_MSG", 0)
      [] sig = 2 -> Goto("READ_KEY", 0)
      [] sig = 3 -> Goto("SEND_TO_AES", 0)
      [] OTHER   -> Stay

AfterReadMsg(sig)  == AwaitSignal(sig, 2, "ACK_MSG", io_idx)
AfterAckMsg(sig)   == AwaitNextByte(sig, 1, "READ_MSG", 0)
\* Variant: the key's bytes acknowledged by the message's signal.
AfterReadKeyAsMsg(sig) == AwaitSignal(sig, 2, "ACK_KEY", io_idx)
AfterReadKey(sig)  == AwaitSignal(sig, 1, "ACK_KEY", io_idx)
\* Variant: the key's last byte acknowledged as the message's is.
AfterAckKeyAsMsg(sig) == AwaitNextByte(sig, 2, "READ_KEY", 0)
AfterAckKey(sig)   == AwaitNextByte(sig, 2, "READ_KEY", 3)
AfterGetFromAes(sig) == AwaitSignal(sig, 1, "SEND_BACK", 0)
AfterSendBack(sig) == AwaitSignal(sig, 2, "GOT_ACK", io_idx)
AfterGotAck(sig)   == AwaitNextByte(sig, 1, "SEND_BACK", 1)

\* Variant: the result fetched without waiting for aes_ready.
AfterSendToAesAtOnce(aes_ready) == Goto("GET_FROM_AES", 0)
AfterSendToAes(aes_ready) ==
    \/ aes_ready  /\ Goto("GET_FROM_AES", 0)
    \/ ~aes_ready /\ Stay

-----------------------------------------------------------------------------
(* The registers. *)

NoLatch == UNCHANGED <<msg_en, key, to_sw_port>>

\* Variant: the message stored from its low byte up.
LatchMsgReversed(port) ==
    msg_en' = [msg_en EXCEPT ![N-1-io_idx] = port] /\ UNCHANGED <<key, to_sw_port>>

LatchMsg(port) ==
    msg_en' = [msg_en EXCEPT ![io_idx] = port] /\ UNCHANGED <<key, to_sw_port>>

LatchKey(port) ==
    key' = [key EXCEPT ![io_idx] = port] /\ UNCHANGED <<msg_en, to_sw_port>>

\* de is the set of values the output msg_de may have.
LatchSendBack(de) ==
    /\ \E block \in de : to_sw_port' = block[io_idx]
    /\ UNCHANGED <<msg_en, key>>

-----------------------------------------------------------------------------
(* One clock edge while reset_n is high: one action per kind of state. *)

InReset          == io_state = "RESET" /\ LeaveReset /\ NoLatch
Waiting(sig)     == io_state = "WAIT" /\ Dispatch(sig) /\ NoLatch
ReadMsg(sig, port) == io_state = "READ_MSG" /\ AfterReadMsg(sig) /\ LatchMsg(port)
AckMsg(sig)      == io_state = "ACK_MSG" /\ AfterAckMsg(sig) /\ NoLatch
ReadKey(sig, port) == io_state = "READ_KEY" /\ AfterReadKey(sig) /\ LatchKey(port)
AckKey(sig)      == io_state = "ACK_KEY" /\ AfterAckKey(sig) /\ NoLatch
SendToAes(ready) == io_state = "SEND_TO_AES" /\ AfterSendToAes(ready) /\ NoLatch
GetFromAes(sig)  == io_state = "GET_FROM_AES" /\ AfterGetFromAes(sig) /\ NoLatch
SendBack(sig, de) == io_state = "SEND_BACK" /\ AfterSendBack(sig) /\ LatchSendBack(de)
GotAck(sig)      == io_state = "GOT_ACK" /\ AfterGotAck(sig) /\ NoLatch

IoEdge(sig, port, de, aes_ready) ==
    \/ InReset
    \/ Waiting(sig)
    \/ ReadMsg(sig, port)
    \/ AckMsg(sig)
    \/ ReadKey(sig, port)
    \/ AckKey(sig)
    \/ SendToAes(aes_ready)
    \/ GetFromAes(sig)
    \/ SendBack(sig, de)
    \/ GotAck(sig)

\* Power-up: the first state of the enumeration, the registers cleared.
IoInit ==
    /\ io_state = "RESET"
    /\ io_idx = 0
    /\ msg_en = ZeroBlock
    /\ key = ZeroBlock
    /\ to_sw_port = Zero

\* The falling edge of reset_n; to_sw_port is not among the registers reset.
IoReset ==
    /\ Goto("RESET", 0)
    /\ msg_en' = ZeroBlock
    /\ key' = ZeroBlock
    /\ UNCHANGED to_sw_port

=============================================================================

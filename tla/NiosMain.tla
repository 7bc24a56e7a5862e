------------------------------ MODULE NiosMain ------------------------------
(***************************************************************************)
(* software/lab9_app/main.c: the program on the Nios II, and the PIO       *)
(* registers between it and the hardware.                                  *)
(*                                                                         *)
(* There is one action per access to a PIO register, since an access is    *)
(* all that the hardware can see of the program; the C around an access    *)
(* (loop control, printf) is part of the action.  A poll, a while loop     *)
(* with no body, is the action of the read that ends it: the reads before  *)
(* it leave everything unchanged.  pc names the next access.               *)
(*                                                                         *)
(* The Nios reads an input PIO through a register that samples the wires   *)
(* at every clock edge (sig_read, port_read), so it sees a value that is   *)
(* at least one edge old.                                                  *)
(***************************************************************************)
EXTENDS Blocks

CONSTANT
    Jobs    \* pairs <<encrypted message, key>> the user's input may lead to

ASSUME JobsAssumption == Jobs \subseteq Block \X Block /\ Jobs # {}

VARIABLES
    pc,
    i,                   \* the loop counter
    encrypted_message,
    key_pairs_hex,
    str,                 \* the decoded message
    to_hw_sig,           \* output PIO
    to_hw_port,          \* output PIO
    sig_read,            \* readdata of the input PIO to_sw_sig
    port_read            \* readdata of the input PIO to_sw_port

userVars == <<encrypted_message, key_pairs_hex>>
pioOut   == <<to_hw_sig, to_hw_port>>
pioIn    == <<sig_read, port_read>>
niosVars == <<pc, i, encrypted_message, key_pairs_hex, str, to_hw_sig, to_hw_port>>

Locations ==
    {"start0", "start1", "await3", "idle", "prompt",
     "msgSig", "msgPort", "msgWait1", "msgAck", "msgWait0", "msgDone",
     "keySig", "keyPort", "keyWait1", "keyAck", "keyWait0", "keyDone",
     "await2", "getSig", "getWait1", "getPort", "getAck", "getWait0", "print"}

NiosTypeOK ==
    /\ pc \in Locations
    /\ i \in Index
    /\ encrypted_message \in Block
    /\ key_pairs_hex \in Block
    /\ str \in Block
    /\ to_hw_sig \in Signal
    /\ to_hw_port \in Byte
    /\ sig_read \in Signal
    /\ port_read \in Byte

-----------------------------------------------------------------------------
(* The kinds of access. *)

WriteSig(from, v, to) ==
    /\ pc = from
    /\ to_hw_sig' = v
    /\ pc' = to
    /\ UNCHANGED <<i, userVars, str, to_hw_port>>

WritePort(from, v, to) ==
    /\ pc = from
    /\ to_hw_port' = v
    /\ pc' = to
    /\ UNCHANGED <<i, userVars, str, to_hw_sig>>

Poll(from, v, to) ==
    /\ pc = from
    /\ sig_read = v
    /\ pc' = to
    /\ UNCHANGED <<i, userVars, str, pioOut>>

\* Variant: the loop bound taken as i <= 16.
PollNextOneMore(from, v, again, out) ==
    /\ pc = from
    /\ sig_read = v
    /\ IF i < N THEN i' = i + 1 /\ pc' = again ELSE i' = 0 /\ pc' = out
    /\ UNCHANGED <<userVars, str, pioOut>>

\* The poll at the end of a loop body: next iteration, or out of the loop.
PollNext(from, v, again, out) ==
    /\ pc = from
    /\ sig_read = v
    /\ IF i < N-1 THEN i' = i + 1 /\ pc' = again ELSE i' = 0 /\ pc' = out
    /\ UNCHANGED <<userVars, str, pioOut>>

-----------------------------------------------------------------------------
(* "Start with pressing reset". *)

ClearSig   == WriteSig("start0", 0, "start1")
ClearPort  == WritePort("start1", Zero, "await3")
AwaitReset == Poll("await3", 3, "idle")

Idle == WriteSig("idle", 0, "prompt")

\* Read the message and the key, encrypt the message.
Prompt ==
    /\ pc = "prompt"
    /\ \E job \in Jobs : encrypted_message' = job[1] /\ key_pairs_hex' = job[2]
    /\ pc' = "msgSig"
    /\ UNCHANGED <<i, str, pioOut>>

\* Transmit the message.
MsgSig  == WriteSig("msgSig", 1, "msgPort")
MsgPort == WritePort("msgPort", encrypted_message[i], "msgWait1")
MsgWait1 == Poll("msgWait1", 1, "msgAck")
MsgAck  == WriteSig("msgAck", 2, "msgWait0")
MsgWait0 == PollNext("msgWait0", 0, "msgSig", "msgDone")
\* Variant: no *to_hw_sig = 0 between the message and the key.
MsgDoneSkipped == WriteSig("msgDone", 2, "keySig")
MsgDone == WriteSig("msgDone", 0, "keySig")

\* Transmit the key.
KeySig  == WriteSig("keySig", 2, "keyPort")
\* Variant: the message's bytes sent again as the key.
KeyPortOfMsg == WritePort("keyPort", encrypted_message[i], "keyWait1")
KeyPort == WritePort("keyPort", key_pairs_hex[i], "keyWait1")
KeyWait1 == Poll("keyWait1", 1, "keyAck")
KeyAck  == WriteSig("keyAck", 1, "keyWait0")
KeyWait0 == PollNext("keyWait0", 0, "keySig", "keyDone")
KeyDone == WriteSig("keyDone", 3, "await2")

\* Retrieve the decoded message.
AwaitResult == Poll("await2", 2, "getSig")
GetSig   == WriteSig("getSig", 1, "getWait1")
\* Variant: the byte read without waiting for it.
GetWait1AtOnce == pc = "getWait1" /\ pc' = "getPort" /\ UNCHANGED <<i, userVars, str, pioOut>>
GetWait1 == Poll("getWait1", 1, "getPort")
GetPort  ==
    /\ pc = "getPort"
    /\ str' = [str EXCEPT ![i] = port_read]
    /\ pc' = "getAck"
    /\ UNCHANGED <<i, userVars, pioOut>>
GetAck   == WriteSig("getAck", 2, "getWait0")
GetWait0 == PollNext("getWait0", 0, "getSig", "print")

PrintDecoded ==
    /\ pc = "print"
    /\ pc' = "idle"
    /\ UNCHANGED <<i, userVars, str, pioOut>>

Start    == ClearSig \/ ClearPort \/ AwaitReset
SendMsg  == MsgSig \/ MsgPort \/ MsgWait1 \/ MsgAck \/ MsgWait0 \/ MsgDone
SendKey  == KeySig \/ KeyPort \/ KeyWait1 \/ KeyAck \/ KeyWait0 \/ KeyDone
Retrieve == AwaitResult \/ GetSig \/ GetWait1 \/ GetPort \/ GetAck \/ GetWait0

\* What the processor does of its own accord, and what needs the user.
NiosRuns == Start \/ Idle \/ SendMsg \/ SendKey \/ Retrieve \/ PrintDecoded
NiosStep == NiosRuns \/ Prompt

-----------------------------------------------------------------------------
(* The PIO registers. *)

\* Every clock edge samples the wires from the hardware.
SampleInputs(to_sw_sig, to_sw_port) ==
    sig_read' = to_sw_sig /\ port_read' = to_sw_port

\* Power-up and KEY[0]: the PIO registers are cleared and main starts again;
\* its arrays on the stack keep their contents.
NiosReset ==
    /\ pc' = "start0"
    /\ i' = 0
    /\ to_hw_sig' = 0
    /\ to_hw_port' = Zero
    /\ sig_read' = 0
    /\ port_read' = Zero
    /\ UNCHANGED <<userVars, str>>

NiosInit ==
    /\ pc = "start0"
    /\ i = 0
    /\ encrypted_message = ZeroBlock
    /\ key_pairs_hex = ZeroBlock
    /\ str = ZeroBlock
    /\ to_hw_sig = 0
    /\ to_hw_port = Zero
    /\ sig_read = 0
    /\ port_read = Zero

=============================================================================

--------------------------- MODULE Lab9Decryptor ---------------------------
(***************************************************************************)
(* Lab9 implements Decryptor.                                              *)
(***************************************************************************)
EXTENDS Lab9

\* The program is between AwaitReset and a button that upsets it.
Up == InForce /\ pc \notin {"start0", "start1", "await3"}

Phase ==
    CASE ~Up                                  -> "down"
      [] Up /\ pc \in {"idle", "prompt"}      -> "free"
      [] Up /\ pc = "print"                   -> "answered"
      [] OTHER                                -> "asked"

Asked == IF Phase \in {"asked", "answered"} THEN <<encrypted_message, key_pairs_hex>> ELSE <<>>

\* The engine has captured its pair.
Held == IF Up /\ eng > 1 THEN job ELSE <<>>

Shown == IF Phase = "answered" THEN str ELSE <<>>

D == INSTANCE Decryptor WITH
        Pairs  <- Jobs,
        Result <- InvAes,
        phase  <- Phase,
        asked  <- Asked,
        held   <- Held,
        answer <- Shown

\* main.c, io_module.sv and aes_controller.sv together answer each request
\* with the result of the first pair since the reset, and do answer it: the
\* handshakes add no behaviour and no wait of their own.
ImplementsDecryptor == D!DecryptorSpec

=============================================================================

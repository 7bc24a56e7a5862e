------------------------------- MODULE MCLab9 -------------------------------
(***************************************************************************)
(* A small instance of Lab9: bits for bytes.                               *)
(***************************************************************************)
EXTENDS Lab9Decryptor

MCByte == {0, 1}
MCZero == 0

\* Any function that tells the pairs apart will do for the engine's result.
MCInvAes == [p \in Block \X Block |-> [j \in Index |-> (p[1][j] + p[2][j] + j) % 2]]

Const(b) == [j \in Index |-> b]
First(b) == [j \in Index |-> IF j = 0 THEN b ELSE 1 - b]

\* The two pairs differ in the message and in the key.
MCJobs == {<<First(0), Const(1)>>, <<First(1), First(1)>>}

=============================================================================

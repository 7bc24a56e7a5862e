------------------------------ MODULE BytePipe ------------------------------
(***************************************************************************)
(* What one direction of a character device promises: bytes come out in    *)
(* the order they went in, none lost and none twice, and at most Capacity  *)
(* of them are under way.                                                  *)
(***************************************************************************)
EXTENDS Naturals, Sequences, SequencesExt

CONSTANT Capacity  \* bytes under way at most

VARIABLES
    put,   \* the bytes that went in, in order
    taken  \* the bytes that came out, in order

pipeVars == <<put, taken>>

PipeInit == put = <<>> /\ taken = <<>>

Put ==
    /\ IsStrictPrefix(put, put')
    /\ Len(put') - Len(taken) <= Capacity
    /\ UNCHANGED taken

Take ==
    /\ \E k \in Len(taken) + 1 .. Len(put) : taken' = SubSeq(put, 1, k)
    /\ UNCHANGED put

PipeNext == Put \/ Take

PipeSpec == PipeInit /\ [][PipeNext]_pipeVars

\* And a pipe that is drained: every byte that went in comes out.
DrainedPipeSpec == PipeSpec /\ WF_pipeVars(Take)

=============================================================================

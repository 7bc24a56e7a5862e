----------------------------- MODULE MCSupport -----------------------------
(***************************************************************************)
(* The software around the exchange: main's input and output, the alarms   *)
(* and the interrupts.  They share no variable, so a behaviour here is one *)
(* of one part while the others stand still.                               *)
(***************************************************************************)
EXTENDS HexInput, Alarms, Interrupts

VARIABLE part   \* the part that moves

supportVars == <<part, inputVars, alarmVars, irqVars>>

MCTexts ==      \* "0aF1" and "12345", too long, "ABCD", "99", too short, "1234", "g012"
    { <<48, 97, 70, 49>>, <<49, 50, 51, 52, 53>>, <<65, 66, 67, 68>>, <<57, 57>>,
      <<49, 50, 51, 52>>, <<103, 48, 49, 50>> }

MCBlocks == {[j \in 0 .. 1 |-> 7 * j], [j \in 0 .. 1 |-> 255 - 200 * j]}

SupportInit ==
    /\ part \in {"input", "alarms", "interrupts"}
    /\ InputInit /\ AlarmInit /\ InterruptInit
    \* Of a part that stands still one initial state is enough.
    /\ part = "input" \/ frame = [a \in Frame |-> 0]
    /\ part = "alarms" \/ nticks = 0
    /\ part = "interrupts" \/ IENABLE = {}

SupportNext ==
    /\ UNCHANGED part
    /\ \/ part = "input" /\ InputNext /\ UNCHANGED <<alarmVars, irqVars>>
       \/ part = "alarms" /\ AlarmNext /\ UNCHANGED <<inputVars, irqVars>>
       \/ part = "interrupts" /\ InterruptNext /\ UNCHANGED <<inputVars, alarmVars>>

SupportSpec == SupportInit /\ [][SupportNext]_supportVars

=============================================================================

----------------------------- MODULE Decryptor -----------------------------
(***************************************************************************)
(* What the lab promises its user, without the wires: the user asks for a  *)
(* pair <<message, key>> and is shown a block.  The decryptor takes up one *)
(* pair after a reset, and answers every request with the result of that   *)
(* pair until it is reset again.                                           *)
(*                                                                         *)
(* While it is down (a reset is in progress, or one came at a moment it    *)
(* cannot recover from by itself) nothing is promised.                     *)
(***************************************************************************)
CONSTANTS
    Pairs,     \* what can be asked for
    Result     \* Result[p] is the answer to the pair p

VARIABLES
    phase,     \* "down", "free", "asked" or "answered"
    asked,     \* the pair of this round
    held,      \* the pair the decryptor has taken up since the reset
    answer     \* what the user is shown

dVars == <<phase, asked, held, answer>>

NoPair == <<>>

DecryptorInit == phase = "down" /\ asked = NoPair /\ held = NoPair /\ answer = <<>>

Ask ==
    /\ phase = "free"
    /\ phase' = "asked"
    /\ asked' \in Pairs
    /\ UNCHANGED <<held, answer>>

TakeUp ==
    /\ phase = "asked"
    /\ held = NoPair
    /\ held' = asked
    /\ UNCHANGED <<phase, asked, answer>>

Answer ==
    /\ phase = "asked"
    /\ held # NoPair
    /\ phase' = "answered"
    /\ answer' = Result[held]
    /\ UNCHANGED <<asked, held>>

Again ==
    /\ phase = "answered"
    /\ phase' = "free"
    /\ asked' = NoPair
    /\ answer' = <<>>
    /\ UNCHANGED held

\* A reset, at any moment.
GoDown ==
    /\ phase' = "down"
    /\ asked' = NoPair
    /\ held' = NoPair
    /\ answer' = <<>>

\* Back to service, before a request or at its beginning.
ComeUp ==
    /\ phase = "down"
    /\ \/ phase' = "free" /\ asked' = NoPair
       \/ phase' = "asked" /\ asked' \in Pairs
    /\ UNCHANGED <<held, answer>>

DecryptorNext == Ask \/ TakeUp \/ Answer \/ Again \/ GoDown \/ ComeUp

\* A request is taken up and answered, unless a reset comes first.
DecryptorSpec ==
    /\ DecryptorInit
    /\ [][DecryptorNext]_dVars
    /\ WF_dVars(TakeUp)
    /\ WF_dVars(Answer)

=============================================================================

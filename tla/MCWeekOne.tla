----------------------------- MODULE MCWeekOne -----------------------------
(***************************************************************************)
(* The real sizes and bytes.  Of a key it matters here which of its words  *)
(* start with a high bit: each of the sixteen ways has three keys.         *)
(***************************************************************************)
EXTENDS WeekOne, AesBytes

\* The words whose numbers are in high start with a byte of 128 or more.
KeyWith(high, rest) ==
    [j \in Index |-> IF j % W = 0 THEN (IF j \div W \in high THEN 203 ELSE 52) + j
                                  ELSE (j * j * rest) % 256]

MCKeys     == {KeyWith(high, rest) : high \in SUBSET WordIndex, rest \in {0, 7, 90}}
MCMessages == {[j \in Index |-> 255 - 13 * j]}
MCZero     == 0

=============================================================================

CONSTANTS
    N = 2
    Texts <- MCTexts
    Blocks <- MCBlocks
    Leftovers = {0, 102}
    Alarm = {a1, a2, a3}
    alt_alarm_list = head
    Wrap = 4
    Delays = {0, 2}
    Periods = {1, 3}
    Irq = {0, 1}
    Driver = {d, e}
    NoDriver = null
    MaxNest = 1
SPECIFICATION SupportSpec
INVARIANTS
    PairsAreTyped
    PrintedReadsBack
    ListHoldsTheRunning
    AlarmsRunOnTime
    HandlersAreCalledWhole
    EnablesAreKept

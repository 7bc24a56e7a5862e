------------------------------- MODULE Alarms -------------------------------
(***************************************************************************)
(* The alarms of the hardware abstraction layer: alt_alarm_start,          *)
(* alt_alarm_stop and alt_tick on their doubly linked list (alt_llist.h),  *)
(* with a tick counter of 32 bits that wraps.                              *)
(*                                                                         *)
(* alt_tick runs in the timer's interrupt and visits the listed alarms one *)
(* after the other; callbacks run inside it and may themselves start and   *)
(* stop alarms.  The thread starts and stops alarms with interrupts        *)
(* disabled, so between ticks and in one step.                             *)
(***************************************************************************)
EXTENDS Integers, FiniteSets

CONSTANTS
    Alarm,      \* the alarm structures of drivers and program
    alt_alarm_list,       \* alt_alarm_list
    Wrap,       \* values of the tick counter (2^32)
    Delays,     \* the nticks given to alt_alarm_start
    Periods     \* what callbacks return to be called again

\* A delay of Wrap - 1 would be taken for none at all: nticks + current + 1 is
\* then current, which alt_alarm_start does not take for a roll-over.
ASSUME AlarmsAssumption ==
    /\ Wrap \in Nat /\ Wrap > 2
    /\ alt_alarm_list \notin Alarm
    /\ Delays \subseteq 0 .. Wrap - 2
    /\ Periods \subseteq 1 .. Wrap - 1

VARIABLES
    nticks,     \* _alt_nticks
    next, previous,  \* the links of the list's head and of the alarms
    time, rollover,  \* of each alarm
    visiting,   \* alt_tick's alarm, or alt_alarm_list when it is not running
    following,  \* alt_tick's next, while a callback runs
    calling,    \* whether one runs
    started,    \* history: the alarms that were ever started
    running,    \* history: the alarms started and not stopped since
    left,       \* history: the ticks until each is to be called
    astray      \* history: alarms called when they were not to be

alarmVars == <<nticks, next, previous, time, rollover, visiting, following, calling,
             started, running, left, astray>>

Entry == Alarm \cup {alt_alarm_list}

AlarmInit ==
    /\ nticks \in {0, Wrap - 2}    \* bound: shortly before the counter wraps, or at reset
    /\ next = [e \in Entry |-> e] /\ previous = [e \in Entry |-> e]
    /\ time = [a \in Alarm |-> 0] /\ rollover = [a \in Alarm |-> FALSE]
    /\ visiting = alt_alarm_list /\ following = alt_alarm_list /\ calling = FALSE
    /\ started = {} /\ running = {} /\ left = [a \in Alarm |-> 0] /\ astray = {}

-----------------------------------------------------------------------------
(* alt_llist.h.  A list is its links: the functions next and previous. *)

Links == [next |-> next, previous |-> previous]

\* Variant: the old first entry keeps its previous link.
InsertedOneWay(links, e) ==
    [next     |-> [links.next EXCEPT ![e] = links.next[alt_alarm_list], ![alt_alarm_list] = e],
     previous |-> [links.previous EXCEPT ![e] = alt_alarm_list]]

\* alt_llist_insert: behind the head.
Inserted(links, e) ==
    [next     |-> [links.next EXCEPT ![e] = links.next[alt_alarm_list], ![alt_alarm_list] = e],
     previous |-> [links.previous EXCEPT ![e] = alt_alarm_list, ![links.next[alt_alarm_list]] = e]]

\* alt_llist_remove: an entry that is removed points to itself.
Removed(links, e) ==
    [next     |-> [links.next EXCEPT ![links.previous[e]] = links.next[e], ![e] = e],
     previous |-> [links.previous EXCEPT ![links.next[e]] = links.previous[e], ![e] = e]]

LinksBecome(links) == next' = links.next /\ previous' = links.previous

-----------------------------------------------------------------------------
(* alt_alarm_start and alt_alarm_stop, from the thread between two ticks or *)
(* from the callback that alt_tick has called.                             *)

Due(delay) == ((delay + nticks) + 1) % Wrap

Wraps(delay) == Due(delay) < nticks

CanCall == visiting = alt_alarm_list \/ calling

\* An alarm that is listed already must not be started again: its entry would
\* be linked twice.  (The one whose callback runs is listed.)
AlarmStart(a, delay) ==
    /\ CanCall
    /\ a \notin running /\ a # visiting
    /\ time' = [time EXCEPT ![a] = Due(delay)]
    /\ rollover' = [rollover EXCEPT ![a] = Wraps(delay)]
    /\ LinksBecome(Inserted(Links, a))
    /\ started' = started \cup {a}
    /\ running' = running \cup {a}
    /\ left' = [left EXCEPT ![a] = delay + 1]
    /\ UNCHANGED <<nticks, visiting, following, calling, astray>>

\* Stopping an alarm twice is harmless.  A callback must not stop the alarm
\* that alt_tick has read as the one to visit next: it would find its entry
\* pointing to itself and go round it for ever.
AlarmStop(a) ==
    /\ CanCall
    /\ a \in started
    /\ calling => a # following
    /\ LinksBecome(Removed(Links, a))
    /\ running' = running \ {a}
    /\ left' = [left EXCEPT ![a] = 0]
    /\ UNCHANGED <<nticks, time, rollover, visiting, following, calling, started, astray>>

-----------------------------------------------------------------------------
(* alt_tick. *)

TickStarts ==
    /\ visiting = alt_alarm_list
    /\ nticks' = (nticks + 1) % Wrap
    /\ visiting' = next[alt_alarm_list]
    /\ left' = [a \in Alarm |-> IF a \in running THEN left[a] - 1 ELSE left[a]]
    /\ UNCHANGED <<next, previous, time, rollover, following, calling, started, running, astray>>

\* The roll-over flag of the alarm visited, cleared when the counter wraps.
RolledOver == rollover[visiting] /\ nticks # 0

Visits == visiting # alt_alarm_list /\ ~calling
Expired == time[visiting] <= nticks /\ ~RolledOver

TickPasses ==
    /\ Visits /\ ~Expired
    /\ rollover' = [rollover EXCEPT ![visiting] = RolledOver]
    /\ visiting' = next[visiting]
    /\ UNCHANGED <<nticks, next, previous, time, following, calling, started, running, left, astray>>

TickCalls ==
    /\ Visits /\ Expired
    /\ following' = next[visiting]
    /\ calling' = TRUE
    /\ rollover' = [rollover EXCEPT ![visiting] = RolledOver]
    /\ astray' = IF visiting \in running /\ left[visiting] = 0 THEN astray ELSE astray \cup {visiting}
    /\ UNCHANGED <<nticks, next, previous, time, visiting, started, running, left>>

TickGoesOn ==
    /\ visiting' = following
    /\ following' = alt_alarm_list
    /\ calling' = FALSE
    /\ UNCHANGED <<nticks, started, astray>>

\* The callback returns zero: the alarm is taken off the list.
CallbackRetires ==
    /\ calling
    /\ LinksBecome(Removed(Links, visiting))
    /\ running' = running \ {visiting}
    /\ left' = [left EXCEPT ![visiting] = 0]
    /\ UNCHANGED <<time, rollover>>
    /\ TickGoesOn

\* Variant: the next call is due without looking for a roll-over.
CallbackRepeatsUnwrapped(period) ==
    /\ calling
    /\ time' = [time EXCEPT ![visiting] = (@ + period) % Wrap]
    /\ left' = [left EXCEPT ![visiting] = IF visiting \in running THEN period ELSE 0]
    /\ UNCHANGED <<next, previous, rollover, running>>
    /\ TickGoesOn

\* The callback returns the ticks to the next call.
CallbackRepeats(period) ==
    /\ calling
    /\ time' = [time EXCEPT ![visiting] = (@ + period) % Wrap]
    /\ rollover' = [rollover EXCEPT ![visiting] = @ \/ time'[visiting] < nticks]
    /\ left' = [left EXCEPT ![visiting] = IF visiting \in running THEN period ELSE 0]
    /\ UNCHANGED <<next, previous, running>>
    /\ TickGoesOn

AlarmNext ==
    \/ \E a \in Alarm, delay \in Delays : AlarmStart(a, delay)
    \/ \E a \in Alarm : AlarmStop(a)
    \/ TickStarts \/ TickPasses \/ TickCalls
    \/ CallbackRetires
    \/ \E period \in Periods : CallbackRepeats(period)

AlarmSpec == AlarmInit /\ [][AlarmNext]_alarmVars

-----------------------------------------------------------------------------
(* Properties. *)

AlarmTypeOK ==
    /\ nticks \in 0 .. Wrap - 1
    /\ next \in [Entry -> Entry] /\ previous \in [Entry -> Entry]
    /\ time \in [Alarm -> 0 .. Wrap - 1] /\ rollover \in [Alarm -> BOOLEAN]
    /\ visiting \in Entry /\ following \in Entry /\ calling \in BOOLEAN
    /\ calling => visiting # alt_alarm_list
    /\ running \subseteq started /\ started \subseteq Alarm /\ astray \subseteq Alarm
    /\ left \in [Alarm -> Nat]

\* The entries the links lead to from the head: every set that holds the head
\* and is closed under next holds them.
Closed(set) == alt_alarm_list \in set /\ \A e \in set : next[e] \in set
Reached == {e \in Entry : \A set \in SUBSET Entry : Closed(set) => e \in set}

\* The list holds the alarms that are running and no other, the same read
\* forwards and backwards, also while alt_tick is in the middle of it and
\* callbacks start and stop alarms under its feet.
ListHoldsTheRunning ==
    /\ Reached = running \cup {alt_alarm_list}
    /\ \A e \in Entry : previous[next[e]] = e

\* Every running alarm is called at its tick and at no other, across any
\* number of wraps of the counter, whatever else was started or stopped.
AlarmsRunOnTime ==
    /\ astray = {}
    /\ visiting = alt_alarm_list => \A a \in running : left[a] > 0

=============================================================================

-------------------------------- MODULE Alarms --------------------------------
(****************************************************************************)
(* The system clock of the HAL and its alarms: alt_tick.c,                  *)
(* alt_alarm_start.c and the list of alt_llist.h, pointer by pointer.  The  *)
(* timer's interrupt handler runs alt_tick, which walks the list and makes  *)
(* the callbacks of the alarms that are due; the program, which cannot run  *)
(* meanwhile, starts and stops alarms between two ticks.                    *)
(****************************************************************************)
EXTENDS Naturals

CONSTANTS Alarm,            \* the alarms
          Wrap,             \* 2^32: alt_nticks() counts modulo Wrap
          alt_alarm_list,   \* the head of the list
          NULL              \* no alarm

ASSUME AlarmAssumption ==
    /\ Wrap \in Nat \ {0} /\ NULL # alt_alarm_list /\ alt_alarm_list \notin Alarm /\ NULL \notin Alarm

VARIABLES
    tick_rate, nticks,          \* _alt_tick_rate, _alt_nticks
    next, previous,             \* the llist of alt_alarm_list and of every alarm
    time, rollover,             \* of every alarm
    alarm,                      \* the local variable of alt_tick
    wait                        \* the ticks an alarm still has to wait, by what
                                \* was asked for; history, read by nothing

llist == <<next, previous>>
alarmVars == <<tick_rate, nticks, llist, time, rollover, alarm, wait>>

\* alt_tick is not running.
Resting == alarm = NULL

Listed == {a \in Alarm : next[a] \notin {a, NULL}}

alarmsInit ==
    /\ tick_rate = 0 /\ nticks = 0
    /\ next = [e \in Alarm \union {alt_alarm_list} |-> IF e = alt_alarm_list THEN alt_alarm_list ELSE NULL]
    /\ previous = next
    /\ time = [a \in Alarm |-> 0] /\ rollover = [a \in Alarm |-> FALSE]
    /\ wait = [a \in Alarm |-> 0]
    /\ alarm = NULL

-----------------------------------------------------------------------------
(* alt_llist.h *)

alt_llist_insert(entry) ==
    /\ previous' = [previous EXCEPT ![entry] = alt_alarm_list, ![next[alt_alarm_list]] = entry]
    /\ next' = [next EXCEPT ![entry] = next[alt_alarm_list], ![alt_alarm_list] = entry]

\* An entry that is not on the list points to itself.
alt_llist_remove(entry) ==
    /\ previous' = [previous EXCEPT ![next[entry]] = previous[entry], ![entry] = entry]
    /\ next' = [next EXCEPT ![previous[entry]] = next[entry], ![entry] = entry]

-----------------------------------------------------------------------------
(* What the program calls.                                                   *)

\* The timer's driver says how many ticks a second has, once.
alt_sysclk_init(rate) ==
    /\ tick_rate' = IF tick_rate = 0 THEN rate ELSE tick_rate
    /\ UNCHANGED <<nticks, llist, time, rollover, alarm, wait>>

\* Mutant: the wrap of the alarm's time is not noticed.
Later_NoRollover(a, from, n) ==
    /\ time' = [time EXCEPT ![a] = (from + n) % Wrap]
    /\ rollover' = [rollover EXCEPT ![a] = FALSE]

\* The time of a callback, and whether it lies beyond the wrap of the clock.
Later(a, from, n) ==
    /\ time' = [time EXCEPT ![a] = (from + n) % Wrap]
    /\ rollover' = [rollover EXCEPT ![a] = (from + n) % Wrap < nticks]

\* alt_alarm_start.  Without a clock it refuses; the timer is initialised before
\* anything that has an alarm.
Started(a, n) ==
    /\ tick_rate # 0
    /\ Later(a, nticks, n + 1)
    /\ alt_llist_insert(a)
    /\ wait' = [wait EXCEPT ![a] = n + 1]
    /\ UNCHANGED <<tick_rate, nticks, alarm>>

alt_alarm_stop(a) ==
    /\ alt_llist_remove(a)
    /\ UNCHANGED <<tick_rate, nticks, time, rollover, alarm, wait>>

-----------------------------------------------------------------------------
(* alt_tick: one step to begin with, and one per alarm on its way.           *)

\* The walk ends at the head of the list.
Before(e) == IF e = alt_alarm_list THEN NULL ELSE e

alt_tick ==
    /\ Resting
    /\ nticks' = (nticks + 1) % Wrap
    /\ alarm' = Before(next[alt_alarm_list])
    /\ wait' = [a \in Alarm |-> IF a \in Listed /\ wait[a] > 0 THEN wait[a] - 1 ELSE wait[a]]
    /\ UNCHANGED <<tick_rate, llist, time, rollover>>

\* The flag is cleared in the tick in which the clock wraps.
Rolled(a) == rollover[a] /\ nticks # 0

Due(a) == time[a] <= nticks /\ ~Rolled(a)

NotDue ==
    /\ alarm \in Alarm /\ ~Due(alarm)
    /\ rollover' = [rollover EXCEPT ![alarm] = Rolled(alarm)]
    /\ alarm' = Before(next[alarm])
    /\ UNCHANGED <<tick_rate, nticks, llist, time, wait>>

\* The callback answers with the ticks to the next one.
Recall(period) ==
    /\ alarm \in Alarm /\ Due(alarm) /\ period > 0
    /\ Later(alarm, time[alarm], period)
    /\ wait' = [wait EXCEPT ![alarm] = period]
    /\ alarm' = Before(next[alarm])
    /\ UNCHANGED <<tick_rate, nticks, llist>>

\* The callback answers 0.
Expire ==
    /\ alarm \in Alarm /\ Due(alarm)
    /\ alt_llist_remove(alarm)
    /\ rollover' = [rollover EXCEPT ![alarm] = FALSE]
    /\ alarm' = Before(next[alarm])
    /\ UNCHANGED <<tick_rate, nticks, time, wait>>

\* The callback stops another alarm, and wants to be called again.  The next
\* alarm to look at was noted before.
RecallAndStop(period, other) ==
    /\ alarm \in Alarm /\ Due(alarm) /\ period > 0 /\ other # alarm
    /\ alt_llist_remove(other)
    /\ Later(alarm, time[alarm], period)
    /\ wait' = [wait EXCEPT ![alarm] = period]
    /\ alarm' = Before(next[alarm])
    /\ UNCHANGED <<tick_rate, nticks>>

-----------------------------------------------------------------------------
(* Properties. *)

\* A callback comes exactly when it was asked for: n + 1 ticks after
\* alt_alarm_start(n), then period by period, whatever the clock wraps in
\* between, and not a tick late because of the other alarms of the list.
AlarmOnTime ==
    /\ alarm \in Listed => (Due(alarm) <=> wait[alarm] = 0)
    /\ Resting => \A a \in Listed : wait[a] > 0
===============================================================================

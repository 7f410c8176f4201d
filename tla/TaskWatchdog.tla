----------------------------- MODULE TaskWatchdog -----------------------------
(* components/core/src/memfault_task_watchdog.c: tasks start, feed and stop their *)
(* channel; a timer or background task checks all of them and either refreshes    *)
(* the hardware watchdog or panics.  Nothing is locked.  The time is kept in      *)
(* 64 bits by the platform, in 32 by the channels and by the check, and           *)
(* subtracted in 64.                                                              *)
EXTENDS Integers, FiniteSets

CONSTANTS
  Channel,    \* channel ids, checked in an order the properties do not depend on
  Timeout,    \* MEMFAULT_TASK_WATCHDOG_TIMEOUT_INTERVAL_MS
  Narrow,     \* 2^32
  Wide,       \* 2^64
  Preemption, \* {TRUE}: other tasks, and time, go on while a check runs
  MaxTime     \* bound: platform time

ASSUME ChannelAssumption == IsFiniteSet(Channel) /\ Channel # {}
ASSUME PreemptionAssumption == Preemption \subseteq BOOLEAN
ASSUME TimeAssumption == /\ {Timeout, Narrow, Wide, MaxTime} \subseteq Nat
                         /\ Timeout < Narrow /\ Narrow < Wide /\ MaxTime < Wide

VARIABLES
  preemptive,  \* whether tasks preempt the check: it never changes
  time,        \* memfault_platform_get_time_since_boot_ms()
  fed_time_ms, state, \* g_memfault_task_channel_info.channels
  starting,    \* channels between the two stores of start
  check,       \* the check in progress: time, channels left, the copy it is making
  expired_channels_count,
  outcome,     \* what the last check did
  lastFed,     \* the real time each channel was last fed or started
  overdue,     \* channels overdue when the check looked at them
  due          \* channels overdue since before the check began

vars == <<preemptive, time, fed_time_ms, state, starting, check, expired_channels_count, outcome,
          lastFed, overdue, due>>
ghosts == <<lastFed, overdue, due>>

Unread == -1  \* a field of the copy not loaded yet
NoCheck == [running |-> FALSE, time_since_boot_ms |-> 0, left |-> {},
            fed |-> Unread, started |-> "unread"]

Init ==
  /\ preemptive \in Preemption
  /\ time = 0
  /\ fed_time_ms = [c \in Channel |-> 0]
  /\ state = [c \in Channel |-> "Stopped"]
  /\ starting = {}
  /\ check = NoCheck
  /\ expired_channels_count = 0
  /\ outcome = "none"
  /\ lastFed = [c \in Channel |-> 0]
  /\ overdue = {} /\ due = {}

TasksRun == outcome # "panic" /\ (preemptive \/ ~check.running)
Overdue(c) == state[c] = "Started" /\ time - lastFed[c] > Timeout

tick == /\ TasksRun
        /\ time < MaxTime
        /\ time' = time + 1
        /\ UNCHANGED <<preemptive, fed_time_ms, state, starting, check, expired_channels_count, outcome, ghosts>>

Feed(c) == /\ fed_time_ms' = [fed_time_ms EXCEPT ![c] = time % Narrow]
           /\ lastFed' = [lastFed EXCEPT ![c] = time]
           /\ due' = due \ {c}

\* Mutant: starting a channel leaves its time from the last use.
mut_start_stale(c) == /\ TasksRun
                      /\ c \notin starting
                      /\ lastFed' = [lastFed EXCEPT ![c] = time]
                      /\ due' = due \ {c}
                      /\ starting' = starting \cup {c}
                      /\ UNCHANGED <<preemptive, time, fed_time_ms, state, check, expired_channels_count,
                                     outcome, overdue>>
\* memfault_task_watchdog_start stores the time, then the state.
start(c) == /\ TasksRun
            /\ c \notin starting
            /\ Feed(c)
            /\ starting' = starting \cup {c}
            /\ UNCHANGED <<preemptive, time, state, check, expired_channels_count, outcome, overdue>>
start_state(c) == /\ TasksRun
                  /\ c \in starting
                  /\ starting' = starting \ {c}
                  /\ state' = [state EXCEPT ![c] = "Started"]
                  /\ UNCHANGED <<preemptive, time, fed_time_ms, check, expired_channels_count, outcome, ghosts>>

feed(c) == /\ TasksRun
           /\ c \notin starting
           /\ Feed(c)
           /\ UNCHANGED <<preemptive, time, state, starting, check, expired_channels_count, outcome, overdue>>

stop(c) == /\ TasksRun
           /\ c \notin starting
           /\ state' = [state EXCEPT ![c] = "Stopped"]
           /\ due' = due \ {c}
           /\ UNCHANGED <<preemptive, time, fed_time_ms, starting, check, expired_channels_count, outcome,
                          lastFed, overdue>>

-------------------------------------------------------------------------------
\* prv_memfault_task_watchdog_do_check: the time, cut to 32 bits, is read once.
do_check ==
  /\ outcome # "panic"
  /\ ~check.running
  /\ check' = [NoCheck EXCEPT !.running = TRUE, !.time_since_boot_ms = time % Narrow,
                              !.left = Channel]
  /\ expired_channels_count' = 0
  /\ overdue' = {}
  /\ due' = {c \in Channel : Overdue(c)}
  /\ UNCHANGED <<preemptive, time, fed_time_ms, state, starting, outcome, lastFed>>

Current == CHOOSE c \in check.left : TRUE

\* The channel is passed by value: its two fields are loaded in either order.
load_fed_time ==
  /\ check.left # {} /\ check.fed = Unread
  /\ check' = [check EXCEPT !.fed = fed_time_ms[Current]]
  /\ overdue' = IF Overdue(Current) THEN overdue \cup {Current} ELSE overdue
  /\ UNCHANGED <<preemptive, time, fed_time_ms, state, starting, expired_channels_count, outcome, lastFed, due>>
load_state ==
  /\ check.left # {} /\ check.started = "unread"
  /\ check' = [check EXCEPT !.started = state[Current]]
  /\ UNCHANGED <<preemptive, time, fed_time_ms, state, starting, expired_channels_count, outcome, ghosts>>

\* Mutant: one tick more than the timeout is still accepted.
mut_expired_late == /\ check.started = "Started"
                    /\ (check.time_since_boot_ms - check.fed) % Wide > Timeout + 1
\* prv_memfault_task_watchdog_expired
expired == /\ check.started = "Started"
           /\ (check.time_since_boot_ms - check.fed) % Wide > Timeout

check_channel ==
  /\ check.left # {} /\ check.fed # Unread /\ check.started # "unread"
  /\ expired_channels_count' = expired_channels_count + IF expired THEN 1 ELSE 0
  /\ check' = [check EXCEPT !.left = @ \ {Current}, !.fed = Unread, !.started = "unread"]
  /\ UNCHANGED <<preemptive, time, fed_time_ms, state, starting, outcome, ghosts>>

\* Mutant: one expired channel is not enough.
mut_check_all_two ==
  /\ check.running /\ check.left = {}
  /\ outcome' = IF expired_channels_count > 1 THEN "panic" ELSE "refresh"
  /\ check' = NoCheck
  /\ UNCHANGED <<preemptive, time, fed_time_ms, state, starting, expired_channels_count, ghosts>>
\* memfault_task_watchdog_check_all, once all channels are looked at
check_all ==
  /\ check.running /\ check.left = {}
  /\ outcome' = IF expired_channels_count > 0 THEN "panic" ELSE "refresh"
  /\ check' = NoCheck
  /\ UNCHANGED <<preemptive, time, fed_time_ms, state, starting, expired_channels_count, ghosts>>

\* A panic ends in a reboot: memfault_task_watchdog_init, time from zero.
reboot ==
  /\ outcome = "panic"
  /\ time' = 0
  /\ fed_time_ms' = [c \in Channel |-> 0]
  /\ state' = [c \in Channel |-> "Stopped"]
  /\ starting' = {}
  /\ outcome' = "none"
  /\ lastFed' = [c \in Channel |-> 0]
  /\ overdue' = {} /\ due' = {}
  /\ expired_channels_count' = 0
  /\ UNCHANGED <<preemptive, check>>

CheckStep == load_fed_time \/ load_state \/ check_channel \/ check_all
Next == \/ tick \/ do_check \/ CheckStep \/ reboot
        \/ \E c \in Channel : start(c) \/ start_state(c) \/ feed(c) \/ stop(c)

Spec == Init /\ [][Next]_vars

\* The timer calls check_all over and over, and time goes on.
FairSpec == Spec /\ WF_vars(do_check) /\ WF_vars(CheckStep) /\ WF_vars(tick)

-------------------------------------------------------------------------------
TypeOK ==
  /\ time \in 0..MaxTime
  /\ fed_time_ms \in [Channel -> 0..(Narrow - 1)]
  /\ state \in [Channel -> {"Stopped", "Started"}]
  /\ starting \subseteq Channel /\ check.left \subseteq Channel
  /\ expired_channels_count \in 0..Cardinality(Channel)
  /\ outcome \in {"none", "refresh", "panic"}

\* The device is only panicked for a channel that was started and not fed for longer
\* than the timeout when the check looked at it, if no task runs in the middle of a
\* check.  (With preemption a channel fed after the check read the time is taken for
\* expired.)
NoFalseAlarm == outcome = "panic" /\ ~preemptive => overdue # {}

\* A channel overdue when a check begins, and neither fed nor stopped before the
\* check is over, is not missed: the hardware watchdog is not refreshed.
NeverMissed ==
  [][(check.running /\ ~check'.running /\ outcome' = "refresh") => due = {}]_vars

\* A task that hangs is caught: a channel left started, and neither fed nor stopped
\* any more, ends in a panic.
StuckIsCaught ==
  \A c \in Channel : (state[c] = "Started" /\ Overdue(c)) ~> (outcome = "panic" \/ ~Overdue(c))
===============================================================================

-------------------------- MODULE TaskWatchdogProofs --------------------------
(* What the check of TaskWatchdog promises, for every number of channels, every *)
(* timeout and both kinds of scheduling, below the wrap of the 32-bit time.     *)
EXTENDS TaskWatchdog, TLAPS

BelowWrap == MaxTime < Narrow

Types ==
  /\ preemptive \in BOOLEAN
  /\ time \in 0..MaxTime
  /\ fed_time_ms \in [Channel -> 0..MaxTime]
  /\ state \in [Channel -> {"Stopped", "Started"}]
  /\ expired_channels_count \in Nat
  /\ check \in [running : BOOLEAN, time_since_boot_ms : 0..MaxTime, left : SUBSET Channel,
                fed : 0..MaxTime \cup {Unread}, started : {"unread", "Stopped", "Started"}]
  /\ due \subseteq Channel

\* The 32-bit times are the real ones, and none lies ahead.
TrueTimes ==
  /\ lastFed = fed_time_ms
  /\ \A c \in Channel : fed_time_ms[c] <= time

\* The copy of the channel looked at is what it was, until the check goes on to another.
CopyOf(c) ==
  /\ check.fed \in {Unread, fed_time_ms[c]}
  /\ check.started \in {"unread", state[c]}

AtRest ==
  /\ ~check.running => check.left = {}
  /\ outcome = "panic" => ~check.running

\* A channel due since before the check began stays started and too old by the check's own
\* time, and is still to be looked at, or was counted.
DueIsCaught ==
  check.running =>
    \A c \in due : /\ state[c] = "Started"
                   /\ check.time_since_boot_ms - fed_time_ms[c] > Timeout
                   /\ c \in check.left \/ expired_channels_count > 0
                   /\ check.left # {} /\ c = Current => CopyOf(c)

\* Where no task preempts the check, nothing moves while it runs, and a channel it counts was
\* overdue when it was looked at.
CountedIsOverdue ==
  ~preemptive =>
    /\ check.running => check.time_since_boot_ms = time
    /\ check.left # {} => CopyOf(Current)
    /\ check.left # {} /\ check.fed # Unread /\ Overdue(Current) => Current \in overdue
    /\ expired_channels_count > 0 => overdue # {}

IInv == Types /\ TrueTimes /\ AtRest /\ DueIsCaught /\ CountedIsOverdue /\ NoFalseAlarm

-------------------------------------------------------------------------------
\* Below the wrap the times of the code are the real ones, and so is their difference.
LEMMA TimeIsKept ==
  ASSUME BelowWrap, NEW t \in 0..MaxTime
  PROVE  t % Narrow = t
BY TimeAssumption DEF BelowWrap

LEMMA DifferenceIsKept ==
  ASSUME BelowWrap, NEW t \in 0..MaxTime, NEW u \in 0..MaxTime, u <= t
  PROVE  (t - u) % Wide = t - u
BY TimeAssumption DEF BelowWrap

LEMMA CurrentIsLeft == check.left # {} => Current \in check.left
BY DEF Current

LEMMA InitHolds == Init => IInv
BY TimeAssumption, PreemptionAssumption
DEF Init, IInv, Types, TrueTimes, AtRest, DueIsCaught, CountedIsOverdue, NoFalseAlarm, NoCheck, Unread

\* What a task does that stores to a channel: the check may be under way, and then the channel
\* is due no more.
LEMMA TaskStep ==
  ASSUME BelowWrap, IInv, NEW c \in Channel,
         start(c) \/ start_state(c) \/ feed(c) \/ stop(c)
  PROVE  IInv'
<1> USE DEF IInv
<1>1. /\ check' = check /\ Current' = Current
      /\ UNCHANGED <<preemptive, time, expired_channels_count, outcome, overdue>>
      /\ preemptive \/ ~check.running
  BY DEF start, start_state, feed, stop, Feed, Current, TasksRun, ghosts
<1>2. /\ fed_time_ms' \in [Channel -> 0..MaxTime] /\ lastFed' = fed_time_ms'
      /\ \A d \in Channel : fed_time_ms'[d] <= time
      /\ state' \in [Channel -> {"Stopped", "Started"}]
  <2>1. time % Narrow = time
    BY TimeIsKept DEF Types
  <2> QED BY <2>1, TimeAssumption
          DEF start, start_state, feed, stop, Feed, Types, TrueTimes, ghosts
<1>3. \A d \in due' : /\ d \in due /\ fed_time_ms'[d] = fed_time_ms[d]
                      /\ state[d] = "Started" => state'[d] = "Started"
  BY DEF start, start_state, feed, stop, Feed, Types, TrueTimes, ghosts
<1>4. Types'
  BY <1>1, <1>2, <1>3 DEF Types
<1>5. TrueTimes'
  BY <1>1, <1>2 DEF TrueTimes
<1>6. AtRest'
  BY <1>1 DEF AtRest
<1>7. DueIsCaught'
  BY <1>1, <1>3 DEF DueIsCaught, CopyOf
<1>8. CountedIsOverdue'
  BY <1>1 DEF CountedIsOverdue, AtRest
<1>9. NoFalseAlarm'
  BY <1>1 DEF NoFalseAlarm
<1> QED BY <1>4, <1>5, <1>6, <1>7, <1>8, <1>9

LEMMA TickStep == ASSUME IInv, tick PROVE IInv'
<1> USE DEF IInv
<1>1. /\ check' = check /\ Current' = Current /\ time' = time + 1 /\ time < MaxTime
      /\ UNCHANGED <<preemptive, fed_time_ms, state, expired_channels_count, outcome, lastFed,
                     overdue, due>>
      /\ preemptive \/ ~check.running
  BY DEF tick, Current, TasksRun, ghosts
<1>2. Types' /\ TrueTimes' /\ AtRest'
  BY <1>1, TimeAssumption DEF Types, TrueTimes, AtRest
<1>3. DueIsCaught'
  BY <1>1 DEF DueIsCaught, CopyOf
<1>4. CountedIsOverdue' /\ NoFalseAlarm'
  BY <1>1 DEF CountedIsOverdue, NoFalseAlarm, AtRest
<1> QED BY <1>2, <1>3, <1>4

LEMMA BeginStep == ASSUME BelowWrap, IInv, do_check PROVE IInv'
<1> USE DEF IInv
<1>1. /\ check' = [running |-> TRUE, time_since_boot_ms |-> time, left |-> Channel,
                   fed |-> Unread, started |-> "unread"]
      /\ expired_channels_count' = 0 /\ overdue' = {}
      /\ due' = {c \in Channel : Overdue(c)}
      /\ outcome # "panic"
      /\ UNCHANGED <<preemptive, time, fed_time_ms, state, outcome, lastFed>>
  BY TimeIsKept DEF do_check, NoCheck, Types
<1>2. Types' /\ TrueTimes' /\ AtRest'
  BY <1>1 DEF Types, TrueTimes, AtRest
<1>3. DueIsCaught'
  BY <1>1 DEF DueIsCaught, CopyOf, Overdue, TrueTimes
<1>4. CountedIsOverdue' /\ NoFalseAlarm'
  BY <1>1 DEF CountedIsOverdue, NoFalseAlarm, CopyOf
<1> QED BY <1>2, <1>3, <1>4

\* A load takes the field as it is.
LEMMA LoadStep == ASSUME IInv, load_fed_time \/ load_state PROVE IInv'
<1> USE DEF IInv
<1>1. /\ check.left # {} /\ Current \in check.left /\ Current \in Channel /\ Current' = Current
      /\ \/ /\ check' = [check EXCEPT !.fed = fed_time_ms[Current]]
            /\ overdue' = IF Overdue(Current) THEN overdue \cup {Current} ELSE overdue
         \/ /\ check' = [check EXCEPT !.started = state[Current]]
            /\ check.started = "unread" /\ overdue' = overdue
      /\ UNCHANGED <<preemptive, time, fed_time_ms, state, expired_channels_count, outcome,
                     lastFed, due>>
  BY CurrentIsLeft DEF load_fed_time, load_state, Current, Types, ghosts
<1>2. /\ check'.running = check.running /\ check'.left = check.left
      /\ check'.time_since_boot_ms = check.time_since_boot_ms
      /\ check'.fed \in {check.fed, fed_time_ms[Current]}
      /\ check'.started \in {check.started, state[Current]}
  BY <1>1 DEF Types
<1>3. Types'
  BY <1>1 DEF Types
<1>4. TrueTimes' /\ AtRest'
  BY <1>1, <1>2 DEF TrueTimes, AtRest
<1>5. DueIsCaught'
  BY <1>1, <1>2 DEF DueIsCaught, CopyOf
<1>6. CountedIsOverdue'
  <2> SUFFICES ASSUME ~preemptive PROVE CountedIsOverdue'
    BY <1>1 DEF CountedIsOverdue
  <2>1. check'.running => check'.time_since_boot_ms = time'
    BY <1>1, <1>2 DEF CountedIsOverdue
  <2>2. CopyOf(Current)'
    BY <1>1, <1>2 DEF CountedIsOverdue, CopyOf
  <2>3. ASSUME check'.fed # Unread, Overdue(Current)' PROVE Current' \in overdue'
    <3>1. Overdue(Current)
      BY <1>1, <2>3 DEF Overdue
    <3> QED BY <1>1, <2>3, <3>1 DEF CountedIsOverdue, Types
  <2>4. expired_channels_count' > 0 => overdue' # {}
    BY <1>1 DEF CountedIsOverdue
  <2> QED BY <2>1, <2>2, <2>3, <2>4 DEF CountedIsOverdue
<1>7. NoFalseAlarm'
  BY <1>1 DEF NoFalseAlarm
<1> QED BY <1>3, <1>4, <1>5, <1>6, <1>7

\* The channel is dropped from those left: a due one is counted, and what is counted without
\* preemption is overdue.
LEMMA ChannelStep == ASSUME BelowWrap, IInv, check_channel PROVE IInv'
<1> USE DEF IInv
<1>1. /\ check.left # {} /\ Current \in check.left /\ Current \in Channel
      /\ check.fed # Unread /\ check.started # "unread"
      /\ expired_channels_count' = expired_channels_count + IF expired THEN 1 ELSE 0
      /\ check' = [check EXCEPT !.left = check.left \ {Current}, !.fed = Unread, !.started = "unread"]
      /\ check.running
      /\ UNCHANGED <<preemptive, time, fed_time_ms, state, outcome, lastFed, overdue, due>>
  BY CurrentIsLeft DEF check_channel, Types, ghosts, AtRest
<1>2. Types' /\ TrueTimes' /\ AtRest'
  <2>1. expired_channels_count' \in Nat
    BY <1>1 DEF Types
  <2> QED BY <1>1, <2>1 DEF Types, TrueTimes, AtRest
<1>3. /\ check'.running /\ check'.left = check.left \ {Current}
      /\ check'.time_since_boot_ms = check.time_since_boot_ms
      /\ check'.fed = Unread /\ check'.started = "unread"
  BY <1>1 DEF Types
<1>4. expired_channels_count' >= expired_channels_count
  BY <1>1 DEF Types
<1>5. Current \in due => expired_channels_count' > 0
  <2> SUFFICES ASSUME Current \in due PROVE expired
    BY <1>1 DEF Types
  <2>1. check.started = "Started" /\ check.fed = fed_time_ms[Current]
    BY <1>1 DEF DueIsCaught, CopyOf
  <2>2. check.time_since_boot_ms - check.fed > Timeout
    BY <1>1, <2>1 DEF DueIsCaught
  <2>3. check.fed \in 0..MaxTime /\ check.time_since_boot_ms \in 0..MaxTime
    BY <1>1 DEF Types
  <2>4. check.fed <= check.time_since_boot_ms
    BY <2>2, <2>3, TimeAssumption
  <2>5. (check.time_since_boot_ms - check.fed) % Wide = check.time_since_boot_ms - check.fed
    BY <2>3, <2>4, DifferenceIsKept
  <2> QED BY <2>1, <2>2, <2>5 DEF expired
<1>6. DueIsCaught'
  <2> SUFFICES ASSUME NEW c \in due
               PROVE  /\ state[c] = "Started"
                      /\ check.time_since_boot_ms - fed_time_ms[c] > Timeout
                      /\ c \in check.left \ {Current} \/ expired_channels_count' > 0
    BY <1>1, <1>3 DEF DueIsCaught, CopyOf
  <2>1. c \in check.left \/ expired_channels_count > 0
    BY <1>1 DEF DueIsCaught
  <2>2. c \in check.left \ {Current} \/ expired_channels_count' > 0
    BY <2>1, <1>2, <1>4, <1>5 DEF Types
  <2> QED BY <1>1, <2>2 DEF DueIsCaught
<1>7. CountedIsOverdue'
  <2> SUFFICES ASSUME ~preemptive, expired PROVE overdue # {}
    BY <1>1, <1>3 DEF CountedIsOverdue, CopyOf, Types
  <2>1. /\ state[Current] = "Started" /\ check.fed = fed_time_ms[Current]
        /\ check.time_since_boot_ms = time
    BY <1>1 DEF CountedIsOverdue, CopyOf, expired
  <2>2. check.fed \in 0..MaxTime /\ time \in 0..MaxTime /\ check.fed <= time
    BY <1>1, <2>1 DEF Types, TrueTimes
  <2>3. (time - check.fed) % Wide = time - check.fed
    BY <2>2, DifferenceIsKept
  <2>4. Overdue(Current)
    BY <2>1, <2>3 DEF expired, Overdue, TrueTimes
  <2> QED BY <1>1, <2>4 DEF CountedIsOverdue
<1>8. NoFalseAlarm'
  BY <1>1 DEF NoFalseAlarm
<1> QED BY <1>2, <1>6, <1>7, <1>8

LEMMA EndStep == ASSUME IInv, check_all PROVE IInv'
<1> USE DEF IInv
<1>1. /\ check.running /\ check' = NoCheck
      /\ outcome' = IF expired_channels_count > 0 THEN "panic" ELSE "refresh"
      /\ UNCHANGED <<preemptive, time, fed_time_ms, state, expired_channels_count, lastFed,
                     overdue, due>>
  BY DEF check_all, ghosts
<1>2. Types' /\ TrueTimes' /\ AtRest'
  BY <1>1, TimeAssumption DEF Types, TrueTimes, AtRest, NoCheck, Unread
<1>3. DueIsCaught' /\ CountedIsOverdue' /\ NoFalseAlarm'
  BY <1>1 DEF DueIsCaught, CountedIsOverdue, NoFalseAlarm, NoCheck
<1> QED BY <1>2, <1>3

LEMMA RebootStep == ASSUME IInv, reboot PROVE IInv'
<1> USE DEF IInv
<1>1. Types' /\ TrueTimes' /\ AtRest'
  BY TimeAssumption DEF reboot, Types, TrueTimes, AtRest
<1>2. DueIsCaught' /\ CountedIsOverdue' /\ NoFalseAlarm'
  BY DEF reboot, DueIsCaught, CountedIsOverdue, NoFalseAlarm, AtRest
<1> QED BY <1>1, <1>2

LEMMA NextKeeps == ASSUME BelowWrap, IInv, [Next]_vars PROVE IInv'
<1>1. CASE tick  BY <1>1, TickStep
<1>2. CASE do_check  BY <1>2, BeginStep
<1>3. CASE load_fed_time \/ load_state  BY <1>3, LoadStep
<1>4. CASE check_channel  BY <1>4, ChannelStep
<1>5. CASE check_all  BY <1>5, EndStep
<1>6. CASE reboot  BY <1>6, RebootStep
<1>7. ASSUME NEW c \in Channel, start(c) \/ start_state(c) \/ feed(c) \/ stop(c) PROVE IInv'
  BY <1>7, TaskStep
<1>8. CASE UNCHANGED vars
  BY <1>8 DEF vars, ghosts, IInv, Types, TrueTimes, AtRest, DueIsCaught, CountedIsOverdue,
              NoFalseAlarm, CopyOf, Overdue, Current
<1> QED BY <1>1, <1>2, <1>3, <1>4, <1>5, <1>6, <1>7, <1>8 DEF Next, CheckStep

-------------------------------------------------------------------------------
LEMMA Inductive == ASSUME BelowWrap PROVE Spec => []IInv
<1>1. Init => IInv
  BY InitHolds
<1>2. IInv /\ [Next]_vars => IInv'
  BY NextKeeps
<1> QED BY <1>1, <1>2, PTL DEF Spec

\* memfault_task_watchdog_check_all panics the device only for a channel that was started and
\* not fed for longer than the timeout, when no task preempts the check and the time has not
\* reached the wrap of its 32 bits.
THEOREM PanicIsJustified == ASSUME BelowWrap PROVE Spec => []NoFalseAlarm
<1>1. IInv => NoFalseAlarm
  BY DEF IInv
<1> QED BY <1>1, Inductive, PTL

\* A check that a task preempts anywhere still does not refresh the hardware watchdog when a
\* channel was overdue before it began and was neither fed nor stopped before it ended.
THEOREM OverdueIsCaught == ASSUME BelowWrap PROVE Spec => NeverMissed
<1>1. IInv /\ [Next]_vars =>
        [(check.running /\ ~check'.running /\ outcome' = "refresh") => due = {}]_vars
  <2> SUFFICES ASSUME IInv, Next, check.running, ~check'.running, outcome' = "refresh"
               PROVE  due = {}
    OBVIOUS
  <2>1. check_all
    <3>1. Next => check' = check \/ check'.running = check.running \/ check'.running \/ check_all
      BY DEF Next, CheckStep, tick, do_check, load_fed_time, load_state, check_channel, reboot,
             start, start_state, feed, stop, NoCheck, IInv, Types
    <3> QED BY <3>1
  <2>2. check.left = {} /\ ~(expired_channels_count > 0)
    BY <2>1 DEF check_all
  <2> QED BY <2>2 DEF IInv, DueIsCaught
<1> QED BY <1>1, Inductive, PTL DEF Spec, NeverMissed

===============================================================================

----------------------------- MODULE MetricsProofs -----------------------------
EXTENDS Metrics, TLAPS

\* The 31 bits of a timer and the 32 of a value: a timer may run for as long as it can
\* tell between two updates twice over before its value wraps.
TwiceTheTimer == UINT32 >= 2 * TIMER_MAX

-------------------------------------------------------------------------------
(* Arithmetic of the widths                                                     *)

LEMMA Widths ==
  /\ TIMER_MAX \in Nat \ {0} /\ UINT32 \in Nat \ {0} /\ HOUR \in Nat \ {0}
  /\ TIMER_MAX < UINT32
  BY WidthAssumption

LEMMA ModOfSum ==
  ASSUME NEW w \in Nat \ {0}, NEW q \in Int, NEW r \in 0..(w - 1)
  PROVE  (w*q + r) % w = r
  OBVIOUS

LEMMA ModRange ==
  ASSUME NEW w \in Nat \ {0}, NEW n \in Int
  PROVE  n % w \in 0..(w - 1) /\ n = w * (n \div w) + (n % w)
  OBVIOUS

LEMMA ModSmall ==
  ASSUME NEW w \in Nat \ {0}, NEW n \in 0..(w - 1)
  PROVE  n % w = n
<1>1. (w*0 + n) % w = n
  BY ModOfSum
<1> QED
  BY <1>1

LEMMA ModUp ==
  ASSUME NEW w \in Nat \ {0}, NEW n \in w..(2*w - 1)
  PROVE  n % w = n - w
<1>1. (w*1 + (n - w)) % w = n - w
  BY ModOfSum
<1> QED
  BY <1>1

LEMMA ModDown ==
  ASSUME NEW w \in Nat \ {0}, NEW n \in (-w)..(-1)
  PROVE  n % w = n + w
<1>1. (w*(-1) + (n + w)) % w = n + w
  BY ModOfSum
<1> QED
  BY <1>1

LEMMA ModNext ==
  ASSUME NEW w \in Nat \ {0}, NEW n \in Nat
  PROVE  (n + 1) % w = IF n % w = w - 1 THEN 0 ELSE (n % w) + 1
<1> DEFINE q == n \div w
           r == n % w
<1>1. q \in Int /\ r \in 0..(w - 1) /\ n = w*q + r
  BY ModRange
<1> HIDE DEF q, r
<1>2. CASE r = w - 1
  <2>1. n + 1 = w*(q + 1) + 0
    BY <1>1, <1>2
  <2>2. (w*(q + 1) + 0) % w = 0
    BY <1>1, ModOfSum
  <2> QED
    BY <1>2, <2>1, <2>2 DEF r
<1>3. CASE r # w - 1
  <2>1. n + 1 = w*q + (r + 1) /\ r + 1 \in 0..(w - 1)
    BY <1>1, <1>3
  <2>2. (w*q + (r + 1)) % w = r + 1
    BY <1>1, <2>1, ModOfSum
  <2> QED
    BY <1>3, <2>1, <2>2 DEF r
<1> QED
  BY <1>2, <1>3

\* The time between two readings of a clock that rolls over.
Since(w, from, to) == IF to >= from THEN to - from ELSE w - from + to

LEMMA SinceNext ==
  ASSUME NEW w \in Nat \ {0}, NEW from \in 0..(w - 1), NEW n \in Nat
  PROVE  /\ Since(w, from, n % w) \in 0..(w - 1)
         /\ Since(w, n % w, n % w) = 0
         /\ Since(w, from, n % w) < w - 1 =>
              Since(w, from, (n + 1) % w) = Since(w, from, n % w) + 1
<1> DEFINE a == n % w
           b == (n + 1) % w
<1>1. a \in 0..(w - 1)
  BY ModRange
<1>2. b = IF a = w - 1 THEN 0 ELSE a + 1
  BY ModNext
<1> HIDE DEF a, b
<1>3. Since(w, from, a) \in 0..(w - 1) /\ Since(w, a, a) = 0
  BY <1>1 DEF Since
<1>4. Since(w, from, a) < w - 1 => Since(w, from, b) = Since(w, from, a) + 1
  BY <1>1, <1>2 DEF Since
<1> QED
  BY <1>3, <1>4 DEF a, b

LEMMA ElapsedIsSince ==
  ASSUME NEW from \in Nat, NEW to \in Nat
  PROVE  elapsed(from, to) = Since(TIMER_MAX, from, to)
  BY DEF elapsed, Since

LEMMA IntervalIsSince ==
  ASSUME NEW from \in 0..(UINT32 - 1), NEW to \in 0..(UINT32 - 1)
  PROVE  (to - from) % UINT32 = Since(UINT32, from, to)
<1>1. CASE to >= from
  BY <1>1, Widths, ModSmall DEF Since
<1>2. CASE to < from
  BY <1>2, Widths, ModDown DEF Since
<1> QED
  BY <1>1, <1>2

\* The sum that wraps and is clipped is the sum, clipped.
LEMMA ClippedIsClamp ==
  ASSUME NEW v \in 0..(UINT32 - 1), NEW amount \in (1 - UINT32)..(UINT32 - 1)
  PROVE  clipped(v, amount) = Clamp(v + amount)
<1>1. CASE v + amount \in 0..(UINT32 - 1)
  <2>1. (v + amount) % UINT32 = v + amount
    BY <1>1, Widths, ModSmall
  <2> QED
    BY <1>1, <2>1, Widths DEF clipped, Clamp
<1>2. CASE v + amount >= UINT32
  <2>1. (v + amount) % UINT32 = v + amount - UINT32
    BY <1>2, Widths, ModUp
  <2> QED
    BY <1>2, <2>1, Widths DEF clipped, Clamp
<1>3. CASE v + amount < 0
  <2>1. (v + amount) % UINT32 = v + amount + UINT32
    BY <1>3, Widths, ModDown
  <2> QED
    BY <1>3, <2>1, Widths DEF clipped, Clamp
<1> QED
  BY <1>1, <1>2, <1>3, Widths

LEMMA ClippedRange ==
  ASSUME NEW v \in 0..(UINT32 - 1), NEW amount \in Int
  PROVE  clipped(v, amount) \in 0..(UINT32 - 1)
<1>1. (v + amount) % UINT32 \in 0..(UINT32 - 1)
  BY Widths, ModRange
<1> QED
  BY <1>1, Widths DEF clipped

-------------------------------------------------------------------------------
(* The context and the operations on it                                         *)
Value == 0..(UINT32 - 1)
Time == 0..(TIMER_MAX - 1)
Reliability == [last_heartbeat_ms : Value, operational_ms : Nat, counted : BOOLEAN]
Context == [values : [Key -> Value], is_set : SUBSET Key, running : SUBSET Timer,
            start_time_ms : [Timer -> Time], last_log : Value, reliability_ctx : Reliability]

LEMMA Keys ==
  /\ Timer \subseteq Key
  /\ \A g \in Group : IntervalMs(g) \in Timer /\ <<g, "count">> \in Key \ Timer
  /\ \A g \in Session : <<g, "operational_crashes">> \in Key \ Timer
  /\ \A name \in HeartbeatTimer : Heartbeat(name) \in Timer
  /\ \A name \in HeartbeatNumber : Heartbeat(name) \in Key \ Timer
  /\ \A k \in Key : k[1] \in Group /\ k = <<k[1], k[2]>>
  BY DEF Key, Timer, Group, IntervalMs, Heartbeat, HeartbeatTimer, HeartbeatNumber

LEMMA ElapsedRange ==
  ASSUME NEW from \in Time, NEW to \in Time
  PROVE  elapsed(from, to) \in Time
  BY Widths DEF elapsed, Time

LEMMA NoContextTyped == NoReliability \in Reliability /\ NoContext \in Context
  BY Widths DEF NoContext, NoReliability, Context, Reliability, Value, Time, Zero

LEMMA AddTyped ==
  ASSUME NEW c \in Context, NEW k \in Key, NEW amount \in Int
  PROVE  /\ add(c, k, amount) \in Context
         /\ \A j \in Key : add(c, k, amount).values[j] = IF j = k THEN clipped(c.values[k], amount) ELSE c.values[j]
         /\ add(c, k, amount).running = c.running
         /\ add(c, k, amount).start_time_ms = c.start_time_ms
         /\ add(c, k, amount).is_set = c.is_set \cup {k}
         /\ add(c, k, amount).last_log = c.last_log
         /\ add(c, k, amount).reliability_ctx = c.reliability_ctx
<1>1. clipped(c.values[k], amount) \in Value
  BY ClippedRange DEF Context, Value
<1> QED
  BY <1>1 DEF add, Context

LEMMA AddValue ==
  ASSUME NEW c \in Context, NEW k \in Key, NEW amount \in Int
  PROVE  /\ add(c, k, amount).values[k] = clipped(c.values[k], amount)
         /\ \A j \in Key : j # k => add(c, k, amount).values[j] = c.values[j]
  BY AddTyped

LEMMA SetTyped ==
  ASSUME NEW c \in Context, NEW k \in Key, NEW v \in Value
  PROVE  /\ set_unsigned(c, k, v) \in Context
         /\ \A j \in Key : set_unsigned(c, k, v).values[j] = IF j = k THEN v ELSE c.values[j]
         /\ set_unsigned(c, k, v).running = c.running
         /\ set_unsigned(c, k, v).start_time_ms = c.start_time_ms
         /\ set_unsigned(c, k, v).is_set = c.is_set \cup {k}
         /\ set_unsigned(c, k, v).last_log = c.last_log
         /\ set_unsigned(c, k, v).reliability_ctx = c.reliability_ctx
  BY DEF set_unsigned, Context

LEMMA ResetTyped ==
  ASSUME NEW c \in Context, NEW g \in Group
  PROVE  /\ reset_metrics(c, g) \in Context
         /\ \A j \in Key : reset_metrics(c, g).values[j] = IF j[1] = g THEN 0 ELSE c.values[j]
         /\ reset_metrics(c, g).running = c.running
         /\ reset_metrics(c, g).start_time_ms = c.start_time_ms
         /\ reset_metrics(c, g).is_set = {k \in c.is_set : k[1] # g}
         /\ reset_metrics(c, g).last_log = c.last_log
         /\ reset_metrics(c, g).reliability_ctx = c.reliability_ctx
<1> DEFINE v == [k \in Key |-> IF k[1] = g THEN 0 ELSE c.values[k]]
           i == {k \in c.is_set : k[1] # g}
<1>1. reset_metrics(c, g) = [c EXCEPT !.values = v, !.is_set = i]
  BY DEF reset_metrics, Context
<1>2. v \in [Key -> Value] /\ i \subseteq Key
  BY Widths DEF Context, Value
<1>3. \A j \in Key : v[j] = IF j[1] = g THEN 0 ELSE c.values[j]
  OBVIOUS
<1> HIDE DEF v
<1> QED
  BY <1>1, <1>2, <1>3 DEF Context

LEMMA NowInTime ==
  ASSUME now \in Nat
  PROVE  now % TIMER_MAX \in Time /\ now % UINT32 \in Value
  BY Widths, ModRange DEF Time, Value

LEMMA StartTyped ==
  ASSUME now \in Nat, NEW c \in Context, NEW k \in Timer
  PROVE  /\ timer_start(c, k) \in Context
         /\ timer_start(c, k).values = c.values
         /\ timer_start(c, k).running = c.running \cup {k}
         /\ \A j \in Timer : timer_start(c, k).start_time_ms[j] =
              IF j = k /\ k \notin c.running THEN now % TIMER_MAX ELSE c.start_time_ms[j]
         /\ timer_start(c, k).is_set = c.is_set
         /\ timer_start(c, k).last_log = c.last_log
         /\ timer_start(c, k).reliability_ctx = c.reliability_ctx
  BY NowInTime DEF timer_start, Context

\* What the metric of a running timer would hold if it were updated now.
Updated(c, k) == IF k \in c.running
                 THEN (c.values[k] + elapsed(c.start_time_ms[k], now % TIMER_MAX)) % UINT32
                 ELSE c.values[k]

LEMMA UpdatedTyped ==
  ASSUME now \in Nat, NEW c \in Context, NEW k \in Timer
  PROVE  Updated(c, k) \in Value
<1>1. elapsed(c.start_time_ms[k], now % TIMER_MAX) \in Time
  BY NowInTime, ElapsedRange DEF Context
<1>2. c.values[k] \in Value
  BY Keys DEF Context
<1>3. c.values[k] + elapsed(c.start_time_ms[k], now % TIMER_MAX) \in Int
  BY <1>1, <1>2, Widths DEF Value, Time
<1> QED
  BY <1>2, <1>3, Widths, ModRange DEF Updated, Value

LEMMA UpdateTyped ==
  ASSUME now \in Nat, NEW c \in Context, NEW k \in Timer
  PROVE  /\ timer_update(c, k) \in Context
         /\ \A j \in Key : timer_update(c, k).values[j] = IF j = k THEN Updated(c, k) ELSE c.values[j]
         /\ timer_update(c, k).running = c.running
         /\ \A j \in Timer : timer_update(c, k).start_time_ms[j] =
              IF j = k /\ k \in c.running THEN now % TIMER_MAX ELSE c.start_time_ms[j]
         /\ timer_update(c, k).is_set = c.is_set
         /\ timer_update(c, k).last_log = c.last_log
         /\ timer_update(c, k).reliability_ctx = c.reliability_ctx
<1> DEFINE v == [c.values EXCEPT ![k] = Updated(c, k)]
           s == [c.start_time_ms EXCEPT ![k] = now % TIMER_MAX]
<1>1. CASE k \notin c.running
  BY <1>1 DEF timer_update, Updated, Context
<1>2. CASE k \in c.running
  <2>1. timer_update(c, k) = [c EXCEPT !.values = v, !.start_time_ms = s]
    BY <1>2 DEF timer_update, Updated
  <2>2. Updated(c, k) \in Value /\ now % TIMER_MAX \in Time
    BY UpdatedTyped, NowInTime
  <2>3. /\ v \in [Key -> Value] /\ s \in [Timer -> Time]
        /\ \A j \in Key : v[j] = IF j = k THEN Updated(c, k) ELSE c.values[j]
        /\ \A j \in Timer : s[j] = IF j = k THEN now % TIMER_MAX ELSE c.start_time_ms[j]
    BY <2>2 DEF Context
  <2> HIDE DEF v, s
  <2> QED
    BY <1>2, <2>1, <2>3 DEF Context
<1> QED
  BY <1>1, <1>2

LEMMA StopTyped ==
  ASSUME now \in Nat, NEW c \in Context, NEW k \in Timer
  PROVE  /\ timer_stop(c, k) \in Context
         /\ \A j \in Key : timer_stop(c, k).values[j] = IF j = k THEN Updated(c, k) ELSE c.values[j]
         /\ timer_stop(c, k).running = c.running \ {k}
         /\ \A j \in Timer : j # k => timer_stop(c, k).start_time_ms[j] = c.start_time_ms[j]
         /\ timer_stop(c, k).is_set = c.is_set
         /\ timer_stop(c, k).last_log = c.last_log
         /\ timer_stop(c, k).reliability_ctx = c.reliability_ctx
<1>1. CASE k \notin c.running
  BY <1>1 DEF timer_stop, Updated, Context
<1>2. CASE k \in c.running
  <2> DEFINE u == timer_update(c, k)
           s == [u.start_time_ms EXCEPT ![k] = 0]
  <2>1. /\ u \in Context
        /\ \A j \in Key : u.values[j] = IF j = k THEN Updated(c, k) ELSE c.values[j]
        /\ u.running = c.running
        /\ \A j \in Timer : j # k => u.start_time_ms[j] = c.start_time_ms[j]
        /\ u.is_set = c.is_set /\ u.last_log = c.last_log /\ u.reliability_ctx = c.reliability_ctx
    BY UpdateTyped
  <2>2. timer_stop(c, k) = [u EXCEPT !.running = @ \ {k}, !.start_time_ms = s]
    BY <1>2 DEF timer_stop
  <2> HIDE DEF u
  <2>3. s \in [Timer -> Time] /\ \A j \in Timer : j # k => s[j] = c.start_time_ms[j]
    BY <2>1, Widths DEF Time, Context
  <2> HIDE DEF s
  <2> QED
    BY <2>1, <2>2, <2>3 DEF Context
<1> QED
  BY <1>1, <1>2

-------------------------------------------------------------------------------
(* The state the program can be in                                              *)
Truth == [added : [Group -> Int], late : Int, uptime : Nat, lines : Nat, ran : [Timer -> Nat],
          since : [Session -> Nat], began : Nat, beat : Nat, apart : Int, open : SUBSET Session, owed : SUBSET Session,
          crashed : BOOLEAN]
Power == [charging : BOOLEAN, charged : BOOLEAN, before : BOOLEAN, raced : BOOLEAN,
          was_raced : BOOLEAN]
Step == {"boot", "check", "battery_boot", "idle", "tally", "print", "collect", "battery_cache", "battery_sample",
         "battery_store", "collect_logs", "collect_data", "encode", "reset", "sleep", "asleep"}
Charge == {Invalid, 0, 1}
Task == [pc : Step, then : {"encode", "sleep"}, timers : SUBSET Timer, left : SUBSET Session,
         stopped : BOOLEAN,
         discharging : BOOLEAN, soc : Charge]
Battery == [last_state_of_charge : Charge, stopped : BOOLEAN]
Call == {"start", "stop"} \X {Heartbeat("connected"), Heartbeat("expected")}

Typed ==
  /\ build \in Builds /\ now \in Nat
  /\ ctx \in Context /\ reliability \in Reliability
  /\ battery \in Battery /\ hb \in Task /\ power \in Power
  /\ net \in [Net -> Seq(Call)]
  /\ active_sessions \subseteq Session /\ unexpected \in BOOLEAN
  /\ log_recorded \in Value
  /\ serialized \in [Summed -> Nat]
  /\ truth \in Truth
  /\ adds \in Nat /\ logs \in Nat /\ resets \in Nat

LEMMA Small == {0, 1} \subseteq Value
  BY Widths DEF Value

LEMMA BuildTyped ==
  ASSUME NEW b \in Builds
  PROVE  /\ b \in Build
         /\ b.amounts \subseteq Int /\ b.sessions \subseteq Session /\ b.connectivity \subseteq Net
         /\ b.preemptive => b.sessions = {} /\ b.connectivity = {}
  BY BuildAssumption DEF Build

LEMMA NoTruthTyped == NoTruth \in Truth
  BY DEF NoTruth, Truth, Zero

LEMMA InitTyped == Init => Typed
<1> SUFFICES ASSUME Init PROVE Typed
  OBVIOUS
<1> USE DEF Init
<1>1. NoBattery \in Battery /\ NoPower \in Power
  BY DEF NoBattery, Battery, Charge, NoPower, Power
<1>2. At("boot") \in Task
  BY DEF At, Task, Step, Charge
<1>3. NoTruth \in Truth
  BY NoTruthTyped
<1>4. net \in [Net -> Seq(Call)]
  OBVIOUS
<1>5. serialized \in [Summed -> Nat] /\ log_recorded \in Value
  BY Small DEF Zero
<1> QED
  BY <1>1, <1>2, <1>3, <1>4, <1>5, NoContextTyped DEF Typed

\* What reliability_collect computes.
Interval == ((now % UINT32) - reliability.last_heartbeat_ms) % UINT32
Worked == reliability.operational_ms + Interval
LEMMA WorkedTyped ==
  ASSUME Typed
  PROVE  /\ Interval \in Value /\ Worked \in Nat /\ Worked \div HOUR \in Nat
         /\ Worked - (Worked \div HOUR) * HOUR \in 0..(HOUR - 1)
<1>1. reliability.last_heartbeat_ms \in Int /\ reliability.operational_ms \in Nat
  BY Widths DEF Typed, Reliability, Value
<1>2. now % UINT32 \in Int
  BY NowInTime, Widths DEF Typed, Value
<1>3. Interval \in Value
  <2> DEFINE a == now % UINT32
             d == a - reliability.last_heartbeat_ms
  <2>1. d \in Int
    BY <1>1, <1>2
  <2> HIDE DEF d
  <2>2. d % UINT32 \in 0..(UINT32 - 1)
    BY <2>1, Widths, ModRange
  <2> QED
    BY <2>2 DEF Interval, Value, d
<1>4. Worked \in Nat
  BY <1>1, <1>3, Widths DEF Worked, Value
<1>5. Worked % HOUR \in 0..(HOUR - 1) /\ Worked = HOUR * (Worked \div HOUR) + (Worked % HOUR)
  BY <1>4, Widths, ModRange
<1>6. Worked \div HOUR \in Nat
  BY <1>4, Widths
<1> QED
  BY <1>3, <1>4, <1>5, <1>6, Widths

LEMMA ContextTyped ==
  ASSUME Typed, Next
  PROVE  ctx' \in Context
<1> USE DEF Typed
<1>1. now \in Nat /\ ctx \in Context /\ build \in Builds
  OBVIOUS
<1>2. CASE UNCHANGED ctx
  BY <1>2
<1>3. CASE Boot
  <2>1. ASSUME boot PROVE ctx' \in Context
    <3>1. timer_start(NoContext, IntervalMs("heartbeat")) \in Context
      BY StartTyped, Keys, NoContextTyped DEF Group
    <3>2. Heartbeat("unexpected_reboots") \in Key
      BY Keys DEF HeartbeatNumber
    <3> QED
      BY <2>1, <3>1, <3>2, SetTyped, Small DEF boot
  <2>2. ASSUME NEW g \in Session, check_session(g) PROVE ctx' \in Context
    <3>1. reset_metrics(ctx, g) \in Context /\ <<g, "operational_crashes">> \in Key
      BY ResetTyped, Keys DEF Group
    <3>2. add(reset_metrics(ctx, g), <<g, "operational_crashes">>, 1) \in Context
      BY <3>1, AddTyped
    <3> QED
      BY <2>2, <3>2 DEF check_session
  <2> QED
    BY <1>3, <2>1, <2>2 DEF Boot, end_boot, battery_boot
<1>4. CASE Application
  <2>1. ASSUME NEW g \in Group, NEW amount \in build.amounts, heartbeat_add(g, amount)
        PROVE  ctx' \in Context
    BY <1>1, <2>1, AddTyped, Keys, BuildTyped DEF heartbeat_add
  <2>2. ASSUME NEW k \in Timer, timer_read(k) PROVE ctx' \in Context
    BY <2>2, UpdateTyped DEF timer_read
  <2>3. ASSUME NEW g \in Session, session_start(g) PROVE ctx' \in Context
    BY <2>3, StartTyped, ResetTyped, Keys DEF session_start, Group
  <2>4. ASSUME NEW g \in Session, session_end(g) PROVE ctx' \in Context
    BY <2>4, StopTyped, Keys DEF session_end, Group
  <2>5. ASSUME NEW g \in Session, session_reset(g) PROVE ctx' \in Context
    BY <2>5, StopTyped, ResetTyped, Keys DEF session_reset, Group
  <2>6. ASSUME NEW t \in Net, timer_call(t) PROVE ctx' \in Context
    <3>1. Head(net[t]) \in Call
      BY <2>6 DEF timer_call
    <3>2. Head(net[t])[2] \in Timer
      BY <3>1, Keys DEF Call, HeartbeatTimer
    <3> QED
      BY <2>6, <3>2, StartTyped, StopTyped DEF timer_call
  <2> QED
    BY <1>4, <2>1, <2>2, <2>3, <2>4, <2>5, <2>6 DEF Application, connected_state_change
<1>5. CASE Device
  BY <1>5, NoContextTyped DEF Device, Tick, stopped_discharging, Unplug, Log, Reset
<1>6. CASE Heart
  <2>1. ASSUME reliability_collect PROVE ctx' \in Context
    <3>1. Worked \div HOUR \in Nat
      BY WorkedTyped
    <3>2. Heartbeat("hours") \in Key /\ Heartbeat("crashfree_hours") \in Key
      BY Keys DEF HeartbeatNumber
    <3> DEFINE hours == Worked \div HOUR
               crash == IF ~reliability.counted /\ unexpected THEN 1 ELSE 0
    <3>3. ctx' = ctx \/ ctx' = add(add(ctx, Heartbeat("hours"), hours),
                                   Heartbeat("crashfree_hours"), hours - crash)
      BY <2>1 DEF reliability_collect, Worked, Interval
    <3>4. hours \in Int /\ hours - crash \in Int
      BY <3>1
    <3> HIDE DEF hours, crash
    <3> QED
      BY <3>2, <3>3, <3>4, AddTyped
  <2>2. ASSUME battery_store PROVE ctx' \in Context
    <3> DEFINE drop == battery.last_state_of_charge - hb.soc
    <3>1. battery.last_state_of_charge >= 0 /\ hb.soc >= 0 /\ drop >= 0 => drop \in Value
      BY Small DEF Battery, Task, Charge, Invalid
    <3>2. Heartbeat("soc_drop") \in Key
      BY Keys DEF HeartbeatNumber
    <3> QED
      BY <2>2, <3>1, <3>2, SetTyped DEF battery_store
  <2>3. ASSUME collect_logs PROVE ctx' \in Context
    <3> DEFINE delta == (log_recorded - ctx.last_log) % UINT32
               amount == IF delta < UINT32 \div 2 THEN delta ELSE delta - UINT32
    <3>1. delta \in Int
      BY Widths, ModRange DEF Context, Value
    <3> HIDE DEF delta
    <3>2. amount \in Int
      BY <3>1, Widths
    <3> HIDE DEF amount
    <3>3. add(ctx, Heartbeat("log_lines"), amount) \in Context
      BY <3>2, AddTyped, Keys DEF HeartbeatNumber
    <3>4. ctx' = ctx \/ ctx' = [add(ctx, Heartbeat("log_lines"), amount) EXCEPT !.last_log = log_recorded]
      BY <2>3 DEF collect_logs, amount, delta
    <3> HIDE DEF Typed
    <3>5. log_recorded \in Value /\ ctx \in Context
      BY DEF Typed
    <3> QED
      BY <3>3, <3>4, <3>5 DEF Context
  <2>4. ASSUME NEW prints \in BOOLEAN, collect_data(prints) PROVE ctx' \in Context
    BY <2>4 DEF collect_data
  <2>5. ASSUME tally PROVE ctx' \in Context
    <3>1. hb.timers \subseteq Timer
      BY DEF Task
    <3> QED
      BY <2>5, <3>1, UpdateTyped DEF tally
  <2>6. ASSUME reset PROVE ctx' \in Context
    BY <2>6, ResetTyped DEF reset, Group
  <2>7. ASSUME enter_sleep PROVE ctx' \in Context
    BY <2>7 DEF enter_sleep, Context
  <2> QED
    BY <1>6, <2>1, <2>2, <2>3, <2>4, <2>5, <2>6, <2>7
    DEF Heart, heartbeat_timer, tallied, printed, heartbeat_collect, battery_cache, battery_sample, encode,
    wake
<1> QED
  BY <1>3, <1>4, <1>5, <1>6 DEF Next

LEMMA AtTyped ==
  ASSUME NEW pc \in Step
  PROVE  /\ At(pc) \in Task /\ At(pc).pc = pc /\ At(pc).then = "encode" /\ At(pc).left = {}
         /\ \A S \in SUBSET Session : [At(pc) EXCEPT !.left = S] \in Task
         /\ \A S \in SUBSET Session : [At(pc) EXCEPT !.left = S].pc = pc
  BY DEF At, Task, Charge

LEMMA TaskTyped ==
  ASSUME Typed, Next
  PROVE  hb' \in Task
<1> USE DEF Typed
<1>1. hb \in Task
  OBVIOUS
<1>2. ASSUME NEW pc \in Step PROVE [hb EXCEPT !.pc = pc] \in Task
  BY DEF Task
<1>3. {"tally", "print", "collect", "battery_cache", "battery_sample", "battery_store", "collect_logs", "collect_data",
       "encode", "reset", "asleep", "idle", "boot", "check", "battery_boot", "sleep"} \subseteq Step
  BY DEF Step
<1>4. CASE Heart
  <2>1. ASSUME tallied \/ reliability_collect \/ battery_store \/ collect_logs \/ encode
        PROVE  hb' \in Task
    BY <1>2, <1>3, <2>1 DEF tallied, reliability_collect, battery_store, collect_logs, encode, Goes
  <2>7. hb.then \in Step /\ ctx.running \in SUBSET Timer
    BY <1>3 DEF Task, Context
  <2>8. ASSUME NEW pc \in Step, Tallies(ctx, pc) PROVE hb' \in Task
    BY <1>1, <2>7, <2>8 DEF Tallies, Task
  <2>2. ASSUME NEW prints \in BOOLEAN, collect_data(prints) PROVE hb' \in Task
    BY <1>2, <1>3, <2>2, <2>7, <2>8 DEF collect_data, Goes
  <2>9. ASSUME heartbeat_timer \/ printed PROVE hb' \in Task
    BY <1>2, <1>3, <2>7, <2>8, <2>9 DEF heartbeat_timer, printed, Goes
  <2>10. ASSUME tally PROVE hb' \in Task
    <3>1. PICK k \in hb.timers : hb' = [hb EXCEPT !.timers = @ \ {k}]
      BY <2>10 DEF tally
    <3> QED
      BY <1>1, <3>1 DEF Task
  <2>3. ASSUME heartbeat_collect PROVE hb' \in Task
    BY <1>1, <2>3, <1>3 DEF heartbeat_collect, Task
  <2>4. ASSUME battery_cache PROVE hb' \in Task
    BY <1>1, <2>4, <1>3 DEF battery_cache, Task, Battery
  <2>5. ASSUME battery_sample PROVE hb' \in Task
    BY <1>1, <2>5, <1>3 DEF battery_sample, Task, Charge
  <2>6. ASSUME reset \/ enter_sleep \/ wake PROVE hb' \in Task
    BY <2>6, <1>3, AtTyped DEF reset, enter_sleep, wake
  <2> QED
    BY <1>4, <2>1, <2>2, <2>3, <2>4, <2>5, <2>6, <2>9, <2>10 DEF Heart
<1>5. CASE Boot
  <2>1. ASSUME boot PROVE hb' \in Task
    <3>1. build.sessions \in SUBSET Session
      BY BuildTyped
    <3> QED
      BY <2>1, <3>1, <1>3, AtTyped DEF boot
  <2>2. ASSUME NEW g \in Session, check_session(g) PROVE hb' \in Task
    BY <1>1, <2>2 DEF check_session, Task
  <2>3. ASSUME end_boot \/ battery_boot PROVE hb' \in Task
    BY <2>3, <1>3, AtTyped DEF end_boot, battery_boot
  <2> QED
    BY <1>5, <2>1, <2>2, <2>3 DEF Boot
<1>6. CASE Application
  <2>1. hb' = hb
    BY <1>6, Zenon DEF Application, heartbeat_add, timer_read, session_start, session_end, session_reset,
       connected_state_change, timer_call, unmoved
  <2> QED
    BY <1>1, <2>1
<1>7. CASE Device
  <2>1. ASSUME NEW crash \in BOOLEAN, Reset(crash) PROVE hb' \in Task
    BY <2>1, <1>3, AtTyped DEF Reset
  <2>2. ASSUME Tick \/ stopped_discharging \/ Unplug \/ Log PROVE hb' = hb
    BY <2>2 DEF Tick, stopped_discharging, Unplug, Log
  <2> QED
    BY <1>1, <1>7, <2>1, <2>2 DEF Device
<1> QED
  BY <1>4, <1>5, <1>6, <1>7 DEF Next

LEMMA TruthTyped ==
  ASSUME Typed, Next
  PROVE  truth' \in Truth
<1>1. truth \in Truth /\ now \in Nat /\ ctx \in Context /\ build \in Builds
  BY DEF Typed
<1>2. CASE Heart
  <2>1. ASSUME heartbeat_timer \/ tallied PROVE truth' \in Truth
    BY <1>1, <2>1 DEF heartbeat_timer, tallied, Truth
  <2>2. ASSUME encode PROVE truth' \in Truth
    <3>1. Heartbeat("connected") \in Timer /\ Heartbeat("expected") \in Timer
      BY Keys DEF HeartbeatTimer
    <3>2. Uncounted("connected") \in Int /\ Uncounted("expected") \in Int
      <4>1. now % TIMER_MAX \in Time /\ Time \subseteq Int
        BY <1>1, NowInTime, Widths DEF Time
      <4>2. ASSUME NEW k \in Timer PROVE elapsed(ctx.start_time_ms[k], now % TIMER_MAX) \in Int
        <5>1. ctx.start_time_ms[k] \in Time
          BY <1>1 DEF Context
        <5> QED
          BY <4>1, <5>1, ElapsedRange
      <4> QED
        BY <3>1, <4>2 DEF Uncounted
    <3> DEFINE apart == Uncounted("connected") - Uncounted("expected")
    <3>3. apart \in Int
      BY <3>2
    <3>4. truth' = [truth EXCEPT !.apart = apart]
      BY <2>2 DEF encode
    <3> HIDE DEF apart
    <3> QED
      BY <1>1, <3>3, <3>4 DEF Truth
  <2>3. ASSUME ~heartbeat_timer, ~tallied, ~encode PROVE truth' = truth
    BY <1>2, <2>3, Zenon DEF Heart, tally, printed, heartbeat_collect, reliability_collect,
       battery_cache, battery_sample, battery_store, collect_logs, collect_data, reset, enter_sleep,
       wake, history
  <2> QED
    BY <1>1, <2>1, <2>2, <2>3
<1>3. CASE Boot
  <2>1. ASSUME boot PROVE truth' \in Truth
    BY <1>1, <2>1 DEF boot, Truth
  <2>2. ASSUME NEW g \in Session, check_session(g) PROVE truth' \in Truth
    BY <1>1, <2>2 DEF check_session, Truth
  <2>3. ASSUME end_boot PROVE truth' \in Truth
    BY <1>1, <2>3 DEF end_boot, Truth
  <2>4. ASSUME battery_boot PROVE truth' \in Truth
    BY <1>1, <2>4 DEF battery_boot
  <2> QED
    BY <1>3, <2>1, <2>2, <2>3, <2>4 DEF Boot
<1>4. CASE Application
  <2>1. ASSUME NEW g \in Group, NEW amount \in build.amounts, heartbeat_add(g, amount)
        PROVE  truth' \in Truth
    <3> DEFINE gain == Clamp(ctx.values[<<g, "count">>] + amount) - ctx.values[<<g, "count">>]
    <3>1. amount \in Int
      BY <1>1, BuildTyped
    <3>2. ctx.values[<<g, "count">>] \in Int
      BY <1>1, Keys, Widths DEF Context, Value
    <3>3. gain \in Int
      BY <3>1, <3>2, Widths DEF Clamp
    <3> HIDE DEF gain
    <3> DEFINE a == [truth.added EXCEPT ![g] = @ + gain]
               l == IF g = "heartbeat" /\ hb.pc = "reset" THEN truth.late + gain ELSE truth.late
    <3>4. truth' = [truth EXCEPT !.added = a, !.late = l]
      BY <2>1 DEF heartbeat_add, gain
    <3>5. a \in [Group -> Int] /\ l \in Int
      BY <1>1, <3>3 DEF Truth
    <3> HIDE DEF a, l
    <3> QED
      BY <1>1, <3>4, <3>5 DEF Truth
  <2>2. ASSUME NEW g \in Session, session_start(g) PROVE truth' \in Truth
    <3> DEFINE a == [truth.added EXCEPT ![g] = 0]
               s == [truth.since EXCEPT ![g] = 0]
               r == [truth.ran EXCEPT ![IntervalMs(g)] = IF g \in truth.open THEN @ ELSE 0]
    <3>1. a \in [Group -> Int]
      <4>1. truth.added \in [Group -> Int]
        BY <1>1 DEF Truth
      <4>2. g \in Group
        BY DEF Group
      <4> QED
        BY <4>1, <4>2
    <3>3. s \in [Session -> Nat]
      BY <1>1 DEF Truth
    <3>4. r \in [Timer -> Nat]
      <4>1. truth.ran \in [Timer -> Nat]
        BY <1>1 DEF Truth
      <4> QED
        BY <4>1
    <3>2. truth' = [truth EXCEPT !.open = @ \cup {g}, !.added = a, !.since = s, !.ran = r]
      BY <2>2 DEF session_start
    <3> HIDE DEF a, s, r
    <3> QED
      BY <1>1, <3>1, <3>2, <3>3, <3>4 DEF Truth
  <2>3. ASSUME NEW g \in Session, session_end(g) \/ session_reset(g) PROVE truth' \in Truth
    BY <1>1, <2>3 DEF session_end, session_reset, Truth
  <2> QED
    BY <1>1, <1>4, <2>1, <2>2, <2>3 DEF Application, timer_read, connected_state_change, timer_call
<1>5. CASE Device
  <2>1. ASSUME Tick PROVE truth' \in Truth
    <3> DEFINE s == [g \in Session |-> IF g \in truth.open THEN truth.since[g] + 1 ELSE truth.since[g]]
               r == [k \in Timer |-> IF \/ k = IntervalMs("heartbeat") \/ k[1] \in truth.open
                                        \/ k[1] = "heartbeat" /\ k \in ctx.running
                                     THEN truth.ran[k] + 1 ELSE truth.ran[k]]
               u == truth.uptime + 1
    <3>1. s \in [Session -> Nat] /\ u \in Nat
      BY <1>1 DEF Truth
    <3>2. r \in [Timer -> Nat]
      BY <1>1 DEF Truth
    <3>3. truth' = [truth EXCEPT !.uptime = u, !.since = s, !.ran = r]
      BY <2>1 DEF Tick
    <3> HIDE DEF s, r, u
    <3> QED
      BY <1>1, <3>1, <3>2, <3>3 DEF Truth
  <2>2. ASSUME NEW crash \in BOOLEAN, Reset(crash) PROVE truth' \in Truth
    <3>1. NoTruth \in Truth
      BY NoTruthTyped
    <3> DEFINE o == truth.owed \cup truth.open
    <3>2. truth' = [NoTruth EXCEPT !.owed = o, !.crashed = crash]
      BY <2>2 DEF Reset
    <3>3. o \subseteq Session
      BY <1>1 DEF Truth
    <3> HIDE DEF o
    <3>4. /\ Zero(Group) \in [Group -> Int] /\ Zero(Timer) \in [Timer -> Nat]
          /\ Zero(Session) \in [Session -> Nat]
      BY DEF Zero
    <3>5. truth' = [added |-> Zero(Group), late |-> 0, uptime |-> 0, lines |-> 0, ran |-> Zero(Timer),
                    since |-> Zero(Session), began |-> 0, beat |-> 0, apart |-> 0, open |-> {}, owed |-> o,
                    crashed |-> crash]
      BY <3>2 DEF NoTruth
    <3> QED
      BY <3>3, <3>4, <3>5 DEF Truth
  <2>3. ASSUME Log PROVE truth' \in Truth
    <3>1. truth' = [truth EXCEPT !.lines = @ + 1]
      BY <2>3 DEF Log
    <3> QED
      BY <1>1, <3>1 DEF Truth
  <2>4. ASSUME stopped_discharging \/ Unplug PROVE truth' = truth
    BY <2>4 DEF stopped_discharging, Unplug
  <2> QED
    BY <1>1, <1>5, <2>1, <2>2, <2>3, <2>4 DEF Device
<1> QED
  BY <1>2, <1>3, <1>4, <1>5 DEF Next

LEMMA CallsTyped ==
  ASSUME Typed, Next
  PROVE  net' \in [Net -> Seq(Call)]
<1>1. net \in [Net -> Seq(Call)]
  BY DEF Typed
<1>2. ASSUME NEW t \in Net, NEW state \in DOMAIN StateCalls, connected_state_change(t, state)
      PROVE  net' \in [Net -> Seq(Call)]
  <2>1. StateCalls[state] \in Seq(Call)
    <3>1. \A name \in {"connected", "expected"} : Start(name) \in Call /\ Stop(name) \in Call
      BY DEF Call, Start, Stop
    <3>2. state \in {"Stopped", "Started", "Connected", "ConnectionLost"}
      BY DEF StateCalls
    <3>3. CASE state = "Stopped"
      BY <3>1, <3>3 DEF StateCalls
    <3>4. CASE state = "Started"
      BY <3>1, <3>4 DEF StateCalls
    <3>5. CASE state = "Connected"
      BY <3>1, <3>5 DEF StateCalls
    <3>6. CASE state = "ConnectionLost"
      BY <3>1, <3>6 DEF StateCalls
    <3> QED
      BY <3>2, <3>3, <3>4, <3>5, <3>6
  <2> QED
    BY <1>1, <1>2, <2>1 DEF connected_state_change
<1>3. ASSUME NEW t \in Net, timer_call(t)
      PROVE  net' \in [Net -> Seq(Call)]
  <2>1. Tail(net[t]) \in Seq(Call)
    BY <1>1, <1>3 DEF timer_call
  <2> QED
    BY <1>1, <1>3, <2>1 DEF timer_call
<1>4. ASSUME NEW crash \in BOOLEAN, Reset(crash)
      PROVE  net' \in [Net -> Seq(Call)]
  BY <1>4 DEF Reset
<1>5. CASE Heart \/ Boot
  BY <1>1, <1>5 DEF Heart, Boot, heartbeat_timer, tally, tallied, printed, Tallies, heartbeat_collect, reliability_collect, battery_cache,
     battery_sample, battery_store, collect_logs, collect_data, encode, reset, enter_sleep, wake,
     boot, check_session, end_boot, battery_boot
<1>6. CASE Application
  BY <1>1, <1>2, <1>3, <1>6 DEF Application, heartbeat_add, timer_read, session_start, session_end,
     session_reset
<1>7. CASE Device
  BY <1>1, <1>4, <1>7 DEF Device, Tick, stopped_discharging, Unplug, Log
<1> QED
  BY <1>5, <1>6, <1>7 DEF Next

LEMMA BatteryTyped ==
  ASSUME Typed, Next
  PROVE  battery' \in Battery /\ power' \in Power
<1>1. battery \in Battery /\ power \in Power /\ hb \in Task
  BY DEF Typed
<1>2. ASSUME battery_sample PROVE power' \in Power /\ battery' = battery
  BY <1>1, <1>2 DEF battery_sample, Power
<1>3. ASSUME battery_store PROVE power' \in Power /\ battery' \in Battery
  <2>1. battery' = [stopped |-> ~hb.discharging, last_state_of_charge |-> hb.soc]
    BY <1>3 DEF battery_store
  <2>2. battery' \in Battery
    BY <1>1, <2>1 DEF Battery, Task
  <2> QED
    BY <1>1, <1>3, <2>2 DEF battery_store, Power
<1>4. ASSUME battery_boot PROVE power' \in Power /\ battery' \in Battery
  <2>1. power' \in Power
    BY <1>1, <1>4 DEF battery_boot, Power
  <2>2. battery' \in Battery
    BY <1>4 DEF battery_boot, Battery, Charge
  <2> QED
    BY <2>1, <2>2
<1>5. ASSUME stopped_discharging PROVE power' \in Power /\ battery' \in Battery
  BY <1>1, <1>5 DEF stopped_discharging, Power, Battery
<1>6. ASSUME Unplug PROVE power' \in Power /\ battery' = battery
  BY <1>1, <1>6 DEF Unplug, Power
<1>7. ASSUME NEW crash \in BOOLEAN, Reset(crash) PROVE power' \in Power /\ battery' \in Battery
  BY <1>1, <1>7 DEF Reset, NoPower, NoBattery, Power, Battery, Charge
<1>8. CASE Heart \/ Boot
  <2>1. ASSUME ~battery_sample, ~battery_store, ~battery_boot
        PROVE  UNCHANGED <<power, battery>>
    BY <1>8, <2>1 DEF Heart, Boot, heartbeat_timer, tally, tallied, printed, Tallies, heartbeat_collect, reliability_collect, battery_cache,
       collect_logs, collect_data, encode, reset, enter_sleep, wake,
       boot, check_session, end_boot, history
  <2> QED
    BY <1>1, <1>2, <1>3, <1>4, <2>1
<1>9. CASE Application
  <2>1. UNCHANGED <<power, battery>>
    BY <1>9 DEF Application, heartbeat_add, timer_read, session_start, session_end,
       session_reset, connected_state_change, timer_call, unmoved
  <2> QED
    BY <1>1, <2>1
<1>10. CASE Device
  BY <1>1, <1>5, <1>6, <1>7, <1>10 DEF Device, Tick, Log
<1> QED
  BY <1>8, <1>9, <1>10 DEF Next

LEMMA RestTyped ==
  ASSUME Typed, Next
  PROVE  /\ build' = build /\ now' \in Nat
         /\ reliability' \in Reliability
         /\ active_sessions' \subseteq Session /\ unexpected' \in BOOLEAN
         /\ log_recorded' \in Value
         /\ serialized' \in [Summed -> Nat]
         /\ adds' \in Nat /\ logs' \in Nat /\ resets' \in Nat
<1> USE DEF Typed
<1>1. now % UINT32 \in Value
  BY NowInTime
<1>2. CASE Heart
  <2> USE DEF env, reboots
  <2>1. ASSUME reliability_collect PROVE reliability' \in Reliability
    <3>1. Worked - (Worked \div HOUR) * HOUR \in Nat
      BY WorkedTyped
    <3>2. reliability' = [last_heartbeat_ms |-> now % UINT32,
                          operational_ms |-> Worked - (Worked \div HOUR) * HOUR,
                          counted |-> reliability.counted \/ Worked \div HOUR > 0]
      BY <2>1 DEF reliability_collect, Worked, Interval
    <3> QED
      BY <1>1, <3>1, <3>2 DEF Reliability
  <2>2. ASSUME enter_sleep PROVE reliability' \in Reliability
    BY <2>2, NoContextTyped DEF enter_sleep
  <2>3. ASSUME wake PROVE reliability' \in Reliability /\ unexpected' = FALSE
    BY <2>3 DEF wake, Context
  <2>4. ASSUME ~reliability_collect, ~enter_sleep, ~wake PROVE reliability' = reliability
    BY <1>2, <2>4 DEF Heart, heartbeat_timer, tally, tallied, printed, Tallies, heartbeat_collect, battery_cache,
       battery_sample, battery_store, collect_logs, collect_data, encode, reset
  <2>5. ASSUME encode PROVE serialized' \in [Summed -> Nat]
    <3>1. \A n \in Summed : Heartbeat(n) \in Key
      BY Keys DEF Summed, HeartbeatNumber
    <3>2. ctx.values \in [Key -> Value] /\ Value \subseteq Nat
      BY Widths DEF Context, Value
    <3>3. \A n \in Summed : ctx.values[Heartbeat(n)] \in Nat
      BY <3>1, <3>2
    <3> QED
      BY <2>5, <3>3 DEF encode
  <2>6. ASSUME ~encode PROVE serialized' = serialized
    BY <1>2, <2>6 DEF Heart, heartbeat_timer, tally, tallied, printed, Tallies, heartbeat_collect, reliability_collect, battery_cache,
       battery_sample, battery_store, collect_logs, collect_data, reset, enter_sleep, wake
  <2>7. UNCHANGED <<build, now, adds, logs, resets, active_sessions, log_recorded>>
    BY <1>2 DEF Heart, heartbeat_timer, tally, tallied, printed, Tallies, heartbeat_collect, reliability_collect, battery_cache,
       battery_sample, battery_store, collect_logs, collect_data, encode, reset, enter_sleep, wake
  <2>8. ASSUME ~wake PROVE unexpected' = unexpected
    BY <1>2, <2>8 DEF Heart, heartbeat_timer, tally, tallied, printed, Tallies, heartbeat_collect, reliability_collect, battery_cache,
       battery_sample, battery_store, collect_logs, collect_data, encode, reset, enter_sleep
  <2> QED
    BY <2>1, <2>2, <2>3, <2>4, <2>5, <2>6, <2>7, <2>8
<1>3. CASE Boot
  <2> USE DEF env, reboots
  <2>1. UNCHANGED <<build, now, adds, logs, resets, unexpected, log_recorded, serialized>>
    BY <1>3 DEF Boot, boot, check_session, end_boot, battery_boot
  <2>2. active_sessions' \subseteq Session
    BY <1>3 DEF Boot, boot, check_session, end_boot, battery_boot
  <2>3. ASSUME boot PROVE reliability' \in Reliability
    BY <1>1, <2>3 DEF boot, Reliability
  <2>4. ASSUME ~boot PROVE reliability' = reliability
    BY <1>3, <2>4 DEF Boot, check_session, end_boot, battery_boot
  <2> QED
    BY <2>1, <2>2, <2>3, <2>4
<1>4. CASE Application
  <2>1. UNCHANGED <<build, now, logs, resets, unexpected, log_recorded, serialized, reliability>>
    BY <1>4 DEF Application, heartbeat_add, timer_read, session_start, session_end,
       session_reset, connected_state_change, timer_call, unmoved, reboots
  <2>4. ASSUME NEW g \in Group, NEW amount \in build.amounts, heartbeat_add(g, amount)
        PROVE  adds' \in Nat
    BY <2>4 DEF heartbeat_add
  <2>2. adds' \in Nat
    BY <1>4, <2>4 DEF Application, timer_read, session_start, session_end,
       session_reset, connected_state_change, timer_call, unmoved
  <2>3. active_sessions' \subseteq Session
    BY <1>4 DEF Application, heartbeat_add, timer_read, session_start, session_end,
       session_reset, connected_state_change, timer_call, reboots
  <2> QED
    BY <2>1, <2>2, <2>3
<1>5. CASE Device
  <2>1. ASSUME NEW crash \in BOOLEAN, Reset(crash)
        PROVE  /\ build' = build /\ now' \in Nat /\ reliability' \in Reliability
               /\ active_sessions' = active_sessions /\ unexpected' \in BOOLEAN
               /\ log_recorded' \in Value /\ serialized' \in [Summed -> Nat]
               /\ adds' = adds /\ logs' = logs /\ resets' \in Nat
    BY <2>1, NoContextTyped, Small DEF Reset, Zero
  <2>2. ASSUME Log
        PROVE  /\ log_recorded' \in Value /\ logs' \in Nat
               /\ UNCHANGED <<build, now, reliability, active_sessions, unexpected, serialized, adds, resets>>
    <3>1. log_recorded + 1 \in Int
      BY Widths DEF Value
    <3>2. (log_recorded + 1) % UINT32 \in Value
      BY <3>1, Widths, ModRange DEF Value
    <3> QED
      BY <2>2, <3>2 DEF Log, reboots
  <2>3. ASSUME Tick \/ stopped_discharging \/ Unplug
        PROVE  /\ now' \in Nat
               /\ UNCHANGED <<build, reliability, active_sessions, unexpected, serialized, adds, logs,
                              resets, log_recorded>>
    BY <2>3 DEF Tick, stopped_discharging, Unplug, env, reboots
  <2> QED
    BY <1>5, <2>1, <2>2, <2>3 DEF Device
<1> QED
  BY <1>2, <1>3, <1>4, <1>5 DEF Next

LEMMA TypedStep ==
  ASSUME Typed, Next
  PROVE  Typed'
  BY ContextTyped, TaskTyped, TruthTyped, CallsTyped, BatteryTyped, RestTyped DEF Typed

-------------------------------------------------------------------------------
(* What a step leaves alone                                                     *)

\* Where each step of the heartbeat and of boot leads.
Moves(from, to) == hb.pc = from /\ hb'.pc = to /\ hb'.then = hb.then

LEMMA HeartMoves ==
  ASSUME Typed
  PROVE  /\ heartbeat_timer => Moves("idle", "tally")
         /\ tally => hb.pc \in {"tally", "print"} /\ Moves(hb.pc, hb.pc)
         /\ tallied => Moves("tally", "collect")
         /\ printed => Moves("print", hb.then)
         /\ heartbeat_collect => hb.pc = "idle" /\ hb'.pc = "collect" /\ hb'.then = "sleep"
         /\ reliability_collect => \/ build.battery /\ Moves("collect", "battery_cache")
                                   \/ ~build.battery /\ Moves("collect", "collect_logs")
         /\ battery_cache => Moves("battery_cache", "battery_sample")
         /\ battery_sample => Moves("battery_sample", "battery_store")
         /\ battery_store => Moves("battery_store", "collect_logs")
         /\ collect_logs => Moves("collect_logs", "collect_data")
         /\ \A prints \in BOOLEAN : collect_data(prints) => Moves("collect_data", IF prints THEN "print" ELSE hb.then)
         /\ encode => Moves("encode", "reset")
         /\ reset => hb.pc = "reset" /\ hb' = At("idle")
         /\ enter_sleep => hb.pc = "sleep" /\ hb' = At("asleep")
         /\ wake => hb.pc = "asleep" /\ hb' = At("idle")
<1>1. hb \in Task
  BY DEF Typed
<1>2. \A pc : [hb EXCEPT !.pc = pc].pc = pc /\ [hb EXCEPT !.pc = pc].then = hb.then
  BY <1>1 DEF Task
<1>13. /\ tallied => Moves("tally", "collect")
       /\ printed => Moves("print", hb.then)
  BY <1>2 DEF tallied, printed, Goes, Moves
<1>14. tally => hb.pc \in {"tally", "print"} /\ Moves(hb.pc, hb.pc)
  BY <1>1 DEF tally, Task, Moves
<1>15. \A pc : Tallies(ctx, pc) => hb'.pc = pc /\ hb'.then = hb.then
  BY <1>1 DEF Tallies, Task
<1>3. heartbeat_timer => Moves("idle", "tally")
  BY <1>15 DEF heartbeat_timer, Moves
<1>4. heartbeat_collect => hb.pc = "idle" /\ hb'.pc = "collect" /\ hb'.then = "sleep"
  BY <1>1 DEF heartbeat_collect, Task
<1>5. reliability_collect => \/ build.battery /\ Moves("collect", "battery_cache")
                             \/ ~build.battery /\ Moves("collect", "collect_logs")
  BY <1>2 DEF reliability_collect, Goes, Moves
<1>6. battery_cache => Moves("battery_cache", "battery_sample")
  BY <1>1 DEF battery_cache, Moves, Task
<1>7. battery_sample => Moves("battery_sample", "battery_store")
  BY <1>1 DEF battery_sample, Moves, Task
<1>8. battery_store => Moves("battery_store", "collect_logs")
  BY <1>2 DEF battery_store, Goes, Moves
<1>9. collect_logs => Moves("collect_logs", "collect_data")
  BY <1>2 DEF collect_logs, Goes, Moves
<1>10. \A prints \in BOOLEAN : collect_data(prints) => Moves("collect_data", IF prints THEN "print" ELSE hb.then)
  BY <1>2, <1>15 DEF collect_data, Goes, Moves
<1>11. encode => Moves("encode", "reset")
  BY <1>2 DEF encode, Goes, Moves
<1>12. /\ reset => hb.pc = "reset" /\ hb' = At("idle")
       /\ enter_sleep => hb.pc = "sleep" /\ hb' = At("asleep")
       /\ wake => hb.pc = "asleep" /\ hb' = At("idle")
  BY DEF reset, enter_sleep, wake
<1> QED
  BY <1>3, <1>4, <1>5, <1>6, <1>7, <1>8, <1>9, <1>10, <1>11, <1>12, <1>13, <1>14

LEMMA BootMoves ==
  ASSUME Typed
  PROVE  /\ boot => hb.pc = "boot" /\ hb'.pc = "check" /\ hb'.then = "encode" /\ hb'.left = build.sessions
         /\ \A g \in Session : check_session(g) => Moves("check", "check") /\ hb'.left = hb.left \ {g}
         /\ end_boot => /\ hb.pc = "check" /\ hb.left = {}
                        /\ hb' = At(IF build.battery THEN "battery_boot" ELSE "idle")
         /\ battery_boot => hb.pc = "battery_boot" /\ hb' = At("idle")
         /\ \A crash \in BOOLEAN : Reset(crash) => hb' = At("boot")
<1>1. hb \in Task /\ build \in Builds
  BY DEF Typed
<1>2. boot => hb.pc = "boot" /\ hb'.pc = "check" /\ hb'.then = "encode" /\ hb'.left = build.sessions
  BY DEF boot, At
<1>3. \A g \in Session : check_session(g) => Moves("check", "check") /\ hb'.left = hb.left \ {g}
  BY <1>1 DEF check_session, Moves, Task
<1> QED
  BY <1>2, <1>3 DEF end_boot, battery_boot, Reset

LEMMA OthersStay ==
  ASSUME Application \/ Tick \/ stopped_discharging \/ Unplug \/ Log
  PROVE  hb' = hb
<1>1. CASE Application
  <2>1. ASSUME NEW g \in Group, NEW amount \in build.amounts, heartbeat_add(g, amount) PROVE hb' = hb
    BY <2>1 DEF heartbeat_add
  <2>2. ASSUME NEW k \in Timer, timer_read(k) PROVE hb' = hb
    BY <2>2 DEF timer_read, unmoved
  <2>3. ASSUME NEW g \in Session, session_start(g) \/ session_end(g) \/ session_reset(g) PROVE hb' = hb
    BY <2>3 DEF session_start, session_end, session_reset, unmoved
  <2>4. ASSUME NEW t \in Net, NEW state \in DOMAIN StateCalls, connected_state_change(t, state)
        PROVE  hb' = hb
    BY <2>4 DEF connected_state_change, unmoved
  <2>5. ASSUME NEW t \in Net, timer_call(t) PROVE hb' = hb
    BY <2>5 DEF timer_call, unmoved
  <2> QED
    BY <1>1, <2>1, <2>2, <2>3, <2>4, <2>5 DEF Application
<1>2. CASE Tick \/ stopped_discharging \/ Unplug \/ Log
  BY <1>2 DEF Tick, stopped_discharging, Unplug, Log
<1> QED
  BY <1>1, <1>2

\* Only the step that encodes a heartbeat leads to its reset.
LEMMA ResetNext ==
  ASSUME Typed, Next, ~encode, ~reset, \A crash \in BOOLEAN : ~Reset(crash)
  PROVE  hb'.pc = "reset" <=> hb.pc = "reset"
<1>1. hb.then # "reset"
  BY DEF Typed, Task
<1>2. \A pc : At(pc).pc = pc
  BY DEF At
<1>3. CASE Heart
  BY <1>1, <1>2, <1>3, HeartMoves, Zenon DEF Heart, Moves
<1>4. CASE Boot
  BY <1>2, <1>4, BootMoves DEF Boot, Moves
<1>5. CASE Application \/ Device
  BY <1>5, OthersStay DEF Device
<1> QED
  BY <1>3, <1>4, <1>5 DEF Next

\* Nothing else happens before boot has begun.
LEMMA BootFirst ==
  ASSUME Typed, Next, \A crash \in BOOLEAN : ~Reset(crash)
  PROVE  hb'.pc # "boot" /\ (hb.pc = "boot" => boot)
<1>1. hb.then # "boot"
  BY DEF Typed, Task
<1>2. \A pc : At(pc).pc = pc
  BY DEF At
<1>3. CASE Heart
  <2>1. ASSUME \/ heartbeat_timer \/ tally \/ tallied \/ heartbeat_collect \/ reliability_collect
               \/ battery_cache
        PROVE  hb.pc # "boot" /\ hb'.pc # "boot"
    BY <2>1, HeartMoves DEF Moves
  <2>5. ASSUME printed PROVE hb.pc # "boot" /\ hb'.pc # "boot"
    BY <1>1, <2>5, HeartMoves DEF Moves
  <2>2. ASSUME battery_sample \/ battery_store \/ collect_logs \/ encode
        PROVE  hb.pc # "boot" /\ hb'.pc # "boot"
    BY <2>2, HeartMoves DEF Moves
  <2>3. ASSUME NEW prints \in BOOLEAN, collect_data(prints)
        PROVE  hb.pc # "boot" /\ hb'.pc # "boot"
    BY <1>1, <2>3, HeartMoves DEF Moves
  <2>4. ASSUME reset \/ enter_sleep \/ wake
        PROVE  hb.pc # "boot" /\ hb'.pc # "boot"
    BY <1>2, <2>4, HeartMoves
  <2> QED
    BY <1>3, <2>1, <2>2, <2>3, <2>4, <2>5 DEF Heart
<1>4. CASE Boot
  <2>1. ASSUME boot PROVE hb'.pc # "boot"
    BY <2>1, BootMoves
  <2>2. ASSUME NEW g \in Session, check_session(g) PROVE hb.pc # "boot" /\ hb'.pc # "boot"
    BY <2>2, BootMoves DEF Moves
  <2>3. ASSUME end_boot PROVE hb.pc # "boot" /\ hb'.pc # "boot"
    BY <1>2, <2>3, BootMoves
  <2>4. ASSUME battery_boot PROVE hb.pc # "boot" /\ hb'.pc # "boot"
    BY <1>2, <2>4, BootMoves
  <2> QED
    BY <1>4, <2>1, <2>2, <2>3, <2>4 DEF Boot
<1>5. CASE Application \/ Device
  <2>1. hb.pc # "boot"
    <3>1. CASE Application
      <4>1. Callable \/ Free
        BY <3>1 DEF Application, heartbeat_add, timer_read, session_start, session_end, session_reset,
           connected_state_change, timer_call
      <4> QED
        BY <4>1 DEF Callable, Free, Awake, Booting
    <3>2. CASE Device
      <4>1. Free \/ hb.pc = "asleep" \/ Awake
        BY <3>2 DEF Device, Tick, stopped_discharging, Unplug, Log
      <4> QED
        BY <4>1 DEF Free, Awake, Booting
    <3> QED
      BY <1>5, <3>1, <3>2
  <2> QED
    BY <1>5, <2>1, OthersStay DEF Device
<1> QED
  BY <1>3, <1>4, <1>5 DEF Next

\* The update of the next timer in the order of the keys.
LEMMA TallyNext ==
  ASSUME Typed, tally
  PROVE  \E k \in Timer : /\ k \in hb.timers /\ \A j \in hb.timers : ~Before(j, k)
                          /\ ctx' = timer_update(ctx, k)
                          /\ hb'.timers = hb.timers \ {k} /\ hb'.then = hb.then /\ hb'.pc = hb.pc
<1>1. hb \in Task /\ hb.timers \subseteq Timer
  BY DEF Typed, Task
<1>2. PICK k \in hb.timers : /\ \A j \in hb.timers : ~Before(j, k)
                             /\ hb' = [hb EXCEPT !.timers = @ \ {k}]
                             /\ ctx' = timer_update(ctx, k)
  BY DEF tally
<1> QED
  BY <1>1, <1>2 DEF Task

\* What the heartbeat notes of the history.
LEMMA NotesOnly ==
  ASSUME Typed, heartbeat_timer \/ tallied \/ encode
  PROVE  /\ truth'.added = truth.added /\ truth'.late = truth.late /\ truth'.uptime = truth.uptime
         /\ truth'.lines = truth.lines /\ truth'.ran = truth.ran /\ truth'.since = truth.since
         /\ truth'.open = truth.open /\ truth'.owed = truth.owed /\ truth'.crashed = truth.crashed
         /\ truth'.began = IF heartbeat_timer THEN now ELSE truth.began
         /\ truth'.beat = IF tallied THEN truth.began ELSE truth.beat
         /\ truth'.apart = IF encode THEN Uncounted("connected") - Uncounted("expected") ELSE truth.apart
<1>1. truth \in Truth
  BY DEF Typed
<1>2. CASE heartbeat_timer
  <2>1. ~tallied /\ ~encode
    BY <1>2 DEF heartbeat_timer, tallied, encode
  <2> QED
    BY <1>1, <1>2, <2>1 DEF heartbeat_timer, Truth
<1>3. CASE tallied
  <2>1. ~heartbeat_timer /\ ~encode
    BY <1>3 DEF heartbeat_timer, tallied, encode
  <2> QED
    BY <1>1, <1>3, <2>1 DEF tallied, Truth
<1>4. CASE encode
  <2>1. ~heartbeat_timer /\ ~tallied
    BY <1>4 DEF heartbeat_timer, tallied, encode
  <2> QED
    BY <1>1, <1>4, <2>1 DEF encode, Truth
<1> QED
  BY <1>2, <1>3, <1>4

\* A number of the heartbeat changes in the calls and collectors it belongs to alone.
LEMMA NumbersKept ==
  ASSUME Typed, Next, NEW name \in HeartbeatNumber,
         ~reset, ~boot, \A crash \in BOOLEAN : ~Reset(crash),
         name = "count" => \A amount \in build.amounts : ~heartbeat_add("heartbeat", amount),
         name \in {"hours", "crashfree_hours"} => ~reliability_collect,
         name = "log_lines" => ~collect_logs,
         name = "soc_drop" => ~battery_store
  PROVE  ctx'.values[Heartbeat(name)] = ctx.values[Heartbeat(name)]
<1> DEFINE k == Heartbeat(name)
<1>1. now \in Nat /\ ctx \in Context /\ build \in Builds
  BY DEF Typed
<1>2. k \in Key /\ k \notin Timer /\ k[1] = "heartbeat" /\ k[2] = name
  BY Keys DEF Heartbeat
<1>3. name \notin HeartbeatTimer /\ "heartbeat" \notin Session
  BY SessionAssumption DEF HeartbeatNumber, HeartbeatTimer
<1> HIDE DEF k
<1> SUFFICES ctx'.values[k] = ctx.values[k]
  BY DEF k
<1>4. CASE Heart
  <2>1. ASSUME reliability_collect PROVE ctx'.values[k] = ctx.values[k]
    <3> DEFINE hours == Worked \div HOUR
               crash == IF ~reliability.counted /\ unexpected THEN 1 ELSE 0
               one == add(ctx, Heartbeat("hours"), hours)
    <3>1. ctx' = ctx \/ ctx' = add(one, Heartbeat("crashfree_hours"), hours - crash)
      BY <2>1 DEF reliability_collect, Worked, Interval
    <3>2. hours \in Int /\ hours - crash \in Int
      BY WorkedTyped
    <3>3. Heartbeat("hours") \in Key /\ Heartbeat("crashfree_hours") \in Key
      BY Keys DEF HeartbeatNumber
    <3>4. k # Heartbeat("hours") /\ k # Heartbeat("crashfree_hours")
      BY <2>1, <1>2 DEF Heartbeat
    <3> HIDE DEF hours, crash
    <3>5. one \in Context /\ one.values[k] = ctx.values[k]
      <4> DEFINE j == Heartbeat("hours")
      <4>1. j \in Key /\ k # j
        BY <3>3, <3>4
      <4> HIDE DEF j
      <4>2. add(ctx, j, hours) \in Context /\ add(ctx, j, hours).values[k] = ctx.values[k]
        BY <1>1, <1>2, <3>2, <4>1, AddTyped
      <4> QED
        BY <4>2 DEF j
    <3> HIDE DEF one
    <3>6. add(one, Heartbeat("crashfree_hours"), hours - crash).values[k] = one.values[k]
      <4> DEFINE rest == hours - crash
                 j == Heartbeat("crashfree_hours")
      <4>1. rest \in Int /\ j \in Key /\ k # j
        BY <3>2, <3>3, <3>4
      <4>0. k \in Key /\ rest \in Int /\ one \in Context
        BY <1>2, <3>2, <3>5
      <4> HIDE DEF rest, j
      <4>2. add(one, j, rest).values[k] = one.values[k]
        BY <4>0, <4>1, AddTyped
      <4> QED
        BY <4>2 DEF rest, j
    <3> QED
      BY <3>1, <3>5, <3>6
  <2>2. ASSUME battery_store PROVE ctx'.values[k] = ctx.values[k]
    <3>1. Heartbeat("soc_drop") \in Key /\ k # Heartbeat("soc_drop")
      BY <2>2, <1>2, Keys DEF HeartbeatNumber, Heartbeat
    <3>2. \A v : set_unsigned(ctx, Heartbeat("soc_drop"), v).values[k] = ctx.values[k]
      BY <1>1, <1>2, <3>1 DEF set_unsigned, Context
    <3> QED
      BY <2>2, <3>2 DEF battery_store
  <2>3. ASSUME collect_logs PROVE ctx'.values[k] = ctx.values[k]
    <3>1. Heartbeat("log_lines") \in Key /\ k # Heartbeat("log_lines")
      BY <2>3, <1>2, Keys DEF HeartbeatNumber, Heartbeat
    <3>2. \A v : add(ctx, Heartbeat("log_lines"), v).values[k] = ctx.values[k]
      BY <1>1, <1>2, <3>1 DEF add, Context
    <3>3. \A v, l : [add(ctx, Heartbeat("log_lines"), v) EXCEPT !.last_log = l].values[k] = ctx.values[k]
      BY <1>1, <1>2, <3>1 DEF add, Context
    <3> QED
      BY <2>3, <3>3 DEF collect_logs
  <2>4. ASSUME NEW prints \in BOOLEAN, collect_data(prints) PROVE ctx'.values[k] = ctx.values[k]
    BY <2>4 DEF collect_data
  <2>5. ASSUME tally PROVE ctx'.values[k] = ctx.values[k]
    BY <1>1, <1>2, <2>5, TallyNext, UpdateTyped
  <2>6. ASSUME enter_sleep PROVE ctx'.values[k] = ctx.values[k]
    BY <1>1, <2>6 DEF enter_sleep, Context
  <2> QED
    BY <1>4, <2>1, <2>2, <2>3, <2>4, <2>5, <2>6
    DEF Heart, heartbeat_timer, tallied, printed, heartbeat_collect, battery_cache, battery_sample, encode,
    wake
<1>5. CASE Boot
  <2>1. ASSUME NEW g \in Session, check_session(g) PROVE ctx'.values[k] = ctx.values[k]
    <3> DEFINE c == reset_metrics(ctx, g)
    <3>1. g \in Group /\ <<g, "operational_crashes">> \in Key
      BY Keys DEF Group
    <3>2. g # "heartbeat" /\ k # <<g, "operational_crashes">>
      BY <1>2, <1>3
    <3>3. c \in Context /\ c.values[k] = ctx.values[k]
      BY <1>1, <1>2, <3>1, <3>2, ResetTyped
    <3>4. ctx' = ctx \/ ctx' = add(c, <<g, "operational_crashes">>, 1)
      BY <2>1 DEF check_session
    <3> HIDE DEF c
    <3> QED
      BY <1>2, <3>1, <3>2, <3>3, <3>4, AddTyped
  <2> QED
    BY <1>5, <2>1 DEF Boot, end_boot, battery_boot
<1>6. CASE Application
  <2>1. ASSUME NEW g \in Group, NEW amount \in build.amounts, heartbeat_add(g, amount)
        PROVE  ctx'.values[k] = ctx.values[k]
    <3> DEFINE j == <<g, "count">>
    <3>1. k # j
      BY <1>2, <2>1
    <3>2. amount \in Int /\ j \in Key
      BY <1>1, BuildTyped, Keys
    <3>3. ctx' = add(ctx, j, amount)
      BY <2>1 DEF heartbeat_add
    <3> HIDE DEF j
    <3>4. add(ctx, j, amount).values[k] = ctx.values[k]
      BY <1>1, <1>2, <3>1, <3>2, AddTyped
    <3> QED
      BY <3>3, <3>4
  <2>2. ASSUME NEW j \in Timer, timer_read(j) PROVE ctx'.values[k] = ctx.values[k]
    BY <1>1, <1>2, <2>2, UpdateTyped DEF timer_read
  <2>3. ASSUME NEW g \in Session
        PROVE  /\ g \in Group /\ g # "heartbeat" /\ IntervalMs(g) \in Timer /\ k # IntervalMs(g)
    BY <1>2, <1>3, Keys DEF Group
  <2>4. ASSUME NEW g \in Session, session_start(g) PROVE ctx'.values[k] = ctx.values[k]
    <3> DEFINE c == reset_metrics(ctx, g)
    <3>1. c \in Context /\ c.values[k] = ctx.values[k]
      BY <1>1, <1>2, <2>3, ResetTyped
    <3>2. ctx' = timer_start(c, IntervalMs(g))
      BY <2>4 DEF session_start
    <3> HIDE DEF c
    <3> QED
      BY <1>1, <2>3, <3>1, <3>2, StartTyped
  <2>5. ASSUME NEW g \in Session, session_end(g) \/ session_reset(g) PROVE ctx'.values[k] = ctx.values[k]
    <3> DEFINE c == timer_stop(ctx, IntervalMs(g))
    <3>1. c \in Context /\ c.values[k] = ctx.values[k]
      BY <1>1, <1>2, <2>3, StopTyped
    <3>2. ctx' = c \/ ctx' = reset_metrics(c, g)
      BY <2>5 DEF session_end, session_reset
    <3> HIDE DEF c
    <3> QED
      BY <1>2, <2>3, <3>1, <3>2, ResetTyped
  <2>6. ASSUME NEW t \in Net, timer_call(t) PROVE ctx'.values[k] = ctx.values[k]
    <3> DEFINE j == Head(net[t])[2]
    <3>1. Head(net[t]) \in Call
      BY <2>6 DEF timer_call, Typed
    <3>2. j \in Timer
      BY <3>1, Keys DEF Call, HeartbeatTimer
    <3>3. ctx' = timer_start(ctx, j) \/ ctx' = timer_stop(ctx, j)
      BY <2>6 DEF timer_call
    <3> HIDE DEF j
    <3> QED
      BY <1>1, <1>2, <3>2, <3>3, StartTyped, StopTyped
  <2> QED
    BY <1>6, <2>1, <2>2, <2>4, <2>5, <2>6 DEF Application, connected_state_change
<1>7. CASE Device
  BY <1>7 DEF Device, Tick, stopped_discharging, Unplug, Log
<1> QED
  BY <1>4, <1>5, <1>6, <1>7 DEF Next

-------------------------------------------------------------------------------
(* Everything is counted once                                                   *)

\* An amount is an int32_t or a uint32_t.
AmountsFit == \A b \in Builds : b.amounts \subseteq (1 - UINT32)..(UINT32 - 1)
\* The lines since the last collection are read as an int32_t.
LinesFit == \A b \in Builds : b.max_logs < UINT32 \div 2

LinesInStep ==
  /\ log_recorded = truth.lines /\ truth.lines <= logs /\ logs <= build.max_logs
  /\ ctx.last_log <= log_recorded
Unbooted == hb.pc = "boot" => ctx = NoContext
Counting == CountedOnce /\ LinesInStep /\ Unbooted

\* What CountedOnce reads of a step that counts nothing.
CountsKept ==
  /\ serialized'["count"] = serialized["count"] /\ serialized'["log_lines"] = serialized["log_lines"]
  /\ truth'.added["heartbeat"] = truth.added["heartbeat"]
  /\ truth'.late = truth.late /\ truth'.lines = truth.lines
  /\ log_recorded' = log_recorded /\ logs' = logs

LEMMA HistoryKept ==
  ASSUME Typed, Next, \A amount \in build.amounts : ~heartbeat_add("heartbeat", amount),
         ~encode, ~Log, \A crash \in BOOLEAN : ~Reset(crash)
  PROVE  CountsKept
<1> USE DEF Typed
<1>1. CASE Heart
  <2>1. ASSUME heartbeat_timer \/ tallied PROVE CountsKept
    BY <2>1, NotesOnly DEF heartbeat_timer, tallied, CountsKept, env
  <2>2. ASSUME ~heartbeat_timer, ~tallied PROVE CountsKept
    BY <1>1, <2>2 DEF Heart, heartbeat_collect, reliability_collect, battery_cache,
       battery_sample, battery_store, collect_logs, tally, printed, Tallies, collect_data, reset, enter_sleep, wake,
       CountsKept, history, env
  <2> QED
    BY <2>1, <2>2
<1>2. CASE Boot
  <2>1. ASSUME boot \/ end_boot PROVE CountsKept
    BY <2>1 DEF boot, end_boot, CountsKept, Truth, env
  <2>2. ASSUME battery_boot PROVE CountsKept
    BY <2>2 DEF battery_boot, CountsKept, Truth, env
  <2>3. ASSUME NEW g \in Session, check_session(g) PROVE CountsKept
    BY <2>3 DEF check_session, CountsKept, Truth, env
  <2> QED
    BY <1>2, <2>1, <2>2, <2>3 DEF Boot
<1>3. CASE Application
  <2>1. ASSUME NEW g \in Group, NEW amount \in build.amounts, heartbeat_add(g, amount) PROVE CountsKept
    <3>1. g # "heartbeat"
      BY <2>1
    <3>2. truth'.added["heartbeat"] = truth.added["heartbeat"] /\ truth'.late = truth.late
          /\ truth'.lines = truth.lines
      BY <2>1, <3>1 DEF heartbeat_add, Truth, Group
    <3>3. UNCHANGED <<serialized, log_recorded, logs>>
      BY <2>1 DEF heartbeat_add
    <3> QED
      BY <3>2, <3>3 DEF CountsKept
  <2>2. ASSUME NEW k \in Timer, timer_read(k) PROVE CountsKept
    BY <2>2 DEF timer_read, unmoved, CountsKept
  <2>3. ASSUME NEW g \in Session, session_start(g) PROVE CountsKept
    <3>1. g # "heartbeat"
      BY SessionAssumption
    <3>2. truth'.added["heartbeat"] = truth.added["heartbeat"] /\ truth'.late = truth.late
          /\ truth'.lines = truth.lines
      BY <2>3, <3>1 DEF session_start, Truth, Group
    <3>3. UNCHANGED <<serialized, log_recorded, logs>>
      BY <2>3 DEF session_start, unmoved
    <3> QED
      BY <3>2, <3>3 DEF CountsKept
  <2>4. ASSUME NEW g \in Session, session_end(g) \/ session_reset(g) PROVE CountsKept
    BY <2>4 DEF session_end, session_reset, unmoved, CountsKept, Truth
  <2>5. ASSUME NEW t \in Net, timer_call(t) PROVE CountsKept
    BY <2>5 DEF timer_call, unmoved, CountsKept
  <2>6. ASSUME NEW t \in Net, NEW state \in DOMAIN StateCalls, connected_state_change(t, state)
        PROVE  CountsKept
    BY <2>6 DEF connected_state_change, unmoved, CountsKept
  <2> QED
    BY <1>3, <2>1, <2>2, <2>3, <2>4, <2>5, <2>6 DEF Application
<1>4. CASE Device
  <2>1. ASSUME Tick PROVE CountsKept
    BY <2>1 DEF Tick, CountsKept, Truth
  <2>2. ASSUME stopped_discharging \/ Unplug PROVE CountsKept
    BY <2>2 DEF stopped_discharging, Unplug, CountsKept, env
  <2> QED
    BY <1>4, <2>1, <2>2 DEF Device
<1> QED
  BY <1>1, <1>2, <1>3, <1>4 DEF Next

LEMMA LastLogKept ==
  ASSUME Typed, Next, ~collect_logs, ~boot, \A crash \in BOOLEAN : ~Reset(crash)
  PROVE  ctx'.last_log = ctx.last_log
<1>1. now \in Nat /\ ctx \in Context /\ build \in Builds
  BY DEF Typed
<1>2. CASE Heart
  <2>1. ASSUME reliability_collect PROVE ctx'.last_log = ctx.last_log
    BY <1>1, <2>1 DEF reliability_collect, add, Context
  <2>2. ASSUME battery_store PROVE ctx'.last_log = ctx.last_log
    BY <1>1, <2>2 DEF battery_store, set_unsigned, Context
  <2>3. ASSUME enter_sleep PROVE ctx'.last_log = ctx.last_log
    BY <1>1, <2>3 DEF enter_sleep, Context
  <2>4. ASSUME reset PROVE ctx'.last_log = ctx.last_log
    BY <1>1, <2>4, ResetTyped DEF reset, Group
  <2>5. ASSUME tally PROVE ctx'.last_log = ctx.last_log
    BY <1>1, <2>5, TallyNext, UpdateTyped
  <2> QED
    BY <1>2, <2>1, <2>2, <2>3, <2>4, <2>5
    DEF Heart, heartbeat_timer, tallied, printed, heartbeat_collect, battery_cache, battery_sample,
        collect_data, encode, wake
<1>3. CASE Boot
  <2>1. ASSUME NEW g \in Session, check_session(g) PROVE ctx'.last_log = ctx.last_log
    <3>1. reset_metrics(ctx, g) \in Context /\ reset_metrics(ctx, g).last_log = ctx.last_log
      BY <1>1, ResetTyped DEF Group
    <3>2. <<g, "operational_crashes">> \in Key
      BY Keys
    <3> QED
      BY <2>1, <3>1, <3>2, AddTyped DEF check_session
  <2> QED
    BY <1>3, <2>1 DEF Boot, end_boot, battery_boot
<1>4. CASE Application
  <2>1. ASSUME NEW g \in Group, NEW amount \in build.amounts, heartbeat_add(g, amount)
        PROVE  ctx'.last_log = ctx.last_log
    BY <1>1, <2>1 DEF heartbeat_add, add, Context
  <2>2. ASSUME NEW k \in Timer, timer_read(k) PROVE ctx'.last_log = ctx.last_log
    BY <1>1, <2>2, UpdateTyped DEF timer_read
  <2>3. ASSUME NEW g \in Session
        PROVE  g \in Group /\ IntervalMs(g) \in Timer
    BY Keys DEF Group
  <2>4. ASSUME NEW g \in Session, session_start(g) PROVE ctx'.last_log = ctx.last_log
    BY <1>1, <2>3, <2>4, StartTyped, ResetTyped DEF session_start
  <2>5. ASSUME NEW g \in Session, session_end(g) PROVE ctx'.last_log = ctx.last_log
    BY <1>1, <2>3, <2>5, StopTyped DEF session_end
  <2>6. ASSUME NEW g \in Session, session_reset(g) PROVE ctx'.last_log = ctx.last_log
    BY <1>1, <2>3, <2>6, StopTyped, ResetTyped DEF session_reset
  <2>7. ASSUME NEW t \in Net, timer_call(t) PROVE ctx'.last_log = ctx.last_log
    <3>1. Head(net[t]) \in Call
      BY <2>7 DEF timer_call, Typed
    <3>2. Head(net[t])[2] \in Timer
      BY <3>1, Keys DEF Call, HeartbeatTimer
    <3> QED
      BY <1>1, <2>7, <3>2, StartTyped, StopTyped DEF timer_call
  <2> QED
    BY <1>4, <2>1, <2>2, <2>4, <2>5, <2>6, <2>7 DEF Application, connected_state_change
<1>5. CASE Device
  BY <1>5 DEF Device, Tick, stopped_discharging, Unplug, Log
<1> QED
  BY <1>2, <1>3, <1>4, <1>5 DEF Next

LEMMA BuildKept ==
  ASSUME Typed, Next
  PROVE  build' = build
  BY RestTyped

\* The difference of two counts of lines that have not wrapped.
LEMMA LinesSince ==
  ASSUME Typed, LinesInStep, LinesFit
  PROVE  /\ (log_recorded - ctx.last_log) % UINT32 = log_recorded - ctx.last_log
         /\ log_recorded < UINT32 \div 2
<1>1. build \in Builds /\ build.max_logs \in Nat
  BY BuildTyped DEF Typed, Build
<1>2. log_recorded \in Nat /\ ctx.last_log \in Nat
  BY Widths DEF Typed, Context, Value
<1>3. truth.lines \in Nat /\ logs \in Nat
  BY DEF Typed, Truth
<1>4. log_recorded <= build.max_logs /\ ctx.last_log <= log_recorded
  BY <1>1, <1>2, <1>3 DEF LinesInStep
<1>5. build.max_logs < UINT32 \div 2 /\ UINT32 \div 2 <= UINT32 /\ UINT32 \div 2 \in Nat
  BY <1>1, Widths DEF LinesFit
<1>6. log_recorded < UINT32 \div 2
  BY <1>1, <1>2, <1>4, <1>5
<1>7. log_recorded - ctx.last_log \in 0..(UINT32 - 1)
  BY <1>2, <1>4, <1>5, <1>6, Widths
<1> QED
  BY <1>6, <1>7, Widths, ModSmall

LEMMA CountingStep ==
  ASSUME AmountsFit, LinesFit, Typed, Counting, Next
  PROVE  Counting'
<1> DEFINE c == Heartbeat("count")
           n == Heartbeat("log_lines")
<1>1. /\ now \in Nat /\ ctx \in Context /\ build \in Builds /\ hb \in Task
      /\ truth \in Truth /\ truth.added \in [Group -> Int] /\ truth.late \in Int /\ truth.lines \in Nat
      /\ serialized \in [Summed -> Nat] /\ logs \in Nat /\ log_recorded \in Value
  BY DEF Typed, Truth
<1>2. c \in Key /\ n \in Key /\ c # n /\ "heartbeat" \in Group /\ {"count", "log_lines"} \subseteq Summed
  BY Keys DEF HeartbeatNumber, Heartbeat, Group, Summed
<1>3. ctx.values[c] \in Value /\ ctx.values[n] \in Value /\ ctx.last_log \in Value
  BY <1>1, <1>2 DEF Context
<1>4. Value \subseteq Nat /\ 0 \in Value
  BY Widths DEF Value
<1> DEFINE delta == (log_recorded - ctx.last_log) % UINT32
<1>5. delta = log_recorded - ctx.last_log /\ log_recorded < UINT32 \div 2
  BY LinesSince DEF Counting
<1>12. /\ ctx.values[c] \in Nat /\ ctx.values[n] \in Nat /\ ctx.last_log \in Nat /\ log_recorded \in Nat
       /\ delta \in Nat /\ delta < UINT32 \div 2
  <2>1. ctx.values[c] \in Nat /\ ctx.values[n] \in Nat /\ ctx.last_log \in Nat /\ log_recorded \in Nat
    BY <1>1, <1>3, Widths DEF Value
  <2>2. log_recorded - ctx.last_log \in Nat /\ log_recorded - ctx.last_log <= log_recorded
    BY <2>1 DEF Counting, LinesInStep
  <2> HIDE DEF delta
  <2> QED
    BY <1>5, <2>1, <2>2, Widths
<1>6. /\ truth.added["heartbeat"] = serialized["count"] + (IF hb.pc = "reset" THEN 0 ELSE ctx.values[c])
                                    + truth.late
      /\ truth.lines = serialized["log_lines"] + (IF hb.pc = "reset" THEN 0 ELSE ctx.values[n]) + delta
  BY DEF Counting, CountedOnce, Counted, Pending
<1>7. /\ log_recorded = truth.lines /\ truth.lines <= logs /\ logs <= build.max_logs
      /\ ctx.last_log <= log_recorded
  BY DEF Counting, LinesInStep
<1>8. build' = build
  BY BuildKept
<1>9. NoContext.values[c] = 0 /\ NoContext.values[n] = 0 /\ NoContext.last_log = 0
  BY <1>2 DEF NoContext, Zero
<1> DEFINE Goal ==
             /\ truth'.added["heartbeat"]
                  = serialized'["count"] + (IF hb'.pc = "reset" THEN 0 ELSE ctx'.values[c]) + truth'.late
             /\ truth'.lines
                  = serialized'["log_lines"] + (IF hb'.pc = "reset" THEN 0 ELSE ctx'.values[n])
                    + ((log_recorded' - ctx'.last_log) % UINT32)
             /\ log_recorded' = truth'.lines /\ truth'.lines <= logs' /\ logs' <= build'.max_logs
             /\ ctx'.last_log <= log_recorded'
             /\ hb'.pc = "boot" => ctx' = NoContext
<1> SUFFICES Goal
  BY DEF Counting, CountedOnce, Counted, Pending, LinesInStep, Unbooted
<1> HIDE DEF c, n
<1>10. ASSUME NEW crash \in BOOLEAN, Reset(crash) PROVE Goal
  <2>1. /\ ctx' = NoContext /\ log_recorded' = 0 /\ serialized'["count"] = 0 /\ serialized'["log_lines"] = 0
        /\ truth'.added["heartbeat"] = 0 /\ truth'.late = 0 /\ truth'.lines = 0 /\ logs' = logs
    BY <1>10, <1>2 DEF Reset, Zero, NoTruth
  <2>2. (0 - 0) % UINT32 = 0
    BY Widths, ModSmall
  <2>3. log_recorded' - ctx'.last_log = 0 - 0
    BY <1>9, <2>1
  <2> QED
    BY <1>1, <1>7, <1>8, <1>9, <2>1, <2>2, <2>3
<1>11. ASSUME \A crash \in BOOLEAN : ~Reset(crash) PROVE Goal
  <2>1. hb'.pc # "boot"
    BY <1>11, BootFirst
  <2>2. ASSUME ~encode, ~Log, ~collect_logs, ~boot, ~reset,
               \A amount \in build.amounts : ~heartbeat_add("heartbeat", amount)
        PROVE  Goal
    <3>1. CountsKept
      BY <1>11, <2>2, HistoryKept
    <3>2. ctx'.last_log = ctx.last_log
      BY <1>11, <2>2, LastLogKept
    <3>3. ctx'.values[c] = ctx.values[c] /\ ctx'.values[n] = ctx.values[n]
      BY <1>11, <2>2, NumbersKept DEF HeartbeatNumber, c, n
    <3>4. hb'.pc = "reset" <=> hb.pc = "reset"
      BY <1>11, <2>2, ResetNext
    <3> HIDE DEF delta
    <3>5. (log_recorded' - ctx'.last_log) % UINT32 = delta
      BY <3>1, <3>2 DEF CountsKept, delta
    <3> QED
      BY <1>6, <1>7, <1>8, <2>1, <3>1, <3>2, <3>3, <3>4, <3>5 DEF CountsKept
  <2>3. CASE boot
    <3>1. CountsKept
      BY <1>11, <2>3, HistoryKept, HeartMoves, BootMoves DEF Moves, Log, Free, Awake, Booting,
         heartbeat_add, Callable
    <3>2. ctx = NoContext /\ hb.pc = "boot" /\ hb'.pc = "check"
      BY <2>3, BootMoves DEF Counting, Unbooted
    <3> DEFINE k == Heartbeat("unexpected_reboots")
               d == timer_start(NoContext, IntervalMs("heartbeat"))
               v == IF unexpected THEN 1 ELSE 0
    <3>3. /\ d \in Context /\ d.last_log = 0 /\ d.values[c] = 0 /\ d.values[n] = 0
      BY <1>1, <1>2, <1>9, NoContextTyped, StartTyped, Keys
    <3>4. k \in Key /\ k # c /\ k # n /\ v \in Value
      BY Keys, Small DEF HeartbeatNumber, Heartbeat, c, n
    <3>5. ctx' = set_unsigned(d, k, v)
      BY <2>3 DEF boot
    <3> HIDE DEF k, d, v
    <3>6. ctx'.last_log = 0 /\ ctx'.values[c] = 0 /\ ctx'.values[n] = 0
      BY <1>2, <3>3, <3>4, <3>5, SetTyped
    <3> HIDE DEF delta
    <3>7. (log_recorded' - ctx'.last_log) % UINT32 = delta
      BY <1>9, <3>1, <3>2, <3>6 DEF CountsKept, delta
    <3> QED
      BY <1>1, <1>6, <1>7, <1>8, <1>9, <2>1, <3>1, <3>2, <3>6, <3>7 DEF CountsKept
  <2>4. CASE encode
    <3>1. /\ serialized'["count"] = serialized["count"] + ctx.values[c]
          /\ serialized'["log_lines"] = serialized["log_lines"] + ctx.values[n]
      BY <1>2, <2>4 DEF encode, c, n
    <3>2. /\ UNCHANGED <<ctx, log_recorded, logs>>
          /\ truth'.added = truth.added /\ truth'.late = truth.late /\ truth'.lines = truth.lines
      BY <2>4, NotesOnly DEF encode, env
    <3>3. hb.pc = "encode" /\ hb'.pc = "reset"
      BY <2>4, HeartMoves DEF Moves
    <3>4. (log_recorded' - ctx'.last_log) % UINT32 = delta
      BY <3>2
    <3>5. delta \in Int
      BY <1>12
    <3> HIDE DEF delta
    <3>6. serialized["count"] \in Nat /\ serialized["log_lines"] \in Nat /\ ctx.values[c] \in Nat
          /\ ctx.values[n] \in Nat /\ truth.late \in Int
      BY <1>1, <1>2, <1>3, <1>4
    <3> QED
      BY <1>6, <1>7, <1>8, <2>1, <3>1, <3>2, <3>3, <3>4, <3>5, <3>6
  <2>5. CASE reset
    <3>1. CountsKept
      <4>1. hb.pc = "reset" /\ hb'.pc = "idle"
        BY <2>5, HeartMoves DEF At
      <4>2. ~encode /\ ~Log /\ \A amount \in build.amounts : ~heartbeat_add("heartbeat", amount)
        BY <4>1 DEF encode, Log, heartbeat_add
      <4> QED
        BY <1>11, <4>2, HistoryKept
    <3>2. hb.pc = "reset" /\ hb'.pc = "idle"
      BY <2>5, HeartMoves DEF At
    <3>3. ctx' = reset_metrics(ctx, "heartbeat") /\ c[1] = "heartbeat" /\ n[1] = "heartbeat"
      BY <2>5 DEF reset, c, n, Heartbeat
    <3>4. ctx'.values[c] = 0 /\ ctx'.values[n] = 0 /\ ctx'.last_log = ctx.last_log
      BY <1>1, <1>2, <3>3, ResetTyped
    <3>5. (log_recorded' - ctx'.last_log) % UINT32 = delta
      BY <3>1, <3>4 DEF CountsKept
    <3> HIDE DEF delta
    <3> QED
      BY <1>6, <1>7, <1>8, <3>1, <3>2, <3>4, <3>5 DEF CountsKept
  <2>6. CASE collect_logs
    <3>1. CountsKept
      BY <1>11, <2>6, HistoryKept, HeartMoves DEF Moves, encode, Log, Free, Awake, Booting,
         heartbeat_add, Callable
    <3>2. hb.pc # "reset" /\ hb'.pc # "reset"
      BY <2>6, HeartMoves DEF Moves
    <3>3. CASE ~build.logs
      <4>1. ctx' = ctx
        BY <2>6, <3>3 DEF collect_logs
      <4>2. (log_recorded' - ctx'.last_log) % UINT32 = delta
        BY <3>1, <4>1 DEF CountsKept
      <4> HIDE DEF delta
      <4> QED
        BY <1>6, <1>7, <1>8, <2>1, <3>1, <3>2, <4>1, <4>2 DEF CountsKept
    <3>4. CASE build.logs
      <4>0. ctx' = [add(ctx, n, IF delta < UINT32 \div 2 THEN delta ELSE delta - UINT32)
                    EXCEPT !.last_log = log_recorded]
        BY <2>6, <3>4 DEF collect_logs, n
      <4>13. delta < UINT32 \div 2
        BY <1>12
      <4>1. ctx' = [add(ctx, n, delta) EXCEPT !.last_log = log_recorded]
        BY <4>0, <4>13
      <4>2. delta \in Int /\ delta \in (1 - UINT32)..(UINT32 - 1)
        BY <1>1, <1>3, <1>4, <1>5, <1>7, Widths DEF Value
      <4>3. (log_recorded - log_recorded) % UINT32 = 0
        <5>1. log_recorded - log_recorded = 0 /\ 0 % UINT32 = 0
          BY <1>1, <1>4, Widths, ModSmall
        <5> QED
          BY <5>1
      <4> DEFINE d == delta
      <4>4. /\ ctx' = [add(ctx, n, d) EXCEPT !.last_log = log_recorded]
            /\ d \in Int /\ d \in (1 - UINT32)..(UINT32 - 1) /\ d = log_recorded - ctx.last_log
            /\ truth.lines = serialized["log_lines"] + ctx.values[n] + d
        BY <1>5, <1>6, <3>2, <4>1, <4>2
      <4> HIDE DEF delta, d
      <4>5. /\ add(ctx, n, d) \in Context /\ add(ctx, n, d).values[n] = clipped(ctx.values[n], d)
            /\ add(ctx, n, d).values[c] = ctx.values[c]
        <5>1. ctx \in Context /\ n \in Key /\ c \in Key /\ c # n /\ d \in Int
          BY <1>1, <1>2, <4>4
        <5>2. add(ctx, n, d) \in Context
          BY <5>1, AddTyped
        <5> QED
          BY <5>1, <5>2, AddValue
      <4>6. clipped(ctx.values[n], d) = Clamp(ctx.values[n] + d)
        BY <1>3, <4>4, ClippedIsClamp DEF Value
      <4>7. serialized["log_lines"] \in Nat /\ ctx.values[n] \in Nat /\ log_recorded \in Nat
            /\ ctx.last_log \in Nat /\ log_recorded < UINT32
        BY <1>1, <1>2, <1>3, <1>4, Widths DEF Value
      <4>8. Clamp(ctx.values[n] + d) = ctx.values[n] + d
        BY <1>7, <4>4, <4>7, Widths DEF Clamp
      <4>9. /\ ctx'.values[n] = ctx.values[n] + d /\ ctx'.values[c] = ctx.values[c]
            /\ ctx'.last_log = log_recorded
        BY <4>4, <4>5, <4>6, <4>8 DEF Context
      <4>10. (log_recorded' - ctx'.last_log) % UINT32 = 0
        BY <3>1, <4>3, <4>9 DEF CountsKept
      <4>11. truth'.lines = serialized'["log_lines"] + ctx'.values[n]
        BY <3>1, <4>4, <4>7, <4>9 DEF CountsKept
      <4>12. ctx'.last_log <= log_recorded'
        BY <3>1, <4>7, <4>9 DEF CountsKept
      <4> QED
        BY <1>1, <1>6, <1>7, <1>8, <2>1, <3>1, <3>2, <4>7, <4>9, <4>10, <4>11, <4>12 DEF CountsKept
    <3> QED
      BY <3>3, <3>4
  <2>7. CASE Log
    <3>1. /\ log_recorded' = (log_recorded + 1) % UINT32 /\ logs' = logs + 1 /\ logs < build.max_logs
          /\ UNCHANGED <<ctx, hb, serialized>> /\ truth' = [truth EXCEPT !.lines = @ + 1]
      BY <2>7 DEF Log
    <3>2. log_recorded + 1 \in 0..(UINT32 - 1)
      BY <1>1, <1>4, <1>5, Widths
    <3>3. log_recorded' = log_recorded + 1
      BY <3>1, <3>2, Widths, ModSmall
    <3>4. log_recorded' - ctx'.last_log = delta + 1 /\ log_recorded' - ctx'.last_log \in 0..(UINT32 - 1)
      <4> HIDE DEF delta
      <4>1. ctx'.last_log = ctx.last_log /\ log_recorded \in Nat /\ ctx.last_log \in Nat
        BY <1>1, <1>3, <1>4, <3>1
      <4> QED
        BY <1>5, <1>7, <3>2, <3>3, <4>1, Widths
    <3>5. (log_recorded' - ctx'.last_log) % UINT32 = delta + 1
      BY <3>4, Widths, ModSmall
    <3>6. delta \in Nat /\ log_recorded \in Nat /\ ctx.last_log \in Nat
      BY <1>1, <1>3, <1>4, <1>5, <1>7
    <3> HIDE DEF delta
    <3>7. truth'.lines = truth.lines + 1 /\ truth'.added = truth.added /\ truth'.late = truth.late
      BY <1>1, <3>1 DEF Truth
    <3>8. serialized["log_lines"] \in Nat /\ ctx.values[n] \in Nat
      BY <1>1, <1>2, <1>3, <1>4
    <3>9. truth'.lines = serialized'["log_lines"] + (IF hb'.pc = "reset" THEN 0 ELSE ctx'.values[n])
                         + ((log_recorded' - ctx'.last_log) % UINT32)
      BY <1>6, <3>1, <3>5, <3>6, <3>7, <3>8
    <3>10. /\ log_recorded' = truth'.lines /\ truth'.lines <= logs' /\ logs' <= build'.max_logs
           /\ ctx'.last_log <= log_recorded'
      <4>1. build.max_logs \in Nat
        BY <1>1, BuildTyped DEF Build
      <4> QED
        BY <1>1, <1>7, <1>8, <3>1, <3>3, <3>6, <3>7, <4>1
    <3> QED
      BY <1>6, <2>1, <3>1, <3>7, <3>9, <3>10
  <2>8. ASSUME NEW amount \in build.amounts, heartbeat_add("heartbeat", amount) PROVE Goal
    <3> DEFINE gain == Clamp(ctx.values[c] + amount) - ctx.values[c]
    <3>1. amount \in (1 - UINT32)..(UINT32 - 1) /\ amount \in Int
      BY <1>1, Widths DEF AmountsFit
    <3>2. ctx' = add(ctx, c, amount) /\ UNCHANGED <<hb, serialized, log_recorded, logs>>
      BY <2>8 DEF heartbeat_add, c, Heartbeat
    <3>3. /\ truth'.added["heartbeat"] = truth.added["heartbeat"] + gain
          /\ truth'.late = IF hb.pc = "reset" THEN truth.late + gain ELSE truth.late
          /\ truth'.lines = truth.lines
      BY <1>1, <1>2, <2>8 DEF heartbeat_add, Truth, c, Heartbeat
    <3>4. add(ctx, c, amount).values[c] = clipped(ctx.values[c], amount)
      BY <1>1, <1>2, <3>1, AddValue
    <3>5. /\ add(ctx, c, amount).values[n] = ctx.values[n]
          /\ add(ctx, c, amount).last_log = ctx.last_log
      BY <1>1, <1>2, <3>1, AddTyped
    <3>6. clipped(ctx.values[c], amount) = Clamp(ctx.values[c] + amount)
      BY <1>3, <3>1, ClippedIsClamp DEF Value
    <3>12. ctx.values[c] \in Int /\ ctx.values[c] + amount \in Int
      BY <1>12, <3>1
    <3>7. Clamp(ctx.values[c] + amount) \in Int
      BY <3>12, Widths DEF Clamp
    <3> DEFINE new == Clamp(ctx.values[c] + amount)
    <3>13. ctx'.values[c] = new /\ new \in Int /\ gain = new - ctx.values[c]
      BY <3>2, <3>4, <3>6, <3>7
    <3> HIDE DEF new, gain
    <3>8. gain \in Int /\ ctx'.values[c] = ctx.values[c] + gain
      BY <3>12, <3>13
    <3> HIDE DEF gain
    <3>9. (log_recorded' - ctx'.last_log) % UINT32 = delta
      BY <3>2, <3>5
    <3> HIDE DEF delta
    <3>10. serialized["count"] \in Nat /\ ctx.values[c] \in Nat
      BY <1>1, <1>2, <1>3, <1>4
    <3>11. truth'.added["heartbeat"]
             = serialized'["count"] + (IF hb'.pc = "reset" THEN 0 ELSE ctx'.values[c]) + truth'.late
      <4>1. truth.added["heartbeat"] \in Int
        BY <1>1, <1>2
      <4>2. CASE hb.pc = "reset"
        BY <1>1, <1>6, <3>2, <3>3, <3>8, <3>10, <4>1, <4>2
      <4>3. CASE hb.pc # "reset"
        BY <1>1, <1>6, <3>2, <3>3, <3>8, <3>10, <4>1, <4>3
      <4> QED
        BY <4>2, <4>3
    <3> QED
      BY <1>6, <1>7, <1>8, <2>1, <3>2, <3>3, <3>5, <3>9, <3>11
  <2> QED
    BY <2>2, <2>3, <2>4, <2>5, <2>6, <2>7, <2>8
<1> QED
  BY <1>10, <1>11

\* Every amount added to the heartbeat, and every line logged, is in exactly one heartbeat or
\* still to be reported, for any amounts that fit their types and any number of lines that does
\* not pass the int32_t: also where the sum wraps and is clipped, where the addition preempts the
\* heartbeat, and over resets and deep sleep.
THEOREM EverythingIsCounted ==
  ASSUME AmountsFit, LinesFit
  PROVE  Spec => []CountedOnce
<1>1. Init => Typed /\ Counting
  <2> SUFFICES ASSUME Init PROVE Counting
    BY InitTyped
  <2>1. (0 - 0) % UINT32 = 0
    BY Widths, ModSmall
  <2>2. /\ "heartbeat" \in Group /\ {"count", "log_lines"} \subseteq Summed
        /\ Heartbeat("count") \in Key /\ Heartbeat("log_lines") \in Key
    BY Keys DEF Group, Summed, HeartbeatNumber
  <2>3. build.max_logs \in Nat
    BY BuildTyped DEF Init, Build
  <2>4. CountedOnce
    BY <2>1, <2>2 DEF Init, CountedOnce, Counted, Pending, NoContext, NoTruth, Zero, At
  <2> QED
    BY <2>3, <2>4 DEF Init, Counting, LinesInStep, Unbooted, NoContext, NoTruth
<1>2. Typed /\ Counting /\ [Next]_vars => (Typed /\ Counting)'
  <2> SUFFICES ASSUME Typed, Counting, [Next]_vars PROVE Typed' /\ Counting'
    OBVIOUS
  <2>1. CASE Next
    BY <2>1, TypedStep, CountingStep
  <2>2. CASE UNCHANGED vars
    BY <2>2 DEF vars, Typed, Counting, CountedOnce, Counted, Pending, LinesInStep, Unbooted
  <2> QED
    BY <2>1, <2>2
<1>3. Typed /\ Counting => CountedOnce
  BY DEF Counting
<1> QED
  BY <1>1, <1>2, <1>3, PTL DEF Spec

-------------------------------------------------------------------------------
(* The time of the timers                                                       *)

\* What a step that neither starts, stops nor updates timers of the heartbeat leaves alone.
LEMMA TimersKept ==
  ASSUME Typed, Next, NEW k \in Timer, k[1] = "heartbeat",
         ~tally, ~boot, \A crash \in BOOLEAN : ~Reset(crash),
         \A j \in Timer : ~timer_read(j), \A t \in Net : ~timer_call(t)
  PROVE  /\ k \in ctx'.running <=> k \in ctx.running
         /\ ctx'.start_time_ms[k] = ctx.start_time_ms[k]
         /\ ~reset => ctx'.values[k] = ctx.values[k]
<1> DEFINE Goal == /\ k \in ctx'.running <=> k \in ctx.running
                   /\ ctx'.start_time_ms[k] = ctx.start_time_ms[k]
                   /\ ~reset => ctx'.values[k] = ctx.values[k]
<1> SUFFICES Goal
  OBVIOUS
<1>1. now \in Nat /\ ctx \in Context /\ build \in Builds
  BY DEF Typed
<1>2. k \in Key /\ k[2] \in HeartbeatTimer
  BY DEF Timer
<1>3. \A name \in HeartbeatNumber : Heartbeat(name) \in Key /\ Heartbeat(name) # k
  BY <1>2, Keys DEF Heartbeat, HeartbeatNumber, HeartbeatTimer
<1>4. ASSUME NEW g \in Session
      PROVE  /\ g \in Group /\ g # "heartbeat" /\ IntervalMs(g) \in Timer /\ IntervalMs(g) # k
             /\ <<g, "operational_crashes">> \in Key /\ <<g, "operational_crashes">> # k
             /\ k[1] # g
  <2>1. g \in Group /\ g # "heartbeat"
    BY SessionAssumption DEF Group
  <2>2. IntervalMs(g) \in Timer /\ <<g, "operational_crashes">> \in Key
    BY <2>1, Keys
  <2>3. IntervalMs(g) # k /\ <<g, "operational_crashes">> # k /\ k[1] # g
    BY <2>1 DEF IntervalMs
  <2> QED
    BY <2>1, <2>2, <2>3
<1>5. CASE Heart
  <2>1. ASSUME reliability_collect PROVE Goal
    <3> DEFINE hours == Worked \div HOUR
               crash == IF ~reliability.counted /\ unexpected THEN 1 ELSE 0
               one == add(ctx, Heartbeat("hours"), hours)
    <3>1. ctx' = ctx \/ ctx' = add(one, Heartbeat("crashfree_hours"), hours - crash)
      BY <2>1 DEF reliability_collect, Worked, Interval
    <3> DEFINE rest == hours - crash
               j == Heartbeat("crashfree_hours")
    <3>2. hours \in Int /\ rest \in Int
      BY WorkedTyped
    <3> HIDE DEF hours, crash, rest
    <3>3. one \in Context /\ one.values[k] = ctx.values[k] /\ one.running = ctx.running
          /\ one.start_time_ms = ctx.start_time_ms
      BY <1>1, <1>2, <1>3, <3>2, AddTyped, AddValue DEF HeartbeatNumber
    <3>4. j \in Key /\ j # k
      BY <1>3 DEF HeartbeatNumber
    <3> HIDE DEF one, j
    <3>5. /\ add(one, j, rest).values[k] = one.values[k]
          /\ add(one, j, rest).running = one.running
          /\ add(one, j, rest).start_time_ms = one.start_time_ms
      BY <1>2, <3>2, <3>3, <3>4, AddTyped, AddValue
    <3> QED
      BY <3>1, <3>3, <3>5 DEF j, rest
  <2>2. ASSUME battery_store PROVE Goal
    <3>1. \A v : /\ set_unsigned(ctx, Heartbeat("soc_drop"), v).values[k] = ctx.values[k]
                 /\ set_unsigned(ctx, Heartbeat("soc_drop"), v).running = ctx.running
                 /\ set_unsigned(ctx, Heartbeat("soc_drop"), v).start_time_ms = ctx.start_time_ms
      BY <1>1, <1>2, <1>3 DEF set_unsigned, Context, HeartbeatNumber
    <3> QED
      BY <2>2, <3>1 DEF battery_store
  <2>3. ASSUME collect_logs PROVE Goal
    <3> DEFINE d(v, l) == [add(ctx, Heartbeat("log_lines"), v) EXCEPT !.last_log = l]
    <3>1. \A v, l : /\ d(v, l).values[k] = ctx.values[k]
                    /\ d(v, l).running = ctx.running
                    /\ d(v, l).start_time_ms = ctx.start_time_ms
      BY <1>1, <1>2, <1>3 DEF add, Context, HeartbeatNumber
    <3> DEFINE delta == (log_recorded - ctx.last_log) % UINT32
               amount == IF delta < UINT32 \div 2 THEN delta ELSE delta - UINT32
    <3>2. ctx' = ctx \/ ctx' = d(amount, log_recorded)
      BY <2>3 DEF collect_logs
    <3> HIDE DEF amount, d
    <3>3. CASE ctx' = ctx
      BY <3>3
    <3>4. CASE ctx' = d(amount, log_recorded)
      BY <3>1, <3>4
    <3> QED
      BY <3>2, <3>3, <3>4
  <2>4. ASSUME enter_sleep PROVE Goal
    BY <1>1, <2>4 DEF enter_sleep, Context
  <2>5. ASSUME reset PROVE Goal
    BY <1>1, <2>5, ResetTyped DEF reset, Group
  <2>6. ASSUME \/ heartbeat_timer \/ tallied \/ printed \/ \E prints \in BOOLEAN : collect_data(prints)
               \/ heartbeat_collect \/ battery_cache \/ battery_sample \/ encode \/ wake
        PROVE  Goal
    BY <2>6 DEF heartbeat_timer, tallied, printed, collect_data, heartbeat_collect, battery_cache,
       battery_sample, encode, wake
  <2> HIDE DEF Goal
  <2> QED
    BY <1>5, <2>1, <2>2, <2>3, <2>4, <2>5, <2>6 DEF Heart
<1>6. CASE Boot
  <2>1. ASSUME NEW g \in Session, check_session(g) PROVE Goal
    <3> DEFINE c == reset_metrics(ctx, g)
               j == <<g, "operational_crashes">>
    <3>1. /\ c \in Context /\ c.values[k] = ctx.values[k] /\ c.running = ctx.running
          /\ c.start_time_ms = ctx.start_time_ms
      <4>1. g \in Group /\ k[1] # g
        BY <1>4
      <4> QED
        BY <1>1, <1>2, <4>1, ResetTyped
    <3>2. ctx' = ctx \/ ctx' = add(c, j, 1)
      BY <2>1 DEF check_session
    <3>3. j \in Key /\ j # k
      BY <1>4
    <3> HIDE DEF c, j
    <3>4. /\ add(c, j, 1).values[k] = c.values[k] /\ add(c, j, 1).running = c.running
          /\ add(c, j, 1).start_time_ms = c.start_time_ms
      BY <1>2, <3>1, <3>3, AddTyped, AddValue
    <3> QED
      BY <3>1, <3>2, <3>4
  <2> QED
    BY <1>6, <2>1 DEF Boot, end_boot, battery_boot
<1>7. CASE Application
  <2>1. ASSUME NEW g \in Group, NEW amount \in build.amounts, heartbeat_add(g, amount) PROVE Goal
    <3> DEFINE j == <<g, "count">>
    <3>1. ctx' = add(ctx, j, amount)
      BY <2>1 DEF heartbeat_add
    <3>2. j \in Key /\ j # k /\ amount \in Int
      BY <1>1, <1>2, Keys, BuildTyped DEF HeartbeatTimer
    <3> HIDE DEF j
    <3>3. /\ add(ctx, j, amount).values[k] = ctx.values[k] /\ add(ctx, j, amount).running = ctx.running
          /\ add(ctx, j, amount).start_time_ms = ctx.start_time_ms
      BY <1>1, <1>2, <3>2, AddTyped, AddValue
    <3> QED
      BY <3>1, <3>3
  <2>2. ASSUME NEW g \in Session, session_start(g) PROVE Goal
    <3> DEFINE c == reset_metrics(ctx, g)
               j == IntervalMs(g)
    <3>1. /\ c \in Context /\ c.values[k] = ctx.values[k] /\ c.running = ctx.running
          /\ c.start_time_ms = ctx.start_time_ms
      <4>1. g \in Group /\ k[1] # g
        BY <1>4
      <4> QED
        BY <1>1, <1>2, <4>1, ResetTyped
    <3>2. ctx' = timer_start(c, j) /\ j \in Timer /\ j # k
      BY <1>4, <2>2 DEF session_start
    <3> HIDE DEF c, j
    <3>3. /\ timer_start(c, j).values[k] = c.values[k]
          /\ k \in timer_start(c, j).running <=> k \in c.running
          /\ timer_start(c, j).start_time_ms[k] = c.start_time_ms[k]
      BY <1>1, <3>1, <3>2, StartTyped
    <3> QED
      BY <3>1, <3>2, <3>3
  <2>3. ASSUME NEW g \in Session, session_end(g) \/ session_reset(g) PROVE Goal
    <3> DEFINE c == timer_stop(ctx, IntervalMs(g))
               j == IntervalMs(g)
    <3>0. j \in Timer /\ j # k /\ g \in Group /\ k[1] # g
      BY <1>4
    <3>1. /\ c \in Context /\ c.values[k] = ctx.values[k] /\ (k \in c.running <=> k \in ctx.running)
          /\ c.start_time_ms[k] = ctx.start_time_ms[k]
      <4> HIDE DEF j
      <4>1. c = timer_stop(ctx, j)
        BY DEF j
      <4> HIDE DEF c
      <4> QED
        BY <1>1, <1>2, <3>0, <4>1, StopTyped
    <3>2. ctx' = c \/ ctx' = reset_metrics(c, g)
      BY <2>3 DEF session_end, session_reset
    <3> HIDE DEF c
    <3>3. /\ reset_metrics(c, g).values[k] = c.values[k] /\ reset_metrics(c, g).running = c.running
          /\ reset_metrics(c, g).start_time_ms = c.start_time_ms
      BY <1>2, <3>0, <3>1, ResetTyped
    <3> QED
      BY <3>1, <3>2, <3>3
  <2> QED
    BY <1>7, <2>1, <2>2, <2>3 DEF Application, connected_state_change
<1>8. CASE Device
  BY <1>8 DEF Device, Tick, stopped_discharging, Unplug, Log
<1> QED
  BY <1>5, <1>6, <1>7, <1>8 DEF Next

\* What a running timer has not counted yet, and all the time a metric stands for.
Elapsed(c, k) == elapsed(c.start_time_ms[k], now % TIMER_MAX)
TimeOf(c, k) == c.values[k] + (IF k \in c.running THEN Elapsed(c, k) ELSE 0)
\* An operation moves time between the two, and loses none.
SameTime(c, d, k) ==
  /\ TimeOf(d, k) = TimeOf(c, k)
  /\ k \in d.running => Elapsed(d, k) = 0 \/ (k \in c.running /\ Elapsed(d, k) = Elapsed(c, k))

LEMMA ElapsedTyped ==
  ASSUME now \in Nat, NEW c \in Context, NEW k \in Timer
  PROVE  /\ Elapsed(c, k) \in Time /\ Elapsed(c, k) \in Nat /\ Elapsed(c, k) < TIMER_MAX
         /\ c.values[k] \in Nat /\ c.values[k] < UINT32 /\ TimeOf(c, k) \in Nat
         /\ elapsed(now % TIMER_MAX, now % TIMER_MAX) = 0
<1>1. c.start_time_ms[k] \in Time /\ now % TIMER_MAX \in Time
  BY NowInTime DEF Context
<1>2. Elapsed(c, k) \in Time
  BY <1>1, ElapsedRange DEF Elapsed
<1>3. Elapsed(c, k) \in Nat /\ Elapsed(c, k) < TIMER_MAX
  BY <1>2, Widths DEF Time
<1>4. c.values[k] \in Value
  BY Keys DEF Context
<1>5. c.values[k] \in Nat /\ c.values[k] < UINT32
  BY <1>4, Widths DEF Value
<1>6. elapsed(now % TIMER_MAX, now % TIMER_MAX) = 0
  BY <1>1, Widths DEF elapsed, Time
<1>7. TimeOf(c, k) \in Nat
  BY <1>3, <1>5 DEF TimeOf
<1> QED
  BY <1>2, <1>3, <1>5, <1>6, <1>7

LEMMA UpdatedIsTime ==
  ASSUME now \in Nat, NEW c \in Context, NEW k \in Timer, TimeOf(c, k) < UINT32
  PROVE  Updated(c, k) = TimeOf(c, k)
<1>1. CASE k \in c.running
  <2>1. Updated(c, k) = (c.values[k] + Elapsed(c, k)) % UINT32
    BY <1>1 DEF Updated, Elapsed
  <2>2. TimeOf(c, k) = c.values[k] + Elapsed(c, k)
    BY <1>1 DEF TimeOf
  <2>3. TimeOf(c, k) \in 0..(UINT32 - 1)
    BY ElapsedTyped, Widths
  <2>4. TimeOf(c, k) % UINT32 = TimeOf(c, k)
    BY <2>3, Widths, ModSmall
  <2> QED
    BY <2>1, <2>2, <2>4
<1>2. CASE k \notin c.running
  <2>1. c.values[k] \in Nat
    BY ElapsedTyped
  <2> QED
    BY <1>2, <2>1 DEF Updated, TimeOf
<1> QED
  BY <1>1, <1>2

LEMMA StartSameTime ==
  ASSUME now \in Nat, NEW c \in Context, NEW j \in Timer, NEW k \in Timer
  PROVE  SameTime(c, timer_start(c, j), k)
<1> DEFINE d == timer_start(c, j)
<1>1. /\ d \in Context /\ d.values = c.values /\ d.running = c.running \cup {j}
      /\ d.start_time_ms[k] = IF k = j /\ j \notin c.running THEN now % TIMER_MAX ELSE c.start_time_ms[k]
  BY StartTyped
<1> HIDE DEF d
<1>2. c.values[k] \in Nat /\ Elapsed(c, k) \in Nat /\ elapsed(now % TIMER_MAX, now % TIMER_MAX) = 0
  BY ElapsedTyped
<1>3. CASE k = j /\ j \notin c.running
  <2>1. Elapsed(d, k) = 0
    BY <1>1, <1>2, <1>3 DEF Elapsed
  <2> QED
    BY <1>1, <1>2, <1>3, <2>1 DEF SameTime, TimeOf, d
<1>4. CASE ~(k = j /\ j \notin c.running)
  <2>1. Elapsed(d, k) = Elapsed(c, k) /\ (k \in d.running <=> k \in c.running)
    BY <1>1, <1>4 DEF Elapsed
  <2> QED
    BY <1>1, <1>2, <2>1 DEF SameTime, TimeOf, d
<1> QED
  BY <1>3, <1>4

LEMMA UpdateSameTime ==
  ASSUME now \in Nat, NEW c \in Context, NEW j \in Timer, NEW k \in Timer, TimeOf(c, k) < UINT32
  PROVE  SameTime(c, timer_update(c, j), k)
<1> DEFINE d == timer_update(c, j)
<1>1. /\ d \in Context /\ d.values[k] = (IF k = j THEN Updated(c, k) ELSE c.values[k])
      /\ d.running = c.running
      /\ d.start_time_ms[k] = IF k = j /\ j \in c.running THEN now % TIMER_MAX ELSE c.start_time_ms[k]
  BY Keys, UpdateTyped
<1> HIDE DEF d
<1>2. /\ c.values[k] \in Nat /\ Elapsed(c, k) \in Nat /\ elapsed(now % TIMER_MAX, now % TIMER_MAX) = 0
      /\ TimeOf(c, k) \in Nat
  BY ElapsedTyped
<1>3. Updated(c, k) = TimeOf(c, k)
  BY UpdatedIsTime
<1>4. CASE k = j /\ j \in c.running
  <2>1. Elapsed(d, k) = 0
    BY <1>1, <1>2, <1>4 DEF Elapsed
  <2>2. TimeOf(d, k) = d.values[k] + 0
    BY <1>1, <1>4, <2>1 DEF TimeOf
  <2> QED
    BY <1>1, <1>2, <1>3, <1>4, <2>1, <2>2 DEF SameTime, d
<1>5. CASE k = j /\ j \notin c.running
  <2>1. TimeOf(d, k) = d.values[k] + 0
    BY <1>1, <1>5 DEF TimeOf
  <2> QED
    BY <1>1, <1>2, <1>3, <1>5, <2>1 DEF SameTime, d
<1>6. CASE k # j
  <2>1. Elapsed(d, k) = Elapsed(c, k)
    BY <1>1, <1>6 DEF Elapsed
  <2> QED
    BY <1>1, <1>2, <1>6, <2>1 DEF SameTime, TimeOf, d
<1> QED
  BY <1>4, <1>5, <1>6

LEMMA StopSameTime ==
  ASSUME now \in Nat, NEW c \in Context, NEW j \in Timer, NEW k \in Timer, TimeOf(c, k) < UINT32
  PROVE  SameTime(c, timer_stop(c, j), k)
<1> DEFINE d == timer_stop(c, j)
<1>1. /\ d \in Context /\ d.values[k] = (IF k = j THEN Updated(c, k) ELSE c.values[k])
      /\ d.running = c.running \ {j}
      /\ k # j => d.start_time_ms[k] = c.start_time_ms[k]
  BY Keys, StopTyped
<1> HIDE DEF d
<1>2. c.values[k] \in Nat /\ Elapsed(c, k) \in Nat /\ TimeOf(c, k) \in Nat
  BY ElapsedTyped
<1>3. Updated(c, k) = TimeOf(c, k)
  BY UpdatedIsTime
<1>4. CASE k = j
  <2>1. k \notin d.running /\ TimeOf(d, k) = d.values[k] + 0
    BY <1>1, <1>4 DEF TimeOf
  <2> QED
    BY <1>1, <1>2, <1>3, <1>4, <2>1 DEF SameTime, d
<1>5. CASE k # j
  <2>1. Elapsed(d, k) = Elapsed(c, k) /\ (k \in d.running <=> k \in c.running)
    BY <1>1, <1>5 DEF Elapsed
  <2> QED
    BY <1>1, <1>2, <1>5, <2>1 DEF SameTime, TimeOf, d
<1> QED
  BY <1>4, <1>5

LEMMA ElapsedNext ==
  ASSUME now \in Nat, NEW c \in Context, NEW k \in Timer, Elapsed(c, k) < TIMER_MAX - 1
  PROVE  elapsed(c.start_time_ms[k], (now + 1) % TIMER_MAX) = Elapsed(c, k) + 1
<1>1. c.start_time_ms[k] \in 0..(TIMER_MAX - 1)
  BY DEF Context, Time
<1>2. now % TIMER_MAX \in 0..(TIMER_MAX - 1) /\ (now + 1) % TIMER_MAX \in 0..(TIMER_MAX - 1)
  BY Widths, ModRange
<1>3. /\ Elapsed(c, k) = Since(TIMER_MAX, c.start_time_ms[k], now % TIMER_MAX)
      /\ elapsed(c.start_time_ms[k], (now + 1) % TIMER_MAX)
           = Since(TIMER_MAX, c.start_time_ms[k], (now + 1) % TIMER_MAX)
  BY <1>1, <1>2, Widths, ElapsedIsSince DEF Elapsed
<1> DEFINE from == c.start_time_ms[k]
<1>4. from \in 0..(TIMER_MAX - 1) /\ TIMER_MAX \in Nat \ {0}
  BY <1>1, Widths
<1> HIDE DEF from
<1>5. /\ Since(TIMER_MAX, from, now % TIMER_MAX) \in 0..(TIMER_MAX - 1)
      /\ Since(TIMER_MAX, from, now % TIMER_MAX) < TIMER_MAX - 1 =>
           Since(TIMER_MAX, from, (now + 1) % TIMER_MAX) = Since(TIMER_MAX, from, now % TIMER_MAX) + 1
  BY <1>4, SinceNext
<1> QED
  BY <1>3, <1>5 DEF from

\* What the history of a timer of the heartbeat depends on.
LEMMA TimeHistoryKept ==
  ASSUME Typed, Next, NEW k \in Timer, k[1] = "heartbeat",
         ~encode, ~heartbeat_timer, ~tallied, ~boot, ~Tick, \A crash \in BOOLEAN : ~Reset(crash)
  PROVE  /\ serialized' = serialized /\ now' = now
         /\ truth'.ran[k] = truth.ran[k] /\ truth'.beat = truth.beat
         /\ truth'.began = truth.began /\ truth'.apart = truth.apart
<1> DEFINE Goal == /\ serialized' = serialized /\ now' = now
                   /\ truth'.ran[k] = truth.ran[k] /\ truth'.beat = truth.beat
                   /\ truth'.began = truth.began /\ truth'.apart = truth.apart
<1> SUFFICES Goal
  OBVIOUS
<1>0. truth \in Truth
  BY DEF Typed
<1>1. CASE Heart
  BY <1>1 DEF Heart, heartbeat_collect, reliability_collect, battery_cache, battery_sample, battery_store,
     collect_logs, tally, printed, collect_data, reset, enter_sleep, wake, history, env
<1>2. CASE Boot
  <2>1. ASSUME NEW g \in Session, check_session(g) PROVE Goal
    BY <1>0, <2>1 DEF check_session, Truth, env
  <2>2. ASSUME end_boot PROVE Goal
    BY <1>0, <2>2 DEF end_boot, Truth, env
  <2>3. ASSUME battery_boot PROVE Goal
    BY <2>3 DEF battery_boot, env
  <2> QED
    BY <1>2, <2>1, <2>2, <2>3 DEF Boot
<1>3. CASE Application
  <2>1. ASSUME NEW g \in Group, NEW amount \in build.amounts, heartbeat_add(g, amount) PROVE Goal
    BY <1>0, <2>1 DEF heartbeat_add, Truth
  <2>2. ASSUME NEW j \in Timer, timer_read(j) PROVE Goal
    BY <2>2 DEF timer_read, unmoved
  <2>3. ASSUME NEW g \in Session, session_start(g) PROVE Goal
    <3>1. IntervalMs(g) # k
      BY SessionAssumption DEF IntervalMs
    <3>2. truth'.ran[k] = truth.ran[k] /\ truth'.beat = truth.beat
          /\ truth'.began = truth.began /\ truth'.apart = truth.apart
      BY <1>0, <2>3, <3>1 DEF session_start, Truth
    <3> QED
      BY <2>3, <3>2 DEF session_start, unmoved
  <2>4. ASSUME NEW g \in Session, session_end(g) \/ session_reset(g) PROVE Goal
    BY <1>0, <2>4 DEF session_end, session_reset, unmoved, Truth
  <2>5. ASSUME NEW t \in Net, timer_call(t) PROVE Goal
    BY <2>5 DEF timer_call, unmoved
  <2>6. ASSUME NEW t \in Net, NEW state \in DOMAIN StateCalls, connected_state_change(t, state)
        PROVE  Goal
    BY <2>6 DEF connected_state_change, unmoved
  <2> QED
    BY <1>3, <2>1, <2>2, <2>3, <2>4, <2>5, <2>6 DEF Application
<1>4. CASE Device
  <2>1. ASSUME Log PROVE Goal
    BY <1>0, <2>1 DEF Log, Truth
  <2>2. ASSUME stopped_discharging \/ Unplug PROVE Goal
    BY <2>2 DEF stopped_discharging, Unplug, env
  <2> QED
    BY <1>4, <2>1, <2>2 DEF Device
<1> QED
  BY <1>1, <1>2, <1>3, <1>4 DEF Next

\* A heartbeat that began with an update of the timers is under way: its metrics hold the time
\* before that update, too.
Heartbeating ==
  hb.then = "encode" /\ hb.pc \in {"collect", "battery_cache", "battery_sample", "battery_store",
                                   "collect_logs", "collect_data", "print", "encode", "reset"}
Slack == IF Heartbeating THEN TIMER_MAX - 1 ELSE 0

Timed(name) ==
  LET k == Heartbeat(name)
  IN /\ truth.ran[k] = serialized[name] + (IF hb.pc = "reset" THEN 0 ELSE ctx.values[k])
                       + (IF k \in ctx.running THEN Elapsed(ctx, k) ELSE 0)
     /\ hb.pc # "boot" => /\ k \in ctx.running => Elapsed(ctx, k) <= now - truth.beat
                          /\ TimeOf(ctx, k) <= now - truth.beat + Slack
BeatInStep ==
  /\ Unbooted
  /\ hb.pc \in {"idle", "tally"} => hb.then = "encode"
  /\ \A t \in Net : net[t] # <<>> => t \in build.connectivity
  /\ hb.pc # "boot" => /\ truth.beat <= now /\ now - truth.beat < TIMER_MAX
                       /\ IntervalMs("heartbeat") \in ctx.running
\* A timer that the update has been at holds the time before it began.
Updating ==
  hb.pc = "tally" =>
    /\ truth.beat <= truth.began /\ truth.began <= now
    /\ \A k \in ctx.running \ hb.timers : Elapsed(ctx, k) <= now - truth.began
Timing == BeatInStep /\ Updating /\ \A name \in HeartbeatTimer : Timed(name)

\* The timers are touched where the update of the heartbeat is not under way.
LEMMA TimersWhen ==
  ASSUME Typed, BeatInStep
  PROVE  /\ \A j \in Timer : timer_read(j) => hb.pc \in {"idle", "collect_data"}
         /\ \A t \in Net : timer_call(t) => hb.pc = "idle"
<1>1. ASSUME NEW j \in Timer, timer_read(j) PROVE hb.pc \in {"idle", "collect_data"}
  BY <1>1 DEF timer_read, Callable, Free
<1>2. ASSUME NEW t \in Net, timer_call(t) PROVE hb.pc = "idle"
  <2>1. t \in build.connectivity /\ Free
    BY <1>2 DEF timer_call, BeatInStep
  <2>2. ~build.preemptive
    BY <2>1, BuildTyped DEF Typed
  <2> QED
    BY <2>1, <2>2 DEF Free
<1> QED
  BY <1>1, <1>2

LEMMA SlackKept ==
  ASSUME Typed, Next, BeatInStep, ~reset, \A crash \in BOOLEAN : ~Reset(crash)
  PROVE  Heartbeating => Heartbeating'
<1> SUFFICES ASSUME Heartbeating PROVE Heartbeating'
  OBVIOUS
<1>1. hb.then = "encode" /\ hb.pc \notin {"idle", "boot", "check", "battery_boot", "sleep", "asleep"}
  BY DEF Heartbeating
<1>2. CASE Heart
  <2>1. ASSUME reliability_collect PROVE Heartbeating'
    BY <1>1, <2>1, HeartMoves DEF Heartbeating, Moves
  <2>2. ASSUME battery_cache \/ battery_sample \/ battery_store \/ collect_logs \/ encode
        PROVE  Heartbeating'
    BY <1>1, <2>2, HeartMoves DEF Heartbeating, Moves
  <2>3. ASSUME tally \/ printed \/ \E prints \in BOOLEAN : collect_data(prints) PROVE Heartbeating'
    BY <1>1, <2>3, HeartMoves DEF Heartbeating, Moves
  <2>4. ~heartbeat_timer /\ ~tallied /\ ~heartbeat_collect /\ ~enter_sleep /\ ~wake
    BY <1>1 DEF Heartbeating, heartbeat_timer, tallied, heartbeat_collect, enter_sleep, wake
  <2> QED
    BY <1>2, <2>1, <2>2, <2>3, <2>4 DEF Heart
<1>3. CASE Boot
  BY <1>1, <1>3 DEF Boot, boot, check_session, end_boot, battery_boot
<1>4. CASE Application \/ Device
  <2>1. hb' = hb
    BY <1>4, OthersStay DEF Device
  <2> QED
    BY <2>1 DEF Heartbeating
<1> QED
  BY <1>2, <1>3, <1>4 DEF Next

LEMMA TimedStep ==
  ASSUME TwiceTheTimer, Typed, Timing, Next, NEW name \in HeartbeatTimer
  PROVE  Timed(name)'
<1> DEFINE k == Heartbeat(name)
           P == IF hb.pc = "reset" THEN 0 ELSE ctx.values[k]
           E == IF k \in ctx.running THEN Elapsed(ctx, k) ELSE 0
<1>1. now \in Nat /\ ctx \in Context /\ build \in Builds /\ truth \in Truth /\ hb \in Task
      /\ serialized \in [Summed -> Nat]
  BY DEF Typed
<1>2. k \in Timer /\ k \in Key /\ k[1] = "heartbeat" /\ name \in Summed
  BY Keys DEF Heartbeat, Summed
<1>3. /\ Elapsed(ctx, k) \in Nat /\ ctx.values[k] \in Nat /\ TimeOf(ctx, k) \in Nat
      /\ serialized[name] \in Nat /\ truth.ran[k] \in Nat /\ truth.beat \in Nat
  BY <1>1, <1>2, ElapsedTyped DEF Truth
<1>4. /\ truth.ran[k] = serialized[name] + P + E
      /\ TimeOf(ctx, k) = ctx.values[k] + E
      /\ hb.pc # "boot" => /\ k \in ctx.running => Elapsed(ctx, k) <= now - truth.beat
                           /\ TimeOf(ctx, k) <= now - truth.beat + Slack
  BY DEF Timing, Timed, TimeOf
<1>5. /\ hb.pc \in {"idle", "tally"} => hb.then = "encode"
      /\ hb.pc # "boot" => truth.beat <= now /\ now - truth.beat < TIMER_MAX
      /\ hb.pc = "boot" => ctx = NoContext
  BY DEF Timing, BeatInStep, Unbooted
<1>6. Slack \in Nat /\ Slack <= TIMER_MAX - 1
  BY Widths DEF Slack
<1>7. hb.pc # "boot" => TimeOf(ctx, k) < UINT32
  BY <1>1, <1>3, <1>4, <1>5, <1>6, Widths DEF TwiceTheTimer
<1> DEFINE Goal ==
      /\ truth'.ran[k] = serialized'[name] + (IF hb'.pc = "reset" THEN 0 ELSE ctx'.values[k])
                         + (IF k \in ctx'.running THEN Elapsed(ctx, k)' ELSE 0)
      /\ hb'.pc # "boot" => /\ k \in ctx'.running => Elapsed(ctx, k)' <= now' - truth'.beat
                            /\ TimeOf(ctx, k)' <= now' - truth'.beat + Slack'
<1> SUFFICES Goal
  BY DEF Timed
<1> HIDE DEF k
<1>8. NoContext.values[k] = 0 /\ NoContext.running = {}
  BY <1>2 DEF NoContext, Zero
<1>9. \A crash \in BOOLEAN : Reset(crash) => Goal
  <2>1. ASSUME NEW crash \in BOOLEAN, Reset(crash) PROVE Goal
    <3>1. hb'.pc = "boot" /\ ctx' = NoContext /\ serialized'[name] = 0 /\ truth'.ran[k] = 0
      BY <1>2, <2>1 DEF Reset, At, Zero, NoTruth
    <3> QED
      BY <1>8, <3>1
  <2> QED
    BY <2>1
<1>10. ASSUME \A crash \in BOOLEAN : ~Reset(crash) PROVE Goal
  <2>1. hb'.pc # "boot"
    BY <1>10, BootFirst
  <2>2. CASE boot
    <3>1. hb.pc = "boot" /\ hb'.pc = "check" /\ hb'.then = "encode"
      BY <2>2, BootMoves
    <3>2. now' = now /\ serialized' = serialized /\ truth' = [truth EXCEPT !.beat = now]
      BY <2>2 DEF boot, env
    <3>3. truth'.ran[k] = truth.ran[k] /\ truth'.beat = now
      BY <1>1, <3>2 DEF Truth
    <3> DEFINE j == Heartbeat("unexpected_reboots")
               i == IntervalMs("heartbeat")
               d == timer_start(NoContext, i)
               v == IF unexpected THEN 1 ELSE 0
    <3>4. j \in Key /\ j # k /\ v \in Value /\ i \in Timer
      BY <1>2, Keys, Small DEF HeartbeatNumber, Group
    <3>5. ctx' = set_unsigned(d, j, v)
      BY <2>2 DEF boot
    <3> HIDE DEF j, v, i
    <3>6. d \in Context /\ SameTime(NoContext, d, k) /\ d.values = NoContext.values
      BY <1>1, <1>2, <3>4, NoContextTyped, StartSameTime, StartTyped
    <3> HIDE DEF d
    <3>7. /\ ctx'.values[k] = d.values[k] /\ ctx'.running = d.running
          /\ ctx'.start_time_ms = d.start_time_ms
      BY <1>2, <3>4, <3>5, <3>6, SetTyped
    <3>8. TimeOf(NoContext, k) = 0
      BY <1>8 DEF TimeOf
    <3>9. Elapsed(ctx, k)' = Elapsed(d, k)
      BY <3>2, <3>7 DEF Elapsed
    <3>10. k \in ctx'.running => Elapsed(ctx, k)' = 0
      BY <1>8, <3>6, <3>7, <3>9 DEF SameTime
    <3>11. ctx'.values[k] = 0
      BY <1>8, <3>6, <3>7
    <3>12. TimeOf(ctx, k)' = 0
      BY <3>10, <3>11 DEF TimeOf
    <3>13. truth.ran[k] = serialized[name] + 0
      BY <1>3, <1>4, <1>5, <1>8, <3>1
    <3>14. Slack' \in Nat
      BY Widths DEF Slack
    <3> QED
      BY <1>1, <1>3, <3>1, <3>2, <3>3, <3>10, <3>11, <3>12, <3>13, <3>14
  <2>3. ASSUME ~boot PROVE hb.pc # "boot" /\ TimeOf(ctx, k) < UINT32
    BY <1>7, <1>10, <2>3, BootFirst
  <2>4. CASE Tick
    <3>1. /\ now' = now + 1 /\ now + 1 - truth.beat < TIMER_MAX
          /\ UNCHANGED <<ctx, hb, serialized>>
      BY <2>4 DEF Tick
    <3>2. hb.pc # "boot"
      BY <2>4 DEF Tick, Free, Awake, Booting
    <3>3. k[1] \notin truth.open
      BY <1>1, <1>2, SessionAssumption DEF Truth
    <3>4. k = IntervalMs("heartbeat") => k \in ctx.running
      BY <3>2 DEF Timing, BeatInStep
    <3>5. truth'.beat = truth.beat
      BY <1>1, <2>4 DEF Tick, Truth
    <3>6. truth'.ran[k] = IF k \in ctx.running THEN truth.ran[k] + 1 ELSE truth.ran[k]
      <4> DEFINE r == [j \in Timer |-> IF \/ j = IntervalMs("heartbeat") \/ j[1] \in truth.open
                                          \/ j[1] = "heartbeat" /\ j \in ctx.running
                                       THEN truth.ran[j] + 1 ELSE truth.ran[j]]
      <4>1. truth'.ran = r
        BY <1>1, <2>4 DEF Tick, Truth
      <4>2. r[k] = IF k \in ctx.running THEN truth.ran[k] + 1 ELSE truth.ran[k]
        BY <1>2, <3>3, <3>4
      <4> QED
        BY <4>1, <4>2
    <3>7. k \in ctx.running => Elapsed(ctx, k)' = Elapsed(ctx, k) + 1
      <4> SUFFICES ASSUME k \in ctx.running PROVE Elapsed(ctx, k)' = Elapsed(ctx, k) + 1
        OBVIOUS
      <4>1. Elapsed(ctx, k) < TIMER_MAX - 1
        BY <1>1, <1>3, <1>4, <3>1, <3>2, Widths
      <4>2. elapsed(ctx.start_time_ms[k], (now + 1) % TIMER_MAX) = Elapsed(ctx, k) + 1
        BY <1>1, <1>2, <4>1, ElapsedNext
      <4> QED
        BY <3>1, <4>2 DEF Elapsed
    <3>8. Slack' = Slack
      BY <3>1 DEF Slack, Heartbeating
    <3>9. CASE k \in ctx.running
      <4>1. TimeOf(ctx, k)' = ctx.values[k] + Elapsed(ctx, k) + 1 /\ TimeOf(ctx, k) = ctx.values[k] + Elapsed(ctx, k)
        BY <1>3, <3>1, <3>7, <3>9 DEF TimeOf
      <4> QED
        BY <1>1, <1>3, <1>4, <1>6, <3>1, <3>2, <3>5, <3>6, <3>7, <3>8, <3>9, <4>1
    <3>10. CASE k \notin ctx.running
      <4>1. TimeOf(ctx, k)' = ctx.values[k] + 0 /\ TimeOf(ctx, k) = ctx.values[k] + 0
        BY <3>1, <3>10 DEF TimeOf
      <4> QED
        BY <1>1, <1>3, <1>4, <1>6, <3>1, <3>2, <3>5, <3>6, <3>8, <3>10, <4>1
    <3> QED
      BY <3>9, <3>10
  <2>5. CASE tallied
    <3>1. hb.pc = "tally" /\ hb'.pc = "collect" /\ hb'.then = hb.then
      BY <2>5, HeartMoves DEF Moves
    <3>2. now' = now /\ serialized' = serialized /\ ctx' = ctx /\ hb.timers = {}
      BY <2>5 DEF tallied, env
    <3>3. truth'.ran[k] = truth.ran[k] /\ truth'.beat = truth.began /\ truth.began \in Nat
      BY <1>1, <2>5, NotesOnly DEF Truth
    <3>4. Slack = 0 /\ Slack' = TIMER_MAX - 1
      BY <1>5, <3>1 DEF Slack, Heartbeating
    <3>5. truth.began <= now /\ (k \in ctx.running => Elapsed(ctx, k) <= now - truth.began)
      BY <3>1, <3>2 DEF Timing, Updating
    <3>6. Elapsed(ctx, k)' = Elapsed(ctx, k) /\ TimeOf(ctx, k)' = TimeOf(ctx, k)
      BY <3>2 DEF Elapsed, TimeOf
    <3> QED
      BY <1>1, <1>3, <1>4, <1>5, <3>1, <3>2, <3>3, <3>4, <3>5, <3>6, Widths
  <2>6. CASE encode
    <3>1. hb.pc = "encode" /\ hb'.pc = "reset" /\ hb'.then = hb.then
      BY <2>6, HeartMoves DEF Moves
    <3>0. ~tallied /\ ~heartbeat_timer
      BY <3>1 DEF tallied, heartbeat_timer
    <3>2. UNCHANGED <<now, ctx>> /\ truth'.ran = truth.ran /\ truth'.beat = truth.beat
      BY <2>6, <3>0, NotesOnly DEF encode, env
    <3>3. serialized'[name] = serialized[name] + ctx.values[k]
      BY <1>2, <2>6 DEF encode, k
    <3>4. Slack' = Slack /\ Elapsed(ctx, k)' = Elapsed(ctx, k) /\ TimeOf(ctx, k)' = TimeOf(ctx, k)
      BY <3>1, <3>2 DEF Slack, Heartbeating, Elapsed, TimeOf
    <3> QED
      BY <1>1, <1>3, <1>4, <3>1, <3>2, <3>3, <3>4
  <2>7. CASE reset
    <3>1. hb.pc = "reset" /\ hb'.pc = "idle"
      BY <2>7, HeartMoves DEF At
    <3>2. UNCHANGED <<now, truth, serialized>> /\ ctx' = reset_metrics(ctx, "heartbeat")
      BY <2>7 DEF reset, env, history
    <3>3. ctx'.values[k] = 0 /\ ctx'.running = ctx.running /\ ctx'.start_time_ms = ctx.start_time_ms
      BY <1>1, <1>2, <3>2, ResetTyped DEF Group
    <3>4. Elapsed(ctx, k)' = Elapsed(ctx, k) /\ TimeOf(ctx, k)' = 0 + E
      BY <3>2, <3>3 DEF Elapsed, TimeOf
    <3>5. Slack' = 0
      BY <3>1 DEF Slack, Heartbeating
    <3>6. E <= now - truth.beat
      BY <1>1, <1>3, <1>4, <1>5, <3>1
    <3> QED
      BY <1>1, <1>3, <1>4, <1>5, <3>1, <3>2, <3>3, <3>4, <3>5, <3>6
  <2>8. ASSUME \/ tally
               \/ \E j \in Timer : timer_read(j)
               \/ \E t \in Net : timer_call(t)
        PROVE  Goal
    <3>1. hb.pc \in {"idle", "tally", "print", "collect_data"} /\ hb.pc # "boot"
      BY <2>8, HeartMoves, TimersWhen DEF Timing
    <3>2. hb'.pc # "reset"
      <4>1. CASE tally
        BY <4>1, HeartMoves DEF Moves
      <4>2. CASE (\E j \in Timer : timer_read(j)) \/ \E t \in Net : timer_call(t)
        BY <3>1, <4>2 DEF timer_read, timer_call, unmoved
      <4> QED
        BY <2>8, <4>1, <4>2
    <3>3. SameTime(ctx, ctx', k)
      <4>2. ASSUME tally PROVE SameTime(ctx, ctx', k)
        BY <1>1, <1>2, <1>7, <3>1, <4>2, TallyNext, UpdateSameTime
      <4>3. ASSUME NEW j \in Timer, timer_read(j) PROVE SameTime(ctx, ctx', k)
        BY <1>1, <1>2, <1>7, <3>1, <4>3, UpdateSameTime DEF timer_read
      <4>4. ASSUME NEW t \in Net, timer_call(t) PROVE SameTime(ctx, ctx', k)
        <5> DEFINE j == Head(net[t])[2]
        <5>1. Head(net[t]) \in Call
          BY <4>4 DEF timer_call, Typed
        <5>2. j \in Timer
          BY <5>1, Keys DEF Call, HeartbeatTimer
        <5>3. ctx' = timer_start(ctx, j) \/ ctx' = timer_stop(ctx, j)
          BY <4>4 DEF timer_call
        <5> HIDE DEF j
        <5> QED
          BY <1>1, <1>2, <1>7, <3>1, <5>2, <5>3, StartSameTime, StopSameTime
      <4> QED
        BY <2>8, <4>2, <4>3, <4>4
    <3>4. serialized' = serialized /\ now' = now /\ truth'.ran[k] = truth.ran[k] /\ truth'.beat = truth.beat
      BY <2>8 DEF tally, timer_read, timer_call, unmoved, history, env
    <3>5. Elapsed(ctx, k)' = Elapsed(ctx', k) /\ TimeOf(ctx, k)' = TimeOf(ctx', k)
      BY <3>4 DEF Elapsed, TimeOf
    <3>6. Slack <= Slack' /\ Slack' \in Nat
      <4>1. ~reset
        BY <3>1 DEF reset
      <4>2. Heartbeating => Heartbeating'
        BY <1>10, <4>1, SlackKept DEF Timing
      <4> QED
        BY <4>2, Widths DEF Slack
    <3>7. /\ ctx'.values[k] \in Nat /\ Elapsed(ctx', k) \in Nat /\ TimeOf(ctx', k) \in Nat
      BY <1>1, <1>2, ContextTyped, ElapsedTyped
    <3> DEFINE F == IF k \in ctx'.running THEN Elapsed(ctx', k) ELSE 0
    <3>8. TimeOf(ctx', k) = ctx'.values[k] + F /\ TimeOf(ctx', k) = TimeOf(ctx, k)
      BY <3>3 DEF SameTime, TimeOf
    <3>9. k \in ctx'.running => Elapsed(ctx', k) <= now - truth.beat
      BY <1>1, <1>3, <1>4, <1>5, <3>1, <3>3 DEF SameTime
    <3>10. truth.ran[k] = serialized[name] + TimeOf(ctx, k)
      BY <1>3, <1>4, <3>1
    <3>11. TimeOf(ctx', k) <= now - truth.beat + Slack'
      BY <1>1, <1>3, <1>4, <1>6, <3>1, <3>6, <3>8
    <3>12. truth.ran[k] = serialized[name] + ctx'.values[k] + F
      BY <1>3, <3>7, <3>8, <3>10
    <3> QED
      BY <3>2, <3>4, <3>5, <3>9, <3>11, <3>12
  <2>9. ASSUME ~boot, ~Tick, ~tallied, ~encode, ~reset, ~tally,
               \A j \in Timer : ~timer_read(j), \A t \in Net : ~timer_call(t)
        PROVE  Goal
    <3>1. /\ k \in ctx'.running <=> k \in ctx.running
          /\ ctx'.start_time_ms[k] = ctx.start_time_ms[k] /\ ctx'.values[k] = ctx.values[k]
      BY <1>2, <1>10, <2>9, TimersKept
    <3>2. serialized' = serialized /\ now' = now /\ truth'.ran[k] = truth.ran[k] /\ truth'.beat = truth.beat
      <4>1. CASE heartbeat_timer
        BY <2>9, <4>1, NotesOnly DEF heartbeat_timer, env
      <4>2. CASE ~heartbeat_timer
        BY <1>2, <1>10, <2>9, <4>2, TimeHistoryKept
      <4> QED
        BY <4>1, <4>2
    <3>3. hb.pc # "boot" /\ (hb'.pc = "reset" <=> hb.pc = "reset")
      BY <1>10, <2>3, <2>9, ResetNext
    <3>4. Slack <= Slack' /\ Slack' \in Nat
      <4>1. Heartbeating => Heartbeating'
        BY <1>10, <2>9, SlackKept DEF Timing
      <4> QED
        BY <4>1, Widths DEF Slack
    <3>5. Elapsed(ctx, k)' = Elapsed(ctx, k) /\ TimeOf(ctx, k)' = TimeOf(ctx, k)
      BY <3>1, <3>2 DEF Elapsed, TimeOf
    <3>6. TimeOf(ctx, k) <= now - truth.beat + Slack'
      BY <1>1, <1>3, <1>4, <1>6, <3>3, <3>4
    <3> QED
      BY <1>4, <3>1, <3>2, <3>3, <3>5, <3>6
  <2> QED
    BY <2>2, <2>4, <2>5, <2>6, <2>7, <2>8, <2>9
<1> QED
  BY <1>9, <1>10

LEMMA IdleEncodes ==
  ASSUME Typed, Next, hb.pc \in {"idle", "tally"} => hb.then = "encode"
  PROVE  hb'.pc \in {"idle", "tally"} => hb'.then = "encode"
<1>1. hb.then \in {"encode", "sleep"}
  BY DEF Typed, Task
<1>2. \A pc : At(pc).then = "encode"
  BY DEF At
<1>3. CASE Heart
  <2>1. ASSUME reliability_collect PROVE hb'.pc \notin {"idle", "tally"}
    BY <2>1, HeartMoves DEF Moves
  <2>2. ASSUME \/ tallied \/ heartbeat_collect \/ battery_cache \/ battery_sample \/ battery_store
        PROVE  hb'.pc \notin {"idle", "tally"}
    BY <2>2, HeartMoves DEF Moves
  <2>5. ASSUME heartbeat_timer \/ tally PROVE hb'.then = hb.then /\ (hb'.pc = "tally" => hb.pc \in {"idle", "tally"})
                                              /\ hb'.pc # "idle"
    BY <2>5, HeartMoves DEF Moves
  <2>3. ASSUME collect_logs \/ encode \/ printed \/ \E prints \in BOOLEAN : collect_data(prints)
        PROVE  hb'.pc \notin {"idle", "tally"}
    BY <1>1, <2>3, HeartMoves DEF Moves
  <2>4. ASSUME reset \/ enter_sleep \/ wake PROVE hb'.then = "encode"
    BY <1>2, <2>4, HeartMoves
  <2> QED
    BY <1>3, <2>1, <2>2, <2>3, <2>4, <2>5 DEF Heart
<1>4. CASE Boot
  <2>1. ASSUME NEW g \in Session, check_session(g) PROVE hb'.pc \notin {"idle", "tally"}
    BY <2>1, BootMoves DEF Moves
  <2>2. ASSUME boot \/ end_boot \/ battery_boot PROVE hb'.then = "encode"
    BY <1>2, <2>2, BootMoves
  <2> QED
    BY <1>4, <2>1, <2>2 DEF Boot
<1>5. CASE \E crash \in BOOLEAN : Reset(crash)
  BY <1>2, <1>5, BootMoves
<1>6. CASE Application \/ (Device /\ \A crash \in BOOLEAN : ~Reset(crash))
  BY <1>6, OthersStay DEF Device
<1> QED
  BY <1>3, <1>4, <1>5, <1>6 DEF Next, Device

LEMMA NetMoves ==
  ASSUME Next, net' # net
  PROVE  \/ \E t \in Net : (\E state \in DOMAIN StateCalls : connected_state_change(t, state)) \/ timer_call(t)
         \/ \E crash \in BOOLEAN : Reset(crash)
<1>1. ~Heart
  <2>1. /\ ~heartbeat_timer /\ ~tally /\ ~tallied /\ ~printed
        /\ ~heartbeat_collect /\ ~reliability_collect /\ ~battery_cache /\ ~collect_logs
    BY DEF heartbeat_timer, tally, tallied, printed, Tallies, heartbeat_collect, reliability_collect, battery_cache, collect_logs
  <2>2. ASSUME battery_sample PROVE FALSE
    <3>1. net' = net
      BY <2>2 DEF battery_sample
    <3> QED
      BY <3>1
  <2>3. ~battery_store /\ \A prints \in BOOLEAN : ~collect_data(prints)
    BY DEF battery_store, collect_data
  <2>4. ~encode /\ ~reset /\ ~enter_sleep /\ ~wake
    BY DEF encode, reset, enter_sleep, wake
  <2> QED
    BY <2>1, <2>2, <2>3, <2>4 DEF Heart
<1>2. ~Boot
  BY DEF Boot, boot, check_session, end_boot, battery_boot
<1>3. \A g \in Group, amount \in build.amounts : ~heartbeat_add(g, amount)
  BY DEF heartbeat_add
<1>4. \A k \in Timer : ~timer_read(k)
  BY DEF timer_read
<1>5. \A g \in Session : ~session_start(g) /\ ~session_end(g) /\ ~session_reset(g)
  BY DEF session_start, session_end, session_reset
<1>6. ~Tick /\ ~stopped_discharging /\ ~Unplug /\ ~Log
  BY DEF Tick, stopped_discharging, Unplug, Log
<1> QED
  BY <1>1, <1>2, <1>3, <1>4, <1>5, <1>6 DEF Next, Application, Device

LEMMA CallsOfBuild ==
  ASSUME Typed, Next, \A t \in Net : net[t] # <<>> => t \in build.connectivity
  PROVE  \A t \in Net : net'[t] # <<>> => t \in build'.connectivity
<1>1. build' = build /\ net \in [Net -> Seq(Call)]
  BY BuildKept DEF Typed
<1>2. ASSUME NEW t \in Net, NEW state \in DOMAIN StateCalls, connected_state_change(t, state), NEW u \in Net
      PROVE  net'[u] # <<>> => u \in build.connectivity
  BY <1>1, <1>2 DEF connected_state_change
<1>3. ASSUME NEW t \in Net, timer_call(t), NEW u \in Net
      PROVE  net'[u] # <<>> => u \in build.connectivity
  BY <1>1, <1>3 DEF timer_call
<1>4. ASSUME NEW crash \in BOOLEAN, Reset(crash), NEW u \in Net
      PROVE  net'[u] = <<>>
  BY <1>4 DEF Reset
<1>5. CASE net' = net
  BY <1>1, <1>5
<1> QED
  BY <1>1, <1>2, <1>3, <1>4, <1>5, NetMoves

\* While the timers are updated nothing else touches them.
LEMMA TallyingStep ==
  ASSUME Typed, BeatInStep, Next, hb.pc = "tally", ~tally, ~tallied, ~Tick,
         \A crash \in BOOLEAN : ~Reset(crash)
  PROVE  /\ hb' = hb /\ ctx'.running = ctx.running /\ ctx'.start_time_ms = ctx.start_time_ms
         /\ now' = now /\ truth'.beat = truth.beat /\ truth'.began = truth.began
<1> DEFINE Goal == /\ hb' = hb /\ ctx'.running = ctx.running /\ ctx'.start_time_ms = ctx.start_time_ms
                   /\ now' = now /\ truth'.beat = truth.beat /\ truth'.began = truth.began
<1> SUFFICES Goal
  OBVIOUS
<1>1. truth \in Truth /\ ctx \in Context /\ build \in Builds
  BY DEF Typed
<1>2. ~Heart
  <2>1. ~heartbeat_timer /\ ~printed /\ ~heartbeat_collect /\ ~reliability_collect /\ ~battery_cache
    BY DEF heartbeat_timer, printed, heartbeat_collect, reliability_collect, battery_cache
  <2>2. ~battery_sample /\ ~battery_store /\ ~collect_logs /\ \A prints \in BOOLEAN : ~collect_data(prints)
    BY DEF battery_sample, battery_store, collect_logs, collect_data
  <2>3. ~encode /\ ~reset /\ ~enter_sleep /\ ~wake
    BY DEF encode, reset, enter_sleep, wake
  <2> QED
    BY <2>1, <2>2, <2>3 DEF Heart
<1>3. ~Boot
  BY DEF Boot, boot, check_session, end_boot, battery_boot
<1>4. CASE Application
  <2>1. Callable => build.sessions = {}
    BY <1>1, BuildTyped DEF Callable, Free
  <2>2. ASSUME NEW g \in Group, NEW amount \in build.amounts, heartbeat_add(g, amount) PROVE Goal
    <3>1. ctx'.running = ctx.running /\ ctx'.start_time_ms = ctx.start_time_ms
      BY <1>1, <2>2 DEF heartbeat_add, add, Context
    <3> QED
      BY <1>1, <2>2, <3>1 DEF heartbeat_add, Truth
  <2>3. ~(\E k \in Timer : timer_read(k)) /\ ~(\E t \in Net : timer_call(t))
    BY TimersWhen
  <2>4. \A g \in Session : ~session_start(g) /\ ~session_end(g) /\ ~session_reset(g)
    BY <2>1 DEF session_start, session_end, session_reset
  <2>5. ASSUME NEW t \in Net, NEW state \in DOMAIN StateCalls, connected_state_change(t, state)
        PROVE  Goal
    BY <2>5 DEF connected_state_change, unmoved
  <2> QED
    BY <1>4, <2>2, <2>3, <2>4, <2>5 DEF Application
<1>5. CASE Device
  <2>1. CASE stopped_discharging \/ Unplug
    BY <2>1 DEF stopped_discharging, Unplug, env
  <2>2. CASE Log
    BY <1>1, <2>2 DEF Log, Truth
  <2> QED
    BY <1>5, <2>1, <2>2 DEF Device
<1> QED
  BY <1>2, <1>3, <1>4, <1>5 DEF Next

LEMMA UpdatingStep ==
  ASSUME Typed, BeatInStep, Updating, Next
  PROVE  Updating'
<1>1. /\ now \in Nat /\ ctx \in Context /\ truth \in Truth /\ hb \in Task
      /\ truth.beat \in Nat /\ truth.began \in Nat
  BY DEF Typed, Truth
<1>2. ctx.running \subseteq Timer
  BY <1>1 DEF Context
<1> SUFFICES ASSUME hb'.pc = "tally"
             PROVE  /\ truth'.beat <= truth'.began /\ truth'.began <= now'
                    /\ \A k \in ctx'.running \ hb'.timers : Elapsed(ctx, k)' <= now' - truth'.began
  BY DEF Updating
<1>3. \A crash \in BOOLEAN : ~Reset(crash)
  BY BootMoves DEF At
<1>4. CASE heartbeat_timer
  <2>1. /\ hb' = [hb EXCEPT !.pc = "tally", !.timers = ctx.running] /\ hb.pc = "idle"
        /\ ctx' = ctx /\ now' = now
    BY <1>4 DEF heartbeat_timer, Tallies, env
  <2>2. hb'.timers = ctx.running
    BY <1>1, <2>1 DEF Task
  <2>3. truth'.began = now /\ truth'.beat = truth.beat
    <3>1. ~tallied
      BY <2>1 DEF tallied
    <3> QED
      BY <1>4, <3>1, NotesOnly
  <2>4. truth.beat <= now
    BY <2>1 DEF BeatInStep
  <2> QED
    BY <1>1, <2>1, <2>2, <2>3, <2>4
<1>5. CASE tally
  <2>1. PICK k \in Timer : /\ k \in hb.timers /\ ctx' = timer_update(ctx, k)
                           /\ hb'.timers = hb.timers \ {k} /\ hb'.pc = hb.pc
    BY <1>5, TallyNext
  <2>2. now' = now /\ truth' = truth
    BY <1>5 DEF tally, env, history
  <2>3. ASSUME NEW j \in ctx'.running \ hb'.timers PROVE Elapsed(ctx, j)' <= now - truth.began
    <3>1. /\ ctx'.running = ctx.running
          /\ j \in Timer => ctx'.start_time_ms[j] = IF j = k /\ k \in ctx.running THEN now % TIMER_MAX
                                                   ELSE ctx.start_time_ms[j]
      BY <1>1, <2>1, Keys, UpdateTyped
    <3>2. j \in Timer /\ j \in ctx.running
      BY <1>2, <2>3, <3>1
    <3>3. truth.began <= now
      BY <2>1 DEF Updating
    <3>4. CASE j = k
      <4>1. Elapsed(ctx, j)' = elapsed(now % TIMER_MAX, now % TIMER_MAX)
        BY <2>2, <3>1, <3>2, <3>4 DEF Elapsed
      <4>2. Elapsed(ctx, j)' = 0
        BY <1>1, <3>2, <4>1, ElapsedTyped
      <4> QED
        BY <1>1, <3>3, <4>2
    <3>5. CASE j # k
      <4>1. Elapsed(ctx, j)' = Elapsed(ctx, j)
        BY <2>2, <3>1, <3>2, <3>5 DEF Elapsed
      <4>2. j \in ctx.running \ hb.timers
        BY <2>1, <2>3, <3>2, <3>5
      <4> QED
        BY <2>1, <4>1, <4>2 DEF Updating
    <3> QED
      BY <3>4, <3>5
  <2> QED
    BY <2>1, <2>2, <2>3 DEF Updating
<1>6. CASE Tick
  <2>1. now' = now + 1 /\ now + 1 - truth.beat < TIMER_MAX /\ ctx' = ctx /\ hb' = hb
    BY <1>6 DEF Tick
  <2>2. truth'.beat = truth.beat /\ truth'.began = truth.began
    BY <1>1, <1>6 DEF Tick, Truth
  <2>3. ASSUME NEW k \in ctx.running \ hb.timers
        PROVE  Elapsed(ctx, k)' <= now + 1 - truth.began
    <3>1. k \in Timer /\ Elapsed(ctx, k) \in Nat
      BY <1>1, <1>2, ElapsedTyped
    <3>2. Elapsed(ctx, k) <= now - truth.began /\ truth.beat <= truth.began
      BY <2>1 DEF Updating
    <3>3. Elapsed(ctx, k) < TIMER_MAX - 1
      BY <1>1, <2>1, <3>1, <3>2, Widths
    <3>4. elapsed(ctx.start_time_ms[k], (now + 1) % TIMER_MAX) = Elapsed(ctx, k) + 1
      BY <1>1, <3>1, <3>3, ElapsedNext
    <3>5. Elapsed(ctx, k)' = Elapsed(ctx, k) + 1
      BY <2>1, <3>4 DEF Elapsed
    <3> QED
      BY <1>1, <3>1, <3>2, <3>5
  <2> QED
    BY <1>1, <2>1, <2>2, <2>3 DEF Updating
<1>7. CASE ~heartbeat_timer /\ ~tally /\ ~Tick
  <2>1. hb.pc = "tally" /\ ~tallied
    <3>1. CASE Heart
      <4>1. \A pc : At(pc).pc = pc
        BY DEF At
      <4>2. hb.then # "tally"
        BY <1>1 DEF Task
      <4>3. ~tallied /\ ~heartbeat_collect /\ ~reliability_collect /\ ~battery_cache /\ ~battery_sample
        BY HeartMoves DEF Moves
      <4>4. ~battery_store /\ ~collect_logs /\ ~printed /\ \A prints \in BOOLEAN : ~collect_data(prints)
        BY <4>2, HeartMoves DEF Moves
      <4>5. ~encode /\ ~reset /\ ~enter_sleep /\ ~wake
        BY <4>1, HeartMoves DEF Moves
      <4> QED
        BY <1>7, <3>1, <4>3, <4>4, <4>5 DEF Heart
    <3>2. CASE Boot
      <4>1. \A pc : At(pc).pc = pc
        BY DEF At
      <4>2. ~boot /\ ~battery_boot /\ ~end_boot /\ \A g \in Session : ~check_session(g)
        BY <4>1, BootMoves DEF Moves
      <4> QED
        BY <3>2, <4>2 DEF Boot
    <3>3. CASE Application \/ Device
      <4>1. hb' = hb
        BY <1>3, <3>3, OthersStay DEF Device
      <4>2. ~tallied
        BY <4>1, HeartMoves DEF Moves
      <4> QED
        BY <4>1, <4>2
    <3> QED
      BY <3>1, <3>2, <3>3 DEF Next
  <2>2. /\ hb' = hb /\ ctx'.running = ctx.running /\ ctx'.start_time_ms = ctx.start_time_ms
        /\ now' = now /\ truth'.beat = truth.beat /\ truth'.began = truth.began
    BY <1>3, <1>7, <2>1, TallyingStep
  <2>3. \A k \in Timer : Elapsed(ctx, k)' = Elapsed(ctx, k)
    BY <2>2 DEF Elapsed
  <2> QED
    BY <1>2, <2>1, <2>2, <2>3 DEF Updating
<1> QED
  BY <1>4, <1>5, <1>6, <1>7

LEMMA BeatStep ==
  ASSUME Typed, BeatInStep, Updating, Next
  PROVE  BeatInStep'
<1> DEFINE i == IntervalMs("heartbeat")
<1>1. now \in Nat /\ ctx \in Context /\ truth \in Truth /\ truth.beat \in Nat
  BY DEF Typed, Truth
<1>2. i \in Timer /\ i[1] = "heartbeat"
  BY Keys DEF Group, IntervalMs
<1>3. hb'.pc \in {"idle", "tally"} => hb'.then = "encode"
  BY IdleEncodes DEF BeatInStep
<1>4. \A t \in Net : net'[t] # <<>> => t \in build'.connectivity
  BY CallsOfBuild DEF BeatInStep
<1> DEFINE Goal == /\ hb'.pc = "boot" => ctx' = NoContext
                   /\ hb'.pc # "boot" => /\ truth'.beat <= now' /\ now' - truth'.beat < TIMER_MAX
                                         /\ i \in ctx'.running
<1> HIDE DEF i
<1>5. \A crash \in BOOLEAN : Reset(crash) => Goal
  BY BootMoves DEF Reset, At
<1>6. ASSUME \A crash \in BOOLEAN : ~Reset(crash) PROVE Goal
  <2>1. hb'.pc # "boot"
    BY <1>6, BootFirst
  <2>2. ASSUME ~boot PROVE hb.pc # "boot"
    BY <1>6, <2>2, BootFirst
  <2>3. ASSUME hb.pc # "boot" PROVE truth.beat <= now /\ now - truth.beat < TIMER_MAX /\ i \in ctx.running
    BY <2>3 DEF BeatInStep, i
  <2>4. CASE boot
    <3>1. now' = now /\ truth'.beat = now
      BY <1>1, <2>4 DEF boot, env, Truth
    <3> DEFINE j == Heartbeat("unexpected_reboots")
               d == timer_start(NoContext, i)
               v == IF unexpected THEN 1 ELSE 0
    <3>2. ctx' = set_unsigned(d, j, v)
      BY <2>4 DEF boot, i
    <3>3. j \in Key /\ v \in Value
      BY Keys, Small DEF HeartbeatNumber
    <3> HIDE DEF j, v
    <3>4. d \in Context /\ i \in d.running
      BY <1>1, <1>2, NoContextTyped, StartTyped
    <3> HIDE DEF d
    <3>5. i \in ctx'.running
      BY <3>2, <3>3, <3>4, SetTyped
    <3> QED
      BY <1>1, <2>1, <3>1, <3>5, Widths
  <2>5. CASE tallied
    <3>1. now' = now /\ truth'.beat = truth.began /\ truth.began \in Nat /\ ctx' = ctx /\ hb.pc = "tally"
      BY <1>1, <2>5, NotesOnly DEF tallied, env, Truth
    <3>2. truth.beat <= truth.began /\ truth.began <= now
      BY <3>1 DEF Updating
    <3> QED
      BY <1>1, <2>1, <2>3, <3>1, <3>2, Widths
  <2>6. CASE Tick
    <3>1. now' = now + 1 /\ now + 1 - truth.beat < TIMER_MAX /\ truth'.beat = truth.beat /\ ctx' = ctx
      BY <1>1, <2>6 DEF Tick, Truth
    <3>2. hb.pc # "boot"
      BY <2>6 DEF Tick, Free, Awake, Booting
    <3> QED
      BY <1>1, <2>1, <2>3, <3>1, <3>2
  <2>7. ASSUME ~boot, ~tallied, ~Tick PROVE Goal
    <3>1. now' = now /\ truth'.beat = truth.beat
      <4>1. CASE encode \/ heartbeat_timer
        BY <2>7, <4>1, NotesOnly DEF encode, heartbeat_timer, env
      <4>2. CASE ~encode /\ ~heartbeat_timer
        BY <1>2, <1>6, <2>7, <4>2, TimeHistoryKept
      <4> QED
        BY <4>1, <4>2
    <3>2. i \in ctx.running => i \in ctx'.running
      <4>1. ASSUME tally, i \in ctx.running PROVE i \in ctx'.running
        BY <1>1, <4>1, TallyNext, UpdateTyped
      <4>2. ASSUME NEW j \in Timer, timer_read(j), i \in ctx.running PROVE i \in ctx'.running
        BY <1>1, <4>2, UpdateTyped DEF timer_read
      <4>3. ASSUME NEW t \in Net, timer_call(t), i \in ctx.running PROVE i \in ctx'.running
        <5> DEFINE j == Head(net[t])[2]
        <5>1. Head(net[t]) \in Call
          BY <4>3 DEF timer_call, Typed
        <5>2. j \in Timer /\ j # i
          BY <5>1, Keys DEF Call, HeartbeatTimer, Heartbeat, i, IntervalMs
        <5>3. ctx' = timer_start(ctx, j) \/ ctx' = timer_stop(ctx, j)
          BY <4>3 DEF timer_call
        <5> HIDE DEF j
        <5> QED
          BY <1>1, <4>3, <5>2, <5>3, StartTyped, StopTyped
      <4>4. ASSUME ~tally, \A j \in Timer : ~timer_read(j), \A t \in Net : ~timer_call(t)
            PROVE  i \in ctx'.running <=> i \in ctx.running
        BY <1>2, <1>6, <2>7, <4>4, TimersKept
      <4> QED
        BY <4>1, <4>2, <4>3, <4>4
    <3> QED
      BY <2>1, <2>2, <2>3, <2>7, <3>1, <3>2
  <2> QED
    BY <2>4, <2>5, <2>6, <2>7
<1>7. Goal
  BY <1>5, <1>6
<1> QED
  BY <1>3, <1>4, <1>7 DEF BeatInStep, Unbooted, i

LEMMA TimingInit ==
  ASSUME Init
  PROVE  Timing
<1>1. BeatInStep
  BY DEF Init, BeatInStep, Unbooted, At
<1>2. ASSUME NEW name \in HeartbeatTimer PROVE Timed(name)
  <2>1. Heartbeat(name) \in Timer /\ Heartbeat(name) \in Key /\ name \in Summed
    BY <1>2, Keys DEF Summed
  <2> QED
    BY <2>1 DEF Init, Timed, NoContext, NoTruth, Zero, At
<1>3. Updating
  BY DEF Init, Updating, At
<1> QED
  BY <1>1, <1>2, <1>3 DEF Timing

LEMMA TimingStep ==
  ASSUME TwiceTheTimer, Typed, Timing, [Next]_vars
  PROVE  Typed' /\ Timing'
<1>1. CASE Next
  BY <1>1, TypedStep, BeatStep, UpdatingStep, TimedStep DEF Timing
<1>2. CASE UNCHANGED vars
  <2>1. ASSUME NEW name \in HeartbeatTimer PROVE Timed(name)'
    BY <1>2, <2>1 DEF vars, Timing, Timed, TimeOf, Elapsed, Slack, Heartbeating
  <2> QED
    BY <1>2, <2>1 DEF vars, Typed, Timing, BeatInStep, Unbooted, Updating, Elapsed
<1> QED
  BY <1>1, <1>2

\* The time of every timer of the heartbeat is in exactly one heartbeat, or still to be reported,
\* for any sequence of starts, stops, reads, heartbeats, prints and deep sleeps: the difference of
\* two readings of a clock that rolls over is the time between them, and the value has room for
\* the interval under way and the one before it.
THEOREM TimeIsReported ==
  ASSUME TwiceTheTimer
  PROVE  Spec => []TimeReportedOnce
<1>1. Init => Typed /\ Timing
  BY InitTyped, TimingInit
<1>2. Typed /\ Timing /\ [Next]_vars => (Typed /\ Timing)'
  BY TimingStep
<1>3. Typed /\ Timing => TimeReportedOnce
  <2> SUFFICES ASSUME Typed, Timing, NEW name \in HeartbeatTimer
               PROVE  LET k == Heartbeat(name)
                      IN truth.ran[k] = Counted(name) + Uncounted(name)
    BY DEF TimeReportedOnce
  <2> QED
    BY DEF Timing, Timed, Counted, Pending, Uncounted, Elapsed
<1> QED
  BY <1>1, <1>2, <1>3, PTL DEF Spec

-------------------------------------------------------------------------------
(* The connected time                                                           *)

\* One task reports the states of the connection.
OneReporter == \A b \in Builds : \A t, u \in b.connectivity : t = u

\* What is left to do of a change of state.
Scripts == {<<>>, <<Start("expected")>>, <<Stop("connected"), Stop("expected")>>, <<Stop("expected")>>,
            <<Start("expected"), Start("connected")>>, <<Start("connected")>>,
            <<Start("expected"), Stop("connected")>>, <<Stop("connected")>>}
IsRunning(name) == Heartbeat(name) \in ctx.running
\* Time counted and in no heartbeat yet.
Unreported(name) == truth.ran[Heartbeat(name)] - serialized[name]

Connecting ==
  /\ IsRunning("connected") => IsRunning("expected")
  /\ \A t \in Net : /\ net[t] \in Scripts
                    /\ net[t] = <<Start("connected")>> => IsRunning("expected")
                    /\ net[t] = <<Stop("expected")>> => ~IsRunning("connected")
  /\ build.connectivity = {} => ~IsRunning("connected") /\ ~IsRunning("expected")
ConnectedInStep ==
  /\ Unreported("connected") <= Unreported("expected") + truth.apart
  /\ ConnectedWithinExpected

LEMMA ConnectingStep ==
  ASSUME OneReporter, Typed, BeatInStep, Connecting, Next
  PROVE  Connecting'
<1> DEFINE c == Heartbeat("connected")
           e == Heartbeat("expected")
<1>1. now \in Nat /\ ctx \in Context /\ build \in Builds /\ build' = build /\ net \in [Net -> Seq(Call)]
  BY BuildKept DEF Typed
<1>2. c \in Timer /\ e \in Timer /\ c[1] = "heartbeat" /\ e[1] = "heartbeat" /\ c # e
      /\ c # IntervalMs("heartbeat") /\ e # IntervalMs("heartbeat")
  BY Keys DEF Heartbeat, HeartbeatTimer, IntervalMs
<1>3. ASSUME NEW t \in Net, timer_call(t) PROVE Connecting'
  <2> DEFINE call == Head(net[t])
             j == call[2]
  <2>1. /\ net[t] # <<>> /\ t \in build.connectivity /\ net[t] \in Scripts
        /\ net' = [net EXCEPT ![t] = Tail(@)]
    BY <1>3 DEF timer_call, BeatInStep, Connecting
  <2>2. \A u \in Net : u # t => net[u] = <<>> /\ net'[u] = <<>>
    BY <1>1, <2>1 DEF OneReporter, BeatInStep
  <2>3. \A k \in Timer : timer_start(ctx, k).running = ctx.running \cup {k}
                         /\ timer_stop(ctx, k).running = ctx.running \ {k}
    BY <1>1, StartTyped, StopTyped
  <2>4. ctx' = IF call[1] = "start" THEN timer_start(ctx, j) ELSE timer_stop(ctx, j)
    BY <1>3 DEF timer_call
  <2>5. net'[t] = Tail(net[t])
    BY <1>1, <2>1
  <2> HIDE DEF c, e
  <2>6. /\ Start("connected") = <<"start", c>> /\ Stop("connected") = <<"stop", c>>
        /\ Start("expected") = <<"start", e>> /\ Stop("expected") = <<"stop", e>>
    BY DEF Start, Stop, c, e
  <2>7. IsRunning("connected") <=> c \in ctx.running
    BY DEF IsRunning, c
  <2>8. IsRunning("expected") <=> e \in ctx.running
    BY DEF IsRunning, e
  <2>9. IsRunning("connected")' <=> c \in ctx'.running
    BY DEF IsRunning, c
  <2>10. IsRunning("expected")' <=> e \in ctx'.running
    BY DEF IsRunning, e
  <2> DEFINE Goal == /\ c \in ctx'.running => e \in ctx'.running
                     /\ net'[t] \in Scripts
                     /\ net'[t] = <<Start("connected")>> => e \in ctx'.running
                     /\ net'[t] = <<Stop("expected")>> => c \notin ctx'.running
  <2>11. c \in ctx.running => e \in ctx.running
    BY <2>7, <2>8 DEF Connecting
  <2>12. net[t] = <<Start("connected")>> => e \in ctx.running
    BY <2>8 DEF Connecting
  <2>13. net[t] = <<Stop("expected")>> => c \notin ctx.running
    BY <2>7 DEF Connecting
  <2>14. ASSUME net[t] = <<Start("expected")>>
        PROVE  Goal
    BY <1>2, <2>3, <2>4, <2>5, <2>6, <2>11, <2>14 DEF Scripts
  <2>15. ASSUME net[t] = <<Stop("connected"), Stop("expected")>>
        PROVE  Goal
    <3>1. call = Stop("connected") /\ Tail(net[t]) = <<Stop("expected")>>
      BY <2>15
    <3>2. ctx'.running = ctx.running \ {c}
      BY <1>2, <2>3, <2>4, <2>6, <3>1
    <3>3. net'[t] \in Scripts /\ net'[t] # <<Start("connected")>>
      BY <2>5, <2>6, <3>1 DEF Scripts
    <3> QED
      BY <1>2, <2>11, <3>2, <3>3
  <2>16. ASSUME net[t] = <<Stop("expected")>>
        PROVE  Goal
    <3>1. call = Stop("expected") /\ Tail(net[t]) = <<>>
      BY <2>16
    <3>2. ctx'.running = ctx.running \ {e}
      BY <1>2, <2>3, <2>4, <2>6, <3>1
    <3>3. net'[t] \in Scripts /\ net'[t] = <<>>
      BY <2>5, <3>1 DEF Scripts
    <3> QED
      BY <2>11, <2>13, <2>16, <3>2, <3>3
  <2>17. ASSUME net[t] = <<Start("expected"), Start("connected")>>
        PROVE  Goal
    <3>1. call = Start("expected") /\ Tail(net[t]) = <<Start("connected")>>
      BY <2>17
    <3>2. ctx'.running = ctx.running \cup {e}
      BY <1>2, <2>3, <2>4, <2>6, <3>1
    <3>3. net'[t] \in Scripts /\ net'[t] # <<Stop("expected")>>
      BY <2>5, <2>6, <3>1 DEF Scripts
    <3> QED
      BY <3>2, <3>3
  <2>18. ASSUME net[t] = <<Start("connected")>>
        PROVE  Goal
    <3>1. call = Start("connected") /\ Tail(net[t]) = <<>>
      BY <2>18
    <3>2. ctx'.running = ctx.running \cup {c}
      BY <1>2, <2>3, <2>4, <2>6, <3>1
    <3>3. net'[t] \in Scripts /\ net'[t] = <<>>
      BY <2>5, <3>1 DEF Scripts
    <3> QED
      BY <2>12, <2>18, <3>2, <3>3
  <2>19. ASSUME net[t] = <<Start("expected"), Stop("connected")>>
        PROVE  Goal
    <3>1. call = Start("expected") /\ Tail(net[t]) = <<Stop("connected")>>
      BY <2>19
    <3>2. ctx'.running = ctx.running \cup {e}
      BY <1>2, <2>3, <2>4, <2>6, <3>1
    <3>3. net'[t] \in Scripts /\ net'[t] # <<Stop("expected")>> /\ net'[t] # <<Start("connected")>>
      BY <1>2, <2>5, <2>6, <3>1 DEF Scripts
    <3> QED
      BY <3>2, <3>3
  <2>20. ASSUME net[t] = <<Stop("connected")>>
        PROVE  Goal
    <3>1. call = Stop("connected") /\ Tail(net[t]) = <<>>
      BY <2>20
    <3>2. ctx'.running = ctx.running \ {c}
      BY <1>2, <2>3, <2>4, <2>6, <3>1
    <3>3. net'[t] \in Scripts /\ net'[t] = <<>>
      BY <2>5, <3>1 DEF Scripts
    <3> QED
      BY <3>2, <3>3
  <2>21. Goal
    BY <2>1, <2>14, <2>15, <2>16, <2>17, <2>18, <2>19, <2>20 DEF Scripts
  <2>22. ASSUME NEW u \in Net
         PROVE  /\ net'[u] \in Scripts
                /\ net'[u] = <<Start("connected")>> => e \in ctx'.running
                /\ net'[u] = <<Stop("expected")>> => c \notin ctx'.running
    <3>1. CASE u = t
      BY <2>21, <3>1
    <3>2. CASE u # t
      <4>1. net'[u] = <<>> /\ <<>> \in Scripts
        BY <2>2, <3>2 DEF Scripts
      <4> QED
        BY <4>1
    <3> QED
      BY <3>1, <3>2
  <2>23. build'.connectivity # {}
    BY <1>1, <2>1
  <2> QED
    BY <2>9, <2>10, <2>21, <2>22, <2>23 DEF Connecting
<1>4. ASSUME NEW t \in Net, NEW state \in DOMAIN StateCalls, connected_state_change(t, state)
      PROVE  Connecting'
  <2>1. ctx' = ctx /\ net' = [net EXCEPT ![t] = StateCalls[state]]
    BY <1>4 DEF connected_state_change
  <2>2. /\ StateCalls[state] \in Scripts
        /\ StateCalls[state] # <<Start("connected")>> /\ StateCalls[state] # <<Stop("expected")>>
    BY DEF StateCalls, Scripts, Start, Stop, Heartbeat
  <2>3. IsRunning("connected")' = IsRunning("connected") /\ IsRunning("expected")' = IsRunning("expected")
    BY <2>1 DEF IsRunning
  <2> QED
    BY <1>1, <2>1, <2>2, <2>3 DEF Connecting
<1>5. ASSUME NEW crash \in BOOLEAN, Reset(crash) PROVE Connecting'
  <2>1. ctx'.running = {} /\ net' = [t \in Net |-> <<>>]
    BY <1>5 DEF Reset, NoContext
  <2>2. ~IsRunning("connected")' /\ ~IsRunning("expected")'
    BY <2>1 DEF IsRunning
  <2> QED
    BY <2>1, <2>2 DEF Connecting, Scripts
<1>6. ASSUME \A t \in Net : ~timer_call(t) /\ \A state \in DOMAIN StateCalls : ~connected_state_change(t, state),
             \A crash \in BOOLEAN : ~Reset(crash)
      PROVE  Connecting'
  <2>1. net' = net
    BY <1>6, NetMoves
  <2>2. ASSUME NEW k \in Timer, k[1] = "heartbeat", k # IntervalMs("heartbeat")
        PROVE  k \in ctx'.running <=> k \in ctx.running
    <3>1. CASE boot
      <4> DEFINE j == Heartbeat("unexpected_reboots")
                 i == IntervalMs("heartbeat")
                 d == timer_start(NoContext, i)
                 v == IF unexpected THEN 1 ELSE 0
      <4>1. ctx' = set_unsigned(d, j, v) /\ ctx.running = {}
        BY <3>1 DEF boot, BeatInStep, Unbooted, NoContext
      <4>2. j \in Key /\ v \in Value /\ i \in Timer /\ k # i
        BY <2>2, Keys, Small DEF HeartbeatNumber, Group
      <4> HIDE DEF j, v, i
      <4>3. d \in Context /\ d.running = NoContext.running \cup {i}
        BY <1>1, <4>2, NoContextTyped, StartTyped
      <4> HIDE DEF d
      <4>4. ctx'.running = {i}
        BY <4>1, <4>2, <4>3, SetTyped DEF NoContext
      <4> QED
        BY <4>1, <4>2, <4>4
    <3>2. CASE tally
      BY <1>1, <3>2, TallyNext, UpdateTyped
    <3>4. ASSUME NEW j \in Timer, timer_read(j) PROVE k \in ctx'.running <=> k \in ctx.running
      BY <1>1, <3>4, UpdateTyped DEF timer_read
    <3>5. ASSUME ~boot, ~tally, \A j \in Timer : ~timer_read(j)
          PROVE  k \in ctx'.running <=> k \in ctx.running
      BY <1>6, <2>2, <3>5, TimersKept
    <3> QED
      BY <3>1, <3>2, <3>4, <3>5
  <2>3. IsRunning("connected")' = IsRunning("connected")
    BY <1>2, <2>2 DEF IsRunning
  <2>4. IsRunning("expected")' = IsRunning("expected")
    BY <1>2, <2>2 DEF IsRunning
  <2> QED
    BY <1>1, <2>1, <2>3, <2>4 DEF Connecting
<1> QED
  BY <1>3, <1>4, <1>5, <1>6

\* Only the encoding of a heartbeat makes an event of one.
LEMMA EventKept ==
  ASSUME Typed, Next, ~encode
  PROVE  event' = event \/ event'.session # "heartbeat"
<1> DEFINE Goal == event' = event \/ event'.session # "heartbeat"
<1> SUFFICES Goal
  OBVIOUS
<1>1. \A c, g : SessionEvent(c, g).session = g
  BY DEF SessionEvent
<1>2. \A g \in Session : g # "heartbeat"
  BY SessionAssumption
<1>3. CASE Heart
  <2>1. ASSUME \/ heartbeat_timer \/ tally \/ tallied \/ printed
               \/ heartbeat_collect \/ reliability_collect \/ battery_cache
        PROVE  Goal
    BY <2>1 DEF heartbeat_timer, tally, tallied, printed, Tallies, heartbeat_collect, reliability_collect, battery_cache
  <2>2. ASSUME battery_sample PROVE event' = event
    BY <2>2 DEF battery_sample
  <2>4. ASSUME battery_store \/ collect_logs PROVE Goal
    BY <2>4 DEF battery_store, collect_logs
  <2>3. ASSUME reset \/ enter_sleep \/ wake \/ \E prints \in BOOLEAN : collect_data(prints) PROVE Goal
    BY <2>3 DEF reset, NoEvent, enter_sleep, wake, collect_data
  <2> QED
    BY <1>3, <2>1, <2>2, <2>3, <2>4 DEF Heart
<1>4. CASE Boot
  <2>1. ASSUME NEW g \in Session, check_session(g) PROVE Goal
    BY <1>1, <1>2, <2>1 DEF check_session
  <2>2. ASSUME boot \/ end_boot \/ battery_boot PROVE Goal
    BY <2>2 DEF boot, end_boot, battery_boot
  <2> QED
    BY <1>4, <2>1, <2>2 DEF Boot
<1>5. CASE Application
  <2>1. ASSUME NEW g \in Group, NEW amount \in build.amounts, heartbeat_add(g, amount) PROVE Goal
    BY <2>1 DEF heartbeat_add
  <2>2. ASSUME NEW j \in Timer, timer_read(j) PROVE Goal
    BY <2>2 DEF timer_read
  <2>3. ASSUME NEW g \in Session, session_start(g) \/ session_reset(g) PROVE Goal
    BY <2>3 DEF session_start, session_reset
  <2>4. ASSUME NEW g \in Session, session_end(g) PROVE Goal
    BY <1>1, <1>2, <2>4 DEF session_end
  <2>5. ASSUME NEW t \in Net, timer_call(t) PROVE Goal
    BY <2>5 DEF timer_call
  <2>6. ASSUME NEW t \in Net, NEW state \in DOMAIN StateCalls, connected_state_change(t, state)
        PROVE  Goal
    BY <2>6 DEF connected_state_change
  <2> QED
    BY <1>5, <2>1, <2>2, <2>3, <2>4, <2>5, <2>6 DEF Application
<1>6. CASE Device
  <2>1. ASSUME NEW crash \in BOOLEAN, Reset(crash) PROVE Goal
    BY <2>1 DEF Reset, NoEvent
  <2>2. ASSUME Tick \/ stopped_discharging \/ Unplug \/ Log PROVE Goal
    BY <2>2 DEF Tick, stopped_discharging, Unplug, Log
  <2> QED
    BY <1>6, <2>1, <2>2 DEF Device
<1> QED
  BY <1>3, <1>4, <1>5, <1>6 DEF Next

\* A step that changes the time counted or reported.
LEMMA UnreportedKept ==
  ASSUME Typed, Next, ~encode, ~Tick, \A crash \in BOOLEAN : ~Reset(crash),
         NEW name \in {"connected", "expected"}
  PROVE  Unreported(name)' = Unreported(name) /\ truth'.apart = truth.apart
<1> DEFINE k == Heartbeat(name)
<1>1. k \in Timer /\ k[1] = "heartbeat" /\ truth \in Truth
  BY Keys DEF Typed, Heartbeat, HeartbeatTimer
<1> HIDE DEF k
<1>2. serialized' = serialized /\ truth'.ran[k] = truth.ran[k] /\ truth'.apart = truth.apart
  <2>1. CASE boot
    BY <1>1, <2>1 DEF boot, Truth
  <2>2. CASE heartbeat_timer \/ tallied
    BY <2>2, NotesOnly DEF heartbeat_timer, tallied
  <2>3. CASE ~heartbeat_timer /\ ~tallied /\ ~boot
    BY <1>1, <2>3, TimeHistoryKept
  <2> QED
    BY <2>1, <2>2, <2>3
<1> QED
  BY <1>2 DEF Unreported, k

LEMMA ConnectedStep ==
  ASSUME Typed, Timing, Connecting, ConnectedInStep, Next
  PROVE  ConnectedInStep'
<1> DEFINE c == Heartbeat("connected")
           e == Heartbeat("expected")
<1>1. /\ now \in Nat /\ ctx \in Context /\ build \in Builds /\ build' = build /\ truth \in Truth
      /\ serialized \in [Summed -> Nat]
  BY BuildKept DEF Typed
<1>2. /\ c \in Timer /\ e \in Timer /\ c[1] = "heartbeat" /\ e[1] = "heartbeat"
      /\ c # IntervalMs("heartbeat") /\ e # IntervalMs("heartbeat")
      /\ {"connected", "expected"} \subseteq Summed
  BY Keys DEF Heartbeat, HeartbeatTimer, IntervalMs, Summed
<1>3. /\ truth.ran[c] \in Nat /\ truth.ran[e] \in Nat /\ truth.beat \in Nat
      /\ serialized["connected"] \in Nat /\ serialized["expected"] \in Nat
  BY <1>1, <1>2 DEF Truth
<1>4. /\ Unreported("connected") = truth.ran[c] - serialized["connected"]
      /\ Unreported("expected") = truth.ran[e] - serialized["expected"]
      /\ Unreported("connected")' = truth'.ran[c] - serialized'["connected"]
      /\ Unreported("expected")' = truth'.ran[e] - serialized'["expected"]
  BY DEF Unreported
<1>5. ASSUME encode, NEW name \in {"connected", "expected"}
      PROVE  /\ truth.ran[Heartbeat(name)] = serialized[name] + ctx.values[Heartbeat(name)] + Uncounted(name)
             /\ ctx.values[Heartbeat(name)] \in Nat /\ Uncounted(name) \in Nat
  <2> DEFINE k == Heartbeat(name)
  <2>1. hb.pc = "encode" /\ k \in Timer /\ name \in HeartbeatTimer
    BY <1>2, <1>5, HeartMoves DEF Moves, HeartbeatTimer
  <2>2. truth.ran[k] = serialized[name] + ctx.values[k] + (IF k \in ctx.running THEN Elapsed(ctx, k) ELSE 0)
    BY <2>1 DEF Timing, Timed
  <2>3. Elapsed(ctx, k) \in Nat /\ ctx.values[k] \in Nat
    BY <1>1, <2>1, ElapsedTyped
  <2> QED
    BY <2>2, <2>3 DEF Uncounted, Elapsed
<1> HIDE DEF c, e
<1>6. Unreported("connected")' <= Unreported("expected")' + truth'.apart /\ ConnectedWithinExpected'
  <2>1. CASE encode
    <3> DEFINE C == Uncounted("connected")
               E == Uncounted("expected")
    <3>1. /\ truth.ran[c] = serialized["connected"] + ctx.values[c] + C
          /\ truth.ran[e] = serialized["expected"] + ctx.values[e] + E
          /\ ctx.values[c] \in Nat /\ ctx.values[e] \in Nat /\ C \in Nat /\ E \in Nat
      BY <1>5, <2>1 DEF c, e
    <3>2. /\ serialized'["connected"] = serialized["connected"] + ctx.values[c]
          /\ serialized'["expected"] = serialized["expected"] + ctx.values[e]
      BY <1>2, <2>1 DEF encode, c, e
    <3>3. truth'.ran = truth.ran /\ truth'.apart = C - E
      BY <2>1, NotesOnly
    <3>4. \/ event' = event
          \/ /\ event'.connected = ctx.values[c] /\ event'.expected = ctx.values[e]
             /\ event'.apart = truth.apart - (C - E)
      BY <2>1 DEF encode, c, e
    <3>5. truth.ran[c] - serialized["connected"] <= truth.ran[e] - serialized["expected"] + truth.apart
      BY <1>4 DEF ConnectedInStep
    <3>6. truth.apart \in Int
      BY <1>1 DEF Truth
    <3> HIDE DEF C, E
    <3>7. ctx.values[c] <= ctx.values[e] + (truth.apart - (C - E))
      BY <1>3, <3>1, <3>5, <3>6
    <3>8. ConnectedWithinExpected'
      BY <3>4, <3>7 DEF ConnectedInStep, ConnectedWithinExpected
    <3>9. /\ truth'.ran[c] - serialized'["connected"] = C
          /\ truth'.ran[e] - serialized'["expected"] = E
      BY <1>3, <3>1, <3>2, <3>3
    <3>10. Unreported("connected")' <= Unreported("expected")' + truth'.apart
      BY <1>4, <3>1, <3>3, <3>9
    <3> QED
      BY <3>8, <3>10
  <2>2. CASE Tick
    <3>1. serialized' = serialized /\ event' = event
      BY <2>2 DEF Tick
    <3>2. ASSUME NEW k \in {c, e}
          PROVE  truth'.ran[k] = IF k \in ctx.running THEN truth.ran[k] + 1 ELSE truth.ran[k]
      <4> DEFINE r == [j \in Timer |-> IF \/ j = IntervalMs("heartbeat") \/ j[1] \in truth.open
                                          \/ j[1] = "heartbeat" /\ j \in ctx.running
                                       THEN truth.ran[j] + 1 ELSE truth.ran[j]]
      <4>1. truth'.ran = r
        BY <1>1, <2>2 DEF Tick, Truth
      <4>2. k \in Timer /\ k[1] = "heartbeat" /\ k # IntervalMs("heartbeat") /\ k[1] \notin truth.open
        BY <1>1, <1>2, SessionAssumption DEF Truth
      <4>3. r[k] = IF k \in ctx.running THEN truth.ran[k] + 1 ELSE truth.ran[k]
        BY <4>2
      <4> QED
        BY <4>1, <4>3
    <3>3. c \in ctx.running => e \in ctx.running
      BY DEF Connecting, IsRunning, c, e
    <3>4. truth.ran[c] - serialized["connected"] <= truth.ran[e] - serialized["expected"] + truth.apart
      BY <1>4 DEF ConnectedInStep
    <3>7. truth'.apart = truth.apart /\ truth.apart \in Int
      BY <1>1, <2>2 DEF Tick, Truth
    <3>5. Unreported("connected")' <= Unreported("expected")' + truth'.apart
      BY <1>3, <1>4, <3>1, <3>2, <3>3, <3>4, <3>7
    <3>6. ConnectedWithinExpected'
      BY <3>1 DEF ConnectedInStep, ConnectedWithinExpected
    <3> QED
      BY <3>5, <3>6
  <2>3. CASE \E crash \in BOOLEAN : Reset(crash)
    <3>1. /\ serialized'["connected"] = 0 /\ serialized'["expected"] = 0
          /\ truth'.ran[c] = 0 /\ truth'.ran[e] = 0 /\ truth'.apart = 0 /\ event' = NoEvent
      BY <1>2, <2>3 DEF Reset, Zero, NoTruth
    <3>2. ConnectedWithinExpected'
      BY <3>1 DEF ConnectedWithinExpected, NoEvent
    <3> QED
      BY <1>4, <3>1, <3>2
  <2>4. ASSUME ~encode, ~Tick, \A crash \in BOOLEAN : ~Reset(crash)
        PROVE  Unreported("connected")' <= Unreported("expected")' + truth'.apart /\ ConnectedWithinExpected'
    <3>1. /\ Unreported("connected")' = Unreported("connected") /\ Unreported("expected")' = Unreported("expected")
          /\ truth'.apart = truth.apart
      BY <2>4, UnreportedKept
    <3>2. ConnectedWithinExpected'
      BY <2>4, EventKept DEF ConnectedInStep, ConnectedWithinExpected
    <3> QED
      BY <3>1, <3>2 DEF ConnectedInStep
  <2> QED
    BY <2>1, <2>2, <2>3, <2>4
<1> QED
  BY <1>6 DEF ConnectedInStep

\* A heartbeat never reports more time connected than expected to be connected, but for the time
\* that passes between the updates of the two timers, wherever it comes between the calls of a
\* change of state: the calls come in an order that lets the connected time run only while the
\* expected one does, and what one heartbeat reports too much for reading the clock twice the ones
\* before it have left in the timer.
THEOREM ConnectedIsWithin ==
  ASSUME TwiceTheTimer, OneReporter
  PROVE  Spec => []ConnectedWithinExpected
<1> DEFINE IInv == Typed /\ Timing /\ Connecting /\ ConnectedInStep
<1>1. Init => IInv
  <2> SUFFICES ASSUME Init PROVE IInv
    OBVIOUS
  <2>1. Connecting
    BY DEF Init, Connecting, IsRunning, NoContext, Scripts
  <2>2. /\ Heartbeat("connected") \in Timer /\ Heartbeat("expected") \in Timer
        /\ {"connected", "expected"} \subseteq Summed
    BY Keys DEF HeartbeatTimer, Summed
  <2>3. Unreported("connected") <= Unreported("expected") + truth.apart
    BY <2>2 DEF Init, Unreported, NoTruth, Zero
  <2>4. ConnectedInStep
    BY <2>3 DEF Init, ConnectedInStep, ConnectedWithinExpected, NoEvent
  <2> QED
    BY <2>1, <2>4, InitTyped, TimingInit
<1>2. IInv /\ [Next]_vars => IInv'
  <2> SUFFICES ASSUME IInv, [Next]_vars PROVE IInv'
    OBVIOUS
  <2>1. CASE Next
    BY <2>1, TimingStep, ConnectingStep, ConnectedStep DEF Timing
  <2>2. CASE UNCHANGED vars
    <3>1. Connecting'
      BY <2>2 DEF vars, Connecting, IsRunning
    <3>2. ConnectedInStep'
      BY <2>2 DEF vars, ConnectedInStep, Unreported, ConnectedWithinExpected
    <3> QED
      BY <3>1, <3>2, TimingStep
  <2> QED
    BY <2>1, <2>2
<1>3. IInv => ConnectedWithinExpected
  BY DEF ConnectedInStep
<1> QED
  BY <1>1, <1>2, <1>3, PTL DEF Spec

-------------------------------------------------------------------------------
(* The drop of the state of charge                                              *)

\* What becomes of the battery's state over deep sleep is not modelled.
BatteryAwake == \A b \in Builds : b.battery => ~b.restore
soc_drop == Heartbeat("soc_drop")

\* The drop is set where the collection of the battery ends, and the reset of the heartbeat clears it.
LEMMA DropSetByStore ==
  ASSUME Typed, Next, ~battery_store
  PROVE  /\ soc_drop \in ctx'.is_set => soc_drop \in ctx.is_set
         /\ reset \/ (\E crash \in BOOLEAN : Reset(crash)) => soc_drop \notin ctx'.is_set
<1> DEFINE k == soc_drop
           Goal == k \in ctx'.is_set => k \in ctx.is_set
<1>1. now \in Nat /\ ctx \in Context /\ build \in Builds
  BY DEF Typed
<1>2. k \in Key /\ k[1] = "heartbeat" /\ k[2] = "soc_drop"
  BY Keys DEF Heartbeat, HeartbeatNumber, soc_drop
<1> HIDE DEF k
<1> SUFFICES Goal /\ (reset \/ (\E crash \in BOOLEAN : Reset(crash)) => k \notin ctx'.is_set)
  BY DEF k
<1>3. CASE reset \/ \E crash \in BOOLEAN : Reset(crash)
  <2>1. ASSUME reset PROVE k \notin ctx'.is_set
    BY <1>1, <1>2, <2>1, ResetTyped DEF reset, Group
  <2>2. ASSUME NEW crash \in BOOLEAN, Reset(crash) PROVE k \notin ctx'.is_set
    BY <2>2 DEF Reset, NoContext
  <2> QED
    BY <1>3, <2>1, <2>2
<1>4. ASSUME ~reset, \A crash \in BOOLEAN : ~Reset(crash) PROVE Goal
  <2>1. CASE Heart
    <3>1. ASSUME reliability_collect PROVE Goal
      <4> DEFINE hours == Worked \div HOUR
                 crash == IF ~reliability.counted /\ unexpected THEN 1 ELSE 0
                 rest == hours - crash
                 j == Heartbeat("hours")
                 i == Heartbeat("crashfree_hours")
                 one == add(ctx, j, hours)
      <4>1. ctx' = ctx \/ ctx' = add(one, i, rest)
        BY <3>1 DEF reliability_collect, Worked, Interval
      <4>2. hours \in Int /\ rest \in Int
        BY WorkedTyped
      <4>3. j \in Key /\ i \in Key /\ k # i /\ k # j
        BY <1>2, Keys DEF HeartbeatNumber, Heartbeat
      <4> HIDE DEF rest, hours, i, j
      <4>4. one \in Context /\ one.is_set = ctx.is_set \cup {j}
        BY <1>1, <4>2, <4>3, AddTyped
      <4> HIDE DEF one
      <4>5. add(one, i, rest).is_set = one.is_set \cup {i}
        BY <4>2, <4>3, <4>4, AddTyped
      <4> QED
        BY <4>1, <4>3, <4>4, <4>5
    <3>2. ASSUME collect_logs PROVE Goal
      <4> DEFINE j == Heartbeat("log_lines")
      <4>1. j \in Key /\ k # j
        BY <1>2, Keys DEF HeartbeatNumber, Heartbeat
      <4>2. \A v, l : [add(ctx, j, v) EXCEPT !.last_log = l].is_set = ctx.is_set \cup {j}
        BY <1>1, <4>1 DEF add, Context
      <4>3. ctx'.is_set = ctx.is_set \/ ctx'.is_set = ctx.is_set \cup {j}
        BY <3>2, <4>2 DEF collect_logs
      <4> HIDE DEF j
      <4> QED
        BY <4>1, <4>3
    <3>3. ASSUME tally PROVE Goal
      BY <1>1, <3>3, TallyNext, UpdateTyped
    <3>4. ASSUME enter_sleep PROVE Goal
      BY <1>1, <3>4 DEF enter_sleep, Context
    <3>5. ASSUME \/ heartbeat_collect \/ battery_cache \/ encode \/ wake
                 \/ heartbeat_timer \/ tallied \/ printed \/ \E prints \in BOOLEAN : collect_data(prints)
          PROVE  Goal
      BY <3>5 DEF heartbeat_collect, battery_cache, encode, wake, heartbeat_timer, tallied, printed, collect_data
    <3>6. ASSUME battery_sample PROVE ctx' = ctx
      BY <3>6 DEF battery_sample
    <3> QED
      BY <1>4, <2>1, <3>1, <3>2, <3>3, <3>4, <3>5, <3>6 DEF Heart
  <2>2. CASE Boot
    <3>1. ASSUME NEW g \in Session, check_session(g) PROVE Goal
      <4> DEFINE c == reset_metrics(ctx, g)
                 j == <<g, "operational_crashes">>
      <4>1. g \in Group /\ j \in Key /\ j # k
        BY <1>2, Keys DEF Group
      <4>2. ctx' = ctx \/ ctx' = add(c, j, 1)
        BY <3>1 DEF check_session
      <4> HIDE DEF j
      <4>3. c \in Context /\ c.is_set \subseteq ctx.is_set
        BY <1>1, <4>1, ResetTyped
      <4> HIDE DEF c
      <4>4. add(c, j, 1).is_set = c.is_set \cup {j}
        BY <4>1, <4>3, AddTyped
      <4> QED
        BY <4>1, <4>2, <4>3, <4>4
    <3>2. ASSUME boot PROVE Goal
      <4> DEFINE j == Heartbeat("unexpected_reboots")
                 i == IntervalMs("heartbeat")
                 d == timer_start(NoContext, i)
                 v == IF unexpected THEN 1 ELSE 0
      <4>1. ctx' = set_unsigned(d, j, v)
        BY <3>2 DEF boot
      <4>2. j \in Key /\ j # k /\ v \in Value /\ i \in Timer
        BY <1>2, Keys, Small DEF HeartbeatNumber, Group, Heartbeat
      <4> HIDE DEF j, v, i
      <4>3. d \in Context /\ d.is_set = {}
        BY <1>1, <4>2, NoContextTyped, StartTyped DEF NoContext
      <4> HIDE DEF d
      <4>4. ctx'.is_set = {j}
        BY <4>1, <4>2, <4>3, SetTyped
      <4> QED
        BY <4>2, <4>4
    <3>3. ASSUME end_boot \/ battery_boot PROVE ctx' = ctx
      BY <3>3 DEF end_boot, battery_boot
    <3> QED
      BY <2>2, <3>1, <3>2, <3>3 DEF Boot
  <2>3. CASE Application
    <3>1. ASSUME NEW g \in Group, NEW amount \in build.amounts, heartbeat_add(g, amount) PROVE Goal
      <4> DEFINE j == <<g, "count">>
      <4>1. k # j
        BY <1>2
      <4>2. amount \in Int /\ j \in Key
        BY <1>1, BuildTyped, Keys
      <4>3. ctx' = add(ctx, j, amount)
        BY <3>1 DEF heartbeat_add
      <4> HIDE DEF j
      <4>4. add(ctx, j, amount).is_set = ctx.is_set \cup {j}
        BY <1>1, <4>2, AddTyped
      <4> QED
        BY <4>1, <4>3, <4>4
    <3>2. ASSUME NEW j \in Timer, timer_read(j) PROVE Goal
      BY <1>1, <3>2, UpdateTyped DEF timer_read
    <3>3. ASSUME NEW g \in Session, session_start(g) PROVE Goal
      <4> DEFINE c == reset_metrics(ctx, g)
                 j == IntervalMs(g)
      <4>1. g \in Group /\ j \in Timer
        BY Keys DEF Group
      <4>2. ctx' = timer_start(c, j)
        BY <3>3 DEF session_start
      <4> HIDE DEF j
      <4>3. c \in Context /\ c.is_set \subseteq ctx.is_set
        BY <1>1, <4>1, ResetTyped
      <4> HIDE DEF c
      <4> QED
        BY <1>1, <4>1, <4>2, <4>3, StartTyped
    <3>4. ASSUME NEW g \in Session, session_end(g) \/ session_reset(g) PROVE Goal
      <4> DEFINE j == IntervalMs(g)
                 c == timer_stop(ctx, j)
      <4>1. g \in Group /\ j \in Timer
        BY Keys DEF Group
      <4>2. ctx' = c \/ ctx' = reset_metrics(c, g)
        BY <3>4 DEF session_end, session_reset
      <4> HIDE DEF j
      <4>3. c \in Context /\ c.is_set = ctx.is_set
        BY <1>1, <4>1, StopTyped
      <4> HIDE DEF c
      <4>4. reset_metrics(c, g).is_set \subseteq c.is_set
        BY <4>1, <4>3, ResetTyped
      <4> QED
        BY <4>2, <4>3, <4>4
    <3>5. ASSUME NEW t \in Net, timer_call(t) PROVE Goal
      <4> DEFINE j == Head(net[t])[2]
      <4>1. Head(net[t]) \in Call
        BY <3>5 DEF timer_call, Typed
      <4>2. j \in Timer
        BY <4>1, Keys DEF Call, HeartbeatTimer
      <4>3. ctx' = timer_start(ctx, j) \/ ctx' = timer_stop(ctx, j)
        BY <3>5 DEF timer_call
      <4> HIDE DEF j
      <4> QED
        BY <1>1, <4>2, <4>3, StartTyped, StopTyped
    <3> QED
      BY <2>3, <3>1, <3>2, <3>3, <3>4, <3>5 DEF Application, connected_state_change
  <2>4. CASE Device
    BY <1>4, <2>4 DEF Device, Tick, stopped_discharging, Unplug, Log
  <2> QED
    BY <2>1, <2>2, <2>3, <2>4 DEF Next
<1> QED
  BY <1>3, <1>4

Reading == {"battery_sample", "battery_store"}
Collected == {"collect_logs", "collect_data", "print", "encode", "reset"}
\* An interval in which the charger was connected is known not to have been all discharging: from the
\* flag, or as the reading at its start failed.
Known == battery.stopped \/ battery.last_state_of_charge < 0
KnownSinceCached == hb.stopped \/ battery.last_state_of_charge < 0

Sleepless == /\ hb.then = "sleep" \/ hb.pc \in {"sleep", "asleep"} => build.restore
             /\ hb.pc \in {"battery_boot", "battery_cache"} \cup Reading => build.battery
ChargeKnown ==
  /\ power.charging => power.charged
  /\ hb.pc \notin Reading => (power.charged /\ ~power.was_raced => Known)
  /\ hb.pc = "battery_sample" =>
       (power.charged /\ ~power.was_raced /\ ~power.raced => KnownSinceCached)
  /\ hb.pc = "battery_store" =>
       /\ power.before /\ ~power.was_raced /\ ~power.raced => KnownSinceCached
       /\ power.charged /\ ~power.raced => hb.soc < 0 \/ ~hb.discharging
BatteryInStep ==
  /\ Sleepless
  /\ build.battery /\ ~Booting => ChargeKnown
DropInStep ==
  /\ soc_drop \in ctx.is_set => build.battery /\ hb.pc \in Collected
  /\ soc_drop \in ctx.is_set /\ hb.pc # "reset" => ~power.before
  /\ DropWhileDischarging

LEMMA BatteryKept ==
  ASSUME Typed, Next, ~battery_sample, ~battery_store, ~battery_boot, ~stopped_discharging, ~Unplug,
         \A crash \in BOOLEAN : ~Reset(crash)
  PROVE  battery' = battery /\ power' = power
<1> DEFINE Goal == battery' = battery /\ power' = power
<1>1. CASE Heart
  BY <1>1 DEF Heart, heartbeat_timer, tally, tallied, printed, Tallies, heartbeat_collect, reliability_collect, battery_cache, collect_logs,
     collect_data, encode, reset, enter_sleep, wake, history
<1>2. CASE Boot
  BY <1>2 DEF Boot, boot, check_session, end_boot
<1>3. CASE Application
  <2>1. ASSUME NEW g \in Group, NEW amount \in build.amounts, heartbeat_add(g, amount) PROVE Goal
    BY <2>1 DEF heartbeat_add
  <2>2. ASSUME NEW k \in Timer, timer_read(k) PROVE Goal
    BY <2>2 DEF timer_read, unmoved
  <2>3. ASSUME NEW g \in Session, session_start(g) \/ session_end(g) \/ session_reset(g) PROVE Goal
    BY <2>3 DEF session_start, session_end, session_reset, unmoved
  <2>4. ASSUME NEW t \in Net, NEW state \in DOMAIN StateCalls, connected_state_change(t, state) PROVE Goal
    BY <2>4 DEF connected_state_change, unmoved
  <2>5. ASSUME NEW t \in Net, timer_call(t) PROVE Goal
    BY <2>5 DEF timer_call, unmoved
  <2> QED
    BY <1>3, <2>1, <2>2, <2>3, <2>4, <2>5 DEF Application
<1>4. CASE Device
  BY <1>4 DEF Device, Tick, Log
<1> QED
  BY <1>1, <1>2, <1>3, <1>4 DEF Next

LEMMA SleeplessStep ==
  ASSUME Typed, Sleepless, Next
  PROVE  Sleepless'
<1>1. build' = build
  BY BuildKept
<1>2. \A pc : At(pc).pc = pc /\ At(pc).then = "encode"
  BY DEF At
<1> DEFINE Goal == /\ hb'.then = "sleep" \/ hb'.pc \in {"sleep", "asleep"} => build.restore
                   /\ hb'.pc \in {"battery_boot", "battery_cache"} \cup Reading => build.battery
<1>3. Goal
  <2>1. CASE Heart
    <3>1. ASSUME heartbeat_timer \/ tallied \/ collect_logs \/ encode PROVE Goal
      BY <3>1, HeartMoves DEF Sleepless, Moves, Reading
    <3>8. ASSUME tally PROVE Goal
      BY <3>8, HeartMoves DEF Sleepless, Moves, Reading
    <3>9. ASSUME printed PROVE Goal
      <4>1. hb.then \in {"encode", "sleep"}
        BY DEF Typed, Task
      <4> QED
        BY <3>9, <4>1, HeartMoves DEF Sleepless, Moves, Reading
    <3>2. ASSUME heartbeat_collect PROVE Goal
      <4>1. build.restore
        BY <3>2 DEF heartbeat_collect
      <4> QED
        BY <3>2, <4>1, HeartMoves DEF Reading
    <3>3. ASSUME reliability_collect PROVE Goal
      BY <3>3, HeartMoves DEF Sleepless, Moves, Reading
    <3>4. ASSUME battery_cache \/ battery_sample \/ battery_store PROVE Goal
      BY <3>4, HeartMoves DEF Sleepless, Moves, Reading
    <3>5. ASSUME NEW prints \in BOOLEAN, collect_data(prints) PROVE Goal
      <4>1. hb.then \in {"encode", "sleep"}
        BY DEF Typed, Task
      <4> QED
        BY <3>5, <4>1, HeartMoves DEF Sleepless, Moves, Reading
    <3>6. ASSUME reset \/ wake PROVE Goal
      BY <1>2, <3>6, HeartMoves DEF Reading
    <3>7. ASSUME enter_sleep PROVE Goal
      BY <1>2, <3>7, HeartMoves DEF Sleepless, Reading
    <3> QED
      BY <2>1, <3>1, <3>2, <3>3, <3>4, <3>5, <3>6, <3>7, <3>8, <3>9 DEF Heart
  <2>2. CASE Boot
    <3>1. ASSUME NEW g \in Session, check_session(g) PROVE Goal
      BY <3>1, BootMoves DEF Sleepless, Moves, Reading
    <3>2. ASSUME boot PROVE Goal
      BY <3>2, BootMoves DEF Reading
    <3>3. ASSUME end_boot PROVE Goal
      BY <1>2, <3>3, BootMoves DEF Reading
    <3>4. ASSUME battery_boot PROVE Goal
      BY <1>2, <3>4, BootMoves DEF Reading
    <3> QED
      BY <2>2, <3>1, <3>2, <3>3, <3>4 DEF Boot
  <2>3. CASE \E crash \in BOOLEAN : Reset(crash)
    BY <1>2, <2>3, BootMoves DEF Reading
  <2>4. CASE Application \/ Tick \/ stopped_discharging \/ Unplug \/ Log
    BY <2>4, OthersStay DEF Sleepless
  <2> QED
    BY <2>1, <2>2, <2>3, <2>4 DEF Next, Device
<1> QED
  BY <1>1, <1>3 DEF Sleepless

\* The flag and the reading it comes with say what the charger did.
LEMMA ChargeKnownStep ==
  ASSUME Typed, BatteryInStep, BatteryAwake, Next, build.battery, ~Booting'
  PROVE  ChargeKnown'
<1>1. hb \in Task /\ power \in Power /\ battery \in Battery
  BY DEF Typed
<1>2. \A pc : At(pc).pc = pc
  BY DEF At
<1>3. hb'.pc \notin {"boot", "check", "battery_boot"}
  BY DEF Booting
<1>4. ASSUME hb.pc \notin {"boot", "check", "battery_boot"} PROVE ChargeKnown
  BY <1>4 DEF BatteryInStep, Booting
<1>5. \A crash \in BOOLEAN : ~Reset(crash)
  BY <1>2, <1>3, BootMoves
<1>6. CASE battery_cache
  <2>1. hb.pc = "battery_cache" /\ hb'.pc = "battery_sample" /\ hb'.stopped = battery.stopped
    BY <1>1, <1>6 DEF battery_cache, Task
  <2>2. battery' = battery /\ power' = power
    BY <1>6 DEF battery_cache, history
  <2> QED
    BY <1>4, <2>1, <2>2 DEF ChargeKnown, Reading, Known, KnownSinceCached
<1>7. CASE battery_sample
  <2>1. PICK soc \in {Invalid, 0, 1}, discharging \in BOOLEAN :
          /\ soc # Invalid => discharging = ~power.charging
          /\ hb' = [hb EXCEPT !.pc = "battery_store", !.soc = soc, !.discharging = discharging]
    BY <1>7, Zenon DEF battery_sample
  <2>2. /\ hb.pc = "battery_sample" /\ battery' = battery
        /\ power' = [power EXCEPT !.before = power.charged, !.charged = power.charging]
    BY <1>7 DEF battery_sample
  <2>3. /\ hb'.pc = "battery_store" /\ hb'.soc = soc /\ hb'.discharging = discharging
        /\ hb'.stopped = hb.stopped
    BY <1>1, <2>1 DEF Task
  <2>4. /\ power'.charging = power.charging /\ power'.before = power.charged
        /\ power'.charged = power.charging /\ power'.raced = power.raced
        /\ power'.was_raced = power.was_raced
    BY <1>1, <2>2 DEF Power
  <2>5. power.charging => soc < 0 \/ ~discharging
    BY <2>1 DEF Invalid
  <2> QED
    BY <1>4, <2>2, <2>3, <2>4, <2>5 DEF ChargeKnown, Reading, KnownSinceCached
<1>8. CASE battery_store
  <2>1. /\ hb.pc = "battery_store" /\ hb'.pc = "collect_logs"
        /\ battery' = [stopped |-> ~hb.discharging, last_state_of_charge |-> hb.soc]
        /\ power' = [power EXCEPT !.was_raced = power.raced, !.raced = FALSE,
                                  !.before = @ /\ ~power.was_raced /\ ~power.raced]
    BY <1>8, HeartMoves DEF battery_store, Moves
  <2>2. /\ power'.charging = power.charging /\ power'.charged = power.charged
        /\ power'.was_raced = power.raced
    BY <1>1, <2>1 DEF Power
  <2> QED
    BY <1>4, <2>1, <2>2 DEF ChargeKnown, Reading, Known
<1>9. CASE battery_boot
  <2>1. PICK soc \in {Invalid, 0, 1}, discharging \in BOOLEAN :
          /\ soc # Invalid => discharging = ~power.charging
          /\ battery' = [stopped |-> ~discharging, last_state_of_charge |-> soc]
    BY <1>9 DEF battery_boot
  <2>2. hb'.pc = "idle" /\ power' = [power EXCEPT !.charged = power.charging]
    BY <1>2, <1>9 DEF battery_boot
  <2>3. power'.charging = power.charging /\ power'.charged = power.charging
    BY <1>1, <2>2 DEF Power
  <2>4. power.charging => soc < 0 \/ ~discharging
    BY <2>1 DEF Invalid
  <2> QED
    BY <2>1, <2>2, <2>3, <2>4 DEF ChargeKnown, Reading, Known
<1>10. CASE stopped_discharging
  <2>1. /\ hb' = hb
        /\ battery' = [battery EXCEPT !.stopped = TRUE]
        /\ power' = [power EXCEPT !.charging = TRUE, !.charged = TRUE,
                                  !.raced = @ \/ hb.pc \in {"battery_sample", "battery_store"}]
    BY <1>10 DEF stopped_discharging
  <2>2. battery'.stopped = TRUE /\ power'.charged = TRUE
    BY <1>1, <2>1 DEF Battery, Power
  <2>3. hb.pc \in Reading => power'.raced = TRUE
    BY <1>1, <2>1 DEF Power, Reading
  <2> QED
    BY <2>1, <2>2, <2>3 DEF ChargeKnown, Reading, Known
<1>11. CASE Unplug
  <2>1. hb' = hb /\ battery' = battery /\ power' = [power EXCEPT !.charging = FALSE]
    BY <1>11 DEF Unplug
  <2>2. /\ power'.charging = FALSE /\ power'.charged = power.charged /\ power'.before = power.before
        /\ power'.raced = power.raced /\ power'.was_raced = power.was_raced
    BY <1>1, <2>1 DEF Power
  <2> QED
    BY <1>3, <1>4, <2>1, <2>2 DEF ChargeKnown, Known, KnownSinceCached
<1>12. ASSUME ~battery_cache, ~battery_sample, ~battery_store, ~battery_boot, ~stopped_discharging, ~Unplug
       PROVE  ChargeKnown'
  <2>1. battery' = battery /\ power' = power
    BY <1>5, <1>12, BatteryKept
  <2>2. CASE hb' = hb
    BY <1>3, <1>4, <2>1, <2>2 DEF ChargeKnown, Known, KnownSinceCached
  <2>3. ASSUME hb.pc \notin {"boot", "check", "battery_boot"} \cup Reading, hb'.pc \notin Reading
        PROVE  ChargeKnown'
    BY <1>4, <2>1, <2>3 DEF ChargeKnown, Known, Reading
  <2>4. ASSUME Heart PROVE ChargeKnown'
    <3>1. ASSUME heartbeat_timer \/ tallied \/ collect_logs \/ encode \/ heartbeat_collect PROVE ChargeKnown'
      BY <2>3, <3>1, HeartMoves DEF Moves, Reading
    <3>5. ASSUME tally PROVE ChargeKnown'
      BY <2>3, <3>5, HeartMoves DEF Moves, Reading
    <3>6. ASSUME printed PROVE ChargeKnown'
      <4>1. hb.then \in {"encode", "sleep"}
        BY <1>1 DEF Task
      <4> QED
        BY <2>3, <3>6, <4>1, HeartMoves DEF Moves, Reading
    <3>2. ASSUME reliability_collect PROVE ChargeKnown'
      BY <2>3, <3>2, HeartMoves DEF Moves, Reading
    <3>3. ASSUME NEW prints \in BOOLEAN, collect_data(prints) PROVE ChargeKnown'
      <4>1. hb.then \in {"encode", "sleep"}
        BY <1>1 DEF Task
      <4> QED
        BY <2>3, <3>3, <4>1, HeartMoves DEF Moves, Reading
    <3>4. ASSUME reset \/ enter_sleep \/ wake PROVE ChargeKnown'
      BY <1>2, <2>3, <3>4, HeartMoves DEF Reading
    <3> QED
      BY <1>12, <2>4, <3>1, <3>2, <3>3, <3>4, <3>5, <3>6 DEF Heart
  <2>5. ~Boot
    BY <1>2, <1>3, <1>12, BootMoves DEF Boot, Moves
  <2>6. ASSUME Application \/ Device PROVE ChargeKnown'
    BY <1>5, <2>2, <2>6, OthersStay DEF Device
  <2> QED
    BY <2>4, <2>5, <2>6 DEF Next
<1> QED
  BY <1>6, <1>7, <1>8, <1>9, <1>10, <1>11, <1>12

LEMMA DropStep ==
  ASSUME Typed, BatteryInStep, DropInStep, BatteryAwake, Next
  PROVE  DropInStep'
<1>1. hb \in Task /\ power \in Power /\ battery \in Battery /\ ctx \in Context /\ build \in Builds
      /\ build' = build
  BY BuildKept DEF Typed
<1>2. \A pc : At(pc).pc = pc
  BY DEF At
<1> DEFINE Set == soc_drop \in ctx.is_set
           SetNext == soc_drop \in ctx'.is_set
           Where == SetNext => build.battery /\ hb'.pc \in Collected
           Wholly == SetNext /\ hb'.pc # "reset" => ~power'.before
<1>3. Where /\ Wholly
  <2>1. CASE battery_store
    <3>1. hb.pc = "battery_store" /\ hb'.pc = "collect_logs"
      BY <2>1, HeartMoves DEF Moves
    <3>2. build.battery
      BY <3>1 DEF BatteryInStep, Sleepless, Reading
    <3>3. power'.before = (power.before /\ ~power.was_raced /\ ~power.raced)
      BY <1>1, <2>1 DEF battery_store, Power
    <3>4. ~Set
      BY <3>1 DEF DropInStep, Collected
    <3>5. SetNext => hb.discharging /\ ~hb.stopped /\ hb.soc >= 0 /\ battery.last_state_of_charge >= 0
      BY <2>1, <3>4 DEF battery_store
    <3>6. battery.last_state_of_charge \in Int
      BY <1>1 DEF Battery, Charge, Invalid
    <3>7. SetNext => ~KnownSinceCached
      BY <3>5, <3>6 DEF KnownSinceCached
    <3>8. power.before /\ ~power.was_raced /\ ~power.raced => KnownSinceCached
      BY <3>1, <3>2 DEF BatteryInStep, Booting, ChargeKnown
    <3> QED
      BY <3>1, <3>2, <3>3, <3>7, <3>8 DEF Collected
  <2>2. CASE reset \/ \E crash \in BOOLEAN : Reset(crash)
    <3>1. ~battery_store
      BY <1>2, <2>2, HeartMoves, BootMoves DEF Moves
    <3> QED
      BY <2>2, <3>1, DropSetByStore
  <2>3. ASSUME ~battery_store, ~reset, \A crash \in BOOLEAN : ~Reset(crash), SetNext
        PROVE  Where /\ Wholly
    <3>1. Set /\ build.battery /\ hb.pc \in Collected
      BY <2>3, DropSetByStore DEF DropInStep
    <3>2. ~build.restore /\ hb.then # "sleep"
      BY <1>1, <3>1 DEF BatteryInStep, Sleepless, BatteryAwake
    <3>3. hb'.pc \in Collected /\ (hb'.pc # "reset" => hb.pc # "reset")
      <4>1. CASE Heart
        <5>1. ASSUME collect_logs PROVE hb'.pc \in Collected /\ hb.pc # "reset"
          BY <5>1, HeartMoves DEF Moves, Collected
        <5>2. ASSUME NEW prints \in BOOLEAN, collect_data(prints)
              PROVE  hb'.pc \in Collected /\ hb.pc # "reset"
          <6>1. hb.then = "encode"
            BY <1>1, <3>2 DEF Task
          <6> QED
            BY <5>2, <6>1, HeartMoves DEF Moves, Collected
        <5>3. ASSUME encode PROVE hb'.pc = "reset" /\ hb.pc # "reset"
          BY <5>3, HeartMoves DEF Moves
        <5>5. ASSUME tally PROVE hb'.pc = hb.pc /\ hb.pc # "reset"
          BY <5>5, HeartMoves DEF Moves
        <5>6. ASSUME printed PROVE hb'.pc \in Collected /\ hb.pc # "reset"
          <6>1. hb.then = "encode"
            BY <1>1, <3>2 DEF Task
          <6> QED
            BY <5>6, <6>1, HeartMoves DEF Moves, Collected
        <5>4. ~heartbeat_timer /\ ~tallied /\ ~heartbeat_collect /\ ~reliability_collect /\ ~battery_cache
              /\ ~battery_sample /\ ~enter_sleep /\ ~wake
          BY <3>1, HeartMoves DEF Moves, Collected
        <5> QED
          BY <2>3, <3>1, <4>1, <5>1, <5>2, <5>3, <5>4, <5>5, <5>6 DEF Heart, Collected
      <4>2. ~Boot
        BY <3>1, BootMoves DEF Boot, Moves, Collected
      <4>3. CASE Application \/ Device
        BY <2>3, <3>1, <4>3, OthersStay DEF Device
      <4> QED
        BY <4>1, <4>2, <4>3 DEF Next
    <3>4. power'.before = power.before
      <4>1. ~battery_sample /\ ~battery_boot
        BY <3>1, HeartMoves, BootMoves DEF Moves, Collected
      <4>2. CASE stopped_discharging \/ Unplug
        BY <1>1, <4>2 DEF stopped_discharging, Unplug, Power
      <4>3. CASE ~stopped_discharging /\ ~Unplug
        BY <2>3, <4>1, <4>3, BatteryKept
      <4> QED
        BY <4>2, <4>3
    <3> QED
      BY <3>1, <3>3, <3>4 DEF DropInStep
  <2> QED
    BY <2>1, <2>2, <2>3
<1>4. DropWhileDischarging'
  <2>1. CASE encode
    <3>1. /\ hb.pc = "encode"
          /\ event' = event \/ (event'.soc_drop = Set /\ event'.charged = power.before)
      BY <2>1 DEF encode, soc_drop
    <3>2. Set => ~power.before
      BY <3>1 DEF DropInStep
    <3> QED
      BY <3>1, <3>2 DEF DropWhileDischarging, DropInStep
  <2>2. CASE ~encode
    BY <2>2, EventKept DEF DropInStep, DropWhileDischarging
  <2> QED
    BY <2>1, <2>2
<1> QED
  BY <1>1, <1>3, <1>4 DEF DropInStep

\* A drop of the state of charge is reported only for an interval that was all discharging: the flag is
\* read before the state of charge and set from it after, and what a reading that failed leaves behind
\* never makes an interval valid.
THEOREM DropsWhileDischarging ==
  ASSUME BatteryAwake
  PROVE  Spec => []DropWhileDischarging
<1> DEFINE IInv == Typed /\ BatteryInStep /\ DropInStep
<1>1. Init => IInv
  <2> SUFFICES ASSUME Init PROVE IInv
    OBVIOUS
  <2>1. hb.pc = "boot" /\ hb.then = "encode" /\ ctx.is_set = {} /\ event.session = "none"
    BY DEF Init, At, NoContext, NoEvent
  <2>2. BatteryInStep
    BY <2>1 DEF BatteryInStep, Sleepless, Reading, Booting
  <2>3. DropInStep
    BY <2>1 DEF DropInStep, DropWhileDischarging
  <2> QED
    BY <2>2, <2>3, InitTyped
<1>2. IInv /\ [Next]_vars => IInv'
  <2> SUFFICES ASSUME IInv, [Next]_vars PROVE IInv'
    OBVIOUS
  <2>1. CASE Next
    <3>1. Typed' /\ Sleepless' /\ DropInStep'
      BY <2>1, TypedStep, SleeplessStep, DropStep DEF BatteryInStep
    <3>2. build' = build
      BY <2>1, BuildKept
    <3>3. BatteryInStep'
      BY <2>1, <3>1, <3>2, ChargeKnownStep DEF BatteryInStep
    <3> QED
      BY <3>1, <3>3
  <2>2. CASE UNCHANGED vars
    <3>1. Typed'
      BY <2>2 DEF vars, Typed
    <3>2. BatteryInStep'
      BY <2>2 DEF vars, BatteryInStep, Sleepless, ChargeKnown, Known, KnownSinceCached, Booting
    <3>3. DropInStep'
      BY <2>2 DEF vars, DropInStep, DropWhileDischarging
    <3> QED
      BY <3>1, <3>2, <3>3
  <2> QED
    BY <2>1, <2>2
<1>3. IInv => DropWhileDischarging
  BY DEF DropInStep
<1> QED
  BY <1>1, <1>2, <1>3, PTL DEF Spec

-------------------------------------------------------------------------------
(* The sessions                                                                 *)

Count(g) == <<g, "count">>
Crashes(g) == <<g, "operational_crashes">>
\* What a context holds of a session.
SameSession(c, d, g) ==
  /\ IntervalMs(g) \in d.running <=> IntervalMs(g) \in c.running
  /\ d.start_time_ms[IntervalMs(g)] = c.start_time_ms[IntervalMs(g)]
  /\ \A k \in {IntervalMs(g), Count(g), Crashes(g)} : d.values[k] = c.values[k]

LEMMA SessionKeys ==
  ASSUME NEW g \in Session
  PROVE  /\ g \in Group /\ g # "heartbeat" /\ IntervalMs(g) \in Timer
         /\ {IntervalMs(g), Count(g), Crashes(g)} \subseteq Key
         /\ Count(g) \notin Timer /\ Crashes(g) \notin Timer /\ Count(g) # Crashes(g)
         /\ \A k \in {IntervalMs(g), Count(g), Crashes(g)} : k[1] = g
         /\ \A name \in HeartbeatNumber \cup HeartbeatTimer : Heartbeat(name) \in Key /\ Heartbeat(name)[1] # g
  BY SessionAssumption, Keys DEF Group, IntervalMs, Count, Crashes, Heartbeat

\* An operation on the metrics of another session.
LEMMA OtherSession ==
  ASSUME now \in Nat, NEW c \in Context, NEW g \in Session, NEW j \in Key, j[1] # g
  PROVE  /\ \A amount \in Int : SameSession(c, add(c, j, amount), g)
         /\ \A v \in Value : SameSession(c, set_unsigned(c, j, v), g)
         /\ j \in Timer => /\ SameSession(c, timer_start(c, j), g)
                           /\ SameSession(c, timer_stop(c, j), g)
<1>1. /\ IntervalMs(g) \in Timer /\ \A k \in {IntervalMs(g), Count(g), Crashes(g)} : k \in Key /\ k # j
  BY SessionKeys
<1>2. ASSUME NEW amount \in Int PROVE SameSession(c, add(c, j, amount), g)
  BY <1>1, AddTyped DEF SameSession
<1>3. ASSUME NEW v \in Value PROVE SameSession(c, set_unsigned(c, j, v), g)
  BY <1>1, SetTyped DEF SameSession
<1>4. ASSUME j \in Timer PROVE SameSession(c, timer_start(c, j), g)
  BY <1>1, <1>4, StartTyped DEF SameSession
<1>5. ASSUME j \in Timer PROVE SameSession(c, timer_stop(c, j), g)
  BY <1>1, <1>5, StopTyped DEF SameSession
<1> QED
  BY <1>2, <1>3, <1>4, <1>5

LEMMA OtherSessionReset ==
  ASSUME NEW c \in Context, NEW g \in Session, NEW h \in Group, h # g
  PROVE  SameSession(c, reset_metrics(c, h), g)
<1>1. \A k \in {IntervalMs(g), Count(g), Crashes(g)} : k \in Key /\ k[1] # h
  BY SessionKeys
<1> QED
  BY <1>1, ResetTyped DEF SameSession

LEMMA AddsToCount ==
  ASSUME NEW g, NEW amount, heartbeat_add(g, amount)
  PROVE  ctx' = add(ctx, <<g, "count">>, amount)
  BY DEF heartbeat_add

\* The calls of one session and the heartbeat leave the others alone.
LEMMA SessionKept ==
  ASSUME Typed, Next, NEW g \in Session,
         ~tally, ~boot, ~check_session(g), ~session_start(g), ~session_end(g), ~session_reset(g),
         \A amount \in build.amounts : ~heartbeat_add(g, amount),
         \A crash \in BOOLEAN : ~Reset(crash), \A j \in Timer : ~timer_read(j)
  PROVE  SameSession(ctx, ctx', g)
<1> DEFINE Goal == SameSession(ctx, ctx', g)
<1> SUFFICES Goal
  OBVIOUS
<1>1. now \in Nat /\ ctx \in Context /\ build \in Builds
  BY DEF Typed
<1>2. \A name \in HeartbeatNumber : Heartbeat(name) \in Key /\ Heartbeat(name)[1] # g
  BY SessionKeys
<1>3. "heartbeat" \in Group /\ "heartbeat" # g
  BY SessionKeys DEF Group
<1>4. CASE ctx' = ctx
  BY <1>4 DEF SameSession
<1>5. ASSUME Heart PROVE Goal
  <2>1. ASSUME reliability_collect PROVE Goal
    <3> DEFINE hours == Worked \div HOUR
               crash == IF ~reliability.counted /\ unexpected THEN 1 ELSE 0
               i == Heartbeat("hours")
               j == Heartbeat("crashfree_hours")
               one == add(ctx, i, hours)
               rest == hours - crash
    <3>1. ctx' = ctx \/ ctx' = add(one, j, rest)
      BY <2>1 DEF reliability_collect, Worked, Interval
    <3>2. hours \in Int /\ rest \in Int
      BY WorkedTyped
    <3>3. i \in Key /\ i[1] # g /\ j \in Key /\ j[1] # g
      BY <1>2 DEF HeartbeatNumber
    <3> HIDE DEF hours, crash, rest, i, j
    <3>4. one \in Context /\ SameSession(ctx, one, g)
      BY <1>1, <3>2, <3>3, AddTyped, OtherSession
    <3> HIDE DEF one
    <3>5. SameSession(one, add(one, j, rest), g)
      BY <1>1, <3>2, <3>3, <3>4, OtherSession
    <3>6. SameSession(ctx, add(one, j, rest), g)
      BY <3>4, <3>5 DEF SameSession
    <3> QED
      BY <1>4, <3>1, <3>6
  <2>2. ASSUME battery_store PROVE Goal
    <3> DEFINE j == Heartbeat("soc_drop")
               drop == battery.last_state_of_charge - hb.soc
    <3>1. ctx' = ctx \/ (drop \in {0, 1} /\ ctx' = set_unsigned(ctx, j, drop))
      <4>1. battery.last_state_of_charge \in {Invalid, 0, 1} /\ hb.soc \in {Invalid, 0, 1}
        BY DEF Typed, Battery, Task, Charge
      <4>2. ctx' = ctx \/ (/\ hb.soc >= 0 /\ battery.last_state_of_charge >= 0 /\ drop >= 0
                          /\ ctx' = set_unsigned(ctx, j, drop))
        BY <2>2 DEF battery_store
      <4> QED
        BY <4>1, <4>2 DEF Invalid
    <3>2. drop \in {0, 1} => drop \in Value
      BY Small
    <3>3. j \in Key /\ j[1] # g
      BY <1>2 DEF HeartbeatNumber
    <3> HIDE DEF j, drop
    <3> QED
      BY <1>1, <1>4, <3>1, <3>2, <3>3, OtherSession
  <2>3. ASSUME collect_logs PROVE Goal
    <3> DEFINE j == Heartbeat("log_lines")
               delta == (log_recorded - ctx.last_log) % UINT32
               amount == IF delta < UINT32 \div 2 THEN delta ELSE delta - UINT32
               d == add(ctx, j, amount)
    <3>1. j \in Key /\ j[1] # g
      BY <1>2 DEF HeartbeatNumber
    <3>2. amount \in Int
      <4>1. log_recorded \in Int /\ ctx.last_log \in Int
        BY <1>1, Widths DEF Typed, Context, Value
      <4>2. delta \in Int
        <5> DEFINE lines == log_recorded - ctx.last_log
        <5>1. lines \in Int
          BY <4>1
        <5> HIDE DEF lines
        <5> QED
          BY <5>1, Widths, ModRange DEF lines
      <4> HIDE DEF delta
      <4> QED
        BY <4>2, Widths
    <3>3. ctx' = ctx \/ ctx' = [d EXCEPT !.last_log = log_recorded]
      BY <2>3 DEF collect_logs
    <3> HIDE DEF j, amount
    <3>4. d \in Context /\ SameSession(ctx, d, g)
      BY <1>1, <3>1, <3>2, AddTyped, OtherSession
    <3> HIDE DEF d
    <3>5. SameSession(ctx, [d EXCEPT !.last_log = log_recorded], g)
      BY <3>4 DEF SameSession, Context
    <3> QED
      BY <1>4, <3>3, <3>5
  <2>4. ASSUME enter_sleep PROVE Goal
    BY <1>1, <2>4 DEF enter_sleep, Context, SameSession
  <2>5. ASSUME reset PROVE Goal
    BY <1>1, <1>3, <2>5, OtherSessionReset DEF reset
  <2>6. ASSUME \/ heartbeat_collect \/ battery_cache \/ encode \/ wake
               \/ heartbeat_timer \/ tallied \/ printed \/ \E prints \in BOOLEAN : collect_data(prints)
        PROVE  ctx' = ctx
    BY <2>6 DEF heartbeat_collect, battery_cache, encode, wake, heartbeat_timer, tallied, printed, collect_data
  <2>7. ASSUME battery_sample PROVE ctx' = ctx
    BY <2>7 DEF battery_sample
  <2> HIDE DEF Goal
  <2> QED
    BY <1>4, <1>5, <2>1, <2>2, <2>3, <2>4, <2>5, <2>6, <2>7 DEF Heart, Goal
<1>6. ASSUME Boot PROVE Goal
  <2>1. ASSUME NEW h \in Session, check_session(h) PROVE Goal
    <3> DEFINE c == reset_metrics(ctx, h)
               j == Crashes(h)
    <3>1. h # g /\ h \in Group /\ j \in Key /\ j[1] # g
      BY <2>1, SessionKeys
    <3>2. ctx' = ctx \/ ctx' = add(c, j, 1)
      BY <2>1 DEF check_session, Crashes
    <3> HIDE DEF j
    <3>3. c \in Context /\ SameSession(ctx, c, g)
      BY <1>1, <3>1, ResetTyped, OtherSessionReset
    <3> HIDE DEF c
    <3>4. SameSession(c, add(c, j, 1), g)
      BY <1>1, <3>1, <3>3, OtherSession
    <3>5. SameSession(ctx, add(c, j, 1), g)
      BY <3>3, <3>4 DEF SameSession
    <3> QED
      BY <1>4, <3>2, <3>5
  <2>2. ASSUME end_boot \/ battery_boot PROVE ctx' = ctx
    BY <2>2 DEF end_boot, battery_boot
  <2> HIDE DEF Goal
  <2> QED
    BY <1>4, <1>6, <2>1, <2>2 DEF Boot, Goal
<1>7. ASSUME Application PROVE Goal
  <2>1. ASSUME NEW h \in Group, NEW amount \in build.amounts, heartbeat_add(h, amount) PROVE Goal
    <3> DEFINE j == Count(h)
    <3>1. ctx' = add(ctx, j, amount) /\ h # g
      <4>1. h # g
        BY <2>1
      <4>2. ctx' = add(ctx, <<h, "count">>, amount)
        BY <2>1, AddsToCount
      <4> QED
        BY <4>1, <4>2 DEF Count
    <3>2. j \in Key /\ j[1] # g /\ amount \in Int
      BY <1>1, <3>1, Keys, BuildTyped DEF Count
    <3> HIDE DEF j
    <3> QED
      BY <1>1, <3>1, <3>2, OtherSession
  <2>2. ASSUME NEW h \in Session, session_start(h) PROVE Goal
    <3> DEFINE c == reset_metrics(ctx, h)
               j == IntervalMs(h)
    <3>1. h # g /\ h \in Group /\ j \in Timer /\ j \in Key /\ j[1] # g
      BY <2>2, SessionKeys
    <3>2. ctx' = timer_start(c, j)
      BY <2>2 DEF session_start
    <3> HIDE DEF j
    <3>3. c \in Context /\ SameSession(ctx, c, g)
      BY <1>1, <3>1, ResetTyped, OtherSessionReset
    <3> HIDE DEF c
    <3>4. SameSession(c, timer_start(c, j), g)
      BY <1>1, <3>1, <3>3, OtherSession
    <3> QED
      BY <3>2, <3>3, <3>4 DEF SameSession
  <2>3. ASSUME NEW h \in Session, session_end(h) \/ session_reset(h) PROVE Goal
    <3> DEFINE j == IntervalMs(h)
               c == timer_stop(ctx, j)
    <3>1. h # g /\ h \in Group /\ j \in Timer /\ j \in Key /\ j[1] # g
      BY <2>3, SessionKeys
    <3>2. ctx' = c \/ ctx' = reset_metrics(c, h)
      BY <2>3 DEF session_end, session_reset
    <3> HIDE DEF j
    <3>3. c \in Context /\ SameSession(ctx, c, g)
      BY <1>1, <3>1, StopTyped, OtherSession
    <3> HIDE DEF c
    <3>4. SameSession(c, reset_metrics(c, h), g)
      BY <3>1, <3>3, OtherSessionReset
    <3>5. SameSession(ctx, reset_metrics(c, h), g)
      BY <3>3, <3>4 DEF SameSession
    <3> QED
      BY <3>2, <3>3, <3>5
  <2>4. ASSUME NEW t \in Net, timer_call(t) PROVE Goal
    <3> DEFINE j == Head(net[t])[2]
    <3>1. Head(net[t]) \in Call
      BY <2>4 DEF timer_call, Typed
    <3>2. j \in Timer /\ j \in Key /\ j[1] # g
      BY <3>1, Keys, SessionKeys DEF Call, HeartbeatTimer
    <3>3. ctx' = timer_start(ctx, j) \/ ctx' = timer_stop(ctx, j)
      BY <2>4 DEF timer_call
    <3> HIDE DEF j
    <3> QED
      BY <1>1, <3>2, <3>3, OtherSession
  <2>5. ASSUME NEW t \in Net, NEW state \in DOMAIN StateCalls, connected_state_change(t, state)
        PROVE  ctx' = ctx
    BY <2>5 DEF connected_state_change
  <2> HIDE DEF Goal
  <2> QED
    BY <1>4, <1>7, <2>1, <2>2, <2>3, <2>4, <2>5 DEF Application, Goal
<1>8. ASSUME Device PROVE ctx' = ctx
  BY <1>8 DEF Device, Tick, stopped_discharging, Unplug, Log
<1> QED
  BY <1>4, <1>5, <1>6, <1>7, <1>8 DEF Next

\* No session is as long as its time has room for.
ShortSessions == \A b \in Builds : b.max_time < UINT32

SessionTimed(g) ==
  LET k == IntervalMs(g)
  IN /\ k \in ctx.running <=> g \in truth.open
     /\ truth.ran[k] <= now
     /\ k \in ctx.running =>
          /\ Elapsed(ctx, k) <= now - truth.beat
          /\ truth.since[g] <= TimeOf(ctx, k) /\ TimeOf(ctx, k) <= truth.ran[k]
          /\ ctx.values[Count(g)] = truth.added[g]
          /\ ctx.values[Crashes(g)] = 0
\* Until boot has ended, the marks in retained RAM are those of the sessions that resets interrupted;
\* then, those of the sessions that are open.
Marked ==
  /\ hb.pc \in {"boot", "check"} => active_sessions = truth.owed /\ truth.open = {}
  /\ hb.pc \notin {"boot", "check"} => active_sessions = truth.open /\ truth.owed = {}
  /\ active_sessions \subseteq build.sessions
  /\ hb.pc = "check" /\ unexpected => truth.owed \subseteq hb.left
InTime == now <= build.max_time

LEMMA InTimeStep ==
  ASSUME Typed, InTime, Next
  PROVE  InTime'
<1>1. build' = build /\ now \in Nat /\ build.max_time \in Nat
  BY BuildKept, BuildTyped DEF Typed, Build
<1>2. CASE Tick
  BY <1>1, <1>2 DEF Tick, InTime
<1>3. CASE \E crash \in BOOLEAN : Reset(crash)
  <2>1. now' = 0 \/ now' = now
    BY <1>3 DEF Reset
  <2> QED
    BY <1>1, <2>1 DEF InTime
<1>4. ASSUME ~Tick, \A crash \in BOOLEAN : ~Reset(crash) PROVE now' = now
  <2>1. CASE encode \/ heartbeat_timer \/ tallied \/ boot
    BY <2>1 DEF encode, heartbeat_timer, tallied, boot, env
  <2>2. CASE ~encode /\ ~heartbeat_timer /\ ~tallied /\ ~boot
    <3>1. IntervalMs("heartbeat") \in Timer /\ IntervalMs("heartbeat")[1] = "heartbeat"
      BY Keys DEF Group, IntervalMs
    <3> QED
      BY <1>4, <2>2, <3>1, TimeHistoryKept
  <2> QED
    BY <2>1, <2>2
<1> QED
  BY <1>1, <1>2, <1>3, <1>4 DEF InTime

LEMMA CallableAwake ==
  /\ Callable => hb.pc \notin {"boot", "check", "battery_boot", "asleep"}
  /\ \A g \in Session : session_start(g) \/ session_end(g) \/ session_reset(g) => Callable
  /\ \A g \in Group, amount \in build.amounts : heartbeat_add(g, amount) => Callable
  /\ \A k \in Timer : timer_read(k) => Callable
<1>1. Callable => hb.pc \notin {"boot", "check", "battery_boot", "asleep"}
  BY DEF Callable, Free, Awake, Booting
<1>2. \A g \in Session : session_start(g) \/ session_end(g) \/ session_reset(g) => Callable
  BY DEF session_start, session_end, session_reset
<1>3. ASSUME NEW g \in Group, NEW amount \in build.amounts, heartbeat_add(g, amount) PROVE Callable
  BY <1>3 DEF heartbeat_add
<1>4. \A k \in Timer : timer_read(k) => Callable
  BY DEF timer_read
<1> QED
  BY <1>1, <1>2, <1>3, <1>4

\* The steps that mark sessions, or note which are open and owed.
LEMMA MarksKept ==
  ASSUME Typed, Next, ~end_boot, \A crash \in BOOLEAN : ~Reset(crash),
         \A g \in Session : ~session_start(g) /\ ~session_end(g) /\ ~session_reset(g) /\ ~check_session(g)
  PROVE  active_sessions' = active_sessions /\ truth'.open = truth.open /\ truth'.owed = truth.owed
<1> DEFINE Goal == active_sessions' = active_sessions /\ truth'.open = truth.open /\ truth'.owed = truth.owed
<1> SUFFICES Goal
  OBVIOUS
<1>0. truth \in Truth
  BY DEF Typed
<1>1. CASE Heart
  <2>1. ASSUME heartbeat_timer \/ tallied \/ encode PROVE Goal
    BY <2>1, NotesOnly DEF heartbeat_timer, tallied, encode, reboots
  <2>2. ASSUME heartbeat_collect \/ reliability_collect \/ battery_cache \/ collect_logs PROVE Goal
    BY <2>2 DEF heartbeat_collect, reliability_collect, battery_cache, collect_logs, reboots, history
  <2>3. ASSUME battery_sample PROVE Goal
    BY <2>3 DEF battery_sample, reboots
  <2>5. ASSUME battery_store PROVE Goal
    BY <2>5 DEF battery_store, reboots
  <2>4. ASSUME \/ tally \/ printed \/ reset \/ enter_sleep \/ wake
               \/ \E prints \in BOOLEAN : collect_data(prints)
        PROVE  Goal
    BY <2>4 DEF reset, enter_sleep, wake, tally, printed, collect_data, reboots, history
  <2> QED
    BY <1>1, <2>1, <2>2, <2>3, <2>4, <2>5 DEF Heart
<1>2. CASE Boot
  <2>1. ASSUME boot PROVE Goal
    BY <1>0, <2>1 DEF boot, reboots, Truth
  <2>2. ASSUME battery_boot PROVE Goal
    BY <2>2 DEF battery_boot, reboots
  <2> QED
    BY <1>2, <2>1, <2>2 DEF Boot
<1>3. CASE Application
  <2>1. ASSUME NEW h \in Group, NEW amount \in build.amounts, heartbeat_add(h, amount) PROVE Goal
    BY <1>0, <2>1 DEF heartbeat_add, reboots, Truth
  <2>2. ASSUME NEW k \in Timer, timer_read(k) PROVE Goal
    BY <2>2 DEF timer_read, reboots
  <2>3. ASSUME NEW t \in Net, timer_call(t) PROVE Goal
    BY <2>3 DEF timer_call, reboots
  <2>4. ASSUME NEW t \in Net, NEW state \in DOMAIN StateCalls, connected_state_change(t, state) PROVE Goal
    BY <2>4 DEF connected_state_change, reboots
  <2> QED
    BY <1>3, <2>1, <2>2, <2>3, <2>4 DEF Application
<1>4. CASE Device
  <2>1. ASSUME Tick \/ Log PROVE Goal
    BY <1>0, <2>1 DEF Tick, Log, reboots, Truth
  <2>2. ASSUME stopped_discharging \/ Unplug PROVE Goal
    BY <2>2 DEF stopped_discharging, Unplug, reboots
  <2> QED
    BY <1>4, <2>1, <2>2 DEF Device
<1> QED
  BY <1>1, <1>2, <1>3, <1>4 DEF Next

LEMMA MarkedStep ==
  ASSUME Typed, Marked, Next
  PROVE  Marked'
<1>1. build' = build /\ build \in Builds /\ truth \in Truth /\ hb \in Task
      /\ build.sessions \subseteq Session
  BY BuildKept, BuildTyped DEF Typed
<1>2. \A pc : At(pc).pc = pc
  BY DEF At
<1>3. ASSUME NEW g \in Session, session_start(g) \/ session_end(g) \/ session_reset(g) PROVE Marked'
  <2>1. hb.pc \notin {"boot", "check"} /\ hb' = hb
    BY <1>3, CallableAwake, OthersStay DEF Application
  <2>2. active_sessions = truth.open /\ truth.owed = {}
    BY <2>1 DEF Marked
  <2>3. CASE session_start(g)
    <3>1. /\ g \in build.sessions /\ active_sessions' = active_sessions \cup {g}
          /\ truth'.open = truth.open \cup {g} /\ truth'.owed = truth.owed
      BY <1>1, <2>3 DEF session_start, Truth
    <3> QED
      BY <1>1, <2>1, <2>2, <3>1 DEF Marked
  <2>4. CASE session_end(g) \/ session_reset(g)
    <3>1. /\ active_sessions' = active_sessions \ {g}
          /\ truth'.open = truth.open \ {g} /\ truth'.owed = truth.owed
      BY <1>1, <2>4 DEF session_end, session_reset, Truth
    <3> QED
      BY <1>1, <2>1, <2>2, <3>1 DEF Marked
  <2> QED
    BY <1>3, <2>3, <2>4
<1>4. ASSUME NEW g \in Session, check_session(g) PROVE Marked'
  <2>1. hb.pc = "check" /\ hb'.pc = "check" /\ hb'.left = hb.left \ {g} /\ unexpected' = unexpected
    BY <1>4, BootMoves DEF Moves, check_session
  <2>2. active_sessions = truth.owed /\ truth.open = {} /\ (unexpected => truth.owed \subseteq hb.left)
    BY <2>1 DEF Marked
  <2>3. CASE unexpected /\ g \in active_sessions
    <3>1. /\ active_sessions' = active_sessions \ {g}
          /\ truth'.open = truth.open /\ truth'.owed = truth.owed \ {g}
      BY <1>1, <1>4, <2>3 DEF check_session, Truth
    <3> QED
      BY <1>1, <2>1, <2>2, <3>1 DEF Marked
  <2>4. CASE ~(unexpected /\ g \in active_sessions)
    <3>1. active_sessions' = active_sessions /\ truth' = truth
      BY <1>4, <2>4 DEF check_session
    <3> QED
      BY <1>1, <2>1, <2>2, <2>4, <3>1 DEF Marked
  <2> QED
    BY <2>3, <2>4
<1>5. CASE end_boot
  <2>1. /\ hb.pc = "check" /\ hb.left = {} /\ hb'.pc \notin {"boot", "check"}
        /\ active_sessions' = {}
    BY <1>2, <1>5 DEF end_boot
  <2>2. active_sessions = truth.owed /\ truth.open = {} /\ (unexpected => truth.owed \subseteq {})
    BY <2>1 DEF Marked
  <2>3. truth'.open = truth.open /\ truth'.owed = (IF unexpected THEN truth.owed ELSE {})
    BY <1>1, <1>5 DEF end_boot, Truth
  <2> QED
    BY <1>1, <2>1, <2>2, <2>3 DEF Marked
<1>6. ASSUME NEW crash \in BOOLEAN, Reset(crash) PROVE Marked'
  <2>1. /\ hb'.pc = "boot" /\ active_sessions' = active_sessions
        /\ truth'.open = {} /\ truth'.owed = truth.owed \cup truth.open
    BY <1>2, <1>6 DEF Reset, NoTruth
  <2>2. active_sessions = truth.owed \cup truth.open /\ active_sessions \subseteq build.sessions
    BY DEF Marked
  <2> QED
    BY <1>1, <2>1, <2>2 DEF Marked
<1>7. ASSUME ~end_boot, \A crash \in BOOLEAN : ~Reset(crash),
             \A g \in Session : ~session_start(g) /\ ~session_end(g) /\ ~session_reset(g) /\ ~check_session(g)
      PROVE  Marked'
  <2>1. active_sessions' = active_sessions /\ truth'.open = truth.open /\ truth'.owed = truth.owed
    BY <1>7, MarksKept
  <2>2. CASE boot
    <3>1. hb.pc = "boot" /\ hb'.pc = "check" /\ hb'.left = build.sessions
      BY <2>2, BootMoves
    <3> QED
      BY <1>1, <2>1, <3>1 DEF Marked
  <2>3. CASE ~boot
    <3>1. hb.pc # "boot" /\ hb'.pc # "boot"
      BY <1>7, <2>3, BootFirst
    <3>2. CASE Heart
      <4>1. hb.pc # "check"
        <5>1. ASSUME \/ heartbeat_timer \/ tally \/ tallied \/ printed
                     \/ heartbeat_collect \/ reliability_collect \/ battery_cache
              PROVE  hb.pc # "check"
          BY <5>1, HeartMoves DEF Moves
        <5>2. ASSUME battery_sample \/ battery_store \/ collect_logs \/ encode PROVE hb.pc # "check"
          BY <5>2, HeartMoves DEF Moves
        <5>3. ASSUME reset \/ enter_sleep \/ wake \/ \E prints \in BOOLEAN : collect_data(prints)
              PROVE  hb.pc # "check"
          BY <5>3, HeartMoves DEF Moves
        <5> QED
          BY <3>2, <5>1, <5>2, <5>3 DEF Heart
      <4>2. hb'.pc # "check"
        <5>1. ASSUME printed \/ \E prints \in BOOLEAN : collect_data(prints) PROVE hb'.pc # "check"
          BY <1>1, <5>1, HeartMoves DEF Moves, Task
        <5>2. ASSUME reset \/ enter_sleep \/ wake PROVE hb'.pc # "check"
          BY <1>2, <5>2, HeartMoves
        <5>3. ASSUME \/ heartbeat_timer \/ tally \/ tallied
                     \/ heartbeat_collect \/ reliability_collect \/ battery_cache
              PROVE  hb'.pc # "check"
          BY <5>3, HeartMoves DEF Moves
        <5>4. ASSUME battery_sample \/ battery_store \/ collect_logs \/ encode PROVE hb'.pc # "check"
          BY <5>4, HeartMoves DEF Moves
        <5> QED
          BY <3>2, <5>1, <5>2, <5>3, <5>4 DEF Heart
      <4> QED
        BY <1>1, <2>1, <3>1, <4>1, <4>2 DEF Marked
    <3>3. CASE battery_boot
      BY <1>1, <1>2, <2>1, <3>3, BootMoves DEF Marked
    <3>4. CASE Application \/ Device
      <4>1. hb' = hb
        BY <1>7, <3>4, OthersStay DEF Device
      <4>2. CASE hb.pc = "check"
        <5>1. ~Callable /\ ~Free
          BY <4>2, CallableAwake DEF Callable
        <5>2. \A t \in Net, state \in DOMAIN StateCalls : ~connected_state_change(t, state) /\ ~timer_call(t)
          BY <5>1 DEF connected_state_change, timer_call
        <5>3. /\ \A g \in Group, amount \in build.amounts : ~heartbeat_add(g, amount)
              /\ \A k \in Timer : ~timer_read(k)
          BY <5>1, CallableAwake
        <5>4. ~Tick /\ ~stopped_discharging /\ ~Unplug /\ ~Log
          BY <4>2, <5>1 DEF Tick, stopped_discharging, Unplug, Log, Awake, Booting
        <5>5. \A t \in Net : ~timer_call(t)
          BY <5>1 DEF timer_call
        <5> QED
          BY <1>7, <3>4, <5>2, <5>3, <5>4, <5>5 DEF Application, Device
      <4>3. CASE hb.pc # "check"
        BY <1>1, <2>1, <3>1, <4>1, <4>3 DEF Marked
      <4> QED
        BY <4>2, <4>3
    <3> QED
      BY <1>7, <2>3, <3>2, <3>3, <3>4 DEF Next, Boot
  <2> QED
    BY <2>2, <2>3
<1> QED
  BY <1>3, <1>4, <1>5, <1>6, <1>7

LEMMA AddsToHistory ==
  ASSUME truth \in Truth, NEW h \in Group, NEW g \in Session, g # h, NEW amount, heartbeat_add(h, amount)
  PROVE  /\ truth'.since = truth.since /\ truth'.added[g] = truth.added[g]
         /\ truth'.ran = truth.ran /\ truth'.open = truth.open /\ truth'.beat = truth.beat /\ now' = now
<1>1. now' = now
  BY DEF heartbeat_add
<1>2. /\ truth'.since = truth.since /\ truth'.ran = truth.ran /\ truth'.open = truth.open
      /\ truth'.beat = truth.beat
  BY DEF heartbeat_add, Truth
<1>3. truth'.added[g] = truth.added[g]
  BY DEF heartbeat_add, Truth, Group
<1> QED
  BY <1>1, <1>2, <1>3

LEMMA SessionHistoryKept ==
  ASSUME Typed, Next, NEW g \in Session, ~session_start(g), ~session_end(g), ~session_reset(g),
         \A amount \in build.amounts : ~heartbeat_add(g, amount),
         ~Tick, \A crash \in BOOLEAN : ~Reset(crash)
  PROVE  /\ truth'.since[g] = truth.since[g] /\ truth'.added[g] = truth.added[g]
         /\ truth'.ran[IntervalMs(g)] = truth.ran[IntervalMs(g)]
         /\ g \in truth'.open <=> g \in truth.open
         /\ now' = now
<1> DEFINE k == IntervalMs(g)
           Goal == /\ truth'.since[g] = truth.since[g] /\ truth'.added[g] = truth.added[g]
                   /\ truth'.ran[k] = truth.ran[k]
                   /\ g \in truth'.open <=> g \in truth.open
                   /\ now' = now
<1> SUFFICES Goal
  OBVIOUS
<1>0. truth \in Truth /\ g \in Group /\ k \in Timer
  BY SessionKeys DEF Typed
<1> HIDE DEF k
<1>1. CASE Heart
  <2>1. ASSUME heartbeat_timer \/ tallied \/ encode PROVE Goal
    BY <2>1, NotesOnly DEF heartbeat_timer, tallied, encode, env
  <2>2. ASSUME heartbeat_collect \/ reliability_collect \/ battery_cache \/ collect_logs PROVE Goal
    BY <2>2 DEF heartbeat_collect, reliability_collect, battery_cache, collect_logs, env, history
  <2>3. ASSUME battery_sample PROVE Goal
    BY <2>3 DEF battery_sample, env
  <2>4. ASSUME battery_store PROVE Goal
    BY <2>4 DEF battery_store, env
  <2>5. ASSUME \/ tally \/ printed \/ reset \/ enter_sleep \/ wake
               \/ \E prints \in BOOLEAN : collect_data(prints)
        PROVE  Goal
    BY <2>5 DEF reset, enter_sleep, wake, tally, printed, collect_data, env, history
  <2> QED
    BY <1>1, <2>1, <2>2, <2>3, <2>4, <2>5 DEF Heart
<1>2. CASE Boot
  <2>1. ASSUME boot \/ end_boot PROVE Goal
    BY <1>0, <2>1 DEF boot, end_boot, env, Truth
  <2>2. ASSUME battery_boot PROVE Goal
    BY <2>2 DEF battery_boot, env
  <2>3. ASSUME NEW h \in Session, check_session(h) PROVE Goal
    BY <1>0, <2>3 DEF check_session, env, Truth
  <2> QED
    BY <1>2, <2>1, <2>2, <2>3 DEF Boot
<1>3. CASE Application
  <2>1. ASSUME NEW h \in Group, NEW amount \in build.amounts, heartbeat_add(h, amount) PROVE Goal
    <3>1. h # g
      BY <2>1
    <3> QED
      BY <1>0, <2>1, <3>1, AddsToHistory
  <2>2. ASSUME NEW j \in Timer, timer_read(j) PROVE Goal
    BY <2>2 DEF timer_read, unmoved
  <2>3. ASSUME NEW h \in Session, session_start(h) PROVE Goal
    <3>1. h # g /\ IntervalMs(h) # k
      BY <2>3 DEF IntervalMs, k
    <3>2. truth' = [truth EXCEPT !.open = @ \cup {h}, !.added[h] = 0, !.since[h] = 0,
                            !.ran[IntervalMs(h)] = IF h \in truth.open THEN @ ELSE 0]
      BY <2>3 DEF session_start
    <3>3. now' = now
      BY <2>3 DEF session_start, unmoved
    <3> QED
      BY <1>0, <3>1, <3>2, <3>3 DEF Truth
  <2>4. ASSUME NEW h \in Session, session_end(h) \/ session_reset(h) PROVE Goal
    <3>1. h # g
      BY <2>4
    <3>2. truth' = [truth EXCEPT !.open = @ \ {h}] /\ now' = now
      BY <2>4 DEF session_end, session_reset, unmoved
    <3> QED
      BY <1>0, <3>1, <3>2 DEF Truth
  <2>5. ASSUME NEW t \in Net, timer_call(t) PROVE Goal
    BY <2>5 DEF timer_call, unmoved
  <2>6. ASSUME NEW t \in Net, NEW state \in DOMAIN StateCalls, connected_state_change(t, state)
        PROVE  Goal
    BY <2>6 DEF connected_state_change, unmoved
  <2> QED
    BY <1>3, <2>1, <2>2, <2>3, <2>4, <2>5, <2>6 DEF Application
<1>4. CASE Device
  <2>1. ASSUME Log PROVE Goal
    BY <1>0, <2>1 DEF Log, Truth
  <2>2. ASSUME stopped_discharging \/ Unplug PROVE Goal
    BY <2>2 DEF stopped_discharging, Unplug, env
  <2> QED
    BY <1>4, <2>1, <2>2 DEF Device
<1> QED
  BY <1>1, <1>2, <1>3, <1>4 DEF Next

LEMMA BeatKept ==
  ASSUME Typed, Next, ~tallied, ~boot, \A crash \in BOOLEAN : ~Reset(crash)
  PROVE  truth'.beat = truth.beat
<1>1. IntervalMs("heartbeat") \in Timer /\ IntervalMs("heartbeat")[1] = "heartbeat"
  BY Keys DEF Group, IntervalMs
<1>2. CASE Tick
  BY <1>2 DEF Tick, Typed, Truth
<1>3. CASE heartbeat_timer \/ encode
  BY <1>3, NotesOnly
<1>4. CASE ~Tick /\ ~encode /\ ~heartbeat_timer
  BY <1>1, <1>4, TimeHistoryKept
<1> QED
  BY <1>2, <1>3, <1>4

\* Only the end of a session, and boot for one that a crash interrupted, make an event of it.
LEMMA SessionEventKept ==
  ASSUME Typed, Next, \A g \in Session : ~session_end(g) /\ ~check_session(g)
  PROVE  event' = event \/ event'.session \notin Session
<1> DEFINE Goal == event' = event \/ event'.session \notin Session
<1> SUFFICES Goal
  OBVIOUS
<1>1. CASE Heart
  <2>1. ASSUME \/ heartbeat_timer \/ tally \/ tallied \/ printed
               \/ heartbeat_collect \/ reliability_collect \/ battery_cache
        PROVE  event' = event
    BY <2>1 DEF heartbeat_timer, tally, tallied, printed, Tallies, heartbeat_collect, reliability_collect, battery_cache
  <2>2. ASSUME battery_sample PROVE event' = event
    BY <2>2 DEF battery_sample
  <2>3. ASSUME battery_store \/ collect_logs PROVE event' = event
    BY <2>3 DEF battery_store, collect_logs
  <2>4. ASSUME enter_sleep \/ wake \/ \E prints \in BOOLEAN : collect_data(prints)
        PROVE  event' = event
    BY <2>4 DEF enter_sleep, wake, collect_data
  <2>5. ASSUME encode PROVE Goal
    BY <2>5, SessionAssumption DEF encode
  <2>6. ASSUME reset PROVE Goal
    BY <2>6, SessionAssumption DEF reset, NoEvent
  <2> QED
    BY <1>1, <2>1, <2>2, <2>3, <2>4, <2>5, <2>6 DEF Heart
<1>2. CASE Boot
  BY <1>2 DEF Boot, boot, end_boot, battery_boot
<1>3. CASE Application
  <2>1. ASSUME NEW g \in Group, NEW amount \in build.amounts, heartbeat_add(g, amount) PROVE Goal
    BY <2>1 DEF heartbeat_add
  <2>2. ASSUME NEW j \in Timer, timer_read(j) PROVE Goal
    BY <2>2 DEF timer_read
  <2>3. ASSUME NEW g \in Session, session_start(g) \/ session_reset(g) PROVE Goal
    BY <2>3 DEF session_start, session_reset
  <2>4. ASSUME NEW t \in Net, timer_call(t) PROVE Goal
    BY <2>4 DEF timer_call
  <2>5. ASSUME NEW t \in Net, NEW state \in DOMAIN StateCalls, connected_state_change(t, state)
        PROVE  Goal
    BY <2>5 DEF connected_state_change
  <2> QED
    BY <1>3, <2>1, <2>2, <2>3, <2>4, <2>5 DEF Application
<1>4. CASE Device
  <2>1. ASSUME NEW crash \in BOOLEAN, Reset(crash) PROVE Goal
    BY <2>1, SessionAssumption DEF Reset, NoEvent
  <2>2. ASSUME Tick \/ stopped_discharging \/ Unplug \/ Log PROVE Goal
    BY <2>2 DEF Tick, stopped_discharging, Unplug, Log
  <2> QED
    BY <1>4, <2>1, <2>2 DEF Device
<1> QED
  BY <1>1, <1>2, <1>3, <1>4 DEF Next

LEMMA AddsToOwnHistory ==
  ASSUME truth \in Truth, NEW g \in Session, NEW amount, heartbeat_add(g, amount)
  PROVE  /\ truth'.added[g] = truth.added[g] + (Clamp(ctx.values[<<g, "count">>] + amount)
                                               - ctx.values[<<g, "count">>])
         /\ truth'.since = truth.since /\ truth'.ran = truth.ran /\ truth'.open = truth.open
         /\ truth'.beat = truth.beat /\ now' = now
<1>1. now' = now
  BY DEF heartbeat_add
<1>2. /\ truth'.since = truth.since /\ truth'.ran = truth.ran /\ truth'.open = truth.open
      /\ truth'.beat = truth.beat
  BY DEF heartbeat_add, Truth
<1>3. g \in Group
  BY DEF Group
<1>4. truth'.added[g] = truth.added[g] + (Clamp(ctx.values[<<g, "count">>] + amount)
                                        - ctx.values[<<g, "count">>])
  BY <1>3 DEF heartbeat_add, Truth
<1> QED
  BY <1>1, <1>2, <1>4

LEMMA SessionTimedStep ==
  ASSUME AmountsFit, ShortSessions, Typed, BeatInStep, Updating, InTime, Marked, Next,
         NEW g \in Session, SessionTimed(g)
  PROVE  SessionTimed(g)'
<1> DEFINE k == IntervalMs(g)
           n == Count(g)
           o == Crashes(g)
           Goal == /\ k \in ctx'.running <=> g \in truth'.open
                   /\ truth'.ran[k] <= now'
                   /\ k \in ctx'.running =>
                        /\ Elapsed(ctx, k)' <= now' - truth'.beat
                        /\ truth'.since[g] <= TimeOf(ctx, k)' /\ TimeOf(ctx, k)' <= truth'.ran[k]
                        /\ ctx'.values[n] = truth'.added[g]
                        /\ ctx'.values[o] = 0
<1> SUFFICES Goal
  BY DEF SessionTimed
<1>1. /\ now \in Nat /\ ctx \in Context /\ build \in Builds /\ truth \in Truth
      /\ TIMER_MAX \in Nat /\ UINT32 \in Nat
  BY Widths DEF Typed
<1>2. /\ k \in Timer /\ k \in Key /\ n \in Key /\ o \in Key /\ n \notin Timer /\ o \notin Timer /\ n # o
      /\ k[1] = g /\ n[1] = g /\ o[1] = g /\ g \in Group /\ g # "heartbeat" /\ k # n /\ k # o
  BY SessionKeys
<1>3. /\ Elapsed(ctx, k) \in Nat /\ Elapsed(ctx, k) < TIMER_MAX /\ ctx.values[k] \in Nat
      /\ TimeOf(ctx, k) \in Nat /\ truth.ran[k] \in Nat /\ truth.since[g] \in Nat /\ truth.beat \in Nat
      /\ truth.added[g] \in Int
  BY <1>1, <1>2, ElapsedTyped DEF Truth
<1>4. /\ k \in ctx.running <=> g \in truth.open
      /\ truth.ran[k] <= now
      /\ k \in ctx.running =>
           /\ Elapsed(ctx, k) <= now - truth.beat
           /\ truth.since[g] <= TimeOf(ctx, k) /\ TimeOf(ctx, k) <= truth.ran[k]
           /\ ctx.values[n] = truth.added[g]
           /\ ctx.values[o] = 0
  BY DEF SessionTimed
<1>5. now < UINT32
  <2>1. build.max_time \in Nat /\ build.max_time < UINT32
    BY <1>1, BuildTyped DEF Build, ShortSessions
  <2> QED
    BY <1>1, <2>1 DEF InTime
<1>6. TimeOf(ctx, k) < UINT32
  <2>1. CASE k \in ctx.running
    BY <1>1, <1>3, <1>4, <1>5, <2>1
  <2>2. CASE k \notin ctx.running
    <3>1. ctx.values[k] < UINT32 /\ TimeOf(ctx, k) = ctx.values[k] + 0
      BY <1>1, <1>2, <2>2, ElapsedTyped DEF TimeOf
    <3> QED
      BY <1>3, <3>1
  <2> QED
    BY <2>1, <2>2
<1>7. hb.pc # "boot" => truth.beat <= now /\ now - truth.beat < TIMER_MAX
  BY DEF BeatInStep
<1>8. hb.pc \in {"boot", "check"} => g \notin truth.open
  BY DEF Marked
<1> HIDE DEF k, n, o
<1>9. ASSUME NEW crash \in BOOLEAN, Reset(crash) PROVE Goal
  <2>1. ctx'.running = {} /\ truth'.open = {} /\ truth'.ran[k] = 0 /\ now' \in {0, now}
    BY <1>2, <1>9 DEF Reset, NoContext, NoTruth, Zero
  <2> QED
    BY <1>1, <2>1
<1>10. CASE Tick
  <2>1. /\ now' = now + 1 /\ now + 1 - truth.beat < TIMER_MAX /\ ctx' = ctx
        /\ truth'.beat = truth.beat /\ truth'.open = truth.open /\ truth'.added = truth.added
    BY <1>1, <1>10 DEF Tick, Truth
  <2>2. hb.pc # "boot"
    BY <1>10 DEF Tick, Free, Awake, Booting
  <2>3. truth'.since[g] = IF g \in truth.open THEN truth.since[g] + 1 ELSE truth.since[g]
    <3>1. truth'.since = [h \in Session |-> IF h \in truth.open THEN truth.since[h] + 1 ELSE truth.since[h]]
      BY <1>1, <1>10 DEF Tick, Truth
    <3> QED
      BY <3>1
  <2>4. truth'.ran[k] = IF g \in truth.open THEN truth.ran[k] + 1 ELSE truth.ran[k]
    <3> DEFINE r == [j \in Timer |-> IF \/ j = IntervalMs("heartbeat") \/ j[1] \in truth.open
                                        \/ j[1] = "heartbeat" /\ j \in ctx.running
                                     THEN truth.ran[j] + 1 ELSE truth.ran[j]]
    <3>1. truth'.ran = r
      BY <1>1, <1>10 DEF Tick, Truth
    <3>2. k # IntervalMs("heartbeat")
      BY <1>2 DEF IntervalMs
    <3>3. r[k] = IF g \in truth.open THEN truth.ran[k] + 1 ELSE truth.ran[k]
      BY <1>2, <3>2
    <3> QED
      BY <3>1, <3>3
  <2>5. k \in ctx.running => Elapsed(ctx, k)' = Elapsed(ctx, k) + 1
    <3>1. Elapsed(ctx, k)' = elapsed(ctx.start_time_ms[k], (now + 1) % TIMER_MAX)
      BY <2>1 DEF Elapsed
    <3>2. ASSUME k \in ctx.running PROVE Elapsed(ctx, k) < TIMER_MAX - 1
      BY <1>1, <1>3, <1>4, <2>1, <3>2
    <3> QED
      BY <1>1, <1>2, <3>1, <3>2, ElapsedNext
  <2>6. ASSUME k \in ctx.running
        PROVE  TimeOf(ctx, k)' = TimeOf(ctx, k) + 1
    <3>1. TimeOf(ctx, k)' = ctx.values[k] + Elapsed(ctx, k)' /\ TimeOf(ctx, k) = ctx.values[k] + Elapsed(ctx, k)
      BY <2>1, <2>6 DEF TimeOf
    <3> QED
      BY <1>3, <2>5, <2>6, <3>1
  <2>7. CASE k \in ctx.running
    BY <1>1, <1>3, <1>4, <2>1, <2>3, <2>4, <2>5, <2>6, <2>7
  <2>8. CASE k \notin ctx.running
    BY <1>1, <1>3, <1>4, <2>1, <2>4, <2>8
  <2> QED
    BY <2>7, <2>8
<1>11. CASE boot
  <2>1. hb.pc = "boot"
    BY <1>11 DEF boot
  <2>2. now' = now /\ truth'.ran = truth.ran /\ truth'.open = truth.open
    BY <1>1, <1>11 DEF boot, env, Truth
  <2> DEFINE j == Heartbeat("unexpected_reboots")
             i == IntervalMs("heartbeat")
             d == timer_start(NoContext, i)
             v == IF unexpected THEN 1 ELSE 0
  <2>3. ctx' = set_unsigned(d, j, v)
    BY <1>11 DEF boot
  <2>4. j \in Key /\ v \in Value /\ i \in Timer /\ k # i
    BY <1>2, Keys, Small DEF HeartbeatNumber, Group, IntervalMs, k
  <2> HIDE DEF j, v, i
  <2>5. d \in Context /\ d.running = {i}
    <3>1. d \in Context /\ d.running = NoContext.running \cup {i}
      BY <1>1, <2>4, NoContextTyped, StartTyped
    <3>2. NoContext.running = {}
      BY DEF NoContext
    <3> QED
      BY <3>1, <3>2
  <2> HIDE DEF d
  <2>6. ctx'.running = {i}
    BY <2>3, <2>4, <2>5, SetTyped
  <2> QED
    BY <1>4, <1>8, <2>1, <2>2, <2>4, <2>6
<1>12. CASE tally \/ \E j \in Timer : timer_read(j)
  <2>1. now' = now /\ truth' = truth
    BY <1>12 DEF tally, timer_read, unmoved, env, history
  <2>2. PICK j \in Timer : ctx' = timer_update(ctx, j)
    BY <1>12, TallyNext DEF timer_read
  <2>3. j # n /\ j # o
    BY <1>2
  <2>4. /\ SameTime(ctx, ctx', k) /\ (k \in ctx'.running <=> k \in ctx.running)
        /\ ctx'.values[n] = ctx.values[n] /\ ctx'.values[o] = ctx.values[o]
    BY <1>1, <1>2, <1>6, <2>2, <2>3, UpdateTyped, UpdateSameTime
  <2>5. hb.pc # "boot"
    BY <1>12, CallableAwake DEF tally
  <2>6. Elapsed(ctx, k)' = Elapsed(ctx', k) /\ TimeOf(ctx, k)' = TimeOf(ctx', k)
    BY <2>1 DEF Elapsed, TimeOf
  <2>7. CASE k \in ctx'.running
    <3>1. /\ TimeOf(ctx', k) = TimeOf(ctx, k)
          /\ Elapsed(ctx', k) = 0 \/ Elapsed(ctx', k) = Elapsed(ctx, k)
      BY <2>4, <2>7 DEF SameTime
    <3>2. Elapsed(ctx', k) <= now - truth.beat
      BY <1>1, <1>3, <1>4, <1>7, <2>4, <2>5, <2>7, <3>1
    <3> QED
      BY <1>4, <2>1, <2>4, <2>6, <2>7, <3>1, <3>2
  <2>8. CASE k \notin ctx'.running
    BY <1>4, <2>1, <2>4, <2>8
  <2> QED
    BY <2>7, <2>8
<1>18. CASE tallied
  <2>1. ctx' = ctx /\ now' = now /\ hb.pc = "tally" /\ hb.timers = {}
    BY <1>18 DEF tallied, env
  <2>2. /\ truth'.since = truth.since /\ truth'.added = truth.added /\ truth'.ran = truth.ran
        /\ truth'.open = truth.open /\ truth'.beat = truth.began
    BY <1>18, NotesOnly
  <2>3. k \in ctx.running => Elapsed(ctx, k) <= now - truth.began
    BY <2>1 DEF Updating
  <2>4. Elapsed(ctx, k)' = Elapsed(ctx, k) /\ TimeOf(ctx, k)' = TimeOf(ctx, k)
    BY <2>1 DEF Elapsed, TimeOf
  <2> QED
    BY <1>4, <2>1, <2>2, <2>3, <2>4
<1>13. CASE session_start(g)
  <2> DEFINE c == reset_metrics(ctx, g)
             d == timer_start(c, k)
  <2>1. /\ c \in Context /\ c.values[k] = 0 /\ c.values[n] = 0 /\ c.values[o] = 0
        /\ c.running = ctx.running /\ c.start_time_ms = ctx.start_time_ms
    BY <1>1, <1>2, ResetTyped
  <2>2. ctx' = d
    BY <1>13 DEF session_start, k
  <2> HIDE DEF c
  <2>3. /\ d.values = c.values /\ d.running = c.running \cup {k}
        /\ d.start_time_ms[k] = IF k \notin c.running THEN now % TIMER_MAX ELSE c.start_time_ms[k]
    BY <1>1, <1>2, <2>1, StartTyped
  <2> HIDE DEF d
  <2>4. /\ truth' = [truth EXCEPT !.open = @ \cup {g}, !.added[g] = 0, !.since[g] = 0,
                              !.ran[k] = IF g \in truth.open THEN @ ELSE 0]
        /\ now' = now
    BY <1>13 DEF session_start, unmoved, k
  <2>5. /\ g \in truth'.open /\ truth'.added[g] = 0 /\ truth'.since[g] = 0 /\ truth'.beat = truth.beat
        /\ truth'.ran[k] = IF g \in truth.open THEN truth.ran[k] ELSE 0
    BY <1>1, <1>2, <2>4 DEF Truth
  <2>6. hb.pc # "boot"
    BY <1>13, CallableAwake
  <2>7. /\ Elapsed(ctx, k)' = elapsed(d.start_time_ms[k], now % TIMER_MAX)
        /\ TimeOf(ctx, k)' = 0 + Elapsed(ctx, k)'
    BY <2>1, <2>2, <2>3, <2>4 DEF Elapsed, TimeOf
  <2>8. Elapsed(ctx, k)' = IF k \in ctx.running THEN Elapsed(ctx, k) ELSE 0
    <3>1. elapsed(now % TIMER_MAX, now % TIMER_MAX) = 0
      BY <1>1, <1>2, ElapsedTyped
    <3> QED
      BY <2>1, <2>3, <2>7, <3>1 DEF Elapsed
  <2>9. TimeOf(ctx, k) = ctx.values[k] + (IF k \in ctx.running THEN Elapsed(ctx, k) ELSE 0)
    BY DEF TimeOf
  <2>10. /\ Elapsed(ctx, k)' <= now - truth.beat /\ 0 <= TimeOf(ctx, k)' /\ TimeOf(ctx, k)' <= truth'.ran[k]
         /\ truth'.ran[k] <= now
    BY <1>1, <1>3, <1>4, <1>7, <2>5, <2>6, <2>7, <2>8, <2>9
  <2>11. ctx'.values[n] = 0 /\ ctx'.values[o] = 0 /\ k \in ctx'.running
    BY <2>1, <2>2, <2>3
  <2> QED
    BY <2>4, <2>5, <2>10, <2>11
<1>14. CASE session_end(g) \/ session_reset(g)
  <2> DEFINE c == timer_stop(ctx, k)
  <2>1. c \in Context /\ c.running = ctx.running \ {k}
    BY <1>1, <1>2, StopTyped
  <2>2. ctx' = c \/ ctx' = reset_metrics(c, g)
    BY <1>14 DEF session_end, session_reset, k
  <2> HIDE DEF c
  <2>3. reset_metrics(c, g).running = c.running
    BY <1>2, <2>1, ResetTyped
  <2>4. truth' = [truth EXCEPT !.open = @ \ {g}] /\ now' = now
    BY <1>14 DEF session_end, session_reset, unmoved
  <2>5. g \notin truth'.open /\ truth'.ran = truth.ran
    BY <1>1, <2>4 DEF Truth
  <2> QED
    BY <1>4, <2>1, <2>2, <2>3, <2>4, <2>5
<1>15. ASSUME NEW amount \in build.amounts, heartbeat_add(g, amount) PROVE Goal
  <2>1. ctx' = add(ctx, n, amount) /\ amount \in (1 - UINT32)..(UINT32 - 1)
    BY <1>1, <1>15, AddsToCount DEF n, Count, AmountsFit
  <2>2. /\ ctx'.values[n] = clipped(ctx.values[n], amount) /\ ctx'.values[o] = ctx.values[o]
        /\ ctx'.values[k] = ctx.values[k] /\ ctx'.running = ctx.running
        /\ ctx'.start_time_ms = ctx.start_time_ms
    BY <1>1, <1>2, <2>1, AddTyped
  <2>3. ctx.values[n] \in 0..(UINT32 - 1)
    BY <1>1, <1>2 DEF Context, Value
  <2>4. clipped(ctx.values[n], amount) = Clamp(ctx.values[n] + amount)
    BY <2>1, <2>3, ClippedIsClamp
  <2>5. /\ truth'.added[g] = truth.added[g] + (Clamp(ctx.values[n] + amount) - ctx.values[n])
        /\ truth'.since = truth.since /\ truth'.ran = truth.ran /\ truth'.open = truth.open
        /\ truth'.beat = truth.beat /\ now' = now
    BY <1>1, <1>2, <1>15, AddsToOwnHistory DEF n, Count
  <2>6. Clamp(ctx.values[n] + amount) \in Int
    BY <1>1, <2>1, <2>3 DEF Clamp
  <2>7. k \in ctx.running => ctx'.values[n] = truth'.added[g]
    BY <1>3, <1>4, <2>2, <2>3, <2>4, <2>5, <2>6
  <2>8. Elapsed(ctx, k)' = Elapsed(ctx, k) /\ TimeOf(ctx, k)' = TimeOf(ctx, k)
    BY <2>2, <2>5 DEF Elapsed, TimeOf
  <2> QED
    BY <1>4, <2>2, <2>5, <2>7, <2>8
<1>16. CASE check_session(g)
  <2> DEFINE c == reset_metrics(ctx, g)
  <2>1. c \in Context /\ c.running = ctx.running
    BY <1>1, <1>2, ResetTyped
  <2>2. ctx' = ctx \/ ctx' = add(c, o, 1)
    BY <1>16 DEF check_session, o, Crashes
  <2> HIDE DEF c
  <2>3. add(c, o, 1).running = c.running
    BY <1>2, <2>1, AddTyped
  <2>4. truth'.open = truth.open /\ truth'.ran = truth.ran /\ now' = now
    BY <1>1, <1>16 DEF check_session, env, Truth
  <2>5. hb.pc = "check"
    BY <1>16 DEF check_session
  <2> QED
    BY <1>4, <1>8, <2>1, <2>2, <2>3, <2>4, <2>5
<1>17. ASSUME ~tally, ~tallied, ~boot, ~check_session(g), ~session_start(g), ~session_end(g), ~session_reset(g),
              \A amount \in build.amounts : ~heartbeat_add(g, amount),
              ~Tick,
              \A crash \in BOOLEAN : ~Reset(crash), \A j \in Timer : ~timer_read(j)
       PROVE  Goal
  <2>1. /\ k \in ctx'.running <=> k \in ctx.running
        /\ ctx'.start_time_ms[k] = ctx.start_time_ms[k]
        /\ ctx'.values[k] = ctx.values[k] /\ ctx'.values[n] = ctx.values[n] /\ ctx'.values[o] = ctx.values[o]
    BY <1>17, SessionKept DEF SameSession, k, n, o
  <2>2. /\ truth'.since[g] = truth.since[g] /\ truth'.added[g] = truth.added[g]
        /\ truth'.ran[k] = truth.ran[k] /\ (g \in truth'.open <=> g \in truth.open) /\ now' = now
    BY <1>17, SessionHistoryKept DEF k
  <2>3. truth'.beat = truth.beat
    BY <1>17, BeatKept
  <2>4. Elapsed(ctx, k)' = Elapsed(ctx, k) /\ TimeOf(ctx, k)' = TimeOf(ctx, k)
    BY <2>1, <2>2 DEF Elapsed, TimeOf
  <2> QED
    BY <1>4, <2>1, <2>2, <2>3, <2>4
<1> QED
  BY <1>9, <1>10, <1>11, <1>12, <1>13, <1>14, <1>15, <1>16, <1>17, <1>18

\* What the event of a session tells of it.
EventTrue ==
  event.session \in Session =>
    /\ event.crashes = IF event.owed THEN 1 ELSE 0
    /\ IF event.owed THEN event.interval = 0 /\ event.count = 0
       ELSE /\ event.count = event.added
            /\ event.since <= event.interval /\ event.interval <= event.ran

\* The time of a session that ends is all counted, and nothing else was lost from its metrics.
LEMMA EndedEventTrue ==
  ASSUME Typed, ShortSessions, InTime, Marked, NEW g \in Session, SessionTimed(g), session_end(g),
         IntervalMs(g) \in ctx.running
  PROVE  EventTrue'
<1> DEFINE k == IntervalMs(g)
           n == Count(g)
           o == Crashes(g)
           c == timer_stop(ctx, k)
<1>1. now \in Nat /\ ctx \in Context /\ build \in Builds /\ truth \in Truth /\ UINT32 \in Nat
  BY Widths DEF Typed
<1>2. k \in Timer /\ k \in Key /\ n \in Key /\ o \in Key /\ k # n /\ k # o
  BY SessionKeys
<1>3. /\ truth.since[g] <= TimeOf(ctx, k) /\ TimeOf(ctx, k) <= truth.ran[k] /\ truth.ran[k] <= now
      /\ ctx.values[n] = truth.added[g] /\ ctx.values[o] = 0
  BY DEF SessionTimed
<1>4. event' = SessionEvent(c, g)
  BY DEF session_end, k
<1>5. hb.pc \notin {"boot", "check"}
  BY CallableAwake
<1>6. g \notin truth.owed
  BY <1>5 DEF Marked
<1> HIDE DEF k, n, o
<1>7. Updated(ctx, k) = TimeOf(ctx, k)
  <2>1. build.max_time \in Nat /\ build.max_time < UINT32
    BY <1>1, BuildTyped DEF Build, ShortSessions
  <2>2. TimeOf(ctx, k) \in Nat /\ truth.ran[k] \in Nat
    BY <1>1, <1>2, ElapsedTyped DEF Truth
  <2>3. TimeOf(ctx, k) < UINT32
    BY <1>1, <1>3, <2>1, <2>2 DEF InTime
  <2> QED
    BY <1>1, <1>2, <2>3, UpdatedIsTime
<1>8. c.values[k] = TimeOf(ctx, k) /\ c.values[n] = ctx.values[n] /\ c.values[o] = ctx.values[o]
  BY <1>1, <1>2, <1>7, StopTyped
<1> HIDE DEF c
<1>9. event' = [session |-> g, interval |-> c.values[k], count |-> c.values[n], crashes |-> c.values[o],
                added |-> truth.added[g], since |-> truth.since[g], ran |-> truth.ran[k],
                owed |-> g \in truth.owed]
  BY <1>4 DEF SessionEvent, k, n, o, Count, Crashes
<1>10. /\ event'.session = g /\ event'.crashes = c.values[o] /\ event'.count = c.values[n]
       /\ event'.added = truth.added[g] /\ event'.since = truth.since[g]
       /\ event'.interval = c.values[k] /\ event'.ran = truth.ran[k]
  BY <1>9
<1>11. ~event'.owed
  BY <1>6, <1>9
<1> QED
  BY <1>3, <1>8, <1>10, <1>11 DEF EventTrue

\* The event that boot makes of an interrupted session holds a crash, and nothing else.
LEMMA CrashedEventTrue ==
  ASSUME Typed, Marked, NEW g \in Session, check_session(g), unexpected, g \in active_sessions
  PROVE  EventTrue'
<1> DEFINE k == IntervalMs(g)
           n == Count(g)
           o == Crashes(g)
           c == reset_metrics(ctx, g)
           d == add(c, o, 1)
<1>1. ctx \in Context /\ g \in Group
  BY SessionKeys DEF Typed
<1>2. k \in Key /\ n \in Key /\ o \in Key /\ k # o /\ n # o /\ k[1] = g /\ n[1] = g /\ o[1] = g
  BY SessionKeys
<1>3. event' = SessionEvent(d, g) /\ hb.pc = "check"
  BY DEF check_session, Crashes
<1>4. g \in truth.owed
  BY <1>3 DEF Marked
<1> HIDE DEF k, n, o
<1>5. c \in Context /\ c.values[k] = 0 /\ c.values[n] = 0 /\ c.values[o] = 0
  BY <1>1, <1>2, ResetTyped
<1> HIDE DEF c
<1>6. clipped(0, 1) = 1
  <2>1. UINT32 > 1
    BY Widths
  <2>2. clipped(0, 1) = Clamp(0 + 1)
    BY <2>1, Widths, ClippedIsClamp
  <2> QED
    BY <2>1, <2>2, Widths DEF Clamp
<1>7. \A j \in Key : d.values[j] = IF j = o THEN clipped(c.values[o], 1) ELSE c.values[j]
  <2>1. c \in Context /\ o \in Key /\ 1 \in Int
    BY <1>2, <1>5
  <2> QED
    BY <2>1, AddTyped
<1> HIDE DEF d
<1>8. d.values[k] = 0 /\ d.values[n] = 0 /\ d.values[o] = 1
  BY <1>2, <1>5, <1>6, <1>7
<1>9. event' = [session |-> g, interval |-> d.values[k], count |-> d.values[n], crashes |-> d.values[o],
                added |-> truth.added[g], since |-> truth.since[g], ran |-> truth.ran[k],
                owed |-> g \in truth.owed]
  BY <1>3 DEF SessionEvent, k, n, o, Count, Crashes
<1>10. event'.session = g /\ event'.crashes = 1 /\ event'.count = 0 /\ event'.interval = 0
  BY <1>8, <1>9
<1>11. event'.owed
  BY <1>4, <1>9
<1> QED
  BY <1>10, <1>11 DEF EventTrue

LEMMA EventTrueStep ==
  ASSUME Typed, ShortSessions, InTime, Marked, \A g \in Session : SessionTimed(g), EventTrue, Next
  PROVE  EventTrue'
<1>1. CASE event' = event
  BY <1>1 DEF EventTrue
<1>2. ASSUME NEW g \in Session, session_end(g) PROVE EventTrue'
  <2>1. CASE IntervalMs(g) \in ctx.running
    BY <1>2, <2>1, EndedEventTrue
  <2>2. CASE IntervalMs(g) \notin ctx.running
    BY <1>1, <1>2, <2>2 DEF session_end
  <2> QED
    BY <2>1, <2>2
<1>3. ASSUME NEW g \in Session, check_session(g) PROVE EventTrue'
  <2>1. CASE unexpected /\ g \in active_sessions
    BY <1>3, <2>1, CrashedEventTrue
  <2>2. CASE ~(unexpected /\ g \in active_sessions)
    BY <1>1, <1>3, <2>2 DEF check_session
  <2> QED
    BY <2>1, <2>2
<1>4. CASE event'.session \notin Session
  BY <1>4 DEF EventTrue
<1> QED
  BY <1>1, <1>2, <1>3, <1>4, SessionEventKept

LEMMA ReportedIsTrue ==
  ASSUME Marked, EventTrue
  PROVE  SessionsReported
<1>1. Awake => truth.owed = {}
  BY DEF Awake, Booting, Marked
<1> QED
  BY <1>1 DEF SessionsReported, EventTrue

\* Every session that a reset interrupted has its event by the end of boot, and the event of a session
\* tells of a crash exactly when one interrupted it, or of all that was added to it, with its time.
THEOREM SessionsAreReported ==
  ASSUME AmountsFit, ShortSessions
  PROVE  Spec => []SessionsReported
<1> DEFINE Timings == \A g \in Session : SessionTimed(g)
           IInv == Typed /\ BeatInStep /\ Updating /\ InTime /\ Marked /\ Timings /\ EventTrue
<1>1. Init => IInv
  <2> SUFFICES ASSUME Init PROVE IInv
    OBVIOUS
  <2>1. Typed /\ BeatInStep /\ Updating
    BY InitTyped, TimingInit DEF Timing
  <2>2. InTime
    <3>1. build.max_time \in Nat /\ now = 0
      BY BuildTyped DEF Init, Build
    <3> QED
      BY <3>1 DEF InTime
  <2>3. Marked /\ EventTrue
    BY SessionAssumption DEF Init, Marked, EventTrue, At, NoTruth, NoEvent
  <2>4. ASSUME NEW g \in Session PROVE SessionTimed(g)
    <3>1. IntervalMs(g) \in Timer
      BY SessionKeys
    <3> QED
      BY <3>1 DEF Init, SessionTimed, NoContext, NoTruth, Zero
  <2> QED
    BY <2>1, <2>2, <2>3, <2>4
<1>2. IInv /\ [Next]_vars => IInv'
  <2> SUFFICES ASSUME IInv, [Next]_vars PROVE IInv'
    OBVIOUS
  <2>1. CASE Next
    <3>1. Typed' /\ BeatInStep' /\ Updating' /\ InTime'
      BY <2>1, TypedStep, BeatStep, UpdatingStep, InTimeStep
    <3>2. Marked'
      BY <2>1, MarkedStep
    <3>3. Timings'
      BY <2>1, SessionTimedStep
    <3>4. EventTrue'
      BY <2>1, EventTrueStep
    <3> QED
      BY <3>1, <3>2, <3>3, <3>4
  <2>2. CASE UNCHANGED vars
    <3>1. Typed' /\ InTime'
      BY <2>2 DEF vars, Typed, InTime
    <3>2. Marked' /\ EventTrue'
      BY <2>2 DEF vars, Marked, EventTrue
    <3>3. Timings'
      BY <2>2 DEF vars, SessionTimed, TimeOf, Elapsed
    <3>4. BeatInStep' /\ Updating'
      BY <2>2 DEF vars, BeatInStep, Unbooted, Updating, Elapsed
    <3> QED
      BY <3>1, <3>2, <3>3, <3>4
  <2> QED
    BY <2>1, <2>2
<1>3. IInv => SessionsReported
  BY ReportedIsTrue
<1> QED
  BY <1>1, <1>2, <1>3, PTL DEF Spec

-------------------------------------------------------------------------------
(* The hours                                                                    *)

\* After deep sleep the program takes the reset for the expected one of its wake, also when an unexpected
\* one came before and its hours are not counted yet.
SleepersNeverReset == \A b \in Builds : b.restore => b.max_resets = 0

\* The state of the reliability metrics: while the device sleeps, that of the copy.
Kept == IF hb.pc = "asleep" THEN ctx.reliability_ctx ELSE reliability
SinceCollected == Since(UINT32, Kept.last_heartbeat_ms, now % UINT32)
HoursNow == ctx.values[Heartbeat("hours")]
CrashfreeNow == ctx.values[Heartbeat("crashfree_hours")]
\* The timers were updated, and the hours are not collected yet.
ToCollect == hb.pc = "collect" /\ hb.then = "encode"
HoursCounted ==
  /\ truth.uptime = HOUR * Counted("hours") + Kept.operational_ms + SinceCollected
  /\ Kept.operational_ms < HOUR
  /\ SinceCollected <= now - truth.beat + (IF ToCollect THEN TIMER_MAX - 1 ELSE 0)
  /\ HOUR * HoursNow + Kept.operational_ms + SinceCollected <= HOUR - 1 + (now - truth.beat) + Slack
  /\ CrashfreeNow <= HoursNow
  /\ Counted("hours") - Counted("crashfree_hours") = IF truth.crashed /\ Counted("hours") > 0 THEN 1 ELSE 0
FirstHourCounted == Kept.counted <=> Counted("hours") > 0
NothingCounted ==
  /\ truth.uptime = 0 /\ reliability = NoReliability
  /\ serialized["hours"] = 0 /\ serialized["crashfree_hours"] = 0
CrashKnown ==
  /\ unexpected <=> truth.crashed
  /\ build.max_resets = 0 => ~truth.crashed
HoursInStep ==
  /\ CrashKnown /\ Sleepless
  /\ hb.pc = "boot" => NothingCounted
  /\ hb.pc # "boot" => HoursCounted /\ FirstHourCounted

LEMMA UptimeKept ==
  ASSUME Typed, Next, ~Tick, \A crash \in BOOLEAN : ~Reset(crash)
  PROVE  truth'.uptime = truth.uptime /\ truth'.crashed = truth.crashed
<1> DEFINE Goal == truth'.uptime = truth.uptime /\ truth'.crashed = truth.crashed
<1> SUFFICES Goal
  OBVIOUS
<1>0. truth \in Truth
  BY DEF Typed
<1>1. CASE Heart
  <2>1. ASSUME heartbeat_timer \/ tallied \/ encode PROVE Goal
    BY <2>1, NotesOnly
  <2>2. ASSUME heartbeat_collect \/ reliability_collect \/ battery_cache \/ collect_logs PROVE Goal
    BY <2>2 DEF heartbeat_collect, reliability_collect, battery_cache, collect_logs, history
  <2>3. ASSUME battery_sample PROVE Goal
    BY <2>3 DEF battery_sample
  <2>4. ASSUME battery_store PROVE Goal
    BY <2>4 DEF battery_store
  <2>5. ASSUME \/ tally \/ printed \/ reset \/ enter_sleep \/ wake
               \/ \E prints \in BOOLEAN : collect_data(prints)
        PROVE  Goal
    BY <2>5 DEF reset, enter_sleep, wake, tally, printed, collect_data, history
  <2> QED
    BY <1>1, <2>1, <2>2, <2>3, <2>4, <2>5 DEF Heart
<1>2. CASE Boot
  <2>1. ASSUME boot \/ end_boot PROVE Goal
    BY <1>0, <2>1 DEF boot, end_boot, Truth
  <2>2. ASSUME battery_boot PROVE Goal
    BY <2>2 DEF battery_boot
  <2>3. ASSUME NEW g \in Session, check_session(g) PROVE Goal
    BY <1>0, <2>3 DEF check_session, Truth
  <2> QED
    BY <1>2, <2>1, <2>2, <2>3 DEF Boot
<1>3. CASE Application
  <2>1. ASSUME NEW g \in Group, NEW amount \in build.amounts, heartbeat_add(g, amount) PROVE Goal
    BY <1>0, <2>1 DEF heartbeat_add, Truth
  <2>2. ASSUME NEW j \in Timer, timer_read(j) PROVE Goal
    BY <2>2 DEF timer_read
  <2>3. ASSUME NEW g \in Session, session_start(g) PROVE Goal
    BY <1>0, <2>3 DEF session_start, Truth
  <2>4. ASSUME NEW g \in Session, session_end(g) \/ session_reset(g) PROVE Goal
    BY <1>0, <2>4 DEF session_end, session_reset, Truth
  <2>5. ASSUME NEW t \in Net, timer_call(t) PROVE Goal
    BY <2>5 DEF timer_call
  <2>6. ASSUME NEW t \in Net, NEW state \in DOMAIN StateCalls, connected_state_change(t, state)
        PROVE  Goal
    BY <2>6 DEF connected_state_change
  <2> QED
    BY <1>3, <2>1, <2>2, <2>3, <2>4, <2>5, <2>6 DEF Application
<1>4. CASE Device
  <2>1. ASSUME Log PROVE Goal
    BY <1>0, <2>1 DEF Log, Truth
  <2>2. ASSUME stopped_discharging \/ Unplug PROVE Goal
    BY <2>2 DEF stopped_discharging, Unplug
  <2> QED
    BY <1>4, <2>1, <2>2 DEF Device
<1> QED
  BY <1>1, <1>2, <1>3, <1>4 DEF Next

LEMMA ReliabilityKept ==
  ASSUME Typed, Next, \A crash \in BOOLEAN : ~Reset(crash)
  PROVE  /\ reliability_collect \/ enter_sleep \/ wake \/ boot \/ reliability' = reliability
         /\ wake \/ unexpected' = unexpected
<1> DEFINE Goal == reliability' = reliability /\ unexpected' = unexpected
           U == unexpected' = unexpected
<1>1. CASE Heart
  <2>1. ASSUME \/ heartbeat_timer \/ tally \/ tallied \/ printed
               \/ heartbeat_collect \/ battery_cache \/ collect_logs
        PROVE  Goal
    BY <2>1 DEF heartbeat_timer, tally, tallied, printed, Tallies, heartbeat_collect, battery_cache, collect_logs, reboots
  <2>2. ASSUME battery_sample PROVE Goal
    BY <2>2 DEF battery_sample, reboots
  <2>3. ASSUME battery_store PROVE Goal
    BY <2>3 DEF battery_store, reboots
  <2>4. ASSUME encode \/ reset \/ \E prints \in BOOLEAN : collect_data(prints)
        PROVE  Goal
    BY <2>4 DEF encode, reset, collect_data, reboots
  <2>5. ASSUME reliability_collect \/ enter_sleep PROVE U
    BY <2>5 DEF reliability_collect, enter_sleep, reboots
  <2> QED
    BY <1>1, <2>1, <2>2, <2>3, <2>4, <2>5 DEF Heart
<1>2. CASE Boot
  <2>1. ASSUME boot PROVE U
    BY <2>1 DEF boot, reboots
  <2>2. ASSUME battery_boot \/ end_boot PROVE Goal
    BY <2>2 DEF battery_boot, end_boot, reboots
  <2>3. ASSUME NEW g \in Session, check_session(g) PROVE Goal
    BY <2>3 DEF check_session
  <2> QED
    BY <1>2, <2>1, <2>2, <2>3 DEF Boot
<1>3. CASE Application
  <2>1. ASSUME NEW g \in Group, NEW amount \in build.amounts, heartbeat_add(g, amount) PROVE Goal
    BY <2>1 DEF heartbeat_add, reboots
  <2>2. ASSUME NEW j \in Timer, timer_read(j) PROVE Goal
    BY <2>2 DEF timer_read, unmoved, reboots
  <2>3. ASSUME NEW g \in Session, session_start(g) \/ session_end(g) \/ session_reset(g) PROVE Goal
    BY <2>3 DEF session_start, session_end, session_reset, unmoved
  <2>4. ASSUME NEW t \in Net, timer_call(t) PROVE Goal
    BY <2>4 DEF timer_call, unmoved, reboots
  <2>5. ASSUME NEW t \in Net, NEW state \in DOMAIN StateCalls, connected_state_change(t, state)
        PROVE  Goal
    BY <2>5 DEF connected_state_change, unmoved, reboots
  <2> QED
    BY <1>3, <2>1, <2>2, <2>3, <2>4, <2>5 DEF Application
<1>4. CASE Device
  <2>1. ASSUME Tick \/ Log \/ stopped_discharging \/ Unplug PROVE Goal
    BY <2>1 DEF Tick, Log, stopped_discharging, Unplug, reboots
  <2> QED
    BY <1>4, <2>1 DEF Device
<1> QED
  BY <1>1, <1>2, <1>3, <1>4 DEF Next

LEMMA ApplicationAwake == Application => Callable \/ Free
<1>1. \A t \in Net : timer_call(t) => Free
  BY DEF timer_call
<1>2. \A t \in Net, state \in DOMAIN StateCalls : connected_state_change(t, state) => Free
  BY DEF connected_state_change
<1> QED
  BY <1>1, <1>2, CallableAwake DEF Application

\* While the device sleeps, only time goes on; and the hours are collected next after the timers.
LEMMA AsleepSteps ==
  ASSUME Typed, Next, ~Tick, \A crash \in BOOLEAN : ~Reset(crash)
  PROVE  /\ hb.pc = "asleep" => wake
         /\ hb'.pc = "asleep" => enter_sleep
         /\ hb.pc = "collect" /\ hb'# hb => reliability_collect
<1> DEFINE Goal == /\ hb.pc = "asleep" => wake
                   /\ hb'.pc = "asleep" => enter_sleep
                   /\ hb.pc = "collect" /\ hb'# hb => reliability_collect
<1> SUFFICES Goal
  OBVIOUS
<1>1. \A pc : At(pc).pc = pc
  BY DEF At
<1>2. hb.then # "asleep"
  BY DEF Typed, Task
<1>3. CASE Heart
  <2>1. ASSUME \/ heartbeat_timer \/ tally \/ tallied
               \/ heartbeat_collect \/ reliability_collect \/ battery_cache
        PROVE  Goal
    BY <2>1, HeartMoves DEF Moves
  <2>2. ASSUME battery_sample \/ battery_store \/ collect_logs \/ encode PROVE Goal
    BY <2>2, HeartMoves DEF Moves
  <2>3. ASSUME printed \/ \E prints \in BOOLEAN : collect_data(prints) PROVE Goal
    BY <1>2, <2>3, HeartMoves DEF Moves
  <2>4. ASSUME reset \/ enter_sleep \/ wake PROVE Goal
    BY <1>1, <2>4, HeartMoves
  <2> QED
    BY <1>3, <2>1, <2>2, <2>3, <2>4 DEF Heart
<1>4. CASE Boot
  <2>1. ASSUME NEW g \in Session, check_session(g) PROVE Goal
    BY <2>1, BootMoves DEF Moves
  <2>2. ASSUME boot \/ end_boot \/ battery_boot PROVE Goal
    BY <1>1, <2>2, BootMoves
  <2> QED
    BY <1>4, <2>1, <2>2 DEF Boot
<1>5. CASE Application \/ Device
  <2>1. hb' = hb
    BY <1>5, OthersStay DEF Device
  <2>2. hb.pc # "asleep"
    <3>1. CASE Application
      <4>1. Callable \/ Free
        BY <3>1, ApplicationAwake
      <4> QED
        BY <4>1 DEF Callable, Free, Awake, Booting
    <3>2. CASE Device
      <4>1. Free
        BY <3>2 DEF Device, stopped_discharging, Unplug, Log
      <4> QED
        BY <4>1 DEF Free, Awake
    <3> QED
      BY <1>5, <3>1, <3>2
  <2> QED
    BY <2>1, <2>2
<1> QED
  BY <1>3, <1>4, <1>5 DEF Next

LEMMA HoursTyped ==
  ASSUME Typed
  PROVE  /\ Kept \in Reliability
         /\ Kept.last_heartbeat_ms \in 0..(UINT32 - 1) /\ Kept.operational_ms \in Nat /\ Kept.counted \in BOOLEAN
         /\ SinceCollected \in Nat /\ SinceCollected < UINT32
         /\ HoursNow \in Value /\ CrashfreeNow \in Value /\ HoursNow \in Nat /\ CrashfreeNow \in Nat
         /\ serialized["hours"] \in Nat /\ serialized["crashfree_hours"] \in Nat
         /\ Counted("hours") \in Nat /\ Counted("crashfree_hours") \in Nat
         /\ now \in Nat /\ truth.uptime \in Nat /\ truth.beat \in Nat
<1>1. now \in Nat /\ ctx \in Context /\ reliability \in Reliability /\ truth \in Truth /\ serialized \in [Summed -> Nat]
  BY DEF Typed
<1>2. Kept \in Reliability
  BY <1>1 DEF Kept, Context
<1>3. Kept.last_heartbeat_ms \in 0..(UINT32 - 1) /\ Kept.operational_ms \in Nat /\ Kept.counted \in BOOLEAN
  BY <1>2 DEF Reliability, Value
<1>4. SinceCollected \in 0..(UINT32 - 1)
  BY <1>1, <1>3, Widths, SinceNext DEF SinceCollected
<1>5. HoursNow \in Value /\ CrashfreeNow \in Value
  BY <1>1, Keys DEF HoursNow, CrashfreeNow, Context, HeartbeatNumber
<1>6. HoursNow \in Nat /\ CrashfreeNow \in Nat
  BY <1>5, Widths DEF Value
<1>7. serialized["hours"] \in Nat /\ serialized["crashfree_hours"] \in Nat
  BY <1>1 DEF Summed
<1>8. Counted("hours") \in Nat /\ Counted("crashfree_hours") \in Nat
  BY <1>6, <1>7 DEF Counted, Pending, HoursNow, CrashfreeNow
<1>9. truth.uptime \in Nat /\ truth.beat \in Nat
  BY <1>1 DEF Truth
<1> QED
  BY <1>1, <1>2, <1>3, <1>4, <1>5, <1>6, <1>7, <1>8, <1>9, Widths

\* What is counted of the hours in reports and in the metric.
LEMMA CountedHours ==
  /\ Counted("hours") = serialized["hours"] + (IF hb.pc = "reset" THEN 0 ELSE HoursNow)
  /\ Counted("crashfree_hours") = serialized["crashfree_hours"] + (IF hb.pc = "reset" THEN 0 ELSE CrashfreeNow)
  /\ Counted("hours")' = serialized'["hours"] + (IF hb'.pc = "reset" THEN 0 ELSE HoursNow')
  /\ Counted("crashfree_hours")' = serialized'["crashfree_hours"] + (IF hb'.pc = "reset" THEN 0 ELSE CrashfreeNow')
  BY DEF Counted, Pending, HoursNow, CrashfreeNow

\* The steps that only move the hours, from the metric to the report or to the copy.
LEMMA HoursMoved ==
  ASSUME Typed, HoursCounted, FirstHourCounted,
         Kept' = Kept, now' = now, truth'.uptime = truth.uptime, truth'.crashed = truth.crashed,
         truth'.beat = truth.beat,
         Counted("hours")' = Counted("hours"), Counted("crashfree_hours")' = Counted("crashfree_hours"),
         HoursNow' = HoursNow, CrashfreeNow' = CrashfreeNow,
         ToCollect => ToCollect', Heartbeating => Heartbeating'
  PROVE  HoursCounted' /\ FirstHourCounted'
<1>1. SinceCollected' = SinceCollected
  BY DEF SinceCollected
<1>2. /\ SinceCollected <= now - truth.beat + (IF ToCollect THEN TIMER_MAX - 1 ELSE 0)
      /\ HOUR * HoursNow + Kept.operational_ms + SinceCollected <= HOUR - 1 + (now - truth.beat) + Slack
      /\ truth.uptime = HOUR * Counted("hours") + Kept.operational_ms + SinceCollected
      /\ Kept.operational_ms < HOUR
      /\ CrashfreeNow <= HoursNow
  BY DEF HoursCounted
<1>3. Slack <= Slack' /\ Slack \in Int /\ Slack' \in Int
  BY Widths DEF Slack
<1>4. SinceCollected' <= now' - truth'.beat + (IF ToCollect' THEN TIMER_MAX - 1 ELSE 0)
  <2>1. TIMER_MAX - 1 >= 0 /\ TIMER_MAX \in Int /\ SinceCollected \in Int /\ now \in Int /\ truth.beat \in Int
    BY Widths, HoursTyped
  <2> QED
    BY <1>1, <1>2, <2>1
<1> DEFINE worked == HOUR * HoursNow
<1>5. worked \in Nat
  BY Widths, HoursTyped
<1>6. worked + Kept.operational_ms + SinceCollected <= HOUR - 1 + (now - truth.beat) + Slack
  BY <1>2
<1>7. HOUR * HoursNow' = worked
  OBVIOUS
<1> HIDE DEF worked
<1>8. HOUR * HoursNow' + Kept'.operational_ms + SinceCollected' <= HOUR - 1 + (now' - truth'.beat) + Slack'
  BY <1>1, <1>3, <1>5, <1>6, <1>7, Widths, HoursTyped
<1>9. /\ truth'.uptime = HOUR * Counted("hours")' + Kept'.operational_ms + SinceCollected'
      /\ Kept'.operational_ms < HOUR /\ CrashfreeNow' <= HoursNow'
  BY <1>1, <1>2
<1>10. Counted("hours")' - Counted("crashfree_hours")'
         = IF truth'.crashed /\ Counted("hours")' > 0 THEN 1 ELSE 0
  BY DEF HoursCounted
<1>11. FirstHourCounted'
  BY DEF FirstHourCounted
<1> QED
  BY <1>4, <1>8, <1>9, <1>10, <1>11 DEF HoursCounted

\* The hours in a heartbeat fit the metric.
LEMMA HoursFit ==
  ASSUME TwiceTheTimer, NEW n \in Nat, HOUR * n <= HOUR - 1 + (2 * TIMER_MAX - 2)
  PROVE  n < UINT32
<1>1. HOUR \in Nat \ {0} /\ TIMER_MAX \in Nat \ {0} /\ UINT32 \in Nat \ {0} /\ UINT32 >= 2 * TIMER_MAX
  BY Widths DEF TwiceTheTimer
<1>2. CASE n = 0
  BY <1>1, <1>2
<1>3. CASE n # 0
  <2> DEFINE m == n - 1
             e == HOUR - 1
  <2>1. m \in Nat /\ e \in Nat /\ n = m + 1 /\ HOUR = 1 + e
    BY <1>1, <1>3
  <2> HIDE DEF m, e
  <2>2. HOUR * n = HOUR + m + e * m /\ e * m \in Nat
    BY <2>1
  <2>3. m <= 2 * TIMER_MAX - 3
    BY <1>1, <2>1, <2>2
  <2> QED
    BY <1>1, <2>1, <2>3
<1> QED
  BY <1>2, <1>3

LEMMA HoursTick ==
  ASSUME TwiceTheTimer, Typed, BeatInStep, HoursCounted, FirstHourCounted, Tick
  PROVE  HoursCounted' /\ FirstHourCounted'
<1>1. /\ now \in Nat /\ truth \in Truth /\ TIMER_MAX \in Nat /\ UINT32 \in Nat /\ TIMER_MAX >= 1
      /\ UINT32 >= 2 * TIMER_MAX /\ HOUR \in Nat
  BY Widths DEF Typed, TwiceTheTimer
<1>2. /\ now' = now + 1 /\ now + 1 - truth.beat < TIMER_MAX
      /\ truth'.uptime = truth.uptime + 1 /\ truth'.beat = truth.beat /\ truth'.crashed = truth.crashed
  BY <1>1 DEF Tick, Truth
<1>3. ctx' = ctx /\ hb' = hb /\ reliability' = reliability /\ serialized' = serialized
  BY DEF Tick
<1>4. /\ Kept' = Kept /\ HoursNow' = HoursNow /\ CrashfreeNow' = CrashfreeNow
      /\ Slack' = Slack /\ (ToCollect' <=> ToCollect)
      /\ Counted("hours")' = Counted("hours") /\ Counted("crashfree_hours")' = Counted("crashfree_hours")
  BY <1>3 DEF Kept, HoursNow, CrashfreeNow, Slack, Heartbeating, ToCollect, Counted, Pending
<1>5. SinceCollected' = SinceCollected + 1
  <2>1. SinceCollected <= now - truth.beat + (TIMER_MAX - 1)
    BY <1>1, HoursTyped DEF HoursCounted
  <2>2. SinceCollected < UINT32 - 1
    BY <1>1, <1>2, <2>1, HoursTyped
  <2>3. SinceCollected' = Since(UINT32, Kept.last_heartbeat_ms, (now + 1) % UINT32)
    BY <1>2, <1>4 DEF SinceCollected
  <2>4. Kept.last_heartbeat_ms \in 0..(UINT32 - 1) /\ UINT32 \in Nat \ {0}
    BY HoursTyped, Widths
  <2> QED
    BY <1>1, <2>2, <2>3, <2>4, SinceNext DEF SinceCollected
<1>6. SinceCollected' <= now' - truth'.beat + (IF ToCollect' THEN TIMER_MAX - 1 ELSE 0)
  <2>1. SinceCollected <= now - truth.beat + (IF ToCollect THEN TIMER_MAX - 1 ELSE 0)
    BY DEF HoursCounted
  <2> QED
    BY <1>1, <1>2, <1>4, <1>5, <2>1, HoursTyped
<1>7. HOUR * HoursNow' + Kept'.operational_ms + SinceCollected' <= HOUR - 1 + (now' - truth'.beat) + Slack'
  <2> DEFINE worked == HOUR * HoursNow
  <2>1. worked + Kept.operational_ms + SinceCollected <= HOUR - 1 + (now - truth.beat) + Slack
    BY DEF HoursCounted
  <2>2. worked \in Nat /\ HOUR * HoursNow' = worked /\ Slack \in Int
    BY <1>1, <1>4, HoursTyped DEF Slack
  <2> HIDE DEF worked
  <2> QED
    BY <1>1, <1>2, <1>4, <1>5, <2>1, <2>2, HoursTyped
<1>8. truth'.uptime = HOUR * Counted("hours")' + Kept'.operational_ms + SinceCollected'
  <2> DEFINE worked == HOUR * Counted("hours")
  <2>1. truth.uptime = worked + Kept.operational_ms + SinceCollected
    BY DEF HoursCounted
  <2>2. worked \in Nat /\ HOUR * Counted("hours")' = worked
    BY <1>1, <1>4, HoursTyped
  <2> HIDE DEF worked
  <2>3. truth.uptime + 1 = worked + Kept.operational_ms + (SinceCollected + 1)
    BY <2>1, <2>2, HoursTyped
  <2> QED
    BY <1>2, <1>4, <1>5, <2>2, <2>3
<1>9. Kept'.operational_ms < HOUR /\ CrashfreeNow' <= HoursNow'
  BY <1>4 DEF HoursCounted
<1>10. Counted("hours")' - Counted("crashfree_hours")'
         = IF truth'.crashed /\ Counted("hours")' > 0 THEN 1 ELSE 0
  BY <1>2, <1>4 DEF HoursCounted
<1>11. FirstHourCounted'
  BY <1>4 DEF FirstHourCounted
<1> QED
  BY <1>6, <1>7, <1>8, <1>9, <1>10, <1>11 DEF HoursCounted

\* The timers are updated where a heartbeat begins.
LEMMA HoursAtTimers ==
  ASSUME Typed, BeatInStep, Updating, HoursCounted, FirstHourCounted, tallied,
         serialized' = serialized, truth'.uptime = truth.uptime, truth'.crashed = truth.crashed
  PROVE  HoursCounted' /\ FirstHourCounted'
<1>1. now \in Nat /\ ctx \in Context /\ truth \in Truth /\ TIMER_MAX \in Nat /\ HOUR \in Nat
  BY Widths DEF Typed
<1>2. hb.pc = "tally" /\ hb'.pc = "collect" /\ hb'.then = "encode"
  BY HeartMoves DEF Moves, BeatInStep
<1>3. now' = now /\ reliability' = reliability /\ ctx' = ctx /\ truth'.beat = truth.began
  BY NotesOnly DEF tallied, env
<1>4. HoursNow' = HoursNow /\ CrashfreeNow' = CrashfreeNow
  BY <1>3 DEF HoursNow, CrashfreeNow
<1>5. /\ Kept' = Kept /\ ~ToCollect /\ ToCollect' /\ Slack = 0 /\ Slack' = TIMER_MAX - 1
      /\ Counted("hours")' = Counted("hours") /\ Counted("crashfree_hours")' = Counted("crashfree_hours")
  BY <1>2, <1>3, <1>4, CountedHours DEF Kept, ToCollect, Slack, Heartbeating
<1>6. SinceCollected' = SinceCollected
  BY <1>3, <1>5 DEF SinceCollected
<1>7. /\ truth.beat <= now /\ now - truth.beat < TIMER_MAX
      /\ truth.beat <= truth.began /\ truth.began <= now /\ truth.began \in Nat
  BY <1>1, <1>2 DEF BeatInStep, Updating, Truth
<1>8. SinceCollected <= now - truth.beat /\ CrashfreeNow <= HoursNow /\ Kept.operational_ms < HOUR
  BY <1>1, <1>5, HoursTyped DEF HoursCounted
<1>9. SinceCollected' <= now' - truth'.beat + (IF ToCollect' THEN TIMER_MAX - 1 ELSE 0)
  BY <1>1, <1>3, <1>5, <1>6, <1>7, <1>8, HoursTyped
<1>10. HOUR * HoursNow' + Kept'.operational_ms + SinceCollected' <= HOUR - 1 + (now' - truth'.beat) + Slack'
  <2> DEFINE worked == HOUR * HoursNow
  <2>1. worked + Kept.operational_ms + SinceCollected <= HOUR - 1 + (now - truth.beat) + 0
    BY <1>5 DEF HoursCounted
  <2>2. worked \in Nat /\ HOUR * HoursNow' = worked
    BY <1>1, <1>4, HoursTyped
  <2> HIDE DEF worked
  <2> QED
    BY <1>1, <1>3, <1>5, <1>6, <1>7, <2>1, <2>2, HoursTyped
<1>11. truth'.uptime = HOUR * Counted("hours")' + Kept'.operational_ms + SinceCollected'
  BY <1>5, <1>6 DEF HoursCounted
<1>12. Counted("hours")' - Counted("crashfree_hours")'
         = IF truth'.crashed /\ Counted("hours")' > 0 THEN 1 ELSE 0
  BY <1>5 DEF HoursCounted
<1>13. FirstHourCounted'
  BY <1>5 DEF FirstHourCounted
<1> QED
  BY <1>4, <1>5, <1>8, <1>9, <1>10, <1>11, <1>12, <1>13 DEF HoursCounted

\* The metrics of the heartbeat are reset after it was encoded.
LEMMA HoursReset ==
  ASSUME Typed, HoursCounted, FirstHourCounted, reset,
         serialized' = serialized, truth'.uptime = truth.uptime, truth'.crashed = truth.crashed,
         truth'.beat = truth.beat, now' = now
  PROVE  HoursCounted' /\ FirstHourCounted'
<1>1. now \in Nat /\ ctx \in Context /\ truth \in Truth /\ TIMER_MAX \in Nat /\ HOUR \in Nat \ {0}
  BY Widths DEF Typed
<1>2. hb.pc = "reset" /\ hb'.pc = "idle" /\ reliability' = reliability /\ ctx' = reset_metrics(ctx, "heartbeat")
  BY DEF reset, At
<1>3. HoursNow' = 0 /\ CrashfreeNow' = 0
  <2>1. /\ Heartbeat("hours") \in Key /\ Heartbeat("crashfree_hours") \in Key /\ "heartbeat" \in Group
        /\ Heartbeat("hours")[1] = "heartbeat" /\ Heartbeat("crashfree_hours")[1] = "heartbeat"
    BY Keys DEF HeartbeatNumber, Group, Heartbeat
  <2> QED
    BY <1>1, <1>2, <2>1, ResetTyped DEF HoursNow, CrashfreeNow
<1>4. /\ Kept' = Kept /\ ~ToCollect /\ ~ToCollect' /\ Slack' = 0
      /\ Counted("hours")' = Counted("hours") /\ Counted("crashfree_hours")' = Counted("crashfree_hours")
  <2>1. Kept' = Kept /\ ~ToCollect /\ ~ToCollect' /\ Slack' = 0
    BY <1>2 DEF Kept, ToCollect, Slack, Heartbeating
  <2>2. Counted("hours")' = serialized["hours"] + 0 /\ Counted("crashfree_hours")' = serialized["crashfree_hours"] + 0
    BY <1>2, <1>3, CountedHours
  <2>3. Counted("hours") = serialized["hours"] + 0 /\ Counted("crashfree_hours") = serialized["crashfree_hours"] + 0
    BY <1>2, CountedHours
  <2> QED
    BY <2>1, <2>2, <2>3
<1>5. SinceCollected' = SinceCollected
  BY <1>4 DEF SinceCollected
<1>6. SinceCollected <= now - truth.beat /\ Kept.operational_ms < HOUR
  BY <1>1, <1>4, HoursTyped DEF HoursCounted
<1>7. SinceCollected' <= now' - truth'.beat + (IF ToCollect' THEN TIMER_MAX - 1 ELSE 0)
  BY <1>1, <1>4, <1>5, <1>6, HoursTyped
<1>8. HOUR * HoursNow' + Kept'.operational_ms + SinceCollected' <= HOUR - 1 + (now' - truth'.beat) + Slack'
  <2>1. HOUR * HoursNow' = 0
    BY <1>1, <1>3
  <2> QED
    BY <1>1, <1>4, <1>5, <1>6, <2>1, HoursTyped
<1>9. /\ truth'.uptime = HOUR * Counted("hours")' + Kept'.operational_ms + SinceCollected'
      /\ Kept'.operational_ms < HOUR
  BY <1>4, <1>5, <1>6 DEF HoursCounted
<1>10. Counted("hours")' - Counted("crashfree_hours")'
         = IF truth'.crashed /\ Counted("hours")' > 0 THEN 1 ELSE 0
  BY <1>4 DEF HoursCounted
<1>11. FirstHourCounted'
  BY <1>4 DEF FirstHourCounted
<1> QED
  BY <1>3, <1>7, <1>8, <1>9, <1>10, <1>11 DEF HoursCounted

LEMMA HoursOfBoot ==
  ASSUME Typed, BeatInStep, NothingCounted, CrashKnown, boot
  PROVE  HoursCounted' /\ FirstHourCounted'
<1> DEFINE h == Heartbeat("hours")
           f == Heartbeat("crashfree_hours")
           j == Heartbeat("unexpected_reboots")
           d == timer_start(NoContext, IntervalMs("heartbeat"))
           v == IF unexpected THEN 1 ELSE 0
<1>1. /\ now \in Nat /\ truth \in Truth /\ TIMER_MAX \in Nat \ {0} /\ HOUR \in Nat \ {0} /\ UINT32 \in Nat \ {0}
      /\ reliability \in Reliability
  BY Widths DEF Typed
<1>2. /\ h \in Key /\ f \in Key /\ j \in Key /\ h # j /\ f # j /\ v \in Value
      /\ IntervalMs("heartbeat") \in Timer
  BY Keys, Small DEF HeartbeatNumber, Heartbeat, Group
<1>3. /\ ctx' = set_unsigned(d, j, v) /\ now' = now /\ serialized' = serialized
      /\ truth'.beat = now /\ truth'.uptime = truth.uptime /\ truth'.crashed = truth.crashed
      /\ reliability' = [reliability EXCEPT !.last_heartbeat_ms = now % UINT32]
      /\ hb'.pc = "check" /\ hb'.then = "encode"
  BY <1>1, BootMoves DEF boot, env, Truth
<1>4. d \in Context /\ d.values = NoContext.values
  BY <1>1, <1>2, NoContextTyped, StartTyped
<1>5. NoContext.values[h] = 0 /\ NoContext.values[f] = 0
  BY <1>2 DEF NoContext, Zero
<1> HIDE DEF d, h, f, j, v
<1>6. ctx'.values[h] = 0 /\ ctx'.values[f] = 0
  BY <1>2, <1>3, <1>4, <1>5, SetTyped
<1>7. HoursNow' = 0 /\ CrashfreeNow' = 0
  BY <1>6 DEF HoursNow, CrashfreeNow, h, f
<1>8. Kept' = reliability' /\ ~ToCollect' /\ Slack' = 0
  BY <1>3 DEF Kept, ToCollect, Slack, Heartbeating
<1>9. /\ Kept'.last_heartbeat_ms = now % UINT32 /\ Kept'.operational_ms = 0 /\ Kept'.counted = FALSE
  BY <1>1, <1>3, <1>8 DEF Reliability, NothingCounted, NoReliability
<1>10. SinceCollected' = 0
  <2>1. SinceCollected' = Since(UINT32, now % UINT32, now % UINT32)
    BY <1>3, <1>9 DEF SinceCollected
  <2>2. now % UINT32 \in 0..(UINT32 - 1)
    BY <1>1, ModRange
  <2> QED
    BY <1>1, <2>1, <2>2, SinceNext
<1>11. Counted("hours")' = 0 /\ Counted("crashfree_hours")' = 0
  BY <1>3, <1>7, CountedHours DEF NothingCounted
<1>12. /\ SinceCollected' <= now' - truth'.beat + (IF ToCollect' THEN TIMER_MAX - 1 ELSE 0)
       /\ CrashfreeNow' <= HoursNow' /\ Kept'.operational_ms < HOUR
  BY <1>1, <1>3, <1>7, <1>8, <1>9, <1>10
<1>13. HOUR * HoursNow' + Kept'.operational_ms + SinceCollected' <= HOUR - 1 + (now' - truth'.beat) + Slack'
  <2>1. HOUR * HoursNow' = 0
    BY <1>1, <1>7
  <2> QED
    BY <1>1, <1>3, <1>8, <1>9, <1>10, <2>1
<1>14. truth'.uptime = HOUR * Counted("hours")' + Kept'.operational_ms + SinceCollected'
  <2>1. HOUR * Counted("hours")' = 0 /\ truth'.uptime = 0
    BY <1>1, <1>3, <1>11 DEF NothingCounted
  <2> QED
    BY <1>9, <1>10, <2>1
<1>15. Counted("hours")' - Counted("crashfree_hours")'
         = IF truth'.crashed /\ Counted("hours")' > 0 THEN 1 ELSE 0
  BY <1>11
<1>16. FirstHourCounted'
  BY <1>9, <1>11 DEF FirstHourCounted
<1> QED
  BY <1>12, <1>13, <1>14, <1>15, <1>16 DEF HoursCounted

\* Full hours go to the metric, and the rest of the time is kept.
LEMMA CollectedHours ==
  ASSUME TwiceTheTimer, Typed, BeatInStep, HoursCounted, CrashKnown, FirstHourCounted, reliability_collect,
         NEW h, h = Worked \div HOUR
  PROVE  /\ h \in Nat /\ Worked = Kept.operational_ms + SinceCollected
         /\ HoursNow' = HoursNow + h /\ reliability'.last_heartbeat_ms = now % UINT32
         /\ reliability'.operational_ms = Worked - HOUR * h
         /\ reliability'.operational_ms \in 0..(HOUR - 1)
         /\ reliability'.counted <=> reliability.counted \/ h > 0
         /\ CrashfreeNow' = CrashfreeNow
              + (IF h = 0 THEN 0 ELSE h - (IF ~reliability.counted /\ unexpected THEN 1 ELSE 0))
<1> DEFINE a == Heartbeat("hours")
           b == Heartbeat("crashfree_hours")
           crash == IF ~reliability.counted /\ unexpected THEN 1 ELSE 0
           one == add(ctx, a, h)
<1>1. now \in Nat /\ ctx \in Context /\ reliability \in Reliability /\ hb.pc = "collect"
  BY DEF Typed, reliability_collect
<1>2. /\ TIMER_MAX \in Nat \ {0} /\ UINT32 \in Nat \ {0} /\ HOUR \in Nat \ {0} /\ UINT32 >= 2 * TIMER_MAX
  BY Widths DEF TwiceTheTimer
<1>3. h \in Nat /\ Worked - h * HOUR \in 0..(HOUR - 1) /\ Worked \in Nat
  BY WorkedTyped
<1>4. Worked - h * HOUR = Worked - HOUR * h
  BY <1>2, <1>3
<1>5. Kept = reliability /\ Worked = Kept.operational_ms + SinceCollected
  <2>1. Kept = reliability
    BY <1>1 DEF Kept
  <2>2. Interval = SinceCollected
    <3>1. reliability.last_heartbeat_ms \in 0..(UINT32 - 1) /\ now % UINT32 \in 0..(UINT32 - 1)
      BY <1>1, NowInTime DEF Reliability, Value
    <3> QED
      BY <2>1, <3>1, IntervalIsSince DEF Interval, SinceCollected
  <2> QED
    BY <2>1, <2>2 DEF Worked
<1>6. /\ reliability' = [last_heartbeat_ms |-> now % UINT32, operational_ms |-> Worked - h * HOUR,
                         counted |-> reliability.counted \/ h > 0]
      /\ ctx' = IF h = 0 THEN ctx ELSE add(one, b, h - crash)
  BY DEF reliability_collect, Worked, Interval
<1>7. /\ reliability'.last_heartbeat_ms = now % UINT32
      /\ reliability'.operational_ms = Worked - HOUR * h
      /\ reliability'.operational_ms \in 0..(HOUR - 1)
  BY <1>3, <1>4, <1>6
<1>8. reliability'.counted <=> reliability.counted \/ h > 0
  BY <1>6
<1>9. a \in Key /\ b \in Key /\ a # b
  BY Keys DEF HeartbeatNumber, Heartbeat
<1>10. HoursNow = ctx.values[a] /\ CrashfreeNow = ctx.values[b] /\ HoursNow' = ctx'.values[a] /\ CrashfreeNow' = ctx'.values[b]
  BY DEF HoursNow, CrashfreeNow
<1>11. crash \in {0, 1} /\ (h > 0 => h - crash \in Nat) /\ h - crash \in Int /\ h - crash <= h
  BY <1>3
<1> HIDE DEF a, b, crash
<1>12. HoursNow + h < UINT32
  <2> DEFINE p == HOUR * HoursNow
             q == HOUR * h
  <2>1. p \in Nat /\ q \in Nat /\ HOUR * (HoursNow + h) = p + q
    BY <1>2, <1>3, HoursTyped
  <2>2. p + Kept.operational_ms + SinceCollected <= HOUR - 1 + (now - truth.beat) + Slack
    BY DEF HoursCounted
  <2>3. Worked - q \in 0..(HOUR - 1)
    BY <1>3, <1>4
  <2>4. now - truth.beat <= TIMER_MAX - 1 /\ Slack <= TIMER_MAX - 1 /\ Slack \in Int
    BY <1>1, <1>2, HoursTyped DEF BeatInStep, Slack
  <2> HIDE DEF p, q
  <2>5. p + q <= HOUR - 1 + (2 * TIMER_MAX - 2)
    <3>1. q <= Kept.operational_ms + SinceCollected
      BY <1>2, <1>5, <2>1, <2>3, HoursTyped
    <3> QED
      BY <1>1, <1>2, <2>1, <2>2, <2>4, <3>1, HoursTyped
  <2>6. HoursNow + h \in Nat
    BY <1>3, HoursTyped
  <2> QED
    BY <2>1, <2>5, <2>6, HoursFit
<1>13. CASE h = 0
  BY <1>3, <1>5, <1>6, <1>7, <1>8, <1>10, <1>13, HoursTyped DEF crash
<1>14. CASE h # 0
  <2>1. one \in Context /\ one.values[a] = clipped(HoursNow, h) /\ one.values[b] = CrashfreeNow
    <3>1. h \in Int
      BY <1>3
    <3>2. one \in Context /\ one.values[a] = clipped(ctx.values[a], h) /\ one.values[b] = ctx.values[b]
      BY <1>1, <1>9, <3>1, AddTyped
    <3> QED
      BY <1>10, <3>2
  <2> HIDE DEF one
  <2>2. ctx'.values[a] = one.values[a] /\ ctx'.values[b] = clipped(one.values[b], h - crash)
    <3> DEFINE amount == h - crash
    <3>1. amount \in Int /\ ctx' = add(one, b, amount)
      BY <1>6, <1>11, <1>14
    <3> HIDE DEF amount
    <3>2. ctx'.values[a] = one.values[a] /\ ctx'.values[b] = clipped(one.values[b], amount)
      BY <1>9, <2>1, <3>1, AddTyped
    <3> QED
      BY <3>2 DEF amount
  <2>3. HoursNow \in 0..(UINT32 - 1) /\ h \in 0..(UINT32 - 1) /\ HoursNow + h >= 0
    BY <1>2, <1>3, <1>12, HoursTyped
  <2>4. clipped(HoursNow, h) = HoursNow + h
    <3>1. clipped(HoursNow, h) = Clamp(HoursNow + h)
      BY <1>2, <2>3, ClippedIsClamp
    <3> QED
      BY <1>2, <1>3, <1>12, <2>3, <3>1 DEF Clamp
  <2>5. CrashfreeNow <= HoursNow /\ CrashfreeNow \in 0..(UINT32 - 1)
    <3>1. CrashfreeNow <= HoursNow
      BY DEF HoursCounted
    <3>2. CrashfreeNow \in 0..(UINT32 - 1)
      BY HoursTyped DEF Value
    <3> QED
      BY <3>1, <3>2
  <2>6. clipped(CrashfreeNow, h - crash) = CrashfreeNow + (h - crash)
    <3>1. h - crash \in (1 - UINT32)..(UINT32 - 1) /\ CrashfreeNow + (h - crash) \in 0..(UINT32 - 1)
      BY <1>2, <1>3, <1>11, <1>12, <1>14, <2>3, <2>5
    <3>2. clipped(CrashfreeNow, h - crash) = Clamp(CrashfreeNow + (h - crash))
      BY <2>5, <3>1, ClippedIsClamp
    <3> QED
      BY <1>2, <3>1, <3>2 DEF Clamp
  <2>7. CrashfreeNow' = CrashfreeNow + (h - crash) /\ HoursNow' = HoursNow + h
    BY <1>10, <2>1, <2>2, <2>4, <2>6
  <2> QED
    BY <1>3, <1>5, <1>7, <1>8, <1>14, <2>7 DEF crash
<1> QED
  BY <1>13, <1>14

LEMMA HoursCollected ==
  ASSUME TwiceTheTimer, Typed, BeatInStep, HoursCounted, CrashKnown, FirstHourCounted, reliability_collect,
         truth' = truth
  PROVE  HoursCounted' /\ FirstHourCounted'
<1> DEFINE h == Worked \div HOUR
           op == Kept.operational_ms
           crash == IF ~reliability.counted /\ unexpected THEN 1 ELSE 0
<1>1. now \in Nat /\ TIMER_MAX \in Nat \ {0} /\ UINT32 \in Nat \ {0} /\ HOUR \in Nat \ {0}
  BY Widths DEF Typed
<1>2. /\ h \in Nat /\ Worked = op + SinceCollected
      /\ HoursNow' = HoursNow + h /\ reliability'.last_heartbeat_ms = now % UINT32
      /\ reliability'.operational_ms = Worked - HOUR * h
      /\ reliability'.operational_ms \in 0..(HOUR - 1)
      /\ reliability'.counted <=> reliability.counted \/ h > 0
      /\ CrashfreeNow' = CrashfreeNow + (IF h = 0 THEN 0 ELSE h - crash)
  BY CollectedHours
<1> HIDE DEF h
<1>3. /\ hb.pc = "collect" /\ hb'.pc \in {"battery_cache", "collect_logs"} /\ hb'.then = hb.then
      /\ now' = now /\ serialized' = serialized
  BY HeartMoves DEF reliability_collect, env, Moves
<1>4. Kept' = reliability' /\ Kept = reliability /\ ~ToCollect' /\ Slack' = Slack
  BY <1>3 DEF Kept, ToCollect, Slack, Heartbeating
<1>5. SinceCollected' = 0
  <2>1. SinceCollected' = Since(UINT32, now % UINT32, now % UINT32)
    BY <1>2, <1>3, <1>4 DEF SinceCollected
  <2>2. now % UINT32 \in 0..(UINT32 - 1)
    BY <1>1, ModRange
  <2> QED
    BY <1>1, <2>1, <2>2, SinceNext
<1>6. Counted("hours")' = Counted("hours") + h
  BY <1>2, <1>3, CountedHours, HoursTyped
<1>7. Counted("crashfree_hours")' = Counted("crashfree_hours") + (IF h = 0 THEN 0 ELSE h - crash)
  <2>1. Counted("crashfree_hours") = serialized["crashfree_hours"] + CrashfreeNow
    BY <1>3, CountedHours
  <2>2. Counted("crashfree_hours")' = serialized["crashfree_hours"] + CrashfreeNow'
    BY <1>3, CountedHours
  <2> QED
    BY <1>2, <2>1, <2>2, HoursTyped
<1>8. truth.beat <= now
  BY <1>3 DEF BeatInStep
<1>9. /\ SinceCollected' <= now' - truth'.beat + (IF ToCollect' THEN TIMER_MAX - 1 ELSE 0)
      /\ Kept'.operational_ms < HOUR
  <2>1. Kept'.operational_ms < HOUR
    BY <1>1, <1>2, <1>4
  <2>2. now' - truth'.beat >= 0 /\ now' - truth'.beat \in Int
    BY <1>1, <1>3, <1>8, HoursTyped
  <2> QED
    BY <1>4, <1>5, <2>1, <2>2
<1> DEFINE p == HOUR * HoursNow
           q == HOUR * h
           r == HOUR * Counted("hours")
<1>10. /\ p \in Nat /\ q \in Nat /\ r \in Nat /\ HOUR * (HoursNow + h) = p + q
       /\ HOUR * (Counted("hours") + h) = r + q
  BY <1>1, <1>2, HoursTyped
<1>11. /\ p + op + SinceCollected <= HOUR - 1 + (now - truth.beat) + Slack
       /\ truth.uptime = r + op + SinceCollected
       /\ Kept'.operational_ms = op + SinceCollected - q
  <2>1. p + op + SinceCollected <= HOUR - 1 + (now - truth.beat) + Slack
    BY DEF HoursCounted
  <2>2. truth.uptime = r + op + SinceCollected
    BY DEF HoursCounted
  <2>3. Kept'.operational_ms = op + SinceCollected - q
    <3>1. Kept'.operational_ms = Worked - q /\ Worked = op + SinceCollected
      BY <1>2, <1>4
    <3>2. op \in Nat /\ SinceCollected \in Nat /\ q \in Nat
      BY <1>10, HoursTyped
    <3> HIDE DEF q, op
    <3> QED
      BY <3>1, <3>2
  <2> QED
    BY <2>1, <2>2, <2>3
<1>12. HOUR * HoursNow' = p + q /\ HOUR * Counted("hours")' = r + q
  BY <1>2, <1>6, <1>10
<1> HIDE DEF p, q, r, op
<1>13. HOUR * HoursNow' + Kept'.operational_ms + SinceCollected' <= HOUR - 1 + (now' - truth'.beat) + Slack'
  <2>1. op \in Nat /\ Slack \in Int
    BY <1>1, HoursTyped DEF op, Slack
  <2>2. HOUR * HoursNow' + Kept'.operational_ms + SinceCollected' = p + op + SinceCollected
    BY <1>5, <1>10, <1>11, <1>12, <2>1, HoursTyped
  <2> QED
    BY <1>3, <1>4, <1>11, <2>2
<1>14. truth'.uptime = HOUR * Counted("hours")' + Kept'.operational_ms + SinceCollected'
  <2>1. op \in Nat
    BY HoursTyped DEF op
  <2> QED
    BY <1>5, <1>10, <1>11, <1>12, <2>1, HoursTyped
<1>15. crash \in {0, 1}
  OBVIOUS
<1>16. reliability.counted <=> Counted("hours") > 0
  BY <1>4 DEF FirstHourCounted
<1>17. CrashfreeNow' <= HoursNow'
  <2>1. CrashfreeNow <= HoursNow
    BY DEF HoursCounted
  <2> HIDE DEF crash
  <2> QED
    BY <1>2, <1>15, <2>1, HoursTyped
<1>18. Counted("hours")' - Counted("crashfree_hours")'
         = IF truth'.crashed /\ Counted("hours")' > 0 THEN 1 ELSE 0
  <2>1. Counted("hours") - Counted("crashfree_hours") = IF truth.crashed /\ Counted("hours") > 0 THEN 1 ELSE 0
    BY DEF HoursCounted
  <2>2. crash = IF Counted("hours") > 0 THEN 0 ELSE IF truth.crashed THEN 1 ELSE 0
    BY <1>16 DEF CrashKnown
  <2> HIDE DEF crash
  <2>3. CASE h = 0
    BY <1>6, <1>7, <2>1, <2>3, HoursTyped
  <2>4. CASE h # 0
    <3>1. Counted("hours")' > 0 /\ Counted("hours")' - Counted("crashfree_hours")' = Counted("hours") - Counted("crashfree_hours") + crash
      BY <1>2, <1>6, <1>7, <1>15, <2>4, HoursTyped
    <3> QED
      BY <2>1, <2>2, <3>1, HoursTyped
  <2> QED
    BY <2>3, <2>4
<1>19. FirstHourCounted'
  <2>1. Counted("hours")' > 0 <=> Counted("hours") > 0 \/ h > 0
    BY <1>2, <1>6, HoursTyped
  <2> QED
    BY <1>2, <1>4, <1>16, <2>1 DEF FirstHourCounted
<1> QED
  BY <1>9, <1>13, <1>14, <1>17, <1>18, <1>19 DEF HoursCounted

LEMMA HoursStep ==
  ASSUME TwiceTheTimer, Typed, BeatInStep, Updating, HoursInStep, hb.pc # "boot", Next,
         \A crash \in BOOLEAN : ~Reset(crash)
  PROVE  HoursCounted' /\ FirstHourCounted'
<1> DEFINE Goal == HoursCounted' /\ FirstHourCounted'
<1>1. HoursCounted /\ FirstHourCounted /\ CrashKnown
  BY DEF HoursInStep
<1>2. IntervalMs("heartbeat") \in Timer /\ IntervalMs("heartbeat")[1] = "heartbeat"
  BY Keys DEF Group, IntervalMs
<1>3. ~boot
  BY DEF boot
<1>4. CASE Tick
  BY <1>1, <1>4, HoursTick
<1>5. ASSUME ~Tick PROVE Goal
  <2>1. truth'.uptime = truth.uptime /\ truth'.crashed = truth.crashed
    BY <1>5, UptimeKept
  <2>2. ASSUME tallied PROVE Goal
    <3>1. serialized' = serialized
      BY <2>2 DEF tallied
    <3> QED
      BY <1>1, <2>1, <2>2, <3>1, HoursAtTimers
  <2>3. ASSUME reliability_collect PROVE Goal
    <3>1. truth' = truth
      BY <2>3 DEF reliability_collect, history
    <3> QED
      BY <1>1, <2>3, <3>1, HoursCollected
  <2>4. ASSUME ~tallied, ~reliability_collect PROVE Goal
    <3>1. truth'.beat = truth.beat
      BY <1>3, <2>4, BeatKept
    <3>2. now' = now
      <4>1. CASE encode \/ heartbeat_timer
        BY <4>1 DEF encode, heartbeat_timer, env
      <4> QED
        BY <1>2, <1>3, <1>5, <2>4, <4>1, TimeHistoryKept
    <3>3. ASSUME ~encode PROVE serialized' = serialized
      <4>1. CASE heartbeat_timer
        BY <4>1 DEF heartbeat_timer
      <4> QED
        BY <1>2, <1>3, <1>5, <2>4, <3>3, <4>1, TimeHistoryKept
    <3>4. CASE reset
      <4>1. serialized' = serialized
        BY <3>4 DEF reset
      <4> QED
        BY <1>1, <2>1, <3>1, <3>2, <3>4, <4>1, HoursReset
    <3>5. ASSUME ~reset PROVE Goal
      <4>1. HoursNow' = HoursNow /\ CrashfreeNow' = CrashfreeNow
        BY <1>3, <2>4, <3>5, NumbersKept DEF HeartbeatNumber, HoursNow, CrashfreeNow
      <4>2. Heartbeating => Heartbeating'
        BY <3>5, SlackKept
      <4>3. ToCollect => ToCollect'
        BY <1>5, <2>4, AsleepSteps DEF ToCollect
      <4>4. Counted("hours")' = Counted("hours") /\ Counted("crashfree_hours")' = Counted("crashfree_hours")
        <5>1. CASE encode
          <6>1. hb.pc = "encode" /\ hb'.pc = "reset"
            BY <5>1, HeartMoves DEF Moves
          <6>2. /\ serialized'["hours"] = serialized["hours"] + HoursNow
                /\ serialized'["crashfree_hours"] = serialized["crashfree_hours"] + CrashfreeNow
            BY <5>1 DEF encode, Summed, HoursNow, CrashfreeNow
          <6>3. /\ Counted("hours") = serialized["hours"] + HoursNow
                /\ Counted("crashfree_hours") = serialized["crashfree_hours"] + CrashfreeNow
            BY <6>1, CountedHours
          <6>4. /\ Counted("hours")' = serialized'["hours"] + 0
                /\ Counted("crashfree_hours")' = serialized'["crashfree_hours"] + 0
            BY <6>1, CountedHours
          <6> QED
            BY <6>2, <6>3, <6>4, HoursTyped
        <5>2. CASE ~encode
          <6>1. hb'.pc = "reset" <=> hb.pc = "reset"
            BY <3>5, <5>2, ResetNext
          <6> QED
            BY <3>3, <4>1, <5>2, <6>1, CountedHours
        <5> QED
          BY <5>1, <5>2
      <4>5. Kept' = Kept
        <5>1. CASE enter_sleep
          <6>1. hb.pc = "sleep" /\ hb'.pc = "asleep"
            BY <5>1, HeartMoves DEF At
          <6>2. ctx'.reliability_ctx = reliability
            BY <5>1 DEF enter_sleep, Typed, Context
          <6> QED
            BY <6>1, <6>2 DEF Kept
        <5>2. CASE wake
          <6>1. hb.pc = "asleep" /\ hb'.pc = "idle"
            BY <5>2, HeartMoves DEF At
          <6>2. reliability' = ctx.reliability_ctx
            BY <5>2 DEF wake
          <6> QED
            BY <6>1, <6>2 DEF Kept
        <5>3. CASE ~enter_sleep /\ ~wake
          <6>1. hb.pc # "asleep" /\ hb'.pc # "asleep"
            BY <1>5, <5>3, AsleepSteps
          <6>2. reliability' = reliability
            BY <1>3, <2>4, <5>3, ReliabilityKept
          <6> QED
            BY <6>1, <6>2 DEF Kept
        <5> QED
          BY <5>1, <5>2, <5>3
      <4> QED
        BY <1>1, <2>1, <3>1, <3>2, <4>1, <4>2, <4>3, <4>4, <4>5, HoursMoved
    <3> QED
      BY <3>4, <3>5
  <2> QED
    BY <2>2, <2>3, <2>4
<1> QED
  BY <1>4, <1>5

LEMMA CrashKnownStep ==
  ASSUME SleepersNeverReset, Typed, Sleepless, CrashKnown, Next
  PROVE  CrashKnown'
<1>1. build' = build /\ build \in Builds /\ truth \in Truth /\ resets \in Nat
  BY BuildKept DEF Typed
<1>2. ASSUME NEW crash \in BOOLEAN, Reset(crash) PROVE CrashKnown'
  <2>1. build.max_resets > 0
    BY <1>1, <1>2, BuildTyped DEF Reset, Build
  <2>2. unexpected' = crash /\ truth'.crashed = crash
    BY <1>2 DEF Reset, NoTruth
  <2> QED
    BY <1>1, <2>1, <2>2 DEF CrashKnown
<1>3. ASSUME \A crash \in BOOLEAN : ~Reset(crash) PROVE CrashKnown'
  <2>1. truth'.crashed = truth.crashed
    <3>1. CASE Tick
      BY <1>1, <3>1 DEF Tick, Truth
    <3> QED
      BY <1>3, <3>1, UptimeKept
  <2>2. CASE wake
    <3>1. hb.pc = "asleep" /\ ~unexpected'
      BY <2>2 DEF wake
    <3>2. build.max_resets = 0
      BY <1>1, <3>1 DEF SleepersNeverReset, Sleepless
    <3> QED
      BY <1>1, <2>1, <3>1, <3>2 DEF CrashKnown
  <2>3. CASE ~wake
    <3>1. unexpected' = unexpected
      BY <1>3, <2>3, ReliabilityKept
    <3> QED
      BY <1>1, <2>1, <3>1 DEF CrashKnown
  <2> QED
    BY <2>2, <2>3
<1> QED
  BY <1>2, <1>3

LEMMA HoursInStepStep ==
  ASSUME TwiceTheTimer, SleepersNeverReset, Typed, BeatInStep, Updating, HoursInStep, Next
  PROVE  HoursInStep'
<1>1. CrashKnown' /\ Sleepless'
  BY CrashKnownStep, SleeplessStep DEF HoursInStep
<1>2. ASSUME NEW crash \in BOOLEAN, Reset(crash)
      PROVE  hb'.pc = "boot" /\ NothingCounted'
  BY <1>2 DEF Reset, At, NothingCounted, NoTruth, Zero, Summed
<1>3. ASSUME \A crash \in BOOLEAN : ~Reset(crash)
      PROVE  hb'.pc # "boot" /\ HoursCounted' /\ FirstHourCounted'
  <2>1. hb'.pc # "boot"
    BY <1>3, BootFirst
  <2>2. CASE hb.pc = "boot"
    <3>1. boot /\ NothingCounted /\ CrashKnown
      BY <1>3, <2>2, BootFirst DEF HoursInStep
    <3> QED
      BY <2>1, <3>1, HoursOfBoot
  <2>3. CASE hb.pc # "boot"
    BY <1>3, <2>1, <2>3, HoursStep
  <2> QED
    BY <2>2, <2>3
<1> QED
  BY <1>1, <1>2, <1>3 DEF HoursInStep

\* The hours reported, and the part of an hour kept, are the time since boot, asleep or awake; and the
\* crash-free hours are one short of them when the boot came from a crash, once there is an hour.
THEOREM HoursAreTheTime ==
  ASSUME TwiceTheTimer, SleepersNeverReset
  PROVE  Spec => []HoursAccountForTime
<1> DEFINE IInv == Typed /\ BeatInStep /\ Updating /\ HoursInStep
<1>1. Init => IInv
  <2> SUFFICES ASSUME Init PROVE IInv
    OBVIOUS
  <2>1. Typed /\ BeatInStep /\ Updating
    BY InitTyped, TimingInit DEF Timing
  <2>2. HoursInStep
    BY DEF Init, HoursInStep, CrashKnown, Sleepless, NothingCounted, At, NoTruth, Zero, Summed, Reading
  <2> QED
    BY <2>1, <2>2
<1>2. IInv /\ [Next]_vars => IInv'
  <2> SUFFICES ASSUME IInv, [Next]_vars PROVE IInv'
    OBVIOUS
  <2>1. CASE Next
    BY <2>1, TypedStep, BeatStep, UpdatingStep, HoursInStepStep
  <2>2. CASE UNCHANGED vars
    <3>1. Typed' /\ BeatInStep' /\ Updating'
      BY <2>2 DEF vars, Typed, BeatInStep, Unbooted, Updating, Elapsed
    <3>2. /\ Kept' = Kept /\ HoursNow' = HoursNow /\ CrashfreeNow' = CrashfreeNow
          /\ Counted("hours")' = Counted("hours") /\ Counted("crashfree_hours")' = Counted("crashfree_hours")
      BY <2>2 DEF vars, Kept, HoursNow, CrashfreeNow, Counted, Pending
    <3>3. SinceCollected' = SinceCollected /\ Slack' = Slack /\ (ToCollect' <=> ToCollect)
      BY <2>2, <3>2 DEF vars, SinceCollected, Slack, Heartbeating, ToCollect
    <3>4. HoursCounted' <=> HoursCounted
      BY <2>2, <3>2, <3>3 DEF vars, HoursCounted
    <3>5. (FirstHourCounted' <=> FirstHourCounted) /\ (NothingCounted' <=> NothingCounted)
          /\ (CrashKnown' <=> CrashKnown) /\ (Sleepless' <=> Sleepless)
      BY <2>2, <3>2 DEF vars, FirstHourCounted, NothingCounted, CrashKnown, Sleepless
    <3>6. hb' = hb
      BY <2>2 DEF vars
    <3> QED
      BY <3>1, <3>4, <3>5, <3>6 DEF HoursInStep
  <2> QED
    BY <2>1, <2>2
<1>3. IInv => HoursAccountForTime
  <2> SUFFICES ASSUME IInv, Awake PROVE HoursAccountForTime
    BY DEF HoursAccountForTime
  <2>1. hb.pc # "boot" /\ hb.pc # "asleep"
    BY DEF Awake, Booting
  <2>2. HoursCounted /\ Kept = reliability
    BY <2>1 DEF HoursInStep, Kept
  <2>3. TimeInHour = Kept.operational_ms + SinceCollected
    <3>1. reliability.last_heartbeat_ms \in 0..(UINT32 - 1) /\ now % UINT32 \in 0..(UINT32 - 1)
      BY NowInTime DEF Typed, Reliability, Value
    <3> QED
      BY <2>2, <3>1, IntervalIsSince DEF TimeInHour, SinceCollected
  <2>4. truth.uptime = HOUR * Counted("hours") + TimeInHour
    <3> DEFINE p == HOUR * Counted("hours")
    <3>1. p \in Nat /\ truth.uptime = p + Kept.operational_ms + SinceCollected
      BY <2>2, Widths, HoursTyped DEF HoursCounted
    <3> HIDE DEF p
    <3>2. truth.uptime = p + TimeInHour
      BY <2>3, <3>1, HoursTyped
    <3> QED
      BY <3>2 DEF p
  <2> QED
    BY <2>2, <2>4 DEF HoursAccountForTime, HoursCounted
<1> QED
  BY <1>1, <1>2, <1>3, PTL DEF Spec
===============================================================================

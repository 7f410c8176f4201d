------------------------------- MODULE Metrics -------------------------------
(* components/metrics/src: memfault_metrics.c with the collectors it calls     *)
(* (reliability, battery, log counts), connectivity and the serializer, and    *)
(* the bits of reboot tracking that tell which sessions a crash interrupted.   *)
(*                                                                             *)
(* The API calls of the application hold memfault_lock and are one action      *)
(* each.  The heartbeat (prv_heartbeat_timer) locks nothing but its            *)
(* serialization: it is a sequence of actions, the update of each timer one of *)
(* them.  Time goes on between them, and in preemptive builds other tasks run. *)
(* Connectivity makes two locked calls for one state.                          *)
(* Timers are 31 bits wide, values 32, time since boot wider than both.        *)
EXTENDS Integers, Sequences, FiniteSets

CONSTANTS
  Session,    \* the sessions of the application
  Net,        \* tasks that report connectivity states
  TIMER_MAX,  \* MEMFAULT_METRICS_TIMER_VAL_MAX, 2^31
  UINT32,     \* 2^32
  HOUR,       \* an hour of milliseconds
  Builds      \* the configurations to check: build settings and bounds
\* sessions      MEMFAULT_METRICS_SESSIONS_ENABLED, and those the .def file has
\* connectivity  tasks of Net, when MEMFAULT_METRICS_CONNECTIVITY_CONNECTED_TIME
\* battery, logs MEMFAULT_METRICS_BATTERY_ENABLE, _LOGS_ENABLE
\* restore       MEMFAULT_METRICS_RESTORE_STATE, with the port's deep sleep
\* preemptive    other tasks run while the heartbeat is under way
\* busy          bound: ticks from the start of a heartbeat that time goes on for under way, when
\*               nothing preempts it
\* amounts       bound: amounts added to a metric at once
\* max_time, max_adds, max_logs, max_resets  bounds: ticks since the first boot, additions,
\*               log lines and resets
Group == Session \cup {"heartbeat"}
Build == [sessions : SUBSET Session, connectivity : SUBSET Net, battery : BOOLEAN, logs : BOOLEAN,
          restore : BOOLEAN, preemptive : BOOLEAN, busy : Nat, amounts : SUBSET Int,
          max_time : Nat, max_adds : Nat, max_logs : Nat, max_resets : Nat]
ASSUME WidthAssumption == {TIMER_MAX, UINT32, HOUR} \subseteq Nat \ {0} /\ TIMER_MAX < UINT32
ASSUME SessionAssumption == {"heartbeat", "none"} \cap Session = {}
\* The update of the timers is not locked: no other task may touch one meanwhile.
ASSUME BuildAssumption == /\ Builds \subseteq Build
                          /\ \A b \in Builds : b.preemptive => b.sessions = {} /\ b.connectivity = {}

\* s_memfault_heartbeat_keys: the session of a metric and its name.
HeartbeatTimer == {"IntervalMs", "connected", "expected"}
HeartbeatNumber == {"count", "unexpected_reboots", "hours", "crashfree_hours", "soc_drop", "log_lines"}
Summed == HeartbeatTimer \cup {"count", "hours", "crashfree_hours", "log_lines"}
Key == ({"heartbeat"} \X (HeartbeatTimer \cup HeartbeatNumber))
       \cup (Session \X {"IntervalMs", "count", "operational_crashes"})
Timer == {k \in Key : k[2] \in HeartbeatTimer}
Heartbeat(name) == <<"heartbeat", name>>
IntervalMs(g) == <<g, "IntervalMs">>

VARIABLES
  build,       \* the configuration: it never changes
  now,         \* memfault_platform_get_time_since_boot_ms()
  ctx,         \* s_memfault_metrics_ctx
  reliability, \* s_memfault_metrics_reliability_ctx
  battery,     \* s_memfault_battery_ctx
  hb,          \* the task of the heartbeat timer (and of boot): where it is, what it has read
  net,         \* per task, the timer calls its state change still makes
  active_sessions, unexpected, \* reboot tracking: bits in retained RAM, and why this boot
  power,       \* the charger, and what happened to it (history)
  log_recorded, \* memfault_log_get_recorded_count()
  event,       \* the last event stored, with what the session really did; none when a heartbeat
               \* has ended since (history)
  serialized,  \* sum of each heartbeat metric over the heartbeats given to the event storage,
               \* those it refused included (history)
  truth,       \* what really happened (history)
  adds, logs, resets \* calls so far

vars == <<build, now, ctx, reliability, battery, hb, net, active_sessions, unexpected, power,
          log_recorded, event, serialized, truth, adds, logs, resets>>

Zero(S) == [s \in S |-> 0]
NoReliability == [last_heartbeat_ms |-> 0, operational_ms |-> 0, counted |-> FALSE]
NoContext == [values |-> Zero(Key), is_set |-> {}, running |-> {}, start_time_ms |-> Zero(Timer),
              last_log |-> 0, reliability_ctx |-> NoReliability]
Invalid == -1  \* no valid state of charge
NoBattery == [last_state_of_charge |-> 0, stopped |-> FALSE]
NoEvent == [session |-> "none"]
\* What the heartbeat task does next, the timers it has yet to update, the sessions boot has to
\* look at, and what it read of the battery.
At(pc) == [pc |-> pc, then |-> "encode", timers |-> {}, left |-> {}, stopped |-> FALSE, discharging |-> FALSE,
           soc |-> Invalid]
\* charging      the charger is connected
\* charged       it was, at some time since the state of charge was last read
\* before        it was, in the interval before that reading
\* raced, was_raced  a stop of discharging was reported while this, the last collection ran
NoPower == [charging |-> FALSE, charged |-> FALSE, before |-> FALSE, raced |-> FALSE,
            was_raced |-> FALSE]
\* added    total of the additions: to the heartbeat since boot, to a session since its start
\* late     additions to the heartbeat's after it was encoded and before it was reset
\* uptime   time since boot, asleep or awake;  ran  time each timer ran;  lines  log lines
\* since    time since the last start of each session
\* began    when the last update of the timers began;  beat  that of the last one that has ended
\* apart    the time connected but not expected that the timers still held at the last heartbeat
\* open     sessions started and neither ended nor reset
\* owed     sessions that resets interrupted since boot last ended, and no event reports yet
\* crashed  whether the last reset was unexpected
NoTruth == [added |-> Zero(Group), late |-> 0, uptime |-> 0, lines |-> 0, ran |-> Zero(Timer),
            since |-> Zero(Session), began |-> 0, beat |-> 0, apart |-> 0, open |-> {}, owed |-> {}, crashed |-> FALSE]

Init ==
  /\ build \in Builds
  /\ now = 0
  /\ ctx = NoContext
  /\ reliability = NoReliability
  /\ battery = NoBattery
  /\ hb = At("boot")
  /\ net = [t \in Net |-> <<>>]
  /\ active_sessions = {} /\ unexpected = FALSE
  /\ power = NoPower
  /\ log_recorded = 0
  /\ event = NoEvent
  /\ serialized = Zero(Summed)
  /\ truth = NoTruth
  /\ adds = 0 /\ logs = 0 /\ resets = 0

env == <<build, now, adds, logs, resets>>
reboots == <<active_sessions, unexpected>>
history == <<power, truth>>

Booting == hb.pc \in {"boot", "check", "battery_boot"}
Awake == ~Booting /\ hb.pc # "asleep"
\* Other tasks run: while no heartbeat is under way, or preempting it.
Free == Awake /\ (build.preemptive \/ hb.pc = "idle")
\* The API may also be called from memfault_metrics_heartbeat_collect_data.
Callable == Free \/ hb.pc = "collect_data"

-------------------------------------------------------------------------------
(* Operations on the context *)
Clamp(v) == IF v < 0 THEN 0 ELSE IF v >= UINT32 THEN UINT32 - 1 ELSE v

\* Mutant: the wrapped sum is kept.
mut_clipped_wraps(v, amount) == (v + amount) % UINT32
\* prv_find_key_and_add on an unsigned metric: the sum wraps, and is clipped when it went the
\* wrong way.
clipped(v, amount) ==
  LET new_value == (v + amount) % UINT32
  IN IF (amount > 0) = (new_value > v) THEN new_value
     ELSE IF amount > 0 THEN UINT32 - 1 ELSE 0

add(c, k, amount) == [c EXCEPT !.values[k] = clipped(@, amount), !.is_set = @ \cup {k}]
set_unsigned(c, k, v) == [c EXCEPT !.values[k] = v, !.is_set = @ \cup {k}]

\* Mutant: the roll over of the 31-bit time is not taken into account.
mut_elapsed_no_rollover(start, stop) == IF stop >= start THEN stop - start ELSE 0
elapsed(start, stop) ==
  IF stop >= start THEN stop - start ELSE TIMER_MAX - start + stop

\* prv_update_timer_metric: kMemfaultTimerOp_Start, _Stop and _ForceValueUpdate.
timer_start(c, k) ==
  IF k \in c.running THEN c
  ELSE [c EXCEPT !.running = @ \cup {k}, !.start_time_ms[k] = now % TIMER_MAX]
timer_update(c, k) ==
  LET stop_time_ms == now % TIMER_MAX
  IN IF k \notin c.running THEN c
     ELSE [c EXCEPT !.values[k] = (@ + elapsed(c.start_time_ms[k], stop_time_ms)) % UINT32,
                    !.start_time_ms[k] = stop_time_ms]
timer_stop(c, k) ==
  IF k \notin c.running THEN c
  ELSE [timer_update(c, k) EXCEPT !.running = @ \ {k}, !.start_time_ms[k] = 0]

\* The time of a timer that its metric does not hold yet.
Uncounted(name) ==
  LET k == Heartbeat(name)
  IN IF k \in ctx.running THEN elapsed(ctx.start_time_ms[k], now % TIMER_MAX) ELSE 0

\* prv_reset_metrics(false, session): timers that run go on running.
reset_metrics(c, g) ==
  [c EXCEPT !.values = [k \in Key |-> IF k[1] = g THEN 0 ELSE @[k]],
            !.is_set = {k \in @ : k[1] # g}]

-------------------------------------------------------------------------------
(* Calls of the application, each under memfault_lock *)

\* memfault_metrics_heartbeat_add to the application's metric of session g.
heartbeat_add(g, amount) ==
  LET k == <<g, "count">>
      gain == Clamp(ctx.values[k] + amount) - ctx.values[k]
  IN /\ Callable /\ g \in build.sessions \cup {"heartbeat"} /\ amount \in build.amounts
     /\ adds < build.max_adds /\ adds' = adds + 1
     /\ ctx' = add(ctx, k, amount)
     /\ truth' = [truth EXCEPT !.added[g] = @ + gain,
                               !.late = IF g = "heartbeat" /\ hb.pc = "reset" THEN @ + gain ELSE @]
     /\ UNCHANGED <<build, now, logs, resets, reliability, battery, hb, net, reboots, power,
                    log_recorded, event, serialized>>

unmoved == <<build, now, adds, logs, resets, reliability, battery, hb, power, log_recorded>>

\* memfault_metrics_heartbeat_timer_read: counts the time so far, and reads.
timer_read(k) ==
  /\ Callable /\ ~build.preemptive /\ k \in ctx.running
  /\ ctx' = timer_update(ctx, k)
  /\ UNCHANGED <<unmoved, net, reboots, truth, event, serialized>>

\* memfault_metrics_session_start; the callback of the session runs after it.
session_start(g) ==
  /\ Callable /\ g \in build.sessions
  /\ ctx' = timer_start(reset_metrics(ctx, g), IntervalMs(g))
  /\ active_sessions' = active_sessions \cup {g}
  /\ truth' = [truth EXCEPT !.open = @ \cup {g}, !.added[g] = 0, !.since[g] = 0,
                            !.ran[IntervalMs(g)] = IF g \in truth.open THEN @ ELSE 0]
  /\ UNCHANGED <<unmoved, unexpected, net, event, serialized>>

\* What memfault_metrics_session_serialize encodes of session g, with what it should be.
SessionEvent(c, g) ==
  [session |-> g, interval |-> c.values[IntervalMs(g)], count |-> c.values[<<g, "count">>],
   crashes |-> c.values[<<g, "operational_crashes">>],
   added |-> truth.added[g], since |-> truth.since[g], ran |-> truth.ran[IntervalMs(g)],
   owed |-> g \in truth.owed]

\* memfault_metrics_session_end, after the callback of the session.  Whether the event fits
\* in its storage only decides what is returned.
session_end(g) ==
  LET stopped == timer_stop(ctx, IntervalMs(g))
  IN /\ Callable /\ g \in build.sessions
     /\ ctx' = stopped
     /\ event' = IF IntervalMs(g) \in ctx.running THEN SessionEvent(stopped, g) ELSE event
     /\ active_sessions' = active_sessions \ {g}
     /\ truth' = [truth EXCEPT !.open = @ \ {g}]
     /\ UNCHANGED <<unmoved, unexpected, net, serialized>>

\* memfault_metrics_session_reset.
session_reset(g) ==
  /\ Callable /\ g \in build.sessions
  /\ ctx' = reset_metrics(timer_stop(ctx, IntervalMs(g)), g)
  /\ active_sessions' = active_sessions \ {g}
  /\ truth' = [truth EXCEPT !.open = @ \ {g}]
  /\ UNCHANGED <<unmoved, unexpected, net, event, serialized>>

Start(name) == <<"start", Heartbeat(name)>>
Stop(name) == <<"stop", Heartbeat(name)>>
\* Mutant: the connected time is stopped after the expected time.
mut_StateCalls ==
  [Stopped |-> <<Stop("expected"), Stop("connected")>>,
   Started |-> <<Start("expected")>>,
   Connected |-> <<Start("expected"), Start("connected")>>,
   ConnectionLost |-> <<Start("expected"), Stop("connected")>>]
\* The calls memfault_metrics_connectivity_connected_state_change makes for each state.
StateCalls ==
  [Stopped |-> <<Stop("connected"), Stop("expected")>>,
   Started |-> <<Start("expected")>>,
   Connected |-> <<Start("expected"), Start("connected")>>,
   ConnectionLost |-> <<Start("expected"), Stop("connected")>>]

connected_state_change(t, state) ==
  /\ Free /\ t \in build.connectivity /\ net[t] = <<>>
  /\ net' = [net EXCEPT ![t] = StateCalls[state]]
  /\ UNCHANGED <<unmoved, ctx, reboots, truth, event, serialized>>
\* One of those calls: memfault_metrics_heartbeat_timer_start or _stop.
timer_call(t) ==
  /\ Free /\ net[t] # <<>>
  /\ LET call == Head(net[t])
     IN ctx' = IF call[1] = "start" THEN timer_start(ctx, call[2]) ELSE timer_stop(ctx, call[2])
  /\ net' = [net EXCEPT ![t] = Tail(@)]
  /\ UNCHANGED <<unmoved, reboots, truth, event, serialized>>

-------------------------------------------------------------------------------
(* The heartbeat: prv_heartbeat_timer, or memfault_metrics_heartbeat_collect *)
Goes(pc) == hb' = [hb EXCEPT !.pc = pc]

\* The order of the keys: those of the heartbeat as heartbeat_config.def lists them, then the
\* application's.
Before(j, k) ==
  /\ j[1] = "heartbeat"
  /\ \/ k[1] # "heartbeat"
     \/ j[2] = "IntervalMs" /\ k[2] # "IntervalMs"
     \/ j[2] = "connected" /\ k[2] = "expected"

\* prv_heartbeat_timer_update iterates over the timers of every session: none starts or stops
\* meanwhile.
Tallies(c, pc) == hb' = [hb EXCEPT !.pc = pc, !.timers = c.running]
heartbeat_timer ==
  /\ hb.pc = "idle"
  /\ Tallies(ctx, "tally")
  /\ truth' = [truth EXCEPT !.began = now]
  /\ UNCHANGED <<env, ctx, reliability, battery, net, reboots, power, log_recorded, event, serialized>>
\* prv_tally_and_update_timer_cb for the next timer, which reads the clock.
tally ==
  /\ hb.pc \in {"tally", "print"}
  /\ \E k \in hb.timers :
       /\ \A j \in hb.timers : ~Before(j, k)
       /\ hb' = [hb EXCEPT !.timers = @ \ {k}]
       /\ ctx' = timer_update(ctx, k)
  /\ UNCHANGED <<env, reliability, battery, net, reboots, history, log_recorded, event, serialized>>
\* The iteration ends; prv_heartbeat_update follows.
tallied ==
  /\ hb.pc = "tally" /\ hb.timers = {}
  /\ Goes("collect")
  /\ truth' = [truth EXCEPT !.beat = truth.began]
  /\ UNCHANGED <<env, ctx, reliability, battery, net, reboots, power, log_recorded, event, serialized>>
\* memfault_metrics_heartbeat_collect, before deep sleep: prv_heartbeat_update alone.
heartbeat_collect ==
  /\ hb.pc = "idle" /\ build.restore /\ \A t \in Net : net[t] = <<>>
  /\ hb' = [hb EXCEPT !.pc = "collect", !.then = "sleep"]
  /\ UNCHANGED <<env, ctx, reliability, battery, net, reboots, history, log_recorded, event, serialized>>

\* Mutant: the crash is not noted as counted.
mut_reliability_collect_again ==
  LET interval == ((now % UINT32) - reliability.last_heartbeat_ms) % UINT32
      ms == reliability.operational_ms + interval
      uptime_hours == ms \div HOUR
  IN /\ hb.pc = "collect"
     /\ Goes(IF build.battery THEN "battery_cache" ELSE "collect_logs")
     /\ reliability' = [reliability EXCEPT !.last_heartbeat_ms = now % UINT32,
                                           !.operational_ms = ms - uptime_hours * HOUR]
     /\ ctx' = IF uptime_hours = 0 THEN ctx
               ELSE add(add(ctx, Heartbeat("hours"), uptime_hours), Heartbeat("crashfree_hours"),
                        uptime_hours - (IF unexpected THEN 1 ELSE 0))
     /\ UNCHANGED <<env, battery, net, reboots, history, log_recorded, event, serialized>>
\* memfault_metrics_reliability_collect: full hours are counted, the rest is kept, and the
\* first hours of a boot are one short when the reboot was unexpected.
reliability_collect ==
  LET interval == ((now % UINT32) - reliability.last_heartbeat_ms) % UINT32
      ms == reliability.operational_ms + interval
      uptime_hours == ms \div HOUR
      crash == IF ~reliability.counted /\ unexpected THEN 1 ELSE 0
  IN /\ hb.pc = "collect"
     /\ Goes(IF build.battery THEN "battery_cache" ELSE "collect_logs")
     /\ reliability' = [last_heartbeat_ms |-> now % UINT32,
                        operational_ms |-> ms - uptime_hours * HOUR,
                        counted |-> reliability.counted \/ uptime_hours > 0]
     /\ ctx' = IF uptime_hours = 0 THEN ctx
               ELSE add(add(ctx, Heartbeat("hours"), uptime_hours),
                        Heartbeat("crashfree_hours"), uptime_hours - crash)
     /\ UNCHANGED <<env, battery, net, reboots, history, log_recorded, event, serialized>>

\* memfault_metrics_battery_collect_data reads the flag, ...
battery_cache ==
  /\ hb.pc = "battery_cache"
  /\ hb' = [hb EXCEPT !.pc = "battery_sample", !.stopped = battery.stopped]
  /\ UNCHANGED <<env, ctx, reliability, battery, net, reboots, history, log_recorded, event, serialized>>
\* ... then the platform's state of charge: when that fails soc.discharging is not written, and
\* read all the same.
battery_sample ==
  /\ hb.pc = "battery_sample"
  /\ \E soc \in {Invalid, 0, 1}, discharging \in BOOLEAN :
       /\ soc # Invalid => discharging = ~power.charging
       /\ hb' = [hb EXCEPT !.pc = "battery_store", !.soc = soc, !.discharging = discharging]
  /\ power' = [power EXCEPT !.before = power.charged, !.charged = power.charging]
  /\ UNCHANGED <<env, ctx, reliability, battery, net, reboots, truth, log_recorded, event, serialized>>
\* Mutant: a state of charge that could not be read does not invalidate the next interval.
mut_battery_store_keeps ==
  LET drop == battery.last_state_of_charge - hb.soc
      session_valid == /\ hb.discharging /\ ~hb.stopped
                       /\ hb.soc >= 0 /\ battery.last_state_of_charge >= 0
  IN /\ hb.pc = "battery_store"
     /\ Goes("collect_logs")
     /\ battery' = [stopped |-> ~hb.discharging,
                    last_state_of_charge |-> IF hb.soc >= 0 THEN hb.soc ELSE battery.last_state_of_charge]
     /\ ctx' = IF session_valid /\ drop >= 0 THEN set_unsigned(ctx, Heartbeat("soc_drop"), drop)
               ELSE ctx
     /\ power' = [power EXCEPT !.was_raced = power.raced, !.raced = FALSE,
                               !.before = @ /\ ~power.was_raced /\ ~power.raced]
     /\ UNCHANGED <<env, reliability, net, reboots, truth, log_recorded, event, serialized>>
\* ... then it sets the flag from what it read, and records the drop of an interval that was
\* all discharging (the duration goes with it and is left out).
battery_store ==
  LET drop == battery.last_state_of_charge - hb.soc
      session_valid == /\ hb.discharging /\ ~hb.stopped
                       /\ hb.soc >= 0 /\ battery.last_state_of_charge >= 0
  IN /\ hb.pc = "battery_store"
     /\ Goes("collect_logs")
     /\ battery' = [stopped |-> ~hb.discharging, last_state_of_charge |-> hb.soc]
     /\ ctx' = IF session_valid /\ drop >= 0 THEN set_unsigned(ctx, Heartbeat("soc_drop"), drop)
               ELSE ctx
     /\ power' = [power EXCEPT !.was_raced = power.raced, !.raced = FALSE,
                               !.before = @ /\ ~power.was_raced /\ ~power.raced]
     /\ UNCHANGED <<env, reliability, net, reboots, truth, log_recorded, event, serialized>>

\* prv_memfault_collect_log_metrics: the lines since the last time, as an int32_t.
collect_logs ==
  LET delta == (log_recorded - ctx.last_log) % UINT32
  IN /\ hb.pc = "collect_logs"
     /\ Goes("collect_data")
     /\ ctx' = IF build.logs
               THEN [add(ctx, Heartbeat("log_lines"),
                         IF delta < UINT32 \div 2 THEN delta ELSE delta - UINT32)
                       EXCEPT !.last_log = log_recorded]
               ELSE ctx
     /\ UNCHANGED <<env, reliability, battery, net, reboots, history, log_recorded, event, serialized>>
\* memfault_metrics_heartbeat_collect_data returns; or it prints the metrics last, which updates
\* the timers.
collect_data(prints) ==
  /\ hb.pc = "collect_data"
  /\ IF prints THEN Tallies(ctx, "print") ELSE Goes(hb.then)
  /\ UNCHANGED <<env, ctx, reliability, battery, net, reboots, history, log_recorded, event, serialized>>
printed ==
  /\ hb.pc = "print" /\ hb.timers = {}
  /\ Goes(hb.then)
  /\ UNCHANGED <<env, ctx, reliability, battery, net, reboots, history, log_recorded, event, serialized>>

\* memfault_metrics_heartbeat_serialize: under the lock.  Its result is ignored: a heartbeat that
\* the event storage refuses is lost.
encode ==
  LET apart == Uncounted("connected") - Uncounted("expected")
  IN /\ hb.pc = "encode"
     /\ Goes("reset")
     /\ event' \in {event, [session |-> "heartbeat", connected |-> ctx.values[Heartbeat("connected")],
                            expected |-> ctx.values[Heartbeat("expected")],
                            apart |-> truth.apart - apart,
                            soc_drop |-> Heartbeat("soc_drop") \in ctx.is_set,
                            charged |-> power.before]}
     /\ serialized' = [n \in Summed |-> serialized[n] + ctx.values[Heartbeat(n)]]
     /\ truth' = [truth EXCEPT !.apart = apart]
     /\ UNCHANGED <<env, ctx, reliability, battery, net, reboots, power, log_recorded>>
reset ==
  /\ hb.pc = "reset"
  /\ hb' = At("idle")
  /\ ctx' = reset_metrics(ctx, "heartbeat")
  /\ event' = NoEvent
  /\ UNCHANGED <<env, reliability, battery, net, reboots, history, log_recorded, serialized>>

-------------------------------------------------------------------------------
(* Deep sleep, resets and boot *)

\* memfault_metrics_get_state refreshes the context, the port copies it into retained memory,
\* and RAM is lost.
enter_sleep ==
  /\ hb.pc = "sleep"
  /\ hb' = At("asleep")
  /\ ctx' = [ctx EXCEPT !.reliability_ctx = reliability]
  /\ reliability' = NoReliability
  /\ UNCHANGED <<env, battery, net, reboots, history, log_recorded, event, serialized>>
\* memfault_metrics_boot with a state to restore.  The reset was an expected one.
wake ==
  /\ hb.pc = "asleep"
  /\ hb' = At("idle")
  /\ reliability' = ctx.reliability_ctx
  /\ unexpected' = FALSE
  /\ UNCHANGED <<env, ctx, battery, net, active_sessions, history, log_recorded, event, serialized>>

\* Any reset: RAM is lost with the events in it; time may count through it.
Reset(crash) ==
  /\ resets < build.max_resets /\ resets' = resets + 1
  /\ \E t \in {0, now} : now' = t
  /\ ctx' = NoContext /\ reliability' = NoReliability /\ battery' = NoBattery
  /\ hb' = At("boot")
  /\ net' = [t \in Net |-> <<>>]
  /\ unexpected' = crash
  /\ power' = [NoPower EXCEPT !.charging = power.charging]
  /\ log_recorded' = 0
  /\ event' = NoEvent
  /\ serialized' = Zero(Summed)
  /\ truth' = [NoTruth EXCEPT !.owed = truth.owed \cup truth.open, !.crashed = crash]
  /\ UNCHANGED <<build, adds, logs, active_sessions>>

\* Mutant: the marks of the sessions are cleared before they are looked at.
mut_boot_clears ==
  /\ hb.pc = "boot"
  /\ hb' = [At("check") EXCEPT !.left = build.sessions]
  /\ reliability' = [reliability EXCEPT !.last_heartbeat_ms = now % UINT32]
  /\ ctx' = set_unsigned(timer_start(NoContext, IntervalMs("heartbeat")), Heartbeat("unexpected_reboots"),
                         IF unexpected THEN 1 ELSE 0)
  /\ active_sessions' = {}
  /\ truth' = [truth EXCEPT !.beat = now]
  /\ UNCHANGED <<env, unexpected, battery, net, power, log_recorded, event, serialized>>
\* memfault_metrics_boot: a full reset, then the built-in metrics.
boot ==
  /\ hb.pc = "boot"
  /\ hb' = [At("check") EXCEPT !.left = build.sessions]
  /\ reliability' = [reliability EXCEPT !.last_heartbeat_ms = now % UINT32]
  /\ ctx' = set_unsigned(timer_start(NoContext, IntervalMs("heartbeat")), Heartbeat("unexpected_reboots"),
                         IF unexpected THEN 1 ELSE 0)
  /\ truth' = [truth EXCEPT !.beat = now]
  /\ UNCHANGED <<env, battery, net, reboots, power, log_recorded, event, serialized>>
\* prv_session_check_for_unexpected_reboot for session g: it is started and ended without its
\* timer, with a crash in between.
check_session(g) ==
  LET crashed == add(reset_metrics(ctx, g), <<g, "operational_crashes">>, 1)
  IN /\ hb.pc = "check" /\ g \in hb.left
     /\ hb' = [hb EXCEPT !.left = @ \ {g}]
     /\ IF unexpected /\ g \in active_sessions
        THEN /\ ctx' = crashed
             /\ event' = SessionEvent(crashed, g)
             /\ active_sessions' = active_sessions \ {g}
             /\ truth' = [truth EXCEPT !.owed = @ \ {g}]
        ELSE UNCHANGED <<ctx, event, active_sessions, truth>>
     /\ UNCHANGED <<env, unexpected, reliability, battery, net, power, log_recorded, serialized>>
\* memfault_reboot_tracking_clear_metrics_sessions, then the timer is started.
end_boot ==
  /\ hb.pc = "check" /\ hb.left = {}
  /\ hb' = At(IF build.battery THEN "battery_boot" ELSE "idle")
  /\ active_sessions' = {}
  /\ truth' = [truth EXCEPT !.owed = IF unexpected THEN @ ELSE {}]
  /\ UNCHANGED <<env, unexpected, ctx, reliability, battery, net, power, log_recorded, event, serialized>>
\* memfault_metrics_battery_boot, with the reading that may fail.
battery_boot ==
  /\ hb.pc = "battery_boot"
  /\ hb' = At("idle")
  /\ \E soc \in {Invalid, 0, 1}, discharging \in BOOLEAN :
       /\ soc # Invalid => discharging = ~power.charging
       /\ battery' = [stopped |-> ~discharging, last_state_of_charge |-> soc]
  /\ power' = [power EXCEPT !.charged = power.charging]
  /\ UNCHANGED <<env, ctx, reliability, net, reboots, truth, log_recorded, event, serialized>>

-------------------------------------------------------------------------------
(* The rest of the device *)

\* A timer is updated before it has run for TIMER_MAX: "much much greater than a reasonable
\* heartbeat interval".
Tick ==
  /\ Free \/ hb.pc = "asleep" \/ (Awake /\ now < truth.began + build.busy)
  /\ now < build.max_time /\ now + 1 - truth.beat < TIMER_MAX
  /\ now' = now + 1
  /\ truth' = [truth EXCEPT !.uptime = @ + 1,
                 !.since = [g \in Session |-> IF g \in truth.open THEN @[g] + 1 ELSE @[g]],
                 !.ran = [k \in Timer |-> IF \/ k = IntervalMs("heartbeat") \/ k[1] \in truth.open
                                             \/ k[1] = "heartbeat" /\ k \in ctx.running
                                          THEN @[k] + 1 ELSE @[k]]]
  /\ UNCHANGED <<build, adds, logs, resets, ctx, reliability, battery, hb, net, reboots, power,
                 log_recorded, event, serialized>>

\* The charger is connected and memfault_metrics_battery_stopped_discharging called.
stopped_discharging ==
  /\ Free /\ build.battery /\ ~power.charging
  /\ battery' = [battery EXCEPT !.stopped = TRUE]
  /\ power' = [power EXCEPT !.charging = TRUE, !.charged = TRUE,
                            !.raced = @ \/ hb.pc \in {"battery_sample", "battery_store"}]
  /\ UNCHANGED <<env, ctx, reliability, hb, net, reboots, truth, log_recorded, event, serialized>>
Unplug ==
  /\ Free /\ build.battery /\ power.charging
  /\ power' = [power EXCEPT !.charging = FALSE]
  /\ UNCHANGED <<env, ctx, reliability, battery, hb, net, reboots, truth, log_recorded, event, serialized>>

Log ==
  /\ Free /\ build.logs /\ logs < build.max_logs /\ logs' = logs + 1
  /\ log_recorded' = (log_recorded + 1) % UINT32
  /\ truth' = [truth EXCEPT !.lines = @ + 1]
  /\ UNCHANGED <<build, now, adds, resets, ctx, reliability, battery, hb, net, reboots, power, event,
                 serialized>>

Heart ==
  \/ heartbeat_timer \/ tally \/ tallied \/ heartbeat_collect \/ reliability_collect
  \/ battery_cache \/ battery_sample \/ battery_store
  \/ collect_logs \/ (\E prints \in BOOLEAN : collect_data(prints)) \/ printed
  \/ encode \/ reset \/ enter_sleep \/ wake
Boot == boot \/ (\E g \in Session : check_session(g)) \/ end_boot \/ battery_boot
Application ==
  \/ \E g \in Group, amount \in build.amounts : heartbeat_add(g, amount)
  \/ \E k \in Timer : timer_read(k)
  \/ \E g \in Session : session_start(g) \/ session_end(g) \/ session_reset(g)
  \/ \E t \in Net : (\E state \in DOMAIN StateCalls : connected_state_change(t, state)) \/ timer_call(t)
Device == Tick \/ stopped_discharging \/ Unplug \/ Log \/ (\E crash \in BOOLEAN : Reset(crash))
Next == Heart \/ Boot \/ Application \/ Device

Spec == Init /\ [][Next]_vars

-------------------------------------------------------------------------------
(* Properties *)
Pending(name) == IF hb.pc = "reset" THEN 0 ELSE ctx.values[Heartbeat(name)]
Counted(name) == serialized[name] + Pending(name)
TimeInHour == reliability.operational_ms
              + (((now % UINT32) - reliability.last_heartbeat_ms) % UINT32)

\* Every addition to a metric of the heartbeat is in exactly one heartbeat given to the event
\* storage, or still to be; what is lost is what was added between the encoding of a heartbeat and
\* its reset, and the heartbeats the storage refuses.  The log lines counted by difference are in
\* exactly one heartbeat, too.
CountedOnce ==
  /\ truth.added["heartbeat"] = Counted("count") + truth.late
  /\ truth.lines = Counted("log_lines") + ((log_recorded - ctx.last_log) % UINT32)

\* The time of every timer of the heartbeat is in exactly one heartbeat given to the event storage,
\* or still to be: across stops, heartbeats while it runs, reads, deep sleep and the roll over of
\* its 31 bits, with time going on while the timers are updated one after the other.
TimeReportedOnce ==
  ~Booting => \A name \in HeartbeatTimer : truth.ran[Heartbeat(name)] = Counted(name) + Uncounted(name)

\* Every session that resets interrupted, the last of them unexpected, has its event by the end
\* of boot.  The event of a session tells of a crash exactly when it is owed one, and then holds
\* nothing else; or what was added since the last start, with a time between that since the last
\* start and that since the first.
SessionsReported ==
  /\ Awake => truth.owed = {}
  /\ event.session \in Session =>
       /\ event.crashes = IF event.owed THEN 1 ELSE 0
       /\ IF event.owed THEN event.interval = 0 /\ event.count = 0
          ELSE /\ event.count = event.added
               /\ event.since <= event.interval /\ event.interval <= event.ran

\* The hours reported, and the part of an hour kept, are the time since boot, asleep or awake;
\* and the crash-free hours are one short of them when the boot came from a crash, as soon as
\* there is an hour.
HoursAccountForTime ==
  Awake =>
    /\ truth.uptime = HOUR * Counted("hours") + TimeInHour
    /\ Counted("hours") - Counted("crashfree_hours")
         = IF truth.crashed /\ Counted("hours") > 0 THEN 1 ELSE 0

\* A heartbeat never reports more time connected than expected to be connected, wherever it comes
\* between the calls of a state change, but for the time that passes between the updates of the two
\* timers: what the one before it left in the timer of the connection and counted as expected, less
\* what this one leaves.
ConnectedWithinExpected == event.session = "heartbeat" => event.connected <= event.expected + event.apart

\* A drop of the state of charge is reported only for an interval that was all discharging,
\* also after readings that failed; except when a stop of discharging was reported while the
\* collection at either end of the interval ran.
DropWhileDischarging ==
  event.session = "heartbeat" => ~(event.soc_drop /\ event.charged)

===============================================================================

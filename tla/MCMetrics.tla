------------------------------- MODULE MCMetrics -------------------------------
EXTENDS Metrics
CONSTANTS n1, n2

Plain == [sessions |-> {}, connectivity |-> {}, battery |-> FALSE, logs |-> FALSE, restore |-> FALSE,
          preemptive |-> FALSE, busy |-> 0, amounts |-> {1}, max_time |-> 9, max_adds |-> 0, max_logs |-> 0,
          max_resets |-> 0]
\* Additions and log lines while the heartbeat is preempted; sums that wrap and are clipped.
Counting == [Plain EXCEPT !.logs = TRUE, !.preemptive = TRUE, !.amounts = {-3, 5, 12}, !.max_time = 1,
                          !.max_adds = 3, !.max_logs = 3]
\* Two sessions interrupted by resets.
Sessions == [Plain EXCEPT !.sessions = Session, !.max_time = 1, !.max_adds = 1, !.max_resets = 2]
\* One session across heartbeats and the roll over.
LongSession == [Plain EXCEPT !.sessions = {"wifi"}, !.busy = 1, !.max_time = 4, !.max_adds = 1]
\* One task reports the state of its connection.
Connected == [Plain EXCEPT !.connectivity = {n1}, !.busy = 1, !.max_time = 4]
\* Hours over a reset and over deep sleep.
Hours == [Plain EXCEPT !.max_time = 8, !.max_resets = 1, !.preemptive = TRUE]
Asleep == [Plain EXCEPT !.restore = TRUE, !.max_time = 8, !.amounts = {1}, !.max_adds = 2]
\* The charger comes and goes while the heartbeat is preempted.
Charging == [Plain EXCEPT !.battery = TRUE, !.preemptive = TRUE, !.max_time = 0, !.max_resets = 1]
Sound == {Counting, Sessions, LongSession, Connected, Hours, Asleep, Charging}
===============================================================================

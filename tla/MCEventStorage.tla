---------------------------- MODULE MCEventStorage ----------------------------
EXTENDS EventStorage
CONSTANTS w1, w2, d, p

\* One task that records, RAM only, preempted anywhere by the drain.
RamOnly == [writers |-> {w1}, locked |-> {}, preemptive |-> TRUE, nv |-> FALSE, midway |-> FALSE,
            sync |-> FALSE, batching |-> TRUE, batch_max |-> 2, restore |-> FALSE, capacity |-> 6, nv_capacity |-> 1,
            sizes |-> {1, 3}, max_events |-> 3, max_aborts |-> 1, max_reboots |-> 0,
            max_changes |-> 0]
\* Two tasks that record with the lock held.
LockedPair == [RamOnly EXCEPT !.writers = {w1, w2}, !.locked = {w1, w2}, !.batch_max = 3,
                              !.sizes = {1, 2}, !.max_aborts = 0]
\* NV storage, persisted on a task of its own, events read one at a time.
NvAsync == [RamOnly EXCEPT !.locked = {w1}, !.nv = TRUE, !.batching = FALSE, !.capacity = 5,
                           !.sizes = {1, 2}]
\* NV storage, persisted in the callback; tasks run to completion, and reboot.
NvCooperative == [RamOnly EXCEPT !.writers = {w1, w2}, !.preemptive = FALSE, !.nv = TRUE,
                                 !.sync = TRUE, !.batch_max = 3, !.nv_capacity = 2,
                                 !.sizes = {1, 2}, !.max_reboots = 1]
\* A backup between the calls of tasks that run to completion, and deep sleep or a reboot after it.
Asleep == [RamOnly EXCEPT !.preemptive = FALSE, !.restore = TRUE, !.max_aborts = 0, !.max_reboots = 1]
\* NV storage that comes up late, or fails, between messages.
NvUnsteady == [NvCooperative EXCEPT !.writers = {w1}, !.max_reboots = 0, !.max_changes = 2]
Sound == {RamOnly, LockedPair, NvAsync, NvCooperative, Asleep, NvUnsteady}
ASSUME SoundIsCareful == \A b \in Sound : Careful(b) /\ Unshared(b)
===============================================================================

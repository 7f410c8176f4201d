----------------------------- MODULE EventStorage -----------------------------
(* components/core/src/memfault_event_storage.c with the two callers that drive *)
(* it: memfault_serializer_helper_encode_to_storage (each task that records a   *)
(* trace event, heartbeat or reboot) and the drain (the packetizer's use of     *)
(* g_memfault_event_data_source).  Events live in a circular buffer of RAM and, *)
(* when the platform implements non-volatile storage (NV), are moved there by   *)
(* memfault_event_storage_persist.                                              *)
(*                                                                              *)
(* One action is one stretch of a task between two accesses to shared state: a  *)
(* section under memfault_lock is one action, every unlocked read or write of   *)
(* s_event_storage is one of its own.  The buffer is the byte queue of ByteFifo *)
(* (CircularBufferProofs shows the ring implements it); its cells are a record  *)
(* header or one unit of payload, and all sizes count cells.                    *)
EXTENDS Naturals, Sequences, FiniteSets, SequencesExt, FiniteSetsExt

CONSTANTS
  Writer,        \* tasks that record events
  Persister,     \* tasks that run a persist requested asynchronously
  Drain,         \* the task that sends data
  None,          \* no task
  Builds         \* the configurations to check: build settings, platform and bounds
\* writers     tasks that do record events
\* locked      those of them that hold memfault_lock all along (metrics session end)
\* preemptive  FALSE: tasks run to completion, one API call at a time
\* nv          MEMFAULT_EVENT_STORAGE_NV_SUPPORT_ENABLED
\* midway      enabled() may change while the drain reads a message
\* sync        the persist callback persists at once, or leaves it to Persister
\* batching, batch_max  MEMFAULT_EVENT_STORAGE_READ_BATCHING_ENABLED and _MAX_BYTES
\* restore     MEMFAULT_EVENT_STORAGE_RESTORE_STATE, with the port's deep sleep
\* capacity    cells of the RAM buffer
\* nv_capacity messages NV storage holds
\* sizes       bound: payload cells an event may have
\* max_events, max_aborts, max_reboots, max_changes  bounds: calls of encode_to_storage, of
\*             memfault_packetizer_abort in mid-message, reboots or deep sleeps, changes of enabled()

Task == Writer \cup Persister \cup {Drain}

ASSUME TaskAssumption == /\ Drain \notin Writer \cup Persister
                         /\ Writer \cap Persister = {}
                         /\ None \notin Task
Build == [writers : SUBSET Writer, locked : SUBSET Writer, preemptive : BOOLEAN, nv : BOOLEAN, midway : BOOLEAN,
          sync : BOOLEAN, batching : BOOLEAN, batch_max : Nat, restore : BOOLEAN, capacity : Nat,
          nv_capacity : Nat, sizes : SUBSET (Nat \ {0}), max_events : Nat, max_aborts : Nat, max_reboots : Nat,
          max_changes : Nat]
ASSUME BuildAssumption == Builds \subseteq Build
\* Tasks that record do so one at a time: they hold the lock, run to completion, or there is one.
\* Deep sleep is prepared between the calls of tasks that run to completion.
OneAtATime(b) == ~b.preemptive \/ b.writers \subseteq b.locked \/ \A v, w \in b.writers : v = w
Careful(b) == OneAtATime(b) /\ (b.restore => ~b.preemptive)
\* Nothing changes between a look at a message and the message: where tasks are preempted, NV storage
\* does not come or fail, and is filled one event at a time by a task that does nothing else.
Unshared(b) == ~b.midway /\ (b.preemptive => b.max_changes = 0 /\ (b.nv => ~b.sync /\ ~b.batching))
EventIds == 1..Max({b.max_events : b \in Builds} \cup {0})

VARIABLES
  build,       \* the configuration: it never changes
  nv_enabled,  \* what the platform's enabled() says, s_nv_event_storage_enabled, and the changes so far
  buf,         \* s_event_storage.buffer: the bytes queued
  write_state, \* s_event_storage.write_state
  read_state,  \* s_event_storage.read_state
  nv,          \* messages in non-volatile storage, oldest first
  backup,      \* the copy of buffer and context the port keeps through deep sleep, or NoBackup
  requested,   \* a persist was asked of Persister and not yet started
  holder,      \* task that holds memfault_lock across actions
  pc, ret,     \* where each task is, and what it resumes after prv_has_data_ram
  enc,         \* each writer's call: event, size, space, cells encoded
  size,        \* total_size each task got from has_more_msgs
  rx,          \* the cells the drain has read of the current message
  delivered,   \* messages sent and marked read, oldest first
  events, aborts, reboots \* calls so far

platform == <<build, backup, nv_enabled>>
ramvars == <<buf, write_state, read_state>>
drainvars == <<rx, delivered>>
counters == <<events, aborts, reboots>>
vars == <<build, backup, nv_enabled, buf, write_state, read_state, nv, requested, holder, pc, ret, enc, size, rx,
          delivered, events, aborts, reboots>>

-------------------------------------------------------------------------------
(* Cells *)
IN_PROGRESS == build.capacity + 1   \* MEMFAULT_EVENT_STORAGE_WRITE_IN_PROGRESS
Cell(e, i, n) == [ev |-> e, idx |-> i, total_size |-> n]
Header(e, n) == Cell(e, 0, n)
Payload(e, i, n) == Cell(e, i, n)   \* i-th of n
IsPayload(c) == c.idx > 0
ArrayHeader(num) == Cell(0, 0, num) \* memfault_batched_events_build_header
Scrub == Cell(0, 0, 0)              \* 0xEF filler of a failed read

NoWrite == [write_in_progress |-> FALSE, bytes_written |-> 0]
NoRead == [active_event_read_size |-> 0, num_events |-> 0, header_length |-> 0]
NoBackup == [buf |-> <<>>, write_state |-> NoWrite, read_state |-> NoRead, saved |-> FALSE]
NoEncode == [ev |-> 0, n |-> 0, space |-> 0, done |-> 0, rollback |-> FALSE]

(* memfault_circular_buffer operations on buf (ByteFifo) *)
ConsumeFront(s, n) == IF n <= Len(s) THEN SubSeq(s, n + 1, Len(s)) ELSE s
ConsumeEnd(s, n) == IF n <= Len(s) THEN SubSeq(s, 1, Len(s) - n) ELSE s
WriteAtOffset(s, cell, n) == IF n \in 1..Len(s) THEN ReplaceAt(s, Len(s) - n + 1, cell) ELSE s

(* prv_get_total_event_size: the size of the message for a read state *)
TotalEventSize(rs) == IF rs.num_events = 0 THEN 0
                      ELSE (rs.active_event_read_size + rs.header_length) - rs.num_events

(* prv_compute_read_state: the walk over the stored records.  The (k+1)-th record *)
(* starts Offset[k] cells into the data.  The walk takes records up to the end of  *)
(* the data or one still being written; without batching it takes one, with it it  *)
(* stops before the message would exceed the limit (never before the first).       *)
Complete(off) == off < Len(buf) /\ buf[off + 1].total_size # IN_PROGRESS
Offset[k \in 0..Len(buf)] ==
  IF k = 0 THEN 0
  ELSE Offset[k - 1] + (IF Complete(Offset[k - 1]) THEN buf[Offset[k - 1] + 1].total_size ELSE 0)

Taken(k) == /\ Complete(Offset[k - 1])
            /\ k > 1 => build.batching /\ Offset[k] - k <= build.batch_max

ComputedReadState ==
  LET num == Max({m \in 0..Len(buf) : \A k \in 1..m : Taken(k)})
  IN [active_event_read_size |-> Offset[num], num_events |-> num,
      header_length |-> IF num > 1 THEN 1 ELSE 0]

\* Mutant: the record headers are sent along.
MutMessageWithHeaders(rs) ==
  (IF rs.header_length = 1 THEN <<ArrayHeader(rs.num_events)>> ELSE <<>>)
    \o SubSeq(buf, 1, rs.active_event_read_size)

(* prv_event_storage_read_ram: the message a read state stands for is the array   *)
(* header followed by the payloads of its records, their own headers left out.    *)
Message(rs) ==
  (IF rs.header_length = 1 THEN <<ArrayHeader(rs.num_events)>> ELSE <<>>)
    \o FlattenSeq([k \in 1..rs.num_events |-> SubSeq(buf, Offset[k - 1] + 2, Offset[k])])

-------------------------------------------------------------------------------
(* Scheduling and locking *)
AtRest(t) == pc[t] \in {"idle", "read"}
CanRun(t) == build.preemptive \/ \A u \in Task \ {t} : AtRest(u)
LockFree(t) == holder \in {None, t}
At(t, label) == pc[t] = label /\ CanRun(t)
Goto(t, label) == pc' = [pc EXCEPT ![t] = label]

Init ==
  /\ build \in Builds
  /\ \E now \in IF build.max_changes = 0 THEN {build.nv} ELSE BOOLEAN :
       nv_enabled = [now |-> now, last |-> FALSE, changes |-> 0]
  /\ buf = <<>> /\ nv = <<>> /\ rx = <<>> /\ delivered = <<>>
  /\ write_state = NoWrite
  /\ read_state = NoRead
  /\ requested = FALSE
  /\ backup = NoBackup
  /\ holder = None
  /\ pc = [t \in Task |-> "idle"]
  /\ ret = [t \in Task |-> "none"]
  /\ enc = [w \in Writer |-> NoEncode]
  /\ size = [t \in Task |-> 0]
  /\ events = 0 /\ aborts = 0 /\ reboots = 0

-------------------------------------------------------------------------------
\* Mutant: a caller that should hold the lock does not take it.
mut_encode_no_lock(w) ==
  /\ w \in build.writers /\ At(w, "idle")
  /\ events < build.max_events
  /\ events' = events + 1
  /\ \E n \in build.sizes : enc' = [enc EXCEPT ![w] = [NoEncode EXCEPT !.ev = events', !.n = n]]
  /\ Goto(w, "begin")
  /\ UNCHANGED <<platform, ramvars, nv, requested, holder, ret, size, drainvars, aborts, reboots>>

(* memfault_serializer_helper_encode_to_storage *)
encode_to_storage(w) ==
  /\ w \in build.writers /\ At(w, "idle")
  /\ events < build.max_events
  /\ w \in build.locked => LockFree(w)
  /\ holder' = IF w \in build.locked THEN w ELSE holder
  /\ events' = events + 1
  /\ \E n \in build.sizes : enc' = [enc EXCEPT ![w] = [NoEncode EXCEPT !.ev = events', !.n = n]]
  /\ Goto(w, "begin")
  /\ UNCHANGED <<platform, ramvars, nv, requested, ret, size, drainvars, aborts, reboots>>

\* begin_write looks at write_in_progress without the lock.
begin_write(w) ==
  /\ At(w, "begin")
  /\ Goto(w, IF write_state.write_in_progress THEN "encode" ELSE "header")
  /\ UNCHANGED <<platform, ramvars, nv, requested, holder, ret, enc, size, drainvars, counters>>

write_header(w) ==
  /\ At(w, "header") /\ LockFree(w)
  /\ IF Len(buf) < build.capacity
       THEN buf' = Append(buf, Header(enc[w].ev, IN_PROGRESS)) /\ Goto(w, "set_state")
       ELSE Goto(w, "encode") /\ UNCHANGED buf
  /\ UNCHANGED <<platform, write_state, read_state, nv, requested, holder, ret, enc, size, drainvars, counters>>

\* Mutant: the header is not counted in bytes_written.
mut_set_write_state_zero(w) ==
  /\ At(w, "set_state")
  /\ write_state' = [write_in_progress |-> TRUE, bytes_written |-> 0]
  /\ Goto(w, "space")
  /\ UNCHANGED <<platform, buf, read_state, nv, requested, holder, ret, enc, size, drainvars, counters>>

set_write_state(w) ==
  /\ At(w, "set_state")
  /\ write_state' = [write_in_progress |-> TRUE, bytes_written |-> 1]
  /\ Goto(w, "space")
  /\ UNCHANGED <<platform, buf, read_state, nv, requested, holder, ret, enc, size, drainvars, counters>>

get_write_size(w) ==
  /\ At(w, "space")
  /\ enc' = [enc EXCEPT ![w].space = build.capacity - Len(buf)]
  /\ Goto(w, "encode")
  /\ UNCHANGED <<platform, ramvars, nv, requested, holder, ret, size, drainvars, counters>>

\* The encoder hands over one cell at a time while it fits the space it was given;
\* the result of append_data is not looked at.
append_data(w) ==
  /\ At(w, "encode") /\ LockFree(w)
  /\ enc[w].done < Min({enc[w].n, enc[w].space})
  /\ enc' = [enc EXCEPT ![w].done = @ + 1]
  /\ IF Len(buf) < build.capacity
       THEN buf' = Append(buf, Payload(enc[w].ev, enc'[w].done, enc[w].n)) /\ Goto(w, "count")
       ELSE UNCHANGED <<buf, pc>>
  /\ UNCHANGED <<platform, write_state, read_state, nv, requested, holder, ret, size, drainvars, counters>>

count_bytes(w) ==
  /\ At(w, "count")
  /\ write_state' = [write_state EXCEPT !.bytes_written = @ + 1]
  /\ Goto(w, "encode")
  /\ UNCHANGED <<platform, buf, read_state, nv, requested, holder, ret, enc, size, drainvars, counters>>

Return(w) == /\ Goto(w, "idle")
             /\ holder' = IF holder = w THEN None ELSE holder

\* The encoding ended, complete or out of space: finish_write is called either way.
finish_write(w) ==
  /\ At(w, "encode")
  /\ enc[w].done = Min({enc[w].n, enc[w].space})
  /\ enc' = [enc EXCEPT ![w].rollback = enc[w].done < enc[w].n]
  /\ IF write_state.write_in_progress
       THEN Goto(w, "commit") /\ UNCHANGED holder
       ELSE Return(w)
  /\ UNCHANGED <<platform, ramvars, nv, requested, ret, size, drainvars, counters>>

commit_or_rollback(w) ==
  /\ At(w, "commit") /\ LockFree(w)
  /\ LET n == write_state.bytes_written IN
     buf' = IF enc[w].rollback THEN ConsumeEnd(buf, n)
                               ELSE WriteAtOffset(buf, Header(enc[w].ev, n), n)
  /\ Goto(w, "reset_state")
  /\ UNCHANGED <<platform, write_state, read_state, nv, requested, holder, ret, enc, size, drainvars, counters>>

reset_write_state(w) ==
  /\ At(w, "reset_state")
  /\ write_state' = NoWrite
  /\ IF build.nv /\ ~enc[w].rollback THEN Goto(w, "callback") /\ UNCHANGED holder ELSE Return(w)
  /\ UNCHANGED <<platform, buf, read_state, nv, requested, ret, enc, size, drainvars, counters>>

-------------------------------------------------------------------------------
\* prv_nv_event_storage_enabled: storage that was enabled and is not any more resets the
\* read state.
nv_event_storage_enabled ==
  /\ nv_enabled' = [nv_enabled EXCEPT !.last = nv_enabled.now]
  /\ read_state' = IF nv_enabled.last /\ ~nv_enabled.now THEN NoRead ELSE read_state

(* memfault_event_storage_request_persist_callback: the platform persists at once *)
(* or leaves it to another task.                                                  *)
Finish(t) == IF t \in Writer THEN Return(t) ELSE Goto(t, "idle") /\ UNCHANGED holder

request_persist_callback(t) ==
  /\ At(t, "callback") /\ LockFree(t)
  /\ \/ /\ build.sync /\ nv_event_storage_enabled
        /\ IF nv_enabled.now
             THEN Goto(t, "has_cached") /\ ret' = [ret EXCEPT ![t] = "persist"] /\ UNCHANGED holder
             ELSE Finish(t) /\ UNCHANGED ret
        /\ UNCHANGED requested
     \/ /\ ~build.sync
        /\ requested' = TRUE
        /\ Finish(t)
        /\ UNCHANGED <<nv_enabled, read_state, ret>>
  /\ UNCHANGED <<build, backup, buf, write_state, nv, enc, size, drainvars, counters>>

\* memfault_event_storage_persist on its own task
persist(p) ==
  /\ At(p, "idle")
  /\ requested
  /\ requested' = FALSE
  /\ nv_event_storage_enabled
  /\ IF nv_enabled.now
       THEN Goto(p, "has_cached") /\ ret' = [ret EXCEPT ![p] = "persist"]
       ELSE UNCHANGED <<pc, ret>>
  /\ UNCHANGED <<build, backup, buf, write_state, nv, holder, enc, size, drainvars, counters>>

-------------------------------------------------------------------------------
(* prv_has_data_ram: two critical sections, and a look at the result after them *)
AfterHasData(t, total) ==
  /\ size' = [size EXCEPT ![t] = total]
  /\ IF total = 0
       THEN Finish(t)
       ELSE /\ Goto(t, CASE ret[t] = "source"  -> "read"
                         [] ret[t] = "mark_cb" -> "callback"
                         [] ret[t] = "persist" -> "nv_write")
            /\ UNCHANGED holder

has_data_cached(t) ==
  /\ At(t, "has_cached") /\ LockFree(t)
  /\ IF TotalEventSize(read_state) # 0
       THEN AfterHasData(t, TotalEventSize(read_state))
       ELSE Goto(t, "has_compute") /\ UNCHANGED <<size, holder>>
  /\ UNCHANGED <<platform, ramvars, nv, requested, ret, enc, drainvars, counters>>

has_data_compute(t) ==
  /\ At(t, "has_compute") /\ LockFree(t)
  /\ read_state' = ComputedReadState
  /\ Goto(t, "has_total")
  /\ UNCHANGED <<platform, buf, write_state, nv, requested, holder, ret, enc, size, drainvars, counters>>

has_data_total(t) ==
  /\ At(t, "has_total")
  /\ AfterHasData(t, TotalEventSize(read_state))
  /\ UNCHANGED <<platform, ramvars, nv, requested, ret, enc, drainvars, counters>>

\* prv_event_storage_mark_event_read_ram: an unlocked check, then the section.
\* A persist goes on with the next message; the drain is done with its own.
AfterMark(t) ==
  IF ret[t] = "persist" THEN Goto(t, "has_cached") /\ UNCHANGED drainvars
                        ELSE /\ Goto(t, "idle")
                             /\ delivered' = Append(delivered, rx)
                             /\ rx' = <<>>

mark_check(t) ==
  /\ At(t, "mark")
  /\ IF read_state.active_event_read_size # 0
       THEN Goto(t, "mark_consume") /\ UNCHANGED drainvars
       ELSE AfterMark(t)
  /\ UNCHANGED <<platform, ramvars, nv, requested, holder, ret, enc, size, counters>>

\* Mutant: what is consumed is computed afresh, not what was read.
mut_mark_consume_recomputed(t) ==
  /\ At(t, "mark_consume") /\ LockFree(t)
  /\ buf' = ConsumeFront(buf, ComputedReadState.active_event_read_size)
  /\ read_state' = NoRead
  /\ AfterMark(t)
  /\ UNCHANGED <<platform, write_state, nv, requested, holder, ret, enc, size, counters>>

mark_consume(t) ==
  /\ At(t, "mark_consume") /\ LockFree(t)
  /\ buf' = ConsumeFront(buf, read_state.active_event_read_size)
  /\ read_state' = NoRead
  /\ AfterMark(t)
  /\ UNCHANGED <<platform, write_state, nv, requested, holder, ret, enc, size, counters>>

\* The platform's write() reads the message back and stores it whole or not at all.
nv_write(t) ==
  /\ At(t, "nv_write")
  /\ IF nv_enabled.now /\ Len(nv) < build.nv_capacity /\ size[t] <= Len(Message(read_state))
       THEN /\ nv' = Append(nv, SubSeq(Message(read_state), 1, size[t]))
            /\ Goto(t, "mark")
            /\ UNCHANGED holder
       ELSE Finish(t) /\ UNCHANGED nv
  /\ UNCHANGED <<platform, ramvars, requested, ret, enc, size, drainvars, counters>>

-------------------------------------------------------------------------------
(* The drain: has_more_msgs, reads at growing offsets, mark_msg_read.  Each call  *)
(* looks up anew where the message is (prv_get_active_event_storage_source).      *)
has_more_msgs ==
  /\ At(Drain, "idle")
  /\ nv_event_storage_enabled
  /\ IF ~nv_enabled.now
       THEN Goto(Drain, "has_cached") /\ ret' = [ret EXCEPT ![Drain] = "source"] /\ UNCHANGED size
       ELSE IF nv # <<>>
       THEN /\ Goto(Drain, "read") /\ ret' = [ret EXCEPT ![Drain] = "source"]
            /\ size' = [size EXCEPT ![Drain] = Len(nv[1])]
       ELSE ~nv_enabled.last /\ UNCHANGED <<size, pc, ret>>
  /\ UNCHANGED <<build, backup, buf, write_state, nv, requested, holder, enc, drainvars, counters>>

\* A read that fails leaves filler behind and the message goes on.
read_msg(n) ==
  LET msg == IF ~nv_enabled.now THEN Message(read_state') ELSE IF nv = <<>> THEN <<>> ELSE nv[1]
      offset == Len(rx)
  IN /\ At(Drain, "read")
     /\ nv_event_storage_enabled
     /\ offset + n <= size[Drain]
     /\ rx' = rx \o (IF offset + n <= Len(msg) THEN SubSeq(msg, offset + 1, offset + n)
                                               ELSE [i \in 1..n |-> Scrub])
     /\ Goto(Drain, IF Len(rx') < size[Drain] THEN "read" ELSE "mark_read")
     /\ UNCHANGED <<build, backup, buf, write_state, nv, requested, holder, ret, enc, size, delivered, counters>>

\* prv_event_storage_mark_event_read
mark_msg_read ==
  /\ At(Drain, "mark_read")
  /\ nv_event_storage_enabled
  /\ Goto(Drain, IF nv_enabled.now THEN "consume" ELSE "mark")
  /\ UNCHANGED <<build, backup, buf, write_state, nv, requested, holder, ret, enc, size, drainvars, counters>>

\* memfault_packetizer_abort: what was sent of the message will be sent again.
abort ==
  /\ At(Drain, "read")
  /\ aborts < build.max_aborts
  /\ aborts' = aborts + 1
  /\ rx' = <<>>
  /\ Goto(Drain, "idle")
  /\ UNCHANGED <<platform, ramvars, nv, requested, holder, ret, enc, size, delivered, events, reboots>>

\* Mutant: consuming from NV does not ask to persist what waits in RAM.
mut_nv_mark_read_no_callback ==
  /\ At(Drain, "consume")
  /\ nv' = ConsumeFront(nv, 1)
  /\ delivered' = Append(delivered, rx)
  /\ rx' = <<>>
  /\ Goto(Drain, "idle")
  /\ UNCHANGED <<platform, ramvars, requested, holder, ret, enc, size, counters>>

\* prv_nv_event_storage_mark_read_cb
nv_mark_read ==
  /\ At(Drain, "consume")
  /\ nv' = ConsumeFront(nv, 1)
  /\ delivered' = Append(delivered, rx)
  /\ rx' = <<>>
  /\ Goto(Drain, "has_cached")
  /\ ret' = [ret EXCEPT ![Drain] = "mark_cb"]
  /\ UNCHANGED <<platform, ramvars, requested, holder, enc, size, counters>>

-------------------------------------------------------------------------------
\* prv_backup_event_storage: a task that goes to deep sleep has the buffer and the context copied
\* under the lock.  What happens until RAM is lost (metrics, logs, a delay) is not in the copy.
backup_event_storage ==
  /\ build.restore /\ holder = None
  /\ build.preemptive \/ \A t \in Task : AtRest(t)
  /\ backup' = [buf |-> buf, write_state |-> write_state, read_state |-> read_state, saved |-> TRUE]
  /\ UNCHANGED <<build, nv_enabled, ramvars, nv, requested, holder, pc, ret, enc, size, drainvars, counters>>

\* RAM is lost, and tasks start again.
Restarted ==
  /\ reboots < build.max_reboots
  /\ reboots' = reboots + 1
  /\ rx' = <<>>
  /\ requested' = FALSE
  /\ holder' = None
  /\ pc' = [t \in Task |-> "idle"]
  /\ ret' = [t \in Task |-> "none"]
  /\ enc' = [w \in Writer |-> NoEncode]
  /\ size' = [t \in Task |-> 0]
  /\ nv_enabled' = [nv_enabled EXCEPT !.last = FALSE]
  /\ backup' = NoBackup
  /\ UNCHANGED <<build, nv, delivered, events, aborts>>

\* A reboot: RAM is boot-initialised (memfault_events_storage_boot), NV is not.  A backup is for the
\* wake from deep sleep only, and the next sleep makes its own.
events_storage_boot ==
  /\ buf' = <<>>
  /\ write_state' = NoWrite
  /\ read_state' = NoRead
  /\ Restarted

\* Deep sleep, at any time after the backup: memfault_events_storage_boot restores it, once.
deep_sleep ==
  /\ backup.saved
  /\ buf' = backup.buf
  /\ write_state' = backup.write_state
  /\ read_state' = backup.read_state
  /\ Restarted

\* NV storage fails, with what it has, or is there at last: then the platform asks to persist
\* what RAM holds.
enabled_changes ==
  /\ build.nv /\ nv_enabled.changes < build.max_changes
  /\ build.preemptive \/ \A t \in Task : AtRest(t)
  /\ build.midway \/ pc[Drain] = "idle"
  /\ nv_enabled' = [nv_enabled EXCEPT !.now = ~@, !.changes = @ + 1]
  /\ nv' = <<>>
  /\ requested' = (requested \/ ~nv_enabled.now)
  /\ UNCHANGED <<build, backup, ramvars, holder, pc, ret, enc, size, drainvars, counters>>

EncodeStep(w) == \/ begin_write(w) \/ write_header(w) \/ set_write_state(w) \/ get_write_size(w)
                 \/ append_data(w) \/ count_bytes(w) \/ finish_write(w)
                 \/ commit_or_rollback(w) \/ reset_write_state(w)
PersistStep(t) == \/ request_persist_callback(t)
                  \/ has_data_cached(t) \/ has_data_compute(t) \/ has_data_total(t)
                  \/ nv_write(t) \/ mark_check(t) \/ mark_consume(t)
DrainStep == \/ has_more_msgs \/ mark_msg_read \/ nv_mark_read
             \/ \E n \in 1..(build.capacity + 1) : read_msg(n)

\* Nothing left to record, persist or send: the system waits.
Quiescent == /\ \A t \in Task : pc[t] = "idle"
             /\ events = build.max_events /\ ~requested /\ nv = <<>>
             /\ UNCHANGED vars

Next == \/ \E w \in Writer : encode_to_storage(w) \/ EncodeStep(w)
        \/ \E p \in Persister : persist(p)
        \/ \E t \in Task : PersistStep(t)
        \/ DrainStep
        \/ abort
        \/ backup_event_storage \/ deep_sleep \/ events_storage_boot \/ enabled_changes
        \/ Quiescent

Spec == Init /\ [][Next]_vars

\* Every task that can go on does: a preemptive scheduler starves none.
Fairness == /\ \A w \in Writer : WF_vars(EncodeStep(w))
            /\ \A p \in Persister : WF_vars(persist(p))
            /\ \A t \in Task : WF_vars(PersistStep(t))
            /\ WF_vars(DrainStep)
FairSpec == Spec /\ Fairness

-------------------------------------------------------------------------------
TypeOK ==
  /\ nv_enabled \in [now : BOOLEAN, last : BOOLEAN, changes : 0..build.max_changes]
  /\ Len(buf) <= build.capacity /\ Len(nv) <= build.nv_capacity
  /\ write_state.write_in_progress \in BOOLEAN /\ write_state.bytes_written \in 0..build.capacity
  /\ read_state.active_event_read_size \in 0..Len(buf)
  /\ read_state.num_events \in 0..build.max_events
  /\ requested \in BOOLEAN
  /\ holder \in build.locked \cup {None}
  /\ \A t \in Task : size[t] \in 0..(build.capacity + 1)

Committed(i) == ~IsPayload(buf[i]) /\ buf[i].total_size # IN_PROGRESS

\* Cells i of s are payload in order: each follows its predecessor, and the last
\* cell before something else is the last of its event.
PayloadInOrder(s) ==
  \A i \in DOMAIN s : IsPayload(s[i]) =>
    /\ s[i].idx > 1 => i > 1 /\ s[i - 1] = [s[i] EXCEPT !.idx = @ - 1]
    /\ s[i].idx < s[i].total_size =>
         i = Len(s) \/ s[i + 1] = [s[i] EXCEPT !.idx = @ + 1]

\* The buffer is a run of records, each header followed by all of its own payload,
\* with at most one record still being written, at the end and by a task that is in the call: what
\* prv_compute_read_state and prv_event_storage_read_ram rely on when they walk it
\* ("not possible to get here unless there is corruption").
Framed ==
  /\ PayloadInOrder(buf)
  /\ \A i \in DOMAIN buf :
       /\ IsPayload(buf[i]) /\ buf[i].idx = 1 =>
            i > 1 /\ buf[i - 1].ev = buf[i].ev /\ ~IsPayload(buf[i - 1])
       /\ Committed(i) =>
            LET last == i + buf[i].total_size - 1
            IN last \in i..Len(buf) /\ buf[last] = Payload(buf[i].ev, last - i, last - i)
       /\ buf[i].total_size = IN_PROGRESS =>
            /\ \A j \in (i + 1)..Len(buf) : buf[j].ev = buf[i].ev
            /\ \E w \in Writer : ~AtRest(w) /\ enc[w].ev = buf[i].ev

\* The events of the cells at the positions `at`, among the first n of s; the events that begin in s.
EventsUpTo(s, at, n) ==
  LET upTo[i \in 0..n] == IF i = 0 THEN <<>>
                          ELSE IF i \in at THEN Append(upTo[i - 1], s[i].ev) ELSE upTo[i - 1]
  IN upTo[n]
EventsOf(s) == EventsUpTo(s, {i \in DOMAIN s : s[i].idx = 1}, Len(s))

\* What is sent or persisted is a message the server can parse: whole events and
\* nothing else, and, when there is more than one, an array header with their
\* number (memfault_batched_events_build_header).
WellFormed(m) ==
  LET num == Cardinality({i \in DOMAIN m : m[i].idx = 1})
      body == IF num > 1 THEN Tail(m) ELSE m
  IN /\ num > 0
     /\ num > 1 => m[1] = ArrayHeader(num)
     /\ PayloadInOrder(body)
     /\ \A i \in DOMAIN body : IsPayload(body[i])
     /\ Last(body).idx = Last(body).total_size
MessagesWellFormed ==
  \A m \in ToSet(delivered) \cup ToSet(nv) : WellFormed(m)

\* Records of RAM not yet sent or persisted: a persist that has stored its message
\* and not marked it read yet leaves a copy at the front.
Copied == IF \E t \in Task : ret[t] = "persist" /\ pc[t] \in {"mark", "mark_consume"}
            THEN read_state.active_event_read_size ELSE 0
CommittedFrom(n) == {i \in DOMAIN buf : i > n /\ Committed(i)}
RamEvents == EventsUpTo(buf, CommittedFrom(Copied), Len(buf))
SavedEvents == EventsUpTo(backup.buf, {i \in DOMAIN backup.buf : /\ ~IsPayload(backup.buf[i])
                                                               /\ backup.buf[i].total_size # IN_PROGRESS},
                          Len(backup.buf))

\* Refinement: committed events are sent once, in order, and deep sleep brings back what its backup holds (EventQueue).
Queue == INSTANCE EventQueue WITH
           Event <- EventIds,
           queue <- EventsOf(FlattenSeq(nv)) \o RamEvents,
           saved <- SavedEvents,
           sent <- EventsOf(FlattenSeq(delivered)),
           losses <- reboots + nv_enabled.changes
SentOnceInOrder == Queue!Spec

\* Every committed event is sent in the end, whatever writers, persists and aborted
\* reads do meanwhile; only a reboot, or NV storage that fails, loses it.
Stored(e) == e \in ToSet(EventsOf(FlattenSeq(nv)) \o RamEvents)
EventuallySent ==
  \A e \in EventIds : Stored(e) ~> \/ e \in ToSet(EventsOf(FlattenSeq(delivered)))
                                   \/ reboots + nv_enabled.changes > 0 /\ ~Stored(e)

\* When encode_to_storage reports success the whole event is in the buffer ("the
\* event being stored is committed meaning a future call to has_more_msgs_cb will
\* return the event", event_storage_implementation.h).
WholeRecordIn(b, e, n) ==
  \E i \in DOMAIN b : /\ i + n <= Len(b)
                      /\ b[i] = Header(e, n + 1)
                      /\ \A k \in 1..n : b[i + k] = Payload(e, k, n)
Succeeds(w) == \/ pc[w] = "encode" /\ pc'[w] = "idle" /\ enc[w].done = enc[w].n
               \/ pc[w] = "commit" /\ pc'[w] = "reset_state" /\ ~enc[w].rollback
CommitStores ==
  [][reboots' = reboots =>
       \A w \in Writer : Succeeds(w) => WholeRecordIn(buf', enc[w].ev, enc[w].n)]_vars

===============================================================================

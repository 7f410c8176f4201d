------------------------------- MODULE RamLog -------------------------------
(* components/core/src/memfault_log.c and memfault_log_data_source.c: tasks save *)
(* logs to a ring in RAM, the oldest giving way to the newest.  They leave it in *)
(* two ways: memfault_log_read, which remembers how far it has read, and a       *)
(* collection, triggered once and then sent by the packetizer as one message of  *)
(* the logs not sent before.  What is read or sent stays until it is evicted.    *)
(*                                                                               *)
(* A section under memfault_lock is one action, but for the trigger's: it sets   *)
(* three fields that the packetizer's task reads without the lock.  A log is the *)
(* record the ring holds of it: header bits, and its length with its header.     *)
EXTENDS Naturals, Sequences, SequencesExt, FiniteSetsExt

CONSTANTS
  Task,     \* tasks that call memfault_log_trigger_collection
  Uses,     \* the configurations: which of "read" and "send" an application does
  Capacity, \* bytes of the ring
  Lens,     \* bound: lengths of logs, header included
  Width,    \* 2^32, the width of log_read_offset
  TimeLen,  \* bytes that the time of capture takes in a message, if it is known
  MaxLogs, MaxTriggers, MaxAborts, MaxRestores \* bounds

Entry == 2  \* sizeof(sMfltRamLogEntry)

ASSUME UsesAssumption == Uses \subseteq SUBSET {"read", "send"}
ASSUME LensAssumption == /\ Capacity \in Nat /\ Width \in Nat /\ TimeLen \in Nat
                         /\ \A len \in Lens : len \in Nat /\ len > Entry
\* So many bytes are never evicted that the read offset comes round again.
ASSUME WidthAssumption == /\ {MaxLogs, MaxTriggers, MaxAborts, MaxRestores} \subseteq Nat
                          /\ \A len \in Lens : MaxLogs * len + Capacity < Width

VARIABLES
  use,     \* what the application does: it never changes
  circ_buffer,
  read_offset, \* of circ_buffer: where in the storage its first log starts
  log_read_offset, dropped_msg_count, recorded_msg_count,
  s_last_dropped_count,
  triggered, num_logs, trigger_time, \* s_memfault_log_data_source_ctx; of the time, its bytes
  lock,     \* "free", or the field that the task in the middle of the trigger sets next
  deciding, \* tasks that found no collection triggered, before they lock
  pc,       \* the drain: "idle", "sizing" or "reading" a message, or "marked" it sent
  ctx,      \* the num_logs and trigger_time it copied to size the message
  total_size, \* the size of the message it was told
  rx,       \* the logs it has of the message, whole
  backup, log_magic, \* of the deep sleep, with the histories when it was made; whether it was
  torn,     \* whether the message was sized from fields that were not all set
  spoilt,   \* whether its end is filler, or part of a log
  read, sent, \* logs given out so far, oldest first
  cut,      \* logs marked sent that were not in the message whole
  slept,    \* logs that a deep sleep lost, saved after its backup
  saves, triggers, aborts, restores \* so far

ring == <<circ_buffer, read_offset, log_read_offset, dropped_msg_count, recorded_msg_count,
          s_last_dropped_count>>
source == <<triggered, num_logs, trigger_time, lock>>
drain == <<pc, ctx, total_size, rx, torn, spoilt>>
given == <<read, sent, cut>>
sleep == <<backup, log_magic, slept>>
counters == <<saves, triggers, aborts, restores>>
vars == <<use, ring, source, deciding, drain, given, sleep, counters>>

NotCopied == [num_logs |-> 0, trigger_time |-> 0]
NoBackup ==
  [circ_buffer |-> <<>>, read_offset |-> 0, log_read_offset |-> 0, dropped_msg_count |-> 0,
   recorded_msg_count |-> 0, saves |-> 0, read |-> <<>>, sent |-> <<>>, cut |-> {}]

Init ==
  /\ use \in Uses
  /\ circ_buffer = <<>> /\ read_offset = 0 /\ log_read_offset = 0
  /\ dropped_msg_count = 0 /\ recorded_msg_count = 0 /\ s_last_dropped_count = 0
  /\ triggered = FALSE /\ num_logs = 0 /\ trigger_time = 0 /\ lock = "free"
  /\ deciding = {}
  /\ pc = "idle" /\ ctx = NotCopied /\ total_size = 0 /\ rx = <<>>
  /\ torn = FALSE /\ spoilt = FALSE
  /\ read = <<>> /\ sent = <<>> /\ cut = {}
  /\ backup = NoBackup /\ log_magic = FALSE /\ slept = {}
  /\ saves = 0 /\ triggers = 0 /\ aborts = 0 /\ restores = 0

-------------------------------------------------------------------------------
\* Bytes that the logs of s among I take.
Bytes(s, I) ==
  LET upto[n \in Nat] == IF n = 0 THEN 0
                         ELSE upto[n - 1] + (IF n \in I THEN s[n].len ELSE 0)
  IN upto[Len(s)]
BytesOf(s) == Bytes(s, DOMAIN s)
Free == Capacity - BytesOf(circ_buffer)
Marked(I) == {i \in I : circ_buffer[i].read \/ circ_buffer[i].sent}

\* prv_try_free_space: how many logs are evicted to make room, if room can be made.
TryFree(bytes_needed) ==
  IF bytes_needed <= Free THEN {0}
  ELSE IF bytes_needed > Capacity \/ triggered THEN {}
  ELSE {Min({k \in DOMAIN circ_buffer : Bytes(circ_buffer, 1..k) >= bytes_needed - Free})}

\* Mutant: an evicted log that was read does not move the read offset.
MutEvictKeepsOffset(k) ==
  /\ UNCHANGED log_read_offset
  /\ dropped_msg_count' = dropped_msg_count + k - Cardinality(Marked(1..k))
\* Mutant: logs that were sent are counted as dropped.
MutEvictCountsSent(k) ==
  /\ log_read_offset' = (log_read_offset + Width - Bytes(circ_buffer, Marked(1..k))) % Width
  /\ dropped_msg_count' = dropped_msg_count + Cardinality({i \in 1..k : ~circ_buffer[i].read})
Evict(k) ==
  /\ log_read_offset' = (log_read_offset + Width - Bytes(circ_buffer, Marked(1..k))) % Width
  /\ dropped_msg_count' = dropped_msg_count + k - Cardinality(Marked(1..k))

\* prv_log_save, past the level filter.
log_save(len) ==
  /\ lock = "free"
  /\ saves < MaxLogs
  /\ saves' = saves + 1
  /\ \/ \E k \in TryFree(len) :
          /\ Evict(k)
          /\ recorded_msg_count' = recorded_msg_count + 1
          /\ circ_buffer' = Append(SubSeq(circ_buffer, k + 1, Len(circ_buffer)),
                                   [id |-> saves', len |-> len, read |-> FALSE, sent |-> FALSE])
          /\ read_offset' = (read_offset + Bytes(circ_buffer, 1..k)) % Capacity
     \/ /\ TryFree(len) = {}
        /\ dropped_msg_count' = dropped_msg_count + 1
        /\ UNCHANGED <<circ_buffer, read_offset, log_read_offset, recorded_msg_count>>
  /\ UNCHANGED <<use, s_last_dropped_count, source, deciding, drain, given, sleep, triggers,
                 aborts, restores>>

-------------------------------------------------------------------------------
(* memfault_log_read *)

\* prv_read_log tells once of logs dropped since it was last called.
read_drops ==
  /\ "read" \in use
  /\ lock = "free"
  /\ s_last_dropped_count # dropped_msg_count
  /\ s_last_dropped_count' = dropped_msg_count
  /\ UNCHANGED <<use, circ_buffer, read_offset, log_read_offset, dropped_msg_count,
                 recorded_msg_count, source, deciding, drain, given, sleep, counters>>

\* The log that starts where the last read ended, if there is one.
AtReadOffset == {i \in DOMAIN circ_buffer : Bytes(circ_buffer, 1..(i - 1)) = log_read_offset}

read_log ==
  /\ "read" \in use
  /\ lock = "free"
  /\ s_last_dropped_count = dropped_msg_count
  /\ \E i \in AtReadOffset :
       /\ circ_buffer' = [circ_buffer EXCEPT ![i].read = TRUE]
       /\ log_read_offset' = log_read_offset + circ_buffer[i].len
       /\ read' = Append(read, circ_buffer[i].id)
  /\ UNCHANGED <<use, read_offset, dropped_msg_count, recorded_msg_count, s_last_dropped_count,
                 source, deciding, drain, sent, cut, sleep, counters>>

-------------------------------------------------------------------------------
(* The log data source *)
Unsent == {i \in DOMAIN circ_buffer : ~circ_buffer[i].sent}

\* memfault_log_trigger_collection looks, then looks again with the lock held.
trigger_collection(t) ==
  /\ "send" \in use
  /\ triggers < MaxTriggers
  /\ triggers' = triggers + 1
  /\ t \notin deciding
  /\ ~triggered
  /\ deciding' = deciding \cup {t}
  /\ UNCHANGED <<use, ring, source, drain, given, sleep, saves, aborts, restores>>

\* Mutant: the second look is left out.
mut_trigger_again(t) ==
  /\ t \in deciding
  /\ lock = "free"
  /\ deciding' = deciding \ {t}
  /\ IF Unsent = {} THEN UNCHANGED <<triggered, lock>>
     ELSE triggered' = TRUE /\ lock' = "trigger_time"
  /\ UNCHANGED <<use, ring, num_logs, trigger_time, drain, given, sleep, counters>>
trigger(t) ==
  /\ t \in deciding
  /\ lock = "free"
  /\ deciding' = deciding \ {t}
  /\ IF triggered \/ Unsent = {} THEN UNCHANGED <<triggered, lock>>
     ELSE triggered' = TRUE /\ lock' = "trigger_time"
  /\ UNCHANGED <<use, ring, num_logs, trigger_time, drain, given, sleep, counters>>
set_trigger_time ==
  /\ lock = "trigger_time"
  /\ trigger_time' \in {0, TimeLen}
  /\ lock' = "num_logs"
  /\ UNCHANGED <<use, ring, triggered, num_logs, deciding, drain, given, sleep, counters>>
\* The logs were counted before: the lock is still held.
set_num_logs ==
  /\ lock = "num_logs"
  /\ num_logs' = Cardinality(Unsent)
  /\ lock' = "free"
  /\ UNCHANGED <<use, ring, triggered, trigger_time, deciding, drain, given, sleep, counters>>

UnsentUpTo(i) == {j \in Unsent : j <= i}
\* prv_encode: the first n logs not sent, or all of them if n = 0.
CollectedOf(n) == {i \in Unsent : n = 0 \/ Cardinality(UnsentUpTo(i)) <= n}
Collected == CollectedOf(num_logs)
\* prv_serialize_msg_callback is called for each run of storage that the bytes of a log
\* are in, and encodes a level and a message each time.
Items(i) ==
  LET start == (read_offset + Bytes(circ_buffer, 1..(i - 1)) + Entry) % Capacity
  IN IF start + circ_buffer[i].len - Entry > Capacity THEN 2 ELSE 1
NthUnsent(k) == CHOOSE i \in Unsent : Cardinality(UnsentUpTo(i)) = k
EncodedOf(n) == [k \in 1..Cardinality(CollectedOf(n)) |->
                   LET i == NthUnsent(k)
                   IN [id |-> circ_buffer[i].id, len |-> circ_buffer[i].len, items |-> Items(i)]]
Encoded == EncodedOf(num_logs)

\* prv_has_logs looks, and copies the fields, without the lock.
has_logs ==
  /\ pc = "idle"
  /\ triggered
  /\ ctx' = [num_logs |-> num_logs, trigger_time |-> trigger_time]
  /\ pc' = "sizing"
  /\ UNCHANGED <<use, ring, source, deciding, total_size, rx, torn, spoilt, given, sleep, counters>>

\* The size is told before the first read.
compute_size ==
  /\ pc = "sizing"
  /\ lock = "free"
  /\ total_size' = ctx.trigger_time + BytesOf(EncodedOf(ctx.num_logs))
  /\ torn' = (ctx # [num_logs |-> num_logs, trigger_time |-> trigger_time])
  /\ ctx' = NotCopied
  /\ pc' = "reading"
  /\ UNCHANGED <<use, ring, source, deciding, rx, spoilt, given, sleep, counters>>

\* prv_logs_read encodes from the start and picks the bytes asked for: here the next log,
\* or a part of it when the message ends within it.  A read beyond the last log fails, and
\* all it asked for is filler.
logs_read ==
  LET next == Len(rx) + 1
      at == trigger_time + BytesOf(rx)
      Whole == next \in DOMAIN Encoded /\ at + Encoded[next].len <= total_size
  IN /\ pc = "reading"
     /\ lock = "free"
     /\ ~spoilt /\ at < total_size
     /\ \/ Whole /\ rx' = Append(rx, Encoded[next]) /\ UNCHANGED spoilt
        \/ /\ Whole => trigger_time + BytesOf(Encoded) < total_size
           /\ spoilt' = TRUE /\ UNCHANGED rx
     /\ UNCHANGED <<use, ring, source, deciding, pc, ctx, total_size, torn, given, sleep,
                    counters>>

\* memfault_packetizer_abort: the message will start over.
abort ==
  /\ pc = "reading"
  /\ aborts < MaxAborts
  /\ aborts' = aborts + 1
  /\ pc' = "idle" /\ total_size' = 0 /\ rx' = <<>> /\ torn' = FALSE /\ spoilt' = FALSE
  /\ UNCHANGED <<use, ring, source, deciding, ctx, given, sleep, saves, triggers, restores>>

\* prv_logs_mark_sent: the logs are marked, then the collection is over.
mark_sent ==
  /\ pc = "reading"
  /\ lock = "free"
  /\ spoilt \/ trigger_time + BytesOf(rx) >= total_size
  /\ circ_buffer' = [i \in DOMAIN circ_buffer |->
                       IF i \in Collected THEN [circ_buffer[i] EXCEPT !.sent = TRUE]
                                          ELSE circ_buffer[i]]
  /\ sent' = sent \o [i \in DOMAIN rx |-> rx[i].id]
  /\ cut' = IF torn THEN cut \cup ({circ_buffer[i].id : i \in Collected}
                                 \ {rx[i].id : i \in DOMAIN rx})
                    ELSE cut
  /\ pc' = "marked"
  /\ UNCHANGED <<use, read_offset, log_read_offset, dropped_msg_count, recorded_msg_count,
                 s_last_dropped_count, source, deciding, ctx, total_size, rx, torn, spoilt, read,
                 sleep, counters>>

\* Mutant: the collection stays triggered.
mut_end_collection ==
  /\ pc = "marked"
  /\ lock = "free"
  /\ num_logs' = 0 /\ trigger_time' = 0
  /\ pc' = "idle" /\ total_size' = 0 /\ rx' = <<>> /\ torn' = FALSE /\ spoilt' = FALSE
  /\ UNCHANGED <<use, ring, triggered, lock, deciding, ctx, given, sleep, counters>>
end_collection ==
  /\ pc = "marked"
  /\ lock = "free"
  /\ triggered' = FALSE /\ num_logs' = 0 /\ trigger_time' = 0
  /\ pc' = "idle" /\ total_size' = 0 /\ rx' = <<>> /\ torn' = FALSE /\ spoilt' = FALSE
  /\ UNCHANGED <<use, ring, lock, deciding, ctx, given, sleep, counters>>

-------------------------------------------------------------------------------
(* A deep sleep that loses RAM *)

\* prv_backup_logs copies the ring, and the other tasks go on.
backup_logs ==
  /\ lock = "free"
  /\ restores < MaxRestores
  /\ ~log_magic
  /\ log_magic' = TRUE
  /\ backup' = [circ_buffer |-> circ_buffer, read_offset |-> read_offset,
                log_read_offset |-> log_read_offset, dropped_msg_count |-> dropped_msg_count,
                recorded_msg_count |-> recorded_msg_count, saves |-> saves,
                read |-> read, sent |-> sent, cut |-> cut]
  /\ UNCHANGED <<use, ring, source, deciding, drain, given, slept, counters>>

\* memfault_log_boot with MEMFAULT_LOG_RESTORE_STATE: the ring is as it was backed up, so
\* what was saved since is lost, and what was given out since is given out again; the
\* state of the data source and the count last told start over.
log_boot ==
  /\ log_magic
  /\ restores' = restores + 1
  /\ log_magic' = FALSE /\ backup' = NoBackup
  /\ circ_buffer' = backup.circ_buffer /\ read_offset' = backup.read_offset
  /\ log_read_offset' = backup.log_read_offset
  /\ dropped_msg_count' = backup.dropped_msg_count
  /\ recorded_msg_count' = backup.recorded_msg_count
  /\ s_last_dropped_count' = 0
  /\ triggered' = FALSE /\ num_logs' = 0 /\ trigger_time' = 0 /\ lock' = "free"
  /\ deciding' = {}
  /\ pc' = "idle" /\ ctx' = NotCopied /\ total_size' = 0 /\ rx' = <<>> /\ torn' = FALSE /\ spoilt' = FALSE
  /\ read' = backup.read /\ sent' = backup.sent /\ cut' = backup.cut
  /\ slept' = slept \cup ((backup.saves + 1)..saves)
  /\ UNCHANGED <<use, saves, triggers, aborts>>

Waits == /\ saves = MaxLogs /\ ~triggered /\ pc = "idle"
         /\ UNCHANGED vars

Next == \/ \E len \in Lens : log_save(len)
        \/ read_drops \/ read_log
        \/ \E t \in Task : trigger_collection(t) \/ trigger(t)
        \/ set_trigger_time \/ set_num_logs
        \/ has_logs \/ compute_size \/ logs_read \/ abort \/ mark_sent \/ end_collection
        \/ backup_logs \/ log_boot
        \/ Waits

Spec == Init /\ [][Next]_vars

\* A task gives the lock back; the drain takes a collection it is told of, and goes on
\* with a message.
FairSpec == /\ Spec
            /\ WF_vars(set_trigger_time \/ set_num_logs)
            /\ WF_vars(has_logs)
            /\ WF_vars(compute_size \/ logs_read \/ mark_sent \/ end_collection)

-------------------------------------------------------------------------------
TypeOK ==
  /\ BytesOf(circ_buffer) <= Capacity
  /\ log_read_offset \in 0..(Width - 1) /\ read_offset \in 0..(Capacity - 1)
  /\ num_logs \in 0..Len(circ_buffer)
  /\ lock \in {"free", "trigger_time", "num_logs"}
  /\ lock = "free" => (triggered <=> num_logs > 0)
  /\ pc \in {"idle", "sizing", "reading", "marked"}
  /\ recorded_msg_count \in 0..saves /\ dropped_msg_count \in 0..saves

\* No log goes missing without being counted: those saved and neither in the ring nor
\* read nor sent are as many as the count of dropped messages that readers are told, but
\* for those saved between the backup of a deep sleep and the sleep, and those of a message
\* sized while it was being triggered.
DropsCounted ==
  dropped_msg_count =
    Cardinality(1..saves \ (ToSet(read) \cup ToSet(sent) \cup cut \cup slept
                              \cup {circ_buffer[i].id : i \in DOMAIN circ_buffer}))

\* Where no collection is ever triggered memfault_log_read finds every log, in order and
\* once: when it has nothing to give, all logs in the ring were read ("Returns the oldest
\* unread log in memfault log storage ... false if there were no logs to read", log.h).
ReadAloneFindsAll ==
  use = {"read"} =>
    /\ \A i, j \in DOMAIN read : i < j => read[i] < read[j]
    /\ AtReadOffset = {} => \A i \in DOMAIN circ_buffer : circ_buffer[i].read

\* A message is the logs it was triggered for, whatever is saved while it is read:
\* none missing, none twice, and those that get marked are those in it, but for the last
\* of a message that was sized while it was being triggered.
SentAreMarked ==
  /\ \A i, j \in DOMAIN sent : i < j => sent[i] < sent[j]
  /\ \A i \in DOMAIN circ_buffer :
       circ_buffer[i].sent <=> circ_buffer[i].id \in ToSet(sent) \cup cut

\* A message is an array of as many items as it announces: one level and one message of
\* each log ("all logs are encoded into a single array", "elements_per_log = 2;  // lvl,
\* msg", prv_encode).
ItemsAnnounced ==
  pc = "marked" /\ ~torn => MapThenSumSet(LAMBDA i : rx[i].items, DOMAIN rx) = num_logs

\* A collection comes to an end, and logs can be evicted again.
CollectionEnds == triggered ~> ~triggered
===============================================================================

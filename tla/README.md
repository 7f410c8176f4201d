# The Memfault firmware SDK in TLA+

Specifications of the core of this SDK, the configurations that model-check
them with TLC, and theorems about them that TLAPS proves. The code is the
reference: a definition is translated from the C under `components/` (and, for the
socket client and deep sleep, two of the `ports/`), and `PROJECT.json` names for each
the lines it stands for.

Paths below are relative to `components/` unless they say otherwise.

## 1. The system

The SDK runs inside the firmware of a device. Data is produced by many tasks
(and by the fault handler), kept in RAM or in the platform's storage, and leaves
the device through one narrow door, the packetizer, in chunks as small as the
link wants. A server puts the chunks together.

```
 trace event  heartbeat  session end  reboot event        logs        fault handler
      \           |          |           /                  |               |
       serializer helper (begin, append.., finish)     log module      coredump save
                        |                                   |               |
                  event storage  ------- ring ------- log ring       coredump storage
                   |        | persist                       |               |
                   |      NV storage                log data source         |
                   +----+---+-------------------------------+---------------+
                        |   (has_more_msgs, read_msg, mark_msg_read)
                   packetizer -- run-length encoder
                        |
                  chunk transport --> HTTP client, or another transport --> server
```

### Components

**Circular buffer** (`util/src/memfault_circular_buffer.c`).
State: read index, fill, storage. Operations: read at an offset, read through a
callback (one or two contiguous runs), pointer to the readable run, consume from
either end, write, write at an offset from the end. Used by event storage, logs
and batched events; it locks nothing. Hard: the wrap, full and empty.
Correct when it is a queue of bytes.

**Event storage** (`core/src/memfault_event_storage.c`, with
`memfault_serializer_helper.c`, `memfault_batched_events.c`).
State: the ring; `write_state` (a record in progress and its bytes);
`read_state` (what `has_more_msgs` computed last); with NV support, messages in
the platform's storage. Operations: begin, append and finish a record, has data,
read, mark read, persist, and the drain through NV. Producers on many tasks and
one drain share it; only single buffer calls are under `memfault_lock`, the two
states are not. Hard: what happens between two locked sections, rollback when
the ring fills in mid-record, persisting from a callback. Correct when a record
reported stored is there whole, the ring can always be walked, and every event is
sent once, in order, in the end.

**Chunk transport** (`util/src/memfault_chunk_transport.c`, `memfault_varint.c`).
State: the context of one message (size, offset, running CRC, mode). Operations:
get chunk info, get next chunk, with a buffer of another length each time. Hard:
boundaries of a byte (varint growing, CRC fitting or not). Correct when nothing
is written past the buffer or read past the message, and the server can
reassemble.

**Packetizer** (`core/src/memfault_data_packetizer.c`).
State: the message in progress with its source, and the mask of enabled
sources. Operations: begin, get next, get chunk, abort, set active sources, data
available. Calls into the sources and the chunk transport. Hard: calls in any
order, a mask that changes in mid-message, failing reads. Correct when each
message arrives whole and once, and no source is starved.

**Run-length data source** (`core/src/memfault_data_source_rle.c`,
`util/src/memfault_rle.c`).
State: encoder context, position of the second pass. Operations: has more
messages (the sizing pass), read (the second pass, in pieces), mark read, abort.
Hard: sequences cut by the working buffer or the caller's. Correct when the
output decodes to the message and is as long as announced.

**Task watchdog** (`core/src/memfault_task_watchdog.c`).
State: for each channel the time fed (32 bits) and started or not. Operations:
start, feed, stop, check all. No lock; the check runs in a timer or an interrupt.
Hard: the check's loads between the stores of tasks, the width of the time.
Correct when a stuck task is caught and no other causes a panic.

**Log module and log data source** (`core/src/memfault_log.c`,
`memfault_log_data_source.c`).
State: the ring with a header per log (read and sent bits), the read offset,
counts of recorded and dropped logs; triggered and the number of logs triggered
for, which the trigger sets under the lock and the data source reads without it.
Operations: save (evicting), read, trigger, has logs, read message, mark
sent, back up and restore. Hard: two consumers with one ring and one offset, eviction
that must not move what a collection reads, tasks that go on after the backup.
Correct when nothing goes missing
uncounted, a reader finds every log, and a collection is what was triggered for.

**Reboot tracking** (`core/src/memfault_ram_reboot_info_tracking.c`,
`memfault_reboot_tracking_serializer.c`).
State: `sMfltRebootInfo` in memory resets do not clear (reason, coredump saved,
crash count), the reasons of this boot. Operations: boot, mark reset imminent,
mark coredump saved, collect, clear, reset crash count. Hard: any sequence of
resets and losses of power. Correct when the first reason of a series is the one
reported, and what it says of a coredump is true.

**Coredump** (`panics/src/memfault_coredump.c`) and **fault handling**
(`panics/src/memfault_fault_handling_arm.c`).
State: the storage (header, blocks), the write context. Operations: save, size of
a save, has valid coredump, read, clear. Hard: a reset or a failed write anywhere,
storage too small, a second crash before the first was sent. Correct when a
coredump with a header is whole and of one crash.

**Trace events** (`core/src/memfault_trace_event.c`, drop counters of
`memfault_serializer_helper.c`).
State: one slot, `s_isr_trace_event`, an interrupt fills; counts of drops.
Operations: boot, capture from a task, capture from an interrupt, flush, read the
drop count. Calls event storage. Hard: nested interrupts, a flush in several steps
while interrupts look at the slot, storage that is full. Correct when an event whose
capture returned 0 is recorded once and in the order captured, and every drop is
counted.

**Metrics** (`metrics/src/`: the metrics, their serializer, reliability, battery,
connectivity).
State: `s_memfault_metrics_ctx` (values, timers, which are set), the contexts of
reliability and battery, a bit per session in the RAM resets do not clear.
Operations: add, set, timer start, stop and read, session start, end and reset, the
heartbeat (update timers, collect, serialize, reset), boot, and what deep sleep saves
and boot restores. Each call of the application holds the lock; the heartbeat holds
it only to serialize. Hard: calls between the steps of a heartbeat, timers of 31 bits,
resets in the middle of sessions and of boot, hours carried over heartbeats and sleep,
a battery that is plugged in meanwhile. Correct when what was added and every timer's
time are in exactly one heartbeat, each interrupted session is reported and no other,
and hours, connected time and drops are what happened.

**HTTP client** (`http/src/memfault_http_utils.c`, and the Zephyr port's client over
it, `ports/zephyr/common/memfault_platform_http.c`).
State: the response context (phase, line buffer, status, lengths), the socket, the
position in what is sent. Operations: upload of the packetizer's messages, whole or a
chunk to a POST; download of an update. Hard: a socket that cuts bytes anywhere, would
block after poll, or closes; a message the packetizer already marked read. Correct when
a message is lost only by a call that says it failed, an update arrives in order, and
a call returns.

**The rest.** **Heap statistics** (a bounded list of allocations), **custom data
recording** (one more source of the packetizer), **compact logs**, **CBOR, base64 and
CRC** (encodings), **data export**, **demo shell**, **self test**, and the other
**ports** complete the SDK; `PROJECT.json` lists each with why it is or is not
modelled.

### Hazards

`PROJECT.json` lists 40, each at its line and with the properties that would
catch it. In short: unlocked state between locked sections (event storage,
watchdog, trace events, metrics); state computed in one call and used in another
(`read_state`, the packetizer's message, the CRC, the read offset of the logs, the
`errno` of an earlier call); a reset or failure between two writes (coredump, reboot
tracking, sessions, contexts copied before a deep sleep and restored after it, a POST
half sent); limits of a byte (ring,
varint, CRC, run-length sequences, truncation, line buffer, 31- and 32-bit times); and
work that must end (drain, collections, NV draining, a call on a socket).

## 2. The modules

| Module | Models | State and actions |
|---|---|---|
| `ByteFifo` | abstract: a bounded queue of bytes | what each call of the ring promises |
| `CircularBuffer` | `memfault_circular_buffer.c` | the C fields; an action per exported call, the two `memcpy`s around the wrap kept apart |
| `CircularBufferProofs` | | theorems |
| `EventQueue` | abstract: commit, send, lose at a reboot or with NV storage, come back from deep sleep as backed up | what event storage promises |
| `EventStorage` | event storage, serializer helper, batching, deep sleep | the C fields, a program counter per task, one action per stretch between two accesses to shared state |
| `ChunkTransport` | `memfault_chunk_transport.c` | the C context; `get_next_chunk` for any length; the server's reassembly as history |
| `Outbox` | abstract: each source's messages sent whole, once, in order | what the packetizer promises |
| `Packetizer` | packetizer, extends `ChunkTransport` | an action per API call |
| `RleEncoder` | `memfault_rle.c` under `memfault_data_source_rle.c` | the two contexts; the read as the loop it is; the server's decoder |
| `TaskWatchdog` | `memfault_task_watchdog.c` | channels; the check load by load |
| `TaskWatchdogProofs`, `TraceEventProofs`, `CrashPathProofs`, `PacketizerProofs`, `MetricsProofs`, `RamLogProofs`, `EventStorageProofs` | | theorems |
| `RamLog` | log module and log data source, the backup before deep sleep | the ring as a sequence of logs, offsets in bytes; an action per locked section, the trigger's one per field it sets |
| `Coredump` | `memfault_coredump.c` | blocks and header in storage, the write context; an action per block |
| `RebootTracking` | reboot tracking and its event | the C fields; an action per call |
| `TraceEvent` | trace events and the drop counters over storage with room for some | the slot, a stack of interrupts, two program counters per task; the flush a step at a time, the counters a load or a store at a time |
| `Metrics` | `memfault_metrics.c`, its serializer, reliability, battery, connectivity, the session bits of reboot tracking, deep sleep | the C contexts; an action per locked call, the heartbeat (a timer at a time) and boot a step at a time |
| `HttpResponse` | the response parser of `memfault_http_utils.c` | the response context; `parse`, a character at a time |
| `HttpClient` | the Zephyr client over `HttpResponse`, a socket and a server | where the thread is, bytes to send and received, what the server has; an action per call on the socket |
| `CrashPath` | the fault handler over `Coredump` and `RebootTracking` (INSTANCE both) | crashes, resets, losses of power, the boot, the event, the packetizer's reading of a coredump |

Each `MC` module names the constants of one of these for TLC.

**Granularity.** Where the code takes `memfault_lock`, the locked section is one
action. Unlocked reads and writes of shared fields are actions of their own in
`EventStorage`, `TaskWatchdog` and, for the counters of drops, `TraceEvent`. In `RamLog`
the trigger sets its three fields under the lock, but `prv_has_logs` looks at the first and
copies the others without it: each store of the trigger is an action, and so is the look
with the copies (a copy between two stores has every mixture of old and new that the order of
the source gives). Every other use of those fields comes when the trigger has given the lock
back, since sizing a message takes it. The packetizer, the chunk transport and the encoder are
called by one thread, so a call is one action, save `get_chunk` and the encoder's
read, whose inner loops are visible. `CrashPath` has one action per storage block,
since a reset can come there; within a block only a failing write is told apart.
An interrupt in `TraceEvent` runs between any two steps of a task or of an interrupt
of lower priority, and a task goes on only when none is running (one core). In
`Metrics` the heartbeat is one action for each running timer, which reads the clock for
itself, and one for each collector, since the application's calls may come and time may
pass between them; a state of connectivity is as many actions as
it makes timer calls. In `HttpClient` an action is one `send`, `recv` or `poll` with the
code up to the next.

**Data.** Event payloads are cells that know their event and index; chunk bytes
are where they were read; a CRC is the length it covers; a run-length message is a
sequence over a two-letter alphabet; logs and coredump blocks are lengths. Sizes
that decide control flow (headers of 12, a footer of 16, alignment to 4, CRC of 2,
varints) are the code's or a constant of the module. A metric's value is an integer of
the constant width, a line of an HTTP response what the parser takes it for, with its
length; the bytes of its body are numbered.

**Composition.** `Packetizer` extends `ChunkTransport`; `CrashPath` contains
`Coredump` and `RebootTracking`. `EventStorage` uses a queue of bytes where the
code uses the ring, which is what `RingIsQueue` justifies, and drives itself with a
drain that behaves as the packetizer does (has data, read in pieces, mark read,
abort). `RamLog` does the same. `HttpClient` extends `HttpResponse` and sees the
packetizer as `Outbox` promises it, which is what `DeliveredOnceInOrder` justifies;
`TraceEvent` sees event storage as a queue with room, which is what `SentOnceInOrder`
and `CommitStores` do. `Metrics` has its own copy of the session bits, since the rest of
reboot tracking does not read them.

**History variables.** `delivered`, `rx`, `sent`, `out`, `read`, `overdue`, `due`,
`first`, `cores`, `bad`, `missed`, `truth`, `serialized`, `cut`, `slept` and the like record what happened for the
properties; no guard reads them (the mutual exception is a bound on the number of
steps, which the module's CONSTANTS name).

**Configurations.** A run that covers several builds chooses one in `Init` in a
variable that never changes (`build`, `preemptive`, `use`, `layout`), so that a
single run checks them all. `TypeOK` is an invariant of the run `ring` only; elsewhere
it says what the variables hold.

**Mutants.** Operators whose comment starts with "Mutant" are plausible bugs in
the definition below them. `PROJECT.json` pairs each property with one that
violates it; no specification uses them.

## 3. The runs

| Run | What it asks | Bounds |
|---|---|---|
| `ring` | does the ring behave as a queue of bytes? (`ImplementsFifo`) | 3 bytes over {0, 1}: every index, every fill, writes and offsets up to the size, so each call is seen refused, fitting, filling and wrapping |
| `events` | are events framed, sent once and in order, in the end? | six builds: RAM only with batching, aborts and preemption; two writers under one lock; NV persisted on its own task; NV persisted in the callback, with a reboot; RAM only, with a backup and a deep sleep or a reboot at any time after it; NV that comes up late and fails (2 changes). 3 events of 1 to 3 cells, 5 or 6 cells of storage: room for two and not for all, so writes fail and roll back, batches are cut |
| `chunks` | the chunk transport, all lengths, both modes | messages up to 20, buffers up to 12; varint base 2, so offsets take one to five bytes within the bound; one abort |
| `packetizer` | the packetizer with two sources, one encoded | 2 messages of 6 or 16, buffers 8, 9, 12 (one below the minimum of 9), 2 mask changes, 1 failing read, 1 abort |
| `rle` | does the output decode to the input? | every message of up to 9 bytes over {0, 1}, working buffer of 3, varint base 4 so that counts of 2 bytes occur, reads of every length |
| `watchdog` | stuck tasks caught, none wrongly | 2 channels, timeout 2, time to 5, below the wrap; with and without preemption |
| `log` | reading, sending, both; triggers that the drain sees half done, a backup and a deep sleep at any time after it, an abort | ring of 7 bytes, logs of 3, 4 and 8 (does not fit at all), 3 saves, so that two fill the ring and the third evicts; 2 triggers by 2 tasks, so that both may be deciding at once; 1 abort, 1 sleep; a time of capture of 1 byte or none |
| `log_split` | has a collection the items its array announces? **no** | the same with 4 saves and 3 triggers, reading and sending |
| `crash` | coredump and reboot reason across crashes and resets | 2 crashes, 1 failing write, 1 further reset or loss of power, 1 marked reset; 9 layouts: padding, regions read by words, empty and invalid regions, one of a single byte, on storage too small for the fixed blocks up to one that fits exactly; crash count of 1 bit so that it wraps |
| `trace` | is each accepted event recorded once, in order, in the end, and is each drop counted? | 2 tasks that do not preempt each other, interrupts of 2 levels, 3 events with and without a log, of 2 and 1, storage of 3; 2 calls to flush that fail. So storage fills with an event in the slot and another in a task's hands, drops are counted before and after a success, and interrupts come between the load and the store of a counter |
| `metrics` | is everything counted once, and reported as it happened? | times wrap at 4 and values at 16, an hour is 3. Seven builds, since each asks another question: 3 additions of −3, 5 and 12 and log lines that preempt the heartbeat (sums wrap, and are clipped both ways); two sessions over two resets; one session over heartbeats and the roll over, and connectivity, both with a tick of the clock during a heartbeat (`busy`), so between any two of its timers; hours over a reset, with preemption; the same and additions over deep sleep; a charger that comes and goes |
| `upload` | does data go missing unreported, or a call hang? | messages of 3, 1 and 2 packets of 2 bytes, 2 messages to a call, 4 calls; line buffer of 6, receive buffer of 4, so a response takes several; 5 answers (with headers that fit the line buffer, fill it and exceed it; an error; a malformed one; none). Builds: a POST for the message, a POST for a chunk, calls that would block, two downloads |

### What the properties say

`Framed`: the ring of events is a run of whole records with at most one in
progress at its end, whose writer is in its call; the walk of `prv_compute_read_state` depends on it.
`MessagesWellFormed`: what is sent or persisted is whole events, with the array
header when there are several. `SentOnceInOrder`: refinement of `EventQueue`, where a reboot loses the newest events,
NV storage that fails the oldest, and deep sleep brings back the newest as they were backed up:
one committed since is lost, one sent since is sent again.
`CommitStores`: a reported success is a record in the buffer. `EventuallySent`.

`ChunkFits`, `ReadsInBounds`, `Reassembled`, `AnnouncedLength`: a chunk stays in its
buffer and in the message, the server ends with the message and its CRC, and the length
announced is the length written; these are also theorems, and so is `Progress`, from
which, with fairness, `Completes` follows.

`SizeIsCurrent`: the message in progress is the head of an enabled source at its
present size. `Intact`: a delivered message has bytes of one message only.
`DeliveredOnceInOrder`: refinement of `Outbox`. `Drained`: what is recorded leaves.

`DecodesBack`: what the second pass gives, in whatever pieces, decodes to the input and
has the length the first announced.

`NoFalseAlarm`, `NeverMissed`, `StuckIsCaught`: a check panics for a channel that is
overdue and for no other, and in the end does.

`DropsCounted` (log): logs neither stored, read nor sent are as many as the count says, but for
those saved after the backup of a deep sleep (`slept`) and those marked that did not fit a message
sized during its trigger (`cut`), which are lost uncounted (§4).
`ReadAloneFindsAll`: when `memfault_log_read` has nothing, nothing is unread.
`SentAreMarked`: a collection has no log twice, and the logs marked are those in it, or `cut`.
`ItemsAnnounced`: a collection sized after its trigger has the items its array announces. `CollectionEnds`.

`CoredumpWhole`: a coredump with a header has contiguous blocks of one crash up to the
announced size, the fixed ones whole, memory aligned, of wanted regions and in their
order, the footer last and truthful about truncation; and storage as large as
`memfault_coredump_get_save_size` says truncates nothing. `FirstCoredumpKept`: it changes only by being sent and cleared.
`ReportsFirst`: the event has the first reason since the last event; a coredump it
claims exists, in storage or sent. `CountsCrashesReported`: the crash count of a device
that reports each reason before the next reset is the number of its crashes.

`RecordedOnceInOrder`: an accepted trace event is in storage, sent or in the slot, and
once; none that was refused is; those from interrupts keep their place among the others.
`DropsCounted` (trace): between calls, drops read and to be read are the events of tasks refused
and the flushes that failed. `EventuallySent`.

`CountedOnce`: additions and log lines are in one heartbeat given to event storage or still to be
reported, but for what was added between a heartbeat's encoding and its reset. `TimeReportedOnce`: the
same for the time of timers, with no exception. `SessionsReported`: by the end of boot
each session an unexpected reset interrupted has its event; a session's event tells of a
crash exactly then. `HoursAccountForTime`: hours and the part kept add up to the time
since boot, and crash-free hours are one short after a crash. `ConnectedWithinExpected`:
connected time exceeds the expected by no more than the time that passed between the updates of
the two timers in the heartbeat before, less that in this one (`apart`; §4). `DropWhileDischarging`: a drop is reported
only for an interval that was all discharging, but for the races the comment names.

`LossIsReported`: the server has each message at most once, in order; one the packetizer
let go of and the server has not is one a call that failed handed out. `PayloadInOrder`:
an update's bytes arrive in order, and are called complete when they are. `CallEnds`.

### Deadlock and fairness

Every run checks for deadlock; modules that reach the end of their bounds have an
explicit wait there (`Waits`, or a stutter under the condition that nothing is left).

Fairness is assumed of these, each weak unless noted: tasks that can go on
do (`EventStorage`, `TraceEvent`: a preemptive scheduler starves nobody), and
interrupts return; whoever drains keeps
calling, with buffers of at least the documented minimum now and then
(`ChunkTransport`, `Packetizer`, `RamLog`; strong in `get_chunk_fill`, since shorter
buffers may come in between), and calls `memfault_trace_event_try_flush_isr_event` as
`trace_event.h` recommends; a task that triggers a collection gives the lock
back (`RamLog`); the timer calls the check; time goes on; the thread of
`HttpClient` runs, and `poll` returns when its time is over. Nothing is
assumed of recording tasks starting, of aborts, masks, resets or failures, nor of the
server.

## 4. Divergences between the code and what it says

One is a run that violates a property, with the quoted text in `PROJECT.json`:

* **A log around the end of the ring** (`log_split`). It reaches the CBOR encoder in
  two pieces and becomes two items (`memfault_log_data_source.c:163`).

The others were met while modelling. The modules show them when their constants are
changed as said; the runs have the configurations in which the properties hold.

Event storage
* `write_in_progress` is tested and set outside the lock
  (`memfault_event_storage.c:267`, `:282`). Two tasks that record pass the test and
  interleave their bytes; one is told its event is stored when it is not. A build of two
  writers with `locked` empty and `preemptive` violates `CommitStores`.
* Two tasks that persist synchronously (the callback after recording, and after a
  consume) share `read_state` between the NV write and the mark (`:386`): an event can be
  dropped. `event_storage.h:94` allows a synchronous persist. Builds of `sync`, `nv` and
  `preemptive` show it.
* Persisting on a task of its own while batching: the drain computes `read_state`
  anew in `prv_nv_event_storage_mark_read_cb` (`:430`), and a malformed message can
  reach NV storage. `NvAsync` is therefore without batching.
* The ESP-IDF port copies event storage (`memfault_platform_deep_sleep.c:253`), then collects
  and copies the metrics, copies the logs, and waits 250 ms (`:277`) before RAM goes. What is
  committed meanwhile is lost, what is sent meanwhile is sent again, and what is moved to NV
  storage meanwhile is there twice. `EventQueue` allows exactly that (`Wake`).
* A copy made in the middle of a record has `write_in_progress` set: nothing can be recorded
  after the sleep, until it is reset. `Asleep` with `preemptive` violates `Framed`. With
  persisting on a task of its own, the request to persist is not saved, and restored events
  wait in RAM until another is recorded: `NvAsync` with `restore`, and without `preemptive`,
  violates `EventuallySent`.

* `prv_nv_event_storage_enabled` (`:396`) resets the read state when NV storage fails, and
  each call of the drain looks the source up anew: when that changes in the middle of a
  message, the drain goes on with the old size in the other source. `NvUnsteady` with
  `midway` violates `MessagesWellFormed`. Nothing persists what RAM holds when NV storage
  comes up; the model has the port ask for it, and without that `EventuallySent` fails.

Packetizer
* `memfault_packetizer_get_chunk` in the middle of a chunk begun with
  `enable_multi_packet_chunk` hands out bytes and returns false
  (`memfault_data_packetizer.c:398`). `Packetizer` has its caller use one way of
  sending per message.

Task watchdog
* A 32-bit time is subtracted in 64 bits (`memfault_task_watchdog.c:38`), so a task fed
  just before the counter wraps is taken for expired just after; `NoFalseAlarm` is
  violated when the time bound exceeds the width.
* A feed between the check's reading of the time and its reading of the channel
  looks expired (`:44`), so `NoFalseAlarm` is about checks no task preempts.

Logs
* The trigger sets `triggered` (`memfault_log_data_source.c:79`), the time (`:80`) and the
  number of logs (`:83`) under the lock, and `prv_has_logs` looks at the first and copies the
  others (`:203`, `:209`) without it. A message sized from what it copies in between has the
  time or the number of no collection: 0 logs announced, and, since 0 stands for no limit, all
  logs sized, also those saved before the lock is free again. Every read after that has the
  fields as they were set. So the size and what is read differ; the last logs may be cut or
  left out and are marked sent all the same, or the end of the message is filler. `torn` says
  this happened, `cut` which logs it took; `DropsCounted` and `SentAreMarked` without `cut`, and
  `ItemsAnnounced` without `torn`, are violated.
* "Logs after this point are not backed up" (`memfault_platform_deep_sleep.c:166`): logs saved
  between the backup and the loss of RAM, 250 ms later at least, are lost and `dropped_msg_count`
  does not have them; those read or sent in between are given out again. Without `slept`
  `DropsCounted` is violated.
* Evicting a log that was sent and not read moves `log_read_offset` below zero
  (`memfault_log.c:176`); reading then finds nothing. `ReadAloneFindsAll` is therefore
  about devices that read and do not also send.

Crash path
* The crash count goes by the stored reason (`memfault_ram_reboot_info_tracking.c:194`):
  while an earlier reason has not been collected, a crash after an expected reset is
  not counted, and a normal reset after a crash is. `reboot_tracking.h:146` promises
  otherwise; `CountsCrashes` in `CrashPath` is that promise, and the run checks it
  for devices that report each reason before the next reset.
* A padding block whose write fails is not noticed (`memfault_coredump.c:369`), and
  the save succeeds over a hole. `CoredumpWhole` excepts it by the `write_error` the
  write context keeps. Nor is padding that does not fit (`memfault_coredump.c:410`): where
  it needs two or three bytes and the region after it has one or two, the region may fit and
  is written unaligned, the last of a coredump that is marked truncated. `CoredumpWhole`
  excepts that too; the layout with a region of one byte reaches it.

Trace events
* The counters of drops are loaded and stored without a lock (`memfault_serializer_helper.c:220`
  to `:239`): two tasks that both load before either stores lose a drop, or count one twice.
  `Preemptive = TRUE` violates `DropsCounted`. Interrupts do not touch the counters.
* Two tasks that flush at once each encode the event of the slot before either frees it
  (`memfault_trace_event.c:165`): it is recorded twice, or freed with another event in
  it. `Preemptive = TRUE` violates `RecordedOnceInOrder`.
* The worst case boot compares storage with leaves logs out. An event with a log that
  does not fit stays in the slot for ever and blocks every later one: `WITH_LOG` above
  `CAPACITY` violates `EventuallySent`.
* An event with the reason Unknown captured in an interrupt returns 0 and is lost, since
  that reason marks the slot as free.
* A flush that fails counts as a drop though its event stays in the slot and is recorded
  later; `serializer_helper.h:73` calls the count that of events dropped.

Metrics
* An expected reset, then an unexpected one before boot has ended: the sessions the first
  interrupted are reported as crashed (`truth.owed` in `SessionsReported` counts them
  as owed, since boot has no way to tell).
* The hours before a crash are deducted at the first full hour since boot
  (`memfault_metrics_reliability.c:55`). Deep sleep before it resets the reason, and
  nothing is deducted; `Asleep` is therefore without crashes.
* The comment in `memfault_metrics_battery.c` accepts that the charger is connected between
  the reading and the clearing of the flag; the window starts when the reading is
  cached, at line 72. `DropWhileDischarging` excepts it all.
* The heartbeat updates one timer after the other, and each update reads the clock
  (`memfault_metrics.c:948`, called from `:1010`), connected before expected
  (`heartbeat_config.def:23`). A millisecond between the two is in the expected time of this
  heartbeat and the connected time of the next, which may so report more time connected than
  expected, with one task that reports and nothing preempted. `ConnectedWithinExpected` allows
  just that; without `apart` it is violated.
* The result of serializing a heartbeat is ignored (`:1082`): one for which event storage has no
  room is reset and lost. `serialized` counts what was given to the storage, refused or not.
* `connectivity.h:88` calls the state change thread-safe; it makes two locked calls, and
  two tasks that report states at once break `ConnectedWithinExpected`
  (`Connected` with both tasks).
* The update of the timers at a heartbeat is not locked, and miscounts a stop that
  preempts it. `BuildAssumption` keeps preemption from builds with timers of the application.

HTTP
* The packetizer marks a message read when it hands out its last packet, before it is
  sent and answered (`memfault_platform_http.c:405`). A connection that ends then loses
  the message, and the call returns −1: `LossIsReported`.
* `recv` returning 0 leaves `errno` as it was; with `EAGAIN` from an earlier call the end
  of the stream looks like a call that would block, for ever (`:447`). Builds with both
  `closes` and `agains` violate `CallEnds`; `BuildAssumption` keeps them apart.
* A header of `sizeof(line_buf) - 1` characters hides its CR LF and runs into the next
  one (`memfault_http_utils.c:416`): its line feed is put where its carriage return was.
  The answers have lengths on both sides of it.
* With a content length of 0 `data_bytes_processed` leaves the last line feed out (`:464`),
  though `utils.h` calls it the bytes processed; no caller goes on after it.

## 5. The proofs

TLC's runs are small instances; the theorems hold for every value of the
constants, under the `ASSUME`s of the modules (sizes are naturals, the storage is
not empty, a message's length fits a varint of five bytes).

**`CircularBufferProofs`.** `TypeCorrect`: indices stay in the ring and the fill
within it. This invariant is inductive as it stands. `RingIsQueue`: the ring
implements `ByteFifo`, with the mapping "byte *i* of the queue is at read index +
*i*, modulo the size". The modulo is removed first (`RingIsMod`: positions are at
most one lap ahead); `CopyInAt` and `CopyOutAt` say what the two `memcpy`s of a write
and a read leave at each position, `RunsCover` and `RunsAt` that the two runs of a callback read are
the bytes asked for; then there is one lemma per call (`WriteStep`, `ConsumeStep`,
`ConsumeFromEndStep`, `ReadStep`, `ReadWithCallbackStep`) and the theorem follows
from `TypeCorrect`.

**`PacketizerProofs`, the chunk transport.** `NeverOverflows`, `NeverReadsPastEnd`, `MessageArrives`,
`LengthAsAnnounced` and `CallsMakeProgress` from one invariant,

    ChunkIInv == ChunkTypeOK /\ ChunkInStep /\ ChunkFits /\ ReadsInBounds /\ Reassembled /\ AnnouncedLength

None of the four properties is inductive alone: that the server ends with the whole
message needs that in the middle of it offset, CRC and server agree, and that the
announced length is met needs that the bytes written so far are one header and the
data; `ChunkInStep` says both. The three kinds of chunk (first, continued call,
continuation) are shown to owe `Emit` the same conditions (`ChunkIsOwed`), and
`EmitStep` shows once that these keep `IInv`.

**`TaskWatchdogProofs`.** `PanicIsJustified` (`NoFalseAlarm`) and `OverdueIsCaught`
(`NeverMissed`), for every number of channels, with the hypothesis that the time stays
below the wrap of its 32 bits: beyond it the first is false. The properties speak of the
moment a check ends; the invariant of what leads there has two parts. `DueIsCaught`: while
a check runs, with tasks going on or not, a channel due since before it began is
started, too old by the check's own time, and still to be looked at or counted; if it is
the one looked at, the copy is what it was. `CountedIsOverdue`: without preemption the
check's time is the time, its copy the channel, and what was counted was overdue.
`TimeIsKept` and `DifferenceIsKept` remove the two widths.

**`TraceEventProofs`.** Both theorems are about tasks that do not preempt each other in the
middle of a call (§4 says what happens where they do), any number of them, any nesting of
interrupts and any size of storage. `EveryDropCounted` (`DropsCounted`): the equation holds
between calls only. In a call `Balance` says, for each place among the loads and stores of the
counters, which of the two still lacks what; `OneCounts`, that one task at most is there.
`CaptureStep` is shared by a flush and a task's own capture; `CountStepKeeps` has a case for each
load and store. `EventsInOrder` (`RecordedOnceInOrder`). Its
invariant `OrderInv` says who holds the slot: an interrupt that has stored a reason and
not its event is the innermost one and keeps every other out (`SlotIsTaken`), so does a
flush until it frees the slot (`SlotIsFlushed`), and the event that waits in between was
captured before all that are recorded later (`WaitsFirst`).

**`CrashPathProofs`.** `EventsAreTrue` (`ReportsFirst`), `CrashesAreCounted`
(`CountsCrashesReported`) and `CoredumpIsKept` (`FirstCoredumpKept`), for every set of
reasons, width of the count and layout, and any number of crashes, resets and losses of
power. None is inductive. The reason in RAM is the first since the last report as long
as memory keeps its magic (`FirstIsStored`); the flag of a coredump is there only with
one that was completed (`FlagMeansSaved`), which needs that a save is of the crash under
way and storage had no coredump when it began (`SaveInProgress`); what the packetizer
reads is what is stored (`ReadingStored`). `SaveKeepsCrash` shows of every block, written
or failed in part, that it leaves the crash of the save and the header alone.

`CoredumpsAreWhole` (`CoredumpWhole`), for the same and any number of failing writes. Its
invariant `Saved` says what storage holds after each block of a save no write of which has
failed: blocks of this crash that follow one another and leave room for the footer
(`Laid`); the fixed ones, of which only the last may be cut, and only when no other fits
(`FixedLaid`), so that a save that cuts one never comes to its header; memory of earlier regions, in
order and aligned but for the last (`MemoryLaid`); every wanted region so far, unless the
context says truncated (`AllLaid`); and with room for all, the offset is where the walk of
`memfault_coredump_get_save_size` is (`RoomFor`). That walk is a recursive function over the
regions; that there is one, and that it grows to `SaveSize`, is proved by `SetInduction`
(`WalkIs`, `WalkUp`). One lemma says what an attempt at a block leaves, whether it fits, is cut, is
refused or fails (`BlockCases`), one how each part of the invariant goes on over a block
(`LaidGrows`, `FixedGrows`, `MemoryGrows`, `AllGrows`), and `FooterMakesWhole` takes the property from
the invariant when the footer is written.

**`PacketizerProofs`, the packetizer.** For every list of sources, sizes of messages and of buffers, and
order of calls (searches, masks, aborts, records, both ways of sending):
`SendsTheCurrentMessage` (`SizeIsCurrent`), `MessagesStayWhole` (`Intact`),
`SendsByChunks`, and the refinement `ImplementsOutbox` (`DeliveredOnceInOrder`). The
position in a message is kept in three places, the offset of the chunk transport, the
encoder's count and what the server has; `Sending` says how they agree, and that the size
the encoder caches is that of the message at the head of its source, whatever was
searched for in between (`EncoderInStep`). `NextChunk` is what one call of the chunk
transport does to an offset, for the three kinds of chunk at once; `GetNextKeeps` takes
the packetizer's own step from it. `SendsByChunks` shows that `Packetizer` drives the chunk
transport by its own steps, so that the theorems about it hold there (`ChunksOfThePacketizer`).
For `Outbox` one lemma per call maps its step to a record, a send or a stutter
(`RecordIsBox`, `SendIsBox`, `GetNextIsBox`).

**`MetricsProofs`.** Each of the six invariants of the run `metrics`, for any number of
sessions, tasks and builds, any widths and any time. They rest on one type invariant
(`Typed`) and one lemma per group of actions for what a property's variables keep. The
modulo is removed in one place: the difference of two readings of a clock that rolls
over is the time between them when that is below the width (`SinceNext`,
`IntervalIsSince`), and a 32-bit sum that wrapped and was clipped is the sum clipped
(`ClippedIsClamp`).

* `EverythingIsCounted` (`CountedOnce`), if amounts fit their types (`AmountsFit`) and the
  lines logged do not pass the `int32_t` they are reported as (`LinesFit`).
* `TimeIsReported` (`TimeReportedOnce`), if a value has room for twice the span of a timer
  (`TwiceTheTimer`: 32 bits and 31). `Timed` gives each timer its part in the value, its
  part still running and its part reported, and bounds the running part by the time since
  the heartbeat. The timers are updated one by one while time passes: one already updated has run
  for no longer than the update (`Updating`, with `UpdatingStep` and `TallyingStep`).
* `SessionsAreReported` (`SessionsReported`), if no session lasts 2^32 ms (`ShortSessions`)
  and amounts fit. Before boot has ended the marks in retained RAM are the sessions that
  resets interrupted, then those that are open (`Marked`); `SessionTimed` ties the marks to the
  timers.
* `HoursAreTheTime` (`HoursAccountForTime`), if a device that restores its metrics from deep
  sleep has no other reset (`SleepersNeverReset`; §4 says what goes wrong otherwise).
  `HoursCounted` is the equation at every step of the heartbeat, `FirstHourCounted` when the
  hours before a crash are deducted.
* `ConnectedIsWithin` (`ConnectedWithinExpected`), if one task reports the states of the
  connection (`OneReporter`; §4 again). A heartbeat can come between the two calls of a
  change; `Scripts` has the orders they come in, and in each the connected time runs only
  while the expected one does. `ConnectedInStep` says so at every step, with the time between the
  two updates: what one heartbeat reports too much the ones before it left in the timer (`apart`).
* `DropsWhileDischarging` (`DropWhileDischarging`), if a device with a battery does not restore its
  metrics from deep sleep (`BatteryAwake`): what becomes of the battery's state then is not
  modelled. `ChargeKnown` says at each step of the collection what the flag, the cached charge
  and the charger's history have to do with each other.

The invariant of each was checked by TLC on the instance of the run before its proof.
The hypotheses that name builds hold of those of the run.

**`RamLogProofs`.** `MissingAreCounted` (`DropsCounted`), `MarkedAreSent` (`SentAreMarked`),
`ReaderFindsAll` (`ReadAloneFindsAll`) and `LogsFit`, for every size of the ring and
of the logs, and any number of saves, tasks, collections, aborts and restores. They need
what a walk over the ring finds at an offset in bytes, which is a recursive sum. Its
existence and its laws are proved by `SetInduction`, induction stated over a set of
numbers: over it `SumExists` (the sum is there), `BytesNext` and `BytesShift`
(a sum one log longer, or begun one log later). The invariant `IInv`: the logs of the ring
are in order of saving and fit; `GivenOut` places every log that was read or sent;
`Collecting` says of a drain that what it has are the first of the logs the trigger
counted, still in the ring and unsent, since nothing is evicted while a collection is
on (`Reading`, `SentUpTo`), however the message was sized; `Holding` that the trigger, while it
sets its fields, holds the lock over logs that do not change. `BackedUp` says the same of the copy
a backup made, with the histories of then (`Copied`, `CopiedInOrder`, `CopiedGiven`,
`CopiedCounted`), so that a sleep at any later time restores a ring in order; what it loses is
`slept`, apart from all else (`Away`). `EvictCounts` shows that an eviction counts a log exactly
when it was neither read nor sent. `ReadAlone` is the further invariant of a device that
only reads: the read offset is the end of a log, what is before it was read, and an
eviction moves both by the same bytes; `CopiedAlone` says so of the copy.

**`EventStorageProofs`.** `BufferFramed` (`Framed`), `StoredWhole` (`CommitStores`),
`MessagesAreWhole` (`MessagesWellFormed`) and `EventsSentOnce` (`SentOnceInOrder`), for every size of the buffer and of the events, any number of tasks, persists, reads, aborts and resets. The
hypothesis of the first two is `Careful`: tasks record one at a time, because they hold the lock, run to completion or
there is one, and a backup for deep sleep is made between the calls of tasks that run to completion; the sleep
comes at any later time. Without it both
are false (§4: `begin_write` tests `write_in_progress` without the lock, and a backup may copy a record
half written); a device is careful if its only recorder is one task, or its tasks do not preempt each
other, or it records as `memfault_metrics_session_end` does. `MCEventStorage` assumes it of its builds, so
TLC evaluates it. The invariant `IInv` is `Typed`, `Asked` (what a look for data was for), `Exclusive`
(which tasks can be in a call) and `Recorded`: whole records (`Records`), then the `k` cells of the one being
written (`OpenAt`), where `k` is what `write_state` and the writer's place say (`Stage`, `Pending`); and the
read state ends where a record begins (`Starts`). `SavedWell` says the same of the copy a backup made: it
is of a buffer at rest, whatever the tasks do before the sleep. The last part makes a consume safe: a
read state computed before other tasks recorded more is still the end of a record. It needs
that `prv_compute_read_state` stops at such places only, which is a recursive function over the
cells (`Offset`): that there is one is `WalkExists`, that it stays on records `WalkStarts`, both by
`SetInduction`. There is one lemma per step of the writer, the persist and the drain;
`RecordsMore` and `RecordsDropped` say what appending and consuming do to whole records, and
`LayoutCommitted` and `LayoutRolledBack` what the end of a call does. The proof found one mistake of the
model: the cases of `AfterHasData` overlapped, and which was taken with nothing found was left to TLC.

`MessagesAreWhole` needs more, since `has_event`, `read`, `mark_event_read` and the write to NV storage each
use what an earlier call computed. Its invariant `MInv`, beside `IInv`: the read state takes the first `k`
events of the buffer, whole, with their size and number (`Takes`), whatever was recorded since;
what the drain has read is the beginning of the message it was told of, of the size it was told
(`Reading`), which nothing moves until it is marked read; what a persist writes is the message it looked for
(`OnItsWay`), and there is one to move (`Begun`); what the drain has read to the end is, until it is
marked, the message at the front (`AllRead`, `There`); NV storage that is not there is empty (`Emptied`); and which tasks
can be on such a way, looking in which storage, for what (`Answered`). `SavedTaken` is the first of these for the
read state of the copy. `ComputedTakes` shows of the recursive walk that it takes whole records, and `LaidOutIsFramed`
and its lemmas that the copy by `prv_event_storage_read_ram`, header by header, is what the server
can parse. The further hypotheses are one task that persists on request, and `Unshared`: NV
storage does not come or fail in the middle of a message; and where tasks are preempted it does
not come or fail at all, and is filled one event at a time by a task that does nothing else. They
exclude the divergences of §4, and they matter: `NvAsync` with two tasks in `Persister`, with
`batching`, with `sync` and a writer that does not hold the lock, or with `max_changes` above zero each violate
`MessagesWellFormed` and `SentOnceInOrder` in TLC. A device without NV storage always satisfies them, and so does one whose
tasks do not preempt each other and whose NV storage stays up for the length of a message.

`EventsSentOnce` is the refinement of `EventQueue`, under the hypotheses of `MessagesAreWhole` and a
bound `N` on `max_events`, which only makes `EventIds` a finite interval. What waits (`Waiting`) is the events of the
messages in NV storage, then those committed in RAM, less the front of the buffer while a persist has
stored it and not yet consumed it (`Copied`). Three facts carry the proof. The events of the message that a
read state stands for are those of the records it takes (`MessageEvents`, from `PieceEvents` a record at
a time), so storing it in NV moves them from the beginning of one list to the end of the other
(`NvWriteMoves`), consuming it takes the same cells (`MarkConsumeMoves`), and what the drain
delivers is the front of the queue (`NvMarkReadMoves`, `FrontSent`). No one else moves a message
meanwhile (`Sole`, of `MInv`), and recording more leaves what is copied alone (`RecordingCopies`). And an event
is committed once: `Numbered` says that what is queued or sent was begun, and what is being recorded has a
number that is neither; `SavedNumbered` says it of the copy. `StepMoves` has one case per action of the tasks: all are stutters of the queue (`Looks`, `AppendIdles`) but
the commit (`CommitGains`), the two marks (`Sends`), and what loses events: a boot the newest, NV storage
that comes or fails the oldest (`EnabledChangesMoves`), and a deep sleep brings back what was saved (`Saves`, `Wakes`, in
`BackupMoves` and `RestartMoves`). `AllSteps` puts them together. The lemmas
on lists of events (`UpToShift`, `KeptSplit`, `EventsJoined`, `MessageAppended`) come before. `EventsOf` and
`RamEvents` are written with one recursive function, `EventsUpTo`, so that they can be proved about.

**What stays with TLC.** Liveness and `ENABLED` (`EventuallySent`, `Completes`,
`Drained`, `StuckIsCaught`, `CollectionEnds`, `CallEnds`); `DecodesBack` of the run-length encoder, whose
`Decoded` is recursive over sequences; and `HttpClient`, whose parser is a fold over the
characters received.

## 6. What is left out

* In modelled parts: events of 64 KiB;
  two tasks among the counters of drops at once; what is added to metrics, and which timers and
  sessions are started or stopped, between the copy of the metrics and the loss of RAM at a deep
  sleep (`memfault_platform_deep_sleep.c:266`; `enter_sleep` does both at once), the two of which are apart
  for events and logs; a copy of the trigger's time that is torn in itself, or that a compiler
  moves behind the copy of its number of logs; the level filter,
  formatting and timestamps of logs, saving
  without the lock, and the export of logs to base64; the registers kept with a reboot
  reason, the backing store of reboot tracking, a crash before
  `memfault_reboot_tracking_boot`; a fault within the fault handler, and builds in
  which it returns, where `s_crash_reason` stays set for the next; a data source that
  changes between the two passes of the
  encoder (`memfault_data_source_rle.c:209` ignores the result of the read); trace events on several cores; signed and string metrics, the counters of
  syncs, `memfault_metrics_heartbeat_debug_trigger` from a task that is not the
  heartbeat's; the building of requests, URIs, TLS and name resolution.
* Whole parts: see `PROJECT.json`. Encodings (CBOR, base64, CRC, compact logs) are
  pure functions of bytes. Custom data recording is one more source of the packetizer,
  which `Packetizer` already drives. Of the SDK's C, `components/*.c` is a sixth; the
  rest is ports, examples and generated configuration: glue to an operating system, a
  modem or a chip whose behaviour is not in this repository. Two that carry logic of
  their own, the Zephyr client and what the ESP-IDF deep sleep saves, are modelled; other
  clients (mbedtls, nRF CoAP, cellular modems) repeat the first over other interfaces.

## 7. Plan

Done, in this order: ring and its proofs, event storage, chunk transport and its
proofs, packetizer, run-length source, watchdog, logs, crash path, metrics, trace
events, HTTP client, deep sleep and failing NV of event storage, the proofs of the watchdog,
trace events, crash path, packetizer, metrics, logs and event storage.

Next, most important first:

1. Proofs about `HttpClient`: `PayloadInOrder`.
2. `HeapStats`: the bounded list, entries linked once and the oldest reused.

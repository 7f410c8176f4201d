------------------------------ MODULE TraceEvent ------------------------------
(* components/core/src/memfault_trace_event.c over the event storage, with the *)
(* drop counters of memfault_serializer_helper.c.                              *)
(*                                                                             *)
(* A trace event captured in an interrupt waits in s_isr_trace_event, a single *)
(* slot, until a task flushes it.  Interrupts come between any two steps of a  *)
(* task, and of an interrupt of lower priority.  They run on the core of the   *)
(* tasks: no task goes on meanwhile.                                           *)
EXTENDS Integers, Sequences, SequencesExt

CONSTANTS
  Task,        \* tasks that capture and flush
  Preemptive,  \* whether a task runs in the middle of a call of another
  LEVELS,      \* priorities of interrupts that capture
  CAPACITY,    \* room of event storage
  WITH_LOG,    \* room a trace event with a log takes; one without takes 1
  MAX_EVENTS, MAX_FLUSHES \* bounds: captures, and calls to flush that find the slot in use
ASSUME SizeAssumption == {LEVELS, CAPACITY, WITH_LOG, MAX_EVENTS, MAX_FLUSHES} \subseteq Nat
ASSUME TaskAssumption == Preemptive \in BOOLEAN

VARIABLES
  booted,      \* s_memfault_trace_event_ctx.storage_impl is set
  slot,        \* s_isr_trace_event: its reason, and the event in info
  isr,         \* interrupts in the middle of a capture, the running one last
  task,        \* per task, where it is in a call and the event it captures
  counter,     \* per task, where it is among the drop counters and the sum it is about to store
  stored, sent, \* events in storage, and those drained from it
  drops,       \* s_num_storage_drops and s_last_drop_count
  captures,    \* events captured so far
  truth        \* what happened (history)

vars == <<booted, slot, isr, task, counter, stored, sent, drops, captures, truth>>

Unknown == "Unknown"  \* MEMFAULT_TRACE_REASON(Unknown)
Event == [id : 1..MAX_EVENTS, size : {1, WITH_LOG}, reason : {Unknown, "user"}]
None == [id |-> 0, size |-> 1, reason |-> Unknown]
Idle == [pc |-> "idle", event |-> None]
NotCounting == [pc |-> "none", sum |-> 0]

Init ==
  /\ booted = FALSE
  /\ slot = [reason |-> Unknown, info |-> None]
  /\ isr = <<>>
  /\ task = [t \in Task |-> Idle]
  /\ counter = [t \in Task |-> NotCounting]
  /\ stored = <<>> /\ sent = <<>>
  /\ drops = [num |-> 0, last |-> 0]
  /\ captures = 0
  \* accepted    events whose capture returned 0
  \* before      for each event, those accepted when its capture began
  \* lost        events an interrupt of lower priority wrote over, which they had interrupted
  \*             between its test and its stores; and those with the reason Unknown captured in
  \*             an interrupt, which leave the slot free
  \* retries     calls to flush that failed
  \* refused     those and the events of tasks that were refused, less the drops read
  /\ truth = [accepted |-> {}, before |-> [i \in 1..MAX_EVENTS |-> {}], lost |-> {},
              retries |-> 0, refused |-> 0]

-------------------------------------------------------------------------------
(* Storage *)
Used(s) == FoldLeft(LAMBDA n, e : n + e.size, 0, s)
Fits(e) == Used(stored) + e.size <= CAPACITY

\* prv_trace_event_capture, whose writes are EventStorage's: all of the event or nothing.
capture_event(e) == stored' = IF Fits(e) THEN Append(stored, e) ELSE stored

\* memfault_trace_event_boot, once the worst case was found to fit; that leaves logs out.
boot ==
  /\ ~booted
  /\ CAPACITY >= 1
  /\ booted' = TRUE
  /\ UNCHANGED <<slot, isr, task, counter, stored, sent, drops, captures, truth>>

\* The packetizer drains an event.
drain ==
  /\ isr = <<>> /\ stored # <<>>
  /\ stored' = Tail(stored)
  /\ sent' = Append(sent, Head(stored))
  /\ UNCHANGED <<booted, slot, isr, task, counter, drops, captures, truth>>

-------------------------------------------------------------------------------
(* Interrupts *)
Top == isr[Len(isr)]

\* A capture begins: an event with what was accepted by then.
NewEvent(e) ==
  /\ captures < MAX_EVENTS
  /\ e.id = captures + 1
  /\ captures' = captures + 1

\* prv_trace_event_capture_from_isr: the slot is tested ...
isr_capture(e) ==
  /\ Len(isr) < LEVELS
  /\ NewEvent(e)
  /\ truth' = [truth EXCEPT !.before[e.id] = truth.accepted]
  /\ isr' = IF booted /\ slot.reason = Unknown THEN Append(isr, [pc |-> "store", event |-> e]) ELSE isr
  /\ UNCHANGED <<booted, slot, task, counter, stored, sent, drops>>
\* ... its reason stored ...
isr_store ==
  /\ isr # <<>> /\ Top.pc = "store"
  /\ slot' = [slot EXCEPT !.reason = Top.event.reason]
  /\ isr' = [isr EXCEPT ![Len(isr)].pc = "copy"]
  /\ truth' = [truth EXCEPT !.lost = IF slot.reason # Unknown THEN @ \cup {slot.info.id} ELSE @]
  /\ UNCHANGED <<booted, task, counter, stored, sent, drops, captures>>
\* ... and the event copied.
isr_copy ==
  /\ isr # <<>> /\ Top.pc = "copy"
  /\ slot' = [slot EXCEPT !.info = Top.event]
  /\ isr' = Front(isr)
  /\ truth' = [truth EXCEPT !.accepted = @ \cup {Top.event.id},
                 !.lost = @ \cup (IF slot.reason # Top.event.reason THEN {slot.info.id} ELSE {})
                            \cup (IF Top.event.reason = Unknown THEN {Top.event.id} ELSE {})]
  /\ UNCHANGED <<booted, task, counter, stored, sent, drops, captures>>

-------------------------------------------------------------------------------
(* Tasks *)
InCall(t) == task[t].pc # "idle" \/ counter[t].pc # "none"
Runs(t) == isr = <<>> /\ (Preemptive \/ \A o \in Task \ {t} : ~InCall(o))
At(t, pc) == Runs(t) /\ task[t].pc = pc /\ counter[t].pc = "none"
Goes(t, pc) == task' = [task EXCEPT ![t].pc = pc]
Returns(t) == task' = [task EXCEPT ![t] = Idle]
Capturing(t) == task[t].event # None

(* The drop counters, which no lock protects: a statement that changes one loads *)
(* it and then stores it.                                                        *)
Counting(t, pc) == Runs(t) /\ counter[t].pc = pc
Counts(t, pc, sum) == counter' = [counter EXCEPT ![t] = [pc |-> pc, sum |-> sum]]
Counted(t) == counter' = [counter EXCEPT ![t] = NotCounting]

\* s_num_storage_drops++, after an event did not fit.
count_drop(t) ==
  /\ \/ Counting(t, "failed") /\ Counts(t, "drop", drops.num + 1) /\ UNCHANGED drops
     \/ /\ Counting(t, "drop") /\ Counted(t)
        /\ drops' = [drops EXCEPT !.num = counter[t].sum]
  /\ UNCHANGED <<booted, slot, isr, task, stored, sent, captures, truth>>

\* Mutant: the drops before a success are forgotten when there were some before them.
mut_count_success(t) ==
  /\ \/ /\ Counting(t, "stored") /\ UNCHANGED drops
        /\ IF drops.num = 0 THEN Counted(t) ELSE Counts(t, "add", 0)
     \/ Counting(t, "add") /\ Counts(t, "move", drops.num) /\ UNCHANGED drops
     \/ /\ Counting(t, "move") /\ Counts(t, "clear", 0)
        /\ drops' = [drops EXCEPT !.last = counter[t].sum]
     \/ Counting(t, "clear") /\ Counted(t) /\ drops' = [drops EXCEPT !.num = 0]
  /\ UNCHANGED <<booted, slot, isr, task, stored, sent, captures, truth>>
\* The drops before a success: s_last_drop_count += s_num_storage_drops; s_num_storage_drops = 0.
count_success(t) ==
  /\ \/ /\ Counting(t, "stored") /\ UNCHANGED drops
        /\ IF drops.num = 0 THEN Counted(t) ELSE Counts(t, "add", 0)
     \/ Counting(t, "add") /\ Counts(t, "move", drops.last + drops.num) /\ UNCHANGED drops
     \/ /\ Counting(t, "move") /\ Counts(t, "clear", 0)
        /\ drops' = [drops EXCEPT !.last = counter[t].sum]
     \/ Counting(t, "clear") /\ Counted(t) /\ drops' = [drops EXCEPT !.num = 0]
  /\ UNCHANGED <<booted, slot, isr, task, stored, sent, captures, truth>>
\* memfault_serializer_helper_encode_to_storage goes on to them.
Encoded(t, e) == Counts(t, IF Fits(e) THEN "stored" ELSE "failed", 0)

\* memfault_trace_event_capture and its variants, from a task.
capture(t, e) ==
  /\ booted /\ At(t, "idle") /\ NewEvent(e)
  /\ task' = [task EXCEPT ![t] = [pc |-> "flush", event |-> e]]
  /\ truth' = [truth EXCEPT !.before[e.id] = truth.accepted]
  /\ UNCHANGED <<booted, slot, isr, counter, stored, sent, drops>>
\* memfault_trace_event_try_flush_isr_event, called by whoever drains; the bound is on calls
\* that fail.
try_flush(t) ==
  /\ booted /\ At(t, "idle") /\ slot.reason # Unknown
  /\ Fits(slot.info) \/ truth.retries < MAX_FLUSHES
  /\ Goes(t, "flush")
  /\ UNCHANGED <<booted, slot, isr, counter, stored, sent, drops, captures, truth>>
flush_check(t) ==
  /\ At(t, "flush")
  /\ IF slot.reason # Unknown THEN Goes(t, "flush_capture")
     ELSE IF Capturing(t) THEN Goes(t, "capture")
     ELSE Returns(t)
  /\ UNCHANGED <<booted, slot, isr, counter, stored, sent, drops, captures, truth>>

\* Mutant: the task goes on to capture its event though the flush failed.
mut_flush_capture_goes_on(t) ==
  /\ At(t, "flush_capture")
  /\ capture_event(slot.info) /\ Encoded(t, slot.info)
  /\ Goes(t, IF Fits(slot.info) THEN "free" ELSE IF Capturing(t) THEN "capture" ELSE "idle")
  /\ truth' = [truth EXCEPT !.retries = IF ~Fits(slot.info) /\ ~Capturing(t) THEN @ + 1 ELSE @,
                             !.refused = IF Fits(slot.info) THEN @ ELSE @ + 1]
  /\ UNCHANGED <<booted, slot, isr, sent, drops, captures>>
\* Mutant: the slot is freed whether or not its event was stored.
mut_flush_capture_frees(t) ==
  /\ At(t, "flush_capture")
  /\ capture_event(slot.info) /\ Encoded(t, slot.info)
  /\ Goes(t, "free")
  /\ UNCHANGED <<booted, slot, isr, sent, drops, captures, truth>>
flush_capture(t) ==
  /\ At(t, "flush_capture")
  /\ capture_event(slot.info) /\ Encoded(t, slot.info)
  /\ IF Fits(slot.info) THEN Goes(t, "free") /\ UNCHANGED truth
     ELSE /\ Returns(t)
          /\ truth' = [truth EXCEPT !.refused = @ + 1,
                                    !.retries = IF Capturing(t) THEN @ ELSE @ + 1]
  /\ UNCHANGED <<booted, slot, isr, sent, drops, captures>>
\* The space is marked as free to use again.
flush_free(t) ==
  /\ At(t, "free")
  /\ slot' = [slot EXCEPT !.reason = Unknown]
  /\ IF Capturing(t) THEN Goes(t, "capture") ELSE Returns(t)
  /\ UNCHANGED <<booted, isr, counter, stored, sent, drops, captures, truth>>
capture_own(t) ==
  /\ At(t, "capture")
  /\ capture_event(task[t].event) /\ Encoded(t, task[t].event)
  /\ Returns(t)
  /\ truth' = IF Fits(task[t].event) THEN [truth EXCEPT !.accepted = @ \cup {task[t].event.id}]
              ELSE [truth EXCEPT !.refused = @ + 1]
  /\ UNCHANGED <<booted, slot, isr, sent, drops, captures>>

\* memfault_serializer_helper_read_drop_count ...
read_drop_count(t) ==
  /\ At(t, "idle") /\ drops.last + drops.num > 0
  /\ Counts(t, "read", drops.last + drops.num)
  /\ UNCHANGED <<booted, slot, isr, task, stored, sent, drops, captures, truth>>
\* ... sets both counters to zero and returns the sum.
clear_drops(t) ==
  /\ \/ /\ Counting(t, "read") /\ Counts(t, "read_last", counter[t].sum)
        /\ drops' = [drops EXCEPT !.last = 0] /\ UNCHANGED truth
     \/ /\ Counting(t, "read_last") /\ Counted(t)
        /\ drops' = [drops EXCEPT !.num = 0]
        /\ truth' = [truth EXCEPT !.refused = @ - counter[t].sum]
  /\ UNCHANGED <<booted, slot, isr, task, stored, sent, captures>>

CountStep(t) == count_drop(t) \/ count_success(t) \/ clear_drops(t)
TaskStep(t) ==
  flush_check(t) \/ flush_capture(t) \/ flush_free(t) \/ capture_own(t) \/ CountStep(t)
IsrStep == isr_store \/ isr_copy
\* Nothing is left to do within the bounds.
Waits ==
  /\ captures = MAX_EVENTS /\ isr = <<>> /\ stored = <<>>
  /\ \A t \in Task : ~InCall(t)
  /\ slot.reason = Unknown \/ ~Fits(slot.info)
  /\ UNCHANGED vars

Next ==
  \/ boot \/ drain \/ IsrStep \/ Waits
  \/ \E e \in Event : isr_capture(e) \/ \E t \in Task : capture(t, e)
  \/ \E t \in Task : try_flush(t) \/ TaskStep(t) \/ read_drop_count(t)

\* Interrupts return and tasks that run go on; whoever drains does, and calls
\* memfault_trace_event_try_flush_isr_event as trace_event.h recommends.
Fairness ==
  /\ WF_vars(IsrStep) /\ WF_vars(drain) /\ \A t \in Task : WF_vars(TaskStep(t))
  /\ WF_vars(\E t \in Task : try_flush(t))
Spec == Init /\ [][Next]_vars /\ Fairness

-------------------------------------------------------------------------------
(* Properties *)
Recorded == sent \o stored
Ids == {Recorded[i].id : i \in DOMAIN Recorded}
\* The event the slot holds, copied and not in storage yet.
Pending ==
  IF /\ slot.reason # Unknown
     /\ \A i \in DOMAIN isr : isr[i].pc = "copy" => isr[i].event.reason = Unknown
     /\ \A t \in Task : task[t].pc # "free"
  THEN {slot.info.id} ELSE {}

\* An event whose capture returned 0 is in storage, sent, or in the slot, and only once; except
\* those interrupts lose, see truth.lost.  No event is recorded whose capture was refused, and
\* events are recorded in the order they were captured, those from interrupts included: "We
\* flush any ISR pended events here so that the order in which events are captured is preserved".
RecordedOnceInOrder ==
  /\ \A i, j \in DOMAIN Recorded :
       i < j => /\ Recorded[i].id # Recorded[j].id
                /\ Recorded[j].id \notin truth.before[Recorded[i].id]
  /\ Ids \subseteq truth.accepted
  /\ Pending \cap Ids = {}
  /\ truth.accepted \ truth.lost \subseteq Ids \cup Pending

\* Between calls the drops read and to be read are the events of tasks that were refused, also
\* those refused because the event in the slot did not fit, and the calls to flush that failed.
DropsCounted == (\A t \in Task : ~InCall(t)) => drops.last + drops.num = truth.refused

\* An event an interrupt or a task captured is sent in the end.
EventuallySent ==
  \A i \in 1..MAX_EVENTS :
    i \in truth.accepted \ truth.lost ~> i \in truth.lost \cup {sent[k].id : k \in DOMAIN sent}

===============================================================================

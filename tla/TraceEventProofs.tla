---------------------------- MODULE TraceEventProofs ----------------------------
(* Trace events, for every number of tasks, every nesting of interrupts and      *)
(* every size of storage, where no task runs in the middle of a call of another: *)
(* drops are counted, and events are recorded once and in the order of their     *)
(* captures.  Where tasks do preempt each other both fail: nothing locks the     *)
(* drop counters, nor the slot against two tasks that flush it.                  *)
EXTENDS TraceEvent, TLAPS

CountPc == {"none", "failed", "drop", "stored", "add", "move", "clear", "read", "read_last"}
Counter == [pc : CountPc, sum : Nat]

\* The counters, and the count in the history, are of their types.
Types ==
  /\ drops \in [num : Nat, last : Nat]
  /\ counter \in [Task -> Counter]
  /\ truth = [accepted |-> truth.accepted, before |-> truth.before, lost |-> truth.lost,
              retries |-> truth.retries, refused |-> truth.refused]
  /\ truth.refused \in Int

\* One task at a time is among the counters.
OneCounts == \A t, u \in Task : counter[t].pc # "none" /\ counter[u].pc # "none" => t = u

\* What the counters d hold, and are about to hold, for a task that is at c among them, when n
\* refusals are to be read.
Balanced(c, d, n) ==
  /\ c.pc \in {"none", "stored", "add", "move", "read"} => d.last + d.num = n
  /\ c.pc \in {"failed", "drop"} => d.last + d.num + 1 = n
  /\ c.pc = "drop" => c.sum = d.num + 1
  /\ c.pc \in {"move", "read"} => c.sum = n
  /\ c.pc = "clear" => d.last = n
  /\ c.pc = "read_last" => c.sum = n /\ d.last = 0
Balance ==
  /\ (\A t \in Task : counter[t].pc = "none") => Balanced(NotCounting, drops, truth.refused)
  /\ \A t \in Task : counter[t].pc # "none" => Balanced(counter[t], drops, truth.refused)

IInv == Types /\ OneCounts /\ Balance

\* A task that runs finds the counters as it left them: no other is among them.
LEMMA Alone ==
  ASSUME ~Preemptive, IInv, NEW t \in Task, Runs(t)
  PROVE  /\ counter[t] \in Counter /\ Balanced(counter[t], drops, truth.refused)
         /\ \A u \in Task \ {t} : counter[u].pc = "none"
<1>1. \A u \in Task \ {t} : counter[u].pc = "none"
  BY DEF Runs, InCall
<1>2. CASE counter[t].pc = "none"
  <2>1. Balanced(NotCounting, drops, truth.refused)
    BY <1>1, <1>2 DEF IInv, Balance
  <2> QED BY <1>1, <1>2, <2>1 DEF IInv, Types, Balanced, NotCounting
<1>3. CASE counter[t].pc # "none"
  BY <1>1, <1>3 DEF IInv, Types, Balance
<1> QED BY <1>1, <1>2, <1>3

\* It goes on to c, with the counters balanced for that.
LEMMA CountGoesOn ==
  ASSUME ~Preemptive, IInv, NEW t \in Task, Runs(t),
         NEW c \in Counter, counter' = [counter EXCEPT ![t] = c],
         drops' \in [num : Nat, last : Nat],
         truth' = [truth EXCEPT !.accepted = truth'.accepted, !.retries = truth'.retries,
                                !.refused = truth'.refused],
         truth'.refused \in Int,
         Balanced(c, drops', truth'.refused)
  PROVE  IInv'
<1>1. /\ counter' \in [Task -> Counter] /\ counter'[t] = c
      /\ \A u \in Task \ {t} : counter'[u].pc = "none"
  BY Alone DEF IInv, Types
<1>2. Types'
  BY <1>1 DEF IInv, Types
<1>3. OneCounts'
  BY <1>1 DEF OneCounts
<1>4. Balance'
  <2>1. ASSUME NEW u \in Task, counter'[u].pc # "none"
        PROVE  u = t /\ counter'[u] = c
    BY <1>1, <2>1
  <2>2. c.pc = "none" => Balanced(NotCounting, drops', truth'.refused)
    BY DEF Balanced, NotCounting
  <2>3. ASSUME NEW u \in Task, counter'[u].pc # "none"
        PROVE  Balanced(counter'[u], drops', truth'.refused)
    BY <2>1, <2>3 DEF Balanced
  <2>4. (\A u \in Task : counter'[u].pc = "none") => Balanced(NotCounting, drops', truth'.refused)
    BY <1>1, <2>2
  <2> QED BY <2>3, <2>4 DEF Balance
<1> QED BY <1>2, <1>3, <1>4 DEF IInv

\* An event is encoded: a refusal is counted next.
LEMMA CaptureStep ==
  ASSUME ~Preemptive, IInv, NEW t \in Task, flush_capture(t) \/ capture_own(t)
  PROVE  IInv'
<1> DEFINE e == IF flush_capture(t) THEN slot.info ELSE task[t].event
           c == [pc |-> IF Fits(e) THEN "stored" ELSE "failed", sum |-> 0]
<1>1. /\ Runs(t) /\ counter[t].pc = "none" /\ UNCHANGED drops
      /\ counter' = [counter EXCEPT ![t] = c]
  BY DEF flush_capture, capture_own, At, Encoded, Counts
<1>2. drops.last + drops.num = truth.refused
  BY <1>1, Alone DEF Balanced
<1>3. /\ truth' = [truth EXCEPT !.accepted = truth'.accepted, !.retries = truth'.retries,
                               !.refused = truth'.refused]
      /\ truth'.refused = IF Fits(e) THEN truth.refused ELSE truth.refused + 1
  <2>1. CASE flush_capture(t)
    <3>1. CASE Fits(slot.info)
      BY <2>1, <3>1 DEF flush_capture, IInv, Types
    <3>2. CASE ~Fits(slot.info)
      <4>1. truth' = [truth EXCEPT !.refused = @ + 1, !.retries = IF Capturing(t) THEN @ ELSE @ + 1]
        BY <2>1, <3>2 DEF flush_capture
      <4> QED BY <2>1, <3>2, <4>1 DEF IInv, Types
    <3> QED BY <3>1, <3>2
  <2>2. CASE ~flush_capture(t)
    <3>1. truth' = IF Fits(e) THEN [truth EXCEPT !.accepted = @ \cup {e.id}]
                   ELSE [truth EXCEPT !.refused = @ + 1]
      BY <2>2 DEF capture_own
    <3> QED BY <3>1 DEF IInv, Types
  <2> QED BY <2>1, <2>2
<1>4. c \in Counter
  BY DEF Counter, CountPc
<1>5. Fits(e) => c.pc = "stored"
  OBVIOUS
<1>6. ~Fits(e) => c.pc = "failed"
  OBVIOUS
<1> HIDE DEF c, e
<1>7. drops' \in [num : Nat, last : Nat] /\ truth'.refused \in Int
  BY <1>1, <1>3 DEF IInv, Types
<1>8. Balanced(c, drops', truth'.refused)
  BY <1>1, <1>2, <1>3, <1>5, <1>6 DEF IInv, Types, Balanced
<1> QED BY <1>1, <1>3, <1>4, <1>7, <1>8, CountGoesOn

\* A statement that changes a counter: its load, then its store.
LEMMA CountStepKeeps ==
  ASSUME ~Preemptive, IInv, NEW t \in Task, CountStep(t) \/ read_drop_count(t)
  PROVE  IInv'
<1> DEFINE c == counter'[t]
<1>1. /\ Runs(t) /\ \E pc \in CountPc, sum \in Nat :
                      counter' = [counter EXCEPT ![t] = [pc |-> pc, sum |-> sum]]
  BY DEF CountStep, count_drop, count_success, clear_drops, read_drop_count, Counting, Counts,
         Counted, NotCounting, At, CountPc, Counter, IInv, Types
<1>2. c \in Counter /\ counter' = [counter EXCEPT ![t] = c]
  BY <1>1 DEF Counter, IInv, Types
<1>3. Balanced(counter[t], drops, truth.refused) /\ counter[t] \in Counter
  BY <1>1, Alone
<1>4. /\ drops' \in [num : Nat, last : Nat] /\ truth'.refused \in Int
      /\ truth' = [truth EXCEPT !.accepted = truth'.accepted, !.retries = truth'.retries,
                               !.refused = truth'.refused]
  <2>1. \/ drops' = drops
        \/ drops' = [drops EXCEPT !.num = counter[t].sum]
        \/ drops' = [drops EXCEPT !.last = counter[t].sum]
        \/ drops' = [drops EXCEPT !.last = 0]
        \/ drops' = [drops EXCEPT !.num = 0]
    BY DEF CountStep, count_drop, count_success, clear_drops, read_drop_count
  <2>2. \/ truth' = truth
        \/ truth' = [truth EXCEPT !.refused = @ - counter[t].sum]
    BY DEF CountStep, count_drop, count_success, clear_drops, read_drop_count
  <2>3. drops' \in [num : Nat, last : Nat]
    BY <1>3, <2>1 DEF Counter, IInv, Types
  <2>4. counter[t].sum \in Int
    BY <1>3 DEF Counter
  <2>5. CASE truth' = truth
    BY <2>3, <2>5 DEF IInv, Types
  <2>6. CASE truth' = [truth EXCEPT !.refused = @ - counter[t].sum]
    <3>1. PICK n : truth' = [truth EXCEPT !.refused = n] /\ n = truth.refused - counter[t].sum
      BY <2>6
    <3>2. n \in Int
      BY <2>4, <3>1 DEF IInv, Types
    <3> QED BY <2>3, <3>1, <3>2 DEF IInv, Types
  <2> QED BY <2>2, <2>5, <2>6
<1>5. Balanced(c, drops', truth'.refused)
  <2> USE DEF Counting, Counts, Counted, NotCounting, Balanced, Counter, IInv, Types
  <2>1. CASE count_drop(t)
    BY <1>3, <2>1 DEF count_drop
  <2>2. CASE count_success(t)
    BY <1>3, <2>2 DEF count_success
  <2>3. CASE clear_drops(t)
    BY <1>3, <2>3 DEF clear_drops
  <2>4. CASE read_drop_count(t)
    BY <1>3, <2>4 DEF read_drop_count, At
  <2> QED BY <2>1, <2>2, <2>3, <2>4 DEF CountStep
<1> HIDE DEF c
<1> QED BY <1>1, <1>2, <1>4, <1>5, CountGoesOn

\* Other steps change no counter, and no count.
LEMMA OtherStep ==
  ASSUME IInv, UNCHANGED <<drops, counter>>,
         \/ UNCHANGED truth
         \/ \E i, b : truth' = [truth EXCEPT !.before[i] = b]
         \/ \E a, l : truth' = [truth EXCEPT !.accepted = a, !.lost = l]
  PROVE  IInv'
<1>1. Types' /\ truth'.refused = truth.refused
  BY DEF IInv, Types
<1>2. OneCounts' /\ Balance'
  BY <1>1 DEF IInv, OneCounts, Balance, Balanced
<1> QED BY <1>1, <1>2 DEF IInv

LEMMA NextKeeps == ASSUME ~Preemptive, IInv, [Next]_vars PROVE IInv'
<1>1. CASE boot \/ drain \/ Waits \/ UNCHANGED vars
  BY <1>1, OtherStep DEF boot, drain, Waits, vars
<1>2. CASE isr_store
  <2>1. UNCHANGED <<drops, counter>> /\ \E a, l : truth' = [truth EXCEPT !.accepted = a, !.lost = l]
    <3>1. /\ truth' = [truth EXCEPT !.accepted = truth.accepted, !.lost = truth'.lost]
          /\ UNCHANGED <<drops, counter>>
      BY <1>2 DEF isr_store, IInv, Types
    <3> QED BY <3>1
  <2> QED BY <2>1, OtherStep
<1>3. CASE isr_copy
  <2>1. /\ UNCHANGED <<drops, counter>>
        /\ truth' = [truth EXCEPT !.accepted = truth'.accepted, !.lost = truth'.lost]
    BY <1>3 DEF isr_copy, IInv, Types
  <2> QED BY <2>1, OtherStep
<1>4. ASSUME NEW e \in Event, isr_capture(e) \/ \E t \in Task : capture(t, e) PROVE IInv'
  <2>1. UNCHANGED <<drops, counter>> /\ truth' = [truth EXCEPT !.before[e.id] = truth.accepted]
    BY <1>4 DEF isr_capture, capture
  <2> QED BY <2>1, OtherStep
<1>5. ASSUME NEW t \in Task, try_flush(t) \/ flush_check(t) \/ flush_free(t) PROVE IInv'
  BY <1>5, OtherStep DEF try_flush, flush_check, flush_free
<1>6. ASSUME NEW t \in Task, flush_capture(t) \/ capture_own(t) PROVE IInv'
  BY <1>6, CaptureStep
<1>7. ASSUME NEW t \in Task, CountStep(t) \/ read_drop_count(t) PROVE IInv'
  BY <1>7, CountStepKeeps
<1> QED BY <1>1, <1>2, <1>3, <1>4, <1>5, <1>6, <1>7 DEF Next, IsrStep, TaskStep

-------------------------------------------------------------------------------
\* Where tasks do not preempt each other in the middle of a call: between calls, what
\* memfault_serializer_helper_read_drop_count has read and will read is the events of tasks
\* that were refused, those refused because the event in the slot did not fit included, and the
\* calls to flush that failed.
THEOREM EveryDropCounted == ASSUME ~Preemptive PROVE Spec => []DropsCounted
<1>1. Init => IInv
  BY DEF Init, IInv, Types, OneCounts, Balance, Balanced, NotCounting, Counter, CountPc
<1>2. IInv /\ [Next]_vars => IInv'
  BY NextKeeps
<1>3. IInv => DropsCounted
  BY DEF IInv, Balance, Balanced, NotCounting, DropsCounted, InCall
<1> QED BY <1>1, <1>2, <1>3, PTL DEF Spec

-------------------------------------------------------------------------------
(* Where no task runs in the middle of a call of another. *)

Capture == [pc : {"store", "copy"}, event : Event]

OrderTypes ==
  /\ slot \in [reason : {Unknown, "user"}, info : Event \cup {None}]
  /\ isr \in Seq(Capture)
  /\ task \in [Task -> [pc : {"idle", "flush", "flush_capture", "free", "capture"},
                        event : Event \cup {None}]]
  /\ stored \in Seq(Event) /\ sent \in Seq(Event)
  /\ captures \in Nat
  /\ truth = [accepted |-> truth.accepted, before |-> truth.before, lost |-> truth.lost,
              retries |-> truth.retries, refused |-> truth.refused]
  /\ truth.accepted \subseteq 1..captures
  /\ truth.before \in [1..MAX_EVENTS -> SUBSET truth.accepted]

\* One task at a time is in a call, and an idle one has no event.
OneTaskRuns ==
  /\ \A t, u \in Task : task[t].pc # "idle" /\ task[u].pc # "idle" => t = u
  /\ \A t \in Task : task[t].pc = "idle" => task[t].event = None
  /\ \A t \in Task : task[t].pc = "capture" => task[t].event # None

\* Events in the middle of their capture are different ones, and were not accepted.
InFlight ==
  /\ \A i \in DOMAIN isr : isr[i].event.id \in 1..captures \ truth.accepted
  /\ \A i, j \in DOMAIN isr : isr[i].event.id = isr[j].event.id => i = j
  /\ \A t \in Task : task[t].event # None =>
       /\ task[t].event.id \in 1..captures \ truth.accepted
       /\ \A i \in DOMAIN isr : isr[i].event.id # task[t].event.id

\* An interrupt that stored a reason other than Unknown keeps all others out until its event
\* is copied.
SlotIsTaken ==
  \A i \in DOMAIN isr :
    isr[i].pc = "copy" /\ isr[i].event.reason # Unknown =>
      i = Len(isr) /\ slot.reason = isr[i].event.reason

\* So does the event in the slot while a task flushes it.
SlotIsFlushed ==
  \A t \in Task : task[t].pc \in {"flush_capture", "free"} => slot.reason # Unknown /\ isr = <<>>

\* The event that waits in the slot was accepted, and no event that is recorded, or that a
\* task is about to record, was captured after that.
Holds ==
  /\ slot.reason # Unknown
  /\ \A i \in DOMAIN isr : isr[i].pc = "copy" => isr[i].event.reason = Unknown
  /\ \A t \in Task : task[t].pc # "free"
WaitsFirst ==
  Holds =>
    /\ slot.info.id \in truth.accepted
    /\ \A i \in DOMAIN Recorded : slot.info.id \notin truth.before[Recorded[i].id]
    /\ \A t \in Task : task[t].pc = "capture" => slot.info.id \notin truth.before[task[t].event.id]

OrderInv == /\ OrderTypes /\ OneTaskRuns /\ InFlight /\ SlotIsTaken /\ SlotIsFlushed
            /\ WaitsFirst /\ RecordedOnceInOrder

LEMMA Assembling ==
  ASSUME NEW S, NEW s \in Seq(S), NEW r \in Seq(S)
  PROVE  /\ s \o r \in Seq(S)
         /\ \A e \in S : s \o Append(r, e) = Append(s \o r, e)
         /\ r # <<>> => /\ Head(r) \in S /\ Tail(r) \in Seq(S)
                       /\ Append(s, Head(r)) \o Tail(r) = s \o r
<1>1. s \o r \in Seq(S)
  OBVIOUS
<1>2. ASSUME NEW e \in S PROVE s \o Append(r, e) = Append(s \o r, e)
  OBVIOUS
<1>3. ASSUME r # <<>>
      PROVE  /\ Head(r) \in S /\ Tail(r) \in Seq(S)
             /\ Append(s, Head(r)) \o Tail(r) = s \o r
  BY <1>3
<1> QED BY <1>1, <1>2, <1>3

\* Recorded events are in order, and one more goes behind them.
InOrder(s) ==
  \A i, j \in DOMAIN s :
    i < j => s[i].id # s[j].id /\ s[j].id \notin truth.before[s[i].id]

LEMMA OneMore ==
  ASSUME NEW s \in Seq(Event), NEW e \in Event, InOrder(s),
         \A i \in DOMAIN s : s[i].id # e.id /\ e.id \notin truth.before[s[i].id]
  PROVE  /\ InOrder(Append(s, e))
         /\ {Append(s, e)[i].id : i \in DOMAIN Append(s, e)} = {s[i].id : i \in DOMAIN s} \cup {e.id}
<1> DEFINE r == Append(s, e)
<1>1. /\ r \in Seq(Event) /\ DOMAIN r = DOMAIN s \cup {Len(s) + 1}
      /\ DOMAIN s = 1..Len(s) /\ Len(s) \in Nat
      /\ \A i \in DOMAIN s : r[i] = s[i]
      /\ r[Len(s) + 1] = e
  OBVIOUS
<1> HIDE DEF r
<1>2. InOrder(r)
  BY <1>1 DEF InOrder
<1>3. {r[i].id : i \in DOMAIN r} = {s[i].id : i \in DOMAIN s} \cup {e.id}
  BY <1>1
<1> QED BY <1>2, <1>3 DEF r

LEMMA RecordedTyped == OrderTypes => Recorded \in Seq(Event)
BY Assembling DEF OrderTypes, Recorded

LEMMA EventIsSomething == None \notin Event
BY DEF None, Event

\* The parts of the order that a step leaves alone which changes nothing they look at.
LEMMA UnlessTouched ==
  ASSUME OrderInv, Recorded' = Recorded, UNCHANGED <<slot, isr, captures>>,
         truth'.accepted = truth.accepted, truth'.before = truth.before, truth'.lost = truth.lost,
         \A t \in Task : task'[t].pc = "free" <=> task[t].pc = "free",
         \A t \in Task : task'[t].pc = "capture" =>
           task[t] = task'[t] \/ slot.reason = Unknown
  PROVE  SlotIsTaken' /\ WaitsFirst' /\ RecordedOnceInOrder'
<1>1. Holds' = Holds
  BY DEF Holds
<1>2. Pending' = Pending /\ Ids' = Ids
  BY DEF Pending, Ids
<1>3. SlotIsTaken'
  BY DEF OrderInv, SlotIsTaken
<1>4. WaitsFirst'
  BY <1>1 DEF OrderInv, WaitsFirst, Holds
<1>5. RecordedOnceInOrder'
  BY <1>2 DEF OrderInv, RecordedOnceInOrder
<1> QED BY <1>3, <1>4, <1>5

LEMMA OrderInit == Init => OrderInv
<1> SUFFICES ASSUME Init PROVE OrderInv
  OBVIOUS
<1>1. Recorded = <<>>
  BY DEF Init, Recorded
<1>2. OrderTypes
  BY SizeAssumption DEF Init, OrderTypes, Idle, None, Unknown
<1>3. OneTaskRuns /\ InFlight /\ SlotIsTaken /\ SlotIsFlushed /\ WaitsFirst
  BY DEF Init, OneTaskRuns, InFlight, SlotIsTaken, SlotIsFlushed, WaitsFirst, Holds, Idle
<1>4. RecordedOnceInOrder
  BY <1>1 DEF Init, RecordedOnceInOrder, Ids, Pending
<1> QED BY <1>2, <1>3, <1>4 DEF OrderInv

LEMMA DrainKeepsOrder ==
  ASSUME OrderInv,
         boot \/ drain \/ (\E t \in Task : CountStep(t) \/ read_drop_count(t)) \/ UNCHANGED vars
  PROVE  OrderInv'
<1>1. /\ UNCHANGED <<slot, isr, task, captures>>
      /\ stored' \in Seq(Event) /\ sent' \in Seq(Event) /\ Recorded' = Recorded
  <2>1. CASE drain
    BY <2>1, Assembling DEF drain, Recorded, OrderInv, OrderTypes
  <2>2. CASE UNCHANGED <<slot, isr, task, captures, stored, sent>>
    BY <2>2 DEF Recorded, OrderInv, OrderTypes
  <2> QED BY <2>1, <2>2
          DEF boot, CountStep, count_drop, count_success, clear_drops, read_drop_count, vars
<1>2. /\ truth'.accepted = truth.accepted /\ truth'.before = truth.before
      /\ truth'.lost = truth.lost
      /\ truth' = [accepted |-> truth'.accepted, before |-> truth'.before, lost |-> truth'.lost,
                   retries |-> truth'.retries, refused |-> truth'.refused]
  <2>1. truth' = truth \/ \E n : truth' = [truth EXCEPT !.refused = n]
    <3>1. CASE \E t \in Task : clear_drops(t)
      BY <3>1 DEF clear_drops
    <3>2. CASE ~\E t \in Task : clear_drops(t)
      BY <3>2 DEF boot, drain, CountStep, count_drop, count_success, read_drop_count, vars
    <3> QED BY <3>1, <3>2
  <2> QED BY <2>1 DEF OrderInv, OrderTypes
<1>3. OrderTypes' /\ OneTaskRuns' /\ InFlight' /\ SlotIsFlushed'
  BY <1>1, <1>2 DEF OrderInv, OrderTypes, OneTaskRuns, InFlight, SlotIsFlushed
<1>4. SlotIsTaken' /\ WaitsFirst' /\ RecordedOnceInOrder'
  BY <1>1, <1>2, UnlessTouched
<1> QED BY <1>3, <1>4 DEF OrderInv

\* A task goes on by itself: no other is in a call.
LEMMA TaskGoesOn ==
  ASSUME ~Preemptive, OrderInv, NEW t \in Task, Runs(t),
         NEW pc \in {"idle", "flush", "flush_capture", "free", "capture"},
         NEW e \in {None, task[t].event},
         task' = [task EXCEPT ![t] = [pc |-> pc, event |-> e]],
         pc = "idle" => e = None,
         pc = "capture" => e # None
  PROVE  /\ OneTaskRuns'
         /\ task' \in [Task -> [pc : {"idle", "flush", "flush_capture", "free", "capture"},
                                event : Event \cup {None}]]
         /\ task'[t] = [pc |-> pc, event |-> e]
         /\ \A u \in Task : u # t => task'[u] = task[u] /\ task[u].pc = "idle"
         /\ \A u \in Task : task'[u].event # None => u = t /\ task'[u].event = task[t].event
<1>1. task[t].event \in Event \cup {None}
  BY DEF OrderInv, OrderTypes
<1>2. \A u \in Task : u # t => task[u].pc = "idle" /\ task'[u] = task[u]
  BY DEF Runs, InCall, OrderInv, OrderTypes
<1>3. task'[t] = [pc |-> pc, event |-> e]
  BY DEF OrderInv, OrderTypes
<1>4. task' \in [Task -> [pc : {"idle", "flush", "flush_capture", "free", "capture"},
                         event : Event \cup {None}]]
  BY <1>1 DEF OrderInv, OrderTypes
<1> QED BY <1>1, <1>2, <1>3, <1>4 DEF OrderInv, OneTaskRuns

\* Goes and Returns in the form of TaskGoesOn.
LEMMA Moves ==
  ASSUME OrderTypes, NEW t \in Task, NEW pc
  PROVE  /\ Goes(t, pc) => task' = [task EXCEPT ![t] = [pc |-> pc, event |-> task[t].event]]
         /\ Returns(t) => task' = [task EXCEPT ![t] = [pc |-> "idle", event |-> None]]
<1>1. [task[t] EXCEPT !.pc = pc] = [pc |-> pc, event |-> task[t].event]
  BY DEF OrderTypes
<1> QED BY <1>1 DEF Goes, Returns, Idle

LEMMA FlushKeepsOrder ==
  ASSUME ~Preemptive, OrderInv, NEW t \in Task,
         \/ try_flush(t) \/ flush_check(t)
         \/ flush_capture(t) /\ ~Fits(slot.info)
  PROVE  OrderInv'
<1>1. /\ UNCHANGED <<slot, isr, captures, stored, sent>>
      /\ Runs(t)
      /\ truth' = [truth EXCEPT !.retries = truth'.retries, !.refused = truth'.refused]
      /\ task[t].pc # "free"
  BY DEF try_flush, flush_check, flush_capture, capture_event, At, OrderInv, OrderTypes
<1>2. Recorded' = Recorded
  BY <1>1 DEF Recorded
<1>3. PICK pc \in {"idle", "flush", "flush_capture", "capture"}, e \in {None, task[t].event} :
        /\ task' = [task EXCEPT ![t] = [pc |-> pc, event |-> e]]
        /\ pc = "idle" => e = None
        /\ pc = "capture" => e # None /\ slot.reason = Unknown
        /\ pc = "flush_capture" => slot.reason # Unknown
  BY Moves DEF try_flush, flush_check, flush_capture, Capturing, OrderInv
<1>4. /\ OneTaskRuns'
      /\ task' \in [Task -> [pc : {"idle", "flush", "flush_capture", "free", "capture"},
                             event : Event \cup {None}]]
      /\ task'[t] = [pc |-> pc, event |-> e]
      /\ \A u \in Task : u # t => task'[u] = task[u] /\ task[u].pc = "idle"
      /\ \A u \in Task : task'[u].event # None => u = t /\ task'[u].event = task[t].event
  <2>1. pc \in {"idle", "flush", "flush_capture", "free", "capture"} /\ Runs(t)
    BY <1>1, <1>3
  <2> QED BY <1>3, <2>1, TaskGoesOn, Zenon
<1>5. /\ truth'.accepted = truth.accepted /\ truth'.before = truth.before
      /\ truth'.lost = truth.lost
  BY <1>1 DEF OrderInv, OrderTypes
<1>6. OrderTypes'
  BY <1>1, <1>4, <1>5 DEF OrderInv, OrderTypes
<1>7. InFlight'
  BY <1>1, <1>4, <1>5 DEF OrderInv, InFlight
<1>8. SlotIsFlushed'
  BY <1>1, <1>3, <1>4 DEF SlotIsFlushed, Runs
<1>9. SlotIsTaken' /\ WaitsFirst' /\ RecordedOnceInOrder'
  <2>1. \A u \in Task : task'[u].pc = "free" <=> task[u].pc = "free"
    BY <1>1, <1>3, <1>4
  <2>2. \A u \in Task : task'[u].pc = "capture" => task[u] = task'[u] \/ slot.reason = Unknown
    BY <1>3, <1>4
  <2> QED BY <1>1, <1>2, <1>5, <2>1, <2>2, UnlessTouched
<1> QED BY <1>4, <1>6, <1>7, <1>8, <1>9 DEF OrderInv

\* The event in the slot is recorded: it was accepted, and those recorded before it were
\* captured without knowing of it.
LEMMA SlotIsRecorded ==
  ASSUME ~Preemptive, OrderInv, NEW t \in Task, flush_capture(t), Fits(slot.info)
  PROVE  OrderInv'
<1>1. /\ UNCHANGED <<slot, isr, captures, sent, truth>>
      /\ stored' = Append(stored, slot.info) /\ Goes(t, "free")
      /\ Runs(t) /\ task[t].pc = "flush_capture"
  BY DEF flush_capture, capture_event, At
<1>2. task' = [task EXCEPT ![t] = [pc |-> "free", event |-> task[t].event]]
  BY <1>1, Moves DEF OrderInv
<1>3. /\ OneTaskRuns'
      /\ task' \in [Task -> [pc : {"idle", "flush", "flush_capture", "free", "capture"},
                             event : Event \cup {None}]]
      /\ task'[t].pc = "free"
      /\ \A u \in Task : u # t => task'[u] = task[u] /\ task[u].pc = "idle"
      /\ \A u \in Task : task'[u].event # None => u = t /\ task'[u].event = task[t].event
  BY <1>1, <1>2, TaskGoesOn
<1>4. slot.reason # Unknown /\ isr = <<>>
  BY <1>1 DEF OrderInv, SlotIsFlushed
<1>5. Holds
  BY <1>1, <1>3, <1>4 DEF Holds
<1>6. /\ slot.info.id \in truth.accepted
      /\ slot.info \in Event
      /\ \A i \in DOMAIN Recorded : /\ slot.info.id \notin truth.before[Recorded[i].id]
                                   /\ Recorded[i].id # slot.info.id
  <2>1. slot.info.id \notin Ids
    BY <1>5 DEF Holds, OrderInv, RecordedOnceInOrder, Pending
  <2>2. slot.info \in Event
    BY <1>5 DEF OrderInv, WaitsFirst, OrderTypes, None
  <2> QED BY <1>5, <2>1, <2>2 DEF OrderInv, WaitsFirst, Ids
<1>7. Recorded \in Seq(Event) /\ Recorded' = Append(Recorded, slot.info)
  BY <1>1, <1>6, Assembling, RecordedTyped DEF Recorded, OrderInv, OrderTypes
<1>8. OrderTypes'
  BY <1>1, <1>3, <1>6 DEF OrderInv, OrderTypes
<1>9. InFlight' /\ SlotIsFlushed' /\ SlotIsTaken'
  BY <1>1, <1>3, <1>4 DEF OrderInv, InFlight, SlotIsFlushed, SlotIsTaken
<1>10. WaitsFirst'
  BY <1>3 DEF WaitsFirst, Holds
<1>11. InOrder(Recorded') /\ Ids' = Ids \cup {slot.info.id}
  <2> DEFINE r == Recorded
             e == slot.info
  <2>1. InOrder(r)
    BY DEF OrderInv, RecordedOnceInOrder, InOrder
  <2>2. /\ r \in Seq(Event) /\ e \in Event
        /\ \A i \in DOMAIN r : r[i].id # e.id /\ e.id \notin truth.before[r[i].id]
    BY <1>6, <1>7
  <2> HIDE DEF r, e
  <2>3. /\ InOrder(Append(r, e))
        /\ {Append(r, e)[i].id : i \in DOMAIN Append(r, e)} = {r[i].id : i \in DOMAIN r} \cup {e.id}
    BY <2>1, <2>2, OneMore
  <2>4. Recorded' = Append(r, e)
    BY <1>7 DEF r, e
  <2> QED BY <2>3, <2>4 DEF r, e, Ids
<1>12. RecordedOnceInOrder'
  <2>1. Pending' = {} /\ Pending = {slot.info.id}
    BY <1>3, <1>5 DEF Pending, Holds
  <2> QED BY <1>1, <1>6, <1>11, <2>1 DEF RecordedOnceInOrder, OrderInv, InOrder
<1> QED BY <1>3, <1>8, <1>9, <1>10, <1>12 DEF OrderInv

LEMMA FreeKeepsOrder ==
  ASSUME ~Preemptive, OrderInv, NEW t \in Task, flush_free(t)
  PROVE  OrderInv'
<1>1. /\ UNCHANGED <<isr, captures, stored, sent, truth>>
      /\ slot' = [slot EXCEPT !.reason = Unknown]
      /\ Runs(t) /\ task[t].pc = "free"
  BY DEF flush_free, At
<1>2. PICK pc \in {"idle", "capture"}, e \in {None, task[t].event} :
        /\ task' = [task EXCEPT ![t] = [pc |-> pc, event |-> e]]
        /\ pc = "idle" => e = None
        /\ pc = "capture" => e # None
  BY Moves DEF flush_free, Capturing, OrderInv
<1>3. /\ OneTaskRuns'
      /\ task' \in [Task -> [pc : {"idle", "flush", "flush_capture", "free", "capture"},
                             event : Event \cup {None}]]
      /\ task'[t] = [pc |-> pc, event |-> e]
      /\ \A u \in Task : u # t => task'[u] = task[u] /\ task[u].pc = "idle"
      /\ \A u \in Task : task'[u].event # None => u = t /\ task'[u].event = task[t].event
  BY <1>1, <1>2, TaskGoesOn
<1>4. isr = <<>> /\ slot'.reason = Unknown
      /\ slot' \in [reason : {Unknown, "user"}, info : Event \cup {None}]
  BY <1>1 DEF OrderInv, SlotIsFlushed, OrderTypes
<1>5. OrderTypes'
  BY <1>1, <1>3, <1>4 DEF OrderInv, OrderTypes
<1>6. InFlight' /\ SlotIsFlushed' /\ SlotIsTaken' /\ WaitsFirst'
  BY <1>1, <1>2, <1>3, <1>4
  DEF OrderInv, InFlight, SlotIsFlushed, SlotIsTaken, WaitsFirst, Holds
<1>7. RecordedOnceInOrder'
  <2>1. Pending' = {} /\ Pending = {}
    BY <1>1, <1>4 DEF Pending
  <2>2. Recorded' = Recorded /\ Ids' = Ids
    BY <1>1 DEF Recorded, Ids
  <2> QED BY <1>1, <2>1, <2>2 DEF RecordedOnceInOrder, OrderInv
<1> QED BY <1>3, <1>5, <1>6, <1>7 DEF OrderInv

\* A task records its own event: an event in the slot came after it.
LEMMA OwnKeepsOrder ==
  ASSUME ~Preemptive, OrderInv, NEW t \in Task, capture_own(t)
  PROVE  OrderInv'
<1> DEFINE e == task[t].event
<1>1. /\ UNCHANGED <<slot, isr, captures, sent>>
      /\ Runs(t) /\ task[t].pc = "capture"
      /\ task' = [task EXCEPT ![t] = [pc |-> "idle", event |-> None]]
  BY Moves DEF capture_own, At, OrderInv
<1>2. /\ OneTaskRuns'
      /\ task' \in [Task -> [pc : {"idle", "flush", "flush_capture", "free", "capture"},
                             event : Event \cup {None}]]
      /\ task'[t].pc = "idle"
      /\ \A u \in Task : u # t => task'[u] = task[u] /\ task[u].pc = "idle"
      /\ \A u \in Task : task'[u].event = None
  BY <1>1, TaskGoesOn
<1>3. isr = <<>> /\ e \in Event /\ e.id \in 1..captures \ truth.accepted
  BY <1>1 DEF Runs, OrderInv, OneTaskRuns, OrderTypes, InFlight
<1>4. \A u \in Task : task'[u].pc = "idle"
  BY <1>2
<1>5. Holds' = Holds
  BY <1>1, <1>2 DEF Holds
<1>6. CASE ~Fits(e)
  <2>1. /\ stored' = stored
        /\ truth' = [truth EXCEPT !.refused = truth'.refused]
    BY <1>6 DEF capture_own, capture_event, OrderInv, OrderTypes
  <2>2. /\ truth'.accepted = truth.accepted /\ truth'.before = truth.before
        /\ truth'.lost = truth.lost
    BY <2>1 DEF OrderInv, OrderTypes
  <2>3. OrderTypes'
    BY <1>1, <1>2, <2>1, <2>2 DEF OrderInv, OrderTypes
  <2>4. InFlight' /\ SlotIsFlushed'
    BY <1>1, <1>2, <1>4, <2>2 DEF OrderInv, InFlight, SlotIsFlushed
  <2>5. SlotIsTaken' /\ WaitsFirst' /\ RecordedOnceInOrder'
    BY <1>1, <1>2, <1>4, <2>1, <2>2, UnlessTouched DEF Recorded
  <2> QED BY <1>2, <2>3, <2>4, <2>5 DEF OrderInv
<1>7. CASE Fits(e)
  <2>1. /\ stored' = Append(stored, e)
        /\ truth' = [truth EXCEPT !.accepted = @ \cup {e.id}]
    BY <1>7 DEF capture_own, capture_event
  <2>2. /\ truth'.accepted = truth.accepted \cup {e.id} /\ truth'.before = truth.before
        /\ truth'.lost = truth.lost
        /\ truth' = [accepted |-> truth'.accepted, before |-> truth'.before, lost |-> truth'.lost,
                     retries |-> truth'.retries, refused |-> truth'.refused]
    BY <2>1 DEF OrderInv, OrderTypes
  <2>3. Recorded \in Seq(Event) /\ Recorded' = Append(Recorded, e)
    BY <1>1, <1>3, <2>1, Assembling, RecordedTyped DEF Recorded, OrderInv, OrderTypes
  <2>4. OrderTypes'
    BY <1>1, <1>2, <1>3, <2>1, <2>2 DEF OrderInv, OrderTypes
  <2>5. InFlight' /\ SlotIsFlushed' /\ SlotIsTaken'
    BY <1>1, <1>2, <1>3, <1>4 DEF InFlight, SlotIsFlushed, SlotIsTaken
  <2>6. \A i \in DOMAIN Recorded :
          /\ Recorded[i].id \in truth.accepted
          /\ Recorded[i].id \in 1..MAX_EVENTS
          /\ truth.before[Recorded[i].id] \subseteq truth.accepted
    <3>1. \A i \in DOMAIN Recorded : Recorded[i] \in Event /\ Recorded[i].id \in Ids
      BY <2>3 DEF Ids
    <3>2. \A v \in Event : v.id \in 1..MAX_EVENTS
      BY DEF Event
    <3> QED BY <3>1, <3>2 DEF OrderInv, OrderTypes, RecordedOnceInOrder
  <2>7. InOrder(Recorded') /\ Ids' = Ids \cup {e.id}
    BY <1>3, <2>3, <2>6, OneMore DEF Ids, OrderInv, RecordedOnceInOrder, InOrder
  <2>8. WaitsFirst'
    <3>1. SUFFICES ASSUME Holds
                   PROVE  /\ slot.info.id \in truth.accepted
                          /\ \A i \in DOMAIN Recorded' :
                               slot.info.id \notin truth.before[Recorded'[i].id]
      BY <1>1, <1>4, <1>5, <2>2 DEF WaitsFirst
    <3>2. /\ slot.info.id \in truth.accepted
          /\ slot.info.id \notin truth.before[e.id]
          /\ \A i \in DOMAIN Recorded : slot.info.id \notin truth.before[Recorded[i].id]
      BY <1>1, <3>1 DEF OrderInv, WaitsFirst
    <3>3. \A i \in DOMAIN Recorded' : Recorded'[i] = e \/ (i \in DOMAIN Recorded /\ Recorded'[i] = Recorded[i])
      BY <1>3, <2>3
    <3> QED BY <3>2, <3>3
  <2>9. RecordedOnceInOrder'
    <3>1. Pending' = Pending
      BY <1>1, <1>5 DEF Pending, Holds
    <3>2. e.id \notin Pending
      BY <1>3 DEF Pending, OrderInv, WaitsFirst, Holds
    <3> QED BY <2>2, <2>7, <3>1, <3>2 DEF RecordedOnceInOrder, OrderInv, InOrder
  <2> QED BY <1>2, <2>4, <2>5, <2>8, <2>9 DEF OrderInv
<1> QED BY <1>6, <1>7

-------------------------------------------------------------------------------
LEMMA TopTyped ==
  ASSUME OrderTypes, isr # <<>>
  PROVE  /\ Len(isr) \in Nat \ {0} /\ DOMAIN isr = 1..Len(isr) /\ Len(isr) \in DOMAIN isr
         /\ Top = isr[Len(isr)] /\ Top \in Capture /\ Top.event \in Event
<1>1. isr \in Seq(Capture)
  BY DEF OrderTypes
<1>2. /\ Len(isr) \in Nat \ {0} /\ DOMAIN isr = 1..Len(isr) /\ Len(isr) \in DOMAIN isr
      /\ isr[Len(isr)] \in Capture
  BY <1>1
<1> QED BY <1>2 DEF Top, Capture

\* A capture begins, in a task or in an interrupt: its event is new to all there is.
LEMMA BeginKeepsOrder ==
  ASSUME ~Preemptive, OrderInv, NEW e \in Event,
         isr_capture(e) \/ \E t \in Task : capture(t, e)
  PROVE  OrderInv'
<1>1. /\ UNCHANGED <<slot, stored, sent>>
      /\ captures' = captures + 1 /\ e.id = captures + 1
      /\ truth' = [truth EXCEPT !.before[e.id] = truth.accepted]
  BY DEF isr_capture, capture, NewEvent
<1>2. e.id \in 1..MAX_EVENTS
  BY DEF Event
<1>3. /\ truth'.accepted = truth.accepted /\ truth'.lost = truth.lost
      /\ truth'.before = [truth.before EXCEPT ![e.id] = truth.accepted]
      /\ truth' = [accepted |-> truth'.accepted, before |-> truth'.before, lost |-> truth'.lost,
                   retries |-> truth'.retries, refused |-> truth'.refused]
  BY <1>1 DEF OrderInv, OrderTypes
<1>4. /\ truth'.accepted \subseteq 1..captures' /\ captures' \in Nat
      /\ truth'.before \in [1..MAX_EVENTS -> SUBSET truth'.accepted]
      /\ \A i \in 1..captures : i # e.id /\ truth'.before[i] = truth.before[i]
  BY <1>1, <1>2, <1>3 DEF OrderInv, OrderTypes
<1>5. /\ Recorded' = Recorded /\ Ids' = Ids
      /\ \A i \in DOMAIN Recorded : Recorded[i].id \in 1..captures
  BY <1>1 DEF Recorded, Ids, OrderInv, OrderTypes, RecordedOnceInOrder
<1>6. \/ isr' = isr
      \/ slot.reason = Unknown /\ isr' = Append(isr, [pc |-> "store", event |-> e])
  BY DEF isr_capture, capture
<1>7. /\ isr' \in Seq(Capture)
      /\ \A i \in DOMAIN isr' :
           \/ i \in DOMAIN isr /\ isr'[i] = isr[i]
           \/ i = Len(isr) + 1 /\ isr'[i].pc = "store" /\ isr'[i].event = e
      /\ slot.reason # Unknown => isr' = isr
      /\ DOMAIN isr \subseteq DOMAIN isr'
  <2>1. isr \in Seq(Capture) /\ [pc |-> "store", event |-> e] \in Capture
    BY DEF OrderInv, OrderTypes, Capture
  <2>2. CASE isr' = isr
    BY <2>1, <2>2
  <2>3. CASE slot.reason = Unknown /\ isr' = Append(isr, [pc |-> "store", event |-> e])
    BY <2>1, <2>3
  <2> QED BY <1>6, <2>2, <2>3
<1>8. /\ OneTaskRuns'
      /\ task' \in [Task -> [pc : {"idle", "flush", "flush_capture", "free", "capture"},
                             event : Event \cup {None}]]
      /\ \A u \in Task : \/ task'[u] = task[u]
                        \/ /\ task'[u].pc = "flush" /\ task'[u].event = e
                           /\ task[u].pc = "idle" /\ isr' = isr
  <2>1. CASE isr_capture(e)
    BY <2>1 DEF isr_capture, OrderInv, OrderTypes, OneTaskRuns
  <2>2. ASSUME NEW t \in Task, capture(t, e)
        PROVE  /\ task' = [task EXCEPT ![t] = [pc |-> "flush", event |-> e]]
               /\ task[t].pc = "idle" /\ isr' = isr
               /\ \A u \in Task : u # t => task[u].pc = "idle"
    BY <2>2 DEF capture, At, Runs, InCall
  <2>3. ASSUME NEW t \in Task, capture(t, e)
        PROVE  /\ task' \in [Task -> [pc : {"idle", "flush", "flush_capture", "free", "capture"},
                                      event : Event \cup {None}]]
               /\ task'[t].pc = "flush" /\ task'[t].event = e
               /\ \A u \in Task : u # t => task'[u] = task[u]
    <3>1. /\ task' = [task EXCEPT ![t] = [pc |-> "flush", event |-> e]]
          /\ task \in [Task -> [pc : {"idle", "flush", "flush_capture", "free", "capture"},
                                event : Event \cup {None}]]
      BY <2>2, <2>3 DEF OrderInv, OrderTypes
    <3>2. [pc |-> "flush", event |-> e] \in
            [pc : {"idle", "flush", "flush_capture", "free", "capture"}, event : Event \cup {None}]
      OBVIOUS
    <3> QED BY <3>1, <3>2
  <2>4. ASSUME NEW t \in Task, capture(t, e) PROVE OneTaskRuns'
    BY <2>2, <2>3, <2>4 DEF OrderInv, OneTaskRuns
  <2> QED BY <2>1, <2>2, <2>3, <2>4
<1>9. OrderTypes'
  BY <1>1, <1>3, <1>4, <1>7, <1>8 DEF OrderInv, OrderTypes
<1>10. InFlight'
  <2>1. /\ \A i \in DOMAIN isr : isr[i].event.id \in 1..captures
        /\ \A t \in Task : task[t].event # None => task[t].event.id \in 1..captures
    BY DEF OrderInv, InFlight
  <2>2. /\ e.id \notin truth.accepted /\ e.id \in 1..captures'
        /\ 1..captures \subseteq 1..captures' /\ e.id \notin 1..captures
    BY <1>1 DEF OrderInv, OrderTypes
  <2>3. \A i, j \in DOMAIN isr' : isr'[i].event.id = isr'[j].event.id => i = j
    BY <1>7, <2>1, <2>2 DEF OrderInv, InFlight
  <2>4. \A i \in DOMAIN isr' : isr'[i].event.id \in 1..captures' \ truth.accepted
    BY <1>7, <2>1, <2>2 DEF OrderInv, InFlight
  <2>5. ASSUME NEW t \in Task, task'[t].event # None
        PROVE  /\ task'[t].event.id \in 1..captures' \ truth.accepted
               /\ \A i \in DOMAIN isr' : isr'[i].event.id # task'[t].event.id
    <3>1. CASE task'[t] = task[t]
      BY <1>7, <2>1, <2>2, <2>5, <3>1 DEF OrderInv, InFlight
    <3>2. CASE task'[t].event = e /\ isr' = isr
      BY <2>1, <2>2, <3>2
    <3> QED BY <1>8, <3>1, <3>2
  <2> QED BY <1>3, <2>3, <2>4, <2>5 DEF InFlight
<1>11. SlotIsTaken' /\ SlotIsFlushed'
  <2>1. SlotIsTaken'
    <3>1. CASE slot.reason = Unknown
      <4>1. \A i \in DOMAIN isr : isr[i].pc = "copy" => isr[i].event.reason = Unknown
        BY <3>1 DEF OrderInv, SlotIsTaken
      <4> QED BY <1>7, <4>1 DEF SlotIsTaken
    <3>2. CASE slot.reason # Unknown
      BY <1>1, <1>7, <3>2 DEF OrderInv, SlotIsTaken
    <3> QED BY <3>1, <3>2
  <2>2. SlotIsFlushed'
    BY <1>1, <1>7, <1>8 DEF OrderInv, SlotIsFlushed
  <2> QED BY <2>1, <2>2
<1>12. Holds' = Holds
  <2>1. CASE slot.reason = Unknown
    BY <1>1, <2>1 DEF Holds
  <2>2. CASE slot.reason # Unknown
    <3>1. isr' = isr
      BY <1>7, <2>2
    <3>2. \A u \in Task : task'[u].pc = "free" <=> task[u].pc = "free"
      BY <1>8
    <3> QED BY <1>1, <3>1, <3>2 DEF Holds
  <2> QED BY <2>1, <2>2
<1>13. WaitsFirst'
  <2>1. ASSUME NEW t \in Task, task'[t].pc = "capture"
        PROVE  /\ task[t] = task'[t] /\ task[t].event.id \in 1..captures
    BY <1>8, <2>1 DEF OrderInv, OneTaskRuns, InFlight
  <2> QED BY <1>1, <1>3, <1>4, <1>5, <1>12, <2>1 DEF OrderInv, WaitsFirst
<1>14. RecordedOnceInOrder'
  <2>1. Pending' = Pending
    BY <1>1, <1>12 DEF Pending, Holds
  <2> QED BY <1>3, <1>4, <1>5, <2>1 DEF OrderInv, RecordedOnceInOrder
<1> QED BY <1>8, <1>9, <1>10, <1>11, <1>13, <1>14 DEF OrderInv

\* The reason of an interrupt is stored: what the slot held is lost.
LEMMA StoreKeepsOrder == ASSUME OrderInv, isr_store PROVE OrderInv'
<1>1. /\ isr # <<>> /\ Top.pc = "store"
      /\ slot' = [slot EXCEPT !.reason = Top.event.reason]
      /\ isr' = [isr EXCEPT ![Len(isr)].pc = "copy"]
      /\ truth' = [truth EXCEPT !.lost = IF slot.reason # Unknown THEN @ \cup {slot.info.id} ELSE @]
      /\ UNCHANGED <<task, stored, sent, captures>>
  BY DEF isr_store
<1>2. /\ Len(isr) \in DOMAIN isr /\ Top \in Capture
      /\ DOMAIN isr' = DOMAIN isr /\ isr' \in Seq(Capture) /\ Len(isr') = Len(isr)
      /\ \A i \in DOMAIN isr : i # Len(isr) => isr'[i] = isr[i]
      /\ isr'[Len(isr)] = [pc |-> "copy", event |-> Top.event]
  <2>1. isr' = [isr EXCEPT ![Len(isr)] = [pc |-> "copy", event |-> Top.event]]
    <3>1. [isr[Len(isr)] EXCEPT !.pc = "copy"] = [pc |-> "copy", event |-> Top.event]
      BY <1>1, TopTyped DEF OrderInv, Capture
    <3> QED BY <1>1, <3>1
  <2>2. [pc |-> "copy", event |-> Top.event] \in Capture
    BY <1>1, TopTyped DEF OrderInv, Capture
  <2> QED BY <1>1, <2>1, <2>2, TopTyped DEF OrderInv, OrderTypes
<1>3. /\ slot'.reason = Top.event.reason /\ slot'.info = slot.info
      /\ slot' \in [reason : {Unknown, "user"}, info : Event \cup {None}]
  BY <1>1, <1>2 DEF Capture, Event, OrderInv, OrderTypes
<1>4. /\ truth'.accepted = truth.accepted /\ truth'.before = truth.before
      /\ truth'.lost = IF slot.reason # Unknown THEN truth.lost \cup {slot.info.id} ELSE truth.lost
      /\ truth' = [accepted |-> truth'.accepted, before |-> truth'.before, lost |-> truth'.lost,
                   retries |-> truth'.retries, refused |-> truth'.refused]
  BY <1>1 DEF OrderInv, OrderTypes
<1>5. OrderTypes' /\ OneTaskRuns'
  BY <1>1, <1>2, <1>3, <1>4 DEF OrderInv, OrderTypes, OneTaskRuns
<1>6. InFlight'
  <2>1. \A i \in DOMAIN isr : isr'[i].event = isr[i].event
    BY <1>2 DEF Top
  <2> QED BY <1>1, <1>2, <1>4, <2>1 DEF OrderInv, InFlight
<1>7. SlotIsTaken'
  <2>1. \A i \in DOMAIN isr : i # Len(isr) => ~(isr[i].pc = "copy" /\ isr[i].event.reason # Unknown)
    BY DEF OrderInv, SlotIsTaken
  <2> QED BY <1>2, <1>3, <2>1 DEF SlotIsTaken
<1>8. SlotIsFlushed'
  BY <1>1 DEF OrderInv, SlotIsFlushed
<1>9. ~Holds'
  BY <1>2, <1>3 DEF Holds
<1>10. Pending' = {} /\ WaitsFirst'
  BY <1>9 DEF Pending, Holds, WaitsFirst
<1>11. RecordedOnceInOrder'
  <2>1. Recorded' = Recorded /\ Ids' = Ids
    BY <1>1 DEF Recorded, Ids
  <2>2. Pending \subseteq truth'.lost
    BY <1>4 DEF Pending
  <2> QED BY <1>4, <1>10, <2>1, <2>2 DEF OrderInv, RecordedOnceInOrder
<1> QED BY <1>5, <1>6, <1>7, <1>8, <1>10, <1>11 DEF OrderInv

\* The event of an interrupt is copied, and accepted: what was recorded or begun before does
\* not know of it.
LEMMA CopyKeepsOrder == ASSUME OrderInv, isr_copy PROVE OrderInv'
<1>1. /\ isr # <<>> /\ Top.pc = "copy"
      /\ slot' = [slot EXCEPT !.info = Top.event]
      /\ isr' = Front(isr)
      /\ truth' = [truth EXCEPT !.accepted = @ \cup {Top.event.id},
                     !.lost = @ \cup (IF slot.reason # Top.event.reason THEN {slot.info.id} ELSE {})
                                \cup (IF Top.event.reason = Unknown THEN {Top.event.id} ELSE {})]
      /\ UNCHANGED <<task, stored, sent, captures>>
  BY DEF isr_copy
<1> DEFINE e == Top.event
<1>2. /\ Len(isr) \in DOMAIN isr /\ Top \in Capture /\ e \in Event
      /\ e.id \in 1..captures \ truth.accepted
  BY <1>1, TopTyped DEF OrderInv, InFlight
<1>3. /\ isr' \in Seq(Capture)
      /\ DOMAIN isr' = DOMAIN isr \ {Len(isr)}
      /\ \A i \in DOMAIN isr' : isr'[i] = isr[i]
  BY <1>1, <1>2 DEF Front, OrderInv, OrderTypes
<1>4. /\ slot'.reason = slot.reason /\ slot'.info = e
      /\ slot' \in [reason : {Unknown, "user"}, info : Event \cup {None}]
  BY <1>1, <1>2 DEF OrderInv, OrderTypes
<1>5. /\ truth'.accepted = truth.accepted \cup {e.id} /\ truth'.before = truth.before
      /\ truth'.lost = truth.lost \cup (IF slot.reason # e.reason THEN {slot.info.id} ELSE {})
                                  \cup (IF e.reason = Unknown THEN {e.id} ELSE {})
      /\ truth' = [accepted |-> truth'.accepted, before |-> truth'.before, lost |-> truth'.lost,
                   retries |-> truth'.retries, refused |-> truth'.refused]
  BY <1>1 DEF OrderInv, OrderTypes
<1>6. OrderTypes' /\ OneTaskRuns'
  <2>1. truth'.before \in [1..MAX_EVENTS -> SUBSET truth'.accepted]
    BY <1>5 DEF OrderInv, OrderTypes
  <2> QED BY <1>1, <1>2, <1>3, <1>4, <1>5, <2>1 DEF OrderInv, OrderTypes, OneTaskRuns
<1>7. InFlight'
  <2>1. /\ \A i \in DOMAIN isr' : isr'[i].event.id # e.id
        /\ \A t \in Task : task[t].event # None => task[t].event.id # e.id
    BY <1>2, <1>3 DEF OrderInv, InFlight, Top
  <2> QED BY <1>1, <1>3, <1>5, <2>1 DEF OrderInv, InFlight
<1>8. SlotIsFlushed' /\ \A t \in Task : task[t].pc # "free"
  BY <1>1, <1>3 DEF OrderInv, SlotIsFlushed
<1>9. SlotIsTaken'
  BY <1>3 DEF OrderInv, SlotIsTaken
<1>10. /\ Recorded' = Recorded /\ Ids' = Ids /\ Recorded \in Seq(Event)
       /\ \A i \in DOMAIN Recorded : truth.before[Recorded[i].id] \subseteq truth.accepted
       /\ e.id \notin Ids
  <2>1. Recorded' = Recorded /\ Ids' = Ids /\ Recorded \in Seq(Event)
    BY <1>1, RecordedTyped DEF Recorded, Ids, OrderInv
  <2>2. \A v \in Event : v.id \in 1..MAX_EVENTS
    BY DEF Event
  <2>3. \A i \in DOMAIN Recorded : Recorded[i].id \in 1..MAX_EVENTS
    BY <2>1, <2>2
  <2> QED BY <1>2, <2>1, <2>3 DEF OrderInv, OrderTypes, RecordedOnceInOrder
<1>11. WaitsFirst'
  <2>1. ASSUME NEW t \in Task, task[t].pc = "capture"
        PROVE  truth.before[task[t].event.id] \subseteq truth.accepted
    BY <2>1 DEF OrderInv, OneTaskRuns, OrderTypes, Event
  <2> QED BY <1>1, <1>2, <1>4, <1>5, <1>10, <2>1 DEF WaitsFirst
<1>12. RecordedOnceInOrder'
  <2>1. Pending' \subseteq {e.id}
    BY <1>4 DEF Pending
  <2>2. e.id \in truth'.lost \cup Pending'
    <3>1. CASE e.reason = Unknown
      BY <1>5, <3>1
    <3>2. CASE e.reason # Unknown
      <4>1. /\ slot.reason = e.reason
            /\ \A i \in DOMAIN isr : i # Len(isr) /\ isr[i].pc = "copy" => isr[i].event.reason = Unknown
        BY <1>1, <1>2, <3>2 DEF OrderInv, SlotIsTaken, Top
      <4> QED BY <1>1, <1>3, <1>4, <1>8, <3>2, <4>1 DEF Pending
    <3> QED BY <3>1, <3>2
  <2>3. Pending \subseteq truth'.lost
    <3>1. SUFFICES ASSUME Holds PROVE slot.info.id \in truth'.lost
      BY DEF Pending, Holds
    <3>2. e.reason = Unknown
      BY <1>1, <1>2, <3>1 DEF Holds, Top
    <3> QED BY <1>5, <3>1, <3>2 DEF Holds
  <2> QED BY <1>5, <1>10, <2>1, <2>2, <2>3 DEF OrderInv, RecordedOnceInOrder
<1> QED BY <1>6, <1>7, <1>8, <1>9, <1>11, <1>12 DEF OrderInv

LEMMA OrderIsKept == ASSUME ~Preemptive, OrderInv, [Next]_vars PROVE OrderInv'
<1>1. ASSUME NEW t \in Task, flush_capture(t) PROVE OrderInv'
  BY <1>1, SlotIsRecorded, FlushKeepsOrder
<1> QED BY <1>1, DrainKeepsOrder, FlushKeepsOrder, FreeKeepsOrder, OwnKeepsOrder, BeginKeepsOrder,
           StoreKeepsOrder, CopyKeepsOrder
        DEF Next, IsrStep, TaskStep, Waits

\* Where tasks do not preempt each other in the middle of a call: an event whose capture
\* returned 0 is in storage, sent, or in the slot of interrupts, and only once, except those
\* that interrupts lose; and events are recorded in the order of their captures.
THEOREM EventsInOrder == ASSUME ~Preemptive PROVE Spec => []RecordedOnceInOrder
<1>1. OrderInv /\ [Next]_vars => OrderInv'
  BY OrderIsKept
<1>2. OrderInv => RecordedOnceInOrder
  BY DEF OrderInv
<1> QED BY OrderInit, <1>1, <1>2, PTL DEF Spec
===============================================================================

------------------------------- MODULE CrashPath -------------------------------
(* The way of a crash through memfault_fault_handling_arm.c: the handler marks    *)
(* the reset (RebootTracking), saves a coredump (Coredump), marks it saved and    *)
(* reboots.  After the boot the reason becomes an event and the packetizer sends  *)
(* the coredump.  A reset or a loss of power may come anywhere.                    *)
EXTENDS Naturals, Sequences

CONSTANTS
  Layouts, MaxErrors,                           \* of Coredump
  Expected, Unexpected, Unknown, NotSet, Width, \* of RebootTracking
  MaxCrashes, MaxMarks, MaxResets, MaxCounts    \* bounds

VARIABLES
  layout, header, blocks, ctx, errors, \* Coredump
  reboot_info, reboot_reason_data,     \* RebootTracking
  pc,       \* "off", "up", or in the handler: "marked", "saving", "saved", "done"
  reading,  \* the coredump the packetizer is sending, or 0
  \* what really happened:
  first,    \* the first reason since the last report, or NotSet
  marked,   \* the first reason marked in this session and not reported, or NotSet
  cores,    \* crashes whose coredump was completed since the last report
  sent,     \* crashes whose coredump was sent
  reported, \* the last event, and what was so at the time
  bad,      \* resets for Unexpected or Unknown since the count was reset
  pending,  \* the reason of the last boot has not been reported
  missed,   \* a reset came while it was pending, since the count was reset
  crashes, marks, resets, counts \* so far

CD == INSTANCE Coredump
RT == INSTANCE RebootTracking

ASSUME LayoutsAssumption == /\ Layouts \subseteq CD!Layout
                            /\ \A l \in Layouts : l.regions # <<>> /\ l.size >= CD!HeaderSize
ASSUME ReasonAssumption == /\ Unknown \notin Expected \cup Unexpected
                           /\ NotSet \notin RT!Reason
                           /\ Expected \cap Unexpected = {}
                           /\ Width \in Nat \ {0, 1}
ASSUME BoundsAssumption == {MaxErrors, MaxCrashes, MaxMarks, MaxResets, MaxCounts} \subseteq Nat

coredump == <<layout, header, blocks, ctx, errors>>
tracking == <<reboot_info, reboot_reason_data>>
history == <<first, marked, cores, sent, reported, bad, pending, missed>>
counters == <<crashes, marks, resets, counts>>
vars == <<coredump, tracking, pc, reading, history, counters>>

NoReport == [reason |-> NotSet, coredump_saved |-> FALSE, first |-> NotSet, cores |-> {}]

Init ==
  /\ CD!Init /\ RT!Init
  /\ pc = "off" /\ reading = 0
  /\ first = NotSet /\ marked = NotSet /\ cores = {} /\ sent = {} /\ reported = NoReport
  /\ bad = 0 /\ pending = FALSE /\ missed = FALSE
  /\ crashes = 0 /\ marks = 0 /\ resets = 0 /\ counts = 0

-------------------------------------------------------------------------------
FirstOf(before, reason) == IF before = NotSet THEN reason ELSE before

\* reason: what the platform reads from its reset register, Unknown if nothing.
boot(reason) ==
  /\ pc = "off"
  /\ pc' = "up"
  /\ RT!boot(reason)
  /\ first' = FirstOf(first, reason)
  /\ bad' = IF FirstOf(marked, reason) \in Unexpected \cup {Unknown} THEN bad + 1 ELSE bad
  /\ missed' = (missed \/ pending)
  /\ pending' = TRUE
  /\ marked' = NotSet
  /\ UNCHANGED <<coredump, reading, cores, sent, reported, counters>>

\* A reset the application is about to make; it may not come.
mark_reset_imminent(reason) ==
  /\ pc = "up"
  /\ marks < MaxMarks
  /\ marks' = marks + 1
  /\ RT!mark_reset_imminent(reason)
  /\ first' = FirstOf(first, reason) /\ marked' = FirstOf(marked, reason)
  /\ UNCHANGED <<coredump, pc, reading, cores, sent, reported, bad, pending, missed,
                 crashes, resets, counts>>

\* memfault_fault_handler, by itself or from prv_fault_handling_assert.
fault_handler(reason) ==
  /\ pc = "up"
  /\ crashes < MaxCrashes
  /\ crashes' = crashes + 1
  /\ pc' = "marked"
  /\ RT!mark_reset_imminent(reason)
  /\ first' = FirstOf(first, reason) /\ marked' = FirstOf(marked, reason)
  /\ UNCHANGED <<coredump, reading, cores, sent, reported, bad, pending, missed,
                 marks, resets, counts>>

\* memfault_coredump_save, a block at a time.
save_begin ==
  /\ pc = "marked"
  /\ \/ CD!save_begin(crashes) /\ pc' = "saving"
     \/ UNCHANGED coredump /\ pc' = "done"  \* there is one already, or the platform refuses
  /\ UNCHANGED <<tracking, reading, history, counters>>

save_block ==
  /\ pc = "saving"
  /\ CD!write_fixed \/ CD!write_region \/ CD!write_footer \/ CD!write_header_fails
  /\ pc' = IF ctx' = CD!NoSave THEN "done" ELSE "saving"
  /\ UNCHANGED <<tracking, reading, history, counters>>

save_header ==
  /\ pc = "saving"
  /\ CD!write_header
  /\ pc' = "saved"
  /\ cores' = cores \cup {header'.crash}
  /\ UNCHANGED <<tracking, reading, first, marked, sent, reported, bad, pending, missed,
                 counters>>

mark_coredump_saved ==
  /\ pc = "saved"
  /\ RT!mark_coredump_saved
  /\ pc' = "done"
  /\ UNCHANGED <<coredump, reading, history, counters>>

\* memfault_platform_reboot, the end of the handler.
platform_reboot ==
  /\ pc = "done"
  /\ pc' = "off" /\ reading' = 0
  /\ CD!reset /\ RT!reset
  /\ UNCHANGED <<history, counters>>

\* Any other reset.
reset ==
  /\ pc # "off"
  /\ resets < MaxResets
  /\ resets' = resets + 1
  /\ pc' = "off" /\ reading' = 0
  /\ CD!reset /\ RT!reset
  /\ UNCHANGED <<history, crashes, marks, counts>>

power_loss ==
  /\ pc # "off"
  /\ resets < MaxResets
  /\ resets' = resets + 1
  /\ pc' = "off" /\ reading' = 0
  /\ CD!reset /\ RT!power_loss
  /\ first' = NotSet /\ marked' = NotSet /\ cores' = {}
  /\ bad' = 0 /\ pending' = FALSE /\ missed' = FALSE
  /\ UNCHANGED <<sent, reported, crashes, marks, counts>>

-------------------------------------------------------------------------------
\* memfault_reboot_tracking_collect_reset_info; when the event cannot be stored nothing
\* changes.
collect_reset_info ==
  /\ pc = "up"
  /\ RT!HasResetInfo
  /\ reported' = [reason |-> RT!Event.reason, coredump_saved |-> RT!Event.coredump_saved,
                  first |-> first, cores |-> cores]
  /\ RT!clear_reset_info
  /\ first' = NotSet /\ marked' = NotSet /\ cores' = {} /\ pending' = FALSE
  /\ UNCHANGED <<coredump, pc, reading, sent, bad, missed, counters>>

reset_crash_count ==
  /\ pc = "up"
  /\ counts < MaxCounts
  /\ counts' = counts + 1
  /\ RT!reset_crash_count
  /\ bad' = 0 /\ missed' = FALSE
  /\ UNCHANGED <<coredump, pc, reading, first, marked, cores, sent, reported, pending,
                 crashes, marks, resets>>

\* The packetizer is told of the coredump, and deletes it when the last chunk is out.
has_valid_coredump ==
  /\ pc = "up"
  /\ header # CD!NoHeader /\ reading = 0
  /\ reading' = header.crash
  /\ UNCHANGED <<coredump, tracking, pc, history, counters>>
mark_msg_read ==
  /\ pc = "up"
  /\ reading # 0
  /\ sent' = sent \cup {reading}
  /\ CD!storage_clear
  /\ reading' = 0
  /\ UNCHANGED <<tracking, pc, first, marked, cores, reported, bad, pending, missed, counters>>

\* The bounds are reached, and nothing is left to report or to send.
Waits ==
  /\ pc = "up"
  /\ crashes = MaxCrashes /\ marks = MaxMarks /\ resets = MaxResets /\ counts = MaxCounts
  /\ header = CD!NoHeader /\ ~RT!HasResetInfo
  /\ UNCHANGED vars

Next == \/ \E r \in RT!Reason : boot(r)
        \/ \E r \in Expected : mark_reset_imminent(r)
        \/ \E r \in Unexpected : fault_handler(r)
        \/ save_begin \/ save_block \/ save_header \/ mark_coredump_saved
        \/ platform_reboot \/ reset \/ power_loss
        \/ collect_reset_info \/ reset_crash_count
        \/ has_valid_coredump \/ mark_msg_read
        \/ Waits

Spec == Init /\ [][Next]_vars

-------------------------------------------------------------------------------
TypeOK ==
  /\ CD!TypeOK /\ RT!TypeOK
  /\ pc \in {"off", "up", "marked", "saving", "saved", "done"}
  /\ pc = "saving" <=> ctx # CD!NoSave

\* Whatever resets and failed saves came before, a valid coredump is whole.
CoredumpWhole == CD!CoredumpWhole

\* "If we are saving a new coredump but one is already stored, don't overwrite it": it
\* stays, every block of it, until the packetizer has sent it.
FirstCoredumpKept ==
  [][header # CD!NoHeader =>
       \/ header' = header /\ blocks' = blocks
       \/ header' = CD!NoHeader /\ reading = header.crash /\ sent' = sent \cup {reading}]_vars

\* An event has the first reason since the event before it, over any number of resets; if
\* it says that a coredump was saved, one was since that event, and it is in storage or
\* has been sent.
ReportsFirst ==
  /\ reported.reason = reported.first
  /\ reported.coredump_saved => reported.cores # {}
  /\ \A c \in cores \cup reported.cores : c \in sent \/ header.crash = c

\* "Every time the device resets due to a Reason of Unknown or Error, the crash count is
\* incremented" (reboot_tracking.h).
CountsCrashes == pc = "up" => reboot_info.crash_count = bad % Width
\* The same where the reason of each boot is reported before the next reset.
CountsCrashesReported == ~missed => CountsCrashes
===============================================================================

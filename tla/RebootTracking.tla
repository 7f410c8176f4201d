---------------------------- MODULE RebootTracking ----------------------------
(* components/core/src/memfault_ram_reboot_info_tracking.c and                   *)
(* memfault_reboot_tracking_serializer.c: the reason of a reset is kept in       *)
(* memory that resets do not clear, until it was stored as an event.  CrashPath  *)
(* has the resets around it.  The registers kept with a reason are left out.     *)
EXTENDS Naturals

CONSTANTS
  Expected, Unexpected, \* eMemfaultRebootReason: below and above UnknownError
  Unknown,              \* kMfltRebootReason_Unknown
  NotSet,               \* MEMFAULT_REBOOT_REASON_NOT_SET
  Width                 \* 2^8, the width of crash_count

Reason == Expected \cup Unexpected \cup {Unknown}

VARIABLES
  reboot_info,       \* *s_mflt_reboot_info
  reboot_reason_data \* s_reboot_reason_data

\* Memory as power finds it: no magic in it.
Garbage == [magic |-> FALSE, last_reboot_reason |-> NotSet, coredump_saved |-> FALSE,
            crash_count |-> 0]
Cleared == [Garbage EXCEPT !.magic = TRUE]
NotValid == [is_valid |-> FALSE, reboot_reg_reason |-> Unknown, prior_stored_reason |-> Unknown]

Init == reboot_info = Garbage /\ reboot_reason_data = NotValid

\* prv_check_or_init_struct
Checked == IF reboot_info.magic THEN reboot_info ELSE Cleared

\* prv_record_reboot_reason
Recorded(reason, info) ==
  [is_valid |-> TRUE, reboot_reg_reason |-> reason,
   prior_stored_reason |-> IF info.last_reboot_reason = NotSet THEN reason
                                                               ELSE info.last_reboot_reason]

\* prv_record_reboot_event: "generally the first reboot in a loop reveals what started
\* the crash loop".
FirstKept(reason, info) ==
  IF info.last_reboot_reason = NotSet THEN [info EXCEPT !.last_reboot_reason = reason] ELSE info

\* prv_get_unexpected_reboot_occurred
UnexpectedOccurred(data) == data.prior_stored_reason \in Unexpected \cup {Unknown}

\* Mutant: a reset counts by what the register says of it.
mut_boot_register(reason) ==
  LET info == Checked
  IN /\ reboot_reason_data' = Recorded(reason, info)
     /\ reboot_info' = [FirstKept(reason, info) EXCEPT
                          !.crash_count = IF reason \in Unexpected \cup {Unknown}
                                            THEN (@ + 1) % Width ELSE @]
\* reason is Unknown when there is no bootup_info.
boot(reason) ==
  LET info == Checked
  IN /\ reboot_reason_data' = Recorded(reason, info)
     /\ reboot_info' = [FirstKept(reason, info) EXCEPT
                          !.crash_count = IF UnexpectedOccurred(reboot_reason_data')
                                            THEN (@ + 1) % Width ELSE @]

mark_reset_imminent(reason) ==
  LET info == Checked
  IN /\ reboot_reason_data' = Recorded(reason, info)
     /\ reboot_info' = FirstKept(reason, info)

mark_coredump_saved ==
  /\ reboot_info' = [Checked EXCEPT !.coredump_saved = TRUE]
  /\ UNCHANGED reboot_reason_data

reset_crash_count ==
  /\ reboot_info' = [Checked EXCEPT !.crash_count = 0]
  /\ UNCHANGED reboot_reason_data

\* memfault_reboot_tracking_collect_reset_info: what it puts in an event, and how it
\* ends when the event was stored and when it was not.
HasResetInfo == Checked.last_reboot_reason # NotSet
Event == [reason |-> Checked.last_reboot_reason, coredump_saved |-> Checked.coredump_saved]
\* Mutant: the claim of a coredump is not cleared with the reason.
mut_clear_reset_info ==
  /\ reboot_info' = [Checked EXCEPT !.last_reboot_reason = NotSet]
  /\ UNCHANGED reboot_reason_data
clear_reset_info ==
  /\ reboot_info' = [Checked EXCEPT !.last_reboot_reason = NotSet, !.coredump_saved = FALSE]
  /\ UNCHANGED reboot_reason_data

\* What a reset does to it, and a loss of power.
reset == reboot_reason_data' = NotValid /\ UNCHANGED reboot_info
power_loss == reboot_reason_data' = NotValid /\ reboot_info' = Garbage

TypeOK ==
  /\ reboot_info.last_reboot_reason \in Reason \cup {NotSet}
  /\ reboot_info.crash_count \in 0..(Width - 1)
  /\ reboot_reason_data.reboot_reg_reason \in Reason
  /\ reboot_reason_data.prior_stored_reason \in Reason
===============================================================================

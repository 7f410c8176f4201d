------------------------------ MODULE MCCrashPath ------------------------------
EXTENDS CrashPath
CONSTANTS Update, Assert, Other, None

R(l, w, v) == [len |-> l, word |-> w, valid |-> v]
L(s, rs) == [size |-> s, regs |-> 4, version |-> 3, regions |-> rs]
\* 75 bytes come before the regions, so the first one is padded.
Three == <<R(4, TRUE, TRUE), R(7, FALSE, TRUE), R(4, FALSE, TRUE)>>
WithEmpty == <<R(5, FALSE, TRUE), R(0, FALSE, TRUE)>>
WithOneByte == <<R(5, FALSE, TRUE), R(1, FALSE, TRUE)>>
WithInvalid == <<R(8, FALSE, FALSE), R(4, TRUE, TRUE)>>
\* From too small for the fixed blocks to as large as all of it needs.
MCLayouts == {L(s, Three) : s \in {91, 124, 168}} \cup {L(s, WithEmpty) : s \in {80, 119, 136}}
             \cup {L(134, WithOneByte)} \cup {L(s, WithInvalid) : s \in {119, 120}}
===============================================================================

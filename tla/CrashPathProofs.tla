---------------------------- MODULE CrashPathProofs ----------------------------
(* What CrashPath promises of the events and of the coredump in storage, for     *)
(* every set of reasons, width of the count and layout of the coredump, and any   *)
(* number of crashes and resets.                                                  *)
EXTENDS CrashPath, Integers, SequenceTheorems, WellFoundedInduction, TLAPS

Info == [magic : BOOLEAN, last_reboot_reason : RT!Reason \cup {NotSet},
         coredump_saved : BOOLEAN, crash_count : 0..(Width - 1)]
Data == [is_valid : BOOLEAN, reboot_reg_reason : RT!Reason, prior_stored_reason : RT!Reason]
Report == [reason : RT!Reason \cup {NotSet}, coredump_saved : BOOLEAN,
           first : RT!Reason \cup {NotSet}, cores : SUBSET (Nat \ {0})]

Types ==
  /\ reboot_info \in Info
  /\ reboot_reason_data \in Data
  /\ pc \in {"off", "up", "marked", "saving", "saved", "done"}
  /\ first \in RT!Reason \cup {NotSet}
  /\ marked \in RT!Reason \cup {NotSet}
  /\ cores \in SUBSET (Nat \ {0})
  /\ reported \in Report
  /\ bad \in Nat /\ crashes \in Nat /\ reading \in Nat
  /\ pending \in BOOLEAN /\ missed \in BOOLEAN

\* Memory has been checked since power came, while the device runs.
MagicWhileOn == pc # "off" => reboot_info.magic

\* What memory holds of a reason is the first one that has not been reported.
FirstIsStored == first = RT!Checked.last_reboot_reason

\* Nothing was marked before this session when the last boot has been reported.
MarkedIsFirst == ~pending => marked = first

\* The flag of a coredump is only there with one that was completed.
FlagMeansSaved ==
  /\ pc = "saved" => cores # {}
  /\ RT!Checked.coredump_saved => cores # {}

\* A save in progress is of this crash, and storage holds no valid coredump then.
SaveInProgress ==
  /\ pc = "saving" <=> ctx # CD!NoSave
  /\ ctx # CD!NoSave => /\ header = CD!NoHeader
                        /\ "crash" \in DOMAIN ctx /\ ctx.crash = crashes
  /\ pc = "marked" => crashes > 0
  /\ pc = "saving" => crashes > 0

\* What the packetizer reads is the coredump in storage.
ReadingStored ==
  /\ header.crash \in Nat
  /\ header # CD!NoHeader => header.crash > 0
  /\ reading # 0 => header # CD!NoHeader /\ reading = header.crash

CountIsKept == ~missed => RT!Checked.crash_count = bad % Width

IInv == /\ Types /\ MagicWhileOn /\ FirstIsStored /\ MarkedIsFirst /\ FlagMeansSaved
        /\ SaveInProgress /\ ReadingStored /\ CountIsKept /\ ReportsFirst

-------------------------------------------------------------------------------
\* Counting one more commutes with the wrap of the count.
LEMMA DivisionIsUnique ==
  ASSUME NEW w \in Nat \ {0}, NEW q \in Int, NEW r \in 0..(w - 1)
  PROVE  (w * q + r) % w = r
OBVIOUS

LEMMA CountWraps ==
  ASSUME NEW w \in Nat \ {0}, NEW n \in Nat
  PROVE  ((n % w) + 1) % w = (n + 1) % w
<1>1. PICK q \in Int, r \in 0..(w - 1) : n = w * q + r
  <2>1. n \div w \in Int /\ n % w \in 0..(w - 1) /\ n = w * (n \div w) + (n % w)
    OBVIOUS
  <2> QED BY <2>1
<1>2. n % w = r
  BY <1>1, DivisionIsUnique
<1>3. CASE r + 1 < w
  <2>1. (w * q + (r + 1)) % w = r + 1
    BY <1>3, DivisionIsUnique
  <2>2. (w * 0 + (r + 1)) % w = r + 1
    BY <1>3, DivisionIsUnique
  <2> QED BY <1>1, <1>2, <2>1, <2>2
<1>4. CASE r + 1 = w
  <2>1. (w * (q + 1) + 0) % w = 0
    BY DivisionIsUnique
  <2>2. (w * 1 + 0) % w = 0
    BY DivisionIsUnique
  <2>3. n + 1 = w * (q + 1) + 0
    BY <1>1, <1>4
  <2> QED BY <1>2, <1>4, <2>1, <2>2, <2>3
<1> QED BY <1>3, <1>4

\* What is attempted at a block leaves the crash it is written for.
Kept(t) == /\ {"ctx", "blocks", "errors", "ok"} \subseteq DOMAIN t
           /\ "crash" \in DOMAIN t.ctx /\ t.ctx.crash = ctx.crash

LEMMA BlockKeepsCrash ==
  ASSUME NEW t, NEW kind, NEW address, NEW len, NEW word, Kept(t)
  PROVE  \A u \in CD!WriteBlock(t, kind, address, len, word) : Kept(u)
<1>1. ASSUME NEW v, Kept(v) PROVE Kept(CD!Failed(v))
  BY <1>1 DEF Kept, CD!Failed
<1>2. ASSUME NEW v, Kept(v), NEW n, NEW bs, NEW ok
      PROVE  Kept([v EXCEPT !.ctx.offset = n, !.blocks = bs, !.ok = ok])
  BY <1>2 DEF Kept
<1>3. ASSUME NEW v, Kept(v), NEW n, NEW bs
      PROVE  Kept([v EXCEPT !.ctx.offset = n, !.blocks = bs])
  BY <1>3 DEF Kept
<1>4. ASSUME NEW v, Kept(v), NEW b PROVE Kept([v EXCEPT !.ok = b])
  BY <1>4 DEF Kept
<1>5. ASSUME NEW v, Kept(v), NEW b PROVE Kept([v EXCEPT !.ctx.truncated = b])
  BY <1>5 DEF Kept
<1> SUFFICES ASSUME NEW u \in CD!WriteBlock(t, kind, address, len, word) PROVE Kept(u)
  OBVIOUS
<1> DEFINE free == CD!Free(t.ctx.offset)
           fits == CD!BlockSize + len <= free
           cut == IF free < CD!BlockSize THEN 0 ELSE CD!Floor4(free - CD!BlockSize)
           payload == IF fits THEN len ELSE cut
           t1 == [t EXCEPT !.ctx.truncated = @ \/ ~fits]
           by_word == word /\ payload % 4 = 0
           whole == [t1 EXCEPT !.ctx.offset = @ + CD!BlockSize + payload,
                               !.blocks = Append(@, CD!Block(t1, kind, address, payload, TRUE)),
                               !.ok = ~by_word \/ ~t1.ctx.truncated]
           part == [t1 EXCEPT !.ctx.offset = @ + CD!BlockSize,
                              !.blocks = Append(@, CD!Block(t1, kind, address, 0, FALSE))]
<1>6. u \in {[t EXCEPT !.ok = TRUE], [t1 EXCEPT !.ok = FALSE], whole, CD!Failed(t1),
             CD!Failed(part)}
  BY Zenon DEF CD!WriteBlock
<1>7. Kept(t1)
  BY <1>5
<1>8. Kept(whole)
  BY <1>7, <1>2
<1>9. Kept(part)
  BY <1>7, <1>3
<1>10. Kept([t EXCEPT !.ok = TRUE]) /\ Kept([t1 EXCEPT !.ok = FALSE])
  BY <1>7, <1>4
<1>11. Kept(CD!Failed(t1)) /\ Kept(CD!Failed(part))
  BY <1>7, <1>9, <1>1
<1> QED BY <1>6, <1>7, <1>8, <1>9, <1>10, <1>11
\* Every step of a save is of the crash it began with, and leaves the header alone.
LEMMA SaveKeepsCrash ==
  ASSUME SaveInProgress, pc = "saving",
         CD!write_fixed \/ CD!write_region \/ CD!write_footer \/ CD!write_header_fails
  PROVE  /\ header' = header
         /\ ctx' # CD!NoSave => "crash" \in DOMAIN ctx' /\ ctx'.crash = ctx.crash
<1>1. Kept(CD!Try)
  BY DEF Kept, CD!Try, SaveInProgress
<1>2. ASSUME NEW t, Kept(t), NEW n
      PROVE  LET c == [t.ctx EXCEPT !.next = n] IN "crash" \in DOMAIN c /\ c.crash = ctx.crash
  BY <1>2 DEF Kept
<1>3. CASE CD!write_fixed
  BY <1>1, <1>2, <1>3, BlockKeepsCrash DEF CD!write_fixed, CD!Take
<1>4. CASE CD!write_region
  <2>1. PICK i : \E t \in CD!WriteRegion(CD!Try, i) :
                   /\ CD!Take(t)
                   /\ \/ ctx' = CD!NoSave
                      \/ \E n : ctx' = [t.ctx EXCEPT !.next = n]
    BY <1>4, Zenon DEF CD!write_region
  <2>2. PICK t \in CD!WriteRegion(CD!Try, i) :
          CD!Take(t) /\ (ctx' = CD!NoSave \/ \E n : ctx' = [t.ctx EXCEPT !.next = n])
    BY <2>1
  <2>3. \A p \in CD!WritePadding(CD!Try) : Kept(p)
    BY <1>1, BlockKeepsCrash DEF CD!WritePadding
  <2>4. ASSUME NEW p, Kept(p) PROVE Kept([p EXCEPT !.ok = TRUE])
    BY <2>4 DEF Kept
  <2>5. Kept(t)
    <3> DEFINE r == layout.regions[i]
    <3>1. PICK p \in CD!WritePadding(CD!Try) :
            t \in IF r.valid THEN CD!WriteBlock(p, "memory", i, r.len, r.word)
                  ELSE {[p EXCEPT !.ok = TRUE]}
      BY <2>2, Zenon DEF CD!WriteRegion
    <3> QED BY <3>1, <2>3, <2>4, BlockKeepsCrash
  <2> QED BY <2>2, <2>5, <1>2 DEF CD!Take
<1>5. CASE CD!write_footer
  BY <1>5, SaveInProgress DEF CD!write_footer, CD!Take, SaveInProgress
<1>6. CASE CD!write_header_fails
  BY <1>6 DEF CD!write_header_fails, CD!Take
<1> QED BY <1>3, <1>4, <1>5, <1>6
-------------------------------------------------------------------------------
LEMMA ClearedMemory ==
  /\ RT!Cleared.magic /\ RT!Cleared.last_reboot_reason = NotSet
  /\ ~RT!Cleared.coredump_saved /\ RT!Cleared.crash_count = 0
  /\ RT!Garbage \in Info /\ RT!Cleared \in Info
<1>1. 0 \in 0..(Width - 1)
  BY ReasonAssumption
<1>2. RT!Garbage \in Info
  BY <1>1 DEF Info, RT!Garbage
<1>3. /\ RT!Garbage.last_reboot_reason = NotSet
      /\ ~RT!Garbage.coredump_saved /\ RT!Garbage.crash_count = 0
  BY DEF RT!Garbage
<1> QED BY <1>2, <1>3 DEF Info, RT!Cleared

LEMMA CheckedTyped == reboot_info \in Info => RT!Checked \in Info /\ RT!Checked.magic
BY ClearedMemory DEF Info, RT!Checked

LEMMA InitHolds == Init => IInv
<1> SUFFICES ASSUME Init PROVE IInv
  OBVIOUS
<1>1. RT!Checked = RT!Cleared
  BY DEF Init, RT!Init, RT!Checked, RT!Garbage
<1>2. Types
  BY ClearedMemory DEF Init, Types, Data, Report, NoReport, RT!Init, RT!NotValid, RT!Reason
<1>3. MagicWhileOn /\ FirstIsStored /\ MarkedIsFirst /\ FlagMeansSaved
  BY <1>1, ClearedMemory DEF Init, MagicWhileOn, FirstIsStored, MarkedIsFirst, FlagMeansSaved
<1>4. SaveInProgress /\ ReadingStored /\ ReportsFirst
  BY DEF Init, SaveInProgress, ReadingStored, ReportsFirst, NoReport, CD!Init, CD!NoHeader
<1>5. CountIsKept
  <2>1. 0 % Width = 0
    BY ReasonAssumption
  <2> QED BY <1>1, <2>1, ClearedMemory DEF Init, CountIsKept
<1> QED BY <1>2, <1>3, <1>4, <1>5 DEF IInv

\* The reason kept in memory is the first of those since the last report.
LEMMA FirstIsKept ==
  ASSUME NEW info \in Info, NEW r \in RT!Reason
  PROVE  /\ RT!FirstKept(r, info) \in Info
         /\ RT!FirstKept(r, info).last_reboot_reason = FirstOf(info.last_reboot_reason, r)
         /\ RT!FirstKept(r, info).magic = info.magic
         /\ RT!FirstKept(r, info).coredump_saved = info.coredump_saved
         /\ RT!FirstKept(r, info).crash_count = info.crash_count
BY DEF RT!FirstKept, FirstOf, Info

LEMMA BootStep == ASSUME IInv, NEW r \in RT!Reason, boot(r) PROVE IInv'
<1> USE DEF IInv
<1> DEFINE info == RT!Checked
           kept == RT!FirstKept(r, info)
           stored == FirstOf(first, r)
           count == IF stored \in Unexpected \cup {Unknown}
                      THEN (kept.crash_count + 1) % Width ELSE kept.crash_count
<1>1. info \in Info /\ info.magic
  BY CheckedTyped DEF Types
<1>2. /\ reboot_reason_data' \in Data
      /\ reboot_reason_data'.prior_stored_reason = stored
  BY <1>1 DEF boot, RT!boot, RT!Recorded, Data, Info, FirstIsStored, FirstOf
<1>3. reboot_info' = [kept EXCEPT !.crash_count = count]
  BY <1>2 DEF boot, RT!boot, RT!UnexpectedOccurred
<1>4. /\ reboot_info' \in Info /\ reboot_info'.magic
      /\ reboot_info'.last_reboot_reason = stored
      /\ reboot_info'.coredump_saved = info.coredump_saved
      /\ reboot_info'.crash_count = count
  <2>1. kept \in Info /\ kept.magic /\ kept.last_reboot_reason = stored
        /\ kept.coredump_saved = info.coredump_saved
    BY <1>1, FirstIsKept DEF FirstIsStored
  <2>2. count \in 0..(Width - 1)
    BY <2>1, ReasonAssumption DEF Info
  <2> HIDE DEF count
  <2> QED BY <2>1, <2>2, <1>3 DEF Info
<1>5. RT!Checked' = reboot_info'
  BY <1>4 DEF RT!Checked
<1>6. Types'
  BY <1>2, <1>4 DEF Types, boot, FirstOf, counters
<1>7. MagicWhileOn' /\ FirstIsStored' /\ MarkedIsFirst' /\ FlagMeansSaved'
  BY <1>4, <1>5 DEF boot, MagicWhileOn, FirstIsStored, MarkedIsFirst, FlagMeansSaved
<1>8. SaveInProgress' /\ ReadingStored' /\ ReportsFirst'
  BY DEF boot, SaveInProgress, ReadingStored, ReportsFirst, coredump, counters
<1>9. CountIsKept'
  <2>1. kept.crash_count = info.crash_count
    BY <1>1, FirstIsKept
  <2>2. SUFFICES ASSUME ~missed' PROVE count = bad' % Width
    BY <1>4, <1>5 DEF CountIsKept
  <2>3. ~missed /\ ~pending
    BY <2>2 DEF boot
  <2>4. stored = FirstOf(marked, r) /\ info.crash_count = bad % Width
    BY <2>3 DEF MarkedIsFirst, CountIsKept
  <2>5. ((bad % Width) + 1) % Width = (bad + 1) % Width
    BY CountWraps, ReasonAssumption DEF Types
  <2> QED BY <2>1, <2>4, <2>5 DEF boot
<1> QED BY <1>6, <1>7, <1>8, <1>9

\* What a mark does, be it of a reset that is about to come or of a crash.
LEMMA MarkStep ==
  ASSUME IInv, NEW r \in RT!Reason, mark_reset_imminent(r) \/ fault_handler(r)
  PROVE  IInv'
<1> USE DEF IInv
<1>1. /\ RT!mark_reset_imminent(r) /\ pc = "up"
      /\ first' = FirstOf(first, r) /\ marked' = FirstOf(marked, r)
      /\ UNCHANGED <<coredump, reading, cores, sent, reported, bad, pending, missed>>
      /\ \/ pc' = pc /\ crashes' = crashes
         \/ pc' = "marked" /\ crashes' = crashes + 1
  BY DEF mark_reset_imminent, fault_handler
<1>2. RT!Checked \in Info /\ RT!Checked.magic
  BY CheckedTyped DEF Types
<1>3. /\ reboot_reason_data' \in Data
      /\ reboot_info' = RT!FirstKept(r, RT!Checked)
  BY <1>1, <1>2 DEF RT!mark_reset_imminent, RT!Recorded, Data, Info
<1>4. /\ reboot_info' \in Info /\ reboot_info'.magic
      /\ reboot_info'.last_reboot_reason = FirstOf(first, r)
      /\ reboot_info'.coredump_saved = RT!Checked.coredump_saved
      /\ reboot_info'.crash_count = RT!Checked.crash_count
  BY <1>2, <1>3, FirstIsKept DEF FirstIsStored
<1>5. RT!Checked' = reboot_info'
  BY <1>4 DEF RT!Checked
<1>6. Types'
  BY <1>1, <1>3, <1>4 DEF Types, FirstOf
<1>7. MagicWhileOn' /\ FirstIsStored' /\ MarkedIsFirst' /\ FlagMeansSaved' /\ CountIsKept'
  BY <1>1, <1>4, <1>5
  DEF MagicWhileOn, FirstIsStored, MarkedIsFirst, FlagMeansSaved, CountIsKept
<1>8. SaveInProgress' /\ ReadingStored' /\ ReportsFirst'
  BY <1>1 DEF SaveInProgress, ReadingStored, ReportsFirst, coredump, Types
<1> QED BY <1>6, <1>7, <1>8
LEMMA SaveBeginStep == ASSUME IInv, save_begin PROVE IInv'
<1> USE DEF IInv
<1>1. UNCHANGED <<tracking, reading, history, counters>> /\ header' = header /\ pc = "marked"
  BY DEF save_begin, coredump, CD!save_begin
<1>2. RT!Checked' = RT!Checked
  BY <1>1 DEF tracking, RT!Checked
<1>3. /\ pc' \in {"saving", "done"}
      /\ pc' = "saving" => /\ header = CD!NoHeader /\ ctx' # CD!NoSave
                          /\ "crash" \in DOMAIN ctx' /\ ctx'.crash = crashes
      /\ pc' = "done" => ctx' = CD!NoSave
  <2>1. ASSUME CD!save_begin(crashes)
        PROVE  header = CD!NoHeader /\ ctx' # CD!NoSave
               /\ "crash" \in DOMAIN ctx' /\ ctx'.crash = crashes
    <3>1. ctx' = [CD!NoSave EXCEPT !.crash = crashes, !.next = 1, !.offset = CD!HeaderSize]
      BY <2>1 DEF CD!save_begin
    <3>2. CD!NoSave.next = 0 /\ {"crash", "next"} \subseteq DOMAIN CD!NoSave
      BY DEF CD!NoSave
    <3>3. ctx'.next = 1 /\ ctx'.crash = crashes /\ "crash" \in DOMAIN ctx'
      BY <3>1, <3>2
    <3>4. ctx' # CD!NoSave
      BY <3>2, <3>3
    <3>5. header = CD!NoHeader
      BY <2>1 DEF CD!save_begin
    <3> QED BY <3>3, <3>4, <3>5
  <2>2. ctx = CD!NoSave
    BY <1>1 DEF SaveInProgress
  <2>3. \/ CD!save_begin(crashes) /\ pc' = "saving"
        \/ ctx' = ctx /\ pc' = "done"
    BY DEF save_begin, coredump
  <2> QED BY <2>1, <2>2, <2>3
<1>4. Types' /\ MagicWhileOn' /\ FirstIsStored' /\ MarkedIsFirst' /\ FlagMeansSaved' /\ CountIsKept'
  BY <1>1, <1>2, <1>3 DEF tracking, history, counters, Types, MagicWhileOn, FirstIsStored,
                          MarkedIsFirst, FlagMeansSaved, CountIsKept
<1>5. SaveInProgress' /\ ReadingStored' /\ ReportsFirst'
  BY <1>1, <1>3 DEF SaveInProgress, ReadingStored, ReportsFirst, history, counters
<1> QED BY <1>4, <1>5

LEMMA SaveBlockStep == ASSUME IInv, save_block PROVE IInv'
<1> USE DEF IInv
<1>1. /\ UNCHANGED <<tracking, reading, history, counters>> /\ pc = "saving"
      /\ pc' = IF ctx' = CD!NoSave THEN "done" ELSE "saving"
  BY DEF save_block
<1>2. RT!Checked' = RT!Checked
  BY <1>1 DEF tracking, RT!Checked
<1>3. /\ header' = header /\ header = CD!NoHeader
      /\ ctx' # CD!NoSave => "crash" \in DOMAIN ctx' /\ ctx'.crash = crashes
  BY SaveKeepsCrash DEF save_block, SaveInProgress
<1>4. Types' /\ MagicWhileOn' /\ FirstIsStored' /\ MarkedIsFirst' /\ FlagMeansSaved' /\ CountIsKept'
  BY <1>1, <1>2 DEF tracking, history, counters, Types, MagicWhileOn, FirstIsStored,
                    MarkedIsFirst, FlagMeansSaved, CountIsKept
<1>5. SaveInProgress' /\ ReadingStored' /\ ReportsFirst'
  BY <1>1, <1>3 DEF SaveInProgress, ReadingStored, ReportsFirst, history, counters
<1> QED BY <1>4, <1>5

\* With the header the coredump is of this crash, and no other was in storage.
LEMMA SaveHeaderStep == ASSUME IInv, save_header PROVE IInv'
<1> USE DEF IInv
<1>1. /\ UNCHANGED <<tracking, reading, first, marked, sent, reported, bad, pending, missed,
                     counters>>
      /\ pc = "saving" /\ pc' = "saved"
      /\ ctx' = CD!NoSave /\ cores' = cores \cup {header'.crash}
  BY DEF save_header, CD!write_header
<1>2. RT!Checked' = RT!Checked
  BY <1>1 DEF tracking, RT!Checked
<1>3. header'.crash = crashes /\ crashes \in Nat \ {0} /\ header = CD!NoHeader
  BY <1>1 DEF save_header, CD!write_header, CD!NoHeader, SaveInProgress, Types
<1>4. Types' /\ MagicWhileOn' /\ FirstIsStored' /\ MarkedIsFirst' /\ FlagMeansSaved' /\ CountIsKept'
  BY <1>1, <1>2, <1>3 DEF tracking, counters, Types, MagicWhileOn, FirstIsStored,
                          MarkedIsFirst, FlagMeansSaved, CountIsKept
<1>5. reading = 0
  BY <1>3 DEF ReadingStored
<1>6. SaveInProgress' /\ ReadingStored'
  BY <1>1, <1>3, <1>5 DEF SaveInProgress, ReadingStored, counters
<1>7. ReportsFirst'
  BY <1>1, <1>3 DEF ReportsFirst, Types, Report, CD!NoHeader
<1> QED BY <1>4, <1>6, <1>7

LEMMA CoredumpSavedStep == ASSUME IInv, mark_coredump_saved PROVE IInv'
<1> USE DEF IInv
<1>1. /\ UNCHANGED <<coredump, reading, history, counters, reboot_reason_data>>
      /\ pc = "saved" /\ pc' = "done"
      /\ reboot_info' = [RT!Checked EXCEPT !.coredump_saved = TRUE]
  BY DEF mark_coredump_saved, RT!mark_coredump_saved
<1>2. RT!Checked \in Info /\ RT!Checked.magic
  BY CheckedTyped DEF Types
<1>3. /\ reboot_info' \in Info /\ reboot_info'.magic
      /\ reboot_info'.last_reboot_reason = RT!Checked.last_reboot_reason
      /\ reboot_info'.crash_count = RT!Checked.crash_count
      /\ RT!Checked' = reboot_info'
  BY <1>1, <1>2 DEF Info, RT!Checked
<1>4. Types' /\ MagicWhileOn' /\ FirstIsStored' /\ MarkedIsFirst' /\ FlagMeansSaved' /\ CountIsKept'
  BY <1>1, <1>3 DEF history, counters, Types, MagicWhileOn, FirstIsStored,
                    MarkedIsFirst, FlagMeansSaved, CountIsKept
<1>5. SaveInProgress' /\ ReadingStored' /\ ReportsFirst'
  BY <1>1 DEF SaveInProgress, ReadingStored, ReportsFirst, coredump, history, counters
<1> QED BY <1>4, <1>5

\* A reset of any kind: memory stays, and a save ends where it is.
LEMMA ResetStep == ASSUME IInv, platform_reboot \/ reset PROVE IInv'
<1> USE DEF IInv
<1>1. /\ UNCHANGED <<history, crashes, header, reboot_info>>
      /\ pc' = "off" /\ reading' = 0 /\ ctx' = CD!NoSave
      /\ reboot_reason_data' = RT!NotValid
  BY DEF platform_reboot, reset, CD!reset, RT!reset, counters
<1>2. RT!Checked' = RT!Checked /\ RT!NotValid \in Data
  BY <1>1 DEF RT!Checked, RT!NotValid, Data, RT!Reason
<1>3. Types' /\ MagicWhileOn' /\ FirstIsStored' /\ MarkedIsFirst' /\ FlagMeansSaved' /\ CountIsKept'
  BY <1>1, <1>2 DEF history, Types, MagicWhileOn, FirstIsStored,
                    MarkedIsFirst, FlagMeansSaved, CountIsKept
<1>4. SaveInProgress' /\ ReadingStored' /\ ReportsFirst'
  BY <1>1 DEF SaveInProgress, ReadingStored, ReportsFirst, history
<1> QED BY <1>3, <1>4

LEMMA PowerLossStep == ASSUME IInv, power_loss PROVE IInv'
<1> USE DEF IInv
<1>1. /\ UNCHANGED <<sent, reported, crashes, header>>
      /\ pc' = "off" /\ reading' = 0 /\ ctx' = CD!NoSave
      /\ reboot_reason_data' = RT!NotValid /\ reboot_info' = RT!Garbage
      /\ first' = NotSet /\ marked' = NotSet /\ cores' = {}
      /\ bad' = 0 /\ pending' = FALSE /\ missed' = FALSE
  BY DEF power_loss, CD!reset, RT!power_loss
<1>2. RT!Checked' = RT!Cleared /\ RT!NotValid \in Data
  BY <1>1 DEF RT!Checked, RT!Garbage, RT!NotValid, Data, RT!Reason
<1>3. Types' /\ MagicWhileOn' /\ FirstIsStored' /\ MarkedIsFirst' /\ FlagMeansSaved'
  BY <1>1, <1>2, ClearedMemory DEF Types, MagicWhileOn, FirstIsStored,
                    MarkedIsFirst, FlagMeansSaved
<1>4. SaveInProgress' /\ ReadingStored' /\ ReportsFirst'
  BY <1>1 DEF SaveInProgress, ReadingStored, ReportsFirst
<1>5. CountIsKept'
  <2>1. 0 % Width = 0
    BY ReasonAssumption
  <2> QED BY <1>1, <1>2, <2>1, ClearedMemory DEF CountIsKept
<1> QED BY <1>3, <1>4, <1>5

LEMMA CollectStep == ASSUME IInv, collect_reset_info PROVE IInv'
<1> USE DEF IInv
<1>1. /\ UNCHANGED <<coredump, pc, reading, sent, bad, missed, counters, reboot_reason_data>>
      /\ pc = "up"
      /\ first' = NotSet /\ marked' = NotSet /\ cores' = {} /\ pending' = FALSE
      /\ reported' = [reason |-> RT!Checked.last_reboot_reason,
                      coredump_saved |-> RT!Checked.coredump_saved,
                      first |-> first, cores |-> cores]
      /\ reboot_info' = [RT!Checked EXCEPT !.last_reboot_reason = NotSet,
                                           !.coredump_saved = FALSE]
  BY DEF collect_reset_info, RT!clear_reset_info, RT!Event
<1>2. RT!Checked \in Info /\ RT!Checked.magic
  BY CheckedTyped DEF Types
<1>3. /\ reboot_info' \in Info /\ reboot_info'.magic
      /\ reboot_info'.last_reboot_reason = NotSet
      /\ ~reboot_info'.coredump_saved
      /\ reboot_info'.crash_count = RT!Checked.crash_count
      /\ RT!Checked' = reboot_info'
  BY <1>1, <1>2 DEF Info, RT!Checked
<1>4. reported' \in Report
  BY <1>1, <1>2 DEF Report, Types, Info
<1>5. Types' /\ MagicWhileOn' /\ FirstIsStored' /\ MarkedIsFirst' /\ FlagMeansSaved' /\ CountIsKept'
  BY <1>1, <1>3, <1>4 DEF counters, Types, MagicWhileOn, FirstIsStored,
                    MarkedIsFirst, FlagMeansSaved, CountIsKept
<1>6. SaveInProgress' /\ ReadingStored'
  BY <1>1 DEF SaveInProgress, ReadingStored, coredump, counters
<1>7. ReportsFirst'
  BY <1>1 DEF ReportsFirst, FirstIsStored, FlagMeansSaved, coredump
<1> QED BY <1>5, <1>6, <1>7

LEMMA ResetCountStep == ASSUME IInv, reset_crash_count PROVE IInv'
<1> USE DEF IInv
<1>1. /\ UNCHANGED <<coredump, pc, reading, first, marked, cores, sent, reported, pending,
                     crashes, reboot_reason_data>>
      /\ pc = "up" /\ bad' = 0 /\ missed' = FALSE
      /\ reboot_info' = [RT!Checked EXCEPT !.crash_count = 0]
  BY DEF reset_crash_count, RT!reset_crash_count
<1>2. RT!Checked \in Info /\ RT!Checked.magic /\ 0 \in 0..(Width - 1) /\ 0 % Width = 0
  BY CheckedTyped, ReasonAssumption DEF Types
<1>3. /\ reboot_info' \in Info /\ reboot_info'.magic
      /\ reboot_info'.last_reboot_reason = RT!Checked.last_reboot_reason
      /\ reboot_info'.coredump_saved = RT!Checked.coredump_saved
      /\ reboot_info'.crash_count = 0
      /\ RT!Checked' = reboot_info'
  BY <1>1, <1>2 DEF Info, RT!Checked
<1>4. Types' /\ MagicWhileOn' /\ FirstIsStored' /\ MarkedIsFirst' /\ FlagMeansSaved' /\ CountIsKept'
  BY <1>1, <1>2, <1>3 DEF Types, MagicWhileOn, FirstIsStored,
                    MarkedIsFirst, FlagMeansSaved, CountIsKept
<1>5. SaveInProgress' /\ ReadingStored' /\ ReportsFirst'
  BY <1>1 DEF SaveInProgress, ReadingStored, ReportsFirst, coredump
<1> QED BY <1>4, <1>5

\* The packetizer finds a coredump, sends it and deletes it.
LEMMA ReaderStep == ASSUME IInv, has_valid_coredump \/ mark_msg_read PROVE IInv'
<1> USE DEF IInv
<1>1. /\ UNCHANGED <<tracking, pc, first, marked, cores, reported, bad, pending, missed,
                     counters, ctx>>
      /\ pc = "up"
      /\ \/ reading' = header.crash /\ header # CD!NoHeader /\ header' = header /\ sent' = sent
         \/ /\ reading # 0 /\ reading' = 0 /\ header' = CD!NoHeader
            /\ sent' = sent \cup {reading}
  BY DEF has_valid_coredump, mark_msg_read, CD!storage_clear, coredump, history
<1>2. RT!Checked' = RT!Checked
  BY <1>1 DEF tracking, RT!Checked
<1>3. Types' /\ MagicWhileOn' /\ FirstIsStored' /\ MarkedIsFirst' /\ FlagMeansSaved' /\ CountIsKept'
  BY <1>1, <1>2 DEF tracking, counters, Types, ReadingStored, MagicWhileOn, FirstIsStored,
                    MarkedIsFirst, FlagMeansSaved, CountIsKept
<1>4. SaveInProgress' /\ ReadingStored'
  BY <1>1 DEF SaveInProgress, ReadingStored, counters, CD!NoHeader
<1>5. ReportsFirst'
  BY <1>1 DEF ReportsFirst, ReadingStored
<1> QED BY <1>3, <1>4, <1>5

LEMMA StutterStep == ASSUME IInv, UNCHANGED vars PROVE IInv'
<1>1. RT!Checked' = RT!Checked
  BY DEF vars, tracking, RT!Checked
<1> QED BY <1>1 DEF IInv, vars, coredump, tracking, history, counters, Types, MagicWhileOn,
             FirstIsStored, MarkedIsFirst, FlagMeansSaved, SaveInProgress, ReadingStored,
             CountIsKept, ReportsFirst

LEMMA NextKeeps == IInv /\ [Next]_vars => IInv'
<1>1. Expected \subseteq RT!Reason /\ Unexpected \subseteq RT!Reason
  BY DEF RT!Reason
<1> QED BY <1>1, BootStep, MarkStep, SaveBeginStep, SaveBlockStep, SaveHeaderStep,
           CoredumpSavedStep, ResetStep, PowerLossStep, CollectStep, ResetCountStep, ReaderStep,
           StutterStep
        DEF Next, Waits

LEMMA Inductive == Spec => []IInv
<1>1. IInv /\ [Next]_vars => IInv'
  BY NextKeeps
<1> QED BY InitHolds, <1>1, PTL DEF Spec

\* Of every event: its reason is the first since the event before it, over any number of
\* resets, and a coredump it claims was completed since then and is in storage or sent.
THEOREM EventsAreTrue == Spec => []ReportsFirst
<1>1. IInv => ReportsFirst
  BY DEF IInv
<1> QED BY <1>1, Inductive, PTL

\* Where every boot is reported before the next reset, the count is of the resets whose first
\* reason was Unknown or an error, up to its width.
THEOREM CrashesAreCounted == Spec => []CountsCrashesReported
<1>1. IInv => CountsCrashesReported
  BY DEF IInv, MagicWhileOn, CountIsKept, CountsCrashesReported, CountsCrashes, RT!Checked
<1> QED BY <1>1, Inductive, PTL

\* A coredump in storage keeps every block until the packetizer has sent it.
THEOREM CoredumpIsKept == Spec => FirstCoredumpKept
<1> DEFINE Keeps == header # CD!NoHeader =>
             \/ header' = header /\ blocks' = blocks
             \/ header' = CD!NoHeader /\ reading = header.crash /\ sent' = sent \cup {reading}
<1>1. IInv /\ [Next]_vars => [Keeps]_vars
  <2> SUFFICES ASSUME IInv, [Next]_vars, header # CD!NoHeader
               PROVE  \/ header' = header /\ blocks' = blocks
                      \/ /\ header' = CD!NoHeader
                         /\ reading = header.crash /\ sent' = sent \cup {reading}
    OBVIOUS
  <2>1. pc # "saving"
    BY DEF IInv, SaveInProgress
  <2>2. CASE mark_msg_read
    BY <2>2 DEF mark_msg_read, CD!storage_clear, IInv, ReadingStored
  <2>3. CASE UNCHANGED coredump \/ CD!reset
    BY <2>3 DEF coredump, CD!reset
  <2> QED BY <2>1, <2>2, <2>3
          DEF Next, boot, mark_reset_imminent, fault_handler, save_begin, save_block, save_header,
              mark_coredump_saved, platform_reboot, reset, power_loss, collect_reset_info,
              reset_crash_count, has_valid_coredump, Waits, CD!save_begin, vars, coredump
<1> QED BY <1>1, Inductive, PTL DEF Spec, FirstCoredumpKept

-------------------------------------------------------------------------------
(* Induction, stated over a set of numbers                                       *)

LEMMA LeastNatural ==
  ASSUME NEW S \in SUBSET Nat, S # {}
  PROVE  \E x \in S : \A y \in S : x <= y
<1>1. PICK x \in S : \A y \in S : <<y, x>> \notin OpToRel(<, Nat)
  BY NatLessThanWellFounded, WFMin
<1>2. \A y \in S : ~(y < x)
  BY <1>1, Zenon DEF OpToRel
<1> QED
  BY <1>2

LEMMA SetInduction ==
  ASSUME NEW T \in SUBSET Nat, 0 \in T, \A n \in T : n + 1 \in T
  PROVE  \A n \in Nat : n \in T
<1> SUFFICES ASSUME Nat \ T # {} PROVE FALSE
  OBVIOUS
<1>1. PICK x \in Nat \ T : \A y \in Nat \ T : x <= y
  BY LeastNatural
<1>2. x # 0 /\ x - 1 \in Nat /\ x - 1 < x
  BY <1>1
<1>3. x - 1 \in T
  BY <1>1, <1>2
<1>4. (x - 1) + 1 \in T /\ (x - 1) + 1 = x
  BY <1>3, <1>2
<1> QED
  BY <1>4

-------------------------------------------------------------------------------
(* The coredump in storage                                                       *)

Kinds == {"registers", "version", "machine", "reason", "padding", "memory"}
Stored == [crash : Nat, kind : Kinds, address : Nat, at : Nat, len : Nat, whole : BOOLEAN]
Context == [crash : Nat, next : Nat, offset : Nat, truncated : BOOLEAN, write_error : BOOLEAN]
Attempt == [ctx : Context, blocks : Seq(Stored), errors : Nat, ok : BOOLEAN]

\* Where block i of bs starts, or ends what is before it.
StartOf(bs, i) == IF i = 1 THEN CD!HeaderSize ELSE bs[i - 1].at + CD!BlockSize + bs[i - 1].len

\* The blocks so far are of this crash, follow one another, and leave room for the footer.
Laid(c, bs) ==
  /\ \A i \in DOMAIN bs : bs[i].crash = c.crash /\ bs[i].whole /\ bs[i].at = StartOf(bs, i)
  /\ c.offset = StartOf(bs, Len(bs) + 1)
  /\ bs # <<>> => c.offset + CD!FooterSize <= layout.size

\* No other block fits.
Full(c) == CD!Free(c.offset) < CD!BlockSize

\* The blocks of fixed place before the n-th are there; one that was cut is the last.
FixedLaid(c, bs, n) ==
  /\ IF n <= 4 THEN Len(bs) = n - 1 ELSE Len(bs) >= 4
  /\ \A i \in 1..4 : i < n => /\ bs[i].kind = CD!Fixed[i].kind
                             /\ (bs[i].len = CD!Fixed[i].len \/ (n <= 4 /\ Full(c)))

\* Of region i, and of the walk over the first n blocks.
Wanted(i) == CD!Wanted(layout.regions[i])
WalkTo(n) == CD!WalkTo(CD!Fixed, layout.regions, n)

\* Memory is of wanted regions before r, in order, and aligned but for the exception.
IsMemory(bs, i) == i \in DOMAIN bs /\ bs[i].kind = "memory"
MemoryIs(c, bs, i) ==
  /\ bs[i].address \in DOMAIN layout.regions /\ Wanted(bs[i].address)
  /\ bs[i].len <= layout.regions[bs[i].address].len
  /\ ((bs[i].at % 4) = 0 \/ (c.truncated /\ i = Len(bs) /\ bs[i].len < 3 /\ Full(c)))
MemoryLaid(c, bs, r) ==
  /\ \A i \in DOMAIN bs : IsMemory(bs, i) => bs[i].address < r /\ MemoryIs(c, bs, i)
  /\ \A i, j \in DOMAIN bs : IsMemory(bs, i) /\ IsMemory(bs, j) /\ i < j
                              => bs[i].address < bs[j].address

\* Unless it is truncated the coredump has each wanted region before r.
Has(bs, q) == \E i \in DOMAIN bs : /\ IsMemory(bs, i) /\ bs[i].address = q
                                   /\ bs[i].len = layout.regions[q].len
AllLaid(c, bs, r) ==
  ~c.truncated => \A q \in DOMAIN layout.regions : q < r /\ Wanted(q) => Has(bs, q)

\* With room for all, it is where the walk is.
RoomFor(c, w) == layout.size >= CD!SaveSize => ~c.truncated /\ c.offset = w

SavedTo(c, bs, n, w) == /\ Laid(c, bs) /\ FixedLaid(c, bs, n) /\ MemoryLaid(c, bs, n - 4)
                        /\ AllLaid(c, bs, n - 4) /\ RoomFor(c, w)

FooterOf(c) == [crash |-> c.crash, kind |-> "footer", at |-> c.offset,
                len |-> CD!FooterSize, whole |-> TRUE, truncated |-> c.truncated]

\* Of the context of a save. Where no write has failed so far the blocks are as above; the
\* footer is no block like the others.
SavedWith(c, bs) ==
  /\ c \in Context /\ c.next \in 1..(CD!Footer + 1)
  /\ c.next <= CD!Footer => bs \in Seq(Stored)
  /\ ~c.write_error =>
       /\ c.next <= CD!Footer => SavedTo(c, bs, c.next, WalkTo(c.next - 1))
       /\ c.next = CD!Footer + 1 =>
            \E d \in Context, ds \in Seq(Stored) :
              /\ d.crash = c.crash /\ c.offset = d.offset + CD!FooterSize
              /\ bs = Append(ds, FooterOf(d))
              /\ SavedTo(d, ds, CD!Footer, WalkTo(CD!Footer - 1))
Saved ==
  /\ layout \in CD!Layout /\ errors \in Nat
  /\ ctx # CD!NoSave => SavedWith(ctx, blocks)
-------------------------------------------------------------------------------
(* The walk over all that is to be saved, as long as storage has room for it     *)

\* A function on numbers can be defined from each value to the next.
Steps(f, b, s, n) == f[0] = b /\ \A k \in 1..n : f[k] = s[k][f[k - 1]]

LEMMA StepsAgree ==
  ASSUME NEW f, NEW g, NEW b, NEW s, NEW n \in Nat, Steps(f, b, s, n), Steps(g, b, s, n)
  PROVE  \A k \in 0..n : f[k] = g[k]
<1> DEFINE T == {k \in Nat : k <= n => f[k] = g[k]}
<1>1. 0 \in T
  BY DEF Steps
<1>2. ASSUME NEW k \in T PROVE k + 1 \in T
  <2>1. k \in Nat /\ (k <= n => f[k] = g[k]) /\ k + 1 \in Nat
    OBVIOUS
  <2>2. CASE k + 1 <= n
    <3>1. k + 1 \in 1..n /\ (k + 1) - 1 = k /\ k <= n
      BY <2>1, <2>2
    <3>2. f[k + 1] = s[k + 1][f[k]] /\ g[k + 1] = s[k + 1][g[k]]
      BY <3>1 DEF Steps
    <3> QED BY <2>1, <3>1, <3>2
  <2> QED BY <2>1, <2>2
<1>3. \A k \in Nat : k \in T
  <2> HIDE DEF T
  <2>1. T \in SUBSET Nat
    BY DEF T
  <2> QED BY <1>1, <1>2, <2>1, SetInduction
<1> QED BY <1>3

LEMMA StepMore ==
  ASSUME NEW b \in Nat, NEW s \in [Nat -> [Nat -> Nat]], NEW n \in Nat, NEW m, m = n + 1,
         NEW f \in [Nat -> Nat], Steps(f, b, s, n)
  PROVE  \E g \in [Nat -> Nat] : Steps(g, b, s, m)
<1> DEFINE v == s[m][f[n]]
<1>1. v \in Nat /\ m \in Nat /\ \A k \in 0..n : k # m /\ k \in Nat
  <2>1. m \in Nat /\ \A k \in 0..n : k # m /\ k \in Nat
    OBVIOUS
  <2>2. s[m] \in [Nat -> Nat] /\ f[n] \in Nat
    BY <2>1
  <2> QED BY <2>1, <2>2
<1> HIDE DEF v
<1> DEFINE g == [f EXCEPT ![m] = v]
<1>2. g \in [Nat -> Nat] /\ g[m] = v /\ \A k \in Nat : k # m => g[k] = f[k]
  BY <1>1, Zenon
<1> HIDE DEF g
<1>3. ASSUME NEW k \in 1..m PROVE g[k] = s[k][g[k - 1]]
  <2>1. CASE k = m
    <3>1. k - 1 = n /\ n \in 0..n
      BY <2>1
    <3> QED BY <1>1, <1>2, <2>1, <3>1 DEF v
  <2>2. CASE k \in 1..n
    <3>1. k \in 0..n /\ k - 1 \in 0..n
      BY <2>2
    <3>2. f[k] = s[k][f[k - 1]]
      BY <2>2 DEF Steps
    <3> QED BY <1>1, <1>2, <3>1, <3>2
  <2> QED BY <2>1, <2>2
<1>4. g[0] = b
  BY <1>1, <1>2 DEF Steps
<1> QED BY <1>2, <1>3, <1>4 DEF Steps

LEMMA StepsExist ==
  ASSUME NEW b \in Nat, NEW s \in [Nat -> [Nat -> Nat]]
  PROVE  \A n \in Nat : \E f \in [Nat -> Nat] : Steps(f, b, s, n)
<1> DEFINE T == {n \in Nat : \E f \in [Nat -> Nat] : Steps(f, b, s, n)}
<1>1. 0 \in T
  <2>1. Steps([n \in Nat |-> b], b, s, 0)
    BY DEF Steps
  <2> QED BY <2>1
<1>2. ASSUME NEW n \in T PROVE n + 1 \in T
  <2>1. n \in Nat /\ n + 1 \in Nat
    OBVIOUS
  <2>2. \E f \in [Nat -> Nat] : Steps(f, b, s, n)
    OBVIOUS
  <2> HIDE DEF T
  <2>3. PICK f \in [Nat -> Nat] : Steps(f, b, s, n)
    BY <2>2
  <2>4. \E g \in [Nat -> Nat] : Steps(g, b, s, n + 1)
    BY <2>1, <2>3, StepMore
  <2> QED BY <2>1, <2>4 DEF T
<1> HIDE DEF T
<1>3. T \in SUBSET Nat
  BY DEF T
<1>4. \A n \in Nat : n \in T
  BY <1>1, <1>2, <1>3, SetInduction
<1> QED BY <1>4 DEF T

LEMMA FixedIs ==
  ASSUME layout \in CD!Layout
  PROVE  /\ Len(CD!Fixed) = 4 /\ DOMAIN CD!Fixed = 1..4
         /\ \A i \in 1..4 : /\ CD!Fixed[i].len \in Nat \ {0}
                            /\ CD!Fixed[i].kind \in Kinds \ {"padding", "memory"}
         /\ CD!Fixed[4].len = 4
         /\ CD!Footer = Len(layout.regions) + 5 /\ CD!Footer \in Nat
BY DEF CD!Fixed, CD!Layout, CD!Footer, Kinds

LEMMA RegionIs ==
  ASSUME layout \in CD!Layout, NEW i \in DOMAIN layout.regions
  PROVE  /\ layout.regions[i].len \in Nat
         /\ layout.regions[i].word \in BOOLEAN /\ layout.regions[i].valid \in BOOLEAN
<1> DEFINE s == layout.regions
           R == [len : Nat, word : BOOLEAN, valid : BOOLEAN]
<1>1. s \in Seq(R)
  BY DEF CD!Layout
<1>2. s[i] \in R
  <2> HIDE DEF s, R
  <2>1. i \in DOMAIN s
    BY DEF s
  <2> QED BY <1>1, <2>1
<1> QED BY <1>2

LEMMA RegionsAre ==
  ASSUME layout \in CD!Layout
  PROVE  /\ layout.size \in Nat /\ Len(layout.regions) \in Nat
         /\ DOMAIN layout.regions = 1..Len(layout.regions)
BY DEF CD!Layout

LEMMA PaddingIs ==
  ASSUME NEW n \in Nat
  PROVE  /\ CD!PaddingAt(n) \in 0..3 /\ (n + CD!PaddingAt(n)) % 4 = 0
         /\ n % 4 = 0 <=> CD!PaddingAt(n) = 0
         /\ CD!Padded(n) \in Nat /\ n <= CD!Padded(n) /\ CD!Padded(n) % 4 = 0
BY DEF CD!PaddingAt, CD!Padded, CD!BlockSize

\* What comes after n in the walk.
Walked(n, w) ==
  IF n \in DOMAIN CD!Fixed THEN w + CD!BlockSize + CD!Fixed[n].len
  ELSE IF Wanted(n - 4) THEN CD!Padded(w) + CD!BlockSize + layout.regions[n - 4].len
  ELSE CD!Padded(w)

LEMMA WalkIs ==
  ASSUME layout \in CD!Layout
  PROVE  \E f \in [Nat -> Nat] :
           /\ f[0] = CD!HeaderSize
           /\ \A n \in 1..(CD!Footer - 1) : f[n] = Walked(n, f[n - 1])
           /\ \A m \in 0..(CD!Footer - 1) : WalkTo(m) = f[m]
<1> DEFINE last == CD!Footer - 1
           s == [n \in Nat |-> [w \in Nat |-> IF n \in 1..last THEN Walked(n, w) ELSE 0]]
<1>1. last \in Nat /\ last = Len(layout.regions) + 4 /\ DOMAIN CD!Fixed = 1..4
  BY FixedIs
<1>2. s \in [Nat -> [Nat -> Nat]]
  <2>1. ASSUME NEW n \in 1..last, NEW w \in Nat PROVE Walked(n, w) \in Nat
    <3>1. CASE n \in DOMAIN CD!Fixed
      BY <3>1, <1>1, FixedIs DEF Walked, CD!BlockSize
    <3>2. CASE n \notin DOMAIN CD!Fixed
      <4>1. n - 4 \in DOMAIN layout.regions
        BY <3>2, <1>1, RegionsAre
      <4>2. layout.regions[n - 4].len \in Nat
        BY <4>1, RegionIs
      <4>3. CD!Padded(w) \in Nat
        BY PaddingIs
      <4> QED BY <3>2, <4>2, <4>3 DEF Walked, CD!BlockSize
    <3> QED BY <3>1, <3>2
  <2> QED BY <2>1
<1>3. CD!HeaderSize \in Nat
  BY DEF CD!HeaderSize
<1>4. PICK f \in [Nat -> Nat] : Steps(f, CD!HeaderSize, s, last)
  <2> HIDE DEF s, last
  <2> QED BY <1>1, <1>2, <1>3, StepsExist
<1>5. ASSUME NEW n \in 1..last PROVE f[n] = Walked(n, f[n - 1])
  <2>0. n \in Nat /\ n - 1 \in Nat
    BY <1>1
  <2>1. n \in Nat /\ f[n - 1] \in Nat
    BY <2>0
  <2>2. s[n][f[n - 1]] = Walked(n, f[n - 1])
    BY <2>1
  <2> QED BY <1>4, <2>2 DEF Steps
<1>6. ASSUME NEW m \in 0..last PROVE WalkTo(m) = f[m]
  <2> DEFINE Step(g, n) ==
        IF n = 0 THEN CD!HeaderSize
        ELSE IF n \in DOMAIN CD!Fixed THEN g[n - 1] + CD!BlockSize + CD!Fixed[n].len
        ELSE LET r == layout.regions[n - Len(CD!Fixed)]
             IN IF CD!Wanted(r) THEN CD!Padded(g[n - 1]) + CD!BlockSize + r.len
                                ELSE CD!Padded(g[n - 1])
      walk == CHOOSE g : g = [n \in 0..m |-> Step(g, n)]
  <2>1. WalkTo(m) = walk[m]
    BY Zenon DEF WalkTo, CD!WalkTo
  <2>2. ASSUME NEW g, NEW n \in 1..m PROVE Step(g, n) = Walked(n, g[n - 1])
    <3>1. n # 0 /\ Len(CD!Fixed) = 4
      BY <1>1, FixedIs
    <3> QED BY <3>1 DEF Walked, Wanted
  <2>3. \E g : g = [n \in 0..m |-> Step(g, n)]
    <3> DEFINE h == [n \in 0..m |-> f[n]]
    <3>1. ASSUME NEW n \in 0..m PROVE h[n] = Step(h, n)
      <4>1. CASE n = 0
        BY <4>1, <1>4 DEF Steps
      <4>2. CASE n # 0
        <5>1. n \in 1..m /\ n \in 1..last /\ n - 1 \in 0..m
          BY <4>2, <1>1
        <5>2. h[n] = f[n] /\ h[n - 1] = f[n - 1]
          BY <5>1
        <5>3. h[n] = Walked(n, h[n - 1])
          BY <5>1, <5>2, <1>5
        <5> HIDE DEF h
        <5> QED BY <5>1, <5>3, <2>2
      <4> QED BY <4>1, <4>2
    <3>2. h = [n \in 0..m |-> h[n]]
      OBVIOUS
    <3> HIDE DEF h, Step
    <3>3. h = [n \in 0..m |-> Step(h, n)]
      BY <3>1, <3>2
    <3> QED BY <3>3
  <2>4. walk = [n \in 0..m |-> Step(walk, n)]
    <3> HIDE DEF Step
    <3> QED BY <2>3, Zenon
  <2> HIDE DEF walk
  <2>5. Steps(walk, CD!HeaderSize, s, m)
    <3>1. walk[0] = CD!HeaderSize
      BY <2>4, <1>1
    <3>2. ASSUME NEW k \in 1..m, walk[k - 1] \in Nat PROVE walk[k] = s[k][walk[k - 1]]
      <4>1. walk[k] = Walked(k, walk[k - 1])
        <5> HIDE DEF Step
        <5>1. k \in 0..m
          BY <1>1
        <5>2. walk[k] = Step(walk, k)
          BY <5>1, <2>4
        <5> QED BY <5>2, <2>2
      <4>2. k \in 1..last /\ k \in Nat
        BY <1>1
      <4> QED BY <4>1, <4>2, <3>2
    <3> DEFINE T == {k \in Nat : k <= m => walk[k] \in Nat}
    <3> HIDE DEF Step
    <3>3. 0 \in T
      BY <3>1, <1>3
    <3>4. ASSUME NEW k \in T PROVE k + 1 \in T
      <4>1. CASE k + 1 <= m
        <5>1. k + 1 \in 1..m /\ (k + 1) - 1 = k /\ walk[k] \in Nat /\ k + 1 \in Nat /\ k \in Nat
          BY <4>1, <1>1
        <5>2. walk[k + 1] = s[k + 1][walk[k]]
          BY <5>1, <3>2
        <5> HIDE DEF s
        <5>3. s[k + 1][walk[k]] \in Nat
          BY <5>1, <1>2
        <5> QED BY <5>1, <5>2, <5>3
      <4> QED BY <4>1
    <3>5. \A k \in Nat : k \in T
      <4> HIDE DEF T
      <4>1. T \in SUBSET Nat
        BY DEF T
      <4> QED BY <3>3, <3>4, <4>1, SetInduction
    <3>6. \A k \in 1..m : walk[k - 1] \in Nat
      <4>1. \A k \in 1..m : k - 1 \in Nat /\ k - 1 <= m
        BY <1>1
      <4> QED BY <4>1, <3>5
    <3> QED BY <3>1, <3>2, <3>6 DEF Steps
  <2>6. Steps(f, CD!HeaderSize, s, m)
    <3>1. \A k \in 1..m : k \in 1..last
      BY <1>1
    <3> QED BY <1>4, <3>1 DEF Steps
  <2>7. walk[m] = f[m]
    <3>1. m \in Nat /\ m \in 0..m
      BY <1>1
    <3> HIDE DEF s
    <3> QED BY <3>1, <2>5, <2>6, StepsAgree
  <2> QED BY <2>1, <2>7
<1>7. f[0] = CD!HeaderSize
  BY <1>4 DEF Steps
<1> QED BY <1>5, <1>6, <1>7

\* The walk only goes up.
LEMMA WalkUp ==
  ASSUME layout \in CD!Layout
  PROVE  /\ WalkTo(0) = CD!HeaderSize
         /\ \A n \in 1..(CD!Footer - 1) : WalkTo(n) = Walked(n, WalkTo(n - 1))
         /\ \A n \in 0..(CD!Footer - 1) : WalkTo(n) \in Nat
                                         /\ WalkTo(n) + CD!FooterSize <= CD!SaveSize
<1> DEFINE last == CD!Footer - 1
<1>1. last \in Nat /\ last = Len(layout.regions) + 4 /\ DOMAIN CD!Fixed = 1..4
  BY FixedIs
<1>2. PICK f \in [Nat -> Nat] :
        /\ f[0] = CD!HeaderSize
        /\ \A n \in 1..last : f[n] = Walked(n, f[n - 1])
        /\ \A m \in 0..last : WalkTo(m) = f[m]
  BY WalkIs
<1>8. CD!SaveSize = WalkTo(last) + CD!FooterSize
  BY DEF CD!SaveSize, WalkTo
<1> HIDE DEF last
<1>3. ASSUME NEW n \in 1..last PROVE f[n - 1] <= f[n]
  <2>0. n - 1 \in Nat /\ n \in Nat
    BY <1>1
  <2>1. f[n - 1] \in Nat /\ f[n] \in Nat /\ f[n] = Walked(n, f[n - 1])
    BY <2>0, <1>2
  <2>2. CASE n \in DOMAIN CD!Fixed
    <3>1. CD!Fixed[n].len \in Nat
      BY <2>2, <1>1, FixedIs
    <3>2. f[n] = f[n - 1] + CD!BlockSize + CD!Fixed[n].len
      BY <2>1, <2>2 DEF Walked
    <3> DEFINE a == f[n - 1]
               b == f[n]
               len == CD!Fixed[n].len
    <3>3. a \in Nat /\ len \in Nat /\ b = a + CD!BlockSize + len
      BY <2>1, <3>1, <3>2
    <3> HIDE DEF a, b, len
    <3>4. a <= b
      BY <3>3 DEF CD!BlockSize
    <3> QED BY <3>4 DEF a, b
  <2>3. CASE n \notin DOMAIN CD!Fixed
    <3>1. n - 4 \in DOMAIN layout.regions
      <4>1. n - 4 \in 1..Len(layout.regions)
        <5> HIDE DEF last
        <5>1. n \notin 1..4 /\ n \in 1..last /\ last = Len(layout.regions) + 4
          BY <2>3, <1>1
        <5>2. Len(layout.regions) \in Nat
          BY RegionsAre
        <5> QED BY <5>1, <5>2
      <4> QED BY <4>1, RegionsAre
    <3>2. layout.regions[n - 4].len \in Nat
      BY <3>1, RegionIs
    <3>3. CD!Padded(f[n - 1]) \in Nat /\ f[n - 1] <= CD!Padded(f[n - 1])
      BY <2>1, PaddingIs
    <3> QED BY <2>1, <2>3, <3>2, <3>3 DEF Walked, CD!BlockSize
  <2> QED BY <2>2, <2>3
<1>4. \A n \in Nat : n <= last => f[last - n] <= f[last]
  <2> DEFINE T == {n \in Nat : n <= last => f[last - n] <= f[last]}
  <2>1. 0 \in T
    BY <1>1
  <2>2. ASSUME NEW n \in T PROVE n + 1 \in T
    <3>1. CASE n + 1 <= last
      <4>1. last - n \in 1..last /\ (last - n) - 1 = last - (n + 1) /\ last - (n + 1) \in Nat
        BY <3>1, <1>1
      <4>2. f[last - (n + 1)] <= f[last - n] /\ f[last - n] <= f[last]
        <5>1. f[(last - n) - 1] <= f[last - n]
          BY <4>1, <1>3
        <5>2. f[last - n] <= f[last]
          <6>1. n \in Nat /\ (n <= last => f[last - n] <= f[last])
            OBVIOUS
          <6>2. n <= last
            BY <3>1, <1>1, <6>1
          <6> QED BY <6>1, <6>2
        <5> QED BY <5>1, <5>2, <4>1
      <4>3. f[last - (n + 1)] \in Nat /\ f[last - n] \in Nat /\ f[last] \in Nat
        <5>1. last - n \in Nat
          BY <4>1
        <5> QED BY <4>1, <5>1, <1>1, <1>2
      <4> QED BY <4>2, <4>3
    <3> QED BY <3>1
  <2> HIDE DEF T
  <2>3. T \in SUBSET Nat
    BY DEF T
  <2>4. \A n \in Nat : n \in T
    BY <2>1, <2>2, <2>3, SetInduction
  <2> QED BY <2>4 DEF T
<1>5. ASSUME NEW n \in 0..last PROVE WalkTo(n) \in Nat /\ WalkTo(n) + CD!FooterSize <= CD!SaveSize
  <2>1. last - n \in Nat /\ last - n <= last /\ last - (last - n) = n /\ last \in 0..last /\ n \in Nat
    BY <1>1
  <2>2. f[n] <= f[last] /\ f[n] \in Nat /\ f[last] \in Nat
    BY <2>1, <1>4
  <2>3. WalkTo(n) = f[n] /\ CD!SaveSize = f[last] + CD!FooterSize
    BY <2>1, <1>2, <1>8
  <2> QED BY <2>2, <2>3 DEF CD!FooterSize
<1>6. ASSUME NEW n \in 1..last PROVE WalkTo(n) = Walked(n, WalkTo(n - 1))
  <2>1. n \in 0..last /\ n - 1 \in 0..last
    BY <1>1
  <2> QED BY <2>1, <1>2
<1>7. WalkTo(0) = CD!HeaderSize
  BY <1>1, <1>2
<1> QED BY <1>5, <1>6, <1>7 DEF last

LEMMA SaveSizeIs == ASSUME layout \in CD!Layout PROVE CD!SaveSize \in Nat
<1>1. CD!Footer - 1 \in 0..(CD!Footer - 1)
  BY FixedIs, RegionsAre
<1> QED BY <1>1, WalkUp DEF CD!SaveSize, WalkTo, CD!FooterSize

-------------------------------------------------------------------------------
(* A block                                                                       *)

LEMMA FreeTyped == ASSUME layout \in CD!Layout, NEW n \in Nat PROVE CD!Free(n) \in Nat
BY DEF CD!Free, CD!FooterSize, CD!Layout

LEMMA FreeIs ==
  ASSUME layout \in CD!Layout, NEW n \in Nat, n >= CD!HeaderSize
  PROVE  /\ CD!Free(n) \in Nat
         /\ CD!Free(n) > 4 => layout.size > CD!FooterSize
                              /\ CD!Free(n) = layout.size - CD!FooterSize - n
         /\ layout.size > CD!FooterSize /\ n <= layout.size - CD!FooterSize
              => CD!Free(n) = layout.size - CD!FooterSize - n
BY DEF CD!Free, CD!FooterSize, CD!HeaderSize, CD!Layout

\* What an attempt at a block of len bytes may do to t.
Nothing(t, u, len) == len = 0 /\ u.ok /\ u.ctx = t.ctx /\ u.blocks = t.blocks
Refused(t, u, len) ==
  /\ len # 0 /\ ~u.ok /\ u.blocks = t.blocks /\ u.ctx = [t.ctx EXCEPT !.truncated = TRUE]
  /\ CD!Free(t.ctx.offset) < CD!BlockSize + len /\ CD!Free(t.ctx.offset) < CD!BlockSize + 4
Block(t, kind, address, p) == [crash |-> t.ctx.crash, kind |-> kind, address |-> address,
                               at |-> t.ctx.offset, len |-> p, whole |-> TRUE]
Written(t, u, kind, address, len, p) ==
  /\ CD!BlockSize + p <= CD!Free(t.ctx.offset)
  /\ u.blocks = Append(t.blocks, Block(t, kind, address, p))
  /\ u.ctx = [t.ctx EXCEPT !.offset = @ + CD!BlockSize + p, !.truncated = @ \/ p # len]
  /\ CD!BlockSize + len <= CD!Free(t.ctx.offset) => p = len
  /\ p # len => p % 4 = 0 /\ CD!Free(t.ctx.offset) < CD!BlockSize + p + 4
  /\ u.ok \/ u.ctx.truncated
Attempted(t, u, kind, address, len) ==
  \/ Nothing(t, u, len) \/ Refused(t, u, len)
  \/ \E p \in 1..len : Written(t, u, kind, address, len, p)

LEMMA AttemptIs ==
  ASSUME NEW t \in Attempt
  PROVE  /\ t.ctx \in Context /\ t.blocks \in Seq(Stored) /\ t.errors \in Nat /\ t.ok \in BOOLEAN
         /\ t.ctx.offset \in Nat /\ t.ctx.crash \in Nat /\ t.ctx.next \in Nat
         /\ t.ctx.truncated \in BOOLEAN /\ t.ctx.write_error \in BOOLEAN
BY DEF Attempt, Context

\* Changed fields of an attempt.
LEMMA ContextSets ==
  ASSUME NEW c \in Context, NEW n \in Nat, NEW b \in BOOLEAN
  PROVE  /\ [c EXCEPT !.truncated = b] \in Context
         /\ [c EXCEPT !.offset = n] \in Context
         /\ [c EXCEPT !.next = n] \in Context
         /\ [c EXCEPT !.write_error = TRUE] \in Context
BY DEF Context

LEMMA AttemptSets ==
  ASSUME NEW t \in Attempt
  PROVE  /\ \A b \in BOOLEAN : [t EXCEPT !.ok = b] \in Attempt
         /\ \A b \in BOOLEAN : [t EXCEPT !.ctx.truncated = b] \in Attempt
         /\ \A n \in Nat, bs \in Seq(Stored) : [t EXCEPT !.ctx.offset = n, !.blocks = bs] \in Attempt
         /\ CD!Failed(t) \in Attempt
<1> DEFINE c == t.ctx
<1>1. c \in Context /\ t.errors + 1 \in Nat
  BY AttemptIs
<1>2. /\ \A b \in BOOLEAN : [c EXCEPT !.truncated = b] \in Context
      /\ \A n \in Nat : [c EXCEPT !.offset = n] \in Context
      /\ [c EXCEPT !.write_error = TRUE] \in Context
  BY <1>1, ContextSets
<1>3. ASSUME NEW b \in BOOLEAN PROVE [t EXCEPT !.ok = b] \in Attempt
  BY DEF Attempt
<1>4. ASSUME NEW b \in BOOLEAN PROVE [t EXCEPT !.ctx.truncated = b] \in Attempt
  BY <1>2 DEF Attempt
<1>5. ASSUME NEW n \in Nat, NEW bs \in Seq(Stored)
      PROVE  [t EXCEPT !.ctx.offset = n, !.blocks = bs] \in Attempt
  BY <1>2 DEF Attempt
<1>6. CD!Failed(t) \in Attempt
  BY <1>1, <1>2 DEF Attempt, CD!Failed
<1> QED BY <1>3, <1>4, <1>5, <1>6

LEMMA BlockStored ==
  ASSUME NEW t \in Attempt, NEW kind \in Kinds, NEW address \in Nat, NEW p \in Nat, NEW b \in BOOLEAN
  PROVE  Append(t.blocks, CD!Block(t, kind, address, p, b)) \in Seq(Stored)
<1>1. CD!Block(t, kind, address, p, b) \in Stored
  BY AttemptIs DEF CD!Block, Stored
<1> QED BY <1>1, AttemptIs

\* What is kept from attempt to attempt.
Goes(t, u) == /\ u \in Attempt /\ u.ctx.crash = t.ctx.crash /\ u.ctx.next = t.ctx.next
              /\ t.ctx.write_error => u.ctx.write_error

LEMMA BlockCases ==
  ASSUME layout \in CD!Layout, NEW t \in Attempt, NEW kind \in Kinds, NEW address \in Nat,
         NEW len \in Nat, NEW word \in BOOLEAN,
         NEW u \in CD!WriteBlock(t, kind, address, len, word)
  PROVE  Goes(t, u) /\ (u.ctx.write_error \/ Attempted(t, u, kind, address, len))
<1> DEFINE free == CD!Free(t.ctx.offset)
           fits == CD!BlockSize + len <= free
           cut == IF free < CD!BlockSize THEN 0 ELSE CD!Floor4(free - CD!BlockSize)
           payload == IF fits THEN len ELSE cut
           trunc == t.ctx.truncated \/ ~fits
           t1 == [t EXCEPT !.ctx.truncated = trunc]
           by_word == word /\ payload % 4 = 0
           to == t1.ctx.offset + CD!BlockSize + payload
           part_to == t1.ctx.offset + CD!BlockSize
           wbs == Append(t1.blocks, CD!Block(t1, kind, address, payload, TRUE))
           pbs == Append(t1.blocks, CD!Block(t1, kind, address, 0, FALSE))
           wok == ~by_word \/ ~t1.ctx.truncated
           w1 == [t1 EXCEPT !.ctx.offset = to, !.blocks = wbs]
           whole == [t1 EXCEPT !.ctx.offset = to, !.blocks = wbs, !.ok = wok]
           part == [t1 EXCEPT !.ctx.offset = part_to, !.blocks = pbs]
<1>1. \/ len = 0 /\ u = [t EXCEPT !.ok = TRUE]
      \/ len # 0 /\ payload = 0 /\ u = [t1 EXCEPT !.ok = FALSE]
      \/ len # 0 /\ payload # 0 /\ u \in {whole, CD!Failed(t1), CD!Failed(part)}
  BY Zenon DEF CD!WriteBlock
<1>2. /\ free \in Nat /\ fits \in BOOLEAN /\ payload \in Nat
      /\ ~fits /\ len # 0 => /\ payload < len /\ free < CD!BlockSize + payload + 4
                             /\ payload % 4 = 0 /\ free < CD!BlockSize + len
      /\ ~fits /\ payload # 0 => CD!BlockSize + payload <= free
  <2>1. free \in Nat
    BY FreeTyped, AttemptIs
  <2> HIDE DEF free
  <2>2. CASE fits
    BY <2>1, <2>2
  <2>3. CASE ~fits /\ free < CD!BlockSize
    BY <2>1, <2>3 DEF CD!BlockSize
  <2>4. CASE ~fits /\ free >= CD!BlockSize
    <3> DEFINE m == free - CD!BlockSize
    <3>1. m \in Nat /\ m < len /\ free = m + CD!BlockSize
      BY <2>1, <2>4 DEF CD!BlockSize
    <3>2. payload = CD!Floor4(m)
      BY <2>1, <2>4 DEF CD!BlockSize
    <3> HIDE DEF m, payload
    <3>3. payload \in Nat /\ payload <= m /\ m < payload + 4 /\ payload % 4 = 0
      BY <3>1, <3>2 DEF CD!Floor4
    <3> QED BY <2>1, <2>4, <3>1, <3>3 DEF CD!BlockSize
  <2> QED BY <2>1, <2>2, <2>3, <2>4 DEF CD!BlockSize
<1> HIDE DEF free, fits, payload
<1>3. t1 \in Attempt /\ t1.ctx = [t.ctx EXCEPT !.truncated = trunc] /\ t1.blocks = t.blocks
      /\ t1.ctx.truncated = trunc /\ t1.ctx.offset = t.ctx.offset /\ t1.ctx.crash = t.ctx.crash
      /\ t1.ctx.next = t.ctx.next /\ t1.ctx.write_error = t.ctx.write_error
      /\ trunc \in BOOLEAN
  <2>1. trunc \in BOOLEAN
    BY <1>2, AttemptIs
  <2> HIDE DEF trunc
  <2>2. t1 \in Attempt
    BY <2>1, AttemptSets
  <2> QED BY <2>1, <2>2 DEF Attempt, Context
<1> HIDE DEF t1, trunc
<1>4. /\ t1.blocks \in Seq(Stored) /\ to \in Nat /\ part_to \in Nat
      /\ wbs \in Seq(Stored) /\ pbs \in Seq(Stored) /\ wok \in BOOLEAN
  <2>1. wbs \in Seq(Stored) /\ pbs \in Seq(Stored)
    BY <1>2, <1>3, BlockStored
  <2>2. wok \in BOOLEAN
    OBVIOUS
  <2>3. t1.ctx.offset \in Nat /\ t1.blocks \in Seq(Stored)
    BY <1>3, AttemptIs
  <2>4. to \in Nat /\ part_to \in Nat
    BY <1>2, <2>3 DEF CD!BlockSize
  <2> QED BY <2>1, <2>2, <2>3, <2>4
<1>5. wbs = Append(t.blocks, Block(t, kind, address, payload))
  BY <1>3 DEF CD!Block, Block
<1> HIDE DEF wbs, pbs, wok, to, part_to
<1>6. CASE len = 0 /\ u = [t EXCEPT !.ok = TRUE]
  <2>1. u \in Attempt
    BY <1>6, AttemptSets
  <2> QED BY <1>6, <2>1 DEF Goes, Attempted, Nothing, Attempt
<1>7. CASE len # 0 /\ payload = 0 /\ u = [t1 EXCEPT !.ok = FALSE]
  <2>1. u \in Attempt /\ u.ctx = t1.ctx /\ u.blocks = t.blocks /\ ~u.ok
    BY <1>3, <1>7, AttemptSets DEF Attempt
  <2>2. ~fits
    BY <1>7 DEF payload
  <2>3. trunc = TRUE
    BY <2>2 DEF trunc
  <2>4. free < CD!BlockSize + len /\ free < CD!BlockSize + 4
    BY <1>2, <1>7, <2>2 DEF CD!BlockSize
  <2> QED BY <1>3, <1>7, <2>1, <2>3, <2>4 DEF Goes, Attempted, Refused, free
<1>8. CASE len # 0 /\ payload # 0 /\ u = whole
  <2>1. u = [w1 EXCEPT !.ok = wok]
    BY <1>3, <1>8 DEF Attempt
  <2>2. w1 \in Attempt
    BY <1>3, <1>4, AttemptSets
  <2>3. u \in Attempt
    BY <2>1, <2>2, <1>4, AttemptSets
  <2>4. u.blocks = wbs /\ u.ctx = [t1.ctx EXCEPT !.offset = to] /\ u.ok = wok
    BY <1>3, <1>8 DEF Attempt
  <2>5. payload \in 1..len
    BY <1>2, <1>8 DEF payload
  <2>6. u.ctx = [t.ctx EXCEPT !.offset = to, !.truncated = trunc]
    BY <1>3, <2>4 DEF Context
  <2>7. to = t.ctx.offset + CD!BlockSize + payload /\ wok = (~by_word \/ ~trunc)
    BY <1>3 DEF to, wok
  <2>8. u.ctx.truncated = trunc /\ u.ctx.crash = t.ctx.crash /\ u.ctx.next = t.ctx.next
        /\ u.ctx.write_error = t.ctx.write_error
    BY <2>6, AttemptIs DEF Context
  <2>9. trunc = (t.ctx.truncated \/ payload # len)
    <3>1. fits <=> payload = len
      <4>1. fits => payload = len
        BY DEF payload
      <4>2. ~fits => payload < len
        BY <1>2, <1>8
      <4> QED BY <4>1, <4>2, <1>2
    <3> QED BY <3>1, AttemptIs DEF trunc
  <2>10. fits => payload = len
    BY DEF payload
  <2>11. Written(t, u, kind, address, len, payload)
    <3>1. CD!BlockSize + payload <= free
      BY <1>2, <1>8, <2>10 DEF fits
    <3>2. u.ctx = [t.ctx EXCEPT !.offset = @ + CD!BlockSize + payload,
                                !.truncated = @ \/ payload # len]
      BY <2>6, <2>7, <2>9
    <3>3. CD!BlockSize + len <= free => payload = len
      BY <2>10 DEF fits
    <3>4. payload # len => payload % 4 = 0 /\ free < CD!BlockSize + payload + 4
      BY <1>2, <1>8, <2>10
    <3>5. u.ok \/ u.ctx.truncated
      BY <2>4, <2>7, <2>8
    <3> QED BY <1>5, <2>4, <3>1, <3>2, <3>3, <3>4, <3>5 DEF Written, free
  <2>12. Goes(t, u)
    BY <2>3, <2>8 DEF Goes
  <2> QED BY <2>5, <2>11, <2>12 DEF Attempted
<1>9. ASSUME NEW v \in Attempt, v.ctx.crash = t.ctx.crash, v.ctx.next = t.ctx.next,
             u = CD!Failed(v)
      PROVE  Goes(t, u) /\ u.ctx.write_error
  <2>1. u \in Attempt
    BY <1>9, AttemptSets
  <2>2. u.ctx = [v.ctx EXCEPT !.write_error = TRUE]
    BY <1>9 DEF CD!Failed, Attempt
  <2> QED BY <1>9, <2>1, <2>2, AttemptIs DEF Goes, Context
<1>10. CASE u = CD!Failed(t1)
  BY <1>3, <1>9, <1>10
<1>11. CASE u = CD!Failed(part)
  <2>1. part \in Attempt
    BY <1>3, <1>4, AttemptSets
  <2>2. part.ctx = [t1.ctx EXCEPT !.offset = part_to]
    BY <1>3 DEF Attempt
  <2>3. part.ctx.crash = t.ctx.crash /\ part.ctx.next = t.ctx.next
    <3>1. t1.ctx \in Context
      BY <1>3, AttemptIs
    <3> HIDE DEF part
    <3> QED BY <2>2, <3>1, <1>3 DEF Context
  <2> HIDE DEF part
  <2> QED BY <2>1, <2>3, <1>9, <1>11
<1> QED BY <1>1, <1>6, <1>7, <1>8, <1>10, <1>11

-------------------------------------------------------------------------------
(* What a block does to the coredump so far                                      *)

\* A block more behind bs.
Grows(c, bs, c2, bs2, b, p) ==
  /\ c \in Context /\ bs \in Seq(Stored) /\ c2 \in Context /\ b \in Stored
  /\ p \in Nat \ {0} /\ CD!BlockSize + p <= CD!Free(c.offset)
  /\ b.crash = c.crash /\ b.whole /\ b.at = c.offset /\ b.len = p
  /\ bs2 = Append(bs, b) /\ c2.crash = c.crash /\ c2.offset = c.offset + CD!BlockSize + p
  /\ c.truncated => c2.truncated

LEMMA Starts ==
  ASSUME NEW c \in Context, NEW bs \in Seq(Stored), Laid(c, bs)
  PROVE  /\ c.offset \in Nat /\ c.offset >= CD!HeaderSize
         /\ Len(bs) \in Nat /\ DOMAIN bs = 1..Len(bs)
<1>1. Len(bs) \in Nat /\ DOMAIN bs = 1..Len(bs) /\ c.offset \in Nat
  BY DEF Context
<1>2. CASE bs = <<>>
  BY <1>1, <1>2 DEF Laid, StartOf, CD!HeaderSize
<1>3. CASE bs # <<>>
  <2> DEFINE n == Len(bs)
             T == {k \in Nat : k \in 1..n => bs[k].at >= CD!HeaderSize}
  <2>1. \A k \in 1..n : bs[k].at \in Nat /\ bs[k].len \in Nat
    <3>1. \A k \in 1..n : bs[k] \in Stored
      BY <1>1
    <3> QED BY <3>1 DEF Stored
  <2>2. \A k \in 1..n : bs[k].at = StartOf(bs, k)
    BY <1>1 DEF Laid
  <2>3. 0 \in T
    OBVIOUS
  <2>4. ASSUME NEW k \in T PROVE k + 1 \in T
    <3>1. CASE k + 1 \in 1..n /\ k # 0
      <4>1. k \in 1..n /\ (k + 1) - 1 = k /\ k + 1 # 1
        BY <3>1, <1>1
      <4>2. bs[k + 1].at = bs[k].at + CD!BlockSize + bs[k].len /\ bs[k].at >= CD!HeaderSize
        BY <3>1, <4>1, <2>2 DEF StartOf
      <4>3. bs[k].at \in Nat /\ bs[k].len \in Nat
        BY <4>1, <2>1
      <4>4. bs[k + 1].at >= CD!HeaderSize
        BY <4>2, <4>3 DEF CD!BlockSize, CD!HeaderSize
      <4> QED BY <4>4
    <3>2. CASE k = 0
      BY <3>2, <2>2 DEF StartOf, CD!HeaderSize
    <3> QED BY <3>1, <3>2
  <2>5. \A k \in Nat : k \in T
    <3> HIDE DEF T
    <3>1. T \in SUBSET Nat
      BY DEF T
    <3> QED BY <2>3, <2>4, <3>1, SetInduction
  <2>6. n \in 1..n /\ (n + 1) - 1 = n /\ n + 1 # 1
    BY <1>1, <1>3
  <2>7. bs[n].at >= CD!HeaderSize /\ bs[n].at \in Nat /\ bs[n].len \in Nat
    BY <2>1, <2>5, <2>6
  <2>8. c.offset = bs[n].at + CD!BlockSize + bs[n].len
    BY <2>6 DEF Laid, StartOf
  <2> QED BY <1>1, <2>7, <2>8 DEF CD!HeaderSize, CD!BlockSize
<1> QED BY <1>1, <1>2, <1>3

\* A block goes only where there is room for one, and uses it.
LEMMA GrowsInto ==
  ASSUME layout \in CD!Layout, NEW c, NEW bs, NEW c2, NEW bs2, NEW b, NEW p,
         Grows(c, bs, c2, bs2, b, p), Laid(c, bs)
  PROVE  /\ ~Full(c) /\ CD!Free(c.offset) \in Nat
         /\ CD!Free(c2.offset) = CD!Free(c.offset) - CD!BlockSize - p
         /\ c2.offset + CD!FooterSize <= layout.size
         /\ c2.offset \in Nat /\ c2.offset >= CD!HeaderSize
<1>1. c.offset \in Nat /\ c.offset >= CD!HeaderSize /\ layout.size \in Nat
  BY Starts, RegionsAre DEF Grows
<1>2. CD!Free(c.offset) \in Nat /\ CD!Free(c.offset) > 4 /\ p \in Nat \ {0}
      /\ CD!BlockSize + p <= CD!Free(c.offset) /\ c2.offset = c.offset + CD!BlockSize + p
  BY <1>1, FreeIs DEF Grows, CD!BlockSize
<1>3. CD!Free(c.offset) = layout.size - CD!FooterSize - c.offset /\ layout.size > CD!FooterSize
  BY <1>1, <1>2, FreeIs
<1>4. /\ c2.offset \in Nat /\ c2.offset >= CD!HeaderSize
      /\ c2.offset <= layout.size - CD!FooterSize
  BY <1>1, <1>2, <1>3 DEF CD!BlockSize, CD!FooterSize, CD!HeaderSize
<1>5. CD!Free(c2.offset) = layout.size - CD!FooterSize - c2.offset
  BY <1>3, <1>4, FreeIs
<1>6. ~Full(c)
  BY <1>2 DEF Full, CD!BlockSize
<1> QED BY <1>1, <1>2, <1>3, <1>4, <1>5, <1>6 DEF CD!FooterSize, CD!BlockSize

LEMMA Appended ==
  ASSUME NEW bs \in Seq(Stored), NEW b \in Stored, NEW bs2, bs2 = Append(bs, b)
  PROVE  /\ bs2 \in Seq(Stored) /\ Len(bs2) = Len(bs) + 1 /\ Len(bs) \in Nat
         /\ DOMAIN bs = 1..Len(bs) /\ DOMAIN bs2 = 1..(Len(bs) + 1)
         /\ \A i \in 1..Len(bs) : bs2[i] = bs[i]
         /\ bs2[Len(bs) + 1] = b
OBVIOUS

LEMMA LaidGrows ==
  ASSUME layout \in CD!Layout, NEW c, NEW bs, NEW c2, NEW bs2, NEW b, NEW p,
         Grows(c, bs, c2, bs2, b, p), Laid(c, bs)
  PROVE  Laid(c2, bs2)
<1> DEFINE n == Len(bs)
<1>1. /\ bs2 \in Seq(Stored) /\ Len(bs2) = n + 1 /\ n \in Nat
      /\ DOMAIN bs = 1..n /\ DOMAIN bs2 = 1..(n + 1)
      /\ \A i \in 1..n : bs2[i] = bs[i]
      /\ bs2[n + 1] = b
  BY Appended DEF Grows
<1>2. ASSUME NEW i \in 1..(n + 1) PROVE StartOf(bs2, i) = StartOf(bs, i)
  <2>1. CASE i = 1
    BY <2>1 DEF StartOf
  <2>2. CASE i # 1
    <3>1. i - 1 \in 1..n
      BY <2>2, <1>1
    <3> QED BY <2>2, <3>1, <1>1 DEF StartOf
  <2> QED BY <2>1, <2>2
<1>3. ASSUME NEW i \in DOMAIN bs2
      PROVE  bs2[i].crash = c2.crash /\ bs2[i].whole /\ bs2[i].at = StartOf(bs2, i)
  <2>1. CASE i \in 1..n
    <3>1. i \in 1..(n + 1) /\ bs2[i] = bs[i] /\ i \in DOMAIN bs
      BY <2>1, <1>1
    <3>2. bs[i].crash = c.crash /\ bs[i].whole /\ bs[i].at = StartOf(bs, i)
      BY <3>1 DEF Laid
    <3> QED BY <3>1, <3>2, <1>2 DEF Grows
  <2>2. CASE i = n + 1
    <3>1. i \in 1..(n + 1)
      BY <2>2, <1>1
    <3>2. b.at = StartOf(bs, n + 1)
      BY DEF Grows, Laid
    <3> QED BY <2>2, <3>1, <3>2, <1>1, <1>2 DEF Grows
  <2> QED BY <2>1, <2>2, <1>1
<1>4. c2.offset = StartOf(bs2, Len(bs2) + 1)
  <2>1. Len(bs2) + 1 # 1 /\ (Len(bs2) + 1) - 1 = n + 1
    BY <1>1
  <2>2. StartOf(bs2, Len(bs2) + 1) = b.at + CD!BlockSize + b.len
    BY <1>1, <2>1 DEF StartOf
  <2> QED BY <2>2 DEF Grows
<1>5. c2.offset + CD!FooterSize <= layout.size
  BY GrowsInto
<1> QED BY <1>3, <1>4, <1>5 DEF Laid

\* The facts about a block more, for the lemmas that follow.
LEMMA GrowsIs ==
  ASSUME layout \in CD!Layout, NEW c, NEW bs, NEW c2, NEW bs2, NEW b, NEW p,
         Grows(c, bs, c2, bs2, b, p), Laid(c, bs)
  PROVE  /\ bs2 \in Seq(Stored) /\ Len(bs2) = Len(bs) + 1 /\ Len(bs) \in Nat
         /\ DOMAIN bs = 1..Len(bs) /\ DOMAIN bs2 = 1..(Len(bs) + 1)
         /\ \A i \in 1..Len(bs) : bs2[i] = bs[i]
         /\ bs2[Len(bs) + 1] = b
         /\ ~Full(c)
         /\ c.truncated => c2.truncated
<1>1. bs \in Seq(Stored) /\ b \in Stored /\ bs2 = Append(bs, b) /\ (c.truncated => c2.truncated)
  BY DEF Grows
<1>2. ~Full(c)
  BY GrowsInto
<1> QED BY <1>1, <1>2, Appended

\* Of memory that was there when another block fitted: it is aligned.
LEMMA MemoryGrows ==
  ASSUME layout \in CD!Layout, NEW c, NEW bs, NEW c2, NEW bs2, NEW b, NEW p,
         Grows(c, bs, c2, bs2, b, p), Laid(c, bs), NEW r \in Int, NEW r2 \in Int, r <= r2,
         MemoryLaid(c, bs, r),
         b.kind = "memory" => /\ b.address = r /\ r < r2
                              /\ MemoryIs(c2, bs2, Len(bs) + 1)
  PROVE  MemoryLaid(c2, bs2, r2)
<1> DEFINE n == Len(bs)
<1>1. /\ n \in Nat /\ DOMAIN bs = 1..n /\ DOMAIN bs2 = 1..(n + 1)
      /\ \A i \in 1..n : bs2[i] = bs[i]
      /\ bs2[n + 1] = b /\ ~Full(c)
  BY GrowsIs
<1>2. ASSUME NEW i \in 1..n PROVE IsMemory(bs2, i) <=> IsMemory(bs, i)
  BY <1>1 DEF IsMemory
<1>3. IsMemory(bs2, n + 1) <=> b.kind = "memory"
  BY <1>1 DEF IsMemory
<1>4. ASSUME NEW i \in 1..n, IsMemory(bs, i)
      PROVE  bs2[i].address \in Nat /\ bs2[i].address < r /\ MemoryIs(c2, bs2, i)
  <2>1. bs[i].address < r /\ MemoryIs(c, bs, i) /\ bs2[i] = bs[i]
    BY <1>1, <1>4 DEF MemoryLaid
  <2>2. bs[i].at % 4 = 0
    BY <1>1, <2>1 DEF MemoryIs
  <2>3. bs[i].address \in Nat
    BY <2>1, RegionsAre DEF MemoryIs
  <2> QED BY <2>1, <2>2, <2>3 DEF MemoryIs
<1>5. ASSUME NEW i \in DOMAIN bs2, IsMemory(bs2, i)
      PROVE  bs2[i].address < r2 /\ MemoryIs(c2, bs2, i)
  <2>1. CASE i \in 1..n
    BY <2>1, <1>2, <1>4, <1>5
  <2>2. CASE i = n + 1
    BY <2>2, <1>1, <1>3, <1>5
  <2> QED BY <2>1, <2>2, <1>1
<1>6. ASSUME NEW i \in DOMAIN bs2, NEW j \in DOMAIN bs2, IsMemory(bs2, i), IsMemory(bs2, j), i < j
      PROVE  bs2[i].address < bs2[j].address
  <2>1. i \in 1..n /\ IsMemory(bs, i) /\ bs2[i] = bs[i]
    <3>1. i \in 1..n
      BY <1>1, <1>6
    <3> QED BY <3>1, <1>1, <1>2, <1>6
  <2>2. CASE j \in 1..n
    <3>1. IsMemory(bs, j) /\ bs2[j] = bs[j]
      BY <2>2, <1>1, <1>2, <1>6
    <3> QED BY <1>1, <1>6, <2>1, <2>2, <3>1 DEF MemoryLaid
  <2>3. CASE j = n + 1
    <3>1. b.kind = "memory" /\ bs2[j] = b
      BY <2>3, <1>1, <1>3, <1>6
    <3>2. bs2[i].address < r
      BY <2>1, <1>4
    <3> QED BY <3>1, <3>2
  <2> QED BY <2>2, <2>3, <1>1
<1> QED BY <1>5, <1>6 DEF MemoryLaid

\* What was there stays, and the new block may be the next region.
LEMMA AllGrows ==
  ASSUME layout \in CD!Layout, NEW c, NEW bs, NEW c2, NEW bs2, NEW b, NEW p,
         Grows(c, bs, c2, bs2, b, p), Laid(c, bs), NEW r \in Int, NEW r2 \in Int,
         AllLaid(c, bs, r),
         \/ r2 = r
         \/ r2 = r + 1 /\ (~c2.truncated /\ r \in DOMAIN layout.regions =>
                             b.kind = "memory" /\ b.address = r /\ b.len = layout.regions[r].len)
  PROVE  AllLaid(c2, bs2, r2)
<1> DEFINE n == Len(bs)
<1>1. /\ n \in Nat /\ DOMAIN bs = 1..n /\ DOMAIN bs2 = 1..(n + 1)
      /\ \A i \in 1..n : bs2[i] = bs[i]
      /\ bs2[n + 1] = b /\ (c.truncated => c2.truncated)
  BY GrowsIs
<1> SUFFICES ASSUME ~c2.truncated, NEW q \in DOMAIN layout.regions, q < r2, Wanted(q)
             PROVE  Has(bs2, q)
  BY DEF AllLaid
<1>2. q \in Nat
  BY RegionsAre
<1>3. CASE q < r
  <2>1. Has(bs, q)
    BY <1>1, <1>3 DEF AllLaid
  <2>2. PICK i \in 1..n : IsMemory(bs, i) /\ bs[i].address = q /\ bs[i].len = layout.regions[q].len
    BY <1>1, <2>1 DEF Has
  <2>3. i \in DOMAIN bs2 /\ bs2[i] = bs[i] /\ IsMemory(bs2, i)
    BY <1>1, <2>2 DEF IsMemory
  <2> QED BY <2>2, <2>3 DEF Has
<1>4. CASE q = r /\ r2 = r + 1
  <2>1. b.kind = "memory" /\ b.address = r /\ b.len = layout.regions[r].len
    BY <1>4
  <2>2. n + 1 \in DOMAIN bs2 /\ IsMemory(bs2, n + 1) /\ bs2[n + 1] = b
    BY <1>1, <2>1 DEF IsMemory
  <2> QED BY <1>4, <2>1, <2>2 DEF Has
<1> QED BY <1>2, <1>3, <1>4

\* The fixed blocks that were there stay; they are uncut where another fits.
LEMMA FixedGrows ==
  ASSUME layout \in CD!Layout, NEW c, NEW bs, NEW c2, NEW bs2, NEW b, NEW p,
         Grows(c, bs, c2, bs2, b, p), Laid(c, bs), NEW n \in Nat \ {0}, NEW m \in Nat,
         FixedLaid(c, bs, n),
         \/ n >= 5 /\ m >= n
         \/ /\ n <= 4 /\ m = n + 1 /\ b.kind = CD!Fixed[n].kind
            /\ (b.len = CD!Fixed[n].len \/ (m <= 4 /\ Full(c2)))
  PROVE  FixedLaid(c2, bs2, m)
<1> DEFINE k == Len(bs)
<1>1. /\ k \in Nat /\ DOMAIN bs = 1..k /\ DOMAIN bs2 = 1..(k + 1) /\ Len(bs2) = k + 1
      /\ \A i \in 1..k : bs2[i] = bs[i]
      /\ bs2[k + 1] = b /\ ~Full(c)
  BY GrowsIs
<1>2. IF m <= 4 THEN Len(bs2) = m - 1 ELSE Len(bs2) >= 4
  BY <1>1 DEF FixedLaid
<1>3. ASSUME NEW i \in 1..4, i < m
      PROVE  bs2[i].kind = CD!Fixed[i].kind /\ (bs2[i].len = CD!Fixed[i].len \/ (m <= 4 /\ Full(c2)))
  <2>1. CASE i < n
    <3>1. i \in 1..k
      BY <2>1, <1>1 DEF FixedLaid
    <3>2. bs[i].kind = CD!Fixed[i].kind /\ bs[i].len = CD!Fixed[i].len
      BY <2>1, <1>1 DEF FixedLaid
    <3> QED BY <3>1, <3>2, <1>1
  <2>2. CASE i = n
    <3>1. n <= 4 /\ k + 1 = n
      BY <2>2, <1>1 DEF FixedLaid
    <3> QED BY <2>2, <3>1, <1>1
  <2> QED BY <2>1, <2>2, <1>3
<1> QED BY <1>2, <1>3 DEF FixedLaid

LEMMA WrittenGrows ==
  ASSUME NEW t \in Attempt, NEW u \in Attempt, NEW kind \in Kinds, NEW address \in Nat,
         NEW len \in Nat, NEW p \in 1..len, Written(t, u, kind, address, len, p)
  PROVE  /\ Grows(t.ctx, t.blocks, u.ctx, u.blocks, Block(t, kind, address, p), p)
         /\ u.ctx.offset = t.ctx.offset + CD!BlockSize + p
         /\ u.ctx.truncated <=> t.ctx.truncated \/ p # len
<1>1. t.ctx \in Context /\ u.ctx \in Context /\ t.blocks \in Seq(Stored) /\ p \in Nat \ {0}
      /\ t.ctx.crash \in Nat /\ t.ctx.offset \in Nat /\ t.ctx.truncated \in BOOLEAN
  BY AttemptIs
<1>2. /\ u.ctx.offset = t.ctx.offset + CD!BlockSize + p /\ u.ctx.crash = t.ctx.crash
      /\ u.ctx.truncated = (t.ctx.truncated \/ p # len)
  BY <1>1 DEF Written, Context
<1>3. Block(t, kind, address, p) \in Stored
  BY <1>1 DEF Block, Stored
<1> QED BY <1>1, <1>2, <1>3 DEF Grows, Written, Block

\* A fixed block that is there, or cut and the last.
LEMMA FixedSaved ==
  ASSUME layout \in CD!Layout, NEW t \in Attempt, NEW n \in 1..4,
         SavedTo(t.ctx, t.blocks, n, WalkTo(n - 1)),
         NEW u \in CD!WriteBlock(t, CD!Fixed[n].kind, 0, CD!Fixed[n].len, FALSE),
         u.ok, ~u.ctx.write_error
  PROVE  SavedTo(u.ctx, u.blocks, n + 1, WalkTo(n))
<1> DEFINE kind == CD!Fixed[n].kind
           len == CD!Fixed[n].len
           c == t.ctx
           c2 == u.ctx
           walk == WalkTo(n - 1)
<1>1. /\ kind \in Kinds /\ kind # "memory" /\ len \in Nat \ {0} /\ (n = 4 => len = 4)
      /\ n \in 1..(CD!Footer - 1) /\ n \in DOMAIN CD!Fixed /\ n - 1 \in 0..(CD!Footer - 1)
      /\ n \in 0..(CD!Footer - 1)
  BY FixedIs, RegionsAre
<1>2. c \in Context /\ t.blocks \in Seq(Stored) /\ Laid(c, t.blocks) /\ c.offset \in Nat
      /\ c.offset >= CD!HeaderSize
  BY AttemptIs, Starts DEF SavedTo
<1>3. Goes(t, u) /\ Attempted(t, u, kind, 0, len)
  <2> HIDE DEF kind, len
  <2>1. u \in CD!WriteBlock(t, kind, 0, len, FALSE)
    BY DEF kind, len
  <2>2. 0 \in Nat /\ FALSE \in BOOLEAN
    OBVIOUS
  <2>3. Goes(t, u) /\ (u.ctx.write_error \/ Attempted(t, u, kind, 0, len))
    BY <1>1, <1>2, <2>1, <2>2, BlockCases
  <2> QED BY <2>3
<1> HIDE DEF kind, len, c, c2, walk
<1>4. PICK p \in 1..len : Written(t, u, kind, 0, len, p)
  BY <1>1, <1>3 DEF Attempted, Nothing, Refused
<1> DEFINE b == Block(t, kind, 0, p)
<1>5. /\ Grows(c, t.blocks, c2, u.blocks, b, p)
      /\ c2.offset = c.offset + CD!BlockSize + p
      /\ c2.truncated <=> c.truncated \/ p # len
  BY <1>1, <1>3, <1>4, WrittenGrows DEF Goes, c, c2
<1>6. b.kind = kind /\ b.len = p
  BY DEF Block
<1> HIDE DEF b
<1>7. Laid(c2, u.blocks)
  BY <1>2, <1>5, LaidGrows
<1>8. /\ CD!Free(c.offset) \in Nat /\ ~Full(c)
      /\ CD!Free(c2.offset) = CD!Free(c.offset) - CD!BlockSize - p
  BY <1>2, <1>5, GrowsInto
<1>9. p = len \/ (n + 1 <= 4 /\ Full(c2))
  <2> SUFFICES ASSUME p # len PROVE n + 1 <= 4 /\ Full(c2)
    OBVIOUS
  <2>1. p % 4 = 0 /\ CD!Free(c.offset) < CD!BlockSize + p + 4
    BY <1>4 DEF Written, c
  <2>2. n # 4
    <3> SUFFICES ASSUME n = 4 PROVE FALSE
      OBVIOUS
    <3>1. p \in {1, 2, 3}
      BY <1>1, <1>4
    <3> QED BY <3>1, <2>1
  <2>3. p \in Nat
    BY <1>4
  <2>4. Full(c2)
    BY <1>8, <2>1, <2>3 DEF Full, CD!BlockSize
  <2> QED BY <2>2, <2>4
<1>10. FixedLaid(c2, u.blocks, n + 1)
  <2>1. FixedLaid(c, t.blocks, n)
    BY DEF SavedTo, c
  <2> DEFINE m == n + 1
  <2>2. n \in Nat \ {0} /\ m \in Nat /\ n <= 4 /\ m = n + 1
    OBVIOUS
  <2> HIDE DEF m
  <2>3. b.kind = CD!Fixed[n].kind /\ (b.len = CD!Fixed[n].len \/ (m <= 4 /\ Full(c2)))
    BY <1>6, <1>9, <2>2 DEF kind, len
  <2>4. FixedLaid(c2, u.blocks, m)
    BY <1>2, <1>5, <2>1, <2>2, <2>3, FixedGrows
  <2> QED BY <2>4 DEF m
<1> DEFINE r == n - 4
           r2 == n + 1 - 4
<1>11. r \in Int /\ r2 \in Int /\ r <= r2 /\ r2 = r + 1 /\ r \notin DOMAIN layout.regions
       /\ MemoryLaid(c, t.blocks, r) /\ AllLaid(c, t.blocks, r)
  BY RegionsAre DEF SavedTo, c
<1> HIDE DEF r, r2
<1>12. MemoryLaid(c2, u.blocks, r2)
  BY <1>1, <1>2, <1>5, <1>6, <1>11, MemoryGrows
<1>13. AllLaid(c2, u.blocks, r2)
  BY <1>2, <1>5, <1>11, AllGrows
<1>14. RoomFor(c2, WalkTo(n))
  <2> SUFFICES ASSUME layout.size >= CD!SaveSize
               PROVE  ~c2.truncated /\ c2.offset = WalkTo(n)
    BY DEF RoomFor
  <2>1. ~c.truncated /\ c.offset = walk
    BY DEF SavedTo, RoomFor, c, walk
  <2>2. WalkTo(n) = walk + CD!BlockSize + len
    BY <1>1, WalkUp DEF Walked, walk, len
  <2>3. walk \in Nat /\ WalkTo(n) \in Nat /\ WalkTo(n) + CD!FooterSize <= CD!SaveSize
    BY <1>1, WalkUp DEF walk
  <2>4. layout.size \in Nat /\ CD!SaveSize \in Nat
    <3>1. CD!SaveSize \in Nat
      BY SaveSizeIs
    <3> QED BY <3>1, RegionsAre
  <2>5. CD!Free(c.offset) = layout.size - CD!FooterSize - c.offset
    <3>1. c.offset <= layout.size - CD!FooterSize /\ layout.size > CD!FooterSize
      BY <1>1, <1>2, <2>1, <2>2, <2>3, <2>4 DEF CD!FooterSize, CD!BlockSize, CD!HeaderSize
    <3> QED BY <1>2, <3>1, FreeIs
  <2>6. CD!BlockSize + len <= CD!Free(c.offset)
    BY <2>1, <2>2, <2>3, <2>4, <2>5, <1>1 DEF CD!FooterSize, CD!BlockSize
  <2>7. p = len
    BY <2>6, <1>4 DEF Written, c
  <2> QED BY <1>5, <2>1, <2>2, <2>7
<1> QED BY <1>7, <1>10, <1>12, <1>13, <1>14 DEF SavedTo, r2, c2

\* What is said of a truncated coredump stays true when regions are given up.
LEMMA Truncated ==
  ASSUME layout \in CD!Layout, NEW c \in Context, NEW bs \in Seq(Stored), NEW n \in Nat, NEW m \in Nat,
         5 <= n, n <= m, NEW w, NEW w2, SavedTo(c, bs, n, w), NEW c2 \in Context,
         c2.crash = c.crash, c2.offset = c.offset, c2.truncated, ~(layout.size >= CD!SaveSize)
  PROVE  SavedTo(c2, bs, m, w2)
<1>1. Laid(c2, bs)
  BY DEF SavedTo, Laid
<1>2. FixedLaid(c2, bs, m)
  BY DEF SavedTo, FixedLaid
<1>3. MemoryLaid(c2, bs, m - 4)
  <2>1. MemoryLaid(c, bs, n - 4)
    BY DEF SavedTo
  <2>2. ASSUME NEW i \in DOMAIN bs, IsMemory(bs, i)
        PROVE  bs[i].address < m - 4 /\ MemoryIs(c2, bs, i)
    <3>1. bs[i].address < n - 4 /\ MemoryIs(c, bs, i)
      BY <2>1, <2>2 DEF MemoryLaid
    <3>2. bs[i].address \in Nat
      BY <3>1, RegionsAre DEF MemoryIs
    <3>3. bs[i].address < m - 4
      BY <3>1, <3>2
    <3> QED BY <3>1, <3>3 DEF MemoryIs, Full
  <2> QED BY <2>1, <2>2 DEF MemoryLaid
<1> QED BY <1>1, <1>2, <1>3 DEF SavedTo, AllLaid, RoomFor

\* Aligned, or too full for more than two bytes of a truncated coredump.
AlignedFor(c) == \/ c.offset % 4 = 0
                 \/ c.truncated /\ CD!Free(c.offset) < CD!BlockSize + 3

LEMMA PaddingSaved ==
  ASSUME layout \in CD!Layout, NEW t \in Attempt, NEW n \in Nat, 5 <= n, NEW w \in Nat,
         SavedTo(t.ctx, t.blocks, n, w),
         layout.size >= CD!SaveSize => CD!Padded(w) + CD!FooterSize <= layout.size,
         NEW u \in CD!WritePadding(t)
  PROVE  /\ Goes(t, u)
         /\ ~u.ctx.write_error => SavedTo(u.ctx, u.blocks, n, CD!Padded(w)) /\ AlignedFor(u.ctx)
<1> DEFINE c == t.ctx
           c2 == u.ctx
           pad == CD!PaddingAt(c.offset)
<1>1. c \in Context /\ t.blocks \in Seq(Stored) /\ Laid(c, t.blocks) /\ c.offset \in Nat
      /\ c.offset >= CD!HeaderSize
  BY AttemptIs, Starts DEF SavedTo
<1>2. /\ pad \in 0..3 /\ (c.offset + pad) % 4 = 0 /\ (c.offset % 4 = 0 <=> pad = 0)
  BY <1>1, PaddingIs
<1>3. CASE pad = 0
  <2>1. u = t
    BY <1>3 DEF CD!WritePadding
  <2>2. ASSUME layout.size >= CD!SaveSize PROVE c.offset = w /\ CD!Padded(w) = w
    BY <2>2, <1>3 DEF SavedTo, RoomFor, CD!Padded
  <2>3. SavedTo(c, t.blocks, n, CD!Padded(w))
    BY <2>2 DEF SavedTo, RoomFor
  <2> QED BY <2>1, <2>3, <1>2, <1>3 DEF Goes, AlignedFor
<1>4. CASE pad # 0
  <2>1. u \in CD!WriteBlock(t, "padding", 0, pad, FALSE)
    BY <1>4 DEF CD!WritePadding
  <2> HIDE DEF pad
  <2>2. Goes(t, u) /\ (u.ctx.write_error \/ Attempted(t, u, "padding", 0, pad))
    <3>1. "padding" \in Kinds /\ 0 \in Nat /\ pad \in Nat /\ FALSE \in BOOLEAN
      BY <1>2 DEF Kinds
    <3> QED BY <3>1, <1>1, <2>1, BlockCases
  <2> SUFFICES ASSUME ~u.ctx.write_error
               PROVE  SavedTo(u.ctx, u.blocks, n, CD!Padded(w)) /\ AlignedFor(u.ctx)
    BY <2>2
  <2>3. ASSUME layout.size >= CD!SaveSize
        PROVE  /\ ~c.truncated /\ c.offset = w /\ CD!Padded(w) = w + CD!BlockSize + pad
               /\ CD!BlockSize + pad <= CD!Free(c.offset)
    <3>1. ~c.truncated /\ c.offset = w
      BY <2>3 DEF SavedTo, RoomFor
    <3>2. CD!Padded(w) = w + CD!BlockSize + pad
      BY <3>1, <1>4 DEF CD!Padded, pad
    <3>3. layout.size \in Nat /\ w + CD!BlockSize + pad + CD!FooterSize <= layout.size /\ pad \in Nat
      BY <2>3, <3>2, <1>2, RegionsAre
    <3>4. CD!Free(c.offset) = layout.size - CD!FooterSize - c.offset
      <4>1. layout.size > CD!FooterSize /\ c.offset <= layout.size - CD!FooterSize
        BY <1>1, <3>1, <3>3 DEF CD!FooterSize, CD!BlockSize
      <4> QED BY <1>1, <4>1, FreeIs
    <3> QED BY <3>1, <3>2, <3>3, <3>4 DEF CD!FooterSize, CD!BlockSize
  <2>4. c2 \in Context /\ u.blocks \in Seq(Stored)
    BY <2>2, AttemptIs DEF Goes
  <2>5. CASE Refused(t, u, pad)
    <3>1. c2.crash = c.crash /\ c2.offset = c.offset /\ c2.truncated /\ u.blocks = t.blocks
      BY <1>1, <2>5 DEF Refused, Context
    <3>2. CD!Free(c.offset) < CD!BlockSize + pad /\ CD!Free(c.offset) \in Nat /\ pad \in Nat
      BY <2>5, <1>1, <1>2, FreeIs DEF Refused
    <3>3. ~(layout.size >= CD!SaveSize)
      BY <2>3, <3>2 DEF CD!BlockSize
    <3>4. SavedTo(c2, t.blocks, n, CD!Padded(w))
      <4> HIDE DEF c, c2
      <4>1. SavedTo(c, t.blocks, n, w)
        BY DEF c
      <4> QED BY <1>1, <2>4, <3>1, <3>3, <4>1, Truncated
    <3>5. AlignedFor(c2)
      BY <3>1, <3>2, <1>2 DEF AlignedFor, CD!BlockSize
    <3> QED BY <3>1, <3>4, <3>5
  <2>6. ASSUME NEW p \in 1..pad, Written(t, u, "padding", 0, pad, p)
        PROVE  SavedTo(c2, u.blocks, n, CD!Padded(w)) /\ AlignedFor(c2)
    <3>1. p = pad
      <4>1. p # pad => p % 4 = 0
        BY <2>6 DEF Written
      <4>2. p \in {1, 2, 3}
        BY <1>2
      <4> QED BY <4>1, <4>2
    <3> DEFINE b == Block(t, "padding", 0, p)
    <3>2. /\ Grows(c, t.blocks, c2, u.blocks, b, p)
          /\ c2.offset = c.offset + CD!BlockSize + p
          /\ c2.truncated <=> c.truncated
      <4>1. "padding" \in Kinds /\ 0 \in Nat /\ pad \in Nat
        BY <1>2 DEF Kinds
      <4> QED BY <4>1, <2>2, <2>6, <3>1, WrittenGrows DEF Goes
    <3>3. b.kind = "padding"
      BY DEF Block
    <3> HIDE DEF b, c, c2
    <3>4. Laid(c, t.blocks) /\ FixedLaid(c, t.blocks, n) /\ MemoryLaid(c, t.blocks, n - 4)
          /\ AllLaid(c, t.blocks, n - 4) /\ RoomFor(c, w)
      BY DEF SavedTo, c
    <3> DEFINE r == n - 4
    <3>5. r \in Int
      OBVIOUS
    <3> HIDE DEF r
    <3>6. Laid(c2, u.blocks)
      BY <3>2, <3>4, LaidGrows
    <3>7. FixedLaid(c2, u.blocks, n)
      <4>1. n \in Nat \ {0} /\ n >= 5 /\ n >= n
        OBVIOUS
      <4> QED BY <3>2, <3>4, <4>1, FixedGrows
    <3>8. MemoryLaid(c2, u.blocks, r)
      <4>1. MemoryLaid(c, t.blocks, r) /\ r <= r
        BY <3>4, <3>5 DEF r
      <4> QED BY <3>2, <3>3, <3>4, <3>5, <4>1, MemoryGrows
    <3>9. AllLaid(c2, u.blocks, r)
      <4>1. AllLaid(c, t.blocks, r)
        BY <3>4 DEF r
      <4> QED BY <3>2, <3>4, <3>5, <4>1, AllGrows
    <3>10. RoomFor(c2, CD!Padded(w))
      BY <2>3, <3>1, <3>2 DEF RoomFor
    <3>11. AlignedFor(c2)
      <4>1. c2.offset % 4 = 0
        BY <1>1, <1>2, <3>1, <3>2 DEF CD!BlockSize
      <4> QED BY <4>1 DEF AlignedFor
    <3> QED BY <3>6, <3>7, <3>8, <3>9, <3>10, <3>11 DEF SavedTo, r
  <2> QED BY <2>2, <2>5, <2>6, <1>2, <1>4 DEF Attempted, Nothing
<1> QED BY <1>3, <1>4

\* A region that is there, in whole or in part, or is not to be.
LEMMA RegionSaved ==
  ASSUME layout \in CD!Layout, NEW t \in Attempt, NEW r \in DOMAIN layout.regions, NEW n \in Nat,
         n = r + 4, NEW w \in Nat, NEW w2 \in Nat,
         SavedTo(t.ctx, t.blocks, n, w), AlignedFor(t.ctx),
         w2 = IF Wanted(r) THEN w + CD!BlockSize + layout.regions[r].len ELSE w,
         layout.size >= CD!SaveSize => w2 + CD!FooterSize <= layout.size,
         NEW u \in IF layout.regions[r].valid
                   THEN CD!WriteBlock(t, "memory", r, layout.regions[r].len, layout.regions[r].word)
                   ELSE {[t EXCEPT !.ok = TRUE]}
  PROVE  /\ Goes(t, u)
         /\ ~u.ctx.write_error => /\ SavedTo(u.ctx, u.blocks, n + 1, w2)
                                  /\ u.ok \/ u.ctx.truncated
<1> DEFINE c == t.ctx
           c2 == u.ctx
           len == layout.regions[r].len
           word == layout.regions[r].word
<1>1. c \in Context /\ t.blocks \in Seq(Stored) /\ Laid(c, t.blocks) /\ c.offset \in Nat
      /\ c.offset >= CD!HeaderSize
  BY AttemptIs, Starts DEF SavedTo
<1>2. len \in Nat /\ word \in BOOLEAN /\ layout.regions[r].valid \in BOOLEAN /\ r \in 1..Len(layout.regions)
      /\ r \in Nat /\ Len(layout.regions) \in Nat /\ layout.size \in Nat /\ 5 <= n
      /\ (Wanted(r) <=> layout.regions[r].valid /\ len # 0)
  BY RegionIs, RegionsAre DEF Wanted, CD!Wanted
<1>3. Laid(c, t.blocks) /\ FixedLaid(c, t.blocks, n) /\ MemoryLaid(c, t.blocks, r)
      /\ AllLaid(c, t.blocks, r) /\ RoomFor(c, w)
  <2>1. n - 4 = r
    BY <1>2
  <2> QED BY <2>1 DEF SavedTo
<1> DEFINE m == n + 1
           r2 == r + 1
<1>4. m \in Nat /\ n <= m /\ m - 4 = r2 /\ r2 \in Int /\ r \in Int /\ r < r2 /\ r <= r2
  BY <1>2
<1> HIDE DEF m, r2
<1>5. ASSUME u.ctx = c, u.blocks = t.blocks, u.ok, ~Wanted(r)
      PROVE  SavedTo(u.ctx, u.blocks, m, w2) /\ (u.ok \/ u.ctx.truncated)
  <2>1. FixedLaid(c, t.blocks, m)
    BY <1>2, <1>3 DEF FixedLaid, m
  <2>2. MemoryLaid(c, t.blocks, r2)
    <3>1. ASSUME NEW i \in DOMAIN t.blocks, IsMemory(t.blocks, i)
          PROVE  t.blocks[i].address < r2
      <4>1. t.blocks[i].address < r /\ t.blocks[i].address \in Nat
        BY <1>3, <3>1, RegionsAre DEF MemoryLaid, MemoryIs
      <4> QED BY <4>1, <1>4
    <3> QED BY <3>1, <1>3 DEF MemoryLaid
  <2>3. AllLaid(c, t.blocks, r2)
    <3>1. \A q \in DOMAIN layout.regions : q < r2 /\ Wanted(q) => q < r
      BY <1>2, <1>5, RegionsAre DEF r2
    <3> QED BY <3>1, <1>3 DEF AllLaid
  <2>4. w2 = w
    BY <1>5
  <2> QED BY <1>3, <1>4, <1>5, <2>1, <2>2, <2>3, <2>4 DEF SavedTo
<1>6. CASE ~layout.regions[r].valid
  <2>1. u = [t EXCEPT !.ok = TRUE]
    BY <1>6
  <2>2. u \in Attempt /\ u.ctx = c /\ u.blocks = t.blocks /\ u.ok
    BY <2>1, AttemptSets DEF Attempt
  <2> QED BY <1>2, <1>5, <1>6, <2>2 DEF Goes, m
<1>7. CASE layout.regions[r].valid
  <2>1. u \in CD!WriteBlock(t, "memory", r, len, word)
    BY <1>7
  <2> HIDE DEF len, word
  <2>2. Goes(t, u) /\ (u.ctx.write_error \/ Attempted(t, u, "memory", r, len))
    <3>1. "memory" \in Kinds
      BY DEF Kinds
    <3> QED BY <3>1, <1>1, <1>2, <2>1, BlockCases
  <2> SUFFICES ASSUME ~u.ctx.write_error
               PROVE  SavedTo(u.ctx, u.blocks, m, w2) /\ (u.ok \/ u.ctx.truncated)
    BY <2>2 DEF m
  <2>3. c2 \in Context /\ u.blocks \in Seq(Stored)
    BY <2>2, AttemptIs DEF Goes
  <2>4. ASSUME layout.size >= CD!SaveSize, len # 0
        PROVE  /\ ~c.truncated /\ c.offset = w /\ w2 = w + CD!BlockSize + len
               /\ CD!BlockSize + len <= CD!Free(c.offset)
    <3>1. ~c.truncated /\ c.offset = w
      BY <2>4, <1>3 DEF RoomFor
    <3>2. w2 = w + CD!BlockSize + len
      BY <2>4, <1>2, <1>7 DEF len
    <3>3. w + CD!BlockSize + len + CD!FooterSize <= layout.size
      BY <2>4, <3>2
    <3>4. CD!Free(c.offset) = layout.size - CD!FooterSize - c.offset
      <4>1. layout.size > CD!FooterSize /\ c.offset <= layout.size - CD!FooterSize
        BY <1>1, <1>2, <3>1, <3>3 DEF CD!FooterSize, CD!BlockSize
      <4> QED BY <1>1, <4>1, FreeIs
    <3> QED BY <1>2, <3>1, <3>2, <3>3, <3>4 DEF CD!FooterSize, CD!BlockSize
  <2>5. CASE Nothing(t, u, len)
    BY <1>2, <1>5, <2>5 DEF Nothing
  <2>6. CASE Refused(t, u, len)
    <3>1. c2.crash = c.crash /\ c2.offset = c.offset /\ c2.truncated /\ u.blocks = t.blocks
      BY <1>1, <2>6 DEF Refused, Context
    <3>2. CD!Free(c.offset) < CD!BlockSize + len /\ CD!Free(c.offset) < CD!BlockSize + 4
          /\ CD!Free(c.offset) \in Nat
      BY <2>6, <1>1, FreeIs DEF Refused
    <3>3. ~(layout.size >= CD!SaveSize)
      <4>1. len # 0
        BY <2>6 DEF Refused
      <4> QED BY <2>4, <3>2, <4>1, <1>2 DEF CD!BlockSize
    <3>4. SavedTo(c2, t.blocks, m, w2)
      <4> HIDE DEF c, c2
      <4>1. SavedTo(c, t.blocks, n, w)
        BY DEF c
      <4> QED BY <1>1, <1>2, <1>4, <2>3, <3>1, <3>3, <4>1, Truncated
    <3> QED BY <3>1, <3>4
  <2>7. ASSUME NEW p \in 1..len, Written(t, u, "memory", r, len, p)
        PROVE  SavedTo(c2, u.blocks, m, w2) /\ (u.ok \/ c2.truncated)
    <3> DEFINE b == Block(t, "memory", r, p)
               k == Len(t.blocks)
    <3>1. /\ Grows(c, t.blocks, c2, u.blocks, b, p)
          /\ c2.offset = c.offset + CD!BlockSize + p
          /\ c2.truncated <=> c.truncated \/ p # len
      <4>1. "memory" \in Kinds
        BY DEF Kinds
      <4> QED BY <4>1, <1>2, <2>2, <2>7, WrittenGrows DEF Goes
    <3>2. b.kind = "memory" /\ b.address = r /\ b.len = p /\ b.at = c.offset
      BY DEF Block
    <3> HIDE DEF b, c, c2
    <3>3. Laid(c2, u.blocks)
      BY <3>1, <1>3, LaidGrows
    <3>4. FixedLaid(c2, u.blocks, m)
      <4>1. n \in Nat \ {0} /\ n >= 5 /\ m >= n
        BY <1>2, <1>4
      <4> QED BY <1>3, <1>4, <3>1, <4>1, FixedGrows
    <3>5. /\ CD!Free(c.offset) \in Nat
          /\ CD!Free(c2.offset) = CD!Free(c.offset) - CD!BlockSize - p
          /\ CD!BlockSize + p <= CD!Free(c.offset)
      <4>1. CD!BlockSize + p <= CD!Free(c.offset)
        BY <3>1 DEF Grows
      <4> QED BY <1>3, <3>1, <4>1, GrowsInto
    <3>6. u.blocks[k + 1] = b /\ Len(u.blocks) = k + 1
      BY <1>3, <3>1, GrowsIs
    <3>7. MemoryIs(c2, u.blocks, k + 1)
      <4>1. len > 0 /\ p <= len /\ p \in Nat
        BY <1>2, <2>7
      <4>2. r \in DOMAIN layout.regions /\ Wanted(r) /\ p <= layout.regions[r].len
        BY <4>1, <1>2, <1>7 DEF len
      <4>3. c.offset % 4 = 0 \/ (c2.truncated /\ p < 3 /\ Full(c2))
        <5>1. CASE c.truncated /\ CD!Free(c.offset) < CD!BlockSize + 3
          <6>1. p < 3 /\ CD!Free(c2.offset) < CD!BlockSize
            BY <3>5, <4>1, <5>1 DEF CD!BlockSize
          <6> QED BY <3>1, <5>1, <6>1 DEF Full
        <5>2. AlignedFor(c)
          BY DEF c
        <5> QED BY <5>1, <5>2 DEF AlignedFor
      <4> QED BY <3>2, <3>6, <4>2, <4>3 DEF MemoryIs
    <3>8. MemoryLaid(c2, u.blocks, r2)
      <4> DEFINE e == k + 1
      <4>1. MemoryIs(c2, u.blocks, e) /\ e = Len(t.blocks) + 1
        BY <3>7
      <4> HIDE DEF e
      <4> QED BY <1>3, <1>4, <3>1, <3>2, <4>1, MemoryGrows
    <3>9. AllLaid(c2, u.blocks, r2)
      <4>1. ~c2.truncated => p = len
        BY <3>1
      <4> QED BY <1>3, <1>4, <3>1, <3>2, <4>1, AllGrows DEF len, r2
    <3>10. RoomFor(c2, w2)
      <4> SUFFICES ASSUME layout.size >= CD!SaveSize PROVE ~c2.truncated /\ c2.offset = w2
        BY DEF RoomFor
      <4>1. ~c.truncated /\ c.offset = w /\ w2 = w + CD!BlockSize + len
            /\ CD!BlockSize + len <= CD!Free(c.offset)
        <5>1. len # 0
          BY <1>2, <2>7
        <5> QED BY <5>1, <2>4 DEF c
      <4>2. p = len
        BY <4>1, <2>7 DEF Written, c
      <4> QED BY <3>1, <4>1, <4>2
    <3>11. u.ok \/ c2.truncated
      BY <2>7 DEF Written, c2
    <3> QED BY <1>4, <3>3, <3>4, <3>8, <3>9, <3>10, <3>11 DEF SavedTo
  <2> QED BY <2>2, <2>5, <2>6, <2>7 DEF Attempted
<1> QED BY <1>6, <1>7

-------------------------------------------------------------------------------
(* The steps of a save                                                           *)

LEMMA TryIs ==
  ASSUME Saved, ctx # CD!NoSave, ctx.next <= CD!Footer
  PROVE  CD!Try \in Attempt /\ CD!Try.ctx = ctx /\ CD!Try.blocks = blocks
BY DEF Saved, SavedWith, CD!Try, Attempt

\* Padding and a region, whether writes fail or not.
LEMMA RegionGoes ==
  ASSUME layout \in CD!Layout, NEW t \in Attempt, NEW r \in DOMAIN layout.regions
  PROVE  /\ \A p \in CD!WritePadding(t) : Goes(t, p)
         /\ \A u \in IF layout.regions[r].valid
                     THEN CD!WriteBlock(t, "memory", r, layout.regions[r].len, layout.regions[r].word)
                     ELSE {[t EXCEPT !.ok = TRUE]} : Goes(t, u)
<1> DEFINE pad == CD!PaddingAt(t.ctx.offset)
           len == layout.regions[r].len
           word == layout.regions[r].word
<1>1. pad \in Nat /\ len \in Nat /\ word \in BOOLEAN /\ r \in Nat
      /\ "padding" \in Kinds /\ "memory" \in Kinds /\ 0 \in Nat /\ FALSE \in BOOLEAN
  <2>1. pad \in Nat
    <3>1. t.ctx.offset \in Nat
      BY AttemptIs
    <3>2. pad \in 0..3
      BY <3>1, PaddingIs, Zenon
    <3> QED BY <3>2
  <2>2. len \in Nat /\ word \in BOOLEAN /\ r \in Nat
    BY RegionIs, RegionsAre
  <2> QED BY <2>1, <2>2 DEF Kinds
<1>2. ASSUME NEW p \in CD!WritePadding(t) PROVE Goes(t, p)
  <2>1. p = t \/ p \in CD!WriteBlock(t, "padding", 0, pad, FALSE)
    BY DEF CD!WritePadding
  <2> HIDE DEF pad
  <2>2. Goes(t, t)
    BY DEF Goes
  <2> QED BY <1>1, <2>1, <2>2, BlockCases
<1>3. ASSUME NEW u \in IF layout.regions[r].valid
                       THEN CD!WriteBlock(t, "memory", r, len, word)
                       ELSE {[t EXCEPT !.ok = TRUE]}
      PROVE  Goes(t, u)
  <2> HIDE DEF len, word
  <2>1. CASE layout.regions[r].valid
    BY <1>1, <1>3, <2>1, BlockCases
  <2>2. CASE ~layout.regions[r].valid
    <3>1. u = [t EXCEPT !.ok = TRUE]
      BY <1>3, <2>2
    <3>2. u \in Attempt /\ u.ctx = t.ctx
      BY <3>1, AttemptSets DEF Attempt
    <3> QED BY <3>2 DEF Goes
  <2> QED BY <2>1, <2>2
<1> QED BY <1>2, <1>3

\* What is said of the blocks does not depend on what comes next.
LEMMA SavedSame ==
  ASSUME NEW c, NEW d, NEW bs, NEW n, NEW w, SavedTo(c, bs, n, w),
         d.crash = c.crash, d.offset = c.offset, d.truncated = c.truncated
  PROVE  SavedTo(d, bs, n, w)
BY DEF SavedTo, Laid, FixedLaid, MemoryLaid, MemoryIs, AllLaid, RoomFor, Full

\* It does not change with the step either, since the layout does not.
LEMMA SavedNext ==
  ASSUME layout \in CD!Layout, layout' = layout, errors' \in Nat,
         ctx' # CD!NoSave => SavedWith(ctx', blocks')
  PROVE  Saved'
<1>1. CD!Footer' = CD!Footer /\ CD!Fixed' = CD!Fixed
  BY DEF CD!Footer, CD!Fixed
<1>2. CD!SaveSize' = CD!SaveSize
  BY <1>1 DEF CD!SaveSize
<1> QED
  BY <1>1, <1>2, SMTT(40)
  DEF Saved, SavedWith, SavedTo, Laid, FixedLaid, MemoryLaid, MemoryIs, AllLaid, Has, RoomFor, Full,
      CD!Free, Wanted, WalkTo

LEMMA WriteFixedStep ==
  ASSUME Saved, CD!write_fixed PROVE Saved'
<1>1. /\ layout \in CD!Layout /\ ctx # CD!NoSave /\ ctx \in Context /\ ctx.next \in 1..4
      /\ ctx.next <= CD!Footer /\ ctx.next + 1 <= CD!Footer /\ CD!Footer \in Nat
  <2>1. layout \in CD!Layout /\ ctx # CD!NoSave /\ ctx.next \in DOMAIN CD!Fixed
    BY DEF Saved, CD!write_fixed, CD!Saving
  <2>2. ctx \in Context
    BY <2>1 DEF Saved, SavedWith
  <2>3. /\ DOMAIN CD!Fixed = 1..4 /\ CD!Footer = Len(layout.regions) + 5 /\ CD!Footer \in Nat
        /\ Len(layout.regions) \in Nat
    BY <2>1, FixedIs, RegionsAre
  <2>4. ctx.next \in 1..4
    BY <2>1, <2>3
  <2>5. ctx.next <= CD!Footer /\ ctx.next + 1 <= CD!Footer
    BY <2>3, <2>4
  <2> QED BY <2>1, <2>2, <2>3, <2>4, <2>5
<1> DEFINE n == ctx.next
           kind == CD!Fixed[n].kind
           len == CD!Fixed[n].len
<1>2. PICK t \in CD!WriteBlock(CD!Try, kind, 0, len, FALSE) :
        /\ CD!Take(t) /\ ctx' = IF t.ok THEN [t.ctx EXCEPT !.next = @ + 1] ELSE CD!NoSave
  BY DEF CD!write_fixed
<1>3. CD!Try \in Attempt /\ CD!Try.ctx = ctx /\ CD!Try.blocks = blocks
  BY <1>1, TryIs
<1>4. Goes(CD!Try, t)
  <2>1. kind \in Kinds /\ len \in Nat /\ 0 \in Nat /\ FALSE \in BOOLEAN
    BY <1>1, FixedIs
  <2> HIDE DEF kind, len
  <2> QED BY <1>1, <1>2, <1>3, <2>1, BlockCases
<1>5. /\ t.ctx \in Context /\ t.blocks \in Seq(Stored) /\ t.errors \in Nat
      /\ t.ctx.next = n /\ t.ctx.write_error \in BOOLEAN /\ ctx.write_error \in BOOLEAN
  BY <1>1, <1>3, <1>4, AttemptIs DEF Goes, Context
<1>6. layout' = layout /\ errors' \in Nat /\ blocks' = t.blocks
  BY <1>2, <1>5 DEF CD!Take
<1>7. CASE ~t.ok
  <2>1. ctx' = CD!NoSave
    BY <1>2, <1>7
  <2> QED BY <1>1, <1>6, <2>1 DEF Saved
<1>8. CASE t.ok
  <2>1. ctx' = [t.ctx EXCEPT !.next = @ + 1]
    BY <1>2, <1>8
  <2>2. ctx' \in Context /\ ctx'.next = n + 1 /\ ctx'.write_error = t.ctx.write_error
        /\ ctx'.crash = t.ctx.crash /\ ctx'.offset = t.ctx.offset /\ ctx'.truncated = t.ctx.truncated
    BY <1>1, <1>5, <2>1 DEF Context
  <2>3. ASSUME ~ctx'.write_error PROVE SavedTo(ctx', blocks', n + 1, WalkTo(n))
    <3>1. ~ctx.write_error /\ ~t.ctx.write_error
      BY <1>3, <1>4, <2>2, <2>3 DEF Goes
    <3>2. SavedTo(CD!Try.ctx, CD!Try.blocks, n, WalkTo(n - 1))
      BY <1>1, <1>3, <3>1 DEF Saved, SavedWith
    <3>3. SavedTo(t.ctx, t.blocks, n + 1, WalkTo(n))
      <4> DEFINE m == n
      <4>1. m \in 1..4
        BY <1>1
      <4> HIDE DEF m
      <4>2. SavedTo(CD!Try.ctx, CD!Try.blocks, m, WalkTo(m - 1))
        BY <3>2 DEF m
      <4>3. t \in CD!WriteBlock(CD!Try, CD!Fixed[m].kind, 0, CD!Fixed[m].len, FALSE)
        BY <1>2 DEF m
      <4>4. SavedTo(t.ctx, t.blocks, m + 1, WalkTo(m))
        BY <1>1, <1>3, <1>8, <3>1, <4>1, <4>2, <4>3, FixedSaved
      <4> QED BY <4>4 DEF m
    <3> QED BY <1>6, <2>2, <3>3, SavedSame
  <2>4. SavedWith(ctx', blocks')
    <3>1. n + 1 \in 1..(CD!Footer + 1) /\ n + 1 <= CD!Footer /\ (n + 1) - 1 = n
          /\ n + 1 # CD!Footer + 1
      BY <1>1
    <3> QED BY <3>1, <1>5, <1>6, <2>2, <2>3 DEF SavedWith
  <2> QED BY <1>1, <1>6, <2>4, SavedNext
<1> QED BY <1>7, <1>8

LEMMA WriteRegionStep ==
  ASSUME Saved, CD!write_region PROVE Saved'
<1> DEFINE n == ctx.next
           r == n - 4
           region == layout.regions[r]
<1>1. /\ layout \in CD!Layout /\ ctx # CD!NoSave /\ ctx \in Context
      /\ r \in DOMAIN layout.regions /\ n \in Nat /\ n = r + 4 /\ 5 <= n
      /\ n <= CD!Footer - 1 /\ CD!Footer \in Nat /\ n \in 1..(CD!Footer - 1)
      /\ n - 1 \in 0..(CD!Footer - 1) /\ n \in 0..(CD!Footer - 1) /\ n <= CD!Footer
      /\ n \notin DOMAIN CD!Fixed
  <2>1. layout \in CD!Layout /\ ctx # CD!NoSave
    BY DEF Saved, CD!write_region, CD!Saving
  <2>2. ctx \in Context
    BY <2>1 DEF Saved, SavedWith
  <2>3. Len(CD!Fixed) = 4 /\ DOMAIN CD!Fixed = 1..4
    BY <2>1, FixedIs
  <2>4. ctx.next - Len(CD!Fixed) \in DOMAIN layout.regions
    BY DEF CD!write_region
  <2>5. n \in Nat
    BY <2>2 DEF Context
  <2>6. r \in DOMAIN layout.regions
    BY <2>3, <2>4
  <2>7. /\ DOMAIN layout.regions = 1..Len(layout.regions) /\ Len(layout.regions) \in Nat
        /\ CD!Footer = Len(layout.regions) + 5
    BY <2>1, <2>3, RegionsAre DEF CD!Footer
  <2>8. n = r + 4 /\ r \in 1..Len(layout.regions)
    BY <2>5, <2>6, <2>7
  <2> HIDE DEF r, n
  <2>9. 5 <= n /\ n <= CD!Footer - 1 /\ CD!Footer \in Nat
    BY <2>7, <2>8
  <2> QED BY <2>1, <2>2, <2>3, <2>5, <2>6, <2>8, <2>9
<1>2. PICK t \in CD!WriteRegion(CD!Try, r) :
        /\ CD!Take(t)
        /\ ctx' = IF t.ok THEN [t.ctx EXCEPT !.next = @ + 1]
                  ELSE IF t.ctx.write_error THEN CD!NoSave
                  ELSE [t.ctx EXCEPT !.next = CD!Footer]
  BY <1>1, FixedIs DEF CD!write_region
<1>3. CD!Try \in Attempt /\ CD!Try.ctx = ctx /\ CD!Try.blocks = blocks
  BY <1>1, TryIs
<1>4. PICK p \in CD!WritePadding(CD!Try) :
        t \in IF region.valid THEN CD!WriteBlock(p, "memory", r, region.len, region.word)
              ELSE {[p EXCEPT !.ok = TRUE]}
  BY <1>2, Zenon DEF CD!WriteRegion
<1>5. Goes(CD!Try, p) /\ Goes(p, t)
  <2> HIDE DEF r, n
  <2>1. Goes(CD!Try, p)
    BY <1>1, <1>3, <1>4, RegionGoes
  <2>2. p \in Attempt
    BY <2>1 DEF Goes
  <2>3. Goes(p, t)
    BY <1>1, <1>4, <2>2, RegionGoes
  <2> QED BY <2>1, <2>3
<1>6. /\ t.ctx \in Context /\ t.blocks \in Seq(Stored) /\ t.errors \in Nat
      /\ t.ctx.next = n /\ t.ctx.write_error \in BOOLEAN /\ ctx.write_error \in BOOLEAN
      /\ p \in Attempt
  BY <1>1, <1>3, <1>5, AttemptIs DEF Goes, Context
<1>7. layout' = layout /\ errors' \in Nat /\ blocks' = t.blocks
  BY <1>2, <1>6 DEF CD!Take
<1>8. ASSUME ~t.ctx.write_error
      PROVE  SavedTo(t.ctx, t.blocks, n + 1, WalkTo(n)) /\ (t.ok \/ t.ctx.truncated)
  <2>1. ~ctx.write_error /\ ~p.ctx.write_error
    BY <1>3, <1>5, <1>6, <1>8 DEF Goes
  <2> DEFINE w == WalkTo(n - 1)
             w1 == CD!Padded(w)
             w2 == WalkTo(n)
  <2>2. /\ w \in Nat /\ w2 \in Nat /\ w2 + CD!FooterSize <= CD!SaveSize /\ CD!SaveSize \in Nat
        /\ w2 = Walked(n, w) /\ layout.size \in Nat
    BY <1>1, WalkUp, SaveSizeIs, RegionsAre
  <2>3. /\ w1 \in Nat /\ region.len \in Nat
        /\ w2 = IF Wanted(r) THEN w1 + CD!BlockSize + region.len ELSE w1
    <3>1. w1 \in Nat
      BY <2>2, PaddingIs
    <3>2. region.len \in Nat
      BY <1>1, RegionIs
    <3> QED BY <3>1, <3>2, <2>2, <1>1 DEF Walked
  <2>4. w1 <= w2
    BY <2>3 DEF CD!BlockSize
  <2>5. SavedTo(ctx, blocks, n, w)
    BY <1>1, <2>1 DEF Saved, SavedWith
  <2> HIDE DEF w, w1, w2, n, r
  <2>6. layout.size >= CD!SaveSize => /\ w1 + CD!FooterSize <= layout.size
                                     /\ w2 + CD!FooterSize <= layout.size
    BY <2>2, <2>3, <2>4 DEF CD!FooterSize
  <2>7. SavedTo(p.ctx, p.blocks, n, w1) /\ AlignedFor(p.ctx)
    <3>1. SavedTo(CD!Try.ctx, CD!Try.blocks, n, w)
      BY <1>3, <2>5
    <3> QED BY <1>1, <1>3, <1>4, <2>1, <2>2, <2>6, <3>1, PaddingSaved DEF w1
  <2>8. SavedTo(t.ctx, t.blocks, n + 1, w2) /\ (t.ok \/ t.ctx.truncated)
    BY <1>1, <1>4, <1>6, <1>8, <2>2, <2>3, <2>6, <2>7, RegionSaved, SMTT(30)
  <2> QED BY <2>8 DEF w2
<1>9. CASE t.ok
  <2>1. ctx' = [t.ctx EXCEPT !.next = @ + 1]
    BY <1>2, <1>9
  <2>2. ctx' \in Context /\ ctx'.next = n + 1 /\ ctx'.write_error = t.ctx.write_error
        /\ ctx'.crash = t.ctx.crash /\ ctx'.offset = t.ctx.offset /\ ctx'.truncated = t.ctx.truncated
    <3> DEFINE next == n + 1
    <3>1. next \in Nat /\ t.ctx.next + 1 = next
      BY <1>1, <1>6
    <3>2. ctx' = [t.ctx EXCEPT !.next = next]
      BY <2>1, <3>1
    <3> HIDE DEF next
    <3>3. /\ ctx' \in Context /\ ctx'.next = next /\ ctx'.write_error = t.ctx.write_error
          /\ ctx'.crash = t.ctx.crash /\ ctx'.offset = t.ctx.offset
          /\ ctx'.truncated = t.ctx.truncated
      BY <1>6, <3>1, <3>2 DEF Context
    <3> QED BY <3>3 DEF next
  <2>3. ASSUME ~ctx'.write_error PROVE SavedTo(ctx', blocks', n + 1, WalkTo(n))
    BY <1>7, <1>8, <2>2, <2>3, SavedSame
  <2>4. SavedWith(ctx', blocks')
    <3>1. n + 1 \in 1..(CD!Footer + 1) /\ n + 1 <= CD!Footer /\ (n + 1) - 1 = n
          /\ n + 1 # CD!Footer + 1
      BY <1>1
    <3> QED BY <3>1, <1>6, <1>7, <2>2, <2>3 DEF SavedWith
  <2> QED BY <1>1, <1>7, <2>4, SavedNext
<1>10. CASE ~t.ok /\ t.ctx.write_error
  <2>1. ctx' = CD!NoSave
    BY <1>2, <1>10
  <2> QED BY <1>1, <1>7, <2>1, SavedNext
<1>11. CASE ~t.ok /\ ~t.ctx.write_error
  <2>1. ctx' = [t.ctx EXCEPT !.next = CD!Footer]
    BY <1>2, <1>11
  <2>2. ctx' \in Context /\ ctx'.next = CD!Footer
        /\ ctx'.crash = t.ctx.crash /\ ctx'.offset = t.ctx.offset /\ ctx'.truncated = t.ctx.truncated
    BY <1>1, <1>6, <2>1 DEF Context
  <2>3. t.ctx.truncated /\ SavedTo(t.ctx, t.blocks, n + 1, WalkTo(n))
    BY <1>8, <1>11
  <2> DEFINE last == WalkTo(CD!Footer - 1)
             m == n + 1
  <2>4. ~(layout.size >= CD!SaveSize)
    BY <2>3 DEF SavedTo, RoomFor
  <2>5. 5 <= m /\ m <= CD!Footer /\ m \in Nat
    BY <1>1
  <2> HIDE DEF last, m
  <2>6. SavedTo(ctx', t.blocks, CD!Footer, last)
    <3>1. SavedTo(t.ctx, t.blocks, m, WalkTo(n))
      BY <2>3 DEF m
    <3> QED BY <1>1, <1>6, <2>2, <2>3, <2>4, <2>5, <3>1, Truncated
  <2>7. SavedWith(ctx', blocks')
    <3>1. CD!Footer \in 1..(CD!Footer + 1) /\ CD!Footer <= CD!Footer /\ CD!Footer # CD!Footer + 1
      BY <1>1
    <3> QED BY <3>1, <1>6, <1>7, <2>2, <2>6 DEF SavedWith, last
  <2> QED BY <1>1, <1>7, <2>7, SavedNext
<1> QED BY <1>9, <1>10, <1>11

LEMMA WriteFooterStep ==
  ASSUME Saved, CD!write_footer PROVE Saved'
<1>1. /\ layout \in CD!Layout /\ ctx # CD!NoSave /\ SavedWith(ctx, blocks)
      /\ ctx.next = CD!Footer /\ ctx \in Context /\ blocks \in Seq(Stored) /\ CD!Footer \in Nat
      /\ ctx.offset \in Nat /\ errors \in Nat
  BY FixedIs DEF Saved, SavedWith, CD!write_footer, CD!Saving, Context
<1>2. CASE ctx' = CD!NoSave /\ CD!Take(CD!Failed(CD!Try))
  <2>1. CD!Failed(CD!Try) \in Attempt
    <3>1. CD!Try \in Attempt
      BY <1>1, TryIs
    <3> QED BY <3>1, AttemptSets
  <2>2. layout' = layout /\ errors' \in Nat
    BY <1>2, <2>1, AttemptIs DEF CD!Take
  <2> QED BY <1>1, <1>2, <2>2, SavedNext
<1>3. CASE /\ CD!Take([CD!Try EXCEPT !.blocks = Append(@, FooterOf(ctx))])
           /\ ctx' = [ctx EXCEPT !.offset = @ + CD!FooterSize, !.next = CD!Footer + 1]
  <2>1. layout' = layout /\ errors' = errors /\ blocks' = Append(blocks, FooterOf(ctx))
    BY <1>3 DEF CD!Take, CD!Try
  <2>2. /\ ctx' \in Context /\ ctx'.next = CD!Footer + 1 /\ ctx'.write_error = ctx.write_error
        /\ ctx'.crash = ctx.crash /\ ctx'.offset = ctx.offset + CD!FooterSize
    <3> DEFINE off == ctx.offset + CD!FooterSize
               nx == CD!Footer + 1
    <3>1. off \in Nat /\ nx \in Nat
      BY <1>1 DEF CD!FooterSize
    <3>2. ctx' = [ctx EXCEPT !.offset = off, !.next = nx]
      BY <1>3
    <3> HIDE DEF off, nx
    <3>3. /\ ctx' \in Context /\ ctx'.next = nx /\ ctx'.write_error = ctx.write_error
          /\ ctx'.crash = ctx.crash /\ ctx'.offset = off
      BY <1>1, <3>1, <3>2 DEF Context
    <3> QED BY <3>3 DEF off, nx
  <2>3. ~ctx.write_error => SavedTo(ctx, blocks, CD!Footer, WalkTo(CD!Footer - 1))
    BY <1>1 DEF SavedWith
  <2>4. SavedWith(ctx', blocks')
    <3>1. CD!Footer + 1 \in 1..(CD!Footer + 1) /\ ~(CD!Footer + 1 <= CD!Footer)
      BY <1>1
    <3> QED BY <3>1, <1>1, <2>1, <2>2, <2>3 DEF SavedWith
  <2> QED BY <1>1, <2>1, <2>4, SavedNext
<1> QED BY <1>2, <1>3, Zenon DEF CD!write_footer, FooterOf

LEMMA WriteHeaderStep ==
  ASSUME Saved, CD!write_header \/ CD!write_header_fails PROVE Saved'
<1>1. layout \in CD!Layout /\ layout' = layout /\ ctx' = CD!NoSave
  BY DEF Saved, CD!write_header, CD!write_header_fails, CD!Take
<1>2. errors' \in Nat
  BY DEF Saved, CD!write_header, CD!write_header_fails, CD!Take, CD!Failed, CD!Try
<1> QED BY <1>1, <1>2, SavedNext

\* Where a save begins, before the first block.
LEMMA SaveBeginsSaved ==
  ASSUME Saved, NEW crash \in Nat, CD!save_begin(crash) PROVE Saved'
<1>1. /\ layout \in CD!Layout /\ layout' = layout /\ errors' \in Nat /\ blocks' = <<>>
      /\ ctx' = [crash |-> crash, next |-> 1, offset |-> 12, truncated |-> FALSE,
                 write_error |-> FALSE]
  BY DEF Saved, CD!save_begin, CD!NoSave, CD!HeaderSize
<1>2. WalkTo(0) = 12 /\ CD!Footer \in Nat /\ 5 <= CD!Footer
  BY <1>1, WalkUp, FixedIs, RegionsAre DEF CD!HeaderSize
<1>3. ctx' \in Context /\ blocks' \in Seq(Stored)
  BY <1>1 DEF Context
<1> DEFINE c == ctx'
           bs == blocks'
<1>4. c.crash = crash /\ c.next = 1 /\ c.offset = 12 /\ ~c.truncated /\ ~c.write_error
  BY <1>1
<1>5. bs = <<>> /\ Len(bs) = 0 /\ DOMAIN bs = {} /\ c \in Context /\ bs \in Seq(Stored)
  BY <1>1, <1>3
<1> HIDE DEF c, bs
<1>6. SavedTo(c, bs, 1, WalkTo(0))
  <2>1. Laid(c, bs) /\ MemoryLaid(c, bs, 1 - 4)
    BY <1>4, <1>5 DEF Laid, StartOf, CD!HeaderSize, MemoryLaid, IsMemory
  <2>2. FixedLaid(c, bs, 1)
    BY <1>5 DEF FixedLaid
  <2>3. AllLaid(c, bs, 1 - 4)
    BY <1>1, RegionsAre DEF AllLaid
  <2> QED BY <1>2, <1>4, <2>1, <2>2, <2>3 DEF SavedTo, RoomFor
<1>7. SavedWith(c, bs)
  <2>1. 1 \in 1..(CD!Footer + 1) /\ 1 # CD!Footer + 1 /\ 1 - 1 = 0
    BY <1>2
  <2> QED BY <1>4, <1>5, <1>6, <2>1 DEF SavedWith
<1> QED BY <1>1, <1>7, SavedNext DEF c, bs

-------------------------------------------------------------------------------
(* The coredump that a header makes valid                                        *)

\* CoredumpWhole of a header that was written without error.
WholeOf(crash, total, bs) ==
  /\ \A i \in DOMAIN bs :
       /\ bs[i].crash = crash
       /\ bs[i].at = IF i = 1 THEN CD!HeaderSize ELSE bs[i - 1].at + CD!Extent(bs[i - 1])
       /\ bs[i].whole
       /\ IsMemory(bs, i) =>
            \/ (bs[i].at % 4) = 0
            \/ (CD!Last(bs).truncated /\ i = Len(bs) - 1 /\ bs[i].len < 3)
       /\ bs[i].kind = "footer" <=> i = Len(bs)
  /\ \A i \in DOMAIN CD!Fixed : bs[i].kind = CD!Fixed[i].kind /\ bs[i].len = CD!Fixed[i].len
  /\ total = CD!Last(bs).at + CD!FooterSize
  /\ total <= layout.size
  /\ \A i \in DOMAIN bs : IsMemory(bs, i) =>
       /\ bs[i].address \in DOMAIN layout.regions /\ Wanted(bs[i].address)
       /\ bs[i].len <= layout.regions[bs[i].address].len
  /\ \A i, j \in DOMAIN bs : IsMemory(bs, i) /\ IsMemory(bs, j) /\ i < j
                              => bs[i].address < bs[j].address
  /\ \/ \A q \in DOMAIN layout.regions : Wanted(q) => Has(bs, q)
     \/ CD!Last(bs).truncated
  /\ layout.size >= CD!SaveSize => ~CD!Last(bs).truncated /\ total = CD!SaveSize

LEMMA FooterMakesWhole ==
  ASSUME layout \in CD!Layout, NEW d \in Context, NEW ds \in Seq(Stored),
         SavedTo(d, ds, CD!Footer, WalkTo(CD!Footer - 1)),
         NEW bs, bs = Append(ds, FooterOf(d)), NEW total, total = d.offset + CD!FooterSize
  PROVE  WholeOf(d.crash, total, bs)
<1> DEFINE n == Len(ds)
           foot == FooterOf(d)
           walk == WalkTo(CD!Footer - 1)
           r == CD!Footer - 4
<1>1. /\ CD!Footer = Len(layout.regions) + 5 /\ CD!Footer \in Nat /\ Len(layout.regions) \in Nat
      /\ DOMAIN layout.regions = 1..Len(layout.regions) /\ layout.size \in Nat
      /\ DOMAIN CD!Fixed = 1..4
  BY FixedIs, RegionsAre
<1>2. /\ Laid(d, ds) /\ FixedLaid(d, ds, CD!Footer) /\ MemoryLaid(d, ds, r) /\ AllLaid(d, ds, r)
      /\ RoomFor(d, walk)
  BY DEF SavedTo
<1>3. n \in Nat /\ 4 <= n /\ DOMAIN ds = 1..n /\ ds # <<>>
  <2>1. n \in Nat /\ DOMAIN ds = 1..n
    OBVIOUS
  <2>2. ~(CD!Footer <= 4)
    BY <1>1
  <2>3. 4 <= n
    BY <1>2, <2>1, <2>2 DEF FixedLaid
  <2> QED BY <2>1, <2>3
<1>4. /\ Len(bs) = n + 1 /\ DOMAIN bs = 1..(n + 1) /\ bs[n + 1] = foot
      /\ \A i \in 1..n : bs[i] = ds[i]
  BY <1>3
<1>5. /\ foot.crash = d.crash /\ foot.kind = "footer" /\ foot.at = d.offset
      /\ foot.len = CD!FooterSize /\ foot.whole /\ foot.truncated = d.truncated
      /\ d.truncated \in BOOLEAN /\ d.offset \in Nat
  BY DEF FooterOf, Context
<1>6. \A i \in 1..n : ds[i] \in Stored
  BY <1>3
<1>7. \A i \in 1..n : bs[i].kind # "footer"
  BY <1>4, <1>6 DEF Stored, Kinds
<1>8. CD!Last(bs) = foot
  BY <1>4 DEF CD!Last
<1> HIDE DEF n, foot, walk, r
<1>9. ASSUME NEW i, IsMemory(bs, i) PROVE i \in 1..n /\ IsMemory(ds, i) /\ bs[i] = ds[i]
  <2>1. i \in 1..(n + 1) /\ bs[i].kind = "memory"
    BY <1>4, <1>9 DEF IsMemory
  <2>2. i # n + 1
    BY <1>4, <1>5, <2>1
  <2>3. i \in 1..n
    BY <1>3, <2>1, <2>2
  <2> QED BY <1>3, <1>4, <2>1, <2>3 DEF IsMemory
<1>10. ASSUME NEW i \in 1..n
       PROVE  /\ bs[i].crash = d.crash /\ bs[i].whole
              /\ bs[i].at = StartOf(ds, i)
  BY <1>2, <1>3, <1>4 DEF Laid
<1>11. ASSUME NEW i \in DOMAIN bs
       PROVE  /\ bs[i].crash = d.crash
              /\ bs[i].at = IF i = 1 THEN CD!HeaderSize ELSE bs[i - 1].at + CD!Extent(bs[i - 1])
              /\ bs[i].whole
              /\ bs[i].kind = "footer" <=> i = Len(bs)
  <2>1. bs[i].crash = d.crash /\ bs[i].whole
    BY <1>4, <1>5, <1>10, <1>3
  <2>2. bs[i].kind = "footer" <=> i = Len(bs)
    BY <1>3, <1>4, <1>5, <1>7
  <2>3. bs[i].at = StartOf(ds, i)
    <3>1. CASE i \in 1..n
      BY <1>10, <3>1
    <3>2. CASE i = n + 1
      BY <1>2, <1>4, <1>5, <3>2 DEF Laid, n
    <3> QED BY <1>3, <1>4, <3>1, <3>2
  <2>4. ASSUME i # 1 PROVE StartOf(ds, i) = bs[i - 1].at + CD!Extent(bs[i - 1])
    <3>1. i - 1 \in 1..n
      BY <1>3, <1>4, <2>4
    <3>2. bs[i - 1] = ds[i - 1] /\ bs[i - 1].kind # "footer" /\ ds[i - 1] \in Stored
      BY <1>4, <1>6, <1>7, <3>1
    <3>3. ds[i - 1].at \in Nat /\ ds[i - 1].len \in Nat
      BY <3>2 DEF Stored
    <3>4. StartOf(ds, i) = ds[i - 1].at + CD!BlockSize + ds[i - 1].len
      BY <2>4 DEF StartOf
    <3>5. CD!Extent(bs[i - 1]) = CD!BlockSize + ds[i - 1].len
      BY <3>2 DEF CD!Extent
    <3> DEFINE at == ds[i - 1].at
               len == ds[i - 1].len
    <3>6. at \in Nat /\ len \in Nat /\ CD!BlockSize \in Nat
      BY <3>3 DEF CD!BlockSize
    <3>7. bs[i - 1].at = at
      BY <3>2
    <3> HIDE DEF at, len
    <3>8. at + CD!BlockSize + len = at + (CD!BlockSize + len)
      BY <3>6
    <3> QED BY <3>4, <3>5, <3>7, <3>8 DEF at, len
  <2> QED BY <2>1, <2>2, <2>3, <2>4 DEF StartOf
<1>12. ASSUME NEW i, IsMemory(bs, i)
       PROVE  /\ bs[i].address \in DOMAIN layout.regions /\ Wanted(bs[i].address)
              /\ bs[i].len <= layout.regions[bs[i].address].len
              /\ \/ (bs[i].at % 4) = 0
                 \/ (CD!Last(bs).truncated /\ i = Len(bs) - 1 /\ bs[i].len < 3)
  <2>1. i \in 1..n /\ IsMemory(ds, i) /\ bs[i] = ds[i]
    BY <1>9, <1>12
  <2>2. MemoryIs(d, ds, i)
    BY <1>2, <1>3, <2>1 DEF MemoryLaid
  <2>3. Len(bs) - 1 = Len(ds)
    BY <1>3, <1>4 DEF n
  <2> QED BY <1>5, <1>8, <2>1, <2>2, <2>3 DEF MemoryIs
<1>13. \A i, j \in DOMAIN bs : IsMemory(bs, i) /\ IsMemory(bs, j) /\ i < j
                              => bs[i].address < bs[j].address
  BY <1>2, <1>3, <1>9 DEF MemoryLaid
<1>14. \A i \in DOMAIN CD!Fixed : bs[i].kind = CD!Fixed[i].kind /\ bs[i].len = CD!Fixed[i].len
  <2>1. ASSUME NEW i \in 1..4
        PROVE  ds[i].kind = CD!Fixed[i].kind /\ ds[i].len = CD!Fixed[i].len
    <3>1. i < CD!Footer /\ ~(CD!Footer <= 4)
      BY <1>1
    <3> QED BY <1>2, <3>1 DEF FixedLaid
  <2>2. \A i \in 1..4 : bs[i] = ds[i]
    BY <1>3, <1>4
  <2> QED BY <1>1, <2>1, <2>2
<1>15. total = CD!Last(bs).at + CD!FooterSize /\ total <= layout.size
  BY <1>2, <1>3, <1>5, <1>8 DEF Laid
<1>16. (\A q \in DOMAIN layout.regions : Wanted(q) => Has(bs, q)) \/ CD!Last(bs).truncated
  <2> SUFFICES ASSUME ~CD!Last(bs).truncated, NEW q \in DOMAIN layout.regions, Wanted(q)
               PROVE  Has(bs, q)
    OBVIOUS
  <2>1. q < r
    BY <1>1 DEF r
  <2>2. Has(ds, q)
    BY <1>2, <1>5, <1>8, <2>1 DEF AllLaid
  <2>3. PICK i \in DOMAIN ds : /\ IsMemory(ds, i) /\ ds[i].address = q
                               /\ ds[i].len = layout.regions[q].len
    BY <2>2 DEF Has
  <2>4. i \in DOMAIN bs /\ bs[i] = ds[i]
    BY <1>3, <1>4
  <2> QED BY <2>3, <2>4 DEF Has, IsMemory
<1>17. layout.size >= CD!SaveSize => ~CD!Last(bs).truncated /\ total = CD!SaveSize
  BY <1>2, <1>5, <1>8 DEF RoomFor, CD!SaveSize, walk, WalkTo
<1> QED BY <1>11, <1>12, <1>13, <1>14, <1>15, <1>16, <1>17, Zenon DEF WholeOf

\* With what a step leaves of the layout, that is what the property says.
LEMMA WholeNext ==
  ASSUME layout' = layout,
         header' # CD!NoHeader /\ ~header'.write_error =>
           WholeOf(header'.crash, header'.total_size, blocks')
  PROVE  CoredumpWhole'
<1>1. CD!Fixed' = CD!Fixed
  BY DEF CD!Fixed
<1>2. CD!SaveSize' = CD!SaveSize
  BY <1>1 DEF CD!SaveSize, CD!Footer
<1>3. CD!Memory' = {i \in DOMAIN blocks' : blocks'[i].kind = "memory"}
  BY DEF CD!Memory
<1> QED BY <1>1, <1>2, <1>3
        DEF CoredumpWhole, CD!CoredumpWhole, WholeOf, CD!AllThere, IsMemory, Has, Wanted

LEMMA WholeStays ==
  ASSUME CoredumpWhole, layout' = layout,
         header' = CD!NoHeader \/ (header' = header /\ blocks' = blocks)
  PROVE  CoredumpWhole'
<1>1. CD!Fixed' = CD!Fixed
  BY DEF CD!Fixed
<1>2. CD!SaveSize' = CD!SaveSize
  BY <1>1 DEF CD!SaveSize, CD!Footer
<1>3. CASE header' = CD!NoHeader
  BY <1>3 DEF CoredumpWhole, CD!CoredumpWhole
<1>4. CASE header' = header /\ blocks' = blocks
  BY <1>1, <1>2, <1>4 DEF CoredumpWhole, CD!CoredumpWhole, CD!AllThere, CD!Memory
<1> QED BY <1>3, <1>4

LEMMA HeaderStepWhole ==
  ASSUME Saved, CD!write_header PROVE CoredumpWhole'
<1>1. /\ layout \in CD!Layout /\ layout' = layout /\ blocks' = blocks
      /\ ctx # CD!NoSave /\ ctx.next = CD!Footer + 1
      /\ header'.crash = ctx.crash /\ header'.total_size = ctx.offset
      /\ header'.write_error = ctx.write_error
  BY DEF Saved, CD!write_header, CD!Saving
<1>2. ASSUME ~header'.write_error
      PROVE  WholeOf(header'.crash, header'.total_size, blocks')
  <2>1. PICK d \in Context, ds \in Seq(Stored) :
          /\ d.crash = ctx.crash /\ ctx.offset = d.offset + CD!FooterSize
          /\ blocks = Append(ds, FooterOf(d))
          /\ SavedTo(d, ds, CD!Footer, WalkTo(CD!Footer - 1))
    BY <1>1, <1>2 DEF Saved, SavedWith
  <2>2. WholeOf(d.crash, ctx.offset, blocks)
    BY <1>1, <2>1, FooterMakesWhole
  <2> QED BY <1>1, <2>1, <2>2
<1> QED BY <1>1, <1>2, WholeNext

-------------------------------------------------------------------------------
\* Storage holds a whole coredump or none, and one that is being saved is whole so far.
WInv == Saved /\ CoredumpWhole

LEMMA InitWhole == Init => WInv
<1> SUFFICES ASSUME Init PROVE WInv
  OBVIOUS
<1>1. layout \in CD!Layout /\ errors = 0 /\ ctx = CD!NoSave /\ header = CD!NoHeader
  BY LayoutsAssumption DEF Init, CD!Init
<1> QED BY <1>1 DEF WInv, Saved, CoredumpWhole, CD!CoredumpWhole

\* Nothing else touches a save in progress.
LEMMA OtherWhole ==
  ASSUME WInv, layout' = layout, errors' = errors,
         ctx' = CD!NoSave \/ (ctx' = ctx /\ blocks' = blocks),
         header' = CD!NoHeader \/ (header' = header /\ blocks' = blocks)
  PROVE  WInv'
<1>1. layout \in CD!Layout /\ errors' \in Nat
  BY DEF WInv, Saved
<1>2. ctx' # CD!NoSave => SavedWith(ctx', blocks')
  BY DEF WInv, Saved
<1> QED BY <1>1, <1>2, SavedNext, WholeStays DEF WInv

LEMMA WholeNextKeeps == IInv /\ WInv /\ [Next]_vars => WInv'
<1> SUFFICES ASSUME IInv, WInv, [Next]_vars PROVE WInv'
  OBVIOUS
<1>1. CASE save_begin
  <2>1. CASE CD!save_begin(crashes)
    <3>1. crashes \in Nat
      BY DEF IInv, Types
    <3>2. Saved'
      BY <2>1, <3>1, SaveBeginsSaved DEF WInv
    <3>3. CoredumpWhole'
      BY <2>1, WholeStays DEF WInv, CD!save_begin
    <3> QED BY <3>2, <3>3 DEF WInv
  <2>2. CASE UNCHANGED coredump
    BY <2>2, OtherWhole DEF coredump
  <2> QED BY <1>1, <2>1, <2>2 DEF save_begin
<1>2. CASE save_block
  <2>1. CD!write_fixed \/ CD!write_region \/ CD!write_footer \/ CD!write_header_fails
    BY <1>2 DEF save_block
  <2>2. Saved'
    BY <2>1, WriteFixedStep, WriteRegionStep, WriteFooterStep, WriteHeaderStep DEF WInv
  <2>3. layout' = layout /\ header' = header
    BY <2>1 DEF CD!write_fixed, CD!write_region, CD!write_footer, CD!write_header_fails, CD!Take
  <2>4. header = CD!NoHeader
    BY <1>2 DEF save_block, IInv, SaveInProgress
  <2> QED BY <2>2, <2>3, <2>4, WholeStays DEF WInv
<1>3. CASE save_header
  BY <1>3, WriteHeaderStep, HeaderStepWhole DEF save_header, WInv
<1>4. CASE UNCHANGED coredump \/ CD!reset
  BY <1>4, OtherWhole DEF coredump, CD!reset
<1>5. CASE mark_msg_read
  BY <1>5, OtherWhole DEF mark_msg_read, CD!storage_clear
<1> QED BY <1>1, <1>2, <1>3, <1>4, <1>5
        DEF Next, boot, mark_reset_imminent, fault_handler, mark_coredump_saved, platform_reboot,
            reset, power_loss, collect_reset_info, reset_crash_count, has_valid_coredump, Waits, vars

\* Whatever was saved, however often a write failed and wherever a reset came, a coredump
\* that the header makes valid is whole or says what it lacks.
THEOREM CoredumpsAreWhole == Spec => []CoredumpWhole
<1>1. WInv => CoredumpWhole
  BY DEF WInv
<1> QED BY <1>1, Inductive, InitWhole, WholeNextKeeps, PTL DEF Spec
===============================================================================

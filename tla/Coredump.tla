------------------------------- MODULE Coredump -------------------------------
(* components/panics/src/memfault_coredump.c: from the fault handler, the state  *)
(* of a crash is written to storage block after block and the header, which     *)
(* makes it valid, last.  Storage that is too small truncates it.  A reset may   *)
(* come between any two blocks; a write may fail after any part of a block.      *)
(* CrashPath has the handler, the resets and the reader around it.               *)
EXTENDS Integers, Sequences, SequencesExt

CONSTANTS
  Layouts,  \* what there is to save and the storage for it
  MaxErrors \* bound: storage writes that fail

HeaderSize == 12 \* sizeof(sMfltCoredumpHeader)
BlockSize == 12  \* sizeof(sMfltCoredumpBlock)
FooterSize == 16 \* sizeof(sMfltCoredumpFooter)

\* A layout has the size of the storage, the lengths of the register and version blocks,
\* and its regions: their length, whether they are read word by word, and whether the
\* cache they come from is valid.
Layout == [size : Nat, regs : Nat \ {0}, version : Nat \ {0},
           regions : Seq([len : Nat, word : BOOLEAN, valid : BOOLEAN])]

VARIABLES
  layout, \* of this device: it never changes
  header, \* NoHeader, or the crash that was saved
  blocks, \* behind the header, in the order they were written
  ctx,    \* sMfltCoredumpWriteCtx of the save in progress, or NoSave
  errors  \* writes that have failed

NoHeader == [crash |-> 0, total_size |-> 0, write_error |-> FALSE]
NoSave == [crash |-> 0, next |-> 0, offset |-> 0, truncated |-> FALSE, write_error |-> FALSE]

Init ==
  /\ layout \in Layouts
  /\ header = NoHeader /\ blocks = <<>> /\ ctx = NoSave /\ errors = 0

-------------------------------------------------------------------------------
\* Blocks of fixed place: without all of them there is no coredump.
Fixed == <<[kind |-> "registers", len |-> layout.regs],
           [kind |-> "version", len |-> layout.version],
           [kind |-> "machine", len |-> 4],
           [kind |-> "reason", len |-> 4]>>
Footer == Len(Fixed) + Len(layout.regions) + 1

\* Mutant: the remainder itself.
MutPaddingAt(offset) == offset % 4
PaddingAt(offset) == (4 - (offset % 4)) % 4
Floor4(n) == n - (n % 4)

\* Room is kept for the footer.
Free(offset) ==
  LET limit == IF layout.size > FooterSize THEN layout.size - FooterSize ELSE layout.size
  IN IF limit > offset THEN limit - offset ELSE 0

\* An attempt at a block: the context, what storage holds, writes that failed, and the
\* result of the call.
Try == [ctx |-> ctx, blocks |-> blocks, errors |-> errors, ok |-> TRUE]
\* The address of memory is which region it is.
Block(t, kind, address, len, whole) ==
  [crash |-> t.ctx.crash, kind |-> kind, address |-> address, at |-> t.ctx.offset, len |-> len,
   whole |-> whole]
Failed(t) == [t EXCEPT !.ctx.write_error = TRUE, !.errors = @ + 1, !.ok = FALSE]

\* prv_write_block_with_address: a block that does not fit is cut to whole words.
WriteBlock(t, kind, address, len, word) ==
  LET fits == BlockSize + len <= Free(t.ctx.offset)
      cut == IF Free(t.ctx.offset) < BlockSize THEN 0 ELSE Floor4(Free(t.ctx.offset) - BlockSize)
      payload == IF fits THEN len ELSE cut
      t1 == [t EXCEPT !.ctx.truncated = @ \/ ~fits]
      by_word == word /\ payload % 4 = 0
  IN IF len = 0 THEN {[t EXCEPT !.ok = TRUE]}
     ELSE IF payload = 0 THEN {[t1 EXCEPT !.ok = FALSE]}
     ELSE {[t1 EXCEPT !.ctx.offset = @ + BlockSize + payload,
                      !.blocks = Append(@, Block(t1, kind, address, payload, TRUE)),
                      !.ok = ~by_word \/ ~t1.ctx.truncated],
           Failed(t1),
           Failed([t1 EXCEPT !.ctx.offset = @ + BlockSize,
                             !.blocks = Append(@, Block(t1, kind, address, 0, FALSE))])}

\* prv_insert_padding_if_necessary does not look whether the padding was written.
WritePadding(t) ==
  IF PaddingAt(t.ctx.offset) = 0 THEN {t}
  ELSE WriteBlock(t, "padding", 0, PaddingAt(t.ctx.offset), FALSE)

\* prv_write_regions, one of them.
WriteRegion(t, i) ==
  LET r == layout.regions[i]
  IN UNION {IF r.valid THEN WriteBlock(p, "memory", i, r.len, r.word)
                       ELSE {[p EXCEPT !.ok = TRUE]} : p \in WritePadding(t)}

-------------------------------------------------------------------------------
\* Mutant: a coredump in storage is not looked for.
mut_save_begin_overwrites(crash) ==
  /\ header' = NoHeader
  /\ blocks' = <<>>
  /\ ctx' = [NoSave EXCEPT !.crash = crash, !.next = 1, !.offset = HeaderSize]
  /\ UNCHANGED <<layout, errors>>
\* A coredump in storage is not overwritten; else storage is erased.  The platform may
\* refuse any of it.
save_begin(crash) ==
  /\ header = NoHeader
  /\ blocks' = <<>>
  /\ ctx' = [NoSave EXCEPT !.crash = crash, !.next = 1, !.offset = HeaderSize]
  /\ UNCHANGED <<layout, header, errors>>

Saving == ctx # NoSave
Take(t) == /\ t.errors <= MaxErrors
           /\ blocks' = t.blocks /\ errors' = t.errors
           /\ UNCHANGED <<layout, header>>

write_fixed ==
  /\ Saving /\ ctx.next \in DOMAIN Fixed
  /\ \E t \in WriteBlock(Try, Fixed[ctx.next].kind, 0, Fixed[ctx.next].len, FALSE) :
       /\ Take(t)
       /\ ctx' = IF t.ok THEN [t.ctx EXCEPT !.next = @ + 1] ELSE NoSave

\* A region that fits in part, or not at all, ends the regions.
write_region ==
  LET i == ctx.next - Len(Fixed)
  IN /\ Saving /\ i \in DOMAIN layout.regions
     /\ \E t \in WriteRegion(Try, i) :
          /\ Take(t)
          /\ ctx' = IF t.ok THEN [t.ctx EXCEPT !.next = @ + 1]
                    ELSE IF t.ctx.write_error THEN NoSave
                    ELSE [t.ctx EXCEPT !.next = Footer]

write_footer ==
  /\ Saving /\ ctx.next = Footer
  /\ \/ /\ Take([Try EXCEPT !.blocks =
                   Append(@, [crash |-> ctx.crash, kind |-> "footer", at |-> ctx.offset,
                              len |-> FooterSize, whole |-> TRUE, truncated |-> ctx.truncated])])
        /\ ctx' = [ctx EXCEPT !.offset = @ + FooterSize, !.next = Footer + 1]
     \/ /\ Take(Failed(Try))
        /\ ctx' = NoSave

\* The header is the end of memfault_coredump_save.
write_header ==
  /\ Saving /\ ctx.next = Footer + 1
  /\ header' = [crash |-> ctx.crash, total_size |-> ctx.offset, write_error |-> ctx.write_error]
  /\ ctx' = NoSave
  /\ UNCHANGED <<layout, blocks, errors>>
write_header_fails ==
  /\ Saving /\ ctx.next = Footer + 1
  /\ Take(Failed(Try))
  /\ ctx' = NoSave

\* A reset ends it wherever it is.
reset == ctx' = NoSave /\ UNCHANGED <<layout, header, blocks, errors>>

\* memfault_platform_coredump_storage_clear, when it has been sent.
storage_clear ==
  /\ header' = NoHeader
  /\ UNCHANGED <<layout, blocks, ctx, errors>>

-------------------------------------------------------------------------------
\* memfault_coredump_get_save_size: the same walk with room for all.
Padded(n) == IF PaddingAt(n) = 0 THEN n ELSE n + BlockSize + PaddingAt(n)
Wanted(r) == r.valid /\ r.len > 0
WalkTo(fixed, regions, m) ==
  LET walk[n \in 0..m] ==
        IF n = 0 THEN HeaderSize
        ELSE IF n \in DOMAIN fixed THEN walk[n - 1] + BlockSize + fixed[n].len
        ELSE LET r == regions[n - Len(fixed)]
             IN IF Wanted(r) THEN Padded(walk[n - 1]) + BlockSize + r.len ELSE Padded(walk[n - 1])
  IN walk[m]
SaveSize == WalkTo(Fixed, layout.regions, Footer - 1) + FooterSize

\* Bytes of storage that block b takes.
Extent(b) == IF b.kind = "footer" THEN b.len ELSE BlockSize + b.len

Memory == {i \in DOMAIN blocks : blocks[i].kind = "memory"}
AllThere == \A r \in DOMAIN layout.regions :
              Wanted(layout.regions[r]) => \E i \in Memory : /\ blocks[i].address = r
                                            /\ blocks[i].len = layout.regions[r].len

TypeOK ==
  /\ layout \in Layouts
  /\ \A i \in DOMAIN blocks : blocks[i].at + Extent(blocks[i]) <= layout.size
  /\ ctx.next <= Footer + 1
  /\ ctx.offset <= layout.size
  /\ errors <= MaxErrors

\* A coredump that the header makes valid is whole, whatever resets and failed saves
\* came before it: its blocks follow one another from the header to the size announced,
\* all of one crash, the fixed ones uncut and first, memory in the order of its regions and
\* aligned to words (but for one or two bytes that end a truncated coredump), and the
\* footer last; if anything is missing the footer says so ("If there is not enough
\* storage space for memory regions, coredumps will now be truncated ... we track whether
\* or not a coredump was truncated"), and nothing is when storage is as large as
\* memfault_coredump_get_save_size says.  Only a padding whose write failed escapes it.
CoredumpWhole ==
  header # NoHeader /\ ~header.write_error =>
    /\ \A i \in DOMAIN blocks :
         /\ blocks[i].crash = header.crash
         /\ blocks[i].at = IF i = 1 THEN HeaderSize ELSE blocks[i - 1].at + Extent(blocks[i - 1])
         /\ blocks[i].whole
         /\ i \in Memory => \/ blocks[i].at % 4 = 0
                           \/ (Last(blocks).truncated /\ i = Len(blocks) - 1 /\ blocks[i].len < 3)
         /\ blocks[i].kind = "footer" <=> i = Len(blocks)
    /\ \A i \in DOMAIN Fixed : blocks[i].kind = Fixed[i].kind /\ blocks[i].len = Fixed[i].len
    /\ header.total_size = Last(blocks).at + FooterSize
    /\ header.total_size <= layout.size
    /\ \A i \in Memory : /\ blocks[i].address \in DOMAIN layout.regions
                         /\ Wanted(layout.regions[blocks[i].address])
                         /\ blocks[i].len <= layout.regions[blocks[i].address].len
    /\ \A i, j \in Memory : i < j => blocks[i].address < blocks[j].address
    /\ AllThere \/ Last(blocks).truncated
    /\ layout.size >= SaveSize => ~Last(blocks).truncated /\ header.total_size = SaveSize
===============================================================================

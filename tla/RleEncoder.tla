------------------------------ MODULE RleEncoder ------------------------------
(* components/util/src/memfault_rle.c under components/core/src/                 *)
(* memfault_data_source_rle.c: a data source is run-length encoded on the fly.   *)
(* A first pass computes the encoded size; then the message is handed out in     *)
(* reads of whatever length, each going through the source again with a small    *)
(* working buffer.  Sequence k of the encoding is a signed count (varint) and    *)
(* the byte repeated (count > 0) or the -count bytes as they are.  The server's  *)
(* decoder is external.                                                          *)
EXTENDS Integers, Sequences, SequencesExt

CONSTANTS
  Byte,       \* values of a byte
  MaxLen,     \* bound: longest message
  TempLen,    \* sizeof(temp_buf)
  VarintBase, \* 128: values one more varint byte can hold
  MaxAborts   \* bound: aborted messages

ASSUME SizesAssumption == /\ MaxLen \in Nat \ {0} /\ TempLen \in Nat \ {0}
                          /\ VarintBase \in Nat \ {0, 1} /\ MaxAborts \in Nat

VARIABLES
  data,     \* the message of the backing source
  rle_ctx,  \* sMemfaultRleCtx
  encode_ctx, \* sMemfaultDataSourceRleEncodeCtx (temp_buf left out)
  total_rle_size, \* 0: not computed
  pc, want, \* the read call in progress and the bytes it has yet to fill
  out,      \* what has been handed out of the message
  aborts

vars == <<data, rle_ctx, encode_ctx, total_rle_size, pc, want, out, aborts>>

Least(a, b) == IF a < b THEN a ELSE b

(* memfault_encode_varint_si32: the length of a signed count *)
ZigZag(n) == IF n < 0 THEN -2 * n - 1 ELSE 2 * n
VarintLen(n) == IF ZigZag(n) < VarintBase THEN 1
                ELSE IF ZigZag(n) < VarintBase * VarintBase THEN 2 ELSE 3

-------------------------------------------------------------------------------
(* memfault_rle.c *)
NoWrite == [available |-> FALSE, write_start_offset |-> 0, write_len |-> 0, count |-> 0]
NoRle == [state |-> "Init", write_info |-> NoWrite, curr_offset |-> 0, last_byte |-> 0,
          seq_start_offset |-> 0, seq_count |-> 0, num_repeats |-> 0, total_rle_size |-> 0]

\* prv_handle_rle_change: the sequence so far is to be written, another begins.
handle_rle_change(c) ==
  LET repeated == c.state = "RepeatSeq"
      count == IF repeated THEN c.seq_count ELSE -c.seq_count
      len == IF repeated THEN 1 ELSE c.seq_count
      tail == IF repeated THEN 0 ELSE c.num_repeats
  IN [c EXCEPT !.write_info = [available |-> TRUE, write_start_offset |-> c.seq_start_offset,
                               write_len |-> len, count |-> count],
               !.total_rle_size = @ + VarintLen(count) + len,
               !.seq_start_offset = c.curr_offset - tail,
               !.seq_count = tail]

\* One round of the loop of memfault_rle_encode.
CountRepeat(c, b) == [c EXCEPT !.num_repeats = IF c.curr_offset # 0 /\ c.last_byte = b
                                                 THEN @ + 1 ELSE 0]
\* Mutant: the repeats found stay counted in the literal sequence before them.
MutClassify(c) ==
  CASE c.state = "RepeatSeq" ->
         [(IF c.num_repeats = 0 THEN handle_rle_change(c) ELSE c) EXCEPT !.state = "NonRepeatSeq"]
    [] c.state = "NonRepeatSeq" /\ c.num_repeats >= 2 -> handle_rle_change(c)
    [] c.state = "NonRepeatSeq" /\ c.num_repeats < 2 -> c
    [] c.state = "Init" -> [c EXCEPT !.state = "NonRepeatSeq"]

Classify(c) ==
  CASE c.state = "RepeatSeq" ->
         [(IF c.num_repeats = 0 THEN handle_rle_change(c) ELSE c) EXCEPT !.state = "NonRepeatSeq"]
    [] c.state = "NonRepeatSeq" /\ c.num_repeats >= 2 ->
         handle_rle_change([c EXCEPT !.seq_count = @ - c.num_repeats])
    [] c.state = "NonRepeatSeq" /\ c.num_repeats < 2 -> c
    [] c.state = "Init" -> [c EXCEPT !.state = "NonRepeatSeq"]
MarkRepeat(c) == IF c.num_repeats >= 1 /\ c.seq_count = c.num_repeats
                   THEN [c EXCEPT !.state = "RepeatSeq"] ELSE c
EncodeByte(c, b) ==
  [MarkRepeat(Classify(CountRepeat(c, b))) EXCEPT
     !.last_byte = b, !.seq_count = @ + 1, !.curr_offset = @ + 1]

\* memfault_rle_encode: bytes up to the first that ends a sequence.
rle_encode(c, bytes) ==
  FoldLeft(LAMBDA d, b : IF d.write_info.available THEN d ELSE EncodeByte(d, b),
           [c EXCEPT !.write_info = NoWrite], bytes)

\* prv_compute_rle_size: all bytes, then memfault_rle_encode_finalize.
compute_rle_size ==
  handle_rle_change(FoldLeft(LAMBDA d, b : EncodeByte([d EXCEPT !.write_info = NoWrite], b),
                             NoRle, data)).total_rle_size

-------------------------------------------------------------------------------
(* memfault_data_source_rle.c *)
NoEncode == [state |-> "Inactive", write_offset |-> 0, bytes_processed |-> 0,
             curr_encoded_len |-> 0]

Init ==
  /\ data \in UNION {[1..n -> Byte] : n \in 1..MaxLen}
  /\ rle_ctx = NoRle
  /\ encode_ctx = NoEncode
  /\ total_rle_size = 0
  /\ pc = "idle" /\ want = 0
  /\ out = <<>>
  /\ aborts = 0

\* memfault_data_source_rle_has_more_msgs
has_more_msgs ==
  /\ pc = "idle"
  /\ total_rle_size = 0
  /\ total_rle_size' = compute_rle_size
  /\ encode_ctx' = [encode_ctx EXCEPT !.state = "FindingSeqLength"]
  /\ UNCHANGED <<data, rle_ctx, pc, want, out, aborts>>

\* memfault_data_source_rle_read_msg: the next n bytes of the encoding; what is
\* pending of a sequence goes first.
read_msg(n) ==
  /\ pc = "idle"
  /\ total_rle_size # 0
  /\ encode_ctx.curr_encoded_len + n <= total_rle_size
  /\ want' = n
  /\ pc' = "flush"
  /\ UNCHANGED <<data, rle_ctx, encode_ctx, total_rle_size, out, aborts>>

\* prv_data_source_rle_get_backing_read_offset while a sequence is written.
header_len(w) == VarintLen(w.count)
WriteFrom(w, write_offset) == w.write_start_offset + (write_offset - header_len(w))

HeaderCell(w, i) == [header |-> TRUE, value |-> w.count, i |-> i]
DataCell(b) == [header |-> FALSE, value |-> b, i |-> 0]

\* prv_data_source_rle_fill_msg: as much of the sequence as the buffer takes,
\* header first, data straight from the source.
fill_msg(next) ==
  LET w == rle_ctx.write_info
      at == encode_ctx.write_offset
      header == IF at < header_len(w) THEN Least(want, header_len(w) - at) ELSE 0
      total == header_len(w) + w.write_len
      n == Least(want - header, total - (at + header))
      from == WriteFrom(w, at + header)
      done == at + header + n = total
  IN /\ \/ /\ w.available
           /\ out' = out \o [i \in 1..header |-> HeaderCell(w, at + i)]
                         \o [i \in 1..n |-> DataCell(data[from + i])]
           /\ want' = want - header - n
           /\ encode_ctx' = [encode_ctx EXCEPT
                !.write_offset = IF done THEN 0 ELSE at + header + n,
                !.state = IF done THEN "FindingSeqLength" ELSE @,
                !.curr_encoded_len = @ + header + n]
           /\ rle_ctx' = IF done THEN [rle_ctx EXCEPT !.write_info = NoWrite] ELSE rle_ctx
        \/ ~w.available /\ UNCHANGED <<out, want, encode_ctx, rle_ctx>>
     /\ pc' = IF want' = 0 THEN "idle" ELSE next
     /\ UNCHANGED <<data, total_rle_size, aborts>>

\* prv_data_source_rle_read_msg_prepare with the next block of the source.
find_sequence ==
  LET from == encode_ctx.bytes_processed
      block == SubSeq(data, from + 1, Least(from + TempLen, Len(data)))
      c == rle_encode(rle_ctx, block)
  IN /\ pc = "find"
     /\ from # Len(data)
     /\ rle_ctx' = c
     /\ encode_ctx' = [encode_ctx EXCEPT
          !.bytes_processed = @ + (c.curr_offset - rle_ctx.curr_offset),
          !.state = IF c.write_info.available THEN "WritingSequence" ELSE @]
     /\ pc' = "fill"
     /\ UNCHANGED <<data, total_rle_size, want, out, aborts>>

\* All bytes were looked at: the last sequence is what is left.
finalize ==
  /\ pc = "find"
  /\ encode_ctx.bytes_processed = Len(data)
  /\ rle_ctx' = handle_rle_change(rle_ctx)
  /\ encode_ctx' = [encode_ctx EXCEPT !.state = "WritingSequence"]
  /\ pc' = "last"
  /\ UNCHANGED <<data, total_rle_size, want, out, aborts>>

\* Whatever the last fill left of the buffer, the read returns true.
read_continues == \/ pc = "flush" /\ fill_msg("find")
                  \/ find_sequence
                  \/ pc = "fill" /\ fill_msg("find")
                  \/ finalize
                  \/ pc = "last" /\ fill_msg("idle")

\* The message is aborted: memfault_data_source_rle_encoder_set_active(NULL).
abort ==
  /\ pc = "idle"
  /\ aborts < MaxAborts
  /\ aborts' = aborts + 1
  /\ rle_ctx' = NoRle
  /\ encode_ctx' = NoEncode
  /\ total_rle_size' = 0
  /\ out' = <<>>
  /\ UNCHANGED <<data, pc, want>>

HandedOut == total_rle_size # 0 /\ encode_ctx.curr_encoded_len = total_rle_size /\ pc = "idle"

Next == \/ has_more_msgs
        \/ \E n \in 1..(3 * MaxLen) : read_msg(n)
        \/ read_continues
        \/ abort
        \/ HandedOut /\ UNCHANGED vars

Spec == Init /\ [][Next]_vars

-------------------------------------------------------------------------------
(* The server: a sequence at cell i, decoded, then the rest. *)
Decoded[i \in 1..(Len(out) + 1)] ==
  IF i > Len(out) THEN <<>>
  ELSE LET count == out[i].value
           body == i + VarintLen(count)
           len == IF count > 0 THEN 1 ELSE -count
       IN IF ~out[i].header \/ body + len > Len(out) + 1 \/ len = 0
            THEN <<"malformed">>
            ELSE (IF count > 0 THEN [j \in 1..count |-> out[body].value]
                               ELSE [j \in 1..len |-> out[body + j - 1].value])
                 \o Decoded[body + len]

TypeOK ==
  /\ data \in Seq(Byte)
  /\ rle_ctx.state \in {"Init", "NonRepeatSeq", "RepeatSeq"}
  /\ rle_ctx.seq_count \in 0..Len(data) /\ rle_ctx.num_repeats \in 0..Len(data)
  /\ rle_ctx.curr_offset = encode_ctx.bytes_processed
  /\ encode_ctx.state \in {"Inactive", "FindingSeqLength", "WritingSequence"}
  /\ encode_ctx.bytes_processed \in 0..Len(data)
  /\ encode_ctx.curr_encoded_len = Len(out)
  /\ pc \in {"idle", "flush", "find", "fill", "last"} /\ want \in Nat

\* What was handed out decodes to the message, whatever the lengths of the reads and
\* wherever the blocks of the working buffer cut the message; and it is all handed out: no
\* read leaves its buffer short because the second pass is out of bytes before the size
\* that the first announced.
DecodesBack == /\ HandedOut => Decoded[1] = data
               /\ pc = "idle" => want = 0
===============================================================================

---------------------------- MODULE ChunkTransport ----------------------------
(* components/util/src/memfault_chunk_transport.c: a message is cut into chunks *)
(* that fit the buffers the caller happens to pass, each time of another length *)
(* if it likes.  Data is told apart by where it was read in the message; a CRC  *)
(* by how many bytes of the message it covers.  The other end, the server that  *)
(* puts chunks together, is external: it follows the chunk layout prv_build_hdr *)
(* documents, over the reliable in-order link data_packetizer.h asks for.       *)
EXTENDS Naturals

CONSTANTS
  VarintBase, \* 128: values one more varint byte can hold
  MaxTotal,   \* bound: longest message
  MaxBufLen,  \* bound: longest buffer a caller passes
  MaxAborts   \* bound: aborted messages

ASSUME BoundAssumption ==
  /\ VarintBase \in Nat \ {0}
  /\ MaxTotal \in Nat /\ MaxBufLen \in Nat /\ MaxAborts \in Nat
  /\ \/ MaxTotal < VarintBase
     \/ MaxTotal < VarintBase * VarintBase * VarintBase * VarintBase * VarintBase

VARIABLES
  active,      \* a message is being sent
  total_size, enable_multi_call_chunk, read_offset, crc16_incremental, \* its context
  single_chunk_message_length,
  last,        \* the last call: buffer, what was read and written, what it returned
  written,     \* bytes output for the message so far
  rx,          \* the server: bytes put together, whether each came in its place
  aborts

ctx == <<total_size, enable_multi_call_chunk, single_chunk_message_length>>
chunkvars == <<active, total_size, enable_multi_call_chunk, single_chunk_message_length,
               read_offset, crc16_incremental, last, written, rx, aborts>>

MIN_CHUNK_BUF_LEN == 9
crc16_len == 2
Least(a, b) == IF a <= b THEN a ELSE b

\* memfault_encode_varint_u32: length of a varint
VarintLen(n) == IF n < VarintBase THEN 1
                ELSE IF n < VarintBase * VarintBase THEN 2
                ELSE IF n < VarintBase * VarintBase * VarintBase THEN 3
                ELSE IF n < VarintBase * VarintBase * VarintBase * VarintBase THEN 4
                ELSE 5

NoCall == [len |-> 0, from |-> 0, n |-> 0, out |-> 0, crc |-> 0, more |-> FALSE]
NoMessage == [got |-> 0, total |-> 0, inPlace |-> TRUE]

ChunkInit ==
  /\ active = FALSE
  /\ total_size = 0 /\ enable_multi_call_chunk = FALSE /\ single_chunk_message_length = 0
  /\ read_offset = 0 /\ crc16_incremental = 0
  /\ last = NoCall
  /\ written = 0
  /\ rx = NoMessage
  /\ aborts = 0

\* Mutant: the CRC of the message before is carried over.
mut_chunk_begin_stale_crc(total, multi) ==
  /\ ~active
  /\ active' = TRUE
  /\ total_size' = total
  /\ enable_multi_call_chunk' = multi
  /\ single_chunk_message_length' = 1 + 2 + total
  /\ read_offset' = 0
  /\ written' = 0
  /\ last' = NoCall
  /\ UNCHANGED <<crc16_incremental, rx, aborts>>

\* The packetizer loads a message; get_chunk_info computes its length as one chunk.
chunk_begin(total, multi) ==
  /\ ~active
  /\ active' = TRUE
  /\ total_size' = total
  /\ enable_multi_call_chunk' = multi
  /\ single_chunk_message_length' = 1 + 2 + total
  /\ read_offset' = 0 /\ crc16_incremental' = 0
  /\ written' = 0
  /\ last' = NoCall
  /\ UNCHANGED <<rx, aborts>>

\* What the rest of a call does once its kind has fixed where the data starts in
\* the buffer (start), how much of it there is (n) and whether more follows:
\* data and CRC are written, and the server gets the piece.  place is the offset
\* the piece announces, length the total it announces (0: none).
Emit(len, start, n, more, place, length) ==
  LET end == start + n + (IF more THEN 0 ELSE crc16_len)
      got == IF place = 0 THEN 0 ELSE rx.got
      inPlace == (place = 0 \/ rx.inPlace) /\ place = got /\ read_offset = got
  IN /\ crc16_incremental' = IF read_offset = crc16_incremental THEN crc16_incremental + n
                                                                 ELSE crc16_incremental
     /\ read_offset' = read_offset + n
     /\ last' = [len |-> len, from |-> read_offset, n |-> n, out |-> end,
                 crc |-> IF more THEN 0 ELSE crc16_incremental', more |-> more]
     /\ written' = written + end
     /\ rx' = [got |-> got + n, inPlace |-> inPlace,
               total |-> IF place = 0 THEN length ELSE rx.total]
     /\ active' = more

\* Mutant: the total length is written whenever the message does not fit.
mut_init_chunk_varint(len) ==
  LET more == single_chunk_message_length > len
      varint_len == VarintLen(total_size)
  IN /\ read_offset = 0
     /\ IF more THEN Emit(len, 1 + varint_len, len - 1 - varint_len, more, 0, total_size)
                ELSE Emit(len, 1, total_size, more, 0, 0)

\* First chunk: header byte, and the total length only when chunks follow.
init_chunk(len) ==
  LET more == single_chunk_message_length > len
      md == more /\ ~enable_multi_call_chunk
      varint_len == VarintLen(total_size)
  IN /\ read_offset = 0
     /\ \/ /\ md
           /\ Emit(len, 1 + varint_len, len - 1 - varint_len, more, 0, total_size)
        \/ /\ ~md /\ enable_multi_call_chunk
           /\ Emit(len, 1, Least(len - 1, total_size), more, 0, 0)
        \/ /\ ~md /\ ~enable_multi_call_chunk
           /\ Emit(len, 1, total_size, more, 0, 0)

\* Mutant: the last piece is not cut at the end of the message.
mut_multi_call_chunk_past_end(len) ==
  /\ read_offset # 0
  /\ enable_multi_call_chunk
  /\ Emit(len, 0, len, len - (total_size - read_offset) < crc16_len, read_offset, 0)

\* Next piece of a chunk that spans calls: no header.
multi_call_chunk(len) ==
  LET n == Least(len, total_size - read_offset)
  IN /\ read_offset # 0
     /\ enable_multi_call_chunk
     /\ Emit(len, 0, n, len - n < crc16_len, read_offset, 0)

\* Mutant: room for one byte is taken as room for the CRC.
mut_continuation_chunk_no_room(len) ==
  LET varint_len == VarintLen(read_offset)
      space == len - 1 - varint_len
      n == Least(space, total_size - read_offset)
  IN /\ read_offset # 0
     /\ ~enable_multi_call_chunk
     /\ Emit(len, 1 + varint_len, n, space - n < 1, read_offset, 0)

\* Continuation chunk: header byte and offset.
continuation_chunk(len) ==
  LET varint_len == VarintLen(read_offset)
      space == len - 1 - varint_len
      n == Least(space, total_size - read_offset)
  IN /\ read_offset # 0
     /\ ~enable_multi_call_chunk
     /\ Emit(len, 1 + varint_len, n, space - n < crc16_len, read_offset, 0)

\* Mutant: the smallest legal buffer is refused.
mut_get_next_chunk_min(len) ==
  /\ active
  /\ \/ /\ len <= MIN_CHUNK_BUF_LEN
        /\ last' = [NoCall EXCEPT !.len = len, !.more = TRUE]
        /\ UNCHANGED <<active, read_offset, crc16_incremental, written, rx>>
     \/ /\ len > MIN_CHUNK_BUF_LEN
        /\ init_chunk(len) \/ multi_call_chunk(len) \/ continuation_chunk(len)
  /\ UNCHANGED <<ctx, aborts>>

get_next_chunk(len) ==
  /\ active
  /\ \/ /\ len < MIN_CHUNK_BUF_LEN
        /\ last' = [NoCall EXCEPT !.len = len, !.more = TRUE]
        /\ UNCHANGED <<active, read_offset, crc16_incremental, written, rx>>
     \/ /\ len >= MIN_CHUNK_BUF_LEN
        /\ init_chunk(len) \/ multi_call_chunk(len) \/ continuation_chunk(len)
  /\ UNCHANGED <<ctx, aborts>>

\* memfault_packetizer_abort: the context is dropped; the message starts over later.
chunk_abort ==
  /\ active
  /\ aborts < MaxAborts
  /\ aborts' = aborts + 1
  /\ active' = FALSE
  /\ last' = NoCall
  /\ UNCHANGED <<ctx, read_offset, crc16_incremental, written, rx>>

ChunkNext ==
  \/ \E total \in 1..MaxTotal, multi \in BOOLEAN : chunk_begin(total, multi)
  \/ \E len \in 0..MaxBufLen : get_next_chunk(len)
  \/ chunk_abort

ChunkSpec == ChunkInit /\ [][ChunkNext]_chunkvars

\* A caller keeps asking, with buffers that are large enough.
ChunkFairSpec == ChunkSpec /\ WF_chunkvars(\E len \in MIN_CHUNK_BUF_LEN..MaxBufLen : get_next_chunk(len))

-------------------------------------------------------------------------------
ChunkTypeOK ==
  /\ active \in BOOLEAN /\ enable_multi_call_chunk \in BOOLEAN
  /\ total_size \in Nat /\ single_chunk_message_length \in Nat
  /\ read_offset \in Nat /\ crc16_incremental \in Nat /\ written \in Nat /\ aborts \in Nat
  /\ last \in [len : Nat, from : Nat, n : Nat, out : Nat, crc : Nat, more : BOOLEAN]
  /\ rx \in [got : Nat, total : Nat, inPlace : BOOLEAN]

\* A call never writes past the buffer it was given: header, varint, data and CRC
\* together fit (*out_buf_len - bytes_written would wrap otherwise).
ChunkFits == last.out <= last.len

\* "The chunk transport will never invoke this callback and request data that is
\* past the total_size of the message" (chunk_transport.h).
ReadsInBounds == last.from + last.n <= total_size

\* When the transport says the message is complete the server has put together
\* the whole of it, every piece in its place and of the announced length, and
\* the CRC it was sent covers all of it.
MessageDone == ~active /\ last # NoCall
Reassembled ==
  MessageDone => /\ rx.inPlace
                 /\ rx.got = total_size
                 /\ rx.total \in {0, total_size}
                 /\ last.crc = total_size

\* A chunk spanning several calls is as long as single_chunk_message_length said
\* before the first of them (the HTTP client announces it as Content-Length), and
\* so is a message that fits one chunk.
AnnouncedLength ==
  MessageDone /\ (enable_multi_call_chunk \/ last.from = 0) =>
    written = single_chunk_message_length

\* Every call with a large enough buffer moves on in the message; only the CRC may
\* be left for a last chunk of its own.
Progress ==
  [][(\E len \in MIN_CHUNK_BUF_LEN..MaxBufLen : get_next_chunk(len)) =>
       \/ read_offset' > read_offset
       \/ read_offset = total_size /\ ~active']_chunkvars

\* A message is always sent in the end, or aborted.
Completes == active ~> ~active
===============================================================================

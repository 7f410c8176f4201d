--------------------------- MODULE PacketizerProofs ---------------------------
(* The chunk transport for every message, buffer and varint base; then             *)
(* the packetizer for every list of sources, size of messages and buffers, and    *)
(* order of calls: what is being sent is the message its source has now, what the  *)
(* server puts together is one message, and the whole implements Outbox.  The      *)
(* inductive invariant IInv ties the three places the code keeps its position in:  *)
(* the chunk transport's offset, the encoder's, and what the server has.           *)
EXTENDS Packetizer, WellFoundedInduction, TLAPS

-------------------------------------------------------------------------------
(* The chunk transport.  ChunkIInv says how far a message that is being sent has   *)
(* got: the offset, the CRC and the server agree, and a chunk that spans calls has *)
(* written its header and the data so far.                                         *)

ChunkInStep ==
  /\ read_offset <= total_size
  /\ crc16_incremental = read_offset
  /\ active => single_chunk_message_length = 3 + total_size
  /\ active /\ read_offset = 0 => written = 0
  /\ active /\ read_offset # 0 =>
       /\ rx.got = read_offset
       /\ rx.inPlace
       /\ rx.total \in {0, total_size}
       /\ enable_multi_call_chunk => written = 1 + read_offset

ChunkIInv == ChunkTypeOK /\ ChunkInStep /\ ChunkFits /\ ReadsInBounds /\ Reassembled /\ AnnouncedLength

LEMMA VarintLenType == ASSUME NEW n PROVE VarintLen(n) \in 1..5
  BY DEF VarintLen

\* What the three kinds of chunk owe Emit: the piece fits the buffer, stays in the
\* message, is announced at the offset it is read from, and is the last one
\* exactly when the message ends with it.
Owed(len, start, n, more, place, length) ==
  /\ start + n + (IF more THEN 0 ELSE crc16_len) <= len
  /\ read_offset + n <= total_size
  /\ IF more THEN read_offset + n > 0 ELSE read_offset + n = total_size
  /\ place = read_offset
  /\ length \in {0, total_size}
  /\ enable_multi_call_chunk => written + start = 1 + read_offset
  /\ ~more /\ read_offset = 0 => start = 1

LEMMA EmitStep ==
  ASSUME ChunkIInv, active,
         NEW len \in Nat, NEW start \in Nat, NEW n \in Nat, NEW more \in BOOLEAN,
         NEW place \in Nat, NEW length \in Nat,
         Owed(len, start, n, more, place, length),
         Emit(len, start, n, more, place, length),
         UNCHANGED <<ctx, aborts>>
  PROVE  ChunkIInv'
<1> USE DEF crc16_len
<1>1. /\ crc16_incremental' = IF read_offset = crc16_incremental THEN crc16_incremental + n
                                                                ELSE crc16_incremental
      /\ read_offset' = read_offset + n
      /\ written' = written + (start + n + (IF more THEN 0 ELSE crc16_len))
      /\ active' = more
      /\ last' = [len |-> len, from |-> read_offset, n |-> n,
                  out |-> start + n + (IF more THEN 0 ELSE crc16_len),
                  crc |-> IF more THEN 0 ELSE crc16_incremental', more |-> more]
  BY DEF Emit
<1>2. rx' = [got |-> (IF place = 0 THEN 0 ELSE rx.got) + n,
             inPlace |-> /\ place = 0 \/ rx.inPlace
                         /\ place = IF place = 0 THEN 0 ELSE rx.got
                         /\ read_offset = IF place = 0 THEN 0 ELSE rx.got,
             total |-> IF place = 0 THEN length ELSE rx.total]
  BY DEF Emit
<1>3. /\ total_size' = total_size /\ enable_multi_call_chunk' = enable_multi_call_chunk
      /\ single_chunk_message_length' = single_chunk_message_length /\ aborts' = aborts
  BY DEF ctx
<1>4. rx'.got = read_offset + n /\ rx'.inPlace /\ rx'.total \in {0, total_size}
  BY <1>2 DEF ChunkIInv, ChunkTypeOK, ChunkInStep, Owed
<1>5. crc16_incremental' = read_offset + n
  BY <1>1 DEF ChunkIInv, ChunkInStep
<1>6. /\ rx'.got \in Nat /\ rx'.total \in Nat /\ rx'.inPlace \in BOOLEAN
      /\ rx' \in [got : Nat, total : Nat, inPlace : BOOLEAN]
  BY <1>2 DEF ChunkIInv, ChunkTypeOK
<1>7. ChunkTypeOK'
  BY <1>1, <1>3, <1>5, <1>6 DEF ChunkIInv, ChunkTypeOK
<1>8. ChunkInStep'
  BY <1>1, <1>3, <1>4, <1>5 DEF ChunkIInv, ChunkTypeOK, ChunkInStep, Owed
<1>9. (ChunkFits /\ ReadsInBounds)'
  BY <1>1, <1>3 DEF ChunkIInv, ChunkTypeOK, ChunkFits, ReadsInBounds, Owed
<1>10. Reassembled'
  BY <1>1, <1>3, <1>4, <1>5 DEF ChunkIInv, ChunkTypeOK, Reassembled, MessageDone, Owed
<1>11. AnnouncedLength'
  BY <1>1, <1>3 DEF ChunkIInv, ChunkTypeOK, ChunkInStep, AnnouncedLength, MessageDone, Owed
<1> QED
  BY <1>7, <1>8, <1>9, <1>10, <1>11 DEF ChunkIInv

\* A call that the transport serves emits a piece that is what it owes and moves on.
LEMMA ChunkIsOwed ==
  ASSUME ChunkIInv, active, NEW len \in Nat, len >= MIN_CHUNK_BUF_LEN,
         init_chunk(len) \/ multi_call_chunk(len) \/ continuation_chunk(len)
  PROVE  \E start \in Nat, n \in Nat, more \in BOOLEAN, place \in Nat, length \in Nat :
           /\ Owed(len, start, n, more, place, length)
           /\ Emit(len, start, n, more, place, length)
           /\ n > 0 \/ (read_offset = total_size /\ ~more)
<1> USE DEF crc16_len, MIN_CHUNK_BUF_LEN
<1> DEFINE Goal(start, n, more, place, length) ==
             /\ Owed(len, start, n, more, place, length)
             /\ Emit(len, start, n, more, place, length)
             /\ n > 0 \/ (read_offset = total_size /\ ~more)
<1>1. /\ total_size \in Nat /\ read_offset \in Nat /\ written \in Nat
      /\ enable_multi_call_chunk \in BOOLEAN
      /\ read_offset <= total_size
      /\ single_chunk_message_length = 3 + total_size
      /\ read_offset = 0 => written = 0
      /\ read_offset # 0 /\ enable_multi_call_chunk => written = 1 + read_offset
  BY DEF ChunkIInv, ChunkTypeOK, ChunkInStep
<1>2. CASE init_chunk(len)
  <2> DEFINE more == single_chunk_message_length > len
             v == VarintLen(total_size)
  <2>1. more \in BOOLEAN /\ v \in 1..5 /\ read_offset = 0
    BY <1>2, VarintLenType DEF init_chunk
  <2>2. CASE more /\ ~enable_multi_call_chunk
    <3>1. Emit(len, 1 + v, len - 1 - v, more, 0, total_size)
      BY <1>2, <2>2 DEF init_chunk
    <3> HIDE DEF v
    <3>2. Goal(1 + v, len - 1 - v, more, 0, total_size)
      BY <1>1, <2>1, <2>2, <3>1 DEF Owed
    <3>3. 1 + v \in Nat /\ len - 1 - v \in Nat
      BY <2>1
    <3> QED
      BY <1>1, <2>1, <3>2, <3>3
  <2>3. CASE enable_multi_call_chunk
    <3>1. Emit(len, 1, Least(len - 1, total_size), more, 0, 0)
      BY <1>2, <2>3 DEF init_chunk
    <3>2. Goal(1, Least(len - 1, total_size), more, 0, 0)
      BY <1>1, <2>1, <2>3, <3>1 DEF Owed, Least
    <3>3. Least(len - 1, total_size) \in Nat
      BY <1>1 DEF Least
    <3> QED
      BY <2>1, <3>2, <3>3
  <2>4. CASE ~more /\ ~enable_multi_call_chunk
    <3>1. Emit(len, 1, total_size, more, 0, 0)
      BY <1>2, <2>4 DEF init_chunk
    <3>2. Goal(1, total_size, more, 0, 0)
      BY <1>1, <2>1, <2>4, <3>1 DEF Owed
    <3> QED
      BY <1>1, <2>1, <3>2
  <2> QED
    BY <2>1, <2>2, <2>3, <2>4
<1>3. CASE multi_call_chunk(len)
  <2> DEFINE n == Least(len, total_size - read_offset)
             more == len - n < crc16_len
  <2>1. read_offset # 0 /\ enable_multi_call_chunk /\ Emit(len, 0, n, more, read_offset, 0)
    BY <1>3 DEF multi_call_chunk
  <2>2. Goal(0, n, more, read_offset, 0)
    BY <1>1, <2>1 DEF Owed, Least
  <2>3. n \in Nat /\ more \in BOOLEAN
    BY <1>1 DEF Least
  <2> QED
    BY <1>1, <2>2, <2>3
<1>4. CASE continuation_chunk(len)
  <2> DEFINE v == VarintLen(read_offset)
             space == len - 1 - v
             n == Least(space, total_size - read_offset)
             more == space - n < crc16_len
  <2>1. read_offset # 0 /\ ~enable_multi_call_chunk
        /\ Emit(len, 1 + v, n, more, read_offset, 0)
    BY <1>4 DEF continuation_chunk
  <2>2. v \in 1..5
    BY VarintLenType
  <2> HIDE DEF v
  <2>3. Goal(1 + v, n, more, read_offset, 0)
    BY <1>1, <2>1, <2>2 DEF Owed, Least
  <2>4. 1 + v \in Nat /\ n \in Nat /\ more \in BOOLEAN
    BY <1>1, <2>2 DEF Least
  <2> QED
    BY <1>1, <2>3, <2>4
<1> QED
  BY <1>2, <1>3, <1>4

LEMMA ChunkStarts == ChunkInit => ChunkIInv
<1> SUFFICES ASSUME ChunkInit PROVE ChunkIInv
  OBVIOUS
<1>1. ChunkTypeOK
  BY DEF ChunkInit, ChunkTypeOK, NoCall, NoMessage
<1>2. ~active /\ last = NoCall /\ read_offset = 0 /\ crc16_incremental = 0 /\ total_size = 0
  BY DEF ChunkInit
<1>3. ChunkInStep
  BY <1>2 DEF ChunkInStep
<1>4. ChunkFits /\ ReadsInBounds
  BY <1>2 DEF ChunkFits, ReadsInBounds, NoCall
<1>5. Reassembled /\ AnnouncedLength
  BY <1>2 DEF Reassembled, AnnouncedLength, MessageDone
<1> QED
  BY <1>1, <1>3, <1>4, <1>5 DEF ChunkIInv

LEMMA ChunkStep == ChunkIInv /\ [ChunkNext]_chunkvars => ChunkIInv'
<1> SUFFICES ASSUME ChunkIInv, [ChunkNext]_chunkvars PROVE ChunkIInv'
  OBVIOUS
<1>1. ASSUME NEW total \in 1..MaxTotal, NEW multi \in BOOLEAN, chunk_begin(total, multi) PROVE ChunkIInv'
  <2> total \in Nat
    BY BoundAssumption
  <2>1. rx' = rx /\ aborts' = aborts
    BY <1>1 DEF chunk_begin
  <2> QED
    BY <1>1, <2>1 DEF chunk_begin, ChunkIInv, ChunkTypeOK, ChunkInStep, ChunkFits, ReadsInBounds, Reassembled,
                      AnnouncedLength, MessageDone, NoCall
<1>2. ASSUME NEW len \in 0..MaxBufLen, get_next_chunk(len) PROVE ChunkIInv'
  <2> len \in Nat
    BY BoundAssumption
  <2>1. active /\ UNCHANGED <<ctx, aborts>>
    BY <1>2 DEF get_next_chunk
  <2>2. CASE /\ len < MIN_CHUNK_BUF_LEN
             /\ last' = [NoCall EXCEPT !.len = len, !.more = TRUE]
             /\ UNCHANGED <<active, read_offset, crc16_incremental, written, rx>>
    <3>1. /\ last' = [len |-> len, from |-> 0, n |-> 0, out |-> 0, crc |-> 0, more |-> TRUE]
          /\ active' /\ read_offset' = read_offset /\ rx' = rx /\ written' = written
          /\ crc16_incremental' = crc16_incremental /\ total_size' = total_size
          /\ single_chunk_message_length' = single_chunk_message_length
          /\ enable_multi_call_chunk' = enable_multi_call_chunk /\ aborts' = aborts
      BY <2>1, <2>2 DEF NoCall, ctx
    <3>2. (ChunkTypeOK /\ ChunkFits /\ ReadsInBounds)'
      BY <3>1 DEF ChunkIInv, ChunkTypeOK, ChunkFits, ReadsInBounds
    <3>3. (ChunkInStep /\ Reassembled /\ AnnouncedLength)'
      BY <2>1, <3>1 DEF ChunkIInv, ChunkInStep, Reassembled, AnnouncedLength, MessageDone
    <3> QED
      BY <3>2, <3>3 DEF ChunkIInv
  <2>3. CASE /\ len >= MIN_CHUNK_BUF_LEN
             /\ init_chunk(len) \/ multi_call_chunk(len) \/ continuation_chunk(len)
    <3>1. PICK start \in Nat, n \in Nat, more \in BOOLEAN, place \in Nat, length \in Nat :
            /\ Owed(len, start, n, more, place, length)
            /\ Emit(len, start, n, more, place, length)
      BY <2>1, <2>3, ChunkIsOwed
    <3> QED
      BY <2>1, <3>1, EmitStep
  <2> QED
    BY <1>2, <2>2, <2>3 DEF get_next_chunk
<1>3. CASE chunk_abort
  <2>1. /\ active' = FALSE /\ last' = NoCall /\ aborts' = aborts + 1
        /\ read_offset' = read_offset /\ rx' = rx /\ written' = written
        /\ crc16_incremental' = crc16_incremental /\ total_size' = total_size
        /\ single_chunk_message_length' = single_chunk_message_length
        /\ enable_multi_call_chunk' = enable_multi_call_chunk
    BY <1>3 DEF chunk_abort, ctx
  <2>2. last' \in [len : Nat, from : Nat, n : Nat, out : Nat, crc : Nat, more : BOOLEAN]
    BY <2>1 DEF NoCall
  <2>3. aborts' \in Nat
    BY <2>1 DEF ChunkIInv, ChunkTypeOK
  <2>4. ChunkTypeOK'
    BY <2>1, <2>2, <2>3 DEF ChunkIInv, ChunkTypeOK
  <2>5. (ChunkFits /\ ReadsInBounds)'
    BY <2>1 DEF ChunkIInv, ChunkTypeOK, NoCall, ChunkFits, ReadsInBounds
  <2>6. (ChunkInStep /\ Reassembled /\ AnnouncedLength)'
    BY <2>1 DEF ChunkIInv, ChunkInStep, Reassembled, AnnouncedLength, MessageDone
  <2> QED
    BY <2>4, <2>5, <2>6 DEF ChunkIInv
<1>4. CASE UNCHANGED chunkvars
  BY <1>4 DEF chunkvars, ctx, ChunkIInv, ChunkTypeOK, ChunkInStep, ChunkFits, ReadsInBounds, Reassembled,
              AnnouncedLength, MessageDone
<1> QED
  BY <1>1, <1>2, <1>3, <1>4 DEF ChunkNext

LEMMA ChunkInvariance == ChunkSpec => []ChunkIInv
  BY ChunkStarts, ChunkStep, PTL DEF ChunkSpec

\* memfault_chunk_transport_get_next_chunk never writes past the caller's buffer,
\* whatever lengths the calls for one message pass.
THEOREM NeverOverflows == ChunkSpec => []ChunkFits
  BY ChunkInvariance, PTL DEF ChunkIInv

\* It never asks the message's reader for data past total_size (chunk_transport.h).
THEOREM NeverReadsPastEnd == ChunkSpec => []ReadsInBounds
  BY ChunkInvariance, PTL DEF ChunkIInv

\* When it returns false, the chunks it produced put the message together again,
\* and the CRC it wrote covers the whole of it.
THEOREM MessageArrives == ChunkSpec => []Reassembled
  BY ChunkInvariance, PTL DEF ChunkIInv

\* A message sent as one chunk, over however many calls, takes the bytes
\* memfault_chunk_transport_get_chunk_info announced for it.
THEOREM LengthAsAnnounced == ChunkSpec => []AnnouncedLength
  BY ChunkInvariance, PTL DEF ChunkIInv

\* Every call with a buffer of at least MEMFAULT_MIN_CHUNK_BUF_LEN moves on in the
\* message or ends it: a caller that keeps asking is never stuck.
THEOREM CallsMakeProgress == ChunkSpec => Progress
<1>1. ASSUME ChunkIInv, NEW len \in MIN_CHUNK_BUF_LEN..MaxBufLen, get_next_chunk(len)
      PROVE  read_offset' > read_offset \/ (read_offset = total_size /\ ~active')
  <2> len \in Nat /\ len >= MIN_CHUNK_BUF_LEN
    BY BoundAssumption DEF MIN_CHUNK_BUF_LEN
  <2>0. active /\ ~(len < MIN_CHUNK_BUF_LEN)
    BY <1>1 DEF get_next_chunk, MIN_CHUNK_BUF_LEN
  <2>1. init_chunk(len) \/ multi_call_chunk(len) \/ continuation_chunk(len)
    BY <1>1, <2>0 DEF get_next_chunk
  <2>2. PICK start \in Nat, n \in Nat, more \in BOOLEAN, place \in Nat, length \in Nat :
          /\ Emit(len, start, n, more, place, length)
          /\ n > 0 \/ (read_offset = total_size /\ ~more)
    BY <1>1, <2>0, <2>1, ChunkIsOwed
  <2>3. read_offset' = read_offset + n /\ active' = more
    BY <2>2 DEF Emit
  <2>4. read_offset \in Nat
    BY <1>1 DEF ChunkIInv, ChunkTypeOK
  <2> QED
    BY <2>2, <2>3, <2>4
<1>2. ChunkIInv /\ [ChunkNext]_chunkvars =>
        [(\E len \in MIN_CHUNK_BUF_LEN..MaxBufLen : get_next_chunk(len)) =>
           \/ read_offset' > read_offset
           \/ read_offset = total_size /\ ~active']_chunkvars
  BY <1>1
<1> QED
  BY ChunkInvariance, <1>2, PTL DEF ChunkSpec, Progress

-------------------------------------------------------------------------------
(* The packetizer                                                               *)

Message == [id : 1..MaxMessages, size : Sizes]
Arrived == [id : 1..MaxMessages, parts : SUBSET Nat, whole : BOOLEAN]
Encoder == [source : {None, RleSource}, total_rle_size : Nat, curr_encoded_len : Nat]

Types ==
  /\ ChunkTypeOK
  /\ queue \in [Source -> Seq(Message)]
  /\ sent \in [Source -> Seq(Arrived)]
  /\ mask \subseteq Source
  /\ source \in Source \cup {None} /\ (active <=> source # None)
  /\ rle \in Encoder
  /\ parts \subseteq Nat
  /\ messages \in Nat /\ errors \in Nat

\* The chunk transport is inside the message, and the server with it.
InStep ==
  /\ read_offset <= total_size
  /\ active => single_chunk_message_length = 3 + total_size
  /\ active /\ read_offset # 0 => rx.inPlace /\ rx.got = read_offset

\* The size the encoder keeps is that of the message at the head of its source.
Current(r) ==
  r.total_rle_size # 0 => /\ r.source = RleSource /\ RleSource \in Source
                          /\ queue[RleSource] # <<>>
                          /\ r.total_rle_size = Encoded(Head(queue[RleSource]))

\* The encoder has handed out what the chunk transport has read of the message.
EncoderInStep ==
  /\ Current(rle)
  /\ ~active => rle.curr_encoded_len = 0
  /\ active /\ source = RleSource =>
       rle.curr_encoded_len = IF read_offset = 0 THEN 0 ELSE read_offset - hdr_size

\* What the server has of the message in progress is of that message.
PartsInStep ==
  active => LET id == Head(queue[source]).id
            IN /\ parts \subseteq BytesOf(id)
               /\ read_offset > hdr_size => id \in parts \/ errors > 0

Sending == Types /\ InStep /\ EncoderInStep /\ SizeIsCurrent /\ PartsInStep /\ Intact

\* get_chunk never works on a chunk that spans calls.
WholeChunks == /\ pc \in {"idle", "get_chunk"}
               /\ pc = "get_chunk" => active /\ ~enable_multi_call_chunk

IInv == Sending /\ WholeChunks

-------------------------------------------------------------------------------
(* The chunk transport, as the packetizer sees it                               *)

ChunkInv == ChunkTypeOK /\ InStep
Kept == UNCHANGED <<total_size, enable_multi_call_chunk, single_chunk_message_length, aborts>>

\* A piece of n bytes of the message, the last one exactly when the message ends.
Moved(n) ==
  /\ last'.from = read_offset /\ last'.n = n /\ last'.out > 0
  /\ read_offset' = read_offset + n
  /\ active' \in BOOLEAN
  /\ active' => read_offset' > 0 /\ read_offset' <= total_size
  /\ ~active' => read_offset' = total_size
  /\ rx'.inPlace /\ rx'.got = read_offset'

LEMMA EmitMoves ==
  ASSUME ChunkInv, active,
         NEW len \in Nat, NEW start \in Nat, NEW n \in Nat, NEW more \in BOOLEAN,
         NEW place \in Nat, NEW length \in Nat,
         place = read_offset,
         IF more THEN read_offset + n > 0 /\ read_offset + n <= total_size
                 ELSE read_offset + n = total_size,
         start + n + (IF more THEN 0 ELSE 2) > 0,
         Emit(len, start, n, more, place, length),
         Kept
  PROVE  ChunkInv' /\ Moved(n)
<1> USE DEF crc16_len
<1>1. /\ crc16_incremental' = IF read_offset = crc16_incremental THEN crc16_incremental + n
                                                                ELSE crc16_incremental
      /\ read_offset' = read_offset + n
      /\ written' = written + (start + n + (IF more THEN 0 ELSE 2))
      /\ active' = more
      /\ last' = [len |-> len, from |-> read_offset, n |-> n,
                  out |-> start + n + (IF more THEN 0 ELSE 2),
                  crc |-> IF more THEN 0 ELSE crc16_incremental', more |-> more]
  BY DEF Emit
<1>2. rx' = [got |-> (IF place = 0 THEN 0 ELSE rx.got) + n,
             inPlace |-> /\ place = 0 \/ rx.inPlace
                         /\ place = IF place = 0 THEN 0 ELSE rx.got
                         /\ read_offset = IF place = 0 THEN 0 ELSE rx.got,
             total |-> IF place = 0 THEN length ELSE rx.total]
  BY DEF Emit
<1>3. /\ total_size' = total_size /\ enable_multi_call_chunk' = enable_multi_call_chunk
      /\ single_chunk_message_length' = single_chunk_message_length /\ aborts' = aborts
  BY DEF Kept
<1>4. rx'.got = read_offset + n /\ rx'.inPlace
  BY <1>2 DEF ChunkInv, ChunkTypeOK, InStep
<1>5. rx' \in [got : Nat, total : Nat, inPlace : BOOLEAN]
  BY <1>2 DEF ChunkInv, ChunkTypeOK
<1>6. crc16_incremental' \in Nat
  BY <1>1 DEF ChunkInv, ChunkTypeOK
<1>7. ChunkTypeOK'
  BY <1>1, <1>3, <1>5, <1>6 DEF ChunkInv, ChunkTypeOK
<1>8. InStep'
  BY <1>1, <1>3, <1>4 DEF ChunkInv, ChunkTypeOK, InStep
<1>9. Moved(n)
  BY <1>1, <1>3, <1>4 DEF ChunkInv, ChunkTypeOK, Moved
<1> QED
  BY <1>7, <1>8, <1>9 DEF ChunkInv

\* A call of the chunk transport either finds the buffer too short and does nothing
\* or moves on in the message.
LEMMA NextChunk ==
  ASSUME ChunkInv, NEW len \in Nat, get_next_chunk(len)
  PROVE  /\ active /\ ChunkInv' /\ Kept
         /\ \/ last'.out = 0 /\ UNCHANGED <<active, read_offset, rx>>
            \/ \E n \in Nat : Moved(n)
<1> USE DEF crc16_len, MIN_CHUNK_BUF_LEN
<1> DEFINE Goal == ChunkInv' /\ \E n \in Nat : Moved(n)
<1>0. active /\ Kept
  BY DEF get_next_chunk, ctx, Kept
<1>1. /\ total_size \in Nat /\ read_offset \in Nat
      /\ enable_multi_call_chunk \in BOOLEAN
      /\ read_offset <= total_size
      /\ single_chunk_message_length = 3 + total_size
  BY <1>0 DEF ChunkInv, ChunkTypeOK, InStep
<1>2. CASE /\ len < 9
           /\ last' = [NoCall EXCEPT !.len = len, !.more = TRUE]
           /\ UNCHANGED <<active, read_offset, crc16_incremental, written, rx>>
  <2>1. last' = [len |-> len, from |-> 0, n |-> 0, out |-> 0, crc |-> 0, more |-> TRUE]
    BY <1>2 DEF NoCall
  <2>2. /\ active' = active /\ read_offset' = read_offset /\ rx' = rx /\ aborts' = aborts
        /\ crc16_incremental' = crc16_incremental /\ written' = written
        /\ total_size' = total_size /\ enable_multi_call_chunk' = enable_multi_call_chunk
        /\ single_chunk_message_length' = single_chunk_message_length
    BY <1>0, <1>2 DEF Kept
  <2>3. last' \in [len : Nat, from : Nat, n : Nat, out : Nat, crc : Nat, more : BOOLEAN]
    BY <2>1
  <2>4. ChunkInv'
    BY <2>2, <2>3 DEF ChunkInv, ChunkTypeOK, InStep
  <2>5. last'.out = 0
    BY <2>1
  <2> QED
    BY <1>0, <2>2, <2>4, <2>5
<1>3. CASE len >= 9 /\ init_chunk(len)
  <2> DEFINE more == single_chunk_message_length > len
             v == VarintLen(total_size)
  <2>1. more \in BOOLEAN /\ v \in 1..5 /\ read_offset = 0
    BY <1>3, VarintLenType DEF init_chunk
  <2>2. CASE more /\ ~enable_multi_call_chunk
    <3>1. Emit(len, 1 + v, len - 1 - v, more, 0, total_size)
      BY <1>3, <2>2 DEF init_chunk
    <3> HIDE DEF v
    <3> DEFINE n == len - 1 - v
    <3>2. 1 + v \in Nat /\ n \in Nat /\ n > 0 /\ n <= total_size
      BY <1>1, <1>3, <2>1, <2>2
    <3>3. Emit(len, 1 + v, n, TRUE, 0, total_size)
      BY <2>2, <3>1
    <3>4. /\ read_offset = 0 /\ read_offset + n > 0 /\ read_offset + n <= total_size
          /\ 1 + v + n + 0 > 0
      BY <2>1, <3>2
    <3> HIDE DEF n, more
    <3>5. Goal
      BY <1>0, <1>1, <3>2, <3>3, <3>4, EmitMoves
    <3> QED
      BY <1>0, <3>5
  <2>3. CASE enable_multi_call_chunk
    <3> DEFINE n == Least(len - 1, total_size)
    <3>1. Emit(len, 1, n, more, 0, 0)
      BY <1>3, <2>3 DEF init_chunk
    <3>2. /\ n \in Nat
          /\ IF more THEN read_offset + n > 0 /\ read_offset + n <= total_size
                     ELSE read_offset + n = total_size
      BY <1>1, <1>3, <2>1, <2>3 DEF Least
    <3>3. 1 + n + (IF more THEN 0 ELSE 2) > 0
      BY <3>2
    <3> HIDE DEF n, more
    <3>4. Goal
      BY <1>0, <1>1, <2>1, <3>1, <3>2, <3>3, EmitMoves
    <3> QED
      BY <1>0, <3>4
  <2>4. CASE ~more /\ ~enable_multi_call_chunk
    <3>1. Emit(len, 1, total_size, more, 0, 0)
      BY <1>3, <2>4 DEF init_chunk
    <3>2. Goal
      BY <1>0, <1>1, <2>1, <2>4, <3>1, EmitMoves
    <3> QED
      BY <1>0, <3>2
  <2> QED
    BY <2>1, <2>2, <2>3, <2>4
<1>4. CASE len >= 9 /\ multi_call_chunk(len)
  <2> DEFINE n == Least(len, total_size - read_offset)
             more == len - n < 2
  <2>1. read_offset # 0 /\ Emit(len, 0, n, more, read_offset, 0)
    BY <1>4 DEF multi_call_chunk
  <2>2. /\ n \in Nat /\ more \in BOOLEAN
        /\ IF more THEN read_offset + n > 0 /\ read_offset + n <= total_size
                   ELSE read_offset + n = total_size
        /\ n + (IF more THEN 0 ELSE 2) > 0
    BY <1>1, <1>4, <2>1 DEF Least
  <2> HIDE DEF n, more
  <2>3. Goal
    BY <1>0, <1>1, <2>1, <2>2, EmitMoves
  <2> QED
    BY <1>0, <2>3
<1>5. CASE len >= 9 /\ continuation_chunk(len)
  <2> DEFINE v == VarintLen(read_offset)
             space == len - 1 - v
             n == Least(space, total_size - read_offset)
             more == space - n < 2
  <2>1. read_offset # 0 /\ Emit(len, 1 + v, n, more, read_offset, 0)
    BY <1>5 DEF continuation_chunk
  <2>2. v \in 1..5
    BY VarintLenType
  <2> HIDE DEF v
  <2>3. /\ n \in Nat /\ more \in BOOLEAN /\ 1 + v \in Nat
        /\ IF more THEN read_offset + n > 0 /\ read_offset + n <= total_size
                   ELSE read_offset + n = total_size
    BY <1>1, <1>5, <2>1, <2>2 DEF Least
  <2>4. 1 + v + n + (IF more THEN 0 ELSE 2) > 0
    BY <2>2, <2>3
  <2> HIDE DEF n, more
  <2>5. Goal
    BY <1>0, <1>1, <2>1, <2>3, <2>4, EmitMoves
  <2> QED
    BY <1>0, <2>5
<1> QED
  BY <1>2, <1>3, <1>4, <1>5 DEF get_next_chunk

-------------------------------------------------------------------------------
(* The search for a source with data                                            *)

LEMMA MinIsLeast ==
  ASSUME NEW S \in SUBSET Nat, S # {}
  PROVE  Min(S) \in S /\ \A y \in S : Min(S) <= y
<1>1. PICK x \in S : \A y \in S : <<y, x>> \notin OpToRel(<, Nat)
  BY NatLessThanWellFounded, WFMin
<1>2. \A y \in S : ~(y < x)
  BY <1>1, Zenon DEF OpToRel
<1>3. \A y \in S : x <= y
  BY <1>2
<1> QED
  BY <1>3 DEF Min

LEMMA MessageSize ==
  ASSUME NEW m \in Message
  PROVE  /\ m.size \in 1..MaxTotal /\ m.size + hdr_size \in 2..MaxTotal
         /\ Encoded(m) \in 2..MaxTotal /\ Encoded(m) + hdr_size \in 3..MaxTotal
<1>1. m.size \in 1..(MaxTotal - 2)
  BY SizesAssumption DEF Message
<1> QED
  BY <1>1, SizesAssumption DEF Encoded, hdr_size

\* The encoder after a search is the one for its source's oldest message.
LEMMA SearchedEncoder ==
  ASSUME Types, EncoderInStep, ~active
  PROVE  /\ RleAfterSearch \in Encoder /\ RleAfterSearch.curr_encoded_len = 0
         /\ Current(RleAfterSearch)
         /\ RleSearched /\ queue[RleSource] # <<>> =>
              RleAfterSearch.total_rle_size = Encoded(Head(queue[RleSource]))
<1>1. rle \in Encoder /\ rle.curr_encoded_len = 0 /\ Current(rle)
  BY DEF Types, EncoderInStep
<1>2. CASE ~RleSearched
  BY <1>1, <1>2 DEF RleAfterSearch
<1>3. CASE RleSearched
  <2> DEFINE r == SetActive(RleSource)
  <2>0. RleSource \in Source
    BY <1>3, SourceAssumption DEF RleSearched, Source, ToSet
  <2>1. /\ r \in Encoder /\ r.source = RleSource /\ r.curr_encoded_len = 0
        /\ r.total_rle_size # 0 => r = rle
    BY <1>1 DEF SetActive, NoRle, Encoder
  <2>2. Current(r)
    BY <1>1, <2>1 DEF Current
  <2>3. RleAfterSearch = HasMoreRle(r)
    BY <1>3 DEF RleAfterSearch
  <2> HIDE DEF r
  <2>4. CASE queue[RleSource] # <<>> /\ r.total_rle_size = 0
    <3>1. Head(queue[RleSource]) \in Message
      BY <2>0, <2>4 DEF Types
    <3>2. Encoded(Head(queue[RleSource])) \in Nat
      BY <3>1, MessageSize
    <3>3. HasMoreRle(r) = [r EXCEPT !.total_rle_size = Encoded(Head(queue[RleSource]))]
      BY <2>4 DEF HasMoreRle
    <3> DEFINE q == HasMoreRle(r)
    <3>4. /\ q \in Encoder /\ q.source = RleSource /\ q.curr_encoded_len = 0
          /\ q.total_rle_size = Encoded(Head(queue[RleSource]))
      BY <2>1, <3>2, <3>3 DEF Encoder
    <3> QED
      BY <2>0, <2>3, <2>4, <3>4 DEF Current
  <2>5. CASE ~(queue[RleSource] # <<>> /\ r.total_rle_size = 0)
    <3>1. RleAfterSearch = r
      BY <2>3, <2>5 DEF HasMoreRle
    <3> QED
      BY <2>1, <2>2, <2>5, <3>1 DEF Current
  <2> QED
    BY <2>4, <2>5
<1> QED
  BY <1>2, <1>3

\* The source found is an enabled one with a message, and the encoder was searched
\* on the way if it is the encoded one.
LEMMA SourceFound ==
  ASSUME SourceWithData # None
  PROVE  /\ SourceWithData \in Source \cap mask /\ queue[SourceWithData] # <<>>
         /\ SourceWithData = RleSource => RleSearched
<1>1. WithData # {} /\ SourceWithData = Order[Min(WithData)]
  BY DEF SourceWithData
<1>2. DOMAIN Order \subseteq Nat
  BY SourceAssumption
<1>3. Min(WithData) \in WithData /\ \A j \in WithData : Min(WithData) <= j
  BY <1>1, <1>2, MinIsLeast DEF WithData
<1> QED
  BY <1>1, <1>3 DEF WithData, RleSearched, Source, ToSet

-------------------------------------------------------------------------------
(* The steps                                                                    *)

\* What was put together stays whole when only the count of errors grows.
LEMMA IntactStays ==
  ASSUME Types, Intact, sent' = sent, errors' \in Nat, errors' >= errors
  PROVE  Intact'
  BY DEF Types, Intact, BytesOf

LEMMA RecordKeeps ==
  ASSUME Sending, NEW s \in Source, record(s)
  PROVE  Sending'
<1>1. PICK n \in Sizes : queue' = [queue EXCEPT ![s] = Append(@, [id |-> messages', size |-> n])]
  BY DEF record
<1>2. /\ messages' = messages + 1 /\ messages' \in 1..MaxMessages
      /\ UNCHANGED <<chunkvars, mask, source, rle, parts, sent, pc, masks, errors>>
  BY SizesAssumption DEF record, Sending, Types
<1>3. /\ active' = active /\ read_offset' = read_offset /\ rx' = rx /\ aborts' = aborts
      /\ crc16_incremental' = crc16_incremental /\ written' = written /\ last' = last
      /\ total_size' = total_size /\ enable_multi_call_chunk' = enable_multi_call_chunk
      /\ single_chunk_message_length' = single_chunk_message_length
      /\ mask' = mask /\ source' = source /\ rle' = rle /\ parts' = parts
      /\ sent' = sent /\ errors' = errors
  BY <1>2 DEF chunkvars
<1> DEFINE m == [id |-> messages', size |-> n]
<1>4. m \in Message
  BY <1>2 DEF Message
<1>5. queue' \in [Source -> Seq(Message)]
  BY <1>1, <1>4 DEF Sending, Types
<1>6. \A t \in Source : queue[t] # <<>> =>
        queue'[t] # <<>> /\ Head(queue'[t]) = Head(queue[t])
  <2> SUFFICES ASSUME NEW t \in Source, queue[t] # <<>>
               PROVE  queue'[t] # <<>> /\ Head(queue'[t]) = Head(queue[t])
    OBVIOUS
  <2>1. queue[t] \in Seq(Message)
    BY DEF Sending, Types
  <2>2. queue'[t] = queue[t] \/ queue'[t] = Append(queue[t], m)
    BY <1>1 DEF Sending, Types
  <2> QED
    BY <1>4, <2>1, <2>2
<1>7. Types'
  BY <1>2, <1>3, <1>5 DEF Sending, Types, ChunkTypeOK
<1>8. InStep'
  BY <1>3 DEF Sending, InStep
<1>9. EncoderInStep'
  BY <1>3, <1>6 DEF Sending, EncoderInStep, Current
<1>10. active => source \in Source /\ queue[source] # <<>>
  BY DEF Sending, Types, SizeIsCurrent
<1>11. SizeIsCurrent'
  BY <1>3, <1>6, <1>10 DEF Sending, SizeIsCurrent
<1>12. PartsInStep'
  BY <1>3, <1>6, <1>10 DEF Sending, PartsInStep, BytesOf
<1>13. Intact'
  BY <1>3, IntactStays DEF Sending, Types
<1> QED
  BY <1>7, <1>8, <1>9, <1>11, <1>12, <1>13 DEF Sending

\* A search leaves everything but the encoder alone.
LEMMA SearchKeeps ==
  ASSUME Sending, UNCHANGED <<chunkvars, queue, mask, source, parts, sent, messages, errors>>,
         rle' = rle \/ (~active /\ rle' = RleAfterSearch)
  PROVE  Sending'
<1>1. /\ active' = active /\ read_offset' = read_offset /\ rx' = rx /\ aborts' = aborts
      /\ crc16_incremental' = crc16_incremental /\ written' = written /\ last' = last
      /\ total_size' = total_size /\ enable_multi_call_chunk' = enable_multi_call_chunk
      /\ single_chunk_message_length' = single_chunk_message_length
      /\ source' = source /\ parts' = parts /\ queue' = queue /\ mask' = mask
      /\ sent' = sent /\ messages' = messages /\ errors' = errors
  BY DEF chunkvars
<1>2. rle' \in Encoder /\ EncoderInStep'
  BY <1>1, SearchedEncoder DEF Sending, Types, EncoderInStep, Current
<1>3. Types'
  BY <1>1, <1>2 DEF Sending, Types, ChunkTypeOK
<1>4. InStep' /\ SizeIsCurrent' /\ PartsInStep' /\ Intact'
  BY <1>1 DEF Sending, InStep, SizeIsCurrent, PartsInStep, Intact, BytesOf
<1> QED
  BY <1>2, <1>3, <1>4 DEF Sending

\* Begin starts the message the search found, at the size it has now.
LEMMA BeginKeeps ==
  ASSUME Sending, NEW multi \in BOOLEAN, Begin(multi),
         UNCHANGED <<queue, mask, sent, messages, errors>>
  PROVE  /\ Sending'
         /\ active' => active \/ enable_multi_call_chunk' = multi
         /\ active => UNCHANGED <<active, enable_multi_call_chunk>>
         /\ \/ UNCHANGED chunkvars
            \/ \E total \in 1..MaxTotal : chunk_begin(total, multi)
<1>0. /\ queue' = queue /\ mask' = mask /\ sent' = sent /\ messages' = messages
      /\ errors' = errors
  OBVIOUS
<1>1. Intact'
  BY <1>0, IntactStays DEF Sending, Types
<1>2. CASE active /\ UNCHANGED <<chunkvars, source, rle, parts>>
  BY <1>2, SearchKeeps DEF chunkvars
<1>3. CASE ~active /\ rle' = RleAfterSearch /\ UNCHANGED <<chunkvars, source, parts>>
  BY <1>3, SearchKeeps DEF chunkvars
<1>4. CASE ~active /\ rle' = RleAfterSearch /\ load_next(multi)
  <2> DEFINE s == SourceWithData
             size == IF s = RleSource THEN RleAfterSearch.total_rle_size ELSE Head(queue[s]).size
  <2>1. /\ s # None /\ chunk_begin(size + hdr_size, multi) /\ source' = s /\ parts' = {}
    BY <1>4 DEF load_next
  <2>2. /\ s \in Source /\ s \in mask /\ queue[s] # <<>> /\ Head(queue[s]) \in Message
        /\ s = RleSource => RleSearched
    BY <2>1, SourceFound DEF Sending, Types
  <2>3. /\ rle' \in Encoder /\ rle'.curr_encoded_len = 0 /\ Current(rle')
        /\ s = RleSource => rle'.total_rle_size = Encoded(Head(queue[s]))
    BY <1>4, <2>2, SearchedEncoder DEF Sending
  <2>4. /\ size = IF s = RleSource THEN Encoded(Head(queue[s])) ELSE Head(queue[s]).size
        /\ size \in Nat /\ size + hdr_size \in 1..MaxTotal
    BY <1>4, <2>2, <2>3, MessageSize DEF hdr_size
  <2> HIDE DEF size
  <2>5. /\ active' = TRUE /\ total_size' = size + hdr_size /\ enable_multi_call_chunk' = multi
        /\ single_chunk_message_length' = 3 + total_size'
        /\ read_offset' = 0 /\ crc16_incremental' = 0 /\ written' = 0
        /\ last' = NoCall /\ rx' = rx /\ aborts' = aborts
    BY <2>1, <2>4 DEF chunk_begin, hdr_size
  <2>6. last' \in [len : Nat, from : Nat, n : Nat, out : Nat, crc : Nat, more : BOOLEAN]
    BY <2>5 DEF NoCall
  <2>7. total_size' \in Nat /\ single_chunk_message_length' \in Nat
    BY <2>4, <2>5 DEF hdr_size
  <2>8. ChunkTypeOK'
    BY <2>5, <2>6, <2>7 DEF Sending, Types, ChunkTypeOK
  <2>9. source' \in Source /\ source' # None
    BY <2>1, <2>2
  <2>10. Types'
    BY <1>0, <2>1, <2>3, <2>5, <2>8, <2>9 DEF Sending, Types
  <2>11. InStep'
    BY <2>5, <2>7 DEF InStep
  <2>12. EncoderInStep'
    BY <1>0, <2>3, <2>5 DEF EncoderInStep, Current
  <2>13. SizeIsCurrent'
    BY <1>0, <2>1, <2>2, <2>4, <2>5 DEF SizeIsCurrent, hdr_size
  <2>14. PartsInStep'
    BY <2>1, <2>5 DEF PartsInStep, hdr_size
  <2> QED
    BY <1>1, <1>4, <2>1, <2>4, <2>5, <2>10, <2>11, <2>12, <2>13, <2>14 DEF Sending
<1> QED
  BY <1>2, <1>3, <1>4 DEF Begin

LEMMA ResetKeeps ==
  ASSUME Sending, Reset, mask' \subseteq Source, UNCHANGED <<queue, sent, messages, errors>>
  PROVE  Sending' /\ ~active'
<1>1. source' = None /\ rle' = NoRle /\ parts' = {}
  BY DEF Reset
<1>2. /\ ~active' /\ active' \in BOOLEAN /\ aborts' \in Nat /\ rx' = rx
      /\ last' = last \/ last' = NoCall
      /\ crc16_incremental' = crc16_incremental /\ written' = written
      /\ read_offset' = read_offset /\ total_size' = total_size
      /\ enable_multi_call_chunk' = enable_multi_call_chunk
      /\ single_chunk_message_length' = single_chunk_message_length
  <2>1. active \in BOOLEAN /\ aborts \in Nat
    BY DEF Sending, Types, ChunkTypeOK
  <2>2. CASE chunk_abort
    <3>1. /\ aborts' = aborts + 1 /\ active' = FALSE /\ last' = NoCall
          /\ UNCHANGED <<ctx, read_offset, crc16_incremental, written, rx>>
      BY <2>2 DEF chunk_abort
    <3>2. ctx' = ctx
      BY <3>1
    <3>3. ~active' /\ active' \in BOOLEAN
      BY <3>1
    <3>4. aborts' \in Nat
      BY <2>1, <3>1
    <3>5. /\ rx' = rx /\ crc16_incremental' = crc16_incremental /\ written' = written
          /\ read_offset' = read_offset
      BY <3>1
    <3>6. /\ total_size' = total_size /\ enable_multi_call_chunk' = enable_multi_call_chunk
          /\ single_chunk_message_length' = single_chunk_message_length
      BY <3>2 DEF ctx
    <3> QED
      BY <3>1, <3>3, <3>4, <3>5, <3>6, Zenon
  <2>3. CASE ~active /\ UNCHANGED chunkvars
    BY <2>1, <2>3 DEF chunkvars
  <2>4. chunk_abort \/ (~active /\ UNCHANGED chunkvars)
    BY DEF Reset
  <2> QED
    BY <2>2, <2>3, <2>4, Zenon
<1>3. last' \in [len : Nat, from : Nat, n : Nat, out : Nat, crc : Nat, more : BOOLEAN]
  <2>1. NoCall \in [len : Nat, from : Nat, n : Nat, out : Nat, crc : Nat, more : BOOLEAN]
    BY DEF NoCall
  <2> QED
    BY <1>2, <2>1 DEF Sending, Types, ChunkTypeOK
<1>4. rle' \in Encoder /\ rle'.total_rle_size = 0 /\ rle'.curr_encoded_len = 0
  BY <1>1 DEF NoRle, Encoder
<1>5. Types'
  BY <1>1, <1>2, <1>3, <1>4 DEF Sending, Types, ChunkTypeOK
<1>6. InStep' /\ EncoderInStep' /\ SizeIsCurrent' /\ PartsInStep'
  BY <1>2, <1>4 DEF Sending, InStep, EncoderInStep, Current, SizeIsCurrent, PartsInStep
<1>7. Intact'
  BY IntactStays DEF Sending, Types
<1> QED
  BY <1>2, <1>5, <1>6, <1>7 DEF Sending

\* A call that hands out a buffer with n bytes of the message reads them of the
\* message at the head of its source, or puts filler in their place.
LEMMA ReadsTheMessage ==
  ASSUME Sending, active, NEW n \in Nat, Moved(n), NEW r \in Reads
  PROVE  /\ r.failed \in {0, 1}
         /\ r.origin \subseteq {Head(queue[source]).id} \cup (IF r.failed = 1 THEN {Scrub} ELSE {})
         /\ read_offset' > hdr_size =>
              \/ read_offset > hdr_size \/ r.failed = 1
              \/ Head(queue[source]).id \in r.origin
         /\ r.curr_encoded_len \in Nat
         /\ source = RleSource =>
              r.curr_encoded_len = IF read_offset' = 0 THEN 0 ELSE read_offset' - hdr_size
<1> DEFINE e == rle.curr_encoded_len
           id == Head(queue[source]).id
           end == IF source = RleSource THEN e + Piece.n ELSE e
<1>1. /\ last'.from = read_offset /\ last'.n = n /\ read_offset' = read_offset + n
      /\ read_offset \in Nat /\ e \in Nat
      /\ source = RleSource => e = IF read_offset = 0 THEN 0 ELSE read_offset - 1
  BY DEF Moved, Sending, Types, ChunkTypeOK, Encoder, EncoderInStep, hdr_size
<1>2. /\ Piece.n = IF read_offset = 0 /\ n > 0 THEN n - 1 ELSE n
      /\ Piece.offset = IF read_offset = 0 THEN 0 ELSE read_offset - 1
  BY <1>1 DEF Piece, hdr_size
<1>3. /\ Piece.n \in Nat /\ end \in Nat
      /\ source = RleSource => Piece.offset = e
      /\ source = RleSource => end = IF read_offset' = 0 THEN 0 ELSE read_offset' - 1
      /\ Piece.n = 0 /\ read_offset' > 1 => read_offset > 1
  BY <1>1, <1>2
<1>4. \/ Piece.n = 0 /\ r = ReadOf(e, {}, 0)
      \/ Piece.n # 0 /\ r = ReadOf(end, {id}, 0)
      \/ Piece.n # 0 /\ r = ReadOf(end, {Scrub}, 1)
  BY <1>3 DEF Reads
<1> HIDE DEF end, id, e
<1>5. CASE Piece.n = 0 /\ r = ReadOf(e, {}, 0)
  <2>1. r.failed = 0 /\ r.origin = {} /\ r.curr_encoded_len = e
    BY <1>5 DEF ReadOf
  <2>2. source = RleSource => e = IF read_offset' = 0 THEN 0 ELSE read_offset' - 1
    BY <1>1, <1>3, <1>5 DEF end
  <2> QED
    BY <1>1, <1>3, <1>5, <2>1, <2>2 DEF hdr_size
<1>6. CASE Piece.n # 0 /\ r = ReadOf(end, {id}, 0)
  <2>1. r.failed = 0 /\ r.origin = {id} /\ r.curr_encoded_len = end
    BY <1>6 DEF ReadOf
  <2> QED
    BY <1>3, <2>1 DEF hdr_size, id
<1>7. CASE Piece.n # 0 /\ r = ReadOf(end, {Scrub}, 1)
  <2>1. r.failed = 1 /\ r.origin = {Scrub} /\ r.curr_encoded_len = end
    BY <1>7 DEF ReadOf
  <2> QED
    BY <1>3, <2>1 DEF hdr_size, id
<1> QED
  BY <1>4, <1>5, <1>6, <1>7

\* What the server has once a buffer was filled: still one message, and something of
\* it, or of a failed read, as soon as more than the header was sent.
LEMMA PartsGrow ==
  ASSUME Sending, active, NEW n \in Nat, Moved(n), NEW r \in Reads,
         errors' = errors + r.failed
  PROVE  LET id == Head(queue[source]).id
             got == parts \cup r.origin
         IN /\ errors' \in Nat /\ errors' >= errors
            /\ got \subseteq {id} \cup (IF errors' > 0 THEN {Scrub} ELSE {})
            /\ read_offset' > hdr_size => id \in got \/ errors' > 0
<1> DEFINE id == Head(queue[source]).id
<1>1. /\ r.failed \in {0, 1}
      /\ r.origin \subseteq {id} \cup (IF r.failed = 1 THEN {Scrub} ELSE {})
      /\ read_offset' > hdr_size => read_offset > hdr_size \/ r.failed = 1 \/ id \in r.origin
  BY ReadsTheMessage
<1>2. /\ parts \subseteq {id} \cup (IF errors > 0 THEN {Scrub} ELSE {})
      /\ read_offset > hdr_size => id \in parts \/ errors > 0
      /\ errors \in Nat
  BY DEF Sending, Types, PartsInStep, BytesOf
<1> QED
  BY <1>1, <1>2 DEF BytesOf

\* A call that fills a buffer and has more to send.
LEMMA MoreKeeps ==
  ASSUME Sending, active, ChunkInv', Kept, NEW n \in Nat, Moved(n), active',
         NEW r \in Reads, Emitted(r, TRUE), UNCHANGED <<mask, messages>>
  PROVE  Sending'
<1>1. /\ errors' = errors + r.failed
      /\ rle' = [rle EXCEPT !.curr_encoded_len = r.curr_encoded_len]
      /\ parts' = parts \cup r.origin
      /\ UNCHANGED <<queue, source, sent>>
  BY DEF Emitted
<1>2. queue' = queue /\ source' = source /\ sent' = sent /\ mask' = mask /\ messages' = messages
      /\ total_size' = total_size
  BY <1>1 DEF Kept
<1> DEFINE id == Head(queue[source]).id
<1>3. /\ source \in Source /\ queue[source] # <<>> /\ queue[source] \in Seq(Message)
  BY DEF Sending, Types, SizeIsCurrent
<1>4. id \in Nat
  <2>1. Head(queue[source]) \in Message
    BY <1>3
  <2> QED
    BY <2>1, SizesAssumption DEF Message
<1>5. /\ errors' \in Nat /\ errors' >= errors
      /\ parts' \subseteq {id} \cup (IF errors' > 0 THEN {Scrub} ELSE {})
      /\ read_offset' > hdr_size => id \in parts' \/ errors' > 0
  BY <1>1, PartsGrow
<1>6. /\ r.curr_encoded_len \in Nat
      /\ source = RleSource =>
           r.curr_encoded_len = IF read_offset' = 0 THEN 0 ELSE read_offset' - hdr_size
  BY <1>1, ReadsTheMessage
<1>7. /\ rle' \in Encoder /\ rle'.curr_encoded_len = r.curr_encoded_len
      /\ rle'.source = rle.source /\ rle'.total_rle_size = rle.total_rle_size
  BY <1>1, <1>6 DEF Sending, Types, Encoder
<1>8. Types'
  <2>1. parts' \subseteq Nat
    BY <1>4, <1>5 DEF Scrub
  <2>2. source' \in Source \cup {None} /\ (active' <=> source' # None)
    BY <1>2 DEF Sending, Types
  <2> QED
    BY <1>2, <1>5, <1>7, <2>1, <2>2 DEF Sending, Types, ChunkInv
<1>9. EncoderInStep'
  BY <1>2, <1>6, <1>7 DEF Sending, EncoderInStep, Current
<1>10. SizeIsCurrent'
  BY <1>2 DEF Sending, SizeIsCurrent
<1>11. PartsInStep'
  BY <1>2, <1>5 DEF PartsInStep, BytesOf
<1>12. Intact'
  BY <1>2, <1>5, IntactStays DEF Sending
<1> QED
  BY <1>8, <1>9, <1>10, <1>11, <1>12 DEF Sending, ChunkInv

\* What a call that ends the message adds to what the server has, and to Outbox.
LEMMA LastPieceArrives ==
  ASSUME Sending, active, ChunkInv', Kept, NEW n \in Nat, Moved(n), ~active',
         NEW r \in Reads, Emitted(r, TRUE)
  PROVE  /\ source \in Source /\ source \in mask /\ queue[source] # <<>>
         /\ errors' \in Nat /\ errors' >= errors
         /\ source' = None /\ rle' = NoRle /\ parts' = {}
         /\ queue' = [queue EXCEPT ![source] = Tail(@)]
         /\ \E m \in Arrived :
              /\ sent' = [sent EXCEPT ![source] = Append(@, m)]
              /\ m.id = Head(queue[source]).id /\ m.whole
              /\ m.parts \subseteq {m.id} \cup (IF errors' > 0 THEN {Scrub} ELSE {})
              /\ m.id \in m.parts \/ errors' > 0
<1> DEFINE id == Head(queue[source]).id
           got == parts \cup r.origin
           m == [id |-> id, parts |-> got, whole |-> rx'.inPlace /\ rx'.got = total_size]
<1>1. /\ errors' = errors + r.failed
      /\ sent' = [sent EXCEPT ![source] = Append(@, m)]
      /\ source' = None /\ rle' = NoRle /\ parts' = {}
      /\ queue' = [queue EXCEPT ![source] = Tail(@)]
  BY DEF Emitted
<1>2. /\ source \in Source /\ source \in mask /\ queue[source] # <<>>
      /\ queue[source] \in Seq(Message)
  BY DEF Sending, Types, SizeIsCurrent
<1>3. Head(queue[source]) \in Message
  BY <1>2
<1>4. id \in 1..MaxMessages /\ id \in Nat
  BY <1>3, SizesAssumption DEF Message
<1>5. rx'.inPlace /\ rx'.got = total_size
  BY DEF Moved
<1>6. read_offset' > hdr_size
  <2>1. total_size > 1
    BY <1>3, MessageSize DEF Sending, SizeIsCurrent, hdr_size
  <2> QED
    BY <2>1 DEF Moved, hdr_size
<1>7. /\ errors' \in Nat /\ errors' >= errors
      /\ got \subseteq {id} \cup (IF errors' > 0 THEN {Scrub} ELSE {})
      /\ id \in got \/ errors' > 0
  BY <1>1, <1>6, PartsGrow
<1>8. got \in SUBSET Nat
  BY <1>4, <1>7 DEF Scrub
<1> HIDE DEF got, id
<1>9. m \in Arrived /\ m.id = id /\ m.whole /\ m.parts = got
  BY <1>4, <1>5, <1>8 DEF Arrived
<1> HIDE DEF m
<1> QED
  BY <1>1, <1>2, <1>7, <1>9 DEF id

LEMMA LastKeeps ==
  ASSUME Sending, active, ChunkInv', Kept, NEW n \in Nat, Moved(n), ~active',
         NEW r \in Reads, Emitted(r, TRUE), UNCHANGED <<mask, messages>>
  PROVE  Sending'
<1>1. /\ source \in Source /\ queue[source] # <<>>
      /\ errors' \in Nat /\ errors' >= errors
      /\ source' = None /\ rle' = NoRle /\ parts' = {}
      /\ queue' = [queue EXCEPT ![source] = Tail(@)]
  BY LastPieceArrives
<1>2. PICK m \in Arrived :
        /\ sent' = [sent EXCEPT ![source] = Append(@, m)]
        /\ m.whole /\ m.parts \subseteq {m.id} \cup (IF errors' > 0 THEN {Scrub} ELSE {})
        /\ m.id \in m.parts \/ errors' > 0
  BY LastPieceArrives
<1>3. /\ queue \in [Source -> Seq(Message)] /\ sent \in [Source -> Seq(Arrived)]
      /\ errors \in Nat
  BY DEF Sending, Types
<1>4. queue' \in [Source -> Seq(Message)] /\ sent' \in [Source -> Seq(Arrived)]
  BY <1>1, <1>2, <1>3
<1>5. rle' \in Encoder /\ rle'.total_rle_size = 0 /\ rle'.curr_encoded_len = 0
  BY <1>1 DEF NoRle, Encoder
<1>6. Types'
  BY <1>1, <1>4, <1>5 DEF Sending, Types, ChunkInv
<1>7. EncoderInStep' /\ SizeIsCurrent' /\ PartsInStep'
  BY <1>5 DEF EncoderInStep, Current, SizeIsCurrent, PartsInStep
<1>8. Intact'
  <2> SUFFICES ASSUME NEW s \in Source, NEW i \in DOMAIN sent'[s]
               PROVE  LET o == sent'[s][i]
                      IN /\ o.whole /\ (o.id \in o.parts \/ errors' > 0)
                         /\ o.parts \subseteq {o.id} \cup (IF errors' > 0 THEN {Scrub} ELSE {})
    BY DEF Intact, BytesOf
  <2>1. sent[s] \in Seq(Arrived)
    BY <1>3
  <2>2. \/ i \in DOMAIN sent[s] /\ sent'[s][i] = sent[s][i]
        \/ sent'[s][i] = m
    <3>1. CASE s = source
      <4>1. sent'[s] = Append(sent[s], m)
        BY <1>2, <1>3, <3>1
      <4> QED
        BY <2>1, <4>1
    <3>2. CASE s # source
      BY <1>2, <1>3, <3>2
    <3> QED
      BY <3>1, <3>2
  <2>3. CASE i \in DOMAIN sent[s] /\ sent'[s][i] = sent[s][i]
    BY <1>1, <1>3, <2>3 DEF Sending, Intact, BytesOf
  <2> QED
    BY <1>2, <2>2, <2>3
<1> QED
  BY <1>6, <1>7, <1>8 DEF Sending, ChunkInv

\* A call of get_next: nothing to send, a buffer too short, or one of the above.
LEMMA GetNextCases ==
  ASSUME Sending, NEW len \in BufLens, NEW call, GetNext(len, call),
         call = "get_chunk" => ~enable_multi_call_chunk
  PROVE  \/ UNCHANGED <<chunkvars, queue, source, rle, parts, sent, errors>>
         \/ /\ active /\ ChunkInv' /\ Kept /\ UNCHANGED <<active, read_offset, rx>>
            /\ UNCHANGED <<queue, source, rle, parts, sent, errors>>
         \/ /\ active /\ ChunkInv' /\ Kept
            /\ \E n \in Nat, r \in Reads : Moved(n) /\ Emitted(r, TRUE)
<1>1. CASE ~active /\ UNCHANGED <<chunkvars, queue, source, rle, parts, sent, errors>>
  BY <1>1
<1>2. CASE get_next_chunk(len) /\ last'.out > 0
  <2>1. len \in Nat /\ ChunkInv
    BY SizesAssumption DEF Sending, Types, ChunkInv
  <2>2. active /\ ChunkInv' /\ Kept /\ \E n \in Nat : Moved(n)
    BY <1>2, <2>1, NextChunk
  <2>3. \E r \in Reads :
          Emitted(r, /\ last'.out > 0
                     /\ call = "get_chunk" /\ active' => ~enable_multi_call_chunk)
    BY <1>2, <2>2 DEF GetNext
  <2>4. (/\ last'.out > 0
         /\ call = "get_chunk" /\ active' => ~enable_multi_call_chunk) = TRUE
    BY <1>2
  <2>5. \E r \in Reads : Emitted(r, TRUE)
    BY <2>3, <2>4
  <2> QED
    BY <2>2, <2>5
<1>3. CASE /\ get_next_chunk(len) /\ ~(last'.out > 0)
           /\ UNCHANGED <<queue, source, rle, parts, sent, errors>>
  <2>1. len \in Nat /\ ChunkInv
    BY SizesAssumption DEF Sending, Types, ChunkInv
  <2>2. /\ active /\ ChunkInv' /\ Kept
        /\ UNCHANGED <<active, read_offset, rx>> \/ \E n \in Nat : Moved(n)
    BY <2>1, <1>3, NextChunk
  <2>3. UNCHANGED <<active, read_offset, rx>>
    BY <1>3, <2>2 DEF Moved
  <2> QED
    BY <1>3, <2>2, <2>3
<1> QED
  BY <1>1, <1>2, <1>3 DEF GetNext

LEMMA GetNextKeeps ==
  ASSUME Sending, NEW len \in BufLens, NEW call, GetNext(len, call),
         call = "get_chunk" => ~enable_multi_call_chunk, UNCHANGED <<mask, messages>>
  PROVE  Sending'
<1>1. CASE UNCHANGED <<chunkvars, queue, source, rle, parts, sent, errors>>
  <2>1. /\ active' = active /\ read_offset' = read_offset /\ rx' = rx /\ aborts' = aborts
        /\ crc16_incremental' = crc16_incremental /\ written' = written /\ last' = last
        /\ total_size' = total_size /\ enable_multi_call_chunk' = enable_multi_call_chunk
        /\ single_chunk_message_length' = single_chunk_message_length
        /\ queue' = queue /\ source' = source /\ rle' = rle /\ parts' = parts
        /\ sent' = sent /\ errors' = errors
    BY <1>1 DEF chunkvars
  <2> QED
    BY <2>1 DEF Sending, Types, ChunkTypeOK, InStep, EncoderInStep, Current, SizeIsCurrent,
                PartsInStep, Intact, BytesOf
<1>2. CASE /\ active /\ ChunkInv' /\ Kept /\ UNCHANGED <<active, read_offset, rx>>
           /\ UNCHANGED <<queue, source, rle, parts, sent, errors>>
  <2>1. /\ active' = active /\ read_offset' = read_offset /\ total_size' = total_size
        /\ queue' = queue /\ source' = source /\ rle' = rle /\ parts' = parts
        /\ sent' = sent /\ errors' = errors
    BY <1>2 DEF Kept
  <2> QED
    BY <1>2, <2>1 DEF Sending, Types, ChunkInv, EncoderInStep, Current, SizeIsCurrent,
                      PartsInStep, Intact, BytesOf
<1>3. CASE /\ active /\ ChunkInv' /\ Kept
           /\ \E n \in Nat, r \in Reads : Moved(n) /\ Emitted(r, TRUE)
  BY <1>3, MoreKeeps, LastKeeps
<1> QED
  BY <1>1, <1>2, <1>3, GetNextCases

-------------------------------------------------------------------------------
(* The invariant                                                                *)

LEMMA InitIInv == Init => IInv
<1> SUFFICES ASSUME Init PROVE IInv
  OBVIOUS
<1>1. /\ active = FALSE /\ total_size = 0 /\ enable_multi_call_chunk = FALSE
      /\ single_chunk_message_length = 0 /\ read_offset = 0 /\ crc16_incremental = 0
      /\ last = NoCall /\ written = 0 /\ rx = NoMessage /\ aborts = 0
  BY DEF Init, ChunkInit
<1>2. /\ queue = [s \in Source |-> <<>>] /\ sent = [s \in Source |-> <<>>]
      /\ mask = Source /\ source = None /\ rle = NoRle /\ parts = {} /\ pc = "idle"
      /\ messages = 0 /\ errors = 0
  BY DEF Init
<1>3. ChunkTypeOK
  BY <1>1 DEF ChunkTypeOK, NoCall, NoMessage
<1>4. rle \in Encoder /\ rle.total_rle_size = 0 /\ rle.curr_encoded_len = 0
  BY <1>2 DEF NoRle, Encoder
<1>5. Types
  BY <1>1, <1>2, <1>3, <1>4, SourceAssumption DEF Types
<1>6. InStep /\ EncoderInStep /\ SizeIsCurrent /\ PartsInStep /\ WholeChunks
  BY <1>1, <1>2, <1>4 DEF InStep, EncoderInStep, Current, SizeIsCurrent, PartsInStep, WholeChunks
<1>7. Intact
  BY <1>2 DEF Intact
<1> QED
  BY <1>5, <1>6, <1>7 DEF IInv, Sending

LEMMA NextIInv == IInv /\ [Next]_vars => IInv'
<1> SUFFICES ASSUME IInv, [Next]_vars PROVE IInv'
  OBVIOUS
<1>0. Sending /\ WholeChunks
  BY DEF IInv
<1>1. ASSUME NEW s \in Source, record(s) PROVE IInv'
  <2>1. Sending'
    BY <1>0, <1>1, RecordKeeps
  <2>2. UNCHANGED <<active, enable_multi_call_chunk, pc>>
    BY <1>1 DEF record, chunkvars
  <2> QED
    BY <1>0, <2>1, <2>2 DEF IInv, WholeChunks
<1>2. ASSUME NEW multi \in BOOLEAN, begin(multi) PROVE IInv'
  <2>1. pc' = "idle"
    BY <1>2 DEF begin
  <2>2. Sending'
    BY <1>0, <1>2, BeginKeeps DEF begin
  <2> QED
    BY <2>1, <2>2 DEF IInv, WholeChunks
<1>3. ASSUME NEW len \in BufLens, get_next(len) PROVE IInv'
  <2>1. pc' = "idle"
    BY <1>3 DEF get_next
  <2>2. Sending'
    BY <1>0, <1>3, GetNextKeeps DEF get_next
  <2> QED
    BY <2>1, <2>2 DEF IInv, WholeChunks
<1>4. ASSUME NEW len \in BufLens, get_chunk_fill(len) PROVE IInv'
  <2>1. pc' = "idle"
    BY <1>4 DEF get_chunk_fill
  <2>2. Sending'
    BY <1>0, <1>4, GetNextKeeps DEF get_chunk_fill, WholeChunks
  <2> QED
    BY <2>1, <2>2 DEF IInv, WholeChunks
<1>5. CASE get_chunk
  <2>1. /\ Begin(FALSE) /\ ~(active /\ enable_multi_call_chunk)
        /\ pc' = IF active' THEN "get_chunk" ELSE "idle"
        /\ UNCHANGED <<queue, mask, sent, messages, errors>>
    BY <1>5 DEF get_chunk
  <2>2. /\ Sending'
        /\ active' => active \/ enable_multi_call_chunk' = FALSE
        /\ active => UNCHANGED <<active, enable_multi_call_chunk>>
    BY <1>0, <2>1, BeginKeeps
  <2> QED
    BY <2>1, <2>2 DEF IInv, WholeChunks
<1>6. CASE abort
  <2>1. pc' = "idle"
    BY <1>6 DEF abort
  <2>2. Sending'
    BY <1>0, <1>6, ResetKeeps DEF abort, Sending, Types
  <2> QED
    BY <2>1, <2>2 DEF IInv, WholeChunks
<1>7. ASSUME NEW m \in SUBSET Source, set_active_sources(m) PROVE IInv'
  <2>1. pc' = "idle"
    BY <1>7 DEF set_active_sources
  <2>2. Sending'
    BY <1>0, <1>7, ResetKeeps DEF set_active_sources
  <2> QED
    BY <2>1, <2>2 DEF IInv, WholeChunks
<1>8. CASE data_available
  <2>1. /\ pc' = "idle" /\ UNCHANGED <<chunkvars, queue, mask, source, parts, sent, messages, errors>>
        /\ rle' = rle \/ (~active /\ rle' = RleAfterSearch)
    BY <1>8 DEF data_available
  <2>2. Sending'
    BY <1>0, <2>1, SearchKeeps
  <2> QED
    BY <2>1, <2>2 DEF IInv, WholeChunks
<1>9. CASE UNCHANGED vars
  <2>1. /\ UNCHANGED <<chunkvars, queue, mask, source, parts, sent, messages, errors, pc>>
        /\ rle' = rle
    BY <1>9 DEF vars
  <2>2. Sending'
    BY <1>0, <2>1, SearchKeeps
  <2> QED
    BY <1>0, <2>1, <2>2 DEF IInv, WholeChunks, chunkvars
<1> QED
  BY <1>1, <1>2, <1>3, <1>4, <1>5, <1>6, <1>7, <1>8, <1>9 DEF Next

LEMMA Invariance == Spec => []IInv
  BY InitIInv, NextIInv, PTL DEF Spec

\* The message memfault_data_packetizer.c is sending is the one its source has now,
\* at its size: no size or source it keeps outlives an abort, a change of the active
\* sources or the message before, whatever the sources, sizes and calls.
THEOREM SendsTheCurrentMessage == Spec => []SizeIsCurrent
  BY Invariance, PTL DEF IInv, Sending

\* What the server has put together is one message from its first byte to its last,
\* encoded or not, but for filler where a read failed.
THEOREM MessagesStayWhole == Spec => []Intact
  BY Invariance, PTL DEF IInv, Sending

-------------------------------------------------------------------------------
(* The packetizer drives the chunk transport by its rules                       *)

LEMMA BeginIsChunk ==
  ASSUME Sending, NEW multi \in BOOLEAN, Begin(multi),
         UNCHANGED <<queue, mask, sent, messages, errors>>
  PROVE  [ChunkNext]_chunkvars
<1>1. UNCHANGED chunkvars \/ \E total \in 1..MaxTotal : chunk_begin(total, multi)
  BY BeginKeeps
<1> QED
  BY <1>1 DEF ChunkNext, chunkvars, ctx, chunkvars

LEMMA GetNextIsChunk ==
  ASSUME NEW len \in BufLens, NEW call, GetNext(len, call)
  PROVE  [ChunkNext]_chunkvars
<1>1. UNCHANGED chunkvars \/ get_next_chunk(len)
  BY DEF GetNext
<1>2. len \in 0..MaxBufLen
  BY SizesAssumption
<1> QED
  BY <1>1, <1>2 DEF ChunkNext, chunkvars, ctx, chunkvars

LEMMA ResetIsChunk == ASSUME Reset PROVE [ChunkNext]_chunkvars
  BY DEF Reset, ChunkNext, chunkvars, ctx, chunkvars

LEMMA StaysIsChunk == ASSUME UNCHANGED chunkvars PROVE UNCHANGED chunkvars
  BY DEF chunkvars, ctx, chunkvars

\* Every message goes through the chunk transport by its own steps (a message within
\* its bounds, begun when none is active), so what is proved of it above holds of it here.
THEOREM SendsByChunks == Spec => ChunkSpec
<1>1. Init => ChunkInit
  BY DEF Init
<1>2. ASSUME IInv, [Next]_vars PROVE [ChunkNext]_chunkvars
  <2>0. Sending
    BY <1>2 DEF IInv
  <2>1. ASSUME NEW s \in Source, record(s) PROVE UNCHANGED chunkvars
    BY <2>1, StaysIsChunk DEF record
  <2>2. ASSUME NEW multi \in BOOLEAN, begin(multi) PROVE [ChunkNext]_chunkvars
    BY <2>0, <2>2, BeginIsChunk DEF begin
  <2>3. ASSUME NEW len \in BufLens, get_next(len) \/ get_chunk_fill(len)
        PROVE  [ChunkNext]_chunkvars
    BY <2>3, GetNextIsChunk DEF get_next, get_chunk_fill
  <2>4. CASE get_chunk
    BY <2>0, <2>4, BeginIsChunk DEF get_chunk
  <2>5. CASE abort \/ \E m \in SUBSET Source : set_active_sources(m)
    BY <2>5, ResetIsChunk DEF abort, set_active_sources
  <2>6. CASE data_available \/ UNCHANGED vars
    BY <2>6, StaysIsChunk DEF data_available, vars
  <2> QED
    BY <1>2, <2>1, <2>2, <2>3, <2>4, <2>5, <2>6 DEF Next
<1> QED
  BY <1>1, <1>2, Invariance, PTL DEF Spec, ChunkSpec

\* So every chunk the packetizer hands out fits its buffer and stays in its message, and
\* what it says is complete was put together by the server (memfault_packetizer_get_next).
THEOREM ChunksOfThePacketizer ==
  Spec => [](ChunkFits /\ ReadsInBounds /\ Reassembled /\ AnnouncedLength)
  BY SendsByChunks, NeverOverflows, NeverReadsPastEnd, MessageArrives, LengthAsAnnounced, PTL

-------------------------------------------------------------------------------
(* The packetizer implements Outbox                                             *)

LEMMA IdsAppend ==
  ASSUME NEW q \in Seq(Message), NEW m \in Message
  PROVE  Ids(Append(q, m)) = Append(Ids(q), m.id)
  BY DEF Ids

LEMMA IdsTail ==
  ASSUME NEW q \in Seq(Message), q # <<>>
  PROVE  /\ Ids(q) # <<>> /\ Head(Ids(q)) = Head(q).id
         /\ Ids(Tail(q)) = Tail(Ids(q))
  BY DEF Ids

LEMMA DeliveredAppend ==
  ASSUME NEW s \in Seq(Arrived), NEW m \in Arrived
  PROVE  Delivered(Append(s, m)) = Append(Delivered(s), IdOf(m))
  BY DEF Delivered

boxQueue == [s \in Source |-> Ids(queue[s])]
boxSent == [s \in Source |-> Delivered(sent[s])]

LEMMA StepOfBox ==
  ASSUME UNCHANGED <<queue, sent>>, mask' = mask \/ mask' \in SUBSET Source
  PROVE  [Box!Next]_<<boxQueue, boxSent, mask>>
<1>1. boxQueue' = boxQueue /\ boxSent' = boxSent
  BY DEF boxQueue, boxSent
<1>2. CASE mask' = mask
  BY <1>1, <1>2
<1>3. CASE mask' \in SUBSET Source
  <2>1. Box!Enable(mask')
    BY <1>1 DEF Box!Enable, boxQueue, boxSent
  <2> QED
    BY <1>3, <2>1 DEF Box!Next
<1> QED
  BY <1>2, <1>3

LEMMA RecordIsBox ==
  ASSUME Sending, NEW s \in Source, record(s)
  PROVE  Box!Next
<1>1. PICK n \in Sizes : queue' = [queue EXCEPT ![s] = Append(@, [id |-> messages', size |-> n])]
  BY DEF record
<1>2. messages' \in 1..MaxMessages /\ sent' = sent /\ mask' = mask
  BY SizesAssumption DEF record, Sending, Types
<1> DEFINE m == [id |-> messages', size |-> n]
<1>3. m \in Message /\ m.id = messages'
  BY <1>2 DEF Message
<1>4. queue \in [Source -> Seq(Message)]
  BY DEF Sending, Types
<1>5. boxQueue' = [boxQueue EXCEPT ![s] = Append(@, messages')]
  <2>1. \A t \in Source : queue'[t] = IF t = s THEN Append(queue[t], m) ELSE queue[t]
    BY <1>1, <1>4
  <2> HIDE DEF m
  <2>2. \A t \in Source :
          Ids(queue'[t]) = IF t = s THEN Append(Ids(queue[t]), messages') ELSE Ids(queue[t])
    BY <1>3, <1>4, <2>1, IdsAppend
  <2> QED
    BY <2>2 DEF boxQueue
<1>6. boxSent' = boxSent
  BY <1>2 DEF boxSent
<1>7. Box!Record(s, messages')
  BY <1>2, <1>5, <1>6 DEF Box!Record, boxQueue, boxSent
<1> QED
  BY <1>2, <1>7 DEF Box!Next

LEMMA SendIsBox ==
  ASSUME Sending, active, ChunkInv', Kept, NEW n \in Nat, Moved(n), ~active',
         NEW r \in Reads, Emitted(r, TRUE), mask' = mask
  PROVE  Box!Next
<1>1. /\ source \in Source /\ source \in mask /\ queue[source] # <<>>
      /\ queue' = [queue EXCEPT ![source] = Tail(@)]
  BY LastPieceArrives
<1>2. PICK m \in Arrived :
        /\ sent' = [sent EXCEPT ![source] = Append(@, m)]
        /\ m.id = Head(queue[source]).id /\ m.whole
        /\ m.parts \subseteq {m.id} \cup (IF errors' > 0 THEN {Scrub} ELSE {})
  BY LastPieceArrives
<1>3. queue \in [Source -> Seq(Message)] /\ sent \in [Source -> Seq(Arrived)]
  BY DEF Sending, Types
<1>4. IdOf(m) = Head(queue[source]).id
  BY <1>2 DEF IdOf
<1>5. boxQueue' = [boxQueue EXCEPT ![source] = Tail(@)]
  <2>1. \A t \in Source : queue'[t] = IF t = source THEN Tail(queue[t]) ELSE queue[t]
    BY <1>1, <1>3
  <2>2. \A t \in Source :
          Ids(queue'[t]) = IF t = source THEN Tail(Ids(queue[t])) ELSE Ids(queue[t])
    BY <1>1, <1>3, <2>1, IdsTail
  <2> QED
    BY <2>2 DEF boxQueue
<1>6. boxSent' = [boxSent EXCEPT ![source] = Append(@, Head(boxQueue[source]))]
  <2>1. \A t \in Source : sent'[t] = IF t = source THEN Append(sent[t], m) ELSE sent[t]
    BY <1>2, <1>3
  <2>2. \A t \in Source :
          Delivered(sent'[t]) = IF t = source THEN Append(Delivered(sent[t]), IdOf(m))
                                              ELSE Delivered(sent[t])
    BY <1>3, <2>1, DeliveredAppend
  <2>3. Head(boxQueue[source]) = IdOf(m)
    BY <1>1, <1>3, <1>4, IdsTail DEF boxQueue
  <2> QED
    BY <2>2, <2>3 DEF boxSent
<1>7. boxQueue[source] # <<>>
  BY <1>1, <1>3, IdsTail DEF boxQueue
<1>8. Box!Send(source)
  BY <1>1, <1>5, <1>6, <1>7 DEF Box!Send, boxQueue, boxSent
<1> QED
  BY <1>1, <1>8 DEF Box!Next

LEMMA GetNextIsBox ==
  ASSUME Sending, NEW len \in BufLens, NEW call, GetNext(len, call),
         call = "get_chunk" => ~enable_multi_call_chunk, mask' = mask
  PROVE  [Box!Next]_<<boxQueue, boxSent, mask>>
<1>1. CASE UNCHANGED <<queue, sent>>
  BY <1>1, StepOfBox
<1>2. CASE /\ active /\ ChunkInv' /\ Kept
           /\ \E n \in Nat, r \in Reads : Moved(n) /\ Emitted(r, TRUE)
  <2>1. PICK n \in Nat, r \in Reads : Moved(n) /\ Emitted(r, TRUE)
    BY <1>2
  <2>2. CASE active'
    <3>1. UNCHANGED <<queue, sent>>
      BY <2>1, <2>2 DEF Emitted
    <3> QED
      BY <3>1, StepOfBox
  <2>3. CASE ~active'
    BY <1>2, <2>1, <2>3, SendIsBox
  <2> QED
    BY <2>2, <2>3
<1> QED
  BY <1>1, <1>2, GetNextCases

\* Each source's messages reach the server whole, once, in the order they were
\* recorded in and only while their source is enabled, whatever is aborted, masked,
\* recorded or searched for in between (memfault_data_packetizer.c implements Outbox).
THEOREM ImplementsOutbox == Spec => DeliveredOnceInOrder
<1>1. Init => Box!Init
  <2> SUFFICES ASSUME Init PROVE Box!Init
    OBVIOUS
  <2>1. /\ queue = [s \in Source |-> <<>>] /\ sent = [s \in Source |-> <<>>] /\ mask = Source
    BY DEF Init
  <2>2. Ids(<<>>) = <<>> /\ Delivered(<<>>) = <<>>
    BY DEF Ids, Delivered
  <2> QED
    BY <2>1, <2>2 DEF Box!Init
<1>2. ASSUME IInv, [Next]_vars PROVE [Box!Next]_<<boxQueue, boxSent, mask>>
  <2>0. Sending /\ WholeChunks
    BY <1>2 DEF IInv
  <2>1. ASSUME NEW s \in Source, record(s) PROVE Box!Next
    BY <2>0, <2>1, RecordIsBox
  <2>2. ASSUME NEW len \in BufLens, get_next(len) PROVE [Box!Next]_<<boxQueue, boxSent, mask>>
    BY <2>0, <2>2, GetNextIsBox DEF get_next
  <2>3. ASSUME NEW len \in BufLens, get_chunk_fill(len)
        PROVE  [Box!Next]_<<boxQueue, boxSent, mask>>
    BY <2>0, <2>3, GetNextIsBox DEF get_chunk_fill, WholeChunks
  <2>4. CASE \/ \E multi \in BOOLEAN : begin(multi)
             \/ get_chunk \/ abort \/ data_available \/ UNCHANGED vars
    <3>1. UNCHANGED <<queue, sent>> /\ mask' = mask
      BY <2>4 DEF begin, get_chunk, abort, data_available, vars
    <3> QED
      BY <3>1, StepOfBox
  <2>5. ASSUME NEW m \in SUBSET Source, set_active_sources(m)
        PROVE  [Box!Next]_<<boxQueue, boxSent, mask>>
    BY <2>5, StepOfBox DEF set_active_sources
  <2> QED
    BY <1>2, <2>1, <2>2, <2>3, <2>4, <2>5 DEF Next
<1>3. [Box!Next]_<<boxQueue, boxSent, mask>>
        <=> [Box!Next]_<<[s \in Source |-> Ids(queue[s])],
                         [s \in Source |-> Delivered(sent[s])], mask>>
  BY DEF boxQueue, boxSent
<1> QED
  BY <1>1, <1>2, <1>3, Invariance, PTL DEF Spec, DeliveredOnceInOrder, Box!Spec
===============================================================================

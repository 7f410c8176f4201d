------------------------------ MODULE Packetizer ------------------------------
(* components/core/src/memfault_data_packetizer.c over ChunkTransport: messages  *)
(* of several data sources are sent one at a time, cut into chunks, and deleted  *)
(* at their source when the last chunk was handed out.  One source goes through  *)
(* the run-length encoder of memfault_data_source_rle.c, which keeps the source  *)
(* it encodes, the encoded size it has computed and how much it has handed out.  *)
(* The API is called from one thread, in any order; the caller sends every       *)
(* buffer it is told was filled.                                                 *)
EXTENDS ChunkTransport, Sequences, SequencesExt, FiniteSetsExt

CONSTANTS
  Order,       \* s_memfault_data_source: the sources, first served first
  RleSource,   \* the one with use_rle (None: the encoder is compiled out)
  None,
  Sizes,       \* bound: sizes of messages
  BufLens,     \* bound: lengths of the buffers callers pass
  MaxMessages, \* bound: messages recorded
  MaxMasks,    \* bound: calls of set_active_sources
  MaxErrors    \* bound: reads of a source that fail

Source == ToSet(Order)

ASSUME SourceAssumption == /\ Order \in Seq(Source) /\ IsInjective(Order)
                           /\ RleSource \in Source \cup {None}
                           /\ None \notin Source
ASSUME SizesAssumption == /\ MaxTotal \in Nat /\ MaxBufLen \in Nat /\ MaxMessages \in Nat
                          /\ Sizes \subseteq 1..(MaxTotal - 2) /\ BufLens \subseteq 0..MaxBufLen

VARIABLES
  queue,   \* queue[s]: messages of s not deleted, oldest first
  mask,    \* s_active_data_sources
  source,  \* msg_metadata.source of the message being sent
  rle,     \* s_active_data_source and s_ds_rle_state
  parts,   \* where the bytes the server has of the message came from
  sent,    \* sent[s]: what the server has put together of s, oldest first
  pc,      \* "idle", or "get_chunk" between its begin and its get_next
  messages, masks, errors \* so far

hdr_size == 1  \* sizeof(sMfltPacketizerHdr)

vars == <<chunkvars, queue, mask, source, rle, parts, sent, pc, messages,
          masks, errors>>

NoRle == [source |-> None, total_rle_size |-> 0, curr_encoded_len |-> 0]
Encoded(m) == m.size + 1   \* a size of its own; RleEncoder.tla has the encoding
Scrub == 0                 \* 0xEF filler of a failed read
Missing == MaxMessages + 1 \* a filled buffer the caller was told to ignore

Init ==
  /\ ChunkInit
  /\ queue = [s \in Source |-> <<>>]
  /\ mask = Source
  /\ source = None
  /\ rle = NoRle
  /\ parts = {} /\ sent = [s \in Source |-> <<>>]
  /\ pc = "idle"
  /\ messages = 0 /\ masks = 0 /\ errors = 0

\* A component records data: a coredump, an event, a log collection, a CDR.
record(s) ==
  /\ messages < MaxMessages
  /\ messages' = messages + 1
  /\ \E n \in Sizes : queue' = [queue EXCEPT ![s] = Append(@, [id |-> messages', size |-> n])]
  /\ UNCHANGED <<chunkvars, mask, source, rle, parts, sent, pc, masks, errors>>

\* memfault_data_source_rle_encoder_set_active: a no-op for the source it has.
SetActive(s) == IF rle.source = s THEN rle ELSE [NoRle EXCEPT !.source = s]

\* memfault_data_source_rle_has_more_msgs: the size is computed once.
HasMoreRle(r) == IF queue[RleSource] # <<>> /\ r.total_rle_size = 0
                   THEN [r EXCEPT !.total_rle_size = Encoded(Head(queue[RleSource]))]
                   ELSE r

\* Mutant: the mask of active sources is not looked at.
MutWithDataAny == {i \in DOMAIN Order : queue[Order[i]] # <<>>}

\* prv_get_source_with_data: the first enabled source with a message, and the
\* encoder as the search leaves it.
WithData == {i \in DOMAIN Order : Order[i] \in mask /\ queue[Order[i]] # <<>>}
\* Mutant: the search stops at the first enabled source.
MutSourceWithDataFirst ==
  LET enabled == {i \in DOMAIN Order : Order[i] \in mask}
  IN IF enabled # {} /\ Min(enabled) \in WithData THEN Order[Min(enabled)] ELSE None

SourceWithData == IF WithData = {} THEN None ELSE Order[Min(WithData)]
RleSearched ==
  \E i \in DOMAIN Order : /\ Order[i] = RleSource /\ RleSource \in mask
                          /\ \A j \in WithData : i <= j
RleAfterSearch == IF RleSearched THEN HasMoreRle(SetActive(RleSource)) ELSE rle

\* prv_load_next_message_to_send
load_next(multi) ==
  LET s == SourceWithData
      size == IF s = RleSource THEN RleAfterSearch.total_rle_size ELSE Head(queue[s]).size
  IN /\ s # None
     /\ chunk_begin(size + hdr_size, multi)
     /\ source' = s
     /\ parts' = {}

\* memfault_packetizer_begin: a message in progress goes on as it was begun.
Begin(multi) ==
  \/ active /\ UNCHANGED <<chunkvars, source, rle, parts>>
  \/ /\ ~active
     /\ rle' = RleAfterSearch
     /\ \/ load_next(multi)
        \/ SourceWithData = None /\ UNCHANGED <<chunkvars, source, parts>>

begin(multi) ==
  /\ pc = "idle"
  /\ Begin(multi)
  /\ UNCHANGED <<queue, mask, sent, pc, messages, masks, errors>>

\* prv_data_source_chunk_transport_msg_reader for the piece the chunk transport
\* asks for: the header first, then the source, or the encoder, which refuses any
\* offset but the next one.  A failed read leaves filler, and sending goes on (a
\* read that fails under the encoder is not even noticed).
Piece == [offset |-> IF last'.from = 0 THEN 0 ELSE last'.from - hdr_size,
          n |-> IF last'.from = 0 /\ last'.n > 0 THEN last'.n - hdr_size ELSE last'.n]
ReadOf(e, origin, failed) == [curr_encoded_len |-> e, origin |-> origin, failed |-> failed]
Reads ==
  LET e == rle.curr_encoded_len
      end == IF source = RleSource THEN e + Piece.n ELSE e
  IN IF Piece.n = 0 THEN {ReadOf(e, {}, 0)}
     ELSE IF source = RleSource /\ Piece.offset # e THEN {ReadOf(e, {Scrub}, 0)}
     ELSE {ReadOf(end, {Head(queue[source]).id}, 0)}
            \cup (IF errors < MaxErrors THEN {ReadOf(end, {Scrub}, 1)} ELSE {})

\* The rest of a call of get_next that had a message: the server gets the buffer
\* if the caller takes it.  After the last chunk the source deletes its message
\* (prv_mark_message_send_complete_and_cleanup).
Emitted(r, taken) ==
  LET got == parts \cup IF taken THEN r.origin ELSE {Missing}
  IN /\ errors' = errors + r.failed
     /\ \/ /\ active'
           /\ rle' = [rle EXCEPT !.curr_encoded_len = r.curr_encoded_len]
           /\ parts' = got
           /\ UNCHANGED <<queue, source, sent>>
        \/ /\ ~active'
           /\ sent' = [sent EXCEPT ![source] =
                        Append(@, [id |-> Head(queue[source]).id, parts |-> got,
                                   whole |-> rx'.inPlace /\ rx'.got = total_size])]
           /\ queue' = [queue EXCEPT ![source] = Tail(@)]
           /\ source' = None
           /\ rle' = NoRle
           /\ parts' = {}

GetNext(len, call) ==
  \/ /\ ~active
     /\ UNCHANGED <<chunkvars, queue, source, rle, parts, sent, errors>>
  \/ /\ get_next_chunk(len)
     /\ LET filled == last'.out > 0
            ok == /\ filled
                  /\ call = "get_chunk" /\ active' => ~enable_multi_call_chunk
        IN \/ ~filled /\ UNCHANGED <<queue, source, rle, parts, sent, errors>>
           \/ filled /\ \E r \in Reads : Emitted(r, ok)

get_next(len) ==
  /\ pc = "idle"
  /\ GetNext(len, "get_next")
  /\ UNCHANGED <<mask, pc, messages, masks>>

\* memfault_packetizer_get_chunk: begin, then one buffer.  Callers do not mix it with
\* begin and get_next in the middle of a multi-packet chunk.
get_chunk ==
  /\ pc = "idle"
  /\ ~(active /\ enable_multi_call_chunk)
  /\ Begin(FALSE)
  /\ pc' = IF active' THEN "get_chunk" ELSE "idle"
  /\ UNCHANGED <<queue, mask, sent, messages, masks, errors>>

get_chunk_fill(len) ==
  /\ pc = "get_chunk"
  /\ pc' = "idle"
  /\ GetNext(len, "get_chunk")
  /\ UNCHANGED <<mask, messages, masks>>

\* Mutant: the encoder is not reset with the packetizer.
MutResetKeepsRle ==
  /\ \/ chunk_abort
     \/ ~active /\ UNCHANGED chunkvars
  /\ source' = None
  /\ parts' = {}
  /\ UNCHANGED rle

\* prv_reset_packetizer_state
Reset ==
  /\ \/ chunk_abort
     \/ ~active /\ UNCHANGED chunkvars
  /\ source' = None
  /\ rle' = NoRle
  /\ parts' = {}

abort ==
  /\ pc = "idle"
  /\ Reset
  /\ UNCHANGED <<queue, mask, sent, pc, messages, masks, errors>>

\* Mutant: the message in progress is not aborted.
mut_set_active_sources_no_abort(m) ==
  /\ pc = "idle"
  /\ masks < MaxMasks
  /\ masks' = masks + 1
  /\ mask' = m
  /\ UNCHANGED <<chunkvars, source, rle, parts, queue, sent, pc, messages, errors>>

set_active_sources(m) ==
  /\ pc = "idle"
  /\ masks < MaxMasks
  /\ masks' = masks + 1
  /\ Reset
  /\ mask' = m
  /\ UNCHANGED <<queue, sent, pc, messages, errors>>

data_available ==
  /\ pc = "idle"
  /\ rle' = IF active THEN rle ELSE RleAfterSearch
  /\ UNCHANGED <<chunkvars, queue, mask, source, parts, sent, pc, messages, masks, errors>>

Next == \/ \E s \in Source : record(s)
        \/ \E multi \in BOOLEAN : begin(multi)
        \/ \E len \in BufLens : get_next(len) \/ get_chunk_fill(len)
        \/ get_chunk
        \/ abort
        \/ \E m \in SUBSET Source : set_active_sources(m)
        \/ data_available

Spec == Init /\ [][Next]_vars

\* A caller that drains: it keeps calling one way or the other, and time and again
\* with a buffer of MEMFAULT_PACKETIZER_MIN_BUF_LEN bytes or more.
LargeEnough == {len \in BufLens : len >= 9}
FairSpec == /\ Spec
            /\ WF_vars(get_chunk)
            /\ WF_vars(\E len \in LargeEnough : active /\ get_next(len))
            /\ SF_vars(\E len \in LargeEnough : get_chunk_fill(len))

-------------------------------------------------------------------------------
TypeOK ==
  /\ ChunkTypeOK
  /\ mask \subseteq Source
  /\ source \in Source \cup {None} /\ (active <=> source # None)
  /\ rle.source \in {None, RleSource}
  /\ pc \in {"idle", "get_chunk"} /\ (pc = "get_chunk" => active)
  /\ messages \in 0..MaxMessages /\ masks \in 0..MaxMasks /\ errors \in 0..MaxErrors

\* The message being sent is the one at the head of an enabled source, at the size
\* it has now: no cached size or source survives an abort, a change of the mask or
\* the message before ("any in-progress message packetization will be restarted").
SizeIsCurrent ==
  active =>
    /\ source \in mask /\ queue[source] # <<>>
    /\ total_size = hdr_size + IF source = RleSource THEN Encoded(Head(queue[source]))
                                                     ELSE Head(queue[source]).size

\* What the server put together holds the bytes of one message, all of them and
\* nothing else, but for filler where a read failed.
BytesOf(id) == {id} \cup (IF errors > 0 THEN {Scrub} ELSE {})
Intact == \A s \in Source : \A i \in DOMAIN sent[s] :
            LET m == sent[s][i]
            IN m.whole /\ m.parts \subseteq BytesOf(m.id) /\ (m.id \in m.parts \/ errors > 0)

\* Refinement: each source's messages are delivered whole, once and in order, while
\* their source is enabled (Outbox).  A message put together with a hole or out of
\* two messages maps to None, which no source recorded.
IdOf(m) == IF m.whole /\ m.parts \ {Scrub} \subseteq {m.id} THEN m.id ELSE None
Ids(s) == [i \in DOMAIN s |-> s[i].id]
Delivered(s) == [i \in DOMAIN s |-> IdOf(s[i])]
Box == INSTANCE Outbox WITH Message <- 1..MaxMessages,
                            queue <- [s \in Source |-> Ids(queue[s])],
                            sent <- [s \in Source |-> Delivered(sent[s])]
DeliveredOnceInOrder == Box!Spec

\* Everything an enabled source has is sent in the end, whatever buffers the drain
\* passes, and whatever was aborted before.
Drained == \A s \in Source : <>[](s \in mask) => []<>(queue[s] = <<>>)
===============================================================================

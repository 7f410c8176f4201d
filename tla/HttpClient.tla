------------------------------ MODULE HttpClient ------------------------------
(* ports/zephyr/common/memfault_platform_http.c: the upload of the data of the *)
(* SDK and the download of an update, over HttpResponse, a socket and a server *)
(* that may be slow, answer with any status, or close the connection.          *)
(* The packetizer is what Outbox promises: a message is marked read when its   *)
(* last packet is handed out, before that packet is sent.                      *)
EXTENDS HttpResponse, FiniteSets

CONSTANTS
  Messages,      \* the messages the packetizer has: a sequence of their numbers of packets
  PACKET,        \* bytes of a packet
  MAX_MESSAGES,  \* CONFIG_MEMFAULT_HTTP_MAX_MESSAGES_TO_SEND
  RECV,          \* bytes of the buffer that receives
  Answers,       \* what the server may answer to a request: responses
  Payload,       \* the response to the request of an update
  MAX_CALLS,     \* bound: calls to upload
  Builds         \* the configurations to check
\* post_size  CONFIG_MEMFAULT_HTTP_MAX_POST_SIZE > 0: a POST for each chunk, of one packet
\* download   the call is memfault_zephyr_port_ota_update's, for the payload
\* closes     the server may close the connection
\* agains     bound: times a call on the socket finds that it would block, after poll
Build == [post_size : BOOLEAN, download : BOOLEAN, closes : BOOLEAN, agains : Nat]
ASSUME ConstantsAssumption ==
  /\ {PACKET, MAX_MESSAGES, RECV} \subseteq Nat \ {0} /\ MAX_CALLS \in Nat
  /\ Messages \in Seq(Nat \ {0}) /\ Builds \subseteq Build
\* A call that would block leaves errno set, and recv at the end of the stream does not clear
\* it: prv_read_socket_data then takes the end for a call that would block, for ever.
ASSUME BuildAssumption == \A b \in Builds : b.closes => b.agains = 0

VARIABLES
  build,
  packetizer,  \* the messages left, first to last, and the packets of the first handed out
  pc,          \* where the thread is
  out, idx,    \* prv_try_send: the bytes to send, and how many it sent
  chunk,       \* the chunk in the buffer of prv_send_next_msg, with post_size
  left,        \* max_messages_to_send
  errno,       \* whether it is EAGAIN
  ctx,         \* sMemfaultHttpResponseContext
  socket,      \* characters from the server not received yet, and whether the connection is open
  server,      \* the POST it receives, the message it puts together, the messages it has
  payload,     \* bytes handed to the handler of the update, and whether it was told they are all
  agains, calls, \* so far
  truth        \* history: the messages this call handed out, those failed calls did

vars == <<build, packetizer, pc, out, idx, chunk, left, errno, ctx, socket, server, payload, agains, calls, truth>>

Closed == [in |-> <<>>, open |-> FALSE]
NoPost == [expected |-> 0, body |-> <<>>, bad |-> FALSE]
\* What goes to the server: a request's header, with the length of its body, and bytes of messages.
Request(n) == <<[kind |-> "request", m |-> n, i |-> 0]>>
Packet(m, p) == [i \in 1..PACKET |-> [kind |-> "data", m |-> m, i |-> (p - 1) * PACKET + i]]

Init ==
  /\ build \in Builds
  /\ packetizer = [queue |-> [i \in DOMAIN Messages |-> i], handed |-> 0]
  /\ pc = "idle" /\ out = <<>> /\ idx = 0 /\ chunk = <<>> /\ left = 0 /\ errno = FALSE
  /\ ctx = NewContext
  /\ socket = Closed
  /\ server = [post |-> NoPost, partial |-> <<>>, messages |-> <<>>]
  /\ payload = [bytes |-> <<>>, complete |-> FALSE]
  /\ agains = 0 /\ calls = 0
  /\ truth = [touched |-> {}, failed |-> {}]

env == <<build, agains, calls, errno>>
First == Head(packetizer.queue)

\* The socket is closed, and the thread returns.
Returns(success) ==
  /\ pc' = "idle" /\ out' = <<>> /\ idx' = 0 /\ chunk' = <<>> /\ left' = 0 /\ ctx' = NewContext
  /\ socket' = Closed
  /\ server' = [server EXCEPT !.post = NoPost]
  /\ truth' = [truth EXCEPT !.touched = {}, !.failed = IF success THEN @ ELSE @ \cup truth.touched]
\* memfault_packetizer_abort.
abort == packetizer' = [packetizer EXCEPT !.handed = 0]

\* memfault_zephyr_port_http_post_data_return_size finds data, and opens a socket or fails to;
\* memfault_http_get_ota_payload.
call ==
  /\ pc = "idle" /\ calls < MAX_CALLS /\ calls' = calls + 1
  /\ build.download \/ packetizer.queue # <<>>
  /\ \/ /\ pc' = IF build.download THEN "get" ELSE "next"
        /\ out' = IF build.download THEN Request(0) ELSE <<>>
        /\ left' = MAX_MESSAGES
        /\ socket' = [in |-> <<>>, open |-> TRUE]
     \/ UNCHANGED <<pc, out, left, socket>>
  /\ UNCHANGED <<build, packetizer, idx, chunk, errno, ctx, server, payload, agains, truth>>

\* memfault_zephyr_port_http_upload_sdk_data goes on to prv_send_next_msg, which begins a POST
\* for the whole message, or for the next chunk.
send_next_msg ==
  LET last == packetizer.handed + 1 = Messages[First]
  IN /\ pc = "next" /\ left > 0 /\ packetizer.queue # <<>>
     /\ left' = left - 1
     /\ pc' = "post"
     /\ idx' = 0
     /\ IF build.post_size
        THEN /\ chunk' = Packet(First, packetizer.handed + 1)
             /\ out' = Request(PACKET)
             /\ packetizer' = IF last THEN [queue |-> Tail(packetizer.queue), handed |-> 0]
                              ELSE [packetizer EXCEPT !.handed = @ + 1]
        ELSE /\ out' = Request(PACKET * Messages[First])
             /\ UNCHANGED <<chunk, packetizer>>
     /\ truth' = [truth EXCEPT !.touched = @ \cup {First}]
     /\ UNCHANGED <<env, ctx, socket, server, payload>>
\* No message is left, or as many were sent as a call sends.
upload_ends ==
  /\ pc = "next" /\ (left = 0 \/ packetizer.queue = <<>>)
  /\ Returns(TRUE)
  /\ UNCHANGED <<env, packetizer, payload>>
\* memfault_packetizer_get_next: the next packet of the message.
get_next ==
  LET last == packetizer.handed + 1 = Messages[First]
  IN /\ pc = "packet"
     /\ out' = Packet(First, packetizer.handed + 1)
     /\ idx' = 0
     /\ pc' = IF last THEN "last" ELSE "body"
     /\ packetizer' = IF last THEN [queue |-> Tail(packetizer.queue), handed |-> 0]
                      ELSE [packetizer EXCEPT !.handed = @ + 1]
     /\ UNCHANGED <<env, chunk, left, ctx, socket, server, payload, truth>>

-------------------------------------------------------------------------------
(* The server *)

\* A byte comes in: what is not in a request is not understood.
receive(s, b) ==
  IF b.kind = "request" THEN [s EXCEPT !.post = [NoPost EXCEPT !.expected = b.m]]
  ELSE IF Len(s.post.body) < s.post.expected THEN [s EXCEPT !.post.body = Append(@, b)]
  ELSE [s EXCEPT !.post.bad = TRUE]
Posted ==
  \/ server.post.bad
  \/ server.post.expected > 0 /\ Len(server.post.body) = server.post.expected

\* A chunk begins a message or continues the one the server puts together.
Joined == IF server.post.body[1].i = 1 THEN server.post.body ELSE server.partial \o server.post.body
IsWhole(bytes) ==
  LET m == bytes[1].m
  IN bytes = FlattenSeq([p \in 1..Messages[m] |-> Packet(m, p)])
\* A POST is answered; what is not accepted, or not understood, is not kept.
answer(a) ==
  /\ socket.open /\ ~build.download /\ Posted
  /\ server.post.bad => a.status \div 100 # 2
  /\ socket' = [socket EXCEPT !.in = @ \o a.chars]
  /\ server' = IF a.status \div 100 # 2 THEN [server EXCEPT !.post = NoPost]
               ELSE IF IsWhole(Joined)
               THEN [post |-> NoPost, partial |-> <<>>, messages |-> Append(server.messages, Joined[1].m)]
               ELSE [server EXCEPT !.post = NoPost, !.partial = Joined]
  /\ UNCHANGED <<env, packetizer, pc, out, idx, chunk, left, ctx, payload, truth>>
\* The connection is closed; what was sent to the device still arrives.
close ==
  /\ socket.open /\ build.closes
  /\ socket' = [socket EXCEPT !.open = FALSE]
  /\ UNCHANGED <<env, packetizer, pc, out, idx, chunk, left, ctx, server, payload, truth>>

-------------------------------------------------------------------------------
(* prv_try_send *)
Sending == pc \in {"get", "post", "body", "last"}

\* All was sent.  What memfault_http_start_chunk_post returns is ignored.
Sent ==
  /\ pc' = CASE pc = "get" -> "header"
             [] pc = "post" -> IF build.post_size THEN "last" ELSE "packet"
             [] pc = "body" -> "packet"
             [] pc = "last" -> "response"
  /\ out' = IF pc = "post" /\ build.post_size THEN chunk ELSE <<>>
  /\ idx' = 0

\* Mutant: what is left to send is taken from the start of the buffer.
mut_send_from_start(n) ==
  /\ Sending /\ socket.open /\ n \in 1..(Len(out) - idx)
  /\ IF idx + n = Len(out) THEN Sent
     ELSE idx' = idx + n /\ UNCHANGED <<pc, out>>
  /\ IF pc = "get" THEN socket' = [socket EXCEPT !.in = Payload] /\ UNCHANGED server
     ELSE server' = FoldLeft(receive, server, SubSeq(out, 1, n)) /\ UNCHANGED socket
  /\ UNCHANGED <<env, packetizer, chunk, left, ctx, payload, truth>>
\* zsock_send takes n bytes.
send(n) ==
  /\ Sending /\ socket.open /\ n \in 1..(Len(out) - idx)
  /\ IF idx + n = Len(out) THEN Sent
     ELSE idx' = idx + n /\ UNCHANGED <<pc, out>>
  /\ IF pc = "get" THEN socket' = [socket EXCEPT !.in = Payload] /\ UNCHANGED server
     ELSE server' = FoldLeft(receive, server, SubSeq(out, idx + 1, idx + n)) /\ UNCHANGED socket
  /\ UNCHANGED <<env, packetizer, chunk, left, ctx, payload, truth>>
\* The socket was not ready in time, or an error.
send_fails ==
  /\ Sending
  /\ IF pc = "post" THEN Sent /\ UNCHANGED <<packetizer, chunk, left, ctx, socket, server, truth>>
     ELSE Returns(FALSE) /\ (IF pc = "get" THEN UNCHANGED packetizer ELSE abort)
  /\ UNCHANGED <<env, payload>>
\* It would block, after all: poll and try again.
would_block ==
  /\ (Sending \/ pc \in {"response", "header", "data"}) /\ socket.open
  /\ agains < build.agains /\ agains' = agains + 1
  /\ errno' = TRUE
  /\ UNCHANGED <<build, calls, packetizer, pc, out, idx, chunk, left, ctx, socket, server, payload, truth>>

-------------------------------------------------------------------------------
(* prv_read_socket_data *)
Received(max) == {SubSeq(socket.in, 1, n) : n \in 1..(IF max < Len(socket.in) THEN max ELSE Len(socket.in))}
Rest(data) == [socket EXCEPT !.in = SubSeq(@, Len(data) + 1, Len(@))]

\* prv_wait_for_http_response: a piece comes in; when it is the last the upload goes on if the
\* server answered 2xx.  What follows the response in the buffer is dropped with it.
wait_for_http_response(data) ==
  /\ pc = "response" /\ data \in Received(RECV)
  /\ LET c == parse(ctx, data, FALSE)
     IN IF ~c.done THEN ctx' = c /\ socket' = Rest(data) /\ UNCHANGED <<pc, out, idx, chunk, left, server, truth>>
        ELSE IF c.parse_error = "Ok" /\ c.http_status_code \div 100 = 2
        THEN ctx' = NewContext /\ socket' = Rest(data) /\ pc' = "next" /\ UNCHANGED <<out, idx, chunk, left, server, truth>>
        ELSE Returns(FALSE)
  /\ UNCHANGED <<env, packetizer, payload>>
\* The time of poll is over.
read_times_out ==
  /\ pc \in {"response", "header", "data"} /\ socket.open
  /\ Returns(FALSE)
  /\ UNCHANGED <<env, packetizer, payload>>
\* Mutant: the end is taken for a call that would block.
mut_read_end ==
  /\ pc \in {"response", "header", "data"} /\ ~socket.open /\ socket.in = <<>>
  /\ UNCHANGED vars
\* recv returns 0 at the end, with the errno of an earlier call.
read_end ==
  /\ pc \in {"response", "header", "data"} /\ ~socket.open /\ socket.in = <<>>
  /\ ~errno
  /\ Returns(FALSE)
  /\ UNCHANGED <<env, packetizer, payload>>

-------------------------------------------------------------------------------
(* prv_install_ota_payload *)
\* Mutant: what was received with the header is taken from the start of the buffer.
mut_header_from_start(data) ==
  /\ pc = "header" /\ data \in Received(RECV)
  /\ LET c == parse(ctx, data, TRUE)
         body == SubSeq(data, 1, Len(data) - c.data_bytes_processed)
     IN IF ~c.done THEN ctx' = c /\ socket' = Rest(data) /\ UNCHANGED <<pc, out, idx, chunk, left, server, payload, truth>>
        ELSE IF c.parse_error # "Ok" \/ c.http_status_code >= 400 \/ c.content_length = 0
        THEN Returns(FALSE) /\ UNCHANGED payload
        ELSE \/ Returns(FALSE) /\ UNCHANGED payload
             \/ /\ ctx' = c /\ socket' = Rest(data) /\ pc' = "data"
                /\ payload' = [bytes |-> body, complete |-> FALSE]
                /\ UNCHANGED <<out, idx, chunk, left, server, truth>>
  /\ UNCHANGED <<env, packetizer>>
\* prv_wait_for_http_response_header, and what of the body came with it; the handler may refuse
\* the update.
install_header(data) ==
  /\ pc = "header" /\ data \in Received(RECV)
  /\ LET c == parse(ctx, data, TRUE)
         body == SubSeq(data, c.data_bytes_processed + 1, Len(data))
     IN IF ~c.done THEN ctx' = c /\ socket' = Rest(data) /\ UNCHANGED <<pc, out, idx, chunk, left, server, payload, truth>>
        ELSE IF c.parse_error # "Ok" \/ c.http_status_code >= 400 \/ c.content_length = 0
        THEN Returns(FALSE) /\ UNCHANGED payload
        ELSE \/ Returns(FALSE) /\ UNCHANGED payload
             \/ /\ ctx' = c /\ socket' = Rest(data) /\ pc' = "data"
                /\ payload' = [bytes |-> body, complete |-> FALSE]
                /\ UNCHANGED <<out, idx, chunk, left, server, truth>>
  /\ UNCHANGED <<env, packetizer>>
\* The handler takes the next bytes, or refuses them.
install_data(data) ==
  /\ pc = "data" /\ Len(payload.bytes) < ctx.content_length
  /\ LET rest == ctx.content_length - Len(payload.bytes)
     IN data \in Received(IF rest < RECV THEN rest ELSE RECV)
  /\ \/ /\ payload' = [payload EXCEPT !.bytes = @ \o data]
        /\ socket' = Rest(data)
        /\ UNCHANGED <<pc, out, idx, chunk, left, ctx, server, truth>>
     \/ Returns(FALSE) /\ UNCHANGED payload
  /\ UNCHANGED <<env, packetizer>>
install_ends ==
  /\ pc = "data" /\ Len(payload.bytes) = ctx.content_length
  /\ payload' = [payload EXCEPT !.complete = TRUE]
  /\ Returns(TRUE)
  /\ UNCHANGED <<env, packetizer>>

Client ==
  \/ send_next_msg \/ upload_ends \/ get_next
  \/ (\E n \in 1..Len(out) : send(n)) \/ send_fails \/ would_block
  \/ (\E data \in Received(RECV) : wait_for_http_response(data) \/ install_header(data) \/ install_data(data))
  \/ read_times_out \/ read_end \/ install_ends
Server == (\E a \in Answers : answer(a)) \/ close
\* No call is left within the bound, or nothing to send.
Waits ==
  /\ pc = "idle" /\ (calls = MAX_CALLS \/ (~build.download /\ packetizer.queue = <<>>))
  /\ UNCHANGED vars
Next == call \/ Client \/ Server \/ Waits

\* The thread runs, and poll returns when the socket is ready or its time is over.
Spec == Init /\ [][Next]_vars /\ WF_vars(Client)

-------------------------------------------------------------------------------
(* Properties *)

\* The server has each message at most once and in order; and between calls, it has every message
\* the packetizer has marked read, unless a call that handed out packets of it reported failure:
\* however the bytes were cut by the socket, and the answers by the buffer they are parsed from.
LossIsReported ==
  /\ \A i, j \in DOMAIN server.messages : i < j => server.messages[i] < server.messages[j]
  /\ pc = "idle" => DOMAIN Messages \subseteq
                      ToSet(packetizer.queue) \cup ToSet(server.messages) \cup truth.failed

\* The handler of an update gets the bytes of the body in order, whether they come with the
\* headers or after them, and is told that they are all when they are.
PayloadInOrder ==
  build.download =>
    /\ \A i \in DOMAIN payload.bytes : payload.bytes[i] = [c |-> "body", i |-> i]
    /\ payload.complete => Len(payload.bytes) = Cardinality({i \in DOMAIN Payload : Payload[i].c = "body"})

\* A call returns.
CallEnds == pc # "idle" ~> pc = "idle"

===============================================================================

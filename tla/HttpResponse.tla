----------------------------- MODULE HttpResponse -----------------------------
(* The response parser of components/http/src/memfault_http_utils.c, a         *)
(* character at a time, over the pieces in which a response is received.       *)
EXTENDS Integers, Sequences, SequencesExt

CONSTANT SIZE  \* sizeof(line_buf)
ASSUME LineBufAssumption == SIZE \in Nat /\ SIZE > 2

\* A line of a response is what the parser takes it for: kind, value, and its length
\* without CR LF.  A malformed line is a content length without its number.  A response is its lines and the length of its body.
Kind == {"status", "content-length", "malformed", "other", "end"}
Line == [kind : Kind, value : Nat, len : Nat]
EndLine == [kind |-> "end", value |-> 0, len |-> 0]
Char(c, line) == [c |-> c, line |-> line]
Chars(line) ==
  [i \in 1..line.len |-> Char("text", line)] \o <<Char("CR", line), Char("LF", line)>>
\* The bytes of the body are numbered.
Body(n) == [i \in 1..n |-> [c |-> "body", i |-> i]]
Response(lines, n) == FlattenSeq([i \in DOMAIN lines |-> Chars(lines[i])]) \o Chars(EndLine) \o Body(n)

EmptyLine == [i \in 1..SIZE |-> [c |-> "none"]]
\* sMemfaultHttpResponseContext, zeroed; done is what the last call returned.
NewContext ==
  [phase |-> "ExpectingStatusLine", parse_error |-> "Ok", http_status_code |-> 0,
   content_length |-> 0, content_received |-> 0, data_bytes_processed |-> 0,
   line_len |-> 0, line_buf |-> EmptyLine, done |-> FALSE]

Done(ctx) == [ctx EXCEPT !.done = TRUE]
Fail(ctx, error) == Done([ctx EXCEPT !.parse_error = error])
Processed(ctx) == [ctx EXCEPT !.data_bytes_processed = @ + 1]

\* The whole body is eaten: how much of it line_buf keeps is for logging only.
body_char(ctx, parse_header_only) ==
  IF parse_header_only THEN Done(ctx)
  ELSE Processed([ctx EXCEPT !.content_received = @ + 1,
                             !.done = ctx.content_received + 1 = ctx.content_length])

\* prv_parse_status_line and prv_parse_header of the first len characters of line_buf, then the
\* end of the headers.  What is left in line_buf is written over before it is read.
end_of_line(ctx, len) ==
  LET line == ctx.line_buf[1].line
      next == [ctx EXCEPT !.line_len = 0, !.line_buf = EmptyLine]
  IN IF ctx.phase = "ExpectingStatusLine"
     THEN IF len = 0 \/ line.kind # "status" THEN Fail(next, "ParseStatusLineError")
          ELSE Processed([next EXCEPT !.phase = "ExpectingHeader", !.http_status_code = line.value])
     ELSE IF line.kind = "malformed" THEN Fail(next, "ParseHeaderError")
     ELSE IF len # 0
     THEN Processed(IF line.kind = "content-length" THEN [next EXCEPT !.content_length = line.value]
                    ELSE next)
     ELSE IF next.content_length = 0 THEN Done(next)
     ELSE Processed([next EXCEPT !.phase = "ExpectingBody"])

\* A long header is truncated so that its CR LF are the last characters of line_buf.
put(ctx, char) ==
  IF ctx.line_len < SIZE
  THEN [ctx EXCEPT !.line_buf[ctx.line_len + 1] = char, !.line_len = @ + 1]
  ELSE IF char.c = "CR" THEN [ctx EXCEPT !.line_buf[SIZE - 1] = char]
  ELSE IF char.c = "LF" THEN [ctx EXCEPT !.line_buf[SIZE] = char]
  ELSE ctx

header_char(ctx, char) ==
  LET next == put(ctx, char)
      len == next.line_len - 2
  IN IF ctx.line_len >= SIZE /\ ctx.phase = "ExpectingStatusLine" THEN Fail(ctx, "HeaderTooLongError")
     ELSE IF /\ next.line_len >= 2
             /\ next.line_buf[len + 1].c = "CR" /\ next.line_buf[len + 2].c = "LF"
     THEN end_of_line(next, len)
     ELSE Processed(next)

\* prv_parse_http_response.
parse(ctx, data, parse_header_only) ==
  FoldLeft(LAMBDA c, char : IF c.done THEN c
                            ELSE IF c.phase = "ExpectingBody" THEN body_char(c, parse_header_only)
                            ELSE header_char(c, char),
           [ctx EXCEPT !.data_bytes_processed = 0], data)

===============================================================================

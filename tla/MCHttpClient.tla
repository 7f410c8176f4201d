----------------------------- MODULE MCHttpClient -----------------------------
EXTENDS HttpClient

Status(code) == [kind |-> "status", value |-> code, len |-> 2]
Length(n) == [kind |-> "content-length", value |-> n, len |-> 3]
Other(len) == [kind |-> "other", value |-> 0, len |-> len]

\* Headers that fit line_buf with their CR LF, fill it, and exceed it; none of SIZE - 1
\* characters, whose line feed overwrites its carriage return.
Accepted == [status |-> 202, chars |-> Response(<<Status(202), Other(SIZE - 2), Length(2)>>, 2)]
NoContent == [status |-> 204, chars |-> Response(<<Status(204), Other(SIZE)>>, 0)]
Refused == [status |-> 500, chars |-> Response(<<Status(500), Other(SIZE + 2), Length(1)>>, 1)]
Malformed == [status |-> 202, chars |-> Response(<<Status(202), Length(2), [Length(0) EXCEPT !.kind = "malformed"]>>, 2)]
NoAnswer == [status |-> 202, chars |-> <<>>]
AnswersChecked == {Accepted, NoContent, Refused, Malformed, NoAnswer}
Update == Response(<<Status(200), Other(SIZE + 1), Length(4)>>, 4)
MessagesChecked == <<3, 1, 2>>

Whole == [post_size |-> FALSE, download |-> FALSE, closes |-> TRUE, agains |-> 0]
BuildsChecked ==
  {Whole, [Whole EXCEPT !.post_size = TRUE],
   [Whole EXCEPT !.closes = FALSE, !.agains = 1],
   [Whole EXCEPT !.download = TRUE], [Whole EXCEPT !.download = TRUE, !.closes = FALSE, !.agains = 1]}
===============================================================================

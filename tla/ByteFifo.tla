------------------------------- MODULE ByteFifo -------------------------------
(* What util/memfault_circular_buffer promises its users: a byte queue of a    *)
(* fixed capacity.  Bytes are appended at the end, possibly over the last few  *)
(* bytes already there, peeked at any distance from the front, and dropped     *)
(* from either end.  An operation is refused exactly when it does not fit, and *)
(* then it leaves the queue alone.                                             *)
EXTENDS Naturals

CONSTANTS Capacity, \* bytes the queue can hold
          Byte,     \* values of a byte
          MaxLen    \* bound: longest buffer or offset a caller passes

VARIABLES size,    \* bytes queued
          content, \* content[i], i \in 0..size-1: the i-th byte from the front
          result   \* the last call and what it returned

fifo == <<size, content, result>>

Call(op, a, b) == [op |-> op, a |-> a, b |-> b]
NoData == [i \in {} |-> 0]
Result(call, ok, data) == [call |-> call, ok |-> ok, data |-> data]

Init == /\ size = 0
        /\ content = NoData
        /\ result = Result(Call("init", 0, 0), TRUE, NoData)

Answer(call, possible, effect) ==
  \/ possible /\ effect
  \/ ~possible /\ result' = Result(call, FALSE, NoData) /\ UNCHANGED <<size, content>>

\* n bytes d overwrite the last k bytes of the queue and extend it.
Write(n, d, k) ==
  LET keep == size - k
      newSize == IF keep + n > size THEN keep + n ELSE size
  IN Answer(Call("write", n, k), k <= size /\ newSize <= Capacity,
       /\ size' = newSize
       /\ content' = [i \in 0..(newSize - 1) |->
                        IF i < keep \/ i >= keep + n THEN content[i] ELSE d[i - keep]]
       /\ result' = Result(Call("write", n, k), TRUE, NoData))

DropFront(n) ==
  Answer(Call("consume", n, 0), n <= size,
    /\ size' = size - n
    /\ content' = [i \in 0..(size - n - 1) |-> content[i + n]]
    /\ result' = Result(Call("consume", n, 0), TRUE, NoData))

DropEnd(n) ==
  Answer(Call("consume_from_end", n, 0), n <= size,
    /\ size' = size - n
    /\ content' = [i \in 0..(size - n - 1) |-> content[i]]
    /\ result' = Result(Call("consume_from_end", n, 0), TRUE, NoData))

Peek(name, offset, n) ==
  Answer(Call(name, offset, n), offset + n <= size,
    /\ result' = Result(Call(name, offset, n), TRUE, [i \in 0..(n - 1) |-> content[offset + i]])
    /\ UNCHANGED <<size, content>>)

Next == \E n \in 0..MaxLen, k \in 0..MaxLen :
          \/ \E d \in [0..(n - 1) -> Byte] : Write(n, d, k)
          \/ DropFront(n)
          \/ DropEnd(n)
          \/ Peek("read", k, n)
          \/ Peek("read_with_callback", k, n)

Spec == Init /\ [][Next]_fifo
===============================================================================

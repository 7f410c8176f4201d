---------------------------- MODULE CircularBuffer ----------------------------
(* components/util/src/memfault_circular_buffer.c: the ring of bytes under     *)
(* event storage, the log module and the batched-metrics ring.  Every exported *)
(* call is one action; the two memcpy's around the end of the storage are kept *)
(* apart, as in the code.  Callers never pass NULL here, and offsets are small *)
(* enough that size_t sums do not wrap (the offset of the log module, which    *)
(* does wrap, is in RamLog).                                                   *)
EXTENDS Naturals

CONSTANTS TotalSpace, \* total_space: length of the storage
          Byte,       \* values of a byte
          MaxLen      \* bound: longest buffer or offset a caller passes

ASSUME SpaceAssumption == TotalSpace \in Nat \ {0} /\ MaxLen \in Nat
ASSUME ByteAssumption == 0 \in Byte

VARIABLES read_offset, \* index of the first byte to read
          read_size,   \* bytes that can be read
          storage,     \* the memory
          ret          \* the last call and what it returned

vars == <<read_offset, read_size, storage, ret>>

Idx == 0..(TotalSpace - 1)
Call(op, a, b) == [op |-> op, a |-> a, b |-> b]
NoData == [i \in {} |-> 0]
Returns(call, ok, data) == [call |-> call, ok |-> ok, data |-> data]
Least(a, b) == IF a > b THEN b ELSE a

TypeOK == /\ read_offset \in Idx
          /\ read_size \in 0..TotalSpace
          /\ storage \in [Idx -> Byte]

Init == /\ read_offset = 0
        /\ read_size = 0
        /\ storage = [i \in Idx |-> 0]
        /\ ret = Returns(Call("init", 0, 0), TRUE, NoData)

Fails(call) == /\ ret' = Returns(call, FALSE, NoData)
               /\ UNCHANGED <<read_offset, read_size, storage>>

\* Mutant: the second memcpy starts one byte late.
MutCopyOutLate(read_idx, n) ==
  LET bytes_to_read == Least(TotalSpace - read_idx, n)
  IN [i \in 0..(n - 1) |-> IF i < bytes_to_read THEN storage[read_idx + i]
                                                ELSE storage[(i - bytes_to_read + 1) % TotalSpace]]

\* The bytes copied out by the two memcpy's of a read.
CopyOut(read_idx, n) ==
  LET bytes_to_read == Least(TotalSpace - read_idx, n)
  IN [i \in 0..(n - 1) |-> IF i < bytes_to_read THEN storage[read_idx + i]
                                                ELSE storage[i - bytes_to_read]]

read(offset, n) ==
  \/ read_size < offset + n /\ Fails(Call("read", offset, n))
  \/ /\ read_size >= offset + n
     /\ ret' = Returns(Call("read", offset, n), TRUE,
                       CopyOut((read_offset + offset) % TotalSpace, n))
     /\ UNCHANGED <<read_offset, read_size, storage>>

\* get_read_pointer: start and length of the contiguous run at an offset.
PointerIdx(offset) == (read_offset + offset) % TotalSpace
PointerLen(offset) == Least(TotalSpace - PointerIdx(offset), read_size - offset)

\* read_with_callback hands its callback one contiguous run after the other.
\* Two iterations of the loop always do; a call that needed a third would show
\* as a failure.
FirstRun(offset, n) == Least(n, PointerLen(offset))
SecondRun(offset, n) == Least(n - FirstRun(offset, n), PointerLen(offset + FirstRun(offset, n)))

Runs(offset, n) ==
  [i \in 0..(n - 1) |->
     IF i < FirstRun(offset, n)
       THEN storage[PointerIdx(offset) + i]
       ELSE storage[PointerIdx(offset + FirstRun(offset, n)) + (i - FirstRun(offset, n))]]

read_with_callback(offset, n) ==
  \/ read_size < offset + n /\ Fails(Call("read_with_callback", offset, n))
  \/ /\ read_size >= offset + n
     /\ ret' = Returns(Call("read_with_callback", offset, n),
                       FirstRun(offset, n) + SecondRun(offset, n) = n, Runs(offset, n))
     /\ UNCHANGED <<read_offset, read_size, storage>>

\* Mutant: the read offset does not wrap.
mut_consume_no_wrap(n) ==
  \/ read_size < n /\ Fails(Call("consume", n, 0))
  \/ /\ read_size >= n
     /\ read_offset' = read_offset + n
     /\ read_size' = read_size - n
     /\ ret' = Returns(Call("consume", n, 0), TRUE, NoData)
     /\ UNCHANGED storage

consume(n) ==
  \/ read_size < n /\ Fails(Call("consume", n, 0))
  \/ /\ read_size >= n
     /\ read_offset' = (read_offset + n) % TotalSpace
     /\ read_size' = read_size - n
     /\ ret' = Returns(Call("consume", n, 0), TRUE, NoData)
     /\ UNCHANGED storage

consume_from_end(n) ==
  \/ read_size < n /\ Fails(Call("consume_from_end", n, 0))
  \/ /\ read_size >= n
     /\ read_size' = read_size - n
     /\ ret' = Returns(Call("consume_from_end", n, 0), TRUE, NoData)
     /\ UNCHANGED <<read_offset, storage>>

prv_get_space_available == TotalSpace - read_size

\* The storage after the two memcpy's of a write of the n bytes d at write_idx.
CopyIn(write_idx, n, d) ==
  LET bytes_to_write == Least(TotalSpace - write_idx, n)
      bytes_rem == n - bytes_to_write
  IN [j \in Idx |-> IF j < bytes_rem THEN d[bytes_to_write + j]
                    ELSE IF j >= write_idx /\ j < write_idx + bytes_to_write
                           THEN d[j - write_idx] ELSE storage[j]]

new_bytes_to_write(n, offset_from_end) == IF n > offset_from_end THEN n - offset_from_end ELSE 0

WriteFits(n, offset_from_end) ==
  /\ read_size >= offset_from_end
  /\ prv_get_space_available >= new_bytes_to_write(n, offset_from_end)

\* write (offset_from_end = 0) and write_at_offset: prv_write_at_offset_from_end.
write_at_offset(n, d, offset_from_end) ==
  \/ ~WriteFits(n, offset_from_end) /\ Fails(Call("write", n, offset_from_end))
  \/ /\ WriteFits(n, offset_from_end)
     /\ storage' = CopyIn((read_offset + read_size - offset_from_end) % TotalSpace, n, d)
     /\ read_size' = read_size + new_bytes_to_write(n, offset_from_end)
     /\ ret' = Returns(Call("write", n, offset_from_end), TRUE, NoData)
     /\ UNCHANGED read_offset

Next == \E n \in 0..MaxLen, k \in 0..MaxLen :
          \/ \E d \in [0..(n - 1) -> Byte] : write_at_offset(n, d, k)
          \/ consume(n)
          \/ consume_from_end(n)
          \/ read(k, n)
          \/ read_with_callback(k, n)

Spec == Init /\ [][Next]_vars
-------------------------------------------------------------------------------
\* The i-th byte of the queue is found read_offset + i cells round the ring.
Content == [i \in 0..(read_size - 1) |-> storage[(read_offset + i) % TotalSpace]]

\* The ring is the byte queue of ByteFifo: whatever the offsets and wherever the
\* two memcpy's split, each call returns and changes what the queue's would.
Fifo == INSTANCE ByteFifo WITH Capacity <- TotalSpace, size <- read_size,
                               content <- Content, result <- ret
ImplementsFifo == Fifo!Spec
===============================================================================

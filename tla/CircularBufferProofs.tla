------------------------- MODULE CircularBufferProofs -------------------------
(* Proofs about CircularBuffer, for every size of the storage and every length *)
(* of the buffers its callers pass.  Positions in the ring are first freed of  *)
(* the modulo (Ring); three lemmas then say what the memcpy pairs of a read, a *)
(* callback read and a write do at the i-th byte of the queue; the two theorems*)
(* follow action by action.                                                    *)
EXTENDS CircularBuffer, TLAPS

\* A position at most one lap ahead, brought back into the storage.
Ring(a) == IF a < TotalSpace THEN a ELSE a - TotalSpace

LEMMA RingIsMod ==
  ASSUME NEW a \in Nat, a < 2 * TotalSpace
  PROVE  a % TotalSpace = Ring(a) /\ Ring(a) \in Idx
<1>1. TotalSpace \in Nat \ {0}
  BY SpaceAssumption
<1> QED BY <1>1 DEF Ring, Idx

\* prv_write_at_offset_from_end never grows the queue past its storage, nor
\* copies more than one lap.
LEMMA WriteBounds ==
  ASSUME TypeOK, NEW n \in 0..MaxLen, NEW k \in 0..MaxLen, WriteFits(n, k)
  PROVE  /\ read_size - k \in 0..TotalSpace
         /\ (read_size - k) + n <= TotalSpace
         /\ read_size + new_bytes_to_write(n, k) \in 0..TotalSpace
         /\ read_size + new_bytes_to_write(n, k) =
              IF (read_size - k) + n > read_size THEN (read_size - k) + n ELSE read_size
BY SpaceAssumption DEF TypeOK, WriteFits, prv_get_space_available, new_bytes_to_write

\* Where the write starts in the storage.
LEMMA WriteIndex ==
  ASSUME TypeOK, NEW k \in Nat, k <= read_size
  PROVE  /\ (read_offset + read_size - k) % TotalSpace = Ring(read_offset + (read_size - k))
         /\ Ring(read_offset + (read_size - k)) \in Idx
<1>1. /\ read_offset + read_size - k = read_offset + (read_size - k)
      /\ read_offset + (read_size - k) \in Nat
      /\ read_offset + (read_size - k) < 2 * TotalSpace
  BY SpaceAssumption DEF TypeOK, Idx
<1> QED BY <1>1, RingIsMod

\* After the two memcpy's of a write placed `keep` bytes into the queue, byte i
\* of the queue is the written one inside the window and the old one outside.
LEMMA CopyInAt ==
  ASSUME TypeOK, NEW n \in Nat, NEW d, NEW keep \in 0..TotalSpace, keep + n <= TotalSpace,
         NEW i \in Idx
  PROVE  CopyIn(Ring(read_offset + keep), n, d)[Ring(read_offset + i)] =
           IF i < keep \/ i >= keep + n THEN storage[Ring(read_offset + i)] ELSE d[i - keep]
BY SpaceAssumption DEF TypeOK, CopyIn, Ring, Idx, Least

LEMMA CopyInType ==
  ASSUME TypeOK, NEW n \in 0..TotalSpace, NEW d \in [0..(n - 1) -> Byte], NEW at \in Idx
  PROVE  CopyIn(at, n, d) \in [Idx -> Byte]
BY SpaceAssumption DEF TypeOK, CopyIn, Idx, Least

\* Byte i of a read is byte offset + i of the queue.
LEMMA CopyOutAt ==
  ASSUME TypeOK, NEW offset \in Nat, NEW n \in Nat, offset + n <= read_size, NEW i \in 0..(n - 1)
  PROVE  CopyOut(Ring(read_offset + offset), n)[i] = storage[Ring(read_offset + (offset + i))]
BY SpaceAssumption DEF TypeOK, CopyOut, Ring, Idx, Least

-------------------------------------------------------------------------------
\* The state stays well formed: read_offset inside the storage, never more to
\* read than the storage holds (memfault_circular_buffer_consume and
\* prv_write_at_offset_from_end keep both).
THEOREM TypeCorrect == Spec => []TypeOK
<1>1. Init => TypeOK
  BY SpaceAssumption, ByteAssumption DEF Init, TypeOK, Idx
<1>2. TypeOK /\ [Next]_vars => TypeOK'
  <2> SUFFICES ASSUME TypeOK, [Next]_vars PROVE TypeOK'
    OBVIOUS
  <2>1. ASSUME NEW n \in 0..MaxLen, NEW k \in 0..MaxLen, NEW d \in [0..(n - 1) -> Byte],
               write_at_offset(n, d, k)
        PROVE  TypeOK'
    <3>1. CASE ~WriteFits(n, k)
      BY <2>1, <3>1 DEF write_at_offset, Fails, TypeOK
    <3>2. CASE WriteFits(n, k)
      <4> DEFINE at == Ring(read_offset + (read_size - k))
      <4>1. k \in Nat /\ k <= read_size /\ n \in 0..TotalSpace
        BY <3>2, SpaceAssumption, WriteBounds DEF WriteFits, TypeOK
      <4>2. at \in Idx /\ (read_offset + read_size - k) % TotalSpace = at
        BY <4>1, WriteIndex
      <4>3. storage' = CopyIn(at, n, d) /\ read_offset' = read_offset
        BY <2>1, <3>2, <4>2 DEF write_at_offset
      <4>4. storage' \in [Idx -> Byte]
        BY <4>1, <4>2, <4>3, CopyInType
      <4>5. read_size' \in 0..TotalSpace
        BY <2>1, <3>2, WriteBounds DEF write_at_offset
      <4> QED BY <4>3, <4>4, <4>5 DEF TypeOK
    <3> QED BY <3>1, <3>2
  <2>2. ASSUME NEW n \in 0..MaxLen, consume(n)
        PROVE  TypeOK'
    <3>1. \/ UNCHANGED <<read_offset, read_size, storage>>
          \/ /\ read_size >= n
             /\ read_offset' = (read_offset + n) % TotalSpace
             /\ read_size' = read_size - n
             /\ storage' = storage
      BY <2>2 DEF consume, Fails
    <3>2. ASSUME read_size >= n
          PROVE  /\ (read_offset + n) % TotalSpace \in Idx
                 /\ read_size - n \in 0..TotalSpace
      <4>1. read_offset + n \in Nat /\ read_offset + n < 2 * TotalSpace
        BY <3>2, SpaceAssumption DEF TypeOK, Idx
      <4>2. (read_offset + n) % TotalSpace \in Idx
        BY <4>1, RingIsMod
      <4> QED BY <3>2, <4>2, SpaceAssumption DEF TypeOK
    <3> QED BY <3>1, <3>2 DEF TypeOK
  <2>3. ASSUME NEW n \in 0..MaxLen, consume_from_end(n)
        PROVE  TypeOK'
    <3>1. \/ UNCHANGED <<read_offset, read_size, storage>>
          \/ /\ read_size >= n
             /\ read_size' = read_size - n
             /\ UNCHANGED <<read_offset, storage>>
      BY <2>3 DEF consume_from_end, Fails
    <3>2. read_size >= n => read_size - n \in 0..TotalSpace
      BY SpaceAssumption DEF TypeOK
    <3> QED BY <3>1, <3>2 DEF TypeOK
  <2>4. ASSUME NEW n \in 0..MaxLen, NEW k \in 0..MaxLen,
               read(k, n) \/ read_with_callback(k, n)
        PROVE  TypeOK'
    <3>1. UNCHANGED <<read_offset, read_size, storage>>
      BY <2>4 DEF read, read_with_callback, Fails
    <3> QED BY <3>1 DEF TypeOK
  <2>5. CASE UNCHANGED vars
    BY <2>5 DEF vars, TypeOK
  <2> QED BY <2>1, <2>2, <2>3, <2>4, <2>5 DEF Next
<1> QED BY <1>1, <1>2, PTL DEF Spec

-------------------------------------------------------------------------------
\* Content without the modulo.
LEMMA ContentAt ==
  ASSUME TypeOK, NEW i \in 0..(read_size - 1)
  PROVE  Content[i] = storage[Ring(read_offset + i)] /\ i \in Idx
<1>1. i \in Nat /\ read_offset + i \in Nat /\ read_offset + i < 2 * TotalSpace /\ i \in Idx
  BY SpaceAssumption DEF TypeOK, Idx
<1> QED BY <1>1, RingIsMod DEF Content

\* prv_write_at_offset_from_end is the queue's Write.
LEMMA WriteStep ==
  ASSUME TypeOK, TypeOK', NEW n \in 0..MaxLen, NEW k \in 0..MaxLen,
         NEW d \in [0..(n - 1) -> Byte], write_at_offset(n, d, k)
  PROVE  Fifo!Write(n, d, k)
<1> DEFINE keep == read_size - k
           size2 == IF keep + n > read_size THEN keep + n ELSE read_size
<1>1. WriteFits(n, k) <=> (k <= read_size /\ size2 <= TotalSpace)
  BY SpaceAssumption DEF WriteFits, TypeOK, prv_get_space_available, new_bytes_to_write
<1>2. CASE ~WriteFits(n, k)
  <2>1. /\ ret' = Returns(Call("write", n, k), FALSE, NoData)
        /\ UNCHANGED <<read_offset, read_size, storage>>
    BY <1>2 DEF write_at_offset, Fails
  <2>2. Content' = Content
    BY <2>1 DEF Content
  <2> QED BY <1>1, <1>2, <2>1, <2>2 DEF Fifo!Write, Fifo!Answer, Fifo!Result, Returns,
             Fifo!Call, Call, Fifo!NoData, NoData
<1>3. CASE WriteFits(n, k)
  <2>1. /\ keep \in 0..TotalSpace
        /\ keep + n <= TotalSpace
        /\ read_size + new_bytes_to_write(n, k) = size2
        /\ k \in Nat /\ n \in Nat /\ k <= read_size
    BY <1>3, WriteBounds, SpaceAssumption DEF WriteFits, TypeOK
  <2>2. (read_offset + read_size - k) % TotalSpace = Ring(read_offset + keep)
    BY <2>1, WriteIndex
  <2>3. /\ storage' = CopyIn(Ring(read_offset + keep), n, d)
        /\ read_size' = size2
        /\ read_offset' = read_offset
        /\ ret' = Returns(Call("write", n, k), TRUE, NoData)
    BY <1>3, <2>1, <2>2 DEF write_at_offset
  <2>4. ASSUME NEW i \in 0..(size2 - 1)
        PROVE  storage'[Ring(read_offset + i)] =
                 IF i < keep \/ i >= keep + n THEN storage[Ring(read_offset + i)] ELSE d[i - keep]
    <3>1. i \in Idx
      BY <1>1, <1>3, <2>1, SpaceAssumption DEF TypeOK, Idx
    <3> QED BY <2>1, <2>3, <3>1, CopyInAt
  <2>5. ASSUME NEW i \in 0..(size2 - 1)
        PROVE  Content'[i] =
                 IF i < keep \/ i >= keep + n THEN Content[i] ELSE d[i - keep]
    <3>1. Content'[i] = storage'[Ring(read_offset + i)]
      <4>1. i \in 0..(read_size' - 1)
        BY <2>3
      <4>2. Content'[i] = storage'[(read_offset' + i) % TotalSpace]
        BY <4>1 DEF Content
      <4>3. i \in Nat /\ read_offset + i \in Nat /\ read_offset + i < 2 * TotalSpace
        BY <1>1, <1>3, <2>1, SpaceAssumption DEF TypeOK, Idx
      <4> QED BY <2>3, <4>2, <4>3, RingIsMod
    <3>2. CASE i < keep \/ i >= keep + n
      <4>1. i \in 0..(read_size - 1)
        BY <2>1, <3>2, SpaceAssumption DEF TypeOK
      <4> QED BY <2>4, <3>1, <3>2, <4>1, ContentAt
    <3>3. CASE ~(i < keep \/ i >= keep + n)
      BY <2>4, <3>1, <3>3
    <3> QED BY <3>2, <3>3
  <2>6. Content' = [i \in 0..(size2 - 1) |->
                      IF i < keep \/ i >= keep + n THEN Content[i] ELSE d[i - keep]]
    <3>1. Content' = [i \in 0..(size2 - 1) |-> Content'[i]]
      BY <2>3 DEF Content
    <3> QED BY <2>5, <3>1
  <2> QED BY <1>1, <1>3, <2>3, <2>6 DEF Fifo!Write, Fifo!Answer, Fifo!Result, Returns,
             Fifo!Call, Call, Fifo!NoData, NoData
<1> QED BY <1>2, <1>3

\* memfault_circular_buffer_consume drops bytes from the front of the queue.
LEMMA ConsumeStep ==
  ASSUME TypeOK, TypeOK', NEW n \in 0..MaxLen, consume(n)
  PROVE  Fifo!DropFront(n)
<1>1. CASE read_size < n
  <2>1. /\ ret' = Returns(Call("consume", n, 0), FALSE, NoData)
        /\ UNCHANGED <<read_offset, read_size, storage>>
    <3>1. ~(read_size >= n)
      BY <1>1, SpaceAssumption DEF TypeOK
    <3> QED BY <3>1 DEF consume, Fails
  <2>2. Content' = Content
    BY <2>1 DEF Content
  <2>3. ~(n <= read_size)
    BY <1>1, SpaceAssumption DEF TypeOK
  <2> QED BY <2>1, <2>2, <2>3 DEF Fifo!DropFront, Fifo!Answer, Fifo!Result, Returns,
             Fifo!Call, Call, Fifo!NoData, NoData
<1>2. CASE n <= read_size
  <2>1. /\ read_offset' = (read_offset + n) % TotalSpace
        /\ read_size' = read_size - n
        /\ storage' = storage
        /\ ret' = Returns(Call("consume", n, 0), TRUE, NoData)
    <3>1. ~(read_size < n)
      BY <1>2, SpaceAssumption DEF TypeOK
    <3> QED BY <3>1 DEF consume
  <2>2. read_offset' = Ring(read_offset + n)
    <3>1. read_offset + n \in Nat /\ read_offset + n < 2 * TotalSpace
      BY <1>2, SpaceAssumption DEF TypeOK, Idx
    <3> QED BY <2>1, <3>1, RingIsMod
  <2>3. ASSUME NEW i \in 0..(read_size - n - 1)
        PROVE  Content'[i] = Content[i + n]
    <3>1. i + n \in 0..(read_size - 1) /\ i \in 0..(read_size' - 1)
      BY <1>2, <2>1, SpaceAssumption DEF TypeOK
    <3>2. Content[i + n] = storage[Ring(read_offset + (i + n))]
      BY <3>1, ContentAt
    <3>3. Content'[i] = storage[(read_offset' + i) % TotalSpace]
      BY <2>1, <3>1 DEF Content
    <3>4. /\ read_offset' + i \in Nat
          /\ read_offset' + i < 2 * TotalSpace
          /\ Ring(read_offset' + i) = Ring(read_offset + (i + n))
      BY <1>2, <2>2, SpaceAssumption DEF TypeOK, Idx, Ring
    <3> QED BY <3>2, <3>3, <3>4, RingIsMod
  <2>4. Content' = [i \in 0..(read_size - n - 1) |-> Content[i + n]]
    <3>1. Content' = [i \in 0..(read_size - n - 1) |-> Content'[i]]
      BY <2>1 DEF Content
    <3> QED BY <2>3, <3>1
  <2> QED BY <1>2, <2>1, <2>4 DEF Fifo!DropFront, Fifo!Answer, Fifo!Result, Returns,
             Fifo!Call, Call, Fifo!NoData, NoData
<1> QED BY <1>1, <1>2, SpaceAssumption DEF TypeOK

\* memfault_circular_buffer_consume_from_end drops the newest bytes.
LEMMA ConsumeFromEndStep ==
  ASSUME TypeOK, NEW n \in 0..MaxLen, consume_from_end(n)
  PROVE  Fifo!DropEnd(n)
<1>1. CASE read_size < n
  <2>1. /\ ret' = Returns(Call("consume_from_end", n, 0), FALSE, NoData)
        /\ UNCHANGED <<read_offset, read_size, storage>>
    <3>1. ~(read_size >= n)
      BY <1>1, SpaceAssumption DEF TypeOK
    <3> QED BY <3>1 DEF consume_from_end, Fails
  <2>2. Content' = Content
    BY <2>1 DEF Content
  <2>3. ~(n <= read_size)
    BY <1>1, SpaceAssumption DEF TypeOK
  <2> QED BY <2>1, <2>2, <2>3 DEF Fifo!DropEnd, Fifo!Answer, Fifo!Result, Returns,
             Fifo!Call, Call, Fifo!NoData, NoData
<1>2. CASE n <= read_size
  <2>1. /\ read_size' = read_size - n
        /\ UNCHANGED <<read_offset, storage>>
        /\ ret' = Returns(Call("consume_from_end", n, 0), TRUE, NoData)
    <3>1. ~(read_size < n)
      BY <1>2, SpaceAssumption DEF TypeOK
    <3> QED BY <3>1 DEF consume_from_end
  <2>2. Content' = [i \in 0..(read_size - n - 1) |-> Content[i]]
    <3>1. \A i \in 0..(read_size - n - 1) : i \in 0..(read_size - 1)
      BY <1>2, SpaceAssumption DEF TypeOK
    <3> QED BY <2>1, <3>1 DEF Content
  <2> QED BY <1>2, <2>1, <2>2 DEF Fifo!DropEnd, Fifo!Answer, Fifo!Result, Returns,
             Fifo!Call, Call, Fifo!NoData, NoData
<1> QED BY <1>1, <1>2, SpaceAssumption DEF TypeOK

\* memfault_circular_buffer_read returns the queue's bytes.
LEMMA ReadStep ==
  ASSUME TypeOK, NEW n \in 0..MaxLen, NEW k \in 0..MaxLen, read(k, n)
  PROVE  Fifo!Peek("read", k, n)
<1>1. Content' = Content /\ UNCHANGED <<read_offset, read_size, storage>>
  BY DEF read, Fails, Content
<1>2. CASE read_size < k + n
  <2>1. ~(read_size >= k + n) /\ ~(k + n <= read_size)
    BY <1>2, SpaceAssumption DEF TypeOK
  <2>2. ret' = Returns(Call("read", k, n), FALSE, NoData)
    BY <2>1 DEF read, Fails
  <2> QED BY <1>1, <2>1, <2>2 DEF Fifo!Peek, Fifo!Answer, Fifo!Result, Returns,
             Fifo!Call, Call, Fifo!NoData, NoData
<1>3. CASE k + n <= read_size
  <2>1. ~(read_size < k + n)
    BY <1>3, SpaceAssumption DEF TypeOK
  <2>2. ret' = Returns(Call("read", k, n), TRUE, CopyOut((read_offset + k) % TotalSpace, n))
    BY <2>1 DEF read
  <2>3. (read_offset + k) % TotalSpace = Ring(read_offset + k)
    <3>1. read_offset + k \in Nat /\ read_offset + k < 2 * TotalSpace
      BY <1>3, SpaceAssumption DEF TypeOK, Idx
    <3> QED BY <3>1, RingIsMod
  <2>4. ASSUME NEW i \in 0..(n - 1)
        PROVE  CopyOut(Ring(read_offset + k), n)[i] = Content[k + i]
    <3>1. k + i \in 0..(read_size - 1) /\ k \in Nat /\ n \in Nat
      BY <1>3, SpaceAssumption DEF TypeOK
    <3> QED BY <1>3, <3>1, ContentAt, CopyOutAt
  <2>5. CopyOut(Ring(read_offset + k), n) = [i \in 0..(n - 1) |-> Content[k + i]]
    <3>1. CopyOut(Ring(read_offset + k), n) =
            [i \in 0..(n - 1) |-> CopyOut(Ring(read_offset + k), n)[i]]
      BY DEF CopyOut
    <3> QED BY <2>4, <3>1
  <2> QED BY <1>1, <1>3, <2>2, <2>3, <2>5 DEF Fifo!Peek, Fifo!Answer, Fifo!Result, Returns,
             Fifo!Call, Call
<1> QED BY <1>2, <1>3, SpaceAssumption DEF TypeOK

\* The two runs of a callback read: they cover the request, and byte i comes from
\* position offset + i of the queue.
LEMMA PointerRing ==
  ASSUME TypeOK, NEW k \in Nat, k <= read_size
  PROVE  PointerIdx(k) = Ring(read_offset + k) /\ Ring(read_offset + k) \in Idx
<1>1. read_offset + k \in Nat /\ read_offset + k < 2 * TotalSpace
  BY SpaceAssumption DEF TypeOK, Idx
<1> QED BY <1>1, RingIsMod DEF PointerIdx

LEMMA RunsCover ==
  ASSUME TypeOK, NEW n \in Nat, NEW k \in Nat, k + n <= read_size
  PROVE  /\ FirstRun(k, n) \in 0..n
         /\ FirstRun(k, n) <= TotalSpace - Ring(read_offset + k)
         /\ FirstRun(k, n) < n => Ring(read_offset + (k + FirstRun(k, n))) = 0
         /\ FirstRun(k, n) + SecondRun(k, n) = n
<1> DEFINE first == FirstRun(k, n)
<1>1. PointerIdx(k) = Ring(read_offset + k) /\ Ring(read_offset + k) \in Idx
  BY SpaceAssumption, PointerRing DEF TypeOK
<1>2. /\ first \in 0..n
      /\ first <= TotalSpace - Ring(read_offset + k)
      /\ first < n => first = TotalSpace - Ring(read_offset + k)
  BY <1>1, SpaceAssumption DEF FirstRun, PointerLen, Least, TypeOK, Idx
<1>3. first < n => Ring(read_offset + (k + first)) = 0
  BY <1>2, SpaceAssumption DEF Ring, TypeOK, Idx
<1>4. k + first \in Nat /\ k + first <= read_size
  BY <1>2, SpaceAssumption DEF TypeOK
<1>5. PointerIdx(k + first) = Ring(read_offset + (k + first))
  BY <1>4, PointerRing
<1>6. SecondRun(k, n) = Least(n - first, Least(TotalSpace - PointerIdx(k + first), read_size - (k + first)))
  BY DEF SecondRun, PointerLen
<1>7. CASE first < n
  <2>1. PointerIdx(k + first) = 0
    BY <1>3, <1>5, <1>7
  <2> QED BY <1>2, <1>3, <1>6, <1>7, <2>1, SpaceAssumption DEF Least, TypeOK
<1>8. CASE first = n
  <2>1. PointerIdx(k + first) \in Idx
    BY <1>4, <1>5, PointerRing
  <2> QED BY <1>2, <1>6, <1>8, <2>1, SpaceAssumption DEF Least, TypeOK, Idx
<1> QED BY <1>2, <1>7, <1>8

LEMMA RunsAt ==
  ASSUME TypeOK, NEW n \in Nat, NEW k \in Nat, k + n <= read_size, NEW i \in 0..(n - 1)
  PROVE  Runs(k, n)[i] = storage[Ring(read_offset + (k + i))]
<1> DEFINE first == FirstRun(k, n)
<1>1. /\ first \in 0..n
      /\ first <= TotalSpace - Ring(read_offset + k)
      /\ first < n => Ring(read_offset + (k + first)) = 0
  BY RunsCover
<1>2. CASE i < first
  <2>1. PointerIdx(k) = Ring(read_offset + k)
    BY PointerRing, SpaceAssumption DEF TypeOK
  <2>2. Ring(read_offset + k) + i = Ring(read_offset + (k + i))
    BY <1>1, <1>2, SpaceAssumption DEF Ring, TypeOK, Idx
  <2> QED BY <1>2, <2>1, <2>2 DEF Runs
<1>3. CASE ~(i < first)
  <2>1. first < n /\ k + first \in Nat /\ k + first <= read_size
    BY <1>1, <1>3, SpaceAssumption DEF TypeOK
  <2>2. PointerIdx(k + first) = 0
    BY <1>1, <2>1, PointerRing
  <2>3. i - first = Ring(read_offset + (k + i))
    BY <1>1, <1>3, <2>1, SpaceAssumption DEF Ring, TypeOK, Idx
  <2>4. 0 + (i - first) = i - first
    BY <1>1
  <2> QED BY <1>3, <2>2, <2>3, <2>4 DEF Runs
<1> QED BY <1>2, <1>3

\* memfault_circular_buffer_read_with_callback hands over the queue's bytes, in
\* at most two runs, and never fails once the length check has passed.
LEMMA ReadWithCallbackStep ==
  ASSUME TypeOK, NEW n \in 0..MaxLen, NEW k \in 0..MaxLen, read_with_callback(k, n)
  PROVE  Fifo!Peek("read_with_callback", k, n)
<1>1. Content' = Content /\ UNCHANGED <<read_offset, read_size, storage>>
  BY DEF read_with_callback, Fails, Content
<1>2. CASE read_size < k + n
  <2>1. ~(read_size >= k + n) /\ ~(k + n <= read_size)
    BY <1>2, SpaceAssumption DEF TypeOK
  <2>2. ret' = Returns(Call("read_with_callback", k, n), FALSE, NoData)
    BY <2>1 DEF read_with_callback, Fails
  <2> QED BY <1>1, <2>1, <2>2 DEF Fifo!Peek, Fifo!Answer, Fifo!Result, Returns,
             Fifo!Call, Call, Fifo!NoData, NoData
<1>3. CASE k + n <= read_size
  <2>1. ~(read_size < k + n) /\ n \in Nat /\ k \in Nat
    BY <1>3, SpaceAssumption DEF TypeOK
  <2>2. ret' = Returns(Call("read_with_callback", k, n),
                       FirstRun(k, n) + SecondRun(k, n) = n, Runs(k, n))
    BY <2>1 DEF read_with_callback
  <2>3. (FirstRun(k, n) + SecondRun(k, n) = n) = TRUE
    BY <1>3, <2>1, RunsCover
  <2>4. ASSUME NEW i \in 0..(n - 1)
        PROVE  Runs(k, n)[i] = Content[k + i]
    <3>1. k + i \in 0..(read_size - 1)
      BY <1>3, <2>1, SpaceAssumption DEF TypeOK
    <3> QED BY <1>3, <2>1, <3>1, ContentAt, RunsAt
  <2>5. Runs(k, n) = [i \in 0..(n - 1) |-> Content[k + i]]
    <3>1. Runs(k, n) = [i \in 0..(n - 1) |-> Runs(k, n)[i]]
      BY DEF Runs
    <3> QED BY <2>4, <3>1
  <2>6. ret' = Returns(Call("read_with_callback", k, n), TRUE, [i \in 0..(n - 1) |-> Content[k + i]])
    BY <2>2, <2>3, <2>5
  <2> QED BY <1>1, <1>3, <2>6 DEF Fifo!Peek, Fifo!Answer, Fifo!Result, Returns,
             Fifo!Call, Call
<1> QED BY <1>2, <1>3, SpaceAssumption DEF TypeOK

-------------------------------------------------------------------------------
\* The ring implements the byte queue (ImplementsFifo): for every storage size
\* and every sequence of calls of memfault_circular_buffer.c, what a call returns
\* and leaves behind is what a plain queue of bytes would.
THEOREM RingIsQueue == Spec => ImplementsFifo
<1>1. Init => Fifo!Init
  <2> SUFFICES ASSUME Init PROVE Fifo!Init
    OBVIOUS
  <2>1. Content = NoData
    BY DEF Init, Content, NoData
  <2> QED BY <2>1 DEF Init, Fifo!Init, Fifo!Result, Returns, Fifo!Call, Call, Fifo!NoData, NoData
<1>2. TypeOK /\ TypeOK' /\ [Next]_vars => [Fifo!Next]_Fifo!fifo
  <2> SUFFICES ASSUME TypeOK, TypeOK', [Next]_vars PROVE [Fifo!Next]_Fifo!fifo
    OBVIOUS
  <2>1. ASSUME NEW n \in 0..MaxLen, NEW k \in 0..MaxLen, NEW d \in [0..(n - 1) -> Byte],
               write_at_offset(n, d, k)
        PROVE  Fifo!Next
    BY <2>1, WriteStep DEF Fifo!Next
  <2>2. ASSUME NEW n \in 0..MaxLen, NEW k \in 0..MaxLen, consume(n)
        PROVE  Fifo!Next
    BY <2>2, ConsumeStep DEF Fifo!Next
  <2>3. ASSUME NEW n \in 0..MaxLen, NEW k \in 0..MaxLen, consume_from_end(n)
        PROVE  Fifo!Next
    BY <2>3, ConsumeFromEndStep DEF Fifo!Next
  <2>4. ASSUME NEW n \in 0..MaxLen, NEW k \in 0..MaxLen, read(k, n)
        PROVE  Fifo!Next
    BY <2>4, ReadStep DEF Fifo!Next
  <2>5. ASSUME NEW n \in 0..MaxLen, NEW k \in 0..MaxLen, read_with_callback(k, n)
        PROVE  Fifo!Next
    BY <2>5, ReadWithCallbackStep DEF Fifo!Next
  <2>6. CASE UNCHANGED vars
    BY <2>6 DEF vars, Fifo!fifo, Content
  <2> QED BY <2>1, <2>2, <2>3, <2>4, <2>5, <2>6 DEF Next
<1> QED BY <1>1, <1>2, TypeCorrect, PTL DEF Spec, ImplementsFifo, Fifo!Spec
===============================================================================

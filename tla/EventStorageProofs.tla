-------------------------- MODULE EventStorageProofs --------------------------
(* What EventStorage promises of the buffer, of an event reported stored, of the    *)
(* messages sent and persisted and of the order of events, for every size of the    *)
(* buffer and of the events, any number of events, tasks, drains and resets, and    *)
(* every order of their steps, as long as tasks record one at a time (Careful) and, *)
(* for the last two, what is looked at is what is read (Unshared).                  *)
EXTENDS EventStorage, Integers, FiniteSetTheorems, SequenceTheorems, WellFoundedInduction, TLAPS

-------------------------------------------------------------------------------
(* Induction, over a set instead of an operator                                 *)

LEMMA LeastNatural ==
  ASSUME NEW S \in SUBSET Nat, S # {}
  PROVE  \E x \in S : \A y \in S : x <= y
<1>1. PICK x \in S : \A y \in S : <<y, x>> \notin OpToRel(<, Nat)
  BY NatLessThanWellFounded, WFMin
<1>2. \A y \in S : ~(y < x)
  BY <1>1, Zenon DEF OpToRel
<1> QED
  BY <1>2

LEMMA SetInduction ==
  ASSUME NEW T \in SUBSET Nat, 0 \in T, \A n \in T : n + 1 \in T
  PROVE  \A n \in Nat : n \in T
<1> SUFFICES ASSUME Nat \ T # {} PROVE FALSE
  OBVIOUS
<1>1. PICK x \in Nat \ T : \A y \in Nat \ T : x <= y
  BY LeastNatural
<1>2. x # 0 /\ x - 1 \in Nat /\ x - 1 < x
  BY <1>1
<1>3. x - 1 \in T
  BY <1>1, <1>2
<1>4. (x - 1) + 1 \in T /\ (x - 1) + 1 = x
  BY <1>3, <1>2
<1> QED
  BY <1>4

-------------------------------------------------------------------------------
(* Records in a sequence of cells                                               *)

Cells == [ev : Nat, idx : Nat, total_size : Nat]

\* A header at i has its payload after it within the first p cells, then another header.
WholeAt(b, p, i) ==
  /\ b[i].total_size > 1 /\ i + b[i].total_size <= p + 1
  /\ \A j \in 1..(b[i].total_size - 1) : b[i + j] = Cell(b[i].ev, j, b[i].total_size - 1)
  /\ i + b[i].total_size <= p => b[i + b[i].total_size].idx = 0

\* Payload at i has its header before it.
PartAt(b, i) ==
  /\ b[i].idx < i /\ b[i].idx <= b[i].total_size
  /\ b[i - b[i].idx] = Cell(b[i].ev, 0, b[i].total_size + 1)

\* The first p cells are whole records.
Records(b, p) ==
  /\ p <= Len(b)
  /\ p > 0 => b[1].idx = 0
  /\ \A i \in 1..p : IF b[i].idx = 0 THEN WholeAt(b, p, i) ELSE PartAt(b, i)

\* A record, or the end of the records, is off cells into them.
Starts(b, p, off) == off <= p /\ (off < p => b[off + 1].idx = 0)

LEMMA CellIs ==
  ASSUME NEW b \in Seq(Cells), NEW i \in 1..Len(b)
  PROVE  b[i] \in Cells /\ b[i].ev \in Nat /\ b[i].idx \in Nat /\ b[i].total_size \in Nat
<1>1. b[i] \in Cells
  OBVIOUS
<1> QED BY <1>1 DEF Cells

LEMMA CellTyped ==
  ASSUME NEW e \in Nat, NEW i \in Nat, NEW n \in Nat
  PROVE  /\ Cell(e, i, n) \in Cells /\ Cell(e, i, n).ev = e
         /\ Cell(e, i, n).idx = i /\ Cell(e, i, n).total_size = n
  BY DEF Cell, Cells

\* Records depend on their own cells only.
LEMMA RecordsSame ==
  ASSUME NEW b \in Seq(Cells), NEW c \in Seq(Cells), NEW p \in Nat,
         Records(b, p), p <= Len(c), \A i \in 1..p : c[i] = b[i]
  PROVE  Records(c, p) /\ \A off \in Nat : Starts(b, p, off) => Starts(c, p, off)
<1>0. p <= Len(b) /\ Len(b) \in Nat /\ Len(c) \in Nat
  BY DEF Records
<1>1. ASSUME NEW i \in 1..p PROVE IF c[i].idx = 0 THEN WholeAt(c, p, i) ELSE PartAt(c, i)
  <2>0. /\ c[i] = b[i] /\ i \in 1..Len(b) /\ i \in Nat
        /\ b[i].idx \in Nat /\ b[i].total_size \in Nat /\ b[i].ev \in Nat
    BY <1>0, <1>1, CellIs
  <2>1. CASE c[i].idx = 0
    <3>1. WholeAt(b, p, i)
      BY <2>0, <2>1 DEF Records
    <3>2. \A j \in 1..(b[i].total_size - 1) : i + j \in 1..p /\ c[i + j] = b[i + j]
      <4> DEFINE t == b[i].total_size
      <4>1. t \in Nat /\ i + t <= p + 1
        BY <2>0, <3>1 DEF WholeAt
      <4> HIDE DEF t
      <4>2. \A j \in 1..(t - 1) : i + j \in 1..p
        BY <2>0, <4>1
      <4>3. \A j \in 1..(t - 1) : c[i + j] = b[i + j]
        BY <4>2
      <4> QED BY <4>2, <4>3 DEF t
    <3>3. i + b[i].total_size <= p => c[i + b[i].total_size] = b[i + b[i].total_size]
      BY <2>0
    <3> QED BY <2>0, <2>1, <3>1, <3>2, <3>3 DEF WholeAt
  <2>2. CASE c[i].idx # 0
    <3>1. PartAt(b, i)
      BY <2>0, <2>2 DEF Records
    <3>2. i - b[i].idx \in 1..p
      BY <2>0, <3>1 DEF PartAt
    <3> QED BY <2>0, <2>2, <3>1, <3>2 DEF PartAt
  <2> QED BY <2>1, <2>2
<1>2. p > 0 => c[1].idx = 0
  BY DEF Records
<1>3. ASSUME NEW off \in Nat, Starts(b, p, off) PROVE Starts(c, p, off)
  <2>1. off < p => off + 1 \in 1..p
    OBVIOUS
  <2> QED BY <1>3, <2>1 DEF Starts
<1> QED BY <1>1, <1>2, <1>3 DEF Records

\* What is left when records are taken from the front.
LEMMA RecordsDropped ==
  ASSUME NEW b \in Seq(Cells), NEW p \in Nat, NEW r \in Nat, Records(b, p), Starts(b, p, r)
  PROVE  LET c == SubSeq(b, r + 1, Len(b))
         IN /\ c \in Seq(Cells) /\ Len(c) = Len(b) - r /\ p - r \in Nat
            /\ \A i \in 1..Len(c) : c[i] = b[r + i]
            /\ Records(c, p - r)
<1> DEFINE c == SubSeq(b, r + 1, Len(b))
<1>0. p <= Len(b) /\ r <= p /\ Len(b) \in Nat /\ p - r \in Nat
  BY DEF Records, Starts
<1>1. c \in Seq(Cells) /\ Len(c) = Len(b) - r /\ \A i \in 1..Len(c) : c[i] = b[r + i]
  BY <1>0
<1> HIDE DEF c
<1>2. ASSUME NEW i \in 1..(p - r)
      PROVE IF c[i].idx = 0 THEN WholeAt(c, p - r, i) ELSE PartAt(c, i)
  <2>0. /\ r + i \in 1..p /\ i \in 1..Len(c) /\ r + i \in 1..Len(b) /\ c[i] = b[r + i] /\ i \in Nat
        /\ b[r + i].idx \in Nat /\ b[r + i].total_size \in Nat /\ b[r + i].ev \in Nat
    <3>1. r + i \in 1..p /\ i \in 1..Len(c) /\ r + i \in 1..Len(b) /\ i \in Nat
      BY <1>0, <1>1, <1>2
    <3> QED BY <3>1, <1>1, CellIs
  <2>1. CASE c[i].idx = 0
    <3> DEFINE t == b[r + i].total_size
    <3>1. WholeAt(b, p, r + i)
      BY <2>0, <2>1 DEF Records
    <3>2. /\ t \in Nat /\ t > 1 /\ (r + i) + t <= p + 1
          /\ \A j \in 1..(t - 1) : b[(r + i) + j] = Cell(b[r + i].ev, j, t - 1)
          /\ (r + i) + t <= p => b[(r + i) + t].idx = 0
      BY <2>0, <3>1 DEF WholeAt
    <3>3. c[i].total_size = t /\ c[i].ev = b[r + i].ev
      BY <2>0
    <3> HIDE DEF t
    <3>4. \A j \in 1..(t - 1) : i + j \in 1..Len(c) /\ r + (i + j) = (r + i) + j
      <4> SUFFICES ASSUME NEW j \in 1..(t - 1)
                   PROVE  i + j \in 1..Len(c) /\ r + (i + j) = (r + i) + j
        OBVIOUS
      <4>1. j \in Nat /\ j >= 1 /\ j <= t - 1 /\ (r + i) + t <= p + 1 /\ t \in Nat
        BY <3>2
      <4> QED BY <1>0, <1>1, <2>0, <4>1
    <3>5. \A j \in 1..(t - 1) : c[i + j] = Cell(c[i].ev, j, t - 1)
      BY <1>1, <3>2, <3>3, <3>4
    <3>6. ASSUME i + t <= p - r PROVE c[i + t].idx = 0
      <4>1. (r + i) + t <= p /\ i + t \in 1..Len(c) /\ r + (i + t) = (r + i) + t
        BY <1>0, <1>1, <2>0, <3>2, <3>6
      <4> QED BY <1>1, <3>2, <4>1
    <3>7. i + t <= (p - r) + 1
      BY <1>0, <2>0, <3>2
    <3> QED BY <2>1, <3>2, <3>3, <3>5, <3>6, <3>7 DEF WholeAt
  <2>2. CASE c[i].idx # 0
    <3> DEFINE x == b[r + i].idx
               h == r + i - x
    <3>1. PartAt(b, r + i)
      BY <2>0, <2>2 DEF Records
    <3>2. /\ x \in Nat /\ x # 0 /\ x < r + i /\ x <= b[r + i].total_size
          /\ b[h] = Cell(b[r + i].ev, 0, b[r + i].total_size + 1)
      <4>1. b[r + i].idx \in Nat /\ b[r + i].idx # 0
        BY <2>0, <2>2
      <4> QED BY <3>1, <4>1 DEF PartAt
    <3>3. h \in 1..p /\ h \in Int
      <4>1. r + i \in 1..p /\ x \in Nat /\ x # 0 /\ x < r + i
        BY <2>0, <3>2
      <4> HIDE DEF x
      <4> QED BY <1>0, <4>1
    <3>4. b[h].idx = 0 /\ b[h].total_size = b[r + i].total_size + 1
      <4> HIDE DEF h
      <4> QED BY <3>2 DEF Cell
    <3>5. WholeAt(b, p, h)
      BY <3>3, <3>4 DEF Records
    \* The header is among what is left: else its payload would be where a record starts.
    <3>6. h > r
      <4> SUFFICES ASSUME ~(h > r) PROVE FALSE
        OBVIOUS
      <4>1. r < p /\ b[r + 1].idx = 0
        BY <1>0, <2>0 DEF Starts
      <4> DEFINE j == r + 1 - h
      <4>2. j \in 1..(b[h].total_size - 1) /\ h + j = r + 1 /\ j \in Nat
        <5> HIDE DEF x
        <5> QED BY <2>0, <3>2, <3>3, <3>4
      <4>3. b[h + j] = Cell(b[h].ev, j, b[h].total_size - 1)
        BY <3>5, <4>2 DEF WholeAt
      <4>4. b[r + 1].idx = j /\ j # 0
        BY <4>2, <4>3 DEF Cell
      <4> QED BY <4>1, <4>4
    <3>7. c[i].idx = x /\ c[i].total_size = b[r + i].total_size /\ c[i].ev = b[r + i].ev
      BY <2>0
    <3>8. i - x \in 1..Len(c) /\ r + (i - x) = h
      <4> HIDE DEF x
      <4> QED BY <1>0, <1>1, <2>0, <3>2, <3>6
    <3>9. c[i - x] = b[h]
      BY <1>1, <3>8
    <3>10. x < i
      <4> HIDE DEF x
      <4> QED BY <2>0, <3>2, <3>6
    <3> QED BY <2>2, <3>2, <3>7, <3>9, <3>10 DEF PartAt
  <2> QED BY <2>1, <2>2
<1>3. ASSUME p - r > 0 PROVE c[1].idx = 0
  <2>1. r < p /\ 1 \in 1..Len(c)
    BY <1>0, <1>1, <1>3
  <2> QED BY <1>1, <2>1 DEF Starts
<1>4. Records(c, p - r)
  BY <1>0, <1>1, <1>2, <1>3 DEF Records
<1> QED BY <1>0, <1>1, <1>4 DEF c

\* A whole record after records.
LEMMA RecordsMore ==
  ASSUME NEW b \in Seq(Cells), NEW p \in Nat, NEW k \in Nat, NEW e \in Nat,
         Records(b, p), k > 1, p + k <= Len(b), b[p + 1] = Cell(e, 0, k),
         \A j \in 1..(k - 1) : b[p + 1 + j] = Cell(e, j, k - 1)
  PROVE  /\ Records(b, p + k)
         /\ \A off \in Nat : Starts(b, p, off) => Starts(b, p + k, off)
<1>0. Len(b) \in Nat /\ b[p + 1].idx = 0 /\ b[p + 1].total_size = k /\ b[p + 1].ev = e
  <2>1. Cell(e, 0, k).idx = 0 /\ Cell(e, 0, k).total_size = k /\ Cell(e, 0, k).ev = e
    BY DEF Cell
  <2> QED BY <2>1
<1>1. ASSUME NEW i \in 1..(p + k) PROVE IF b[i].idx = 0 THEN WholeAt(b, p + k, i) ELSE PartAt(b, i)
  <2>0. i \in 1..Len(b) /\ i \in Nat /\ b[i].idx \in Nat /\ b[i].total_size \in Nat
    BY <1>1, <1>0, CellIs
  <2>1. CASE i <= p /\ b[i].idx = 0
    <3>1. WholeAt(b, p, i)
      BY <2>0, <2>1 DEF Records
    <3> DEFINE t == b[i].total_size
    <3>2. t \in Nat /\ t > 1 /\ i + t <= p + 1 /\ (i + t <= p => b[i + t].idx = 0)
      BY <2>0, <3>1 DEF WholeAt
    <3>3. b[i + t].idx = 0
      <4>1. CASE i + t <= p
        BY <3>2, <4>1
      <4>2. CASE i + t > p
        <5> HIDE DEF t
        <5>1. i + t = p + 1
          BY <2>0, <3>2, <4>2
        <5> QED BY <1>0, <5>1
      <4> HIDE DEF t
      <4> QED BY <2>0, <3>2, <4>1, <4>2
    <3>4. i + t <= (p + k) + 1
      <4> HIDE DEF t
      <4> QED BY <2>0, <3>2
    <3> QED BY <2>1, <3>1, <3>2, <3>3, <3>4 DEF WholeAt
  <2>2. CASE i <= p /\ b[i].idx # 0
    BY <2>0, <2>2 DEF Records
  <2>3. CASE i = p + 1
    <3>1. ~((p + 1) + k <= p + k)
      OBVIOUS
    <3> QED BY <1>0, <2>3, <3>1 DEF WholeAt
  <2>4. CASE i > p + 1
    <3> DEFINE j == i - (p + 1)
    <3>1. j \in 1..(k - 1) /\ p + 1 + j = i /\ i - j = p + 1 /\ j \in Nat /\ k - 1 \in Nat
      BY <1>1, <2>0, <2>4
    <3>2. b[i] = Cell(e, j, k - 1)
      <4> HIDE DEF j
      <4> QED BY <3>1
    <3>3. b[i].idx = j /\ b[i].total_size = k - 1 /\ b[i].ev = e
      <4> HIDE DEF j
      <4> QED BY <3>2 DEF Cell
    <3>4. (k - 1) + 1 = k
      OBVIOUS
    <3> HIDE DEF j
    <3> QED BY <3>1, <3>3, <3>4 DEF PartAt
  <2> QED BY <2>0, <2>1, <2>2, <2>3, <2>4
<1>2. b[1].idx = 0
  BY <1>0 DEF Records
<1>3. ASSUME NEW off \in Nat, Starts(b, p, off) PROVE Starts(b, p + k, off)
  BY <1>0, <1>3 DEF Starts
<1> QED BY <1>1, <1>2, <1>3 DEF Records

-------------------------------------------------------------------------------
(* The walk of prv_compute_read_state over the records                          *)

Jump(off) == IF Complete(off) THEN buf[off + 1].total_size ELSE 0
Walks(f, n) == f[0] = 0 /\ \A k \in 1..n : f[k] = f[k - 1] + Jump(f[k - 1])

LEMMA JumpIs ==
  ASSUME buf \in Seq(Cells), NEW off \in Nat
  PROVE  Jump(off) \in Nat
<1>1. CASE Complete(off)
  <2>1. off + 1 \in 1..Len(buf)
    BY <1>1 DEF Complete
  <2> QED BY <1>1, <2>1, CellIs DEF Jump
<1> QED BY <1>1 DEF Jump

LEMMA WalkMore ==
  ASSUME buf \in Seq(Cells), NEW n \in Nat, NEW f \in [Nat -> Nat], Walks(f, n)
  PROVE  \E g \in [Nat -> Nat] : Walks(g, n + 1)
<1> DEFINE v == f[n] + Jump(f[n])
           m == n + 1
<1>1. v \in Nat
  <2>1. f[n] \in Nat
    OBVIOUS
  <2>2. Jump(f[n]) \in Nat
    BY <2>1, JumpIs
  <2>3. PICK x, y \in Nat : x = f[n] /\ y = Jump(f[n])
    BY <2>1, <2>2
  <2>4. x + y \in Nat
    OBVIOUS
  <2> QED BY <2>3, <2>4
<1> HIDE DEF v
<1> DEFINE g == [f EXCEPT ![m] = v]
<1>2. g \in [Nat -> Nat] /\ g[m] = v /\ \A k \in 0..n : g[k] = f[k]
  BY <1>1
<1> HIDE DEF g
<1>3. ASSUME NEW k \in 1..m PROVE g[k] = g[k - 1] + Jump(g[k - 1])
  <2>1. CASE k = m
    <3>1. k - 1 = n /\ n \in 0..n
      BY <2>1
    <3> QED BY <1>2, <2>1, <3>1 DEF v
  <2>2. CASE k \in 1..n
    <3>1. k \in 0..n /\ k - 1 \in 0..n
      BY <2>2
    <3>2. f[k] = f[k - 1] + Jump(f[k - 1])
      BY <2>2 DEF Walks
    <3>3. g[k] = f[k] /\ g[k - 1] = f[k - 1]
      BY <1>2, <3>1
    <3> QED BY <3>2, <3>3
  <2> QED BY <2>1, <2>2
<1>4. g[0] = 0
  BY <1>2 DEF Walks
<1>5. Walks(g, m)
  BY <1>3, <1>4 DEF Walks
<1> QED BY <1>2, <1>5

LEMMA WalkExists ==
  ASSUME buf \in Seq(Cells)
  PROVE  \A n \in Nat : \E f \in [Nat -> Nat] : Walks(f, n)
<1> DEFINE T == {n \in Nat : \E f \in [Nat -> Nat] : Walks(f, n)}
<1>1. 0 \in T
  <2>1. Walks([n \in Nat |-> 0], 0)
    BY DEF Walks
  <2> QED BY <2>1
<1>2. ASSUME NEW n \in T PROVE n + 1 \in T
  <2>1. n \in Nat /\ n + 1 \in Nat /\ \E f \in [Nat -> Nat] : Walks(f, n)
    OBVIOUS
  <2>2. \E f \in [Nat -> Nat] : Walks(f, n + 1)
    <3> HIDE DEF T
    <3> QED BY <2>1, WalkMore
  <2> QED BY <2>1, <2>2
<1> HIDE DEF T
<1>3. T \in SUBSET Nat
  BY DEF T
<1>4. \A n \in Nat : n \in T
  BY <1>1, <1>2, <1>3, SetInduction
<1> QED BY <1>4 DEF T

LEMMA OffsetIs ==
  ASSUME buf \in Seq(Cells)
  PROVE  /\ Offset[0] = 0
         /\ \A k \in 1..Len(buf) : Offset[k] = Offset[k - 1] + Jump(Offset[k - 1])
<1> DEFINE n == Len(buf)
           Step(g, k) == IF k = 0 THEN 0
                         ELSE g[k - 1] + (IF Complete(g[k - 1]) THEN buf[g[k - 1] + 1].total_size ELSE 0)
<1>1. n \in Nat
  OBVIOUS
<1>2. \E g : g = [k \in 0..n |-> Step(g, k)]
  <2>1. PICK f \in [Nat -> Nat] : Walks(f, n)
    BY <1>1, WalkExists
  <2> DEFINE h == [k \in 0..n |-> f[k]]
  <2>2. ASSUME NEW k \in 0..n PROVE h[k] = Step(h, k)
    <3>1. CASE k = 0
      BY <1>1, <2>1, <3>1 DEF Walks
    <3>2. CASE k # 0
      <4>1. k \in 1..n /\ k - 1 \in 0..n
        BY <1>1, <3>2
      <4>2. f[k] = f[k - 1] + Jump(f[k - 1]) /\ h[k] = f[k] /\ h[k - 1] = f[k - 1]
        BY <2>1, <4>1 DEF Walks
      <4> HIDE DEF h
      <4> QED BY <3>2, <4>2 DEF Jump
    <3> QED BY <3>1, <3>2
  <2>3. h = [k \in 0..n |-> h[k]]
    OBVIOUS
  <2> HIDE DEF h, Step
  <2>4. h = [k \in 0..n |-> Step(h, k)]
    BY <2>2, <2>3
  <2> QED BY <2>4
<1>3. Offset = CHOOSE g : g = [k \in 0..n |-> Step(g, k)]
  BY Zenon DEF Offset
<1>4. Offset = [k \in 0..n |-> Step(Offset, k)]
  <2> HIDE DEF Step
  <2> QED BY <1>2, <1>3, Zenon
<1>5. \A k \in 0..n : Offset[k] = Step(Offset, k)
  <2> HIDE DEF Step, n
  <2> QED BY <1>4, Zenon
<1>6. ASSUME NEW k \in 1..n PROVE Offset[k] = Offset[k - 1] + Jump(Offset[k - 1])
  <2>1. k \in 0..n /\ k # 0
    BY <1>1
  <2> QED BY <1>5, <2>1 DEF Jump
<1>7. Offset[0] = 0
  <2>1. 0 \in 0..n
    BY <1>1
  <2> QED BY <1>5, <2>1
<1> QED BY <1>6, <1>7

\* The greatest of numbers up to a bound.
LEMMA MaxIsOne ==
  ASSUME NEW n \in Nat, NEW S \in SUBSET (0..n), S # {}
  PROVE  Max(S) \in S /\ \A y \in S : y <= Max(S)
<1> DEFINE T == {n - x : x \in S}
<1>1. T \in SUBSET Nat /\ T # {}
  <2>1. \A x \in S : n - x \in Nat
    OBVIOUS
  <2> QED BY <2>1
<1>2. PICK y \in T : \A z \in T : y <= z
  BY <1>1, LeastNatural
<1>3. PICK x \in S : y = n - x
  OBVIOUS
<1>4. ASSUME NEW z \in S PROVE x >= z
  <2>1. n - z \in T
    OBVIOUS
  <2>2. n - x <= n - z
    BY <1>2, <1>3, <2>1
  <2> QED BY <2>2
<1>5. \E m \in S : \A z \in S : m >= z
  BY <1>4
<1>6. Max(S) \in S /\ \A z \in S : Max(S) >= z
  <2> HIDE DEF T
  <2> QED BY <1>5 DEF Max
<1> QED BY <1>6

LEMMA NumIs ==
  ASSUME buf \in Seq(Cells)
  PROVE  LET num == ComputedReadState.num_events
         IN /\ num \in 0..Len(buf) /\ \A k \in 1..num : Taken(k)
            /\ ComputedReadState = [active_event_read_size |-> Offset[num], num_events |-> num,
                                     header_length |-> IF num > 1 THEN 1 ELSE 0]
<1> DEFINE S == {m \in 0..Len(buf) : \A k \in 1..m : Taken(k)}
           num == Max(S)
<1>1. S \in SUBSET (0..Len(buf)) /\ 0 \in S /\ Len(buf) \in Nat
  OBVIOUS
<1>2. num \in S
  <2> HIDE DEF S
  <2> QED BY <1>1, MaxIsOne
<1>3. ComputedReadState = [active_event_read_size |-> Offset[num], num_events |-> num,
                           header_length |-> IF num > 1 THEN 1 ELSE 0]
  BY DEF ComputedReadState
<1>4. ComputedReadState.num_events = num
  <2> HIDE DEF num
  <2> QED BY <1>3
<1>5. num \in 0..Len(buf) /\ \A k \in 1..num : Taken(k)
  <2> HIDE DEF num
  <2> QED BY <1>2
<1> HIDE DEF num, S
<1> QED BY <1>3, <1>4, <1>5

\* An open record begins with a header that says it is being written.
OpenAt(b, p, k, e, n) ==
  /\ p + k = Len(b)
  /\ k > 0 => b[p + 1] = Cell(e, 0, IN_PROGRESS)
  /\ \A j \in 1..(k - 1) : b[p + 1 + j] = Cell(e, j, n)

\* The walk stops at records only.
LEMMA WalkStarts ==
  ASSUME buf \in Seq(Cells), build.capacity \in Nat, Len(buf) <= build.capacity,
         NEW p \in Nat, NEW k \in Nat, NEW e, NEW n, Records(buf, p), OpenAt(buf, p, k, e, n)
  PROVE  \A i \in 0..Len(buf) : Offset[i] \in Nat /\ Starts(buf, p, Offset[i])
<1>0. Len(buf) \in Nat /\ p <= Len(buf) /\ p + k = Len(buf)
  BY DEF Records, OpenAt
<1>1. ASSUME NEW off \in Nat, Starts(buf, p, off)
      PROVE  off + Jump(off) \in Nat /\ Starts(buf, p, off + Jump(off))
  <2>1. CASE off < p
    <3>1. buf[off + 1].idx = 0 /\ off + 1 \in 1..p /\ off + 1 \in 1..Len(buf)
      BY <1>0, <1>1, <2>1 DEF Starts
    <3>2. WholeAt(buf, p, off + 1)
      BY <3>1 DEF Records
    <3> DEFINE t == buf[off + 1].total_size
    <3>3. t \in Nat /\ t > 1 /\ (off + 1) + t <= p + 1
          /\ ((off + 1) + t <= p => buf[(off + 1) + t].idx = 0)
      BY <3>1, <3>2, CellIs DEF WholeAt
    <3>4. Jump(off) \in {t, 0}
      BY DEF Jump
    <3> HIDE DEF t
    <3>5. off + t <= p /\ (off + t < p => buf[(off + t) + 1].idx = 0)
      <4>1. (off + t) + 1 = (off + 1) + t
        BY <3>3
      <4> QED BY <3>3, <4>1
    <3>6. Starts(buf, p, off + t) /\ off + t \in Nat /\ off + 0 = off
      BY <3>3, <3>5 DEF Starts
    <3> QED BY <1>1, <3>4, <3>6
  <2>2. CASE off = p
    <3>1. ~Complete(off)
      <4>1. CASE k = 0
        BY <1>0, <2>2, <4>1 DEF Complete
      <4>2. CASE k > 0
        <5>1. buf[off + 1] = Cell(e, 0, IN_PROGRESS)
          BY <2>2, <4>2 DEF OpenAt
        <5> QED BY <5>1 DEF Complete, Cell
      <4> QED BY <4>1, <4>2
    <3> QED BY <1>1, <3>1 DEF Jump
  <2> QED BY <1>1, <2>1, <2>2 DEF Starts
<1> DEFINE T == {i \in Nat : i <= Len(buf) => Offset[i] \in Nat /\ Starts(buf, p, Offset[i])}
<1>2. 0 \in T
  <2>1. Offset[0] = 0 /\ Starts(buf, p, 0)
    BY OffsetIs DEF Starts, Records
  <2> QED BY <2>1
<1>3. ASSUME NEW i \in T PROVE i + 1 \in T
  <2>1. i \in Nat /\ (i <= Len(buf) => Offset[i] \in Nat /\ Starts(buf, p, Offset[i]))
    OBVIOUS
  <2>2. CASE i + 1 <= Len(buf)
    <3>1. i + 1 \in 1..Len(buf) /\ (i + 1) - 1 = i /\ i <= Len(buf)
      BY <1>0, <2>1, <2>2
    <3>2. Offset[i + 1] = Offset[i] + Jump(Offset[i])
      BY <3>1, OffsetIs
    <3> QED BY <1>1, <2>1, <3>1, <3>2
  <2> QED BY <2>1, <2>2
<1>4. \A i \in Nat : i \in T
  <2> HIDE DEF T
  <2>1. T \in SUBSET Nat
    BY DEF T
  <2> QED BY <1>2, <1>3, <2>1, SetInduction
<1> QED BY <1>0, <1>4

-------------------------------------------------------------------------------
(* The inductive invariant                                                      *)

Encoding == [ev : Nat, n : Nat, space : Nat, done : Nat, rollback : BOOLEAN]

\* Where a task is while it writes a record, and while it looks for data or moves it.
Recording == {"begin", "header", "set_state", "space", "encode", "count", "commit", "reset_state"}
Looking == {"has_cached", "has_compute", "has_total"}
Moving == {"nv_write", "mark", "mark_consume"}
Labels == Recording \cup Looking \cup Moving \cup {"idle", "callback", "read", "mark_read", "consume"}
Calls == {"none", "source", "persist", "mark_cb"}

Typed ==
  /\ build \in Builds
  /\ buf \in Seq(Cells) /\ Len(buf) <= build.capacity
  /\ write_state \in [write_in_progress : BOOLEAN, bytes_written : Nat]
  /\ read_state \in [active_event_read_size : Nat, num_events : Nat, header_length : Nat]
  /\ pc \in [Task -> Labels] /\ ret \in [Task -> Calls]
  /\ enc \in [Writer -> Encoding]
  /\ holder \in Task \cup {None}
  /\ events \in Nat

\* A task that does not drain is asked for data by a persist only.
Asked ==
  /\ \A t \in Task \ {Drain} : pc[t] \in Looking \cup Moving => ret[t] = "persist"
  /\ pc[Drain] \in Looking => ret[Drain] \in {"source", "mark_cb", "persist"}

\* Who keeps tasks from recording at the same time.
Exclusive ==
  /\ \A t \in Task : pc[t] = "read" => t = Drain
  /\ \A w \in Writer : pc[w] # "idle" => w \in build.writers /\ (w \in build.locked => holder = w)
  /\ ~build.preemptive => \A t, u \in Task : ~AtRest(t) /\ ~AtRest(u) => t = u

\* Records, the k cells of the one being written, and a read state that ends with a record.
Layout(p, k, e, n) == /\ p \in Nat /\ Records(buf, p) /\ OpenAt(buf, p, k, e, n)
                      /\ Starts(buf, p, read_state.active_event_read_size)

\* There is room for what the encoder was told it has.
Room(w) == /\ enc[w].done <= enc[w].n /\ enc[w].done <= enc[w].space
           /\ Len(buf) + (enc[w].space - enc[w].done) <= build.capacity

\* What write_state says, and how much of the record is in the buffer, where w is.
Stage(w) ==
  /\ pc[w] \in {"begin", "header"} =>
       write_state = NoWrite /\ enc[w].done = 0 /\ enc[w].space = 0
  /\ pc[w] = "set_state" => write_state = NoWrite /\ enc[w].done = 0
  /\ pc[w] = "space" => /\ write_state = [write_in_progress |-> TRUE, bytes_written |-> 1]
                        /\ enc[w].done = 0
  /\ pc[w] = "encode" =>
       IF write_state.write_in_progress THEN write_state.bytes_written = 1 + enc[w].done /\ Room(w)
       ELSE write_state = NoWrite /\ enc[w].done = 0 /\ enc[w].space = 0
  /\ pc[w] = "count" =>
       write_state = [write_in_progress |-> TRUE, bytes_written |-> enc[w].done] /\ Room(w)
  /\ pc[w] = "commit" =>
       /\ write_state = [write_in_progress |-> TRUE, bytes_written |-> 1 + enc[w].done]
       /\ enc[w].done <= enc[w].n /\ (enc[w].rollback <=> enc[w].done < enc[w].n)
Pending(w) ==
  IF pc[w] \in {"set_state", "space"} THEN 1
  ELSE IF pc[w] \in {"count", "commit"} \/ (pc[w] = "encode" /\ write_state.write_in_progress)
  THEN 1 + enc[w].done ELSE 0

Working(w) ==
  /\ pc[w] \in Recording /\ \A v \in Writer \ {w} : pc[v] \notin Recording
  /\ enc[w].n > 0 /\ Stage(w)
  /\ Layout(Len(buf) - Pending(w), Pending(w), enc[w].ev, enc[w].n)
Resting ==
  /\ \A w \in Writer : pc[w] \notin Recording
  /\ write_state = NoWrite
  /\ Layout(Len(buf), 0, 0, 0)
Recorded == Resting \/ \E w \in Writer : Working(w)

IInv == Typed /\ Asked /\ Exclusive /\ Recorded

\* The copy made for deep sleep is of a buffer at rest: whole records, and a read state that ends with one.
SavedWell ==
  /\ backup.buf \in Seq(Cells) /\ Len(backup.buf) <= build.capacity
  /\ backup.write_state = NoWrite
  /\ backup.read_state \in [active_event_read_size : Nat, num_events : Nat, header_length : Nat]
  /\ Records(backup.buf, Len(backup.buf))
  /\ Starts(backup.buf, Len(backup.buf), backup.read_state.active_event_read_size)

LEMMA BuildIs ==
  ASSUME build \in Builds
  PROVE  /\ build.capacity \in Nat /\ build.sizes \subseteq Nat \ {0}
         /\ build.writers \subseteq Writer /\ build.locked \subseteq Writer
         /\ build.preemptive \in BOOLEAN /\ build.batching \in BOOLEAN
         /\ build.batch_max \in Nat /\ build.nv_capacity \in Nat
<1>1. build \in Build
  BY BuildAssumption
<1> QED BY <1>1 DEF Build

LEMMA TasksAre ==
  /\ \A w \in Writer : w \in Task /\ w # Drain /\ w # None
  /\ \A p \in Persister : p \in Task /\ p # Drain /\ p # None /\ p \notin Writer
  /\ Drain \in Task /\ Drain # None /\ Drain \notin Writer
  /\ Drain \notin Persister
BY TaskAssumption DEF Task

LEMMA TheWriter ==
  ASSUME Recorded, NEW w \in Writer, pc[w] \in Recording
  PROVE  Working(w)
BY DEF Recorded, Resting, Working

\* A step of task t moves t only.
LEMMA Moved ==
  ASSUME Typed, NEW t \in Task, NEW l \in Labels, Goto(t, l)
  PROVE  /\ pc' \in [Task -> Labels] /\ pc'[t] = l
         /\ \A u \in Task \ {t} : pc'[u] = pc[u]
BY DEF Typed, Goto

LEMMA EncodingIs ==
  ASSUME Typed, NEW w \in Writer
  PROVE  /\ enc[w] \in Encoding /\ enc[w].ev \in Nat /\ enc[w].n \in Nat /\ enc[w].space \in Nat
         /\ enc[w].done \in Nat /\ enc[w].rollback \in BOOLEAN
<1>1. enc[w] \in Encoding
  BY DEF Typed
<1> QED BY <1>1 DEF Encoding

LEMMA TypedFacts ==
  ASSUME Typed
  PROVE  /\ Len(buf) \in Nat /\ build.capacity \in Nat /\ read_state.active_event_read_size \in Nat
         /\ write_state.bytes_written \in Nat /\ write_state.write_in_progress \in BOOLEAN
BY BuildIs DEF Typed

-------------------------------------------------------------------------------
(* One task records at a time                                                   *)

LEMMA ExclusiveStep ==
  ASSUME Typed, Exclusive, NEW t \in Task, NEW l \in Labels, Goto(t, l), CanRun(t), build' = build,
         l = "read" => t = Drain,
         t \in Writer /\ l # "idle" =>
           t \in build.writers /\ (t \in build.locked => holder' = t),
         \A u \in Writer \ {t} : holder = u => holder' = u
  PROVE  Exclusive'
<1>1. pc'[t] = l /\ \A u \in Task \ {t} : pc'[u] = pc[u]
  BY Moved
<1>2. \A u \in Task : pc'[u] = "read" => u = Drain
  BY <1>1 DEF Exclusive
<1>3. ASSUME NEW w \in Writer, pc'[w] # "idle"
      PROVE  w \in build'.writers /\ (w \in build'.locked => holder' = w)
  BY <1>1, <1>3, TasksAre DEF Exclusive
<1>4. ASSUME ~build'.preemptive, NEW u \in Task, NEW v \in Task, ~AtRest(u)', ~AtRest(v)'
      PROVE  u = v
  <2>1. \A x \in Task \ {t} : AtRest(x)
    BY <1>4 DEF CanRun
  <2>2. \A x \in Task \ {t} : AtRest(x)'
    BY <1>1, <2>1 DEF AtRest
  <2> QED BY <1>4, <2>2
<1> QED BY <1>2, <1>3, <1>4 DEF Exclusive

\* Nobody else records when a task begins to.
LEMMA Alone ==
  ASSUME Typed, Exclusive, \A b \in Builds : Careful(b), NEW w \in build.writers, CanRun(w),
         w \in build.locked => LockFree(w)
  PROVE  \A v \in Writer \ {w} : pc[v] \notin Recording
<1> SUFFICES ASSUME NEW v \in Writer \ {w}, pc[v] \in Recording PROVE FALSE
  OBVIOUS
<1>1. w \in Task /\ v \in Task /\ v # None /\ w \in Writer
  BY TasksAre, BuildIs DEF Typed
<1>2. pc[v] # "idle" /\ ~AtRest(v)
  BY DEF Recording, AtRest
<1>3. v \in build.writers /\ (v \in build.locked => holder = v)
  BY <1>2 DEF Exclusive
<1>4. OneAtATime(build)
  BY DEF Typed, Careful
<1>5. CASE ~build.preemptive
  BY <1>1, <1>2, <1>5 DEF CanRun
<1>6. CASE build.writers \subseteq build.locked
  BY <1>1, <1>3, <1>6 DEF LockFree
<1>7. CASE \A x, y \in build.writers : x = y
  BY <1>3, <1>7
<1> QED BY <1>4, <1>5, <1>6, <1>7 DEF OneAtATime

-------------------------------------------------------------------------------
(* Steps that leave the records alone                                           *)

\* A read state that begins afresh ends with a record as well.
LEMMA ComputedIs ==
  ASSUME Typed, NEW p \in Nat, NEW k \in Nat, NEW e, NEW n, Records(buf, p), OpenAt(buf, p, k, e, n)
  PROVE  /\ ComputedReadState \in [active_event_read_size : Nat, num_events : Nat, header_length : Nat]
         /\ Starts(buf, p, ComputedReadState.active_event_read_size)
<1> DEFINE num == ComputedReadState.num_events
<1>0. buf \in Seq(Cells) /\ build.capacity \in Nat /\ Len(buf) <= build.capacity
  BY BuildIs DEF Typed
<1>1. /\ num \in 0..Len(buf)
      /\ ComputedReadState = [active_event_read_size |-> Offset[num], num_events |-> num,
                               header_length |-> IF num > 1 THEN 1 ELSE 0]
  BY <1>0, NumIs
<1>2. \A i \in 0..Len(buf) : Offset[i] \in Nat /\ Starts(buf, p, Offset[i])
  BY <1>0, WalkStarts
<1> HIDE DEF num
<1>3. Offset[num] \in Nat /\ Starts(buf, p, Offset[num]) /\ num \in Nat
  BY <1>0, <1>1, <1>2
<1>4. ComputedReadState.active_event_read_size = Offset[num]
  BY <1>1
<1> QED BY <1>1, <1>3, <1>4

LEMMA Quiet ==
  ASSUME Typed, Recorded, UNCHANGED <<build, buf, write_state, enc>>,
         \A w \in Writer : pc'[w] = pc[w] \/ (pc[w] \notin Recording /\ pc'[w] \notin Recording),
         read_state' \in {read_state, NoRead, ComputedReadState}
  PROVE  Recorded' /\ read_state' \in [active_event_read_size : Nat, num_events : Nat, header_length : Nat]
<1>1. ASSUME NEW p, NEW k \in Nat, NEW e, NEW n, Layout(p, k, e, n)
      PROVE  /\ p \in Nat /\ Records(buf', p) /\ OpenAt(buf, p, k, e, n)'
             /\ Starts(buf', p, read_state'.active_event_read_size)
             /\ read_state' \in [active_event_read_size : Nat, num_events : Nat, header_length : Nat]
  <2>1. p \in Nat /\ Records(buf, p) /\ OpenAt(buf, p, k, e, n)
        /\ Starts(buf, p, read_state.active_event_read_size)
    BY <1>1 DEF Layout
  <2>2. OpenAt(buf, p, k, e, n)'
    BY <2>1 DEF OpenAt, IN_PROGRESS
  <2>3. Starts(buf, p, NoRead.active_event_read_size)
        /\ NoRead \in [active_event_read_size : Nat, num_events : Nat, header_length : Nat]
    BY <2>1 DEF Starts, Records, NoRead
  <2>4. /\ Starts(buf, p, ComputedReadState.active_event_read_size)
        /\ ComputedReadState \in [active_event_read_size : Nat, num_events : Nat, header_length : Nat]
    BY <2>1, ComputedIs
  <2>5. Starts(buf, p, read_state'.active_event_read_size)
        /\ read_state' \in [active_event_read_size : Nat, num_events : Nat, header_length : Nat]
    BY <2>1, <2>3, <2>4, Zenon DEF Typed
  <2> QED BY <2>1, <2>2, <2>5
<1>2. CASE Resting
  <2>1. Layout(Len(buf), 0, 0, 0)
    BY <1>2 DEF Resting
  <2>2. Layout(Len(buf), 0, 0, 0)'
    BY <1>1, <2>1 DEF Layout
  <2>3. \A w \in Writer : pc'[w] \notin Recording
    BY <1>2 DEF Resting
  <2>4. Resting'
    BY <1>2, <2>2, <2>3 DEF Resting, NoWrite
  <2>5. read_state' \in [active_event_read_size : Nat, num_events : Nat, header_length : Nat]
    BY <1>1, <2>1
  <2> QED BY <2>4, <2>5 DEF Recorded
<1>3. ASSUME NEW w \in Writer, Working(w) PROVE Working(w)' /\ read_state' \in [active_event_read_size : Nat, num_events : Nat, header_length : Nat]
  <2>0. pc[w] \in Recording /\ pc'[w] = pc[w] /\ \A v \in Writer \ {w} : pc'[v] \notin Recording
    BY <1>3 DEF Working
  <2>1. Pending(w)' = Pending(w) /\ Pending(w) \in Nat
    BY <2>0, EncodingIs DEF Pending
  <2>2. Stage(w)'
    BY <1>3, <2>0 DEF Working, Stage, Room, NoWrite
  <2>3. PICK p, k, e, n : p = Len(buf) - Pending(w) /\ k = Pending(w) /\ e = enc[w].ev /\ n = enc[w].n
    OBVIOUS
  <2>4. Layout(p, k, e, n) /\ k \in Nat
    BY <1>3, <2>1, <2>3 DEF Working
  <2>5. /\ p \in Nat /\ Records(buf', p) /\ OpenAt(buf, p, k, e, n)'
        /\ Starts(buf', p, read_state'.active_event_read_size)
        /\ read_state' \in [active_event_read_size : Nat, num_events : Nat, header_length : Nat]
    BY <1>1, <2>4
  <2>6. Layout(p, k, e, n)'
    BY <2>5 DEF Layout
  <2>7. p = (Len(buf) - Pending(w))' /\ k = Pending(w)' /\ e = (enc[w].ev)' /\ n = (enc[w].n)'
    BY <2>1, <2>3
  <2>8. Layout(Len(buf) - Pending(w), Pending(w), enc[w].ev, enc[w].n)'
    BY <2>6, <2>7
  <2> QED BY <1>3, <2>0, <2>2, <2>5, <2>8 DEF Working
<1> QED BY <1>2, <1>3 DEF Recorded

\* c is b without its first r cells.
Without(b, c, r) == /\ Len(c) = Len(b) - r
                    /\ \A i \in 1..Len(c) : c[i] = b[r + i]

LEMMA OpenDropped ==
  ASSUME NEW b \in Seq(Cells), NEW c \in Seq(Cells), NEW p \in Nat, NEW k \in Nat, NEW e, NEW n,
         NEW r \in Nat, r <= p, OpenAt(b, p, k, e, n), Without(b, c, r)
  PROVE  OpenAt(c, p - r, k, e, n) /\ p - r = Len(c) - k /\ p - r \in Nat
<1> DEFINE q == p - r
<1>1. p + k = Len(b) /\ Len(c) = Len(b) - r
  BY DEF OpenAt, Without
<1>2. q \in Nat /\ r + q = p /\ Len(c) = q + k
  BY <1>1
<1> HIDE DEF q
<1>3. ASSUME k > 0 PROVE c[q + 1] = Cell(e, 0, IN_PROGRESS)
  <2>1. q + 1 \in 1..Len(c) /\ r + (q + 1) = p + 1
    BY <1>2, <1>3
  <2>2. c[q + 1] = b[p + 1]
    BY <2>1 DEF Without
  <2> QED BY <1>3, <2>2 DEF OpenAt
<1>4. ASSUME NEW j \in 1..(k - 1) PROVE c[q + 1 + j] = Cell(e, j, n)
  <2> DEFINE i == q + 1 + j
  <2>1. i \in 1..Len(c) /\ r + i = p + 1 + j
    BY <1>2
  <2> HIDE DEF i
  <2>2. c[i] = b[p + 1 + j]
    BY <2>1 DEF Without
  <2>3. b[p + 1 + j] = Cell(e, j, n)
    BY DEF OpenAt
  <2> QED BY <2>2, <2>3 DEF i
<1>5. OpenAt(c, q, k, e, n)
  BY <1>2, <1>3, <1>4 DEF OpenAt
<1>6. q = Len(c) - k
  BY <1>2
<1> QED BY <1>2, <1>5, <1>6 DEF q

\* What was read is taken from the front: whole records.
LEMMA LayoutConsumed ==
  ASSUME Typed, NEW p \in Nat, NEW k \in Nat, NEW e, NEW n, Layout(p, k, e, n), build' = build,
         NEW r \in Nat, r = read_state.active_event_read_size, buf' = ConsumeFront(buf, r), read_state' = NoRead
  PROVE  /\ buf' \in Seq(Cells) /\ Len(buf') = Len(buf) - r
         /\ p - r = Len(buf') - k
         /\ Layout(p - r, k, e, n)'
<1> DEFINE c == SubSeq(buf, r + 1, Len(buf))
<1>0. /\ Records(buf, p) /\ OpenAt(buf, p, k, e, n) /\ Starts(buf, p, r)
      /\ buf \in Seq(Cells) /\ Len(buf) \in Nat
  BY TypedFacts DEF Layout, Typed
<1>1. /\ c \in Seq(Cells) /\ Len(c) = Len(buf) - r /\ p - r \in Nat
      /\ \A i \in 1..Len(c) : c[i] = buf[r + i]
      /\ Records(c, p - r)
  BY <1>0, RecordsDropped
<1>2. p <= Len(buf) /\ r <= p /\ r <= Len(buf)
  BY <1>0 DEF Records, Starts
<1>3. buf' = c
  BY <1>2 DEF ConsumeFront
<1> HIDE DEF c
<1>4. OpenAt(c, p - r, k, e, n) /\ p - r = Len(c) - k /\ p - r \in Nat
  <2>1. Without(buf, c, r)
    BY <1>1 DEF Without
  <2> QED BY <1>0, <1>1, <1>2, <2>1, OpenDropped
<1>5. Starts(c, p - r, 0)
  BY <1>1, <1>4 DEF Starts, Records
<1>6. OpenAt(buf, p - r, k, e, n)'
  BY <1>3, <1>4 DEF OpenAt, IN_PROGRESS
<1>7. Layout(p - r, k, e, n)'
  BY <1>1, <1>3, <1>4, <1>5, <1>6 DEF Layout, NoRead
<1> QED BY <1>1, <1>3, <1>4, <1>7

LEMMA Consumed ==
  ASSUME Typed, Recorded, UNCHANGED <<build, write_state, enc>>,
         \A w \in Writer : pc'[w] = pc[w] \/ (pc[w] \notin Recording /\ pc'[w] \notin Recording),
         buf' = ConsumeFront(buf, read_state.active_event_read_size), read_state' = NoRead
  PROVE  Recorded' /\ buf' \in Seq(Cells) /\ Len(buf') <= Len(buf)
<1>0. PICK r \in Nat : r = read_state.active_event_read_size
  BY TypedFacts
<1>1. ASSUME NEW p \in Nat, NEW k \in Nat, NEW e, NEW n, Layout(p, k, e, n)
      PROVE  /\ buf' \in Seq(Cells) /\ Len(buf') = Len(buf) - r
             /\ p - r = Len(buf') - k
             /\ Layout(p - r, k, e, n)'
  BY <1>0, <1>1, LayoutConsumed
<1>2. CASE Resting
  <2>1. PICK p \in Nat : p = Len(buf)
    BY TypedFacts
  <2>2. Layout(p, 0, 0, 0)
    BY <1>2, <2>1 DEF Resting
  <2>3. buf' \in Seq(Cells) /\ Len(buf') = Len(buf) - r /\ p - r = Len(buf') - 0 /\ Layout(p - r, 0, 0, 0)'
    BY <1>1, <2>2
  <2>4. p - r = Len(buf') /\ Len(buf') <= Len(buf)
    BY <2>3, TypedFacts
  <2>5. Layout(Len(buf), 0, 0, 0)'
    BY <2>3, <2>4
  <2>6. Resting'
    BY <1>2, <2>5 DEF Resting, NoWrite
  <2> QED BY <2>3, <2>4, <2>6 DEF Recorded
<1>3. ASSUME NEW w \in Writer, Working(w)
      PROVE  Working(w)' /\ buf' \in Seq(Cells) /\ Len(buf') <= Len(buf)
  <2>0. pc[w] \in Recording /\ pc'[w] = pc[w] /\ \A v \in Writer \ {w} : pc'[v] \notin Recording
    BY <1>3 DEF Working
  <2>1. Pending(w)' = Pending(w) /\ Pending(w) \in Nat
    BY <2>0, EncodingIs DEF Pending
  <2>2. PICK p, k, e, n : p = Len(buf) - Pending(w) /\ k = Pending(w) /\ e = enc[w].ev /\ n = enc[w].n
    OBVIOUS
  <2>3. Layout(p, k, e, n) /\ k \in Nat
    BY <1>3, <2>1, <2>2 DEF Working
  <2>4. buf' \in Seq(Cells) /\ Len(buf') = Len(buf) - r /\ p - r = Len(buf') - k /\ Layout(p - r, k, e, n)'
    <3>1. p \in Nat
      BY <2>3 DEF Layout
    <3> QED BY <1>1, <2>3, <3>1
  <2>5. Len(buf') <= Len(buf)
    BY <2>4, TypedFacts
  <2>6. Stage(w)'
    <3>1. Room(w) => Room(w)'
      <4>1. Len(buf') \in Nat /\ Len(buf) \in Nat /\ build.capacity \in Nat /\ enc[w].space \in Nat /\ enc[w].done \in Nat
        BY <2>4, TypedFacts, EncodingIs
      <4> QED BY <2>5, <4>1 DEF Room
    <3> QED BY <1>3, <2>0, <3>1 DEF Working, Stage, NoWrite
  <2>7. p - r = (Len(buf) - Pending(w))' /\ k = Pending(w)' /\ e = (enc[w].ev)' /\ n = (enc[w].n)'
    BY <2>1, <2>2, <2>4
  <2>8. Layout(Len(buf) - Pending(w), Pending(w), enc[w].ev, enc[w].n)'
    BY <2>4, <2>7
  <2> QED BY <1>3, <2>0, <2>4, <2>5, <2>6, <2>8 DEF Working
<1> QED BY <1>2, <1>3 DEF Recorded

\* A task that records no record, or has recorded it, goes on.
LEMMA Onward ==
  ASSUME IInv, NEW t \in Task, NEW l \in Labels \ Recording, Goto(t, l), CanRun(t), pc[t] \notin Recording,
         UNCHANGED <<build, buf, write_state, enc, events>>,
         read_state' \in {read_state, NoRead, ComputedReadState},
         holder' \in Task \cup {None}, \A u \in Writer \ {t} : holder = u => holder' = u,
         l = "read" => t = Drain,
         t \in Writer /\ l # "idle" => pc[t] # "idle" /\ holder' = holder,
         ret' = ret \/ \E r \in {"persist", "source", "mark_cb"} : ret' = [ret EXCEPT ![t] = r],
         t # Drain /\ l \in Looking \cup Moving => ret'[t] = "persist",
         t = Drain /\ l \in Looking => ret'[t] \in {"source", "mark_cb", "persist"}
  PROVE  IInv'
<1>0. Typed /\ Asked /\ Exclusive /\ Recorded
  BY DEF IInv
<1>1. pc' \in [Task -> Labels] /\ pc'[t] = l /\ \A u \in Task \ {t} : pc'[u] = pc[u]
  BY <1>0, Moved
<1>2. Recorded' /\ read_state' \in [active_event_read_size : Nat, num_events : Nat, header_length : Nat]
  <2>1. \A w \in Writer : pc'[w] = pc[w] \/ (pc[w] \notin Recording /\ pc'[w] \notin Recording)
    BY <1>1, TasksAre
  <2> QED BY <1>0, <2>1, Quiet
<1>3. ret' \in [Task -> Calls] /\ \A u \in Task \ {t} : ret'[u] = ret[u]
  <2>1. ret \in [Task -> Calls]
    BY <1>0 DEF Typed
  <2>2. CASE ret' = ret
    BY <2>1, <2>2
  <2>3. ASSUME NEW r \in {"persist", "source", "mark_cb"}, ret' = [ret EXCEPT ![t] = r]
        PROVE  ret' \in [Task -> Calls] /\ \A u \in Task \ {t} : ret'[u] = ret[u]
    <3>1. r \in Calls
      BY DEF Calls
    <3> QED BY <2>1, <2>3, <3>1
  <2> QED BY <2>2, <2>3
<1>4. Typed'
  BY <1>0, <1>1, <1>2, <1>3 DEF Typed
<1>5. Asked'
  BY <1>0, <1>1, <1>3, TasksAre DEF Asked
<1>6. Exclusive'
  <2>1. t \in Writer /\ l # "idle" => t \in build.writers /\ (t \in build.locked => holder' = t)
    BY <1>0 DEF Exclusive
  <2> QED BY <1>0, <2>1, ExclusiveStep
<1> QED BY <1>2, <1>4, <1>5, <1>6 DEF IInv

\* What the rest of a task's step keeps.
LEMMA Return1 ==
  ASSUME Typed, NEW w \in Writer, Return(w)
  PROVE  /\ Goto(w, "idle") /\ holder' \in Task \cup {None}
         /\ \A u \in Writer \ {w} : holder = u => holder' = u
BY DEF Typed, Return

LEMMA Finishes ==
  ASSUME IInv, NEW t \in Task, CanRun(t), pc[t] \notin Recording, Finish(t),
         UNCHANGED <<build, buf, write_state, enc, events>>,
         read_state' \in {read_state, NoRead, ComputedReadState},
         ret' = ret \/ \E r \in {"persist", "source", "mark_cb"} : ret' = [ret EXCEPT ![t] = r]
  PROVE  IInv'
<1>1. Goto(t, "idle") /\ holder' \in Task \cup {None} /\ \A u \in Writer \ {t} : holder = u => holder' = u
  BY Return1 DEF Finish, IInv, Typed
<1>2. "idle" \in Labels \ Recording /\ "idle" \notin Looking \cup Moving /\ "idle" # "read"
  BY DEF Labels, Recording, Looking, Moving
<1> QED BY <1>1, <1>2, Onward

LEMMA EnabledIs ==
  ASSUME nv_event_storage_enabled
  PROVE  read_state' \in {read_state, NoRead, ComputedReadState}
BY DEF nv_event_storage_enabled

LEMMA LabelsAre ==
  /\ \A l \in {"idle", "callback", "has_cached", "has_compute", "has_total", "nv_write", "mark", "mark_consume",
               "read", "mark_read", "consume"} : l \in Labels \ Recording
  /\ \A l \in {"idle", "callback", "read", "mark_read", "consume"} : l \notin Looking \cup Moving
  /\ \A l \in {"has_cached", "has_compute", "has_total"} : l \in Looking /\ l # "read" /\ l # "idle"
  /\ \A l \in {"nv_write", "mark", "mark_consume"} : l \in Moving /\ l \notin Looking /\ l # "read" /\ l # "idle"
BY DEF Labels, Recording, Looking, Moving

-------------------------------------------------------------------------------
(* Each step of the tasks that persist or drain                                 *)

LEMMA HasDataStep ==
  ASSUME IInv, NEW t \in Task, CanRun(t), pc[t] \in Looking, UNCHANGED <<build, buf, write_state, enc, events, ret>>,
         read_state' = read_state, NEW total, AfterHasData(t, total)
  PROVE  IInv'
<1>1. /\ t # Drain => ret[t] = "persist"
      /\ ret[t] \in {"source", "mark_cb", "persist"}
  BY DEF IInv, Asked
<1>2. pc[t] \notin Recording /\ pc[t] # "idle"
  BY DEF Looking, Recording
<1>3. CASE total = 0
  BY <1>2, <1>3, Finishes DEF AfterHasData
<1>4. CASE total # 0
  <2>1. PICK l \in {"read", "callback", "nv_write"} :
           Goto(t, l) /\ holder' = holder /\ (l = "read" => ret[t] = "source")
    BY <1>1, <1>4, Zenon DEF AfterHasData
  <2>2. l \in Labels \ Recording /\ l \notin Looking /\ (l = "read" => t = Drain)
    BY <1>1, <2>1, LabelsAre
  <2>3. holder' \in Task \cup {None} /\ \A u \in Writer \ {t} : holder = u => holder' = u
    BY <2>1 DEF IInv, Typed
  <2>4. t # Drain /\ l \in Looking \cup Moving => ret'[t] = "persist"
    BY <1>1
  <2>5. /\ l = "read" => t = Drain
        /\ t \in Writer /\ l # "idle" => pc[t] # "idle" /\ holder' = holder
        /\ t = Drain /\ l \in Looking => ret'[t] \in {"source", "mark_cb", "persist"}
        /\ l \in Labels \ Recording
        /\ read_state' \in {read_state, NoRead, ComputedReadState} /\ ret' = ret
    BY <1>2, <2>1, <2>2
  <2> QED BY <1>2, <2>1, <2>3, <2>4, <2>5, Onward
<1> QED BY <1>3, <1>4

LEMMA MarkConsumeKeeps ==
  ASSUME IInv, NEW t \in Task, mark_consume(t)
  PROVE  IInv'
<1>0. /\ Typed /\ Asked /\ Exclusive /\ Recorded
      /\ CanRun(t) /\ pc[t] = "mark_consume" /\ pc[t] \notin Recording /\ pc[t] \in Moving /\ pc[t] # "idle"
      /\ UNCHANGED <<build, write_state, enc, events, ret, holder>>
      /\ buf' = ConsumeFront(buf, read_state.active_event_read_size) /\ read_state' = NoRead
  BY DEF mark_consume, At, Recording, Moving, counters, platform, IInv
<1>1. PICK l \in {"has_cached", "idle"} : Goto(t, l) /\ (l = "has_cached" => ret[t] = "persist")
  BY Zenon DEF mark_consume, AfterMark
<1>2. l \in Labels \ Recording /\ l \notin Moving /\ l # "read" /\ (l \in Looking => l = "has_cached")
  BY <1>1 DEF Labels, Recording, Looking, Moving
<1>3. pc' \in [Task -> Labels] /\ pc'[t] = l /\ \A u \in Task \ {t} : pc'[u] = pc[u]
  BY <1>0, <1>1, <1>2, Moved
<1>4. Recorded' /\ buf' \in Seq(Cells) /\ Len(buf') <= Len(buf)
  <2>1. \A w \in Writer : pc'[w] = pc[w] \/ (pc[w] \notin Recording /\ pc'[w] \notin Recording)
    BY <1>0, <1>2, <1>3, TasksAre
  <2> QED BY <1>0, <2>1, Consumed
<1>5. Typed'
  <2>1. NoRead \in [active_event_read_size : Nat, num_events : Nat, header_length : Nat]
    BY DEF NoRead
  <2>2. Len(buf') <= build'.capacity
    <3>1. Len(buf') \in Nat /\ Len(buf) \in Nat /\ build.capacity \in Nat /\ Len(buf) <= build.capacity
      BY <1>0, <1>4, TypedFacts DEF Typed
    <3> QED BY <1>0, <1>4, <3>1
  <2> QED BY <1>0, <1>3, <1>4, <2>1, <2>2 DEF Typed
<1>6. Asked'
  <2>1. t # Drain /\ l \in Looking \cup Moving => ret'[t] = "persist"
    BY <1>0, <1>1, <1>2
  <2>2. t = Drain /\ l \in Looking => ret'[t] \in {"source", "mark_cb", "persist"}
    BY <1>0, <1>1, <1>2
  <2> QED BY <1>0, <1>3, <2>1, <2>2, TasksAre DEF Asked
<1>7. Exclusive'
  <2>1. t \in Writer /\ l # "idle" => t \in build.writers /\ (t \in build.locked => holder' = t)
    BY <1>0 DEF Exclusive
  <2> QED BY <1>0, <1>1, <1>2, <2>1, ExclusiveStep
<1> QED BY <1>4, <1>5, <1>6, <1>7 DEF IInv

LEMMA PersistStepKeeps ==
  ASSUME IInv, NEW t \in Task, PersistStep(t)
  PROVE  IInv'
<1>0. /\ holder \in Task \cup {None} /\ pc[t] \in Labels
      /\ (t # Drain /\ pc[t] \in Looking \cup Moving => ret[t] = "persist")
      /\ (pc[t] \in Looking => ret[t] \in {"source", "mark_cb", "persist"})
  BY DEF IInv, Typed, Asked
<1>1. CASE request_persist_callback(t)
  <2>0. CanRun(t) /\ pc[t] = "callback" /\ pc[t] \notin Recording
        /\ UNCHANGED <<build, buf, write_state, enc, events>>
    BY <1>1 DEF request_persist_callback, At, Recording, counters
  <2>1. CASE build.sync /\ nv_event_storage_enabled /\ nv_enabled.now
    <3>1. Goto(t, "has_cached") /\ ret' = [ret EXCEPT ![t] = "persist"] /\ holder' = holder
      BY <1>1, <2>1 DEF request_persist_callback
    <3>2. ret'[t] = "persist"
      BY <3>1 DEF IInv, Typed
    <3> QED BY <1>0, <2>0, <2>1, <3>1, <3>2, EnabledIs, LabelsAre, Onward
  <2>2. CASE ~(build.sync /\ nv_event_storage_enabled /\ nv_enabled.now)
    <3>1. Finish(t) /\ ret' = ret /\ read_state' \in {read_state, NoRead, ComputedReadState}
      BY <1>1, <2>2, EnabledIs DEF request_persist_callback
    <3> QED BY <2>0, <3>1, Finishes
  <2> QED BY <2>1, <2>2
<1>2. CASE has_data_cached(t)
  <2>0. /\ CanRun(t) /\ pc[t] = "has_cached" /\ pc[t] \notin Recording /\ pc[t] \in Looking /\ pc[t] # "idle"
        /\ UNCHANGED <<build, buf, write_state, read_state, enc, events, ret>>
    BY <1>2 DEF has_data_cached, At, Recording, Looking, counters, platform, ramvars
  <2>1. CASE TotalEventSize(read_state) # 0
    BY <1>2, <2>0, <2>1, HasDataStep DEF has_data_cached
  <2>2. CASE TotalEventSize(read_state) = 0
    <3>1. Goto(t, "has_compute") /\ holder' = holder
      BY <1>2, <2>2 DEF has_data_cached
    <3> QED BY <1>0, <2>0, <3>1, LabelsAre, Onward
  <2> QED BY <2>1, <2>2
<1>3. CASE has_data_compute(t)
  <2>0. /\ CanRun(t) /\ pc[t] = "has_compute" /\ pc[t] \notin Recording /\ pc[t] \in Looking /\ pc[t] # "idle"
        /\ UNCHANGED <<build, buf, write_state, enc, events, ret, holder>>
        /\ Goto(t, "has_total") /\ read_state' = ComputedReadState
    BY <1>3 DEF has_data_compute, At, Recording, Looking, counters, platform
  <2> QED BY <1>0, <2>0, LabelsAre, Onward
<1>4. CASE has_data_total(t)
  <2>0. /\ CanRun(t) /\ pc[t] \in Looking
        /\ UNCHANGED <<build, buf, write_state, read_state, enc, events, ret>>
        /\ AfterHasData(t, TotalEventSize(read_state))
    BY <1>4 DEF has_data_total, At, Looking, counters, platform, ramvars
  <2> QED BY <2>0, HasDataStep
<1>5. CASE nv_write(t)
  <2>0. /\ CanRun(t) /\ pc[t] = "nv_write" /\ pc[t] \notin Recording /\ pc[t] \in Moving /\ pc[t] # "idle"
        /\ UNCHANGED <<build, buf, write_state, read_state, enc, events, ret>>
        /\ (Goto(t, "mark") /\ holder' = holder) \/ Finish(t)
    BY <1>5 DEF nv_write, At, Recording, Moving, counters, platform, ramvars
  <2>1. CASE Finish(t)
    BY <2>0, <2>1, Finishes
  <2>2. CASE Goto(t, "mark") /\ holder' = holder
    BY <1>0, <2>0, <2>2, LabelsAre, Onward
  <2> QED BY <2>0, <2>1, <2>2
<1>6. CASE mark_check(t)
  <2>0. /\ CanRun(t) /\ pc[t] = "mark" /\ pc[t] \notin Recording /\ pc[t] \in Moving /\ pc[t] # "idle"
        /\ UNCHANGED <<build, buf, write_state, read_state, enc, events, ret, holder>>
    BY <1>6 DEF mark_check, At, Recording, Moving, counters, platform, ramvars
  <2>1. PICK l \in {"mark_consume", "has_cached", "idle"} :
           Goto(t, l) /\ (l = "has_cached" => ret[t] = "persist")
    BY <1>6, Zenon DEF mark_check, AfterMark
  <2> QED BY <1>0, <2>0, <2>1, LabelsAre, Onward
<1>7. CASE mark_consume(t)
  BY <1>7, MarkConsumeKeeps
<1> QED BY <1>1, <1>2, <1>3, <1>4, <1>5, <1>6, <1>7 DEF PersistStep

\* The drain asks for a message, reads it and marks it read, or starts again.
LEMMA DrainKeeps ==
  ASSUME IInv, DrainStep \/ abort
  PROVE  IInv'
<1>0. /\ holder \in Task \cup {None} /\ Drain \in Task /\ Drain \notin Writer /\ ret \in [Task -> Calls]
      /\ Drain # None
  BY TasksAre DEF IInv, Typed
<1> DEFINE Go(l) == Goto(Drain, l) /\ holder' = holder
<1>1. ASSUME NEW l \in {"read", "mark_read", "consume", "mark", "idle", "has_cached"}, Goto(Drain, l), CanRun(Drain),
             pc[Drain] \notin Recording, UNCHANGED <<build, buf, write_state, enc, events, holder>>,
             read_state' \in {read_state, NoRead, ComputedReadState},
             ret' = ret \/ \E r \in {"persist", "source", "mark_cb"} : ret' = [ret EXCEPT ![Drain] = r],
             l = "has_cached" => ret'[Drain] \in {"source", "mark_cb"}
      PROVE  IInv'
  <2>1. l \in Labels \ Recording /\ (l \in Looking => l = "has_cached")
    BY <1>1, LabelsAre
  <2>2. Drain = Drain /\ l \in Looking => ret'[Drain] \in {"source", "mark_cb", "persist"}
    BY <1>1, <2>1
  <2> QED BY <1>0, <1>1, <2>1, <2>2, Onward
<1>2. CASE has_more_msgs
  <2>0. /\ CanRun(Drain) /\ pc[Drain] = "idle" /\ pc[Drain] \notin Recording
        /\ UNCHANGED <<build, buf, write_state, enc, events, holder>> /\ nv_event_storage_enabled
        /\ read_state' \in {read_state, NoRead, ComputedReadState}
    BY <1>2, EnabledIs DEF has_more_msgs, At, Recording, counters
  <2>1. CASE nv_enabled.now /\ nv = <<>>
    <3>1. UNCHANGED <<size, pc, ret>> /\ ~nv_enabled.last /\ read_state' = read_state
      BY <1>2, <2>0, <2>1 DEF has_more_msgs, nv_event_storage_enabled
    <3>2. PICK l \in Labels : l = "idle"
      BY LabelsAre
    <3>3. Goto(Drain, "idle")
      <4>1. pc \in [Task -> Labels]
        BY DEF IInv, Typed
      <4> QED BY <2>0, <3>1, <4>1 DEF Goto
    <3> QED BY <1>1, <2>0, <3>1, <3>3
  <2>2. CASE ~(nv_enabled.now /\ nv = <<>>)
    <3>1. PICK l \in {"read", "has_cached"} : Goto(Drain, l) /\ ret' = [ret EXCEPT ![Drain] = "source"]
      BY <1>2, <2>2 DEF has_more_msgs
    <3>2. ret'[Drain] = "source"
      BY <1>0, <3>1
    <3> QED BY <1>1, <2>0, <3>1, <3>2
  <2> QED BY <2>1, <2>2
<1>3. CASE mark_msg_read
  <2>0. /\ CanRun(Drain) /\ pc[Drain] = "mark_read" /\ pc[Drain] \notin Recording
        /\ UNCHANGED <<build, buf, write_state, enc, events, holder, ret>>
        /\ read_state' \in {read_state, NoRead, ComputedReadState}
    BY <1>3, EnabledIs DEF mark_msg_read, At, Recording, counters
  <2>1. PICK l \in {"consume", "mark"} : Goto(Drain, l)
    BY <1>3 DEF mark_msg_read
  <2> QED BY <1>1, <2>0, <2>1
<1>4. CASE nv_mark_read
  <2>0. /\ CanRun(Drain) /\ pc[Drain] = "consume" /\ pc[Drain] \notin Recording
        /\ UNCHANGED <<build, buf, write_state, read_state, enc, events, holder>>
        /\ Goto(Drain, "has_cached") /\ ret' = [ret EXCEPT ![Drain] = "mark_cb"]
    BY <1>4 DEF nv_mark_read, At, Recording, counters, platform, ramvars
  <2>1. ret'[Drain] = "mark_cb"
    BY <1>0, <2>0
  <2> QED BY <1>1, <2>0, <2>1
<1>5. ASSUME NEW n \in 1..(build.capacity + 1), read_msg(n) PROVE IInv'
  <2>0. /\ CanRun(Drain) /\ pc[Drain] = "read" /\ pc[Drain] \notin Recording
        /\ UNCHANGED <<build, buf, write_state, enc, events, holder, ret>>
        /\ read_state' \in {read_state, NoRead, ComputedReadState}
    BY <1>5, EnabledIs DEF read_msg, At, Recording, counters
  <2>1. PICK l \in {"read", "mark_read"} : Goto(Drain, l)
    BY <1>5 DEF read_msg
  <2> QED BY <1>1, <2>0, <2>1
<1>6. CASE abort
  <2>0. /\ CanRun(Drain) /\ pc[Drain] = "read" /\ pc[Drain] \notin Recording /\ Goto(Drain, "idle")
        /\ UNCHANGED <<build, buf, write_state, read_state, enc, events, holder, ret>>
    BY <1>6 DEF abort, At, Recording, platform, ramvars
  <2> QED BY <1>1, <2>0
<1> QED BY <1>2, <1>3, <1>4, <1>5, <1>6 DEF DrainStep

LEMMA PersistKeeps ==
  ASSUME IInv, NEW q \in Persister, persist(q)
  PROVE  IInv'
<1>0. /\ q \in Task /\ q # Drain /\ q \notin Writer /\ holder \in Task \cup {None} /\ ret \in [Task -> Calls]
      /\ pc \in [Task -> Labels]
  BY TasksAre DEF IInv, Typed
<1>1. /\ CanRun(q) /\ pc[q] = "idle" /\ pc[q] \notin Recording /\ nv_event_storage_enabled
      /\ UNCHANGED <<build, buf, write_state, enc, events, holder>>
      /\ read_state' \in {read_state, NoRead, ComputedReadState}
  BY EnabledIs DEF persist, At, Recording, counters
<1>2. CASE nv_enabled.now
  <2>1. Goto(q, "has_cached") /\ ret' = [ret EXCEPT ![q] = "persist"] /\ ret'[q] = "persist"
    BY <1>0, <1>2 DEF persist
  <2> QED BY <1>0, <1>1, <2>1, LabelsAre, Onward
<1>3. CASE ~nv_enabled.now
  <2>1. Goto(q, "idle") /\ ret' = ret
    BY <1>0, <1>1, <1>3 DEF persist, Goto
  <2> QED BY <1>0, <1>1, <2>1, LabelsAre, Onward
<1> QED BY <1>2, <1>3

-------------------------------------------------------------------------------
(* The steps of the task that records                                           *)

LEMMA MinOfTwo ==
  ASSUME NEW a \in Nat, NEW b \in Nat
  PROVE  Min({a, b}) \in {a, b} /\ Min({a, b}) <= a /\ Min({a, b}) <= b
<1>1. \E x \in {a, b} : \A y \in {a, b} : x <= y
  <2>1. CASE a <= b
    BY <2>1
  <2>2. CASE b <= a
    BY <2>2
  <2> QED BY <2>1, <2>2
<1>2. Min({a, b}) \in {a, b} /\ \A y \in {a, b} : Min({a, b}) <= y
  BY <1>1 DEF Min
<1> QED BY <1>2

LEMMA BelowMin ==
  ASSUME NEW x \in Nat, NEW a \in Nat, NEW b \in Nat, x < Min({a, b})
  PROVE  x < a /\ x < b
<1>1. PICK m : m = Min({a, b})
  OBVIOUS
<1>2. m \in Nat /\ m <= a /\ m <= b /\ x < m
  BY <1>1, MinOfTwo
<1> QED BY <1>2

LEMMA LayoutSame ==
  ASSUME NEW p, NEW k, NEW e, NEW n, Layout(p, k, e, n), UNCHANGED <<build, buf, read_state>>
  PROVE  Layout(p, k, e, n)'
<1>1. OpenAt(buf, p, k, e, n)'
  BY DEF Layout, OpenAt, IN_PROGRESS
<1> QED BY <1>1 DEF Layout

\* The record being written grows by a cell.
LEMMA LayoutMore ==
  ASSUME Typed, NEW p \in Nat, NEW k \in Nat, NEW e \in Nat, NEW n \in Nat, Layout(p, k, e, n),
         NEW c \in Cells, c = IF k = 0 THEN Cell(e, 0, IN_PROGRESS) ELSE Cell(e, k, n),
         buf' = Append(buf, c), UNCHANGED <<build, read_state>>
  PROVE  Layout(p, k + 1, e, n)' /\ buf' \in Seq(Cells) /\ Len(buf') = Len(buf) + 1
<1>0. /\ Records(buf, p) /\ OpenAt(buf, p, k, e, n) /\ Starts(buf, p, read_state.active_event_read_size)
      /\ buf \in Seq(Cells) /\ Len(buf) \in Nat /\ read_state.active_event_read_size \in Nat
  BY TypedFacts DEF Layout, Typed
<1>1. PICK b : b = Append(buf, c)
  OBVIOUS
<1>2. b \in Seq(Cells) /\ Len(b) = Len(buf) + 1
  BY <1>0, <1>1
<1>3. b[Len(buf) + 1] = c
  BY <1>0, <1>1
<1>4. \A i \in 1..Len(buf) : b[i] = buf[i]
  BY <1>0, <1>1
<1>5. p + k = Len(buf) /\ p <= Len(buf)
  BY <1>0 DEF OpenAt
<1>6. Records(b, p) /\ \A off \in Nat : Starts(buf, p, off) => Starts(b, p, off)
  <2>1. \A i \in 1..p : b[i] = buf[i]
    BY <1>0, <1>4, <1>5
  <2>2. p <= Len(b)
    BY <1>0, <1>2, <1>5
  <2> QED BY <1>0, <1>2, <2>1, <2>2, RecordsSame
<1>7. OpenAt(b, p, k + 1, e, n)
  <2>1. b[p + 1] = Cell(e, 0, IN_PROGRESS)
    <3>1. CASE k = 0
      <4>1. p + 1 = Len(buf) + 1
        BY <1>5, <3>1
      <4> QED BY <1>3, <3>1, <4>1
    <3>2. CASE k # 0
      <4>1. p + 1 \in 1..Len(buf) /\ k > 0
        BY <1>0, <1>5, <3>2
      <4>2. buf[p + 1] = Cell(e, 0, IN_PROGRESS)
        BY <1>0, <4>1 DEF OpenAt
      <4> QED BY <1>4, <4>1, <4>2
    <3> QED BY <3>1, <3>2
  <2>2. ASSUME NEW j \in 1..k PROVE b[p + 1 + j] = Cell(e, j, n)
    <3>1. CASE j = k
      <4>1. p + 1 + j = Len(buf) + 1 /\ k # 0
        BY <1>5, <3>1
      <4> QED BY <1>3, <3>1, <4>1
    <3>2. CASE j # k
      <4>1. p + 1 + j \in 1..Len(buf) /\ j \in 1..(k - 1)
        BY <1>0, <1>5, <3>2
      <4>2. buf[p + 1 + j] = Cell(e, j, n)
        BY <1>0, <4>1 DEF OpenAt
      <4> QED BY <1>4, <4>1, <4>2
    <3> QED BY <3>1, <3>2
  <2>3. p + (k + 1) = Len(b) /\ (k + 1) - 1 = k
    BY <1>0, <1>2, <1>5
  <2> QED BY <2>1, <2>2, <2>3 DEF OpenAt
<1>8. buf' = b
  BY <1>1
<1>9. OpenAt(buf, p, k + 1, e, n)'
  BY <1>7, <1>8 DEF OpenAt, IN_PROGRESS
<1>10. Layout(p, k + 1, e, n)'
  BY <1>0, <1>6, <1>8, <1>9 DEF Layout
<1> QED BY <1>2, <1>8, <1>10

\* A record with all of its payload becomes one of the records.
LEMMA LayoutCommitted ==
  ASSUME Typed, NEW p \in Nat, NEW k \in Nat, NEW e \in Nat, NEW n \in Nat, Layout(p, k, e, n), k > 1, n = k - 1,
         buf' = WriteAtOffset(buf, Cell(e, 0, k), k), UNCHANGED <<build, read_state>>
  PROVE  Layout(p + k, 0, 0, 0)' /\ buf' \in Seq(Cells) /\ Len(buf') = Len(buf) /\ p + k = Len(buf)
<1>0. /\ Records(buf, p) /\ OpenAt(buf, p, k, e, n) /\ Starts(buf, p, read_state.active_event_read_size)
      /\ buf \in Seq(Cells) /\ Len(buf) \in Nat /\ read_state.active_event_read_size \in Nat
  BY TypedFacts DEF Layout, Typed
<1>1. p + k = Len(buf) /\ k \in 1..Len(buf) /\ Len(buf) - k + 1 = p + 1 /\ p + 1 \in 1..Len(buf) /\ p <= Len(buf)
  <2>1. p + k = Len(buf)
    BY <1>0 DEF OpenAt
  <2> QED BY <1>0, <2>1
<1>2. PICK c : c = Cell(e, 0, k)
  OBVIOUS
<1>3. c \in Cells
  BY <1>2, CellTyped
<1>4. PICK b : b = [buf EXCEPT ![p + 1] = c]
  OBVIOUS
<1>5. b \in Seq(Cells) /\ Len(b) = Len(buf) /\ b[p + 1] = c /\ \A i \in 1..Len(buf) : i # p + 1 => b[i] = buf[i]
  BY <1>0, <1>1, <1>3, <1>4
<1>6. Records(b, p) /\ \A off \in Nat : Starts(buf, p, off) => Starts(b, p, off)
  <2>1. \A i \in 1..p : b[i] = buf[i]
    <3>1. \A i \in 1..p : i \in 1..Len(buf) /\ i # p + 1
      BY <1>0, <1>1
    <3> QED BY <1>5, <3>1
  <2>2. p <= Len(b)
    BY <1>1, <1>5
  <2> QED BY <1>0, <1>5, <2>1, <2>2, RecordsSame
<1>7. \A j \in 1..(k - 1) : b[p + 1 + j] = Cell(e, j, k - 1)
  <2> SUFFICES ASSUME NEW j \in 1..(k - 1) PROVE b[p + 1 + j] = Cell(e, j, k - 1)
    OBVIOUS
  <2>1. p + 1 + j \in 1..Len(buf) /\ p + 1 + j # p + 1
    BY <1>0, <1>1
  <2>2. buf[p + 1 + j] = Cell(e, j, n)
    BY <1>0 DEF OpenAt
  <2> QED BY <1>5, <2>1, <2>2
<1>8. Records(b, p + k) /\ \A off \in Nat : Starts(b, p, off) => Starts(b, p + k, off)
  <2>1. p + k <= Len(b)
    BY <1>0, <1>1, <1>5
  <2> QED BY <1>2, <1>5, <1>6, <1>7, <2>1, RecordsMore
<1>9. buf' = b
  BY <1>1, <1>2, <1>4 DEF WriteAtOffset, ReplaceAt
<1>10. OpenAt(buf, p + k, 0, 0, 0)'
  <2>1. (p + k) + 0 = Len(b)
    BY <1>0, <1>1, <1>5
  <2> QED BY <1>9, <2>1 DEF OpenAt
<1>11. Layout(p + k, 0, 0, 0)'
  BY <1>0, <1>6, <1>8, <1>9, <1>10 DEF Layout
<1> QED BY <1>1, <1>5, <1>9, <1>11

\* What was written of a record that did not fit is taken back.
LEMMA LayoutRolledBack ==
  ASSUME Typed, NEW p \in Nat, NEW k \in Nat, NEW e \in Nat, NEW n \in Nat, Layout(p, k, e, n),
         buf' = ConsumeEnd(buf, k), UNCHANGED <<build, read_state>>
  PROVE  Layout(p, 0, 0, 0)' /\ buf' \in Seq(Cells) /\ Len(buf') = p /\ p <= Len(buf)
<1>0. /\ Records(buf, p) /\ OpenAt(buf, p, k, e, n) /\ Starts(buf, p, read_state.active_event_read_size)
      /\ buf \in Seq(Cells) /\ Len(buf) \in Nat /\ read_state.active_event_read_size \in Nat
  BY TypedFacts DEF Layout, Typed
<1>1. k <= Len(buf) /\ Len(buf) - k = p /\ p <= Len(buf)
  <2>1. p + k = Len(buf)
    BY <1>0 DEF OpenAt
  <2> QED BY <1>0, <2>1
<1>2. PICK b : b = SubSeq(buf, 1, p)
  OBVIOUS
<1>3. b \in Seq(Cells) /\ Len(b) = p /\ \A i \in 1..p : b[i] = buf[i]
  BY <1>0, <1>1, <1>2
<1>4. Records(b, p) /\ \A off \in Nat : Starts(buf, p, off) => Starts(b, p, off)
  BY <1>0, <1>3, RecordsSame
<1>5. buf' = b
  BY <1>1, <1>2 DEF ConsumeEnd
<1>6. OpenAt(buf, p, 0, 0, 0)'
  BY <1>3, <1>5 DEF OpenAt
<1>7. Layout(p, 0, 0, 0)'
  BY <1>0, <1>4, <1>5, <1>6 DEF Layout
<1> QED BY <1>1, <1>3, <1>5, <1>7

LEMMA WriterTurn ==
  ASSUME IInv, NEW w \in Writer, NEW l \in Recording \cup {"idle", "callback"}, Goto(w, l), CanRun(w),
         pc[w] \in Recording, UNCHANGED <<build, ret>>, holder' = holder \/ (l = "idle" /\ Return(w))
  PROVE  /\ Working(w) /\ pc' \in [Task -> Labels] /\ pc'[w] = l /\ \A u \in Task \ {w} : pc'[u] = pc[u]
         /\ \A v \in Writer \ {w} : pc'[v] \notin Recording
         /\ Asked' /\ Exclusive' /\ holder' \in Task \cup {None}
<1>0. Typed /\ Asked /\ Exclusive /\ Recorded /\ w \in Task /\ w # Drain
  BY TasksAre DEF IInv
<1>1. l \in Labels /\ l # "read" /\ l \notin Looking \cup Moving /\ pc[w] # "idle"
  BY DEF Labels, Recording, Looking, Moving
<1>2. pc' \in [Task -> Labels] /\ pc'[w] = l /\ \A u \in Task \ {w} : pc'[u] = pc[u]
  BY <1>0, <1>1, Moved
<1>3. Working(w)
  BY <1>0, TheWriter
<1>4. \A v \in Writer \ {w} : pc'[v] \notin Recording
  BY <1>0, <1>2, <1>3, TasksAre DEF Working
<1>5. Asked'
  BY <1>0, <1>1, <1>2, TasksAre DEF Asked
<1>6. holder' \in Task \cup {None} /\ \A u \in Writer \ {w} : holder = u => holder' = u
  BY <1>0, Return1 DEF Typed
<1>7. Exclusive'
  <2>1. w \in Writer /\ l # "idle" => w \in build.writers /\ (w \in build.locked => holder' = w)
    BY <1>0, <1>1 DEF Exclusive
  <2> QED BY <1>0, <1>1, <1>6, <2>1, ExclusiveStep
<1> QED BY <1>2, <1>3, <1>4, <1>5, <1>6, <1>7

\* A task at work has a record of k cells after p cells of records.
LEMMA WorkIs ==
  ASSUME Typed, NEW w \in Writer, Working(w)
  PROVE  \E p, k, e, n \in Nat : /\ p = Len(buf) - Pending(w) /\ k = Pending(w)
                                 /\ e = enc[w].ev /\ n = enc[w].n /\ Layout(p, k, e, n)
<1>1. Pending(w) \in Nat /\ enc[w].ev \in Nat /\ enc[w].n \in Nat
  BY EncodingIs DEF Pending
<1>2. Layout(Len(buf) - Pending(w), Pending(w), enc[w].ev, enc[w].n)
  BY DEF Working
<1>3. Len(buf) - Pending(w) \in Nat
  BY <1>2 DEF Layout
<1> QED BY <1>1, <1>2, <1>3

LEMMA WorksOn ==
  ASSUME NEW w \in Writer, pc'[w] \in Recording, \A v \in Writer \ {w} : pc'[v] \notin Recording,
         enc'[w].n > 0, Stage(w)', NEW p, NEW k, NEW e, NEW n, Layout(p, k, e, n)',
         p = Len(buf') - Pending(w)', k = Pending(w)', e = enc'[w].ev, n = enc'[w].n
  PROVE  Recorded'
<1>1. Layout(Len(buf) - Pending(w), Pending(w), enc[w].ev, enc[w].n)'
  BY Zenon
<1> QED BY <1>1 DEF Working, Recorded

LEMMA Rests ==
  ASSUME \A v \in Writer : pc'[v] \notin Recording, write_state' = NoWrite,
         NEW p, Layout(p, 0, 0, 0)', p = Len(buf')
  PROVE  Recorded'
<1>1. Layout(Len(buf), 0, 0, 0)'
  BY Zenon
<1> QED BY <1>1 DEF Resting, Recorded, NoWrite

LEMMA BeginWriteKeeps ==
  ASSUME IInv, NEW w \in Writer, begin_write(w)
  PROVE  IInv'
<1>0. /\ Typed /\ CanRun(w) /\ pc[w] = "begin" /\ pc[w] \in Recording
      /\ UNCHANGED <<build, buf, write_state, read_state, enc, events, ret, holder>>
  BY DEF begin_write, At, Recording, counters, platform, ramvars, IInv
<1>1. PICK l \in {"encode", "header"} : Goto(w, l) /\ (l = "encode" => write_state.write_in_progress)
  BY DEF begin_write
<1>2. l \in Recording
  BY <1>1 DEF Recording
<1>3. /\ Working(w) /\ pc' \in [Task -> Labels] /\ pc'[w] = l
      /\ \A v \in Writer \ {w} : pc'[v] \notin Recording
      /\ Asked' /\ Exclusive'
  BY <1>0, <1>1, <1>2, WriterTurn
<1>4. write_state = NoWrite /\ enc[w].done = 0 /\ enc[w].space = 0 /\ enc[w].n > 0
  BY <1>0, <1>3 DEF Working, Stage
<1>5. l = "header"
  BY <1>1, <1>4 DEF NoWrite
<1>6. Pending(w) = 0 /\ Pending(w)' = 0 /\ Stage(w)'
  BY <1>0, <1>3, <1>4, <1>5 DEF Pending, Stage, NoWrite
<1>7. Typed'
  BY <1>0, <1>3 DEF Typed
<1>8. Recorded'
  <2>1. PICK p, k, e, n \in Nat : /\ p = Len(buf) - Pending(w) /\ k = Pending(w)
                                  /\ e = enc[w].ev /\ n = enc[w].n /\ Layout(p, k, e, n)
    BY <1>0, <1>3, WorkIs
  <2>2. Layout(p, k, e, n)'
    BY <1>0, <2>1, LayoutSame
  <2> QED BY <1>0, <1>2, <1>3, <1>4, <1>6, <2>1, <2>2, WorksOn
<1> QED BY <1>3, <1>7, <1>8 DEF IInv

LEMMA WriteHeaderKeeps ==
  ASSUME IInv, NEW w \in Writer, write_header(w)
  PROVE  IInv'
<1>0. /\ Typed /\ CanRun(w) /\ pc[w] = "header" /\ pc[w] \in Recording
      /\ UNCHANGED <<build, write_state, read_state, enc, events, ret, holder>>
      /\ Len(buf) \in Nat /\ build.capacity \in Nat
  BY TypedFacts DEF write_header, At, Recording, counters, platform, IInv
<1>1. PICK l \in {"encode", "set_state"} :
         /\ Goto(w, l)
         /\ l = "encode" => buf' = buf
         /\ l = "set_state" => Len(buf) < build.capacity /\ buf' = Append(buf, Header(enc[w].ev, IN_PROGRESS))
  BY DEF write_header
<1>2. l \in Recording
  BY <1>1 DEF Recording
<1>3. /\ Working(w) /\ pc' \in [Task -> Labels] /\ pc'[w] = l
      /\ \A v \in Writer \ {w} : pc'[v] \notin Recording
      /\ Asked' /\ Exclusive'
  BY <1>0, <1>1, <1>2, WriterTurn
<1>4. write_state = NoWrite /\ enc[w].done = 0 /\ enc[w].space = 0 /\ enc[w].n > 0
  BY <1>0, <1>3 DEF Working, Stage
<1>5. PICK p, k, e, n \in Nat : /\ p = Len(buf) - Pending(w) /\ k = Pending(w)
                                /\ e = enc[w].ev /\ n = enc[w].n /\ Layout(p, k, e, n)
  BY <1>0, <1>3, WorkIs
<1>6. k = 0
  BY <1>0, <1>5 DEF Pending
<1>7. CASE l = "encode"
  <2>1. Pending(w)' = 0 /\ Stage(w)'
    BY <1>0, <1>3, <1>4, <1>7 DEF Pending, Stage, NoWrite
  <2>2. Layout(p, k, e, n)'
    BY <1>0, <1>1, <1>5, <1>7, LayoutSame
  <2>3. Recorded'
    BY <1>0, <1>1, <1>2, <1>3, <1>4, <1>5, <1>6, <1>7, <2>1, <2>2, WorksOn
  <2>4. Typed'
    BY <1>0, <1>1, <1>3, <1>7 DEF Typed
  <2> QED BY <1>3, <2>3, <2>4 DEF IInv
<1>8. CASE l = "set_state"
  <2>1. Pending(w)' = 1 /\ Stage(w)'
    BY <1>0, <1>3, <1>4, <1>8 DEF Pending, Stage, NoWrite
  <2>2. PICK c : c = Cell(e, 0, IN_PROGRESS)
    OBVIOUS
  <2>3. c \in Cells
    BY <1>0, <2>2, CellTyped DEF IN_PROGRESS
  <2>4. buf' = Append(buf, c)
    BY <1>1, <1>5, <1>8, <2>2 DEF Header
  <2>5. Layout(p, k + 1, e, n)' /\ buf' \in Seq(Cells) /\ Len(buf') = Len(buf) + 1
    BY <1>0, <1>5, <1>6, <2>2, <2>3, <2>4, LayoutMore
  <2>6. p = Len(buf') - Pending(w)' /\ k + 1 = Pending(w)'
    BY <1>0, <1>5, <1>6, <2>1, <2>5
  <2>7. Recorded'
    BY <1>0, <1>2, <1>3, <1>4, <1>5, <2>1, <2>5, <2>6, WorksOn
  <2>8. Len(buf') <= build'.capacity
    BY <1>0, <1>1, <1>8, <2>5
  <2>9. Typed'
    BY <1>0, <1>3, <2>5, <2>8 DEF Typed
  <2> QED BY <1>3, <2>7, <2>9 DEF IInv
<1> QED BY <1>1, <1>7, <1>8

LEMMA SetWriteStateKeeps ==
  ASSUME IInv, NEW w \in Writer, set_write_state(w)
  PROVE  IInv'
<1>0. /\ Typed /\ CanRun(w) /\ pc[w] = "set_state" /\ pc[w] \in Recording /\ Goto(w, "space")
      /\ write_state' = [write_in_progress |-> TRUE, bytes_written |-> 1]
      /\ UNCHANGED <<build, buf, read_state, enc, events, ret, holder>>
  BY DEF set_write_state, At, Recording, counters, platform, IInv
<1>1. "space" \in Recording
  BY DEF Recording
<1>2. /\ Working(w) /\ pc' \in [Task -> Labels] /\ pc'[w] = "space"
      /\ \A v \in Writer \ {w} : pc'[v] \notin Recording
      /\ Asked' /\ Exclusive'
  BY <1>0, <1>1, WriterTurn
<1>3. enc[w].done = 0 /\ enc[w].n > 0
  BY <1>0, <1>2 DEF Working, Stage
<1>4. Pending(w) = 1 /\ Pending(w)' = 1 /\ Stage(w)'
  BY <1>0, <1>2, <1>3 DEF Pending, Stage
<1>5. Typed'
  BY <1>0, <1>2 DEF Typed
<1>6. Recorded'
  <2>1. PICK p, k, e, n \in Nat : /\ p = Len(buf) - Pending(w) /\ k = Pending(w)
                                  /\ e = enc[w].ev /\ n = enc[w].n /\ Layout(p, k, e, n)
    BY <1>0, <1>2, WorkIs
  <2>2. Layout(p, k, e, n)'
    BY <1>0, <2>1, LayoutSame
  <2> QED BY <1>0, <1>1, <1>2, <1>3, <1>4, <2>1, <2>2, WorksOn
<1> QED BY <1>2, <1>5, <1>6 DEF IInv

LEMMA GetWriteSizeKeeps ==
  ASSUME IInv, NEW w \in Writer, get_write_size(w)
  PROVE  IInv'
<1>0. /\ Typed /\ CanRun(w) /\ pc[w] = "space" /\ pc[w] \in Recording /\ Goto(w, "encode")
      /\ enc' = [enc EXCEPT ![w].space = build.capacity - Len(buf)]
      /\ UNCHANGED <<build, buf, write_state, read_state, events, ret, holder>>
      /\ Len(buf) \in Nat /\ build.capacity \in Nat /\ Len(buf) <= build.capacity
  BY TypedFacts DEF get_write_size, At, Recording, counters, platform, ramvars, IInv, Typed
<1>1. "encode" \in Recording
  BY DEF Recording
<1>2. /\ Working(w) /\ pc' \in [Task -> Labels] /\ pc'[w] = "encode"
      /\ \A v \in Writer \ {w} : pc'[v] \notin Recording
      /\ Asked' /\ Exclusive'
  BY <1>0, <1>1, WriterTurn
<1>3. /\ enc[w].done = 0 /\ enc[w].n > 0
      /\ write_state.write_in_progress /\ write_state.bytes_written = 1
  BY <1>0, <1>2 DEF Working, Stage
<1>4. /\ enc'[w].ev = enc[w].ev /\ enc'[w].n = enc[w].n /\ enc'[w].done = 0
      /\ enc'[w].space = build.capacity - Len(buf) /\ enc' \in [Writer -> Encoding]
  <2>1. build.capacity - Len(buf) \in Nat
    BY <1>0
  <2>2. enc \in [Writer -> Encoding] /\ enc[w] \in Encoding
    BY <1>0, EncodingIs DEF Typed
  <2>3. enc'[w] = [enc[w] EXCEPT !.space = build.capacity - Len(buf)]
    BY <1>0, <2>2
  <2> HIDE DEF Encoding
  <2>4. [enc[w] EXCEPT !.space = build.capacity - Len(buf)] \in Encoding
    BY <2>1, <2>2 DEF Encoding
  <2>5. enc' \in [Writer -> Encoding]
    BY <1>0, <2>2, <2>4
  <2> QED BY <1>3, <2>2, <2>3, <2>5 DEF Encoding
<1>5. Pending(w) = 1 /\ Pending(w)' = 1
  BY <1>0, <1>2, <1>3, <1>4 DEF Pending
<1>6. Stage(w)'
  <2>1. Len(buf) + ((build.capacity - Len(buf)) - 0) <= build.capacity /\ 0 <= build.capacity - Len(buf)
    BY <1>0
  <2>2. Room(w)'
    <3>1. 0 <= enc[w].n
      BY <1>0, EncodingIs
    <3>2. buf' = buf /\ build' = build
      BY <1>0
    <3> QED BY <1>4, <2>1, <3>1, <3>2 DEF Room
  <2>3. write_state'.write_in_progress /\ write_state'.bytes_written = 1 + enc'[w].done
    BY <1>0, <1>3, <1>4
  <2> QED BY <1>2, <2>2, <2>3 DEF Stage
<1>7. Typed'
  BY <1>0, <1>2, <1>4 DEF Typed
<1>8. Recorded'
  <2>1. PICK p, k, e, n \in Nat : /\ p = Len(buf) - Pending(w) /\ k = Pending(w)
                                  /\ e = enc[w].ev /\ n = enc[w].n /\ Layout(p, k, e, n)
    BY <1>0, <1>2, WorkIs
  <2>2. Layout(p, k, e, n)'
    BY <1>0, <2>1, LayoutSame
  <2> QED BY <1>0, <1>1, <1>2, <1>3, <1>4, <1>5, <1>6, <2>1, <2>2, WorksOn
<1> QED BY <1>2, <1>7, <1>8 DEF IInv

LEMMA CountBytesKeeps ==
  ASSUME IInv, NEW w \in Writer, count_bytes(w)
  PROVE  IInv'
<1>0. /\ Typed /\ CanRun(w) /\ pc[w] = "count" /\ pc[w] \in Recording /\ Goto(w, "encode")
      /\ write_state' = [write_state EXCEPT !.bytes_written = @ + 1]
      /\ UNCHANGED <<build, buf, read_state, enc, events, ret, holder>>
      /\ write_state.bytes_written \in Nat
      /\ write_state \in [write_in_progress : BOOLEAN, bytes_written : Nat]
  BY TypedFacts DEF count_bytes, At, Recording, counters, platform, IInv, Typed
<1>1. "encode" \in Recording
  BY DEF Recording
<1>2. /\ Working(w) /\ pc' \in [Task -> Labels] /\ pc'[w] = "encode"
      /\ \A v \in Writer \ {w} : pc'[v] \notin Recording
      /\ Asked' /\ Exclusive'
  BY <1>0, <1>1, WriterTurn
<1>3. /\ write_state = [write_in_progress |-> TRUE, bytes_written |-> enc[w].done] /\ Room(w) /\ enc[w].n > 0
      /\ enc[w].done \in Nat
  BY <1>0, <1>2, EncodingIs DEF Working, Stage
<1>4. write_state' = [write_in_progress |-> TRUE, bytes_written |-> enc[w].done + 1]
  BY <1>0, <1>3
<1>5. Pending(w) = 1 + enc[w].done /\ Pending(w)' = 1 + enc[w].done
  BY <1>0, <1>2, <1>4 DEF Pending
<1>6. Stage(w)'
  <2>1. Room(w)'
    BY <1>0, <1>3 DEF Room
  <2>2. write_state'.write_in_progress /\ write_state'.bytes_written = 1 + enc'[w].done
    BY <1>0, <1>3, <1>4
  <2> QED BY <1>2, <2>1, <2>2 DEF Stage
<1>7. Typed'
  <2>1. enc[w].done + 1 \in Nat
    BY <1>3
  <2>2. write_state' \in [write_in_progress : BOOLEAN, bytes_written : Nat]
    BY <1>4, <2>1
  <2> QED BY <1>0, <1>2, <2>2 DEF Typed
<1>8. Recorded'
  <2>1. PICK p, k, e, n \in Nat : /\ p = Len(buf) - Pending(w) /\ k = Pending(w)
                                  /\ e = enc[w].ev /\ n = enc[w].n /\ Layout(p, k, e, n)
    BY <1>0, <1>2, WorkIs
  <2>2. Layout(p, k, e, n)'
    BY <1>0, <2>1, LayoutSame
  <2> QED BY <1>0, <1>1, <1>2, <1>3, <1>5, <1>6, <2>1, <2>2, WorksOn
<1> QED BY <1>2, <1>7, <1>8 DEF IInv

\* An encoding is an encoding with a field changed.
LEMMA DoneIs ==
  ASSUME Typed, NEW w \in Writer, NEW d \in Nat, enc' = [enc EXCEPT ![w].done = d]
  PROVE  /\ enc' \in [Writer -> Encoding] /\ enc'[w].ev = enc[w].ev /\ enc'[w].n = enc[w].n
         /\ enc'[w].space = enc[w].space /\ enc'[w].done = d
<1>1. enc \in [Writer -> Encoding] /\ enc[w] \in Encoding
  BY EncodingIs DEF Typed
<1>2. enc'[w] = [enc[w] EXCEPT !.done = d]
  BY <1>1
<1>3. [enc[w] EXCEPT !.done = d] \in Encoding
  BY <1>1 DEF Encoding
<1>4. enc' \in [Writer -> Encoding]
  BY <1>1, <1>3
<1> QED BY <1>1, <1>2, <1>4 DEF Encoding

LEMMA RollbackIs ==
  ASSUME Typed, NEW w \in Writer, NEW d \in BOOLEAN, enc' = [enc EXCEPT ![w].rollback = d]
  PROVE  /\ enc' \in [Writer -> Encoding] /\ enc'[w].ev = enc[w].ev /\ enc'[w].n = enc[w].n
         /\ enc'[w].done = enc[w].done /\ enc'[w].space = enc[w].space /\ enc'[w].rollback = d
<1>1. enc \in [Writer -> Encoding] /\ enc[w] \in Encoding
  BY EncodingIs DEF Typed
<1>2. enc'[w] = [enc[w] EXCEPT !.rollback = d]
  BY <1>1
<1>3. [enc[w] EXCEPT !.rollback = d] \in Encoding
  BY <1>1 DEF Encoding
<1>4. enc' \in [Writer -> Encoding]
  BY <1>1, <1>3
<1> QED BY <1>1, <1>2, <1>4 DEF Encoding

LEMMA AppendDataKeeps ==
  ASSUME IInv, NEW w \in Writer, append_data(w)
  PROVE  IInv'
<1>0. /\ Typed /\ CanRun(w) /\ pc[w] = "encode" /\ pc[w] \in Recording
      /\ enc[w].done < Min({enc[w].n, enc[w].space})
      /\ enc' = [enc EXCEPT ![w].done = @ + 1]
      /\ UNCHANGED <<build, write_state, read_state, events, ret, holder>>
      /\ Len(buf) \in Nat /\ build.capacity \in Nat
  BY TypedFacts DEF append_data, At, Recording, counters, platform, IInv
<1>1. Working(w)
  BY <1>0, TheWriter DEF IInv
<1>2. /\ enc[w].done \in Nat /\ enc[w].n \in Nat /\ enc[w].space \in Nat /\ enc[w].ev \in Nat
  BY <1>0, EncodingIs
<1>3. enc[w].done < enc[w].n /\ enc[w].done < enc[w].space
  BY <1>0, <1>2, BelowMin
<1>4. write_state.write_in_progress /\ write_state.bytes_written = 1 + enc[w].done /\ Room(w) /\ enc[w].n > 0
  BY <1>0, <1>1, <1>2, <1>3 DEF Working, Stage
<1>5. Len(buf) < build.capacity
  <2>1. Len(buf) + (enc[w].space - enc[w].done) <= build.capacity
    BY <1>4 DEF Room
  <2> QED BY <1>0, <1>2, <1>3, <2>1
<1>6. /\ Goto(w, "count") /\ buf' = Append(buf, Payload(enc[w].ev, enc'[w].done, enc[w].n))
  BY <1>5 DEF append_data
<1>7. "count" \in Recording
  BY DEF Recording
<1>8. /\ pc' \in [Task -> Labels] /\ pc'[w] = "count"
      /\ \A v \in Writer \ {w} : pc'[v] \notin Recording
      /\ Asked' /\ Exclusive'
  BY <1>0, <1>6, <1>7, WriterTurn
<1>9. PICK d \in Nat : d = enc[w].done
  BY <1>2
<1>10. /\ enc' \in [Writer -> Encoding] /\ enc'[w].ev = enc[w].ev /\ enc'[w].n = enc[w].n
       /\ enc'[w].space = enc[w].space /\ enc'[w].done = d + 1
  <2>1. PICK x \in Nat : x = d + 1
    OBVIOUS
  <2>2. enc' = [enc EXCEPT ![w].done = x]
    BY <1>0, <1>9, <2>1
  <2>3. /\ enc' \in [Writer -> Encoding] /\ enc'[w].ev = enc[w].ev /\ enc'[w].n = enc[w].n
        /\ enc'[w].space = enc[w].space /\ enc'[w].done = x
    BY <1>0, <2>2, DoneIs
  <2> QED BY <2>1, <2>3
<1>11. PICK p, k, e, n \in Nat : /\ p = Len(buf) - Pending(w) /\ k = Pending(w)
                                 /\ e = enc[w].ev /\ n = enc[w].n /\ Layout(p, k, e, n)
  BY <1>0, <1>1, WorkIs
<1>12. k = 1 + d /\ Pending(w)' = 1 + (d + 1)
  <2>1. k = 1 + d
    BY <1>0, <1>4, <1>9, <1>11 DEF Pending
  <2>2. Pending(w)' = 1 + (d + 1)
    BY <1>8, <1>10 DEF Pending
  <2> QED BY <2>1, <2>2
<1>13. PICK c : c = Cell(e, k, n)
  OBVIOUS
<1>14. c \in Cells
  BY <1>13, CellTyped
<1>15. buf' = Append(buf, c)
  BY <1>6, <1>10, <1>11, <1>12, <1>13 DEF Payload
<1>16. Layout(p, k + 1, e, n)' /\ buf' \in Seq(Cells) /\ Len(buf') = Len(buf) + 1
  <2>1. k # 0
    BY <1>12
  <2> QED BY <1>0, <1>11, <1>13, <1>14, <1>15, <2>1, LayoutMore
<1>17. Stage(w)'
  <2>1. Room(w)'
    <3>1. Len(buf) + (enc[w].space - enc[w].done) <= build.capacity
      BY <1>4 DEF Room
    <3>2. Len(buf') + (enc[w].space - (d + 1)) <= build.capacity
      <4>1. Len(buf') = Len(buf) + 1
        BY <1>16
      <4>2. Len(buf) \in Nat /\ enc[w].space \in Nat /\ build.capacity \in Nat
        BY <1>0, <1>2
      <4>3. Len(buf) + (enc[w].space - d) <= build.capacity
        BY <1>9, <3>1
      <4>4. PICK x, y, z \in Nat : x = Len(buf) /\ y = enc[w].space /\ z = build.capacity
        BY <4>2
      <4>5. x + (y - d) <= z
        BY <4>3, <4>4
      <4>6. (x + 1) + (y - (d + 1)) <= z
        BY <4>5
      <4> QED BY <4>1, <4>4, <4>6
    <3>3. d + 1 <= enc[w].n /\ d + 1 <= enc[w].space
      BY <1>2, <1>3, <1>9
    <3> QED BY <1>0, <1>10, <3>2, <3>3 DEF Room
  <2>2. write_state' = [write_in_progress |-> TRUE, bytes_written |-> enc'[w].done]
    <3>1. write_state \in [write_in_progress : BOOLEAN, bytes_written : Nat]
      BY <1>0 DEF Typed
    <3>2. write_state.bytes_written = d + 1 /\ write_state.write_in_progress
      BY <1>4, <1>9
    <3>3. write_state = [write_in_progress |-> TRUE, bytes_written |-> d + 1]
      BY <3>1, <3>2
    <3> QED BY <1>0, <1>10, <3>3
  <2> QED BY <1>8, <2>1, <2>2 DEF Stage
<1>18. Recorded'
  <2>1. p = Len(buf') - Pending(w)' /\ k + 1 = Pending(w)'
    <3>1. p = Len(buf) - k
      BY <1>11
    <3>2. Len(buf) \in Nat /\ Len(buf') = Len(buf) + 1
      BY <1>0, <1>16
    <3> QED BY <1>12, <3>1, <3>2
  <2>2. pc'[w] \in Recording /\ enc'[w].n > 0 /\ e = enc'[w].ev /\ n = enc'[w].n
    BY <1>4, <1>7, <1>8, <1>10, <1>11
  <2> QED BY <1>8, <1>16, <1>17, <2>1, <2>2, WorksOn
<1>19. Typed'
  <2>1. Len(buf') <= build'.capacity
    BY <1>0, <1>5, <1>16
  <2> QED BY <1>0, <1>8, <1>10, <1>16, <2>1 DEF Typed
<1> QED BY <1>8, <1>18, <1>19 DEF IInv

LEMMA FinishWriteKeeps ==
  ASSUME IInv, NEW w \in Writer, finish_write(w)
  PROVE  IInv'
<1>0. /\ Typed /\ CanRun(w) /\ pc[w] = "encode" /\ pc[w] \in Recording
      /\ enc[w].done = Min({enc[w].n, enc[w].space})
      /\ enc' = [enc EXCEPT ![w].rollback = enc[w].done < enc[w].n]
      /\ UNCHANGED <<build, buf, write_state, read_state, events, ret>>
  BY DEF finish_write, At, Recording, counters, platform, ramvars, IInv
<1>1. Working(w)
  BY <1>0, TheWriter DEF IInv
<1>2. /\ enc[w].done \in Nat /\ enc[w].n \in Nat /\ enc[w].space \in Nat /\ enc[w].ev \in Nat
  BY <1>0, EncodingIs
<1>3. /\ enc' \in [Writer -> Encoding] /\ enc'[w].ev = enc[w].ev /\ enc'[w].n = enc[w].n
      /\ enc'[w].done = enc[w].done /\ enc'[w].rollback = (enc[w].done < enc[w].n)
  <2>1. PICK d \in BOOLEAN : d = (enc[w].done < enc[w].n)
    <3>1. CASE enc[w].done < enc[w].n
      <4>1. TRUE = (enc[w].done < enc[w].n)
        BY <3>1, Zenon
      <4> QED BY <4>1, Zenon
    <3>2. CASE ~(enc[w].done < enc[w].n)
      <4>1. FALSE = (enc[w].done < enc[w].n)
        BY <1>2, <3>2
      <4> QED BY <4>1, Zenon
    <3> QED BY <3>1, <3>2
  <2>2. enc' = [enc EXCEPT ![w].rollback = d]
    BY <1>0, <2>1
  <2> QED BY <1>0, <2>1, <2>2, RollbackIs
<1>4. PICK p, k, e, n \in Nat : /\ p = Len(buf) - Pending(w) /\ k = Pending(w)
                                /\ e = enc[w].ev /\ n = enc[w].n /\ Layout(p, k, e, n)
  BY <1>0, <1>1, WorkIs
<1>5. CASE write_state.write_in_progress
  <2>1. Goto(w, "commit") /\ holder' = holder
    BY <1>5 DEF finish_write
  <2>2. "commit" \in Recording
    BY DEF Recording
  <2>3. /\ pc' \in [Task -> Labels] /\ pc'[w] = "commit"
        /\ \A v \in Writer \ {w} : pc'[v] \notin Recording
        /\ Asked' /\ Exclusive' /\ holder' \in Task \cup {None}
    BY <1>0, <2>1, <2>2, WriterTurn
  <2>4. write_state.bytes_written = 1 + enc[w].done /\ Room(w) /\ enc[w].n > 0
    BY <1>0, <1>1, <1>5 DEF Working, Stage
  <2>5. Pending(w) = 1 + enc[w].done /\ Pending(w)' = 1 + enc[w].done
    BY <1>0, <1>3, <1>5, <2>3 DEF Pending
  <2>6. Stage(w)'
    <3>1. write_state = [write_in_progress |-> TRUE, bytes_written |-> 1 + enc[w].done]
      <4>1. write_state \in [write_in_progress : BOOLEAN, bytes_written : Nat]
        BY <1>0 DEF Typed
      <4> QED BY <1>5, <2>4, <4>1
    <3>2. enc[w].done <= enc[w].n
      BY <2>4 DEF Room
    <3>3. write_state' = [write_in_progress |-> TRUE, bytes_written |-> 1 + enc'[w].done] /\ enc'[w].done <= enc'[w].n
      BY <1>0, <1>3, <3>1, <3>2
    <3>4. enc'[w].rollback <=> enc'[w].done < enc'[w].n
      BY <1>3
    <3> QED BY <2>3, <3>3, <3>4 DEF Stage
  <2>7. Layout(p, k, e, n)'
    BY <1>0, <1>4, LayoutSame
  <2>8. Recorded'
    BY <1>0, <1>3, <1>4, <2>2, <2>3, <2>4, <2>5, <2>6, <2>7, WorksOn
  <2>9. Typed'
    BY <1>0, <1>3, <2>3 DEF Typed
  <2> QED BY <2>3, <2>8, <2>9 DEF IInv
<1>6. CASE ~write_state.write_in_progress
  <2>1. Return(w) /\ Goto(w, "idle")
    BY <1>6 DEF finish_write, Return
  <2>2. "idle" \notin Recording
    BY DEF Recording
  <2>3. /\ pc' \in [Task -> Labels] /\ pc'[w] = "idle"
        /\ \A v \in Writer \ {w} : pc'[v] \notin Recording
        /\ Asked' /\ Exclusive' /\ holder' \in Task \cup {None}
    BY <1>0, <2>1, WriterTurn
  <2>4. write_state = NoWrite /\ k = 0
    BY <1>0, <1>1, <1>4, <1>6 DEF Working, Stage, Pending
  <2>5. Layout(p, k, e, n)'
    BY <1>0, <1>4, LayoutSame
  <2>6. Layout(p, 0, 0, 0)' /\ p = Len(buf')
    <3>1. OpenAt(buf, p, 0, 0, 0)'
      BY <2>4, <2>5 DEF Layout, OpenAt
    <3>2. p = Len(buf')
      BY <3>1 DEF OpenAt
    <3> QED BY <2>5, <3>1, <3>2 DEF Layout
  <2>7. \A v \in Writer : pc'[v] \notin Recording
    BY <2>2, <2>3
  <2>8. Recorded'
    BY <1>0, <2>4, <2>6, <2>7, Rests
  <2>9. Typed'
    BY <1>0, <1>3, <2>3 DEF Typed
  <2> QED BY <2>3, <2>8, <2>9 DEF IInv
<1> QED BY <1>5, <1>6

LEMMA CommitOrRollbackKeeps ==
  ASSUME IInv, NEW w \in Writer, commit_or_rollback(w)
  PROVE  IInv'
<1>0. /\ Typed /\ CanRun(w) /\ pc[w] = "commit" /\ pc[w] \in Recording /\ Goto(w, "reset_state")
      /\ UNCHANGED <<build, write_state, read_state, enc, events, ret, holder>>
      /\ Len(buf) \in Nat /\ build.capacity \in Nat /\ Len(buf) <= build.capacity
  BY TypedFacts DEF commit_or_rollback, At, Recording, counters, platform, IInv, Typed
<1>1. "reset_state" \in Recording
  BY DEF Recording
<1>2. /\ Working(w) /\ pc' \in [Task -> Labels] /\ pc'[w] = "reset_state"
      /\ \A v \in Writer \ {w} : pc'[v] \notin Recording
      /\ Asked' /\ Exclusive'
  BY <1>0, <1>1, WriterTurn
<1>3. /\ write_state.bytes_written = 1 + enc[w].done /\ enc[w].done <= enc[w].n /\ enc[w].n > 0
      /\ (enc[w].rollback <=> enc[w].done < enc[w].n)
  BY <1>0, <1>2 DEF Working, Stage
<1>4. PICK p, k, e, n \in Nat : /\ p = Len(buf) - Pending(w) /\ k = Pending(w)
                                /\ e = enc[w].ev /\ n = enc[w].n /\ Layout(p, k, e, n)
  BY <1>0, <1>2, WorkIs
<1>5. k = write_state.bytes_written /\ k = 1 + enc[w].done /\ enc[w].done \in Nat
  BY <1>0, <1>3, <1>4, EncodingIs DEF Pending
<1>6. Pending(w)' = 0 /\ Stage(w)'
  BY <1>2 DEF Pending, Stage
<1>7. ASSUME NEW q \in Nat, q = Len(buf'), buf' \in Seq(Cells), q <= Len(buf), Layout(q, 0, 0, 0)'
      PROVE  IInv'
  <2>1. Layout(q, 0, e, n)'
    <3>1. OpenAt(buf, q, 0, e, n)'
      BY <1>7 DEF Layout, OpenAt
    <3> QED BY <1>7, <3>1 DEF Layout
  <2>2. q = Len(buf') - Pending(w)'
    BY <1>6, <1>7
  <2>3. Recorded'
    <3>1. pc'[w] \in Recording /\ enc'[w].n > 0 /\ e = enc'[w].ev /\ n = enc'[w].n /\ 0 = Pending(w)'
      BY <1>0, <1>1, <1>2, <1>3, <1>4, <1>6
    <3> QED BY <1>2, <1>6, <2>1, <2>2, <3>1, WorksOn
  <2>4. Len(buf') <= build'.capacity
    BY <1>0, <1>7
  <2>5. Typed'
    BY <1>0, <1>2, <1>7, <2>4 DEF Typed
  <2> QED BY <1>2, <2>3, <2>5 DEF IInv
<1>8. CASE enc[w].rollback
  <2>1. buf' = ConsumeEnd(buf, k)
    BY <1>5, <1>8 DEF commit_or_rollback
  <2>2. Layout(p, 0, 0, 0)' /\ buf' \in Seq(Cells) /\ Len(buf') = p /\ p <= Len(buf)
    BY <1>0, <1>4, <2>1, LayoutRolledBack
  <2> QED BY <1>7, <2>2
<1>9. CASE ~enc[w].rollback
  <2>1. n = k - 1 /\ k > 1
    <3>1. PICK d \in Nat : d = enc[w].done
      BY <1>5
    <3>2. k = 1 + d /\ d <= n /\ ~(d < n) /\ n > 0
      BY <1>3, <1>4, <1>5, <1>9, <3>1
    <3> QED BY <3>2
  <2>2. buf' = WriteAtOffset(buf, Cell(e, 0, k), k)
    BY <1>4, <1>5, <1>9 DEF commit_or_rollback, Header
  <2>3. Layout(p + k, 0, 0, 0)' /\ buf' \in Seq(Cells) /\ Len(buf') = Len(buf) /\ p + k = Len(buf)
    BY <1>0, <1>4, <2>1, <2>2, LayoutCommitted
  <2>4. PICK q \in Nat : q = p + k
    OBVIOUS
  <2>5. Layout(q, 0, 0, 0)' /\ q = Len(buf') /\ q <= Len(buf)
    BY <1>0, <2>3, <2>4
  <2> QED BY <1>7, <2>3, <2>5
<1> QED BY <1>8, <1>9

LEMMA ResetWriteStateKeeps ==
  ASSUME IInv, NEW w \in Writer, reset_write_state(w)
  PROVE  IInv'
<1>0. /\ Typed /\ CanRun(w) /\ pc[w] = "reset_state" /\ pc[w] \in Recording /\ write_state' = NoWrite
      /\ UNCHANGED <<build, buf, read_state, enc, events, ret>>
  BY DEF reset_write_state, At, Recording, counters, platform, IInv
<1>1. PICK l \in {"callback", "idle"} : Goto(w, l) /\ (holder' = holder \/ (l = "idle" /\ Return(w)))
  BY DEF reset_write_state, Return
<1>2. l \notin Recording /\ l \in Recording \cup {"idle", "callback"}
  BY <1>1 DEF Recording
<1>3. /\ Working(w) /\ pc' \in [Task -> Labels] /\ pc'[w] = l
      /\ \A v \in Writer \ {w} : pc'[v] \notin Recording
      /\ Asked' /\ Exclusive' /\ holder' \in Task \cup {None}
  BY <1>0, <1>1, <1>2, WriterTurn
<1>4. PICK p, k, e, n \in Nat : /\ p = Len(buf) - Pending(w) /\ k = Pending(w)
                                /\ e = enc[w].ev /\ n = enc[w].n /\ Layout(p, k, e, n)
  BY <1>0, <1>3, WorkIs
<1>5. k = 0
  BY <1>0, <1>4 DEF Pending
<1>6. Layout(p, k, e, n)'
  BY <1>0, <1>4, LayoutSame
<1>7. Layout(p, 0, 0, 0)' /\ p = Len(buf')
  <2>1. OpenAt(buf, p, 0, 0, 0)'
    BY <1>5, <1>6 DEF Layout, OpenAt
  <2>2. p = Len(buf')
    BY <2>1 DEF OpenAt
  <2> QED BY <1>6, <2>1, <2>2 DEF Layout
<1>8. \A v \in Writer : pc'[v] \notin Recording
  BY <1>2, <1>3
<1>9. Recorded'
  BY <1>0, <1>7, <1>8, Rests
<1>10. Typed'
  <2>1. NoWrite \in [write_in_progress : BOOLEAN, bytes_written : Nat]
    BY DEF NoWrite
  <2> QED BY <1>0, <1>3, <2>1 DEF Typed
<1> QED BY <1>3, <1>9, <1>10 DEF IInv

\* A call of encode_to_storage begins.
Fresh(e, n) == [NoEncode EXCEPT !.ev = e, !.n = n]

LEMMA FreshIs ==
  ASSUME NEW e \in Nat, NEW n \in Nat
  PROVE  /\ Fresh(e, n) \in Encoding /\ Fresh(e, n).ev = e /\ Fresh(e, n).n = n
         /\ Fresh(e, n).space = 0 /\ Fresh(e, n).done = 0
<1>1. PICK x : x = NoEncode
  OBVIOUS
<1>2. x \in Encoding /\ x.space = 0 /\ x.done = 0
  BY <1>1 DEF NoEncode, Encoding
<1>3. PICK y : y = [x EXCEPT !.ev = e]
  OBVIOUS
<1>4. y \in Encoding /\ y.ev = e /\ y.space = 0 /\ y.done = 0
  BY <1>2, <1>3 DEF Encoding
<1>5. Fresh(e, n) = [y EXCEPT !.n = n]
  BY <1>1, <1>3, Zenon DEF Fresh
<1>6. PICK c : c = Fresh(e, n)
  OBVIOUS
<1>7. c = [y EXCEPT !.n = n]
  BY <1>5, <1>6
<1>8. c \in Encoding /\ c.ev = e /\ c.n = n /\ c.space = 0 /\ c.done = 0
  BY <1>4, <1>7 DEF Encoding
<1> QED BY <1>6, <1>8

LEMMA EncodeKeeps ==
  ASSUME IInv, \A b \in Builds : Careful(b), NEW w \in Writer, encode_to_storage(w)
  PROVE  IInv'
<1>0. /\ Typed /\ Asked /\ Exclusive /\ Recorded /\ CanRun(w) /\ pc[w] = "idle" /\ pc[w] \notin Recording
      /\ w \in build.writers /\ (w \in build.locked => LockFree(w)) /\ Goto(w, "begin")
      /\ holder' = (IF w \in build.locked THEN w ELSE holder) /\ events' = events + 1
      /\ UNCHANGED <<build, buf, write_state, read_state, ret>>
      /\ w \in Task /\ w # Drain
  BY TasksAre DEF encode_to_storage, At, Recording, platform, ramvars, IInv
<1>1. PICK n \in build.sizes : enc' = [enc EXCEPT ![w] = Fresh(events', n)]
  BY Zenon DEF encode_to_storage, Fresh
<1>2. n \in Nat /\ n > 0 /\ events' \in Nat
  BY <1>0, BuildIs DEF Typed
<1>3. PICK e \in Nat : e = events'
  BY <1>2
<1>4. PICK c : c = Fresh(e, n) /\ c \in Encoding /\ c.ev = e /\ c.n = n /\ c.space = 0 /\ c.done = 0
  BY <1>2, FreshIs
<1>5. enc' \in [Writer -> Encoding] /\ enc'[w] = c
  BY <1>0, <1>1, <1>3, <1>4 DEF Typed
<1>6. "begin" \in Labels /\ "begin" \in Recording /\ "begin" # "read" /\ "begin" \notin Looking \cup Moving
  BY DEF Labels, Recording, Looking, Moving
<1>7. pc' \in [Task -> Labels] /\ pc'[w] = "begin" /\ \A u \in Task \ {w} : pc'[u] = pc[u]
  BY <1>0, <1>6, Moved
<1>8. \A v \in Writer \ {w} : pc[v] \notin Recording
  BY <1>0, Alone
<1>9. Resting
  BY <1>0, <1>8 DEF Recorded, Working
<1>10. Exclusive'
  <2>1. w \in build.writers /\ (w \in build.locked => holder' = w)
    BY <1>0
  <2>2. \A u \in Writer \ {w} : holder = u => holder' = u
    BY <1>0, TasksAre DEF LockFree
  <2> QED BY <1>0, <1>6, <2>1, <2>2, ExclusiveStep
<1>11. Asked'
  BY <1>0, <1>6, <1>7, TasksAre DEF Asked
<1>12. Typed'
  <2>1. holder' \in Task \cup {None}
    BY <1>0 DEF Typed
  <2> QED BY <1>0, <1>2, <1>5, <1>7, <2>1 DEF Typed
<1>13. Recorded'
  <2>1. Pending(w)' = 0 /\ Stage(w)' /\ enc'[w].n > 0 /\ enc'[w].ev = events' /\ enc'[w].n = n
    <3>1. c.n = n /\ c.ev = events' /\ c.done = 0 /\ c.space = 0
      BY <1>3, <1>4
    <3>2. write_state' = NoWrite
      BY <1>0, <1>9 DEF Resting
    <3> QED BY <1>2, <1>5, <1>7, <3>1, <3>2 DEF Pending, Stage, NoWrite
  <2>2. PICK q : q = Len(buf')
    OBVIOUS
  <2>3. Layout(q, 0, 0, 0)'
    <3>1. q = Len(buf)
      BY <1>0, <2>2
    <3>2. Layout(q, 0, 0, 0)
      BY <1>9, <3>1 DEF Resting
    <3> QED BY <1>0, <3>2, LayoutSame
  <2>4. Layout(q, 0, e, n)'
    <3>1. OpenAt(buf, q, 0, e, n)'
      BY <2>3 DEF Layout, OpenAt
    <3> QED BY <2>3, <3>1 DEF Layout
  <2>5. q = Len(buf') - Pending(w)'
    <3>1. Len(buf') \in Nat
      BY <1>12 DEF Typed
    <3> QED BY <2>1, <2>2, <3>1
  <2>6. \A v \in Writer \ {w} : pc'[v] \notin Recording
    BY <1>7, <1>8, TasksAre
  <2> QED BY <1>3, <1>6, <1>7, <2>1, <2>2, <2>4, <2>5, <2>6, WorksOn
<1> QED BY <1>10, <1>11, <1>12, <1>13 DEF IInv

-------------------------------------------------------------------------------
(* Reboots, deep sleep and changes of NV storage                                *)

\* Tasks start again: what is in RAM is nothing, or as it was while no task was recording.
LEMMA RestartKeeps ==
  ASSUME IInv, Restarted, buf' \in Seq(Cells), Len(buf') <= build.capacity, write_state' = NoWrite,
         read_state' \in [active_event_read_size : Nat, num_events : Nat, header_length : Nat],
         NEW p, p = Len(buf'), Layout(p, 0, 0, 0)'
  PROVE  IInv'
<1>0. Typed /\ build' = build /\ events' = events /\ holder' = None
  BY DEF Restarted, IInv
<1>1. \A t \in Task : pc'[t] = "idle" /\ ret'[t] = "none"
  BY DEF Restarted
<1>2. pc' \in [Task -> Labels] /\ ret' \in [Task -> Calls]
  <2>1. "idle" \in Labels /\ "none" \in Calls
    BY LabelsAre DEF Calls
  <2> QED BY <2>1 DEF Restarted
<1>3. enc' \in [Writer -> Encoding]
  <2>1. NoEncode \in Encoding
    BY DEF NoEncode, Encoding
  <2> QED BY <2>1 DEF Restarted
<1>4. Typed'
  BY <1>0, <1>2, <1>3 DEF Typed, NoWrite
<1>5. "idle" \notin Recording /\ "idle" \notin Looking \cup Moving
  BY DEF Recording, Looking, Moving
<1>6. Asked'
  BY <1>1, <1>5, TasksAre DEF Asked
<1>7. Exclusive'
  BY <1>1, TasksAre DEF Exclusive, AtRest
<1>8. Recorded'
  <2>1. \A v \in Writer : pc'[v] \notin Recording
    BY <1>1, <1>5, TasksAre
  <2> QED BY <2>1, Rests
<1> QED BY <1>4, <1>6, <1>7, <1>8 DEF IInv

\* An empty buffer is laid out as records are.
LEMMA LayoutEmpty ==
  ASSUME buf = <<>>, read_state = NoRead
  PROVE  Layout(0, 0, 0, 0)
<1>1. Records(<<>>, 0) /\ OpenAt(<<>>, 0, 0, 0, 0) /\ Starts(<<>>, 0, 0)
  BY DEF Records, OpenAt, Starts
<1> QED BY <1>1 DEF Layout, NoRead

LEMMA LayoutEmptied ==
  ASSUME buf' = <<>>, read_state' = NoRead
  PROVE  Layout(0, 0, 0, 0)'
<1>1. Records(<<>>, 0) /\ Starts(<<>>, 0, 0)
  BY DEF Records, Starts
<1>2. OpenAt(buf, 0, 0, 0, 0)'
  BY DEF OpenAt
<1> QED BY <1>1, <1>2 DEF Layout, NoRead

LEMMA BootKeeps ==
  ASSUME IInv, events_storage_boot
  PROVE  IInv'
<1>1. buf' = <<>> /\ write_state' = NoWrite /\ read_state' = NoRead /\ Restarted
  BY DEF events_storage_boot
<1>2. buf' \in Seq(Cells) /\ Len(buf') = 0 /\ build.capacity \in Nat
  BY <1>1, TypedFacts DEF IInv
<1>3. read_state' \in [active_event_read_size : Nat, num_events : Nat, header_length : Nat]
  BY <1>1 DEF NoRead
<1> QED BY <1>1, <1>2, <1>3, LayoutEmptied, RestartKeeps

LEMMA DeepSleepKeeps ==
  ASSUME IInv, SavedWell, deep_sleep
  PROVE  IInv'
<1>0. buf' = backup.buf /\ write_state' = backup.write_state /\ read_state' = backup.read_state /\ Restarted
  BY DEF deep_sleep
<1>1. PICK p : p = Len(backup.buf)
  OBVIOUS
<1>2. p \in Nat /\ p = Len(buf') /\ Records(buf', p) /\ Starts(buf', p, read_state'.active_event_read_size)
  BY <1>0, <1>1 DEF SavedWell
<1>3. OpenAt(buf, p, 0, 0, 0)'
  BY <1>2 DEF OpenAt
<1>4. Layout(p, 0, 0, 0)'
  BY <1>2, <1>3 DEF Layout
<1>5. /\ buf' \in Seq(Cells) /\ Len(buf') <= build.capacity /\ write_state' = NoWrite
      /\ read_state' \in [active_event_read_size : Nat, num_events : Nat, header_length : Nat]
  BY <1>0 DEF SavedWell
<1> QED BY <1>0, <1>2, <1>4, <1>5, RestartKeeps

LEMMA StandsStill ==
  ASSUME IInv, UNCHANGED <<build, buf, write_state, read_state, holder, pc, ret, enc, events>>
  PROVE  IInv'
<1>1. Typed' /\ Asked'
  BY DEF IInv, Typed, Asked
<1>2. Exclusive'
  BY DEF IInv, Exclusive, AtRest
<1>3. Recorded'
  BY Quiet DEF IInv
<1> QED BY <1>1, <1>2, <1>3 DEF IInv

\* The copy is made, and RAM as it was.
LEMMA BackupStands ==
  ASSUME IInv, backup_event_storage
  PROVE  IInv'
BY StandsStill DEF backup_event_storage, ramvars, counters

\* Only preparing for sleep and starting again change the copy; nothing changes the build.
LEMMA BackupStays ==
  ASSUME Typed, [Next]_vars
  PROVE  /\ build' = build /\ events' \in {events, events + 1}
         /\ backup' = backup \/ backup_event_storage \/ ((events_storage_boot \/ deep_sleep) /\ backup' = NoBackup)
<1>1. ASSUME NEW w \in Writer, encode_to_storage(w)
      PROVE  build' = build /\ backup' = backup /\ events' = events + 1
  BY <1>1 DEF encode_to_storage, platform
<1>2. ASSUME NEW w \in Writer, EncodeStep(w) PROVE build' = build /\ backup' = backup /\ events' = events
  BY <1>2 DEF EncodeStep, begin_write, write_header, set_write_state, get_write_size, append_data, count_bytes,
              finish_write, commit_or_rollback, reset_write_state, platform, counters
<1>3. ASSUME NEW q \in Persister, persist(q) PROVE build' = build /\ backup' = backup /\ events' = events
  BY <1>3 DEF persist, counters
<1>4. ASSUME NEW t \in Task, PersistStep(t) PROVE build' = build /\ backup' = backup /\ events' = events
  BY <1>4 DEF PersistStep, request_persist_callback, has_data_cached, has_data_compute, has_data_total,
              nv_write, mark_check, mark_consume, platform, counters
<1>5. CASE DrainStep \/ abort
  BY <1>5 DEF DrainStep, has_more_msgs, mark_msg_read, nv_mark_read, read_msg, abort, platform, counters
<1>6. CASE events_storage_boot \/ deep_sleep
  BY <1>6 DEF events_storage_boot, deep_sleep, Restarted
<1>7. CASE backup_event_storage
  BY <1>7 DEF backup_event_storage, counters
<1>8. CASE enabled_changes \/ Quiescent \/ UNCHANGED vars
  BY <1>8 DEF enabled_changes, Quiescent, vars, counters
<1> QED BY <1>1, <1>2, <1>3, <1>4, <1>5, <1>6, <1>7, <1>8 DEF Next

LEMMA NothingSaved ==
  ASSUME backup = NoBackup, build.capacity \in Nat
  PROVE  SavedWell
<1>1. /\ backup.buf = <<>> /\ backup.write_state = NoWrite /\ backup.read_state = NoRead
  BY DEF NoBackup
<1>2. Records(<<>>, 0) /\ Starts(<<>>, 0, 0)
  BY DEF Records, Starts
<1> QED BY <1>1, <1>2 DEF SavedWell, NoRead

LEMMA NothingSavedThen ==
  ASSUME backup' = NoBackup, build'.capacity \in Nat
  PROVE  SavedWell'
<1>1. backup'.buf = <<>> /\ backup'.write_state = NoWrite /\ backup'.read_state = NoRead
  BY DEF NoBackup
<1>2. Records(<<>>, 0) /\ Starts(<<>>, 0, 0)
  BY DEF Records, Starts
<1>3. NoWrite' = NoWrite
  BY DEF NoWrite
<1> QED BY <1>1, <1>2, <1>3 DEF SavedWell, NoRead

LEMMA SavedStep ==
  ASSUME \A b \in Builds : Careful(b), IInv, SavedWell, [Next]_vars
  PROVE  SavedWell'
<1>0. Typed /\ Recorded /\ build' = build /\ build.capacity \in Nat
  BY BackupStays, TypedFacts DEF IInv
<1>1. CASE backup' = backup
  BY <1>0, <1>1 DEF SavedWell, NoWrite
<1>2. CASE backup_event_storage
  <2>1. ~build.preemptive
    BY <1>0, <1>2 DEF backup_event_storage, Careful, Typed
  <2>2. \A w \in Writer : pc[w] \notin Recording
    <3>1. \A w \in Writer : AtRest(w)
      BY <1>2, <2>1, TasksAre DEF backup_event_storage
    <3> QED BY <3>1 DEF AtRest, Recording
  <2>3. Resting
    BY <1>0, <2>2 DEF Recorded, Working
  <2>4. backup'.buf = buf /\ backup'.write_state = write_state /\ backup'.read_state = read_state
    BY <1>2 DEF backup_event_storage
  <2>5. write_state = NoWrite /\ Records(buf, Len(buf)) /\ Starts(buf, Len(buf), read_state.active_event_read_size)
    BY <2>3 DEF Resting, Layout
  <2>6. NoWrite' = NoWrite
    BY DEF NoWrite
  <2> QED BY <1>0, <2>4, <2>5, <2>6 DEF SavedWell, Typed
<1>3. CASE backup' = NoBackup
  BY <1>0, <1>3, NothingSavedThen
<1> QED BY <1>0, <1>1, <1>2, <1>3, BackupStays

-------------------------------------------------------------------------------
(* The invariant holds                                                          *)

LEMMA InvariantInit ==
  ASSUME Init
  PROVE  IInv
<1>0. build \in Builds /\ build.capacity \in Nat
  BY BuildIs DEF Init
<1>1. Typed
  <2>1. buf \in Seq(Cells) /\ Len(buf) <= build.capacity
    BY <1>0 DEF Init
  <2>2. pc \in [Task -> Labels] /\ ret \in [Task -> Calls]
    <3>1. "idle" \in Labels /\ "none" \in Calls
      BY LabelsAre DEF Calls
    <3> QED BY <3>1 DEF Init
  <2>3. enc \in [Writer -> Encoding]
    <3>1. NoEncode \in Encoding
      BY DEF NoEncode, Encoding
    <3> QED BY <3>1 DEF Init
  <2> QED BY <1>0, <2>1, <2>2, <2>3 DEF Typed, Init, NoWrite, NoRead
<1>2. "idle" \notin Recording /\ "idle" \notin Looking \cup Moving
  BY DEF Recording, Looking, Moving
<1>3. \A t \in Task : pc[t] = "idle"
  BY DEF Init
<1>4. Asked
  BY <1>2, <1>3, TasksAre DEF Asked
<1>5. Exclusive
  BY <1>3, TasksAre DEF Exclusive, AtRest
<1>6. Recorded
  <2>1. Layout(Len(buf), 0, 0, 0)
    BY LayoutEmpty DEF Init
  <2>2. \A v \in Writer : pc[v] \notin Recording
    BY <1>2, <1>3, TasksAre
  <2> QED BY <2>1, <2>2 DEF Recorded, Resting, Init
<1> QED BY <1>1, <1>4, <1>5, <1>6 DEF IInv

LEMMA InvariantStep ==
  ASSUME \A b \in Builds : Careful(b), IInv, SavedWell, [Next]_vars
  PROVE  IInv'
<1>1. ASSUME NEW w \in Writer, encode_to_storage(w) PROVE IInv'
  BY <1>1, EncodeKeeps
<1>2. ASSUME NEW w \in Writer, EncodeStep(w) PROVE IInv'
  BY <1>2, BeginWriteKeeps, WriteHeaderKeeps, SetWriteStateKeeps, GetWriteSizeKeeps, AppendDataKeeps,
     CountBytesKeeps, FinishWriteKeeps, CommitOrRollbackKeeps, ResetWriteStateKeeps DEF EncodeStep
<1>3. ASSUME NEW q \in Persister, persist(q) PROVE IInv'
  BY <1>3, PersistKeeps
<1>4. ASSUME NEW t \in Task, PersistStep(t) PROVE IInv'
  BY <1>4, PersistStepKeeps
<1>5. CASE DrainStep \/ abort
  BY <1>5, DrainKeeps
<1>6. CASE events_storage_boot
  BY <1>6, BootKeeps
<1>7. CASE deep_sleep
  BY <1>7, DeepSleepKeeps
<1>8. CASE enabled_changes
  BY <1>8, StandsStill DEF enabled_changes, ramvars, counters
<1>9. CASE Quiescent \/ UNCHANGED vars
  BY <1>9, StandsStill DEF Quiescent, vars
<1>10. CASE backup_event_storage
  BY <1>10, BackupStands
<1> QED BY <1>1, <1>2, <1>3, <1>4, <1>5, <1>6, <1>7, <1>8, <1>9, <1>10 DEF Next

\* The buffer holds whole records, then at most the one a task is writing, with what write_state
\* and that task say of it; what is being read ends with a record; tasks record one at a time.
LEMMA Inductive ==
  ASSUME \A b \in Builds : Careful(b)
  PROVE  Spec => []IInv /\ []SavedWell
<1>1. Init => IInv /\ SavedWell
  <2>1. Init => build.capacity \in Nat /\ backup = NoBackup
    BY BuildIs DEF Init
  <2> QED BY <2>1, InvariantInit, NothingSaved
<1>2. IInv /\ SavedWell /\ [Next]_vars => IInv' /\ SavedWell'
  BY InvariantStep, SavedStep
<1> QED BY <1>1, <1>2, PTL DEF Spec

-------------------------------------------------------------------------------
(* What the invariant says of the buffer                                        *)

\* A cell of payload among the records has its neighbours.
LEMMA PayloadIs ==
  ASSUME NEW b \in Seq(Cells), NEW p \in Nat, Records(b, p), NEW i \in 1..p, b[i].idx # 0
  PROVE  /\ i > 1 /\ i \in 1..Len(b) /\ b[i].idx <= b[i].total_size
         /\ b[i].idx = 1 => b[i - 1] = Cell(b[i].ev, 0, b[i].total_size + 1)
         /\ b[i].idx > 1 => b[i - 1] = Cell(b[i].ev, b[i].idx - 1, b[i].total_size)
         /\ b[i].idx < b[i].total_size =>
              i + 1 <= p /\ b[i + 1] = Cell(b[i].ev, b[i].idx + 1, b[i].total_size)
         /\ b[i].total_size <= p
<1>0. p <= Len(b) /\ Len(b) \in Nat /\ i \in 1..Len(b) /\ i \in Nat
  BY DEF Records
<1>1. PICK e, x, t \in Nat : e = b[i].ev /\ x = b[i].idx /\ t = b[i].total_size
  BY <1>0, CellIs
<1>2. PartAt(b, i)
  BY DEF Records
<1>3. x # 0 /\ x < i /\ x <= t /\ b[i - x] = Cell(e, 0, t + 1)
  BY <1>1, <1>2 DEF PartAt
<1>4. PICK h \in 1..p : h = i - x /\ h + x = i /\ h < i
  BY <1>0, <1>3
<1>5. b[h].ev = e /\ b[h].idx = 0 /\ b[h].total_size = t + 1 /\ b[h] = Cell(e, 0, t + 1)
  <2>1. b[h] = Cell(e, 0, t + 1)
    BY <1>3, <1>4
  <2> QED BY <2>1 DEF Cell
<1>6. WholeAt(b, p, h)
  BY <1>5 DEF Records
<1>7. h + (t + 1) <= p + 1 /\ \A j \in 1..((t + 1) - 1) : b[h + j] = Cell(e, j, (t + 1) - 1)
  BY <1>5, <1>6 DEF WholeAt
<1>8. (t + 1) - 1 = t
  OBVIOUS
<1>9. \A j \in 1..t : b[h + j] = Cell(e, j, t)
  BY <1>7, <1>8
<1>10. h + t <= p
  <2>1. h + (t + 1) <= p + 1
    BY <1>7
  <2> QED BY <2>1
<1>11. ASSUME x = 1 PROVE b[i - 1] = Cell(e, 0, t + 1)
  <2>1. i - 1 = h
    BY <1>0, <1>4, <1>11
  <2> QED BY <1>5, <2>1
<1>12. ASSUME x > 1 PROVE b[i - 1] = Cell(e, x - 1, t)
  <2>1. x - 1 \in 1..t /\ h + (x - 1) = i - 1
    BY <1>0, <1>3, <1>4, <1>12
  <2> QED BY <1>9, <2>1
<1>13. ASSUME x < t PROVE i + 1 <= p /\ b[i + 1] = Cell(e, x + 1, t)
  <2>1. x + 1 \in 1..t /\ h + (x + 1) = i + 1
    BY <1>0, <1>3, <1>4, <1>13
  <2>2. i + 1 <= p
    BY <1>0, <1>4, <1>10, <1>13
  <2> QED BY <1>9, <2>1, <2>2
<1>14. i > 1 /\ t <= p
  BY <1>0, <1>3, <1>4, <1>10
<1> QED BY <1>0, <1>1, <1>3, <1>11, <1>12, <1>13, <1>14

\* A header among the records has all of its payload.
LEMMA HeaderIs ==
  ASSUME NEW b \in Seq(Cells), NEW p \in Nat, Records(b, p), NEW i \in 1..p, b[i].idx = 0
  PROVE  LET t == b[i].total_size - 1
         IN /\ t \in Nat /\ t > 0 /\ i + t <= p /\ i + t <= Len(b) /\ b[i].total_size <= p
            /\ \A j \in 1..t : b[i + j] = Cell(b[i].ev, j, t)
<1>0. p <= Len(b) /\ Len(b) \in Nat /\ i \in 1..Len(b) /\ i \in Nat
  BY DEF Records
<1>1. PICK s \in Nat : s = b[i].total_size
  BY <1>0, CellIs
<1>2. WholeAt(b, p, i)
  BY DEF Records
<1>3. s > 1 /\ i + s <= p + 1 /\ \A j \in 1..(s - 1) : b[i + j] = Cell(b[i].ev, j, s - 1)
  BY <1>1, <1>2 DEF WholeAt
<1>4. s - 1 \in Nat /\ s - 1 > 0 /\ i + (s - 1) <= p /\ i + (s - 1) <= Len(b) /\ s <= p
  <2>1. s > 1 /\ i + s <= p + 1
    BY <1>3
  <2> QED BY <1>0, <2>1
<1> QED BY <1>1, <1>3, <1>4

LEMMA EditedIs ==
  ASSUME NEW c \in Cells, NEW x \in Nat
  PROVE  [c EXCEPT !.idx = x] = Cell(c.ev, x, c.total_size)
BY DEF Cells, Cell

LEMMA LaidOutIsFramed ==
  ASSUME Typed, NEW p \in Nat, NEW k \in Nat, NEW e \in Nat, NEW n \in Nat, Layout(p, k, e, n),
         k > 0 => \E w \in Writer : ~AtRest(w) /\ enc[w].ev = e
  PROVE  Framed
<1>0. /\ buf \in Seq(Cells) /\ Len(buf) \in Nat /\ build.capacity \in Nat /\ Len(buf) <= build.capacity
      /\ Records(buf, p) /\ p + k = Len(buf) /\ p <= Len(buf)
      /\ IN_PROGRESS = build.capacity + 1 /\ DOMAIN buf = 1..Len(buf)
      /\ k > 0 => buf[p + 1] = Cell(e, 0, IN_PROGRESS)
      /\ \A j \in 1..(k - 1) : buf[p + 1 + j] = Cell(e, j, n)
  BY TypedFacts DEF Layout, OpenAt, Typed, IN_PROGRESS, Records
<1>1. ASSUME NEW i \in 1..Len(buf) PROVE buf[i] \in Cells /\ buf[i].ev \in Nat /\ buf[i].idx \in Nat /\ buf[i].total_size \in Nat
  BY <1>0, CellIs
\* A cell after the records is the open header or its payload.
<1>2. ASSUME NEW i \in 1..Len(buf), i > p
      PROVE  /\ k > 0 /\ buf[i].ev = e
             /\ \/ i = p + 1 /\ buf[i] = Cell(e, 0, IN_PROGRESS) /\ buf[i].idx = 0 /\ buf[i].total_size = IN_PROGRESS
                \/ /\ i > p + 1 /\ buf[i].idx = i - (p + 1) /\ buf[i].total_size = n
                   /\ buf[i] = Cell(e, i - (p + 1), n)
  <2>1. k > 0
    BY <1>0, <1>2
  <2>2. CASE i = p + 1
    <3>1. buf[i] = Cell(e, 0, IN_PROGRESS)
      BY <1>0, <2>1, <2>2
    <3> QED BY <2>1, <2>2, <3>1 DEF Cell
  <2>3. CASE i # p + 1
    <3>1. PICK j \in 1..(k - 1) : j = i - (p + 1) /\ i = p + 1 + j
      <4>1. p + k = Len(buf) /\ i > p /\ i # p + 1 /\ i <= Len(buf) /\ i \in Nat
        BY <1>0, <1>2, <2>3
      <4>2. i - (p + 1) \in 1..(k - 1) /\ i = p + 1 + (i - (p + 1))
        BY <4>1
      <4> QED BY <4>2
    <3>2. buf[i] = Cell(e, j, n)
      BY <1>0, <3>1
    <3>3. i > p + 1
      BY <1>2, <2>3
    <3> QED BY <2>1, <3>1, <3>2, <3>3 DEF Cell
  <2> QED BY <2>2, <2>3
<1>3. ASSUME NEW i \in 1..Len(buf), buf[i].idx > 1
      PROVE  i > 1 /\ buf[i - 1] = [buf[i] EXCEPT !.idx = buf[i].idx - 1]
  <2>1. [buf[i] EXCEPT !.idx = buf[i].idx - 1] = Cell(buf[i].ev, buf[i].idx - 1, buf[i].total_size)
    <3>1. PICK c \in Cells, x \in Nat : c = buf[i] /\ x = buf[i].idx - 1
      BY <1>1, <1>3
    <3> QED BY <3>1, EditedIs
  <2>2. CASE i <= p
    <3>1. i \in 1..p /\ buf[i].idx # 0
      BY <1>3, <2>2
    <3> QED BY <1>0, <1>3, <2>1, <3>1, PayloadIs
  <2>3. CASE i > p
    <3>1. /\ i > p + 1 /\ buf[i].idx = i - (p + 1) /\ buf[i].total_size = n /\ buf[i].ev = e
      BY <1>2, <1>3, <2>3
    <3>2. PICK j \in 1..(k - 1) : j = (i - (p + 1)) - 1 /\ i - 1 = p + 1 + j
      <4>1. (i - (p + 1)) - 1 \in 1..(k - 1) /\ i - 1 = p + 1 + ((i - (p + 1)) - 1)
        BY <1>0, <1>3, <3>1
      <4> QED BY <4>1
    <3>3. buf[i - 1] = Cell(e, j, n)
      BY <1>0, <3>2
    <3>4. j = buf[i].idx - 1 /\ i > 1
      BY <3>1, <3>2
    <3> QED BY <2>1, <3>1, <3>3, <3>4
  <2> QED BY <2>2, <2>3
<1>4. ASSUME NEW i \in 1..Len(buf), buf[i].idx > 0, buf[i].idx < buf[i].total_size, i # Len(buf)
      PROVE  buf[i + 1] = [buf[i] EXCEPT !.idx = buf[i].idx + 1]
  <2>1. [buf[i] EXCEPT !.idx = buf[i].idx + 1] = Cell(buf[i].ev, buf[i].idx + 1, buf[i].total_size)
    <3>1. PICK c \in Cells, x \in Nat : c = buf[i] /\ x = buf[i].idx + 1
      BY <1>1, <1>4
    <3> QED BY <3>1, EditedIs
  <2>2. CASE i <= p
    <3>1. i \in 1..p /\ buf[i].idx # 0
      BY <1>4, <2>2
    <3> QED BY <1>0, <1>4, <2>1, <3>1, PayloadIs
  <2>3. CASE i > p
    <3>1. /\ i > p + 1 /\ buf[i].idx = i - (p + 1) /\ buf[i].total_size = n /\ buf[i].ev = e
      BY <1>2, <1>4, <2>3
    <3>2. PICK j \in 1..(k - 1) : j = (i - (p + 1)) + 1 /\ i + 1 = p + 1 + j
      <4>1. (i - (p + 1)) + 1 \in 1..(k - 1) /\ i + 1 = p + 1 + ((i - (p + 1)) + 1)
        BY <1>0, <1>4, <3>1
      <4> QED BY <4>1
    <3>3. buf[i + 1] = Cell(e, j, n)
      BY <1>0, <3>2
    <3>4. j = buf[i].idx + 1
      BY <3>1, <3>2
    <3> QED BY <2>1, <3>1, <3>3, <3>4
  <2> QED BY <2>2, <2>3
<1>5. PayloadInOrder(buf)
  <2> SUFFICES ASSUME NEW i \in 1..Len(buf), IsPayload(buf[i])
               PROVE  /\ buf[i].idx > 1 => i > 1 /\ buf[i - 1] = [buf[i] EXCEPT !.idx = @ - 1]
                      /\ buf[i].idx < buf[i].total_size =>
                           i = Len(buf) \/ buf[i + 1] = [buf[i] EXCEPT !.idx = @ + 1]
    BY <1>0, Zenon DEF PayloadInOrder
  <2>1. buf[i].idx > 0
    BY DEF IsPayload
  <2>2. buf[i].idx > 1 => i > 1 /\ buf[i - 1] = [buf[i] EXCEPT !.idx = @ - 1]
    BY <1>3, Zenon
  <2>3. ASSUME buf[i].idx < buf[i].total_size, i # Len(buf)
        PROVE  buf[i + 1] = [buf[i] EXCEPT !.idx = @ + 1]
    BY <1>4, <2>1, <2>3, Zenon
  <2> QED BY <2>2, <2>3, Zenon
<1>6. ASSUME NEW i \in 1..Len(buf), buf[i].idx = 1
      PROVE  i > 1 /\ buf[i - 1].ev = buf[i].ev /\ ~IsPayload(buf[i - 1])
  <2>1. CASE i <= p
    <3>0. i \in 1..p /\ buf[i].idx # 0 /\ buf \in Seq(Cells) /\ p \in Nat /\ Records(buf, p)
      BY <1>0, <1>6, <2>1
    <3>1. i > 1 /\ buf[i - 1] = Cell(buf[i].ev, 0, buf[i].total_size + 1)
      <4> HIDE <1>0, <1>1, <1>2, <1>3, <1>4, <1>5
      <4> QED BY <1>6, <3>0, PayloadIs
    <3> QED BY <3>1 DEF Cell, IsPayload
  <2>2. CASE i > p
    <3>1. i > p + 1 /\ i - (p + 1) = 1 /\ buf[i].ev = e /\ k > 0
      BY <1>2, <1>6, <2>2
    <3>2. i - 1 = p + 1 /\ i > 1
      BY <3>1
    <3>3. buf[i - 1] = Cell(e, 0, IN_PROGRESS)
      BY <1>0, <3>1, <3>2
    <3> QED BY <3>1, <3>2, <3>3 DEF Cell, IsPayload
  <2> QED BY <2>1, <2>2
<1>7. ASSUME NEW i \in 1..Len(buf), Committed(i)
      PROVE  LET last == i + buf[i].total_size - 1
             IN last \in i..Len(buf) /\ buf[last] = Payload(buf[i].ev, last - i, last - i)
  <2>1. buf[i].idx = 0 /\ buf[i].total_size # IN_PROGRESS
    BY <1>1, <1>7 DEF Committed, IsPayload
  <2>2. i \in 1..p
    <3>1. ~(i > p)
      BY <1>2, <2>1
    <3> QED BY <3>1
  <2>3. PICK s \in Nat : s = buf[i].total_size
    BY <1>1
  <2>4. /\ s - 1 \in Nat /\ s - 1 > 0 /\ i + (s - 1) <= p
        /\ \A j \in 1..(s - 1) : buf[i + j] = Cell(buf[i].ev, j, s - 1)
    BY <1>0, <2>1, <2>2, <2>3, HeaderIs
  <2>5. buf[i + (s - 1)] = Cell(buf[i].ev, s - 1, s - 1)
    <3>1. s - 1 \in 1..(s - 1)
      BY <2>4
    <3> QED BY <2>4, <3>1
  <2>6. i + s - 1 = i + (s - 1) /\ (i + s - 1) - i = s - 1 /\ i + s - 1 \in i..Len(buf)
    <3>1. s - 1 \in Nat /\ i + (s - 1) <= p
      BY <2>4
    <3> QED BY <1>0, <3>1
  <2> QED BY <2>3, <2>5, <2>6 DEF Payload
<1>8. ASSUME NEW i \in 1..Len(buf), buf[i].total_size = IN_PROGRESS
      PROVE  /\ \A j \in (i + 1)..Len(buf) : buf[j].ev = buf[i].ev
             /\ \E w \in Writer : ~AtRest(w) /\ enc[w].ev = buf[i].ev
  <2>1. i > p
    <3> SUFFICES ASSUME i \in 1..p PROVE FALSE
      OBVIOUS
    <3>1. buf[i].total_size <= p
      <4>1. CASE buf[i].idx = 0
        BY <1>0, <4>1, HeaderIs
      <4>2. CASE buf[i].idx # 0
        BY <1>0, <4>2, PayloadIs
      <4> QED BY <4>1, <4>2
    <3>2. build.capacity + 1 <= p
      BY <1>0, <1>8, <3>1
    <3> QED BY <1>0, <3>2
  <2>2. buf[i].ev = e /\ k > 0
    BY <1>2, <2>1
  <2>3. ASSUME NEW j \in (i + 1)..Len(buf) PROVE buf[j].ev = e
    <3>1. j \in 1..Len(buf) /\ j > p
      BY <1>0, <2>1
    <3> QED BY <1>2, <3>1
  <2> QED BY <2>2, <2>3
<1> QED BY <1>0, <1>5, <1>6, <1>7, <1>8 DEF Framed

\* The buffer is a run of whole records with at most one, the last, still being written by a task
\* in encode_to_storage: what prv_compute_read_state and prv_event_storage_read_ram take for granted
\* when they walk it, for every size of the buffer and every order of begin_write, append_data,
\* finish_write, reads, persists, resets and deep sleep, as long as tasks record one at a time and, in a
\* build that restores the buffer after deep sleep, run to completion (Careful): the copy is then made
\* between the calls of tasks, and is brought back later, whatever tasks did or were doing meanwhile.
THEOREM BufferFramed ==
  ASSUME \A b \in Builds : Careful(b)
  PROVE  Spec => []Framed
<1>1. IInv => Framed
  <2> SUFFICES ASSUME IInv PROVE Framed
    OBVIOUS
  <2>0. Typed /\ Recorded
    BY DEF IInv
  <2>1. CASE Resting
    <3>1. PICK p \in Nat : p = Len(buf)
      BY <2>0, TypedFacts
    <3>2. Layout(p, 0, 0, 0)
      BY <2>1, <3>1 DEF Resting
    <3>3. ~(0 > 0) /\ 0 \in Nat
      OBVIOUS
    <3> QED BY <2>0, <3>2, <3>3, LaidOutIsFramed
  <2>2. ASSUME NEW w \in Writer, Working(w) PROVE Framed
    <3>1. PICK p, k, e, n \in Nat : /\ p = Len(buf) - Pending(w) /\ k = Pending(w)
                                    /\ e = enc[w].ev /\ n = enc[w].n /\ Layout(p, k, e, n)
      BY <2>0, <2>2, WorkIs
    <3>2. ~AtRest(w)
      BY <2>2 DEF Working, Recording, AtRest
    <3> QED BY <2>0, <3>1, <3>2, LaidOutIsFramed
  <2> QED BY <2>0, <2>1, <2>2 DEF Recorded
<1>2. Spec => []IInv
  BY Inductive
<1> QED BY <1>1, <1>2, PTL

-------------------------------------------------------------------------------
(* An event reported stored                                                     *)

LEMMA RebootsCounted ==
  Spec => [](reboots \in Nat)
<1>1. Init => reboots \in Nat
  BY DEF Init
<1>2. reboots \in Nat /\ [Next]_vars => (reboots \in Nat)'
  <2> SUFFICES ASSUME reboots \in Nat, [Next]_vars PROVE reboots' \in Nat
    OBVIOUS
  <2>1. ASSUME NEW w \in Writer, encode_to_storage(w) PROVE reboots' \in Nat
    BY <2>1 DEF encode_to_storage
  <2>2. ASSUME NEW w \in Writer, EncodeStep(w) PROVE reboots' \in Nat
    BY <2>2 DEF EncodeStep, begin_write, write_header, set_write_state, get_write_size, append_data, count_bytes,
                finish_write, commit_or_rollback, reset_write_state, counters
  <2>3. ASSUME NEW q \in Persister, persist(q) PROVE reboots' \in Nat
    BY <2>3 DEF persist, counters
  <2>4. ASSUME NEW t \in Task, PersistStep(t) PROVE reboots' \in Nat
    BY <2>4 DEF PersistStep, request_persist_callback, has_data_cached, has_data_compute, has_data_total,
                nv_write, mark_check, mark_consume, counters
  <2>5. CASE DrainStep \/ abort
    BY <2>5 DEF DrainStep, has_more_msgs, mark_msg_read, nv_mark_read, read_msg, abort, counters
  <2>6. CASE events_storage_boot \/ deep_sleep
    BY <2>6 DEF events_storage_boot, deep_sleep, Restarted
  <2>7. CASE backup_event_storage \/ enabled_changes \/ Quiescent \/ UNCHANGED vars
    BY <2>7 DEF backup_event_storage, enabled_changes, Quiescent, vars, counters
  <2> QED BY <2>1, <2>2, <2>3, <2>4, <2>5, <2>6, <2>7 DEF Next
<1> QED BY <1>1, <1>2, PTL DEF Spec

\* Only a task's own step takes it on while it encodes or commits.
LEMMA OwnStep ==
  ASSUME Typed, reboots \in Nat, [Next]_vars, reboots' = reboots,
         NEW w \in Writer, pc[w] \in {"encode", "commit"}, pc'[w] # pc[w]
  PROVE  append_data(w) \/ finish_write(w) \/ commit_or_rollback(w)
<1>0. w \in Task /\ w # Drain /\ w \notin Persister
  BY TasksAre
<1>1. ASSUME NEW t \in Task, t # w \/ pc[t] # pc[w], NEW l, Goto(t, l) PROVE FALSE
  BY <1>0, <1>1 DEF Goto, Typed
<1>2. ASSUME NEW v \in Writer, encode_to_storage(v) PROVE FALSE
  BY <1>1, <1>2, TasksAre DEF encode_to_storage, At
<1>3. ASSUME NEW v \in Writer, v # w, EncodeStep(v) PROVE FALSE
  <2>1. \E l : Goto(v, l) \/ pc' = pc
    BY <1>3, Zenon DEF EncodeStep, begin_write, write_header, set_write_state, get_write_size, append_data, count_bytes,
                finish_write, commit_or_rollback, reset_write_state, Return
  <2> QED BY <1>1, <1>3, <2>1, TasksAre
<1>4. ASSUME EncodeStep(w) PROVE append_data(w) \/ finish_write(w) \/ commit_or_rollback(w)
  BY <1>4 DEF EncodeStep, begin_write, write_header, set_write_state, get_write_size, count_bytes,
              reset_write_state, At
<1>5. ASSUME NEW q \in Persister, persist(q) PROVE FALSE
  <2>1. \E l : Goto(q, l) \/ pc' = pc
    BY <1>5 DEF persist
  <2> QED BY <1>0, <1>1, <1>5, <2>1, TasksAre
<1>6. ASSUME NEW t \in Task, PersistStep(t) PROVE FALSE
  <2>1. pc[t] \notin {"encode", "commit"}
    BY <1>6 DEF PersistStep, request_persist_callback, has_data_cached, has_data_compute, has_data_total,
                nv_write, mark_check, mark_consume, At
  <2>2. \E l : Goto(t, l)
    BY <1>6, Zenon DEF PersistStep, request_persist_callback, has_data_cached, has_data_compute, has_data_total,
                nv_write, mark_check, mark_consume, AfterHasData, AfterMark, Finish, Return
  <2> QED BY <1>1, <2>1, <2>2
<1>7. CASE DrainStep \/ abort
  <2>1. \E l : Goto(Drain, l) \/ pc' = pc
    BY <1>7, Zenon DEF DrainStep, has_more_msgs, mark_msg_read, nv_mark_read, read_msg, abort
  <2> QED BY <1>0, <1>1, <2>1, TasksAre
<1>8. CASE events_storage_boot \/ deep_sleep
  BY <1>8 DEF events_storage_boot, deep_sleep, Restarted
<1>9. CASE backup_event_storage \/ enabled_changes \/ Quiescent \/ UNCHANGED vars
  BY <1>9 DEF backup_event_storage, enabled_changes, Quiescent, vars
<1> QED BY <1>2, <1>3, <1>4, <1>5, <1>6, <1>7, <1>8, <1>9 DEF Next

LEMMA CommitStoresStep ==
  ASSUME IInv, reboots \in Nat, [Next]_vars, reboots' = reboots, NEW w \in Writer, Succeeds(w)
  PROVE  WholeRecordIn(buf', enc[w].ev, enc[w].n)
<1>0. Typed /\ Recorded /\ pc[w] \in {"encode", "commit"} /\ pc'[w] # pc[w] /\ pc[w] \in Recording /\ pc'[w] # "count"
  BY DEF Succeeds, IInv, Recording
<1>1. Working(w)
  BY <1>0, TheWriter
<1>2. append_data(w) \/ finish_write(w) \/ commit_or_rollback(w)
  BY <1>0, OwnStep
<1>3. pc' = [pc EXCEPT ![w] = pc'[w]] /\ pc \in [Task -> Labels] /\ w \in Task
  BY <1>0, <1>2, TasksAre DEF append_data, finish_write, commit_or_rollback, Goto, Return, Typed
<1>4. CASE append_data(w)
  BY <1>0, <1>3, <1>4 DEF append_data, Goto
\* Nothing was encoded of an event that could not begin: finish_write does not report it stored.
<1>5. CASE finish_write(w)
  <2>1. pc[w] = "encode" /\ pc'[w] = "idle" /\ enc[w].done = enc[w].n
    BY <1>5 DEF Succeeds, finish_write, At
  <2>2. ~write_state.write_in_progress
    BY <1>3, <1>5, <2>1 DEF finish_write, Goto
  <2>3. enc[w].done = 0 /\ enc[w].n > 0
    BY <1>1, <2>1, <2>2 DEF Working, Stage
  <2> QED BY <2>1, <2>3
<1>6. CASE commit_or_rollback(w)
  <2>1. pc[w] = "commit" /\ ~enc[w].rollback
    BY <1>6 DEF Succeeds, commit_or_rollback, At
  <2>2. PICK p, k, e, n \in Nat : /\ p = Len(buf) - Pending(w) /\ k = Pending(w)
                                  /\ e = enc[w].ev /\ n = enc[w].n /\ Layout(p, k, e, n)
    BY <1>0, <1>1, WorkIs
  <2>3. PICK d \in Nat : d = enc[w].done
    BY <1>0, EncodingIs
  <2>4. k = 1 + d /\ d <= n /\ ~(d < n) /\ n > 0 /\ write_state.bytes_written = k
    BY <1>0, <1>1, <2>1, <2>2, <2>3 DEF Working, Stage, Pending
  <2>5. d = n /\ k = n + 1
    BY <2>4
  <2>6. buf' = WriteAtOffset(buf, Cell(e, 0, k), k)
    BY <1>6, <2>1, <2>2, <2>4 DEF commit_or_rollback, Header
  <2>7. /\ p + k = Len(buf) /\ buf \in Seq(Cells) /\ Len(buf) \in Nat
        /\ \A j \in 1..(k - 1) : buf[p + 1 + j] = Cell(e, j, n)
    BY <1>0, <2>2, TypedFacts DEF Layout, OpenAt, Typed
  <2>8. PICK b : b = [buf EXCEPT ![p + 1] = Cell(e, 0, k)]
    OBVIOUS
  <2>9. buf' = b
    <3>1. p + k = Len(buf)
      BY <2>7
    <3>2. k \in 1..Len(buf) /\ Len(buf) - k + 1 = p + 1
      BY <2>5, <3>1
    <3> QED BY <2>6, <2>8, <3>2 DEF WriteAtOffset, ReplaceAt
  <2>10. p + 1 \in 1..Len(buf) /\ p + 1 + n <= Len(buf)
    <3>1. p + k = Len(buf)
      BY <2>7
    <3> QED BY <2>5, <3>1
  <2>11. Len(b) = Len(buf) /\ DOMAIN b = 1..Len(buf) /\ b[p + 1] = Cell(e, 0, k)
         /\ \A i \in 1..Len(buf) : i # p + 1 => b[i] = buf[i]
    BY <2>7, <2>8, <2>10
  <2>12. ASSUME NEW j \in 1..n PROVE b[p + 1 + j] = Cell(e, j, n)
    <3>1. p + 1 + j \in 1..Len(buf) /\ p + 1 + j # p + 1 /\ j \in 1..(k - 1)
      BY <2>5, <2>7, <2>10
    <3> QED BY <2>7, <2>11, <3>1
  <2>13. WholeRecordIn(b, e, n)
    BY <2>5, <2>10, <2>11, <2>12 DEF WholeRecordIn, Header, Payload
  <2> QED BY <2>2, <2>9, <2>13
<1> QED BY <1>2, <1>4, <1>5, <1>6

\* When memfault_serializer_helper_encode_to_storage reports an event stored - finish_write committed it -
\* the whole event, header and every byte of payload, is in the buffer, for every order of the steps of
\* tasks that record one at a time ("a future call to has_more_msgs_cb will return the event").
THEOREM StoredWhole ==
  ASSUME \A b \in Builds : Careful(b)
  PROVE  Spec => CommitStores
<1>1. IInv /\ reboots \in Nat /\ [Next]_vars =>
        [reboots' = reboots => \A w \in Writer : Succeeds(w) => WholeRecordIn(buf', enc[w].ev, enc[w].n)]_vars
  BY CommitStoresStep
<1>2. Spec => []IInv
  BY Inductive
<1> QED BY <1>1, <1>2, RebootsCounted, PTL DEF Spec, CommitStores

-------------------------------------------------------------------------------
(* The messages put together from records                                       *)

\* A read state is of complete records at the front of the buffer.
Takes(rs) ==
  /\ rs.num_events \in 0..Len(buf) /\ rs.active_event_read_size = Offset[rs.num_events]
  /\ rs.header_length = IF rs.num_events > 1 THEN 1 ELSE 0
  /\ rs.num_events > 1 => build.batching
  /\ \A k \in 1..rs.num_events : Complete(Offset[k - 1])

-------------------------------------------------------------------------------
(* Sequences one after another                                                  *)

Joins(f, s, m) == f[1] = s[1] /\ \A i \in 2..m : f[i] = f[i - 1] \o s[i]

LEMMA JoinMore ==
  ASSUME NEW n \in Nat, NEW s \in [Nat -> Seq(Cells)], NEW f \in [Nat -> Seq(Cells)], Joins(f, s, n)
  PROVE  \E g \in [Nat -> Seq(Cells)] : Joins(g, s, n + 1)
<1>1. CASE n = 0
  <2> DEFINE g == [i \in Nat |-> s[1]]
  <2>1. g \in [Nat -> Seq(Cells)] /\ Joins(g, s, 1)
    BY DEF Joins
  <2> QED BY <1>1, <2>1
<1>2. CASE n > 0
  <2>0. PICK m \in Nat : m = n + 1
    OBVIOUS
  <2>1. PICK v \in Seq(Cells) : v = f[n] \o s[m]
    <3>1. f[n] \in Seq(Cells) /\ s[m] \in Seq(Cells)
      OBVIOUS
    <3>2. f[n] \o s[m] \in Seq(Cells)
      BY <3>1
    <3> QED BY <3>2, Zenon
  <2> DEFINE g == [f EXCEPT ![m] = v]
  <2>2. g \in [Nat -> Seq(Cells)] /\ g[m] = v /\ \A i \in 1..n : g[i] = f[i]
    <3>1. \A i \in 1..n : i \in Nat /\ i # m
      BY <2>0
    <3> QED BY <3>1
  <2> HIDE DEF g
  <2>3. ASSUME NEW i \in 2..m PROVE g[i] = g[i - 1] \o s[i]
    <3>1. CASE i = m
      <4>1. i - 1 = n /\ n \in 1..n
        BY <1>2, <2>0, <3>1
      <4> QED BY <2>1, <2>2, <3>1, <4>1
    <3>2. CASE i # m
      <4>1. i \in 2..n /\ i \in 1..n /\ i - 1 \in 1..n
        BY <2>0, <3>2
      <4>2. f[i] = f[i - 1] \o s[i]
        BY <4>1 DEF Joins
      <4> QED BY <2>2, <4>1, <4>2
    <3> QED BY <3>1, <3>2
  <2>4. g[1] = s[1]
    BY <1>2, <2>2 DEF Joins
  <2>5. Joins(g, s, m)
    BY <2>3, <2>4 DEF Joins
  <2> QED BY <2>0, <2>2, <2>5
<1>3. n = 0 \/ n > 0
  OBVIOUS
<1> QED BY <1>1, <1>2, <1>3, Zenon

LEMMA JoinExists ==
  ASSUME NEW s \in [Nat -> Seq(Cells)]
  PROVE  \A n \in Nat : \E f \in [Nat -> Seq(Cells)] : Joins(f, s, n)
<1> DEFINE T == {n \in Nat : \E f \in [Nat -> Seq(Cells)] : Joins(f, s, n)}
<1>1. 0 \in T
  <2> DEFINE g == [i \in Nat |-> s[1]]
  <2>1. g \in [Nat -> Seq(Cells)] /\ Joins(g, s, 0)
    BY DEF Joins
  <2> QED BY <2>1
<1>2. ASSUME NEW n \in T PROVE n + 1 \in T
  <2>1. n \in Nat /\ n + 1 \in Nat /\ \E f \in [Nat -> Seq(Cells)] : Joins(f, s, n)
    OBVIOUS
  <2>2. \E f \in [Nat -> Seq(Cells)] : Joins(f, s, n + 1)
    <3> HIDE DEF T
    <3> QED BY <2>1, JoinMore
  <2> QED BY <2>1, <2>2
<1> HIDE DEF T
<1>3. T \in SUBSET Nat
  BY DEF T
<1>4. \A n \in Nat : n \in T
  BY <1>1, <1>2, <1>3, SetInduction
<1> QED BY <1>4 DEF T

LEMMA FlattenIs ==
  ASSUME NEW n \in Nat, n > 0, NEW s \in [1..n -> Seq(Cells)]
  PROVE  \E f : /\ FlattenSeq(s) = f[n] /\ f[1] = s[1]
                /\ \A i \in 2..n : f[i] = f[i - 1] \o s[i]
<1> DEFINE Step(g, i) == IF i = 1 THEN s[i] ELSE g[i - 1] \o s[i]
<1>1. Len(s) = n
  OBVIOUS
<1>2. \E g : g = [i \in 1..n |-> Step(g, i)]
  <2> DEFINE t == [i \in Nat |-> IF i \in 1..n THEN s[i] ELSE <<>>]
  <2>1. t \in [Nat -> Seq(Cells)] /\ \A i \in 1..n : t[i] = s[i]
    OBVIOUS
  <2> HIDE DEF t
  <2>2. PICK f \in [Nat -> Seq(Cells)] : Joins(f, t, n)
    BY <2>1, JoinExists
  <2> DEFINE h == [i \in 1..n |-> f[i]]
  <2>3. ASSUME NEW i \in 1..n PROVE h[i] = Step(h, i)
    <3>1. CASE i = 1
      BY <2>1, <2>2, <3>1 DEF Joins
    <3>2. CASE i # 1
      <4>1. i \in 2..n /\ i - 1 \in 1..n
        BY <3>2
      <4>2. f[i] = f[i - 1] \o t[i] /\ h[i] = f[i] /\ h[i - 1] = f[i - 1] /\ t[i] = s[i]
        BY <2>1, <2>2, <4>1 DEF Joins
      <4> HIDE DEF h
      <4> QED BY <3>2, <4>2
    <3> QED BY <3>1, <3>2
  <2>4. h = [i \in 1..n |-> h[i]]
    OBVIOUS
  <2> HIDE DEF h, Step
  <2>5. h = [i \in 1..n |-> Step(h, i)]
    BY <2>3, <2>4
  <2> QED BY <2>5
<1> DEFINE F == CHOOSE g : g = [i \in 1..n |-> Step(g, i)]
<1>3. FlattenSeq(s) = F[n]
  <2>1. Len(s) # 0
    BY <1>1
  <2> QED BY <1>1, <2>1, Zenon DEF FlattenSeq
<1>4. F = [i \in 1..n |-> Step(F, i)]
  <2> HIDE DEF Step
  <2> QED BY <1>2, Zenon
<1> HIDE DEF F
<1>5. \A i \in 1..n : F[i] = Step(F, i)
  <2> HIDE DEF Step
  <2> QED BY <1>4, Zenon
<1>6. F[1] = s[1]
  <2>1. 1 \in 1..n
    OBVIOUS
  <2> QED BY <1>5, <2>1
<1>7. ASSUME NEW i \in 2..n PROVE F[i] = F[i - 1] \o s[i]
  <2>1. i \in 1..n /\ i # 1
    OBVIOUS
  <2> QED BY <1>5, <2>1
<1> QED BY <1>3, <1>6, <1>7

-------------------------------------------------------------------------------
(* The payloads of whole records                                                *)

\* Each cell is payload, and so are its predecessor and successor in the event.
Payloads(m) ==
  \A j \in 1..Len(m) :
    /\ m[j].idx > 0 /\ m[j].idx <= m[j].total_size
    /\ m[j].idx > 1 => j > 1 /\ m[j - 1] = Cell(m[j].ev, m[j].idx - 1, m[j].total_size)
    /\ m[j].idx < m[j].total_size => j < Len(m) /\ m[j + 1] = Cell(m[j].ev, m[j].idx + 1, m[j].total_size)

\* Where events begin, in a message that has m after x cells.
Firsts(m, x) == {j \in (x + 1)..(x + Len(m)) : m[j - x].idx = 1}

\* The payload of one event, of t cells.
Part(s, e, t) == Len(s) = t /\ \A j \in 1..t : s[j] = Cell(e, j, t)

\* c is m with the payload of an event of t cells after its l cells.
Joined(c, m, l, e, t) ==
  /\ l \in Nat /\ l = Len(m) /\ c \in Seq(Cells) /\ Len(c) = l + t
  /\ \A j \in 1..l : c[j] = m[j]
  /\ \A j \in 1..t : c[l + j] = Cell(e, j, t) /\ c[l + j].idx = j /\ c[l + j].ev = e /\ c[l + j].total_size = t

LEMMA JoinedIs ==
  ASSUME NEW m \in Seq(Cells), NEW e \in Nat, NEW t \in Nat, NEW s \in Seq(Cells), Part(s, e, t)
  PROVE  Joined(m \o s, m, Len(m), e, t)
<1>1. PICK l \in Nat : l = Len(m)
  OBVIOUS
<1>2. PICK c \in Seq(Cells) : c = m \o s
  <2>1. m \o s \in Seq(Cells)
    OBVIOUS
  <2> QED BY <2>1, Zenon
<1>3. Len(s) = t /\ \A j \in 1..t : s[j] = Cell(e, j, t)
  BY DEF Part
<1>4. Len(c) = l + t
  <2>1. Len(m \o s) = Len(m) + Len(s)
    OBVIOUS
  <2> QED BY <1>1, <1>2, <1>3, <2>1, Zenon
<1>5. \A j \in 1..l : c[j] = m[j]
  BY <1>1, <1>2
<1>6. \A j \in 1..t : c[l + j] = s[j]
  BY <1>1, <1>2, <1>3
<1>7. ASSUME NEW j \in 1..t
      PROVE  c[l + j] = Cell(e, j, t) /\ c[l + j].idx = j /\ c[l + j].ev = e /\ c[l + j].total_size = t
  <2>1. c[l + j] = Cell(e, j, t)
    BY <1>3, <1>6
  <2>2. j \in Nat
    OBVIOUS
  <2>3. Cell(e, j, t).idx = j /\ Cell(e, j, t).ev = e /\ Cell(e, j, t).total_size = t
    BY <2>2, CellTyped
  <2> QED BY <2>1, <2>3
<1>8. Joined(c, m, l, e, t)
  BY <1>1, <1>4, <1>5, <1>7 DEF Joined
<1> QED BY <1>1, <1>2, <1>8

LEMMA PayloadsMore ==
  ASSUME NEW m \in Seq(Cells), NEW e \in Nat, NEW t \in Nat, NEW s \in Seq(Cells), Part(s, e, t), Payloads(m)
  PROVE  Payloads(m \o s)
<1>1. PICK c, l : c = m \o s /\ l = Len(m) /\ Joined(c, m, l, e, t)
  BY JoinedIs
<1>2. l \in Nat /\ c \in Seq(Cells) /\ Len(c) = l + t
  BY <1>1 DEF Joined
<1>3. ASSUME NEW j \in 1..l
      PROVE  /\ c[j].idx > 0 /\ c[j].idx <= c[j].total_size
             /\ c[j].idx > 1 => j > 1 /\ c[j - 1] = Cell(c[j].ev, c[j].idx - 1, c[j].total_size)
             /\ c[j].idx < c[j].total_size => j < Len(c) /\ c[j + 1] = Cell(c[j].ev, c[j].idx + 1, c[j].total_size)
  <2>1. c[j] = m[j] /\ j \in 1..Len(m)
    BY <1>1 DEF Joined
  <2>2. c[j].idx > 0 /\ c[j].idx <= c[j].total_size
    BY <2>1 DEF Payloads
  <2>3. ASSUME c[j].idx > 1 PROVE j > 1 /\ c[j - 1] = Cell(c[j].ev, c[j].idx - 1, c[j].total_size)
    <3>1. j > 1 /\ m[j - 1] = Cell(c[j].ev, c[j].idx - 1, c[j].total_size)
      BY <2>1, <2>3 DEF Payloads
    <3>2. j - 1 \in 1..l
      BY <1>2, <3>1
    <3> QED BY <1>1, <3>1, <3>2 DEF Joined
  <2>4. ASSUME c[j].idx < c[j].total_size
        PROVE  j < Len(c) /\ c[j + 1] = Cell(c[j].ev, c[j].idx + 1, c[j].total_size)
    <3>1. j < l /\ m[j + 1] = Cell(c[j].ev, c[j].idx + 1, c[j].total_size)
      BY <1>1, <2>1, <2>4 DEF Payloads
    <3>2. j + 1 \in 1..l /\ j < Len(c)
      BY <1>2, <3>1
    <3> QED BY <1>1, <3>1, <3>2 DEF Joined
  <2> QED BY <2>2, <2>3, <2>4
<1>4. ASSUME NEW i \in 1..t, NEW j, j = l + i
      PROVE  /\ c[j].idx > 0 /\ c[j].idx <= c[j].total_size
             /\ c[j].idx > 1 => j > 1 /\ c[j - 1] = Cell(c[j].ev, c[j].idx - 1, c[j].total_size)
             /\ c[j].idx < c[j].total_size => j < Len(c) /\ c[j + 1] = Cell(c[j].ev, c[j].idx + 1, c[j].total_size)
  <2>1. c[j].idx = i /\ c[j].ev = e /\ c[j].total_size = t
    BY <1>1, <1>4 DEF Joined
  <2>2. ASSUME i > 1 PROVE j > 1 /\ c[j - 1] = Cell(e, i - 1, t)
    <3>1. i - 1 \in 1..t /\ j - 1 = l + (i - 1) /\ j > 1
      BY <1>2, <1>4, <2>2
    <3> QED BY <1>1, <3>1 DEF Joined
  <2>3. ASSUME i < t PROVE j < Len(c) /\ c[j + 1] = Cell(e, i + 1, t)
    <3>1. i + 1 \in 1..t /\ j + 1 = l + (i + 1) /\ j < Len(c)
      BY <1>2, <1>4, <2>3
    <3> QED BY <1>1, <3>1 DEF Joined
  <2> QED BY <2>1, <2>2, <2>3
<1>5. \A j \in 1..Len(c) : j \in 1..l \/ \E i \in 1..t : j = l + i
  <2> SUFFICES ASSUME NEW j \in 1..Len(c), j > l PROVE \E i \in 1..t : j = l + i
    BY <1>2
  <2>1. j - l \in 1..t /\ j = l + (j - l)
    BY <1>2
  <2> QED BY <2>1
<1>6. Payloads(c)
  BY <1>3, <1>4, <1>5 DEF Payloads
<1> QED BY <1>1, <1>6

LEMMA FirstsFinite ==
  ASSUME NEW m \in Seq(Cells), NEW x \in Nat
  PROVE  IsFiniteSet(Firsts(m, x)) /\ Cardinality(Firsts(m, x)) \in Nat
<1>1. x + 1 \in Int /\ x + Len(m) \in Int
  OBVIOUS
<1>2. IsFiniteSet((x + 1)..(x + Len(m)))
  BY <1>1, FS_Interval
<1>3. Firsts(m, x) \in SUBSET ((x + 1)..(x + Len(m)))
  BY DEF Firsts
<1> QED BY <1>2, <1>3, FS_Subset, FS_CardinalityType

LEMMA FirstsMore ==
  ASSUME NEW m \in Seq(Cells), NEW e \in Nat, NEW t \in Nat, t > 0, NEW s \in Seq(Cells), Part(s, e, t), NEW x \in Nat
  PROVE  Cardinality(Firsts(m \o s, x)) = Cardinality(Firsts(m, x)) + 1
<1>1. PICK c, l : c = m \o s /\ l = Len(m) /\ Joined(c, m, l, e, t)
  BY JoinedIs
<1>2. l \in Nat /\ c \in Seq(Cells) /\ Len(c) = l + t
  BY <1>1 DEF Joined
<1>3. ASSUME NEW j \in (x + 1)..(x + l) PROVE j \in Firsts(c, x) <=> j \in Firsts(m, x)
  <2>1. j - x \in 1..l /\ j \in (x + 1)..(x + Len(c)) /\ j \in (x + 1)..(x + Len(m))
    BY <1>1, <1>2
  <2>2. c[j - x] = m[j - x]
    BY <1>1, <2>1 DEF Joined
  <2> QED BY <2>1, <2>2 DEF Firsts
<1>4. ASSUME NEW j \in (x + l + 1)..(x + l + t) PROVE j \in Firsts(c, x) <=> j = x + l + 1
  <2>1. j - x - l \in 1..t /\ j \in (x + 1)..(x + Len(c)) /\ j - x = l + (j - x - l)
    BY <1>2
  <2>2. c[j - x].idx = j - x - l
    BY <1>1, <2>1 DEF Joined
  <2>3. j \in Firsts(c, x) <=> j - x - l = 1
    BY <2>1, <2>2 DEF Firsts
  <2> QED BY <1>2, <2>3
<1>5. Firsts(c, x) \subseteq (x + 1)..(x + l + t) /\ Firsts(m, x) \subseteq (x + 1)..(x + l)
  BY <1>1, <1>2 DEF Firsts
<1>6. Firsts(c, x) = Firsts(m, x) \cup {x + l + 1} /\ x + l + 1 \notin Firsts(m, x)
  <2>1. \A j \in (x + 1)..(x + l + t) : j \in (x + 1)..(x + l) \/ j \in (x + l + 1)..(x + l + t)
    BY <1>2
  <2>2. x + l + 1 \in (x + l + 1)..(x + l + t) /\ x + l + 1 \notin (x + 1)..(x + l)
    BY <1>2
  <2>3. \A j \in (x + 1)..(x + l) : j # x + l + 1
    BY <1>2
  <2> QED BY <1>3, <1>4, <1>5, <2>1, <2>2, <2>3
<1> QED BY <1>1, <1>6, FS_AddElement, FirstsFinite

-------------------------------------------------------------------------------
(* What a read state takes from the records                                     *)

LEMMA LaidOut ==
  ASSUME IInv
  PROVE  Typed /\ \E p, k, e, n \in Nat : Layout(p, k, e, n)
<1>0. Typed /\ Recorded
  BY DEF IInv
<1>1. CASE Resting
  <2>1. PICK p : p = Len(buf)
    OBVIOUS
  <2>2. Layout(p, 0, 0, 0)
    BY <1>1, <2>1 DEF Resting
  <2>3. p \in Nat /\ 0 \in Nat
    BY <2>2 DEF Layout
  <2> QED BY <1>0, <2>2, <2>3
<1>2. ASSUME NEW w \in Writer, Working(w) PROVE \E p, k, e, n \in Nat : Layout(p, k, e, n)
  BY <1>0, <1>2, WorkIs
<1> QED BY <1>0, <1>1, <1>2 DEF Recorded

\* Each record taken is whole, and the next begins where it ends.
LEMMA Strides ==
  ASSUME Typed, NEW p \in Nat, NEW k \in Nat, NEW e \in Nat, NEW n \in Nat, Layout(p, k, e, n),
         NEW rs, Takes(rs), NEW i \in 1..rs.num_events
  PROVE  /\ i \in 1..Len(buf) /\ i - 1 \in 0..Len(buf)
         /\ Offset[i - 1] \in Nat /\ Offset[i - 1] < p /\ buf[Offset[i - 1] + 1].idx = 0
         /\ Offset[i] = Offset[i - 1] + buf[Offset[i - 1] + 1].total_size
<1>0. /\ buf \in Seq(Cells) /\ Len(buf) \in Nat /\ build.capacity \in Nat /\ Len(buf) <= build.capacity
      /\ Records(buf, p) /\ OpenAt(buf, p, k, e, n) /\ p + k = Len(buf)
      /\ IN_PROGRESS = build.capacity + 1
  BY TypedFacts DEF Typed, Layout, OpenAt, IN_PROGRESS
<1>1. i \in 1..Len(buf) /\ i - 1 \in 0..Len(buf) /\ Complete(Offset[i - 1])
  BY <1>0 DEF Takes
<1>2. PICK o : o = Offset[i - 1]
  OBVIOUS
<1>3. o \in Nat /\ Starts(buf, p, o) /\ Complete(o)
  BY <1>0, <1>1, <1>2, WalkStarts
<1>4. o < p
  <2> SUFFICES ASSUME o = p PROVE FALSE
    BY <1>3 DEF Starts
  <2>1. CASE k = 0
    BY <1>0, <1>3, <2>1 DEF Complete
  <2>2. CASE k > 0
    <3>1. buf[o + 1] = Cell(e, 0, IN_PROGRESS)
      BY <1>0, <2>2 DEF OpenAt
    <3> QED BY <1>3, <3>1 DEF Complete, Cell
  <2> QED BY <2>1, <2>2
<1>5. buf[o + 1].idx = 0
  BY <1>3, <1>4 DEF Starts
<1>6. Offset[i] = o + buf[o + 1].total_size
  <2>1. Offset[i] = Offset[i - 1] + Jump(Offset[i - 1])
    BY <1>0, <1>1, OffsetIs
  <2>2. Jump(o) = buf[o + 1].total_size
    BY <1>3 DEF Jump
  <2> QED BY <1>2, <2>1, <2>2
<1> QED BY <1>1, <1>2, <1>3, <1>4, <1>5, <1>6

Piece(i) == SubSeq(buf, Offset[i - 1] + 2, Offset[i])

\* Piece i is the t cells of payload of event v, after its header at h.
PieceOf(i, p, v, t, h) ==
  /\ t > 0 /\ Piece(i) \in Seq(Cells) /\ Part(Piece(i), v, t)
  /\ Offset[i - 1] \in Nat /\ Offset[i] = Offset[i - 1] + t + 1 /\ Offset[i] <= p
  /\ h = Offset[i - 1] + 1 /\ h \in 1..p /\ buf[h].ev = v /\ buf[h].idx = 0 /\ buf[h].total_size <= p
  /\ h + t <= p /\ \A j \in 1..t : buf[h + j] = Cell(v, j, t)

LEMMA PieceAt ==
  ASSUME Typed, NEW p \in Nat, NEW k \in Nat, NEW e \in Nat, NEW n \in Nat, Layout(p, k, e, n),
         NEW rs, Takes(rs), NEW i \in 1..rs.num_events
  PROVE  \E v, t, h \in Nat : PieceOf(i, p, v, t, h)
<1>0. buf \in Seq(Cells) /\ Len(buf) \in Nat /\ Records(buf, p) /\ p <= Len(buf)
  BY TypedFacts DEF Typed, Layout, Records
<1>1. PICK o \in Nat : o = Offset[i - 1]
  BY Strides
<1>2. PICK b : b = Offset[i]
  OBVIOUS
<1>3. o < p /\ buf[o + 1].idx = 0 /\ b = o + buf[o + 1].total_size
  BY <1>1, <1>2, Strides
<1>4. PICK h \in Nat : h = o + 1
  OBVIOUS
<1>5. h \in 1..p /\ h \in 1..Len(buf)
  BY <1>0, <1>3, <1>4
<1>6. PICK v \in Nat : v = buf[h].ev
  BY <1>0, <1>5, CellIs
<1>7. PICK t \in Nat : /\ t = buf[h].total_size - 1 /\ t > 0 /\ h + t <= p /\ h + t <= Len(buf)
                       /\ \A j \in 1..t : buf[h + j] = Cell(v, j, t)
  BY <1>0, <1>3, <1>4, <1>5, <1>6, HeaderIs
<1>8. b = h + t
  <2>1. PICK x \in Nat : x = buf[h].total_size
    BY <1>0, <1>5, CellIs
  <2>2. b = o + x /\ t = x - 1
    BY <1>3, <1>4, <1>7, <2>1
  <2> QED BY <1>4, <2>2
<1>9. PICK s : s = SubSeq(buf, h + 1, h + t)
  OBVIOUS
<1>10. s \in Seq(Cells) /\ Len(s) = t /\ \A j \in 1..t : s[j] = buf[h + j]
  <2>1. h + 1 \in 1..(Len(buf) + 1) /\ h + t \in 0..Len(buf) /\ (h + t) - (h + 1) + 1 = t
    <3>1. t > 0 /\ h + t <= Len(buf) /\ h >= 1 /\ h <= Len(buf)
      BY <1>5, <1>7
    <3> QED BY <1>0, <3>1
  <2>2. s \in Seq(Cells)
    BY <1>0, <1>9, <2>1
  <2>3. Len(s) = t
    BY <1>0, <1>9, <2>1
  <2>4. ASSUME NEW j \in 1..t PROVE s[j] = buf[h + j]
    <3>1. (h + 1) + j - 1 = h + j /\ j \in 1..((h + t) - (h + 1) + 1)
      BY <2>1
    <3> QED BY <1>0, <1>9, <2>1, <3>1
  <2> QED BY <2>2, <2>3, <2>4
<1>11. Part(s, v, t)
  BY <1>7, <1>10 DEF Part
<1>12. Piece(i) = s
  <2>1. o + 2 = h + 1
    BY <1>4
  <2> QED BY <1>1, <1>2, <1>8, <1>9, <2>1 DEF Piece
<1>13. b = o + t + 1 /\ b <= p
  <2>1. h + t <= p
    BY <1>7
  <2> QED BY <1>4, <1>8, <2>1
<1>14. buf[h].total_size <= p
  BY <1>0, <1>3, <1>4, <1>5, HeaderIs
<1>15. buf[h].ev = v /\ buf[h].idx = 0
  BY <1>3, <1>4, <1>6
<1>16. t > 0 /\ Piece(i) \in Seq(Cells) /\ Part(Piece(i), v, t)
  BY <1>7, <1>10, <1>11, <1>12
<1>17. Offset[i - 1] \in Nat /\ Offset[i] = Offset[i - 1] + t + 1 /\ Offset[i] <= p /\ h = Offset[i - 1] + 1
  BY <1>1, <1>2, <1>4, <1>13
<1>18. h \in 1..p /\ h + t <= p /\ \A j \in 1..t : buf[h + j] = Cell(v, j, t)
  BY <1>5, <1>7
<1> QED BY <1>14, <1>15, <1>16, <1>17, <1>18, Zenon DEF PieceOf

LEMMA PieceIs ==
  ASSUME Typed, NEW p \in Nat, NEW k \in Nat, NEW e \in Nat, NEW n \in Nat, Layout(p, k, e, n),
         NEW rs, Takes(rs), NEW i \in 1..rs.num_events
  PROVE  \E v, t \in Nat : /\ t > 0 /\ Piece(i) \in Seq(Cells) /\ Part(Piece(i), v, t)
                           /\ Offset[i - 1] \in Nat /\ Offset[i] = Offset[i - 1] + t + 1 /\ Offset[i] <= p
<1>1. PICK v, t, h \in Nat : PieceOf(i, p, v, t, h)
  BY PieceAt
<1> QED BY <1>1 DEF PieceOf

\* m is the payload of i records, which end after q cells.
BodyOf(m, i, q) ==
  /\ m \in Seq(Cells) /\ Payloads(m) /\ q \in Nat /\ Len(m) + i = q
  /\ \A x \in Nat : Cardinality(Firsts(m, x)) = i

LEMMA NoBody == BodyOf(<<>>, 0, 0)
<1>1. Payloads(<<>>) /\ <<>> \in Seq(Cells) /\ Len(<<>>) = 0
  BY DEF Payloads
<1>2. ASSUME NEW x \in Nat PROVE Firsts(<<>>, x) = {}
  BY DEF Firsts
<1> QED BY <1>1, <1>2, FS_EmptySet DEF BodyOf

LEMMA BodyMore ==
  ASSUME NEW m, NEW i \in Nat, NEW q, BodyOf(m, i, q), NEW v \in Nat, NEW t \in Nat, t > 0, NEW s \in Seq(Cells),
         Part(s, v, t)
  PROVE  BodyOf(m \o s, i + 1, q + t + 1)
<1>1. m \in Seq(Cells) /\ Payloads(m) /\ q \in Nat /\ Len(m) + i = q
  BY DEF BodyOf
<1>2. m \o s \in Seq(Cells) /\ Len(m \o s) = Len(m) + t
  BY <1>1, JoinedIs DEF Joined
<1>3. Payloads(m \o s)
  BY <1>1, PayloadsMore
<1>4. ASSUME NEW x \in Nat PROVE Cardinality(Firsts(m \o s, x)) = i + 1
  <2>1. Cardinality(Firsts(m, x)) = i
    BY DEF BodyOf
  <2>2. Cardinality(Firsts(m \o s, x)) = Cardinality(Firsts(m, x)) + 1
    BY <1>1, FirstsMore
  <2> QED BY <2>1, <2>2
<1>5. q + t + 1 \in Nat /\ Len(m \o s) + (i + 1) = q + t + 1
  <2>1. PICK l \in Nat : l = Len(m)
    BY <1>1
  <2> QED BY <1>1, <1>2, <2>1
<1> QED BY <1>2, <1>3, <1>4, <1>5 DEF BodyOf

LEMMA BodyIs ==
  ASSUME Typed, NEW p \in Nat, NEW k \in Nat, NEW e \in Nat, NEW n \in Nat, Layout(p, k, e, n),
         NEW rs, Takes(rs), rs.num_events > 0
  PROVE  LET m == FlattenSeq([i \in 1..rs.num_events |-> Piece(i)])
         IN /\ BodyOf(m, rs.num_events, rs.active_event_read_size)
            /\ Len(m) > 0 /\ rs.active_event_read_size <= p
<1>1. PICK num \in Nat : num = rs.num_events /\ num > 0
  BY TypedFacts DEF Takes
<1>2. PICK s : s = [i \in 1..num |-> Piece(i)]
  OBVIOUS
<1>3. \A i \in 1..num :
        \E v, t \in Nat : /\ t > 0 /\ Piece(i) \in Seq(Cells) /\ Part(Piece(i), v, t)
                          /\ Offset[i - 1] \in Nat /\ Offset[i] = Offset[i - 1] + t + 1 /\ Offset[i] <= p
  BY <1>1, PieceIs
<1>4. s \in [1..num -> Seq(Cells)] /\ \A i \in 1..num : s[i] = Piece(i)
  BY <1>2, <1>3
<1>5. PICK f : /\ FlattenSeq(s) = f[num] /\ f[1] = s[1]
               /\ \A i \in 2..num : f[i] = f[i - 1] \o s[i]
  BY <1>1, <1>4, FlattenIs
<1> DEFINE Ok(i) == i \in 1..num => BodyOf(f[i], i, Offset[i]) /\ Len(f[i]) > 0 /\ Offset[i] <= p
           T == {i \in Nat : Ok(i)}
<1>6. ASSUME NEW i \in Nat, i + 1 \in 1..num, NEW m, BodyOf(m, i, Offset[i]), f[i + 1] = m \o s[i + 1]
      PROVE  Ok(i + 1)
  <2>1. PICK v, t \in Nat : /\ t > 0 /\ Piece(i + 1) \in Seq(Cells) /\ Part(Piece(i + 1), v, t)
                            /\ Offset[(i + 1) - 1] \in Nat /\ Offset[i + 1] = Offset[(i + 1) - 1] + t + 1
                            /\ Offset[i + 1] <= p
    BY <1>3, <1>6
  <2>2. (i + 1) - 1 = i /\ s[i + 1] = Piece(i + 1)
    BY <1>4, <1>6
  <2>3. BodyOf(m \o Piece(i + 1), i + 1, Offset[i] + t + 1)
    BY <1>6, <2>1, BodyMore
  <2>4. BodyOf(f[i + 1], i + 1, Offset[i + 1])
    BY <1>6, <2>1, <2>2, <2>3
  <2>5. m \in Seq(Cells) /\ Len(m \o Piece(i + 1)) = Len(m) + t
    BY <1>6, <2>1, JoinedIs DEF Joined, BodyOf
  <2>6. Len(f[i + 1]) > 0
    <3>1. Len(m) \in Nat
      BY <2>5
    <3> QED BY <1>6, <2>1, <2>2, <2>5, <3>1
  <2> QED BY <2>1, <2>4, <2>6
<1>7. 0 \in T
  OBVIOUS
<1>8. ASSUME NEW i \in T PROVE i + 1 \in T
  <2>0. i \in Nat /\ Ok(i)
    OBVIOUS
  <2>1. CASE i + 1 \in 1..num /\ i = 0
    <3>1. Offset[0] = 0
      BY OffsetIs DEF Typed
    <3>2. s[1] \in Seq(Cells)
      BY <1>1, <1>4
    <3>3. f[0 + 1] = <<>> \o s[0 + 1] /\ 0 \in Nat /\ 0 + 1 \in 1..num
      BY <1>1, <1>5, <3>2
    <3>4. BodyOf(<<>>, 0, Offset[0])
      BY <3>1, NoBody
    <3> HIDE DEF Ok
    <3>5. Ok(0 + 1)
      BY <1>6, <3>3, <3>4, Zenon
    <3> QED BY <2>1, <3>5
  <2>2. CASE i + 1 \in 1..num /\ i > 0
    <3>1. i \in 1..num /\ i + 1 \in 2..num /\ (i + 1) - 1 = i
      BY <1>1, <2>0, <2>2
    <3>2. BodyOf(f[i], i, Offset[i])
      BY <2>0, <3>1
    <3>3. f[i + 1] = f[i] \o s[i + 1]
      BY <1>5, <3>1
    <3> HIDE DEF Ok
    <3>4. Ok(i + 1)
      BY <1>6, <2>0, <2>2, <3>2, <3>3
    <3> QED BY <2>0, <3>4
  <2>3. CASE i + 1 \notin 1..num
    BY <2>0, <2>3
  <2>4. i = 0 \/ i > 0
    BY <2>0
  <2> HIDE DEF T
  <2> QED BY <2>1, <2>2, <2>3, <2>4
<1>9. num \in T
  <2> HIDE DEF Ok
  <2>1. T \in SUBSET Nat
    OBVIOUS
  <2> HIDE DEF T
  <2> QED BY <1>1, <1>7, <1>8, <2>1, SetInduction
<1>10. BodyOf(f[num], num, Offset[num]) /\ Len(f[num]) > 0 /\ Offset[num] <= p
  BY <1>1, <1>9
<1>11. rs.active_event_read_size = Offset[num]
  BY <1>1 DEF Takes
<1> HIDE DEF T, Ok
<1> QED BY <1>1, <1>2, <1>5, <1>10, <1>11

\* A body alone is a message of one event.
LEMMA BodyWellFormed ==
  ASSUME NEW m \in Seq(Cells), Payloads(m), Len(m) > 0
  PROVE  /\ PayloadInOrder(m) /\ \A i \in DOMAIN m : IsPayload(m[i])
         /\ Last(m).idx = Last(m).total_size
<1>1. Len(m) \in Nat /\ DOMAIN m = 1..Len(m)
  OBVIOUS
<1>2. ASSUME NEW i \in 1..Len(m)
      PROVE  /\ m[i].idx > 0
             /\ m[i].idx > 1 => i > 1 /\ m[i - 1] = [m[i] EXCEPT !.idx = @ - 1]
             /\ m[i].idx < m[i].total_size => i < Len(m) /\ m[i + 1] = [m[i] EXCEPT !.idx = @ + 1]
             /\ m[i].idx <= m[i].total_size
  <2>1. m[i] \in Cells /\ m[i].idx \in Nat
    BY CellIs
  <2>2. m[i].idx > 0 /\ m[i].idx <= m[i].total_size
    BY DEF Payloads
  <2>3. ASSUME m[i].idx > 1 PROVE i > 1 /\ m[i - 1] = [m[i] EXCEPT !.idx = @ - 1]
    <3>1. m[i].idx - 1 \in Nat
      BY <2>1, <2>3
    <3>2. [m[i] EXCEPT !.idx = m[i].idx - 1] = Cell(m[i].ev, m[i].idx - 1, m[i].total_size)
      BY <2>1, <3>1, EditedIs
    <3> QED BY <2>3, <3>2 DEF Payloads
  <2>4. ASSUME m[i].idx < m[i].total_size PROVE i < Len(m) /\ m[i + 1] = [m[i] EXCEPT !.idx = @ + 1]
    <3>1. m[i].idx + 1 \in Nat
      BY <2>1
    <3>2. [m[i] EXCEPT !.idx = m[i].idx + 1] = Cell(m[i].ev, m[i].idx + 1, m[i].total_size)
      BY <2>1, <3>1, EditedIs
    <3> QED BY <2>4, <3>2 DEF Payloads
  <2> QED BY <2>2, <2>3, <2>4
<1> DEFINE Ends(i) == m[i].idx <= m[i].total_size /\ (m[i].idx < m[i].total_size => i < Len(m))
<1>2a. \A i \in 1..Len(m) : Ends(i)
  BY <1>2
<1>3. PayloadInOrder(m)
  BY <1>1, <1>2 DEF PayloadInOrder
<1>4. \A i \in DOMAIN m : IsPayload(m[i])
  BY <1>1, <1>2 DEF IsPayload
<1>5. Last(m).idx = Last(m).total_size
  <2>1. Len(m) \in 1..Len(m) /\ ~(Len(m) < Len(m))
    BY <1>1
  <2>2. m[Len(m)].idx \in Nat /\ m[Len(m)].total_size \in Nat
    BY <2>1, CellIs
  <2>3. m[Len(m)].idx = m[Len(m)].total_size
    BY <1>2a, <2>1, <2>2
  <2> QED BY <2>3 DEF Last
<1> QED BY <1>3, <1>4, <1>5

\* The message of a read state that took something is one the server can parse.
LEMMA MessageIs ==
  ASSUME Typed, NEW p \in Nat, NEW k \in Nat, NEW e \in Nat, NEW n \in Nat, Layout(p, k, e, n),
         NEW rs, Takes(rs), rs.num_events > 0
  PROVE  /\ Message(rs) \in Seq(Cells) /\ Len(Message(rs)) = TotalEventSize(rs) /\ Len(Message(rs)) > 0
         /\ WellFormed(Message(rs))
         /\ rs.active_event_read_size \in Nat /\ rs.active_event_read_size <= p /\ rs.num_events <= p
<1>1. PICK num \in Nat : num = rs.num_events /\ num > 0
  BY TypedFacts DEF Takes
<1>2. PICK m : m = FlattenSeq([i \in 1..num |-> Piece(i)])
  OBVIOUS
<1>3. PICK a : a = rs.active_event_read_size
  OBVIOUS
<1>4. BodyOf(m, num, a) /\ Len(m) > 0 /\ a <= p
  BY <1>1, <1>2, <1>3, BodyIs
<1>5. m \in Seq(Cells) /\ Payloads(m) /\ a \in Nat /\ Len(m) + num = a
  BY <1>4 DEF BodyOf
<1>6. num <= p
  <2>1. Len(m) \in Nat
    BY <1>5
  <2> QED BY <1>4, <1>5, <2>1
<1>7. PayloadInOrder(m) /\ (\A i \in DOMAIN m : IsPayload(m[i])) /\ Last(m).idx = Last(m).total_size
  BY <1>4, <1>5, BodyWellFormed
<1> DEFINE Counted(s) == Cardinality({i \in DOMAIN s : s[i].idx = 1})
<1>8. CASE num > 1
  <2>1. rs.header_length = 1
    BY <1>1, <1>8 DEF Takes
  <2>2. PICK h : h = ArrayHeader(num)
    OBVIOUS
  <2>3. h \in Cells /\ h.idx = 0
    BY <2>2, CellTyped DEF ArrayHeader
  <2>4. PICK s : s = <<h>> \o m
    OBVIOUS
  <2>5. Message(rs) = s
    BY <1>1, <1>2, <2>1, <2>2, <2>4 DEF Message, Piece
  <2>6. s \in Seq(Cells) /\ Len(s) = Len(m) + 1
    <3>1. <<h>> \in Seq(Cells) /\ Len(<<h>>) = 1
      BY <2>3
    <3> QED BY <1>5, <2>4, <3>1
  <2>7. s[1] = h
    BY <1>5, <2>4
  <2>8. \A j \in 1..Len(m) : s[j + 1] = m[j]
    BY <1>5, <2>4
  <2>9. Tail(s) = m
    <3>1. Tail(s) \in Seq(Cells) /\ Len(Tail(s)) = Len(m) /\ \A j \in 1..Len(m) : Tail(s)[j] = s[j + 1]
      BY <1>5, <2>6
    <3> QED BY <1>5, <2>8, <3>1
  <2>10. Counted(s) = num
    <3>1. {i \in DOMAIN s : s[i].idx = 1} = Firsts(m, 1)
      <4>1. DOMAIN s = 1..(Len(m) + 1) /\ Len(m) \in Nat
        BY <1>5, <2>6
      <4>2. ASSUME NEW i \in 2..(Len(m) + 1) PROVE s[i] = m[i - 1]
        <5>1. i - 1 \in 1..Len(m) /\ (i - 1) + 1 = i
          BY <4>1
        <5> QED BY <2>8, <5>1
      <4>3. s[1].idx # 1
        BY <2>3, <2>7
      <4>4. \A i : i \in 1..(Len(m) + 1) <=> i = 1 \/ i \in 2..(Len(m) + 1)
        BY <4>1
      <4>5. 1 + 1 = 2 /\ 1 + Len(m) = Len(m) + 1
        BY <4>1
      <4>6. \A i \in DOMAIN s : s[i].idx = 1 => i \in 2..(Len(m) + 1)
        BY <4>1, <4>3, <4>4
      <4>7. {i \in DOMAIN s : s[i].idx = 1} = {i \in 2..(Len(m) + 1) : s[i].idx = 1}
        BY <4>1, <4>4, <4>6
      <4>8. {i \in 2..(Len(m) + 1) : s[i].idx = 1} = {i \in 2..(Len(m) + 1) : m[i - 1].idx = 1}
        BY <4>2
      <4> QED BY <4>5, <4>7, <4>8 DEF Firsts
    <3>2. Cardinality(Firsts(m, 1)) = num
      BY <1>4 DEF BodyOf
    <3> QED BY <3>1, <3>2
  <2>11. WellFormed(s)
    <3> HIDE DEF Counted
    <3>1. s[1] = ArrayHeader(num) /\ num > 0
      BY <1>1, <2>2, <2>7
    <3> QED BY <1>7, <1>8, <2>9, <2>10, <3>1 DEF WellFormed, Counted
  <2>12. TotalEventSize(rs) = (a + 1) - num
    BY <1>1, <1>3, <2>1 DEF TotalEventSize
  <2>13. Len(s) = TotalEventSize(rs) /\ Len(s) > 0
    <3>1. PICK l \in Nat : l = Len(m)
      BY <1>5
    <3> QED BY <1>4, <1>5, <2>6, <2>12, <3>1
  <2> QED BY <1>1, <1>3, <1>4, <1>5, <1>6, <2>5, <2>6, <2>11, <2>13
<1>9. CASE ~(num > 1)
  <2>1. rs.header_length = 0 /\ num = 1
    BY <1>1, <1>9 DEF Takes
  <2>2. Message(rs) = m
    <3>1. <<>> \o m = m
      BY <1>5
    <3> QED BY <1>1, <1>2, <2>1, <3>1 DEF Message, Piece
  <2>3. Counted(m) = num
    <3>1. {i \in DOMAIN m : m[i].idx = 1} = Firsts(m, 0)
      <4>1. DOMAIN m = 1..Len(m) /\ Len(m) \in Nat
        BY <1>5
      <4>2. \A i \in 1..Len(m) : i - 0 = i
        BY <4>1
      <4>3. 0 + 1 = 1 /\ 0 + Len(m) = Len(m)
        BY <4>1
      <4> QED BY <4>1, <4>2, <4>3 DEF Firsts
    <3>2. Cardinality(Firsts(m, 0)) = num
      BY <1>4 DEF BodyOf
    <3> QED BY <3>1, <3>2
  <2>4. WellFormed(m)
    <3> HIDE DEF Counted
    <3> QED BY <1>1, <1>7, <1>9, <2>3 DEF WellFormed, Counted
  <2>5. TotalEventSize(rs) = (a + 0) - num
    BY <1>1, <1>3, <2>1 DEF TotalEventSize
  <2>6. Len(m) = TotalEventSize(rs)
    <3>1. PICK l \in Nat : l = Len(m)
      BY <1>5
    <3> QED BY <1>4, <1>5, <2>5, <3>1
  <2> QED BY <1>1, <1>3, <1>4, <1>5, <1>6, <2>2, <2>4, <2>6
<1> QED BY <1>8, <1>9

\* What prv_compute_read_state takes, and what an empty read state does.
LEMMA ComputedTakes ==
  ASSUME Typed
  PROVE  /\ Takes(ComputedReadState) /\ Takes(NoRead)
         /\ Complete(0) /\ ~build.batching => ComputedReadState.num_events = 1
<1>0. buf \in Seq(Cells) /\ Len(buf) \in Nat /\ Offset[0] = 0
  BY OffsetIs DEF Typed
<1>1. PICK num : num = ComputedReadState.num_events
  OBVIOUS
<1>2. /\ num \in 0..Len(buf) /\ \A k \in 1..num : Taken(k)
      /\ ComputedReadState = [active_event_read_size |-> Offset[num], num_events |-> num,
                              header_length |-> IF num > 1 THEN 1 ELSE 0]
  BY <1>0, <1>1, NumIs
<1>3. num > 1 => build.batching
  <2>1. num > 1 => 2 \in 1..num
    BY <1>0, <1>2
  <2> QED BY <1>2, <2>1 DEF Taken
<1>4. \A k \in 1..num : Complete(Offset[k - 1])
  BY <1>2 DEF Taken
<1>5. Takes(ComputedReadState)
  BY <1>2, <1>3, <1>4 DEF Takes
<1>6. Takes(NoRead)
  <2>1. 0 \in 0..Len(buf) /\ 1..0 = {}
    BY <1>0
  <2> QED BY <1>0, <2>1 DEF Takes, NoRead
<1>7. ASSUME Complete(0), ~build.batching PROVE num = 1
  <2> DEFINE S == {m \in 0..Len(buf) : \A k \in 1..m : Taken(k)}
  <2>1. S \in SUBSET (0..Len(buf)) /\ 0 \in S
    BY <1>0
  <2>2. 1 \in S
    <3>1. 1 \in 0..Len(buf)
      BY <1>0, <1>7 DEF Complete
    <3>2. Taken(1)
      BY <1>0, <1>7 DEF Taken
    <3> QED BY <3>1, <3>2
  <2>3. num = Max(S)
    BY <1>1 DEF ComputedReadState
  <2>4. 1 <= num
    <3> HIDE DEF S
    <3> QED BY <1>0, <2>1, <2>2, <2>3, MaxIsOne
  <2> QED BY <1>0, <1>2, <1>3, <1>7, <2>4
<1> QED BY <1>1, <1>5, <1>6, <1>7

-------------------------------------------------------------------------------
(* A message stays while its records do                                         *)

LEMMA OffsetsGrow ==
  ASSUME Typed, NEW p \in Nat, NEW k \in Nat, NEW e \in Nat, NEW n \in Nat, Layout(p, k, e, n),
         NEW rs, Takes(rs)
  PROVE  \A i \in 0..rs.num_events : Offset[i] \in Nat /\ Offset[i] <= rs.active_event_read_size
<1>1. PICK num \in Nat : num = rs.num_events /\ Offset[num] = rs.active_event_read_size
  BY TypedFacts DEF Takes
<1>2. Offset[0] = 0
  BY OffsetIs DEF Typed
<1> DEFINE Ok(j) == j \in 0..num => Offset[j] \in Nat /\ \A i \in 0..j : Offset[i] \in Nat /\ Offset[i] <= Offset[j]
           T == {j \in Nat : Ok(j)}
<1>3. 0 \in T
  <2>1. \A i \in 0..0 : i = 0
    OBVIOUS
  <2> QED BY <1>2, <2>1
<1>4. ASSUME NEW j \in T PROVE j + 1 \in T
  <2>1. j \in Nat /\ Ok(j)
    OBVIOUS
  <2>2. ASSUME j + 1 \in 0..num PROVE Ok(j + 1)
    <3>1. j + 1 \in 1..num /\ j \in 0..num /\ (j + 1) - 1 = j
      BY <1>1, <2>1, <2>2
    <3>2. PICK v, t \in Nat : Offset[(j + 1) - 1] \in Nat /\ Offset[j + 1] = Offset[(j + 1) - 1] + t + 1
      BY <1>1, <3>1, PieceIs
    <3>3. PICK a, b \in Nat : a = Offset[j] /\ b = Offset[j + 1] /\ a <= b
      <4>1. PICK a \in Nat : a = Offset[j]
        BY <3>1, <3>2
      <4>2. Offset[j + 1] = a + t + 1
        BY <3>1, <3>2, <4>1
      <4>3. a + t + 1 \in Nat /\ a <= a + t + 1
        OBVIOUS
      <4> QED BY <4>1, <4>2, <4>3
    <3>4. ASSUME NEW i \in 0..(j + 1) PROVE Offset[i] \in Nat /\ Offset[i] <= Offset[j + 1]
      <4>1. CASE i = j + 1
        BY <3>3, <4>1
      <4>2. CASE i # j + 1
        <5>1. i \in 0..j
          BY <2>1, <4>2
        <5>2. PICK c \in Nat : c = Offset[i] /\ c <= Offset[j]
          BY <2>1, <3>1, <5>1
        <5> QED BY <3>3, <5>2
      <4> QED BY <4>1, <4>2
    <3> QED BY <3>3, <3>4
  <2>3. j + 1 \notin 0..num => Ok(j + 1)
    OBVIOUS
  <2> HIDE DEF Ok
  <2> QED BY <2>1, <2>2, <2>3
<1>5. num \in T
  <2>1. T \in SUBSET Nat
    OBVIOUS
  <2> HIDE DEF T
  <2> QED BY <1>1, <1>3, <1>4, <2>1, SetInduction
<1> QED BY <1>1, <1>5

OffsetLaw == buf \in Seq(Cells) => /\ Offset[0] = 0
                                   /\ \A k \in 1..Len(buf) : Offset[k] = Offset[k - 1] + Jump(Offset[k - 1])
LEMMA OffsetAlways == []OffsetLaw
<1>1. OffsetLaw
  BY OffsetIs DEF OffsetLaw
<1> QED BY <1>1, PTL

LEMMA SameCut ==
  ASSUME NEW b \in Seq(Cells), NEW c \in Seq(Cells), NEW x \in Nat, NEW y \in Nat, x > 0,
         y <= Len(b), y <= Len(c), \A i \in 1..y : b[i] = c[i]
  PROVE  SubSeq(b, x, y) = SubSeq(c, x, y)
<1>1. CASE x <= y
  <2>1. SubSeq(b, x, y) \in Seq(Cells) /\ SubSeq(c, x, y) \in Seq(Cells)
    BY <1>1
  <2>2. Len(SubSeq(b, x, y)) = y - x + 1 /\ Len(SubSeq(c, x, y)) = y - x + 1
    BY <1>1
  <2>3. ASSUME NEW i \in 1..(y - x + 1) PROVE SubSeq(b, x, y)[i] = SubSeq(c, x, y)[i]
    <3>1. x + i - 1 \in 1..y
      BY <1>1
    <3>2. SubSeq(b, x, y)[i] = b[x + i - 1] /\ SubSeq(c, x, y)[i] = c[x + i - 1]
      BY <1>1, <3>1
    <3> QED BY <3>1, <3>2
  <2> QED BY <2>1, <2>2, <2>3
<1>2. CASE x > y
  BY <1>2
<1> QED BY <1>1, <1>2

LEMMA MessageSame ==
  ASSUME Typed, NEW p \in Nat, NEW k \in Nat, NEW e \in Nat, NEW n \in Nat, Layout(p, k, e, n),
         NEW rs, Takes(rs), build' = build, buf' \in Seq(Cells), NEW a, a = rs.active_event_read_size,
         a <= Len(buf'), \A i \in 1..a : buf'[i] = buf[i]
  PROVE  Takes(rs)' /\ Message(rs)' = Message(rs)
<1>0. /\ buf \in Seq(Cells) /\ Len(buf) \in Nat /\ Len(buf') \in Nat /\ p <= Len(buf)
      /\ IN_PROGRESS' = IN_PROGRESS
  BY TypedFacts DEF Typed, Layout, Records, IN_PROGRESS
<1>1. PICK num \in Nat : num = rs.num_events /\ Offset[num] = a
  BY TypedFacts DEF Takes
<1>2. \A i \in 0..num : Offset[i] \in Nat /\ Offset[i] <= a
  BY <1>1, OffsetsGrow
<1>3. a \in Nat /\ a <= Len(buf)
  <2>1. a \in Nat
    BY <1>1, <1>2
  <2>2. CASE num > 0
    BY <1>0, <1>1, <2>1, <2>2, MessageIs
  <2>3. CASE num = 0
    <3>1. a = 0
      BY <1>0, <1>1, <2>3, OffsetIs
    <3> QED BY <1>0, <3>1
  <2> QED BY <1>1, <2>1, <2>2, <2>3
<1>4. num <= Len(buf')
  <2>1. CASE num > 0
    <3>1. PICK l \in Nat : l = Len(Message(rs)) /\ l > 0 /\ BodyOf(FlattenSeq([i \in 1..rs.num_events |-> Piece(i)]), num, a)
      BY <1>1, <2>1, MessageIs, BodyIs
    <3>2. PICK m : m \in Seq(Cells) /\ Len(m) + num = a
      BY <3>1 DEF BodyOf
    <3>3. Len(m) \in Nat
      BY <3>2
    <3> QED BY <1>0, <1>3, <3>2, <3>3
  <2> QED BY <1>0, <1>1, <2>1
<1>5. OffsetLaw'
  BY OffsetAlways, PTL
<1>6. /\ Offset'[0] = 0
      /\ \A i \in 1..Len(buf') : Offset'[i] = Offset'[i - 1] + Jump(Offset[i - 1])'
  BY <1>5 DEF OffsetLaw
<1>7. ASSUME NEW i \in 1..num, NEW o, o = Offset[i - 1]
      PROVE  (Complete(o) /\ Complete(o)') /\ Jump(o)' = Jump(o)
  <2>1. Complete(o)
    BY <1>1, <1>7 DEF Takes
  <2>2. PICK v, t \in Nat : o \in Nat /\ Offset[i] = o + t + 1
    BY <1>1, <1>7, PieceIs
  <2>3. o + t + 1 <= a /\ o + 1 \in 1..a /\ o < Len(buf')
    <3>1. i \in 0..num
      BY <1>1
    <3>2. o + t + 1 <= a
      BY <1>2, <2>2, <3>1
    <3> QED BY <1>0, <1>3, <2>2, <3>2
  <2>4. buf'[o + 1] = buf[o + 1]
    BY <2>3
  <2> QED BY <1>0, <2>1, <2>3, <2>4 DEF Complete, Jump
<1> DEFINE Ok(i) == i \in 0..num => Offset'[i] = Offset[i]
           T == {i \in Nat : Ok(i)}
<1>8. 0 \in T
  BY <1>0, <1>6, OffsetIs
<1>9. ASSUME NEW i \in T PROVE i + 1 \in T
  <2>1. i \in Nat /\ Ok(i)
    OBVIOUS
  <2>2. ASSUME i + 1 \in 0..num PROVE Ok(i + 1)
    <3>1. /\ i + 1 \in 1..num /\ i \in 0..num /\ (i + 1) - 1 = i /\ i + 1 \in 1..Len(buf')
      BY <1>1, <1>0, <1>4, <2>1, <2>2
    <3>2. num <= Len(buf)
      BY <1>1 DEF Takes
    <3>3. i + 1 \in 1..Len(buf)
      BY <1>0, <1>1, <3>1, <3>2
    <3>4. PICK o : o = Offset[i]
      OBVIOUS
    <3>5. Offset'[i] = o
      BY <2>1, <3>1, <3>4
    <3>6. Jump(o)' = Jump(o)
      BY <1>7, <3>1, <3>4
    <3>7. Offset[i + 1] = o + Jump(o)
      BY <1>0, <3>1, <3>3, <3>4, OffsetIs
    <3>8. Offset'[i + 1] = o + Jump(o)'
      BY <1>6, <3>1, <3>5 DEF Jump, Complete
    <3> QED BY <3>6, <3>7, <3>8
  <2>3. i + 1 \notin 0..num => Ok(i + 1)
    OBVIOUS
  <2> HIDE DEF Ok
  <2> QED BY <2>1, <2>2, <2>3
<1>10. \A i \in 0..num : Offset'[i] = Offset[i]
  <2>1. T \in SUBSET Nat
    OBVIOUS
  <2>2. \A i \in Nat : i \in T
    <3> HIDE DEF T
    <3> QED BY <1>8, <1>9, <2>1, SetInduction
  <2> QED BY <1>1, <2>2
<1> HIDE DEF T, Ok
<1>11. Takes(rs)'
  <2>1. rs.num_events \in 0..Len(buf') /\ rs.active_event_read_size = Offset'[rs.num_events]
    BY <1>0, <1>1, <1>4, <1>10
  <2>2. ASSUME NEW i \in 1..rs.num_events PROVE Complete(Offset[i - 1])'
    <3>1. i \in 1..num /\ i - 1 \in 0..num
      BY <1>1
    <3>2. PICK o : o = Offset[i - 1]
      OBVIOUS
    <3>3. Offset'[i - 1] = o /\ Complete(o)'
      BY <1>7, <1>10, <3>1, <3>2
    <3> QED BY <3>3 DEF Complete
  <2>3. /\ rs.header_length = IF rs.num_events > 1 THEN 1 ELSE 0
        /\ rs.num_events > 1 => build'.batching
    BY DEF Takes
  <2> QED BY <2>1, <2>2, <2>3 DEF Takes
<1>12. ASSUME NEW i \in 1..num
       PROVE  SubSeq(buf', Offset'[i - 1] + 2, Offset'[i]) = SubSeq(buf, Offset[i - 1] + 2, Offset[i])
  <2>1. i \in 0..num /\ i - 1 \in 0..num
    BY <1>1
  <2>2. PICK x, y \in Nat : x = Offset[i - 1] /\ y = Offset[i] /\ y <= a
    BY <1>2, <2>1
  <2>3. y <= Len(buf) /\ y <= Len(buf') /\ \A j \in 1..y : buf'[j] = buf[j]
    BY <1>0, <1>3, <2>2
  <2>4. SubSeq(buf', x + 2, y) = SubSeq(buf, x + 2, y)
    BY <1>0, <2>3, SameCut
  <2> QED BY <1>10, <2>1, <2>2, <2>4
<1>13. Message(rs)' = Message(rs)
  <2>1. [i \in 1..num |-> SubSeq(buf', Offset'[i - 1] + 2, Offset'[i])]
          = [i \in 1..num |-> SubSeq(buf, Offset[i - 1] + 2, Offset[i])]
    BY <1>12
  <2> QED BY <1>1, <2>1 DEF Message, ArrayHeader
<1> QED BY <1>11, <1>13

-------------------------------------------------------------------------------
(* Who looks for messages, who moves them, and what is on its way               *)

\* The values of what is sent and stored.
Contents ==
  /\ nv \in Seq(Seq(Cells)) /\ delivered \in Seq(Seq(Cells)) /\ rx \in Seq(Cells)
  /\ size \in [Task -> Nat]
  /\ nv_enabled \in [now : BOOLEAN, last : BOOLEAN, changes : Nat]
  /\ build.max_changes = 0 => nv_enabled.now = build.nv

\* NV storage answers a task as it did when the task began to look; where tasks are preempted,
\* those that record do not persist, and neither does the drain.
Answered(t) ==
  /\ pc[t] \in Looking \cup Moving /\ ret[t] = "persist" => nv_enabled.now
  /\ pc[t] = "nv_write" => ret[t] = "persist"
  /\ t = Drain =>
       /\ pc[t] # "idle" => nv_enabled.last = nv_enabled.now
       /\ pc[t] \in Looking /\ ret[t] = "mark_cb" => nv_enabled.now
       /\ pc[t] \in Looking \cup Moving /\ ret[t] = "source" => ~nv_enabled.now
       /\ pc[t] = "consume" => nv_enabled.now
       /\ pc[t] \in {"read", "mark_read", "consume"} => ret[t] = "source"
       /\ pc[t] \in Moving => ret[t] \in {"source", "persist"}
  /\ build.preemptive =>
       /\ pc[t] = "callback" => build.nv
       /\ pc[t] \in Looking \cup Moving => t \notin Writer /\ (t = Drain => ret[t] # "persist")

\* What the drain is reading, and how far it is.
Begun == 0 < read_state.num_events
There == IF nv_enabled.now THEN nv # <<>> ELSE Begun
Current == IF nv_enabled.now THEN nv[1] ELSE Message(read_state)
NothingRead == \/ pc[Drain] \in Looking \cup {"idle", "callback"}
               \/ pc[Drain] \in Moving /\ ret[Drain] = "persist"
Reading == /\ There
           /\ size[Drain] = Len(Current) /\ Len(rx) <= Len(Current) /\ rx = SubSeq(Current, 1, Len(rx))
AllRead == \/ pc[Drain] \in {"mark_read", "consume"}
           \/ pc[Drain] \in Moving /\ ret[Drain] = "source"

\* What a persist is about to write or mark, and what the drain has read.
OnItsWay(t) ==
  /\ pc[t] \in Moving => Begun
  /\ pc[t] = "nv_write" => size[t] = Len(Message(read_state))
  /\ t = Drain => /\ NothingRead => rx = <<>>
                  /\ pc[t] = "read" => Reading
                  /\ AllRead => There /\ rx = Current

\* NV storage that is not there holds nothing.
Emptied == ~nv_enabled.now => nv = <<>>

\* The read state in the copy is of complete records at the front of the buffer in the copy: f is where
\* they begin, in a buffer b where w is the size of a record being written.
Walked(b, w, f, n) ==
  /\ f[0] = 0
  /\ \A k \in 1..n : /\ f[k - 1] < Len(b) /\ b[f[k - 1] + 1].total_size # w
                     /\ f[k] = f[k - 1] + b[f[k - 1] + 1].total_size
TakesOf(b, w, batching, rs) ==
  /\ rs.num_events \in 0..Len(b)
  /\ rs.header_length = IF rs.num_events > 1 THEN 1 ELSE 0
  /\ rs.num_events > 1 => batching
  /\ \E f : Walked(b, w, f, rs.num_events) /\ rs.active_event_read_size = f[rs.num_events]
SavedTaken == backup.saved => TakesOf(backup.buf, IN_PROGRESS, build.batching, backup.read_state)

MInv == /\ Contents /\ Takes(read_state) /\ MessagesWellFormed /\ Emptied
        /\ \A t \in Task : Answered(t) /\ OnItsWay(t)

\* A step of task t: the others stay where they are.
Turn(t) ==
  /\ \A u \in Task \ {t} : pc'[u] = pc[u] /\ ret'[u] = ret[u] /\ size'[u] = size[u]
  /\ build' = build /\ nv_enabled'.now = nv_enabled.now
  /\ nv_enabled'.last \in {nv_enabled.last, nv_enabled.now}
  /\ t # Drain => UNCHANGED drainvars
  /\ nv' = nv \/ nv_enabled.now
Valued == nv \in Seq(Seq(Cells)) /\ delivered \in Seq(Seq(Cells)) /\ rx \in Seq(Cells) /\ size \in [Task -> Nat]

\* What t's step may not take from the others: what is being moved, and what is being read.
Spares(t) ==
  /\ \A u \in Task \ {t} : pc[u] \in Moving => Begun'
  /\ \A u \in Task \ {t} : pc[u] = "nv_write" => Len(Message(read_state)') = Len(Message(read_state))
  /\ t # Drain /\ (pc[Drain] = "read" \/ AllRead) => Current' = Current /\ There'

LEMMA OthersAnswered ==
  ASSUME NEW t \in Task, Turn(t), NEW u \in Task \ {t}, Answered(u)
  PROVE  Answered(u)'
<1>1. /\ pc'[u] = pc[u] /\ ret'[u] = ret[u] /\ build' = build /\ nv_enabled'.now = nv_enabled.now
      /\ (nv_enabled.last = nv_enabled.now => nv_enabled'.last = nv_enabled'.now)
  BY DEF Turn
<1> QED BY <1>1 DEF Answered

LEMMA OthersOnTheirWay ==
  ASSUME NEW t \in Task, Turn(t), Spares(t), NEW u \in Task \ {t}, OnItsWay(u)
  PROVE  OnItsWay(u)'
<1>1. /\ pc'[u] = pc[u] /\ ret'[u] = ret[u] /\ size'[u] = size[u] /\ nv_enabled'.now = nv_enabled.now
      /\ (t # Drain => rx' = rx)
  BY DEF Turn, drainvars
<1>2. /\ pc'[u] \in Moving => Begun'
      /\ pc'[u] = "nv_write" => size'[u] = Len(Message(read_state)')
  BY <1>1 DEF OnItsWay, Spares
<1>3. ASSUME u = Drain
      PROVE  /\ NothingRead' => rx' = <<>>
             /\ pc'[u] = "read" => Reading'
             /\ AllRead' => There' /\ rx' = Current'
  <2>1. (NothingRead' <=> NothingRead) /\ (AllRead' <=> AllRead)
    BY <1>1, <1>3 DEF NothingRead, AllRead
  <2>2. pc'[u] = "read" => Reading'
    BY <1>1, <1>3 DEF OnItsWay, Reading, Spares
  <2>3. AllRead' => There' /\ rx' = Current'
    BY <1>1, <1>3, <2>1 DEF OnItsWay, Spares
  <2> QED BY <1>1, <1>3, <2>1, <2>2, <2>3 DEF OnItsWay
<1> QED BY <1>2, <1>3 DEF OnItsWay

LEMMA TurnKeeps ==
  ASSUME MInv, NEW t \in Task, Turn(t), Spares(t), Valued',
         nv_enabled' \in [now : BOOLEAN, last : BOOLEAN, changes : Nat],
         Takes(read_state)', MessagesWellFormed', Answered(t)', OnItsWay(t)'
  PROVE  MInv'
<1>1. Contents'
  BY DEF MInv, Contents, Valued, Turn
<1>2. \A u \in Task : Answered(u)' /\ OnItsWay(u)'
  BY OthersAnswered, OthersOnTheirWay DEF MInv
<1>3. Emptied'
  BY DEF MInv, Emptied, Turn
<1> QED BY <1>1, <1>2, <1>3 DEF MInv

-------------------------------------------------------------------------------
(* What a step leaves of the message                                            *)

\* What is taken lies within the records.
LEMMA TakenWithin ==
  ASSUME Typed, NEW p \in Nat, NEW k \in Nat, NEW e \in Nat, NEW n \in Nat, Layout(p, k, e, n), NEW rs, Takes(rs)
  PROVE  rs.num_events \in Nat /\ rs.active_event_read_size \in Nat /\ rs.active_event_read_size <= p
<1>1. rs.num_events \in Nat
  BY TypedFacts DEF Takes
<1>2. CASE rs.num_events > 0
  BY <1>1, <1>2, MessageIs
<1>3. CASE rs.num_events = 0
  <2>1. rs.active_event_read_size = 0
    BY <1>3, OffsetIs DEF Takes, Typed
  <2> QED BY <1>1, <2>1
<1> QED BY <1>1, <1>2, <1>3

\* A read state taken from records that stay stands for the same message after the step.
LEMMA MessageKept ==
  ASSUME Typed, NEW p \in Nat, NEW k \in Nat, NEW e \in Nat, NEW n \in Nat, Layout(p, k, e, n),
         NEW rs, Takes(rs), read_state' = rs, build' = build, buf' \in Seq(Cells), p <= Len(buf'),
         \A i \in 1..p : buf'[i] = buf[i]
  PROVE  Takes(read_state)' /\ Message(read_state)' = Message(rs)
<1>1. PICK a : a = rs.active_event_read_size
  OBVIOUS
<1>2. a \in Nat /\ a <= p
  BY <1>1, TakenWithin
<1>3. a <= Len(buf') /\ \A i \in 1..a : buf'[i] = buf[i]
  BY <1>2
<1>4. Takes(rs)' /\ Message(rs)' = Message(rs)
  BY <1>1, <1>3, MessageSame
<1>5. Takes(read_state)'
  BY <1>4 DEF Takes
<1>6. Message(read_state)' = Message(rs)'
  BY Zenon DEF Message
<1> QED BY <1>4, <1>5, <1>6

TakesLaw == Typed => Takes(NoRead)
LEMMA TakesAlways == []TakesLaw
<1>1. TakesLaw
  BY ComputedTakes DEF TakesLaw
<1> QED BY <1>1, PTL

LEMMA NoReadTakes ==
  ASSUME Typed', read_state' = NoRead
  PROVE  Takes(read_state)'
<1>1. TakesLaw'
  BY TakesAlways, PTL
<1>2. Takes(NoRead)'
  BY <1>1 DEF TakesLaw
<1>3. NoRead' = NoRead
  BY DEF NoRead
<1> QED BY <1>2, <1>3 DEF Takes

\* A step that changes neither the read state nor the records it is about.
LEMMA SameForAll ==
  ASSUME IInv, MInv, NEW t \in Task, Turn(t), NEW p \in Nat, NEW k \in Nat, NEW e \in Nat, NEW n \in Nat,
         Layout(p, k, e, n), read_state' = read_state, build' = build, buf' \in Seq(Cells), p <= Len(buf'),
         \A i \in 1..p : buf'[i] = buf[i], nv' = nv
  PROVE  /\ Takes(read_state)' /\ Message(read_state)' = Message(read_state)
         /\ Begun' = Begun /\ Current' = Current /\ Spares(t)
<1>1. PICK rs : rs = read_state
  OBVIOUS
<1>2. Typed /\ Takes(rs)
  BY <1>1 DEF IInv, MInv
<1>3. Takes(read_state)' /\ Message(read_state)' = Message(rs)
  BY <1>1, <1>2, MessageKept
<1>4. Begun' = Begun /\ Message(read_state)' = Message(read_state)
  BY <1>1, <1>3 DEF Begun
<1>5. Current' = Current
  BY <1>4 DEF Current, Turn
<1>6. \A u \in Task : OnItsWay(u)
  BY DEF MInv
<1>7. \A u \in Task : pc[u] \in Moving => Begun
  BY <1>6 DEF OnItsWay
<1>8. pc[Drain] = "read" \/ AllRead => There
  BY <1>6, TasksAre DEF OnItsWay, Reading
<1>9. There' = There
  BY <1>4 DEF There, Turn
<1> QED BY <1>3, <1>4, <1>5, <1>7, <1>8, <1>9 DEF Spares

\* The buffer stays as it is.
LEMMA SameBuffer ==
  ASSUME IInv, MInv, NEW t \in Task, Turn(t), UNCHANGED <<buf, read_state, nv>>
  PROVE  /\ Takes(read_state)' /\ Message(read_state)' = Message(read_state)
         /\ Begun' = Begun /\ Current' = Current /\ Spares(t)
<1>1. PICK p, k, e, n \in Nat : Layout(p, k, e, n)
  BY LaidOut
<1>2. p <= Len(buf) /\ buf \in Seq(Cells)
  BY <1>1 DEF Layout, Records, IInv, Typed
<1>3. p <= Len(buf') /\ buf' \in Seq(Cells) /\ build' = build
  BY <1>2 DEF Turn
<1>4. \A i \in 1..p : buf'[i] = buf[i]
  OBVIOUS
<1> QED BY <1>1, <1>3, <1>4, SameForAll

-------------------------------------------------------------------------------
(* The steps of a task that records                                             *)

\* Recording changes nothing of the first p cells, which are records.
Prefixed(p) == p <= Len(buf') /\ \A i \in 1..p : buf'[i] = buf[i]

LEMMA RecordingKeepsRecords ==
  ASSUME IInv, NEW w \in Writer, EncodeStep(w)
  PROVE  \E p, k, e, n \in Nat : Layout(p, k, e, n) /\ Prefixed(p)
<1>0. Typed /\ Recorded /\ buf \in Seq(Cells) /\ Len(buf) \in Nat
  BY TypedFacts DEF IInv, Typed
<1>1. CASE ~commit_or_rollback(w)
  <2>1. PICK p, k, e, n \in Nat : Layout(p, k, e, n)
    BY LaidOut
  <2>2. p <= Len(buf)
    BY <2>1 DEF Layout, Records
  <2>3. buf' = buf \/ \E c : buf' = Append(buf, c)
    BY <1>1, Zenon DEF EncodeStep, begin_write, write_header, set_write_state, get_write_size, append_data, count_bytes,
                finish_write, reset_write_state, ramvars
  <2>4. ASSUME NEW c, buf' = Append(buf, c) PROVE Len(buf') = Len(buf) + 1 /\ \A i \in 1..Len(buf) : buf'[i] = buf[i]
    BY <1>0, <2>4
  <2>5. Len(buf) <= Len(buf') /\ \A i \in 1..Len(buf) : buf'[i] = buf[i]
    BY <1>0, <2>3, <2>4
  <2>6. Len(buf') \in Nat
    BY <1>0, <2>3, <2>4
  <2>7. p <= Len(buf') /\ \A i \in 1..p : i \in 1..Len(buf)
    BY <1>0, <2>2, <2>5, <2>6
  <2>8. Prefixed(p)
    BY <2>5, <2>7 DEF Prefixed
  <2> QED BY <2>1, <2>8
<1>2. CASE commit_or_rollback(w)
  <2>1. pc[w] = "commit" /\ pc[w] \in Recording
    BY <1>2 DEF commit_or_rollback, At, Recording
  <2>2. Working(w)
    BY <1>0, <2>1, TheWriter
  <2>3. PICK p, k, e, n \in Nat : /\ p = Len(buf) - Pending(w) /\ k = Pending(w)
                                  /\ e = enc[w].ev /\ n = enc[w].n /\ Layout(p, k, e, n)
    BY <1>0, <2>2, WorkIs
  <2>4. k = write_state.bytes_written /\ k > 0
    <3>1. PICK d \in Nat : d = enc[w].done
      BY <1>0, EncodingIs
    <3> QED BY <2>1, <2>2, <2>3, <3>1 DEF Working, Stage, Pending
  <2>5. p + k = Len(buf)
    BY <2>3 DEF Layout, OpenAt
  <2>6. CASE enc[w].rollback
    <3>1. buf' = SubSeq(buf, 1, p)
      <4>1. k <= Len(buf) /\ Len(buf) - k = p
        BY <2>5
      <4> QED BY <1>2, <2>4, <2>6, <4>1 DEF commit_or_rollback, ConsumeEnd
    <3>2. PICK c : c = SubSeq(buf, 1, p)
      OBVIOUS
    <3>3. p <= Len(buf)
      BY <1>0, <2>5
    <3>4. Len(c) = p /\ \A i \in 1..p : c[i] = buf[i]
      BY <1>0, <3>2, <3>3
    <3>5. Prefixed(p)
      BY <3>1, <3>2, <3>4 DEF Prefixed
    <3> QED BY <2>3, <3>5
  <2>7. CASE ~enc[w].rollback
    <3>1. k \in 1..Len(buf) /\ Len(buf) - k + 1 = p + 1 /\ p <= Len(buf)
      BY <2>4, <2>5
    <3>2. PICK c : buf' = [buf EXCEPT ![p + 1] = c]
      <4>1. buf' = WriteAtOffset(buf, Header(enc[w].ev, k), k)
        BY <1>2, <2>4, <2>7 DEF commit_or_rollback
      <4> QED BY <3>1, <4>1 DEF WriteAtOffset, ReplaceAt
    <3>3. Len(buf') = Len(buf)
      BY <1>0, <3>2
    <3>4. \A i \in 1..p : buf'[i] = buf[i]
      BY <1>0, <3>1, <3>2
    <3> QED BY <2>3, <3>1, <3>3, <3>4 DEF Prefixed
  <2> QED BY <2>6, <2>7
<1> QED BY <1>1, <1>2

\* What a step of a task that records leaves alone, and where it leads.
LEMMA RecordingTurn ==
  ASSUME IInv, NEW w \in Writer, encode_to_storage(w) \/ EncodeStep(w)
  PROVE  /\ Turn(w) /\ UNCHANGED <<build, nv_enabled, read_state, nv, size, rx, delivered>>
         /\ pc'[w] \in Recording \cup {"idle", "callback"} /\ (pc'[w] = "callback" => build.nv)
<1>1. w \in Task /\ w # Drain /\ Typed
  BY TasksAre DEF IInv
<1>2. UNCHANGED <<build, nv_enabled, read_state, nv, size, rx, delivered, ret>>
  BY Zenon DEF EncodeStep, encode_to_storage, begin_write, write_header, set_write_state, get_write_size, append_data,
         count_bytes, finish_write, commit_or_rollback, reset_write_state, platform, ramvars, drainvars
<1>3. PICK l \in Recording \cup {"idle", "callback"} :
        (Goto(w, l) \/ (pc' = pc /\ l = pc[w])) /\ (l = "callback" => build.nv)
  <2>1. {"begin", "header", "set_state", "space", "encode", "count", "commit", "reset_state"} = Recording
    BY DEF Recording
  <2>2. ASSUME encode_to_storage(w) \/ begin_write(w) \/ write_header(w) \/ set_write_state(w) \/ get_write_size(w)
               \/ count_bytes(w) \/ commit_or_rollback(w)
        PROVE \E l \in Recording : Goto(w, l)
    BY <2>1, <2>2, Zenon DEF encode_to_storage, begin_write, write_header, set_write_state, get_write_size,
                       count_bytes, commit_or_rollback
  <2>3. ASSUME append_data(w) PROVE \E l \in Recording : Goto(w, l) \/ (pc' = pc /\ l = pc[w])
    BY <2>1, <2>3 DEF append_data, At
  <2>4. ASSUME finish_write(w) PROVE Goto(w, "commit") \/ Goto(w, "idle")
    BY <2>4 DEF finish_write, Return
  <2>5. ASSUME reset_write_state(w) PROVE (build.nv /\ Goto(w, "callback")) \/ Goto(w, "idle")
    BY <2>5 DEF reset_write_state, Return
  <2>6. "callback" \notin Recording /\ "commit" \in Recording
    BY DEF Recording
  <2> QED BY <2>2, <2>3, <2>4, <2>5, <2>6 DEF EncodeStep
<1>4. pc'[w] = l /\ \A u \in Task \ {w} : pc'[u] = pc[u]
  BY <1>1, <1>3 DEF Goto, Typed
<1> QED BY <1>1, <1>2, <1>3, <1>4 DEF Turn, drainvars

LEMMA RecordingKeeps ==
  ASSUME IInv, IInv', MInv, NEW w \in Writer, encode_to_storage(w) \/ EncodeStep(w)
  PROVE  MInv'
<1>0. w \in Task /\ w # Drain
  BY TasksAre
<1>1. /\ Turn(w) /\ UNCHANGED <<build, nv_enabled, read_state, nv, size, rx, delivered>>
      /\ pc'[w] \in Recording \cup {"idle", "callback"} /\ (pc'[w] = "callback" => build.nv)
  BY RecordingTurn
<1>2. Takes(read_state)' /\ Spares(w)
  <2>1. CASE encode_to_storage(w)
    <3>1. buf' = buf
      BY <2>1, Zenon DEF encode_to_storage, ramvars
    <3> QED BY <1>0, <1>1, <3>1, SameBuffer
  <2>2. CASE EncodeStep(w)
    <3>1. PICK p, k, e, n \in Nat : Layout(p, k, e, n) /\ Prefixed(p)
      BY <2>2, RecordingKeepsRecords
    <3>2. p <= Len(buf') /\ \A i \in 1..p : buf'[i] = buf[i]
      BY <3>1 DEF Prefixed
    <3>3. buf' \in Seq(Cells)
      BY DEF IInv, Typed
    <3> QED BY <1>0, <1>1, <3>1, <3>2, <3>3, SameForAll
  <2> QED BY <2>1, <2>2
<1>3. pc'[w] \notin Looking \cup Moving /\ pc'[w] # "nv_write"
  BY <1>1 DEF Recording, Looking, Moving
<1>4. Answered(w)' /\ OnItsWay(w)'
  BY <1>0, <1>1, <1>3 DEF Answered, OnItsWay
<1>5. Valued' /\ nv_enabled' \in [now : BOOLEAN, last : BOOLEAN, changes : Nat] /\ MessagesWellFormed'
  BY <1>1 DEF MInv, Contents, Valued, MessagesWellFormed
<1> QED BY <1>0, <1>1, <1>2, <1>4, <1>5, TurnKeeps

-------------------------------------------------------------------------------
(* Asking whether NV storage is there, and looking for data                     *)

LEMMA MInvFacts ==
  ASSUME IInv, MInv, NEW t \in Task
  PROVE  /\ Typed /\ Asked /\ Exclusive /\ Takes(read_state) /\ Contents /\ Valued
         /\ Answered(t) /\ OnItsWay(t) /\ Answered(Drain) /\ OnItsWay(Drain) /\ Drain \in Task
         /\ pc[t] \in Labels /\ MessagesWellFormed /\ Emptied
         /\ nv_enabled.now \in BOOLEAN /\ nv_enabled.last \in BOOLEAN
  BY TasksAre DEF IInv, MInv, Typed, Contents, Valued

LEMMA RamKept ==
  ASSUME IInv, MInv, UNCHANGED <<build, buf, read_state>>
  PROVE  Takes(read_state)' /\ Message(read_state)' = Message(read_state) /\ Begun' = Begun
<1>1. PICK p, k, e, n \in Nat : Layout(p, k, e, n)
  BY LaidOut
<1>2. p <= Len(buf) /\ buf \in Seq(Cells) /\ Typed
  BY <1>1 DEF Layout, Records, IInv, Typed
<1>3. PICK rs : rs = read_state
  OBVIOUS
<1>4. Takes(rs)
  BY <1>3 DEF MInv
<1>5. p <= Len(buf') /\ buf' \in Seq(Cells) /\ \A i \in 1..p : buf'[i] = buf[i]
  BY <1>2
<1>6. Takes(read_state)' /\ Message(read_state)' = Message(rs)
  BY <1>1, <1>2, <1>3, <1>4, <1>5, MessageKept
<1> QED BY <1>3, <1>6 DEF Begun

\* prv_nv_event_storage_enabled resets the read state only when nobody moves or reads a message.
LEMMA EnabledKept ==
  ASSUME IInv, IInv', MInv, NEW t \in Task, Turn(t), nv_event_storage_enabled, UNCHANGED <<buf, nv>>
  PROVE  /\ Takes(read_state)' /\ Spares(t)
         /\ nv_enabled' \in [now : BOOLEAN, last : BOOLEAN, changes : Nat]
         /\ nv_enabled'.now = nv_enabled.now /\ nv_enabled'.last = nv_enabled.now
         /\ pc[Drain] # "idle" => /\ read_state' = read_state /\ Begun' = Begun /\ Current' = Current
                                  /\ Message(read_state)' = Message(read_state)
<1>1. /\ nv_enabled' \in [now : BOOLEAN, last : BOOLEAN, changes : Nat]
      /\ nv_enabled'.now = nv_enabled.now /\ nv_enabled'.last = nv_enabled.now
  BY MInvFacts DEF Contents, nv_event_storage_enabled
<1>2. CASE read_state' = read_state
  BY <1>1, <1>2, SameBuffer
<1>3. CASE read_state' # read_state
  <2>1. nv_enabled.last /\ ~nv_enabled.now /\ read_state' = NoRead
    BY <1>3 DEF nv_event_storage_enabled
  <2>2. pc[Drain] = "idle"
    BY <2>1, MInvFacts DEF Answered
  <2>3. ASSUME NEW u \in Task PROVE pc[u] \notin Moving
    <3>1. "idle" \notin Moving
      BY DEF Moving
    <3> QED BY <2>1, <2>2, <3>1, MInvFacts DEF Answered, Asked
  <2>4. Takes(read_state)'
    BY <2>1, NoReadTakes DEF IInv
  <2>5. Spares(t)
    BY <2>2, <2>3 DEF Spares, Moving, AllRead
  <2> QED BY <1>1, <2>2, <2>4, <2>5
<1> QED BY <1>2, <1>3

\* A task that takes nothing up or goes idle is answered, and has nothing on its way.
LEMMA Leaves ==
  ASSUME NEW t \in Task, pc'[t] = "idle", t = Drain => rx' = <<>>
  PROVE  Answered(t)' /\ OnItsWay(t)'
<1>1. "idle" \notin Looking \cup Moving
  BY DEF Looking, Moving
<1> QED BY <1>1 DEF Answered, OnItsWay, AllRead, NothingRead

LEMMA StepIs ==
  ASSUME Typed, NEW t \in Task, NEW l, Goto(t, l)
  PROVE  pc'[t] = l /\ \A u \in Task \ {t} : pc'[u] = pc[u]
  BY DEF Typed, Goto

LEMMA FinishIs ==
  ASSUME Typed, NEW t \in Task, Finish(t)
  PROVE  pc'[t] = "idle" /\ \A u \in Task \ {t} : pc'[u] = pc[u]
  BY StepIs DEF Finish, Return

LEMMA PersistOnTaskKeeps ==
  ASSUME IInv, IInv', MInv, NEW q \in Persister, persist(q)
  PROVE  MInv'
<1>0. q \in Task /\ q # Drain /\ q \notin Writer /\ ret \in [Task -> Calls]
  BY TasksAre DEF IInv, Typed
<1>1. /\ nv_event_storage_enabled /\ UNCHANGED <<build, buf, nv, size, rx, delivered>>
  BY DEF persist, drainvars
<1>2. /\ pc'[q] \in {"idle", "has_cached"} /\ (pc'[q] = "has_cached" => ret'[q] = "persist" /\ nv_enabled.now)
      /\ \A u \in Task \ {q} : pc'[u] = pc[u] /\ ret'[u] = ret[u]
  <2>1. CASE nv_enabled.now
    <3>1. Goto(q, "has_cached") /\ ret' = [ret EXCEPT ![q] = "persist"]
      BY <2>1 DEF persist
    <3> QED BY <1>0, <2>1, <3>1, StepIs DEF IInv
  <2>2. CASE ~nv_enabled.now
    BY <1>0, <2>2 DEF persist, At
  <2> QED BY <2>1, <2>2
<1>3. Turn(q)
  <2>1. nv_enabled'.now = nv_enabled.now /\ nv_enabled'.last = nv_enabled.now
    BY <1>0, <1>1, MInvFacts DEF nv_event_storage_enabled, Contents
  <2> QED BY <1>0, <1>1, <1>2, <2>1 DEF Turn, drainvars
<1>4. /\ Takes(read_state)' /\ Spares(q) /\ nv_enabled'.now = nv_enabled.now
      /\ nv_enabled' \in [now : BOOLEAN, last : BOOLEAN, changes : Nat]
  BY <1>0, <1>1, <1>3, EnabledKept
<1>5. Answered(q)' /\ OnItsWay(q)'
  <2>1. pc'[q] = "has_cached" => pc'[q] \in Looking /\ pc'[q] \notin Moving /\ pc'[q] # "callback"
    BY DEF Looking, Moving
  <2> QED BY <1>0, <1>2, <1>4, <2>1, Leaves DEF Answered, OnItsWay
<1>6. Valued' /\ MessagesWellFormed'
  BY <1>0, <1>1, MInvFacts DEF Valued, MessagesWellFormed
<1> QED BY <1>0, <1>3, <1>4, <1>5, <1>6, TurnKeeps

LEMMA CallbackKeeps ==
  ASSUME \A b \in Builds : Unshared(b), IInv, IInv', MInv, NEW t \in Task, request_persist_callback(t)
  PROVE  MInv'
<1>0. Typed /\ pc[t] = "callback" /\ ret \in [Task -> Calls] /\ UNCHANGED <<build, buf, nv, size, rx, delivered>>
  BY DEF IInv, Typed, request_persist_callback, At, drainvars
<1>1. t = Drain => rx' = <<>> /\ nv_enabled.last = nv_enabled.now
  BY <1>0, MInvFacts DEF OnItsWay, NothingRead, Answered
<1>2. \/ /\ build.sync /\ nv_event_storage_enabled
         /\ \/ nv_enabled.now /\ Goto(t, "has_cached") /\ ret' = [ret EXCEPT ![t] = "persist"]
            \/ Finish(t) /\ ret' = ret
      \/ Finish(t) /\ UNCHANGED <<nv_enabled, read_state, ret>>
  BY DEF request_persist_callback
<1>3. /\ \/ pc'[t] = "idle"
         \/ pc'[t] = "has_cached" /\ ret'[t] = "persist" /\ nv_enabled.now /\ build.sync /\ nv_event_storage_enabled
      /\ \A u \in Task \ {t} : pc'[u] = pc[u] /\ ret'[u] = ret[u]
  BY <1>0, <1>2, StepIs, FinishIs
<1>4. Turn(t)
  <2>1. nv_enabled'.now = nv_enabled.now /\ nv_enabled'.last \in {nv_enabled.now, nv_enabled.last}
    BY <1>2, MInvFacts DEF nv_event_storage_enabled, Contents
  <2> QED BY <1>0, <1>3, <2>1 DEF Turn, drainvars
<1>5. /\ Takes(read_state)' /\ Spares(t) /\ nv_enabled'.now = nv_enabled.now
      /\ nv_enabled' \in [now : BOOLEAN, last : BOOLEAN, changes : Nat]
      /\ nv_event_storage_enabled => nv_enabled'.last = nv_enabled.now
  <2>1. CASE nv_event_storage_enabled
    BY <1>0, <1>4, <2>1, EnabledKept
  <2>2. CASE ~nv_event_storage_enabled
    <3>1. UNCHANGED <<nv_enabled, read_state>>
      BY <1>2, <2>2
    <3> QED BY <1>0, <1>4, <2>2, <3>1, SameBuffer, MInvFacts DEF Contents
  <2> QED BY <2>1, <2>2
\* Where tasks are preempted no callback persists at once.
<1>6. build.preemptive => ~build.sync
  BY <1>0, MInvFacts DEF Typed, Unshared, Answered
<1>7. Answered(t)' /\ OnItsWay(t)'
  <2>1. CASE pc'[t] = "idle"
    BY <1>0, <1>1, <2>1, Leaves
  <2>2. CASE pc'[t] = "has_cached"
    <3>1. pc'[t] \in Looking /\ pc'[t] \notin Moving /\ ret'[t] = "persist" /\ nv_enabled'.now
          /\ nv_enabled'.last = nv_enabled'.now /\ ~build'.preemptive
      BY <1>0, <1>3, <1>5, <1>6, <2>2 DEF Looking, Moving
    <3> QED BY <1>1, <2>2, <3>1 DEF Answered, OnItsWay, AllRead, NothingRead
  <2> QED BY <1>3, <2>1, <2>2
<1>8. Valued' /\ MessagesWellFormed'
  BY <1>0, MInvFacts DEF Valued, MessagesWellFormed
<1> QED BY <1>4, <1>5, <1>7, <1>8, TurnKeeps

LEMMA NvIs ==
  ASSUME \A b \in Builds : Unshared(b), IInv, MInv, build.preemptive
  PROVE  nv_enabled.now = build.nv
  BY DEF IInv, Typed, MInv, Contents, Unshared

\* What a total of prv_has_data_ram says.
LEMMA TotalIs ==
  ASSUME IInv, MInv
  PROVE  /\ TotalEventSize(read_state) \in Nat
         /\ TotalEventSize(read_state) # 0 => Begun /\ TotalEventSize(read_state) = Len(Message(read_state))
<1>1. PICK p, k, e, n \in Nat : Layout(p, k, e, n)
  BY LaidOut
<1>2. Typed /\ Takes(read_state) /\ read_state.num_events \in Nat
  BY <1>1, TakenWithin DEF IInv, MInv
<1>3. CASE read_state.num_events > 0
  <2>1. Message(read_state) \in Seq(Cells) /\ Len(Message(read_state)) = TotalEventSize(read_state)
    BY <1>1, <1>2, <1>3, MessageIs
  <2> QED BY <1>3, <2>1 DEF Begun
<1>4. CASE read_state.num_events = 0
  BY <1>4 DEF TotalEventSize
<1> QED BY <1>2, <1>3, <1>4

LEMMA HasDataKeeps ==
  ASSUME \A b \in Builds : Unshared(b), IInv, IInv', MInv, NEW t \in Task, pc[t] \in Looking,
         UNCHANGED <<build, nv_enabled, buf, read_state, nv, ret, rx, delivered>>,
         AfterHasData(t, TotalEventSize(read_state))
  PROVE  MInv'
<1>0. /\ Typed /\ Asked /\ Answered(t) /\ OnItsWay(t) /\ Contents /\ Valued /\ MessagesWellFormed
  BY MInvFacts
<1>1. PICK total \in Nat : /\ total = TotalEventSize(read_state)
                           /\ total # 0 => Begun /\ total = Len(Message(read_state))
  BY TotalIs
<1>2. size' = [size EXCEPT ![t] = total] /\ size' \in [Task -> Nat] /\ size'[t] = total
  BY <1>0, <1>1 DEF AfterHasData, Valued
<1>3. (t # Drain => ret[t] = "persist") /\ ret[t] \in {"source", "mark_cb", "persist"}
  BY <1>0 DEF Asked
<1>4. /\ \/ pc'[t] = "idle"
         \/ total # 0 /\ pc'[t] = "read" /\ ret[t] = "source"
         \/ total # 0 /\ pc'[t] = "callback" /\ ret[t] = "mark_cb"
         \/ total # 0 /\ pc'[t] = "nv_write" /\ ret[t] = "persist"
      /\ \A u \in Task \ {t} : pc'[u] = pc[u]
  <2>1. CASE total = 0
    <3>1. Finish(t)
      BY <1>1, <2>1 DEF AfterHasData
    <3> QED BY <1>0, <3>1, FinishIs
  <2>2. CASE total # 0
    <3>1. PICK l : /\ Goto(t, l)
                   /\ \/ l = "read" /\ ret[t] = "source"
                      \/ l = "callback" /\ ret[t] = "mark_cb"
                      \/ l = "nv_write" /\ ret[t] = "persist"
      BY <1>1, <1>3, <2>2, Zenon DEF AfterHasData
    <3> QED BY <1>0, <2>2, <3>1, StepIs
  <2> QED BY <2>1, <2>2
<1>5. Turn(t)
  BY <1>0, <1>2, <1>4 DEF Turn, drainvars, Valued
<1>6. /\ Takes(read_state)' /\ Spares(t) /\ Message(read_state)' = Message(read_state)
      /\ Begun' = Begun /\ Current' = Current
  BY <1>5, SameBuffer
<1>7. t = Drain => rx = <<>> /\ nv_enabled.last = nv_enabled.now
  <2>1. pc[t] # "idle"
    BY DEF Looking
  <2> QED BY <1>0, <2>1 DEF OnItsWay, NothingRead, Answered
<1>8. Answered(t)' /\ OnItsWay(t)'
  <2>1. CASE pc'[t] = "idle"
    BY <1>7, <2>1, Leaves
  <2>2. CASE total # 0 /\ pc'[t] = "read" /\ ret[t] = "source"
    <3>1. t = Drain /\ ~nv_enabled.now /\ pc'[t] \notin Looking \cup Moving
      BY <1>0, <1>3, <2>2 DEF Answered, Looking, Moving
    <3>2. Current = Message(read_state) /\ Len(rx) = 0 /\ rx = SubSeq(Current, 1, 0) /\ total = Len(Current)
      BY <1>1, <1>7, <2>2, <3>1 DEF Current
    <3>3. Reading'
      <4>1. There'
        BY <1>1, <1>6, <2>2, <3>1 DEF There
      <4> QED BY <1>1, <1>2, <1>6, <2>2, <3>1, <3>2, <4>1 DEF Reading
    <3> QED BY <1>7, <2>2, <3>1, <3>3 DEF Answered, OnItsWay, NothingRead, AllRead
  <2>3. CASE total # 0 /\ pc'[t] = "callback" /\ ret[t] = "mark_cb"
    <3>1. t = Drain /\ nv_enabled.now /\ pc'[t] \notin Looking \cup Moving
      BY <1>0, <1>3, <2>3 DEF Answered, Looking, Moving
    <3>2. build.preemptive => build.nv
      BY <1>0, <3>1, NvIs
    <3> QED BY <1>7, <2>3, <3>1, <3>2 DEF Answered, OnItsWay, NothingRead, AllRead
  <2>4. CASE total # 0 /\ pc'[t] = "nv_write" /\ ret[t] = "persist"
    <3>1. pc'[t] \in Moving /\ pc'[t] \notin Looking /\ pc'[t] # "callback"
      BY <2>4 DEF Looking, Moving
    <3> QED BY <1>0, <1>1, <1>2, <1>6, <1>7, <2>4, <3>1 DEF Answered, OnItsWay, NothingRead, AllRead
  <2> QED BY <1>4, <2>1, <2>2, <2>3, <2>4
<1>9. Valued' /\ MessagesWellFormed'
  BY <1>0, <1>2 DEF Valued, MessagesWellFormed
<1> QED BY <1>0, <1>5, <1>6, <1>8, <1>9, TurnKeeps DEF Contents

LEMMA NoneCachedKeeps ==
  ASSUME IInv, IInv', MInv, NEW t \in Task, pc[t] \in Looking, Goto(t, "has_compute"),
         UNCHANGED <<build, nv_enabled, buf, read_state, nv, ret, size, rx, delivered>>
  PROVE  MInv'
<1>0. /\ Typed /\ Answered(t) /\ OnItsWay(t) /\ Contents /\ Valued /\ MessagesWellFormed
  BY MInvFacts
<1>1. pc'[t] = "has_compute" /\ \A u \in Task \ {t} : pc'[u] = pc[u]
  BY <1>0, StepIs
<1>2. /\ pc'[t] \in Looking /\ pc'[t] \notin Moving /\ pc[t] # "idle"
      /\ pc'[t] \notin {"callback", "idle", "read", "mark_read", "consume", "nv_write"}
  BY <1>1 DEF Looking, Moving
<1>3. Turn(t)
  BY <1>1 DEF Turn, drainvars
<1>4. Takes(read_state)' /\ Spares(t)
  BY <1>3, SameBuffer
<1>5. Answered(t)' /\ OnItsWay(t)'
  BY <1>0, <1>1, <1>2 DEF Answered, OnItsWay, NothingRead, AllRead
<1>6. Valued' /\ MessagesWellFormed'
  BY <1>0 DEF Valued, MessagesWellFormed
<1> QED BY <1>0, <1>3, <1>4, <1>5, <1>6, TurnKeeps DEF Contents

\* Nobody else moves a message while t looks for one or moves it, unless t is the drain that asks after a
\* mark, and another task than the drain does so only when there is NV storage.
LEMMA Sole ==
  ASSUME \A b \in Builds : Unshared(b), \A p, q \in Persister : p = q,
         IInv, MInv, NEW t \in Task, CanRun(t), pc[t] \in Looking \cup Moving
  PROVE  /\ t # Drain => nv_enabled.now
         /\ \A u \in Task \ {t} : pc[u] \in Moving =>
              pc[t] \in Looking /\ t = Drain /\ nv_enabled.now /\ ~build.batching
<1>0. /\ Typed /\ Asked /\ Answered(t) /\ Unshared(build)
      /\ (build.max_changes = 0 => nv_enabled.now = build.nv)
  BY MInvFacts DEF Moving, Typed, Contents
<1>1. t # Drain => nv_enabled.now
  BY <1>0 DEF Asked, Answered
<1>2. ASSUME NEW u \in Task \ {t}, pc[u] \in Moving
      PROVE  pc[t] \in Looking /\ t = Drain /\ nv_enabled.now /\ ~build.batching
  <2>0. Answered(u)
    BY MInvFacts
  <2>2. build.preemptive
    <3>1. ~AtRest(u)
      BY <1>2 DEF AtRest, Moving
    <3> QED BY <1>2, <3>1 DEF CanRun
  <2>3. u # Drain /\ u \in Persister /\ t \notin Writer
    <3>1. u = Drain => ~nv_enabled.now
      BY <1>2, <2>0, <2>2 DEF Answered
    <3>2. u # Drain
      BY <1>1, <1>2, <3>1
    <3> QED BY <1>0, <1>2, <2>0, <2>2, <3>2 DEF Answered, Task
  <2>1. ret[u] = "persist" /\ nv_enabled.now
    BY <1>0, <1>2, <2>0, <2>3 DEF Answered, Asked
  <2>4. t = Drain
    BY <2>3 DEF Task
  <2>5. ret[t] # "persist" /\ ret[t] # "source"
    BY <1>0, <2>1, <2>2, <2>4 DEF Answered
  <2>6. pc[t] \in Looking
    BY <1>0, <2>4, <2>5 DEF Answered
  <2>7. ~build.batching
    BY <1>0, <2>1, <2>2 DEF Unshared
  <2> QED BY <2>1, <2>4, <2>6, <2>7
<1> QED BY <1>1, <1>2

\* Without batching, what was taken from the front of the buffer is what would be taken now.
LEMMA ComputedSame ==
  ASSUME IInv, MInv, ~build.batching, Begun
  PROVE  ComputedReadState = read_state
<1>1. Typed /\ Takes(read_state) /\ read_state \in [active_event_read_size : Nat, num_events : Nat, header_length : Nat]
  BY DEF IInv, MInv, Typed
<1>2. PICK num \in Nat : num = read_state.num_events /\ num = 1
  <2>1. PICK num \in Nat : num = read_state.num_events
    BY <1>1
  <2>2. 0 < num /\ ~(num > 1)
    BY <1>1, <2>1 DEF Begun, Takes
  <2> QED BY <2>1, <2>2
<1>3. Offset[0] = 0 /\ Complete(0)
  <2>1. Complete(Offset[1 - 1])
    BY <1>1, <1>2 DEF Takes
  <2> QED BY <1>1, <2>1, OffsetIs DEF Typed
<1>4. ComputedReadState.num_events = 1 /\ Takes(ComputedReadState)
  BY <1>1, <1>3, ComputedTakes
<1>5. /\ ComputedReadState.active_event_read_size = Offset[1] /\ ComputedReadState.header_length = 0
      /\ read_state.active_event_read_size = Offset[1] /\ read_state.header_length = 0
  BY <1>1, <1>2, <1>4 DEF Takes
<1>6. PICK p, k, e, n \in Nat : Layout(p, k, e, n)
  BY LaidOut
<1>7. ComputedReadState \in [active_event_read_size : Nat, num_events : Nat, header_length : Nat]
  BY <1>1, <1>6, ComputedIs DEF Layout
<1>8. ASSUME NEW a \in [active_event_read_size : Nat, num_events : Nat, header_length : Nat],
             NEW b \in [active_event_read_size : Nat, num_events : Nat, header_length : Nat],
             a.active_event_read_size = b.active_event_read_size, a.num_events = b.num_events,
             a.header_length = b.header_length
      PROVE  a = b
  BY <1>8
<1>9. /\ ComputedReadState.active_event_read_size = read_state.active_event_read_size
      /\ ComputedReadState.num_events = read_state.num_events
      /\ ComputedReadState.header_length = read_state.header_length
  BY <1>2, <1>4, <1>5
<1> QED BY <1>1, <1>7, <1>8, <1>9

LEMMA ComputeKeeps ==
  ASSUME \A b \in Builds : Unshared(b), \A p, q \in Persister : p = q,
         IInv, IInv', MInv, NEW t \in Task, has_data_compute(t)
  PROVE  MInv'
<1>0. /\ Typed /\ Asked /\ Answered(t) /\ OnItsWay(t) /\ Contents /\ Valued /\ MessagesWellFormed
      /\ Answered(Drain) /\ OnItsWay(Drain)
  BY MInvFacts
<1>1. /\ CanRun(t) /\ pc[t] = "has_compute" /\ Goto(t, "has_total") /\ read_state' = ComputedReadState
      /\ UNCHANGED <<build, nv_enabled, buf, nv, ret, size, rx, delivered>>
  BY DEF has_data_compute, At, platform, drainvars
<1>2. pc'[t] = "has_total" /\ \A u \in Task \ {t} : pc'[u] = pc[u]
  BY <1>0, <1>1, StepIs
<1>3. /\ pc[t] \in Looking /\ pc'[t] \in Looking /\ pc'[t] \notin Moving /\ pc[t] # "idle"
      /\ pc'[t] \notin {"callback", "idle", "read", "mark_read", "consume", "nv_write"}
  BY <1>1, <1>2 DEF Looking, Moving
<1>4. Turn(t)
  BY <1>1, <1>2 DEF Turn, drainvars
<1>5. /\ t # Drain => nv_enabled.now
      /\ \A u \in Task \ {t} : pc[u] \in Moving => ~build.batching
  BY <1>1, <1>3, Sole
<1>6. Takes(read_state)' /\ Spares(t)
  <2>1. CASE \E u \in Task \ {t} : pc[u] \in Moving
    <3>1. PICK u \in Task \ {t} : pc[u] \in Moving
      BY <2>1
    <3>2. Begun /\ ~build.batching
      BY <1>5, <3>1, MInvFacts DEF OnItsWay
    <3>3. read_state' = read_state
      BY <1>1, <3>2, ComputedSame
    <3> QED BY <1>1, <1>4, <3>3, SameBuffer
  <2>2. CASE \A u \in Task \ {t} : pc[u] \notin Moving
    <3>1. PICK p, k, e, n \in Nat : Layout(p, k, e, n)
      BY LaidOut
    <3>2. PICK rs : rs = ComputedReadState /\ Takes(rs)
      BY <1>0, ComputedTakes
    <3>3. p <= Len(buf) /\ buf \in Seq(Cells)
      BY <1>0, <3>1 DEF Layout, Records, Typed
    <3>4. p <= Len(buf') /\ buf' \in Seq(Cells) /\ (\A i \in 1..p : buf'[i] = buf[i]) /\ read_state' = rs
      BY <1>1, <3>2, <3>3
    <3>5. Takes(read_state)'
      BY <1>0, <1>1, <3>1, <3>2, <3>4, MessageKept
    <3>6. t # Drain /\ (pc[Drain] = "read" \/ AllRead) => Current' = Current /\ There'
      BY <1>0, <1>1, <1>5 DEF Current, OnItsWay, Reading, There
    <3>7. \A u \in Task \ {t} : pc[u] # "nv_write"
      BY <2>2 DEF Moving
    <3> QED BY <2>2, <3>5, <3>6, <3>7 DEF Spares
  <2> QED BY <2>1, <2>2
<1>7. Answered(t)' /\ OnItsWay(t)'
  BY <1>0, <1>1, <1>2, <1>3 DEF Answered, OnItsWay, NothingRead, AllRead
<1>8. Valued' /\ MessagesWellFormed'
  BY <1>0, <1>1 DEF Valued, MessagesWellFormed
<1> QED BY <1>0, <1>1, <1>4, <1>6, <1>7, <1>8, TurnKeeps DEF Contents

-------------------------------------------------------------------------------
(* Storing a message and marking it read                                        *)

LEMMA WellFormedMessage ==
  ASSUME IInv, MInv, Begun
  PROVE  /\ Message(read_state) \in Seq(Cells) /\ Len(Message(read_state)) \in Nat
         /\ SubSeq(Message(read_state), 1, Len(Message(read_state))) = Message(read_state)
         /\ WellFormed(Message(read_state))
<1>1. PICK p, k, e, n \in Nat : Layout(p, k, e, n)
  BY LaidOut
<1>2. Typed /\ Takes(read_state) /\ read_state.num_events > 0
  <2>1. read_state.num_events \in Nat
    BY DEF IInv, Typed
  <2> QED BY <2>1 DEF IInv, MInv, Begun
<1>3. Message(read_state) \in Seq(Cells) /\ WellFormed(Message(read_state))
  BY <1>1, <1>2, MessageIs
<1>4. PICK m \in Seq(Cells) : m = Message(read_state)
  BY <1>3
<1>5. SubSeq(m, 1, Len(m)) = m /\ Len(m) \in Nat
  OBVIOUS
<1> QED BY <1>3, <1>4, <1>5

LEMMA Appended ==
  ASSUME NEW s \in Seq(Seq(Cells)), NEW m \in Seq(Cells)
  PROVE  /\ Append(s, m) \in Seq(Seq(Cells)) /\ ToSet(Append(s, m)) = ToSet(s) \cup {m}
         /\ s # <<>> => Append(s, m) # <<>> /\ Append(s, m)[1] = s[1]
<1>1. Append(s, m) \in Seq(Seq(Cells)) /\ Len(Append(s, m)) = Len(s) + 1 /\ Len(s) \in Nat
  OBVIOUS
<1>2. Append(s, m)[Len(s) + 1] = m /\ \A i \in 1..Len(s) : Append(s, m)[i] = s[i]
  OBVIOUS
<1>3. DOMAIN Append(s, m) = 1..(Len(s) + 1) /\ DOMAIN s = 1..Len(s)
  OBVIOUS
<1>4. PICK c, l : c = Append(s, m) /\ l = Len(s)
  OBVIOUS
<1>5. \A i : i \in 1..(l + 1) <=> i \in 1..l \/ i = l + 1
  BY <1>1, <1>4
<1>6. ToSet(c) = ToSet(s) \cup {m}
  <2>1. ToSet(c) = {c[i] : i \in 1..(l + 1)} /\ ToSet(s) = {s[i] : i \in 1..l}
    BY <1>3, <1>4 DEF ToSet
  <2>2. c[l + 1] = m /\ \A i \in 1..l : c[i] = s[i]
    BY <1>2, <1>4
  <2>3. {c[i] : i \in 1..(l + 1)} = {c[i] : i \in 1..l} \cup {c[l + 1]}
    BY <1>5, Zenon
  <2>4. {c[i] : i \in 1..l} = {s[i] : i \in 1..l}
    BY <2>2
  <2> QED BY <2>1, <2>2, <2>3, <2>4, Zenon
<1>7. ASSUME s # <<>> PROVE Append(s, m) # <<>> /\ Append(s, m)[1] = s[1]
  <2>1. 1 \in 1..Len(s)
    BY <1>7
  <2>2. c[1] = s[1]
    BY <1>2, <1>4, <2>1
  <2>3. c # <<>>
    <3>1. Len(c) # 0
      BY <1>1, <1>4
    <3> QED BY <3>1
  <2> QED BY <1>4, <2>2, <2>3
<1> QED BY <1>1, <1>4, <1>6, <1>7

LEMMA NvWriteKeeps ==
  ASSUME \A b \in Builds : Unshared(b), \A p, q \in Persister : p = q,
         IInv, IInv', MInv, NEW t \in Task, nv_write(t)
  PROVE  MInv'
<1>0. /\ Typed /\ Asked /\ Answered(t) /\ OnItsWay(t) /\ Contents /\ Valued /\ MessagesWellFormed
      /\ Answered(Drain) /\ OnItsWay(Drain)
  BY MInvFacts
<1>1. /\ CanRun(t) /\ pc[t] = "nv_write" /\ pc[t] \in Moving /\ ret[t] = "persist" /\ pc[t] # "idle"
      /\ UNCHANGED <<build, nv_enabled, buf, read_state, ret, size, rx, delivered>>
  BY <1>0 DEF nv_write, At, platform, ramvars, drainvars, Moving, Answered
<1>2. PICK m \in Seq(Cells) : m = Message(read_state) /\ WellFormed(m) /\ SubSeq(m, 1, Len(m)) = m /\ size[t] = Len(m)
  BY <1>0, <1>1, WellFormedMessage DEF OnItsWay
<1>3. /\ nv' \in {nv, Append(nv, m)} /\ pc'[t] \in {"idle", "mark"}
      /\ \A u \in Task \ {t} : pc'[u] = pc[u]
  <2>1. \/ nv' = Append(nv, SubSeq(m, 1, size[t])) /\ Goto(t, "mark")
        \/ nv' = nv /\ Finish(t)
    BY <1>2 DEF nv_write
  <2> QED BY <1>0, <1>2, <2>1, StepIs, FinishIs
<1>4. /\ nv' \in Seq(Seq(Cells)) /\ ToSet(nv') \subseteq ToSet(nv) \cup {m}
      /\ nv # <<>> => nv' # <<>> /\ nv'[1] = nv[1]
  <2>1. nv \in Seq(Seq(Cells))
    BY <1>0 DEF Contents
  <2>2. PICK c : /\ c = Append(nv, m) /\ c \in Seq(Seq(Cells)) /\ ToSet(c) = ToSet(nv) \cup {m}
                 /\ nv # <<>> => c # <<>> /\ c[1] = nv[1]
    BY <2>1, Appended
  <2>3. nv' = nv \/ nv' = c
    BY <1>3, <2>2
  <2> QED BY <2>1, <2>2, <2>3, Zenon
<1>7. nv_enabled.now
  BY <1>0, <1>1 DEF Answered
<1>5. Turn(t)
  BY <1>1, <1>3, <1>7 DEF Turn, drainvars
<1>6. Takes(read_state)' /\ Message(read_state)' = Message(read_state) /\ Begun' = Begun
  BY <1>1, RamKept
<1>8. Spares(t)
  <2>1. \A u \in Task : pc[u] \in Moving => Begun
    BY MInvFacts DEF OnItsWay
  <2>2. pc[Drain] = "read" \/ AllRead => Current' = Current /\ There'
    BY <1>0, <1>1, <1>4, <1>7 DEF OnItsWay, Reading, Current, There
  <2> QED BY <1>6, <1>7, <2>1, <2>2 DEF Spares
<1>9. t = Drain => rx' = <<>>
  BY <1>0, <1>1 DEF OnItsWay, NothingRead
<1>10. Answered(t)' /\ OnItsWay(t)'
  <2>1. CASE pc'[t] = "idle"
    BY <1>9, <2>1, Leaves
  <2>2. CASE pc'[t] = "mark"
    <3>1. pc'[t] \in Moving /\ pc'[t] \notin Looking
      BY <2>2 DEF Moving, Looking
    <3>2. Answered(t)'
      BY <1>0, <1>1, <2>2, <3>1 DEF Answered
    <3>3. Begun'
      BY <1>0, <1>1, <1>6 DEF OnItsWay
    <3> QED BY <1>1, <1>9, <2>2, <3>1, <3>2, <3>3, TasksAre DEF OnItsWay, NothingRead, AllRead
  <2> QED BY <1>3, <2>1, <2>2
<1>11. Valued' /\ MessagesWellFormed'
  BY <1>0, <1>1, <1>2, <1>4 DEF Valued, MessagesWellFormed
<1> QED BY <1>0, <1>1, <1>5, <1>6, <1>8, <1>10, <1>11, TurnKeeps DEF Contents

LEMMA FirstOf ==
  ASSUME NEW s \in Seq(Seq(Cells)), s # <<>>
  PROVE  /\ s[1] \in Seq(Cells) /\ s[1] \in ToSet(s)
         /\ Len(s[1]) \in Nat /\ SubSeq(s[1], 1, Len(s[1])) = s[1] /\ SubSeq(s[1], 1, 0) = <<>>
<1>1. 1 \in 1..Len(s) /\ DOMAIN s = 1..Len(s)
  OBVIOUS
<1>2. s[1] \in Seq(Cells) /\ s[1] \in ToSet(s)
  BY <1>1 DEF ToSet
<1>3. PICK m \in Seq(Cells) : m = s[1]
  BY <1>2
<1>4. Len(m) \in Nat /\ SubSeq(m, 1, Len(m)) = m /\ SubSeq(m, 1, 0) = <<>>
  OBVIOUS
<1> QED BY <1>2, <1>3, <1>4

\* What the drain has read to the end is the message it was reading.
LEMMA AllReadIs ==
  ASSUME IInv, MInv, AllRead
  PROVE  There /\ rx = Current /\ WellFormed(rx)
<1>1. There /\ rx = Current /\ nv \in Seq(Seq(Cells)) /\ \A m \in ToSet(nv) : WellFormed(m)
  BY MInvFacts, TasksAre DEF OnItsWay, Contents, MessagesWellFormed
<1>2. CASE nv_enabled.now
  BY <1>1, <1>2, FirstOf DEF There, Current
<1>3. CASE ~nv_enabled.now
  BY <1>1, <1>3, WellFormedMessage DEF There, Current
<1> QED BY <1>1, <1>2, <1>3

\* What AfterMark leaves, of a message of the drain or of a persist.
LEMMA Marked ==
  ASSUME IInv, MInv, NEW t \in Task, pc[t] \in Moving, ret' = ret, build' = build, nv_enabled' = nv_enabled,
         AfterMark(t)
  PROVE  /\ pc'[t] \in {"idle", "has_cached"} /\ \A u \in Task \ {t} : pc'[u] = pc[u]
         /\ t # Drain => UNCHANGED drainvars
         /\ Answered(t)' /\ OnItsWay(t)'
         /\ rx' \in Seq(Cells) /\ delivered' \in Seq(Seq(Cells))
         /\ \A m \in ToSet(delivered') : WellFormed(m)
<1>0. /\ Typed /\ Asked /\ Answered(t) /\ OnItsWay(t) /\ Contents /\ MessagesWellFormed /\ pc[t] # "idle"
      /\ (t # Drain => ret[t] = "persist")
      /\ rx \in Seq(Cells) /\ delivered \in Seq(Seq(Cells)) /\ \A m \in ToSet(delivered) : WellFormed(m)
  BY MInvFacts DEF Moving, Asked, Contents, MessagesWellFormed
<1>1. CASE ret[t] = "persist"
  <2>1. Goto(t, "has_cached") /\ UNCHANGED drainvars
    BY <1>1 DEF AfterMark
  <2>2. pc'[t] = "has_cached" /\ \A u \in Task \ {t} : pc'[u] = pc[u]
    BY <1>0, <2>1, StepIs
  <2>3. pc'[t] \in Looking /\ pc'[t] \notin Moving
    BY <2>2 DEF Looking, Moving
  <2>4. Answered(t)'
    BY <1>0, <1>1, <2>2, <2>3 DEF Answered
  <2>5. t = Drain => rx' = <<>>
    BY <1>0, <1>1, <2>1 DEF OnItsWay, NothingRead, drainvars
  <2>6. OnItsWay(t)'
    BY <2>2, <2>3, <2>5 DEF OnItsWay, NothingRead, AllRead
  <2> QED BY <1>0, <2>1, <2>2, <2>4, <2>6 DEF drainvars
<1>2. CASE ret[t] # "persist"
  <2>1. t = Drain /\ Goto(t, "idle") /\ delivered' = Append(delivered, rx) /\ rx' = <<>>
    BY <1>0, <1>2 DEF AfterMark
  <2>2. ret[t] = "source" /\ WellFormed(rx)
    <3>1. ret[t] = "source"
      BY <1>0, <1>2, <2>1 DEF Answered, Moving
    <3>2. AllRead
      BY <2>1, <3>1 DEF AllRead
    <3> QED BY <3>1, <3>2, AllReadIs
  <2>3. delivered' \in Seq(Seq(Cells)) /\ ToSet(delivered') = ToSet(delivered) \cup {rx}
    BY <1>0, <2>1, Appended
  <2>4. pc'[t] = "idle" /\ \A u \in Task \ {t} : pc'[u] = pc[u]
    BY <1>0, <2>1, StepIs
  <2>5. <<>> \in Seq(Cells)
    OBVIOUS
  <2> QED BY <1>0, <2>1, <2>2, <2>3, <2>4, <2>5, Leaves
<1> QED BY <1>1, <1>2

LEMMA MarkCheckKeeps ==
  ASSUME IInv, IInv', MInv, NEW t \in Task, mark_check(t)
  PROVE  MInv'
<1>0. /\ Typed /\ Asked /\ Answered(t) /\ OnItsWay(t) /\ Contents /\ Valued /\ MessagesWellFormed
  BY MInvFacts
<1>1. /\ pc[t] = "mark" /\ pc[t] \in Moving
      /\ UNCHANGED <<build, nv_enabled, buf, read_state, nv, ret, size>>
  BY DEF mark_check, At, platform, ramvars, Moving
<1>6. Begun' = Begun /\ Message(read_state)' = Message(read_state) /\ Current' = Current /\ There' = There
  <2>1. Begun' = Begun /\ Message(read_state)' = Message(read_state)
    BY <1>1, RamKept
  <2> QED BY <1>1, <2>1 DEF Current, There
<1>2. /\ \A u \in Task \ {t} : pc'[u] = pc[u]
      /\ t # Drain => UNCHANGED drainvars
      /\ Answered(t)' /\ OnItsWay(t)'
      /\ rx' \in Seq(Cells) /\ delivered' \in Seq(Seq(Cells))
      /\ \A m \in ToSet(delivered') : WellFormed(m)
  <2>1. CASE AfterMark(t)
    BY <1>1, <2>1, Marked
  <2>2. CASE ~AfterMark(t)
    <3>1. Goto(t, "mark_consume") /\ UNCHANGED <<rx, delivered>>
      BY <2>2 DEF mark_check, drainvars
    <3>2. pc'[t] = "mark_consume" /\ \A u \in Task \ {t} : pc'[u] = pc[u]
      BY <1>0, <3>1, StepIs
    <3>3. pc'[t] \in Moving /\ pc'[t] \notin Looking
      BY <3>2 DEF Moving, Looking
    <3>4. Answered(t)' /\ OnItsWay(t)'
      BY <1>0, <1>1, <1>6, <3>1, <3>2, <3>3 DEF Answered, OnItsWay, NothingRead, AllRead
    <3> QED BY <1>0, <3>1, <3>2, <3>4 DEF drainvars, Contents, MessagesWellFormed
  <2> QED BY <2>1, <2>2
<1>3. Turn(t)
  BY <1>1, <1>2 DEF Turn
<1>4. Takes(read_state)' /\ Spares(t)
  BY <1>1, <1>3, SameBuffer
<1>5. Valued' /\ MessagesWellFormed'
  BY <1>0, <1>1, <1>2 DEF Valued, MessagesWellFormed
<1> QED BY <1>0, <1>1, <1>2, <1>3, <1>4, <1>5, TurnKeeps DEF Contents

LEMMA MarkConsumeLeaves ==
  ASSUME \A b \in Builds : Unshared(b), \A p, q \in Persister : p = q,
         IInv, IInv', MInv, NEW t \in Task, mark_consume(t)
  PROVE  MInv'
<1>0. /\ Typed /\ Asked /\ Answered(t) /\ OnItsWay(t) /\ Contents /\ Valued /\ MessagesWellFormed
      /\ Answered(Drain) /\ OnItsWay(Drain)
  BY MInvFacts
<1>1. /\ CanRun(t) /\ pc[t] = "mark_consume" /\ pc[t] \in Moving /\ pc[t] \notin Looking
      /\ UNCHANGED <<build, nv_enabled, nv, ret, size>> /\ read_state' = NoRead /\ AfterMark(t)
  BY DEF mark_consume, At, platform, Moving, Looking
<1>2. /\ \A u \in Task \ {t} : pc'[u] = pc[u]
      /\ t # Drain => UNCHANGED drainvars
      /\ Answered(t)' /\ OnItsWay(t)'
      /\ rx' \in Seq(Cells) /\ delivered' \in Seq(Seq(Cells))
      /\ \A m \in ToSet(delivered') : WellFormed(m)
  BY <1>1, Marked
<1>3. Turn(t)
  BY <1>1, <1>2 DEF Turn
<1>4. Takes(read_state)'
  BY <1>1, NoReadTakes DEF IInv
<1>5. /\ t # Drain => nv_enabled.now
      /\ \A u \in Task \ {t} : pc[u] \notin Moving
  BY <1>1, Sole
<1>6. Spares(t)
  <2>1. t # Drain /\ (pc[Drain] = "read" \/ AllRead) => Current' = Current /\ There'
    BY <1>0, <1>1, <1>5 DEF Current, OnItsWay, Reading, There
  <2>2. \A u \in Task \ {t} : pc[u] # "nv_write"
    BY <1>5 DEF Moving
  <2> QED BY <1>5, <2>1, <2>2 DEF Spares
<1>7. Valued' /\ MessagesWellFormed'
  BY <1>0, <1>1, <1>2 DEF Valued, MessagesWellFormed
<1> QED BY <1>0, <1>1, <1>2, <1>3, <1>4, <1>6, <1>7, TurnKeeps DEF Contents

-------------------------------------------------------------------------------
(* The drain                                                                    *)

LEMMA HasMoreKeeps ==
  ASSUME IInv, IInv', MInv, has_more_msgs
  PROVE  MInv'
<1>0. /\ Typed /\ Answered(Drain) /\ OnItsWay(Drain) /\ Contents /\ Valued /\ MessagesWellFormed
      /\ Drain \in Task /\ ret \in [Task -> Calls] /\ nv \in Seq(Seq(Cells)) /\ size \in [Task -> Nat]
      /\ nv_enabled.now \in BOOLEAN
  BY MInvFacts, TasksAre DEF Typed, Contents
<1>1. /\ pc[Drain] = "idle" /\ nv_event_storage_enabled
      /\ UNCHANGED <<build, buf, nv, rx, delivered>>
  BY DEF has_more_msgs, At, drainvars
<1>2. rx = <<>>
  BY <1>0, <1>1 DEF OnItsWay, NothingRead
<1>3. /\ \/ pc' = pc /\ ret' = ret /\ size' = size
         \/ ~nv_enabled.now /\ Goto(Drain, "has_cached") /\ ret' = [ret EXCEPT ![Drain] = "source"] /\ size' = size
         \/ /\ nv_enabled.now /\ nv # <<>> /\ Goto(Drain, "read") /\ ret' = [ret EXCEPT ![Drain] = "source"]
            /\ size' = [size EXCEPT ![Drain] = Len(nv[1])]
  BY DEF has_more_msgs
<1>4. /\ \/ pc'[Drain] = "idle"
         \/ ~nv_enabled.now /\ pc'[Drain] = "has_cached" /\ ret'[Drain] = "source"
         \/ /\ nv_enabled.now /\ nv # <<>> /\ pc'[Drain] = "read" /\ ret'[Drain] = "source"
            /\ size'[Drain] = Len(nv[1])
      /\ \A u \in Task \ {Drain} : pc'[u] = pc[u] /\ ret'[u] = ret[u] /\ size'[u] = size[u]
  BY <1>0, <1>1, <1>3, StepIs
<1>5. size' \in [Task -> Nat]
  BY <1>0, <1>3, FirstOf
<1>6. Turn(Drain)
  <2>1. nv_enabled'.now = nv_enabled.now /\ nv_enabled'.last = nv_enabled.now
    BY <1>0, <1>1 DEF nv_event_storage_enabled, Contents
  <2> QED BY <1>1, <1>4, <2>1 DEF Turn
<1>7. /\ Takes(read_state)' /\ Spares(Drain)
      /\ nv_enabled' \in [now : BOOLEAN, last : BOOLEAN, changes : Nat]
      /\ nv_enabled'.now = nv_enabled.now /\ nv_enabled'.last = nv_enabled.now
  BY <1>0, <1>1, <1>6, EnabledKept
<1>8. Answered(Drain)' /\ OnItsWay(Drain)'
  <2>1. CASE pc'[Drain] = "idle"
    BY <1>0, <1>1, <1>2, <2>1, Leaves
  <2>2. CASE ~nv_enabled.now /\ pc'[Drain] = "has_cached" /\ ret'[Drain] = "source"
    <3>1. pc'[Drain] \in Looking /\ pc'[Drain] \notin Moving
      BY <2>2 DEF Looking, Moving
    <3> QED BY <1>0, <1>1, <1>2, <1>7, <2>2, <3>1, TasksAre DEF Answered, OnItsWay, NothingRead, AllRead
  <2>3. CASE nv_enabled.now /\ nv # <<>> /\ pc'[Drain] = "read" /\ ret'[Drain] = "source" /\ size'[Drain] = Len(nv[1])
    <3>1. pc'[Drain] \notin Looking \cup Moving
      BY <2>3 DEF Looking, Moving
    <3>2. Current' = nv[1] /\ Len(nv[1]) \in Nat /\ SubSeq(nv[1], 1, 0) = <<>>
      BY <1>0, <1>1, <1>7, <2>3, FirstOf DEF Current
    <3>3. Reading'
      <4>1. PICK m : m = nv[1] /\ Len(m) \in Nat /\ SubSeq(m, 1, 0) = <<>>
        BY <3>2
      <4>2. rx' = <<>> /\ Len(rx') = 0 /\ Len(rx') <= Len(m)
        BY <1>1, <1>2, <4>1
      <4> QED BY <1>1, <1>7, <2>3, <3>2, <4>1, <4>2 DEF Reading, There
    <3> QED BY <1>1, <1>2, <1>7, <2>3, <3>1, <3>3 DEF Answered, OnItsWay, NothingRead, AllRead
  <2> QED BY <1>4, <2>1, <2>2, <2>3
<1>9. Valued' /\ MessagesWellFormed'
  BY <1>0, <1>1, <1>5 DEF Valued, MessagesWellFormed
<1> QED BY <1>0, <1>6, <1>7, <1>8, <1>9, TurnKeeps

\* The message being read, and the next n cells of it.
LEMMA ReadingIs ==
  ASSUME IInv, MInv, pc[Drain] = "read"
  PROVE  /\ Reading /\ Current \in Seq(Cells) /\ WellFormed(Current)
         /\ SubSeq(Current, 1, Len(Current)) = Current
<1>1. Reading /\ nv \in Seq(Seq(Cells)) /\ \A m \in ToSet(nv) : WellFormed(m)
  BY MInvFacts, TasksAre DEF OnItsWay, Contents, MessagesWellFormed
<1>2. CASE nv_enabled.now
  BY <1>1, <1>2, FirstOf DEF Reading, Current, There
<1>3. CASE ~nv_enabled.now
  BY <1>1, <1>3, WellFormedMessage DEF Reading, Current, There
<1> QED BY <1>1, <1>2, <1>3

\* d is a, then b.
Follows(d, a, b, l, n) ==
  /\ d \in Seq(Cells) /\ Len(d) = l + n
  /\ \A i \in 1..l : d[i] = a[i]
  /\ \A i \in 1..n : d[l + i] = b[i]

LEMMA Joining ==
  ASSUME NEW a \in Seq(Cells), NEW b \in Seq(Cells), NEW l \in Nat, NEW n \in Nat, Len(a) = l, Len(b) = n
  PROVE  Follows(a \o b, a, b, l, n)
<1>1. a \o b \in Seq(Cells)
  OBVIOUS
<1>2. Len(a \o b) = l + n
  OBVIOUS
<1>3. \A i \in 1..l : (a \o b)[i] = a[i]
  OBVIOUS
<1>4. \A i \in 1..n : (a \o b)[l + i] = b[i]
  OBVIOUS
<1> QED BY <1>1, <1>2, <1>3, <1>4, Zenon DEF Follows

LEMMA ReadOn ==
  ASSUME NEW m \in Seq(Cells), NEW l \in Nat, NEW n \in Nat, l + n <= Len(m)
  PROVE  /\ SubSeq(m, 1, l) \o SubSeq(m, l + 1, l + n) = SubSeq(m, 1, l + n)
         /\ Len(SubSeq(m, 1, l + n)) = l + n /\ SubSeq(m, 1, l + n) \in Seq(Cells)
<1>1. PICK a, b, c : a = SubSeq(m, 1, l) /\ b = SubSeq(m, l + 1, l + n) /\ c = SubSeq(m, 1, l + n)
  OBVIOUS
<1>2. /\ a \in Seq(Cells) /\ Len(a) = l /\ \A i \in 1..l : a[i] = m[i]
  BY <1>1
<1>3. /\ b \in Seq(Cells) /\ Len(b) = n /\ \A i \in 1..n : b[i] = m[l + i]
  <2>1. b \in Seq(Cells) /\ Len(b) = n
    BY <1>1
  <2>2. ASSUME NEW i \in 1..n PROVE b[i] = m[l + i]
    <3>1. (l + 1) + i - 1 = l + i
      OBVIOUS
    <3> QED BY <1>1, <3>1
  <2> QED BY <2>1, <2>2
<1>4. /\ c \in Seq(Cells) /\ Len(c) = l + n /\ \A i \in 1..(l + n) : c[i] = m[i]
  BY <1>1
<1>5. PICK d : d = a \o b /\ Follows(d, a, b, l, n)
  BY <1>2, <1>3, Joining
<1>6. ASSUME NEW i \in 1..(l + n) PROVE d[i] = c[i]
  <2>1. CASE i <= l
    <3>1. i \in 1..l
      BY <2>1
    <3> QED BY <1>2, <1>4, <1>5, <3>1 DEF Follows
  <2>2. CASE i > l
    <3>1. i - l \in 1..n /\ l + (i - l) = i
      BY <2>2
    <3>2. d[i] = b[i - l] /\ b[i - l] = m[i]
      BY <1>3, <1>5, <3>1 DEF Follows
    <3> QED BY <1>4, <3>2
  <2> QED BY <2>1, <2>2
<1>7. d = c
  BY <1>4, <1>5, <1>6 DEF Follows
<1> QED BY <1>1, <1>4, <1>5, <1>7, Zenon

LEMMA ReadKeeps ==
  ASSUME IInv, IInv', MInv, NEW n \in Nat, read_msg(n)
  PROVE  MInv'
<1>0. /\ Typed /\ Answered(Drain) /\ OnItsWay(Drain) /\ Contents /\ Valued /\ MessagesWellFormed
      /\ Drain \in Task /\ rx \in Seq(Cells) /\ Len(rx) \in Nat
  BY MInvFacts, TasksAre DEF Contents
<1>1. /\ pc[Drain] = "read" /\ nv_event_storage_enabled
      /\ UNCHANGED <<build, buf, nv, ret, size, delivered>>
  BY DEF read_msg, At
<1>2. Reading /\ Current \in Seq(Cells) /\ WellFormed(Current) /\ SubSeq(Current, 1, Len(Current)) = Current
  BY <1>1, ReadingIs
<1>3. PICK l : /\ Goto(Drain, l) /\ l \in {"read", "mark_read"}
               /\ l = IF Len(rx') < size[Drain] THEN "read" ELSE "mark_read"
  BY DEF read_msg
<1>4. pc'[Drain] = l /\ \A u \in Task \ {Drain} : pc'[u] = pc[u]
  BY <1>0, <1>3, StepIs
<1>5. Turn(Drain)
  <2>1. nv_enabled'.now = nv_enabled.now /\ nv_enabled'.last = nv_enabled.now
    BY <1>0, <1>1 DEF nv_event_storage_enabled, Contents
  <2> QED BY <1>1, <1>4, <2>1 DEF Turn
<1>6. /\ Takes(read_state)' /\ Spares(Drain)
      /\ nv_enabled' \in [now : BOOLEAN, last : BOOLEAN, changes : Nat]
      /\ nv_enabled'.now = nv_enabled.now /\ nv_enabled'.last = nv_enabled.now
      /\ read_state' = read_state /\ Begun' = Begun /\ Current' = Current /\ There' = There
  BY <1>0, <1>1, <1>5, EnabledKept DEF There
<1>7. PICK m \in Seq(Cells) : m = Current /\ WellFormed(m) /\ SubSeq(m, 1, Len(m)) = m /\ size[Drain] = Len(m)
  BY <1>2 DEF Reading
<1>8. /\ Len(rx) + n <= Len(m)
      /\ rx' = SubSeq(m, 1, Len(rx)) \o SubSeq(m, Len(rx) + 1, Len(rx) + n)
  <2>1. Len(rx) + n <= Len(m)
    BY <1>7 DEF read_msg
  <2>2. m = IF ~nv_enabled.now THEN Message(read_state') ELSE IF nv = <<>> THEN <<>> ELSE nv[1]
    BY <1>2, <1>6, <1>7 DEF Reading, Current, There
  <2>3. rx = SubSeq(m, 1, Len(rx))
    BY <1>2, <1>7 DEF Reading
  <2>4. rx' = rx \o SubSeq(m, Len(rx) + 1, Len(rx) + n)
    BY <2>1, <2>2 DEF read_msg
  <2> QED BY <2>1, <2>3, <2>4, Zenon
<1>9. PICK q \in Nat : q = Len(rx) + n
  BY <1>0
<1>10. rx' = SubSeq(m, 1, q) /\ Len(rx') = q /\ rx' \in Seq(Cells) /\ q <= Len(m)
  <2>1. PICK r \in Nat : r = Len(rx)
    BY <1>0
  <2>2. q = r + n /\ r + n <= Len(m)
    BY <1>8, <1>9, <2>1
  <2>3. /\ SubSeq(m, 1, r) \o SubSeq(m, r + 1, r + n) = SubSeq(m, 1, r + n)
        /\ Len(SubSeq(m, 1, r + n)) = r + n /\ SubSeq(m, 1, r + n) \in Seq(Cells)
    BY <2>2, ReadOn
  <2>4. rx' = SubSeq(m, 1, r) \o SubSeq(m, r + 1, r + n)
    BY <1>8, <2>1
  <2> QED BY <2>2, <2>3, <2>4, Zenon
<1>11. Answered(Drain)' /\ OnItsWay(Drain)'
  <2>1. pc'[Drain] \notin Looking \cup Moving /\ pc'[Drain] \notin {"idle", "callback", "consume", "nv_write"}
    BY <1>3, <1>4 DEF Looking, Moving
  <2>2. Answered(Drain)'
    BY <1>0, <1>1, <1>6, <2>1 DEF Answered
  <2>3. CASE l = "read"
    <3>1. Reading'
      BY <1>1, <1>2, <1>6, <1>7, <1>10 DEF Reading
    <3> QED BY <1>4, <2>1, <2>2, <2>3, <3>1 DEF OnItsWay, NothingRead, AllRead
  <2>4. CASE l = "mark_read"
    <3>1. ~(Len(rx') < Len(m))
      BY <1>3, <1>7, <2>4
    <3>2. q = Len(m)
      BY <1>10, <3>1
    <3>3. There' /\ rx' = Current'
      BY <1>2, <1>6, <1>7, <1>10, <3>2 DEF Reading
    <3> QED BY <1>4, <2>1, <2>2, <2>4, <3>3 DEF OnItsWay, NothingRead, AllRead
  <2> QED BY <1>3, <2>3, <2>4
<1>12. Valued' /\ MessagesWellFormed'
  BY <1>0, <1>1, <1>10 DEF Valued, MessagesWellFormed
<1> QED BY <1>0, <1>5, <1>6, <1>11, <1>12, TurnKeeps

LEMMA MarkReadKeeps ==
  ASSUME IInv, IInv', MInv, mark_msg_read
  PROVE  MInv'
<1>0. /\ Typed /\ Answered(Drain) /\ OnItsWay(Drain) /\ Contents /\ Valued /\ MessagesWellFormed
      /\ Drain \in Task /\ nv_enabled.now \in BOOLEAN
  BY MInvFacts, TasksAre
<1>1. /\ pc[Drain] = "mark_read" /\ nv_event_storage_enabled
      /\ UNCHANGED <<build, buf, nv, ret, size, rx, delivered>>
  BY DEF mark_msg_read, At, drainvars
<1>2. PICK l : Goto(Drain, l) /\ ((l = "consume" /\ nv_enabled.now) \/ (l = "mark" /\ ~nv_enabled.now))
  BY <1>0 DEF mark_msg_read
<1>3. pc'[Drain] = l /\ \A u \in Task \ {Drain} : pc'[u] = pc[u]
  BY <1>0, <1>2, StepIs
<1>4. Turn(Drain)
  <2>1. nv_enabled'.now = nv_enabled.now /\ nv_enabled'.last = nv_enabled.now
    BY <1>0, <1>1 DEF nv_event_storage_enabled, Contents
  <2> QED BY <1>1, <1>3, <2>1 DEF Turn
<1>5. /\ Takes(read_state)' /\ Spares(Drain)
      /\ nv_enabled' \in [now : BOOLEAN, last : BOOLEAN, changes : Nat]
      /\ nv_enabled'.now = nv_enabled.now /\ nv_enabled'.last = nv_enabled.now
      /\ Begun' = Begun /\ Current' = Current /\ There' = There
  BY <1>0, <1>1, <1>4, EnabledKept DEF There
<1>6. There' /\ rx' = Current' /\ ret'[Drain] = "source"
  BY <1>0, <1>1, <1>5 DEF OnItsWay, AllRead, Answered
<1>7. Answered(Drain)' /\ OnItsWay(Drain)'
  <2>1. CASE l = "consume"
    <3>1. pc'[Drain] \notin Looking \cup Moving
      BY <1>3, <2>1 DEF Looking, Moving
    <3> QED BY <1>2, <1>3, <1>5, <1>6, <2>1, <3>1 DEF Answered, OnItsWay, NothingRead, AllRead
  <2>2. CASE l = "mark"
    <3>1. pc'[Drain] \in Moving /\ pc'[Drain] \notin Looking
      BY <1>3, <2>2 DEF Looking, Moving
    <3>2. Begun'
      BY <1>2, <1>5, <1>6, <2>2 DEF There
    <3> QED BY <1>2, <1>3, <1>5, <1>6, <2>2, <3>1, <3>2, TasksAre DEF Answered, OnItsWay, NothingRead, AllRead
  <2> QED BY <1>2, <2>1, <2>2
<1>8. Valued' /\ MessagesWellFormed'
  BY <1>0, <1>1 DEF Valued, MessagesWellFormed
<1> QED BY <1>0, <1>4, <1>5, <1>7, <1>8, TurnKeeps

LEMMA FrontTaken ==
  ASSUME NEW S, NEW s \in Seq(S)
  PROVE  ConsumeFront(s, 1) \in Seq(S) /\ ToSet(ConsumeFront(s, 1)) \subseteq ToSet(s)
<1>1. CASE 1 <= Len(s)
  <2>1. PICK c : c = SubSeq(s, 2, Len(s))
    OBVIOUS
  <2>2. c \in Seq(S) /\ Len(c) = Len(s) - 1
    <3>1. Len(s) \in Nat /\ Len(s) - 2 + 1 = Len(s) - 1 /\ Len(s) - 1 \in Nat
      BY <1>1
    <3>2. \A i \in 2..Len(s) : s[i] \in S
      OBVIOUS
    <3>3. SubSeq(s, 2, Len(s)) \in Seq(S)
      BY <3>1, <3>2
    <3>4. Len(SubSeq(s, 2, Len(s))) = Len(s) - 1
      BY <1>1, <3>1
    <3> QED BY <2>1, <3>3, <3>4
  <2>3. ASSUME NEW i \in 1..(Len(s) - 1) PROVE c[i] = s[i + 1]
    <3>1. 2 + i - 1 = i + 1 /\ i \in 1..(Len(s) - 2 + 1)
      BY <1>1
    <3> QED BY <1>1, <2>1, <3>1
  <2>4. DOMAIN c = 1..(Len(s) - 1) /\ \A i \in 1..(Len(s) - 1) : i + 1 \in DOMAIN s
    BY <1>1, <2>2
  <2>5. ToSet(c) \subseteq ToSet(s)
    BY <2>3, <2>4 DEF ToSet
  <2>6. ConsumeFront(s, 1) = c
    BY <1>1, <2>1 DEF ConsumeFront
  <2> QED BY <2>2, <2>5, <2>6
<1>2. CASE ~(1 <= Len(s))
  BY <1>2 DEF ConsumeFront
<1> QED BY <1>1, <1>2

LEMMA NvMarkReadKeeps ==
  ASSUME \A b \in Builds : Unshared(b), IInv, IInv', MInv, nv_mark_read
  PROVE  MInv'
<1>0. /\ Typed /\ Answered(Drain) /\ OnItsWay(Drain) /\ Contents /\ Valued /\ MessagesWellFormed
      /\ Drain \in Task /\ ret \in [Task -> Calls] /\ rx \in Seq(Cells) /\ delivered \in Seq(Seq(Cells))
      /\ nv \in Seq(Seq(Cells))
  BY MInvFacts, TasksAre DEF Typed, Contents
<1>1. /\ pc[Drain] = "consume" /\ nv' = ConsumeFront(nv, 1) /\ delivered' = Append(delivered, rx) /\ rx' = <<>>
      /\ Goto(Drain, "has_cached") /\ ret' = [ret EXCEPT ![Drain] = "mark_cb"]
      /\ UNCHANGED <<build, nv_enabled, buf, read_state, size>>
  BY DEF nv_mark_read, At, platform, ramvars
<1>2. /\ pc'[Drain] = "has_cached" /\ ret'[Drain] = "mark_cb"
      /\ \A u \in Task \ {Drain} : pc'[u] = pc[u] /\ ret'[u] = ret[u]
  BY <1>0, <1>1, StepIs
<1>6. WellFormed(rx) /\ nv_enabled.now /\ nv_enabled.last = nv_enabled.now
  <2>1. AllRead
    BY <1>1 DEF AllRead
  <2> QED BY <1>0, <1>1, <2>1, AllReadIs DEF Answered
<1>3. Turn(Drain)
  BY <1>1, <1>2, <1>6 DEF Turn
<1>4. Takes(read_state)' /\ Message(read_state)' = Message(read_state) /\ Begun' = Begun
  BY <1>1, RamKept
<1>5. Spares(Drain)
  BY <1>4, MInvFacts DEF Spares, OnItsWay
<1>7. pc'[Drain] \in Looking /\ pc'[Drain] \notin Moving
  BY <1>2 DEF Looking, Moving
<1>8. Answered(Drain)' /\ OnItsWay(Drain)'
  BY <1>1, <1>2, <1>6, <1>7, TasksAre DEF Answered, OnItsWay, NothingRead, AllRead
<1>9. Valued' /\ MessagesWellFormed'
  <2>1. /\ nv' \in Seq(Seq(Cells)) /\ ToSet(nv') \subseteq ToSet(nv)
    BY <1>0, <1>1, FrontTaken
  <2>2. delivered' \in Seq(Seq(Cells)) /\ ToSet(delivered') = ToSet(delivered) \cup {rx}
    BY <1>0, <1>1, Appended
  <2>3. <<>> \in Seq(Cells)
    OBVIOUS
  <2> QED BY <1>0, <1>1, <1>6, <2>1, <2>2, <2>3 DEF Valued, MessagesWellFormed
<1> QED BY <1>0, <1>1, <1>3, <1>4, <1>5, <1>8, <1>9, TurnKeeps DEF Contents

LEMMA AbortKeeps ==
  ASSUME IInv, IInv', MInv, abort
  PROVE  MInv'
<1>0. Typed /\ Contents /\ Valued /\ MessagesWellFormed /\ Drain \in Task
  BY MInvFacts, TasksAre
<1>1. /\ Goto(Drain, "idle") /\ rx' = <<>>
      /\ UNCHANGED <<build, nv_enabled, buf, read_state, nv, ret, size, delivered>>
  BY DEF abort, platform, ramvars
<1>2. pc'[Drain] = "idle" /\ \A u \in Task \ {Drain} : pc'[u] = pc[u]
  BY <1>0, <1>1, StepIs
<1>3. Turn(Drain)
  BY <1>1, <1>2 DEF Turn
<1>4. Takes(read_state)' /\ Spares(Drain)
  BY <1>0, <1>1, <1>3, SameBuffer
<1>5. Answered(Drain)' /\ OnItsWay(Drain)'
  BY <1>0, <1>1, <1>2, Leaves
<1>6. Valued' /\ MessagesWellFormed'
  <2>1. <<>> \in Seq(Cells)
    OBVIOUS
  <2> QED BY <1>0, <1>1, <2>1 DEF Valued, MessagesWellFormed
<1> QED BY <1>0, <1>1, <1>3, <1>4, <1>5, <1>6, TurnKeeps DEF Contents

-------------------------------------------------------------------------------
(* Resets, and NV storage that comes or fails                                   *)

LEMMA WalkedIsOffset ==
  ASSUME buf \in Seq(Cells), NEW f, NEW n \in Nat, n <= Len(buf), Walked(buf, IN_PROGRESS, f, n)
  PROVE  \A k \in 0..n : f[k] = Offset[k]
<1>1. Offset[0] = 0 /\ \A k \in 1..Len(buf) : Offset[k] = Offset[k - 1] + Jump(Offset[k - 1])
  BY OffsetIs
<1> DEFINE T == {k \in Nat : k <= n => f[k] = Offset[k]}
<1>2. 0 \in T
  BY <1>1 DEF Walked
<1>3. ASSUME NEW k \in T PROVE k + 1 \in T
  <2>1. k \in Nat /\ k + 1 \in Nat
    OBVIOUS
  <2>2. ASSUME k + 1 <= n PROVE f[k + 1] = Offset[k + 1]
    <3>1. PICK m \in 1..n : m = k + 1 /\ m - 1 = k
      BY <2>1, <2>2
    <3>2. f[k] = Offset[k] /\ m \in 1..Len(buf)
      BY <2>1, <2>2, <3>1
    <3>3. f[k] < Len(buf) /\ buf[f[k] + 1].total_size # IN_PROGRESS /\ f[m] = f[k] + buf[f[k] + 1].total_size
      BY <3>1 DEF Walked
    <3>4. Offset[m] = Offset[k] + Jump(Offset[k])
      BY <1>1, <3>1, <3>2
    <3>5. Jump(Offset[k]) = buf[f[k] + 1].total_size
      BY <3>2, <3>3, Zenon DEF Jump, Complete
    <3> QED BY <3>1, <3>2, <3>3, <3>4, <3>5
  <2> QED BY <2>1, <2>2
<1>4. T \in SUBSET Nat
  OBVIOUS
<1> HIDE DEF T
<1>5. \A k \in Nat : k \in T
  BY <1>2, <1>3, <1>4, SetInduction
<1> QED BY <1>5 DEF T

TakesOfLaw == Typed => (Takes(read_state) <=> TakesOf(buf, IN_PROGRESS, build.batching, read_state))

\* What Takes says of the buffer, said of the values it has.
LEMMA TakesOfIs == TakesOfLaw
<1> SUFFICES ASSUME Typed
             PROVE  Takes(read_state) <=> TakesOf(buf, IN_PROGRESS, build.batching, read_state)
  BY DEF TakesOfLaw
<1>0. buf \in Seq(Cells) /\ Len(buf) \in Nat
  BY DEF Typed
<1>1. PICK n : n = read_state.num_events
  OBVIOUS
<1>2. ASSUME Takes(read_state) PROVE TakesOf(buf, IN_PROGRESS, build.batching, read_state)
  <2>1. n \in Nat /\ n <= Len(buf) /\ read_state.active_event_read_size = Offset[n]
    BY <1>0, <1>1, <1>2 DEF Takes
  <2>2. ASSUME NEW k \in 1..n
        PROVE  /\ Offset[k - 1] < Len(buf) /\ buf[Offset[k - 1] + 1].total_size # IN_PROGRESS
               /\ Offset[k] = Offset[k - 1] + buf[Offset[k - 1] + 1].total_size
    <3>1. Complete(Offset[k - 1])
      BY <1>1, <1>2 DEF Takes
    <3>2. k \in 1..Len(buf)
      BY <1>0, <2>1
    <3>3. Offset[k] = Offset[k - 1] + Jump(Offset[k - 1])
      BY <1>0, <3>2, OffsetIs
    <3>4. Jump(Offset[k - 1]) = buf[Offset[k - 1] + 1].total_size
      BY <3>1 DEF Jump
    <3> QED BY <3>1, <3>3, <3>4 DEF Complete
  <2>3. Offset[0] = 0
    BY <1>0, OffsetIs
  <2>4. Walked(buf, IN_PROGRESS, Offset, n)
    BY <2>2, <2>3 DEF Walked
  <2> QED BY <1>1, <1>2, <2>1, <2>4 DEF Takes, TakesOf
<1>3. ASSUME TakesOf(buf, IN_PROGRESS, build.batching, read_state) PROVE Takes(read_state)
  <2>1. PICK f : Walked(buf, IN_PROGRESS, f, n) /\ read_state.active_event_read_size = f[n]
    BY <1>1, <1>3 DEF TakesOf
  <2>2. n \in Nat /\ n <= Len(buf)
    BY <1>0, <1>1, <1>3 DEF TakesOf
  <2>3. \A k \in 0..n : f[k] = Offset[k]
    BY <1>0, <2>1, <2>2, WalkedIsOffset
  <2>4. ASSUME NEW k \in 1..n PROVE Complete(Offset[k - 1])
    <3>1. k - 1 \in 0..n
      BY <2>2
    <3>2. f[k - 1] = Offset[k - 1]
      BY <2>3, <3>1
    <3> QED BY <2>1, <3>2 DEF Walked, Complete
  <2>5. read_state.active_event_read_size = Offset[n]
    BY <2>1, <2>2, <2>3
  <2> QED BY <1>1, <1>3, <2>4, <2>5 DEF Takes, TakesOf
<1> QED BY <1>2, <1>3
LEMMA TakesOfAlways == []TakesOfLaw
BY TakesOfIs, PTL

\* What is read after deep sleep is what would have been read before it.
LEMMA SleepTakes ==
  ASSUME Typed', SavedTaken, deep_sleep
  PROVE  Takes(read_state)'
<1>1. buf' = backup.buf /\ read_state' = backup.read_state /\ build' = build /\ backup.saved
  BY DEF deep_sleep, Restarted
<1>2. IN_PROGRESS' = IN_PROGRESS
  BY <1>1 DEF IN_PROGRESS
<1>3. TakesOf(buf', IN_PROGRESS', build'.batching, read_state')
  BY <1>1, <1>2 DEF SavedTaken
<1>4. TakesOfLaw'
  BY TakesOfAlways, PTL
<1> QED BY <1>3, <1>4 DEF TakesOfLaw, TakesOf, Walked

LEMMA SavedTakenStep ==
  ASSUME IInv, MInv, SavedTaken, [Next]_vars
  PROVE  SavedTaken'
<1>0. Typed /\ Takes(read_state) /\ build' = build
  BY BackupStays DEF IInv, MInv
<1>1. IN_PROGRESS' = IN_PROGRESS
  BY <1>0 DEF IN_PROGRESS
<1>2. CASE backup' = backup
  BY <1>0, <1>1, <1>2 DEF SavedTaken
<1>3. CASE backup_event_storage
  <2>1. TakesOf(buf, IN_PROGRESS, build.batching, read_state)
    BY <1>0, TakesOfIs DEF TakesOfLaw
  <2>2. backup'.buf = buf /\ backup'.read_state = read_state
    BY <1>3 DEF backup_event_storage
  <2>3. TakesOf(backup'.buf, IN_PROGRESS', build'.batching, backup'.read_state)
    BY <1>0, <1>1, <2>1, <2>2
  <2> QED BY <2>3 DEF SavedTaken
<1>4. CASE backup' = NoBackup
  BY <1>4 DEF SavedTaken, NoBackup
<1> QED BY <1>0, <1>2, <1>3, <1>4, BackupStays

LEMMA AllIdle ==
  ASSUME \A t \in Task : pc'[t] = "idle", rx' = <<>>, Takes(read_state)', Contents', MessagesWellFormed', Emptied'
  PROVE  MInv'
  BY Leaves DEF MInv

LEMMA RestartLeaves ==
  ASSUME IInv, IInv', MInv, SavedTaken, events_storage_boot \/ deep_sleep
  PROVE  MInv'
<1>0. Typed /\ Contents /\ MessagesWellFormed /\ <<>> \in Seq(Cells)
  BY MInvFacts, TasksAre
<1>1. Restarted
  BY DEF events_storage_boot, deep_sleep
<1>2. /\ \A t \in Task : pc'[t] = "idle"
      /\ rx' = <<>> /\ size' \in [Task -> Nat] /\ UNCHANGED <<build, nv, delivered>>
      /\ nv_enabled' = [nv_enabled EXCEPT !.last = FALSE]
  BY <1>1 DEF Restarted
<1>3. Takes(read_state)'
  <2>1. CASE events_storage_boot
    BY <2>1, NoReadTakes DEF events_storage_boot, IInv
  <2>2. CASE deep_sleep
    BY <2>2, SleepTakes DEF IInv
  <2> QED BY <2>1, <2>2
<1>4. Contents'
  BY <1>0, <1>2 DEF Contents
<1>5. MessagesWellFormed'
  BY <1>0, <1>2 DEF MessagesWellFormed
<1>6. Emptied'
  BY <1>0, <1>2, MInvFacts, TasksAre DEF Emptied, Contents
<1> QED BY <1>2, <1>3, <1>4, <1>5, <1>6, AllIdle

LEMMA EnabledChangesKeeps ==
  ASSUME \A b \in Builds : Unshared(b), IInv, IInv', MInv, enabled_changes
  PROVE  MInv'
<1>0. Typed /\ Exclusive /\ Contents /\ MessagesWellFormed /\ OnItsWay(Drain) /\ Drain \in Task
  BY MInvFacts, TasksAre
<1>1. /\ nv_enabled.changes < build.max_changes /\ nv' = <<>>
      /\ nv_enabled' = [nv_enabled EXCEPT !.now = ~nv_enabled.now, !.changes = nv_enabled.changes + 1]
      /\ (build.preemptive \/ \A t \in Task : AtRest(t)) /\ (build.midway \/ pc[Drain] = "idle")
      /\ UNCHANGED <<build, buf, read_state, pc, ret, size, rx, delivered>>
  BY Zenon DEF enabled_changes, ramvars, drainvars
<1>2. build.max_changes # 0 /\ nv_enabled.changes + 1 \in Nat
  <2>1. PICK x \in Nat : x = nv_enabled.changes
    BY <1>0 DEF Contents
  <2>2. ~(x < 0)
    OBVIOUS
  <2> QED BY <1>1, <2>1, <2>2
<1>3. ~build.preemptive /\ pc[Drain] = "idle"
  BY <1>0, <1>1, <1>2 DEF Typed, Unshared
<1>4. \A t \in Task : pc'[t] = "idle"
  BY <1>0, <1>1, <1>3 DEF AtRest, Exclusive
<1>5. rx' = <<>>
  BY <1>0, <1>1, <1>3 DEF OnItsWay, NothingRead
<1>6. Takes(read_state)'
  BY <1>1, RamKept
<1>7. Contents'
  <2>1. nv_enabled' \in [now : BOOLEAN, last : BOOLEAN, changes : Nat]
    BY <1>0, <1>1, <1>2 DEF Contents
  <2>2. <<>> \in Seq(Seq(Cells))
    OBVIOUS
  <2> QED BY <1>0, <1>1, <1>2, <2>1, <2>2 DEF Contents
<1>8. MessagesWellFormed'
  <2>1. ToSet(<<>>) = {}
    BY DEF ToSet
  <2> QED BY <1>0, <1>1, <2>1 DEF MessagesWellFormed
<1>9. Emptied'
  BY <1>1 DEF Emptied
<1> QED BY <1>4, <1>5, <1>6, <1>7, <1>8, <1>9, AllIdle

LEMMA NothingChanges ==
  ASSUME IInv, IInv', MInv,
         UNCHANGED <<build, nv_enabled, buf, read_state, nv, pc, ret, size, rx, delivered>>
  PROVE  MInv'
<1>0. Contents /\ MessagesWellFormed /\ Valued /\ Drain \in Task
  BY MInvFacts, TasksAre
<1>1. UNCHANGED <<build, nv_enabled, buf, read_state, nv, pc, ret, size, rx, delivered>>
  OBVIOUS
<1>2. Turn(Drain)
  BY <1>1 DEF Turn, drainvars
<1>3. /\ Takes(read_state)' /\ Spares(Drain) /\ Current' = Current /\ Begun' = Begun
      /\ Message(read_state)' = Message(read_state) /\ There' = There
  BY <1>0, <1>1, <1>2, SameBuffer DEF There
<1>4. Answered(Drain)' /\ OnItsWay(Drain)'
  BY <1>0, <1>1, <1>3, MInvFacts DEF Answered, OnItsWay, NothingRead, AllRead, Reading
<1>5. Valued' /\ MessagesWellFormed'
  BY <1>0, <1>1 DEF Valued, MessagesWellFormed
<1> QED BY <1>0, <1>1, <1>2, <1>3, <1>4, <1>5, TurnKeeps DEF Contents

-------------------------------------------------------------------------------
(* Every message is one the server can parse                                    *)

LEMMA MInvInit ==
  ASSUME Init, IInv
  PROVE  MInv
<1>1. build.nv \in BOOLEAN
  <2>1. build \in Build
    BY BuildAssumption DEF Init
  <2> QED BY <2>1 DEF Build
<1>2. Contents
  <2>1. PICK x \in BOOLEAN : /\ nv_enabled = [now |-> x, last |-> FALSE, changes |-> 0]
                             /\ build.max_changes = 0 => x = build.nv
    BY <1>1 DEF Init
  <2>2. <<>> \in Seq(Cells) /\ <<>> \in Seq(Seq(Cells)) /\ [t \in Task |-> 0] \in [Task -> Nat]
    OBVIOUS
  <2> QED BY <2>1, <2>2 DEF Init, Contents
<1>3. Takes(read_state)
  <2>1. Takes(NoRead) /\ read_state = NoRead
    BY ComputedTakes DEF IInv, Init
  <2> QED BY <2>1
<1>4. MessagesWellFormed
  <2>1. ToSet(<<>>) = {}
    BY DEF ToSet
  <2> QED BY <2>1 DEF Init, MessagesWellFormed
<1>5. ASSUME NEW t \in Task PROVE Answered(t) /\ OnItsWay(t)
  <2>1. "idle" \notin Looking \cup Moving /\ pc[t] = "idle" /\ rx = <<>>
    BY DEF Init, Looking, Moving
  <2> QED BY <2>1 DEF Answered, OnItsWay, AllRead, NothingRead
<1>6. Emptied
  BY DEF Init, Emptied
<1> QED BY <1>2, <1>3, <1>4, <1>5, <1>6 DEF MInv

LEMMA MInvStep ==
  ASSUME \A b \in Builds : Unshared(b), \A p, q \in Persister : p = q, IInv, IInv', MInv, SavedTaken, [Next]_vars
  PROVE  MInv'
<1>1. ASSUME NEW w \in Writer, encode_to_storage(w) \/ EncodeStep(w) PROVE MInv'
  BY <1>1, RecordingKeeps
<1>2. ASSUME NEW q \in Persister, persist(q) PROVE MInv'
  BY <1>2, PersistOnTaskKeeps
<1>3. ASSUME NEW t \in Task, PersistStep(t) PROVE MInv'
  <2>1. ASSUME has_data_cached(t) PROVE MInv'
    <3>0. /\ pc[t] = "has_cached" /\ pc[t] \in Looking
          /\ UNCHANGED <<build, nv_enabled, buf, read_state, nv, ret, rx, delivered>>
      BY <2>1 DEF has_data_cached, At, platform, ramvars, drainvars, Looking
    <3>1. CASE TotalEventSize(read_state) # 0
      BY <2>1, <3>0, <3>1, HasDataKeeps DEF has_data_cached
    <3>2. CASE TotalEventSize(read_state) = 0
      BY <2>1, <3>0, <3>2, NoneCachedKeeps DEF has_data_cached
    <3> QED BY <3>1, <3>2
  <2>2. ASSUME has_data_total(t) PROVE MInv'
    <3>0. /\ pc[t] \in Looking
          /\ UNCHANGED <<build, nv_enabled, buf, read_state, nv, ret, rx, delivered>>
      BY <2>2 DEF has_data_total, At, platform, ramvars, drainvars, Looking
    <3> QED BY <2>2, <3>0, HasDataKeeps DEF has_data_total
  <2> QED BY <1>3, <2>1, <2>2, CallbackKeeps, ComputeKeeps, NvWriteKeeps, MarkCheckKeeps, MarkConsumeLeaves
          DEF PersistStep
<1>4. CASE DrainStep
  <2>1. ASSUME NEW n \in 1..(build.capacity + 1), read_msg(n) PROVE MInv'
    <3>1. n \in Nat
      BY TypedFacts DEF IInv
    <3> QED BY <2>1, <3>1, ReadKeeps
  <2> QED BY <1>4, <2>1, HasMoreKeeps, MarkReadKeeps, NvMarkReadKeeps DEF DrainStep
<1>5. CASE abort
  BY <1>5, AbortKeeps
<1>6. CASE events_storage_boot \/ deep_sleep
  BY <1>6, RestartLeaves
<1>7. CASE enabled_changes
  BY <1>7, EnabledChangesKeeps
<1>8. CASE backup_event_storage \/ Quiescent \/ UNCHANGED vars
  BY <1>8, NothingChanges DEF backup_event_storage, Quiescent, vars, ramvars, drainvars
<1> QED BY <1>1, <1>2, <1>3, <1>4, <1>5, <1>6, <1>7, <1>8 DEF Next

LEMMA MessagesInductive ==
  ASSUME \A b \in Builds : Careful(b) /\ Unshared(b), \A p, q \in Persister : p = q
  PROVE  Spec => [](MInv /\ SavedTaken)
<1>1. Spec => []IInv
  BY Inductive
<1>2. Init /\ IInv => MInv /\ SavedTaken
  <2>1. Init => SavedTaken
    BY DEF Init, SavedTaken, NoBackup
  <2> QED BY <2>1, MInvInit
<1>3. MInv /\ SavedTaken /\ IInv /\ IInv' /\ [Next]_vars => MInv' /\ SavedTaken'
  BY MInvStep, SavedTakenStep
<1> QED BY <1>1, <1>2, <1>3, PTL DEF Spec

\* What is sent, and what NV storage holds, is whole events and nothing else, with an array header that
\* counts them when there is more than one: for every size of the buffer, of the events and of the batches,
\* and every order of recording, persisting, reading in pieces, aborting, marking read, resetting and deep
\* sleep, as long as tasks record one at a time and sleep between calls (Careful), one task persists on request, and nothing changes between
\* a look at a message and the message (Unshared).
THEOREM MessagesAreWhole ==
  ASSUME \A b \in Builds : Careful(b) /\ Unshared(b), \A p, q \in Persister : p = q
  PROVE  Spec => []MessagesWellFormed
<1>1. Spec => [](MInv /\ SavedTaken)
  BY MessagesInductive
<1>2. MInv => MessagesWellFormed
  BY DEF MInv
<1> QED BY <1>1, <1>2, PTL

-------------------------------------------------------------------------------
(* The events of a sequence of cells                                            *)

\* upTo lists the events at `at` of the first i cells of s, for each i up to n.
Lists(upTo, s, at, n) ==
  /\ upTo[0] = <<>>
  /\ \A i \in 1..n : upTo[i] = IF i \in at THEN Append(upTo[i - 1], s[i].ev) ELSE upTo[i - 1]

LEMMA ListMore ==
  ASSUME NEW s \in Seq(Cells), NEW at, NEW n \in Nat, n + 1 <= Len(s),
         NEW f \in [Nat -> Seq(Nat)], Lists(f, s, at, n)
  PROVE  \E g \in [Nat -> Seq(Nat)] : Lists(g, s, at, n + 1)
<1>0. PICK m \in Nat : m = n + 1
  OBVIOUS
<1>1. PICK v \in Seq(Nat) : v = IF m \in at THEN Append(f[n], s[m].ev) ELSE f[n]
  <2>1. m \in 1..Len(s)
    BY <1>0
  <2>2. s[m].ev \in Nat /\ f[n] \in Seq(Nat)
    BY <2>1, CellIs
  <2>3. Append(f[n], s[m].ev) \in Seq(Nat)
    BY <2>2
  <2> QED BY <2>2, <2>3
<1> DEFINE g == [f EXCEPT ![m] = v]
<1>2. g \in [Nat -> Seq(Nat)] /\ g[m] = v /\ \A i \in 0..n : g[i] = f[i]
  <2>1. \A i \in 0..n : i \in Nat /\ i # m
    BY <1>0
  <2> QED BY <2>1
<1> HIDE DEF g
<1>3. ASSUME NEW i \in 1..m
      PROVE  g[i] = IF i \in at THEN Append(g[i - 1], s[i].ev) ELSE g[i - 1]
  <2>1. CASE i = m
    <3>1. i - 1 = n /\ n \in 0..n
      BY <1>0, <2>1
    <3> QED BY <1>1, <1>2, <2>1, <3>1
  <2>2. CASE i # m
    <3>1. i \in 1..n /\ i \in 0..n /\ i - 1 \in 0..n
      BY <1>0, <2>2
    <3> QED BY <1>2, <3>1 DEF Lists
  <2> QED BY <2>1, <2>2
<1>4. g[0] = <<>>
  BY <1>2 DEF Lists
<1>5. Lists(g, s, at, m)
  BY <1>3, <1>4 DEF Lists
<1> QED BY <1>0, <1>2, <1>5

LEMMA ListExists ==
  ASSUME NEW s \in Seq(Cells), NEW at
  PROVE  \A n \in Nat : n <= Len(s) => \E f \in [Nat -> Seq(Nat)] : Lists(f, s, at, n)
<1> DEFINE T == {n \in Nat : n <= Len(s) => \E f \in [Nat -> Seq(Nat)] : Lists(f, s, at, n)}
<1>1. 0 \in T
  <2> DEFINE g == [i \in Nat |-> <<>>]
  <2>1. g \in [Nat -> Seq(Nat)] /\ Lists(g, s, at, 0)
    BY DEF Lists
  <2> QED BY <2>1
<1>2. ASSUME NEW n \in T PROVE n + 1 \in T
  <2>1. n \in Nat /\ n + 1 \in Nat /\ (n <= Len(s) => \E f \in [Nat -> Seq(Nat)] : Lists(f, s, at, n))
    OBVIOUS
  <2>2. n + 1 <= Len(s) => \E f \in [Nat -> Seq(Nat)] : Lists(f, s, at, n + 1)
    <3> HIDE DEF T
    <3> SUFFICES ASSUME n + 1 <= Len(s) PROVE \E f \in [Nat -> Seq(Nat)] : Lists(f, s, at, n + 1)
      OBVIOUS
    <3>1. n <= Len(s)
      BY <2>1
    <3> QED BY <2>1, <3>1, ListMore
  <2> QED BY <2>1, <2>2
<1> HIDE DEF T
<1>3. T \in SUBSET Nat
  BY DEF T
<1>4. \A n \in Nat : n \in T
  BY <1>1, <1>2, <1>3, SetInduction
<1> QED BY <1>4 DEF T

\* The recursive function is the list.
LEMMA UpToIs ==
  ASSUME NEW s \in Seq(Cells), NEW at, NEW n \in Nat, n <= Len(s)
  PROVE  \E f \in [Nat -> Seq(Nat)] : Lists(f, s, at, n) /\ EventsUpTo(s, at, n) = f[n]
<1> DEFINE Step(g, i) == IF i = 0 THEN <<>> ELSE IF i \in at THEN Append(g[i - 1], s[i].ev) ELSE g[i - 1]
<1>1. PICK f \in [Nat -> Seq(Nat)] : Lists(f, s, at, n)
  BY ListExists
<1> DEFINE h == [i \in 0..n |-> f[i]]
<1>2. h = [i \in 0..n |-> Step(h, i)]
  <2>1. ASSUME NEW i \in 0..n PROVE h[i] = Step(h, i)
    <3>1. CASE i = 0
      BY <1>1, <3>1 DEF Lists
    <3>2. CASE i # 0
      <4>1. i \in 1..n /\ i - 1 \in 0..n
        BY <3>2
      <4>2. f[i] = (IF i \in at THEN Append(f[i - 1], s[i].ev) ELSE f[i - 1]) /\ h[i] = f[i] /\ h[i - 1] = f[i - 1]
        BY <1>1, <4>1 DEF Lists
      <4> HIDE DEF h
      <4> QED BY <3>2, <4>2
    <3> QED BY <3>1, <3>2
  <2>2. h = [i \in 0..n |-> h[i]]
    OBVIOUS
  <2> HIDE DEF h, Step
  <2> QED BY <2>1, <2>2
<1> DEFINE F == CHOOSE g : g = [i \in 0..n |-> Step(g, i)]
<1>3. EventsUpTo(s, at, n) = F[n]
  BY Zenon DEF EventsUpTo
<1>4. F = [i \in 0..n |-> Step(F, i)]
  <2> HIDE DEF Step
  <2>1. \E g : g = [i \in 0..n |-> Step(g, i)]
    <3> HIDE DEF h
    <3> QED BY <1>2
  <2> QED BY <2>1, Zenon
<1> HIDE DEF F
<1>5. \A i \in 0..n : F[i] = Step(F, i)
  <2> HIDE DEF Step
  <2> QED BY <1>4, Zenon
<1> DEFINE T == {i \in Nat : i <= n => F[i] = f[i]}
<1>6. 0 \in T
  <2>1. 0 \in 0..n
    OBVIOUS
  <2> QED BY <1>1, <1>5, <2>1 DEF Lists
<1>7. ASSUME NEW i \in T PROVE i + 1 \in T
  <2>1. i \in Nat /\ (i <= n => F[i] = f[i])
    OBVIOUS
  <2>2. CASE i + 1 <= n
    <3>1. i + 1 \in 0..n /\ i + 1 \in 1..n /\ (i + 1) - 1 = i /\ i <= n /\ i + 1 # 0
      BY <2>1, <2>2
    <3>2. F[i + 1] = IF i + 1 \in at THEN Append(F[i], s[i + 1].ev) ELSE F[i]
      BY <1>5, <3>1
    <3>3. f[i + 1] = IF i + 1 \in at THEN Append(f[i], s[i + 1].ev) ELSE f[i]
      BY <1>1, <3>1 DEF Lists
    <3>4. F[i] = f[i]
      BY <2>1, <3>1
    <3>5. F[i + 1] = f[i + 1]
      BY <3>2, <3>3, <3>4
    <3>6. i + 1 \in Nat
      BY <2>1
    <3> HIDE DEF Step
    <3> QED BY <3>5, <3>6
  <2>3. i + 1 \in Nat /\ (i + 1 <= n => F[i + 1] = f[i + 1])
    BY <2>1, <2>2
  <2> HIDE DEF Step
  <2> QED BY <2>3
<1>8. n \in T
  <2>1. T \in SUBSET Nat
    OBVIOUS
  <2> HIDE DEF T
  <2> QED BY <1>6, <1>7, <2>1, SetInduction
<1>9. F[n] = f[n]
  BY <1>8
<1> HIDE DEF T, h
<1> QED BY <1>1, <1>3, <1>9, Zenon

\* Lists that agree on the events agree.
LEMMA ListsAgree ==
  ASSUME NEW s, NEW a, NEW t, NEW b, NEW n \in Nat, NEW f, NEW g, Lists(f, s, a, n), Lists(g, t, b, n),
         \A i \in 1..n : (i \in a <=> i \in b) /\ (i \in a => s[i].ev = t[i].ev)
  PROVE  f[n] = g[n]
<1> DEFINE T == {i \in Nat : i <= n => f[i] = g[i]}
<1>1. 0 \in T
  BY DEF Lists
<1>2. ASSUME NEW i \in T PROVE i + 1 \in T
  <2>1. i \in Nat /\ (i <= n => f[i] = g[i])
    OBVIOUS
  <2>2. CASE i + 1 <= n
    <3>1. i + 1 \in 1..n /\ (i + 1) - 1 = i /\ i <= n
      BY <2>1, <2>2
    <3>2. f[i + 1] = IF i + 1 \in a THEN Append(f[i], s[i + 1].ev) ELSE f[i]
      BY <3>1 DEF Lists
    <3>3. g[i + 1] = IF i + 1 \in b THEN Append(g[i], t[i + 1].ev) ELSE g[i]
      BY <3>1 DEF Lists
    <3>4. f[i + 1] = g[i + 1]
      BY <2>1, <3>1, <3>2, <3>3
    <3> QED BY <2>1, <3>4
  <2> QED BY <2>1, <2>2
<1>3. n \in T
  <2>1. T \in SUBSET Nat
    OBVIOUS
  <2> HIDE DEF T
  <2> QED BY <1>1, <1>2, <2>1, SetInduction
<1> QED BY <1>3

LEMMA UpToSame ==
  ASSUME NEW s \in Seq(Cells), NEW a, NEW t \in Seq(Cells), NEW b, NEW n \in Nat, n <= Len(s), n <= Len(t),
         \A i \in 1..n : (i \in a <=> i \in b) /\ (i \in a => s[i].ev = t[i].ev)
  PROVE  EventsUpTo(s, a, n) = EventsUpTo(t, b, n)
<1>1. PICK f : Lists(f, s, a, n) /\ EventsUpTo(s, a, n) = f[n]
  BY UpToIs
<1>2. PICK g : Lists(g, t, b, n) /\ EventsUpTo(t, b, n) = g[n]
  BY UpToIs
<1>3. f[n] = g[n]
  BY <1>1, <1>2, ListsAgree
<1> QED BY <1>1, <1>2, <1>3

LEMMA ListsUnique ==
  ASSUME NEW s, NEW a, NEW n \in Nat, NEW f, NEW g, Lists(f, s, a, n), Lists(g, s, a, n)
  PROVE  f[n] = g[n]
<1>1. PICK t, b : t = s /\ b = a
  OBVIOUS
<1>2. Lists(g, t, b, n)
  BY <1>1
<1>3. \A i \in 1..n : (i \in a <=> i \in b) /\ (i \in a => s[i].ev = t[i].ev)
  BY <1>1
<1> QED BY <1>2, <1>3, ListsAgree

LEMMA UpToTyped ==
  ASSUME NEW s \in Seq(Cells), NEW a, NEW n \in Nat, n <= Len(s)
  PROVE  EventsUpTo(s, a, n) \in Seq(Nat)
<1>1. PICK f \in [Nat -> Seq(Nat)] : EventsUpTo(s, a, n) = f[n]
  BY UpToIs
<1> QED BY <1>1

LEMMA UpToZero ==
  ASSUME NEW s \in Seq(Cells), NEW a
  PROVE  EventsUpTo(s, a, 0) = <<>>
<1>1. 0 <= Len(s)
  OBVIOUS
<1>2. PICK f \in [Nat -> Seq(Nat)] : Lists(f, s, a, 0) /\ EventsUpTo(s, a, 0) = f[0]
  BY <1>1, UpToIs
<1> QED BY <1>2 DEF Lists

LEMMA UpToNext ==
  ASSUME NEW s \in Seq(Cells), NEW a, NEW n \in Nat, NEW m \in Nat, m = n + 1, m <= Len(s)
  PROVE  /\ m \in a => EventsUpTo(s, a, m) = Append(EventsUpTo(s, a, n), s[m].ev)
         /\ m \notin a => EventsUpTo(s, a, m) = EventsUpTo(s, a, n)
<1>1. PICK f : Lists(f, s, a, m) /\ EventsUpTo(s, a, m) = f[m]
  BY UpToIs
<1>2. PICK g : Lists(g, s, a, n) /\ EventsUpTo(s, a, n) = g[n]
  <2>1. n <= Len(s)
    OBVIOUS
  <2> QED BY <2>1, UpToIs
<1>3. Lists(f, s, a, n)
  <2>1. \A i \in 1..n : i \in 1..m
    OBVIOUS
  <2> QED BY <1>1, <2>1 DEF Lists
<1>4. f[n] = g[n]
  BY <1>2, <1>3, ListsUnique
<1>5. m \in 1..m /\ m - 1 = n
  OBVIOUS
<1>6. f[m] = IF m \in a THEN Append(f[n], s[m].ev) ELSE f[n]
  BY <1>1, <1>5 DEF Lists
<1> QED BY <1>1, <1>2, <1>4, <1>6, Zenon

\* Three lists, one after the other.
LEMMA Grouped ==
  ASSUME NEW x \in Seq(Nat), NEW y \in Seq(Nat), NEW z \in Seq(Nat)
  PROVE  (x \o y) \o z = x \o (y \o z)
  BY ConcatAssociative, SMTT(40)

LEMMA GroupedCells ==
  ASSUME NEW x \in Seq(Cells), NEW y \in Seq(Cells), NEW z \in Seq(Cells)
  PROVE  (x \o y) \o z = x \o (y \o z)
  BY ConcatAssociative, SMTT(40)

\* An event more at the end of the second of two lists.
LEMMA AppendJoined ==
  ASSUME NEW u \in Seq(Nat), NEW v \in Seq(Nat), NEW e \in Nat
  PROVE  Append(u \o v, e) = u \o Append(v, e)
<1>1. /\ <<e>> \in Seq(Nat) /\ u \o v \in Seq(Nat)
      /\ Append(v, e) = v \o <<e>> /\ Append(u \o v, e) = (u \o v) \o <<e>>
  <2>1. u \o v \in Seq(Nat)
    BY ConcatProperties
  <2>2. \A x \in Seq(Nat) : Append(x, e) = x \o <<e>>
    OBVIOUS
  <2> QED BY <2>1, <2>2
<1>2. (u \o v) \o <<e>> = u \o (v \o <<e>>)
  BY <1>1, Grouped
<1> QED BY <1>1, <1>2

\* Cell i of t is listed, at b, as cell x + i of s is, at a.
Matches(s, a, x, t, b, n) ==
  \A i \in 1..n : (x + i \in a <=> i \in b) /\ (i \in b => s[x + i].ev = t[i].ev)

\* What is listed of two sequences of cells, one after the other.
LEMMA UpToShift ==
  ASSUME NEW s \in Seq(Cells), NEW a, NEW x \in Nat, NEW n \in Nat, x + n <= Len(s),
         NEW t \in Seq(Cells), NEW b, n <= Len(t), Matches(s, a, x, t, b, n)
  PROVE  EventsUpTo(s, a, x + n) = EventsUpTo(s, a, x) \o EventsUpTo(t, b, n)
<1> DEFINE T == {i \in Nat : i <= n => EventsUpTo(s, a, x + i) = EventsUpTo(s, a, x) \o EventsUpTo(t, b, i)}
<1>0. EventsUpTo(s, a, x) \in Seq(Nat) /\ Len(s) \in Nat /\ Len(t) \in Nat
  <2>1. Len(s) \in Nat /\ Len(t) \in Nat
    OBVIOUS
  <2>2. x <= Len(s)
    BY <2>1
  <2> QED BY <2>1, <2>2, UpToTyped
<1>1. 0 \in T
  <2>1. EventsUpTo(t, b, 0) = <<>> /\ x + 0 = x
    BY UpToZero
  <2>2. EventsUpTo(s, a, x) \o <<>> = EventsUpTo(s, a, x)
    BY <1>0, ConcatEmptySeq
  <2> QED BY <2>1, <2>2
<1>2. ASSUME NEW i \in T PROVE i + 1 \in T
  <2>1. i \in Nat /\ (i <= n => EventsUpTo(s, a, x + i) = EventsUpTo(s, a, x) \o EventsUpTo(t, b, i))
    OBVIOUS
  <2>2. ASSUME i + 1 <= n
        PROVE  EventsUpTo(s, a, x + (i + 1)) = EventsUpTo(s, a, x) \o EventsUpTo(t, b, i + 1)
    <3>1. /\ i + 1 \in 1..n /\ x + i \in Nat /\ (x + i) + 1 <= Len(s) /\ i + 1 <= Len(t) /\ i <= Len(t)
          /\ (x + i) + 1 = x + (i + 1) /\ i <= n
      BY <1>0, <2>1, <2>2
    <3>2. PICK u, v, w \in Seq(Nat) : /\ u = EventsUpTo(s, a, x) /\ v = EventsUpTo(t, b, i)
                                      /\ w = EventsUpTo(s, a, x + i)
      <4>1. x + i <= Len(s)
        BY <1>0, <2>1, <2>2
      <4>2. x <= Len(s)
        BY <1>0
      <4> QED BY <1>0, <2>1, <3>1, <4>1, <4>2, UpToTyped
    <3>3. w = u \o v
      BY <2>1, <3>1, <3>2
    <3>4. EventsUpTo(s, a, x + (i + 1)) = IF x + (i + 1) \in a THEN Append(w, s[x + (i + 1)].ev) ELSE w
      <4>1. PICK y \in Nat, m \in Nat : y = x + i /\ m = x + (i + 1) /\ m = y + 1 /\ m <= Len(s)
        BY <3>1
      <4>2. EventsUpTo(s, a, m) = IF m \in a THEN Append(EventsUpTo(s, a, y), s[m].ev) ELSE EventsUpTo(s, a, y)
        <5>1. m \in a => EventsUpTo(s, a, m) = Append(EventsUpTo(s, a, y), s[m].ev)
          BY <4>1, UpToNext
        <5>2. m \notin a => EventsUpTo(s, a, m) = EventsUpTo(s, a, y)
          BY <4>1, UpToNext
        <5> QED BY <5>1, <5>2, Zenon
      <4> QED BY <3>2, <4>1, <4>2
    <3>5. EventsUpTo(t, b, i + 1) = IF i + 1 \in b THEN Append(v, t[i + 1].ev) ELSE v
      <4>1. PICK m \in Nat : m = i + 1 /\ m <= Len(t)
        BY <3>1
      <4>2. EventsUpTo(t, b, m) = IF m \in b THEN Append(EventsUpTo(t, b, i), t[m].ev) ELSE EventsUpTo(t, b, i)
        <5>1. m \in b => EventsUpTo(t, b, m) = Append(EventsUpTo(t, b, i), t[m].ev)
          BY <2>1, <4>1, UpToNext
        <5>2. m \notin b => EventsUpTo(t, b, m) = EventsUpTo(t, b, i)
          BY <2>1, <4>1, UpToNext
        <5> QED BY <5>1, <5>2, Zenon
      <4> QED BY <3>2, <4>1, <4>2
    <3>6. (x + (i + 1) \in a <=> i + 1 \in b) /\ (i + 1 \in b => s[x + (i + 1)].ev = t[i + 1].ev)
      BY <3>1 DEF Matches
    <3>7. CASE i + 1 \in b
      <4>1. PICK e \in Nat : e = t[i + 1].ev
        <5>1. i + 1 \in 1..Len(t)
          BY <1>0, <3>1
        <5> QED BY <5>1, CellIs
      <4>2. Append(u \o v, e) = u \o Append(v, e)
        BY AppendJoined
      <4>3. EventsUpTo(s, a, x + (i + 1)) = Append(u \o v, e) /\ EventsUpTo(t, b, i + 1) = Append(v, e)
        BY <3>3, <3>4, <3>5, <3>6, <3>7, <4>1
      <4> QED BY <3>2, <4>2, <4>3
    <3>8. CASE i + 1 \notin b
      BY <3>2, <3>3, <3>4, <3>5, <3>6, <3>8
    <3> QED BY <3>7, <3>8
  <2>3. i + 1 \in Nat
    BY <2>1
  <2> QED BY <2>2, <2>3
<1>3. n \in T
  <2>1. T \in SUBSET Nat
    OBVIOUS
  <2> HIDE DEF T
  <2> QED BY <1>1, <1>2, <2>1, SetInduction
<1> QED BY <1>3

\* Cells that are not listed add nothing.
LEMMA UpToNone ==
  ASSUME NEW s \in Seq(Cells), NEW a, NEW x \in Nat, NEW n \in Nat, x + n <= Len(s),
         \A i \in 1..n : x + i \notin a
  PROVE  EventsUpTo(s, a, x + n) = EventsUpTo(s, a, x)
<1> DEFINE T == {i \in Nat : i <= n => EventsUpTo(s, a, x + i) = EventsUpTo(s, a, x)}
<1>1. 0 \in T
  OBVIOUS
<1>2. ASSUME NEW i \in T PROVE i + 1 \in T
  <2>1. i \in Nat /\ (i <= n => EventsUpTo(s, a, x + i) = EventsUpTo(s, a, x))
    OBVIOUS
  <2>2. CASE i + 1 <= n
    <3>1. i + 1 \in 1..n /\ x + i \in Nat /\ (x + i) + 1 <= Len(s) /\ (x + i) + 1 = x + (i + 1) /\ i <= n
      BY <2>1, <2>2
    <3>2. EventsUpTo(s, a, x + (i + 1)) = EventsUpTo(s, a, x + i)
      <4>1. PICK y \in Nat, m \in Nat : y = x + i /\ m = x + (i + 1) /\ m = y + 1 /\ m <= Len(s) /\ m \notin a
        <5>1. PICK j \in 1..n : j = i + 1
          BY <3>1
        <5>2. x + j \notin a
          OBVIOUS
        <5> QED BY <3>1, <5>1, <5>2
      <4>2. EventsUpTo(s, a, m) = EventsUpTo(s, a, y)
        BY <4>1, UpToNext
      <4> QED BY <4>1, <4>2
    <3>3. EventsUpTo(s, a, x + (i + 1)) = EventsUpTo(s, a, x)
      BY <2>1, <3>1, <3>2
    <3> QED BY <2>1, <3>3
  <2> QED BY <2>1, <2>2
<1>3. n \in T
  <2>1. T \in SUBSET Nat
    OBVIOUS
  <2> HIDE DEF T
  <2> QED BY <1>1, <1>2, <2>1, SetInduction
<1> QED BY <1>3

\* Of cells of which the first only is listed, its event is.
LEMMA UpToOne ==
  ASSUME NEW s \in Seq(Cells), NEW a, NEW x \in Nat, NEW n \in Nat, x + 1 + n <= Len(s),
         x + 1 \in a, \A i \in 1..n : x + 1 + i \notin a
  PROVE  EventsUpTo(s, a, x + 1 + n) = Append(EventsUpTo(s, a, x), s[x + 1].ev)
<1>1. PICK y \in Nat : y = x + 1
  OBVIOUS
<1>2. EventsUpTo(s, a, y + n) = EventsUpTo(s, a, y)
  BY <1>1, UpToNone
<1>3. x + 1 <= Len(s)
  OBVIOUS
<1>4. EventsUpTo(s, a, x + 1) = Append(EventsUpTo(s, a, x), s[x + 1].ev)
  BY <1>3, UpToNext
<1> QED BY <1>1, <1>2, <1>4

-------------------------------------------------------------------------------
(* The events that begin in a sequence of cells                                 *)

Begins(s) == {i \in DOMAIN s : s[i].idx = 1}

LEMMA EventsAre ==
  ASSUME NEW s \in Seq(Cells)
  PROVE  /\ EventsOf(s) = EventsUpTo(s, Begins(s), Len(s)) /\ EventsOf(s) \in Seq(Nat)
         /\ \A i \in 1..Len(s) : i \in Begins(s) <=> s[i].idx = 1
<1>1. EventsOf(s) = EventsUpTo(s, Begins(s), Len(s))
  BY Zenon DEF EventsOf, Begins
<1>2. Len(s) \in Nat /\ Len(s) <= Len(s) /\ DOMAIN s = 1..Len(s)
  OBVIOUS
<1>3. EventsUpTo(s, Begins(s), Len(s)) \in Seq(Nat)
  BY <1>2, UpToTyped
<1>4. \A i \in 1..Len(s) : i \in Begins(s) <=> s[i].idx = 1
  BY <1>2 DEF Begins
<1> QED BY <1>1, <1>3, <1>4

LEMMA BeginsIs ==
  ASSUME NEW s \in Seq(Cells), NEW i \in 1..Len(s)
  PROVE  i \in Begins(s) <=> s[i].idx = 1
BY EventsAre

\* The events of two messages, one after the other.
LEMMA EventsJoined ==
  ASSUME NEW s \in Seq(Cells), NEW t \in Seq(Cells)
  PROVE  EventsOf(s \o t) = EventsOf(s) \o EventsOf(t)
<1>1. PICK c, l, n : c = s \o t /\ l = Len(s) /\ n = Len(t)
  OBVIOUS
<1>2. /\ c \in Seq(Cells) /\ Len(c) = l + n /\ l \in Nat /\ n \in Nat
      /\ \A i \in 1..(l + n) : c[i] = IF i <= l THEN s[i] ELSE t[i - l]
  BY <1>1, ConcatProperties
<1>3. \A i \in 1..l : c[i] = s[i] /\ i \in 1..Len(c)
  BY <1>2
<1>4. \A i \in 1..n : c[l + i] = t[i] /\ l + i \in 1..Len(c)
  <2> SUFFICES ASSUME NEW i \in 1..n PROVE c[l + i] = t[i] /\ l + i \in 1..Len(c)
    OBVIOUS
  <2>1. l + i \in 1..(l + n) /\ ~(l + i <= l) /\ (l + i) - l = i
    BY <1>2
  <2> QED BY <1>2, <2>1
<1>5. EventsUpTo(c, Begins(c), l) = EventsUpTo(s, Begins(s), l)
  <2>1. ASSUME NEW i \in 1..l
        PROVE  (i \in Begins(c) <=> i \in Begins(s)) /\ (i \in Begins(c) => c[i].ev = s[i].ev)
    <3>1. c[i] = s[i] /\ i \in 1..Len(c) /\ i \in 1..Len(s)
      BY <1>1, <1>3
    <3> QED BY <1>2, <3>1, BeginsIs
  <2>2. l <= Len(c) /\ l <= Len(s)
    BY <1>1, <1>2
  <2> QED BY <1>2, <2>1, <2>2, UpToSame
<1>6. EventsUpTo(c, Begins(c), l + n) = EventsUpTo(c, Begins(c), l) \o EventsUpTo(t, Begins(t), n)
  <2>1. ASSUME NEW i \in 1..n
        PROVE  (l + i \in Begins(c) <=> i \in Begins(t)) /\ (i \in Begins(t) => c[l + i].ev = t[i].ev)
    <3>1. PICK j : j = l + i
      OBVIOUS
    <3>2. c[j] = t[i] /\ j \in 1..Len(c) /\ i \in 1..Len(t)
      BY <1>1, <1>4, <3>1
    <3> QED BY <1>2, <3>1, <3>2, BeginsIs
  <2>2. l + n <= Len(c) /\ n <= Len(t)
    BY <1>1, <1>2
  <2>3. PICK a, b : a = Begins(c) /\ b = Begins(t)
    OBVIOUS
  <2>4. Matches(c, a, l, t, b, n)
    BY <2>1, <2>3 DEF Matches
  <2>5. EventsUpTo(c, a, l + n) = EventsUpTo(c, a, l) \o EventsUpTo(t, b, n)
    <3>1. c \in Seq(Cells) /\ l \in Nat /\ n \in Nat
      BY <1>2
    <3> QED BY <2>2, <2>4, <3>1, UpToShift
  <2> QED BY <2>3, <2>5
<1>7. EventsOf(c) = EventsUpTo(c, Begins(c), l + n)
  BY <1>2, EventsAre
<1> QED BY <1>1, <1>5, <1>6, <1>7, EventsAre

LEMMA NoEvents ==
  ASSUME NEW s \in Seq(Cells), \A i \in 1..Len(s) : s[i].idx # 1
  PROVE  EventsOf(s) = <<>>
<1>1. PICK n \in Nat : n = Len(s)
  OBVIOUS
<1>2. \A i \in 1..n : 0 + i \notin Begins(s)
  BY <1>1, EventsAre
<1>3. EventsUpTo(s, Begins(s), 0 + n) = EventsUpTo(s, Begins(s), 0)
  <2>1. 0 + n <= Len(s) /\ 0 \in Nat
    BY <1>1
  <2> QED BY <1>2, <2>1, UpToNone
<1>4. 0 + n = Len(s)
  BY <1>1
<1> QED BY <1>3, <1>4, EventsAre, UpToZero

\* A run of payload cells that begins an event and ends before the next has that one event.
LEMMA PartEvents ==
  ASSUME NEW s \in Seq(Cells), NEW e \in Nat, NEW t \in Nat, t > 0, Part(s, e, t)
  PROVE  EventsOf(s) = <<e>>
<1>1. Len(s) = t /\ \A i \in 1..t : s[i] = Cell(e, i, t)
  BY DEF Part
<1>2. \A i \in 1..t : s[i].ev = e /\ s[i].idx = i
  BY <1>1, CellTyped
<1>3. PICK n \in Nat : 0 + 1 + n = t
  <2>1. t - 1 \in Nat /\ 0 + 1 + (t - 1) = t
    OBVIOUS
  <2> QED BY <2>1
<1>4. 0 + 1 \in Begins(s) /\ \A i \in 1..n : 0 + 1 + i \notin Begins(s)
  <2>1. 1 \in 1..t /\ \A i \in 1..n : 1 + i \in 1..t /\ 1 + i # 1
    BY <1>3
  <2>2. 0 + 1 = 1 /\ 1 \in Begins(s)
    BY <1>1, <1>2, <2>1, BeginsIs
  <2>3. ASSUME NEW i \in 1..n PROVE 0 + 1 + i \notin Begins(s)
    <3>1. PICK j : j = 1 + i /\ j \in 1..t /\ j # 1
      BY <2>1
    <3>2. j \notin Begins(s)
      BY <1>1, <1>2, <3>1, BeginsIs
    <3> QED BY <3>1, <3>2
  <2> QED BY <2>2, <2>3
<1>5. EventsUpTo(s, Begins(s), 0 + 1 + n) = Append(EventsUpTo(s, Begins(s), 0), s[0 + 1].ev)
  <2>1. 0 + 1 + n <= Len(s) /\ 0 \in Nat
    BY <1>1, <1>3
  <2> QED BY <1>4, <2>1, UpToOne
<1>6. s[0 + 1].ev = e
  BY <1>2
<1>7. EventsUpTo(s, Begins(s), 0) = <<>>
  BY UpToZero
<1>8. EventsOf(s) = EventsUpTo(s, Begins(s), t)
  BY <1>1, EventsAre
<1>9. EventsUpTo(s, Begins(s), t) = Append(<<>>, e)
  BY <1>3, <1>5, <1>6, <1>7
<1> QED BY <1>8, <1>9

-------------------------------------------------------------------------------
(* The events committed in a buffer                                             *)

\* The headers after the first x cells of b, but that of a record being written, which has size w.
Heads(b, x, w) == {i \in DOMAIN b : i > x /\ ~(b[i].idx > 0) /\ b[i].total_size # w}
Kept(b, x, w) == EventsUpTo(b, Heads(b, x, w), Len(b))

LEMMA HeadsAre ==
  ASSUME NEW b \in Seq(Cells), NEW x, NEW w, NEW i \in 1..Len(b)
  PROVE  i \in Heads(b, x, w) <=> (i > x /\ ~(b[i].idx > 0) /\ b[i].total_size # w)
<1>1. DOMAIN b = 1..Len(b)
  OBVIOUS
<1> QED BY <1>1 DEF Heads

LEMMA KeptTyped ==
  ASSUME NEW b \in Seq(Cells), NEW x, NEW w
  PROVE  Kept(b, x, w) \in Seq(Nat)
<1>1. Len(b) \in Nat /\ Len(b) <= Len(b)
  OBVIOUS
<1> QED BY <1>1, UpToTyped DEF Kept

\* What is kept is what the first x cells have and what those after them have.
LEMMA KeptSplit ==
  ASSUME NEW b \in Seq(Cells), NEW w, NEW x \in Nat, x <= Len(b)
  PROVE  LET t == SubSeq(b, x + 1, Len(b))
         IN /\ t \in Seq(Cells) /\ Kept(b, x, w) = Kept(t, 0, w)
            /\ EventsUpTo(b, Heads(b, 0, w), x) \in Seq(Nat)
            /\ Kept(b, 0, w) = EventsUpTo(b, Heads(b, 0, w), x) \o Kept(b, x, w)
<1>1. PICK t : t = SubSeq(b, x + 1, Len(b))
  OBVIOUS
<1>2. PICK n \in Nat : x + n = Len(b)
  <2>1. Len(b) - x \in Nat /\ x + (Len(b) - x) = Len(b)
    OBVIOUS
  <2> QED BY <2>1
<1>3. t \in Seq(Cells) /\ Len(t) = n /\ \A i \in 1..n : t[i] = b[x + i]
  <2>1. \A i \in (x + 1)..Len(b) : b[i] \in Cells
    OBVIOUS
  <2>2. x + 1 \in Int /\ Len(b) \in Int
    OBVIOUS
  <2>3. /\ t \in Seq(Cells) /\ Len(t) = (IF x + 1 <= Len(b) THEN Len(b) - (x + 1) + 1 ELSE 0)
        /\ \A i \in 1..(Len(b) - (x + 1) + 1) : t[i] = b[(x + 1) + i - 1]
    BY <1>1, <2>1, <2>2, SubSeqProperties
  <2>4. Len(b) - (x + 1) + 1 = n /\ Len(t) = n
    BY <1>2, <2>3
  <2>5. \A i \in 1..n : (x + 1) + i - 1 = x + i
    OBVIOUS
  <2> QED BY <2>3, <2>4, <2>5
<1>4. ASSUME NEW y \in Nat, y <= x PROVE Matches(b, Heads(b, y, w), x, t, Heads(t, 0, w), n)
  <2>1. ASSUME NEW i \in 1..n
        PROVE  /\ x + i \in Heads(b, y, w) <=> i \in Heads(t, 0, w)
               /\ b[x + i].ev = t[i].ev
    <3>1. PICK j : j = x + i /\ j \in 1..Len(b) /\ j > y /\ t[i] = b[j] /\ i \in 1..Len(t) /\ i > 0
      BY <1>2, <1>3, <1>4
    <3>2. j \in Heads(b, y, w) <=> (~(b[j].idx > 0) /\ b[j].total_size # w)
      BY <3>1, HeadsAre
    <3>3. i \in Heads(t, 0, w) <=> (~(t[i].idx > 0) /\ t[i].total_size # w)
      BY <1>3, <3>1, HeadsAre
    <3> QED BY <3>1, <3>2, <3>3
  <2> QED BY <2>1 DEF Matches
<1>5. ASSUME NEW y \in Nat, y <= x
      PROVE  Kept(b, y, w) = EventsUpTo(b, Heads(b, y, w), x) \o Kept(t, 0, w)
  <2>1. PICK a, c : a = Heads(b, y, w) /\ c = Heads(t, 0, w)
    OBVIOUS
  <2>2. Matches(b, a, x, t, c, n)
    BY <1>4, <1>5, <2>1
  <2>3. x + n <= Len(b) /\ n <= Len(t) /\ t \in Seq(Cells)
    BY <1>2, <1>3
  <2>4. EventsUpTo(b, a, x + n) = EventsUpTo(b, a, x) \o EventsUpTo(t, c, n)
    BY <2>2, <2>3, UpToShift
  <2> QED BY <1>2, <1>3, <2>1, <2>4 DEF Kept
<1>6. EventsUpTo(b, Heads(b, x, w), x) = <<>>
  <2>1. PICK a : a = Heads(b, x, w)
    OBVIOUS
  <2>2. ASSUME NEW i \in 1..x PROVE 0 + i \notin a
    <3>1. i \in 1..Len(b) /\ ~(i > x) /\ 0 + i = i
      OBVIOUS
    <3> QED BY <2>1, <3>1, HeadsAre
  <2>3. 0 + x <= Len(b) /\ 0 \in Nat
    OBVIOUS
  <2>4. EventsUpTo(b, a, 0 + x) = EventsUpTo(b, a, 0)
    BY <2>2, <2>3, UpToNone
  <2>5. EventsUpTo(b, a, 0) = <<>> /\ 0 + x = x
    BY UpToZero
  <2> QED BY <2>1, <2>4, <2>5
<1>7. Kept(b, x, w) = Kept(t, 0, w)
  <2>1. Kept(t, 0, w) \in Seq(Nat)
    BY <1>3, KeptTyped
  <2>2. <<>> \o Kept(t, 0, w) = Kept(t, 0, w)
    BY <2>1, ConcatEmptySeq
  <2>3. x <= x
    OBVIOUS
  <2> QED BY <1>5, <1>6, <2>2, <2>3
<1>8. Kept(b, 0, w) = EventsUpTo(b, Heads(b, 0, w), x) \o Kept(b, x, w)
  <2>1. 0 \in Nat /\ 0 <= x
    OBVIOUS
  <2> QED BY <1>5, <1>7, <2>1
<1>9. EventsUpTo(b, Heads(b, 0, w), x) \in Seq(Nat)
  BY UpToTyped
<1> QED BY <1>1, <1>3, <1>7, <1>8, <1>9

\* Cells after the first p that are not headers of committed records keep nothing.
Unheaded(b, p, w) == \A i \in (p + 1)..Len(b) : b[i].idx > 0 \/ b[i].total_size = w

LEMMA KeptEnd ==
  ASSUME NEW b \in Seq(Cells), NEW x, NEW w, NEW p \in Nat, p <= Len(b), Unheaded(b, p, w)
  PROVE  Kept(b, x, w) = EventsUpTo(b, Heads(b, x, w), p)
<1>1. PICK n \in Nat : p + n = Len(b)
  <2>1. Len(b) - p \in Nat /\ p + (Len(b) - p) = Len(b)
    OBVIOUS
  <2> QED BY <2>1
<1>2. PICK a : a = Heads(b, x, w)
  OBVIOUS
<1>3. ASSUME NEW i \in 1..n PROVE p + i \notin a
  <2>1. PICK j : j = p + i /\ j \in (p + 1)..Len(b) /\ j \in 1..Len(b)
    BY <1>1
  <2>2. b[j].idx > 0 \/ b[j].total_size = w
    BY <2>1 DEF Unheaded
  <2>3. j \notin a
    BY <1>2, <2>1, <2>2, HeadsAre
  <2> QED BY <2>1, <2>3
<1>4. p + n <= Len(b)
  BY <1>1
<1>5. EventsUpTo(b, a, p + n) = EventsUpTo(b, a, p)
  BY <1>3, <1>4, UpToNone
<1> QED BY <1>1, <1>2, <1>5 DEF Kept

\* Cells before p that are the same keep the same.
LEMMA KeptSame ==
  ASSUME NEW b \in Seq(Cells), NEW c \in Seq(Cells), NEW x, NEW w, NEW p \in Nat, p <= Len(b), p <= Len(c),
         \A i \in 1..p : c[i] = b[i]
  PROVE  EventsUpTo(b, Heads(b, x, w), p) = EventsUpTo(c, Heads(c, x, w), p)
<1>1. PICK a, d : a = Heads(b, x, w) /\ d = Heads(c, x, w)
  OBVIOUS
<1>2. ASSUME NEW i \in 1..p PROVE (i \in a <=> i \in d) /\ (i \in a => b[i].ev = c[i].ev)
  <2>1. i \in 1..Len(b) /\ i \in 1..Len(c) /\ c[i] = b[i]
    OBVIOUS
  <2>2. i \in a <=> (i > x /\ ~(b[i].idx > 0) /\ b[i].total_size # w)
    BY <1>1, <2>1, HeadsAre
  <2>3. i \in d <=> (i > x /\ ~(c[i].idx > 0) /\ c[i].total_size # w)
    BY <1>1, <2>1, HeadsAre
  <2> QED BY <2>1, <2>2, <2>3
<1>3. EventsUpTo(b, a, p) = EventsUpTo(c, d, p)
  BY <1>2, UpToSame
<1> QED BY <1>1, <1>3

\* A cell of payload, or the header of a record being written, adds no event.
LEMMA KeptAppended ==
  ASSUME NEW b \in Seq(Cells), NEW c \in Cells, NEW x, NEW w, c.idx > 0 \/ c.total_size = w
  PROVE  Kept(Append(b, c), x, w) = Kept(b, x, w)
<1>1. PICK d, p : d = Append(b, c) /\ p = Len(b)
  OBVIOUS
<1>2. /\ d \in Seq(Cells) /\ Len(d) = p + 1 /\ p \in Nat /\ d[p + 1] = c
      /\ \A i \in 1..p : d[i] = b[i]
  BY <1>1
<1>3. Unheaded(d, p, w) /\ Unheaded(b, p, w)
  <2>1. \A i \in (p + 1)..Len(d) : i = p + 1
    BY <1>2
  <2>2. \A i \in (p + 1)..Len(b) : FALSE
    BY <1>1, <1>2
  <2> QED BY <1>2, <2>1, <2>2 DEF Unheaded
<1>4. p <= Len(d) /\ p <= Len(b)
  BY <1>1, <1>2
<1>5. Kept(d, x, w) = EventsUpTo(d, Heads(d, x, w), p)
  BY <1>2, <1>3, <1>4, KeptEnd
<1>6. Kept(b, x, w) = EventsUpTo(b, Heads(b, x, w), p)
  BY <1>1 DEF Kept
<1>7. EventsUpTo(b, Heads(b, x, w), p) = EventsUpTo(d, Heads(d, x, w), p)
  BY <1>2, <1>4, KeptSame
<1> QED BY <1>1, <1>5, <1>6, <1>7

\* Rolling back the record being written, and committing it.
LEMMA KeptCut ==
  ASSUME NEW b \in Seq(Cells), NEW c \in Seq(Cells), NEW x, NEW w, NEW p \in Nat, p <= Len(b), Unheaded(b, p, w),
         Len(c) = p, \A i \in 1..p : c[i] = b[i]
  PROVE  Kept(c, x, w) = Kept(b, x, w)
<1>1. Kept(b, x, w) = EventsUpTo(b, Heads(b, x, w), p)
  BY KeptEnd
<1>2. Kept(c, x, w) = EventsUpTo(c, Heads(c, x, w), p)
  BY DEF Kept
<1>3. EventsUpTo(b, Heads(b, x, w), p) = EventsUpTo(c, Heads(c, x, w), p)
  <2>1. p <= Len(c)
    OBVIOUS
  <2> QED BY <2>1, KeptSame
<1> QED BY <1>1, <1>2, <1>3

\* A record that gets its size adds its event at the end.
LEMMA KeptCommitted ==
  ASSUME NEW b \in Seq(Cells), NEW c \in Seq(Cells), NEW x \in Nat, NEW w, NEW p \in Nat, p < Len(b), x <= p,
         Unheaded(b, p, w), NEW e \in Nat, NEW k \in Nat, k # w,
         Len(c) = Len(b), c[p + 1] = Cell(e, 0, k), \A i \in 1..p : c[i] = b[i], Unheaded(c, p + 1, w)
  PROVE  Kept(c, x, w) = Append(Kept(b, x, w), e)
<1>1. Kept(b, x, w) = EventsUpTo(b, Heads(b, x, w), p)
  <2>1. p <= Len(b)
    OBVIOUS
  <2> QED BY <2>1, KeptEnd
<1>2. PICK q \in Nat : q = p + 1 /\ q \in 1..Len(c) /\ q <= Len(c)
  <2>1. p + 1 \in 1..Len(b) /\ p + 1 <= Len(b)
    OBVIOUS
  <2> QED BY <2>1
<1>3. Kept(c, x, w) = EventsUpTo(c, Heads(c, x, w), q)
  BY <1>2, KeptEnd
<1>6. c[q].ev = e /\ c[q].idx = 0 /\ c[q].total_size = k
  <2>1. Cell(e, 0, k).ev = e /\ Cell(e, 0, k).idx = 0 /\ Cell(e, 0, k).total_size = k
    BY DEF Cell
  <2>2. c[q] = Cell(e, 0, k)
    BY <1>2
  <2> QED BY <2>1, <2>2, Zenon
<1>4. q \in Heads(c, x, w)
  <2>1. q > x /\ ~(c[q].idx > 0) /\ c[q].total_size # w
    BY <1>2, <1>6
  <2> QED BY <1>2, <2>1, HeadsAre
<1>5. EventsUpTo(c, Heads(c, x, w), q) = Append(EventsUpTo(c, Heads(c, x, w), p), c[q].ev)
  <2>1. PICK h : h = Heads(c, x, w)
    OBVIOUS
  <2>2. EventsUpTo(c, h, q) = Append(EventsUpTo(c, h, p), c[q].ev)
    BY <1>2, <1>4, <2>1, UpToNext
  <2> QED BY <2>1, <2>2
<1>7. EventsUpTo(b, Heads(b, x, w), p) = EventsUpTo(c, Heads(c, x, w), p)
  <2>1. p <= Len(b) /\ p <= Len(c)
    OBVIOUS
  <2> QED BY <2>1, KeptSame
<1> QED BY <1>1, <1>3, <1>5, <1>6, <1>7

LEMMA KeptOfNothing ==
  ASSUME NEW x, NEW w
  PROVE  Kept(<<>>, x, w) = <<>>
<1>1. <<>> \in Seq(Cells) /\ Len(<<>>) = 0
  OBVIOUS
<1> QED BY <1>1, UpToZero DEF Kept

-------------------------------------------------------------------------------
(* The events of messages one after another                                     *)

\* Joined sequences of cells are sequences of cells.
LEMMA JoinsTyped ==
  ASSUME NEW n \in Nat, NEW s \in [1..n -> Seq(Cells)], NEW f, Joins(f, s, n)
  PROVE  \A i \in 1..n : f[i] \in Seq(Cells)
<1> DEFINE T == {i \in Nat : i \in 1..n => f[i] \in Seq(Cells)}
<1>1. 0 \in T
  OBVIOUS
<1>2. ASSUME NEW i \in T PROVE i + 1 \in T
  <2>1. i \in Nat /\ (i \in 1..n => f[i] \in Seq(Cells))
    OBVIOUS
  <2>2. ASSUME i + 1 \in 1..n PROVE f[i + 1] \in Seq(Cells)
    <3>0. PICK j : j = i + 1 /\ j \in 1..n /\ s[j] \in Seq(Cells)
      BY <2>2
    <3>1. CASE i = 0
      <4>1. j = 1 /\ f[1] = s[1]
        BY <3>0, <3>1 DEF Joins
      <4> QED BY <3>0, <4>1
    <3>2. CASE i # 0
      <4>1. j \in 2..n /\ j - 1 = i /\ i \in 1..n
        BY <2>1, <3>0, <3>2
      <4>2. f[j] = f[i] \o s[j]
        BY <4>1 DEF Joins
      <4> QED BY <2>1, <3>0, <4>1, <4>2, ConcatProperties
    <3> QED BY <3>1, <3>2
  <2> QED BY <2>1, <2>2
<1>3. \A i \in Nat : i \in T
  <2>1. T \in SUBSET Nat
    OBVIOUS
  <2> HIDE DEF T
  <2> QED BY <1>1, <1>2, <2>1, SetInduction
<1> QED BY <1>3

\* Messages one after another, as the last of their partial joins.
LEMMA FlatIs ==
  ASSUME NEW s \in Seq(Seq(Cells))
  PROVE  /\ FlattenSeq(s) \in Seq(Cells) /\ (s = <<>> => FlattenSeq(s) = <<>>)
         /\ s # <<>> => \E f : FlattenSeq(s) = f[Len(s)] /\ Joins(f, s, Len(s))
<1>1. PICK n \in Nat : n = Len(s) /\ s \in [1..n -> Seq(Cells)]
  OBVIOUS
<1>2. CASE s = <<>>
  <2>1. FlattenSeq(s) = <<>>
    <3>1. Len(s) = 0
      BY <1>2
    <3> QED BY <1>2, <3>1 DEF FlattenSeq
  <2>2. <<>> \in Seq(Cells)
    OBVIOUS
  <2>3. FlattenSeq(s) \in Seq(Cells)
    BY <2>1, <2>2
  <2> QED BY <1>2, <2>1, <2>3
<1>3. CASE s # <<>>
  <2>1. n > 0
    BY <1>1, <1>3
  <2>2. PICK f : /\ FlattenSeq(s) = f[n] /\ f[1] = s[1]
                 /\ \A i \in 2..n : f[i] = f[i - 1] \o s[i]
    BY <1>1, <2>1, FlattenIs
  <2>3. Joins(f, s, n)
    BY <2>2 DEF Joins
  <2>4. f[n] \in Seq(Cells)
    <3>1. n \in 1..n
      BY <2>1
    <3> QED BY <1>1, <2>3, <3>1, JoinsTyped
  <2>5. FlattenSeq(s) \in Seq(Cells)
    BY <2>2, <2>4
  <2>6. \E g : FlattenSeq(s) = g[Len(s)] /\ Joins(g, s, Len(s))
    BY <1>1, <2>2, <2>3, Zenon
  <2> QED BY <1>3, <2>5, <2>6
<1>4. s = <<>> \/ s # <<>>
  OBVIOUS
<1> QED BY <1>2, <1>3, <1>4, Zenon

\* Joining s and joining c, of which s is the front, is the same up to the end of s.
SameTo(s, c, n) == \A i \in 1..n : c[i] = s[i]

LEMMA JoinsSame ==
  ASSUME NEW n \in Nat, NEW m \in Nat, n <= m, NEW s \in Seq(Seq(Cells)), NEW c \in Seq(Seq(Cells)), SameTo(s, c, n),
         NEW f, Joins(f, s, n), NEW g, Joins(g, c, m)
  PROVE  SameTo(f, g, n)
<1> DEFINE T == {i \in Nat : i \in 1..n => g[i] = f[i]}
<1>1. 0 \in T
  OBVIOUS
<1>2. ASSUME NEW i \in T PROVE i + 1 \in T
  <2>1. i \in Nat /\ (i \in 1..n => g[i] = f[i])
    OBVIOUS
  <2>2. ASSUME i + 1 \in 1..n PROVE g[i + 1] = f[i + 1]
    <3>0. PICK j : j = i + 1 /\ j \in 1..n /\ c[j] = s[j]
      BY <2>2 DEF SameTo
    <3>1. CASE i = 0
      <4>1. j = 1 /\ f[1] = s[1] /\ g[1] = c[1]
        BY <3>0, <3>1 DEF Joins
      <4> QED BY <3>0, <4>1
    <3>2. CASE i # 0
      <4>1. j \in 2..n /\ j \in 2..m /\ j - 1 = i /\ i \in 1..n
        BY <2>1, <3>0, <3>2
      <4>2. f[j] = f[i] \o s[j] /\ g[j] = g[i] \o c[j]
        BY <4>1 DEF Joins
      <4> QED BY <2>1, <3>0, <4>1, <4>2
    <3> QED BY <3>1, <3>2
  <2> QED BY <2>1, <2>2
<1>3. \A i \in Nat : i \in T
  <2>1. T \in SUBSET Nat
    OBVIOUS
  <2> HIDE DEF T
  <2> QED BY <1>1, <1>2, <2>1, SetInduction
<1> QED BY <1>3 DEF SameTo

LEMMA FlatAppended ==
  ASSUME NEW s \in Seq(Seq(Cells)), NEW m \in Seq(Cells)
  PROVE  FlattenSeq(Append(s, m)) = FlattenSeq(s) \o m
<1>1. PICK n, c : n = Len(s) /\ c = Append(s, m)
  OBVIOUS
<1>2. /\ c \in Seq(Seq(Cells)) /\ Len(c) = n + 1 /\ n \in Nat /\ c[n + 1] = m /\ c # <<>>
      /\ \A i \in 1..n : c[i] = s[i]
  BY <1>1, AppendProperties
<1>3. PICK g : FlattenSeq(c) = g[n + 1] /\ Joins(g, c, n + 1)
  BY <1>2, FlatIs
<1>4. CASE s = <<>>
  <2>1. n = 0 /\ n + 1 = 1 /\ g[1] = c[1]
    BY <1>1, <1>3, <1>4 DEF Joins
  <2>2. FlattenSeq(s) = <<>>
    BY <1>4, FlatIs
  <2>3. <<>> \o m = m
    BY ConcatEmptySeq
  <2> QED BY <1>1, <1>2, <1>3, <2>1, <2>2, <2>3
<1>5. CASE s # <<>>
  <2>1. PICK f : FlattenSeq(s) = f[n] /\ Joins(f, s, n)
    BY <1>1, <1>5, FlatIs
  <2>2. n \in 1..n /\ n + 1 \in 2..(n + 1) /\ (n + 1) - 1 = n /\ n <= n + 1 /\ n + 1 \in Nat
    BY <1>1, <1>2, <1>5
  <2>3. g[n] = f[n]
    <3>1. PICK k : k = n + 1 /\ k \in Nat /\ n <= k /\ Joins(g, c, k)
      BY <1>3, <2>2
    <3>2. SameTo(f, g, n)
      <4>1. SameTo(s, c, n)
        BY <1>2 DEF SameTo
      <4>2. n \in Nat
        BY <1>2
      <4>3. Joins(f, s, n)
        BY <2>1
      <4>4. k \in Nat /\ n <= k /\ Joins(g, c, k)
        BY <3>1
      <4>5. s \in Seq(Seq(Cells)) /\ c \in Seq(Seq(Cells))
        BY <1>2
      <4> QED BY <4>1, <4>2, <4>3, <4>4, <4>5, JoinsSame
    <3> QED BY <2>2, <3>2 DEF SameTo
  <2>4. g[n + 1] = g[n] \o c[n + 1]
    BY <1>3, <2>2 DEF Joins
  <2> QED BY <1>1, <1>2, <1>3, <2>1, <2>3, <2>4
<1> QED BY <1>4, <1>5

LEMMA FlatFront ==
  ASSUME NEW s \in Seq(Seq(Cells)), s # <<>>
  PROVE  /\ ConsumeFront(s, 1) \in Seq(Seq(Cells)) /\ s[1] \in Seq(Cells)
         /\ FlattenSeq(s) = s[1] \o FlattenSeq(ConsumeFront(s, 1))
<1>1. PICK c, n, m : c = ConsumeFront(s, 1) /\ m = Len(s) /\ n = Len(s) - 1
  OBVIOUS
<1>2. m \in Nat /\ m > 0 /\ n \in Nat /\ n + 1 = m /\ \A i \in 1..m : s[i] \in Seq(Cells)
  BY <1>1
<1>3. c = SubSeq(s, 2, m)
  BY <1>1, <1>2 DEF ConsumeFront
<1>4. c \in Seq(Seq(Cells)) /\ Len(c) = n /\ \A i \in 1..n : c[i] = s[i + 1]
  <2>1. 2 \in Int /\ m \in Int /\ \A i \in 2..m : s[i] \in Seq(Cells)
    BY <1>2
  <2>2. /\ c \in Seq(Seq(Cells)) /\ Len(c) = (IF 2 <= m THEN m - 2 + 1 ELSE 0)
        /\ \A i \in 1..(m - 2 + 1) : c[i] = s[2 + i - 1]
    BY <1>3, <2>1, SubSeqProperties
  <2>3. m - 2 + 1 = n /\ Len(c) = n /\ \A i \in 1..n : 2 + i - 1 = i + 1
    BY <1>2, <2>2
  <2> QED BY <2>2, <2>3
<1>5. PICK f : FlattenSeq(s) = f[m] /\ Joins(f, s, m)
  BY <1>1, FlatIs
<1>6. f[1] = s[1] /\ s[1] \in Seq(Cells)
  BY <1>2, <1>5 DEF Joins
<1>7. CASE n = 0
  <2>1. c = <<>> /\ m = 1
    BY <1>2, <1>4, <1>7
  <2>2. FlattenSeq(c) = <<>>
    BY <2>1, FlatIs, EmptySeq
  <2>3. s[1] \o <<>> = s[1]
    BY <1>6, ConcatEmptySeq
  <2> QED BY <1>1, <1>4, <1>5, <1>6, <2>1, <2>2, <2>3
<1>8. CASE n > 0
  <2>1. c # <<>>
    BY <1>4, <1>8
  <2>2. PICK g : FlattenSeq(c) = g[n] /\ Joins(g, c, n)
    BY <1>4, <2>1, FlatIs
  <2>3. \A i \in 1..n : g[i] \in Seq(Cells) /\ c[i] \in Seq(Cells)
    <3>1. c \in [1..n -> Seq(Cells)]
      BY <1>4
    <3> QED BY <1>2, <2>2, <3>1, JoinsTyped
  <2> DEFINE T == {i \in Nat : i \in 1..n => f[i + 1] = s[1] \o g[i]}
  <2>4. 0 \in T
    OBVIOUS
  <2>5. ASSUME NEW i \in T PROVE i + 1 \in T
    <3>1. i \in Nat /\ (i \in 1..n => f[i + 1] = s[1] \o g[i])
      OBVIOUS
    <3>2. ASSUME i + 1 \in 1..n PROVE f[(i + 1) + 1] = s[1] \o g[i + 1]
      <4>0. PICK j \in 1..n : j = i + 1
        BY <3>2
      <4>1. PICK l \in 2..m : l = j + 1 /\ l - 1 = j
        <5>1. j + 1 \in 2..m /\ (j + 1) - 1 = j
          BY <1>2
        <5> QED BY <5>1
      <4>2. f[l] = f[j] \o c[j]
        <5>1. f[l] = f[j] \o s[l] /\ s[l] = c[j]
          BY <1>4, <1>5, <4>1 DEF Joins
        <5> QED BY <5>1
      <4>3. CASE i = 0
        <5>1. j = 1 /\ g[1] = c[1]
          BY <2>2, <4>0, <4>3 DEF Joins
        <5> QED BY <1>6, <4>0, <4>1, <4>2, <5>1
      <4>4. CASE i # 0
        <5>1. i \in 1..n /\ j \in 2..n /\ j - 1 = i
          <6>1. n \in Nat /\ i \in Nat /\ j \in 1..n /\ j = i + 1 /\ i # 0
            BY <1>2, <3>1, <4>0, <4>4
          <6> QED BY <6>1
        <5>2. g[j] = g[i] \o c[j] /\ f[j] = s[1] \o g[i]
          BY <2>2, <3>1, <4>0, <5>1 DEF Joins
        <5>3. PICK u, v, w \in Seq(Cells) : u = s[1] /\ v = g[i] /\ w = c[j]
          BY <1>6, <2>3, <4>0, <5>1
        <5>4. (u \o v) \o w = u \o (v \o w)
          BY GroupedCells
        <5> QED BY <4>0, <4>1, <4>2, <5>2, <5>3, <5>4
      <4> QED BY <4>3, <4>4
    <3>3. i + 1 \in Nat
      BY <3>1
    <3> QED BY <3>2, <3>3
  <2>6. n \in T
    <3>1. T \in SUBSET Nat
      OBVIOUS
    <3> HIDE DEF T
    <3> QED BY <1>2, <2>4, <2>5, <3>1, SetInduction
  <2>7. f[m] = s[1] \o g[n]
    <3>1. n \in 1..n
      BY <1>2, <1>8
    <3>2. f[n + 1] = s[1] \o g[n]
      BY <2>6, <3>1
    <3> QED BY <1>2, <3>2
  <2> QED BY <1>1, <1>4, <1>5, <1>6, <2>2, <2>7
<1> QED BY <1>2, <1>7, <1>8

\* The events of messages.
LEMMA MessagesTyped ==
  ASSUME NEW s \in Seq(Seq(Cells))
  PROVE  EventsOf(FlattenSeq(s)) \in Seq(Nat)
BY FlatIs, EventsAre

LEMMA NoMessages == EventsOf(FlattenSeq(<<>>)) = <<>>
<1>1. <<>> \in Seq(Seq(Cells)) /\ <<>> \in Seq(Cells) /\ Len(<<>>) = 0
  OBVIOUS
<1>2. FlattenSeq(<<>>) = <<>>
  BY <1>1, FlatIs
<1>3. EventsOf(<<>>) = <<>>
  <2>1. PICK c \in Seq(Cells) : c = <<>> /\ Len(c) = 0
    BY <1>1
  <2>2. \A i \in 1..Len(c) : c[i].idx # 1
    BY <2>1
  <2> QED BY <2>1, <2>2, NoEvents
<1> QED BY <1>2, <1>3

\* A message more: its events come after the others.
LEMMA MessageAppended ==
  ASSUME NEW s \in Seq(Seq(Cells)), NEW m \in Seq(Cells)
  PROVE  EventsOf(FlattenSeq(Append(s, m))) = EventsOf(FlattenSeq(s)) \o EventsOf(m)
BY FlatAppended, FlatIs, EventsJoined

\* A message less: its events were the first.
LEMMA MessageTaken ==
  ASSUME NEW s \in Seq(Seq(Cells)), s # <<>>
  PROVE  /\ EventsOf(s[1]) \in Seq(Nat)
         /\ EventsOf(FlattenSeq(s)) = EventsOf(s[1]) \o EventsOf(FlattenSeq(ConsumeFront(s, 1)))
<1>1. PICK m, c : m = s[1] /\ c = ConsumeFront(s, 1)
  OBVIOUS
<1>2. m \in Seq(Cells) /\ c \in Seq(Seq(Cells)) /\ FlattenSeq(s) = m \o FlattenSeq(c)
  BY <1>1, FlatFront
<1>3. FlattenSeq(c) \in Seq(Cells)
  BY <1>2, FlatIs
<1>4. EventsOf(m \o FlattenSeq(c)) = EventsOf(m) \o EventsOf(FlattenSeq(c))
  BY <1>2, <1>3, EventsJoined
<1> QED BY <1>1, <1>2, <1>4, EventsAre

-------------------------------------------------------------------------------
(* The events of a message put together from records                            *)

\* m is the payload of the records that end after q cells: it has their events.
EventsTo(m, q) == /\ m \in Seq(Cells) /\ q \in Nat /\ q <= Len(buf)
                  /\ EventsOf(m) = EventsUpTo(buf, Heads(buf, 0, IN_PROGRESS), q)

LEMMA EventsToMore ==
  ASSUME buf \in Seq(Cells), NEW m, NEW q \in Nat, EventsTo(m, q), NEW v \in Nat, NEW t \in Nat, t > 0,
         NEW s \in Seq(Cells), Part(s, v, t), q + 1 + t <= Len(buf),
         buf[q + 1].ev = v, buf[q + 1].idx = 0, buf[q + 1].total_size # IN_PROGRESS,
         \A j \in 1..t : buf[q + 1 + j].idx > 0
  PROVE  EventsTo(m \o s, q + 1 + t)
<1>1. PICK b, a, w : b = buf /\ w = IN_PROGRESS /\ a = Heads(b, 0, w)
  OBVIOUS
<1>2. b \in Seq(Cells) /\ q + 1 \in 1..Len(b) /\ q + 1 > 0
  BY <1>1
<1>3. q + 1 \in a
  BY <1>1, <1>2, HeadsAre
<1>4. ASSUME NEW j \in 1..t PROVE q + 1 + j \notin a
  <2>1. PICK i \in 1..Len(b) : i = q + 1 + j /\ b[i].idx > 0
    <3>1. q + 1 + j \in 1..Len(buf)
      OBVIOUS
    <3> QED BY <1>1, <3>1
  <2>2. i \notin a
    BY <1>1, <1>2, <2>1, HeadsAre
  <2> QED BY <2>1, <2>2
<1>5. EventsUpTo(b, a, q + 1 + t) = Append(EventsUpTo(b, a, q), b[q + 1].ev)
  BY <1>1, <1>2, <1>3, <1>4, UpToOne
<1>6. EventsOf(s) = <<v>>
  BY PartEvents
<1>7. m \in Seq(Cells) /\ EventsOf(m) = EventsUpTo(b, a, q)
  BY <1>1 DEF EventsTo
<1>8. EventsOf(m \o s) = EventsOf(m) \o <<v>>
  BY <1>6, <1>7, EventsJoined
<1>9. EventsOf(m) \in Seq(Nat)
  BY <1>7, EventsAre
<1>10. EventsOf(m) \o <<v>> = Append(EventsOf(m), v)
  BY <1>9, AppendIsConcat
<1>11. m \o s \in Seq(Cells)
  BY <1>7, ConcatProperties
<1>12. EventsOf(m \o s) = EventsUpTo(b, a, q + 1 + t)
  BY <1>1, <1>5, <1>7, <1>8, <1>10
<1> QED BY <1>1, <1>11, <1>12 DEF EventsTo

\* A record more of a message that has the events up to it: its event too.
LEMMA PieceEvents ==
  ASSUME Typed, NEW p \in Nat, NEW k \in Nat, NEW e \in Nat, NEW n \in Nat, Layout(p, k, e, n),
         NEW rs, Takes(rs), NEW i \in 1..rs.num_events, NEW m, EventsTo(m, Offset[i - 1])
  PROVE  Piece(i) \in Seq(Cells) /\ EventsTo(m \o Piece(i), Offset[i])
<1>0. /\ buf \in Seq(Cells) /\ Len(buf) \in Nat /\ p <= Len(buf) /\ Len(buf) <= build.capacity
      /\ build.capacity \in Nat /\ IN_PROGRESS = build.capacity + 1
  BY TypedFacts DEF Typed, Layout, Records, IN_PROGRESS
<1>1a. PICK v, t, h \in Nat : PieceOf(i, p, v, t, h)
  BY PieceAt
<1>1. /\ t > 0 /\ Piece(i) \in Seq(Cells) /\ Part(Piece(i), v, t)
      /\ Offset[i - 1] \in Nat /\ Offset[i] = Offset[i - 1] + t + 1 /\ Offset[i] <= p
      /\ h = Offset[i - 1] + 1 /\ h \in 1..p /\ buf[h].ev = v /\ buf[h].idx = 0 /\ buf[h].total_size <= p
      /\ h + t <= p /\ \A j \in 1..t : buf[h + j] = Cell(v, j, t)
  BY <1>1a DEF PieceOf
<1>2. PICK q \in Nat : q = Offset[i - 1]
  BY <1>1
<1>3. PICK s \in Seq(Cells) : s = Piece(i)
  BY <1>1
<1>4. h = q + 1 /\ Offset[i] = q + 1 + t /\ q + 1 + t <= Len(buf) /\ EventsTo(m, q)
  <2>1. h = q + 1 /\ Offset[i] = q + 1 + t
    BY <1>1, <1>2
  <2>2. h \in Nat /\ t \in Nat /\ h + t <= p
    BY <1>1
  <2>3. q + 1 + t <= Len(buf)
    <3>1. PICK l \in Nat : l = Len(buf) /\ p <= l
      BY <1>0
    <3> QED BY <2>1, <2>2, <3>1
  <2> QED BY <1>2, <2>1, <2>3
<1>5. buf[q + 1].ev = v /\ buf[q + 1].idx = 0 /\ buf[q + 1].total_size # IN_PROGRESS
  <2>1. h \in 1..Len(buf)
    BY <1>0, <1>1
  <2>2. PICK x \in Nat : x = buf[h].total_size
    BY <1>0, <2>1, CellIs
  <2>3. x # IN_PROGRESS
    <3>1. x <= p
      BY <1>1, <2>2
    <3>2. PICK l, c, w \in Nat : l = Len(buf) /\ c = build.capacity /\ w = IN_PROGRESS /\ w = c + 1 /\ p <= l /\ l <= c
      BY <1>0
    <3> QED BY <3>1, <3>2
  <2> QED BY <1>1, <1>4, <2>2, <2>3
<1>6. ASSUME NEW j \in 1..t PROVE buf[q + 1 + j].idx > 0
  <2>1. buf[h + j] = Cell(v, j, t)
    BY <1>1
  <2>2. buf[h + j].idx = j
    BY <2>1 DEF Cell
  <2> QED BY <1>4, <2>2
<1>7. Part(s, v, t) /\ t > 0
  BY <1>1, <1>3
<1>8. EventsTo(m \o s, q + 1 + t)
  BY <1>0, <1>4, <1>5, <1>6, <1>7, EventsToMore
<1> QED BY <1>3, <1>4, <1>8

LEMMA EventsToNone ==
  ASSUME buf \in Seq(Cells)
  PROVE  EventsTo(<<>>, 0)
<1>1. <<>> \in Seq(Cells) /\ 0 \in Nat /\ 0 <= Len(buf)
  OBVIOUS
<1>2. EventsOf(<<>>) = <<>>
  <2>1. PICK c \in Seq(Cells) : c = <<>> /\ Len(c) = 0
    BY <1>1
  <2>2. \A i \in 1..Len(c) : c[i].idx # 1
    BY <2>1
  <2> QED BY <2>1, <2>2, NoEvents
<1>3. EventsUpTo(buf, Heads(buf, 0, IN_PROGRESS), 0) = <<>>
  BY UpToZero
<1> QED BY <1>1, <1>2, <1>3 DEF EventsTo

\* So it is without the array header.
LEMMA BodyEvents ==
  ASSUME Typed, NEW p \in Nat, NEW k \in Nat, NEW e \in Nat, NEW n \in Nat, Layout(p, k, e, n),
         NEW rs, Takes(rs), rs.num_events > 0
  PROVE  EventsTo(FlattenSeq([i \in 1..rs.num_events |-> Piece(i)]), rs.active_event_read_size)
<1>1. PICK num \in Nat : num = rs.num_events /\ num > 0
  BY TypedFacts DEF Takes
<1>2. PICK s : s = [i \in 1..num |-> Piece(i)]
  OBVIOUS
<1>3. \A i \in 1..num : Piece(i) \in Seq(Cells)
                        /\ \A m : EventsTo(m, Offset[i - 1]) => EventsTo(m \o Piece(i), Offset[i])
  <2>1. ASSUME NEW i \in 1..num PROVE Piece(i) \in Seq(Cells)
    BY <1>1, PieceIs
  <2>2. ASSUME NEW i \in 1..num, NEW m, EventsTo(m, Offset[i - 1]) PROVE EventsTo(m \o Piece(i), Offset[i])
    BY <1>1, <2>2, PieceEvents
  <2> QED BY <2>1, <2>2
<1>4. s \in [1..num -> Seq(Cells)] /\ \A i \in 1..num : s[i] = Piece(i)
  BY <1>2, <1>3
<1>5. PICK f : FlattenSeq(s) = f[num] /\ f[1] = s[1] /\ \A i \in 2..num : f[i] = f[i - 1] \o s[i]
  BY <1>1, <1>4, FlattenIs
<1> DEFINE Ok(i) == i \in 1..num => EventsTo(f[i], Offset[i])
           T == {i \in Nat : Ok(i)}
<1>6. ASSUME NEW i \in Nat, i + 1 \in 1..num, NEW m, EventsTo(m, Offset[i]), f[i + 1] = m \o s[i + 1]
      PROVE  Ok(i + 1)
  <2>1. PICK j \in 1..num : j = i + 1 /\ j - 1 = i
    BY <1>6
  <2>2. EventsTo(m \o Piece(j), Offset[j])
    BY <1>3, <1>6, <2>1
  <2>3. s[j] = Piece(j)
    BY <1>4
  <2> QED BY <1>6, <2>1, <2>2, <2>3
<1>7. 0 \in T
  OBVIOUS
<1>8. ASSUME NEW i \in T PROVE i + 1 \in T
  <2>0. i \in Nat /\ Ok(i)
    OBVIOUS
  <2>1. CASE i + 1 \in 1..num /\ i = 0
    <3>1. Offset[0] = 0
      BY OffsetIs DEF Typed
    <3>2. s[1] \in Seq(Cells)
      BY <1>1, <1>4
    <3>3. f[0 + 1] = <<>> \o s[0 + 1] /\ 0 \in Nat /\ 0 + 1 \in 1..num
      BY <1>1, <1>5, <3>2
    <3>4. EventsTo(<<>>, Offset[0])
      BY <3>1, EventsToNone DEF Typed
    <3> HIDE DEF Ok
    <3>5. Ok(0 + 1)
      BY <1>6, <3>3, <3>4, Zenon
    <3> QED BY <2>1, <3>5
  <2>2. CASE i + 1 \in 1..num /\ i > 0
    <3>1. i \in 1..num /\ i + 1 \in 2..num /\ (i + 1) - 1 = i
      BY <1>1, <2>0, <2>2
    <3>2. EventsTo(f[i], Offset[i])
      BY <2>0, <3>1
    <3>3. f[i + 1] = f[i] \o s[i + 1]
      BY <1>5, <3>1
    <3> HIDE DEF Ok
    <3>4. Ok(i + 1)
      BY <1>6, <2>0, <2>2, <3>2, <3>3
    <3> QED BY <2>0, <3>4
  <2>3. CASE i + 1 \notin 1..num
    BY <2>0, <2>3
  <2>4. i = 0 \/ i > 0
    BY <2>0
  <2> HIDE DEF T
  <2> QED BY <2>1, <2>2, <2>3, <2>4
<1>9. num \in T
  <2> HIDE DEF Ok
  <2>1. T \in SUBSET Nat
    OBVIOUS
  <2> HIDE DEF T
  <2> QED BY <1>1, <1>7, <1>8, <2>1, SetInduction
<1>10. EventsTo(f[num], Offset[num])
  BY <1>1, <1>9
<1>11. rs.active_event_read_size = Offset[num]
  BY <1>1 DEF Takes
<1> HIDE DEF T, Ok
<1> QED BY <1>1, <1>2, <1>5, <1>10, <1>11

\* A message has the events of the records it was put together from, in their order.
LEMMA MessageEvents ==
  ASSUME Typed, NEW p \in Nat, NEW k \in Nat, NEW e \in Nat, NEW n \in Nat, Layout(p, k, e, n),
         NEW rs, Takes(rs), rs.num_events > 0
  PROVE  EventsTo(Message(rs), rs.active_event_read_size)
<1>1. PICK num \in Nat : num = rs.num_events /\ num > 0
  BY TypedFacts DEF Takes
<1>2. PICK m : m = FlattenSeq([i \in 1..num |-> Piece(i)])
  OBVIOUS
<1>3. PICK a : a = rs.active_event_read_size
  OBVIOUS
<1>4. EventsTo(m, a) /\ m \in Seq(Cells)
  BY <1>1, <1>2, <1>3, BodyEvents DEF EventsTo
<1>5. CASE num > 1
  <2>1. rs.header_length = 1
    BY <1>1, <1>5 DEF Takes
  <2>2. PICK h : h = ArrayHeader(num)
    OBVIOUS
  <2>3. h \in Cells /\ h.idx = 0
    BY <2>2, CellTyped DEF ArrayHeader
  <2>4. PICK c \in Seq(Cells) : c = <<h>> /\ Len(c) = 1 /\ c[1] = h
    <3>1. <<h>> \in Seq(Cells) /\ Len(<<h>>) = 1 /\ <<h>>[1] = h
      BY <2>3
    <3> QED BY <3>1
  <2>5. Message(rs) = c \o m
    BY <1>1, <1>2, <2>1, <2>2, <2>4 DEF Message, Piece
  <2>6. EventsOf(c) = <<>>
    <3>1. \A i \in 1..Len(c) : c[i].idx # 1
      BY <2>3, <2>4
    <3> QED BY <3>1, NoEvents
  <2>7. EventsOf(c \o m) = <<>> \o EventsOf(m) /\ EventsOf(m) \in Seq(Nat)
    BY <1>4, <2>6, EventsJoined, EventsAre
  <2>8. EventsOf(c \o m) = EventsOf(m)
    <3>1. PICK u \in Seq(Nat) : u = EventsOf(m)
      BY <2>7
    <3>2. <<>> \o u = u
      BY ConcatEmptySeq
    <3> QED BY <2>7, <3>1, <3>2
  <2>9. c \o m \in Seq(Cells)
    BY <1>4, ConcatProperties
  <2> QED BY <1>3, <1>4, <2>5, <2>8, <2>9 DEF EventsTo
<1>6. CASE ~(num > 1)
  <2>1. rs.header_length = 0 /\ num = 1
    BY <1>1, <1>6 DEF Takes
  <2>2. Message(rs) = m
    <3>1. <<>> \o m = m
      BY <1>4
    <3> QED BY <1>1, <1>2, <2>1, <3>1 DEF Message, Piece
  <2> QED BY <1>3, <1>4, <2>2
<1> QED BY <1>5, <1>6

-------------------------------------------------------------------------------
(* What is queued and what was sent                                             *)

Waiting == EventsOf(FlattenSeq(nv)) \o RamEvents
Sent == EventsOf(FlattenSeq(delivered))
Lost == reboots + nv_enabled.changes

\* The abstract steps: nothing happens, an event is committed, the oldest are sent or lost, the newest are
\* saved, and are lost or come back as they were saved.
Same == Waiting' = Waiting /\ Sent' = Sent /\ Lost' = Lost
Gains(e) == Waiting' = Append(Waiting, e) /\ Sent' = Sent /\ Lost' = Lost
Sends(k) == /\ Sent' = Sent \o SubSeq(Waiting, 1, k) /\ Waiting' = SubSeq(Waiting, k + 1, Len(Waiting))
            /\ Lost' = Lost
Forgets(k) == Waiting' = SubSeq(Waiting, 1, k) /\ Sent' = Sent /\ Lost' = Lost + 1
Drops(k) == Waiting' = SubSeq(Waiting, k + 1, Len(Waiting)) /\ Sent' = Sent /\ Lost' = Lost + 1
Moves == \/ Same
         \/ \E k \in 0..Len(Waiting) : Sends(k) \/ Drops(k)
Saves(k) == Same /\ SavedEvents' = SubSeq(Waiting, k + 1, Len(Waiting))
Wakes(k) == Waiting' = SubSeq(Waiting, 1, k) \o SavedEvents /\ Sent' = Sent /\ Lost' = Lost + 1
Restarts == SavedEvents' = <<>> /\ \E k \in 0..Len(Waiting) : Forgets(k) \/ Wakes(k)

\* Events are numbered in the order of calls: what is queued or sent was begun, and what is being recorded is new.
Known == ToSet(Waiting \o Sent)
Owns(w) == pc[w] \in Recording \ {"reset_state"}
SavedNumbered == ToSet(SavedEvents) \subseteq 1..events
Numbered == /\ events <= build.max_events
            /\ Known \subseteq 1..events
            /\ \A w \in Writer : Owns(w) => enc[w].ev \in (1..events) \ Known

LEMMA MembersJoined ==
  ASSUME NEW u \in Seq(Nat), NEW v \in Seq(Nat)
  PROVE  ToSet(u \o v) = ToSet(u) \cup ToSet(v)
<1>1. PICK c, l, n : c = u \o v /\ l = Len(u) /\ n = Len(v)
  OBVIOUS
<1>2. /\ c \in Seq(Nat) /\ l \in Nat /\ n \in Nat /\ Len(c) = l + n
      /\ \A i \in 1..(l + n) : c[i] = IF i <= l THEN u[i] ELSE v[i - l]
  BY <1>1, ConcatProperties
<1>3. /\ \A i \in 1..l : i \in 1..(l + n) /\ c[i] = u[i]
      /\ \A i \in 1..n : l + i \in 1..(l + n) /\ c[l + i] = v[i]
  <2>1. \A i \in 1..l : i \in 1..(l + n) /\ i <= l
    BY <1>2
  <2>2. ASSUME NEW i \in 1..n PROVE l + i \in 1..(l + n) /\ c[l + i] = v[i]
    <3>1. l + i \in 1..(l + n) /\ ~(l + i <= l) /\ (l + i) - l = i
      BY <1>2
    <3> QED BY <1>2, <3>1
  <2> QED BY <1>2, <2>1, <2>2
<1>4. \A i \in 1..(l + n) : i \in 1..l \/ \E j \in 1..n : i = l + j
  <2>1. ASSUME NEW i \in 1..(l + n), i \notin 1..l PROVE \E j \in 1..n : i = l + j
    <3>1. i - l \in 1..n /\ i = l + (i - l)
      BY <1>2, <2>1
    <3> QED BY <3>1
  <2> QED BY <2>1
<1>5. /\ ToSet(c) = {c[i] : i \in 1..(l + n)} /\ ToSet(u) = {u[i] : i \in 1..l} /\ ToSet(v) = {v[i] : i \in 1..n}
  <2>1. DOMAIN c = 1..(l + n) /\ DOMAIN u = 1..l /\ DOMAIN v = 1..n
    BY <1>1, <1>2
  <2> QED BY <2>1, Zenon DEF ToSet
<1>6. ASSUME NEW x \in ToSet(c) PROVE x \in ToSet(u) \cup ToSet(v)
  <2>1. PICK i \in 1..(l + n) : x = c[i]
    BY <1>5
  <2>2. CASE i \in 1..l
    BY <1>3, <1>5, <2>1, <2>2
  <2>3. CASE \E j \in 1..n : i = l + j
    BY <1>3, <1>5, <2>1, <2>3
  <2> QED BY <1>4, <2>2, <2>3
<1>7. ToSet(u) \subseteq ToSet(c) /\ ToSet(v) \subseteq ToSet(c)
  BY <1>3, <1>5
<1> QED BY <1>1, <1>6, <1>7

LEMMA MembersOfOne ==
  ASSUME NEW e \in Nat
  PROVE  ToSet(<<e>>) = {e} /\ <<e>> \in Seq(Nat)
  BY DEF ToSet

\* u is cut from the front of u \o v.
LEMMA FrontCut ==
  ASSUME NEW u \in Seq(Nat), NEW v \in Seq(Nat)
  PROVE  LET c == u \o v IN /\ Len(u) \in 0..Len(c) /\ SubSeq(c, 1, Len(u)) = u
                            /\ SubSeq(c, Len(u) + 1, Len(c)) = v
<1>1. Len(u \o v) = Len(u) + Len(v) /\ Len(u) \in Nat /\ Len(v) \in Nat
  BY ConcatProperties
<1> QED BY <1>1, SubSeqOfConcat1, SubSeqOfConcat2, SubSeqFull

LEMMA CutMembers ==
  ASSUME NEW c \in Seq(Nat), NEW k \in 0..Len(c)
  PROVE  \E u, v \in Seq(Nat) : u = SubSeq(c, 1, k) /\ v = SubSeq(c, k + 1, Len(c)) /\ c = u \o v
<1>1. PICK u, v, l : u = SubSeq(c, 1, k) /\ v = SubSeq(c, k + 1, Len(c)) /\ l = Len(c)
  OBVIOUS
<1>2. l \in Nat /\ k \in Nat /\ k <= l
  BY <1>1
<1>3. u \in Seq(Nat) /\ Len(u) = k /\ \A i \in 1..k : u[i] = c[i]
  BY <1>1, <1>2
<1>4. v \in Seq(Nat) /\ Len(v) = l - k /\ \A i \in 1..(l - k) : v[i] = c[k + i]
  <2>1. /\ v \in Seq(Nat) /\ Len(v) = (IF k + 1 <= l THEN l - (k + 1) + 1 ELSE 0)
        /\ \A i \in 1..(l - (k + 1) + 1) : v[i] = c[(k + 1) + i - 1]
    <3>1. PICK a \in Int : a = k + 1
      BY <1>2
    <3>2. l \in Int /\ \A i \in a..l : c[i] \in Nat
      BY <1>1, <1>2, <3>1
    <3>3. v = SubSeq(c, a, l)
      BY <1>1, <3>1
    <3> QED BY <3>1, <3>2, <3>3, SubSeqProperties
  <2>2. l - (k + 1) + 1 = l - k /\ \A i \in 1..(l - k) : (k + 1) + i - 1 = k + i
    BY <1>2
  <2>3. Len(v) = l - k
    BY <1>2, <2>1
  <2> QED BY <2>1, <2>2, <2>3
<1>5. PICK d : d = u \o v
  OBVIOUS
<1>6. d \in Seq(Nat) /\ Len(d) = l /\ \A i \in 1..l : d[i] = c[i]
  <2>1. /\ d \in Seq(Nat) /\ Len(d) = k + (l - k)
        /\ \A i \in 1..(k + (l - k)) : d[i] = IF i <= k THEN u[i] ELSE v[i - k]
    <3>1. /\ u \o v \in Seq(Nat) /\ Len(u \o v) = Len(u) + Len(v)
          /\ \A i \in 1..(Len(u) + Len(v)) : (u \o v)[i] = IF i <= Len(u) THEN u[i] ELSE v[i - Len(u)]
      BY <1>3, <1>4, ConcatProperties
    <3> QED BY <1>3, <1>4, <1>5, <3>1
  <2>2. ASSUME NEW i \in 1..l PROVE d[i] = c[i]
    <3>1. CASE i <= k
      BY <1>2, <1>3, <2>1, <3>1
    <3>2. CASE ~(i <= k)
      <4>1. PICK j : j = i - k
        OBVIOUS
      <4>2. j \in 1..(l - k) /\ k + j = i /\ i \in 1..(k + (l - k))
        BY <1>2, <3>2, <4>1
      <4>3. d[i] = v[j]
        BY <2>1, <3>2, <4>1, <4>2
      <4>4. v[j] = c[k + j]
        BY <1>4, <4>2
      <4> QED BY <4>2, <4>3, <4>4
    <3> QED BY <3>1, <3>2
  <2> QED BY <1>2, <2>1, <2>2
<1>7. d = c
  BY <1>1, <1>6, SeqEqual
<1> QED BY <1>1, <1>3, <1>4, <1>5, <1>7

RamLaw == RamEvents = Kept(buf, Copied, IN_PROGRESS)
\* The events in RAM, as the lemmas on cells speak of them.
LEMMA RamIs == RamLaw
<1>1. Heads(buf, Copied, IN_PROGRESS) = CommittedFrom(Copied)
  BY DEF Heads, CommittedFrom, Committed, IsPayload
<1> QED BY <1>1 DEF RamLaw, RamEvents, Kept
LEMMA RamAlways == []RamLaw
BY RamIs, PTL

ListedLaw == IInv /\ MInv => /\ EventsOf(FlattenSeq(nv)) \in Seq(Nat) /\ RamEvents \in Seq(Nat)
                             /\ Waiting \in Seq(Nat) /\ Sent \in Seq(Nat)
LEMMA ListedIs == ListedLaw
<1> SUFFICES ASSUME IInv, MInv
             PROVE  /\ EventsOf(FlattenSeq(nv)) \in Seq(Nat) /\ RamEvents \in Seq(Nat)
                    /\ Waiting \in Seq(Nat) /\ Sent \in Seq(Nat)
  BY DEF ListedLaw
<1>1. nv \in Seq(Seq(Cells)) /\ delivered \in Seq(Seq(Cells)) /\ buf \in Seq(Cells)
  BY DEF IInv, MInv, Contents, Typed
<1>2. EventsOf(FlattenSeq(nv)) \in Seq(Nat) /\ EventsOf(FlattenSeq(delivered)) \in Seq(Nat)
  BY <1>1, MessagesTyped
<1>3. RamEvents \in Seq(Nat)
  BY <1>1, RamIs, KeptTyped DEF RamLaw
<1>4. EventsOf(FlattenSeq(nv)) \o RamEvents \in Seq(Nat)
  BY <1>2, <1>3, ConcatProperties
<1> QED BY <1>2, <1>3, <1>4 DEF Waiting, Sent
LEMMA ListedAlways == []ListedLaw
BY ListedIs, PTL

LEMMA Listed ==
  ASSUME IInv, MInv
  PROVE  /\ EventsOf(FlattenSeq(nv)) \in Seq(Nat) /\ RamEvents \in Seq(Nat)
         /\ Waiting \in Seq(Nat) /\ Sent \in Seq(Nat)
BY ListedIs DEF ListedLaw

LEMMA ListedThen ==
  ASSUME IInv', MInv'
  PROVE  Waiting' \in Seq(Nat) /\ Sent' \in Seq(Nat)
<1>1. ListedLaw'
  BY ListedAlways, PTL
<1> QED BY <1>1 DEF ListedLaw

SavedLaw == SavedWell => /\ SavedEvents = Kept(backup.buf, 0, IN_PROGRESS)
                         /\ SavedEvents \in Seq(Nat)
\* The events in the copy, as the lemmas on cells speak of them.
LEMMA SavedIs == SavedLaw
<1> SUFFICES ASSUME SavedWell
             PROVE  /\ SavedEvents = Kept(backup.buf, 0, IN_PROGRESS)
                    /\ SavedEvents \in Seq(Nat)
  BY DEF SavedLaw
<1>1. backup.buf \in Seq(Cells)
  BY DEF SavedWell
<1>2. DOMAIN backup.buf = 1..Len(backup.buf)
  BY <1>1
<1>3. Heads(backup.buf, 0, IN_PROGRESS) = {i \in DOMAIN backup.buf : /\ ~IsPayload(backup.buf[i])
                                                                  /\ backup.buf[i].total_size # IN_PROGRESS}
  <2> DEFINE b == backup.buf
  <2>1. \A i \in DOMAIN b : i > 0
    BY <1>1, <1>2
  <2> HIDE DEF b
  <2> QED BY <2>1 DEF Heads, IsPayload, b
<1>4. SavedEvents = Kept(backup.buf, 0, IN_PROGRESS)
  BY <1>3 DEF SavedEvents, Kept
<1> QED BY <1>1, <1>4, KeptTyped
LEMMA SavedAlways == []SavedLaw
BY SavedIs, PTL

LEMMA SavedThen ==
  ASSUME SavedWell'
  PROVE  SavedEvents' = Kept(backup'.buf, 0, IN_PROGRESS')
<1>1. SavedLaw'
  BY SavedAlways, PTL
<1> QED BY <1>1 DEF SavedLaw

LEMMA RamThen == RamEvents' = Kept(buf', Copied', IN_PROGRESS')
<1>1. RamLaw'
  BY RamAlways, PTL
<1> QED BY <1>1 DEF RamLaw

-------------------------------------------------------------------------------
(* Steps of the queue                                                           *)

\* Nothing becomes known when events are sent or lost.
LEMMA MovesKeep ==
  ASSUME IInv, MInv, Moves
  PROVE  Known' \subseteq Known
<1>1. Waiting \in Seq(Nat) /\ Sent \in Seq(Nat)
  BY Listed
<1>2. PICK q, s : q = Waiting /\ s = Sent
  OBVIOUS
<1>3. Known = ToSet(q) \cup ToSet(s)
  BY <1>1, <1>2, MembersJoined DEF Known
<1>4. CASE Same
  BY <1>4 DEF Same, Known
<1>5. ASSUME NEW k \in 0..Len(Waiting), Sends(k) \/ Drops(k)
      PROVE  Known' \subseteq Known
  <2>1. PICK u, v \in Seq(Nat) : u = SubSeq(q, 1, k) /\ v = SubSeq(q, k + 1, Len(q)) /\ q = u \o v
    BY <1>1, <1>2, CutMembers
  <2>2. ToSet(q) = ToSet(u) \cup ToSet(v)
    BY <2>1, MembersJoined
  <2>3. CASE Sends(k)
    <3>1. Waiting' = v /\ Sent' = s \o u
      BY <1>2, <2>1, <2>3 DEF Sends
    <3>2. s \o u \in Seq(Nat) /\ ToSet(s \o u) = ToSet(s) \cup ToSet(u)
      BY <1>1, <1>2, <2>1, MembersJoined, ConcatProperties
    <3>3. Known' = ToSet(v \o (s \o u))
      BY <3>1 DEF Known
    <3>4. ToSet(v \o (s \o u)) = ToSet(v) \cup ToSet(s \o u)
      BY <2>1, <3>2, MembersJoined
    <3> QED BY <1>3, <2>2, <3>2, <3>3, <3>4
  <2>4. ASSUME NEW z \in {u, v}, Waiting' = z, Sent' = s PROVE Known' \subseteq Known
    <3>1. Known' = ToSet(z \o s)
      BY <2>4 DEF Known
    <3>2. ToSet(z \o s) = ToSet(z) \cup ToSet(s)
      BY <1>1, <1>2, <2>1, MembersJoined
    <3> QED BY <1>3, <2>2, <3>1, <3>2
  <2>5. CASE Drops(k)
    BY <1>2, <2>1, <2>4, <2>5 DEF Drops
  <2> QED BY <1>5, <2>3, <2>5
<1> QED BY <1>4, <1>5 DEF Moves

LEMMA GainKeeps ==
  ASSUME IInv, MInv, NEW e \in Nat, Gains(e)
  PROVE  Known' = Known \cup {e}
<1>1. Waiting \in Seq(Nat) /\ Sent \in Seq(Nat)
  BY Listed
<1>2. PICK q, s \in Seq(Nat) : q = Waiting /\ s = Sent
  BY <1>1
<1>3. PICK d \in Seq(Nat) : d = <<e>> /\ ToSet(d) = {e}
  BY MembersOfOne
<1>4. Append(q, e) = q \o d /\ q \o d \in Seq(Nat)
  BY <1>3, AppendIsConcat, ConcatProperties
<1>5. ToSet(q \o d) = ToSet(q) \cup {e}
  <2>1. ToSet(q \o d) = ToSet(q) \cup ToSet(d)
    BY <1>2, <1>3, MembersJoined
  <2> QED BY <1>3, <2>1
<1>6. ToSet((q \o d) \o s) = ToSet(q \o d) \cup ToSet(s) /\ ToSet(q \o s) = ToSet(q) \cup ToSet(s)
  BY <1>4, MembersJoined
<1>7. Known' = ToSet((q \o d) \o s) /\ Known = ToSet(q \o s)
  BY <1>2, <1>4 DEF Known, Gains
<1> QED BY <1>5, <1>6, <1>7

\* Steps that commit nothing, a commit, and the beginning of a call.
LEMMA NumberedMoved ==
  ASSUME IInv, MInv, Numbered, Moves, UNCHANGED <<build, events>>,
         \A w \in Writer : Owns(w)' => Owns(w) /\ enc'[w].ev = enc[w].ev
  PROVE  Numbered'
BY MovesKeep DEF Numbered

LEMMA NumberedGained ==
  ASSUME IInv, MInv, Numbered, NEW w \in Writer, Owns(w), Gains(enc[w].ev), UNCHANGED <<build, events>>,
         \A v \in Writer : ~Owns(v)'
  PROVE  Numbered'
<1>1. enc[w].ev \in Nat /\ Known' = Known \cup {enc[w].ev}
  BY EncodingIs, GainKeeps DEF IInv
<1> QED BY <1>1 DEF Numbered

LEMMA NumberedBegun ==
  ASSUME IInv, MInv, Numbered, NEW w \in Writer, Same, build' = build, events < build.max_events, events' = events + 1,
         enc'[w].ev = events', build.max_events \in Nat, \A v \in Writer \ {w} : ~Owns(v)'
  PROVE  Numbered'
<1>1. PICK x \in Nat : x = events
  BY DEF IInv, Typed
<1>2. Known' = Known /\ Known \subseteq 1..x
  BY <1>1 DEF Same, Known, Numbered
<1>3. 1..x \subseteq 1..(x + 1) /\ x + 1 \in 1..(x + 1) /\ x + 1 \notin 1..x /\ x + 1 <= build.max_events
  BY <1>1
<1> QED BY <1>1, <1>2, <1>3 DEF Numbered

-------------------------------------------------------------------------------
(* Copies of what a persist has stored                                          *)

Marker(t) == ret[t] = "persist" /\ pc[t] \in {"mark", "mark_consume"}
Marks == \E t \in Task : Marker(t)

LEMMA CopiedIs == Copied = IF Marks THEN read_state.active_event_read_size ELSE 0
BY DEF Copied, Marks, Marker

LEMMA CopiedThen == Copied' = IF Marks' THEN read_state'.active_event_read_size ELSE 0
BY DEF Copied, Marks, Marker

\* A step of t in which the others stay.
Elsewhere(t) == \A u \in Task \ {t} : pc'[u] = pc[u] /\ ret'[u] = ret[u]

\* What is copied stays when the task that moves, if it marks a message, goes on marking it.
LEMMA CopiedSame ==
  ASSUME NEW t \in Task, Elsewhere(t), Marker(t)' <=> Marker(t), Marks => read_state' = read_state
  PROVE  Copied' = Copied
<1>1. Marks' <=> Marks
  BY DEF Elsewhere, Marks, Marker
<1> QED BY <1>1, CopiedIs, CopiedThen

\* Nothing queued or sent changes.
LEMMA Idles ==
  ASSUME Copied' = Copied, UNCHANGED <<build, buf, nv, delivered, reboots>>, nv_enabled'.changes = nv_enabled.changes
  PROVE  Same
<1>1. IN_PROGRESS' = IN_PROGRESS
  BY DEF IN_PROGRESS
<1>2. RamEvents' = RamEvents
  BY <1>1, RamIs, RamThen DEF RamLaw
<1>3. EventsOf(FlattenSeq(nv))' = EventsOf(FlattenSeq(nv)) /\ Sent' = Sent
  BY Zenon DEF Sent
<1> QED BY <1>2, <1>3 DEF Same, Waiting, Lost

-------------------------------------------------------------------------------
(* The events while a task records                                              *)

\* A task that records leaves alone all that the queue is made of, but the buffer.
LEMMA RecordingCopies ==
  ASSUME IInv, NEW w \in Writer, encode_to_storage(w) \/ EncodeStep(w)
  PROVE  /\ Copied' = Copied /\ UNCHANGED <<build, nv, delivered, reboots, nv_enabled>> /\ IN_PROGRESS' = IN_PROGRESS
         /\ \A u \in Task \ {w} : pc'[u] = pc[u]
<1>0. w \in Task
  BY TasksAre
<1>1. /\ Turn(w) /\ UNCHANGED <<build, nv_enabled, read_state, nv, delivered>>
      /\ pc'[w] \in Recording \cup {"idle", "callback"}
  BY RecordingTurn
<1>2. pc[w] \in Recording \cup {"idle"} /\ reboots' = reboots
  BY Zenon DEF EncodeStep, encode_to_storage, begin_write, write_header, set_write_state, get_write_size, append_data,
         count_bytes, finish_write, commit_or_rollback, reset_write_state, counters, At, Recording
<1>3. ~Marker(w) /\ ~Marker(w)'
  BY <1>1, <1>2 DEF Marker, Recording
<1>4. Copied' = Copied
  BY <1>0, <1>1, <1>3, CopiedSame DEF Elsewhere, Turn
<1> QED BY <1>1, <1>2, <1>4 DEF IN_PROGRESS, Turn

\* It changes the queue only with the events committed in the buffer.
LEMMA RecordingIdles ==
  ASSUME IInv, NEW w \in Writer, encode_to_storage(w) \/ EncodeStep(w),
         Kept(buf', Copied, IN_PROGRESS) = Kept(buf, Copied, IN_PROGRESS)
  PROVE  Same
<1>1. /\ Copied' = Copied /\ UNCHANGED <<build, nv, delivered, reboots, nv_enabled>> /\ IN_PROGRESS' = IN_PROGRESS
  BY RecordingCopies
<1>2. RamEvents' = RamEvents
  BY <1>1, RamIs, RamThen DEF RamLaw
<1> QED BY <1>1, <1>2 DEF Same, Waiting, Sent, Lost

\* Cells of the record being written add nothing.
LEMMA OpenIs ==
  ASSUME buf \in Seq(Cells), NEW p \in Nat, NEW k \in Nat, NEW e \in Nat, NEW n \in Nat, OpenAt(buf, p, k, e, n)
  PROVE  Unheaded(buf, p, IN_PROGRESS)
<1>1. p + k = Len(buf)
  BY DEF OpenAt
<1>2. ASSUME NEW i \in (p + 1)..Len(buf) PROVE buf[i].idx > 0 \/ buf[i].total_size = IN_PROGRESS
  <2>1. CASE i = p + 1
    <3>1. buf[i] = Cell(e, 0, IN_PROGRESS)
      BY <1>1, <2>1 DEF OpenAt
    <3> QED BY <3>1 DEF Cell
  <2>2. CASE i # p + 1
    <3>1. PICK j \in 1..(k - 1) : i = p + 1 + j
      <4>1. i - (p + 1) \in 1..(k - 1) /\ i = p + 1 + (i - (p + 1))
        BY <1>1, <2>2
      <4> QED BY <4>1
    <3>2. buf[i] = Cell(e, j, n)
      BY <3>1 DEF OpenAt
    <3> QED BY <3>2 DEF Cell
  <2> QED BY <2>1, <2>2
<1> QED BY <1>2 DEF Unheaded

\* It does not while it writes a header or payload.
LEMMA AppendIdles ==
  ASSUME IInv, NEW w \in Writer, write_header(w) \/ append_data(w)
  PROVE  Same
<1>0. Typed /\ buf \in Seq(Cells) /\ EncodeStep(w) /\ build.capacity \in Nat
  BY TypedFacts DEF IInv, Typed, EncodeStep
<1>1. enc[w].ev \in Nat /\ enc[w].n \in Nat /\ enc[w].done \in Nat
  BY <1>0, EncodingIs
<1>2. buf' = buf \/ \E c \in Cells : buf' = Append(buf, c) /\ (c.idx > 0 \/ c.total_size = IN_PROGRESS)
  <2>1. CASE write_header(w)
    <3>1. PICK c : c = Header(enc[w].ev, IN_PROGRESS)
      OBVIOUS
    <3>2. IN_PROGRESS \in Nat
      BY <1>0 DEF IN_PROGRESS
    <3>3. c \in Cells /\ c.total_size = IN_PROGRESS
      <4>1. PICK e, x \in Nat : e = enc[w].ev /\ x = IN_PROGRESS
        BY <1>1, <3>2
      <4>2. c = Cell(e, 0, x)
        BY <3>1, <4>1 DEF Header
      <4> QED BY <4>1, <4>2, CellTyped
    <3>4. buf' = buf \/ buf' = Append(buf, c)
      BY <2>1, <3>1 DEF write_header
    <3> QED BY <3>3, <3>4
  <2>2. CASE append_data(w)
    <3>1. PICK d \in Nat : d = enc[w].done
      BY <1>1
    <3>2. enc' = [enc EXCEPT ![w].done = d + 1]
      BY <2>2, <3>1 DEF append_data
    <3>3. enc'[w].done = d + 1
      <4>1. PICK x \in Nat : x = d + 1
        OBVIOUS
      <4>2. enc' = [enc EXCEPT ![w].done = x]
        BY <3>2, <4>1
      <4>3. enc'[w].done = x
        BY <1>0, <4>2, DoneIs
      <4> QED BY <4>1, <4>3
    <3>4. PICK c : c = Payload(enc[w].ev, d + 1, enc[w].n)
      OBVIOUS
    <3>5. c \in Cells /\ c.idx = d + 1
      <4>0. PICK e \in Nat, n \in Nat : e = enc[w].ev /\ n = enc[w].n
        BY <1>1
      <4>1. PICK x \in Nat : x = d + 1
        OBVIOUS
      <4>2. c = Cell(e, x, n)
        BY <3>4, <4>0, <4>1 DEF Payload
      <4>3. c \in Cells /\ c.idx = x
        BY <4>2, CellTyped
      <4> QED BY <4>1, <4>3
    <3>6. buf' = buf \/ buf' = Append(buf, c)
      BY <2>2, <3>3, <3>4 DEF append_data
    <3> QED BY <3>5, <3>6
  <2> QED BY <2>1, <2>2
<1>3. CASE buf' = buf
  BY <1>0, <1>3, RecordingIdles
<1>4. ASSUME NEW c \in Cells, buf' = Append(buf, c), c.idx > 0 \/ c.total_size = IN_PROGRESS
      PROVE  Same
  <2>1. Kept(buf', Copied, IN_PROGRESS) = Kept(buf, Copied, IN_PROGRESS)
    BY <1>0, <1>4, KeptAppended
  <2> QED BY <1>0, <2>1, RecordingIdles
<1> QED BY <1>2, <1>3, <1>4

\* What a persist has copied is committed.
LEMMA CopiedWithin ==
  ASSUME IInv, MInv, NEW p \in Nat, NEW k \in Nat, NEW e \in Nat, NEW n \in Nat, Layout(p, k, e, n)
  PROVE  Copied \in Nat /\ Copied <= p
<1>1. Typed /\ Takes(read_state)
  BY DEF IInv, MInv
<1>2. read_state.active_event_read_size \in Nat /\ read_state.active_event_read_size <= p
  BY <1>1, TakenWithin
<1> QED BY <1>2, CopiedIs

\* A commit adds the event at the end; a record that did not fit leaves everything as it was.
LEMMA CommitGains ==
  ASSUME IInv, MInv, NEW w \in Writer, commit_or_rollback(w)
  PROVE  Same \/ Gains(enc[w].ev)
<1>0. /\ Typed /\ Recorded /\ buf \in Seq(Cells) /\ Len(buf) \in Nat /\ EncodeStep(w)
      /\ pc[w] = "commit" /\ pc[w] \in Recording /\ UNCHANGED <<build, read_state>>
      /\ build.capacity \in Nat /\ Len(buf) <= build.capacity /\ IN_PROGRESS = build.capacity + 1
  BY TypedFacts DEF IInv, Typed, EncodeStep, commit_or_rollback, At, Recording, platform, IN_PROGRESS
<1>1. Working(w)
  BY <1>0, TheWriter
<1>2. PICK p, k, e, n \in Nat : /\ p = Len(buf) - Pending(w) /\ k = Pending(w)
                                /\ e = enc[w].ev /\ n = enc[w].n /\ Layout(p, k, e, n)
  BY <1>0, <1>1, WorkIs
<1>3. PICK d \in Nat : d = enc[w].done
  BY <1>0, EncodingIs
<1>4. /\ write_state.bytes_written = k /\ k = 1 + d /\ d <= n /\ n > 0 /\ (enc[w].rollback <=> d < n)
  BY <1>0, <1>1, <1>2, <1>3 DEF Working, Stage, Pending
<1>5. OpenAt(buf, p, k, e, n) /\ p + k = Len(buf)
  BY <1>2 DEF Layout, OpenAt
<1>6. PICK b, w0, x : b = buf /\ w0 = IN_PROGRESS /\ x = Copied
  OBVIOUS
<1>7. Unheaded(b, p, w0) /\ x \in Nat /\ x <= p /\ p <= Len(b) /\ b \in Seq(Cells) /\ p < Len(b)
  <2>1. Unheaded(buf, p, IN_PROGRESS)
    BY <1>0, <1>5, OpenIs
  <2>2. Copied \in Nat /\ Copied <= p
    BY <1>2, CopiedWithin
  <2>3. p < Len(buf)
    BY <1>4, <1>5
  <2>4. p <= Len(buf)
    BY <1>0, <2>3
  <2> QED BY <1>0, <1>6, <2>1, <2>2, <2>3, <2>4
<1>8. CASE enc[w].rollback
  <2>1. buf' = ConsumeEnd(buf, k)
    BY <1>4, <1>8 DEF commit_or_rollback
  <2>2. PICK c : c = buf' /\ c = SubSeq(b, 1, p)
    <3>1. k <= Len(buf) /\ Len(buf) - k = p
      BY <1>5
    <3> QED BY <1>6, <2>1, <3>1 DEF ConsumeEnd
  <2>3. c \in Seq(Cells) /\ Len(c) = p /\ \A i \in 1..p : c[i] = b[i]
    BY <1>7, <2>2
  <2>4. Kept(c, x, w0) = Kept(b, x, w0)
    BY <1>7, <2>3, KeptCut
  <2>5. Kept(buf', Copied, IN_PROGRESS) = Kept(buf, Copied, IN_PROGRESS)
    BY <1>6, <2>2, <2>4
  <2> QED BY <1>0, <2>5, RecordingIdles
<1>9. CASE ~enc[w].rollback
  <2>1. n = k - 1 /\ k > 1
    BY <1>4, <1>9
  <2>2. PICK h : h = Cell(e, 0, k)
    OBVIOUS
  <2>3. h \in Cells
    BY <2>2, CellTyped
  <2>4. buf' = WriteAtOffset(buf, h, k)
    BY <1>2, <1>4, <1>9, <2>2 DEF commit_or_rollback, Header
  <2>5. k \in 1..Len(buf) /\ Len(buf) - k + 1 = p + 1 /\ p + 1 \in 1..Len(buf)
    BY <1>0, <1>5, <2>1
  <2>6. PICK c : c = buf' /\ c = [b EXCEPT ![p + 1] = h]
    BY <1>6, <2>4, <2>5 DEF WriteAtOffset, ReplaceAt
  <2>7. /\ c \in Seq(Cells) /\ Len(c) = Len(b) /\ c[p + 1] = h /\ \A i \in 1..Len(b) : i # p + 1 => c[i] = b[i]
    BY <1>6, <1>7, <2>3, <2>5, <2>6
  <2>8. \A i \in 1..p : c[i] = b[i]
    <3>1. \A i \in 1..p : i \in 1..Len(b) /\ i # p + 1
      BY <1>7
    <3> QED BY <2>7, <3>1
  <2>9. Unheaded(c, p + 1, w0)
    <3>1. ASSUME NEW i \in ((p + 1) + 1)..Len(c) PROVE c[i].idx > 0 \/ c[i].total_size = w0
      <4>1. i \in (p + 1)..Len(b) /\ i \in 1..Len(b) /\ i # p + 1
        BY <1>7, <2>7
      <4> QED BY <1>7, <2>7, <4>1 DEF Unheaded
    <3> QED BY <3>1 DEF Unheaded
  <2>10. k # w0
    BY <1>0, <1>6, <2>5
  <2>11. Kept(c, x, w0) = Append(Kept(b, x, w0), e)
    BY <1>7, <2>2, <2>7, <2>8, <2>9, <2>10, KeptCommitted
  <2>12. /\ Copied' = Copied /\ UNCHANGED <<build, nv, delivered, reboots, nv_enabled>> /\ IN_PROGRESS' = IN_PROGRESS
    BY <1>0, RecordingCopies
  <2>13. RamEvents' = Append(RamEvents, e)
    <3>1. RamEvents' = Kept(c, x, w0)
      BY <1>6, <2>6, <2>12, RamThen
    <3>2. RamEvents = Kept(b, x, w0)
      BY <1>6, RamIs DEF RamLaw
    <3> QED BY <2>11, <3>1, <3>2
  <2>14. PICK u, v \in Seq(Nat) : u = EventsOf(FlattenSeq(nv)) /\ v = RamEvents
    BY Listed
  <2>15. Waiting' = u \o Append(v, e) /\ Waiting = u \o v
    BY <2>12, <2>13, <2>14 DEF Waiting
  <2>16. Append(u \o v, e) = u \o Append(v, e)
    BY AppendJoined
  <2>17. Sent' = Sent /\ Lost' = Lost
    BY <2>12 DEF Sent, Lost
  <2> QED BY <1>2, <2>15, <2>16, <2>17 DEF Gains
<1> QED BY <1>8, <1>9

\* What is said of the events that are being recorded.
LEMMA EncodeStepOwns ==
  ASSUME IInv, NEW w \in Writer, EncodeStep(w)
  PROVE  /\ UNCHANGED <<build, events>>
         /\ \A v \in Writer : Owns(v)' => Owns(v) /\ enc'[v].ev = enc[v].ev
<1>0. Typed /\ enc \in [Writer -> Encoding] /\ pc[w] \in Recording /\ Recorded
  BY Zenon DEF IInv, Typed, EncodeStep, begin_write, write_header, set_write_state, get_write_size, append_data,
         count_bytes, finish_write, commit_or_rollback, reset_write_state, At, Recording
<1>1. UNCHANGED <<build, events>>
  BY Zenon DEF EncodeStep, begin_write, write_header, set_write_state, get_write_size, append_data,
         count_bytes, finish_write, commit_or_rollback, reset_write_state, platform, counters
<1>2. \A v \in Writer \ {w} : pc'[v] = pc[v]
  BY RecordingCopies, TasksAre
<1>3. Working(w)
  BY <1>0, TheWriter
<1>4. \A v \in Writer \ {w} : ~Owns(v)'
  BY <1>2, <1>3 DEF Working, Owns
<1>5. enc'[w].ev = enc[w].ev
  <2>1. enc[w] \in Encoding
    BY <1>0
  <2>2. \/ enc' = enc
        \/ \E x : enc' = [enc EXCEPT ![w].space = x]
        \/ \E x : enc' = [enc EXCEPT ![w].done = x]
        \/ \E x : enc' = [enc EXCEPT ![w].rollback = x]
    BY Zenon DEF EncodeStep, begin_write, write_header, set_write_state, get_write_size, append_data,
         count_bytes, finish_write, commit_or_rollback, reset_write_state
  <2> QED BY <1>0, <2>1, <2>2 DEF Encoding
<1>6. Owns(w)' => Owns(w)
  <2>1. CASE reset_write_state(w)
    <3>1. pc'[w] \in {"callback", "idle"}
      <4>1. Goto(w, "callback") \/ Goto(w, "idle")
        BY <2>1 DEF reset_write_state, Return
      <4> QED BY <1>0, <4>1, StepIs, TasksAre
    <3> QED BY <3>1 DEF Owns, Recording
  <2>2. CASE ~reset_write_state(w)
    <3>1. pc[w] # "reset_state"
      BY <2>2, Zenon DEF EncodeStep, begin_write, write_header, set_write_state, get_write_size, append_data,
         count_bytes, finish_write, commit_or_rollback, At
    <3> QED BY <1>0, <3>1 DEF Owns
  <2> QED BY <2>1, <2>2
<1> QED BY <1>1, <1>4, <1>5, <1>6

LEMMA CommitOwns ==
  ASSUME IInv, NEW w \in Writer, commit_or_rollback(w)
  PROVE  Owns(w) /\ \A v \in Writer : ~Owns(v)'
<1>0. Typed /\ pc[w] = "commit" /\ Goto(w, "reset_state") /\ Recorded /\ EncodeStep(w) /\ w \in Task
  BY TasksAre DEF IInv, commit_or_rollback, At, EncodeStep
<1>1. pc'[w] = "reset_state" /\ \A v \in Writer \ {w} : pc'[v] = pc[v]
  BY <1>0, StepIs, TasksAre
<1>2. pc[w] \in Recording
  BY <1>0 DEF Recording
<1>3. Working(w)
  BY <1>0, <1>2, TheWriter
<1> QED BY <1>0, <1>1, <1>2, <1>3 DEF Working, Owns

\* A step of a task that records is a step of the queue: a commit, or none.
LEMMA RecordingMoves ==
  ASSUME IInv, IInv', MInv, Numbered, NEW w \in Writer, EncodeStep(w)
  PROVE  Numbered' /\ (Same \/ (Gains(enc[w].ev) /\ enc[w].ev \in (1..events) \ Known))
<1>1. /\ UNCHANGED <<build, events>>
      /\ \A v \in Writer : Owns(v)' => Owns(v) /\ enc'[v].ev = enc[v].ev
  BY EncodeStepOwns
<1>2. ASSUME Same PROVE Numbered'
  BY <1>1, <1>2, NumberedMoved DEF Moves
<1>3. CASE commit_or_rollback(w)
  <2>1. Same \/ Gains(enc[w].ev)
    BY <1>3, CommitGains
  <2>2. Owns(w) /\ \A v \in Writer : ~Owns(v)'
    BY <1>3, CommitOwns
  <2>3. enc[w].ev \in (1..events) \ Known
    BY <2>2 DEF Numbered
  <2>4. ASSUME Gains(enc[w].ev) PROVE Numbered'
    BY <1>1, <2>2, <2>4, NumberedGained
  <2> QED BY <1>2, <2>1, <2>3, <2>4
<1>4. CASE write_header(w) \/ append_data(w)
  BY <1>2, <1>4, AppendIdles
<1>5. CASE buf' = buf
  BY <1>2, <1>5, RecordingIdles
<1>6. commit_or_rollback(w) \/ write_header(w) \/ append_data(w) \/ buf' = buf
  BY Zenon DEF EncodeStep, begin_write, set_write_state, get_write_size, count_bytes, finish_write, reset_write_state,
               ramvars
<1> QED BY <1>3, <1>4, <1>5, <1>6

LEMMA EncodeMoves ==
  ASSUME IInv, \A b \in Builds : Careful(b), MInv, Numbered, NEW w \in Writer, encode_to_storage(w)
  PROVE  Numbered' /\ Same
<1>0. /\ Typed /\ Exclusive /\ CanRun(w) /\ w \in build.writers /\ (w \in build.locked => LockFree(w))
      /\ Goto(w, "begin") /\ events < build.max_events /\ events' = events + 1 /\ build' = build /\ buf' = buf
      /\ w \in Task /\ enc \in [Writer -> Encoding]
  BY TasksAre DEF encode_to_storage, At, platform, ramvars, IInv, Typed
<1>1. PICK n \in build.sizes : enc' = [enc EXCEPT ![w] = Fresh(events', n)]
  BY Zenon DEF encode_to_storage, Fresh
<1>2. enc'[w].ev = events'
  <2>1. n \in Nat /\ events' \in Nat
    BY <1>0, BuildIs DEF Typed
  <2>2. PICK x \in Nat : x = events'
    BY <2>1
  <2>3. Fresh(x, n).ev = x
    BY <2>1, FreshIs
  <2> QED BY <1>0, <1>1, <2>2, <2>3
<1>3. Same
  BY <1>0, RecordingIdles
<1>4. \A v \in Writer \ {w} : ~Owns(v)'
  <2>1. \A v \in Writer \ {w} : pc[v] \notin Recording
    BY <1>0, Alone
  <2>2. \A v \in Writer \ {w} : pc'[v] = pc[v]
    BY <1>0, StepIs, TasksAre
  <2> QED BY <2>1, <2>2 DEF Owns
<1>5. build.max_events \in Nat
  <2>1. build \in Build
    BY <1>0, BuildAssumption DEF Typed
  <2> QED BY <2>1 DEF Build
<1> QED BY <1>0, <1>2, <1>3, <1>4, <1>5, NumberedBegun

-------------------------------------------------------------------------------
(* The events while a task looks for data or moves it                           *)

\* A step of t that records nothing.
Apart(t) == /\ \A u \in Task \ {t} : pc'[u] = pc[u] /\ ret'[u] = ret[u]
            /\ pc'[t] \notin Recording /\ UNCHANGED <<build, events, enc>>

\* Numbers are kept by a step that records nothing.
LEMMA ApartKeeps ==
  ASSUME IInv, MInv, Numbered, NEW t \in Task, Apart(t), Moves
  PROVE  Numbered'
<1>1. \A w \in Writer : Owns(w)' => Owns(w) /\ enc'[w].ev = enc[w].ev
  BY TasksAre DEF Apart, Owns
<1> QED BY <1>1, NumberedMoved DEF Apart

\* A step of t that neither records nor stores nor marks.
Looks(t) == /\ Apart(t) /\ (Marker(t)' <=> Marker(t)) /\ (Marks => read_state' = read_state)
            /\ UNCHANGED <<buf, nv, delivered, reboots>> /\ nv_enabled'.changes = nv_enabled.changes

LEMMA LooksIdle ==
  ASSUME IInv, MInv, Numbered, NEW t \in Task, Looks(t)
  PROVE  Numbered' /\ Moves
<1>1. Copied' = Copied
  BY CopiedSame DEF Looks, Apart, Elsewhere
<1>2. Same
  BY <1>1, Idles DEF Looks, Apart
<1> QED BY <1>2, ApartKeeps DEF Looks, Moves

\* A look at whether NV storage is enabled leaves what a persist is marking.
LEMMA EnabledLeaves ==
  ASSUME IInv, MInv, nv_event_storage_enabled
  PROVE  /\ Marks => read_state' = read_state
         /\ nv_enabled'.changes = nv_enabled.changes
<1>1. Contents
  BY MInvFacts, TasksAre
<1>2. Marks => nv_enabled.now
  <2>1. ASSUME NEW t \in Task, Marker(t) PROVE nv_enabled.now
    <3>1. Answered(t)
      BY MInvFacts
    <3> QED BY <2>1, <3>1 DEF Marker, Answered, Moving
  <2> QED BY <2>1 DEF Marks
<1>3. nv_enabled'.changes = nv_enabled.changes
  BY <1>1 DEF Contents, nv_event_storage_enabled
<1> QED BY <1>2, <1>3 DEF nv_event_storage_enabled

LEMMA PersistLooks ==
  ASSUME IInv, MInv, NEW q \in Persister, persist(q)
  PROVE  Looks(q)
<1>0. q \in Task /\ q \notin Writer /\ Typed /\ ret \in [Task -> Calls]
  BY TasksAre DEF IInv, Typed
<1>1. /\ pc[q] = "idle" /\ nv_event_storage_enabled /\ UNCHANGED <<build, buf, nv, delivered, events, enc, reboots>>
  BY DEF persist, drainvars, At, counters
<1>2. /\ pc'[q] \in {"idle", "has_cached"} /\ \A u \in Task \ {q} : pc'[u] = pc[u] /\ ret'[u] = ret[u]
  <2>1. CASE nv_enabled.now
    <3>1. Goto(q, "has_cached") /\ ret' = [ret EXCEPT ![q] = "persist"]
      BY <2>1 DEF persist
    <3> QED BY <1>0, <3>1, StepIs
  <2>2. CASE ~nv_enabled.now
    BY <1>1, <2>2 DEF persist
  <2> QED BY <2>1, <2>2
<1>3. ~Marker(q) /\ ~Marker(q)' /\ pc'[q] \notin Recording
  BY <1>1, <1>2 DEF Marker, Recording
<1> QED BY <1>1, <1>2, <1>3, EnabledLeaves DEF Looks, Apart

LEMMA CallbackLooks ==
  ASSUME IInv, MInv, NEW t \in Task, request_persist_callback(t)
  PROVE  Looks(t)
<1>0. Typed /\ pc[t] = "callback" /\ ret \in [Task -> Calls]
      /\ UNCHANGED <<build, buf, nv, delivered, events, enc, reboots>>
  BY DEF IInv, Typed, request_persist_callback, At, drainvars, counters
<1>1. \/ /\ nv_event_storage_enabled
         /\ \/ Goto(t, "has_cached") /\ ret' = [ret EXCEPT ![t] = "persist"]
            \/ Finish(t) /\ ret' = ret
      \/ Finish(t) /\ UNCHANGED <<nv_enabled, read_state, ret>>
  BY DEF request_persist_callback
<1>2. pc'[t] \in {"idle", "has_cached"} /\ \A u \in Task \ {t} : pc'[u] = pc[u] /\ ret'[u] = ret[u]
  BY <1>0, <1>1, StepIs, FinishIs
<1>3. ~Marker(t) /\ ~Marker(t)' /\ pc'[t] \notin Recording
  BY <1>0, <1>2 DEF Marker, Recording
<1>4. (Marks => read_state' = read_state) /\ nv_enabled'.changes = nv_enabled.changes
  BY <1>1, EnabledLeaves
<1> QED BY <1>0, <1>2, <1>3, <1>4 DEF Looks, Apart

LEMMA HasDataLooks ==
  ASSUME IInv, MInv, NEW t \in Task, has_data_cached(t) \/ has_data_total(t)
  PROVE  Looks(t)
<1>0. /\ Typed /\ Asked /\ pc[t] \in {"has_cached", "has_total"}
      /\ UNCHANGED <<build, nv_enabled, buf, read_state, nv, delivered, events, enc, reboots, ret>>
  BY DEF IInv, has_data_cached, has_data_total, At, platform, ramvars, drainvars, counters
<1>1. pc[t] \in Looking
  BY <1>0 DEF Looking
<1>2. AfterHasData(t, TotalEventSize(read_state)) \/ Goto(t, "has_compute")
  BY DEF has_data_cached, has_data_total
<1>3. PICK l \in {"idle", "has_compute", "read", "callback", "nv_write"} :
         pc'[t] = l /\ \A u \in Task \ {t} : pc'[u] = pc[u]
  <2>1. CASE Goto(t, "has_compute")
    BY <1>0, <2>1, StepIs
  <2>2. CASE AfterHasData(t, TotalEventSize(read_state))
    <3>1. CASE TotalEventSize(read_state) = 0
      BY <1>0, <2>2, <3>1, FinishIs DEF AfterHasData
    <3>2. CASE TotalEventSize(read_state) # 0
      <4>1. ret[t] \in {"source", "mark_cb", "persist"}
        BY <1>0, <1>1 DEF Asked
      <4>2. PICK l \in {"read", "callback", "nv_write"} : Goto(t, l)
        BY <2>2, <3>2, <4>1, Zenon DEF AfterHasData
      <4> QED BY <1>0, <4>2, StepIs
    <3> QED BY <3>1, <3>2
  <2> QED BY <1>2, <2>1, <2>2
<1>4. ~Marker(t) /\ ~Marker(t)' /\ pc'[t] \notin Recording
  BY <1>0, <1>3 DEF Marker, Recording
<1> QED BY <1>0, <1>3, <1>4 DEF Looks, Apart

LEMMA ComputeLooks ==
  ASSUME \A b \in Builds : Unshared(b), \A p, q \in Persister : p = q, IInv, MInv, NEW t \in Task, has_data_compute(t)
  PROVE  Looks(t)
<1>0. /\ Typed /\ CanRun(t) /\ pc[t] = "has_compute" /\ Goto(t, "has_total") /\ read_state' = ComputedReadState
      /\ UNCHANGED <<build, nv_enabled, buf, nv, delivered, events, enc, reboots, ret>>
  BY DEF IInv, has_data_compute, At, platform, drainvars, counters
<1>1. pc'[t] = "has_total" /\ \A u \in Task \ {t} : pc'[u] = pc[u]
  BY <1>0, StepIs
<1>2. ~Marker(t) /\ ~Marker(t)' /\ pc'[t] \notin Recording /\ pc[t] \in Looking
  BY <1>0, <1>1 DEF Marker, Recording, Looking
<1>3. ASSUME Marks PROVE read_state' = read_state
  <2>1. PICK u \in Task \ {t} : pc[u] \in Moving
    BY <1>2, <1>3 DEF Marks, Marker, Moving
  <2>2. ~build.batching
    BY <1>0, <1>2, <2>1, Sole
  <2>3. Begun
    BY <2>1, MInvFacts DEF OnItsWay
  <2> QED BY <1>0, <2>2, <2>3, ComputedSame
<1> QED BY <1>0, <1>1, <1>2, <1>3 DEF Looks, Apart

LEMMA HasMoreLooks ==
  ASSUME IInv, MInv, has_more_msgs
  PROVE  Looks(Drain)
<1>0. /\ Typed /\ Drain \in Task /\ ret \in [Task -> Calls] /\ pc[Drain] = "idle" /\ nv_event_storage_enabled
      /\ UNCHANGED <<build, buf, nv, delivered, events, enc, reboots>>
  BY TasksAre DEF IInv, Typed, has_more_msgs, At, drainvars, counters
<1>1. \/ pc' = pc /\ ret' = ret
      \/ Goto(Drain, "has_cached") /\ ret' = [ret EXCEPT ![Drain] = "source"]
      \/ Goto(Drain, "read") /\ ret' = [ret EXCEPT ![Drain] = "source"]
  BY DEF has_more_msgs
<1>2. pc'[Drain] \in {"idle", "has_cached", "read"} /\ \A u \in Task \ {Drain} : pc'[u] = pc[u] /\ ret'[u] = ret[u]
  BY <1>0, <1>1, StepIs
<1>3. ~Marker(Drain) /\ ~Marker(Drain)' /\ pc'[Drain] \notin Recording
  BY <1>0, <1>2 DEF Marker, Recording
<1> QED BY <1>0, <1>2, <1>3, EnabledLeaves DEF Looks, Apart

LEMMA ReadLooks ==
  ASSUME IInv, MInv, NEW n, read_msg(n)
  PROVE  Looks(Drain)
<1>0. /\ Typed /\ Drain \in Task /\ pc[Drain] = "read" /\ nv_event_storage_enabled
      /\ UNCHANGED <<build, buf, nv, delivered, events, enc, reboots, ret>>
  BY TasksAre DEF IInv, read_msg, At, counters
<1>1. \E l \in {"read", "mark_read"} : Goto(Drain, l)
  BY DEF read_msg
<1>2. pc'[Drain] \in {"read", "mark_read"} /\ \A u \in Task \ {Drain} : pc'[u] = pc[u]
  BY <1>0, <1>1, StepIs
<1>3. ~Marker(Drain) /\ ~Marker(Drain)' /\ pc'[Drain] \notin Recording
  BY <1>0, <1>2 DEF Marker, Recording
<1> QED BY <1>0, <1>2, <1>3, EnabledLeaves DEF Looks, Apart

LEMMA MarkReadLooks ==
  ASSUME IInv, MInv, mark_msg_read
  PROVE  Looks(Drain)
<1>0. /\ Typed /\ Drain \in Task /\ pc[Drain] = "mark_read" /\ nv_event_storage_enabled /\ Answered(Drain)
      /\ UNCHANGED <<build, buf, nv, delivered, events, enc, reboots, ret>>
  BY MInvFacts, TasksAre DEF IInv, mark_msg_read, At, drainvars, counters
<1>1. \E l \in {"consume", "mark"} : Goto(Drain, l)
  BY DEF mark_msg_read
<1>2. pc'[Drain] \in {"consume", "mark"} /\ \A u \in Task \ {Drain} : pc'[u] = pc[u]
  BY <1>0, <1>1, StepIs
<1>3. ret'[Drain] = "source"
  BY <1>0 DEF Answered
<1>4. ~Marker(Drain) /\ ~Marker(Drain)' /\ pc'[Drain] \notin Recording
  BY <1>0, <1>2, <1>3 DEF Marker, Recording
<1> QED BY <1>0, <1>2, <1>4, EnabledLeaves DEF Looks, Apart

LEMMA AbortLooks ==
  ASSUME IInv, MInv, abort
  PROVE  Looks(Drain)
<1>0. /\ Typed /\ Drain \in Task /\ pc[Drain] = "read" /\ Goto(Drain, "idle")
      /\ UNCHANGED <<build, nv_enabled, buf, read_state, nv, delivered, events, enc, reboots, ret>>
  BY TasksAre DEF IInv, abort, At, platform, ramvars
<1>1. pc'[Drain] = "idle" /\ \A u \in Task \ {Drain} : pc'[u] = pc[u]
  BY <1>0, StepIs
<1>2. ~Marker(Drain) /\ ~Marker(Drain)' /\ pc'[Drain] \notin Recording
  BY <1>0, <1>1 DEF Marker, Recording
<1> QED BY <1>0, <1>1, <1>2 DEF Looks, Apart

\* A read state that took something is not empty: mark_check goes on to consume.
LEMMA BegunIs ==
  ASSUME IInv, MInv, Begun
  PROVE  /\ read_state.active_event_read_size # 0
         /\ EventsTo(Message(read_state), read_state.active_event_read_size)
<1>1. PICK p, k, e, n \in Nat : Layout(p, k, e, n)
  BY LaidOut
<1>2. Typed /\ Takes(read_state) /\ read_state.num_events > 0 /\ read_state.num_events \in Nat
  <2>1. read_state.num_events \in Nat
    BY DEF IInv, Typed
  <2> QED BY <2>1 DEF IInv, MInv, Begun
<1>3. PICK m, num, a : /\ m = FlattenSeq([i \in 1..read_state.num_events |-> Piece(i)])
                       /\ num = read_state.num_events /\ a = read_state.active_event_read_size
  OBVIOUS
<1>4. BodyOf(m, num, a) /\ Len(m) > 0
  BY <1>1, <1>2, <1>3, BodyIs
<1>5. Len(m) \in Nat /\ Len(m) + num = a
  BY <1>4 DEF BodyOf
<1>6. a # 0
  BY <1>2, <1>3, <1>4, <1>5
<1>7. EventsTo(Message(read_state), read_state.active_event_read_size)
  BY <1>1, <1>2, MessageEvents
<1> QED BY <1>3, <1>6, <1>7

LEMMA MarkCheckLooks ==
  ASSUME IInv, MInv, NEW t \in Task, mark_check(t)
  PROVE  Looks(t)
<1>0. /\ Typed /\ pc[t] = "mark"
      /\ UNCHANGED <<build, nv_enabled, buf, read_state, nv, events, enc, reboots, ret>>
  BY DEF IInv, mark_check, At, platform, ramvars, counters
<1>1. Begun
  <2>1. pc[t] \in Moving
    BY <1>0 DEF Moving
  <2> QED BY <2>1, MInvFacts DEF OnItsWay
<1>2. Goto(t, "mark_consume") /\ delivered' = delivered
  BY <1>1, BegunIs DEF mark_check, drainvars
<1>3. pc'[t] = "mark_consume" /\ \A u \in Task \ {t} : pc'[u] = pc[u]
  BY <1>0, <1>2, StepIs
<1>4. (Marker(t)' <=> Marker(t)) /\ pc'[t] \notin Recording
  BY <1>0, <1>3 DEF Marker, Recording
<1> QED BY <1>0, <1>2, <1>3, <1>4 DEF Looks, Apart

-------------------------------------------------------------------------------
(* The events while a message is stored, sent or lost                           *)

\* What a task takes while no one else moves a message is not copied yet.
LEMMA NotCopied ==
  ASSUME \A u \in Task : ~Marker(u)
  PROVE  Copied = 0
BY CopiedIs DEF Marks

\* The first a cells of the buffer hold the events u of m, the others, c, the events v.
Splits(m, a, c, u, v) ==
  /\ c = ConsumeFront(buf, a) /\ u = EventsOf(m) /\ v = Kept(buf, a, IN_PROGRESS) /\ v = Kept(c, 0, IN_PROGRESS)
  /\ Kept(buf, 0, IN_PROGRESS) = u \o v

LEMMA SplitAt ==
  ASSUME IInv, MInv, NEW m, NEW a, EventsTo(m, a)
  PROVE  \E c \in Seq(Cells), u \in Seq(Nat), v \in Seq(Nat) : Splits(m, a, c, u, v)
<1>1. PICK b, w : b = buf /\ w = IN_PROGRESS
  OBVIOUS
<1>2. b \in Seq(Cells) /\ a \in Nat /\ a <= Len(b) /\ EventsOf(m) = EventsUpTo(b, Heads(b, 0, w), a)
  BY <1>1 DEF EventsTo, IInv, Typed
<1>3. PICK c : c = SubSeq(b, a + 1, Len(b))
  OBVIOUS
<1>4. /\ c \in Seq(Cells) /\ Kept(b, a, w) = Kept(c, 0, w) /\ EventsUpTo(b, Heads(b, 0, w), a) \in Seq(Nat)
      /\ Kept(b, 0, w) = EventsUpTo(b, Heads(b, 0, w), a) \o Kept(b, a, w)
  BY <1>2, <1>3, KeptSplit
<1>5. Kept(b, a, w) \in Seq(Nat)
  BY <1>2, KeptTyped
<1>6. c = ConsumeFront(b, a)
  BY <1>2, <1>3 DEF ConsumeFront
<1>7. PICK u \in Seq(Nat), v \in Seq(Nat) : u = EventsUpTo(b, Heads(b, 0, w), a) /\ v = Kept(b, a, w)
  BY <1>4, <1>5
<1>8. Splits(m, a, c, u, v)
  BY <1>1, <1>2, <1>4, <1>6, <1>7 DEF Splits
<1> QED BY <1>4, <1>7, <1>8

\* A message stored in NV is the first waiting in RAM, which are its copy from then on; one that is not stored stays.
LEMMA NvWriteMoves ==
  ASSUME \A b \in Builds : Unshared(b), \A p, q \in Persister : p = q,
         IInv, MInv, Numbered, NEW t \in Task, nv_write(t)
  PROVE  Numbered' /\ Moves
<1>0. Typed /\ Asked /\ Answered(t) /\ OnItsWay(t) /\ Contents
  BY MInvFacts
<1>1. /\ CanRun(t) /\ pc[t] = "nv_write" /\ pc[t] \in Moving /\ pc[t] \notin Looking /\ ret[t] = "persist"
      /\ UNCHANGED <<build, nv_enabled, buf, read_state, ret, delivered, events, enc, reboots>>
  BY <1>0 DEF nv_write, At, platform, ramvars, drainvars, counters, Moving, Looking, Answered
<1>2. PICK m \in Seq(Cells) : m = Message(read_state) /\ SubSeq(m, 1, Len(m)) = m /\ size[t] = Len(m)
  BY <1>0, <1>1, WellFormedMessage DEF OnItsWay
<1>3. \/ nv' = Append(nv, m) /\ Goto(t, "mark")
      \/ nv' = nv /\ Finish(t)
  BY <1>2 DEF nv_write
<1>4. \A u \in Task : ~Marker(u)
  BY <1>1, Sole DEF Marker, Moving
<1>5. CASE nv' = nv /\ Finish(t)
  <2>1. pc'[t] = "idle" /\ \A u \in Task \ {t} : pc'[u] = pc[u]
    BY <1>0, <1>5, FinishIs
  <2>2. ~Marker(t)' /\ pc'[t] \notin Recording
    BY <2>1 DEF Marker, Recording
  <2>3. Looks(t)
    BY <1>1, <1>4, <1>5, <2>1, <2>2 DEF Looks, Apart
  <2> QED BY <2>3, LooksIdle
<1>6. CASE nv' = Append(nv, m) /\ Goto(t, "mark")
  <2>1. pc'[t] = "mark" /\ \A u \in Task \ {t} : pc'[u] = pc[u]
    BY <1>0, <1>6, StepIs
  <2>2. Marker(t)' /\ pc'[t] \notin Recording
    BY <1>1, <2>1 DEF Marker, Recording
  <2>3. PICK a : a = read_state.active_event_read_size /\ EventsTo(m, a)
    BY <1>0, <1>1, <1>2, BegunIs DEF OnItsWay
  <2>4. PICK c \in Seq(Cells), u \in Seq(Nat), v \in Seq(Nat) : Splits(m, a, c, u, v)
    BY <2>3, SplitAt
  <2>5. Copied = 0 /\ Copied' = a
    BY <1>1, <1>4, <2>2, <2>3, NotCopied, CopiedThen DEF Marks
  <2>6. RamEvents = u \o v /\ RamEvents' = v
    BY <1>1, <2>4, <2>5, RamIs, RamThen DEF RamLaw, IN_PROGRESS, Splits
  <2>7. PICK z \in Seq(Nat) : z = EventsOf(FlattenSeq(nv)) /\ EventsOf(FlattenSeq(nv')) = z \o u
    <3>1. EventsOf(FlattenSeq(nv)) \in Seq(Nat)
      BY Listed
    <3>2. nv \in Seq(Seq(Cells)) /\ u = EventsOf(m)
      BY <1>0, <2>4 DEF Contents, Splits
    <3>3. EventsOf(FlattenSeq(Append(nv, m))) = EventsOf(FlattenSeq(nv)) \o EventsOf(m)
      BY <1>2, <3>2, MessageAppended
    <3> QED BY <1>6, <3>1, <3>2, <3>3
  <2>8. Waiting = z \o (u \o v) /\ Waiting' = (z \o u) \o v
    BY <2>6, <2>7, Zenon DEF Waiting
  <2>9. (z \o u) \o v = z \o (u \o v)
    BY Grouped
  <2>10. Same
    BY <1>1, <2>8, <2>9 DEF Same, Sent, Lost
  <2>11. Apart(t)
    BY <1>1, <2>1, <2>2 DEF Apart
  <2> QED BY <2>10, <2>11, ApartKeeps DEF Moves
<1> QED BY <1>3, <1>5, <1>6

\* What is sent is the front of what waits.
LEMMA FrontSent ==
  ASSUME NEW u \in Seq(Nat), NEW v \in Seq(Nat), Waiting = u \o v, Waiting' = v, Sent' = Sent \o u, Lost' = Lost
  PROVE  Moves
<1>1. PICK c, k : c = u \o v /\ k = Len(u)
  OBVIOUS
<1>2. k \in 0..Len(c) /\ SubSeq(c, 1, k) = u /\ SubSeq(c, k + 1, Len(c)) = v
  BY <1>1, FrontCut
<1>3. Sends(k)
  BY <1>1, <1>2 DEF Sends
<1> QED BY <1>1, <1>2, <1>3 DEF Moves

\* What is consumed from RAM was stored in NV, and nothing changes, or was read by the drain, and is sent.
LEMMA MarkConsumeMoves ==
  ASSUME \A b \in Builds : Unshared(b), \A p, q \in Persister : p = q,
         IInv, MInv, Numbered, NEW t \in Task, mark_consume(t)
  PROVE  Numbered' /\ Moves
<1>0. Typed /\ Asked /\ Answered(t) /\ OnItsWay(t) /\ Contents /\ Emptied
  BY MInvFacts
<1>1. /\ CanRun(t) /\ pc[t] = "mark_consume" /\ pc[t] \in Moving /\ pc[t] \notin Looking /\ AfterMark(t)
      /\ buf' = ConsumeFront(buf, read_state.active_event_read_size)
      /\ UNCHANGED <<build, nv_enabled, nv, ret, events, enc, reboots>>
  BY DEF mark_consume, At, platform, counters, Moving, Looking
<1>2. /\ Begun /\ \A u \in Task \ {t} : ~Marker(u)
  BY <1>0, <1>1, Sole DEF OnItsWay, Marker, Moving
<1>3. PICK m, a : m = Message(read_state) /\ a = read_state.active_event_read_size /\ EventsTo(m, a)
  BY <1>2, BegunIs
<1>4. PICK c \in Seq(Cells), u \in Seq(Nat), v \in Seq(Nat) : Splits(m, a, c, u, v)
  BY <1>3, SplitAt
<1>5. /\ pc'[t] \in {"has_cached", "idle"} /\ \A w \in Task \ {t} : pc'[w] = pc[w]
  <2>1. Goto(t, "has_cached") \/ Goto(t, "idle")
    BY <1>1 DEF AfterMark
  <2> QED BY <1>0, <2>1, StepIs
<1>6. /\ pc'[t] \notin Recording /\ \A w \in Task : ~Marker(w)'
  <2>1. pc'[t] \notin Recording /\ ~Marker(t)'
    BY <1>5 DEF Marker, Recording
  <2>2. \A w \in Task \ {t} : ~Marker(w)'
    BY <1>1, <1>2, <1>5 DEF Marker
  <2> QED BY <2>1, <2>2
<1>7. Apart(t)
  BY <1>1, <1>5, <1>6 DEF Apart
<1>8. RamEvents' = v /\ Lost' = Lost
  <2>1. Copied' = 0
    BY <1>6, CopiedThen DEF Marks
  <2>2. buf' = c
    BY <1>1, <1>3, <1>4 DEF Splits
  <2> QED BY <1>1, <1>4, <2>1, <2>2, RamThen DEF IN_PROGRESS, Lost, Splits
<1>9. CASE ret[t] = "persist"
  <2>1. Marks /\ delivered' = delivered
    BY <1>1, <1>9 DEF Marks, Marker, AfterMark, drainvars
  <2>2. RamEvents = v
    BY <1>3, <1>4, <2>1, CopiedIs, RamIs DEF RamLaw, Splits
  <2>3. Same
    BY <1>1, <1>8, <2>1, <2>2 DEF Same, Waiting, Sent
  <2> QED BY <1>7, <2>3, ApartKeeps DEF Moves
<1>10. CASE ret[t] # "persist"
  <2>1. t = Drain /\ ret[t] = "source" /\ delivered' = Append(delivered, rx)
    BY <1>0, <1>1, <1>10 DEF Asked, Answered, AfterMark
  <2>2. ~nv_enabled.now
    BY <1>0, <1>1, <2>1 DEF Answered
  <2>3. AllRead
    BY <1>1, <2>1 DEF AllRead
  <2>4. rx = m /\ nv = <<>> /\ m \in Seq(Cells)
    BY <1>0, <1>3, <2>2, <2>3, AllReadIs DEF Current, Emptied, EventsTo
  <2>5. Sent' = Sent \o u
    BY <1>0, <1>4, <2>1, <2>4, MessageAppended DEF Contents, Sent, Splits
  <2>6. RamEvents = u \o v
    <3>1. \A w \in Task : ~Marker(w)
      BY <1>2, <1>10 DEF Marker
    <3> QED BY <1>4, <3>1, NotCopied, RamIs DEF RamLaw, Splits
  <2>7. Waiting = u \o v /\ Waiting' = v
    <3>1. EventsOf(FlattenSeq(nv)) = <<>> /\ EventsOf(FlattenSeq(nv')) = <<>>
      BY <1>1, <2>4, NoMessages
    <3>2. <<>> \o (u \o v) = u \o v /\ <<>> \o v = v
      BY ConcatProperties, ConcatEmptySeq
    <3> QED BY <1>8, <2>6, <3>1, <3>2 DEF Waiting
  <2>8. Moves
    BY <1>8, <2>5, <2>7, FrontSent
  <2> QED BY <1>7, <2>8, ApartKeeps
<1> QED BY <1>9, <1>10

\* The first message of NV storage was read by the drain, and is sent.
LEMMA NvMarkReadMoves ==
  ASSUME IInv, MInv, Numbered, nv_mark_read
  PROVE  Numbered' /\ Moves
<1>0. Typed /\ Answered(Drain) /\ Contents /\ Drain \in Task /\ ret \in [Task -> Calls]
  BY MInvFacts, TasksAre DEF Typed
<1>1. /\ pc[Drain] = "consume" /\ nv' = ConsumeFront(nv, 1) /\ delivered' = Append(delivered, rx)
      /\ Goto(Drain, "has_cached") /\ ret' = [ret EXCEPT ![Drain] = "mark_cb"]
      /\ UNCHANGED <<build, nv_enabled, buf, read_state, events, enc, reboots>>
  BY DEF nv_mark_read, At, platform, ramvars, counters
<1>2. /\ pc'[Drain] = "has_cached" /\ ret'[Drain] = "mark_cb"
      /\ \A u \in Task \ {Drain} : pc'[u] = pc[u] /\ ret'[u] = ret[u]
  BY <1>0, <1>1, StepIs
<1>3. Apart(Drain) /\ ~Marker(Drain) /\ ~Marker(Drain)'
  BY <1>1, <1>2 DEF Apart, Marker, Recording
<1>4. AllRead /\ nv_enabled.now
  BY <1>0, <1>1 DEF AllRead, Answered
<1>5. rx = nv[1] /\ nv # <<>> /\ nv \in Seq(Seq(Cells)) /\ delivered \in Seq(Seq(Cells)) /\ rx \in Seq(Cells)
  BY <1>0, <1>4, AllReadIs DEF There, Current, Contents
<1>6. PICK u \in Seq(Nat) : u = EventsOf(rx)
  BY <1>5, MessageTaken
<1>7. PICK z \in Seq(Nat) : z = EventsOf(FlattenSeq(nv')) /\ EventsOf(FlattenSeq(nv)) = u \o z
  <2>1. ConsumeFront(nv, 1) \in Seq(Seq(Cells))
    BY <1>5, FlatFront
  <2>2. EventsOf(FlattenSeq(ConsumeFront(nv, 1))) \in Seq(Nat)
    BY <2>1, MessagesTyped
  <2> QED BY <1>1, <1>5, <1>6, <2>2, MessageTaken
<1>8. Copied' = Copied
  BY <1>0, <1>1, <1>2, <1>3, CopiedSame DEF Elsewhere
<1>9. PICK v \in Seq(Nat) : v = RamEvents /\ v = RamEvents'
  <2>1. RamEvents' = RamEvents
    BY <1>1, <1>8, RamIs, RamThen DEF RamLaw, IN_PROGRESS
  <2> QED BY <2>1, Listed
<1>10. Waiting = (u \o z) \o v /\ Waiting' = z \o v
  BY <1>7, <1>9, Zenon DEF Waiting
<1>11. Waiting = u \o (z \o v) /\ z \o v \in Seq(Nat)
  <2>1. (u \o z) \o v = u \o (z \o v)
    BY Grouped
  <2>2. z \o v \in Seq(Nat)
    BY <1>7, <1>9, ConcatProperties
  <2> QED BY <1>10, <2>1, <2>2
<1>12. Sent' = Sent \o u /\ Lost' = Lost
  BY <1>1, <1>5, <1>6, MessageAppended DEF Sent, Lost
<1>13. Moves
  BY <1>10, <1>11, <1>12, FrontSent
<1> QED BY <1>0, <1>3, <1>13, ApartKeeps

\* What is lost is the front of what waits.
LEMMA FrontLost ==
  ASSUME NEW u \in Seq(Nat), NEW v \in Seq(Nat), Waiting = u \o v, Waiting' = v, Sent' = Sent, Lost' = Lost + 1
  PROVE  Moves
<1>1. PICK c, k : c = u \o v /\ k = Len(u)
  OBVIOUS
<1>2. k \in 0..Len(c) /\ SubSeq(c, 1, k) = u /\ SubSeq(c, k + 1, Len(c)) = v
  BY <1>1, FrontCut
<1>3. Drops(k)
  BY <1>1, <1>2 DEF Drops
<1> QED BY <1>1, <1>2, <1>3 DEF Moves

\* When the rest of what waits is replaced, what is known is of the front, sent, or put in its place.
LEMMA RestReplaced ==
  ASSUME IInv, MInv, NEW u \in Seq(Nat), NEW v \in Seq(Nat), NEW y \in Seq(Nat),
         Waiting = u \o v, Waiting' = u \o y, Sent' = Sent
  PROVE  Known' \subseteq Known \cup ToSet(y)
<1>1. PICK s \in Seq(Nat) : s = Sent
  BY Listed
<1>2. PICK c, d \in Seq(Nat) : c = u \o v /\ d = u \o y
  <2>1. u \o v \in Seq(Nat) /\ u \o y \in Seq(Nat)
    BY ConcatProperties
  <2> QED BY <2>1
<1>3. ToSet(c) = ToSet(u) \cup ToSet(v) /\ ToSet(d) = ToSet(u) \cup ToSet(y)
  BY <1>2, MembersJoined
<1>4. ToSet(c \o s) = ToSet(c) \cup ToSet(s) /\ ToSet(d \o s) = ToSet(d) \cup ToSet(s)
  BY MembersJoined
<1>5. Known = ToSet(c \o s) /\ Known' = ToSet(d \o s)
  BY <1>1, <1>2 DEF Known
<1> QED BY <1>3, <1>4, <1>5

\* A reboot loses what is in RAM, the newest events; after deep sleep they are what was saved of them.
LEMMA RestartMoves ==
  ASSUME IInv, SavedWell, MInv, Numbered, SavedNumbered, reboots \in Nat, events_storage_boot \/ deep_sleep
  PROVE  Numbered' /\ Restarts
<1>0. Typed /\ Contents /\ Drain \in Task
  BY MInvFacts, TasksAre
<1>1. /\ \A t \in Task : pc'[t] = "idle"
      /\ reboots' = reboots + 1 /\ UNCHANGED <<build, nv, delivered, events>>
      /\ nv_enabled' = [nv_enabled EXCEPT !.last = FALSE] /\ backup' = NoBackup
  BY DEF events_storage_boot, deep_sleep, Restarted
<1>2. \A t \in Task : pc'[t] \notin Recording /\ ~Marker(t)'
  BY <1>1 DEF Recording, Marker
<1>3. Lost' = Lost + 1 /\ Sent' = Sent
  <2>1. PICK x \in Nat : x = nv_enabled.changes
    BY <1>0 DEF Contents
  <2>2. nv_enabled'.changes = x
    BY <1>0, <1>1, <2>1 DEF Contents
  <2>3. (reboots + 1) + x = (reboots + x) + 1
    OBVIOUS
  <2> QED BY <1>1, <2>1, <2>2, <2>3 DEF Lost, Sent
<1>4. Copied' = 0
  BY <1>2, CopiedThen DEF Marks
<1>5. PICK z \in Seq(Nat), v \in Seq(Nat) : z = EventsOf(FlattenSeq(nv)) /\ v = RamEvents
  BY Listed
<1>6. Waiting = z \o v /\ Waiting' = z \o RamEvents'
  BY <1>1, <1>5 DEF Waiting
<1>7. SavedEvents' = <<>>
  <2>1. build.capacity \in Nat /\ build' = build
    BY <1>0, <1>1, TypedFacts
  <2>2. SavedWell'
    BY <1>1, <2>1, NothingSavedThen
  <2>3. backup'.buf = <<>>
    BY <1>1 DEF NoBackup
  <2> QED BY <2>2, <2>3, SavedThen, KeptOfNothing
<1>8. PICK y \in Seq(Nat), k \in 0..Len(Waiting) : /\ y = RamEvents' /\ (Forgets(k) \/ Wakes(k))
                                                /\ ToSet(y) \subseteq 1..events
  <2>1. PICK c, k : c = z \o v /\ k = Len(z)
    OBVIOUS
  <2>2. k \in 0..Len(c) /\ SubSeq(c, 1, k) = z
    BY <2>1, FrontCut
  <2>3. CASE events_storage_boot
    <3>1. RamEvents' = <<>> /\ <<>> \in Seq(Nat) /\ ToSet(<<>>) = {}
      BY <1>4, <2>3, RamThen, KeptOfNothing DEF events_storage_boot, ToSet
    <3>2. z \o <<>> = z
      BY ConcatEmptySeq
    <3>3. Forgets(k)
      BY <1>3, <1>6, <2>1, <2>2, <3>1, <3>2 DEF Forgets
    <3> QED BY <1>6, <2>1, <2>2, <3>1, <3>3
  <2>4. CASE deep_sleep
    <3>1. buf' = backup.buf /\ IN_PROGRESS' = IN_PROGRESS
      BY <1>1, <2>4 DEF deep_sleep, IN_PROGRESS
    <3>2. RamEvents' = SavedEvents /\ SavedEvents \in Seq(Nat)
      BY <1>4, <3>1, RamThen, SavedIs DEF SavedLaw
    <3>3. Wakes(k)
      BY <1>3, <1>6, <2>1, <2>2, <3>2 DEF Wakes
    <3> QED BY <1>6, <2>1, <2>2, <3>2, <3>3 DEF SavedNumbered
  <2> QED BY <2>3, <2>4
<1>9. Restarts
  BY <1>7, <1>8 DEF Restarts
<1>10. Known' \subseteq 1..events
  BY <1>3, <1>5, <1>6, <1>8, RestReplaced DEF Numbered
<1>11. \A w \in Writer : ~Owns(w)'
  BY <1>2, TasksAre DEF Owns
<1>12. Numbered'
  BY <1>1, <1>10, <1>11 DEF Numbered
<1> QED BY <1>9, <1>12

\* What is saved is the rest of what waits, after what NV storage holds.
LEMMA BackupMoves ==
  ASSUME \A b \in Builds : Careful(b), IInv, SavedWell', MInv, Numbered, backup_event_storage
  PROVE  Numbered' /\ Same /\ \E k \in 0..Len(Waiting) : Saves(k)
<1>0. Typed
  BY DEF IInv
<1>1. /\ build.restore /\ (build.preemptive \/ \A t \in Task : AtRest(t)) /\ backup'.buf = buf
      /\ UNCHANGED <<build, nv_enabled, buf, read_state, nv, pc, ret, enc, delivered, events, reboots>>
  BY DEF backup_event_storage, ramvars, drainvars, counters
<1>2. Copied' = Copied
  BY <1>1 DEF Copied
<1>3. Same
  BY <1>1, <1>2, Idles
<1>4. Numbered'
  <2>1. \A w \in Writer : Owns(w)' => Owns(w) /\ enc'[w].ev = enc[w].ev
    BY <1>1 DEF Owns
  <2> QED BY <1>1, <1>3, <2>1, NumberedMoved DEF Moves
<1>5. \A t \in Task : ~Marker(t)
  BY <1>0, <1>1 DEF Typed, Careful, AtRest, Marker
<1>6. SavedEvents' = RamEvents
  <2>1. IN_PROGRESS' = IN_PROGRESS
    BY <1>1 DEF IN_PROGRESS
  <2>2. RamEvents = Kept(buf, 0, IN_PROGRESS)
    BY <1>5, NotCopied, RamIs DEF RamLaw
  <2> QED BY <1>1, <2>1, <2>2, SavedThen
<1>7. PICK z \in Seq(Nat), v \in Seq(Nat) : z = EventsOf(FlattenSeq(nv)) /\ v = RamEvents
  BY Listed
<1>8. PICK c, k : c = z \o v /\ k = Len(z)
  OBVIOUS
<1>9. k \in 0..Len(c) /\ SubSeq(c, k + 1, Len(c)) = v
  BY <1>7, <1>8, FrontCut
<1>10. Waiting = c
  BY <1>7, <1>8 DEF Waiting
<1>11. Saves(k)
  BY <1>3, <1>6, <1>7, <1>9, <1>10 DEF Saves
<1> QED BY <1>3, <1>4, <1>9, <1>10, <1>11

\* NV storage that comes or fails loses what it had, the oldest events.
LEMMA EnabledChangesMoves ==
  ASSUME \A b \in Builds : Unshared(b), IInv, MInv, Numbered, reboots \in Nat, enabled_changes
  PROVE  Numbered' /\ Moves
<1>0. Typed /\ Contents /\ Drain \in Task
  BY MInvFacts, TasksAre
<1>1. /\ nv_enabled.changes < build.max_changes /\ nv' = <<>>
      /\ nv_enabled' = [nv_enabled EXCEPT !.now = ~nv_enabled.now, !.changes = nv_enabled.changes + 1]
      /\ (build.preemptive \/ \A t \in Task : AtRest(t))
      /\ UNCHANGED <<build, buf, read_state, pc, ret, enc, delivered, events, reboots>>
  BY Zenon DEF enabled_changes, ramvars, drainvars, counters
<1>2. PICK x \in Nat : x = nv_enabled.changes
  BY <1>0 DEF Contents
<1>3. ~build.preemptive
  <2>1. build.max_changes # 0
    BY <1>1, <1>2
  <2> QED BY <1>0, <2>1 DEF Typed, Unshared
<1>4. \A t \in Task : ~Marker(t) /\ ~Marker(t)'
  BY <1>1, <1>3 DEF AtRest, Marker
<1>5. PICK z \in Seq(Nat), v \in Seq(Nat) : z = EventsOf(FlattenSeq(nv)) /\ v = RamEvents
  BY Listed
<1>6. RamEvents' = v
  <2>1. Copied' = 0 /\ Copied = 0
    BY <1>4, NotCopied, CopiedThen DEF Marks
  <2> QED BY <1>1, <1>5, <2>1, RamIs, RamThen DEF RamLaw, IN_PROGRESS
<1>7. Waiting = z \o v /\ Waiting' = v
  <2>1. EventsOf(FlattenSeq(nv')) = <<>> /\ <<>> \o v = v
    BY <1>1, NoMessages, ConcatEmptySeq
  <2> QED BY <1>5, <1>6, <2>1 DEF Waiting
<1>8. Sent' = Sent /\ Lost' = Lost + 1
  <2>1. nv_enabled'.changes = x + 1
    BY <1>0, <1>1, <1>2 DEF Contents
  <2>2. reboots + (x + 1) = (reboots + x) + 1
    OBVIOUS
  <2> QED BY <1>1, <1>2, <2>1, <2>2 DEF Lost, Sent
<1>9. Moves
  BY <1>7, <1>8, FrontLost
<1>10. \A w \in Writer : Owns(w)' => Owns(w) /\ enc'[w].ev = enc[w].ev
  BY <1>1 DEF Owns
<1> QED BY <1>1, <1>9, <1>10, NumberedMoved

\* Nothing happens while the system waits.
LEMMA WaitingMoves ==
  ASSUME IInv, MInv, Numbered, UNCHANGED vars
  PROVE  Numbered' /\ Moves
<1>1. /\ UNCHANGED <<build, nv_enabled, buf, read_state, nv, pc, ret, enc, delivered, events, reboots>>
  BY DEF vars
<1>2. Copied' = Copied
  BY <1>1 DEF Copied
<1>3. Same
  BY <1>1, <1>2, Idles
<1>4. \A w \in Writer : Owns(w)' => Owns(w) /\ enc'[w].ev = enc[w].ev
  BY <1>1 DEF Owns
<1> QED BY <1>1, <1>3, <1>4, NumberedMoved DEF Moves

-------------------------------------------------------------------------------
(* Committed events are sent once, in order                                     *)

\* At first nothing is queued or sent.
LEMMA NumberedInit ==
  ASSUME Init
  PROVE  Numbered /\ Waiting = <<>> /\ Sent = <<>> /\ Lost = 0
<1>1. Waiting = <<>> /\ Sent = <<>>
  <2>1. RamEvents = <<>>
    BY RamIs, KeptOfNothing DEF RamLaw, Init
  <2>2. EventsOf(FlattenSeq(nv)) = <<>> /\ EventsOf(FlattenSeq(delivered)) = <<>>
    BY NoMessages DEF Init
  <2>3. <<>> \o <<>> = <<>>
    BY ConcatEmptySeq
  <2> QED BY <2>1, <2>2, <2>3 DEF Waiting, Sent
<1>2. Lost = 0
  <2>1. reboots = 0 /\ nv_enabled.changes = 0
    BY DEF Init
  <2> QED BY <2>1 DEF Lost
<1>3. Known = {}
  <2>1. <<>> \o <<>> = <<>> /\ ToSet(<<>>) = {}
    BY ConcatEmptySeq DEF ToSet
  <2> QED BY <1>1, <2>1 DEF Known
<1>4. events = 0 /\ build.max_events \in Nat
  <2>1. build \in Build
    BY BuildAssumption DEF Init
  <2> QED BY <2>1 DEF Build, Init
<1>5. \A w \in Writer : ~Owns(w)
  <2>1. \A w \in Writer : pc[w] = "idle"
    BY TasksAre DEF Init
  <2> QED BY <2>1 DEF Owns, Recording
<1> QED BY <1>1, <1>2, <1>3, <1>4, <1>5 DEF Numbered

Commits == \E e \in (1..events) \ Known : Gains(e)

\* Every step of event storage that keeps the copy is one of the queue, or none.
LEMMA StepMoves ==
  ASSUME \A b \in Builds : Careful(b) /\ Unshared(b), \A p, q \in Persister : p = q,
         IInv, IInv', MInv, Numbered, reboots \in Nat, [Next]_vars,
         ~(backup_event_storage \/ events_storage_boot \/ deep_sleep)
  PROVE  Numbered' /\ (Moves \/ Commits)
<1>1. ASSUME NEW w \in Writer, encode_to_storage(w) PROVE Numbered' /\ Moves
  BY <1>1, EncodeMoves DEF Moves
<1>2. ASSUME NEW w \in Writer, EncodeStep(w) PROVE Numbered' /\ (Moves \/ Commits)
  BY <1>2, RecordingMoves DEF Moves, Commits
<1>3. ASSUME NEW q \in Persister, persist(q) PROVE Numbered' /\ Moves
  <2>1. q \in Task
    BY TasksAre
  <2> QED BY <1>3, <2>1, PersistLooks, LooksIdle
<1>4. ASSUME NEW t \in Task, PersistStep(t) PROVE Numbered' /\ Moves
  <2>1. CASE request_persist_callback(t) \/ has_data_cached(t) \/ has_data_total(t) \/ mark_check(t)
    BY <2>1, CallbackLooks, HasDataLooks, MarkCheckLooks, LooksIdle
  <2>2. CASE has_data_compute(t)
    BY <2>2, ComputeLooks, LooksIdle
  <2> QED BY <1>4, <2>1, <2>2, NvWriteMoves, MarkConsumeMoves DEF PersistStep
<1>5. CASE DrainStep
  <2>0. Drain \in Task
    BY TasksAre
  <2>1. ASSUME NEW n, read_msg(n) PROVE Numbered' /\ Moves
    BY <2>0, <2>1, ReadLooks, LooksIdle
  <2>2. CASE has_more_msgs \/ mark_msg_read
    BY <2>0, <2>2, HasMoreLooks, MarkReadLooks, LooksIdle
  <2> QED BY <1>5, <2>1, <2>2, NvMarkReadMoves DEF DrainStep
<1>6. CASE abort
  BY <1>6, AbortLooks, LooksIdle, TasksAre
<1>7. CASE enabled_changes
  BY <1>7, EnabledChangesMoves
<1>8. CASE Quiescent \/ UNCHANGED vars
  BY <1>8, WaitingMoves DEF Quiescent
<1> QED BY <1>1, <1>2, <1>3, <1>4, <1>5, <1>6, <1>7, <1>8 DEF Next

\* What waits, was sent and lost, and was saved, after a step.
Steps == \/ (Moves \/ Commits) /\ SavedEvents' = SavedEvents
         \/ \E k \in 0..Len(Waiting) : Saves(k)
         \/ Restarts

LEMMA AllSteps ==
  ASSUME \A b \in Builds : Careful(b) /\ Unshared(b), \A p, q \in Persister : p = q,
         IInv, IInv', SavedWell, SavedWell', MInv, Numbered, SavedNumbered, reboots \in Nat, [Next]_vars
  PROVE  Numbered' /\ SavedNumbered' /\ Steps
<1>0. build' = build /\ events \in Nat /\ events' \in {events, events + 1}
  BY BackupStays DEF IInv, Typed
<1>1. 1..events \subseteq 1..(events')
  BY <1>0
<1>2. CASE events_storage_boot \/ deep_sleep
  <2>1. Numbered' /\ Restarts
    BY <1>2, RestartMoves
  <2>2. ToSet(<<>>) = {}
    BY DEF ToSet
  <2> QED BY <2>1, <2>2 DEF Restarts, Steps, SavedNumbered
<1>3. CASE backup_event_storage
  <2>1. PICK k \in 0..Len(Waiting) : Numbered' /\ Saves(k)
    BY <1>3, BackupMoves
  <2>2. PICK q, s \in Seq(Nat) : q = Waiting /\ s = Sent
    BY Listed
  <2>3. PICK u, v \in Seq(Nat) : u = SubSeq(q, 1, k) /\ v = SubSeq(q, k + 1, Len(q)) /\ q = u \o v
    BY <2>2, CutMembers
  <2>4. ToSet(q) = ToSet(u) \cup ToSet(v) /\ ToSet(q \o s) = ToSet(q) \cup ToSet(s)
    BY <2>3, MembersJoined
  <2>5. ToSet(v) \subseteq Known
    BY <2>2, <2>4 DEF Known
  <2>6. SavedEvents' = v
    BY <2>1, <2>2, <2>3 DEF Saves
  <2>7. SavedNumbered'
    BY <1>1, <2>5, <2>6 DEF SavedNumbered, Numbered
  <2> QED BY <2>1, <2>7 DEF Steps
<1>4. CASE ~(backup_event_storage \/ events_storage_boot \/ deep_sleep)
  <2>1. Numbered' /\ (Moves \/ Commits) /\ backup' = backup
    BY <1>4, StepMoves, BackupStays DEF IInv
  <2>2. IN_PROGRESS' = IN_PROGRESS
    BY <1>0 DEF IN_PROGRESS
  <2>3. SavedEvents' = SavedEvents
    BY <2>1, <2>2, SavedIs, SavedThen DEF SavedLaw
  <2>4. SavedNumbered'
    BY <1>1, <2>3 DEF SavedNumbered
  <2> QED BY <2>1, <2>3, <2>4 DEF Steps
<1> QED BY <1>2, <1>3, <1>4

\* The bound on the events of the runs is that of the abstract queue.
LEMMA EventNumbers ==
  ASSUME NEW N \in Nat, \A b \in Builds : b.max_events <= N, IInv, Numbered
  PROVE  1..events \subseteq EventIds
<1>1. PICK S : S = {b.max_events : b \in Builds} \cup {0}
  OBVIOUS
<1>2. S \in SUBSET (0..N) /\ S # {}
  <2>1. \A b \in Builds : b.max_events \in Nat
    BY BuildAssumption DEF Build
  <2> QED BY <1>1, <2>1
<1>3. PICK m \in 0..N : m = Max(S) /\ \A y \in S : y <= m
  BY <1>2, MaxIsOne
<1>4. build.max_events \in S
  BY <1>1 DEF IInv, Typed
<1>5. events <= m /\ events \in Nat
  <2>1. PICK x \in 0..N : x = build.max_events /\ x <= m
    BY <1>2, <1>3, <1>4
  <2> QED BY <1>3, <2>1 DEF Numbered, IInv, Typed
<1>6. EventIds = 1..m
  BY <1>1, <1>3 DEF EventIds
<1> QED BY <1>3, <1>5, <1>6

\* In the words of EventQueue.
LEMMA QueueSteps ==
  ASSUME NEW N \in Nat, \A b \in Builds : b.max_events <= N, IInv, Numbered, Steps
  PROVE  [Queue!Next]_<<Waiting, Sent, Lost, SavedEvents>>
<1>1. CASE Same /\ SavedEvents' = SavedEvents
  BY <1>1 DEF Same
<1>2. ASSUME NEW k \in 0..Len(Waiting),
             ((Sends(k) \/ Drops(k)) /\ SavedEvents' = SavedEvents) \/ Saves(k)
               \/ ((Forgets(k) \/ Wakes(k)) /\ SavedEvents' = <<>>)
      PROVE  Queue!Next
  <2>1. Queue!Send(k) \/ Queue!Save(k) \/ Queue!Wake(k) \/ Queue!Reboot(k) \/ Queue!Fail(k)
    BY <1>2 DEF Sends, Forgets, Drops, Saves, Wakes, Same, Queue!Send, Queue!Save, Queue!Wake, Queue!Reboot, Queue!Fail,
                Waiting, Sent, Lost
  <2> QED BY <2>1 DEF Queue!Next, Waiting
<1>3. ASSUME NEW e \in (1..events) \ Known, Gains(e), SavedEvents' = SavedEvents PROVE Queue!Next
  <2>1. e \in EventIds
    BY EventNumbers
  <2>2. Queue!Commit(e)
    BY <1>3 DEF Gains, Known, ToSet, Queue!Commit, Queue!ToSet, Waiting, Sent, Lost
  <2> QED BY <2>1, <2>2 DEF Queue!Next
<1>4. CASE (Moves \/ Commits) /\ SavedEvents' = SavedEvents
  <2>1. CASE Same
    BY <1>1, <1>4, <2>1
  <2>2. ASSUME NEW k \in 0..Len(Waiting), Sends(k) \/ Drops(k) PROVE Queue!Next
    BY <1>2, <1>4, <2>2, Zenon
  <2>3. CASE Commits
    BY <1>3, <1>4, <2>3, Zenon DEF Commits
  <2> QED BY <1>4, <2>1, <2>2, <2>3, Zenon DEF Moves
<1>5. CASE Restarts
  BY <1>2, <1>5, Zenon DEF Restarts
<1> QED BY <1>2, <1>4, <1>5 DEF Steps

\* A committed event is sent once, in the order of commits: only a reboot loses events, the newest, NV
\* storage that fails, the oldest, and deep sleep those committed since its backup, of which those sent
\* since are sent again (EventQueue).  For every size of the buffer, of the events, of the batches and of
\* NV storage, and every order of recording, persisting, reading, aborting, marking read, resetting, backup
\* and sleep, as long as tasks record one at a time and back up between calls (Careful), one task persists
\* on request, and nothing changes between a look at a message and the message (Unshared).  N only bounds
\* the events of the builds.
THEOREM EventsSentOnce ==
  ASSUME NEW N \in Nat, \A b \in Builds : Careful(b) /\ Unshared(b) /\ b.max_events <= N,
         \A p, q \in Persister : p = q
  PROVE  Spec => SentOnceInOrder
<1> DEFINE Here == IInv /\ SavedWell /\ MInv /\ reboots \in Nat
<1>1. Spec => []Here
  <2>1. Spec => []IInv /\ []SavedWell
    BY Inductive
  <2>2. Spec => [](MInv /\ SavedTaken)
    BY MessagesInductive
  <2> QED BY <2>1, <2>2, RebootsCounted, PTL
<1>2. Init => Numbered /\ SavedNumbered /\ Queue!Init
  <2> SUFFICES ASSUME Init PROVE Numbered /\ SavedNumbered /\ Queue!Init
    OBVIOUS
  <2>1. SavedEvents = <<>>
    <3>1. SavedWell
      BY BuildIs, NothingSaved DEF Init
    <3>2. backup.buf = <<>>
      BY DEF Init, NoBackup
    <3> QED BY <3>1, <3>2, SavedIs, KeptOfNothing DEF SavedLaw
  <2>2. ToSet(<<>>) = {}
    BY DEF ToSet
  <2> QED BY <2>1, <2>2, NumberedInit DEF Queue!Init, Waiting, Sent, Lost, SavedNumbered
<1>3. Here /\ Here' /\ Numbered /\ SavedNumbered /\ [Next]_vars =>
        Numbered' /\ SavedNumbered' /\ [Queue!Next]_<<Waiting, Sent, Lost, SavedEvents>>
  BY AllSteps, QueueSteps
<1>4. Here /\ Here' /\ Numbered /\ SavedNumbered /\ [Next]_vars => Numbered' /\ SavedNumbered'
  BY <1>3
<1>5. Here /\ Here' /\ Numbered /\ SavedNumbered /\ [Next]_vars =>
        [Queue!Next]_<<EventsOf(FlattenSeq(nv)) \o RamEvents, EventsOf(FlattenSeq(delivered)),
                       reboots + nv_enabled.changes, SavedEvents>>
  BY <1>3 DEF Waiting, Sent, Lost
<1> HIDE DEF Here
<1> QED BY <1>1, <1>2, <1>4, <1>5, PTL DEF Spec, SentOnceInOrder, Queue!Spec
===============================================================================

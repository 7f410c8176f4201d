------------------------------ MODULE RamLogProofs ------------------------------
(* What RamLog promises of logs for every size of the ring and of the logs, any    *)
(* number of them, of collections, aborts and deep sleeps, and any tasks.           *)
EXTENDS RamLog, Integers, FiniteSetTheorems, WellFoundedInduction, TLAPS

-------------------------------------------------------------------------------
(* Induction, over a set instead of an operator                                 *)

LEMMA LeastNatural ==
  ASSUME NEW S \in SUBSET Nat, S # {}
  PROVE  \E x \in S : \A y \in S : x <= y
<1>1. PICK x \in S : \A y \in S : <<y, x>> \notin OpToRel(<, Nat)
  BY NatLessThanWellFounded, WFMin
<1>2. \A y \in S : ~(y < x)
  BY <1>1, Zenon DEF OpToRel
<1> QED
  BY <1>2

LEMMA SetInduction ==
  ASSUME NEW T \in SUBSET Nat, 0 \in T, \A n \in T : n + 1 \in T
  PROVE  \A n \in Nat : n \in T
<1> SUFFICES ASSUME Nat \ T # {} PROVE FALSE
  OBVIOUS
<1>1. PICK x \in Nat \ T : \A y \in Nat \ T : x <= y
  BY LeastNatural
<1>2. x # 0 /\ x - 1 \in Nat /\ x - 1 < x
  BY <1>1
<1>3. x - 1 \in T
  BY <1>1, <1>2
<1>4. (x - 1) + 1 \in T /\ (x - 1) + 1 = x
  BY <1>3, <1>2
<1> QED
  BY <1>4

-------------------------------------------------------------------------------
(* Sums of lengths                                                              *)

\* Up to n, f is the sum of the weights w.
Sums(f, w, n) == f[0] = 0 /\ \A k \in 1..n : f[k] = f[k - 1] + w[k]

LEMMA SumsAgree ==
  ASSUME NEW f, NEW g, NEW w, NEW n \in Nat, Sums(f, w, n), Sums(g, w, n)
  PROVE  \A k \in 0..n : f[k] = g[k]
<1> DEFINE T == {k \in Nat : k <= n => f[k] = g[k]}
<1>1. 0 \in T
  BY DEF Sums
<1>2. ASSUME NEW k \in T PROVE k + 1 \in T
  <2>1. k \in Nat /\ (k <= n => f[k] = g[k]) /\ k + 1 \in Nat
    OBVIOUS
  <2>2. CASE k + 1 <= n
    <3>1. k + 1 \in 1..n /\ (k + 1) - 1 = k /\ k <= n
      BY <2>1, <2>2
    <3>2. f[k + 1] = f[k] + w[k + 1] /\ g[k + 1] = g[k] + w[k + 1]
      BY <3>1 DEF Sums
    <3> QED BY <2>1, <3>1, <3>2
  <2> QED BY <2>1, <2>2
<1>3. \A k \in Nat : k \in T
  <2> HIDE DEF T
  <2>1. T \in SUBSET Nat
    BY DEF T
  <2> QED BY <1>1, <1>2, <2>1, SetInduction
<1> QED BY <1>3

LEMMA SumsUpTo ==
  ASSUME NEW w \in [Nat -> Nat]
  PROVE  \A n \in Nat : \E f \in [Nat -> Nat] : Sums(f, w, n)
<1> DEFINE T == {n \in Nat : \E f \in [Nat -> Nat] : Sums(f, w, n)}
<1>1. 0 \in T
  <2>1. Sums([n \in Nat |-> 0], w, 0)
    BY DEF Sums
  <2> QED BY <2>1
<1>2. ASSUME NEW n \in T PROVE n + 1 \in T
  <2>1. n \in Nat /\ n + 1 \in Nat
    OBVIOUS
  <2>2. PICK f \in [Nat -> Nat] : Sums(f, w, n)
    OBVIOUS
  <2> DEFINE g == [f EXCEPT ![n + 1] = f[n] + w[n + 1]]
  <2>3. g \in [Nat -> Nat] /\ g[n + 1] = f[n] + w[n + 1] /\ \A k \in 0..n : g[k] = f[k]
    BY <2>1
  <2>4. ASSUME NEW k \in 1..(n + 1) PROVE g[k] = g[k - 1] + w[k]
    <3>1. CASE k = n + 1
      BY <2>1, <2>3, <3>1
    <3>2. CASE k \in 1..n
      <4>1. k \in 0..n /\ k - 1 \in 0..n
        BY <3>2, <2>1
      <4> QED BY <2>2, <2>3, <3>2, <4>1 DEF Sums
    <3> QED BY <3>1, <3>2, <2>1
  <2>5. Sums(g, w, n + 1)
    BY <2>2, <2>3, <2>4, <2>1 DEF Sums
  <2> HIDE DEF g
  <2> QED BY <2>1, <2>3, <2>5
<1> HIDE DEF T
<1>3. T \in SUBSET Nat
  BY DEF T
<1>4. \A n \in Nat : n \in T
  BY <1>1, <1>2, <1>3, SetInduction
<1> QED BY <1>4 DEF T

LEMMA SumExists ==
  ASSUME NEW w \in [Nat -> Nat]
  PROVE  \E f \in [Nat -> Nat] : \A n \in Nat : f[n] = IF n = 0 THEN 0 ELSE f[n - 1] + w[n]
<1> DEFINE S(n) == CHOOSE f \in [Nat -> Nat] : Sums(f, w, n)
           f == [n \in Nat |-> S(n)[n]]
<1>1. ASSUME NEW n \in Nat PROVE S(n) \in [Nat -> Nat] /\ Sums(S(n), w, n)
  BY SumsUpTo
<1>2. f \in [Nat -> Nat]
  BY <1>1
<1>3. ASSUME NEW n \in Nat, n # 0 PROVE f[n] = f[n - 1] + w[n]
  <2>1. n - 1 \in Nat /\ n \in 1..n /\ n - 1 \in 0..(n - 1)
    BY <1>3
  <2> HIDE DEF S
  <2>2. Sums(S(n), w, n - 1)
    <3>1. \A k \in 1..(n - 1) : k \in 1..n
      BY <2>1
    <3> QED BY <1>1, <3>1 DEF Sums
  <2>3. S(n)[n - 1] = S(n - 1)[n - 1]
    BY <1>1, <2>1, <2>2, SumsAgree
  <2>4. S(n)[n] = S(n)[n - 1] + w[n]
    BY <1>1, <2>1 DEF Sums
  <2> QED BY <2>1, <2>3, <2>4
<1>4. f[0] = 0
  BY <1>1 DEF Sums
<1> HIDE DEF f
<1> QED BY <1>2, <1>3, <1>4

\* The logs of a sequence have lengths; weights are those of the logs among I.
HasLens(s) == Len(s) \in Nat /\ \A i \in 1..Len(s) : s[i].len \in Nat
Weights(s, I) == [n \in Nat |-> IF n \in I THEN s[n].len ELSE 0]

\* Bytes is the sum it reads as.
LEMMA BytesSum ==
  ASSUME NEW s, HasLens(s), NEW I \in SUBSET (1..Len(s))
  PROVE  \E f \in [Nat -> Nat] : Sums(f, Weights(s, I), Len(s)) /\ Bytes(s, I) = f[Len(s)]
<1> DEFINE w == Weights(s, I)
           upto == CHOOSE f : f = [n \in Nat |-> IF n = 0 THEN 0
                                   ELSE f[n - 1] + (IF n \in I THEN s[n].len ELSE 0)]
<1>1. w \in [Nat -> Nat]
  BY DEF Weights, HasLens
<1>2. \A n \in Nat : w[n] = IF n \in I THEN s[n].len ELSE 0
  BY DEF Weights
<1>3. PICK f \in [Nat -> Nat] : \A n \in Nat : f[n] = IF n = 0 THEN 0 ELSE f[n - 1] + w[n]
  <2> HIDE DEF w
  <2> QED BY <1>1, SumExists
<1>4. f = [n \in Nat |-> IF n = 0 THEN 0 ELSE f[n - 1] + (IF n \in I THEN s[n].len ELSE 0)]
  BY <1>2, <1>3
<1>5. upto = [n \in Nat |-> IF n = 0 THEN 0
                                   ELSE upto[n - 1] + (IF n \in I THEN s[n].len ELSE 0)]
  BY <1>4, Zenon
<1>6. Bytes(s, I) = upto[Len(s)]
  BY Zenon DEF Bytes
<1> HIDE DEF upto, w
<1>7. Sums(upto, w, Len(s))
  <2>1. \A n \in Nat : upto[n] = IF n = 0 THEN 0
                                 ELSE upto[n - 1] + (IF n \in I THEN s[n].len ELSE 0)
    BY <1>5, Zenon
  <2>2. upto[0] = 0
    BY <2>1
  <2>3. ASSUME NEW k \in 1..Len(s) PROVE upto[k] = upto[k - 1] + w[k]
    <3>1. k \in Nat /\ k # 0
      BY DEF HasLens
    <3> QED BY <3>1, <2>1, <1>2
  <2> QED BY <2>2, <2>3 DEF Sums
<1>8. Sums(f, w, Len(s))
  <2>1. \A k \in 1..Len(s) : k \in Nat /\ k # 0
    BY DEF HasLens
  <2>2. f[0] = 0 /\ \A k \in 1..Len(s) : f[k] = f[k - 1] + w[k]
    BY <1>3, <2>1
  <2> QED BY <2>2 DEF Sums
<1>9. upto[Len(s)] = f[Len(s)]
  BY <1>7, <1>8, SumsAgree DEF HasLens
<1> QED BY <1>6, <1>8, <1>9 DEF w

\* After the last of I the sum stays as it is.
LEMMA SumsFlat ==
  ASSUME NEW f \in [Nat -> Nat], NEW w, NEW n \in Nat, NEW m \in 0..n, Sums(f, w, n),
         \A k \in (m + 1)..n : w[k] = 0
  PROVE  f[n] = f[m]
<1> DEFINE T == {k \in Nat : m <= k /\ k <= n => f[k] = f[m]}
<1>1. 0 \in T
  OBVIOUS
<1>2. ASSUME NEW k \in T PROVE k + 1 \in T
  <2>1. CASE m <= k /\ k + 1 <= n
    <3>1. f[k] = f[m] /\ k + 1 \in 1..n /\ k + 1 \in (m + 1)..n /\ (k + 1) - 1 = k
      BY <2>1
    <3>2. f[k + 1] = f[k] + w[k + 1] /\ w[k + 1] = 0
      BY <3>1 DEF Sums
    <3>3. f[k] \in Nat
      OBVIOUS
    <3> QED BY <3>1, <3>2, <3>3
  <2>2. CASE k + 1 = m
    BY <2>2
  <2> QED BY <2>1, <2>2
<1>3. \A k \in Nat : k \in T
  <2> HIDE DEF T
  <2>1. T \in SUBSET Nat
    BY DEF T
  <2> QED BY <1>1, <1>2, <2>1, SetInduction
<1> QED BY <1>3

\* The bytes of the first n logs.
First(s, n) == Bytes(s, 1..n)

LEMMA BytesFirst ==
  ASSUME NEW s, HasLens(s), NEW n \in 0..Len(s)
  PROVE  \E f \in [Nat -> Nat] : Sums(f, Weights(s, 1..n), n) /\ First(s, n) = f[n]
<1>0. Len(s) \in Nat /\ n \in Nat /\ 1..n \in SUBSET (1..Len(s))
  BY DEF HasLens
<1>1. PICK f \in [Nat -> Nat] : /\ Sums(f, Weights(s, 1..n), Len(s))
                                /\ Bytes(s, 1..n) = f[Len(s)]
  BY <1>0, BytesSum
<1>2. \A k \in (n + 1)..Len(s) : Weights(s, 1..n)[k] = 0
  BY <1>0 DEF Weights
<1>3. f[Len(s)] = f[n]
  BY <1>0, <1>1, <1>2, SumsFlat
<1>4. Sums(f, Weights(s, 1..n), n)
  BY <1>0, <1>1 DEF Sums
<1> QED BY <1>1, <1>3, <1>4 DEF First

LEMMA BytesNext ==
  ASSUME NEW s, HasLens(s)
  PROVE  /\ \A n \in 0..Len(s) : First(s, n) \in Nat
         /\ First(s, 0) = 0
         /\ \A n \in 1..Len(s) : First(s, n) = First(s, n - 1) + s[n].len
<1>0. Len(s) \in Nat
  BY DEF HasLens
<1>1. \A n \in 0..Len(s) : First(s, n) \in Nat
  <2> TAKE n \in 0..Len(s)
  <2>1. PICK f \in [Nat -> Nat] : First(s, n) = f[n]
    BY BytesFirst, Zenon
  <2> QED BY <2>1, <1>0
<1>2. First(s, 0) = 0
  <2>1. 0 \in 0..Len(s)
    BY <1>0
  <2>2. PICK f \in [Nat -> Nat] : Sums(f, Weights(s, 1..0), 0) /\ First(s, 0) = f[0]
    BY BytesFirst, <2>1, Zenon
  <2> QED BY <2>2 DEF Sums
<1>3. ASSUME NEW n \in 1..Len(s) PROVE First(s, n) = First(s, n - 1) + s[n].len
  <2> DEFINE m == n - 1
  <2>0. n \in Nat /\ m \in Nat /\ m \in 0..Len(s) /\ n \in 0..Len(s) /\ n \in 1..n /\ s[n].len \in Nat
    BY <1>0 DEF HasLens
  <2>1. PICK f \in [Nat -> Nat] : Sums(f, Weights(s, 1..n), n) /\ First(s, n) = f[n]
    BY BytesFirst, <2>0
  <2> HIDE DEF m
  <2>2. PICK g \in [Nat -> Nat] : Sums(g, Weights(s, 1..m), m) /\ First(s, m) = g[m]
    BY BytesFirst, <2>0
  <2>3. Sums(f, Weights(s, 1..n), m)
    BY <2>0, <2>1 DEF Sums, m
  <2>4. \A k \in 1..m : Weights(s, 1..n)[k] = Weights(s, 1..m)[k]
    BY <2>0 DEF Weights, m
  <2>5. f[m] = g[m]
    <3>1. Sums(f, Weights(s, 1..m), m)
      BY <2>0, <2>3, <2>4 DEF Sums
    <3> DEFINE w == Weights(s, 1..m)
    <3>2. Sums(f, w, m) /\ Sums(g, w, m) /\ m \in Nat /\ m \in 0..m
      BY <3>1, <2>0, <2>2
    <3> HIDE DEF w
    <3>3. \A k \in 0..m : f[k] = g[k]
      BY <3>2, SumsAgree
    <3> QED BY <3>2, <3>3
  <2>6. f[n] = f[n - 1] + Weights(s, 1..n)[n]
    BY <2>0, <2>1 DEF Sums
  <2>7. Weights(s, 1..n)[n] = s[n].len
    BY <2>0 DEF Weights
  <2> QED BY <2>1, <2>2, <2>5, <2>6, <2>7 DEF m
<1> QED BY <1>1, <1>2, <1>3

\* The first n logs of t are as long as those of s behind the first k, and take as many bytes.
Follows(t, n, s, k) == \A i \in 1..n : t[i].len = s[k + i].len

LEMMA BytesShift ==
  ASSUME NEW s, HasLens(s), NEW t, HasLens(t), NEW k \in 0..Len(s), NEW n \in 0..Len(t),
         NEW m \in 0..Len(s), m = k + n, Follows(t, n, s, k)
  PROVE  First(s, m) = First(s, k) + First(t, n)
<1>0. Len(s) \in Nat /\ Len(t) \in Nat /\ k \in Nat /\ n \in Nat
  BY DEF HasLens
<1> DEFINE T == {i \in Nat : i <= n => First(s, k + i) = First(s, k) + First(t, i)}
<1>1. 0 \in T
  <2>1. First(t, 0) = 0 /\ First(s, k) \in Nat /\ k + 0 = k
    BY <1>0, BytesNext
  <2> QED BY <2>1
<1>2. ASSUME NEW i \in T PROVE i + 1 \in T
  <2>1. CASE i + 1 <= n
    <3>1. /\ k + (i + 1) \in 1..Len(s) /\ i + 1 \in 1..Len(t) /\ i + 1 \in 1..n
          /\ (k + (i + 1)) - 1 = k + i /\ (i + 1) - 1 = i /\ i \in 0..Len(t)
      BY <1>0, <2>1
    <3> DEFINE a == k + (i + 1)
               b == i + 1
    <3>2. a \in 1..Len(s) /\ b \in 1..Len(t) /\ a - 1 = k + i /\ b - 1 = i
      BY <3>1
    <3> HIDE DEF a, b
    <3>3. First(s, a) = First(s, a - 1) + s[a].len
      BY <3>2, BytesNext
    <3>4. First(t, b) = First(t, b - 1) + t[b].len
      BY <3>2, BytesNext
    <3>5. t[b].len = s[a].len /\ t[b].len \in Nat
      BY <3>1, <3>2 DEF a, b, HasLens, Follows
    <3>6. First(s, k + i) = First(s, k) + First(t, i)
      BY <2>1, <1>0
    <3>7. First(t, i) \in Nat /\ First(s, k) \in Nat
      BY <3>1, BytesNext
    <3>8. First(s, a) = First(s, k) + First(t, b)
      BY <3>2, <3>3, <3>4, <3>5, <3>6, <3>7
    <3> QED BY <3>8, <1>0 DEF a, b
  <2> QED BY <2>1, <1>0
<1>3. \A i \in Nat : i \in T
  <2> HIDE DEF T
  <2>1. T \in SUBSET Nat
    BY DEF T
  <2> QED BY <1>1, <1>2, <2>1, SetInduction
<1> QED BY <1>3, <1>0

\* More logs take more bytes.
LEMMA BytesGrow ==
  ASSUME NEW s, HasLens(s), \A i \in 1..Len(s) : s[i].len > 0,
         NEW m \in 0..Len(s), NEW n \in 0..Len(s), m < n
  PROVE  First(s, m) < First(s, n)
<1>0. Len(s) \in Nat /\ m \in Nat /\ n \in Nat
  BY DEF HasLens
<1> DEFINE T == {i \in Nat : m < i /\ i <= n => First(s, m) < First(s, i)}
<1>1. 0 \in T
  BY <1>0
<1>2. ASSUME NEW i \in T PROVE i + 1 \in T
  <2>1. CASE m < i + 1 /\ i + 1 <= n
    <3> DEFINE b == i + 1
    <3>1. b \in 1..Len(s) /\ b - 1 = i /\ i \in 0..Len(s)
      BY <1>0, <2>1
    <3> HIDE DEF b
    <3>2. First(s, b) = First(s, b - 1) + s[b].len /\ s[b].len \in Nat /\ s[b].len > 0
      BY <3>1, BytesNext DEF HasLens
    <3>3. First(s, i) \in Nat /\ First(s, m) \in Nat
      BY <3>1, BytesNext
    <3>4. i = m \/ First(s, m) < First(s, i)
      BY <2>1, <1>0
    <3>5. First(s, m) < First(s, b)
      BY <3>1, <3>2, <3>3, <3>4
    <3> QED BY <3>5 DEF b
  <2> QED BY <2>1, <1>0
<1>3. \A i \in Nat : i \in T
  <2> HIDE DEF T
  <2>1. T \in SUBSET Nat
    BY DEF T
  <2> QED BY <1>1, <1>2, <2>1, SetInduction
<1> QED BY <1>3, <1>0

-------------------------------------------------------------------------------
(* The invariant                                                                *)

Log == [id : Nat, len : Nat \ {0}, read : BOOLEAN, sent : BOOLEAN]
Piece == [id : Nat, len : Nat, items : Nat]

Typed ==
  /\ use \in Uses
  /\ circ_buffer \in Seq(Log)
  /\ log_read_offset \in Nat /\ dropped_msg_count \in Nat
  /\ triggered \in BOOLEAN /\ num_logs \in Nat /\ trigger_time \in Nat
  /\ pc \in {"idle", "sizing", "reading", "marked"}
  /\ rx \in Seq(Piece)
  /\ read \in Seq(Nat) /\ sent \in Seq(Nat)
  /\ saves \in Nat

Stays == BytesOf(circ_buffer) <= Capacity

\* The ring has logs in the order they were saved in, and the last one saved.
Ordered ==
  /\ \A i \in DOMAIN circ_buffer : circ_buffer[i].id \in 1..saves
  /\ \A i, j \in DOMAIN circ_buffer : i < j => circ_buffer[i].id < circ_buffer[j].id

\* What was given out was saved, and what of it is in the ring is marked so.
GivenOut ==
  /\ \A i \in DOMAIN read : read[i] \in 1..saves
  /\ \A i \in DOMAIN sent : sent[i] \in 1..saves
  /\ cut \in SUBSET (1..saves)
  /\ \A i \in DOMAIN circ_buffer :
       /\ circ_buffer[i].read <=> circ_buffer[i].id \in ToSet(read)
       /\ circ_buffer[i].sent <=> circ_buffer[i].id \in ToSet(sent) \cup cut
\* What a deep sleep lost is not in the ring.
Away == /\ slept \in SUBSET (1..saves)
        /\ \A i \in DOMAIN circ_buffer : circ_buffer[i].id \notin slept

\* The first p logs of the ring were sent, and a collection is of those that follow.
SentUpTo(p) ==
  /\ \A i \in DOMAIN circ_buffer : circ_buffer[i].sent <=> i <= p
  /\ \A i \in DOMAIN sent, j \in DOMAIN circ_buffer : p < j => sent[i] < circ_buffer[j].id
  /\ triggered /\ pc # "marked" => p + num_logs <= Len(circ_buffer)
  /\ lock # "free" => p < Len(circ_buffer)
\* What the drain has of a message are the first logs of the collection; it gets them all
\* when it sized the message from fields that were all set.
Reading(p) ==
  pc = "reading" =>
    /\ Len(rx) <= num_logs
    /\ \A k \in DOMAIN rx : /\ rx[k].id = circ_buffer[p + k].id
                            /\ rx[k].len = circ_buffer[p + k].len
    /\ ~torn =>
         /\ ~spoilt
         /\ total_size = trigger_time + (First(circ_buffer, p + num_logs) - First(circ_buffer, p))
\* The trigger is over before a message is sized.
Holding ==
  /\ num_logs # 0 <=> triggered /\ lock = "free"
  /\ lock # "free" => triggered /\ pc \in {"idle", "sizing"}
Collecting ==
  /\ pc # "idle" => triggered
  /\ pc \in {"idle", "sizing"} => rx = <<>> /\ ~spoilt
  /\ \E p \in 0..Len(circ_buffer) : SentUpTo(p) /\ Reading(p)
SentInOrder == \A i, j \in DOMAIN sent : i < j => sent[i] < sent[j]

Lost == 1..saves \ (ToSet(read) \cup ToSet(sent) \cup cut \cup slept
                      \cup {circ_buffer[i].id : i \in DOMAIN circ_buffer})

\* The backup is of a ring that was as all of this says, and no deep sleep came since.
Copied ==
  /\ backup.circ_buffer \in Seq(Log)
  /\ backup.log_read_offset \in Nat /\ backup.dropped_msg_count \in Nat
  /\ backup.read \in Seq(Nat) /\ backup.sent \in Seq(Nat)
  /\ backup.saves \in 0..saves
  /\ BytesOf(backup.circ_buffer) <= Capacity
CopiedInOrder ==
  /\ \A i \in DOMAIN backup.circ_buffer : backup.circ_buffer[i].id \in 1..backup.saves
  /\ \A i, j \in DOMAIN backup.circ_buffer :
       i < j => backup.circ_buffer[i].id < backup.circ_buffer[j].id
  /\ \A i, j \in DOMAIN backup.sent : i < j => backup.sent[i] < backup.sent[j]
CopiedGiven ==
  /\ \A i \in DOMAIN backup.read : backup.read[i] \in 1..backup.saves
  /\ \A i \in DOMAIN backup.sent : backup.sent[i] \in 1..backup.saves
  /\ backup.cut \in SUBSET (1..backup.saves)
  /\ \A i \in DOMAIN backup.circ_buffer :
       /\ backup.circ_buffer[i].read <=> backup.circ_buffer[i].id \in ToSet(backup.read)
       /\ backup.circ_buffer[i].sent <=>
            backup.circ_buffer[i].id \in ToSet(backup.sent) \cup backup.cut
       /\ backup.circ_buffer[i].id \notin slept
  /\ \E p \in 0..Len(backup.circ_buffer) :
       /\ \A i \in DOMAIN backup.circ_buffer : backup.circ_buffer[i].sent <=> i <= p
       /\ \A i \in DOMAIN backup.sent, j \in DOMAIN backup.circ_buffer :
            p < j => backup.sent[i] < backup.circ_buffer[j].id
CopiedCounted ==
  backup.dropped_msg_count =
    Cardinality(1..backup.saves \ (ToSet(backup.read) \cup ToSet(backup.sent) \cup backup.cut
      \cup slept \cup {backup.circ_buffer[i].id : i \in DOMAIN backup.circ_buffer}))
BackedUp == log_magic => Copied /\ CopiedInOrder /\ CopiedGiven /\ CopiedCounted

IInv == /\ Typed /\ Stays /\ Ordered /\ GivenOut /\ Away /\ Holding /\ Collecting /\ SentInOrder
        /\ DropsCounted /\ BackedUp

\* Where nothing is sent the first r logs of the ring were read, and the reader is behind them.
ReadUpTo(r) ==
  /\ \A i \in DOMAIN circ_buffer : circ_buffer[i].read <=> i <= r
  /\ log_read_offset = First(circ_buffer, r)
  /\ \A i \in DOMAIN read, j \in DOMAIN circ_buffer : r < j => read[i] < circ_buffer[j].id
ReadAlone ==
  use = {"read"} =>
    /\ ~triggered /\ deciding = {} /\ sent = <<>> /\ cut = {}
    /\ \E r \in 0..Len(circ_buffer) : ReadUpTo(r)
    /\ \A i, j \in DOMAIN read : i < j => read[i] < read[j]
CopiedUpTo(r) ==
  /\ \A i \in DOMAIN backup.circ_buffer : backup.circ_buffer[i].read <=> i <= r
  /\ backup.log_read_offset = First(backup.circ_buffer, r)
  /\ \A i \in DOMAIN backup.read, j \in DOMAIN backup.circ_buffer :
       r < j => backup.read[i] < backup.circ_buffer[j].id
CopiedAlone ==
  use = {"read"} /\ log_magic =>
    /\ backup.sent = <<>> /\ backup.cut = {}
    /\ \E r \in 0..Len(backup.circ_buffer) : CopiedUpTo(r)
    /\ \A i, j \in DOMAIN backup.read : i < j => backup.read[i] < backup.read[j]

-------------------------------------------------------------------------------
(* The ring                                                                     *)

LEMMA LogsHaveLens ==
  ASSUME NEW s \in Seq(Log)
  PROVE  /\ HasLens(s) /\ \A i \in 1..Len(s) : s[i].len > 0 /\ s[i] \in Log
         /\ DOMAIN s = 1..Len(s) /\ Len(s) \in Nat
         /\ BytesOf(s) = First(s, Len(s)) /\ BytesOf(s) \in Nat
<1>1. DOMAIN s = 1..Len(s) /\ Len(s) \in Nat /\ \A i \in 1..Len(s) : s[i] \in Log
  OBVIOUS
<1>2. HasLens(s) /\ \A i \in 1..Len(s) : s[i].len > 0
  BY <1>1 DEF HasLens, Log
<1>3. BytesOf(s) = First(s, Len(s))
  BY <1>1 DEF BytesOf, First
<1>4. Len(s) \in 0..Len(s)
  BY <1>1
<1>5. First(s, Len(s)) \in Nat
  BY <1>2, <1>4, BytesNext
<1> QED BY <1>1, <1>2, <1>3, <1>5

\* What is left when the first k logs give way to e.
LEMMA Evicted ==
  ASSUME NEW s \in Seq(Log), NEW k \in 0..Len(s), NEW e \in Log
  PROVE  LET t == Append(SubSeq(s, k + 1, Len(s)), e)
         IN /\ t \in Seq(Log) /\ Len(t) = Len(s) - k + 1
            /\ \A i \in 1..(Len(s) - k) : t[i] = s[k + i]
            /\ t[Len(s) - k + 1] = e
<1> DEFINE m == Len(s)
           r == SubSeq(s, k + 1, m)
           t == Append(r, e)
<1>1. m \in Nat /\ k \in 0..m /\ m - k \in Nat /\ \A i \in 1..m : s[i] \in Log
  OBVIOUS
<1>2. r \in Seq(Log) /\ Len(r) = m - k /\ \A i \in 1..(m - k) : r[i] = s[k + i]
  <2>1. r = [i \in 1..(m - k) |-> s[k + i]]
    BY <1>1
  <2>2. \A i \in 1..(m - k) : k + i \in 1..m
    BY <1>1
  <2> HIDE DEF r, m
  <2>3. r \in [1..(m - k) -> Log]
    BY <1>1, <2>1, <2>2
  <2>4. r \in Seq(Log) /\ Len(r) = m - k
    BY <1>1, <2>3
  <2> QED BY <2>1, <2>4
<1> HIDE DEF r
<1>3. /\ t \in Seq(Log) /\ Len(t) = Len(r) + 1 /\ \A i \in 1..Len(r) : t[i] = r[i]
      /\ t[Len(r) + 1] = e
  BY <1>2
<1> HIDE DEF t, m
<1>4. /\ t \in Seq(Log) /\ Len(t) = m - k + 1
      /\ \A i \in 1..(m - k) : t[i] = s[k + i]
      /\ t[m - k + 1] = e
  BY <1>1, <1>2, <1>3
<1> QED BY <1>4 DEF t, r, m

LEMMA Room ==
  ASSUME Typed, Stays, NEW len \in Lens, NEW k \in TryFree(len)
  PROVE  /\ k \in 0..Len(circ_buffer)
         /\ triggered => k = 0
         /\ BytesOf(circ_buffer) - First(circ_buffer, k) + len <= Capacity
<1> DEFINE s == circ_buffer
           total == BytesOf(circ_buffer)
<1>0. s \in Seq(Log) /\ total <= Capacity
  BY DEF Typed, Stays
<1>1. /\ HasLens(s) /\ DOMAIN s = 1..Len(s) /\ Len(s) \in Nat
      /\ total = First(s, Len(s)) /\ total \in Nat
  BY <1>0, LogsHaveLens
<1>2. len \in Nat /\ Capacity \in Nat
  BY LensAssumption
<1>3. First(s, 0) = 0
  BY <1>1, BytesNext
<1>4. Free = Capacity - total
  BY DEF Free
<1> HIDE DEF total
<1>5. CASE len <= Free
  <2>1. k = 0
    BY <1>5 DEF TryFree
  <2> QED BY <1>1, <1>2, <1>3, <1>4, <1>5, <2>1 DEF total
<1>6. CASE ~(len <= Free)
  <2> DEFINE K == {j \in DOMAIN s : First(s, j) >= len - Free}
  <2>1. len <= Capacity /\ ~triggered /\ k = Min(K)
    BY <1>2, <1>6 DEF TryFree, First
  <2>2. Len(s) \in K
    <3>1. Len(s) # 0
      BY <1>1, <1>2, <1>3, <1>4, <1>6, <2>1
    <3>2. First(s, Len(s)) >= len - Free
      BY <1>1, <1>2, <1>4, <2>1
    <3> QED BY <1>1, <3>1, <3>2
  <2>3. K \in SUBSET Nat /\ K # {}
    BY <1>1, <2>2
  <2> HIDE DEF K
  <2>4. Min(K) \in K
    <3>1. \E x \in K : \A y \in K : x <= y
      BY <2>3, LeastNatural
    <3> QED BY <3>1 DEF Min
  <2>5. k \in 1..Len(s) /\ First(s, k) >= len - Free
    BY <1>1, <2>1, <2>4 DEF K
  <2>6. First(s, k) \in Nat
    BY <1>1, <2>5, BytesNext
  <2>7. total - First(s, k) + len <= Capacity
    <3> DEFINE b == First(s, k)
    <3>1. b \in Nat /\ b >= len - (Capacity - total) /\ total \in Nat
      BY <1>1, <1>4, <2>5, <2>6
    <3> HIDE DEF b
    <3>2. total - b + len <= Capacity
      BY <3>1, <1>2
    <3> QED BY <3>2 DEF b
  <2> QED BY <2>1, <2>5, <2>7 DEF total
<1> QED BY <1>5, <1>6

-------------------------------------------------------------------------------
(* A log is saved                                                               *)

\* The first k logs gave way to a new one.
Saves(len, k) ==
  /\ k \in 0..Len(circ_buffer) /\ (triggered => k = 0)
  /\ saves' = saves + 1
  /\ circ_buffer' \in Seq(Log) /\ Len(circ_buffer') = Len(circ_buffer) - k + 1
  /\ \A i \in 1..(Len(circ_buffer) - k) : circ_buffer'[i] = circ_buffer[k + i]
  /\ circ_buffer'[Len(circ_buffer) - k + 1] =
       [id |-> saves + 1, len |-> len, read |-> FALSE, sent |-> FALSE]
OthersKept == UNCHANGED <<use, source, deciding, drain, given, sleep>>

LEMMA SaveCases ==
  ASSUME Typed, Stays, NEW len \in Lens, log_save(len)
  PROVE  /\ OthersKept /\ saves' = saves + 1
         /\ \/ \E k \in TryFree(len) : Saves(len, k) /\ Evict(k)
            \/ /\ dropped_msg_count' = dropped_msg_count + 1
               /\ circ_buffer' = circ_buffer /\ log_read_offset' = log_read_offset
<1>1. OthersKept /\ saves' = saves + 1
  BY DEF log_save, OthersKept
<1>2. ASSUME NEW k \in TryFree(len), Evict(k),
             circ_buffer' = Append(SubSeq(circ_buffer, k + 1, Len(circ_buffer)),
                                   [id |-> saves', len |-> len, read |-> FALSE, sent |-> FALSE])
      PROVE  Saves(len, k)
  <2> DEFINE e == [id |-> saves + 1, len |-> len, read |-> FALSE, sent |-> FALSE]
  <2>1. k \in 0..Len(circ_buffer) /\ (triggered => k = 0)
    BY Room
  <2>2. e \in Log /\ circ_buffer \in Seq(Log)
    BY LensAssumption DEF Typed, Log, Entry
  <2>3. circ_buffer' = Append(SubSeq(circ_buffer, k + 1, Len(circ_buffer)), e)
    BY <1>1, <1>2
  <2> HIDE DEF e
  <2>4. /\ circ_buffer' \in Seq(Log) /\ Len(circ_buffer') = Len(circ_buffer) - k + 1
        /\ \A i \in 1..(Len(circ_buffer) - k) : circ_buffer'[i] = circ_buffer[k + i]
        /\ circ_buffer'[Len(circ_buffer) - k + 1] = e
    BY <2>1, <2>2, <2>3, Evicted
  <2> QED BY <1>1, <2>1, <2>4 DEF Saves, e
<1>3. CASE TryFree(len) = {}
  BY <1>1, <1>3 DEF log_save
<1>4. CASE TryFree(len) # {}
  BY <1>1, <1>2, <1>4 DEF log_save
<1> QED BY <1>3, <1>4

\* The first k logs are out and one of len bytes is in.
LEMMA BytesReplaced ==
  ASSUME NEW s, HasLens(s), NEW t, HasLens(t), NEW k \in 0..Len(s), NEW n \in 0..Len(t),
         NEW m \in 0..Len(s), m = k + n, Follows(t, n, s, k), NEW e \in 1..Len(t), e - 1 = n
  PROVE  /\ First(t, e) = First(s, m) - First(s, k) + t[e].len
         /\ First(s, k) \in Nat /\ First(s, m) \in Nat
<1>1. First(s, m) = First(s, k) + First(t, n)
  BY BytesShift
<1>2. First(t, e) = First(t, e - 1) + t[e].len
  BY BytesNext
<1>3. First(s, k) \in Nat /\ First(s, m) \in Nat
  BY BytesNext
<1>4. First(t, n) \in Nat /\ t[e].len \in Nat
  BY BytesNext DEF HasLens
<1> QED BY <1>1, <1>2, <1>3, <1>4

LEMMA SaveStays ==
  ASSUME Typed, Stays, NEW len \in Lens, NEW k \in TryFree(len), Saves(len, k)
  PROVE  Stays'
<1> DEFINE s == circ_buffer
           t == circ_buffer'
           m == Len(s)
           n == Len(s) - k
           e == Len(t)
<1>1. s \in Seq(Log) /\ t \in Seq(Log)
  BY DEF Typed, Saves
<1>2. /\ HasLens(s) /\ Len(s) \in Nat /\ BytesOf(s) = First(s, Len(s))
      /\ HasLens(t) /\ Len(t) \in Nat /\ BytesOf(t) = First(t, Len(t))
  BY <1>1, LogsHaveLens
<1>3. k \in 0..Len(s) /\ Len(t) = Len(s) - k + 1 /\ t[Len(s) - k + 1].len = len
  BY DEF Saves
<1>4. Follows(t, n, s, k)
  BY DEF Saves, Follows
<1>5. /\ n \in 0..Len(t) /\ m \in 0..Len(s) /\ m = k + n /\ e \in 1..Len(t) /\ e - 1 = n
      /\ t[e].len = len
  <2>1. e = n + 1 /\ n \in Nat /\ m = k + n
    BY <1>2, <1>3
  <2>2. t[e].len = len
    BY <1>3
  <2> QED BY <1>2, <2>1, <2>2
<1>6. m = Len(s) /\ e = Len(t)
  OBVIOUS
<1>7. len \in Nat /\ Capacity \in Nat
  BY LensAssumption
<1>8. BytesOf(s) - First(s, k) + len <= Capacity
  BY Room
<1> HIDE DEF s, t, m, n, e
<1>9. /\ First(t, e) = First(s, m) - First(s, k) + t[e].len
      /\ First(s, k) \in Nat /\ First(s, m) \in Nat
  <2>1. HasLens(s) /\ HasLens(t) /\ k \in 0..Len(s) /\ Follows(t, n, s, k)
    BY <1>2, <1>3, <1>4
  <2> QED BY <2>1, <1>5, BytesReplaced
<1>10. BytesOf(t) <= Capacity
  <2> DEFINE old == BytesOf(s)
             out == First(s, k)
  <2>1. old = First(s, m) /\ BytesOf(t) = First(t, e)
    BY <1>2, <1>6
  <2>2. BytesOf(t) = old - out + len /\ old \in Nat /\ out \in Nat
    BY <1>5, <1>9, <2>1
  <2>3. old - out + len <= Capacity
    BY <1>8
  <2> HIDE DEF old, out
  <2> QED BY <2>2, <2>3
<1> QED BY <1>10 DEF Stays, t

\* The bytes and the number of the logs evicted.
LEMMA EvictTyped ==
  ASSUME Typed, Stays, NEW len \in Lens, NEW k \in TryFree(len), Evict(k), saves < MaxLogs
  PROVE  /\ log_read_offset' \in Nat
         /\ IsFiniteSet(Marked(1..k)) /\ Cardinality(Marked(1..k)) \in 0..k
         /\ dropped_msg_count' = dropped_msg_count + (k - Cardinality(Marked(1..k)))
         /\ dropped_msg_count' \in Nat
<1>1. k \in 0..Len(circ_buffer) /\ Len(circ_buffer) \in Nat
  BY Room, LogsHaveLens DEF Typed
<1>2. IsFiniteSet(1..k) /\ Cardinality(1..k) = k
  BY <1>1, FS_Interval
<1>3. Marked(1..k) \in SUBSET (1..k)
  BY DEF Marked
<1>4. /\ IsFiniteSet(Marked(1..k)) /\ Cardinality(Marked(1..k)) \in Nat
      /\ Cardinality(Marked(1..k)) <= k
  BY <1>2, <1>3, FS_Subset, FS_CardinalityType
<1>5. Cardinality(Marked(1..k)) \in 0..k
  BY <1>1, <1>4
<1>6. Width \in Nat \ {0}
  <2> DEFINE most == MaxLogs * len
  <2>1. MaxLogs \in Nat /\ len \in Nat /\ Capacity \in Nat /\ Width \in Nat
    BY LensAssumption, WidthAssumption
  <2>2. most \in Nat /\ most + Capacity < Width
    BY <2>1, WidthAssumption
  <2> HIDE DEF most
  <2> QED BY <2>1, <2>2
<1>7. log_read_offset' \in Nat
  <2> DEFINE b == Bytes(circ_buffer, Marked(1..k))
  <2>1. b \in Nat
    <3>1. HasLens(circ_buffer) /\ Marked(1..k) \in SUBSET (1..Len(circ_buffer))
      BY <1>1, <1>3, LogsHaveLens DEF Typed
    <3>2. PICK f \in [Nat -> Nat] : Bytes(circ_buffer, Marked(1..k)) = f[Len(circ_buffer)]
      BY <3>1, BytesSum, Zenon
    <3> QED BY <3>2, <1>1
  <2>2. log_read_offset' = (log_read_offset + Width - b) % Width
    BY DEF Evict
  <2> HIDE DEF b
  <2> QED BY <1>6, <2>1, <2>2 DEF Typed
<1>8. /\ dropped_msg_count' = dropped_msg_count + (k - Cardinality(Marked(1..k)))
      /\ dropped_msg_count' \in Nat
  <2> DEFINE c == Cardinality(Marked(1..k))
  <2>1. dropped_msg_count' = dropped_msg_count + k - c
    BY DEF Evict
  <2>2. dropped_msg_count \in Nat /\ k \in Nat /\ c \in 0..k
    BY <1>1, <1>5 DEF Typed
  <2> HIDE DEF c
  <2>3. dropped_msg_count' = dropped_msg_count + (k - c) /\ dropped_msg_count' \in Nat
    BY <2>1, <2>2
  <2> QED BY <2>3 DEF c
<1> QED BY <1>4, <1>5, <1>7, <1>8
LEMMA BytesSame ==
  ASSUME NEW s, HasLens(s), NEW t, HasLens(t), NEW n \in 0..Len(s), n \in 0..Len(t),
         \A i \in 1..n : t[i].len = s[i].len
  PROVE  First(t, n) = First(s, n)
<1>1. Len(s) \in Nat /\ Len(t) \in Nat
  BY DEF HasLens
<1> DEFINE k == 0
<1>2. k \in 0..Len(s) /\ n = k + n
  BY <1>1
<1>3. Follows(t, n, s, k)
  BY <1>1 DEF Follows
<1>4. First(s, k) = 0 /\ First(t, n) \in Nat
  BY BytesNext
<1> HIDE DEF k
<1>5. First(s, n) = First(s, k) + First(t, n)
  BY <1>2, <1>3, BytesShift
<1> QED BY <1>4, <1>5

LEMMA SaveOrdered ==
  ASSUME IInv, NEW len, NEW k, Saves(len, k), OthersKept
  PROVE  Ordered' /\ GivenOut' /\ Away'
<1> DEFINE s == circ_buffer
           t == circ_buffer'
           n == Len(s) - k
<1>1. /\ DOMAIN s = 1..Len(s) /\ Len(s) \in Nat /\ k \in 0..Len(s) /\ n \in Nat
      /\ DOMAIN t = 1..(n + 1) /\ saves \in Nat /\ saves' = saves + 1
  BY LogsHaveLens DEF IInv, Typed, Saves
<1>2. \A i \in 1..n : t[i] = s[k + i] /\ k + i \in DOMAIN s
  BY <1>1 DEF Saves
<1>3. t[n + 1] = [id |-> saves + 1, len |-> len, read |-> FALSE, sent |-> FALSE]
  BY DEF Saves
<1>4. \A i \in DOMAIN t : i \in 1..n \/ i = n + 1
  BY <1>1
<1>5. Ordered'
  <2>1. ASSUME NEW i \in DOMAIN t PROVE t[i].id \in 1..(saves + 1)
    <3>1. CASE i \in 1..n
      BY <1>1, <1>2, <3>1 DEF IInv, Ordered
    <3>2. CASE i = n + 1
      BY <1>1, <1>3, <3>2
    <3> QED BY <1>4, <3>1, <3>2
  <2>2. ASSUME NEW i \in DOMAIN t, NEW j \in DOMAIN t, i < j PROVE t[i].id < t[j].id
    <3>1. i \in 1..n
      BY <1>1, <2>2
    <3>2. t[i].id = s[k + i].id /\ s[k + i].id \in 1..saves
      BY <1>2, <3>1 DEF IInv, Ordered
    <3>3. CASE j \in 1..n
      <4>1. k + i \in DOMAIN s /\ k + j \in DOMAIN s /\ k + i < k + j /\ t[j].id = s[k + j].id
        BY <1>1, <1>2, <2>2, <3>1, <3>3
      <4> QED BY <3>2, <4>1 DEF IInv, Ordered
    <3>4. CASE j = n + 1
      BY <1>1, <1>3, <3>2, <3>4
    <3> QED BY <1>4, <3>3, <3>4
  <2> QED BY <1>1, <2>1, <2>2 DEF Ordered
<1>6. GivenOut'
  <2>1. read' = read /\ sent' = sent /\ cut' = cut
    BY DEF OthersKept, given
  <2>2. /\ \A i \in DOMAIN read : read[i] \in 1..saves
        /\ \A i \in DOMAIN sent : sent[i] \in 1..saves
        /\ cut \in SUBSET (1..saves)
    BY DEF IInv, GivenOut
  <2>3. saves + 1 \notin ToSet(read) /\ saves + 1 \notin ToSet(sent) /\ saves + 1 \notin cut
    BY <1>1, <2>2 DEF ToSet
  <2>4. ASSUME NEW i \in DOMAIN t
        PROVE  /\ t[i].read <=> t[i].id \in ToSet(read)
               /\ t[i].sent <=> t[i].id \in ToSet(sent) \cup cut
    <3>1. CASE i \in 1..n
      BY <1>2, <3>1 DEF IInv, GivenOut
    <3>2. CASE i = n + 1
      BY <1>3, <2>3, <3>2
    <3> QED BY <1>4, <3>1, <3>2
  <2>5. \A x \in 1..saves : x \in 1..(saves + 1)
    BY <1>1
  <2>6. cut \in SUBSET (1..(saves + 1))
    BY <2>2, <2>5, <1>1
  <2> HIDE DEF t
  <2> QED BY <1>1, <2>1, <2>2, <2>4, <2>5, <2>6 DEF GivenOut, t
<1>7. Away'
  <2>1. slept' = slept
    BY DEF OthersKept, sleep
  <2>2. slept \in SUBSET (1..saves) /\ \A i \in DOMAIN s : s[i].id \notin slept
    BY DEF IInv, Away
  <2>3. slept \in SUBSET (1..(saves + 1)) /\ saves + 1 \notin slept
    BY <1>1, <2>2
  <2>4. ASSUME NEW i \in DOMAIN t PROVE t[i].id \notin slept
    <3>1. CASE i \in 1..n
      BY <1>2, <2>2, <3>1
    <3>2. CASE i = n + 1
      BY <1>3, <2>3, <3>2
    <3> QED BY <1>4, <3>1, <3>2
  <2> QED BY <1>1, <2>1, <2>3, <2>4 DEF Away
<1> QED BY <1>5, <1>6, <1>7

LEMMA SaveCollecting ==
  ASSUME IInv, NEW len, NEW k, Saves(len, k), OthersKept
  PROVE  Collecting'
<1> DEFINE s == circ_buffer
           t == circ_buffer'
           n == Len(s) - k
<1>1. /\ DOMAIN s = 1..Len(s) /\ Len(s) \in Nat /\ k \in 0..Len(s) /\ n \in Nat
      /\ DOMAIN t = 1..(n + 1) /\ Len(t) = n + 1 /\ saves \in Nat /\ num_logs \in Nat
      /\ HasLens(s) /\ HasLens(t)
  BY LogsHaveLens DEF IInv, Typed, Saves
<1>2. \A i \in 1..n : t[i] = s[k + i] /\ k + i \in DOMAIN s
  BY <1>1 DEF Saves
<1>3. t[n + 1].id = saves + 1 /\ ~t[n + 1].sent
  BY DEF Saves
<1>4. /\ UNCHANGED <<triggered, num_logs, trigger_time, lock, sent, pc, total_size, rx, torn, spoilt>>
      /\ triggered => k = 0
      /\ lock # "free" => triggered
  BY DEF OthersKept, source, given, drain, Saves, IInv, Holding
<1>5. PICK p \in 0..Len(s) : SentUpTo(p) /\ Reading(p)
  BY DEF IInv, Collecting
<1> DEFINE q == IF k >= p THEN 0 ELSE p - k
<1>6. q \in 0..Len(t) /\ q <= n /\ (triggered => q = p) /\ \A i \in 1..n : i <= q <=> k + i <= p
  BY <1>1, <1>4
<1>7. SentUpTo(q)'
  <2>1. ASSUME NEW j \in DOMAIN t PROVE t[j].sent <=> j <= q
    <3>1. CASE j \in 1..n
      BY <1>2, <1>5, <1>6, <3>1 DEF SentUpTo
    <3>2. CASE j = n + 1
      BY <1>1, <1>3, <1>6, <3>2
    <3> QED BY <1>1, <3>1, <3>2
  <2>2. ASSUME NEW i \in DOMAIN sent, NEW j \in DOMAIN t, q < j PROVE sent[i] < t[j].id
    <3>1. CASE j \in 1..n
      <4>1. p < k + j
        BY <1>1, <1>6, <2>2, <3>1
      <4> QED BY <1>2, <1>5, <3>1, <4>1 DEF SentUpTo
    <3>2. CASE j = n + 1
      <4>1. sent[i] \in 1..saves
        BY DEF IInv, GivenOut
      <4> QED BY <1>1, <1>3, <3>2, <4>1
    <3> QED BY <1>1, <3>1, <3>2
  <2>3. triggered /\ pc # "marked" => q + num_logs <= Len(t)
    <3> SUFFICES ASSUME triggered, pc # "marked" PROVE q + num_logs <= Len(t)
      OBVIOUS
    <3>1. p + num_logs <= Len(s) /\ q = p /\ k = 0
      BY <1>4, <1>5, <1>6 DEF SentUpTo
    <3> QED BY <1>1, <3>1
  <2>4. lock # "free" => q < Len(t)
    <3>1. lock # "free" => p < Len(s) /\ q = p /\ k = 0
      BY <1>4, <1>5, <1>6 DEF SentUpTo
    <3> QED BY <1>1, <3>1
  <2> HIDE DEF q
  <2> QED BY <1>4, <2>1, <2>2, <2>3, <2>4 DEF SentUpTo
<1>8. Reading(q)'
  <2> SUFFICES ASSUME pc = "reading" PROVE Reading(q)'
    BY <1>4 DEF Reading
  <2>1. triggered /\ q = p /\ k = 0 /\ p + num_logs \in 0..Len(s) /\ p \in 0..Len(s)
    BY <1>1, <1>4, <1>5, <1>6 DEF IInv, Collecting, SentUpTo
  <2>2. n = Len(s) /\ \A i \in 1..Len(s) : t[i] = s[i]
    BY <1>1, <1>2, <2>1
  <2> DEFINE a == p + num_logs
  <2>3. a \in 0..Len(s) /\ a \in 0..Len(t) /\ p \in 0..Len(t)
    BY <1>1, <2>1
  <2> HIDE DEF a
  <2>4. ASSUME NEW i \in 1..a PROVE t[i].len = s[i].len
    <3>1. i \in 1..Len(s)
      BY <1>1, <2>3
    <3> QED BY <2>2, <3>1
  <2>5. ASSUME NEW i \in 1..p PROVE t[i].len = s[i].len
    <3>1. i \in 1..Len(s)
      BY <1>1, <2>3
    <3> QED BY <2>2, <3>1
  <2>6. First(t, a) = First(s, a)
    BY <1>1, <2>3, <2>4, BytesSame
  <2>7. First(t, p) = First(s, p)
    BY <1>1, <2>1, <2>3, <2>5, BytesSame
  <2>8. /\ ~torn => ~spoilt /\ total_size = trigger_time + (First(s, a) - First(s, p))
        /\ Len(rx) <= num_logs
        /\ \A j \in DOMAIN rx : rx[j].id = s[p + j].id /\ rx[j].len = s[p + j].len
    BY <1>5 DEF Reading, a
  <2>9. \A j \in DOMAIN rx : t[p + j] = s[p + j]
    <3>1. DOMAIN rx = 1..Len(rx) /\ Len(rx) \in Nat
      BY DEF IInv, Typed
    <3>2. \A j \in DOMAIN rx : p + j \in 1..Len(s)
      BY <1>1, <2>1, <2>8, <3>1
    <3> QED BY <2>2, <3>2
  <2> HIDE DEF q
  <2>10. q = p
    BY <2>1
  <2> QED BY <1>4, <2>6, <2>7, <2>8, <2>9, <2>10 DEF Reading, a
<1>9. (pc' # "idle" => triggered') /\ (pc' \in {"idle", "sizing"} => rx' = <<>> /\ ~spoilt')
  BY <1>4 DEF IInv, Collecting
<1> HIDE DEF q
<1> QED BY <1>6, <1>7, <1>8, <1>9 DEF Collecting

LEMMA LostTyped ==
  ASSUME Typed
  PROVE  IsFiniteSet(Lost) /\ Lost \subseteq 1..saves /\ (DropsCounted <=> dropped_msg_count = Cardinality(Lost))
<1>1. IsFiniteSet(1..saves) /\ Lost \in SUBSET (1..saves)
  BY FS_Interval DEF Typed, Lost
<1>2. IsFiniteSet(Lost)
  BY <1>1, FS_Subset
<1> QED BY <1>1, <1>2 DEF DropsCounted, Lost

\* Logs evicted that were neither read nor sent are lost, each of them once.
LEMMA EvictCounts ==
  ASSUME IInv, NEW len \in Lens, NEW k \in TryFree(len), Saves(len, k), OthersKept, Evict(k),
         saves < MaxLogs
  PROVE  dropped_msg_count' = Cardinality(Lost')
<1> DEFINE s == circ_buffer
           t == circ_buffer'
           n == Len(s) - k
           U == 1..k \ Marked(1..k)
           gone == [i \in U |-> s[i].id]
           Gone == {s[i].id : i \in U}
<1>1. /\ DOMAIN s = 1..Len(s) /\ Len(s) \in Nat /\ k \in 0..Len(s) /\ n \in Nat
      /\ DOMAIN t = 1..(n + 1) /\ saves \in Nat /\ saves' = saves + 1
  BY LogsHaveLens DEF IInv, Typed, Saves
<1>2. /\ IsFiniteSet(Marked(1..k)) /\ Cardinality(Marked(1..k)) \in 0..k
      /\ dropped_msg_count' = dropped_msg_count + (k - Cardinality(Marked(1..k)))
  BY EvictTyped DEF IInv
<1>3. U \subseteq DOMAIN s /\ U \subseteq 1..k /\ \A i \in U : ~s[i].read /\ ~s[i].sent
  BY <1>1 DEF Marked
<1>4. IsFiniteSet(U) /\ Cardinality(U) = k - Cardinality(Marked(1..k))
  <2>1. IsFiniteSet(1..k) /\ Cardinality(1..k) = k
    BY <1>1, FS_Interval
  <2> DEFINE S == 1..k
             T == Marked(1..k)
  <2>2. S \cap T = T
    BY DEF Marked
  <2>3. IsFiniteSet(S) /\ Cardinality(S) = k
    BY <2>1
  <2> HIDE DEF S, T
  <2>4. IsFiniteSet(S \ T) /\ Cardinality(S \ T) = Cardinality(S) - Cardinality(S \cap T)
    BY <2>3, FS_Difference, Zenon
  <2>5. IsFiniteSet(S \ T) /\ Cardinality(S \ T) = k - Cardinality(T)
    BY <2>2, <2>3, <2>4
  <2> QED BY <2>5 DEF S, T
<1>5. IsFiniteSet(Gone) /\ Cardinality(Gone) = Cardinality(U)
  <2>1. gone \in [U -> Gone]
    OBVIOUS
  <2>2. ASSUME NEW i \in U, NEW j \in U, gone[i] = gone[j] PROVE i = j
    <3>1. i \in DOMAIN s /\ j \in DOMAIN s /\ s[i].id = s[j].id
      BY <1>3, <2>2
    <3>2. s[i].id \in 1..saves /\ s[j].id \in 1..saves
      BY <3>1 DEF IInv, Ordered
    <3>3. ~(i < j) /\ ~(j < i)
      BY <1>1, <3>1, <3>2 DEF IInv, Ordered
    <3> QED BY <1>1, <3>1, <3>3
  <2>3. \A x \in Gone : \E i \in U : gone[i] = x
    OBVIOUS
  <2>4. gone \in Bijection(U, Gone)
    BY <2>1, <2>2, <2>3 DEF Bijection, Injection, Surjection, IsInjective
  <2> HIDE DEF gone, Gone, U
  <2> QED BY <1>4, <2>4, FS_Bijection DEF ExistsBijection
<1>6. /\ \A i \in 1..n : t[i] = s[k + i] /\ k + i \in DOMAIN s
      /\ t[n + 1].id = saves + 1
  BY <1>1 DEF Saves
<1>7. read' = read /\ sent' = sent /\ cut' = cut /\ slept' = slept
  BY DEF OthersKept, given, sleep
<1> DEFINE Out == ToSet(read) \cup ToSet(sent) \cup cut \cup slept
           Ids == {s[i].id : i \in DOMAIN s}
           IdsNext == {t[i].id : i \in DOMAIN t}
<1>8. Lost = (1..saves) \ (Out \cup Ids) /\ Lost' = (1..(saves + 1)) \ (Out \cup IdsNext)
  BY <1>1, <1>7 DEF Lost, ToSet
<1>9. /\ saves + 1 \in IdsNext
      /\ \A i \in (k + 1)..Len(s) : s[i].id \in IdsNext
      /\ \A x \in IdsNext : x = saves + 1 \/ \E i \in (k + 1)..Len(s) : x = s[i].id
  <2>1. saves + 1 \in IdsNext
    BY <1>1, <1>6
  <2>2. ASSUME NEW i \in (k + 1)..Len(s) PROVE s[i].id \in IdsNext
    <3>1. i - k \in 1..n /\ k + (i - k) = i /\ i - k \in DOMAIN t
      BY <1>1
    <3> QED BY <1>6, <3>1
  <2>3. ASSUME NEW i \in DOMAIN t PROVE t[i].id = saves + 1 \/ \E j \in (k + 1)..Len(s) : t[i].id = s[j].id
    <3>1. i \in 1..n \/ i = n + 1
      BY <1>1
    <3>2. i \in 1..n => k + i \in (k + 1)..Len(s)
      BY <1>1
    <3> QED BY <1>6, <3>1, <3>2
  <2> QED BY <2>1, <2>2, <2>3
<1>10. /\ \A i \in DOMAIN s : s[i].id \in 1..saves /\ (s[i].read \/ s[i].sent <=> s[i].id \in Out)
       /\ \A i \in 1..k : \A j \in (k + 1)..Len(s) : s[i].id # s[j].id
  <2>1. \A i \in DOMAIN s : s[i].id \in 1..saves /\ (s[i].read \/ s[i].sent <=> s[i].id \in Out)
    BY DEF IInv, Ordered, GivenOut, Away
  <2>2. ASSUME NEW i \in 1..k, NEW j \in (k + 1)..Len(s) PROVE s[i].id # s[j].id
    <3>1. i \in DOMAIN s /\ j \in DOMAIN s /\ i < j
      BY <1>1
    <3>2. s[i].id < s[j].id /\ s[i].id \in 1..saves
      BY <3>1 DEF IInv, Ordered
    <3> QED BY <1>1, <3>2
  <2> QED BY <2>1, <2>2
<1>11. \A i \in DOMAIN s : i \in U \/ s[i].read \/ s[i].sent \/ i \in (k + 1)..Len(s)
  BY <1>1 DEF Marked
<1>12. saves + 1 \notin 1..saves /\ \A x : x \in 1..(saves + 1) <=> x \in 1..saves \/ x = saves + 1
  BY <1>1
<1> HIDE DEF U, IdsNext, Out
<1>13. Lost' = Lost \cup Gone /\ Lost \cap Gone = {}
  <2>1. ASSUME NEW x \in Lost' PROVE x \in Lost \cup Gone
    <3>1. x \in 1..saves /\ x \notin Out /\ x \notin IdsNext
      BY <1>8, <1>9, <1>12
    <3>2. x \notin Ids \/ \E i \in DOMAIN s : x = s[i].id
      OBVIOUS
    <3>3. ASSUME NEW i \in DOMAIN s, x = s[i].id PROVE x \in Gone
      <4>1. i \in U
        BY <1>9, <1>10, <1>11, <3>1, <3>3
      <4> QED BY <3>3, <4>1
    <3> QED BY <1>8, <3>1, <3>2, <3>3
  <2>2. ASSUME NEW x \in Lost PROVE x \in Lost' /\ x \notin Gone
    <3>1. x \in 1..saves /\ x \notin Out /\ \A i \in DOMAIN s : x # s[i].id
      BY <1>8
    <3>2. x \notin Gone
      BY <1>3, <3>1
    <3>3. (k + 1)..Len(s) \subseteq DOMAIN s
      BY <1>1
    <3>4. x \notin IdsNext
      BY <1>9, <1>12, <3>1, <3>3
    <3> QED BY <1>8, <1>12, <3>1, <3>2, <3>4
  <2>3. ASSUME NEW i \in U PROVE s[i].id \in Lost'
    <3>1. i \in DOMAIN s /\ i \in 1..k /\ ~s[i].read /\ ~s[i].sent
      BY <1>3
    <3>2. s[i].id \in 1..saves /\ s[i].id \notin Out
      BY <1>10, <3>1
    <3>3. s[i].id \notin IdsNext
      BY <1>9, <1>10, <1>12, <3>1, <3>2
    <3> QED BY <1>8, <1>12, <3>2, <3>3
  <2> QED BY <2>1, <2>2, <2>3
<1> HIDE DEF Gone
<1>14. IsFiniteSet(Lost) /\ dropped_msg_count = Cardinality(Lost) /\ Cardinality(Lost) \in Nat
  BY LostTyped, FS_CardinalityType DEF IInv
<1>15. Cardinality(Lost') = Cardinality(Lost) + Cardinality(Gone)
  <2>1. Cardinality(Lost \cup Gone) = Cardinality(Lost) + Cardinality(Gone) - Cardinality({})
    BY <1>5, <1>13, <1>14, FS_Union
  <2>2. Cardinality({}) = 0 /\ Cardinality(Gone) \in Nat
    BY <1>5, FS_EmptySet, FS_CardinalityType
  <2> QED BY <1>13, <1>14, <2>1, <2>2
<1> QED BY <1>2, <1>4, <1>5, <1>14, <1>15

\* A log that finds no room is lost.
LEMMA RefusedCounts ==
  ASSUME IInv, OthersKept, saves' = saves + 1, circ_buffer' = circ_buffer,
         dropped_msg_count' = dropped_msg_count + 1
  PROVE  dropped_msg_count' = Cardinality(Lost')
<1>1. saves \in Nat /\ read' = read /\ sent' = sent /\ cut' = cut /\ slept' = slept
  BY DEF IInv, Typed, OthersKept, given, sleep
<1> DEFINE Out == ToSet(read) \cup ToSet(sent) \cup cut \cup slept
                    \cup {circ_buffer[i].id : i \in DOMAIN circ_buffer}
           x == saves + 1
<1>2. Lost = (1..saves) \ Out /\ Lost' = (1..x) \ Out
  BY <1>1 DEF Lost, ToSet
<1>3. x \notin Out
  <2>1. \A y \in Out : y \in 1..saves
    BY DEF IInv, GivenOut, Away, Ordered, ToSet
  <2> HIDE DEF Out
  <2> QED BY <1>1, <2>1
<1>4. x \notin 1..saves /\ \A y : y \in 1..x <=> y \in 1..saves \/ y = x
  BY <1>1
<1> HIDE DEF Out, x
<1>5. Lost' = Lost \cup {x} /\ x \notin Lost
  BY <1>2, <1>3, <1>4
<1>6. IsFiniteSet(Lost) /\ dropped_msg_count = Cardinality(Lost)
  BY LostTyped DEF IInv
<1>7. Cardinality(Lost') = Cardinality(Lost) + 1
  BY <1>5, <1>6, FS_AddElement
<1> QED BY <1>6, <1>7

\* The backup stays as it is while logs are saved.
LEMMA LaterBackedUp ==
  ASSUME BackedUp, UNCHANGED <<backup, log_magic, slept>>, saves \in Nat,
         saves' = saves \/ saves' = saves + 1
  PROVE  BackedUp'
<1>1. Copied => Copied'
  BY DEF Copied
<1>2. CopiedInOrder => CopiedInOrder'
  BY DEF CopiedInOrder
<1>3. CopiedGiven => CopiedGiven'
  BY DEF CopiedGiven
<1>4. CopiedCounted => CopiedCounted'
  BY DEF CopiedCounted
<1> QED BY <1>1, <1>2, <1>3, <1>4 DEF BackedUp

LEMMA SaveKeeps ==
  ASSUME IInv, NEW len \in Lens, log_save(len)
  PROVE  IInv'
<1>1. Typed /\ Stays /\ SentInOrder /\ saves \in Nat
  BY DEF IInv, Typed
<1>2. OthersKept /\ saves' = saves + 1 /\ saves < MaxLogs
  BY <1>1, SaveCases DEF log_save
<1>3. ASSUME circ_buffer' \in Seq(Log), log_read_offset' \in Nat, dropped_msg_count' \in Nat
      PROVE  Typed'
  BY <1>1, <1>2, <1>3 DEF Typed, OthersKept, source, drain, given
<1>4. SentInOrder' /\ Holding'
  BY <1>1, <1>2 DEF IInv, SentInOrder, Holding, OthersKept, source, drain, given
<1>5. ASSUME dropped_msg_count' = Cardinality(Lost') PROVE DropsCounted'
  BY <1>5 DEF DropsCounted, Lost
<1>6. BackedUp'
  BY <1>1, <1>2, LaterBackedUp DEF IInv, OthersKept, sleep
<1>7. ASSUME NEW k \in TryFree(len), Saves(len, k), Evict(k) PROVE IInv'
  <2>1. circ_buffer' \in Seq(Log)
    BY <1>7 DEF Saves
  <2>2. log_read_offset' \in Nat /\ dropped_msg_count' \in Nat
    BY <1>1, <1>2, <1>7, EvictTyped
  <2>3. Stays'
    BY <1>1, <1>7, SaveStays
  <2>4. Ordered' /\ GivenOut' /\ Away'
    BY <1>2, <1>7, SaveOrdered
  <2>5. Collecting'
    BY <1>2, <1>7, SaveCollecting
  <2>6. DropsCounted'
    BY <1>2, <1>5, <1>7, EvictCounts
  <2> QED BY <1>3, <1>4, <1>6, <2>1, <2>2, <2>3, <2>4, <2>5, <2>6 DEF IInv
<1>8. ASSUME dropped_msg_count' = dropped_msg_count + 1, circ_buffer' = circ_buffer,
             log_read_offset' = log_read_offset
      PROVE  IInv'
  <2>1. Typed'
    BY <1>1, <1>3, <1>8 DEF Typed
  <2>2. Stays'
    BY <1>1, <1>8 DEF Stays
  <2>3. \A y \in 1..saves : y \in 1..saves'
    BY <1>1, <1>2
  <2>4. Ordered' /\ GivenOut' /\ Away'
    BY <1>2, <1>8, <2>3 DEF IInv, Ordered, GivenOut, Away, OthersKept, given, sleep, ToSet
  <2>5. Collecting'
    BY <1>2, <1>8 DEF IInv, Collecting, SentUpTo, Reading, OthersKept, source, drain, given
  <2>6. DropsCounted'
    BY <1>2, <1>5, <1>8, RefusedCounts
  <2> QED BY <1>4, <1>6, <2>1, <2>2, <2>4, <2>5, <2>6 DEF IInv
<1> QED BY <1>1, <1>7, <1>8, SaveCases

-------------------------------------------------------------------------------
(* Logs are marked, and stay otherwise as they are                              *)

Remarked ==
  /\ circ_buffer' \in Seq(Log) /\ Len(circ_buffer') = Len(circ_buffer)
  /\ \A i \in 1..Len(circ_buffer) : /\ circ_buffer'[i].id = circ_buffer[i].id
                                    /\ circ_buffer'[i].len = circ_buffer[i].len

LEMMA RemarkedBytes ==
  ASSUME Typed, Remarked, NEW n \in 0..Len(circ_buffer)
  PROVE  First(circ_buffer', n) = First(circ_buffer, n)
<1> DEFINE s == circ_buffer
           t == circ_buffer'
<1>1. HasLens(s) /\ HasLens(t) /\ Len(s) = Len(t) /\ Len(s) \in Nat
  BY LogsHaveLens DEF Typed, Remarked
<1>2. n \in 0..Len(s) /\ n \in 0..Len(t)
  BY <1>1
<1>3. \A i \in 1..n : t[i].len = s[i].len
  BY <1>1 DEF Remarked
<1> HIDE DEF s, t
<1>4. First(t, n) = First(s, n)
  BY <1>1, <1>2, <1>3, BytesSame
<1> QED BY <1>4 DEF s, t

LEMMA RemarkedStays ==
  ASSUME Typed, Stays, Ordered, Remarked, saves' = saves
  PROVE  Stays' /\ Ordered' /\ {circ_buffer[i].id : i \in DOMAIN circ_buffer}'
                                 = {circ_buffer[i].id : i \in DOMAIN circ_buffer}
<1>1. /\ DOMAIN circ_buffer = 1..Len(circ_buffer) /\ DOMAIN circ_buffer' = 1..Len(circ_buffer)
      /\ Len(circ_buffer') = Len(circ_buffer) /\ Len(circ_buffer) \in 0..Len(circ_buffer)
      /\ BytesOf(circ_buffer) = First(circ_buffer, Len(circ_buffer))
      /\ BytesOf(circ_buffer') = First(circ_buffer', Len(circ_buffer'))
  BY LogsHaveLens DEF Typed, Remarked
<1>2. Stays'
  BY <1>1, RemarkedBytes DEF Stays
<1>3. Ordered'
  BY <1>1 DEF Remarked, Ordered
<1> QED BY <1>1, <1>2, <1>3 DEF Remarked

LEMMA ReadLogKeeps ==
  ASSUME IInv, read_log
  PROVE  IInv' /\ Remarked
<1> DEFINE s == circ_buffer
           t == circ_buffer'
<1>1. PICK i \in AtReadOffset :
        /\ t = [s EXCEPT ![i].read = TRUE]
        /\ log_read_offset' = log_read_offset + s[i].len
        /\ read' = Append(read, s[i].id)
  BY DEF read_log
<1>2. UNCHANGED <<use, dropped_msg_count, triggered, num_logs, trigger_time, lock, pc, total_size, rx,
                  torn, spoilt, sent, cut, slept, backup, log_magic, saves>>
  BY DEF read_log, source, drain, sleep, counters
<1>3. /\ Typed /\ Stays /\ Ordered /\ s \in Seq(Log) /\ Len(s) \in Nat /\ DOMAIN s = 1..Len(s)
      /\ i \in 1..Len(s) /\ s[i] \in Log /\ read \in Seq(Nat)
  BY LogsHaveLens DEF IInv, Typed, AtReadOffset
<1>4. /\ s[i].id \in Nat /\ s[i].len \in Nat
      /\ s[i] = [id |-> s[i].id, len |-> s[i].len, read |-> s[i].read, sent |-> s[i].sent]
  BY <1>3 DEF Log
<1> DEFINE e == [s[i] EXCEPT !.read = TRUE]
<1>5. e \in Log /\ e.id = s[i].id /\ e.len = s[i].len /\ e.sent = s[i].sent /\ e.read
  BY <1>3 DEF Log
<1>6. t = [s EXCEPT ![i] = e]
  BY <1>1
<1> HIDE DEF e
<1>7. /\ t \in Seq(Log) /\ Len(t) = Len(s) /\ DOMAIN t = 1..Len(s) /\ t[i] = e
      /\ \A j \in 1..Len(s) : j # i => t[j] = s[j]
  BY <1>3, <1>5, <1>6
<1>8. Remarked
  BY <1>5, <1>7 DEF Remarked
<1>9. Typed'
  <2>1. log_read_offset' \in Nat /\ read' \in Seq(Nat)
    BY <1>1, <1>3, <1>4 DEF Typed
  <2> QED BY <1>2, <1>3, <1>7, <2>1 DEF Typed
<1>10. Stays' /\ Ordered'
  BY <1>2, <1>3, <1>8, RemarkedStays
<1>11. /\ DOMAIN read = 1..Len(read) /\ Len(read) \in Nat /\ DOMAIN read' = 1..(Len(read) + 1)
       /\ read'[Len(read) + 1] = s[i].id /\ \A j \in 1..Len(read) : read'[j] = read[j]
  BY <1>1, <1>3, <1>4
<1>12. ToSet(read') = ToSet(read) \cup {s[i].id}
  <2>1. \A j \in DOMAIN read' : j \in 1..Len(read) \/ j = Len(read) + 1
    BY <1>11
  <2>2. 1..Len(read) \subseteq DOMAIN read' /\ Len(read) + 1 \in DOMAIN read'
    BY <1>11
  <2> QED BY <1>11, <2>1, <2>2 DEF ToSet
<1>13. \A j, k \in 1..Len(s) : s[j].id = s[k].id => j = k
  <2> TAKE j, k \in 1..Len(s)
  <2>1. s[j].id \in Nat /\ s[k].id \in Nat /\ j \in Nat /\ k \in Nat
    <3>1. s[j] \in Log /\ s[k] \in Log
      BY <1>3
    <3> QED BY <1>3, <3>1 DEF Log
  <2>2. /\ j < k => s[j].id < s[k].id
        /\ k < j => s[k].id < s[j].id
    BY <1>3 DEF Ordered
  <2> QED BY <2>1, <2>2
<1>14. GivenOut'
  <2>1. s[i].id \in 1..saves
    BY <1>3 DEF Ordered
  <2>2. \A j \in DOMAIN read' : read'[j] \in 1..saves
    <3>1. \A j \in DOMAIN read' : j \in 1..Len(read) \/ j = Len(read) + 1
      BY <1>11
    <3> QED BY <1>11, <2>1, <3>1 DEF IInv, GivenOut
  <2>3. \A j \in 1..Len(s) : t[j].read <=> t[j].id \in ToSet(read')
    BY <1>3, <1>5, <1>7, <1>12, <1>13 DEF IInv, GivenOut
  <2>4. \A j \in 1..Len(s) : t[j].sent <=> t[j].id \in ToSet(sent) \cup cut
    BY <1>3, <1>5, <1>7 DEF IInv, GivenOut
  <2>5. (\A j \in DOMAIN sent : sent[j] \in 1..saves) /\ cut \in SUBSET (1..saves)
    BY DEF IInv, GivenOut
  <2> QED BY <1>2, <1>7, <2>2, <2>3, <2>4, <2>5 DEF GivenOut
<1>15. Collecting'
  <2>1. PICK p \in 0..Len(s) : SentUpTo(p) /\ Reading(p)
    BY DEF IInv, Collecting
  <2>2. \A j \in DOMAIN s : t[j].sent = s[j].sent /\ t[j].id = s[j].id /\ t[j].len = s[j].len
    BY <1>3, <1>5, <1>7
  <2>3. SentUpTo(p)'
    BY <1>2, <1>3, <1>7, <2>1, <2>2 DEF SentUpTo
  <2>4. Reading(p)'
    <3> SUFFICES ASSUME pc = "reading" PROVE Reading(p)'
      BY <1>2 DEF Reading
    <3>1. /\ p + num_logs \in 0..Len(s) /\ p \in 0..Len(s) /\ DOMAIN rx = 1..Len(rx)
          /\ Len(rx) \in Nat /\ Len(rx) <= num_logs /\ num_logs \in Nat
      BY <1>3, <2>1 DEF IInv, Typed, Collecting, SentUpTo, Reading
    <3>2. First(t, p + num_logs) = First(s, p + num_logs) /\ First(t, p) = First(s, p)
      BY <1>3, <1>8, <3>1, RemarkedBytes
    <3>3. \A k \in DOMAIN rx : p + k \in DOMAIN s
      BY <1>3, <3>1
    <3> QED BY <1>2, <2>1, <2>2, <3>2, <3>3 DEF Reading
  <2> QED BY <1>2, <1>7, <2>1, <2>3, <2>4 DEF IInv, Collecting
<1>16. SentInOrder' /\ Holding' /\ BackedUp'
  <2>1. saves \in Nat
    BY DEF IInv, Typed
  <2> QED BY <1>2, <2>1, LaterBackedUp DEF IInv, SentInOrder, Holding
<1>17. Away'
  <2>1. \A j \in 1..Len(s) : t[j].id = s[j].id
    BY <1>3, <1>8 DEF Remarked
  <2> QED BY <1>2, <1>3, <1>7, <2>1 DEF IInv, Away
<1>18. DropsCounted'
  <2>1. {t[j].id : j \in DOMAIN t} = {s[j].id : j \in DOMAIN s}
    BY <1>2, <1>3, <1>8, RemarkedStays
  <2>2. s[i].id \in {s[j].id : j \in DOMAIN s}
    BY <1>3
  <2>3. Lost' = Lost
    BY <1>2, <1>12, <2>1, <2>2 DEF Lost
  <2> QED BY <1>2, <2>3 DEF IInv, DropsCounted, Lost
<1> QED BY <1>8, <1>9, <1>10, <1>14, <1>15, <1>16, <1>17, <1>18 DEF IInv

-------------------------------------------------------------------------------
(* What is collected                                                            *)

LEMMA UnsentAre ==
  ASSUME Typed, NEW p \in 0..Len(circ_buffer), SentUpTo(p)
  PROVE  /\ Unsent = (p + 1)..Len(circ_buffer)
         /\ Cardinality(Unsent) = Len(circ_buffer) - p
         /\ \A i \in Unsent : Cardinality(UnsentUpTo(i)) = i - p
<1>1. Len(circ_buffer) \in Nat /\ DOMAIN circ_buffer = 1..Len(circ_buffer) /\ p \in Nat
  BY LogsHaveLens DEF Typed
<1>2. Unsent = (p + 1)..Len(circ_buffer)
  BY <1>1 DEF Unsent, SentUpTo
<1>3. ASSUME NEW i \in p..Len(circ_buffer) PROVE Cardinality((p + 1)..i) = i - p
  <2> DEFINE a == p + 1
  <2>1. a \in Int /\ i \in Int /\ (a > i => i = p) /\ i - a + 1 = i - p /\ a \in Nat
    BY <1>1
  <2> HIDE DEF a
  <2>2. Cardinality(a..i) = IF a > i THEN 0 ELSE i - a + 1
    BY <2>1, FS_Interval
  <2>3. Cardinality(a..i) = i - p
    BY <1>1, <2>1, <2>2
  <2> QED BY <2>3 DEF a
<1>4. ASSUME NEW i \in Unsent PROVE Cardinality(UnsentUpTo(i)) = i - p
  <2>1. i \in p..Len(circ_buffer) /\ UnsentUpTo(i) = (p + 1)..i
    BY <1>1, <1>2 DEF UnsentUpTo
  <2> QED BY <1>3, <2>1
<1>5. Cardinality(Unsent) = Len(circ_buffer) - p
  <2>1. Len(circ_buffer) \in p..Len(circ_buffer)
    BY <1>1
  <2> QED BY <1>2, <1>3, <2>1
<1> QED BY <1>2, <1>4, <1>5

\* A message is of the num_logs logs behind those sent.
LEMMA EncodedIs ==
  ASSUME Typed, Holding, triggered, lock = "free", pc # "marked",
         NEW p \in 0..Len(circ_buffer), SentUpTo(p)
  PROVE  /\ p + num_logs \in 0..Len(circ_buffer)
         /\ Collected = (p + 1)..(p + num_logs)
         /\ Encoded \in Seq(Piece) /\ Len(Encoded) = num_logs /\ DOMAIN Encoded = 1..num_logs
         /\ \A k \in 1..num_logs : /\ Encoded[k].id = circ_buffer[p + k].id
                                   /\ Encoded[k].len = circ_buffer[p + k].len
<1>1. /\ Len(circ_buffer) \in Nat /\ DOMAIN circ_buffer = 1..Len(circ_buffer) /\ p \in Nat
      /\ \A i \in 1..Len(circ_buffer) : circ_buffer[i] \in Log
      /\ num_logs \in Nat /\ num_logs # 0 /\ p + num_logs <= Len(circ_buffer)
  BY LogsHaveLens DEF Typed, SentUpTo, Holding
<1>2. /\ Unsent = (p + 1)..Len(circ_buffer)
      /\ \A i \in Unsent : Cardinality(UnsentUpTo(i)) = i - p
  BY UnsentAre
<1>3. Collected = (p + 1)..(p + num_logs)
  <2>1. Collected = {i \in Unsent : i - p <= num_logs}
    BY <1>1, <1>2 DEF Collected, CollectedOf
  <2> QED BY <1>1, <1>2, <2>1
<1>4. Cardinality(Collected) = num_logs
  <2> DEFINE a == p + 1
             b == p + num_logs
  <2>1. a \in Int /\ b \in Int /\ (a > b => num_logs = 0) /\ b - a + 1 = num_logs
    BY <1>1
  <2>2. Collected = a..b
    BY <1>3
  <2> HIDE DEF a, b
  <2>3. Cardinality(a..b) = IF a > b THEN 0 ELSE b - a + 1
    BY <2>1, FS_Interval
  <2> QED BY <1>1, <2>1, <2>2, <2>3
<1>5. ASSUME NEW k \in 1..num_logs PROVE NthUnsent(k) = p + k /\ p + k \in 1..Len(circ_buffer)
  <2>1. p + k \in Unsent /\ (p + k) - p = k /\ p + k \in 1..Len(circ_buffer)
    BY <1>1, <1>2
  <2>2. Cardinality(UnsentUpTo(p + k)) = k
    BY <1>2, <2>1
  <2>3. \A i \in Unsent : Cardinality(UnsentUpTo(i)) = k => i = p + k
    BY <1>1, <1>2
  <2> QED BY <2>1, <2>2, <2>3 DEF NthUnsent
<1> DEFINE piece(k) == [id |-> circ_buffer[p + k].id, len |-> circ_buffer[p + k].len,
                        items |-> Items(p + k)]
<1>6. Encoded = [k \in 1..num_logs |-> piece(k)]
  BY <1>4, <1>5 DEF Encoded, EncodedOf, Collected
<1>7. ASSUME NEW k \in 1..num_logs PROVE piece(k) \in Piece
  <2>1. circ_buffer[p + k].id \in Nat /\ circ_buffer[p + k].len \in Nat
    <3>1. circ_buffer[p + k] \in Log
      BY <1>1, <1>5
    <3> QED BY <3>1 DEF Log
  <2>2. Items(p + k) \in Nat
    BY DEF Items
  <2> QED BY <2>1, <2>2 DEF Piece
<1>8. \A k \in 1..num_logs : /\ Encoded[k].id = circ_buffer[p + k].id
                             /\ Encoded[k].len = circ_buffer[p + k].len
  BY <1>6
<1> HIDE DEF piece
<1>9. Encoded \in [1..num_logs -> Piece]
  BY <1>6, <1>7
<1>10. Encoded \in Seq(Piece) /\ Len(Encoded) = num_logs /\ DOMAIN Encoded = 1..num_logs
  BY <1>1, <1>9
<1> QED BY <1>1, <1>3, <1>8, <1>10

\* The first pieces of a message take as many bytes as the logs they are of.
LEMMA PiecesAre ==
  ASSUME Typed, NEW r \in Seq(Piece), NEW p \in 0..Len(circ_buffer), NEW m \in 0..Len(circ_buffer),
         m = p + Len(r), \A k \in DOMAIN r : r[k].len = circ_buffer[p + k].len
  PROVE  /\ BytesOf(r) = First(circ_buffer, m) - First(circ_buffer, p) /\ BytesOf(r) \in Nat
         /\ First(circ_buffer, m) \in Nat /\ First(circ_buffer, p) \in Nat
<1> DEFINE s == circ_buffer
           n == Len(r)
<1>1. /\ HasLens(s) /\ n \in Nat /\ DOMAIN r = 1..n /\ p \in 0..Len(s) /\ m \in 0..Len(s)
      /\ \A k \in 1..n : r[k] \in Piece
  BY LogsHaveLens DEF Typed
<1>2. HasLens(r)
  BY <1>1 DEF HasLens, Piece
<1>3. BytesOf(r) = First(r, n) /\ n = Len(r) /\ n \in 0..Len(r)
  BY <1>1 DEF BytesOf, First
<1>4. Follows(r, n, s, p) /\ m = p + n
  BY <1>1 DEF Follows
<1> HIDE DEF s, n
<1>5. First(s, m) = First(s, p) + First(r, n)
  BY <1>1, <1>2, <1>3, <1>4, BytesShift
<1>6. First(s, m) \in Nat /\ First(s, p) \in Nat /\ First(r, n) \in Nat
  BY <1>1, <1>2, <1>3, BytesNext
<1> QED BY <1>3, <1>5, <1>6 DEF s

-------------------------------------------------------------------------------
(* A collection                                                                 *)

\* The ring, what was given of it and the backup stay as they are.
RingKept == UNCHANGED <<use, circ_buffer, log_read_offset, dropped_msg_count, given, sleep, saves>>

LEMMA RingKeptKeeps ==
  ASSUME IInv, RingKept
  PROVE  /\ Stays' /\ Ordered' /\ GivenOut' /\ Away' /\ SentInOrder' /\ DropsCounted' /\ BackedUp'
         /\ UNCHANGED <<use, circ_buffer, log_read_offset, dropped_msg_count, read, sent, cut, slept,
                        saves>>
<1>1. UNCHANGED <<use, circ_buffer, log_read_offset, dropped_msg_count, read, sent, cut, slept, backup,
                  log_magic, saves>>
  BY DEF RingKept, given, sleep
<1>2. Stays' /\ Ordered' /\ GivenOut' /\ Away' /\ SentInOrder' /\ DropsCounted'
  BY <1>1 DEF IInv, Stays, Ordered, GivenOut, Away, SentInOrder, DropsCounted
<1>3. saves \in Nat
  BY DEF IInv, Typed
<1>4. BackedUp'
  BY <1>1, <1>3, LaterBackedUp DEF IInv
<1> QED BY <1>1, <1>2, <1>4

LEMMA TriggerKeeps ==
  ASSUME IInv, NEW t \in Task, trigger(t)
  PROVE  IInv'
<1>1. /\ RingKept /\ UNCHANGED <<num_logs, trigger_time, pc, total_size, rx, torn, spoilt>>
      /\ lock = "free"
  BY DEF trigger, RingKept, ring, drain, counters
<1>2. /\ Stays' /\ Ordered' /\ GivenOut' /\ Away' /\ SentInOrder' /\ DropsCounted' /\ BackedUp'
      /\ UNCHANGED <<use, circ_buffer, log_read_offset, dropped_msg_count, read, sent, cut, slept,
                     saves>>
  BY <1>1, RingKeptKeeps
<1>3. Typed
  BY DEF IInv
<1>4. CASE triggered \/ Unsent = {}
  <2>1. triggered' = triggered /\ lock' = lock
    BY <1>4 DEF trigger
  <2>2. Typed' /\ Collecting' /\ Holding'
    BY <1>1, <1>2, <2>1 DEF IInv, Typed, Holding, Collecting, SentUpTo, Reading
  <2> QED BY <1>2, <2>2 DEF IInv
<1>5. CASE ~triggered /\ Unsent # {}
  <2>1. PICK p \in 0..Len(circ_buffer) : SentUpTo(p)
    BY DEF IInv, Collecting
  <2>2. Unsent = (p + 1)..Len(circ_buffer) /\ Len(circ_buffer) \in Nat
    BY <1>3, <2>1, UnsentAre, LogsHaveLens DEF Typed
  <2>3. triggered' = TRUE /\ lock' = "trigger_time"
    BY <1>5 DEF trigger
  <2>4. pc = "idle" /\ num_logs = 0
    BY <1>5 DEF IInv, Collecting, Holding
  <2>5. p < Len(circ_buffer)
    BY <1>5, <2>2
  <2>6. Typed' /\ Holding'
    BY <1>1, <1>2, <2>3, <2>4 DEF IInv, Typed, Holding
  <2>7. SentUpTo(p)'
    BY <1>1, <1>2, <2>1, <2>4, <2>5 DEF SentUpTo
  <2>8. Collecting'
    BY <1>1, <1>2, <2>3, <2>4, <2>7 DEF IInv, Collecting, Reading
  <2> QED BY <1>2, <2>6, <2>8 DEF IInv
<1> QED BY <1>4, <1>5

LEMMA SetTimeKeeps ==
  ASSUME IInv, set_trigger_time
  PROVE  IInv'
<1>1. /\ RingKept /\ UNCHANGED <<triggered, num_logs, pc, total_size, rx, torn, spoilt>>
      /\ lock = "trigger_time" /\ lock' = "num_logs" /\ trigger_time' \in {0, TimeLen}
  BY DEF set_trigger_time, RingKept, ring, drain, counters
<1>2. /\ Stays' /\ Ordered' /\ GivenOut' /\ Away' /\ SentInOrder' /\ DropsCounted' /\ BackedUp'
      /\ UNCHANGED <<use, circ_buffer, log_read_offset, dropped_msg_count, read, sent, cut, slept,
                     saves>>
  BY <1>1, RingKeptKeeps
<1>3. Typed' /\ Holding'
  BY <1>1, <1>2, LensAssumption DEF IInv, Typed, Holding
<1>4. pc # "reading"
  BY <1>1 DEF IInv, Holding
<1>5. Collecting'
  BY <1>1, <1>2, <1>4 DEF IInv, Collecting, SentUpTo, Reading
<1> QED BY <1>2, <1>3, <1>5 DEF IInv

LEMMA SetNumKeeps ==
  ASSUME IInv, set_num_logs
  PROVE  IInv'
<1>1. /\ RingKept /\ UNCHANGED <<triggered, trigger_time, pc, total_size, rx, torn, spoilt>>
      /\ lock = "num_logs" /\ lock' = "free" /\ num_logs' = Cardinality(Unsent)
  BY DEF set_num_logs, RingKept, ring, drain, counters
<1>2. /\ Stays' /\ Ordered' /\ GivenOut' /\ Away' /\ SentInOrder' /\ DropsCounted' /\ BackedUp'
      /\ UNCHANGED <<use, circ_buffer, log_read_offset, dropped_msg_count, read, sent, cut, slept,
                     saves>>
  BY <1>1, RingKeptKeeps
<1>3. Typed /\ triggered /\ pc \in {"idle", "sizing"}
  BY <1>1 DEF IInv, Holding
<1>4. PICK p \in 0..Len(circ_buffer) : SentUpTo(p)
  BY DEF IInv, Collecting
<1>5. Cardinality(Unsent) = Len(circ_buffer) - p /\ Len(circ_buffer) \in Nat
  BY <1>3, <1>4, UnsentAre, LogsHaveLens DEF Typed
<1>6. p < Len(circ_buffer)
  BY <1>1, <1>4 DEF SentUpTo
<1>7. num_logs' \in Nat /\ num_logs' # 0 /\ p + num_logs' <= Len(circ_buffer)
  BY <1>1, <1>5, <1>6
<1>8. Typed' /\ Holding'
  BY <1>1, <1>2, <1>3, <1>7 DEF IInv, Typed, Holding
<1>9. SentUpTo(p)'
  BY <1>1, <1>2, <1>4, <1>7 DEF SentUpTo
<1>10. Collecting'
  BY <1>1, <1>2, <1>3, <1>9 DEF IInv, Collecting, Reading
<1> QED BY <1>2, <1>8, <1>10 DEF IInv

LEMMA HasLogsKeeps ==
  ASSUME IInv, has_logs
  PROVE  IInv'
<1>1. /\ RingKept
      /\ UNCHANGED <<triggered, num_logs, trigger_time, lock, total_size, rx, torn, spoilt>>
      /\ pc = "idle" /\ pc' = "sizing" /\ triggered
  BY DEF has_logs, RingKept, ring, source, counters
<1>2. /\ Stays' /\ Ordered' /\ GivenOut' /\ Away' /\ SentInOrder' /\ DropsCounted' /\ BackedUp'
      /\ UNCHANGED <<use, circ_buffer, log_read_offset, dropped_msg_count, read, sent, cut, slept,
                     saves>>
  BY <1>1, RingKeptKeeps
<1>3. Typed' /\ Holding'
  BY <1>1, <1>2 DEF IInv, Typed, Holding
<1>4. Collecting'
  BY <1>1, <1>2 DEF IInv, Collecting, SentUpTo, Reading
<1> QED BY <1>2, <1>3, <1>4 DEF IInv

LEMMA SizeKeeps ==
  ASSUME IInv, compute_size
  PROVE  IInv'
<1>1. /\ RingKept /\ UNCHANGED <<triggered, num_logs, trigger_time, lock, rx, spoilt>>
      /\ pc = "sizing" /\ pc' = "reading" /\ lock = "free"
      /\ ~torn' => ctx = [num_logs |-> num_logs, trigger_time |-> trigger_time]
      /\ total_size' = ctx.trigger_time + BytesOf(EncodedOf(ctx.num_logs))
  BY DEF compute_size, RingKept, ring, source, counters
<1>2. /\ Stays' /\ Ordered' /\ GivenOut' /\ Away' /\ SentInOrder' /\ DropsCounted' /\ BackedUp'
      /\ UNCHANGED <<use, circ_buffer, log_read_offset, dropped_msg_count, read, sent, cut, slept,
                     saves>>
  BY <1>1, RingKeptKeeps
<1>3. Typed' /\ Holding'
  BY <1>1, <1>2 DEF IInv, Typed, Holding
<1>4. triggered /\ rx = <<>> /\ ~spoilt /\ Typed /\ Holding
  BY <1>1 DEF IInv, Collecting
<1>5. PICK p \in 0..Len(circ_buffer) : SentUpTo(p)
  BY DEF IInv, Collecting
<1> DEFINE r == Encoded
           m == p + num_logs
<1>6. /\ m \in 0..Len(circ_buffer) /\ r \in Seq(Piece) /\ m = p + Len(r)
      /\ \A k \in DOMAIN r : r[k].len = circ_buffer[p + k].len
  BY <1>1, <1>4, <1>5, EncodedIs
<1>7. ~torn' => total_size' = trigger_time + BytesOf(r)
  BY <1>1 DEF Encoded
<1>8. m = p + num_logs
  OBVIOUS
<1> HIDE DEF r, m
<1>9. BytesOf(r) = First(circ_buffer, m) - First(circ_buffer, p)
  BY <1>4, <1>6, PiecesAre
<1>10. Len(rx) = 0 /\ DOMAIN rx = {} /\ num_logs \in Nat
  BY <1>4 DEF Typed
<1>11. Reading(p)'
  <2>1. /\ ~torn' => /\ ~spoilt'
                     /\ total_size' = trigger_time + (First(circ_buffer, m) - First(circ_buffer, p))
        /\ Len(rx) <= num_logs
    BY <1>1, <1>4, <1>7, <1>9, <1>10
  <2> QED BY <1>1, <1>2, <1>10, <2>1 DEF Reading, m
<1>12. SentUpTo(p)'
  BY <1>1, <1>2, <1>5 DEF SentUpTo
<1>13. Collecting'
  BY <1>1, <1>2, <1>4, <1>11, <1>12 DEF Collecting
<1> QED BY <1>2, <1>3, <1>13 DEF IInv

\* How far the drain is with a message.
LEMMA ReadSoFar ==
  ASSUME IInv, pc = "reading", ~torn, NEW p \in 0..Len(circ_buffer), SentUpTo(p), Reading(p)
  PROVE  /\ BytesOf(rx) \in Nat
         /\ BytesOf(rx) = First(circ_buffer, p + Len(rx)) - First(circ_buffer, p)
         /\ trigger_time + BytesOf(rx) < total_size <=> Len(rx) # num_logs
         /\ trigger_time + BytesOf(rx) >= total_size <=> Len(rx) = num_logs
<1> DEFINE m == p + Len(rx)
           n == p + num_logs
           s == circ_buffer
<1>1. /\ Typed /\ rx \in Seq(Piece) /\ Len(rx) \in Nat /\ num_logs \in Nat /\ p \in Nat
      /\ Len(rx) <= num_logs /\ Len(s) \in Nat /\ trigger_time \in Nat
      /\ HasLens(s) /\ \A i \in 1..Len(s) : s[i].len > 0
  BY LogsHaveLens DEF IInv, Typed, Reading
<1>2. triggered /\ n <= Len(s)
  BY DEF IInv, Collecting, SentUpTo
<1>3. m \in 0..Len(s) /\ n \in 0..Len(s) /\ (Len(rx) # num_logs => m < n) /\ m = p + Len(rx)
      /\ (Len(rx) = num_logs => m = n)
  BY <1>1, <1>2
<1>4. \A k \in DOMAIN rx : rx[k].len = circ_buffer[p + k].len
  BY DEF Reading
<1>5. total_size = trigger_time + (First(s, n) - First(s, p))
  BY DEF Reading
<1>6. p \in 0..Len(s)
  OBVIOUS
<1> HIDE DEF m, n, s
<1>7. /\ BytesOf(rx) = First(s, m) - First(s, p) /\ BytesOf(rx) \in Nat
      /\ First(s, m) \in Nat /\ First(s, p) \in Nat
  BY <1>1, <1>3, <1>4, PiecesAre DEF s
<1>8. First(s, n) \in Nat /\ (m < n => First(s, m) < First(s, n))
  BY <1>1, <1>3, BytesGrow, BytesNext
<1>9. /\ trigger_time + BytesOf(rx) < total_size <=> Len(rx) # num_logs
      /\ trigger_time + BytesOf(rx) >= total_size <=> Len(rx) = num_logs
  BY <1>1, <1>3, <1>5, <1>7, <1>8
<1> QED BY <1>7, <1>9 DEF m, s

\* A message that was sized from fields that were all set ends with its last log.
LEMMA NextIsWhole ==
  ASSUME IInv, pc = "reading", lock = "free", ~torn, trigger_time + BytesOf(rx) < total_size,
         NEW p \in 0..Len(circ_buffer), SentUpTo(p), Reading(p)
  PROVE  LET next == Len(rx) + 1
         IN /\ next \in DOMAIN Encoded
            /\ trigger_time + BytesOf(rx) + Encoded[next].len <= total_size
            /\ trigger_time + BytesOf(Encoded) = total_size
<1> DEFINE s == circ_buffer
           next == Len(rx) + 1
           m == p + Len(rx)
           b == m + 1
           n == p + num_logs
           r == Encoded
<1>1. /\ Typed /\ Holding /\ triggered /\ HasLens(s) /\ \A i \in 1..Len(s) : s[i].len > 0
      /\ Len(s) \in Nat /\ Len(rx) \in Nat /\ num_logs \in Nat /\ p \in Nat
      /\ Len(rx) <= num_logs /\ trigger_time \in Nat
  BY LogsHaveLens DEF IInv, Typed, Collecting, Reading
<1>2. /\ n \in 0..Len(s) /\ DOMAIN r = 1..num_logs /\ r \in Seq(Piece) /\ Len(r) = num_logs
      /\ \A k \in 1..num_logs : r[k].id = s[p + k].id /\ r[k].len = s[p + k].len
  BY <1>1, EncodedIs
<1>3. /\ BytesOf(rx) \in Nat /\ BytesOf(rx) = First(s, m) - First(s, p)
      /\ Len(rx) # num_logs
  BY <1>1, ReadSoFar
<1>4. next \in 1..num_logs /\ p + next = b /\ b \in 1..n /\ b \in 1..Len(s) /\ b \in 0..Len(s)
      /\ b - 1 = m /\ m \in 0..Len(s) /\ p \in 0..Len(s) /\ n = p + Len(r)
  BY <1>1, <1>2, <1>3
<1>5. next \in DOMAIN r /\ r[next].len = s[b].len
  BY <1>2, <1>4
<1>6. total_size = trigger_time + (First(s, n) - First(s, p))
  BY DEF Reading
<1> HIDE DEF s, m, b, n, r
<1>7. /\ First(s, b) = First(s, b - 1) + s[b].len /\ s[b].len \in Nat
      /\ First(s, b) \in Nat /\ First(s, m) \in Nat /\ First(s, n) \in Nat /\ First(s, p) \in Nat
  BY <1>1, <1>2, <1>4, BytesNext DEF HasLens
<1>8. First(s, b) <= First(s, n)
  <2>1. CASE b = n
    BY <1>7, <2>1
  <2>2. CASE b # n
    <3>1. b < n
      <4>1. n \in Nat /\ b \in Nat
        BY <1>1, <1>2, <1>4
      <4> QED BY <1>4, <2>2, <4>1
    <3>2. First(s, b) < First(s, n)
      BY <1>1, <1>2, <1>4, <3>1, BytesGrow
    <3> QED BY <1>7, <3>2
  <2> QED BY <2>1, <2>2
<1>9. trigger_time + BytesOf(rx) + r[next].len <= total_size
  <2> DEFINE got == BytesOf(rx)
             one == s[b].len
             fm == First(s, m)
             fb == First(s, b)
             fn == First(s, n)
             fp == First(s, p)
  <2>1. /\ got \in Nat /\ one \in Nat /\ fm \in Nat /\ fb \in Nat /\ fn \in Nat /\ fp \in Nat
        /\ got = fm - fp /\ fb = fm + one /\ fb <= fn
    BY <1>3, <1>4, <1>7, <1>8
  <2>2. trigger_time \in Nat /\ total_size = trigger_time + (fn - fp) /\ r[next].len = one
    BY <1>1, <1>5, <1>6
  <2>3. trigger_time + got + r[next].len <= total_size
    <3> HIDE DEF got, one, fm, fb, fn, fp
    <3>1. got + one <= fn - fp
      BY <2>1
    <3> QED BY <2>1, <2>2, <3>1
  <2> QED BY <2>3
<1>10. BytesOf(r) = First(s, n) - First(s, p)
  BY <1>1, <1>2, <1>4, PiecesAre DEF s
<1> QED BY <1>5, <1>6, <1>9, <1>10 DEF r

\* The drain is given the next log of the collection, or no more of a message that was torn.
LEMMA LogsReadGives ==
  ASSUME IInv, logs_read, NEW p \in 0..Len(circ_buffer), SentUpTo(p), Reading(p)
  PROVE  LET next == Len(rx) + 1
         IN \/ torn /\ rx' = rx
            \/ /\ next \in 1..num_logs /\ p + next \in 1..Len(circ_buffer)
               /\ Encoded[next] \in Piece /\ rx' = Append(rx, Encoded[next])
               /\ Encoded[next].id = circ_buffer[p + next].id
               /\ Encoded[next].len = circ_buffer[p + next].len
               /\ spoilt' = spoilt
<1> DEFINE next == Len(rx) + 1
           at == trigger_time + BytesOf(rx)
           Whole == next \in DOMAIN Encoded /\ at + Encoded[next].len <= total_size
<1>1. /\ pc = "reading" /\ lock = "free" /\ at < total_size
      /\ \/ Whole /\ rx' = Append(rx, Encoded[next]) /\ spoilt' = spoilt
         \/ (Whole => trigger_time + BytesOf(Encoded) < total_size) /\ rx' = rx
  BY DEF logs_read
<1>2. /\ Typed /\ Holding /\ triggered /\ Len(circ_buffer) \in Nat /\ num_logs \in Nat /\ p \in Nat
      /\ trigger_time \in Nat
  BY <1>1, LogsHaveLens DEF IInv, Typed, Collecting
<1>3. /\ p + num_logs \in 0..Len(circ_buffer) /\ DOMAIN Encoded = 1..num_logs /\ Encoded \in Seq(Piece)
      /\ \A k \in 1..num_logs : /\ Encoded[k].id = circ_buffer[p + k].id
                                /\ Encoded[k].len = circ_buffer[p + k].len
  BY <1>1, <1>2, EncodedIs
<1>4. CASE Whole /\ rx' = Append(rx, Encoded[next]) /\ spoilt' = spoilt
  <2>1. next \in 1..num_logs
    BY <1>3, <1>4
  <2>2. p + next \in 1..Len(circ_buffer)
    BY <1>2, <1>3, <2>1
  <2>3. Encoded[next] \in Piece
    <3> DEFINE r == Encoded
    <3>1. r \in Seq(Piece) /\ next \in DOMAIN r
      BY <1>4, <1>3
    <3> HIDE DEF r, next
    <3>2. r[next] \in Piece
      BY <3>1
    <3> QED BY <3>2 DEF r
  <2>4. /\ rx' = Append(rx, Encoded[next]) /\ spoilt' = spoilt
        /\ Encoded[next].id = circ_buffer[p + next].id
        /\ Encoded[next].len = circ_buffer[p + next].len
    BY <1>3, <1>4, <2>1
  <2> QED BY <2>1, <2>2, <2>3, <2>4
<1>5. CASE (Whole => trigger_time + BytesOf(Encoded) < total_size) /\ rx' = rx
  <2>1. ASSUME ~torn PROVE FALSE
    <3>1. Whole /\ trigger_time + BytesOf(Encoded) = total_size
      BY <1>1, <2>1, NextIsWhole
    <3>2. trigger_time + BytesOf(Encoded) < total_size
      BY <1>5, <3>1
    <3>3. BytesOf(Encoded) \in Nat
      <4> DEFINE r == Encoded
                 n == p + num_logs
      <4>1. r \in Seq(Piece) /\ n \in 0..Len(circ_buffer) /\ n = p + Len(r)
            /\ \A k \in DOMAIN r : r[k].len = circ_buffer[p + k].len
        BY <1>1, <1>2, EncodedIs
      <4> HIDE DEF r, n
      <4>2. BytesOf(r) \in Nat
        BY <1>2, <4>1, PiecesAre
      <4> QED BY <4>2 DEF r
    <3> QED BY <1>2, <3>1, <3>2, <3>3
  <2> QED BY <1>5, <2>1
<1> QED BY <1>1, <1>4, <1>5

LEMMA LogsReadKeeps ==
  ASSUME IInv, logs_read
  PROVE  IInv'
<1>1. /\ RingKept
      /\ UNCHANGED <<triggered, num_logs, trigger_time, lock, pc, total_size, torn>>
      /\ pc = "reading"
  BY DEF logs_read, RingKept, ring, source, counters
<1>2. /\ Stays' /\ Ordered' /\ GivenOut' /\ Away' /\ SentInOrder' /\ DropsCounted' /\ BackedUp'
      /\ UNCHANGED <<use, circ_buffer, log_read_offset, dropped_msg_count, read, sent, cut, slept,
                     saves>>
  BY <1>1, RingKeptKeeps
<1>3. PICK p \in 0..Len(circ_buffer) : SentUpTo(p) /\ Reading(p)
  BY DEF IInv, Collecting
<1>4. SentUpTo(p)' /\ Holding'
  BY <1>1, <1>2, <1>3 DEF IInv, SentUpTo, Holding
<1> DEFINE next == Len(rx) + 1
           e == Encoded[next]
<1>5. CASE torn /\ rx' = rx
  <2>1. Typed'
    BY <1>1, <1>2, <1>5 DEF IInv, Typed
  <2>2. Reading(p)'
    BY <1>1, <1>2, <1>3, <1>5 DEF Reading
  <2> QED BY <1>1, <1>2, <1>4, <2>1, <2>2 DEF IInv, Collecting
<1>6. CASE /\ next \in 1..num_logs /\ e \in Piece /\ rx' = Append(rx, e)
           /\ e.id = circ_buffer[p + next].id /\ e.len = circ_buffer[p + next].len
           /\ spoilt' = spoilt
  <2> HIDE DEF e
  <2>1. /\ rx \in Seq(Piece) /\ Len(rx) \in Nat /\ DOMAIN rx = 1..Len(rx) /\ num_logs \in Nat
    BY DEF IInv, Typed
  <2>2. /\ rx' \in Seq(Piece) /\ Len(rx') = next /\ DOMAIN rx' = 1..next /\ rx'[next] = e
        /\ \A k \in 1..Len(rx) : rx'[k] = rx[k]
    BY <1>6, <2>1
  <2>3. Typed'
    BY <1>1, <1>2, <2>2 DEF IInv, Typed
  <2>4. \A k \in DOMAIN rx' : /\ rx'[k].id = circ_buffer[p + k].id
                              /\ rx'[k].len = circ_buffer[p + k].len
    <3>1. \A k \in DOMAIN rx' : k \in 1..Len(rx) \/ k = next
      BY <2>1, <2>2
    <3>2. \A k \in 1..Len(rx) : /\ rx[k].id = circ_buffer[p + k].id
                                /\ rx[k].len = circ_buffer[p + k].len
      BY <1>1, <1>3, <2>1 DEF Reading
    <3> HIDE DEF next
    <3> QED BY <1>6, <2>2, <3>1, <3>2
  <2>5. Len(rx') <= num_logs
    BY <1>6, <2>1, <2>2
  <2>6. ~torn => ~spoilt' /\ total_size = trigger_time + (First(circ_buffer, p + num_logs) - First(circ_buffer, p))
    BY <1>1, <1>3, <1>6 DEF Reading
  <2>7. Reading(p)'
    BY <1>1, <1>2, <2>4, <2>5, <2>6 DEF Reading
  <2> QED BY <1>1, <1>2, <1>4, <2>3, <2>7 DEF IInv, Collecting
<1> QED BY <1>3, <1>5, <1>6, LogsReadGives

\* A message is over, sent or not.
LEMMA EndKeeps ==
  ASSUME IInv, abort \/ end_collection
  PROVE  IInv'
<1>1. /\ RingKept /\ UNCHANGED lock
      /\ pc' = "idle" /\ total_size' = 0 /\ rx' = <<>> /\ ~torn' /\ ~spoilt'
  BY DEF abort, end_collection, RingKept, ring, source, counters
<1>2. /\ Stays' /\ Ordered' /\ GivenOut' /\ Away' /\ SentInOrder' /\ DropsCounted' /\ BackedUp'
      /\ UNCHANGED <<use, circ_buffer, log_read_offset, dropped_msg_count, read, sent, cut, slept,
                     saves>>
  BY <1>1, RingKeptKeeps
<1>3. \/ UNCHANGED <<triggered, num_logs, trigger_time>> /\ pc = "reading"
      \/ triggered' = FALSE /\ num_logs' = 0 /\ trigger_time' = 0 /\ lock = "free"
  BY DEF abort, end_collection, source
<1>4. Typed
  BY DEF IInv
<1>5. Typed' /\ Holding'
  <2>1. CASE UNCHANGED <<triggered, num_logs, trigger_time>> /\ pc = "reading"
    BY <1>1, <1>2, <2>1 DEF IInv, Typed, Holding
  <2>2. CASE triggered' = FALSE /\ num_logs' = 0 /\ trigger_time' = 0 /\ lock = "free"
    <3>1. triggered' \in BOOLEAN
      BY <2>2, Zenon
    <3>2. rx' \in Seq(Piece) /\ pc' \in {"idle", "sizing", "reading", "marked"}
      BY <1>1
    <3>3. Typed'
      BY <1>2, <1>4, <2>2, <3>1, <3>2 DEF Typed
    <3>4. Holding'
      BY <1>1, <2>2 DEF Holding
    <3> QED BY <3>3, <3>4
  <2> QED BY <1>3, <2>1, <2>2
<1>6. Collecting'
  <2>1. PICK p \in 0..Len(circ_buffer) : SentUpTo(p)
    BY DEF IInv, Collecting
  <2>2. SentUpTo(p)'
    BY <1>1, <1>2, <1>3, <2>1 DEF SentUpTo
  <2> QED BY <1>1, <1>2, <2>2 DEF Collecting, Reading
<1> QED BY <1>2, <1>5, <1>6 DEF IInv

LEMMA Joined ==
  ASSUME NEW a \in Seq(Nat), NEW b \in Seq(Nat)
  PROVE  /\ a \o b \in Seq(Nat) /\ Len(a \o b) = Len(a) + Len(b)
         /\ \A i \in 1..Len(a) : (a \o b)[i] = a[i]
         /\ \A i \in 1..Len(b) : (a \o b)[Len(a) + i] = b[i]
<1>1. a \o b \in Seq(Nat) /\ Len(a \o b) = Len(a) + Len(b)
  OBVIOUS
<1>2. \A i \in 1..Len(a) : (a \o b)[i] = a[i]
  OBVIOUS
<1>3. ASSUME NEW i \in 1..Len(b) PROVE (a \o b)[Len(a) + i] = b[i]
  <2> DEFINE j == Len(a) + i
  <2>1. j \in 1..(Len(a) + Len(b)) /\ j > Len(a) /\ j - Len(a) = i
    OBVIOUS
  <2> HIDE DEF j
  <2>2. (a \o b)[j] = b[j - Len(a)]
    BY <2>1
  <2> QED BY <2>1, <2>2 DEF j
<1> QED BY <1>1, <1>2, <1>3

\* The logs of the collection are marked, and those of the message sent: the same ones, but
\* for the last of a message that was torn.
LEMMA MarkSentIs ==
  ASSUME IInv, mark_sent, NEW p \in 0..Len(circ_buffer), SentUpTo(p), Reading(p)
  PROVE  LET n == p + num_logs
             l == Len(rx)
         IN /\ Remarked /\ n \in 0..Len(circ_buffer) /\ l \in 0..num_logs
            /\ \A i \in 1..Len(circ_buffer) : /\ circ_buffer'[i].read = circ_buffer[i].read
                                              /\ circ_buffer'[i].sent <=> i <= n
            /\ sent' \in Seq(Nat) /\ Len(sent') = Len(sent) + l
            /\ \A i \in 1..Len(sent) : sent'[i] = sent[i]
            /\ \A k \in 1..l : sent'[Len(sent) + k] = circ_buffer[p + k].id
            /\ \A x \in cut' : x \in cut \/ \E k \in 1..num_logs : x = circ_buffer[p + k].id
            /\ \A x \in cut : x \in cut'
            /\ \A k \in 1..num_logs : \/ circ_buffer[p + k].id \in cut'
                                      \/ \E h \in 1..l : circ_buffer[p + k].id = circ_buffer[p + h].id
<1> DEFINE s == circ_buffer
           t == circ_buffer'
           n == p + num_logs
           l == Len(rx)
           ids == [k \in DOMAIN rx |-> rx[k].id]
           Ids == {rx[k].id : k \in DOMAIN rx}
           Marks == {s[i].id : i \in Collected}
<1>1. /\ pc = "reading" /\ lock = "free"
      /\ spoilt \/ trigger_time + BytesOf(rx) >= total_size
      /\ t = [i \in DOMAIN s |-> IF i \in Collected THEN [s[i] EXCEPT !.sent = TRUE] ELSE s[i]]
      /\ sent' = sent \o ids
      /\ cut' = IF torn THEN cut \cup (Marks \ Ids) ELSE cut
  BY DEF mark_sent
<1>2. /\ Typed /\ Holding /\ triggered /\ s \in Seq(Log) /\ Len(s) \in Nat /\ DOMAIN s = 1..Len(s)
      /\ \A i \in 1..Len(s) : s[i] \in Log
      /\ num_logs \in Nat /\ p \in Nat /\ sent \in Seq(Nat) /\ rx \in Seq(Piece)
  BY <1>1, LogsHaveLens DEF IInv, Typed, Collecting
<1>3. n \in 0..Len(s) /\ Collected = (p + 1)..n
  BY <1>1, <1>2, EncodedIs
<1>4. l \in 0..num_logs /\ DOMAIN rx = 1..l /\ (~torn => l = num_logs)
  <2>1. ~torn => l = num_logs
    BY <1>1, ReadSoFar DEF Reading
  <2> QED BY <1>1, <1>2, <2>1 DEF Reading
<1>5. \A i \in 1..Len(s) :
        /\ t[i] \in Log /\ t[i].id = s[i].id /\ t[i].len = s[i].len /\ t[i].read = s[i].read
        /\ t[i].sent <=> i \in Collected \/ s[i].sent
  BY <1>1, <1>2 DEF Log
<1>6. t \in Seq(Log) /\ Len(t) = Len(s)
  <2>1. t \in [1..Len(s) -> Log]
    BY <1>1, <1>2, <1>5
  <2> HIDE DEF t
  <2> QED BY <1>2, <2>1
<1>7. Remarked
  BY <1>5, <1>6 DEF Remarked
<1>8. \A i \in 1..Len(s) : t[i].sent <=> i <= n
  BY <1>2, <1>3, <1>5 DEF SentUpTo
<1>9. /\ \A k \in 1..l : ids[k] = s[p + k].id /\ rx[k].id = s[p + k].id
      /\ ids \in Seq(Nat) /\ Len(ids) = l
  <2>1. \A k \in 1..l : ids[k] = s[p + k].id /\ rx[k].id = s[p + k].id
    BY <1>1, <1>4 DEF Reading
  <2>2. \A k \in 1..l : rx[k] \in Piece
    <3>1. rx \in [1..Len(rx) -> Piece]
      BY <1>2
    <3> QED BY <3>1
  <2>3. ids \in [1..l -> Nat]
    BY <1>4, <2>2 DEF Piece
  <2>4. l \in Nat
    BY <1>2
  <2> HIDE DEF ids, l
  <2> QED BY <2>1, <2>3, <2>4
<1> HIDE DEF ids
<1>10. /\ sent' \in Seq(Nat) /\ Len(sent') = Len(sent) + l
       /\ \A i \in 1..Len(sent) : sent'[i] = sent[i]
       /\ \A k \in 1..l : sent'[Len(sent) + k] = ids[k]
  <2> DEFINE old == sent
  <2>1. old \in Seq(Nat) /\ Len(old) \in Nat /\ sent' = old \o ids
    BY <1>1, <1>2
  <2> HIDE DEF old
  <2>2. /\ old \o ids \in Seq(Nat) /\ Len(old \o ids) = Len(old) + l
        /\ \A i \in 1..Len(old) : (old \o ids)[i] = old[i]
        /\ \A k \in 1..l : (old \o ids)[Len(old) + k] = ids[k]
    <3> HIDE DEF l
    <3> QED BY <1>9, <2>1, Joined
  <2> QED BY <2>1, <2>2 DEF old
<1>11. /\ \A x \in Marks : \E k \in 1..num_logs : x = s[p + k].id
       /\ \A k \in 1..num_logs : s[p + k].id \in Marks
  <2>1. \A i \in Collected : i - p \in 1..num_logs /\ p + (i - p) = i
    BY <1>2, <1>3
  <2>2. \A k \in 1..num_logs : p + k \in Collected
    BY <1>2, <1>3
  <2> QED BY <2>1, <2>2
<1>12. \A x \in Ids : \E h \in 1..l : x = s[p + h].id
  BY <1>4, <1>9
<1> HIDE DEF n, l, Marks, Ids
<1>13. /\ \A x \in cut' : x \in cut \/ \E k \in 1..num_logs : x = s[p + k].id
       /\ \A x \in cut : x \in cut'
  BY <1>1, <1>11
<1>14. \A k \in 1..num_logs : s[p + k].id \in cut' \/ \E h \in 1..l : s[p + k].id = s[p + h].id
  <2>1. CASE torn
    BY <1>1, <1>11, <1>12, <2>1
  <2>2. CASE ~torn
    BY <1>4, <2>2
  <2> QED BY <2>1, <2>2
<1>15. \A k \in 1..l : sent'[Len(sent) + k] = s[p + k].id
  BY <1>9, <1>10
<1> QED BY <1>3, <1>4, <1>5, <1>7, <1>8, <1>10, <1>13, <1>14, <1>15 DEF n, l

LEMMA MarkSentKeeps ==
  ASSUME IInv, mark_sent
  PROVE  IInv'
<1> DEFINE s == circ_buffer
           t == circ_buffer'
           c == Len(sent)
           l == Len(rx)
<1>1. /\ UNCHANGED <<use, log_read_offset, dropped_msg_count, triggered, num_logs, trigger_time, lock,
                     total_size, rx, torn, spoilt, read, slept, backup, log_magic, saves>>
      /\ pc = "reading" /\ pc' = "marked"
  BY DEF mark_sent, source, sleep, counters
<1>2. PICK p \in 0..Len(s) : SentUpTo(p) /\ Reading(p)
  BY DEF IInv, Collecting
<1> DEFINE n == p + num_logs
<1>3. /\ Remarked /\ n \in 0..Len(s) /\ l \in 0..num_logs
      /\ \A i \in 1..Len(s) : /\ t[i].read = s[i].read
                              /\ t[i].sent <=> i <= n
      /\ sent' \in Seq(Nat) /\ Len(sent') = c + l
      /\ \A i \in 1..c : sent'[i] = sent[i]
      /\ \A k \in 1..l : sent'[c + k] = s[p + k].id
      /\ \A x \in cut' : x \in cut \/ \E k \in 1..num_logs : x = s[p + k].id
      /\ \A x \in cut : x \in cut'
      /\ \A k \in 1..num_logs : s[p + k].id \in cut' \/ \E h \in 1..l : s[p + k].id = s[p + h].id
  BY <1>1, <1>2, MarkSentIs
<1>4. /\ Typed /\ Stays /\ Ordered /\ Holding /\ Len(s) \in Nat /\ DOMAIN s = 1..Len(s) /\ c \in Nat
      /\ DOMAIN sent = 1..c /\ num_logs \in Nat /\ p \in Nat /\ saves \in Nat
      /\ triggered /\ t \in Seq(Log) /\ Len(t) = Len(s) /\ DOMAIN t = 1..Len(s)
      /\ \A i \in 1..Len(s) : t[i].id = s[i].id /\ t[i].len = s[i].len
  BY <1>1, <1>3, LogsHaveLens DEF IInv, Typed, Collecting, Remarked
<1>5. l \in Nat /\ l <= num_logs /\ DOMAIN sent' = 1..(c + l) /\ \A k \in 1..l : k \in 1..num_logs
  BY <1>3, <1>4
<1> HIDE DEF l
<1>6. \A i \in DOMAIN sent' : i \in 1..c \/ \E k \in 1..l : i = c + k
  <2> TAKE i \in DOMAIN sent'
  <2>1. ~(i \in 1..c) => i - c \in 1..l /\ i = c + (i - c)
    BY <1>4, <1>5
  <2> QED BY <2>1
<1>7. /\ 1..c \subseteq DOMAIN sent'
      /\ \A k \in 1..l : c + k \in DOMAIN sent'
      /\ \A k \in 1..num_logs : p + k \in 1..Len(s) /\ p < p + k
  BY <1>3, <1>4, <1>5
<1>8. Typed'
  BY <1>1, <1>3, <1>4 DEF Typed
<1>9. Stays' /\ Ordered' /\ {t[i].id : i \in DOMAIN t} = {s[i].id : i \in DOMAIN s}
  BY <1>1, <1>3, <1>4, RemarkedStays
<1>10. /\ \A i \in 1..Len(s) : s[i].id \in 1..saves
       /\ \A i \in 1..c : sent[i] \in 1..saves
       /\ \A i \in 1..c, j \in 1..Len(s) : p < j => sent[i] < s[j].id
       /\ \A i, j \in 1..Len(s) : i < j => s[i].id < s[j].id
       /\ \A i, j \in 1..c : i < j => sent[i] < sent[j]
  BY <1>2, <1>4 DEF IInv, Ordered, GivenOut, SentUpTo, SentInOrder
<1>11. SentInOrder'
  <2>1. ASSUME NEW i \in DOMAIN sent', NEW j \in DOMAIN sent', i < j PROVE sent'[i] < sent'[j]
    <3>1. CASE i \in 1..c /\ j \in 1..c
      BY <1>3, <1>10, <2>1, <3>1
    <3>2. ASSUME NEW k \in 1..l, j = c + k, i \in 1..c PROVE sent'[i] < sent'[j]
      BY <1>3, <1>5, <1>7, <1>10, <3>2
    <3>3. ASSUME NEW k \in 1..l, NEW h \in 1..l, i = c + k, j = c + h
          PROVE  sent'[i] < sent'[j]
      <4>1. p + k < p + h
        BY <1>4, <1>5, <2>1, <3>3
      <4> QED BY <1>3, <1>5, <1>7, <1>10, <3>3, <4>1
    <3>4. ~(j \in 1..c /\ \E k \in 1..l : i = c + k)
      BY <1>4, <1>5, <2>1
    <3> QED BY <1>6, <3>1, <3>2, <3>3, <3>4
  <2> QED BY <2>1 DEF SentInOrder
<1>12. ASSUME NEW i \in DOMAIN sent' PROVE sent'[i] \in 1..saves
  <2>1. CASE i \in 1..c
    BY <1>3, <1>10, <2>1
  <2>2. ASSUME NEW k \in 1..l, i = c + k PROVE sent'[i] \in 1..saves
    BY <1>3, <1>5, <1>7, <1>10, <2>2
  <2> QED BY <1>6, <2>1, <2>2
<1> DEFINE Out == ToSet(sent) \cup cut
           OutNext == ToSet(sent') \cup cut'
<1>13. \A x : x \in OutNext <=> x \in Out \/ \E k \in 1..num_logs : x = s[p + k].id
  <2>1. \A x \in ToSet(sent') : x \in ToSet(sent) \/ \E k \in 1..num_logs : x = s[p + k].id
    <3>1. ASSUME NEW i \in DOMAIN sent'
          PROVE  sent'[i] \in ToSet(sent) \/ \E k \in 1..num_logs : sent'[i] = s[p + k].id
      <4>1. CASE i \in 1..c
        <5>1. sent'[i] = sent[i] /\ i \in DOMAIN sent
          BY <1>3, <1>4, <4>1
        <5> QED BY <5>1 DEF ToSet
      <4>2. ASSUME NEW k \in 1..l, i = c + k
            PROVE  \E h \in 1..num_logs : sent'[i] = s[p + h].id
        <5>1. sent'[c + k] = s[p + k].id /\ k \in 1..num_logs
          BY <1>3, <1>5
        <5> QED BY <4>2, <5>1
      <4> QED BY <1>6, <4>1, <4>2
    <3> QED BY <3>1 DEF ToSet
  <2>2. \A i \in 1..c : sent[i] \in ToSet(sent')
    BY <1>3, <1>7 DEF ToSet
  <2>3. \A k \in 1..l : s[p + k].id \in ToSet(sent')
    BY <1>3, <1>7 DEF ToSet
  <2>4. \A x \in ToSet(sent) : x \in ToSet(sent')
    BY <1>4, <2>2 DEF ToSet
  <2>5. \A k \in 1..num_logs : s[p + k].id \in OutNext
    <3> TAKE k \in 1..num_logs
    <3>1. s[p + k].id \in cut' \/ \E h \in 1..l : s[p + k].id = s[p + h].id
      BY <1>3
    <3> HIDE DEF s
    <3> QED BY <2>3, <3>1
  <2>6. \A x \in Out : x \in OutNext
    BY <1>3, <2>4
  <2>7. \A x \in OutNext : x \in Out \/ \E k \in 1..num_logs : x = s[p + k].id
    BY <1>3, <2>1
  <2> HIDE DEF Out, OutNext
  <2> QED BY <2>5, <2>6, <2>7
<1>14. GivenOut'
  <2>1. ASSUME NEW i \in 1..Len(s) PROVE t[i].sent <=> t[i].id \in OutNext
    <3>1. s[i].sent <=> s[i].id \in Out
      BY <1>4 DEF IInv, GivenOut
    <3>2. s[i].sent <=> i <= p
      BY <1>2, <1>4 DEF SentUpTo
    <3>3. (\E k \in 1..num_logs : s[i].id = s[p + k].id) <=> p < i /\ i <= n
      <4>1. ASSUME NEW k \in 1..num_logs, s[i].id = s[p + k].id PROVE i = p + k
        <5> DEFINE j == p + k
        <5>1. j \in 1..Len(s) /\ s[i].id = s[j].id /\ s[i].id \in 1..saves
          BY <1>7, <1>10, <4>1
        <5> HIDE DEF j
        <5>2. ~(i < j) /\ ~(j < i)
          BY <1>10, <5>1
        <5>3. i = j
          BY <1>4, <5>1, <5>2
        <5> QED BY <5>3 DEF j
      <4>2. p < i /\ i <= n => i - p \in 1..num_logs /\ p + (i - p) = i
        BY <1>4
      <4>3. \A k \in 1..num_logs : p < p + k /\ p + k <= n
        BY <1>4
      <4> QED BY <4>1, <4>2, <4>3
    <3>4. i <= n <=> i <= p \/ (p < i /\ i <= n)
      BY <1>4
    <3>5. t[i].id = s[i].id /\ (t[i].sent <=> i <= n)
      BY <1>3, <1>4
    <3> DEFINE name == s[i].id
    <3>6. name \in OutNext <=> name \in Out \/ \E k \in 1..num_logs : name = s[p + k].id
      BY <1>13
    <3>7. name \in OutNext <=> i <= n
      <4> HIDE DEF Out, OutNext
      <4> QED BY <3>1, <3>2, <3>3, <3>4, <3>6
    <3> HIDE DEF OutNext
    <3> QED BY <3>5, <3>7
  <2>2. ASSUME NEW i \in 1..Len(s) PROVE t[i].read <=> t[i].id \in ToSet(read)
    BY <1>3, <1>4 DEF IInv, GivenOut
  <2>3. \A i \in DOMAIN read : read[i] \in 1..saves
    BY DEF IInv, GivenOut
  <2>4. cut' \in SUBSET (1..saves)
    <3>1. ASSUME NEW x \in cut' PROVE x \in 1..saves
      <4>1. cut \in SUBSET (1..saves)
        BY DEF IInv, GivenOut
      <4>2. x \in cut \/ \E k \in 1..num_logs : x = s[p + k].id
        BY <1>3
      <4> QED BY <1>7, <1>10, <4>1, <4>2
    <3> QED BY <3>1
  <2> QED BY <1>1, <1>4, <1>12, <2>1, <2>2, <2>3, <2>4 DEF GivenOut
<1>15. SentUpTo(n)'
  <2>1. ASSUME NEW i \in DOMAIN sent', NEW j \in 1..Len(s), n < j PROVE sent'[i] < t[j].id
    <3>1. p < j
      BY <1>3, <1>4, <2>1
    <3>2. CASE i \in 1..c
      BY <1>3, <1>4, <1>10, <3>1, <3>2
    <3>3. ASSUME NEW k \in 1..l, i = c + k PROVE sent'[i] < t[j].id
      <4>1. p + k < j
        BY <1>4, <1>5, <2>1
      <4> QED BY <1>3, <1>4, <1>5, <1>7, <1>10, <3>3, <4>1
    <3> QED BY <1>6, <3>2, <3>3
  <2>2. lock = "free"
    BY <1>1, <1>4 DEF Holding
  <2> QED BY <1>1, <1>3, <1>4, <2>1, <2>2 DEF SentUpTo
<1>16. Collecting' /\ Holding'
  BY <1>1, <1>3, <1>4, <1>15 DEF Collecting, Reading, Holding
<1>17. DropsCounted'
  <2>1. \A k \in 1..num_logs : s[p + k].id \in {s[i].id : i \in DOMAIN s}
    BY <1>4, <1>7
  <2> DEFINE Ids == {s[i].id : i \in DOMAIN s}
  <2>2. Lost' = Lost
    <3>1. \A x : x \in OutNext \cup Ids <=> x \in Out \cup Ids
      BY <1>13, <2>1
    <3>2. Lost = (1..saves) \ (ToSet(read) \cup Out \cup slept \cup Ids)
      BY DEF Lost
    <3>3. Lost' = (1..saves) \ (ToSet(read) \cup OutNext \cup slept \cup Ids)
      <4>1. Lost' = 1..saves' \ (ToSet(read') \cup OutNext \cup slept' \cup {t[i].id : i \in DOMAIN t})
        BY DEF Lost
      <4> QED BY <1>1, <1>9, <4>1
    <3> HIDE DEF Ids, Out, OutNext
    <3> QED BY <3>1, <3>2, <3>3
  <2>3. dropped_msg_count = Cardinality(Lost)
    BY <1>4, LostTyped DEF IInv
  <2>4. dropped_msg_count' = Cardinality(Lost')
    BY <1>1, <2>2, <2>3
  <2> QED BY <2>4 DEF DropsCounted, Lost
<1>18. Away' /\ BackedUp'
  <2>1. Away'
    BY <1>1, <1>4 DEF IInv, Away
  <2> QED BY <1>1, <1>4, <2>1, LaterBackedUp DEF IInv
<1> QED BY <1>8, <1>9, <1>11, <1>14, <1>16, <1>17, <1>18 DEF IInv

-------------------------------------------------------------------------------
(* A deep sleep                                                                 *)

LEMMA BackupKeeps ==
  ASSUME IInv, backup_logs
  PROVE  IInv'
<1>1. /\ UNCHANGED <<use, circ_buffer, log_read_offset, dropped_msg_count, triggered, num_logs,
                     trigger_time, lock, pc, total_size, rx, torn, spoilt, read, sent, cut, slept, saves>>
      /\ backup'.circ_buffer = circ_buffer /\ backup'.log_read_offset = log_read_offset
      /\ backup'.dropped_msg_count = dropped_msg_count /\ backup'.saves = saves
      /\ backup'.read = read /\ backup'.sent = sent /\ backup'.cut = cut
  BY DEF backup_logs, ring, source, drain, given, counters
<1>2. Typed' /\ Stays' /\ Ordered' /\ GivenOut' /\ Away'
  BY <1>1 DEF IInv, Typed, Stays, Ordered, GivenOut, Away
<1>3. Holding' /\ Collecting' /\ SentInOrder' /\ DropsCounted'
  BY <1>1 DEF IInv, Holding, Collecting, SentUpTo, Reading, SentInOrder, DropsCounted
<1>4. Copied'
  <2>1. saves \in 0..saves
    BY DEF IInv, Typed
  <2> QED BY <1>1, <2>1 DEF IInv, Typed, Stays, Copied
<1>5. CopiedInOrder'
  BY <1>1 DEF IInv, Ordered, SentInOrder, CopiedInOrder
<1>6. CopiedGiven'
  <2>1. PICK p \in 0..Len(circ_buffer) : SentUpTo(p)
    BY DEF IInv, Collecting
  <2>2. /\ \A i \in DOMAIN circ_buffer : circ_buffer[i].sent <=> i <= p
        /\ \A i \in DOMAIN sent, j \in DOMAIN circ_buffer : p < j => sent[i] < circ_buffer[j].id
    BY <2>1 DEF SentUpTo
  <2>3. /\ \A i \in DOMAIN circ_buffer :
             /\ circ_buffer[i].read <=> circ_buffer[i].id \in ToSet(read)
             /\ circ_buffer[i].sent <=> circ_buffer[i].id \in ToSet(sent) \cup cut
             /\ circ_buffer[i].id \notin slept
        /\ \A i \in DOMAIN read : read[i] \in 1..saves
        /\ \A i \in DOMAIN sent : sent[i] \in 1..saves
        /\ cut \in SUBSET (1..saves)
    BY DEF IInv, GivenOut, Away
  <2> QED BY <1>1, <2>2, <2>3 DEF CopiedGiven
<1>7. CopiedCounted'
  BY <1>1 DEF IInv, DropsCounted, CopiedCounted
<1> QED BY <1>2, <1>3, <1>4, <1>5, <1>6, <1>7 DEF IInv, BackedUp

\* The ring is again as it was backed up, and what was saved since is away.
LEMMA BootKeeps ==
  ASSUME IInv, log_boot
  PROVE  IInv'
<1> DEFINE b == backup
           B == b.saves
           Since == (B + 1)..saves
<1>1. /\ use' = use /\ saves' = saves /\ log_magic' = FALSE
      /\ circ_buffer' = b.circ_buffer /\ log_read_offset' = b.log_read_offset
      /\ dropped_msg_count' = b.dropped_msg_count
      /\ triggered' = FALSE /\ num_logs' = 0 /\ trigger_time' = 0 /\ lock' = "free"
      /\ pc' = "idle" /\ rx' = <<>> /\ ~spoilt'
      /\ read' = b.read /\ sent' = b.sent /\ cut' = b.cut
      /\ slept' = slept \cup Since
  BY DEF log_boot
<1>2. Copied /\ CopiedInOrder /\ CopiedGiven /\ CopiedCounted
  BY DEF log_boot, IInv, BackedUp
<1>3. Typed /\ saves \in Nat /\ B \in 0..saves /\ B \in Nat
  BY <1>2 DEF IInv, Typed, Copied
<1>4. /\ \A x : x \in 1..B => x \in 1..saves /\ x \notin Since
      /\ \A x : x \in 1..saves => x \in 1..B \/ x \in Since
      /\ \A x \in Since : x \in 1..saves
  BY <1>3
<1> HIDE DEF Since, B
<1>5. Typed'
  <2>1. triggered' \in BOOLEAN
    BY <1>1, Zenon
  <2>2. rx' \in Seq(Piece) /\ pc' \in {"idle", "sizing", "reading", "marked"}
    BY <1>1
  <2> QED BY <1>1, <1>2, <1>3, <2>1, <2>2 DEF Typed, Copied
<1>6. Stays'
  BY <1>1, <1>2 DEF Stays, Copied
<1>7. Ordered' /\ SentInOrder'
  BY <1>1, <1>2, <1>4 DEF Ordered, SentInOrder, CopiedInOrder, B
<1>8. GivenOut'
  <2>1. /\ \A i \in DOMAIN b.read : b.read[i] \in 1..B
        /\ \A i \in DOMAIN b.sent : b.sent[i] \in 1..B
        /\ b.cut \in SUBSET (1..B)
        /\ \A i \in DOMAIN b.circ_buffer :
             /\ b.circ_buffer[i].read <=> b.circ_buffer[i].id \in ToSet(b.read)
             /\ b.circ_buffer[i].sent <=> b.circ_buffer[i].id \in ToSet(b.sent) \cup b.cut
    BY <1>2 DEF CopiedGiven, B
  <2>2. b.cut \in SUBSET (1..saves)
    BY <1>4, <2>1
  <2> HIDE DEF b
  <2> QED BY <1>1, <1>4, <2>1, <2>2 DEF GivenOut
<1>9. Away'
  <2>1. slept \in SUBSET (1..saves) /\ slept \cup Since \in SUBSET (1..saves)
    BY <1>4 DEF IInv, Away
  <2>2. \A i \in DOMAIN b.circ_buffer : b.circ_buffer[i].id \in 1..B /\ b.circ_buffer[i].id \notin slept
    BY <1>2 DEF CopiedInOrder, CopiedGiven, B
  <2> HIDE DEF b
  <2> QED BY <1>1, <1>4, <2>1, <2>2 DEF Away
<1>10. Holding'
  BY <1>1 DEF Holding
<1>11. Collecting'
  <2>1. PICK p \in 0..Len(b.circ_buffer) :
          /\ \A i \in DOMAIN b.circ_buffer : b.circ_buffer[i].sent <=> i <= p
          /\ \A i \in DOMAIN b.sent, j \in DOMAIN b.circ_buffer : p < j => b.sent[i] < b.circ_buffer[j].id
    BY <1>2 DEF CopiedGiven
  <2>2. SentUpTo(p)'
    BY <1>1, <2>1 DEF SentUpTo
  <2> QED BY <1>1, <2>1, <2>2 DEF Collecting, Reading
<1>12. DropsCounted'
  <2> DEFINE Out == ToSet(b.read) \cup ToSet(b.sent) \cup b.cut
             Ids == {b.circ_buffer[i].id : i \in DOMAIN b.circ_buffer}
  <2>1. Lost' = (1..saves) \ (Out \cup (slept \cup Since) \cup Ids)
    BY <1>1 DEF Lost
  <2>2. b.dropped_msg_count = Cardinality((1..B) \ (Out \cup slept \cup Ids))
    BY <1>2 DEF CopiedCounted, B
  <2> HIDE DEF Out, Ids
  <2>3. (1..saves) \ (Out \cup (slept \cup Since) \cup Ids) = (1..B) \ (Out \cup slept \cup Ids)
    BY <1>4
  <2>4. dropped_msg_count' = Cardinality(Lost')
    BY <1>1, <2>1, <2>2, <2>3
  <2> QED BY <2>4 DEF DropsCounted, Lost
<1>13. BackedUp'
  BY <1>1 DEF BackedUp
<1> QED BY <1>5, <1>6, <1>7, <1>8, <1>9, <1>10, <1>11, <1>12, <1>13 DEF IInv

-------------------------------------------------------------------------------
(* All of it                                                                    *)

LEMMA FrameKeeps ==
  ASSUME IInv, RingKept,
         UNCHANGED <<triggered, num_logs, trigger_time, lock, pc, total_size, rx, torn, spoilt>>
  PROVE  IInv'
<1>1. /\ Stays' /\ Ordered' /\ GivenOut' /\ Away' /\ SentInOrder' /\ DropsCounted' /\ BackedUp'
      /\ UNCHANGED <<use, circ_buffer, log_read_offset, dropped_msg_count, read, sent, cut, slept,
                     saves>>
  BY RingKeptKeeps
<1>2. Typed' /\ Holding'
  BY <1>1 DEF IInv, Typed, Holding
<1>3. Collecting'
  BY <1>1 DEF IInv, Collecting, SentUpTo, Reading
<1> QED BY <1>1, <1>2, <1>3 DEF IInv

LEMMA StepKeeps ==
  ASSUME IInv, [Next]_vars
  PROVE  IInv'
<1>1. ASSUME NEW len \in Lens, log_save(len) PROVE IInv'
  BY <1>1, SaveKeeps
<1>2. CASE read_drops \/ \E t \in Task : trigger_collection(t)
  <2>1. /\ RingKept
        /\ UNCHANGED <<triggered, num_logs, trigger_time, lock, pc, total_size, rx, torn, spoilt>>
    BY <1>2 DEF read_drops, trigger_collection, RingKept, ring, source, drain, counters
  <2> QED BY <2>1, FrameKeeps
<1>3. CASE Waits \/ UNCHANGED vars
  <2>1. /\ RingKept
        /\ UNCHANGED <<triggered, num_logs, trigger_time, lock, pc, total_size, rx, torn, spoilt>>
    BY <1>3 DEF Waits, vars, RingKept, ring, source, drain, counters
  <2> QED BY <2>1, FrameKeeps
<1>4. CASE read_log
  BY <1>4, ReadLogKeeps
<1>5. ASSUME NEW t \in Task, trigger(t) PROVE IInv'
  BY <1>5, TriggerKeeps
<1>6. CASE set_trigger_time
  BY <1>6, SetTimeKeeps
<1>7. CASE set_num_logs
  BY <1>7, SetNumKeeps
<1>8. CASE has_logs
  BY <1>8, HasLogsKeeps
<1>9. CASE compute_size
  BY <1>9, SizeKeeps
<1>10. CASE logs_read
  BY <1>10, LogsReadKeeps
<1>11. CASE mark_sent
  BY <1>11, MarkSentKeeps
<1>12. CASE abort \/ end_collection
  BY <1>12, EndKeeps
<1>13. CASE backup_logs
  BY <1>13, BackupKeeps
<1>14. CASE log_boot
  BY <1>14, BootKeeps
<1> QED BY <1>1, <1>2, <1>3, <1>4, <1>5, <1>6, <1>7, <1>8, <1>9, <1>10, <1>11, <1>12, <1>13, <1>14
        DEF Next

LEMMA InitHolds ==
  ASSUME Init
  PROVE  IInv
<1>1. /\ use \in Uses /\ circ_buffer = <<>> /\ log_read_offset = 0 /\ dropped_msg_count = 0
      /\ triggered = FALSE /\ num_logs = 0 /\ trigger_time = 0 /\ lock = "free" /\ pc = "idle"
      /\ rx = <<>> /\ ~spoilt /\ log_magic = FALSE
      /\ read = <<>> /\ sent = <<>> /\ cut = {} /\ slept = {} /\ saves = 0
  BY DEF Init
<1>2. Typed
  <2>1. circ_buffer \in Seq(Log) /\ rx \in Seq(Piece) /\ read \in Seq(Nat) /\ sent \in Seq(Nat)
    BY <1>1
  <2>2. triggered \in BOOLEAN
    BY <1>1, Zenon
  <2>3. /\ log_read_offset \in Nat /\ dropped_msg_count \in Nat /\ num_logs \in Nat
        /\ trigger_time \in Nat /\ saves \in Nat /\ pc \in {"idle", "sizing", "reading", "marked"}
    BY <1>1
  <2> QED BY <1>1, <2>1, <2>2, <2>3, Zenon DEF Typed
<1>3. DOMAIN circ_buffer = {} /\ Len(circ_buffer) = 0 /\ DOMAIN read = {} /\ DOMAIN sent = {}
  BY <1>1
<1>4. Stays
  <2>1. HasLens(circ_buffer) /\ BytesOf(circ_buffer) = First(circ_buffer, 0)
    BY <1>2, <1>3, LogsHaveLens DEF Typed
  <2>2. First(circ_buffer, 0) = 0
    BY <2>1, BytesNext
  <2> QED BY <2>1, <2>2, LensAssumption DEF Stays
<1>5. Ordered /\ GivenOut /\ Away /\ SentInOrder /\ Holding /\ BackedUp
  BY <1>1, <1>3 DEF Ordered, GivenOut, Away, SentInOrder, Holding, BackedUp
<1>6. Collecting
  <2>1. SentUpTo(0)
    BY <1>1, <1>3 DEF SentUpTo
  <2> QED BY <1>1, <1>3, <2>1 DEF Collecting, Reading
<1>7. DropsCounted
  <2>1. Lost = {}
    BY <1>1 DEF Lost
  <2> QED BY <1>1, <2>1, FS_EmptySet DEF DropsCounted, Lost
<1> QED BY <1>2, <1>4, <1>5, <1>6, <1>7 DEF IInv

THEOREM Invariance == Spec => []IInv
<1>1. Init => IInv
  BY InitHolds
<1>2. IInv /\ [Next]_vars => IInv'
  BY StepKeeps
<1> QED BY <1>1, <1>2, PTL DEF Spec

\* Whatever its size and the lengths of the logs, the ring has the bytes of those it is said to
\* have: what prv_try_free_space evicts is room enough.
THEOREM LogsFit == Spec => [](BytesOf(circ_buffer) <= Capacity)
<1>1. IInv => BytesOf(circ_buffer) <= Capacity
  BY DEF IInv, Stays
<1> QED BY <1>1, Invariance, PTL

\* However many logs of whatever lengths are saved while others are read, collected, sent and
\* given up: each one that went missing was counted, once (prv_try_free_space and the refusal
\* in prv_log_save).  Two kinds are excepted: logs saved between the backup of a deep sleep
\* and the sleep, and logs that a message sized in the middle of the trigger had no room for.
THEOREM MissingAreCounted == Spec => []DropsCounted
<1>1. IInv => DropsCounted
  BY DEF IInv
<1> QED BY <1>1, Invariance, PTL

\* A collection is sent in order, no log is sent twice, and the logs marked as sent are those
\* sent, for every interleaving of the steps of the tasks that trigger one with the drain; when
\* the drain copied the fields before the trigger had set them all, the last logs that it marks
\* may be left out (prv_init_encoding_ctx and the callbacks of memfault_log_data_source.c).
THEOREM MarkedAreSent == Spec => []SentAreMarked
<1>1. IInv => SentAreMarked
  BY DEF IInv, GivenOut, SentInOrder, SentAreMarked
<1> QED BY <1>1, Invariance, PTL

-------------------------------------------------------------------------------
(* Where logs are only read                                                     *)

LEMMA Around ==
  ASSUME NEW d \in Nat, NEW w \in Nat, d < w
  PROVE  (d + w) % w = d
OBVIOUS

\* The reader is at the log behind those it read.
LEMMA AtReadOffsetIs ==
  ASSUME Typed, NEW r \in 0..Len(circ_buffer), ReadUpTo(r)
  PROVE  AtReadOffset = IF r < Len(circ_buffer) THEN {r + 1} ELSE {}
<1> DEFINE s == circ_buffer
<1>1. /\ Len(s) \in Nat /\ DOMAIN s = 1..Len(s) /\ r \in Nat /\ r \in 0..Len(s)
      /\ HasLens(s) /\ \A i \in 1..Len(s) : s[i].len > 0
  BY LogsHaveLens DEF Typed
<1>2. AtReadOffset = {i \in 1..Len(s) : First(s, i - 1) = First(s, r)}
  BY <1>1 DEF AtReadOffset, First, ReadUpTo
<1> HIDE DEF s
<1>3. ASSUME NEW i \in 1..Len(s), First(s, i - 1) = First(s, r) PROVE i = r + 1
  <2> DEFINE j == i - 1
  <2>1. j \in 0..Len(s) /\ j \in Nat /\ i = j + 1 /\ First(s, j) = First(s, r)
    BY <1>1, <1>3
  <2> HIDE DEF j
  <2>2. First(s, j) \in Nat
    BY <1>1, <2>1, BytesNext
  <2>3. ~(j < r)
    BY <1>1, <2>1, <2>2, BytesGrow
  <2>4. ~(r < j)
    BY <1>1, <2>1, <2>2, BytesGrow
  <2> QED BY <1>1, <2>1, <2>3, <2>4
<1>4. r < Len(s) => r + 1 \in 1..Len(s) /\ (r + 1) - 1 = r
  BY <1>1
<1>5. ~(r < Len(s)) => ~(r + 1 \in 1..Len(s))
  BY <1>1
<1> QED BY <1>2, <1>3, <1>4, <1>5 DEF s

LEMMA SaveReadAlone ==
  ASSUME IInv, use = {"read"}, sent = <<>>, cut = {}, NEW r \in 0..Len(circ_buffer), ReadUpTo(r),
         NEW len \in Lens, NEW k, Saves(len, k), OthersKept, Evict(k)
  PROVE  \E q \in 0..Len(circ_buffer') : ReadUpTo(q)'
<1> DEFINE s == circ_buffer
           t == circ_buffer'
           n == Len(s) - k
           a == IF k < r THEN k ELSE r
           q == r - a
           d == First(s, r) - First(s, a)
<1>1. /\ DOMAIN s = 1..Len(s) /\ Len(s) \in Nat /\ k \in 0..Len(s) /\ n \in Nat /\ r \in Nat
      /\ DOMAIN t = 1..(n + 1) /\ Len(t) = n + 1 /\ saves \in Nat
      /\ HasLens(s) /\ HasLens(t) /\ BytesOf(s) = First(s, Len(s)) /\ BytesOf(s) \in Nat
      /\ BytesOf(s) <= Capacity
      /\ \A i \in 1..Len(s) : s[i].len > 0
  BY LogsHaveLens DEF IInv, Typed, Stays, Saves
<1>2. \A i \in 1..n : t[i] = s[k + i] /\ k + i \in DOMAIN s
  BY <1>1 DEF Saves
<1>3. t[n + 1].id = saves + 1 /\ ~t[n + 1].read
  BY DEF Saves
<1>4. /\ a \in 0..Len(s) /\ a \in 0..r /\ q \in 0..Len(t) /\ q <= n /\ q \in Nat
      /\ \A i \in 1..n : i <= q <=> k + i <= r
      /\ (k < r => a = k /\ r = k + q) /\ (~(k < r) => a = r /\ q = 0)
  BY <1>1
<1>5. Marked(1..k) = 1..a
  <2>1. \A i \in DOMAIN s : ~s[i].sent
    BY DEF IInv, GivenOut, ToSet
  <2>2. \A i \in DOMAIN s : s[i].read <=> i <= r
    BY DEF ReadUpTo
  <2>3. Marked(1..k) = {i \in 1..k : i <= r}
    BY <1>1, <2>1, <2>2 DEF Marked
  <2>4. \A i \in Nat : (1 <= i /\ i <= k /\ i <= r) <=> (1 <= i /\ i <= a)
    BY <1>1
  <2>5. k \in Nat /\ a \in Nat
    BY <1>1
  <2> HIDE DEF a
  <2>6. {i \in 1..k : i <= r} = 1..a
    <3>1. \A i : i \in 1..a <=> i \in Nat /\ 1 <= i /\ i <= a
      BY <2>5
    <3>2. \A i : i \in {j \in 1..k : j <= r} <=> i \in Nat /\ 1 <= i /\ i <= k /\ i <= r
      BY <2>5
    <3> QED BY <2>4, <3>1, <3>2
  <2> QED BY <2>3, <2>6
<1>6. Capacity \in Nat /\ Width \in Nat /\ Capacity < Width
  <2> DEFINE most == MaxLogs * len
  <2>1. MaxLogs \in Nat /\ len \in Nat /\ Capacity \in Nat /\ Width \in Nat
    BY LensAssumption, WidthAssumption
  <2>2. most \in Nat /\ most + Capacity < Width
    BY <2>1, WidthAssumption
  <2> HIDE DEF most
  <2> QED BY <2>1, <2>2
<1>7. log_read_offset' = (First(s, r) + Width - First(s, a)) % Width
  BY <1>5 DEF Evict, First, ReadUpTo
<1> HIDE DEF s, t, a, q
<1>8. /\ First(s, r) \in Nat /\ First(s, a) \in Nat /\ First(s, a) <= First(s, r)
      /\ First(s, r) <= Capacity
  <2>1. First(s, r) \in Nat /\ First(s, a) \in Nat
    BY <1>1, <1>4, BytesNext DEF s
  <2>2. First(s, a) <= First(s, r)
    <3>1. a = r \/ a < r
      BY <1>1, <1>4
    <3>2. a < r => First(s, a) < First(s, r)
      BY <1>1, <1>4, BytesGrow DEF s
    <3> QED BY <2>1, <3>1, <3>2
  <2>3. First(s, r) <= First(s, Len(s))
    <3>1. r = Len(s) \/ r < Len(s)
      <4>1. r \in 0..Len(s) /\ Len(s) \in Nat
        BY <1>1 DEF s
      <4> QED BY <4>1
    <3>2. r < Len(s) => First(s, r) < First(s, Len(s))
      <4>1. r \in 0..Len(s) /\ Len(s) \in 0..Len(s)
        BY <1>1 DEF s
      <4> QED BY <1>1, <4>1, BytesGrow
    <3>3. First(s, Len(s)) \in Nat
      BY <1>1
    <3> QED BY <2>1, <3>1, <3>2, <3>3
  <2> QED BY <1>1, <1>6, <2>1, <2>2, <2>3
<1>9. log_read_offset' = d
  <2>1. d \in Nat /\ d < Width /\ First(s, r) + Width - First(s, a) = d + Width
    BY <1>6, <1>8
  <2> HIDE DEF d
  <2>2. (d + Width) % Width = d
    BY <1>6, <2>1, Around
  <2> QED BY <1>7, <2>1, <2>2
<1>10. d = First(t, q)
  <2>1. CASE k < r
    <3>1. Follows(t, q, s, k)
      BY <1>1, <1>2, <1>4 DEF Follows
    <3>2. r \in 0..Len(s) /\ k \in 0..Len(s)
      BY <1>1 DEF s
    <3>3. First(s, r) = First(s, k) + First(t, q)
      BY <1>1, <1>4, <2>1, <3>1, <3>2, BytesShift
    <3>4. First(t, q) \in Nat /\ First(s, k) \in Nat
      BY <1>1, <1>4, <3>2, BytesNext
    <3> QED BY <1>4, <2>1, <3>3, <3>4
  <2>2. CASE ~(k < r)
    <3>1. First(t, 0) = 0
      BY <1>1, BytesNext
    <3> QED BY <1>4, <1>8, <2>2, <3>1
  <2> QED BY <2>1, <2>2
<1>11. \A i \in DOMAIN t : t[i].read <=> i <= q
  <2> TAKE i \in DOMAIN t
  <2>1. CASE i \in 1..n
    BY <1>2, <1>4, <2>1 DEF ReadUpTo, s
  <2>2. CASE i = n + 1
    BY <1>1, <1>3, <1>4, <2>2
  <2> QED BY <1>1, <2>1, <2>2
<1>12. ASSUME NEW i \in DOMAIN read, NEW j \in DOMAIN t, q < j PROVE read[i] < t[j].id
  <2>1. CASE j \in 1..n
    <3>1. r < k + j
      <4>1. k + j \in Nat
        BY <1>1, <2>1
      <4> QED BY <1>1, <1>4, <1>12, <2>1, <4>1
    <3> QED BY <1>2, <2>1, <3>1 DEF ReadUpTo, s
  <2>2. CASE j = n + 1
    <3>1. read[i] \in 1..saves
      BY DEF IInv, GivenOut
    <3> QED BY <1>1, <1>3, <2>2, <3>1
  <2> QED BY <1>1, <2>1, <2>2
<1>13. read' = read
  BY DEF OthersKept, given
<1>14. ReadUpTo(q)'
  BY <1>9, <1>10, <1>11, <1>12, <1>13 DEF ReadUpTo, t
<1> QED BY <1>4, <1>14 DEF t

LEMMA ReadReadAlone ==
  ASSUME IInv, read_log, NEW r \in 0..Len(circ_buffer), ReadUpTo(r),
         \A i, j \in DOMAIN read : i < j => read[i] < read[j]
  PROVE  /\ \E q \in 0..Len(circ_buffer') : ReadUpTo(q)'
         /\ (\A i, j \in DOMAIN read : i < j => read[i] < read[j])'
<1> DEFINE s == circ_buffer
           t == circ_buffer'
           q == r + 1
           c == Len(read)
<1>1. /\ r < Len(s) /\ t = [s EXCEPT ![q].read = TRUE]
      /\ log_read_offset' = log_read_offset + s[q].len
      /\ read' = Append(read, s[q].id)
  <2>1. PICK i \in AtReadOffset :
          /\ t = [s EXCEPT ![i].read = TRUE]
          /\ log_read_offset' = log_read_offset + s[i].len
          /\ read' = Append(read, s[i].id)
    BY DEF read_log
  <2>2. r < Len(s) /\ i = q
    BY <2>1, AtReadOffsetIs DEF IInv
  <2> QED BY <2>1, <2>2
<1>2. Remarked
  BY ReadLogKeeps
<1>3. /\ Typed /\ Ordered /\ Len(s) \in Nat /\ DOMAIN s = 1..Len(s) /\ r \in Nat /\ q \in 1..Len(s)
      /\ q \in 0..Len(s) /\ r \in 0..Len(s)
      /\ HasLens(s) /\ Len(t) = Len(s) /\ DOMAIN t = 1..Len(s)
      /\ \A i \in 1..Len(s) : s[i] \in Log /\ t[i].id = s[i].id
      /\ read \in Seq(Nat)
  BY <1>1, <1>2, LogsHaveLens DEF IInv, Typed, Remarked
<1>4. s[q].id \in Nat
  <2>1. s[q] \in Log
    BY <1>3
  <2> QED BY <2>1 DEF Log
<1>5. /\ c \in Nat /\ DOMAIN read = 1..c /\ DOMAIN read' = 1..(c + 1)
      /\ read'[c + 1] = s[q].id /\ \A i \in 1..c : read'[i] = read[i]
  BY <1>1, <1>3, <1>4
<1>6. \A i \in 1..Len(s) : t[i].read <=> i = q \/ s[i].read
  BY <1>1, <1>3 DEF Log
<1>7. \A i \in DOMAIN t : t[i].read <=> i <= q
  <2>1. \A i \in 1..Len(s) : s[i].read <=> i <= r
    BY <1>3 DEF ReadUpTo
  <2> QED BY <1>3, <1>6, <2>1
<1>8. log_read_offset' = First(t, q)
  <2>1. First(t, q) = First(s, q)
    BY <1>2, <1>3, RemarkedBytes
  <2>2. q - 1 = r
    BY <1>3
  <2> HIDE DEF q
  <2>3. First(s, q) = First(s, q - 1) + s[q].len
    BY <1>3, BytesNext
  <2> QED BY <1>1, <2>1, <2>2, <2>3 DEF ReadUpTo
<1>9. \A i \in DOMAIN read' : i \in 1..c \/ i = c + 1
  BY <1>5
<1>10. \A i \in 1..c : read[i] < s[q].id
  BY <1>3, <1>5 DEF ReadUpTo
<1>11. ASSUME NEW i \in DOMAIN read', NEW j \in DOMAIN t, q < j PROVE read'[i] < t[j].id
  <2>1. t[j].id = s[j].id /\ r < j /\ j \in 1..Len(s)
    BY <1>3, <1>11
  <2>2. CASE i \in 1..c
    BY <1>3, <1>5, <2>1, <2>2 DEF ReadUpTo
  <2>3. CASE i = c + 1
    BY <1>3, <1>5, <1>11, <2>1, <2>3 DEF Ordered
  <2> QED BY <1>9, <2>2, <2>3
<1>12. ReadUpTo(q)'
  BY <1>7, <1>8, <1>11 DEF ReadUpTo
<1>13. ASSUME NEW i \in DOMAIN read', NEW j \in DOMAIN read', i < j PROVE read'[i] < read'[j]
  <2>1. i \in 1..c
    BY <1>5, <1>9, <1>13
  <2>2. CASE j \in 1..c
    BY <1>5, <1>13, <2>1, <2>2
  <2>3. CASE j = c + 1
    BY <1>5, <1>10, <2>1, <2>3
  <2> QED BY <1>9, <2>2, <2>3
<1> QED BY <1>3, <1>12, <1>13

LEMMA ReadAloneStep ==
  ASSUME IInv, ReadAlone, CopiedAlone, [Next]_vars
  PROVE  ReadAlone'
<1>1. use' = use
  BY DEF Next, log_save, read_drops, read_log, trigger_collection, trigger, set_trigger_time,
         set_num_logs, has_logs, compute_size, logs_read, abort, mark_sent, end_collection,
         backup_logs, log_boot, Waits, vars
<1> SUFFICES ASSUME use = {"read"} PROVE ReadAlone'
  BY <1>1 DEF ReadAlone
<1>2. PICK r \in 0..Len(circ_buffer) : ReadUpTo(r)
  BY DEF ReadAlone
<1>3. /\ ~triggered /\ deciding = {} /\ sent = <<>> /\ cut = {} /\ pc = "idle" /\ lock = "free"
      /\ \A i, j \in DOMAIN read : i < j => read[i] < read[j]
  BY DEF ReadAlone, IInv, Collecting, Holding
<1> DEFINE Quiet == UNCHANGED <<triggered, deciding, sent, cut>>
<1>4. ASSUME Quiet, \E q \in 0..Len(circ_buffer') : ReadUpTo(q)', read' = read PROVE ReadAlone'
  BY <1>3, <1>4 DEF ReadAlone
<1>5. ASSUME Quiet, UNCHANGED <<circ_buffer, log_read_offset, read>>
      PROVE  ReadAlone'
  BY <1>2, <1>3, <1>5 DEF ReadAlone, ReadUpTo
<1>6. ASSUME NEW len \in Lens, log_save(len) PROVE ReadAlone'
  <2>1. OthersKept
    BY <1>6, SaveCases DEF IInv
  <2>2. Quiet /\ read' = read
    BY <2>1 DEF OthersKept, source, given
  <2>3. ASSUME NEW k \in TryFree(len), Saves(len, k), Evict(k) PROVE ReadAlone'
    <3>1. \E q \in 0..Len(circ_buffer') : ReadUpTo(q)'
      BY <1>2, <1>3, <2>1, <2>3, SaveReadAlone
    <3> QED BY <1>4, <2>2, <3>1
  <2>4. ASSUME circ_buffer' = circ_buffer, log_read_offset' = log_read_offset PROVE ReadAlone'
    BY <1>3, <1>5, <2>2, <2>4
  <2> QED BY <1>6, <2>3, <2>4, SaveCases DEF IInv
<1>7. CASE read_log
  <2>1. /\ \E q \in 0..Len(circ_buffer') : ReadUpTo(q)'
        /\ (\A i, j \in DOMAIN read : i < j => read[i] < read[j])'
    BY <1>2, <1>3, <1>7, ReadReadAlone
  <2>2. Quiet
    BY <1>7 DEF read_log, source
  <2> QED BY <1>3, <2>1, <2>2 DEF ReadAlone
<1>8. CASE read_drops \/ backup_logs \/ Waits \/ UNCHANGED vars
  <2>1. Quiet /\ UNCHANGED <<circ_buffer, log_read_offset, read>>
    BY <1>8 DEF read_drops, backup_logs, Waits, vars, ring, source, given
  <2> QED BY <1>5, <2>1
<1>9. CASE log_boot
  <2>1. PICK q \in 0..Len(backup.circ_buffer) : CopiedUpTo(q)
    BY <1>9 DEF CopiedAlone, log_boot
  <2>2. /\ circ_buffer' = backup.circ_buffer /\ log_read_offset' = backup.log_read_offset
        /\ read' = backup.read /\ sent' = <<>> /\ cut' = {} /\ ~triggered' /\ deciding' = {}
        /\ \A i, j \in DOMAIN backup.read : i < j => backup.read[i] < backup.read[j]
    BY <1>9 DEF CopiedAlone, log_boot
  <2>3. ReadUpTo(q)'
    BY <2>1, <2>2 DEF CopiedUpTo, ReadUpTo
  <2> QED BY <2>1, <2>2, <2>3 DEF ReadAlone
<1>10. \A t \in Task : ~trigger_collection(t) /\ ~trigger(t)
  <2>1. "send" \notin use
    OBVIOUS
  <2> QED BY <1>3, <2>1 DEF trigger_collection, trigger
<1>11. /\ ~set_trigger_time /\ ~set_num_logs
       /\ ~has_logs /\ ~compute_size /\ ~logs_read /\ ~abort /\ ~mark_sent /\ ~end_collection
  BY <1>3 DEF set_trigger_time, set_num_logs, has_logs, compute_size, logs_read, abort, mark_sent,
              end_collection
<1> QED BY <1>6, <1>7, <1>8, <1>9, <1>10, <1>11 DEF Next

LEMMA CopiedAloneStep ==
  ASSUME IInv, ReadAlone, CopiedAlone, [Next]_vars
  PROVE  CopiedAlone'
<1>1. use' = use
  BY DEF Next, log_save, read_drops, read_log, trigger_collection, trigger, set_trigger_time,
         set_num_logs, has_logs, compute_size, logs_read, abort, mark_sent, end_collection,
         backup_logs, log_boot, Waits, vars
<1>2. CASE backup_logs
  <2> SUFFICES ASSUME use = {"read"} PROVE CopiedAlone'
    BY <1>1 DEF CopiedAlone
  <2>1. PICK r \in 0..Len(circ_buffer) : ReadUpTo(r)
    BY DEF ReadAlone
  <2>2. /\ backup'.circ_buffer = circ_buffer /\ backup'.log_read_offset = log_read_offset
        /\ backup'.read = read /\ backup'.sent = <<>> /\ backup'.cut = {}
        /\ \A i, j \in DOMAIN read : i < j => read[i] < read[j]
    BY <1>2 DEF backup_logs, ReadAlone
  <2>3. CopiedUpTo(r)'
    BY <2>1, <2>2 DEF CopiedUpTo, ReadUpTo
  <2> QED BY <2>1, <2>2, <2>3 DEF CopiedAlone
<1>3. CASE log_boot
  BY <1>3 DEF log_boot, CopiedAlone
<1>4. CASE UNCHANGED <<backup, log_magic>>
  BY <1>1, <1>4 DEF CopiedAlone, CopiedUpTo
<1>5. backup_logs \/ log_boot \/ UNCHANGED <<backup, log_magic>>
  BY DEF Next, log_save, read_drops, read_log, trigger_collection, trigger, set_trigger_time,
         set_num_logs, has_logs, compute_size, logs_read, abort, mark_sent, end_collection,
         Waits, vars, sleep
<1> QED BY <1>2, <1>3, <1>4, <1>5

\* A device that reads its logs and never sends them: however evictions fall between the reads,
\* each log is given once, in order, and when none is given all that the ring holds were
\* (memfault_log_read and the read offset that prv_try_free_space moves back).
THEOREM ReaderFindsAll == Spec => []ReadAloneFindsAll
<1>1. Init => ReadAlone /\ CopiedAlone
  <2> SUFFICES ASSUME Init PROVE ReadAlone /\ CopiedAlone
    OBVIOUS
  <2>1. /\ ~triggered /\ deciding = {} /\ sent = <<>> /\ cut = {} /\ read = <<>> /\ circ_buffer = <<>>
        /\ log_read_offset = 0 /\ ~log_magic
    BY DEF Init
  <2>2. DOMAIN circ_buffer = {} /\ Len(circ_buffer) = 0 /\ DOMAIN read = {}
    BY <2>1
  <2>3. ReadUpTo(0)
    <3>1. HasLens(circ_buffer)
      BY <2>2 DEF HasLens
    <3> QED BY <2>1, <2>2, <3>1, BytesNext DEF ReadUpTo
  <2> QED BY <2>1, <2>2, <2>3 DEF ReadAlone, CopiedAlone
<1>2. IInv /\ ReadAlone /\ CopiedAlone /\ [Next]_vars => ReadAlone' /\ CopiedAlone'
  BY ReadAloneStep, CopiedAloneStep
<1>3. IInv /\ ReadAlone => ReadAloneFindsAll
  <2> SUFFICES ASSUME IInv, ReadAlone, use = {"read"}
               PROVE  /\ \A i, j \in DOMAIN read : i < j => read[i] < read[j]
                      /\ AtReadOffset = {} => \A i \in DOMAIN circ_buffer : circ_buffer[i].read
    BY DEF ReadAloneFindsAll
  <2>1. PICK r \in 0..Len(circ_buffer) : ReadUpTo(r)
    BY DEF ReadAlone
  <2>2. Typed /\ Len(circ_buffer) \in Nat /\ DOMAIN circ_buffer = 1..Len(circ_buffer)
    BY LogsHaveLens DEF IInv, Typed
  <2>3. AtReadOffset = {} => ~(r < Len(circ_buffer))
    BY <2>1, <2>2, AtReadOffsetIs
  <2>4. AtReadOffset = {} => \A i \in DOMAIN circ_buffer : i <= r
    BY <2>2, <2>3
  <2> QED BY <2>1, <2>4 DEF ReadAlone, ReadUpTo
<1> QED BY <1>1, <1>2, <1>3, Invariance, PTL DEF Spec
===============================================================================

-------------------------- MODULE AudioQueue_proofs --------------------------
(***************************************************************************)
(* Theorems about AudioQueue, for any number of producers, workers, chunks *)
(* and places: the type invariant, that a chunk is in one place, what the  *)
(* registry holds, the conservation of chunks, the order of evictions, the *)
(* exactness of cleanups, and that the queue implements ChunkLife.         *)
(***************************************************************************)
EXTENDS AudioQueue, FiniteSetTheorems, WellFoundedInduction, TLAPS

-----------------------------------------------------------------------------
(* Lemmas on the positions of a sequence.                                    *)

\* The positions of a sequence of m elements.
LEMMA Positions ==
    ASSUME NEW m \in Nat
    PROVE  IsFiniteSet(1 .. m) /\ Cardinality(1 .. m) = m
BY FS_Interval

\* Nth counts through a set of positions: it reaches each, in their order.
LEMMA NthPosition ==
    ASSUME NEW m \in Nat, NEW K \in SUBSET (1 .. m)
    PROVE  /\ Cardinality(K) \in 0 .. m
           /\ \A n \in 1 .. Cardinality(K) : Nth(K, n) \in K
           /\ \A n, o \in 1 .. Cardinality(K) : n < o => Nth(K, n) < Nth(K, o)
           /\ \A i \in K : \E n \in 1 .. Cardinality(K) : Nth(K, n) = i
<1> DEFINE Upto(i) == {k \in K : k <= i}
           N == 1 .. Cardinality(K)
           rank == [i \in K |-> Cardinality(Upto(i))]
<1>0. \A k \in K : k \in Nat
  OBVIOUS
<1>1. IsFiniteSet(K) /\ Cardinality(K) \in 0 .. m
  <2>1. IsFiniteSet(1 .. m) /\ Cardinality(1 .. m) = m
    BY Positions
  <2>2. IsFiniteSet(K) /\ Cardinality(K) <= m
    BY <2>1, FS_Subset
  <2>3. Cardinality(K) \in Nat
    BY <2>2, FS_CardinalityType
  <2> QED BY <2>2, <2>3
<1>2. ASSUME NEW i \in K
      PROVE  IsFiniteSet(Upto(i)) /\ Cardinality(Upto(i)) \in N
  <2>1. /\ IsFiniteSet(Upto(i))
        /\ Cardinality(Upto(i)) <= Cardinality(K)
        /\ Cardinality(Upto(i)) \in Nat
    BY <1>1, FS_Subset, FS_CardinalityType
  <2>2. i \in Upto(i)
    BY <1>0
  <2>3. Cardinality(Upto(i)) # 0
    BY <2>1, <2>2, FS_EmptySet
  <2> HIDE DEF Upto
  <2> QED BY <1>1, <2>1, <2>3
<1>3. ASSUME NEW i \in K, NEW j \in K, i < j
      PROVE  rank[i] < rank[j]
  <2>0. i \in Nat /\ j \in Nat
    BY <1>0
  <2>1. j \in Upto(j) /\ j \notin Upto(i)
    BY <1>3, <2>0
  <2>4. Upto(i) \subseteq Upto(j)
    <3>1. ASSUME NEW k \in K, k <= i  PROVE k <= j
      <4>1. k \in Nat
        BY <1>0
      <4> QED BY <3>1, <4>1, <1>3, <2>0
    <3> QED BY <3>1
  <2> HIDE DEF Upto
  <2>2. IsFiniteSet(Upto(j)) /\ Cardinality(Upto(i)) \in N /\ Cardinality(Upto(j)) \in N
    BY <1>2
  <2>3. Cardinality(Upto(i)) <= Cardinality(Upto(j)) /\ Cardinality(Upto(i)) # Cardinality(Upto(j))
    BY <2>1, <2>2, <2>4, FS_Subset
  <2> QED BY <2>2, <2>3, <1>1
<1>4. rank \in [K -> N]
  BY <1>2
<1> HIDE DEF rank
<1>5. rank \in Injection(K, N)
  <2> SUFFICES ASSUME NEW i \in K, NEW j \in K, rank[i] = rank[j]
               PROVE  i = j
    BY <1>4 DEF Injection, IsInjective
  <2>1. CASE i < j
    BY <2>1, <1>1, <1>3, <1>4
  <2>2. CASE j < i
    BY <2>2, <1>1, <1>3, <1>4
  <2> QED BY <2>1, <2>2, <1>0
<1>6. IsFiniteSet(N) /\ Cardinality(N) = Cardinality(K)
  BY <1>1, Positions
<1>7. rank \in Surjection(K, N)
  BY <1>5, <1>6, FS_Injection
<1>8. \A n \in N : \E i \in K : rank[i] = n
  BY <1>7 DEF Surjection
<1>9. ASSUME NEW n \in N
      PROVE  Nth(K, n) \in K /\ rank[Nth(K, n)] = n
  <2>1. \E i \in K : Cardinality({j \in K : j <= i}) = n
    BY <1>8 DEF rank
  <2>2. /\ Nth(K, n) \in K
        /\ Cardinality({j \in K : j <= Nth(K, n)}) = n
    BY <2>1, Zenon DEF Nth
  <2> QED BY <2>2 DEF rank
<1>10. ASSUME NEW i \in K
       PROVE  rank[i] \in N /\ Nth(K, rank[i]) = i
  BY <1>4, <1>5, <1>9 DEF Injection, IsInjective
<1>11. ASSUME NEW n \in N, NEW o \in N, n < o
       PROVE  Nth(K, n) < Nth(K, o)
  <2>1. /\ Nth(K, n) \in K /\ rank[Nth(K, n)] = n
        /\ Nth(K, o) \in K /\ rank[Nth(K, o)] = o
    BY <1>9
  <2>2. Nth(K, n) \in Nat /\ Nth(K, o) \in Nat
    BY <2>1, <1>0
  <2>5. n \in Nat /\ o \in Nat
    BY <1>1
  <2>3. CASE Nth(K, o) < Nth(K, n)
    BY <2>1, <2>2, <2>3, <2>5, <1>3, <1>11
  <2>4. CASE Nth(K, o) = Nth(K, n)
    BY <2>1, <2>4, <2>5, <1>11
  <2> QED BY <2>2, <2>3, <2>4
<1> HIDE DEF N
<1> QED BY <1>1, <1>9, <1>10, <1>11 DEF N

Distinct(s) == \A i, j \in DOMAIN s : s[i] = s[j] => i = j

\* Keep leaves the elements at the positions of K, in their order.
LEMMA KeepPositions ==
    ASSUME NEW S, NEW s \in Seq(S), NEW K \in SUBSET (DOMAIN s)
    PROVE  /\ Keep(s, K) \in Seq(S)
           /\ Len(Keep(s, K)) = Cardinality(K)
           /\ DOMAIN Keep(s, K) = 1 .. Cardinality(K)
           /\ Cardinality(K) \in 0 .. Len(s)
           /\ \A n \in DOMAIN Keep(s, K) : Nth(K, n) \in K /\ Keep(s, K)[n] = s[Nth(K, n)]
           /\ \A n, o \in DOMAIN Keep(s, K) : n < o => Nth(K, n) < Nth(K, o)
           /\ \A i \in K : \E n \in DOMAIN Keep(s, K) : Nth(K, n) = i
<1>1. Len(s) \in Nat /\ K \in SUBSET (1 .. Len(s))
  OBVIOUS
<1>2. /\ Cardinality(K) \in 0 .. Len(s)
      /\ \A n \in 1 .. Cardinality(K) : Nth(K, n) \in K
      /\ \A n, o \in 1 .. Cardinality(K) : n < o => Nth(K, n) < Nth(K, o)
      /\ \A i \in K : \E n \in 1 .. Cardinality(K) : Nth(K, n) = i
  BY <1>1, NthPosition
<1>3. \A i \in K : s[i] \in S
  OBVIOUS
<1>4. Keep(s, K) \in [1 .. Cardinality(K) -> S] /\ Cardinality(K) \in Nat
  BY <1>2, <1>3 DEF Keep
<1>5. Keep(s, K) \in Seq(S) /\ Len(Keep(s, K)) = Cardinality(K)
  BY <1>4
<1>6. \A n \in 1 .. Cardinality(K) : Keep(s, K)[n] = s[Nth(K, n)]
  BY DEF Keep
<1> QED BY <1>2, <1>4, <1>5, <1>6

\* The elements that Keep leaves.
LEMMA KeepElements ==
    ASSUME NEW S, NEW s \in Seq(S), NEW K \in SUBSET (DOMAIN s)
    PROVE  /\ Elements(Keep(s, K)) = {s[i] : i \in K}
           /\ Distinct(s) => Distinct(Keep(s, K))
<1>1. \A n \in DOMAIN Keep(s, K) : Nth(K, n) \in K /\ Keep(s, K)[n] = s[Nth(K, n)]
  BY KeepPositions
<1>2. \A i \in K : \E n \in DOMAIN Keep(s, K) : Nth(K, n) = i
  BY KeepPositions
<1>3. Elements(Keep(s, K)) = {s[i] : i \in K}
  <2>1. \A n \in DOMAIN Keep(s, K) : \E i \in K : Keep(s, K)[n] = s[i]
    BY <1>1
  <2>2. \A i \in K : \E n \in DOMAIN Keep(s, K) : Keep(s, K)[n] = s[i]
    BY <1>1, <1>2
  <2> QED BY <2>1, <2>2 DEF Elements
<1>4. ASSUME Distinct(s), NEW i \in DOMAIN Keep(s, K), NEW j \in DOMAIN Keep(s, K),
             Keep(s, K)[i] = Keep(s, K)[j]
      PROVE  i = j
  <2>1. Nth(K, i) = Nth(K, j)
    BY <1>1, <1>4 DEF Distinct
  <2>2. i \in Nat /\ j \in Nat /\ Nth(K, i) \in Nat
    BY <1>1, KeepPositions
  <2>3. (i < j => Nth(K, i) < Nth(K, j)) /\ (j < i => Nth(K, j) < Nth(K, i))
    BY KeepPositions
  <2> QED BY <2>1, <2>2, <2>3
<1> QED BY <1>3, <1>4 DEF Distinct

\* Removing the element at one position of a sequence without repetitions.
LEMMA RemoveElement ==
    ASSUME NEW S, NEW s \in Seq(S), Distinct(s), NEW i \in DOMAIN s
    PROVE  LET t == Keep(s, DOMAIN s \ {i})
           IN  /\ t \in Seq(S)
               /\ Len(t) = Len(s) - 1
               /\ Elements(t) = Elements(s) \ {s[i]}
               /\ Distinct(t)
<1> DEFINE K == DOMAIN s \ {i}
<1>1. K \in SUBSET (DOMAIN s)
  OBVIOUS
<1>2. Keep(s, K) \in Seq(S) /\ Len(Keep(s, K)) = Cardinality(K)
  BY <1>1, KeepPositions
<1>3. Elements(Keep(s, K)) = {s[j] : j \in K} /\ Distinct(Keep(s, K))
  BY <1>1, KeepElements
<1>4. Cardinality(K) = Len(s) - 1
  <2>1. DOMAIN s = 1 .. Len(s) /\ Len(s) \in Nat
    OBVIOUS
  <2>3. IsFiniteSet(1 .. Len(s)) /\ Cardinality(1 .. Len(s)) = Len(s)
    BY <2>1, Positions
  <2>2. IsFiniteSet(DOMAIN s) /\ Cardinality(DOMAIN s) = Len(s)
    BY <2>1, <2>3
  <2> QED BY <2>2, FS_RemoveElement
<1>5. {s[j] : j \in K} = Elements(s) \ {s[i]}
  BY DEF Elements, Distinct
<1> QED BY <1>2, <1>3, <1>4, <1>5

\* The first element of a sequence without repetitions, and the rest.
LEMMA TailElements ==
    ASSUME NEW S, NEW s \in Seq(S), s # <<>>
    PROVE  /\ Head(s) \in S /\ Head(s) \in Elements(s)
           /\ Tail(s) \in Seq(S)
           /\ Len(Tail(s)) = Len(s) - 1
           /\ Distinct(s) => /\ Elements(Tail(s)) = Elements(s) \ {Head(s)}
                             /\ Distinct(Tail(s))
<1>1. /\ Tail(s) \in Seq(S) /\ Len(Tail(s)) = Len(s) - 1 /\ Len(s) \in Nat \ {0}
      /\ Head(s) = s[1] /\ 1 \in DOMAIN s /\ Head(s) \in S
  OBVIOUS
<1>2. \A i \in DOMAIN Tail(s) : i + 1 \in DOMAIN s /\ Tail(s)[i] = s[i + 1] /\ i \in Nat \ {0}
  OBVIOUS
<1>3. \A i \in DOMAIN s : i # 1 => i - 1 \in DOMAIN Tail(s) /\ Tail(s)[i - 1] = s[i]
  OBVIOUS
<1>4. Head(s) \in Elements(s)
  BY <1>1 DEF Elements
<1>5. ASSUME Distinct(s)
      PROVE  Elements(Tail(s)) = Elements(s) \ {Head(s)}
  <2>1. ASSUME NEW i \in DOMAIN Tail(s)
        PROVE  Tail(s)[i] \in Elements(s) \ {Head(s)}
    <3>1. i + 1 # 1
      BY <1>2
    <3> QED BY <3>1, <1>1, <1>2, <1>5 DEF Elements, Distinct
  <2>2. ASSUME NEW i \in DOMAIN s, s[i] # Head(s)
        PROVE  s[i] \in Elements(Tail(s))
    BY <2>2, <1>1, <1>3 DEF Elements
  <2> QED BY <2>1, <2>2 DEF Elements
<1>6. ASSUME Distinct(s), NEW i \in DOMAIN Tail(s), NEW j \in DOMAIN Tail(s),
             Tail(s)[i] = Tail(s)[j]
      PROVE  i = j
  <2>1. i + 1 = j + 1
    BY <1>2, <1>6 DEF Distinct
  <2> QED BY <2>1, <1>2
<1> QED BY <1>1, <1>4, <1>5, <1>6 DEF Distinct

\* What comes of an append to a deque that is not longer than its bound.
LEMMA AppendBoundedElements ==
    ASSUME NEW S, NEW s \in Seq(S), Len(s) <= MaxSize, NEW c \in S
    PROVE  /\ AppendBounded(s, c) \in Seq(S)
           /\ Len(AppendBounded(s, c)) = IF Len(s) = MaxSize THEN MaxSize ELSE Len(s) + 1
           /\ Distinct(s) /\ c \notin Elements(s) =>
                 /\ Distinct(AppendBounded(s, c))
                 /\ Elements(AppendBounded(s, c)) =
                       {c} \union (IF Len(s) = MaxSize THEN Elements(s) \ {Head(s)} ELSE Elements(s))
<1> DEFINE t == IF Len(s) = MaxSize THEN Tail(s) ELSE s
<1>1. Len(s) = MaxSize => s # <<>>
  BY SizeAssumption
<1>2. AppendBounded(s, c) = Append(t, c)
  BY SizeAssumption DEF AppendBounded
<1>3. /\ t \in Seq(S)
      /\ Len(t) = IF Len(s) = MaxSize THEN MaxSize - 1 ELSE Len(s)
      /\ Distinct(s) => /\ Distinct(t)
                        /\ Elements(t) = IF Len(s) = MaxSize THEN Elements(s) \ {Head(s)} ELSE Elements(s)
  BY <1>1, TailElements
<1> HIDE DEF t
<1>4. /\ Append(t, c) \in Seq(S)
      /\ Len(Append(t, c)) = Len(t) + 1
      /\ DOMAIN Append(t, c) = DOMAIN t \union {Len(t) + 1}
      /\ Append(t, c)[Len(t) + 1] = c
      /\ Len(t) + 1 \notin DOMAIN t
      /\ \A i \in DOMAIN t : Append(t, c)[i] = t[i]
  BY <1>3
<1>5. Elements(Append(t, c)) = {c} \union Elements(t)
  BY <1>4 DEF Elements
<1>6. Distinct(t) /\ c \notin Elements(t) => Distinct(Append(t, c))
  BY <1>4 DEF Elements, Distinct
<1>7. Len(Append(t, c)) = IF Len(s) = MaxSize THEN MaxSize ELSE Len(s) + 1
  BY <1>3, <1>4, SizeAssumption
<1> QED BY <1>2, <1>3, <1>4, <1>5, <1>6, <1>7

-----------------------------------------------------------------------------
(* Lemmas on the tables that give each producer or worker a chunk or none.   *)

Values(f, A) == {f[a] : a \in A} \ {NoChunk}
Private(f, A) == \A a, b \in A : f[a] = f[b] /\ a # b => f[a] = NoChunk

\* One of them lets go of its chunk.
LEMMA Vacate ==
    ASSUME NEW A, NEW a \in A, NEW f \in [A -> Chunk \union {NoChunk}], Private(f, A),
           NEW g, g = [f EXCEPT ![a] = NoChunk]
    PROVE  Values(g, A) = Values(f, A) \ {f[a]} /\ Private(g, A)
BY DEF Values, Private

Queued == Elements(queue)

LEMMA TableValues == Held = Values(hands, Worker) /\ Pending = Values(call, Producer)
BY DEF Held, Pending, Values

LEMMA TableValuesNext == Held' = Values(hands', Worker) /\ Pending' = Values(call', Producer)
BY DEF Held, Pending, Values

-----------------------------------------------------------------------------
(* Type correctness.                                                         *)

\* Removing positions leaves a queue of chunks that is no longer.
LEMMA KeepTyped ==
    ASSUME TypeOK, NEW K \in SUBSET (DOMAIN queue)
    PROVE  Keep(queue, K) \in Seq(Chunk) /\ Len(Keep(queue, K)) \in 0 .. Len(queue)
BY KeepPositions DEF TypeOK

\* A chunk enters a queue of at most max_size.
LEMMA AppendTyped ==
    ASSUME NEW q \in Seq(Chunk), Len(q) <= MaxSize, NEW c \in Chunk
    PROVE  AppendBounded(q, c) \in Seq(Chunk) /\ Len(AppendBounded(q, c)) <= MaxSize
<1>1. /\ AppendBounded(q, c) \in Seq(Chunk)
      /\ Len(AppendBounded(q, c)) = IF Len(q) = MaxSize THEN MaxSize ELSE Len(q) + 1
  BY AppendBoundedElements
<1> QED BY <1>1, SizeAssumption

\* The statistics stay natural numbers when one of them is incremented.
LEMMA TotalsTyped ==
    ASSUME NEW r \in [enqueued: Nat, dequeued: Nat, failed: Nat]
    PROVE  /\ [r EXCEPT !.enqueued = @ + 1] \in [enqueued: Nat, dequeued: Nat, failed: Nat]
           /\ [r EXCEPT !.dequeued = @ + 1] \in [enqueued: Nat, dequeued: Nat, failed: Nat]
           /\ [r EXCEPT !.failed = @ + 1] \in [enqueued: Nat, dequeued: Nat, failed: Nat]
<1>1. r.enqueued \in Nat /\ r.dequeued \in Nat /\ r.failed \in Nat
  OBVIOUS
<1>2. /\ r.enqueued + 1 \in Nat /\ r.dequeued + 1 \in Nat /\ r.failed + 1 \in Nat
  BY <1>1
<1> QED BY <1>1, <1>2

\* A counter of a table is incremented.
LEMMA CountTyped ==
    ASSUME NEW A, NEW f \in [A -> Nat], NEW a \in A
    PROVE  [f EXCEPT ![a] = @ + 1] \in [A -> Nat]
OBVIOUS

\* A put that succeeds, out of any queue that is not longer than max_size.
LEMMA EnqueueTyped ==
    ASSUME TypeOK, NEW p \in Producer, call[p] # NoChunk,
           NEW q \in Seq(Chunk), Len(q) <= MaxSize, NEW reg \in SUBSET Chunk,
           Enqueue(p, q, reg)
    PROVE  /\ queue' \in Seq(Chunk) /\ Len(queue') <= MaxSize
           /\ registry' \subseteq Chunk
           /\ totals' \in [enqueued: Nat, dequeued: Nat, failed: Nat]
           /\ call' \in [Producer -> Chunk \union {NoChunk}]
           /\ mode' \in [Producer -> Modes]
<1>1. call[p] \in Chunk
  BY DEF TypeOK
<1>2. queue' \in Seq(Chunk) /\ Len(queue') <= MaxSize
  BY <1>1, AppendTyped DEF Enqueue
<1>3. registry' \subseteq Chunk
  BY <1>1 DEF Enqueue
<1>4. totals' \in [enqueued: Nat, dequeued: Nat, failed: Nat]
  BY TotalsTyped DEF Enqueue, TypeOK
<1>5. call' \in [Producer -> Chunk \union {NoChunk}]
  BY DEF Enqueue, TypeOK
<1>6. mode' \in [Producer -> Modes]
  BY DEF Enqueue, TypeOK, Modes
<1> QED BY <1>2, <1>3, <1>4, <1>5, <1>6

LEMMA TypeStep == TypeOK /\ [Next]_vars => TypeOK'
<1> SUFFICES ASSUME TypeOK, [Next]_vars
             PROVE  TypeOK'
  OBVIOUS
<1> USE DEF vars, chunkVars, putVars, history
<1>1. CASE UNCHANGED vars
  BY <1>1 DEF TypeOK
<1>2. ASSUME NEW p \in Producer, PutCall(p)
      PROVE  TypeOK'
  <2>1. born' = born + 1 /\ born' \in 0 .. MaxChunks /\ born' \in Chunk
    BY <1>2, SizeAssumption DEF PutCall, TypeOK, Chunk
  <2>2. call' \in [Producer -> Chunk \union {NoChunk}]
    BY <1>2, <2>1 DEF PutCall, TypeOK
  <2>3. mode' \in [Producer -> Modes]
    BY <1>2 DEF PutCall, TypeOK
  <2>4. priority' \in [Chunk -> 0 .. 4]
    BY <1>2, SizeAssumption DEF PutCall, TypeOK
  <2> QED BY <1>2, <2>1, <2>2, <2>3, <2>4 DEF PutCall, TypeOK
<1>3. ASSUME NEW p \in Producer, PutAppend(p)
      PROVE  TypeOK'
  <2>1. call[p] # NoChunk /\ Enqueue(p, queue, registry)
    BY <1>3 DEF PutAppend
  <2>2. /\ queue' \in Seq(Chunk) /\ Len(queue') <= MaxSize /\ registry' \subseteq Chunk
        /\ totals' \in [enqueued: Nat, dequeued: Nat, failed: Nat]
        /\ call' \in [Producer -> Chunk \union {NoChunk}]
        /\ mode' \in [Producer -> Modes]
    BY <2>1, EnqueueTyped DEF TypeOK
  <2> QED BY <1>3, <2>2 DEF PutAppend, TypeOK
<1>4. ASSUME NEW p \in Producer, PutAborts(p)
      PROVE  TypeOK'
  <2>1. call' \in [Producer -> Chunk \union {NoChunk}]
    BY <1>4 DEF PutAborts, TypeOK
  <2>2. mode' \in [Producer -> Modes]
    BY <1>4 DEF PutAborts, TypeOK, Modes
  <2> QED BY <1>4, <2>1, <2>2 DEF PutAborts, TypeOK
<1>5. ASSUME NEW p \in Producer, PutEvicting(p)
      PROVE  TypeOK'
  <2>1. PICK i \in Victims : Enqueue(p, Keep(queue, DOMAIN queue \ {i}), registry \ {queue[i]})
    BY <1>5 DEF PutEvicting
  <2> DEFINE q == Keep(queue, DOMAIN queue \ {i})
  <2>2. q \in Seq(Chunk) /\ Len(q) \in 0 .. Len(queue)
    BY KeepTyped
  <2>3. Len(q) <= MaxSize
    BY <2>2, SizeAssumption DEF TypeOK
  <2>4. call[p] # NoChunk /\ registry \ {queue[i]} \in SUBSET Chunk
    BY <1>5 DEF PutEvicting, TypeOK
  <2> HIDE DEF q
  <2>5. /\ queue' \in Seq(Chunk) /\ Len(queue') <= MaxSize /\ registry' \subseteq Chunk
        /\ totals' \in [enqueued: Nat, dequeued: Nat, failed: Nat]
        /\ call' \in [Producer -> Chunk \union {NoChunk}]
        /\ mode' \in [Producer -> Modes]
    BY <2>1, <2>2, <2>3, <2>4, EnqueueTyped DEF q
  <2>6. lost' \in [Causes -> Nat]
    BY <1>5 DEF PutEvicting, TypeOK, Causes
  <2> QED BY <1>5, <2>5, <2>6 DEF PutEvicting, TypeOK
<1>6. ASSUME NEW w \in Worker, Get(w)
      PROVE  TypeOK'
  <2>1. Head(queue) \in Chunk /\ Tail(queue) \in Seq(Chunk) /\ Len(Tail(queue)) = Len(queue) - 1
    BY <1>6, TailElements DEF Get, TypeOK
  <2>2. hands' \in [Worker -> Chunk \union {NoChunk}]
    BY <1>6, <2>1 DEF Get, TypeOK
  <2>3. status' \in [Chunk -> Status]
    BY <1>6, <2>1 DEF Get, TypeOK, Status
  <2>4. totals' \in [enqueued: Nat, dequeued: Nat, failed: Nat]
    BY <1>6, TotalsTyped DEF Get, TypeOK
  <2>5. deliveries' \in [Chunk -> Nat]
    BY <1>6, <2>1, CountTyped DEF Get, TypeOK
  <2>6. queue' \in Seq(Chunk) /\ Len(queue') <= MaxSize
    <3>1. queue \in Seq(Chunk) /\ Len(queue) <= MaxSize /\ queue' = Tail(queue)
      BY <1>6 DEF Get, TypeOK
    <3>2. queue' \in Seq(Chunk) /\ Len(queue') = Len(queue) - 1
      BY <3>1, <2>1, Zenon
    <3>3. Len(queue) \in Nat
      BY <3>1
    <3>4. Len(queue) - 1 <= MaxSize
      BY <3>1, <3>3, SizeAssumption
    <3> QED BY <3>2, <3>4
  <2> QED BY <1>6, <2>2, <2>3, <2>4, <2>5, <2>6 DEF Get, TypeOK
<1>7. ASSUME NEW w \in Worker, MarkCompleted(w)
      PROVE  TypeOK'
  <2>1. hands' \in [Worker -> Chunk \union {NoChunk}]
    BY <1>7 DEF MarkCompleted, TypeOK
  <2>2. status' \in [Chunk -> Status]
    BY <1>7 DEF MarkCompleted, TypeOK, Status
  <2> QED BY <1>7, <2>1, <2>2 DEF MarkCompleted, TypeOK
<1>8. ASSUME NEW w \in Worker, MarkFailedRetry(w)
      PROVE  TypeOK'
  <2>1. hands[w] \in Chunk
    BY <1>8 DEF MarkFailedRetry, TypeOK
  <2>2. hands' \in [Worker -> Chunk \union {NoChunk}]
    BY <1>8 DEF MarkFailedRetry, TypeOK
  <2>3. status' \in [Chunk -> Status]
    BY <1>8, <2>1 DEF MarkFailedRetry, TypeOK, Status
  <2>4. retries' \in [Chunk -> 0 .. MaxRetries]
    BY <1>8, <2>1, SizeAssumption DEF MarkFailedRetry, CanRetry, TypeOK
  <2>5. totals' \in [enqueued: Nat, dequeued: Nat, failed: Nat]
    BY <1>8, TotalsTyped DEF MarkFailedRetry, TypeOK
  <2>6. lost' \in [Causes -> Nat]
    BY <1>8 DEF MarkFailedRetry, TypeOK, Causes
  <2>7. queue' \in Seq(Chunk) /\ Len(queue') <= MaxSize
    BY <1>8, <2>1, AppendTyped DEF MarkFailedRetry, TypeOK
  <2> QED BY <1>8, <2>2, <2>3, <2>4, <2>5, <2>6, <2>7 DEF MarkFailedRetry, TypeOK
<1>9. ASSUME NEW w \in Worker, MarkFailedFinal(w)
      PROVE  TypeOK'
  <2>1. hands' \in [Worker -> Chunk \union {NoChunk}]
    BY <1>9 DEF MarkFailedFinal, TypeOK
  <2>2. status' \in [Chunk -> Status]
    BY <1>9 DEF MarkFailedFinal, TypeOK, Status
  <2>3. totals' \in [enqueued: Nat, dequeued: Nat, failed: Nat]
    BY <1>9, TotalsTyped DEF MarkFailedFinal, TypeOK
  <2> QED BY <1>9, <2>1, <2>2, <2>3 DEF MarkFailedFinal, TypeOK
<1>10. ASSUME NEW w \in Worker, MarkFailedUnknown(w)
       PROVE  TypeOK'
  BY <1>10 DEF MarkFailedUnknown, TypeOK
<1>11. ASSUME NEW c \in Chunk, GrowOld(c)
       PROVE  TypeOK'
  <2>1. old' \in [Chunk -> BOOLEAN]
    BY <1>11 DEF GrowOld, TypeOK
  <2> QED BY <1>11, <2>1 DEF GrowOld, TypeOK
<1>12. CASE Cleanup
  <2>1. Cleanable \in SUBSET (DOMAIN queue) /\ DOMAIN queue \ Cleanable \in SUBSET (DOMAIN queue)
    BY DEF Cleanable
  <2>2. queue' \in Seq(Chunk) /\ Len(queue') \in 0 .. Len(queue)
    BY <1>12, <2>1, KeepTyped DEF Cleanup
  <2>3. Cardinality(Cleanable) \in Nat
    BY <2>1, KeepPositions DEF TypeOK
  <2>4. lost' \in [Causes -> Nat]
    BY <1>12, <2>3 DEF Cleanup, TypeOK, Causes
  <2>5. Len(queue') <= MaxSize
    BY <2>2, SizeAssumption DEF TypeOK
  <2> QED BY <1>12, <2>2, <2>4, <2>5 DEF Cleanup, Forget, TypeOK
<1>13. CASE Clear
  <2>1. lost' \in [Causes -> Nat]
    BY <1>13 DEF Clear, TypeOK, Causes
  <2> QED BY <1>13, <2>1, SizeAssumption DEF Clear, TypeOK
<1> QED BY <1>1, <1>2, <1>3, <1>4, <1>5, <1>6, <1>7, <1>8, <1>9, <1>10, <1>11, <1>12, <1>13
        DEF Next, PutRefused, PutRaises

LEMMA QueueInitTyped == Init => TypeOK
BY SizeAssumption DEF Init, TypeOK, Chunk, NoChunk, LOW, Status, Modes, Causes

\* The variables keep their ranges, and no interleaving of puts, evictions and
\* retries makes the deque longer than max_size.
THEOREM QueueTypeCorrect == Spec => []TypeOK
BY QueueInitTyped, TypeStep, PTL DEF Spec

-----------------------------------------------------------------------------
(* Where the chunks are, and how each action moves them.                     *)

\* Nobody shares a chunk: no two positions, no two workers, no two producers.
Shape == Distinct(queue) /\ Private(hands, Worker) /\ Private(call, Producer)

Located ==
    /\ Shape
    /\ Queued \subseteq registry
    /\ Queued \intersect Held = {}
    /\ Pending \intersect (Held \union registry) = {}
    /\ \A c \in Pending \union Held \union registry : c \in 1 .. born

\* A chunk in somebody's table is a chunk, and counts as held or pending.
LEMMA TableMember ==
    ASSUME TypeOK
    PROVE  /\ \A w \in Worker : hands[w] # NoChunk => hands[w] \in Held /\ hands[w] \in Chunk
           /\ \A p \in Producer : call[p] # NoChunk => call[p] \in Pending /\ call[p] \in Chunk
           /\ Held \subseteq Chunk /\ Pending \subseteq Chunk /\ Queued \subseteq Chunk
BY DEF TypeOK, Held, Pending, Queued, Elements

LEMMA PutCallMoves ==
    ASSUME TypeOK, Located, NEW p \in Producer, PutCall(p)
    PROVE  /\ Shape' /\ Queued' = Queued /\ Held' = Held /\ registry' = registry
           /\ born' = born + 1 /\ born' \in Chunk
           /\ Pending' = Pending \union {born'}
<1>1. born' = born + 1 /\ born' \in Chunk /\ born \in Nat
  BY SizeAssumption DEF PutCall, TypeOK, Chunk
<1>2. born' \notin Pending
  BY <1>1 DEF Located
<1>3. Pending' = Pending \union {born'} /\ Private(call', Producer)
  <2>1. /\ call \in [Producer -> Chunk \union {NoChunk}] /\ Private(call, Producer)
        /\ call[p] = NoChunk /\ call' = [call EXCEPT ![p] = born']
    BY DEF PutCall, TypeOK, Located, Shape
  <2>2. /\ Private(call', Producer)
        /\ Values(call', Producer) = Values(call, Producer) \union {born'}
    <3>1. born' # NoChunk /\ born' \notin Values(call, Producer)
      BY <1>1, <1>2, TableValues DEF NoChunk
    <3> QED BY <2>1, <3>1 DEF Values, Private
  <2> QED BY <2>2, TableValues, TableValuesNext
<1>4. UNCHANGED <<queue, hands, registry>>
  BY DEF PutCall
<1> QED BY <1>1, <1>3, <1>4 DEF Located, Shape, Queued, Held

\* The producer's chunk leaves its table.
LEMMA PutEndsMoves ==
    ASSUME TypeOK, Located, NEW p \in Producer, call[p] # NoChunk,
           call' = [call EXCEPT ![p] = NoChunk]
    PROVE  Private(call', Producer) /\ Pending' = Pending \ {call[p]}
BY Vacate, TableValues, TableValuesNext DEF TypeOK, Located, Shape

LEMMA PutAppendMoves ==
    ASSUME TypeOK, Located, NEW p \in Producer, PutAppend(p)
    PROVE  /\ Shape' /\ Held' = Held /\ born' = born
           /\ call[p] \in Pending /\ call[p] \in Chunk /\ Pending' = Pending \ {call[p]}
           /\ Queued' = Queued \union {call[p]} /\ registry' = registry \union {call[p]}
           /\ Len(queue') = Len(queue) + 1
<1>1. call[p] \in Pending /\ call[p] \in Chunk
  BY TableMember DEF PutAppend
<1>2. call[p] \notin Queued
  BY <1>1 DEF Located
<1>3. queue \in Seq(Chunk) /\ Len(queue) <= MaxSize /\ Len(queue) # MaxSize
  <2>1. queue \in Seq(Chunk) /\ Len(queue) <= MaxSize
    BY DEF TypeOK
  <2> QED BY <2>1, SizeAssumption DEF PutAppend, Full
<1>4. /\ Distinct(AppendBounded(queue, call[p]))
      /\ Elements(AppendBounded(queue, call[p])) = {call[p]} \union Queued
      /\ Len(AppendBounded(queue, call[p])) = Len(queue) + 1
  BY <1>1, <1>2, <1>3, AppendBoundedElements DEF Queued, Located, Shape
<1>5. /\ queue' = AppendBounded(queue, call[p]) /\ registry' = registry \union {call[p]}
      /\ call' = [call EXCEPT ![p] = NoChunk] /\ call[p] # NoChunk
      /\ hands' = hands /\ born' = born
  BY DEF PutAppend, Enqueue, chunkVars
<1>6. Private(call', Producer) /\ Pending' = Pending \ {call[p]}
  BY <1>5, PutEndsMoves
<1>7. Private(hands', Worker) /\ Held' = Held
  BY <1>5 DEF Located, Shape, Held
<1> QED BY <1>1, <1>4, <1>5, <1>6, <1>7 DEF Shape, Queued

LEMMA PutAbortsMoves ==
    ASSUME TypeOK, Located, NEW p \in Producer, call[p] # NoChunk, PutAborts(p)
    PROVE  /\ Shape' /\ Held' = Held /\ born' = born /\ Queued' = Queued /\ registry' = registry
           /\ call[p] \in Pending /\ call[p] \in Chunk /\ Pending' = Pending \ {call[p]}
<1>1. Private(call', Producer) /\ Pending' = Pending \ {call[p]}
  BY PutEndsMoves DEF PutAborts
<1>2. UNCHANGED <<queue, hands, registry, born>>
  BY DEF PutAborts, chunkVars
<1> QED BY <1>1, <1>2, TableMember DEF Located, Shape, Queued, Held

LEMMA PutEvictingMoves ==
    ASSUME TypeOK, Located, NEW p \in Producer, PutEvicting(p)
    PROVE  \E i \in Victims :
           /\ Shape' /\ Held' = Held /\ born' = born
           /\ call[p] \in Pending /\ call[p] \in Chunk /\ Pending' = Pending \ {call[p]}
           /\ queue[i] \in Queued
           /\ Queued' = (Queued \ {queue[i]}) \union {call[p]}
           /\ registry' = (registry \ {queue[i]}) \union {call[p]}
           /\ Len(queue') = Len(queue)
<1>1. PICK i \in Victims : Enqueue(p, Keep(queue, DOMAIN queue \ {i}), registry \ {queue[i]})
  BY DEF PutEvicting
<1> DEFINE q == Keep(queue, DOMAIN queue \ {i})
<1>2. i \in DOMAIN queue /\ queue \in Seq(Chunk) /\ Len(queue) <= MaxSize /\ Distinct(queue)
  BY DEF Victims, TypeOK, Located, Shape
<1>3. /\ q \in Seq(Chunk) /\ Len(q) = Len(queue) - 1
      /\ Elements(q) = Queued \ {queue[i]} /\ Distinct(q)
  BY <1>2, RemoveElement DEF Queued
<1>4. call[p] \in Pending /\ call[p] \in Chunk /\ call[p] # NoChunk
  BY TableMember DEF PutEvicting
<1>5. call[p] \notin Elements(q)
  BY <1>3, <1>4 DEF Located
<1> HIDE DEF q
<1>6. Len(q) <= MaxSize /\ Len(q) # MaxSize /\ Len(q) + 1 = Len(queue)
  <2>1. Len(queue) \in Nat
    BY <1>2
  <2> QED BY <1>2, <1>3, <2>1, SizeAssumption
<1>7. /\ Distinct(AppendBounded(q, call[p]))
      /\ Elements(AppendBounded(q, call[p])) = {call[p]} \union (Queued \ {queue[i]})
      /\ Len(AppendBounded(q, call[p])) = Len(queue)
  BY <1>3, <1>4, <1>5, <1>6, AppendBoundedElements
<1>8. /\ queue' = AppendBounded(q, call[p])
      /\ registry' = (registry \ {queue[i]}) \union {call[p]}
      /\ call' = [call EXCEPT ![p] = NoChunk]
      /\ hands' = hands /\ born' = born
  BY <1>1 DEF PutEvicting, Enqueue, chunkVars, q
<1>9. Private(call', Producer) /\ Pending' = Pending \ {call[p]}
  BY <1>4, <1>8, PutEndsMoves
<1>10. Private(hands', Worker) /\ Held' = Held
  BY <1>8 DEF Located, Shape, Held
<1>11. queue[i] \in Queued
  BY <1>2 DEF Queued, Elements
<1> QED BY <1>4, <1>7, <1>8, <1>9, <1>10, <1>11 DEF Shape, Queued

LEMMA GetMoves ==
    ASSUME TypeOK, Located, NEW w \in Worker, Get(w)
    PROVE  /\ Shape' /\ Pending' = Pending /\ registry' = registry /\ born' = born
           /\ Head(queue) \in Chunk /\ Head(queue) \in Queued
           /\ Queued' = Queued \ {Head(queue)} /\ Held' = Held \union {Head(queue)}
           /\ Len(queue') = Len(queue) - 1
<1>1. /\ queue # <<>> /\ queue' = Tail(queue) /\ hands[w] = NoChunk
      /\ hands' = [hands EXCEPT ![w] = Head(queue)]
      /\ call' = call /\ registry' = registry /\ born' = born
  BY DEF Get, putVars, chunkVars
<1>2. /\ Head(queue) \in Chunk /\ Head(queue) \in Queued
      /\ Len(queue') = Len(queue) - 1
      /\ Queued' = Queued \ {Head(queue)} /\ Distinct(queue')
  BY <1>1, TailElements DEF TypeOK, Located, Shape, Queued
<1>3. Head(queue) \notin Held
  BY <1>2 DEF Located
<1>4. Private(hands', Worker) /\ Held' = Held \union {Head(queue)}
  <2>1. hands \in [Worker -> Chunk \union {NoChunk}] /\ Private(hands, Worker)
    BY DEF TypeOK, Located, Shape
  <2>2. /\ Private(hands', Worker)
        /\ Values(hands', Worker) = Values(hands, Worker) \union {Head(queue)}
    <3>1. /\ hands[w] = NoChunk /\ hands' = [hands EXCEPT ![w] = Head(queue)]
          /\ Head(queue) # NoChunk /\ Head(queue) \notin Values(hands, Worker)
      BY <1>1, <1>2, <1>3, TableValues DEF Chunk, NoChunk
    <3> QED BY <2>1, <3>1 DEF Values, Private
  <2> QED BY <2>2, TableValues, TableValuesNext
<1> QED BY <1>1, <1>2, <1>4 DEF Located, Shape, Pending

\* The worker's chunk leaves its hands.
LEMMA ReportMoves ==
    ASSUME TypeOK, Located, NEW w \in Worker, hands[w] # NoChunk,
           hands' = [hands EXCEPT ![w] = NoChunk]
    PROVE  /\ Private(hands', Worker) /\ Held' = Held \ {hands[w]}
           /\ hands[w] \in Held /\ hands[w] \in Chunk
BY Vacate, TableValues, TableValuesNext, TableMember DEF TypeOK, Located, Shape

LEMMA RetryMoves ==
    ASSUME TypeOK, Located, NEW w \in Worker, MarkFailedRetry(w)
    PROVE  /\ Shape' /\ Pending' = Pending /\ registry' = registry /\ born' = born
           /\ hands[w] \in Held /\ hands[w] \in Chunk /\ hands[w] \in registry
           /\ Held' = Held \ {hands[w]}
           /\ Queued' = {hands[w]} \union (IF Len(queue) = MaxSize THEN Queued \ {Head(queue)} ELSE Queued)
           /\ Len(queue) = MaxSize => Head(queue) \in Queued /\ Head(queue) \in Chunk
           /\ Len(queue') = IF Len(queue) = MaxSize THEN Len(queue) ELSE Len(queue) + 1
<1>1. /\ hands[w] \in registry /\ hands' = [hands EXCEPT ![w] = NoChunk]
      /\ queue' = AppendBounded(queue, hands[w])
      /\ call' = call /\ registry' = registry /\ born' = born
  BY DEF MarkFailedRetry, putVars, chunkVars
<1>2. hands[w] # NoChunk
  BY <1>1 DEF TypeOK, Chunk, NoChunk
<1>3. /\ Private(hands', Worker) /\ Held' = Held \ {hands[w]}
      /\ hands[w] \in Held /\ hands[w] \in Chunk
  BY <1>1, <1>2, ReportMoves
<1>4. hands[w] \notin Queued /\ queue \in Seq(Chunk) /\ Len(queue) <= MaxSize
  BY <1>3 DEF Located, TypeOK
<1>5. /\ Distinct(queue')
      /\ Queued' = {hands[w]} \union (IF Len(queue) = MaxSize THEN Queued \ {Head(queue)} ELSE Queued)
      /\ Len(queue') = IF Len(queue) = MaxSize THEN MaxSize ELSE Len(queue) + 1
  BY <1>1, <1>3, <1>4, AppendBoundedElements DEF Queued, Located, Shape
<1>6. Len(queue) = MaxSize => Head(queue) \in Queued /\ Head(queue) \in Chunk
  <2>1. Len(queue) = MaxSize => queue # <<>>
    BY <1>4, SizeAssumption
  <2> QED BY <1>4, <2>1, TailElements DEF Queued
<1> QED BY <1>1, <1>3, <1>5, <1>6 DEF Located, Shape, Pending

Swept == {queue[i] : i \in Cleanable}

LEMMA CleanupMoves ==
    ASSUME TypeOK, Located, Cleanup
    PROVE  /\ Shape' /\ Pending' = Pending /\ Held' = Held /\ born' = born
           /\ Swept \subseteq Queued
           /\ Queued' = Queued \ Swept /\ registry' = registry \ Swept
           /\ Len(queue') = Len(queue) - Cardinality(Cleanable)
           /\ Cardinality(Cleanable) \in Nat
<1> DEFINE K == DOMAIN queue \ Cleanable
<1>1. /\ Cleanable \in SUBSET (DOMAIN queue) /\ K \in SUBSET (DOMAIN queue)
      /\ queue \in Seq(Chunk) /\ Distinct(queue)
  BY DEF Cleanable, TypeOK, Located, Shape
<1>2. /\ queue' = Keep(queue, K) /\ registry' = registry \ Swept
      /\ call' = call /\ hands' = hands /\ born' = born
  BY DEF Cleanup, Forget, Swept, putVars, chunkVars
<1> HIDE DEF K
<1>3. /\ Len(queue') = Cardinality(K)
      /\ Queued' = {queue[i] : i \in K} /\ Distinct(queue')
  <2>1. Len(Keep(queue, K)) = Cardinality(K)
    BY <1>1, KeepPositions
  <2>2. Elements(Keep(queue, K)) = {queue[i] : i \in K} /\ Distinct(Keep(queue, K))
    BY <1>1, KeepElements
  <2> QED BY <1>2, <2>1, <2>2 DEF Queued
<1>4. {queue[i] : i \in K} = Queued \ Swept /\ Swept \subseteq Queued
  BY <1>1 DEF Queued, Swept, Elements, Distinct, K
<1>5. Cardinality(K) = Len(queue) - Cardinality(Cleanable) /\ Cardinality(Cleanable) \in Nat
  <2>1. DOMAIN queue = 1 .. Len(queue) /\ Len(queue) \in Nat
    BY <1>1
  <2>2. IsFiniteSet(DOMAIN queue) /\ Cardinality(DOMAIN queue) = Len(queue)
    BY <2>1, Positions
  <2>3. IsFiniteSet(K) /\ IsFiniteSet(Cleanable)
    BY <1>1, <2>2, FS_Subset
  <2>4. Cardinality(K) \in Nat /\ Cardinality(Cleanable) \in Nat
    BY <2>3, FS_CardinalityType
  <2>5. /\ K \union Cleanable = DOMAIN queue /\ K \intersect Cleanable = {}
        /\ Cardinality({}) = 0
    BY <1>1, FS_EmptySet DEF K
  <2>6. Cardinality(K \union Cleanable)
            = Cardinality(K) + Cardinality(Cleanable) - Cardinality(K \intersect Cleanable)
    BY <2>3, FS_Union
  <2> HIDE DEF K
  <2>7. Len(queue) = Cardinality(K) + Cardinality(Cleanable) - 0
    BY <2>2, <2>5, <2>6
  <2> QED BY <2>1, <2>4, <2>7
<1> QED BY <1>2, <1>3, <1>4, <1>5 DEF Located, Shape, Pending, Held

LEMMA ClearMoves ==
    ASSUME TypeOK, Located, Clear
    PROVE  /\ Shape' /\ Pending' = Pending /\ Held' = Held /\ born' = born
           /\ Queued' = {} /\ registry' = {} /\ Len(queue') = 0
BY DEF Clear, Located, Shape, Distinct, Queued, Elements, Pending, Held, putVars, chunkVars

-----------------------------------------------------------------------------
(* A chunk is in one place.                                                  *)

LEMMA LocatedStep ==
    ASSUME TypeOK, Located, [Next]_vars
    PROVE  Located'
<1>0. born \in Nat
  BY SizeAssumption DEF TypeOK
<1>1. CASE UNCHANGED vars
  BY <1>1 DEF vars, chunkVars, putVars, Located, Shape, Queued, Held, Pending
<1>2. ASSUME NEW p \in Producer, PutCall(p)
      PROVE  Located'
  <2>1. /\ Shape' /\ Queued' = Queued /\ Held' = Held /\ registry' = registry
        /\ born' = born + 1 /\ Pending' = Pending \union {born'}
    BY <1>2, PutCallMoves
  <2>2. born' \notin Held \union registry
    BY <1>0, <2>1 DEF Located
  <2>3. \A c \in 1 .. born : c \in 1 .. born'
    BY <1>0, <2>1
  <2>4. born' \in 1 .. born'
    BY <1>0, <2>1
  <2> QED BY <2>1, <2>2, <2>3, <2>4 DEF Located
<1>3. ASSUME NEW p \in Producer, PutAppend(p)
      PROVE  Located'
  <2>1. /\ Shape' /\ Held' = Held /\ born' = born
        /\ call[p] \in Pending /\ Pending' = Pending \ {call[p]}
        /\ Queued' = Queued \union {call[p]} /\ registry' = registry \union {call[p]}
    BY <1>3, PutAppendMoves
  <2> QED BY <2>1 DEF Located
<1>4. ASSUME NEW p \in Producer, call[p] # NoChunk, PutAborts(p)
      PROVE  Located'
  <2>1. /\ Shape' /\ Held' = Held /\ born' = born /\ Queued' = Queued /\ registry' = registry
        /\ Pending' = Pending \ {call[p]}
    BY <1>4, PutAbortsMoves
  <2> QED BY <2>1 DEF Located
<1>5. ASSUME NEW p \in Producer, PutEvicting(p)
      PROVE  Located'
  <2>1. PICK i \in Victims :
           /\ Shape' /\ Held' = Held /\ born' = born
           /\ call[p] \in Pending /\ Pending' = Pending \ {call[p]}
           /\ Queued' = (Queued \ {queue[i]}) \union {call[p]}
           /\ registry' = (registry \ {queue[i]}) \union {call[p]}
    BY <1>5, PutEvictingMoves
  <2> QED BY <2>1 DEF Located
<1>6. ASSUME NEW w \in Worker, Get(w)
      PROVE  Located'
  <2>1. /\ Shape' /\ Pending' = Pending /\ registry' = registry /\ born' = born
        /\ Head(queue) \in Queued
        /\ Queued' = Queued \ {Head(queue)} /\ Held' = Held \union {Head(queue)}
    BY <1>6, GetMoves
  <2> QED BY <2>1 DEF Located
<1>7. ASSUME NEW w \in Worker, hands[w] # NoChunk, hands' = [hands EXCEPT ![w] = NoChunk],
             UNCHANGED <<queue, registry, call, born>>
      PROVE  Located'
  <2>1. Private(hands', Worker) /\ Held' = Held \ {hands[w]}
    BY <1>7, ReportMoves
  <2>2. Queued' = Queued /\ Pending' = Pending
    BY <1>7 DEF Queued, Pending
  <2>3. Shape'
    BY <1>7, <2>1 DEF Located, Shape
  <2> QED BY <1>7, <2>1, <2>2, <2>3 DEF Located
<1>8. ASSUME NEW w \in Worker, MarkFailedRetry(w)
      PROVE  Located'
  <2>1. /\ Shape' /\ Pending' = Pending /\ registry' = registry /\ born' = born
        /\ hands[w] \in Held /\ hands[w] \in registry
        /\ Held' = Held \ {hands[w]}
        /\ Queued' \subseteq {hands[w]} \union Queued
    BY <1>8, RetryMoves
  <2> QED BY <2>1 DEF Located
<1>9. ASSUME NEW c \in Chunk, GrowOld(c)
      PROVE  Located'
  BY <1>9 DEF GrowOld, chunkVars, putVars, Located, Shape, Queued, Held, Pending
<1>10. CASE Cleanup
  <2>1. /\ Shape' /\ Pending' = Pending /\ Held' = Held /\ born' = born
        /\ Queued' = Queued \ Swept /\ registry' = registry \ Swept
    BY <1>10, CleanupMoves
  <2> QED BY <2>1 DEF Located
<1>11. CASE Clear
  <2>1. /\ Shape' /\ Pending' = Pending /\ Held' = Held /\ born' = born
        /\ Queued' = {} /\ registry' = {}
    BY <1>11, ClearMoves
  <2> QED BY <2>1 DEF Located
<1>12. ASSUME NEW w \in Worker, MarkCompleted(w) \/ MarkFailedFinal(w) \/ MarkFailedUnknown(w)
       PROVE  Located'
  <2>1. NoChunk \notin registry
    BY DEF TypeOK, Chunk, NoChunk
  <2> QED BY <1>7, <1>12, <2>1
          DEF MarkCompleted, MarkFailedFinal, MarkFailedUnknown, putVars, chunkVars
<1> QED BY <1>1, <1>2, <1>3, <1>4, <1>5, <1>6, <1>8, <1>9, <1>10, <1>11, <1>12
        DEF Next, PutRefused, PutRaises

LEMMA LocatedInit == Init => Located
BY DEF Init, Located, Shape, Distinct, Private, Queued, Elements, Held, Pending, NoChunk

LEMMA AlwaysLocated == Spec => [](TypeOK /\ Located)
<1>1. Init => TypeOK /\ Located
  BY QueueInitTyped, LocatedInit
<1>2. TypeOK /\ Located /\ [Next]_vars => (TypeOK /\ Located)'
  BY TypeStep, LocatedStep
<1> QED BY <1>1, <1>2, PTL DEF Spec

\* No sequence element twice: Cardinality counts it so.
LEMMA OccursOnce ==
    ASSUME NEW s, Distinct(s), NEW c
    PROVE  Occurrences(s, c) <= 1
<1>1. CASE {i \in DOMAIN s : s[i] = c} = {}
  BY <1>1, FS_EmptySet DEF Occurrences
<1>2. CASE {i \in DOMAIN s : s[i] = c} # {}
  <2>1. PICK k \in DOMAIN s : s[k] = c
    BY <1>2
  <2>2. {i \in DOMAIN s : s[i] = c} = {k}
    BY <2>1 DEF Distinct
  <2> QED BY <2>2, FS_Singleton DEF Occurrences
<1> QED BY <1>1, <1>2

\* A chunk is queued once, or in one worker's hands, or with one producer: eviction,
\* retry, cleanup and clear never make two workers process it at a time.
THEOREM OnePlaceAlways == Spec => []OnePlace
<1>1. TypeOK /\ Located => OnePlace
  BY OccursOnce DEF Located, Shape, Private, Queued, OnePlace
<1> QED BY <1>1, AlwaysLocated, PTL

-----------------------------------------------------------------------------
(* What the fields of a chunk say of its place, and the registry.            *)

\* status and the counters follow the place of a chunk, and a registered chunk that
\* is being processed is in somebody's hands.
Tracked ==
    /\ \A c \in Chunk : c > born \/ c \in Pending =>
          status[c] = "PENDING" /\ retries[c] = 0 /\ deliveries[c] = 0
    /\ \A c \in Queued : status[c] = "PENDING" /\ deliveries[c] = retries[c]
    /\ \A c \in Held : status[c] = "PROCESSING" /\ deliveries[c] = retries[c] + 1
    /\ \A c \in registry : status[c] = "PROCESSING" => c \in Held

\* The registered chunks that wait in no queue.
Overflown == {c \in registry \ Queued : status[c] = "PENDING"}

Explained == Tracked /\ Cardinality(Overflown) <= lost["overflow"]

LEMMA TrackedStep ==
    ASSUME TypeOK, Located, Tracked, [Next]_vars
    PROVE  Tracked'
<1>0. born \in Nat /\ (\A c \in Chunk : c \in Nat)
  BY SizeAssumption DEF TypeOK, Chunk
<1>s. Held \subseteq Chunk /\ Pending \subseteq Chunk /\ Queued \subseteq Chunk /\ registry \subseteq Chunk
  BY TableMember DEF TypeOK
<1>1. CASE UNCHANGED vars
  BY <1>1 DEF vars, chunkVars, putVars, history, Tracked, Queued, Held, Pending
<1>2. ASSUME NEW p \in Producer, PutCall(p)
      PROVE  Tracked'
  <2>1. /\ Queued' = Queued /\ Held' = Held /\ registry' = registry
        /\ born' = born + 1 /\ Pending' = Pending \union {born'}
    BY <1>2, PutCallMoves
  <2>2. UNCHANGED <<status, retries, deliveries>>
    BY <1>2 DEF PutCall, history
  <2>3. \A c \in Chunk : c > born' \/ c = born' => c > born
    BY <1>0, <2>1
  <2> QED BY <2>1, <2>2, <2>3 DEF Tracked
<1>3. ASSUME NEW p \in Producer, PutAppend(p)
      PROVE  Tracked'
  <2>1. /\ Held' = Held /\ born' = born
        /\ call[p] \in Pending /\ call[p] \in Chunk /\ Pending' = Pending \ {call[p]}
        /\ Queued' = Queued \union {call[p]} /\ registry' = registry \union {call[p]}
    BY <1>3, PutAppendMoves
  <2>2. UNCHANGED <<status, retries, deliveries>>
    BY <1>3 DEF PutAppend, history
  <2>3. status[call[p]] = "PENDING" /\ retries[call[p]] = 0 /\ deliveries[call[p]] = 0
    BY <2>1 DEF Tracked
  <2> QED BY <2>1, <2>2, <2>3 DEF Tracked
<1>4. ASSUME NEW p \in Producer, call[p] # NoChunk, PutAborts(p)
      PROVE  Tracked'
  <2>1. /\ Held' = Held /\ born' = born /\ Queued' = Queued /\ registry' = registry
        /\ Pending' = Pending \ {call[p]}
    BY <1>4, PutAbortsMoves
  <2>2. UNCHANGED <<status, retries, deliveries>>
    BY <1>4 DEF PutAborts, history
  <2> QED BY <2>1, <2>2 DEF Tracked
<1>5. ASSUME NEW p \in Producer, PutEvicting(p)
      PROVE  Tracked'
  <2>1. PICK i \in Victims :
           /\ Held' = Held /\ born' = born
           /\ call[p] \in Pending /\ call[p] \in Chunk /\ Pending' = Pending \ {call[p]}
           /\ Queued' = (Queued \ {queue[i]}) \union {call[p]}
           /\ registry' = (registry \ {queue[i]}) \union {call[p]}
    BY <1>5, PutEvictingMoves
  <2>2. UNCHANGED <<status, retries, deliveries>>
    BY <1>5 DEF PutEvicting
  <2>3. status[call[p]] = "PENDING" /\ retries[call[p]] = 0 /\ deliveries[call[p]] = 0
    BY <2>1 DEF Tracked
  <2> QED BY <2>1, <2>2, <2>3 DEF Tracked
<1>6. ASSUME NEW w \in Worker, Get(w)
      PROVE  Tracked'
  <2> DEFINE first == Head(queue)
  <2>1. /\ Pending' = Pending /\ registry' = registry /\ born' = born
        /\ first \in Chunk /\ first \in Queued
        /\ Queued' = Queued \ {first} /\ Held' = Held \union {first}
    BY <1>6, GetMoves
  <2>2. /\ status' = [status EXCEPT ![first] = "PROCESSING"]
        /\ deliveries' = [deliveries EXCEPT ![first] = @ + 1]
        /\ retries' = retries
    BY <1>6 DEF Get
  <2> HIDE DEF first
  <2>3. /\ status'[first] = "PROCESSING" /\ deliveries'[first] = retries'[first] + 1
        /\ \A c \in Chunk : c # first => status'[c] = status[c] /\ deliveries'[c] = deliveries[c]
    BY <2>1, <2>2 DEF TypeOK, Tracked
  <2>4. first \notin Pending /\ first <= born /\ first \in Nat
    BY <2>1, <1>0 DEF Located
  <2>5. \A c \in Chunk : c > born' \/ c \in Pending' => c # first
    BY <1>0, <2>1, <2>4
  <2>6. \A c \in Held : c # first
    BY <2>1 DEF Located
  <2> QED BY <1>s, <2>1, <2>2, <2>3, <2>5, <2>6 DEF Tracked
<1>7. ASSUME NEW w \in Worker, MarkCompleted(w)
      PROVE  Tracked'
  <2> DEFINE d == hands[w]
  <2>1. /\ d \in Held /\ d \in Chunk /\ Held' = Held \ {d}
    BY <1>7, ReportMoves DEF MarkCompleted
  <2>2. /\ status' = IF d \in registry THEN [status EXCEPT ![d] = "COMPLETED"] ELSE status
        /\ UNCHANGED <<born, retries, deliveries, registry>>
        /\ Queued' = Queued /\ Pending' = Pending
    BY <1>7 DEF MarkCompleted, chunkVars, putVars, history, Queued, Pending
  <2> HIDE DEF d
  <2>3. /\ \A c \in Chunk : c # d => status'[c] = status[c]
        /\ d \in registry => status'[d] = "COMPLETED"
    BY <2>1, <2>2 DEF TypeOK
  <2>4. d \notin Pending /\ d \notin Queued /\ d <= born /\ d \in Nat
    BY <2>1, <1>0 DEF Located
  <2>5. \A c \in Chunk : c > born' \/ c \in Pending' => c # d
    BY <1>0, <2>2, <2>4
  <2> QED BY <1>s, <2>1, <2>2, <2>3, <2>4, <2>5 DEF Tracked
<1>8. ASSUME NEW w \in Worker, MarkFailedRetry(w)
      PROVE  Tracked'
  <2> DEFINE d == hands[w]
  <2>1. /\ Pending' = Pending /\ registry' = registry /\ born' = born
        /\ d \in Held /\ d \in Chunk /\ Held' = Held \ {d}
        /\ Queued' \subseteq {d} \union Queued
    BY <1>8, RetryMoves
  <2>2. /\ status' = [status EXCEPT ![d] = "PENDING"]
        /\ retries' = [retries EXCEPT ![d] = @ + 1]
        /\ deliveries' = deliveries
    BY <1>8 DEF MarkFailedRetry
  <2> HIDE DEF d
  <2>3. /\ status'[d] = "PENDING" /\ deliveries'[d] = retries'[d]
        /\ \A c \in Chunk : c # d => status'[c] = status[c] /\ retries'[c] = retries[c]
    BY <2>1, <2>2 DEF TypeOK, Tracked
  <2>4. d \notin Pending /\ d <= born /\ d \in Nat
    BY <2>1, <1>0 DEF Located
  <2>5. \A c \in Chunk : c > born' \/ c \in Pending' => c # d
    BY <1>0, <2>1, <2>4
  <2> QED BY <1>s, <2>1, <2>2, <2>3, <2>5 DEF Tracked
<1>9. ASSUME NEW w \in Worker, MarkFailedFinal(w)
      PROVE  Tracked'
  <2> DEFINE d == hands[w]
  <2>0. d # NoChunk
    BY <1>9 DEF MarkFailedFinal, TypeOK, Chunk, NoChunk
  <2>1. /\ d \in Held /\ d \in Chunk /\ Held' = Held \ {d}
    BY <1>9, <2>0, ReportMoves DEF MarkFailedFinal
  <2>2. /\ status' = [status EXCEPT ![d] = "FAILED"]
        /\ UNCHANGED <<born, retries, deliveries, registry>>
        /\ Queued' = Queued /\ Pending' = Pending
    BY <1>9 DEF MarkFailedFinal, chunkVars, putVars, history, Queued, Pending
  <2> HIDE DEF d
  <2>3. status'[d] = "FAILED" /\ (\A c \in Chunk : c # d => status'[c] = status[c])
    BY <2>1, <2>2 DEF TypeOK
  <2>4. d \notin Pending /\ d \notin Queued /\ d <= born /\ d \in Nat
    BY <2>1, <1>0 DEF Located
  <2>5. \A c \in Chunk : c > born' \/ c \in Pending' => c # d
    BY <1>0, <2>2, <2>4
  <2> QED BY <1>s, <2>1, <2>2, <2>3, <2>4, <2>5 DEF Tracked
<1>10. ASSUME NEW w \in Worker, MarkFailedUnknown(w)
       PROVE  Tracked'
  <2>1. hands[w] \notin registry /\ Held' = Held \ {hands[w]}
    BY <1>10, ReportMoves DEF MarkFailedUnknown
  <2>2. /\ UNCHANGED <<born, status, retries, deliveries, registry>>
        /\ Queued' = Queued /\ Pending' = Pending
    BY <1>10 DEF MarkFailedUnknown, chunkVars, putVars, history, Queued, Pending
  <2> QED BY <2>1, <2>2 DEF Tracked
<1>11. ASSUME NEW c \in Chunk, GrowOld(c)
       PROVE  Tracked'
  BY <1>11 DEF GrowOld, chunkVars, putVars, history, Tracked, Queued, Held, Pending
<1>12. CASE Cleanup
  <2>1. /\ Pending' = Pending /\ Held' = Held /\ born' = born
        /\ Queued' = Queued \ Swept /\ registry' = registry \ Swept
    BY <1>12, CleanupMoves
  <2>2. UNCHANGED <<status, retries, deliveries>>
    BY <1>12 DEF Cleanup
  <2> QED BY <2>1, <2>2 DEF Tracked
<1>13. CASE Clear
  <2>1. /\ Pending' = Pending /\ Held' = Held /\ born' = born
        /\ Queued' = {} /\ registry' = {}
    BY <1>13, ClearMoves
  <2>2. UNCHANGED <<status, retries, deliveries>>
    BY <1>13 DEF Clear
  <2> QED BY <2>1, <2>2 DEF Tracked
<1> QED BY <1>1, <1>2, <1>3, <1>4, <1>5, <1>6, <1>7, <1>8, <1>9, <1>10, <1>11, <1>12, <1>13
        DEF Next, PutRefused, PutRaises

\* An action other than an overflow leaves the lost chunks counted as they are.
LEMMA LostCounts ==
    ASSUME TypeOK, NEW x \in Causes, NEW n
    PROVE  /\ lost[x] \in Nat
           /\ [lost EXCEPT ![x] = n][x] = n
           /\ \A y \in Causes : y # x => [lost EXCEPT ![x] = n][y] = lost[y]
BY DEF TypeOK

LEMMA ChunksFinite == IsFiniteSet(Chunk) /\ (\A S \in SUBSET Chunk : IsFiniteSet(S) /\ Cardinality(S) \in Nat)
<1>1. IsFiniteSet(Chunk)
  BY Positions, SizeAssumption DEF Chunk
<1>2. ASSUME NEW S \in SUBSET Chunk
      PROVE  IsFiniteSet(S) /\ Cardinality(S) \in Nat
  <2>1. IsFiniteSet(S)
    BY <1>1, FS_Subset
  <2> QED BY <2>1, FS_CardinalityType
<1> QED BY <1>1, <1>2

LEMMA OverflownStep ==
    ASSUME TypeOK, Located, Explained, [Next]_vars
    PROVE  Cardinality(Overflown') <= lost'["overflow"]
<1>0. /\ "overflow" \in Causes /\ "evicted" \in Causes /\ "stale" \in Causes /\ "cleared" \in Causes
      /\ lost["overflow"] \in Nat
  BY DEF Causes, TypeOK
<1>s. Overflown \subseteq Chunk /\ registry \subseteq Chunk /\ Queued \subseteq Chunk
  BY TableMember DEF TypeOK, Overflown
<1>f. IsFiniteSet(Overflown) /\ Cardinality(Overflown) \in Nat
  BY <1>s, ChunksFinite
<1>m. ASSUME Overflown' \subseteq Overflown, lost'["overflow"] = lost["overflow"]
      PROVE  Cardinality(Overflown') <= lost'["overflow"]
  <2>1. Cardinality(Overflown') <= Cardinality(Overflown) /\ Cardinality(Overflown') \in Nat
    <3>1. IsFiniteSet(Overflown') /\ Cardinality(Overflown') <= Cardinality(Overflown)
      BY <1>m, <1>f, FS_Subset
    <3> QED BY <3>1, FS_CardinalityType
  <2> QED BY <1>m, <2>1, <1>f, <1>0 DEF Explained
<1>1. CASE UNCHANGED vars
  BY <1>1, <1>m DEF vars, history, Overflown, Queued
<1>2. ASSUME NEW p \in Producer, PutCall(p) \/ (call[p] # NoChunk /\ PutAborts(p))
      PROVE  Cardinality(Overflown') <= lost'["overflow"]
  BY <1>2, <1>m DEF PutCall, PutAborts, history, Overflown, Queued
<1>3. ASSUME NEW p \in Producer, PutAppend(p)
      PROVE  Cardinality(Overflown') <= lost'["overflow"]
  <2>1. Queued' = Queued \union {call[p]} /\ registry' = registry \union {call[p]}
    BY <1>3, PutAppendMoves
  <2>2. status' = status /\ lost' = lost
    BY <1>3 DEF PutAppend, history
  <2> QED BY <2>1, <2>2, <1>m DEF Overflown
<1>4. ASSUME NEW p \in Producer, PutEvicting(p)
      PROVE  Cardinality(Overflown') <= lost'["overflow"]
  <2>1. PICK i \in Victims :
           /\ Queued' = (Queued \ {queue[i]}) \union {call[p]}
           /\ registry' = (registry \ {queue[i]}) \union {call[p]}
    BY <1>4, PutEvictingMoves
  <2>2. status' = status /\ lost'["overflow"] = lost["overflow"]
    BY <1>4, <1>0, LostCounts DEF PutEvicting
  <2>3. Overflown' \subseteq Overflown
    BY <2>1, <2>2 DEF Overflown
  <2> QED BY <2>2, <2>3, <1>m
<1>5. ASSUME NEW w \in Worker, Get(w)
      PROVE  Cardinality(Overflown') <= lost'["overflow"]
  <2> DEFINE first == Head(queue)
  <2>1. /\ registry' = registry /\ first \in Chunk /\ Queued' = Queued \ {first}
    BY <1>5, GetMoves
  <2>2. status' = [status EXCEPT ![first] = "PROCESSING"] /\ lost' = lost
    BY <1>5 DEF Get
  <2> HIDE DEF first
  <2>3. status'[first] = "PROCESSING" /\ (\A c \in Chunk : c # first => status'[c] = status[c])
    BY <2>1, <2>2 DEF TypeOK
  <2>4. Overflown' \subseteq Overflown
    BY <2>1, <2>3, <1>s DEF Overflown
  <2> QED BY <2>2, <2>4, <1>m
<1>6. ASSUME NEW w \in Worker, MarkCompleted(w) \/ MarkFailedFinal(w) \/ MarkFailedUnknown(w)
      PROVE  Cardinality(Overflown') <= lost'["overflow"]
  <2>1. /\ registry' = registry /\ Queued' = Queued /\ lost' = lost
        /\ \A c \in Chunk : status'[c] = "PENDING" => status[c] = "PENDING"
    BY <1>6 DEF MarkCompleted, MarkFailedFinal, MarkFailedUnknown, history, Queued, TypeOK
  <2>2. Overflown' \subseteq Overflown
    BY <2>1, <1>s DEF Overflown
  <2> QED BY <2>1, <2>2, <1>m
<1>7. ASSUME NEW w \in Worker, MarkFailedRetry(w)
      PROVE  Cardinality(Overflown') <= lost'["overflow"]
  <2> DEFINE d == hands[w]
             first == Head(queue)
  <2>1. /\ registry' = registry /\ d \in Chunk
        /\ Queued' = {d} \union (IF Len(queue) = MaxSize THEN Queued \ {first} ELSE Queued)
    BY <1>7, RetryMoves
  <2>2. /\ status' = [status EXCEPT ![d] = "PENDING"]
        /\ lost' = IF Len(queue) = MaxSize THEN [lost EXCEPT !["overflow"] = @ + 1] ELSE lost
    BY <1>7 DEF MarkFailedRetry
  <2> HIDE DEF d, first
  <2>3. \A c \in Chunk : c # d => status'[c] = status[c]
    BY <2>1, <2>2 DEF TypeOK
  <2>4. CASE Len(queue) # MaxSize
    <3>1. Overflown' \subseteq Overflown
      BY <2>1, <2>3, <2>4, <1>s DEF Overflown
    <3> QED BY <2>2, <2>4, <3>1, <1>m
  <2>5. CASE Len(queue) = MaxSize
    <3>1. Overflown' \subseteq Overflown \union {first}
      BY <2>1, <2>3, <2>5, <1>s DEF Overflown
    <3>2. /\ IsFiniteSet(Overflown \union {first})
          /\ Cardinality(Overflown \union {first}) <= Cardinality(Overflown) + 1
          /\ Cardinality(Overflown \union {first}) \in Nat
      <4>1. IsFiniteSet(Overflown \union {first})
        BY <1>f, FS_AddElement
      <4>2. Cardinality(Overflown \union {first})
               = IF first \in Overflown THEN Cardinality(Overflown) ELSE Cardinality(Overflown) + 1
        BY <1>f, FS_AddElement
      <4> QED BY <4>1, <4>2, <1>f
    <3>3. Cardinality(Overflown') <= Cardinality(Overflown \union {first}) /\ Cardinality(Overflown') \in Nat
      <4>1. IsFiniteSet(Overflown') /\ Cardinality(Overflown') <= Cardinality(Overflown \union {first})
        BY <3>1, <3>2, FS_Subset
      <4> QED BY <4>1, FS_CardinalityType
    <3>4. lost'["overflow"] = lost["overflow"] + 1
      BY <2>2, <2>5, <1>0, LostCounts
    <3> QED BY <3>2, <3>3, <3>4, <1>f, <1>0 DEF Explained
  <2> QED BY <2>4, <2>5
<1>8. ASSUME NEW c \in Chunk, GrowOld(c)
      PROVE  Cardinality(Overflown') <= lost'["overflow"]
  BY <1>8, <1>m DEF GrowOld, history, Overflown, Queued
<1>9. CASE Cleanup
  <2>1. Queued' = Queued \ Swept /\ registry' = registry \ Swept
    BY <1>9, CleanupMoves
  <2>2. status' = status /\ lost'["overflow"] = lost["overflow"]
    BY <1>9, <1>0, LostCounts DEF Cleanup
  <2>3. Overflown' \subseteq Overflown
    BY <2>1, <2>2 DEF Overflown
  <2> QED BY <2>2, <2>3, <1>m
<1>10. CASE Clear
  <2>1. registry' = {}
    BY <1>10, ClearMoves
  <2>2. lost'["overflow"] = lost["overflow"]
    BY <1>10, <1>0, LostCounts DEF Clear
  <2>3. Overflown' \subseteq Overflown
    BY <2>1 DEF Overflown
  <2> QED BY <2>2, <2>3, <1>m
<1> QED BY <1>1, <1>2, <1>3, <1>4, <1>5, <1>6, <1>7, <1>8, <1>9, <1>10
        DEF Next, PutRefused, PutRaises

LEMMA ExplainedInit == Init => Explained
<1> SUFFICES ASSUME Init PROVE Explained
  OBVIOUS
<1>1. Tracked
  BY DEF Init, Tracked, Queued, Held, Pending, Elements
<1>2. Overflown = {} /\ lost["overflow"] = 0
  BY DEF Init, Overflown, Causes
<1> QED BY <1>1, <1>2, FS_EmptySet DEF Explained

LEMMA AlwaysExplained == Spec => [](TypeOK /\ Located /\ Explained)
<1>1. Init => TypeOK /\ Located /\ Explained
  BY QueueInitTyped, LocatedInit, ExplainedInit
<1>2. TypeOK /\ Located /\ Explained /\ [Next]_vars => (TypeOK /\ Located /\ Explained)'
  <2> SUFFICES ASSUME TypeOK, Located, Explained, [Next]_vars
               PROVE  (TypeOK /\ Located /\ Explained)'
    OBVIOUS
  <2>1. TypeOK' /\ Located'
    BY TypeStep, LocatedStep
  <2>2. Tracked'
    BY TrackedStep DEF Explained
  <2>3. Cardinality(Overflown') <= lost'["overflow"]
    BY OverflownStep
  <2> QED BY <2>1, <2>2, <2>3 DEF Explained
<1> QED BY <1>1, <1>2, PTL DEF Spec

\* chunk_registry accounts for every queued chunk; what it holds beyond that is in a
\* worker's hands, finished, or pushed out of the full deque by a retry, one chunk for
\* each such overflow at the most.
THEOREM RegistryAlwaysExplained == Spec => []RegistryExplained
<1>1. Located /\ Explained => RegistryExplained
  BY DEF Located, Explained, Tracked, Overflown, Queued, RegistryExplained
<1> QED BY <1>1, AlwaysExplained, PTL

-----------------------------------------------------------------------------
(* Conservation: the sum of the retries, and what each action does to it.    *)

\* Induction over the natural numbers, by way of a least element.
LEMMA LeastElement ==
    ASSUME NEW S \in SUBSET Nat, S # {}
    PROVE  \E k \in S : \A n \in S : k <= n
<1>1. IsWellFoundedOn(OpToRel(<, Nat), Nat)
  BY NatLessThanWellFounded
<1>2. PICK k \in S : \A n \in S : ~ (<<n, k>> \in OpToRel(<, Nat))
  BY <1>1, WFMin
<1>3. \A n \in S : ~ (n < k)
  BY <1>2 DEF OpToRel
<1> QED BY <1>3

SumsOf(f) ==
    CHOOSE sum : sum = [n \in 0 .. MaxChunks |-> IF n = 0 THEN 0 ELSE sum[n - 1] + f[n]]

LEMMA SumOverSums == ASSUME NEW f PROVE SumOver(f) = SumsOf(f)[MaxChunks]
BY DEF SumOver, SumsOf

\* The partial sums up to k.
PartialSums(f, k, g) ==
    /\ g \in [0 .. k -> Nat]
    /\ g[0] = 0
    /\ \A n \in 1 .. k : g[n] = g[n - 1] + f[n]

\* There are such sums, so SumsOf has the values its equation gives it.
LEMMA SumsDefined ==
    ASSUME NEW f \in [Chunk -> Nat]
    PROVE  PartialSums(f, MaxChunks, SumsOf(f))
<1> DEFINE Bad == {k \in 0 .. MaxChunks : ~ \E g : PartialSums(f, k, g)}
<1>0. MaxChunks \in Nat
  BY SizeAssumption
<1>1. Bad = {}
  <2> SUFFICES ASSUME Bad # {} PROVE FALSE
    OBVIOUS
  <2>0. Bad \in SUBSET Nat
    BY <1>0
  <2>1. PICK k \in Bad : \A n \in Bad : k <= n
    <3> HIDE DEF Bad
    <3> QED BY <2>0, LeastElement
  <2>2. k \in Nat /\ k <= MaxChunks
    BY <1>0
  <2>3. CASE k = 0
    <3> DEFINE g == [n \in 0 .. 0 |-> 0]
    <3>1. PartialSums(f, 0, g)
      BY DEF PartialSums
    <3> QED BY <2>1, <2>3, <3>1
  <2>4. CASE k # 0
    <3>1. k - 1 \in 0 .. MaxChunks /\ k - 1 \notin Bad
      BY <1>0, <2>1, <2>2, <2>4
    <3>2. PICK g : PartialSums(f, k - 1, g)
      BY <3>1
    <3> DEFINE h == [n \in 0 .. k |-> IF n = k THEN g[k - 1] + f[k] ELSE g[n]]
    <3>3. k \in Chunk /\ f[k] \in Nat
      BY <1>0, <2>2, <2>4 DEF Chunk
    <3>4. \A n \in 0 .. k - 1 : g[n] \in Nat
      BY <3>2 DEF PartialSums
    <3>5. h \in [0 .. k -> Nat]
      <4>1. g[k - 1] + f[k] \in Nat
        BY <2>2, <2>4, <3>3, <3>4
      <4>2. \A n \in 0 .. k : n # k => n \in 0 .. k - 1
        BY <2>2
      <4> QED BY <3>4, <4>1, <4>2
    <3>6. h[0] = 0
      BY <2>2, <2>4, <3>2 DEF PartialSums
    <3>7. ASSUME NEW n \in 1 .. k
          PROVE  h[n] = h[n - 1] + f[n]
      <4>1. CASE n = k
        BY <2>2, <2>4, <4>1
      <4>2. CASE n # k
        <5>1. n \in 1 .. k - 1 /\ n \in 0 .. k /\ n - 1 \in 0 .. k /\ n - 1 # k
          BY <2>2, <4>2
        <5> QED BY <3>2, <4>2, <5>1 DEF PartialSums
      <4> QED BY <4>1, <4>2
    <3>8. PartialSums(f, k, h)
      BY <3>5, <3>6, <3>7 DEF PartialSums
    <3> QED BY <2>1, <3>8
  <2> QED BY <2>3, <2>4
<1>2. PICK g : PartialSums(f, MaxChunks, g)
  BY <1>0, <1>1
<1>3. g = [n \in 0 .. MaxChunks |-> IF n = 0 THEN 0 ELSE g[n - 1] + f[n]]
  <2>1. \A n \in 0 .. MaxChunks : g[n] = IF n = 0 THEN 0 ELSE g[n - 1] + f[n]
    BY <1>0, <1>2 DEF PartialSums
  <2> QED BY <1>2, <2>1 DEF PartialSums
<1> DEFINE s == SumsOf(f)
<1>4. s = [n \in 0 .. MaxChunks |-> IF n = 0 THEN 0 ELSE s[n - 1] + f[n]]
  BY <1>3, Zenon DEF SumsOf
<1> HIDE DEF s
<1>5. s[0] = 0
  BY <1>0, <1>4
<1>6. \A n \in 1 .. MaxChunks : s[n] = s[n - 1] + f[n]
  <2> SUFFICES ASSUME NEW n \in 1 .. MaxChunks PROVE s[n] = s[n - 1] + f[n]
    OBVIOUS
  <2>1. n \in 0 .. MaxChunks /\ n # 0
    BY <1>0
  <2> QED BY <1>4, <2>1
<1> DEFINE Odd == {k \in 0 .. MaxChunks : s[k] \notin Nat}
<1>7. Odd = {}
  <2> SUFFICES ASSUME Odd # {} PROVE FALSE
    OBVIOUS
  <2>0. Odd \in SUBSET Nat
    BY <1>0
  <2>1. PICK k \in Odd : \A n \in Odd : k <= n
    <3> HIDE DEF Odd
    <3> QED BY <2>0, LeastElement
  <2>2. k # 0 /\ k \in Nat /\ k <= MaxChunks /\ s[k] \notin Nat
    BY <1>0, <1>5, <2>1
  <2>3. k - 1 \in 0 .. MaxChunks /\ k - 1 \notin Odd
    BY <1>0, <2>1, <2>2
  <2>4. s[k - 1] \in Nat /\ f[k] \in Nat
    BY <2>2, <2>3, <1>0 DEF Chunk
  <2>5. s[k] = s[k - 1] + f[k]
    BY <1>6, <2>2, <1>0
  <2> QED BY <2>2, <2>4, <2>5
<1>8. s \in [0 .. MaxChunks -> Nat]
  BY <1>4, <1>7
<1> QED BY <1>5, <1>6, <1>8 DEF PartialSums, s

\* No retries, no sum.
LEMMA SumOfNothing ==
    ASSUME NEW f \in [Chunk -> Nat], \A c \in Chunk : f[c] = 0
    PROVE  SumOver(f) = 0
<1> DEFINE s == SumsOf(f)
           Bad == {k \in 0 .. MaxChunks : s[k] # 0}
<1>0. MaxChunks \in Nat
  BY SizeAssumption
<1>1. PartialSums(f, MaxChunks, s)
  BY SumsDefined
<1> HIDE DEF s
<1>2. Bad = {}
  <2> SUFFICES ASSUME Bad # {} PROVE FALSE
    OBVIOUS
  <2>0. Bad \in SUBSET Nat
    BY <1>0
  <2>1. PICK k \in Bad : \A n \in Bad : k <= n
    <3> HIDE DEF Bad
    <3> QED BY <2>0, LeastElement
  <2>2. k # 0 /\ k \in Nat /\ k <= MaxChunks
    BY <1>0, <1>1 DEF PartialSums
  <2>3. k - 1 \in 0 .. MaxChunks /\ k - 1 \notin Bad
    BY <1>0, <2>1, <2>2
  <2>4. s[k - 1] = 0 /\ f[k] = 0
    BY <2>2, <2>3, <1>0 DEF Chunk
  <2>5. s[k] = s[k - 1] + f[k]
    BY <1>1, <2>2, <1>0 DEF PartialSums
  <2> QED BY <2>4, <2>5
<1>3. s[MaxChunks] = 0
  BY <1>0, <1>2
<1> QED BY <1>3, SumOverSums DEF s

\* One retry more: the partial sums from that chunk on grow by one.
LEMMA SumIncrement ==
    ASSUME NEW f \in [Chunk -> Nat], NEW c \in Chunk
    PROVE  /\ SumOver(f) \in Nat
           /\ SumOver([f EXCEPT ![c] = @ + 1]) = SumOver(f) + 1
<1> DEFINE h == [f EXCEPT ![c] = @ + 1]
           s == SumsOf(f)
           t == SumsOf(h)
           Bad == {k \in 0 .. MaxChunks : t[k] # s[k] + (IF k < c THEN 0 ELSE 1)}
<1>0. MaxChunks \in Nat /\ c \in Nat /\ c # 0 /\ c <= MaxChunks
  BY SizeAssumption DEF Chunk
<1>1. h \in [Chunk -> Nat] /\ h[c] = f[c] + 1 /\ f[c] \in Nat /\ (\A d \in Chunk : d # c => h[d] = f[d])
  OBVIOUS
<1> HIDE DEF h
<1>2. PartialSums(f, MaxChunks, s) /\ PartialSums(h, MaxChunks, t)
  BY <1>1, SumsDefined
<1> HIDE DEF s, t
<1>s. /\ s[0] = 0 /\ t[0] = 0
      /\ \A n \in 0 .. MaxChunks : s[n] \in Nat
      /\ \A n \in 1 .. MaxChunks : s[n] = s[n - 1] + f[n] /\ t[n] = t[n - 1] + h[n]
  BY <1>2 DEF PartialSums
<1>3. Bad = {}
  <2> SUFFICES ASSUME Bad # {} PROVE FALSE
    OBVIOUS
  <2>0. Bad \in SUBSET Nat
    BY <1>0
  <2>1. PICK k \in Bad : \A n \in Bad : k <= n
    <3> HIDE DEF Bad
    <3> QED BY <2>0, LeastElement
  <2>2. k # 0 /\ k \in Nat /\ k <= MaxChunks
    BY <1>0, <1>s
  <2>3. k - 1 \in 0 .. MaxChunks /\ k - 1 \notin Bad
    BY <1>0, <2>1, <2>2
  <2>4. t[k - 1] = s[k - 1] + (IF k - 1 < c THEN 0 ELSE 1)
    BY <2>3
  <2>5. s[k] = s[k - 1] + f[k] /\ t[k] = t[k - 1] + h[k]
    <3>1. k \in 1 .. MaxChunks
      BY <2>2, <1>0
    <3> QED BY <3>1, <1>s
  <2>6. k \in Chunk /\ f[k] \in Nat /\ s[k - 1] \in Nat
    <3>1. k \in Chunk
      BY <2>2, <1>0 DEF Chunk
    <3> QED BY <3>1, <2>3, <1>s
  <2>7. t[k] = s[k] + (IF k < c THEN 0 ELSE 1)
    <3>1. CASE k = c
      BY <3>1, <2>4, <2>5, <2>6, <1>0, <1>1
    <3>2. CASE k < c
      BY <3>2, <2>2, <2>4, <2>5, <2>6, <1>0, <1>1
    <3>3. CASE k > c
      BY <3>3, <2>2, <2>4, <2>5, <2>6, <1>0, <1>1
    <3> QED BY <3>1, <3>2, <3>3, <2>2, <1>0
  <2> QED BY <2>1, <2>7
<1>4. t[MaxChunks] = s[MaxChunks] + 1 /\ s[MaxChunks] \in Nat
  <2>1. MaxChunks \in 0 .. MaxChunks /\ ~ (MaxChunks < c)
    BY <1>0
  <2>2. t[MaxChunks] = s[MaxChunks] + (IF MaxChunks < c THEN 0 ELSE 1)
    BY <1>3, <2>1
  <2> QED BY <1>s, <2>1, <2>2
<1> QED BY <1>4, SumOverSums DEF h, s, t

\* The counts that Conservation adds up are natural numbers.
LEMMA CountsTyped ==
    ASSUME TypeOK
    PROVE  /\ totals.enqueued \in Nat /\ totals.dequeued \in Nat /\ totals.failed \in Nat
           /\ SumOver(retries) \in Nat /\ Len(queue) \in Nat
           /\ lost["evicted"] \in Nat /\ lost["stale"] \in Nat
           /\ lost["cleared"] \in Nat /\ lost["overflow"] \in Nat
<1>1. /\ totals.enqueued \in Nat /\ totals.dequeued \in Nat /\ totals.failed \in Nat
  BY DEF TypeOK
<1>2. /\ lost["evicted"] \in Nat /\ lost["stale"] \in Nat
      /\ lost["cleared"] \in Nat /\ lost["overflow"] \in Nat
  BY DEF TypeOK, Causes
<1>3. retries \in [Chunk -> Nat]
  BY SizeAssumption DEF TypeOK
<1>4. SumOver(retries) \in Nat
  <2>1. CASE Chunk = {}
    <3>1. SumOver(retries) = 0
      BY <1>3, <2>1, SumOfNothing
    <3> QED BY <3>1
  <2>2. CASE Chunk # {}
    BY <1>3, <2>2, SumIncrement
  <2> QED BY <2>1, <2>2
<1>5. Len(queue) \in Nat
  BY DEF TypeOK
<1> QED BY <1>1, <1>2, <1>4, <1>5

\* Both sides of the balance grow by one.
LEMMA Balance ==
    ASSUME NEW e \in Nat, NEW s \in Nat, NEW d \in Nat, NEW l \in Nat,
           NEW x \in Nat, NEW y \in Nat, NEW z \in Nat, NEW o \in Nat,
           e + s = d + l + x + y + z + o
    PROVE  /\ (e + 1) + s = d + (l + 1) + x + y + z + o
           /\ (e + 1) + s = d + l + (x + 1) + y + z + o
           /\ e + (s + 1) = d + (l + 1) + x + y + z + o
           /\ e + (s + 1) = d + l + x + y + z + (o + 1)
OBVIOUS

LEMMA ConservationStep ==
    ASSUME TypeOK, Located, Conservation, [Next]_vars
    PROVE  Conservation'
<1> DEFINE e == totals.enqueued
           s == SumOver(retries)
           d == totals.dequeued
           l == Len(queue)
           x == lost["evicted"]
           y == lost["stale"]
           z == lost["cleared"]
           o == lost["overflow"]
<1>b. /\ (e + 1) + s = d + (l + 1) + x + y + z + o
      /\ (e + 1) + s = d + l + (x + 1) + y + z + o
      /\ e + (s + 1) = d + (l + 1) + x + y + z + o
      /\ e + (s + 1) = d + l + x + y + z + (o + 1)
  <2>1. /\ e \in Nat /\ s \in Nat /\ d \in Nat /\ l \in Nat
        /\ x \in Nat /\ y \in Nat /\ z \in Nat /\ o \in Nat
    BY CountsTyped
  <2>2. e + s = d + l + x + y + z + o
    BY DEF Conservation
  <2> HIDE DEF e, s, d, l, x, y, z, o
  <2> QED BY <2>1, <2>2, Balance
<1>c. /\ "overflow" \in Causes /\ "evicted" \in Causes /\ "stale" \in Causes /\ "cleared" \in Causes
  BY DEF Causes
<1>t. totals \in [enqueued: Nat, dequeued: Nat, failed: Nat] /\ lost \in [Causes -> Nat]
  BY DEF TypeOK
<1>k. ASSUME UNCHANGED <<retries, totals, queue, lost>>
      PROVE  Conservation'
  BY <1>k DEF Conservation
<1>1. CASE UNCHANGED vars
  BY <1>1, <1>k DEF vars, history
<1>2. ASSUME NEW p \in Producer, PutCall(p) \/ PutAborts(p)
      PROVE  Conservation'
  BY <1>2, <1>k DEF PutCall, PutAborts, history
<1>3. ASSUME NEW p \in Producer, PutAppend(p)
      PROVE  Conservation'
  <2>1. Len(queue') = Len(queue) + 1
    BY <1>3, PutAppendMoves
  <2>2. /\ retries' = retries /\ lost' = lost
        /\ totals' = [totals EXCEPT !.enqueued = @ + 1]
    BY <1>3 DEF PutAppend, Enqueue, history
  <2>3. totals'.enqueued = totals.enqueued + 1 /\ totals'.dequeued = totals.dequeued
    BY <2>2, <1>t
  <2>4. SumOver(retries') = SumOver(retries)
    BY <2>2
  <2> QED BY <2>1, <2>2, <2>3, <2>4, <1>b DEF Conservation
<1>4. ASSUME NEW p \in Producer, PutEvicting(p)
      PROVE  Conservation'
  <2>1. Len(queue') = Len(queue)
    BY <1>4, PutEvictingMoves
  <2>2. /\ retries' = retries /\ lost' = [lost EXCEPT !["evicted"] = @ + 1]
        /\ totals' = [totals EXCEPT !.enqueued = @ + 1]
    BY <1>4 DEF PutEvicting, Enqueue
  <2>3. totals'.enqueued = totals.enqueued + 1 /\ totals'.dequeued = totals.dequeued
    BY <2>2, <1>t
  <2>4. SumOver(retries') = SumOver(retries)
    BY <2>2
  <2>5. /\ lost'["evicted"] = lost["evicted"] + 1 /\ lost'["stale"] = lost["stale"]
        /\ lost'["cleared"] = lost["cleared"] /\ lost'["overflow"] = lost["overflow"]
    BY <2>2, <1>c, <1>t
  <2> QED BY <2>1, <2>3, <2>4, <2>5, <1>b DEF Conservation
<1>5. ASSUME NEW w \in Worker, Get(w)
      PROVE  Conservation'
  <2>1. Len(queue') = Len(queue) - 1
    BY <1>5, GetMoves
  <2>2. /\ retries' = retries /\ lost' = lost
        /\ totals' = [totals EXCEPT !.dequeued = @ + 1]
    BY <1>5 DEF Get
  <2>3. totals'.enqueued = totals.enqueued /\ totals'.dequeued = totals.dequeued + 1
    BY <2>2, <1>t
  <2>4. SumOver(retries') = SumOver(retries)
    BY <2>2
  <2> QED BY <2>1, <2>2, <2>3, <2>4, CountsTyped DEF Conservation
<1>6. ASSUME NEW w \in Worker, MarkCompleted(w) \/ MarkFailedUnknown(w)
      PROVE  Conservation'
  BY <1>6, <1>k DEF MarkCompleted, MarkFailedUnknown, history
<1>7. ASSUME NEW w \in Worker, MarkFailedFinal(w)
      PROVE  Conservation'
  <2>1. /\ retries' = retries /\ lost' = lost /\ queue' = queue
        /\ totals' = [totals EXCEPT !.failed = @ + 1]
    BY <1>7 DEF MarkFailedFinal, history
  <2>2. totals'.enqueued = totals.enqueued /\ totals'.dequeued = totals.dequeued
    BY <2>1, <1>t
  <2> QED BY <2>1, <2>2 DEF Conservation
<1>8. ASSUME NEW w \in Worker, MarkFailedRetry(w)
      PROVE  Conservation'
  <2>1. /\ hands[w] \in Chunk
        /\ Len(queue') = IF Len(queue) = MaxSize THEN Len(queue) ELSE Len(queue) + 1
    BY <1>8, RetryMoves
  <2>2. /\ retries' = [retries EXCEPT ![hands[w]] = @ + 1]
        /\ lost' = IF Len(queue) = MaxSize THEN [lost EXCEPT !["overflow"] = @ + 1] ELSE lost
        /\ totals' = [totals EXCEPT !.failed = @ + 1]
    BY <1>8 DEF MarkFailedRetry
  <2>3. totals'.enqueued = totals.enqueued /\ totals'.dequeued = totals.dequeued
    BY <2>2, <1>t
  <2>4. SumOver(retries') = SumOver(retries) + 1
    <3>1. retries \in [Chunk -> Nat]
      BY SizeAssumption DEF TypeOK
    <3> QED BY <2>1, <2>2, <3>1, SumIncrement
  <2>5. CASE Len(queue) = MaxSize
    <3>1. /\ lost'["evicted"] = lost["evicted"] /\ lost'["stale"] = lost["stale"]
          /\ lost'["cleared"] = lost["cleared"] /\ lost'["overflow"] = lost["overflow"] + 1
      BY <2>2, <2>5, <1>c, <1>t
    <3>2. Len(queue') = Len(queue)
      BY <2>1, <2>5
    <3> QED BY <2>3, <2>4, <3>1, <3>2, <1>b DEF Conservation
  <2>6. CASE Len(queue) # MaxSize
    <3>1. lost' = lost /\ Len(queue') = Len(queue) + 1
      BY <2>1, <2>2, <2>6
    <3> QED BY <2>3, <2>4, <3>1, <1>b DEF Conservation
  <2> QED BY <2>5, <2>6
<1>9. ASSUME NEW c \in Chunk, GrowOld(c)
      PROVE  Conservation'
  BY <1>9, <1>k DEF GrowOld, history
<1>10. CASE Cleanup
  <2>1. /\ Len(queue') = Len(queue) - Cardinality(Cleanable)
        /\ Cardinality(Cleanable) \in Nat
    BY <1>10, CleanupMoves
  <2>2. /\ retries' = retries /\ totals' = totals
        /\ lost' = [lost EXCEPT !["stale"] = @ + Cardinality(Cleanable)]
    BY <1>10 DEF Cleanup
  <2>3. SumOver(retries') = SumOver(retries)
    BY <2>2
  <2>4. /\ lost'["evicted"] = lost["evicted"]
        /\ lost'["stale"] = lost["stale"] + Cardinality(Cleanable)
        /\ lost'["cleared"] = lost["cleared"] /\ lost'["overflow"] = lost["overflow"]
    BY <2>2, <1>c, <1>t
  <2> QED BY <2>1, <2>2, <2>3, <2>4, CountsTyped DEF Conservation
<1>11. CASE Clear
  <2>1. Len(queue') = 0
    BY <1>11, ClearMoves
  <2>2. /\ retries' = retries /\ totals' = totals
        /\ lost' = [lost EXCEPT !["cleared"] = @ + Len(queue)]
    BY <1>11 DEF Clear
  <2>3. SumOver(retries') = SumOver(retries)
    BY <2>2
  <2>4. /\ lost'["evicted"] = lost["evicted"] /\ lost'["stale"] = lost["stale"]
        /\ lost'["cleared"] = lost["cleared"] + Len(queue)
        /\ lost'["overflow"] = lost["overflow"]
    BY <2>2, <1>c, <1>t
  <2> QED BY <2>1, <2>2, <2>3, <2>4, CountsTyped DEF Conservation
<1> QED BY <1>1, <1>2, <1>3, <1>4, <1>5, <1>6, <1>7, <1>8, <1>9, <1>10, <1>11
        DEF Next, PutRefused, PutRaises

LEMMA ConservationInit == Init => Conservation
<1> SUFFICES ASSUME Init PROVE Conservation
  OBVIOUS
<1>1. retries \in [Chunk -> Nat] /\ (\A c \in Chunk : retries[c] = 0)
  BY DEF Init
<1>2. SumOver(retries) = 0
  BY <1>1, SumOfNothing
<1>3. /\ totals.enqueued = 0 /\ totals.dequeued = 0 /\ Len(queue) = 0
      /\ lost["evicted"] = 0 /\ lost["stale"] = 0 /\ lost["cleared"] = 0 /\ lost["overflow"] = 0
  BY DEF Init, Causes
<1> QED BY <1>2, <1>3 DEF Conservation

\* Whatever entered the deque was dequeued, is queued, or was lost to an eviction, a
\* cleanup, a clear or the overflow of a retry: no chunk vanishes in any other way.
THEOREM ChunksConserved == Spec => []Conservation
<1>1. Init => Conservation
  BY ConservationInit
<1>2. TypeOK /\ Located /\ Conservation /\ [Next]_vars => Conservation'
  BY ConservationStep
<1> QED BY <1>1, <1>2, AlwaysLocated, PTL DEF Spec

-----------------------------------------------------------------------------
(* What an eviction and a cleanup may take.                                  *)

\* Only a put that makes room counts an eviction, only cleanup counts stale chunks.
LEMMA WhoLoses ==
    ASSUME TypeOK, [Next]_vars
    PROVE  /\ lost'["evicted"] > lost["evicted"] => \E p \in Producer : PutEvicting(p)
           /\ lost'["stale"] > lost["stale"] => Cleanup
<1>0. /\ "overflow" \in Causes /\ "evicted" \in Causes /\ "stale" \in Causes /\ "cleared" \in Causes
      /\ lost \in [Causes -> Nat] /\ lost["evicted"] \in Nat /\ lost["stale"] \in Nat
  BY DEF Causes, TypeOK
<1> DEFINE Same(x) == lost'[x] = lost[x]
<1>1. CASE UNCHANGED vars
  BY <1>0, <1>1 DEF vars, history
<1>2. ASSUME NEW p \in Producer, PutCall(p) \/ PutAppend(p) \/ PutRefused(p) \/ PutRaises(p)
      PROVE  Same("evicted") /\ Same("stale")
  BY <1>2 DEF PutCall, PutAppend, PutRefused, PutRaises, PutAborts, history
<1>3. ASSUME NEW p \in Producer, PutEvicting(p)
      PROVE  Same("stale")
  BY <1>0, <1>3 DEF PutEvicting
<1>4. ASSUME NEW w \in Worker,
             Get(w) \/ MarkCompleted(w) \/ MarkFailedFinal(w) \/ MarkFailedUnknown(w)
      PROVE  Same("evicted") /\ Same("stale")
  BY <1>4 DEF Get, MarkCompleted, MarkFailedFinal, MarkFailedUnknown, history
<1>5. ASSUME NEW w \in Worker, MarkFailedRetry(w)
      PROVE  Same("evicted") /\ Same("stale")
  BY <1>0, <1>5 DEF MarkFailedRetry
<1>6. ASSUME NEW c \in Chunk, GrowOld(c)
      PROVE  Same("evicted") /\ Same("stale")
  BY <1>6 DEF GrowOld, history
<1>7. CASE Cleanup
  <2>1. Same("evicted")
    BY <1>0, <1>7 DEF Cleanup
  <2> QED BY <1>0, <1>7, <2>1
<1>8. ASSUME Clear
      PROVE  Same("evicted") /\ Same("stale")
  BY <1>0, <1>8 DEF Clear
<1> QED BY <1>0, <1>1, <1>2, <1>3, <1>4, <1>5, <1>6, <1>7, <1>8 DEF Next

LEMMA EvictionStep ==
    ASSUME TypeOK, Located, [Next]_vars, lost'["evicted"] > lost["evicted"]
    PROVE  \E c \in Elements(queue) :
              /\ priority[c] >= LOW
              /\ \A d \in Elements(queue) \ {c} :
                    /\ d \in Elements(queue')
                    /\ priority[d] < priority[c] \/ (priority[d] = priority[c] /\ c < d)
<1>1. PICK p \in Producer : PutEvicting(p)
  BY WhoLoses
<1>2. PICK i \in Victims :
         /\ queue[i] \in Queued
         /\ Queued' = (Queued \ {queue[i]}) \union {call[p]}
  BY <1>1, PutEvictingMoves
<1>3. priority[queue[i]] >= LOW
  BY DEF Victims
<1>4. ASSUME NEW d \in Queued, d # queue[i]
      PROVE  /\ d \in Queued'
             /\ priority[d] < priority[queue[i]] \/ (priority[d] = priority[queue[i]] /\ queue[i] < d)
  <2>1. PICK j \in DOMAIN queue : d = queue[j]
    BY DEF Queued, Elements
  <2>2. \/ priority[queue[j]] < priority[queue[i]]
        \/ priority[queue[j]] = priority[queue[i]] /\ queue[i] <= queue[j]
    BY DEF Victims
  <2>3. queue[i] \in Nat /\ d \in Nat
    BY <1>2, TableMember DEF Chunk
  <2> QED BY <1>2, <1>4, <2>1, <2>2, <2>3
<1> QED BY <1>2, <1>3, <1>4 DEF Queued

\* A put that makes room takes a LOW or BULK chunk, the oldest of the lowest priority
\* that is queued, whatever retries have put behind newer chunks, and no other.
THEOREM EvictionAlwaysInOrder == Spec => EvictionOrder
<1>1. TypeOK /\ Located /\ [Next]_vars =>
         [lost'["evicted"] > lost["evicted"] =>
            \E c \in Elements(queue) :
              /\ priority[c] >= LOW
              /\ \A d \in Elements(queue) \ {c} :
                    /\ d \in Elements(queue')
                    /\ priority[d] < priority[c] \/ (priority[d] = priority[c] /\ c < d)]_vars
  BY EvictionStep
<1> QED BY <1>1, AlwaysLocated, PTL DEF Spec, EvictionOrder

LEMMA CleanupStep ==
    ASSUME TypeOK, Located, Cleanup
    PROVE  LET gone == Elements(queue) \ Elements(queue') IN
           /\ \A c \in gone : Stale(c) /\ c \notin registry'
           /\ \A i \in DOMAIN queue' :
                 Stale(queue'[i]) => arrays /\ ~Stale(queue'[1])
<1> DEFINE K == DOMAIN queue \ Cleanable
<1>1. /\ K \in SUBSET (DOMAIN queue) /\ queue \in Seq(Chunk)
      /\ DOMAIN queue = 1 .. Len(queue) /\ Len(queue) \in Nat
  BY DEF TypeOK
<1>2. Queued' = Queued \ Swept /\ registry' = registry \ Swept
  BY CleanupMoves
<1>3. \A c \in Swept : Stale(c)
  BY DEF Swept, Cleanable
<1>4. queue' = Keep(queue, K)
  BY DEF Cleanup
<1> HIDE DEF K
<1>5. /\ \A n \in DOMAIN queue' : Nth(K, n) \in K /\ queue'[n] = queue[Nth(K, n)]
      /\ \A n, o \in DOMAIN queue' : n < o => Nth(K, n) < Nth(K, o)
      /\ \A i \in K : \E n \in DOMAIN queue' : Nth(K, n) = i
      /\ DOMAIN queue' = 1 .. Cardinality(K) /\ Cardinality(K) \in Nat
  BY <1>1, <1>4, KeepPositions
<1>6. \A n \in DOMAIN queue' : n \in Nat /\ 1 <= n /\ 1 \in DOMAIN queue'
  BY <1>5
<1>7. ASSUME NEW i \in DOMAIN queue', Stale(queue'[i])
      PROVE  arrays /\ ~Stale(queue'[1])
  <2>1. Nth(K, i) \in K /\ Stale(queue[Nth(K, i)])
    BY <1>5, <1>7
  <2>2. arrays
    BY <2>1 DEF K, Cleanable
  <2>3. ASSUME Stale(queue'[1])
        PROVE  FALSE
    <3> DEFINE first == Nth(K, 1)
    <3>1. first \in K /\ Stale(queue[first])
      BY <1>5, <1>6, <2>3
    <3> HIDE DEF first
    <3>2. PICK j \in 1 .. first : ~Stale(queue[j])
      BY <2>2, <3>1 DEF K, Cleanable
    <3>3. first \in 1 .. Len(queue) /\ j # first /\ j \in Nat /\ j < first
      BY <1>1, <3>1, <3>2
    <3>4. j \in K
      BY <1>1, <3>2, <3>3 DEF K, Cleanable
    <3>5. PICK n \in DOMAIN queue' : Nth(K, n) = j
      BY <1>5, <3>4
    <3>6. n # 1 /\ 1 < n
      BY <1>6, <3>3, <3>5 DEF first
    <3>7. first < j
      BY <1>5, <1>6, <3>5, <3>6 DEF first
    <3> QED BY <3>3, <3>7, <1>1
  <2> QED BY <2>2, <2>3
<1> QED BY <1>2, <1>3, <1>7 DEF Queued

\* A cleanup takes stale chunks only, out of the registry too, and leaves none, except
\* with array payloads behind a fresh chunk.
THEOREM CleanupAlwaysExact == Spec => CleanupExact
<1>1. TypeOK /\ Located /\ [Next]_vars =>
         [lost'["stale"] > lost["stale"] =>
            LET gone == Elements(queue) \ Elements(queue') IN
            /\ \A c \in gone : Stale(c) /\ c \notin registry'
            /\ \A i \in DOMAIN queue' :
                  Stale(queue'[i]) => arrays /\ ~Stale(queue'[1])]_vars
  BY CleanupStep, WhoLoses
<1> QED BY <1>1, AlwaysLocated, PTL DEF Spec, CleanupExact

-----------------------------------------------------------------------------
(* The refinement of ChunkLife.                                              *)

Placed == TypeOK /\ Located /\ Tracked

\* The stage of a chunk, with the cases told apart by its place.
Stage(c) ==
    IF c > born THEN "unborn"
    ELSE IF status[c] = "COMPLETED" THEN "done"
    ELSE IF status[c] = "FAILED" THEN "failed"
    ELSE IF c \in Held THEN "working"
    ELSE IF c \in Queued THEN "waiting"
    ELSE IF c \in Pending THEN "offered"
    ELSE "gone"

\* The conditions of StageOf exclude one another.
LEMMA StageCases ==
    ASSUME Placed, NEW c \in Chunk
    PROVE  StageOf(c) = Stage(c)
<1>1. born \in Nat /\ c \in Nat /\ c # NoChunk
  BY SizeAssumption DEF Placed, TypeOK, Chunk, NoChunk
<1>2. /\ c \in Held <=> \E w \in Worker : hands[w] = c
      /\ c \in Queued <=> \E i \in DOMAIN queue : queue[i] = c
      /\ c \in Pending <=> \E p \in Producer : call[p] = c
  BY <1>1 DEF Held, Queued, Elements, Pending
<1>3. c > born => status[c] = "PENDING" /\ c \notin Held /\ c \notin Queued /\ c \notin Pending
  BY <1>1 DEF Placed, Located, Tracked
<1>4. /\ c \in Held => status[c] = "PROCESSING" /\ c \notin Queued /\ c \notin Pending
      /\ c \in Queued => status[c] = "PENDING" /\ c \notin Pending
      /\ c \in Pending => status[c] = "PENDING"
  BY DEF Placed, Located, Tracked
<1> QED BY <1>2, <1>3, <1>4, Zenon DEF StageOf, Stage

LEMMA StageCasesNext ==
    ASSUME Placed', NEW c \in Chunk
    PROVE  StageOf(c)' = Stage(c)'
<1>1. born' \in Nat /\ c \in Nat /\ c # NoChunk
  BY SizeAssumption DEF Placed, TypeOK, Chunk, NoChunk
<1>2. /\ c \in Held' <=> \E w \in Worker : hands'[w] = c
      /\ c \in Queued' <=> \E i \in DOMAIN queue' : queue'[i] = c
      /\ c \in Pending' <=> \E p \in Producer : call'[p] = c
  BY <1>1 DEF Held, Queued, Elements, Pending
<1>3. c > born' => status'[c] = "PENDING" /\ c \notin Held' /\ c \notin Queued' /\ c \notin Pending'
  BY <1>1 DEF Placed, Located, Tracked
<1>4. /\ c \in Held' => status'[c] = "PROCESSING" /\ c \notin Queued' /\ c \notin Pending'
      /\ c \in Queued' => status'[c] = "PENDING" /\ c \notin Pending'
      /\ c \in Pending' => status'[c] = "PENDING"
  BY DEF Placed, Located, Tracked
<1> QED BY <1>2, <1>3, <1>4, Zenon DEF StageOf, Stage

\* A chunk whose place and status stay keeps its stage.
LEMMA StageStays ==
    ASSUME Placed, Placed', NEW c \in Chunk, c > born' <=> c > born, status'[c] = status[c],
           c \in Held' <=> c \in Held, c \in Queued' <=> c \in Queued,
           c \in Pending' <=> c \in Pending
    PROVE  StageOf(c)' = StageOf(c)
<1>1. StageOf(c) = Stage(c) /\ StageOf(c)' = Stage(c)'
  BY StageCases, StageCasesNext
<1>2. Stage(c)' = Stage(c)
  BY DEF Stage
<1> QED BY <1>1, <1>2

\* An arrival may cost nobody a place, or one chunk that waits.
LEMMA LifeNobody == {} \in Life!Displaced
BY DEF Life!Displaced

LEMMA LifeOne ==
    ASSUME NEW d \in Chunk, StageOf(d) = "waiting"
    PROVE  {d} \in Life!Displaced
BY DEF Life!Displaced, Life!In

LEMMA PutCallOffers ==
    ASSUME Placed, Placed', NEW p \in Producer, PutCall(p)
    PROVE  Life!Next
<1>0. PICK c \in Chunk : c = born'
  BY PutCallMoves DEF Placed
<1>1. /\ Queued' = Queued /\ Held' = Held /\ registry' = registry
      /\ born' = born + 1 /\ c = born' /\ Pending' = Pending \union {c}
  BY <1>0, PutCallMoves DEF Placed
<1>2. status' = status /\ deliveries' = deliveries
  BY DEF PutCall, history
<1>3. born \in Nat /\ (\A d \in Chunk : d \in Nat)
  BY SizeAssumption DEF Placed, TypeOK, Chunk
<1>4. StageOf(c) = "unborn"
  <2>1. c > born
    BY <1>1, <1>3
  <2> QED BY <1>1, <2>1, StageCases DEF Stage
<1>5. StageOf(c)' = "offered"
  <2>1. ~ (c > born') /\ c \in Pending' /\ status'[c] = "PENDING"
    BY <1>1, <1>3 DEF Placed, Tracked
  <2>2. c \notin Held' /\ c \notin Queued'
    BY <2>1 DEF Placed, Located
  <2> QED BY <1>1, <2>1, <2>2, StageCasesNext DEF Stage
<1>6. ASSUME NEW d \in Chunk, d # c
      PROVE  StageOf(d)' = StageOf(d)
  <2>1. d > born' <=> d > born
    BY <1>1, <1>3, <1>6
  <2> QED BY <1>1, <1>2, <1>6, <2>1, StageStays
<1>7. Life!Move(c, "offered", {})
  BY <1>1, <1>5, <1>6 DEF Life!Move
<1>8. Life!Offer(c)
  BY <1>1, <1>2, <1>4, <1>7 DEF Life!Offer
<1> QED BY <1>1, <1>8 DEF Life!Next

LEMMA PutAppendAdmits ==
    ASSUME Placed, Placed', NEW p \in Producer, PutAppend(p)
    PROVE  Life!Next
<1>0. PICK c \in Chunk : c = call[p]
  BY PutAppendMoves DEF Placed
<1>1. /\ Held' = Held /\ born' = born
      /\ c \in Pending /\ Pending' = Pending \ {c}
      /\ Queued' = Queued \union {c} /\ registry' = registry \union {c}
  BY <1>0, PutAppendMoves DEF Placed
<1>2. status' = status /\ deliveries' = deliveries
  BY DEF PutAppend, history
<1>3. /\ ~ (c > born) /\ status[c] = "PENDING"
      /\ c \notin Held /\ c \notin registry /\ c \notin Queued
  BY <1>1, SizeAssumption DEF Placed, TypeOK, Located, Tracked, Chunk
<1>4. StageOf(c) = "offered"
  <2>1. Stage(c) = "offered"
    BY <1>1, <1>3 DEF Stage
  <2> QED BY <1>1, <2>1, StageCases
<1>5. StageOf(c)' = "waiting"
  <2>1. Stage(c)' = "waiting"
    BY <1>1, <1>2, <1>3 DEF Stage
  <2> QED BY <1>1, <2>1, StageCasesNext
<1>6. ASSUME NEW d \in Chunk, d # c
      PROVE  StageOf(d)' = StageOf(d)
  BY <1>1, <1>2, <1>6, StageStays
<1>7. Life!Move(c, "waiting", {})
  BY <1>1, <1>5, <1>6 DEF Life!Move
<1>8. Held' \ registry' = Held \ registry
  BY <1>1, <1>3
<1>9. Life!Admit(c)
  BY <1>1, <1>2, <1>4, <1>7, <1>8, LifeNobody DEF Life!Admit
<1> QED BY <1>1, <1>9 DEF Life!Next

LEMMA PutAbortsRefuses ==
    ASSUME Placed, Placed', NEW p \in Producer, call[p] # NoChunk, PutAborts(p)
    PROVE  Life!Next
<1>0. PICK c \in Chunk : c = call[p]
  BY PutAbortsMoves DEF Placed
<1>1. /\ Held' = Held /\ born' = born /\ Queued' = Queued /\ registry' = registry
      /\ c \in Pending /\ Pending' = Pending \ {c}
  BY <1>0, PutAbortsMoves DEF Placed
<1>2. status' = status /\ deliveries' = deliveries
  BY DEF PutAborts, history
<1>3. /\ ~ (c > born) /\ status[c] = "PENDING"
      /\ c \notin Held /\ c \notin Queued
  BY <1>1, SizeAssumption DEF Placed, TypeOK, Located, Tracked, Chunk
<1>4. StageOf(c) = "offered"
  <2>1. Stage(c) = "offered"
    BY <1>1, <1>3 DEF Stage
  <2> QED BY <1>1, <2>1, StageCases
<1>5. StageOf(c)' = "gone"
  <2>1. Stage(c)' = "gone"
    BY <1>1, <1>2, <1>3 DEF Stage
  <2> QED BY <1>1, <2>1, StageCasesNext
<1>6. ASSUME NEW d \in Chunk, d # c
      PROVE  StageOf(d)' = StageOf(d)
  BY <1>1, <1>2, <1>6, StageStays
<1>7. Life!Move(c, "gone", {})
  BY <1>1, <1>5, <1>6 DEF Life!Move
<1>8. Life!Refuse(c)
  BY <1>1, <1>2, <1>4, <1>7 DEF Life!Refuse
<1> QED BY <1>1, <1>8 DEF Life!Next

LEMMA PutEvictingAdmits ==
    ASSUME Placed, Placed', NEW p \in Producer, PutEvicting(p)
    PROVE  Life!Next
<1>0. PICK i \in Victims :
         /\ Held' = Held /\ born' = born
         /\ call[p] \in Pending /\ call[p] \in Chunk /\ Pending' = Pending \ {call[p]}
         /\ queue[i] \in Queued
         /\ Queued' = (Queued \ {queue[i]}) \union {call[p]}
         /\ registry' = (registry \ {queue[i]}) \union {call[p]}
  BY PutEvictingMoves DEF Placed
<1>1. PICK c \in Chunk, e \in Chunk : c = call[p] /\ e = queue[i]
  BY <1>0, TableMember DEF Placed
<1>2. /\ Held' = Held /\ born' = born
      /\ c \in Pending /\ e \in Queued /\ Pending' = Pending \ {c}
      /\ Queued' = (Queued \ {e}) \union {c} /\ registry' = (registry \ {e}) \union {c}
  BY <1>0, <1>1
<1>3. status' = status /\ deliveries' = deliveries
  BY DEF PutEvicting, history
<1>4. /\ ~ (c > born) /\ status[c] = "PENDING"
      /\ c \notin Held /\ c \notin registry /\ c \notin Queued
  BY <1>2, SizeAssumption DEF Placed, TypeOK, Located, Tracked, Chunk
<1>5. /\ ~ (e > born) /\ status[e] = "PENDING"
      /\ e \notin Held /\ e \in registry /\ e \notin Pending
  BY <1>2, SizeAssumption DEF Placed, TypeOK, Located, Tracked, Chunk
<1>6. StageOf(c) = "offered" /\ StageOf(e) = "waiting"
  <2>1. Stage(c) = "offered" /\ Stage(e) = "waiting"
    BY <1>2, <1>4, <1>5 DEF Stage
  <2> QED BY <2>1, StageCases
<1>7. StageOf(c)' = "waiting" /\ StageOf(e)' = "gone"
  <2>1. Stage(c)' = "waiting" /\ Stage(e)' = "gone"
    BY <1>2, <1>3, <1>4, <1>5 DEF Stage
  <2> QED BY <2>1, StageCasesNext
<1>8. ASSUME NEW d \in Chunk, d # c, d # e
      PROVE  StageOf(d)' = StageOf(d)
  BY <1>2, <1>3, <1>8, StageStays
<1>9. Life!Move(c, "waiting", {e})
  BY <1>7, <1>8 DEF Life!Move
<1>10. Held' \ registry' = Held \ registry
  BY <1>2, <1>4, <1>5
<1>11. Life!Admit(c)
  BY <1>3, <1>6, <1>9, <1>10, LifeOne DEF Life!Admit
<1> QED BY <1>11 DEF Life!Next

LEMMA GetTakes ==
    ASSUME Placed, Placed', NEW w \in Worker, Get(w)
    PROVE  Life!Next
<1>0. PICK c \in Chunk : c = Head(queue)
  BY GetMoves DEF Placed
<1>1. /\ Pending' = Pending /\ registry' = registry /\ born' = born
      /\ c \in Queued /\ Queued' = Queued \ {c} /\ Held' = Held \union {c}
  BY <1>0, GetMoves DEF Placed
<1>2. /\ status' = [status EXCEPT ![c] = "PROCESSING"]
      /\ deliveries' = [deliveries EXCEPT ![c] = @ + 1]
      /\ status \in [Chunk -> Status]
  BY <1>0 DEF Get, Placed, TypeOK
<1>3. /\ ~ (c > born) /\ status[c] = "PENDING"
      /\ c \notin Held /\ c \in registry /\ c \notin Pending
  BY <1>1, SizeAssumption DEF Placed, TypeOK, Located, Tracked, Chunk
<1>4. StageOf(c) = "waiting"
  <2>1. Stage(c) = "waiting"
    BY <1>1, <1>3 DEF Stage
  <2> QED BY <2>1, StageCases
<1>5. StageOf(c)' = "working"
  <2>1. status'[c] = "PROCESSING"
    BY <1>2
  <2>2. Stage(c)' = "working"
    BY <1>1, <1>3, <2>1 DEF Stage
  <2> QED BY <2>2, StageCasesNext
<1>6. ASSUME NEW d \in Chunk, d # c
      PROVE  StageOf(d)' = StageOf(d)
  <2>1. status'[d] = status[d]
    BY <1>2, <1>6
  <2> QED BY <1>1, <1>6, <2>1, StageStays
<1>7. Life!Move(c, "working", {})
  BY <1>5, <1>6 DEF Life!Move
<1>8. Held' \ registry' = Held \ registry
  BY <1>1, <1>3
<1>9. Life!Take(c)
  BY <1>2, <1>4, <1>7, <1>8 DEF Life!Take
<1> QED BY <1>9 DEF Life!Next

\* A chunk in a worker's hands, whatever the worker reports.
LEMMA HeldWorks ==
    ASSUME Placed, NEW c \in Held
    PROVE  /\ c \in Chunk /\ ~ (c > born) /\ status[c] = "PROCESSING"
           /\ c \notin Queued /\ c \notin Pending
           /\ deliveries[c] = retries[c] + 1 /\ retries[c] \in Nat
           /\ StageOf(c) = "working"
<1>1. c \in Chunk /\ c \in Nat
  BY TableMember DEF Placed, Chunk
<1>2. /\ ~ (c > born) /\ status[c] = "PROCESSING"
      /\ c \notin Queued /\ c \notin Pending
      /\ deliveries[c] = retries[c] + 1
  BY <1>1, SizeAssumption DEF Placed, TypeOK, Located, Tracked, Chunk
<1>3. retries[c] \in Nat
  BY <1>1, SizeAssumption DEF Placed, TypeOK
<1>4. Stage(c) = "working"
  BY <1>2 DEF Stage
<1> QED BY <1>1, <1>2, <1>3, <1>4, StageCases

\* A report that neither queues the chunk nor leaves it with a worker moves that chunk
\* alone: to the stage of its new status.
LEMMA ReportEnds ==
    ASSUME Placed, Placed', NEW c \in Held,
           Held' = Held \ {c}, Queued' = Queued, Pending' = Pending, born' = born,
           \A d \in Chunk : d # c => status'[d] = status[d]
    PROVE  /\ status'[c] = "COMPLETED" => Life!Move(c, "done", {})
           /\ status'[c] = "FAILED" => Life!Move(c, "failed", {})
           /\ status'[c] = "PROCESSING" => Life!Move(c, "gone", {})
<1>1. /\ c \in Chunk /\ ~ (c > born)
      /\ c \notin Queued /\ c \notin Pending
  BY HeldWorks
<1>2. /\ status'[c] = "COMPLETED" => Stage(c)' = "done"
      /\ status'[c] = "FAILED" => Stage(c)' = "failed"
      /\ status'[c] = "PROCESSING" => Stage(c)' = "gone"
  BY <1>1 DEF Stage
<1>3. StageOf(c)' = Stage(c)'
  BY <1>1, StageCasesNext
<1>4. ASSUME NEW d \in Chunk, d # c
      PROVE  StageOf(d)' = StageOf(d)
  BY <1>4, StageStays
<1> QED BY <1>2, <1>3, <1>4 DEF Life!Move

LEMMA MarkCompletedEnds ==
    ASSUME Placed, Placed', NEW w \in Worker, MarkCompleted(w)
    PROVE  Life!Next
<1>0. PICK c \in Held : c = hands[w]
  BY ReportMoves DEF MarkCompleted, Placed
<1>1. /\ Held' = Held \ {c} /\ Queued' = Queued /\ Pending' = Pending
      /\ born' = born /\ registry' = registry
  BY <1>0, ReportMoves DEF MarkCompleted, Placed, Queued, Pending, chunkVars, putVars
<1>2. /\ c \in Chunk /\ status[c] = "PROCESSING" /\ StageOf(c) = "working"
  BY HeldWorks
<1>3. /\ status' = IF c \in registry THEN [status EXCEPT ![c] = "COMPLETED"] ELSE status
      /\ deliveries' = deliveries /\ status \in [Chunk -> Status]
  BY <1>0 DEF MarkCompleted, history, Placed, TypeOK
<1>4. /\ \A d \in Chunk : d # c => status'[d] = status[d]
      /\ c \in registry => status'[c] = "COMPLETED"
      /\ c \notin registry => status'[c] = "PROCESSING"
  BY <1>2, <1>3
<1>5. CASE c \in registry
  <2>1. Life!Move(c, "done", {})
    BY <1>1, <1>4, <1>5, ReportEnds
  <2>2. c \notin Held \ registry /\ Held' \ registry' = Held \ registry
    BY <1>1, <1>5
  <2>3. Life!Complete(c)
    BY <1>2, <1>3, <2>1, <2>2 DEF Life!Complete
  <2> QED BY <1>2, <2>3 DEF Life!Next
<1>6. CASE c \notin registry
  <2>1. Life!Move(c, "gone", {})
    BY <1>1, <1>4, <1>6, ReportEnds
  <2>2. c \in Held \ registry /\ Held' \ registry' = (Held \ registry) \ {c}
    BY <1>1, <1>6
  <2>3. Life!EndUnseen(c)
    BY <1>3, <2>1, <2>2 DEF Life!EndUnseen
  <2> QED BY <1>2, <2>3 DEF Life!Next
<1> QED BY <1>5, <1>6

LEMMA MarkFailedUnknownEnds ==
    ASSUME Placed, Placed', NEW w \in Worker, MarkFailedUnknown(w)
    PROVE  Life!Next
<1>0. PICK c \in Held : c = hands[w]
  BY ReportMoves DEF MarkFailedUnknown, Placed
<1>1. /\ Held' = Held \ {c} /\ Queued' = Queued /\ Pending' = Pending
      /\ born' = born /\ registry' = registry /\ c \notin registry
  BY <1>0, ReportMoves DEF MarkFailedUnknown, Placed, Queued, Pending, chunkVars, putVars
<1>2. c \in Chunk /\ status[c] = "PROCESSING"
  BY HeldWorks
<1>3. status' = status /\ deliveries' = deliveries
  BY DEF MarkFailedUnknown, history
<1>4. Life!Move(c, "gone", {})
  BY <1>1, <1>2, <1>3, ReportEnds
<1>5. c \in Held \ registry /\ Held' \ registry' = (Held \ registry) \ {c}
  BY <1>1
<1>6. Life!EndUnseen(c)
  BY <1>3, <1>4, <1>5 DEF Life!EndUnseen
<1> QED BY <1>2, <1>6 DEF Life!Next

\* A chunk fails for good after all its attempts, no earlier.
LEMMA MarkFailedFinalEnds ==
    ASSUME Placed, Placed', NEW w \in Worker, MarkFailedFinal(w)
    PROVE  Life!Next
<1>1. hands[w] # NoChunk
  <2>1. hands[w] \in registry
    BY DEF MarkFailedFinal
  <2> QED BY <2>1 DEF Placed, TypeOK, Chunk, NoChunk
<1>0. PICK c \in Held : c = hands[w]
  BY <1>1, TableMember DEF Placed
<1>2. /\ Held' = Held \ {c} /\ Queued' = Queued /\ Pending' = Pending
      /\ born' = born /\ registry' = registry /\ c \in registry
  BY <1>0, <1>1, ReportMoves DEF MarkFailedFinal, Placed, Queued, Pending, chunkVars, putVars
<1>3. /\ c \in Chunk /\ StageOf(c) = "working"
      /\ deliveries[c] = retries[c] + 1 /\ retries[c] \in Nat
  BY HeldWorks
<1>4. /\ status' = [status EXCEPT ![c] = "FAILED"] /\ deliveries' = deliveries
      /\ status \in [Chunk -> Status] /\ ~ (retries[c] < MaxRetries)
  BY <1>0 DEF MarkFailedFinal, CanRetry, history, Placed, TypeOK
<1>5. status'[c] = "FAILED" /\ \A d \in Chunk : d # c => status'[d] = status[d]
  BY <1>3, <1>4
<1>6. Life!Move(c, "failed", {})
  BY <1>2, <1>5, ReportEnds
<1>7. deliveries[c] = MaxRetries + 1
  <2>1. retries[c] <= MaxRetries
    BY <1>3, SizeAssumption DEF Placed, TypeOK
  <2> QED BY <1>3, <1>4, <2>1, SizeAssumption
<1>8. c \notin Held \ registry /\ Held' \ registry' = Held \ registry
  BY <1>2
<1>9. Life!GiveUp(c)
  BY <1>3, <1>4, <1>6, <1>7, <1>8 DEF Life!GiveUp
<1> QED BY <1>3, <1>9 DEF Life!Next

\* A retry leads back into the line while attempts are left; on a full deque it costs
\* the chunk at its head.
LEMMA MarkFailedRetryTriesAgain ==
    ASSUME Placed, Placed', NEW w \in Worker, MarkFailedRetry(w)
    PROVE  Life!Next
<1>0. PICK c \in Held : c = hands[w]
  BY RetryMoves DEF Placed
<1>1. PICK S \in SUBSET Queued :
         /\ S = {} \/ \E e \in Chunk : S = {e}
         /\ Queued' = {c} \union (Queued \ S)
  <2>1. CASE Len(queue) = MaxSize
    <3>1. Head(queue) \in Queued /\ Head(queue) \in Chunk
      BY <2>1, RetryMoves DEF Placed
    <3>2. Queued' = {c} \union (Queued \ {Head(queue)})
      BY <1>0, <2>1, RetryMoves DEF Placed
    <3> QED BY <3>1, <3>2
  <2>2. CASE Len(queue) # MaxSize
    <3>1. Queued' = {c} \union (Queued \ {})
      BY <1>0, <2>2, RetryMoves DEF Placed
    <3> QED BY <3>1
  <2> QED BY <2>1, <2>2
<1>2. /\ Held' = Held \ {c} /\ Pending' = Pending
      /\ born' = born /\ registry' = registry /\ c \in registry
  BY <1>0, RetryMoves DEF Placed
<1>3. /\ c \in Chunk /\ ~ (c > born) /\ StageOf(c) = "working"
      /\ c \notin Queued /\ c \notin Pending
      /\ deliveries[c] = retries[c] + 1 /\ retries[c] \in Nat
  BY HeldWorks
<1>4. /\ status' = [status EXCEPT ![c] = "PENDING"] /\ deliveries' = deliveries
      /\ status \in [Chunk -> Status] /\ retries[c] < MaxRetries
  BY <1>0 DEF MarkFailedRetry, CanRetry, Placed, TypeOK
<1>5. status'[c] = "PENDING" /\ \A d \in Chunk : d # c => status'[d] = status[d]
  BY <1>3, <1>4
<1>6. StageOf(c)' = "waiting"
  <2>1. Stage(c)' = "waiting"
    BY <1>1, <1>2, <1>3, <1>5 DEF Stage
  <2> QED BY <1>3, <2>1, StageCasesNext
<1>7. ASSUME NEW d \in S
      PROVE  d \in Chunk /\ d # c /\ StageOf(d) = "waiting" /\ StageOf(d)' = "gone"
  <2>1. d \in Queued /\ d \in Chunk
    BY TableMember DEF Placed
  <2>2. /\ ~ (d > born) /\ status[d] = "PENDING" /\ d # c
        /\ d \notin Held /\ d \notin Pending
    BY <1>3, <2>1, SizeAssumption DEF Placed, TypeOK, Located, Tracked, Chunk
  <2>3. Stage(d) = "waiting" /\ Stage(d)' = "gone"
    BY <1>1, <1>2, <1>5, <2>1, <2>2 DEF Stage
  <2> QED BY <2>1, <2>2, <2>3, StageCases, StageCasesNext
<1>8. ASSUME NEW d \in Chunk, d # c, d \notin S
      PROVE  StageOf(d)' = StageOf(d)
  BY <1>1, <1>2, <1>5, <1>8, StageStays
<1>9. Life!Move(c, "waiting", S)
  BY <1>6, <1>7, <1>8 DEF Life!Move
<1>10. S \in Life!Displaced
  <2>1. CASE S = {}
    BY <2>1, LifeNobody
  <2>2. ASSUME NEW e \in Chunk, S = {e} PROVE S \in Life!Displaced
    BY <1>7, <2>2, LifeOne
  <2> QED BY <1>1, <2>1, <2>2
<1>11. c \notin Held \ registry /\ Held' \ registry' = Held \ registry
  BY <1>2
<1>12. deliveries[c] < MaxRetries + 1
  BY <1>3, <1>4, SizeAssumption
<1>13. Life!TryAgain(c)
  BY <1>3, <1>4, <1>9, <1>10, <1>11, <1>12 DEF Life!TryAgain
<1> QED BY <1>3, <1>13 DEF Life!Next

LEMMA CleanupDiscards ==
    ASSUME Placed, Placed', Cleanup
    PROVE  Life!Next
<1>1. /\ Pending' = Pending /\ Held' = Held /\ born' = born /\ Swept \subseteq Queued
      /\ Queued' = Queued \ Swept /\ registry' = registry \ Swept
  BY CleanupMoves DEF Placed
<1>2. status' = status /\ deliveries' = deliveries
  BY DEF Cleanup
<1>3. PICK S : S = Swept
  OBVIOUS
<1>4. ASSUME NEW d \in S
      PROVE  d \in Chunk /\ StageOf(d) = "waiting" /\ StageOf(d)' = "gone"
  <2>1. d \in Queued /\ d \in Chunk
    BY <1>1, <1>3, TableMember DEF Placed
  <2>2. /\ ~ (d > born) /\ status[d] = "PENDING"
        /\ d \notin Held /\ d \notin Pending
    BY <2>1, SizeAssumption DEF Placed, TypeOK, Located, Tracked, Chunk
  <2>3. Stage(d) = "waiting" /\ Stage(d)' = "gone"
    BY <1>1, <1>2, <1>3, <2>1, <2>2 DEF Stage
  <2> QED BY <2>1, <2>3, StageCases, StageCasesNext
<1>5. ASSUME NEW d \in Chunk, d \notin S
      PROVE  StageOf(d)' = StageOf(d)
  BY <1>1, <1>2, <1>3, <1>5, StageStays
<1>6. Held' \ registry' = Held \ registry
  BY <1>1 DEF Placed, Located
<1>7. S \in SUBSET Life!In("waiting")
  BY <1>4 DEF Life!In
<1>8. Life!Discard
  BY <1>2, <1>4, <1>5, <1>6, <1>7 DEF Life!Discard
<1> QED BY <1>8 DEF Life!Next

LEMMA ClearResets ==
    ASSUME Placed, Placed', Clear
    PROVE  Life!Next
<1>1. /\ Pending' = Pending /\ Held' = Held /\ born' = born
      /\ Queued' = {} /\ registry' = {}
  BY ClearMoves DEF Placed
<1>2. status' = status /\ deliveries' = deliveries
  BY DEF Clear
<1>3. ASSUME NEW d \in Chunk
      PROVE  StageOf(d)' = IF StageOf(d) = "waiting" THEN "gone" ELSE StageOf(d)
  <2>1. d \in Queued => status[d] = "PENDING" /\ ~ (d > born) /\ d \notin Held /\ d \notin Pending
    BY SizeAssumption DEF Placed, TypeOK, Located, Tracked, Chunk
  <2>2. Stage(d)' = IF Stage(d) = "waiting" THEN "gone" ELSE Stage(d)
    BY <1>1, <1>2, <2>1 DEF Stage
  <2> QED BY <2>2, StageCases, StageCasesNext
<1>4. Held = Life!In("working")
  <2>1. ASSUME NEW d \in Chunk
        PROVE  StageOf(d) = "working" <=> d \in Held
    <3>1. StageOf(d) = "working" => d \in Held
      BY StageCases DEF Stage
    <3> QED BY <3>1, HeldWorks
  <2>2. Held \subseteq Chunk
    BY TableMember DEF Placed
  <2> QED BY <2>1, <2>2 DEF Life!In
<1>5. Held' \ registry' = Life!In("working")
  BY <1>1, <1>4
<1>6. Life!Reset
  BY <1>2, <1>3, <1>5 DEF Life!Reset
<1> QED BY <1>6 DEF Life!Next

\* What ageing changes has no part in the mapping.
LEMMA LifeStutters ==
    ASSUME UNCHANGED <<born, status, call, queue, registry, hands, deliveries>>
    PROVE  UNCHANGED Life!vars
<1>1. ASSUME NEW d PROVE StageOf(d)' = StageOf(d)
  BY DEF StageOf
<1>2. Held' = Held
  BY DEF Held
<1> QED BY <1>1, <1>2 DEF Life!vars

LEMMA LifeStep ==
    ASSUME Placed, Placed', [Next]_vars
    PROVE  [Life!Next]_Life!vars
<1>1. ASSUME NEW p \in Producer, PutCall(p)
      PROVE  Life!Next
  BY <1>1, PutCallOffers
<1>2. ASSUME NEW p \in Producer, PutAppend(p)
      PROVE  Life!Next
  BY <1>2, PutAppendAdmits
<1>3. ASSUME NEW p \in Producer, PutRefused(p) \/ PutRaises(p)
      PROVE  Life!Next
  BY <1>3, PutAbortsRefuses DEF PutRefused, PutRaises
<1>4. ASSUME NEW p \in Producer, PutEvicting(p)
      PROVE  Life!Next
  BY <1>4, PutEvictingAdmits
<1>5. ASSUME NEW w \in Worker, Get(w)
      PROVE  Life!Next
  BY <1>5, GetTakes
<1>6. ASSUME NEW w \in Worker, MarkCompleted(w)
      PROVE  Life!Next
  BY <1>6, MarkCompletedEnds
<1>7. ASSUME NEW w \in Worker, MarkFailedRetry(w)
      PROVE  Life!Next
  BY <1>7, MarkFailedRetryTriesAgain
<1>8. ASSUME NEW w \in Worker, MarkFailedFinal(w)
      PROVE  Life!Next
  BY <1>8, MarkFailedFinalEnds
<1>9. ASSUME NEW w \in Worker, MarkFailedUnknown(w)
      PROVE  Life!Next
  BY <1>9, MarkFailedUnknownEnds
<1>10. ASSUME NEW c \in Chunk, GrowOld(c)
       PROVE  UNCHANGED Life!vars
  BY <1>10, LifeStutters DEF GrowOld, chunkVars, putVars, history
<1>11. CASE Cleanup
  BY <1>11, CleanupDiscards
<1>12. CASE Clear
  BY <1>12, ClearResets
<1>13. CASE UNCHANGED vars
  BY <1>13, LifeStutters DEF vars, chunkVars, putVars, history
<1> QED BY <1>1, <1>2, <1>3, <1>4, <1>5, <1>6, <1>7, <1>8, <1>9, <1>10, <1>11, <1>12, <1>13
        DEF Next

LEMMA LifeInit == Init => Life!Init
<1> SUFFICES ASSUME Init PROVE Life!Init
  OBVIOUS
<1>1. ASSUME NEW d \in Chunk PROVE StageOf(d) = "unborn"
  <2>1. Placed
    BY QueueInitTyped, LocatedInit, ExplainedInit DEF Placed, Explained
  <2>2. d > born
    BY SizeAssumption DEF Init, Chunk
  <2> QED BY <2>1, <2>2, StageCases DEF Stage
<1>2. Held = {}
  BY DEF Init, Held, NoChunk
<1> QED BY <1>1, <1>2 DEF Init, Life!Init

\* AudioQueue implements ChunkLife: every step under the lock takes one chunk to its
\* next stage, costs at most one waiting chunk its place (only cleanup and clear drop
\* more), ends a chunk as FAILED after all its attempts and no earlier, and reports
\* nothing of a chunk that clear forgot.
THEOREM QueueImplementsChunkLife == Spec => ImplementsChunkLife
<1>1. Init => Life!Init
  BY LifeInit
<1>2. TypeOK /\ Located /\ Explained => Placed
  BY DEF Placed, Explained
<1>3. Placed /\ Placed' /\ [Next]_vars => [Life!Next]_Life!vars
  BY LifeStep
<1> QED BY <1>1, <1>2, <1>3, AlwaysExplained, PTL DEF Spec, ImplementsChunkLife, Life!Spec
=============================================================================

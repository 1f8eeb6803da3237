-------------------------- MODULE Scheduler_proofs ---------------------------
(***************************************************************************)
(* Theorems about Scheduler, for any loops, callers, default schedules and *)
(* bounds: the type invariant, and that what was promised is what is       *)
(* stored and what runs.                                                   *)
(***************************************************************************)
EXTENDS Scheduler, FiniteSetTheorems, SequenceTheorems, WellFoundedInduction, TLAPS

-----------------------------------------------------------------------------
(* The inductive invariants.                                                 *)

\* Each task stands in a table once.
Distinct(t) == \A i, j \in DOMAIN t : t[i].id = t[j].id => i = j

\* What a table, or a copy of one, may hold.
WellFormed(t) == t \in Seq(Entries) /\ Len(t) <= MaxTasks /\ Distinct(t)

\* The copies on their way.
WellWritten(ws) ==
    /\ ws \in [Writer -> [copy : Seq(Entries), sent : BOOLEAN]]
    /\ \A w \in Writer : WellFormed(ws[w].copy)

\* The loops, at p with the tasks k, that are to compute the next run of a task; each may do
\* so once more, since a task is begun only at a time that came before MaxNext.
Runners(p, k, id) == {l \in Loop : p[l] \in {"run", "store"} /\ k[l] = id}
WellPaced(p, k, t) ==
    \A i \in DOMAIN t :
        t[i].next + Cardinality(Runners(p, k, t[i].id)) <= MaxNext + Cardinality(Loop)

Switches == up \in BOOLEAN /\ running \in BOOLEAN /\ disturbed \in BOOLEAN
Tables == WellFormed(table) /\ WellFormed(stored) /\ WellWritten(writes)
Loops ==
    /\ pc \in [Loop -> {"none", "sleep", "run", "store", "save"}]
    /\ at \in [Loop -> 0 .. MaxTasks]
    /\ size \in [Loop -> 0 .. MaxTasks]
    /\ asof \in [Loop -> SUBSET Id]
    /\ task \in [Loop -> Id \union {None}]
Counters ==
    /\ setup \in 0 .. Len(DefaultTypes) + 1
    /\ second \in 0 .. MaxSecond
    /\ passed \subseteq Id \X (0 .. MaxNext)
    /\ calls \in 0 .. MaxCalls /\ faults \in 0 .. MaxFaults
    /\ promised \subseteq Id

\* There is room for the defaults that start has yet to schedule.
Roomy == Len(table) + (IF setup > 1 THEN setup - 1 ELSE 0) <= MaxTasks

\* Nothing of the process is left when it is down.
Down ==
    ~up => /\ table = <<>> /\ setup = 0
           /\ \A w \in Writer : ~Busy(w)
           /\ \A l \in Loop : pc[l] = "none"

Paced == (\A p \in passed : p[2] < MaxNext) /\ WellPaced(pc, task, table)

Typed == Switches /\ Tables /\ Loops /\ Counters /\ Roomy /\ Down /\ Paced

\* While nothing overlaps and nothing is lost, one copy is on its way at the most, it is of
\* the table there is, and the table is what was promised.
InStep ==
    ~disturbed =>
        /\ \A v, w \in Writer : Busy(v) /\ Busy(w) => v = w
        /\ \A w \in Writer : Busy(w) => writes[w].copy = table
        /\ up => Ids(table) = promised
        /\ Quiet => Ids(stored) = promised /\ (up => stored = table)

-----------------------------------------------------------------------------
(* Sequences and sets.                                                       *)

LEMMA LeastElement ==
    ASSUME NEW S \in SUBSET Nat, S # {}
    PROVE  \E k \in S : \A n \in S : k <= n
<1>1. IsWellFoundedOn(OpToRel(<, Nat), Nat)
  BY NatLessThanWellFounded
<1>2. PICK k \in S : \A n \in S : ~ (<<n, k>> \in OpToRel(<, Nat))
  BY <1>1, WFMin
<1>3. \A n \in S : ~ (n < k)
  BY <1>2 DEF OpToRel
<1> QED BY <1>3

\* The ids of a table, and how many there are.
LEMMA IdsOf ==
    ASSUME NEW t
    PROVE  \A x : x \in Ids(t) <=> \E i \in DOMAIN t : t[i].id = x
BY DEF Ids

LEMMA IdsCounted ==
    ASSUME NEW t, t \in Seq(Entries), Distinct(t)
    PROVE  Cardinality(Ids(t)) = Len(t)
<1> DEFINE f == [i \in 1 .. Len(t) |-> t[i].id]
<1>1. Len(t) \in Nat /\ DOMAIN t = 1 .. Len(t)
  OBVIOUS
<1>2. f \in Bijection(1 .. Len(t), Ids(t))
  BY <1>1 DEF Bijection, Injection, Surjection, IsInjective, Ids, Distinct
<1>3. ExistsBijection(1 .. Len(t), Ids(t))
  BY <1>2 DEF ExistsBijection
<1>4. IsFiniteSet(1 .. Len(t)) /\ Cardinality(1 .. Len(t)) = Len(t)
  BY <1>1, FS_Interval
<1> QED BY <1>3, <1>4, FS_Bijection

\* A table with the same ids in the same places.
LEMMA SameShape ==
    ASSUME NEW t, WellFormed(t), NEW s, DOMAIN s = DOMAIN t, s = [i \in DOMAIN t |-> s[i]],
           \A i \in DOMAIN t : s[i] \in Entries /\ s[i].id = t[i].id
    PROVE  /\ WellFormed(s) /\ Len(s) = Len(t)
           /\ \A x : x \in Ids(s) <=> x \in Ids(t)
<1>1. t \in Seq(Entries) /\ Len(t) <= MaxTasks /\ Distinct(t)
  BY DEF WellFormed
<1>2. Len(t) \in Nat /\ DOMAIN t = 1 .. Len(t)
  BY <1>1
<1>3. s \in [1 .. Len(t) -> Entries]
  BY <1>2
<1>4. s \in Seq(Entries) /\ Len(s) = Len(t)
  BY <1>2, <1>3
<1>5. Distinct(s)
  BY <1>1 DEF Distinct
<1>6. \A x : x \in Ids(s) <=> x \in Ids(t)
  BY IdsOf
<1> QED BY <1>1, <1>4, <1>5, <1>6 DEF WellFormed

LEMMA AppendNew ==
    ASSUME NEW t, WellFormed(t), NEW e \in Entries, e.id \notin Ids(t), Len(t) + 1 <= MaxTasks
    PROVE  /\ WellFormed(Append(t, e)) /\ Len(Append(t, e)) = Len(t) + 1
           /\ \A x : x \in Ids(Append(t, e)) <=> x \in Ids(t) \/ x = e.id
           /\ \A i \in DOMAIN Append(t, e) :
                 \/ Append(t, e)[i] = e
                 \/ i \in DOMAIN t /\ Append(t, e)[i] = t[i] /\ t[i].id # e.id
<1>1. t \in Seq(Entries) /\ Len(t) <= MaxTasks /\ Distinct(t)
  BY DEF WellFormed
<1>2. PICK s : s = Append(t, e)
  OBVIOUS
<1>3. /\ s \in Seq(Entries)
      /\ Len(t) \in Nat /\ DOMAIN t = 1 .. Len(t)
      /\ Len(s) = Len(t) + 1 /\ DOMAIN s = 1 .. Len(t) + 1
      /\ \A i \in 1 .. Len(t) : s[i] = t[i]
      /\ s[Len(t) + 1] = e
  BY <1>1, <1>2
<1>4. \A i \in 1 .. Len(t) + 1 : i \in 1 .. Len(t) \/ i = Len(t) + 1
  BY <1>3
<1>5. \A i \in 1 .. Len(t) : i \in 1 .. Len(t) + 1
  BY <1>3
<1>6. Len(t) + 1 \in 1 .. Len(t) + 1
  BY <1>3
<1>7. \A i \in 1 .. Len(t) : t[i].id # e.id
  BY <1>3, IdsOf
<1>8. Distinct(s)
  BY <1>1, <1>3, <1>4, <1>7 DEF Distinct
<1>9. \A x : x \in Ids(s) <=> x \in Ids(t) \/ x = e.id
  BY <1>3, <1>4, <1>5, <1>6, IdsOf
<1> QED BY <1>2, <1>3, <1>4, <1>7, <1>8, <1>9 DEF WellFormed

\* Assignment to a dictionary.
LEMMA PutWell ==
    ASSUME NEW t, WellFormed(t), NEW e \in Entries, Len(t) + 1 <= MaxTasks
    PROVE  /\ WellFormed(Put(t, e)) /\ Len(Put(t, e)) \in {Len(t), Len(t) + 1}
           /\ \A x : x \in Ids(Put(t, e)) <=> x \in Ids(t) \/ x = e.id
           /\ \A i \in DOMAIN Put(t, e) :
                 \/ Put(t, e)[i] = e
                 \/ i \in DOMAIN t /\ Put(t, e)[i] = t[i] /\ t[i].id # e.id
<1>1. CASE e.id \in Ids(t)
  <2>1. PICK s : s = [i \in DOMAIN t |-> IF t[i].id = e.id THEN e ELSE t[i]]
    OBVIOUS
  <2>2. Put(t, e) = s
    BY <1>1, <2>1 DEF Put
  <2>3. t \in Seq(Entries)
    BY DEF WellFormed
  <2>4. \A i \in DOMAIN t : t[i] \in Entries
    BY <2>3
  <2>5. DOMAIN s = DOMAIN t /\ s = [i \in DOMAIN t |-> s[i]]
    BY <2>1
  <2>6. \A i \in DOMAIN t : s[i] \in Entries /\ s[i].id = t[i].id
    BY <2>1, <2>4
  <2>7. WellFormed(s) /\ Len(s) = Len(t) /\ \A x : x \in Ids(s) <=> x \in Ids(t)
    BY <2>5, <2>6, SameShape
  <2>8. \A i \in DOMAIN s : s[i] = e \/ (i \in DOMAIN t /\ s[i] = t[i] /\ t[i].id # e.id)
    BY <2>1
  <2> QED BY <1>1, <2>2, <2>7, <2>8
<1>2. CASE e.id \notin Ids(t)
  <2>1. Put(t, e) = Append(t, e)
    BY <1>2 DEF Put
  <2> QED BY <1>2, <2>1, AppendNew
<1> QED BY <1>1, <1>2

\* A sequence without its element i.
LEMMA HeadPart ==
    ASSUME NEW S, NEW t \in Seq(S), NEW i \in 1 .. Len(t)
    PROVE  /\ SubSeq(t, 1, i - 1) \in Seq(S) /\ Len(SubSeq(t, 1, i - 1)) = i - 1
           /\ \A k \in 1 .. i - 1 : SubSeq(t, 1, i - 1)[k] = t[k]
<1>1. \A k \in 1 .. i - 1 : t[k] \in S
  OBVIOUS
<1>2. PICK m \in Int : m = i - 1
  OBVIOUS
<1>3. /\ SubSeq(t, 1, m) \in Seq(S)
      /\ Len(SubSeq(t, 1, m)) = IF 1 <= m THEN m - 1 + 1 ELSE 0
      /\ \A k \in 1 .. m - 1 + 1 : SubSeq(t, 1, m)[k] = t[1 + k - 1]
  BY <1>1, <1>2, SubSeqProperties
<1>4. PICK a : a = SubSeq(t, 1, m)
  OBVIOUS
<1>5. Len(a) = m
  BY <1>2, <1>3, <1>4
<1>6. \A k \in 1 .. m : a[k] = t[k]
  <2>1. \A k \in 1 .. m : k \in 1 .. m - 1 + 1 /\ 1 + k - 1 = k
    BY <1>2
  <2> QED BY <1>3, <1>4, <2>1
<1> QED BY <1>2, <1>3, <1>4, <1>5, <1>6

LEMMA TailPart ==
    ASSUME NEW S, NEW t \in Seq(S), NEW i \in 1 .. Len(t)
    PROVE  /\ SubSeq(t, i + 1, Len(t)) \in Seq(S) /\ Len(SubSeq(t, i + 1, Len(t))) = Len(t) - i
           /\ \A k \in 1 .. Len(t) - i : SubSeq(t, i + 1, Len(t))[k] = t[k + i]
<1>1. \A k \in i + 1 .. Len(t) : t[k] \in S
  OBVIOUS
<1>2. PICK m \in Int : m = i + 1
  OBVIOUS
<1>3. PICK n \in Int : n = Len(t)
  OBVIOUS
<1>4. /\ SubSeq(t, m, n) \in Seq(S)
      /\ Len(SubSeq(t, m, n)) = IF m <= n THEN n - m + 1 ELSE 0
      /\ \A k \in 1 .. n - m + 1 : SubSeq(t, m, n)[k] = t[m + k - 1]
  BY <1>1, <1>2, <1>3, SubSeqProperties
<1>5. PICK a : a = SubSeq(t, m, n)
  OBVIOUS
<1>6. Len(a) = n - i
  BY <1>2, <1>3, <1>4, <1>5
<1>7. \A k \in 1 .. n - i : a[k] = t[k + i]
  <2>1. \A k \in 1 .. n - i : k \in 1 .. n - m + 1 /\ m + k - 1 = k + i
    BY <1>2, <1>3
  <2> QED BY <1>4, <1>5, <2>1
<1> QED BY <1>2, <1>3, <1>4, <1>5, <1>6, <1>7

Cut(t, i) == SubSeq(t, 1, i - 1) \o SubSeq(t, i + 1, Len(t))

\* The sequence s is t, of n entries, but for its entry i.
IsCut(s, t, n, i) ==
    /\ s \in Seq(Entries) /\ Len(s) = n - 1
    /\ \A k \in 1 .. n - 1 : s[k] = IF k < i THEN t[k] ELSE t[k + 1]

LEMMA Spliced ==
    ASSUME NEW t, t \in Seq(Entries), NEW n, n = Len(t), NEW i, i \in 1 .. n
    PROVE  IsCut(Cut(t, i), t, n, i)
<1>1. PICK a : a = SubSeq(t, 1, i - 1)
  OBVIOUS
<1>2. PICK b : b = SubSeq(t, i + 1, Len(t))
  OBVIOUS
<1>3. a \in Seq(Entries) /\ Len(a) = i - 1 /\ \A k \in 1 .. i - 1 : a[k] = t[k]
  BY <1>1, HeadPart
<1>4. b \in Seq(Entries) /\ Len(b) = n - i /\ \A k \in 1 .. n - i : b[k] = t[k + i]
  BY <1>2, TailPart
<1>5. PICK u : u = a \o b
  OBVIOUS
<1>6. Cut(t, i) = u
  BY <1>1, <1>2, <1>5 DEF Cut
<1>7. /\ u \in Seq(Entries)
      /\ Len(u) = Len(a) + Len(b)
      /\ \A k \in 1 .. Len(a) + Len(b) : u[k] = IF k <= Len(a) THEN a[k] ELSE b[k - Len(a)]
  BY <1>3, <1>4, <1>5, ConcatProperties
<1>8. n \in Nat /\ i \in Nat /\ Len(a) + Len(b) = n - 1
  BY <1>3, <1>4
<1>9. ASSUME NEW k \in 1 .. n - 1, k < i PROVE u[k] = t[k]
  <2>1. k \in 1 .. i - 1 /\ k <= i - 1
    BY <1>8, <1>9
  <2> QED BY <1>3, <1>7, <1>8, <2>1
<1>10. ASSUME NEW k \in 1 .. n - 1, ~ (k < i) PROVE u[k] = t[k + 1]
  <2>1. k - (i - 1) \in 1 .. n - i /\ (k - (i - 1)) + i = k + 1 /\ ~ (k <= i - 1)
    BY <1>8, <1>10
  <2>2. u[k] = b[k - (i - 1)]
    BY <1>3, <1>7, <1>8, <2>1
  <2> QED BY <1>4, <2>1, <2>2
<1> QED BY <1>3, <1>4, <1>6, <1>7, <1>8, <1>9, <1>10 DEF IsCut

\* A table without its entry i, whose entries are of the table.
Drawn(s, t) == \A k \in DOMAIN s : \E j \in DOMAIN t : s[k] = t[j]

LEMMA WithoutWell ==
    ASSUME NEW t, WellFormed(t), NEW i \in DOMAIN t
    PROVE  /\ WellFormed(Cut(t, i)) /\ Len(Cut(t, i)) = Len(t) - 1
           /\ \A x : x \in Ids(Cut(t, i)) <=> x \in Ids(t) /\ x # t[i].id
           /\ Drawn(Cut(t, i), t)
<1>0. PICK s : s = Cut(t, i)
  OBVIOUS
<1>1. t \in Seq(Entries) /\ Len(t) <= MaxTasks /\ Distinct(t)
  BY DEF WellFormed
<1>2. PICK n \in Nat : n = Len(t)
  BY <1>1
<1>3. DOMAIN t = 1 .. n /\ i \in 1 .. n /\ \A k \in 1 .. n : t[k] \in Entries
  BY <1>1, <1>2
<1>4. IsCut(s, t, n, i)
  BY <1>0, <1>1, <1>2, <1>3, Spliced
<1>9. /\ s \in Seq(Entries) /\ Len(s) = n - 1 /\ n - 1 \in Nat
      /\ \A k \in 1 .. n - 1 : s[k] = IF k < i THEN t[k] ELSE t[k + 1]
  BY <1>3, <1>4 DEF IsCut
<1>10. DOMAIN s = 1 .. n - 1
  BY <1>9
<1>11. ASSUME NEW k \in 1 .. n - 1
       PROVE  \E j \in 1 .. n : s[k] = t[j] /\ j # i /\ j = IF k < i THEN k ELSE k + 1
  <2>1. CASE k < i
    <3>1. k \in 1 .. n /\ k # i /\ s[k] = t[k]
      BY <1>3, <1>9, <2>1
    <3> QED BY <2>1, <3>1
  <2>2. CASE ~ (k < i)
    <3>1. k + 1 \in 1 .. n /\ k + 1 # i /\ s[k] = t[k + 1]
      BY <1>3, <1>9, <2>2
    <3> QED BY <2>2, <3>1
  <2> QED BY <2>1, <2>2
<1>12. Distinct(s)
  <2> SUFFICES ASSUME NEW k \in 1 .. n - 1, NEW m \in 1 .. n - 1, s[k].id = s[m].id
               PROVE  k = m
    BY <1>10 DEF Distinct
  <2>1. PICK j \in 1 .. n : s[k] = t[j] /\ j = IF k < i THEN k ELSE k + 1
    BY <1>11
  <2>2. PICK p \in 1 .. n : s[m] = t[p] /\ p = IF m < i THEN m ELSE m + 1
    BY <1>11
  <2>3. j = p
    BY <1>1, <1>3, <2>1, <2>2 DEF Distinct
  <2> QED BY <1>3, <2>1, <2>2, <2>3
<1>13. ASSUME NEW x PROVE x \in Ids(s) <=> x \in Ids(t) /\ x # t[i].id
  <2>1. ASSUME x \in Ids(s) PROVE x \in Ids(t) /\ x # t[i].id
    <3>1. PICK k \in 1 .. n - 1 : s[k].id = x
      BY <1>10, <2>1, IdsOf
    <3>2. PICK j \in 1 .. n : s[k] = t[j] /\ j # i
      BY <1>11
    <3> QED BY <1>1, <1>3, <3>1, <3>2, IdsOf DEF Distinct
  <2>2. ASSUME x \in Ids(t), x # t[i].id PROVE x \in Ids(s)
    <3>1. PICK j \in 1 .. n : t[j].id = x /\ j # i
      BY <1>3, <2>2, IdsOf
    <3>2. CASE j < i
      <4>1. j \in 1 .. n - 1 /\ s[j] = t[j]
        BY <1>2, <1>3, <1>9, <3>1, <3>2
      <4> QED BY <1>10, <3>1, <4>1, IdsOf
    <3>3. CASE i < j
      <4>1. j - 1 \in 1 .. n - 1 /\ ~ (j - 1 < i) /\ (j - 1) + 1 = j
        BY <1>2, <1>3, <3>1, <3>3
      <4>2. s[j - 1] = t[j]
        BY <1>9, <4>1
      <4> QED BY <1>10, <3>1, <4>1, <4>2, IdsOf
    <3> QED BY <1>3, <3>1, <3>2, <3>3
  <2> QED BY <2>1, <2>2
<1>14. Len(s) <= MaxTasks /\ Len(s) = Len(t) - 1
  BY <1>1, <1>2, <1>9, ConstantsAssumption
<1>15. \A k \in DOMAIN s : \E j \in DOMAIN t : s[k] = t[j]
  BY <1>3, <1>10, <1>11
<1> QED BY <1>0, <1>9, <1>12, <1>13, <1>14, <1>15 DEF WellFormed, Drawn

-----------------------------------------------------------------------------
(* The parts of the state.                                                   *)

LEMMA EmptyWell == WellFormed(<<>>) /\ Ids(<<>>) = {}
BY ConstantsAssumption DEF WellFormed, Distinct, Ids

LEMMA EntryParts ==
    ASSUME NEW t, t \in Seq(Entries), NEW i \in DOMAIN t
    PROVE  /\ t[i] \in Entries
           /\ t[i].id \in Id /\ t[i].type \in Types /\ t[i].enabled \in BOOLEAN
           /\ t[i].next \in 0 .. MaxNext + Cardinality(Loop)
<1>1. t[i] \in Entries
  OBVIOUS
<1> QED BY <1>1 DEF Entries

LEMMA LoopsCounted == Cardinality(Loop) \in Nat /\ MaxNext \in Nat
BY ConstantsAssumption, FS_CardinalityType

LEMMA SomeLoops ==
    ASSUME NEW S, S \subseteq Loop, NEW T, T \subseteq S
    PROVE  /\ Cardinality(T) \in Nat /\ Cardinality(S) \in Nat
           /\ Cardinality(T) <= Cardinality(S) /\ Cardinality(S) <= Cardinality(Loop)
<1>1. IsFiniteSet(Loop)
  BY ConstantsAssumption
<1>2. IsFiniteSet(S) /\ Cardinality(S) <= Cardinality(Loop)
  BY <1>1, FS_Subset
<1>3. IsFiniteSet(T) /\ Cardinality(T) <= Cardinality(S)
  BY <1>2, FS_Subset
<1> QED BY <1>2, <1>3, FS_CardinalityType

\* The None of a loop that runs nothing is the id of no task.
LEMMA NoneNoId == None \notin Id
<1>1. MaxSecond \in Nat
  BY ConstantsAssumption
<1>2. None.second = MaxSecond + 1
  BY DEF None
<1>3. \A x \in Id : x.second \in 0 .. MaxSecond
  BY DEF Id
<1> QED BY <1>1, <1>2, <1>3

LEMMA CopyWell ==
    ASSUME NEW ws, WellWritten(ws), NEW w \in Writer, NEW t, WellFormed(t)
    PROVE  WellWritten([ws EXCEPT ![w] = Copy(t)])
<1>1. Copy(t) \in [copy : Seq(Entries), sent : BOOLEAN] /\ Copy(t).copy = t
  BY DEF Copy, WellFormed
<1>2. ws \in [Writer -> [copy : Seq(Entries), sent : BOOLEAN]]
  BY DEF WellWritten
<1>3. PICK vs : vs = [ws EXCEPT ![w] = Copy(t)]
  OBVIOUS
<1>4. vs \in [Writer -> [copy : Seq(Entries), sent : BOOLEAN]]
  BY <1>1, <1>2, <1>3
<1>5. ASSUME NEW v \in Writer PROVE vs[v] = Copy(t) \/ vs[v] = ws[v]
  BY <1>2, <1>3
<1>6. ASSUME NEW v \in Writer PROVE WellFormed(vs[v].copy)
  BY <1>1, <1>5 DEF WellWritten
<1> QED BY <1>3, <1>4, <1>6 DEF WellWritten

LEMMA NothingWell ==
    ASSUME NEW ws, WellWritten(ws), NEW w \in Writer
    PROVE  WellWritten([ws EXCEPT ![w] = Nothing])
<1>1. Nothing \in [copy : Seq(Entries), sent : BOOLEAN] /\ WellFormed(Nothing.copy)
  BY EmptyWell DEF Nothing, WellFormed
<1>2. ws \in [Writer -> [copy : Seq(Entries), sent : BOOLEAN]]
  BY DEF WellWritten
<1>3. PICK vs : vs = [ws EXCEPT ![w] = Nothing]
  OBVIOUS
<1>4. vs \in [Writer -> [copy : Seq(Entries), sent : BOOLEAN]]
  BY <1>1, <1>2, <1>3
<1>5. ASSUME NEW v \in Writer PROVE vs[v] = Nothing \/ vs[v] = ws[v]
  BY <1>2, <1>3
<1>6. ASSUME NEW v \in Writer PROVE WellFormed(vs[v].copy)
  BY <1>1, <1>5 DEF WellWritten
<1> QED BY <1>3, <1>4, <1>6 DEF WellWritten

LEMMA AllNothingWell == WellWritten([w \in Writer |-> Nothing])
BY EmptyWell DEF WellWritten, Nothing, WellFormed

-----------------------------------------------------------------------------
(* next_run and the loops that are to compute it.                            *)

\* No loop takes up a task, and no entry comes later than it was.
LEMMA PaceKept ==
    ASSUME NEW t, t \in Seq(Entries), NEW p, NEW k, WellPaced(p, k, t),
           NEW s, s \in Seq(Entries), NEW q, NEW m,
           \A i \in DOMAIN s :
               \/ s[i].next = 0
               \/ \E j \in DOMAIN t : s[i].id = t[j].id /\ s[i].next = t[j].next,
           \A l \in Loop, x \in Id :
               q[l] \in {"run", "store"} /\ m[l] = x => p[l] \in {"run", "store"} /\ k[l] = x
    PROVE  WellPaced(q, m, s)
<1> SUFFICES ASSUME NEW i \in DOMAIN s
             PROVE  s[i].next + Cardinality(Runners(q, m, s[i].id))
                       <= MaxNext + Cardinality(Loop)
  BY DEF WellPaced
<1>1. s[i].id \in Id /\ s[i].next \in Nat
  BY EntryParts
<1>2. Runners(q, m, s[i].id) \subseteq Runners(p, k, s[i].id)
  BY <1>1 DEF Runners
<1>3. Runners(p, k, s[i].id) \subseteq Loop
  BY DEF Runners
<1>4. PICK c \in Nat, d \in Nat : /\ c = Cardinality(Runners(q, m, s[i].id))
                                  /\ d = Cardinality(Runners(p, k, s[i].id))
                                  /\ c <= d /\ d <= Cardinality(Loop)
  BY <1>2, <1>3, SomeLoops
<1>5. CASE s[i].next = 0
  BY <1>4, <1>5, LoopsCounted
<1>6. CASE \E j \in DOMAIN t : s[i].id = t[j].id /\ s[i].next = t[j].next
  <2>1. s[i].next + d <= MaxNext + Cardinality(Loop)
    BY <1>4, <1>6 DEF WellPaced
  <2> QED BY <1>1, <1>4, <2>1, LoopsCounted
<1> QED BY <1>5, <1>6

\* A loop takes up a task at a time that came.
LEMMA PaceBegun ==
    ASSUME NEW t, t \in Seq(Entries), Distinct(t), NEW l \in Loop,
           NEW p, NEW k, WellPaced(p, k, t), p[l] \notin {"run", "store"},
           NEW j \in DOMAIN t, t[j].next < MaxNext,
           NEW q, NEW m,
           \A n \in Loop : n # l => q[n] = p[n] /\ m[n] = k[n],
           m[l] = t[j].id
    PROVE  WellPaced(q, m, t)
<1> SUFFICES ASSUME NEW i \in DOMAIN t
             PROVE  t[i].next + Cardinality(Runners(q, m, t[i].id))
                       <= MaxNext + Cardinality(Loop)
  BY DEF WellPaced
<1>1. t[i].id \in Id /\ t[i].next \in Nat
  BY EntryParts
<1>2. Runners(q, m, t[i].id) \subseteq Loop /\ Runners(p, k, t[i].id) \subseteq Loop
  BY DEF Runners
<1>3. Cardinality(Runners(q, m, t[i].id)) \in Nat
      /\ Cardinality(Runners(q, m, t[i].id)) <= Cardinality(Loop)
  BY <1>2, SomeLoops
<1>4. CASE i = j
  BY <1>1, <1>3, <1>4, LoopsCounted
<1>5. CASE i # j
  <2>1. t[i].id # t[j].id
    BY <1>5 DEF Distinct
  <2>2. Runners(q, m, t[i].id) \subseteq Runners(p, k, t[i].id)
    BY <2>1 DEF Runners
  <2>3. PICK d \in Nat : d = Cardinality(Runners(p, k, t[i].id))
                         /\ Cardinality(Runners(q, m, t[i].id)) <= d
    BY <1>2, <2>2, SomeLoops
  <2>4. t[i].next + d <= MaxNext + Cardinality(Loop)
    BY <2>3 DEF WellPaced
  <2> QED BY <1>1, <1>3, <2>3, <2>4, LoopsCounted
<1> QED BY <1>4, <1>5

\* A loop computes the next run of its task.
LEMMA PaceComputed ==
    ASSUME NEW t, t \in Seq(Entries), NEW l \in Loop, NEW p, NEW k, WellPaced(p, k, t),
           p[l] = "store",
           NEW q, \A n \in Loop : n # l => q[n] = p[n], q[l] = "save",
           NEW s, DOMAIN s = DOMAIN t,
           \A i \in DOMAIN t : s[i].id = t[i].id,
           \A i \in DOMAIN t : \/ s[i].next = t[i].next
                               \/ t[i].id = k[l] /\ s[i].next = t[i].next + 1
    PROVE  WellPaced(q, k, s)
<1> SUFFICES ASSUME NEW i \in DOMAIN t
             PROVE  s[i].next + Cardinality(Runners(q, k, t[i].id))
                       <= MaxNext + Cardinality(Loop)
  BY DEF WellPaced
<1>1. t[i].id \in Id /\ t[i].next \in Nat
  BY EntryParts
<1>2. PICK P : P = Runners(p, k, t[i].id)
  OBVIOUS
<1>3. PICK Q : Q = Runners(q, k, t[i].id)
  OBVIOUS
<1>4. P \subseteq Loop /\ Q \subseteq P
  BY <1>2, <1>3 DEF Runners
<1>5. /\ Cardinality(Q) \in Nat /\ Cardinality(P) \in Nat
      /\ Cardinality(Q) <= Cardinality(P) /\ Cardinality(P) <= Cardinality(Loop)
  BY <1>4, SomeLoops
<1>6. t[i].next + Cardinality(P) <= MaxNext + Cardinality(Loop)
  BY <1>2 DEF WellPaced
<1>7. CASE s[i].next = t[i].next
  BY <1>1, <1>3, <1>5, <1>6, <1>7, LoopsCounted
<1>8. CASE t[i].id = k[l] /\ s[i].next = t[i].next + 1
  <2>1. l \in P /\ Q = P \ {l}
    BY <1>2, <1>3, <1>8 DEF Runners
  <2>2. IsFiniteSet(P)
    BY <1>4, ConstantsAssumption, FS_Subset
  <2>3. Cardinality(Q) = Cardinality(P) - 1
    BY <2>1, <2>2, FS_RemoveElement
  <2> QED BY <1>1, <1>3, <1>5, <1>6, <1>8, <2>3, LoopsCounted
<1> QED BY <1>7, <1>8

-----------------------------------------------------------------------------
(* Types are kept.                                                           *)

\* What the lemmas on types use of the state.
LEMMA TableFacts ==
    ASSUME Tables
    PROVE  /\ WellFormed(table) /\ table \in Seq(Entries) /\ Len(table) <= MaxTasks
           /\ Len(table) \in Nat /\ DOMAIN table = 1 .. Len(table)
           /\ WellFormed(stored) /\ stored \in Seq(Entries) /\ WellWritten(writes)
           /\ writes \in [Writer -> [copy : Seq(Entries), sent : BOOLEAN]]
           /\ Distinct(table)
<1>1. WellFormed(table) /\ WellFormed(stored) /\ WellWritten(writes)
  BY DEF Tables
<1> QED BY <1>1 DEF WellFormed, WellWritten

LEMMA InitTyped == ASSUME Init PROVE Typed
<1> USE DEF Init
<1>1. Switches
  BY Zenon DEF Switches
<1>2. Tables
  BY EmptyWell, AllNothingWell DEF Tables
<1>3. MaxTasks \in Nat /\ Len(DefaultTypes) \in Nat /\ MaxSecond \in Nat /\ MaxCalls \in Nat
      /\ MaxFaults \in Nat
  BY ConstantsAssumption
<1>4. Loops
  BY <1>3 DEF Loops
<1>5. Counters
  BY <1>3 DEF Counters
<1>6. Roomy
  BY <1>3 DEF Roomy
<1>7. Down
  BY DEF Down, Busy, Nothing
<1>8. Paced
  BY DEF Paced, WellPaced
<1> QED BY <1>1, <1>2, <1>4, <1>5, <1>6, <1>7, <1>8 DEF Typed

LEMMA AdvanceCases ==
    ASSUME table \in Seq(Entries), NEW l, NEW i \in Nat, NEW n, NEW ids, Advance(l, i, n, ids)
    PROVE  \/ Rest(l)
           \/ \E j \in DOMAIN table :
                 /\ Due(table[j])
                 /\ pc' = [pc EXCEPT ![l] = "run"]
                 /\ at' = [at EXCEPT ![l] = j]
                 /\ size' = [size EXCEPT ![l] = n]
                 /\ asof' = [asof EXCEPT ![l] = ids]
                 /\ task' = [task EXCEPT ![l] = table[j].id]
<1> DEFINE hits == {j \in i + 1 .. Len(table) : Raises(table[j]) \/ Runs(table[j], ids)}
           j == CHOOSE k \in hits : \A m \in hits : k <= m
           enough == Len(table) # n \/ hits = {} \/ Raises(table[j])
<1>0. IF enough
      THEN Rest(l)
      ELSE /\ pc' = [pc EXCEPT ![l] = "run"]
           /\ at' = [at EXCEPT ![l] = j]
           /\ size' = [size EXCEPT ![l] = n]
           /\ asof' = [asof EXCEPT ![l] = ids]
           /\ task' = [task EXCEPT ![l] = table[j].id]
  BY Zenon DEF Advance
<1>1. CASE enough
  BY <1>0, <1>1
<1>2. CASE ~ enough
  <2>1. hits \in SUBSET Nat /\ hits # {}
    BY <1>2
  <2>2. \E k \in hits : \A m \in hits : k <= m
    BY <2>1, LeastElement
  <2>3. j \in hits
    BY <2>2
  <2>4. j \in DOMAIN table /\ j \in 1 .. Len(table)
    BY <2>3
  <2>5. Due(table[j])
    <3>1. Raises(table[j]) \/ Runs(table[j], ids)
      BY <2>3
    <3>2. ~ Raises(table[j])
      BY <1>2
    <3> QED BY <3>1, <3>2 DEF Runs
  <2> HIDE DEF j, enough
  <2> QED BY <1>0, <1>2, <2>4, <2>5
<1> QED BY <1>1, <1>2

\* A loop goes on with its pass, or rests.
LEMMA AdvanceTyped ==
    ASSUME Typed, NEW l \in Loop, pc[l] \in {"sleep", "save"},
           NEW i \in Nat, NEW n \in 0 .. MaxTasks, NEW ids \in SUBSET Id,
           Advance(l, i, n, ids),
           UNCHANGED <<up, running, table, stored, writes, setup, clockVars, calls, faults,
                       history>>
    PROVE  Typed'
<1> USE DEF clockVars, history
<1>1. Switches /\ Tables /\ Loops /\ Counters /\ Roomy /\ Down /\ Paced
  BY DEF Typed
<1>2. Switches'
  BY <1>1 DEF Switches
<1>3. Tables'
  BY <1>1 DEF Tables
<1>4. Counters'
  BY <1>1 DEF Counters
<1>5. Roomy'
  BY <1>1 DEF Roomy
<1>6. up
  BY <1>1 DEF Down
<1>7. Down'
  BY <1>6 DEF Down
<1>8. /\ table \in Seq(Entries) /\ Len(table) <= MaxTasks /\ Len(table) \in Nat
      /\ DOMAIN table = 1 .. Len(table) /\ Distinct(table)
  BY <1>1, TableFacts
<1>9. MaxTasks \in Nat
  BY ConstantsAssumption
<1>10. CASE Rest(l)
  <2>1. Loops'
    BY <1>1, <1>9, <1>10 DEF Loops, Rest
  <2>2. \A m \in Loop, x \in Id :
           pc'[m] \in {"run", "store"} /\ task'[m] = x => pc[m] \in {"run", "store"} /\ task[m] = x
    BY <1>1, <1>10 DEF Loops, Rest
  <2>3. WellPaced(pc', task', table)
    BY <1>1, <1>8, <2>2, PaceKept DEF Paced
  <2>4. Paced'
    BY <1>1, <2>3 DEF Paced
  <2> QED BY <1>2, <1>3, <1>4, <1>5, <1>7, <2>1, <2>4 DEF Typed
<1>11. CASE ~ Rest(l)
  <2>1. PICK j \in DOMAIN table :
                 /\ Due(table[j])
                 /\ pc' = [pc EXCEPT ![l] = "run"]
                 /\ at' = [at EXCEPT ![l] = j]
                 /\ size' = [size EXCEPT ![l] = n]
                 /\ asof' = [asof EXCEPT ![l] = ids]
                 /\ task' = [task EXCEPT ![l] = table[j].id]
    BY <1>8, <1>11, AdvanceCases
  <2>2. table[j].id \in Id /\ j \in 0 .. MaxTasks
    BY <1>8, <1>9, EntryParts
  <2>3. Loops'
    BY <1>1, <2>1, <2>2 DEF Loops
  <2>4. table[j].next < MaxNext
    BY <1>1, <2>1 DEF Due, Paced
  <2>5. /\ \A m \in Loop : m # l => pc'[m] = pc[m] /\ task'[m] = task[m]
        /\ task'[l] = table[j].id /\ pc[l] \notin {"run", "store"}
    BY <1>1, <2>1 DEF Loops
  <2>6. WellPaced(pc', task', table)
    BY <1>1, <1>8, <2>4, <2>5, PaceBegun DEF Paced
  <2>7. Paced'
    BY <1>1, <2>6 DEF Paced
  <2> QED BY <1>2, <1>3, <1>4, <1>5, <1>7, <2>3, <2>7 DEF Typed
<1> QED BY <1>10, <1>11

\* The object that a loop runs is nobody's when its id is given away.
LEMMA OrphanRuns ==
    ASSUME Loops, NEW id, Orphan(id)
    PROVE  /\ task' \in [Loop -> Id \union {None}]
           /\ \A m \in Loop, x \in Id : task'[m] = x => task[m] = x
<1>1. task' = [m \in Loop |-> IF task[m] = id THEN None ELSE task[m]]
  BY DEF Orphan
<1>2. task \in [Loop -> Id \union {None}]
  BY DEF Loops
<1>3. task' \in [Loop -> Id \union {None}]
  BY <1>1, <1>2
<1>4. ASSUME NEW m \in Loop, NEW x \in Id, task'[m] = x PROVE task[m] = x
  <2>1. x # None
    BY NoneNoId
  <2> QED BY <1>1, <1>4, <2>1
<1> QED BY <1>3, <1>4

LEMMA NewTaskParts ==
    ASSUME second \in 0 .. MaxSecond, Len(table) \in Nat, Len(table) + 1 <= MaxTasks,
           NEW type \in Types
    PROVE  /\ NewId \in Id
           /\ NewTask(type) \in Entries /\ NewTask(type).id = NewId /\ NewTask(type).next = 0
<1>1. Len(table) \in 0 .. MaxTasks - 1
  BY ConstantsAssumption
<1>2. NewId \in Id
  BY <1>1 DEF NewId, Id
<1>3. 0 \in 0 .. MaxNext + Cardinality(Loop)
  BY LoopsCounted
<1>4. NewTask(type) \in Entries /\ NewTask(type).id = NewId /\ NewTask(type).next = 0
  BY <1>2, <1>3 DEF NewTask, Entries
<1> QED BY <1>2, <1>4

\* schedule_task, where there is room.
LEMMA ScheduleTyped ==
    ASSUME Typed, up, NEW w \in Writer, NEW type \in Types, Len(table) + 1 <= MaxTasks,
           Schedule(w, type)
    PROVE  /\ Switches' /\ Tables' /\ Loops' /\ Paced' /\ up'
           /\ Len(table') \in {Len(table), Len(table) + 1}
           /\ second' \in 0 .. MaxSecond /\ passed' \subseteq Id \X (0 .. MaxNext)
           /\ promised' \subseteq Id /\ faults' = faults
           /\ \A x : x \in Ids(table') <=> x \in Ids(table) \/ x = NewId
<1>1. Switches /\ Tables /\ Loops /\ Counters /\ Paced
  BY DEF Typed
<1>2. /\ WellFormed(table) /\ table \in Seq(Entries) /\ Len(table) \in Nat
      /\ WellWritten(writes) /\ WellFormed(stored) /\ Distinct(table)
  BY <1>1, TableFacts
<1>3. PICK e \in Entries : e = NewTask(type) /\ e.id = NewId /\ e.id \in Id /\ e.next = 0
  BY <1>1, <1>2, NewTaskParts DEF Counters
<1>4. table' = Put(table, e)
  BY <1>3 DEF Schedule
<1>5. /\ WellFormed(table') /\ Len(table') \in {Len(table), Len(table) + 1}
      /\ \A x : x \in Ids(table') <=> x \in Ids(table) \/ x = NewId
      /\ \A i \in DOMAIN table' :
            \/ table'[i] = e
            \/ i \in DOMAIN table /\ table'[i] = table[i] /\ table[i].id # e.id
  BY <1>2, <1>3, <1>4, PutWell
<1>6. writes' = [writes EXCEPT ![w] = Copy(table')]
  BY DEF Schedule
<1>7. WellWritten(writes')
  BY <1>2, <1>5, <1>6, CopyWell
<1>8. stored' = stored /\ up' = up /\ running' = running /\ faults' = faults
      /\ second' = second /\ pc' = pc /\ at' = at /\ size' = size /\ asof' = asof
  BY DEF Schedule
<1>9. Tables'
  BY <1>2, <1>5, <1>7, <1>8 DEF Tables
<1>10. disturbed' = (disturbed \/ ~Quiet \/ NewId \in Ids(table))
  BY DEF Schedule
<1>11. disturbed' \in BOOLEAN
  BY <1>1, <1>10, Zenon DEF Switches
<1>12. Switches'
  BY <1>1, <1>8, <1>11, Zenon DEF Switches
<1>13. /\ task' \in [Loop -> Id \union {None}]
       /\ \A m \in Loop, x \in Id : task'[m] = x => task[m] = x
  BY <1>1, OrphanRuns DEF Schedule
<1>14. Loops'
  BY <1>1, <1>8, <1>13 DEF Loops
<1>15. passed' \subseteq passed /\ promised' \subseteq Id
  BY <1>1, <1>3 DEF Schedule, Counters
<1>16. table' \in Seq(Entries)
  BY <1>5 DEF WellFormed
<1>17. \A i \in DOMAIN table' :
          \/ table'[i].next = 0
          \/ \E j \in DOMAIN table : table'[i].id = table[j].id /\ table'[i].next = table[j].next
  BY <1>3, <1>5
<1>18. WellPaced(pc', task', table')
  BY <1>1, <1>2, <1>8, <1>13, <1>16, <1>17, PaceKept DEF Paced
<1>19. Paced'
  BY <1>1, <1>15, <1>18 DEF Paced
<1> QED BY <1>1, <1>5, <1>8, <1>9, <1>12, <1>14, <1>15, <1>19 DEF Counters

LEMMA AddTyped ==
    ASSUME Typed, NEW c \in Caller, NEW type \in ApiTypes, Add(c, type)
    PROVE  Typed'
<1>1. Counters /\ Roomy /\ Tables
  BY DEF Typed
<1>2. up /\ Schedule(c, type) /\ setup' = setup /\ Room /\ calls < MaxCalls /\ calls' = calls + 1
  BY DEF Add, Call
<1>3. Len(table) \in Nat /\ setup \in Nat /\ MaxTasks \in Nat /\ Len(DefaultTypes) \in Nat
  BY <1>1, TableFacts, ConstantsAssumption DEF Counters
<1>4. Len(table) + 1 <= MaxTasks
  BY <1>2, <1>3 DEF Room
<1>5. c \in Writer /\ type \in Types
  BY ConstantsAssumption DEF Writer
<1>6. /\ Switches' /\ Tables' /\ Loops' /\ Paced' /\ up'
      /\ Len(table') \in {Len(table), Len(table) + 1}
      /\ second' \in 0 .. MaxSecond /\ passed' \subseteq Id \X (0 .. MaxNext)
      /\ promised' \subseteq Id /\ faults' = faults
  BY <1>2, <1>4, <1>5, ScheduleTyped
<1>7. calls' \in 0 .. MaxCalls
  BY <1>1, <1>2, ConstantsAssumption DEF Counters
<1>8. Counters'
  BY <1>1, <1>2, <1>6, <1>7 DEF Counters
<1>9. Roomy'
  BY <1>2, <1>3, <1>6 DEF Roomy, Room
<1> QED BY <1>6, <1>8, <1>9 DEF Typed, Down

LEMMA ScheduleDefaultTyped ==
    ASSUME Typed, ScheduleDefault
    PROVE  Typed'
<1>1. Counters /\ Roomy /\ Tables /\ Down
  BY DEF Typed
<1>2. setup > 1 /\ setup' = setup - 1 /\ calls' = calls
  BY DEF ScheduleDefault
<1>3. Len(table) \in Nat /\ setup \in Nat /\ MaxTasks \in Nat /\ Len(DefaultTypes) \in Nat
      /\ setup <= Len(DefaultTypes) + 1
  BY <1>1, TableFacts, ConstantsAssumption DEF Counters
<1>4. Len(table) + 1 <= MaxTasks /\ up
  BY <1>1, <1>2, <1>3 DEF Roomy, Down
<1>5. Len(DefaultTypes) - setup + 2 \in 1 .. Len(DefaultTypes)
  BY <1>2, <1>3
<1>6. PICK type \in Types : type = DefaultTypes[Len(DefaultTypes) - setup + 2]
  <2>1. DefaultTypes[Len(DefaultTypes) - setup + 2] \in {"interval", "once"}
    BY <1>5, ConstantsAssumption
  <2> QED BY <2>1 DEF Types
<1>7. Schedule("setup", type) /\ "setup" \in Writer
  BY <1>6 DEF ScheduleDefault, Writer
<1>8. /\ Switches' /\ Tables' /\ Loops' /\ Paced' /\ up'
      /\ Len(table') \in {Len(table), Len(table) + 1}
      /\ second' \in 0 .. MaxSecond /\ passed' \subseteq Id \X (0 .. MaxNext)
      /\ promised' \subseteq Id /\ faults' = faults
  BY <1>4, <1>7, ScheduleTyped
<1>9. Counters'
  BY <1>1, <1>2, <1>3, <1>8 DEF Counters
<1>10. Roomy'
  BY <1>1, <1>2, <1>3, <1>8 DEF Roomy
<1> QED BY <1>8, <1>9, <1>10 DEF Typed, Down

\* A copy of the table is saved.
LEMMA SavedTyped ==
    ASSUME WellWritten(writes), disturbed \in BOOLEAN, NEW w \in Writer, NEW t, WellFormed(t),
           Save(w, t)
    PROVE  WellWritten(writes') /\ disturbed' \in BOOLEAN
<1>1. WellWritten(writes')
  BY CopyWell DEF Save
<1>2. disturbed' = (disturbed \/ ~Quiet)
  BY DEF Save
<1> QED BY <1>1, <1>2, Zenon

LEMMA RemoveTyped ==
    ASSUME Typed, NEW c \in Caller, NEW i \in DOMAIN table, Remove(c, i)
    PROVE  Typed' /\ up' /\ \A x : x \in Ids(table') <=> x \in Ids(table) /\ x # table[i].id
<1>1. Switches /\ Tables /\ Loops /\ Counters /\ Roomy /\ Paced
  BY DEF Typed
<1>2. /\ WellFormed(table) /\ table \in Seq(Entries) /\ Len(table) \in Nat
      /\ DOMAIN table = 1 .. Len(table) /\ WellWritten(writes) /\ WellFormed(stored)
  BY <1>1, TableFacts
<1>3. up /\ calls < MaxCalls /\ calls' = calls + 1
  BY DEF Remove, Call
<1>4. /\ up' = up /\ running' = running /\ stored' = stored /\ setup' = setup
      /\ pc' = pc /\ size' = size /\ asof' = asof
      /\ second' = second /\ passed' = passed /\ faults' = faults
      /\ Save(c, table') /\ promised' \subseteq promised /\ Orphan(table[i].id)
  BY DEF Remove, clockVars
<1>5. table' = Cut(table, i)
  BY DEF Remove, Cut
<1>6. /\ WellFormed(table') /\ Len(table') = Len(table) - 1
      /\ \A x : x \in Ids(table') <=> x \in Ids(table) /\ x # table[i].id
      /\ \A k \in DOMAIN table' : \E j \in DOMAIN table : table'[k] = table[j]
  <2>1. PICK s : s = Cut(table, i)
    OBVIOUS
  <2>2. WellFormed(s) /\ Len(s) = Len(table) - 1
    BY <1>2, <2>1, WithoutWell
  <2>3. \A x : x \in Ids(s) <=> x \in Ids(table) /\ x # table[i].id
    BY <1>2, <2>1, WithoutWell
  <2>4. \A k \in DOMAIN s : \E j \in DOMAIN table : s[k] = table[j]
    <3>1. Drawn(Cut(table, i), table)
      BY <1>2, WithoutWell
    <3> QED BY <2>1, <3>1 DEF Drawn
  <2> QED BY <1>5, <2>1, <2>2, <2>3, <2>4
<1>7. c \in Writer
  BY DEF Writer
<1>8. WellWritten(writes') /\ disturbed' \in BOOLEAN
  BY <1>1, <1>2, <1>4, <1>6, <1>7, SavedTyped DEF Switches
<1>9. Switches' /\ Tables'
  BY <1>1, <1>2, <1>4, <1>6, <1>8, Zenon DEF Switches, Tables
<1>10. at' \in [Loop -> 0 .. MaxTasks]
  <2>1. at' = [l \in Loop |-> IF at[l] >= i THEN at[l] - 1 ELSE at[l]]
    BY DEF Remove
  <2>2. at \in [Loop -> 0 .. MaxTasks] /\ MaxTasks \in Nat /\ i \in Nat /\ i >= 1
    BY <1>1, <1>2, ConstantsAssumption DEF Loops
  <2>3. ASSUME NEW l \in Loop
        PROVE  (IF at[l] >= i THEN at[l] - 1 ELSE at[l]) \in 0 .. MaxTasks
    <3>1. at[l] \in 0 .. MaxTasks
      BY <2>2
    <3> QED BY <2>2, <3>1
  <2> QED BY <2>1, <2>3
<1>11. /\ task' \in [Loop -> Id \union {None}]
       /\ \A m \in Loop, x \in Id : task'[m] = x => task[m] = x
  BY <1>1, <1>4, OrphanRuns
<1>12. Loops'
  BY <1>1, <1>4, <1>10, <1>11 DEF Loops
<1>13. calls' \in 0 .. MaxCalls
  BY <1>1, <1>3, ConstantsAssumption DEF Counters
<1>14. Counters'
  BY <1>1, <1>4, <1>13 DEF Counters
<1>15. Roomy'
  BY <1>1, <1>2, <1>4, <1>6, ConstantsAssumption DEF Roomy, Counters
<1>16. table' \in Seq(Entries)
  BY <1>6 DEF WellFormed
<1>17. WellPaced(pc', task', table')
  BY <1>1, <1>2, <1>4, <1>6, <1>11, <1>16, PaceKept DEF Paced
<1>18. Paced'
  BY <1>1, <1>4, <1>17 DEF Paced
<1> QED BY <1>3, <1>4, <1>6, <1>9, <1>12, <1>14, <1>15, <1>18 DEF Typed, Down

LEMMA SetEnabledTyped ==
    ASSUME Typed, NEW c \in Caller, NEW i \in DOMAIN table, NEW value \in BOOLEAN,
           SetEnabled(c, i, value)
    PROVE  Typed' /\ up' /\ \A x : x \in Ids(table') <=> x \in Ids(table)
<1>1. Switches /\ Tables /\ Loops /\ Counters /\ Roomy /\ Paced
  BY DEF Typed
<1>2. /\ WellFormed(table) /\ table \in Seq(Entries) /\ Len(table) \in Nat
      /\ WellWritten(writes) /\ WellFormed(stored)
  BY <1>1, TableFacts
<1>3. up /\ calls < MaxCalls /\ calls' = calls + 1
  BY DEF SetEnabled, Call
<1>4. /\ up' = up /\ running' = running /\ stored' = stored /\ setup' = setup
      /\ pc' = pc /\ at' = at /\ size' = size /\ asof' = asof /\ task' = task
      /\ second' = second /\ passed' = passed /\ faults' = faults
      /\ Save(c, table') /\ promised' = promised
  BY DEF SetEnabled, clockVars, loopVars
<1>5. PICK s : s = [table EXCEPT ![i].enabled = value]
  OBVIOUS
<1>6. table' = s
  BY <1>5 DEF SetEnabled
<1>7. DOMAIN s = DOMAIN table /\ s = [j \in DOMAIN table |-> s[j]]
  BY <1>5
<1>8. ASSUME NEW j \in DOMAIN table
      PROVE  s[j] \in Entries /\ s[j].id = table[j].id /\ s[j].next = table[j].next
  <2>1. table[j] \in Entries
    BY <1>2
  <2>2. CASE j = i
    <3>1. s[j] = [table[j] EXCEPT !.enabled = value]
      BY <1>5, <2>2
    <3> QED BY <2>1, <3>1 DEF Entries
  <2>3. CASE j # i
    <3>1. s[j] = table[j]
      BY <1>5, <2>3
    <3> QED BY <2>1, <3>1
  <2> QED BY <2>2, <2>3
<1>9. WellFormed(s) /\ Len(s) = Len(table) /\ \A x : x \in Ids(s) <=> x \in Ids(table)
  BY <1>2, <1>7, <1>8, SameShape
<1>10. c \in Writer
  BY DEF Writer
<1>11. WellWritten(writes') /\ disturbed' \in BOOLEAN
  BY <1>1, <1>2, <1>4, <1>6, <1>9, <1>10, SavedTyped DEF Switches
<1>12. WellFormed(table') /\ WellFormed(stored')
  BY <1>2, <1>4, <1>6, <1>9
<1>13. Switches' /\ Tables'
  BY <1>1, <1>4, <1>11, <1>12, Zenon DEF Switches, Tables
<1>14. Loops'
  BY <1>1, <1>4 DEF Loops
<1>15. calls' \in 0 .. MaxCalls
  BY <1>1, <1>3, ConstantsAssumption DEF Counters
<1>16. Counters'
  BY <1>1, <1>4, <1>15 DEF Counters
<1>17. Roomy'
  BY <1>1, <1>4, <1>6, <1>9 DEF Roomy
<1>18. s \in Seq(Entries)
  BY <1>9 DEF WellFormed
<1>19. WellPaced(pc, task, s)
  BY <1>1, <1>2, <1>7, <1>8, <1>18, PaceKept DEF Paced
<1>20. Paced'
  BY <1>1, <1>4, <1>6, <1>19 DEF Paced
<1> QED BY <1>3, <1>4, <1>6, <1>9, <1>13, <1>14, <1>16, <1>17, <1>20 DEF Typed, Down

LEMMA RescheduleTyped ==
    ASSUME Typed, NEW l \in Loop, Reschedule(l)
    PROVE  Typed' /\ up' /\ \A x : x \in Ids(table') <=> x \in Ids(table)
<1>1. Switches /\ Tables /\ Loops /\ Counters /\ Roomy /\ Paced /\ Down
  BY DEF Typed
<1>2. /\ WellFormed(table) /\ table \in Seq(Entries) /\ Len(table) \in Nat
      /\ WellWritten(writes) /\ WellFormed(stored)
  BY <1>1, TableFacts
<1>3. up /\ pc[l] = "store" /\ pc' = [pc EXCEPT ![l] = "save"]
  BY <1>1 DEF Reschedule, Down
<1>4. /\ up' = up /\ running' = running /\ stored' = stored /\ setup' = setup
      /\ at' = at /\ size' = size /\ asof' = asof /\ task' = task
      /\ second' = second /\ passed' = passed /\ faults' = faults /\ calls' = calls
      /\ Save(l, table') /\ promised' = promised
  BY DEF Reschedule, clockVars
<1>5. PICK s : s = [i \in DOMAIN table |->
                      IF i \in Mine(l) THEN [table[i] EXCEPT !.next = NextRun(table[i])]
                      ELSE table[i]]
  OBVIOUS
<1>6. table' = s
  BY <1>5 DEF Reschedule
<1>7. DOMAIN s = DOMAIN table /\ s = [j \in DOMAIN table |-> s[j]]
  BY <1>5
<1>8. ASSUME NEW j \in DOMAIN table
      PROVE  /\ s[j].id = table[j].id
             /\ \/ s[j].next = table[j].next
                \/ table[j].id = task[l] /\ s[j].next = table[j].next + 1
             /\ s[j] = table[j] \/ s[j] = [table[j] EXCEPT !.next = s[j].next]
  <2>1. table[j] \in Entries
    BY <1>2
  <2>2. CASE j \in Mine(l)
    <3>1. s[j] = [table[j] EXCEPT !.next = NextRun(table[j])]
      BY <1>5, <2>2
    <3>2. s[j].id = table[j].id /\ s[j].next = NextRun(table[j])
      BY <2>1, <3>1 DEF Entries
    <3>3. NextRun(table[j]) = table[j].next \/ NextRun(table[j]) = table[j].next + 1
      BY DEF NextRun
    <3> QED BY <2>2, <3>1, <3>2, <3>3 DEF Mine
  <2>3. CASE j \notin Mine(l)
    <3>1. s[j] = table[j]
      BY <1>5, <2>3
    <3> QED BY <3>1
  <2> QED BY <2>2, <2>3
<1>9. \A n \in Loop : n # l => pc'[n] = pc[n]
  BY <1>1, <1>3 DEF Loops
<1>10. pc'[l] = "save"
  BY <1>1, <1>3 DEF Loops
<1>11. WellPaced(pc', task, s)
  <2>1. \A i \in DOMAIN table : s[i].id = table[i].id
    BY <1>8
  <2>2. \A i \in DOMAIN table : \/ s[i].next = table[i].next
                                \/ table[i].id = task[l] /\ s[i].next = table[i].next + 1
    BY <1>8
  <2>3. WellPaced(pc, task, table)
    BY <1>1 DEF Paced
  <2>4. PICK q : q = pc'
    OBVIOUS
  <2>5. (\A n \in Loop : n # l => q[n] = pc[n]) /\ q[l] = "save" /\ DOMAIN s = DOMAIN table
    BY <1>7, <1>9, <1>10, <2>4
  <2>6. WellPaced(q, task, s)
    BY <1>2, <1>3, <2>1, <2>2, <2>3, <2>5, PaceComputed
  <2> QED BY <2>4, <2>6
<1>12. ASSUME NEW j \in DOMAIN table PROVE s[j] \in Entries
  <2>1. table[j] \in Entries /\ table[j].next \in Nat
    BY <1>2, EntryParts
  <2>2. CASE s[j] = table[j]
    BY <2>1, <2>2
  <2>3. CASE s[j] = [table[j] EXCEPT !.next = s[j].next]
    <3>1. s[j].next = table[j].next \/ s[j].next = table[j].next + 1
      BY <1>8
    <3>2. PICK x \in Nat : x = s[j].next
      BY <2>1, <3>1
    <3>3. x + Cardinality(Runners(pc', task, s[j].id)) <= MaxNext + Cardinality(Loop)
      BY <1>7, <1>11, <3>2 DEF WellPaced
    <3>4. Runners(pc', task, s[j].id) \subseteq Loop
      BY DEF Runners
    <3>5. Cardinality(Runners(pc', task, s[j].id)) \in Nat
      BY <3>4, SomeLoops
    <3>6. x \in 0 .. MaxNext + Cardinality(Loop)
      BY <3>3, <3>5, LoopsCounted
    <3> QED BY <2>1, <2>3, <3>2, <3>6 DEF Entries
  <2> QED BY <1>8, <2>2, <2>3
<1>13. WellFormed(s) /\ Len(s) = Len(table) /\ \A x : x \in Ids(s) <=> x \in Ids(table)
  BY <1>2, <1>7, <1>8, <1>12, SameShape
<1>14. l \in Writer
  BY DEF Writer
<1>15. WellWritten(writes') /\ disturbed' \in BOOLEAN
  BY <1>1, <1>2, <1>4, <1>6, <1>13, <1>14, SavedTyped DEF Switches
<1>16. WellFormed(table') /\ WellFormed(stored')
  BY <1>2, <1>4, <1>6, <1>13
<1>17. Switches' /\ Tables'
  BY <1>1, <1>4, <1>15, <1>16, Zenon DEF Switches, Tables
<1>18. Loops'
  BY <1>1, <1>3, <1>4 DEF Loops
<1>19. Counters'
  BY <1>1, <1>4 DEF Counters
<1>20. Roomy'
  BY <1>1, <1>4, <1>6, <1>13 DEF Roomy
<1>21. Paced'
  BY <1>1, <1>4, <1>6, <1>11 DEF Paced
<1> QED BY <1>3, <1>4, <1>6, <1>13, <1>17, <1>18, <1>19, <1>20, <1>21 DEF Typed, Down

\* A copy arrives or is lost.
LEMMA WrittenTyped ==
    ASSUME Typed, NEW w \in Writer, Land(w) \/ LoseSave(w)
    PROVE  Typed'
<1>1. Switches /\ Tables /\ Loops /\ Counters /\ Roomy /\ Down /\ Paced
  BY DEF Typed
<1>2. /\ WellFormed(table) /\ WellFormed(stored) /\ WellWritten(writes)
      /\ writes \in [Writer -> [copy : Seq(Entries), sent : BOOLEAN]]
  BY <1>1, TableFacts
<1>3. /\ up' = up /\ running' = running /\ table' = table /\ setup' = setup
      /\ pc' = pc /\ at' = at /\ size' = size /\ asof' = asof /\ task' = task
      /\ second' = second /\ passed' = passed /\ calls' = calls /\ promised' = promised
      /\ writes' = [writes EXCEPT ![w] = Nothing]
      /\ stored' = stored \/ stored' = writes[w].copy
      /\ disturbed' = disturbed \/ disturbed' = TRUE
      /\ faults' = faults \/ (faults < MaxFaults /\ faults' = faults + 1)
  BY DEF Land, LoseSave, loopVars, clockVars, history
<1>4. WellFormed(stored')
  BY <1>2, <1>3 DEF WellWritten
<1>5. WellWritten(writes')
  BY <1>2, <1>3, NothingWell
<1>6. Tables'
  BY <1>2, <1>3, <1>4, <1>5 DEF Tables
<1>7. disturbed' \in BOOLEAN
  BY <1>1, <1>3, Zenon DEF Switches
<1>8. Switches'
  BY <1>1, <1>3, <1>7 DEF Switches
<1>9. faults' \in 0 .. MaxFaults
  BY <1>1, <1>3, ConstantsAssumption DEF Counters
<1>10. Counters'
  BY <1>1, <1>3, <1>9 DEF Counters
<1>11. Loops' /\ Roomy' /\ Paced'
  BY <1>1, <1>3 DEF Loops, Roomy, Paced
<1>12. \A v \in Writer : writes'[v].sent => writes[v].sent
  BY <1>2, <1>3 DEF Nothing
<1>13. Down'
  BY <1>1, <1>3, <1>12 DEF Down, Busy
<1> QED BY <1>6, <1>8, <1>10, <1>11, <1>13 DEF Typed

LEMMA BootTyped ==
    ASSUME Typed, Boot
    PROVE  Typed'
<1>1. Switches /\ Tables /\ Loops /\ Counters /\ Down /\ Paced
  BY DEF Typed
<1>2. /\ WellFormed(stored) /\ WellWritten(writes) /\ stored \in Seq(Entries)
      /\ Len(stored) <= MaxTasks
  BY <1>1, TableFacts DEF WellFormed
<1>3. /\ ~up /\ up' = TRUE /\ running' = running /\ stored' = stored /\ writes' = writes
      /\ setup' = setup /\ pc' = pc /\ at' = at /\ size' = size /\ asof' = asof /\ task' = task
      /\ second' = second /\ passed' = passed /\ calls' = calls /\ promised' = promised
      /\ table' = stored \/ table' = <<>>
      /\ disturbed' = disturbed \/ disturbed' = TRUE
      /\ faults' = faults \/ (faults < MaxFaults /\ faults' = faults + 1)
  BY DEF Boot, loopVars, clockVars
<1>4. WellFormed(table')
  BY <1>2, <1>3, EmptyWell
<1>5. Tables'
  BY <1>2, <1>3, <1>4 DEF Tables
<1>6. disturbed' \in BOOLEAN
  BY <1>1, <1>3, Zenon DEF Switches
<1>7. Switches'
  BY <1>1, <1>3, <1>6, Zenon DEF Switches
<1>8. faults' \in 0 .. MaxFaults
  BY <1>1, <1>3, ConstantsAssumption DEF Counters
<1>9. Counters'
  BY <1>1, <1>3, <1>8 DEF Counters
<1>10. Loops'
  BY <1>1, <1>3 DEF Loops
<1>11. setup' = 0 /\ \A l \in Loop : pc'[l] = "none"
  BY <1>1, <1>3 DEF Down
<1>12. Roomy'
  BY <1>4, <1>11 DEF Roomy, WellFormed
<1>13. WellPaced(pc', task', table')
  <2>1. PICK s : s = table'
    OBVIOUS
  <2>2. s \in Seq(Entries)
    BY <1>4, <2>1 DEF WellFormed
  <2>3. ASSUME NEW i \in DOMAIN s
        PROVE  s[i].next + Cardinality(Runners(pc', task', s[i].id))
                  <= MaxNext + Cardinality(Loop)
    <3>1. Runners(pc', task', s[i].id) = {}
      BY <1>11 DEF Runners
    <3>2. s[i].next \in 0 .. MaxNext + Cardinality(Loop)
      BY <2>2, EntryParts
    <3> QED BY <3>1, <3>2, FS_EmptySet, LoopsCounted
  <2> QED BY <2>1, <2>3 DEF WellPaced
<1>14. Paced'
  BY <1>1, <1>3, <1>13 DEF Paced
<1>15. Down'
  BY <1>3 DEF Down
<1> QED BY <1>5, <1>7, <1>9, <1>10, <1>12, <1>14, <1>15 DEF Typed

\* A loop is created, or ends, or has its task returned.
LEMMA LoopKept ==
    ASSUME Typed, up, NEW l \in Loop,
           \/ pc' = pc
           \/ pc' = [pc EXCEPT ![l] = "sleep"]
           \/ pc' = [pc EXCEPT ![l] = "none"]
           \/ pc[l] = "run" /\ pc' = [pc EXCEPT ![l] = "store"],
           UNCHANGED <<at, size, asof, task, passed, table>>
    PROVE  Loops' /\ Paced'
<1>1. Loops /\ Paced /\ Tables
  BY DEF Typed
<1>2. Loops'
  BY <1>1 DEF Loops
<1>3. \A m \in Loop, x \in Id :
         pc'[m] \in {"run", "store"} /\ task'[m] = x => pc[m] \in {"run", "store"} /\ task[m] = x
  BY <1>1 DEF Loops
<1>4. table \in Seq(Entries)
  BY <1>1, TableFacts
<1>5. WellPaced(pc', task', table)
  <2>1. \A i \in DOMAIN table : \E j \in DOMAIN table :
           table[i].id = table[j].id /\ table[i].next = table[j].next
    OBVIOUS
  <2> QED BY <1>1, <1>3, <1>4, <2>1, PaceKept DEF Paced
<1>6. Paced'
  BY <1>1, <1>5 DEF Paced
<1> QED BY <1>2, <1>6

LEMMA StartTyped ==
    ASSUME Typed, Start
    PROVE  Typed'
<1>1. Switches /\ Tables /\ Counters /\ Roomy
  BY DEF Typed
<1>2. /\ up /\ up' = up /\ running' = TRUE /\ table' = table /\ stored' = stored
      /\ writes' = writes /\ at' = at /\ size' = size /\ asof' = asof /\ task' = task
      /\ second' = second /\ passed' = passed /\ faults' = faults
      /\ promised' = promised /\ disturbed' = disturbed
      /\ calls < MaxCalls /\ calls' = calls + 1
  BY DEF Start, clockVars, history
<1>3. Switches' /\ Tables'
  BY <1>1, <1>2, Zenon DEF Switches, Tables
<1>4. calls' \in 0 .. MaxCalls /\ Len(DefaultTypes) \in Nat /\ MaxTasks \in Nat
      /\ Len(DefaultTypes) <= MaxTasks
  BY <1>1, <1>2, ConstantsAssumption DEF Counters
<1>5. CASE table = <<>>
  <2>1. setup' = Len(DefaultTypes) + 1 /\ pc' = pc
    BY <1>5 DEF Start
  <2>2. Counters'
    BY <1>1, <1>2, <1>4, <2>1 DEF Counters
  <2>3. Roomy'
    BY <1>2, <1>4, <1>5, <2>1 DEF Roomy
  <2>4. Loops' /\ Paced'
    BY <1>2, <2>1 DEF Typed, Loops, Paced
  <2> QED BY <1>2, <1>3, <2>2, <2>3, <2>4 DEF Typed, Down
<1>6. CASE table # <<>>
  <2>1. PICK l \in Loop : pc' = [pc EXCEPT ![l] = "sleep"]
    BY <1>6 DEF Start, Spawn
  <2>2. setup' = setup
    BY <1>6 DEF Start
  <2>3. Loops' /\ Paced'
    BY <1>2, <2>1, LoopKept
  <2>4. Counters' /\ Roomy'
    BY <1>1, <1>2, <1>4, <2>2 DEF Counters, Roomy
  <2> QED BY <1>2, <1>3, <2>3, <2>4 DEF Typed, Down
<1> QED BY <1>5, <1>6

LEMMA SetupDoneTyped ==
    ASSUME Typed, SetupDone
    PROVE  Typed'
<1>1. Switches /\ Tables /\ Counters /\ Roomy /\ Down
  BY DEF Typed
<1>2. /\ setup = 1 /\ setup' = 0
      /\ up' = up /\ running' = running /\ table' = table /\ stored' = stored
      /\ writes' = writes /\ at' = at /\ size' = size /\ asof' = asof /\ task' = task
      /\ second' = second /\ passed' = passed /\ faults' = faults /\ calls' = calls
      /\ promised' = promised /\ disturbed' = disturbed
  BY DEF SetupDone, clockVars, history
<1>3. up
  BY <1>1, <1>2 DEF Down
<1>4. PICK l \in Loop : pc' = [pc EXCEPT ![l] = "sleep"]
  BY DEF SetupDone, Spawn
<1>5. Loops' /\ Paced'
  BY <1>2, <1>3, <1>4, LoopKept
<1>6. Switches' /\ Tables'
  BY <1>1, <1>2, Zenon DEF Switches, Tables
<1>7. Counters'
  BY <1>1, <1>2, ConstantsAssumption DEF Counters
<1>8. Roomy'
  BY <1>1, <1>2 DEF Roomy
<1> QED BY <1>2, <1>3, <1>5, <1>6, <1>7, <1>8 DEF Typed, Down

LEMMA StopTyped ==
    ASSUME Typed, Stop
    PROVE  Typed'
<1>1. Switches /\ Tables /\ Counters /\ Roomy /\ Loops /\ Paced
  BY DEF Typed
<1>2. /\ up /\ up' = up /\ running' = FALSE /\ table' = table /\ stored' = stored
      /\ setup' = setup /\ pc' = pc /\ at' = at /\ size' = size /\ asof' = asof /\ task' = task
      /\ second' = second /\ passed' = passed /\ faults' = faults
      /\ calls < MaxCalls /\ calls' = calls + 1
      /\ promised' = promised /\ Save("stop", table) /\ "stop" \in Writer
  BY DEF Stop, clockVars, loopVars, Writer
<1>3. WellWritten(writes') /\ disturbed' \in BOOLEAN
  BY <1>1, <1>2, TableFacts, SavedTyped DEF Switches
<1>4. Switches' /\ Tables'
  BY <1>1, <1>2, <1>3, TableFacts, Zenon DEF Switches, Tables
<1>5. calls' \in 0 .. MaxCalls
  BY <1>1, <1>2, ConstantsAssumption DEF Counters
<1>6. Counters' /\ Roomy' /\ Loops' /\ Paced'
  BY <1>1, <1>2, <1>5 DEF Counters, Roomy, Loops, Paced
<1> QED BY <1>2, <1>4, <1>6 DEF Typed, Down

LEMMA CrashTyped ==
    ASSUME Typed, Crash
    PROVE  Typed'
<1>1. Switches /\ Tables /\ Counters /\ Paced
  BY DEF Typed
<1>2. /\ up' = FALSE /\ running' = FALSE /\ table' = <<>> /\ setup' = 0
      /\ writes' = [w \in Writer |-> Nothing]
      /\ pc' = [l \in Loop |-> "none"] /\ at' = [l \in Loop |-> 0]
      /\ size' = [l \in Loop |-> 0] /\ asof' = [l \in Loop |-> {}]
      /\ task' = [l \in Loop |-> None]
      /\ stored' = stored /\ second' = second /\ passed' = passed
      /\ calls' = calls /\ promised' = promised
      /\ faults < MaxFaults /\ faults' = faults + 1
  BY DEF Crash, clockVars
<1>3. disturbed' = (disturbed \/ ~Quiet)
  BY DEF Crash
<1>4. Switches'
  BY <1>1, <1>2, <1>3, Zenon DEF Switches
<1>5. Tables'
  BY <1>1, <1>2, TableFacts, EmptyWell, AllNothingWell DEF Tables
<1>6. MaxTasks \in Nat /\ Len(DefaultTypes) \in Nat /\ MaxFaults \in Nat
  BY ConstantsAssumption
<1>7. Loops'
  BY <1>2, <1>6 DEF Loops
<1>8. Counters'
  BY <1>1, <1>2, <1>6 DEF Counters
<1>9. Roomy'
  BY <1>2, <1>6 DEF Roomy
<1>10. Down'
  BY <1>2 DEF Down, Busy, Nothing
<1>11. WellPaced(pc', task', <<>>)
  BY DEF WellPaced
<1>12. Paced'
  BY <1>1, <1>2, <1>11 DEF Paced
<1> QED BY <1>4, <1>5, <1>7, <1>8, <1>9, <1>10, <1>12 DEF Typed

LEMMA ExpireTyped ==
    ASSUME Typed, Expire
    PROVE  Typed'
<1>1. Switches /\ Tables /\ Counters /\ Paced /\ Loops /\ Roomy /\ Down
  BY DEF Typed
<1>2. /\ up' = up /\ running' = running /\ table' = table /\ setup' = setup
      /\ stored' = <<>> /\ disturbed' = TRUE /\ writes' = writes
      /\ pc' = pc /\ at' = at /\ size' = size /\ asof' = asof /\ task' = task
      /\ second' = second /\ passed' = passed /\ calls' = calls /\ promised' = promised
      /\ faults' = faults
  BY DEF Expire, loopVars, clockVars
<1>3. Switches' /\ Tables'
  BY <1>1, <1>2, TableFacts, EmptyWell, Zenon DEF Switches, Tables
<1>4. Counters' /\ Roomy' /\ Loops' /\ Paced' /\ Down'
  BY <1>1, <1>2 DEF Counters, Roomy, Loops, Paced, Down, Busy
<1> QED BY <1>3, <1>4 DEF Typed

LEMMA LoopStepTyped ==
    ASSUME Typed, NEW l \in Loop, LoopStep(l)
    PROVE  Typed'
<1>1. Switches /\ Tables /\ Counters /\ Paced /\ Loops /\ Roomy /\ Down
  BY DEF Typed
<1>2. /\ table \in Seq(Entries) /\ Len(table) \in 0 .. MaxTasks /\ at[l] \in Nat
      /\ size[l] \in 0 .. MaxTasks /\ asof[l] \in SUBSET Id
  <2>1. table \in Seq(Entries) /\ Len(table) <= MaxTasks /\ Len(table) \in Nat
    BY <1>1, TableFacts
  <2> QED BY <1>1, <2>1, ConstantsAssumption DEF Loops
<1>3. CASE Wake(l)
  <2>1. PICK ids : ids = {table[i].id : i \in {j \in DOMAIN table : Due(table[j])}}
    OBVIOUS
  <2>2. ids \in SUBSET Id
    BY <1>2, <2>1, EntryParts
  <2>3. Advance(l, 0, Len(table), ids)
    BY <1>3, <2>1 DEF Wake
  <2>4. UNCHANGED <<up, running, table, stored, writes, setup, clockVars, calls, faults,
                    history>>
    BY <1>3 DEF Wake
  <2>5. pc[l] \in {"sleep", "save"}
    BY <1>3 DEF Wake
  <2> QED BY <1>2, <2>2, <2>3, <2>4, <2>5, AdvanceTyped
<1>4. CASE Continue(l)
  <2>1. UNCHANGED <<up, running, table, stored, writes, setup, clockVars, calls, faults,
                    history>>
    BY <1>4 DEF Continue
  <2>2. Advance(l, at[l], size[l], asof[l]) /\ pc[l] \in {"sleep", "save"}
    BY <1>4 DEF Continue
  <2> QED BY <1>2, <2>1, <2>2, AdvanceTyped
<1>5. CASE Reschedule(l)
  BY <1>5, RescheduleTyped
<1>6. CASE LoopEnds(l) \/ TaskReturns(l)
  <2>1. /\ up' = up /\ running' = running /\ table' = table /\ stored' = stored
        /\ writes' = writes /\ setup' = setup
        /\ at' = at /\ size' = size /\ asof' = asof /\ task' = task
        /\ second' = second /\ passed' = passed /\ calls' = calls /\ faults' = faults
        /\ promised' = promised /\ disturbed' = disturbed
        /\ pc[l] # "none"
        /\ \/ pc' = [pc EXCEPT ![l] = "none"]
           \/ pc[l] = "run" /\ pc' = [pc EXCEPT ![l] = "store"]
    BY <1>6 DEF LoopEnds, TaskReturns, clockVars, history
  <2>2. up
    BY <1>1, <2>1 DEF Down
  <2>3. Loops' /\ Paced'
    BY <2>1, <2>2, LoopKept
  <2>4. Switches' /\ Tables' /\ Counters' /\ Roomy'
    BY <1>1, <2>1, Zenon DEF Switches, Tables, Counters, Roomy
  <2> QED BY <2>1, <2>2, <2>3, <2>4 DEF Typed, Down
<1> QED BY <1>3, <1>4, <1>5, <1>6 DEF LoopStep

LEMMA TimeTyped ==
    ASSUME Typed, Tick \/ \E i \in DOMAIN table : ComesDue(i)
    PROVE  Typed'
<1>1. Switches /\ Tables /\ Counters /\ Paced /\ Loops /\ Roomy /\ Down
  BY DEF Typed
<1>2. /\ up' = up /\ running' = running /\ table' = table /\ stored' = stored
      /\ writes' = writes /\ setup' = setup
      /\ pc' = pc /\ at' = at /\ size' = size /\ asof' = asof /\ task' = task
      /\ calls' = calls /\ faults' = faults
      /\ promised' = promised /\ disturbed' = disturbed
  BY DEF Tick, ComesDue, loopVars, history
<1>3. Switches' /\ Tables' /\ Loops' /\ Roomy' /\ Down'
  BY <1>1, <1>2, Zenon DEF Switches, Tables, Loops, Roomy, Down, Busy
<1>4. CASE Tick
  <2>1. second' \in 0 .. MaxSecond /\ passed' = passed
    BY <1>1, <1>4, ConstantsAssumption DEF Tick, Counters
  <2>2. Counters' /\ Paced'
    BY <1>1, <1>2, <2>1 DEF Counters, Paced
  <2> QED BY <1>3, <2>2 DEF Typed
<1>5. CASE \E i \in DOMAIN table : ComesDue(i)
  <2>1. PICK i \in DOMAIN table : ComesDue(i)
    BY <1>5
  <2>2. /\ passed' = passed \union {<<table[i].id, table[i].next>>}
        /\ table[i].next < MaxNext /\ second' = second
    BY <2>1 DEF ComesDue
  <2>3. table \in Seq(Entries)
    BY <1>1, TableFacts
  <2>4. table[i].id \in Id /\ table[i].next \in 0 .. MaxNext
    BY <2>2, <2>3, EntryParts, LoopsCounted
  <2>5. passed' \subseteq Id \X (0 .. MaxNext)
    BY <1>1, <2>2, <2>4 DEF Counters
  <2>6. \A p \in passed' : p[2] < MaxNext
    BY <1>1, <2>2 DEF Paced
  <2>7. Counters' /\ Paced'
    BY <1>1, <1>2, <2>2, <2>5, <2>6 DEF Counters, Paced
  <2> QED BY <1>3, <2>7 DEF Typed
<1> QED BY <1>4, <1>5

LEMMA TypedStep == Typed /\ [Next]_vars => Typed'
<1> SUFFICES ASSUME Typed, [Next]_vars PROVE Typed'
  OBVIOUS
<1>1. CASE \E w \in Writer : Land(w) \/ LoseSave(w)
  BY <1>1, WrittenTyped
<1>2. CASE \E c \in Caller : \/ \E type \in ApiTypes : Add(c, type)
                             \/ \E i \in DOMAIN table : Remove(c, i)
                             \/ \E i \in DOMAIN table, value \in BOOLEAN : SetEnabled(c, i, value)
  BY <1>2, AddTyped, RemoveTyped, SetEnabledTyped
<1>3. CASE Boot \/ Start \/ ScheduleDefault \/ SetupDone \/ Stop \/ Crash \/ Expire
  BY <1>3, BootTyped, StartTyped, ScheduleDefaultTyped, SetupDoneTyped, StopTyped, CrashTyped,
     ExpireTyped
<1>4. CASE \E l \in Loop : LoopStep(l)
  BY <1>4, LoopStepTyped
<1>5. CASE Tick \/ \E i \in DOMAIN table : ComesDue(i)
  BY <1>5, TimeTyped
<1>6. CASE UNCHANGED vars
  <2>1. Typed
    OBVIOUS
  <2> QED BY <1>6, <2>1, Zenon
          DEF Typed, Switches, Tables, Loops, Counters, Roomy, Down, Paced, vars, loopVars,
              clockVars, history, Busy
<1> QED BY <1>1, <1>2, <1>3, <1>4, <1>5, <1>6 DEF Next

\* The variables of the scheduled task manager stay in their ranges: its tables and every
\* copy of them on the way to Redis hold whole entries, each task once, a loop stands at an
\* entry there may be, and next_run is computed no more often than loops can take up a task.
THEOREM SchedulerTypeCorrect == Spec => []TypeOK
<1>1. Typed => TypeOK
  <2> SUFFICES ASSUME Typed PROVE TypeOK
    OBVIOUS
  <2>1. Switches /\ Tables /\ Counters /\ Loops
    BY DEF Typed
  <2>2. /\ table \in Seq(Entries) /\ Len(table) <= MaxTasks /\ Distinct(table)
        /\ stored \in Seq(Entries)
        /\ writes \in [Writer -> [copy : Seq(Entries), sent : BOOLEAN]]
    BY <2>1, TableFacts
  <2>3. Cardinality(Ids(table)) = Len(table)
    BY <2>2, IdsCounted
  <2>4. \A w \in Writer : writes[w].copy \in Seq(Entries) /\ writes[w].sent \in BOOLEAN
    BY <2>2
  <2> QED BY <2>1, <2>2, <2>3, <2>4 DEF TypeOK, Switches, Counters, Loops
<1> QED BY <1>1, InitTyped, TypedStep, PTL DEF Spec

-----------------------------------------------------------------------------
(* What was promised is what is stored.                                      *)

\* InStep, but for its condition.
Agreed ==
    /\ \A v, w \in Writer : Busy(v) /\ Busy(w) => v = w
    /\ \A w \in Writer : Busy(w) => writes[w].copy = table
    /\ up => Ids(table) = promised
    /\ Quiet => Ids(stored) = promised /\ (up => stored = table)

\* One copy, of the table there is then, goes on its way when none was.
LEMMA SavedAgreed ==
    ASSUME Tables, Quiet, up', NEW w \in Writer, writes' = [writes EXCEPT ![w] = Copy(table')],
           \A x : x \in Ids(table') <=> x \in promised'
    PROVE  Agreed'
<1>1. writes \in [Writer -> [copy : Seq(Entries), sent : BOOLEAN]]
  BY TableFacts
<1>2. \A v \in Writer : v # w => writes'[v] = writes[v] /\ ~writes[v].sent
  BY <1>1 DEF Quiet, Busy
<1>3. writes'[w] = Copy(table')
  BY <1>1
<1>4. writes'[w].sent = TRUE /\ writes'[w].copy = table'
  BY <1>3 DEF Copy
<1>5. \A v \in Writer : writes'[v].sent => v = w
  BY <1>2
<1>6. ~Quiet'
  BY <1>4 DEF Quiet, Busy
<1>7. Ids(table') = promised'
  OBVIOUS
<1> QED BY <1>4, <1>5, <1>6, <1>7 DEF Agreed, Busy

\* Nothing moves that InStep looks at.
LEMMA StillAgreed ==
    ASSUME Agreed, UNCHANGED <<up, table, stored, writes, promised>>
    PROVE  Agreed'
BY DEF Agreed, Busy, Quiet

LEMMA CallsAgreed ==
    ASSUME Typed, InStep, ~disturbed', NEW c \in Caller,
           \/ \E type \in ApiTypes : Add(c, type)
           \/ \E i \in DOMAIN table : Remove(c, i)
           \/ \E i \in DOMAIN table, value \in BOOLEAN : SetEnabled(c, i, value)
    PROVE  Agreed'
<1>1. Tables /\ Counters /\ Roomy /\ c \in Writer
  BY DEF Typed, Writer
<1>2. CASE \E type \in ApiTypes : Add(c, type)
  <2>1. PICK type \in ApiTypes : Add(c, type)
    BY <1>2
  <2>2. up /\ Schedule(c, type) /\ Room
    BY <2>1 DEF Add, Call
  <2>3. Len(table) \in Nat /\ setup \in Nat /\ MaxTasks \in Nat /\ Len(DefaultTypes) \in Nat
    BY <1>1, TableFacts, ConstantsAssumption DEF Counters
  <2>4. Len(table) + 1 <= MaxTasks /\ type \in Types
    BY <2>2, <2>3, ConstantsAssumption DEF Room
  <2>5. up' /\ \A x : x \in Ids(table') <=> x \in Ids(table) \/ x = NewId
    BY <1>1, <2>2, <2>4, ScheduleTyped
  <2>6. /\ writes' = [writes EXCEPT ![c] = Copy(table')]
        /\ promised' = promised \union {NewId}
    BY <2>2 DEF Schedule
  <2>7. disturbed' = (disturbed \/ ~Quiet \/ NewId \in Ids(table))
    BY <2>2 DEF Schedule
  <2>8. ~disturbed /\ Quiet
    BY <2>7, Zenon
  <2>9. Ids(table) = promised
    BY <2>2, <2>8 DEF InStep
  <2>10. \A x : x \in Ids(table') <=> x \in promised'
    BY <2>5, <2>6, <2>9
  <2> QED BY <1>1, <2>5, <2>6, <2>8, <2>10, SavedAgreed
<1>3. CASE \E i \in DOMAIN table : Remove(c, i)
  <2>1. PICK i \in DOMAIN table : Remove(c, i)
    BY <1>3
  <2>2. up' /\ \A x : x \in Ids(table') <=> x \in Ids(table) /\ x # table[i].id
    BY <2>1, RemoveTyped
  <2>3. up /\ Save(c, table') /\ promised' = promised \ {table[i].id}
    BY <2>1 DEF Remove, Call
  <2>4. writes' = [writes EXCEPT ![c] = Copy(table')] /\ disturbed' = (disturbed \/ ~Quiet)
    BY <2>3 DEF Save
  <2>5. ~disturbed /\ Quiet
    BY <2>4, Zenon
  <2>6. Ids(table) = promised
    BY <2>3, <2>5 DEF InStep
  <2>7. \A x : x \in Ids(table') <=> x \in promised'
    BY <2>2, <2>3, <2>6
  <2> QED BY <1>1, <2>2, <2>4, <2>5, <2>7, SavedAgreed
<1>4. CASE \E i \in DOMAIN table, value \in BOOLEAN : SetEnabled(c, i, value)
  <2>1. PICK i \in DOMAIN table, value \in BOOLEAN : SetEnabled(c, i, value)
    BY <1>4
  <2>2. up' /\ \A x : x \in Ids(table') <=> x \in Ids(table)
    BY <2>1, SetEnabledTyped
  <2>3. up /\ Save(c, table') /\ promised' = promised
    BY <2>1 DEF SetEnabled, Call
  <2>4. writes' = [writes EXCEPT ![c] = Copy(table')] /\ disturbed' = (disturbed \/ ~Quiet)
    BY <2>3 DEF Save
  <2>5. ~disturbed /\ Quiet
    BY <2>4, Zenon
  <2>6. Ids(table) = promised
    BY <2>3, <2>5 DEF InStep
  <2>7. \A x : x \in Ids(table') <=> x \in promised'
    BY <2>2, <2>3, <2>6
  <2> QED BY <1>1, <2>2, <2>4, <2>5, <2>7, SavedAgreed
<1> QED BY <1>2, <1>3, <1>4

LEMMA OwnSavesAgreed ==
    ASSUME Typed, InStep, ~disturbed',
           ScheduleDefault \/ Stop \/ \E l \in Loop : Reschedule(l)
    PROVE  Agreed'
<1>1. Tables /\ Counters /\ Roomy /\ Down
  BY DEF Typed
<1>2. CASE ScheduleDefault
  <2>1. setup > 1
    BY <1>2 DEF ScheduleDefault
  <2>2. Len(table) \in Nat /\ setup \in Nat /\ MaxTasks \in Nat /\ Len(DefaultTypes) \in Nat
        /\ setup <= Len(DefaultTypes) + 1
    BY <1>1, TableFacts, ConstantsAssumption DEF Counters
  <2>3. Len(table) + 1 <= MaxTasks /\ up
    BY <1>1, <2>1, <2>2 DEF Roomy, Down
  <2>4. Len(DefaultTypes) - setup + 2 \in 1 .. Len(DefaultTypes)
    BY <2>1, <2>2
  <2>5. PICK type \in Types : type = DefaultTypes[Len(DefaultTypes) - setup + 2]
    <3>1. DefaultTypes[Len(DefaultTypes) - setup + 2] \in {"interval", "once"}
      BY <2>4, ConstantsAssumption
    <3> QED BY <3>1 DEF Types
  <2>6. Schedule("setup", type) /\ "setup" \in Writer
    BY <1>2, <2>5 DEF ScheduleDefault, Writer
  <2>7. up' /\ \A x : x \in Ids(table') <=> x \in Ids(table) \/ x = NewId
    BY <2>3, <2>6, ScheduleTyped
  <2>8. /\ writes' = [writes EXCEPT !["setup"] = Copy(table')]
        /\ promised' = promised \union {NewId}
    BY <2>6 DEF Schedule
  <2>9. disturbed' = (disturbed \/ ~Quiet \/ NewId \in Ids(table))
    BY <2>6 DEF Schedule
  <2>10. ~disturbed /\ Quiet
    BY <2>9, Zenon
  <2>11. Ids(table) = promised
    BY <2>3, <2>10 DEF InStep
  <2>12. \A x : x \in Ids(table') <=> x \in promised'
    BY <2>7, <2>8, <2>11
  <2> QED BY <1>1, <2>6, <2>7, <2>8, <2>10, <2>12, SavedAgreed
<1>3. CASE Stop
  <2>1. up /\ up' /\ table' = table /\ promised' = promised /\ Save("stop", table)
        /\ "stop" \in Writer
    BY <1>3 DEF Stop, Writer
  <2>2. writes' = [writes EXCEPT !["stop"] = Copy(table')] /\ disturbed' = (disturbed \/ ~Quiet)
    BY <2>1 DEF Save
  <2>3. ~disturbed /\ Quiet
    BY <2>2, Zenon
  <2>4. Ids(table) = promised
    BY <2>1, <2>3 DEF InStep
  <2>5. \A x : x \in Ids(table') <=> x \in promised'
    BY <2>1, <2>4
  <2> QED BY <1>1, <2>1, <2>2, <2>3, <2>5, SavedAgreed
<1>4. CASE \E l \in Loop : Reschedule(l)
  <2>1. PICK l \in Loop : Reschedule(l)
    BY <1>4
  <2>2. up' /\ \A x : x \in Ids(table') <=> x \in Ids(table)
    BY <2>1, RescheduleTyped
  <2>3. up' = up /\ Save(l, table') /\ promised' = promised /\ l \in Writer
    BY <2>1 DEF Reschedule, Writer
  <2>4. writes' = [writes EXCEPT ![l] = Copy(table')] /\ disturbed' = (disturbed \/ ~Quiet)
    BY <2>3 DEF Save
  <2>5. ~disturbed /\ Quiet
    BY <2>4, Zenon
  <2>6. Ids(table) = promised
    BY <2>2, <2>3, <2>5 DEF InStep
  <2>7. \A x : x \in Ids(table') <=> x \in promised'
    BY <2>2, <2>3, <2>6
  <2> QED BY <1>1, <2>2, <2>3, <2>4, <2>5, <2>7, SavedAgreed
<1> QED BY <1>2, <1>3, <1>4

LEMMA RedisAgreed ==
    ASSUME Typed, InStep, ~disturbed', NEW w \in Writer, Land(w) \/ LoseSave(w)
    PROVE  Agreed'
<1>1. writes \in [Writer -> [copy : Seq(Entries), sent : BOOLEAN]] /\ Down
  BY TableFacts DEF Typed
<1>2. Land(w)
  BY DEF LoseSave
<1>3. /\ writes[w].sent /\ stored' = writes[w].copy /\ writes' = [writes EXCEPT ![w] = Nothing]
      /\ up' = up /\ table' = table /\ promised' = promised /\ disturbed' = disturbed
  BY <1>2 DEF Land, Busy, history
<1>4. up
  BY <1>1, <1>3 DEF Down, Busy
<1>5. /\ \A v \in Writer : writes[v].sent => v = w
      /\ writes[w].copy = table /\ Ids(table) = promised
  BY <1>3, <1>4 DEF InStep, Busy
<1>6. ASSUME NEW v \in Writer PROVE ~writes'[v].sent
  <2>1. CASE v = w
    BY <1>1, <1>3, <2>1 DEF Nothing
  <2>2. CASE v # w
    <3>1. writes'[v] = writes[v]
      BY <1>1, <1>3, <2>2
    <3>2. ~writes[v].sent
      BY <1>5, <2>2
    <3> QED BY <3>1, <3>2
  <2> QED BY <2>1, <2>2
<1> QED BY <1>3, <1>5, <1>6 DEF Agreed, Busy, Quiet

LEMMA ProcessAgreed ==
    ASSUME Typed, InStep, ~disturbed', Boot \/ Crash \/ Expire
    PROVE  Agreed'
<1>1. Down
  BY DEF Typed
<1>2. CASE Boot
  <2>1. /\ ~up /\ up' /\ table' = stored /\ stored' = stored /\ writes' = writes
        /\ promised' = promised /\ disturbed' = disturbed
    BY <1>2 DEF Boot
  <2>2. Quiet
    BY <1>1, <2>1 DEF Down, Quiet
  <2>3. Ids(stored) = promised
    BY <2>1, <2>2 DEF InStep
  <2>4. \A v \in Writer : ~writes'[v].sent
    BY <2>1, <2>2 DEF Quiet, Busy
  <2> QED BY <2>1, <2>3, <2>4 DEF Agreed, Busy
<1>3. CASE Crash
  <2>1. /\ ~up' /\ stored' = stored /\ promised' = promised
        /\ writes' = [w \in Writer |-> Nothing]
    BY <1>3 DEF Crash
  <2>2. disturbed' = (disturbed \/ ~Quiet)
    BY <1>3 DEF Crash
  <2>3. ~disturbed /\ Quiet
    BY <2>2, Zenon
  <2>4. Ids(stored) = promised
    BY <2>3 DEF InStep
  <2>5. \A v \in Writer : ~writes'[v].sent
    BY <2>1 DEF Nothing
  <2> QED BY <2>1, <2>4, <2>5 DEF Agreed, Busy
<1>4. CASE Expire
  BY <1>4 DEF Expire
<1> QED BY <1>2, <1>3, <1>4

LEMMA OthersAgreed ==
    ASSUME Typed, InStep, ~disturbed',
           \/ Start \/ SetupDone \/ Tick
           \/ \E l \in Loop : Wake(l) \/ LoopEnds(l) \/ TaskReturns(l) \/ Continue(l)
           \/ \E i \in DOMAIN table : ComesDue(i)
           \/ UNCHANGED vars
    PROVE  Agreed'
<1>1. /\ up' = up /\ table' = table /\ stored' = stored /\ writes' = writes
      /\ promised' = promised /\ disturbed' = disturbed
  BY DEF Start, SetupDone, Tick, Wake, LoopEnds, TaskReturns, Continue, ComesDue, vars, history
<1>2. Agreed
  BY <1>1 DEF InStep, Agreed
<1> QED BY <1>1, <1>2, StillAgreed

LEMMA InStepStep == Typed /\ InStep /\ [Next]_vars => InStep'
<1> SUFFICES ASSUME Typed, InStep, [Next]_vars, ~disturbed' PROVE Agreed'
  BY DEF InStep, Agreed
<1>1. CASE \E w \in Writer : Land(w) \/ LoseSave(w)
  BY <1>1, RedisAgreed
<1>2. CASE \E c \in Caller : \/ \E type \in ApiTypes : Add(c, type)
                             \/ \E i \in DOMAIN table : Remove(c, i)
                             \/ \E i \in DOMAIN table, value \in BOOLEAN : SetEnabled(c, i, value)
  BY <1>2, CallsAgreed
<1>3. CASE ScheduleDefault \/ Stop \/ \E l \in Loop : Reschedule(l)
  BY <1>3, OwnSavesAgreed
<1>4. CASE Boot \/ Crash \/ Expire
  BY <1>4, ProcessAgreed
<1>5. CASE \/ Start \/ SetupDone \/ Tick
           \/ \E l \in Loop : Wake(l) \/ LoopEnds(l) \/ TaskReturns(l) \/ Continue(l)
           \/ \E i \in DOMAIN table : ComesDue(i)
           \/ UNCHANGED vars
  BY <1>5, OthersAgreed
<1> QED BY <1>1, <1>2, <1>3, <1>4, <1>5 DEF Next, LoopStep

\* What is in Redis survives the process: while copies of the table do not overlap and none
\* is lost, the stored tasks are, whenever none is on its way, those that were added and not
\* removed, whatever stopped, crashed or was booted since; and they are the table of the
\* process that is up.
THEOREM AlwaysDurable == Spec => []Durable
<1>1. Init => InStep
  BY EmptyWell DEF Init, InStep, Busy, Nothing
<1>2. InStep => Durable
  BY DEF InStep, Durable
<1> QED BY <1>1, <1>2, InitTyped, TypedStep, InStepStep, PTL DEF Spec
=============================================================================

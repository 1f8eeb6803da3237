------------------------ MODULE AudioStreams_proofs ------------------------
(***************************************************************************)
(* Proofs about AudioStreams, for any number of streams, callers and       *)
(* strategies: the type invariant, that the tables of the manager and its  *)
(* counter agree, that stop() leaves none of the streams it found, and     *)
(* that sequence numbers are unique.                                       *)
(***************************************************************************)
EXTENDS AudioStreams, FiniteSetTheorems, SequenceTheorems, WellFoundedInduction, TLAPS

\* Streams are numbered as they are created, so a new one is in no table.
Registered ==
    /\ created \in Nat
    /\ connections \subseteq 1 .. created
    /\ websockets = connections
    /\ active_connections = Cardinality(connections)

LEMMA RegisteredFinite ==
    ASSUME Registered
    PROVE  /\ IsFiniteSet(connections)
           /\ active_connections \in Nat
           /\ active_connections = 0 <=> connections = {}
<1>1. IsFiniteSet(1 .. created)
  BY FS_Interval DEF Registered
<1>2. IsFiniteSet(connections)
  BY <1>1, FS_Subset, Zenon DEF Registered
<1> QED
  BY <1>2, FS_CardinalityType, FS_EmptySet DEF Registered

LEMMA CreateRegisters ==
    ASSUME Registered, CreateStream
    PROVE  Registered'
<1>1. created + 1 \notin connections /\ created' = created + 1 /\ created' \in Nat
  BY DEF Registered, CreateStream
<1>2. connections' = connections \union {created + 1}
  BY DEF CreateStream
<1>3. Cardinality(connections') = Cardinality(connections) + 1
  BY <1>1, <1>2, RegisteredFinite, FS_AddElement
<1>4. connections' \subseteq 1 .. created'
  BY <1>1, <1>2 DEF Registered
<1>5. websockets' = connections'
  BY <1>1, <1>2 DEF Registered, CreateStream
<1> QED
  BY <1>1, <1>3, <1>4, <1>5 DEF Registered, CreateStream

LEMMA DeregisterRegisters ==
    ASSUME Registered, NEW s, Deregister(s), UNCHANGED created
    PROVE  Registered'
<1>1. CASE s \in connections
  <2>1. /\ connections' = connections \ {s}
        /\ websockets' = websockets \ {s}
        /\ active_connections' = active_connections - 1
    BY <1>1, RegisteredFinite DEF Deregister
  <2>2. Cardinality(connections') = Cardinality(connections) - 1
    BY <1>1, <2>1, RegisteredFinite, FS_RemoveElement
  <2> QED
    BY <2>1, <2>2 DEF Registered
<1>2. CASE s \notin connections
  BY <1>2 DEF Deregister, Registered, registry
<1> QED
  BY <1>1, <1>2

LEMMA NextRegisters ==
    ASSUME Registered, [Next]_vars
    PROVE  Registered'
<1>1. CASE CreateStream
  BY <1>1, CreateRegisters
<1>2. ASSUME NEW j \in Job, DisconnectEnd(j)
      PROVE  Registered'
  BY <1>2, DeregisterRegisters DEF DisconnectEnd
<1>3. CASE UNCHANGED <<created, registry>>
  BY <1>3 DEF Registered, registry
<1>4. ASSUME NEW j \in Caller, NEW s \in Stream, ConnectBegin(j, s) \/ DisconnectBegin(j, s)
      PROVE  UNCHANGED <<created, registry>>
  BY <1>4 DEF ConnectBegin, DisconnectBegin
<1>5. ASSUME NEW j \in Caller,
             ConnectEnd(j) \/ Send(j) \/ SendDone(j) \/ SendFailed(j) \/ Poll(j)
      PROVE  UNCHANGED <<created, registry>>
  BY <1>5 DEF ConnectEnd, Send, SendDone, SendFailed, Poll
<1>6. ASSUME NEW s \in Stream, Pause(s) \/ Resume(s) \/ ClientBeat(s) \/ FallSilent(s)
      PROVE  UNCHANGED <<created, registry>>
  BY <1>6 DEF Pause, Resume, ClientBeat, FallSilent
<1>7. ASSUME NEW l, LoopEnds(l) \/ SweepBegin(l) \/ BeatBegin(l) \/ BeatSent(l) \/ BeatFailed(l)
      PROVE  UNCHANGED <<created, registry>>
  BY <1>7 DEF LoopEnds, SweepBegin, BeatBegin, BeatSent, BeatFailed
<1>9. CASE Start \/ StopBegin
  BY <1>9, <1>3 DEF Start, StopBegin
<1>8. CASE UNCHANGED vars
  BY <1>8, <1>3 DEF vars
<1> QED
  BY <1>1, <1>2, <1>3, <1>4, <1>5, <1>6, <1>7, <1>8, <1>9 DEF Next

\* The count of active connections and the two tables agree in every reachable
\* state: no overlap of disconnect_stream calls removes or counts a stream twice.
THEOREM TablesAlwaysAgree == Spec => []TablesAgree
<1>1. Init => Registered
  BY FS_EmptySet DEF Init, Registered
<1>2. Registered /\ [Next]_vars => Registered'
  BY NextRegisters
<1>3. Registered => TablesAgree
  BY DEF Registered, TablesAgree
<1> QED
  BY <1>1, <1>2, <1>3, PTL DEF Spec

-----------------------------------------------------------------------------
LessThan == {p \in Nat \X Nat : p[1] < p[2]}

LEMMA LessThanWellFounded == IsWellFoundedOn(LessThan, Nat)
BY NatLessThanWellFounded DEF OpToRel, LessThan

LEMMA Minimum ==
    ASSUME NEW ss \in SUBSET Nat, ss # {}
    PROVE  \E s \in ss : \A r \in ss : s <= r
<1>1. PICK s \in ss : \A r \in ss : <<r, s>> \notin LessThan
  BY LessThanWellFounded, WFMin, Zenon
<1>2. ASSUME NEW r \in ss
      PROVE  s <= r
  <2>1. <<r, s>> \notin LessThan /\ r \in Nat /\ s \in Nat
    BY <1>1
  <2> QED
    BY <2>1 DEF LessThan
<1> QED
  BY <1>1, <1>2

\* First is the least stream of a set, or Nobody if there is none.
LEMMA FirstIsLeast ==
    ASSUME NEW ss \in SUBSET Stream
    PROVE  /\ First(ss) \in Stream \union {Nobody}
           /\ ss = {} => First(ss) = Nobody
           /\ ss # {} => First(ss) \in ss /\ First(ss) # Nobody
           /\ \A r \in ss : First(ss) <= r
<1>1. CASE ss = {}
  BY <1>1 DEF First
<1>2. CASE ss # {}
  <2>1. \E s \in ss : \A r \in ss : s <= r
    BY <1>2, Minimum DEF Stream
  <2>2. First(ss) \in ss /\ \A r \in ss : First(ss) <= r
    BY <1>2, <2>1 DEF First
  <2>3. First(ss) \in Stream
    BY <2>2
  <2>4. First(ss) # Nobody
    BY <2>3 DEF Stream, Nobody
  <2> QED
    BY <1>2, <2>2, <2>3, <2>4
<1> QED
  BY <1>1, <1>2

\* A job that goes on with the first of todo that qualifies passes over none of them.
LEMMA NothingPassedOver ==
    ASSUME NEW todo \in SUBSET Stream, NEW ss \in SUBSET todo
    PROVE  /\ After(todo, First(ss)) \in SUBSET Stream
           /\ ss \subseteq After(todo, First(ss)) \union {First(ss)}
           /\ First(ss) = Nobody => After(todo, First(ss)) = {}
<1>1. ss \in SUBSET Stream
  OBVIOUS
<1>2. ASSUME NEW r \in ss, r # First(ss)
      PROVE  r \in After(todo, First(ss))
  <2>1. First(ss) <= r /\ First(ss) # Nobody /\ First(ss) \in Int /\ r \in Int
    BY <1>1, FirstIsLeast DEF Stream
  <2> QED
    BY <1>2, <2>1 DEF After
<1> QED
  BY <1>2 DEF After

-----------------------------------------------------------------------------
(* Type correctness.                                                         *)

ConnTyped(cs) ==
    /\ cs \in [Stream -> Connection]
    /\ \A s \in Stream : Len(cs[s].buffer) <= MaxLen

LEMMA UpdateTyped ==
    ASSUME NEW cs, ConnTyped(cs), NEW s \in Stream,
           NEW c \in Connection, Len(c.buffer) <= MaxLen
    PROVE  ConnTyped([cs EXCEPT ![s] = c])
BY DEF ConnTyped

LEMMA StateTyped ==
    ASSUME NEW c \in Connection, NEW state \in StreamState, NEW b \in BOOLEAN
    PROVE  /\ [c EXCEPT !.state = state] \in Connection
           /\ [c EXCEPT !.state = state, !.is_active = b] \in Connection
           /\ [c EXCEPT !.state = state].buffer = c.buffer
           /\ [c EXCEPT !.state = state, !.is_active = b].buffer = c.buffer
<1>1. [c EXCEPT !.state = state] \in Connection
  BY DEF Connection
<1>2. [c EXCEPT !.state = state, !.is_active = b]
         = [[c EXCEPT !.state = state] EXCEPT !.is_active = b]
  BY DEF Connection
<1>3. [[c EXCEPT !.state = state] EXCEPT !.is_active = b] \in Connection
  BY <1>1, Zenon DEF Connection
<1> QED
  BY <1>1, <1>2, <1>3 DEF Connection

LEMMA StateUpdateTyped ==
    ASSUME NEW cs, ConnTyped(cs), NEW s \in Stream,
           NEW state \in StreamState, NEW b \in BOOLEAN
    PROVE  /\ ConnTyped([cs EXCEPT ![s].state = state])
           /\ ConnTyped([cs EXCEPT ![s].state = state, ![s].is_active = b])
           /\ ConnTyped([cs EXCEPT ![s].is_active = b, ![s].state = state])
<1> DEFINE c == [cs[s] EXCEPT !.state = state]
           d == [cs[s] EXCEPT !.state = state, !.is_active = b]
<1>1. cs[s] \in Connection /\ Len(cs[s].buffer) <= MaxLen
  BY DEF ConnTyped
<1>2. c \in Connection /\ Len(c.buffer) <= MaxLen
  BY <1>1, StateTyped
<1>3. d \in Connection /\ Len(d.buffer) <= MaxLen
  BY <1>1, StateTyped
<1>4. ConnTyped([cs EXCEPT ![s] = c]) /\ ConnTyped([cs EXCEPT ![s] = d])
  BY <1>2, <1>3, UpdateTyped
<1>5. [cs EXCEPT ![s].state = state] = [cs EXCEPT ![s] = c]
  BY DEF ConnTyped
<1>6. /\ [cs EXCEPT ![s].state = state, ![s].is_active = b] = [cs EXCEPT ![s] = d]
      /\ [cs EXCEPT ![s].is_active = b, ![s].state = state] = [cs EXCEPT ![s] = d]
  BY DEF ConnTyped, Connection
<1> QED
  BY <1>4, <1>5, <1>6

\* DROP_OLDEST leaves a sequence of the same numbers, shorter than maxlen.
LEMMA DropOldestTyped ==
    ASSUME NEW S, NEW q \in Seq(S), Len(q) = MaxLen
    PROVE  DropOldest(q) \in Seq(S) /\ Len(DropOldest(q)) <= MaxLen
<1> DEFINE kept == (4 * MaxLen - 1) \div 5
<1>1. kept \in Nat /\ kept <= MaxLen /\ MaxLen \in Nat
  BY ConstantsAssumption
<1>2. Len(q) - kept + 1 \in 1 .. Len(q) + 1 /\ Len(q) \in Nat
  BY <1>1
<1> HIDE DEF kept
<1>3. SubSeq(q, Len(q) - kept + 1, Len(q)) \in Seq(S)
  BY <1>1, <1>2, SubSeqProperties
<1>4. Len(SubSeq(q, Len(q) - kept + 1, Len(q))) <= MaxLen
  BY <1>1, <1>2, SubSeqProperties
<1> QED
  BY <1>3, <1>4 DEF DropOldest, kept

LEMMA NumberedTyped ==
    ASSUME NEW c \in Connection, Len(c.buffer) <= MaxLen, c.next < MaxChunks
    PROVE  Numbered(c) \in Connection /\ Len(Numbered(c).buffer) <= MaxLen
<1> DEFINE d == HandleBackpressure(c)
<1>1. d \in Connection /\ Len(d.buffer) <= MaxLen /\ d.next = c.next
  <2>1. CASE BufferFull(c) /\ c.strategy = "drop_oldest"
    <3>1. c.buffer \in Seq(0 .. MaxChunks) /\ Len(c.buffer) = MaxLen
      BY <2>1, ConstantsAssumption DEF Connection, BufferFull
    <3>2. /\ DropOldest(c.buffer) \in Seq(0 .. MaxChunks)
          /\ Len(DropOldest(c.buffer)) <= MaxLen
      BY <3>1, DropOldestTyped
    <3>3. d = [c EXCEPT !.buffer = DropOldest(c.buffer)]
      BY <2>1 DEF HandleBackpressure
    <3> QED
      BY <3>2, <3>3 DEF Connection
  <2>2. CASE ~(BufferFull(c) /\ c.strategy = "drop_oldest")
    BY <2>2 DEF HandleBackpressure
  <2> QED
    BY <2>1, <2>2
<1>2. Numbered(c) = [d EXCEPT !.next = d.next + 1]
  BY DEF Numbered
<1>3. d.next + 1 \in 0 .. MaxChunks
  BY <1>1, ConstantsAssumption DEF Connection
<1>4. [d EXCEPT !.next = d.next + 1] \in Connection
  BY <1>1, <1>3 DEF Connection
<1>5. [d EXCEPT !.next = d.next + 1].buffer = d.buffer
  BY <1>1 DEF Connection
<1> HIDE DEF d
<1> QED
  BY <1>1, <1>2, <1>4, <1>5

LEMMA JobTyped ==
    ASSUME job \in [Job -> JobRecord], NEW j \in Job, NEW r \in JobRecord
    PROVE  [job EXCEPT ![j] = r] \in [Job -> JobRecord]
OBVIOUS

Ops == {"none", "connect", "send", "blocked", "disconnect", "heartbeat"}

LEMMA RecordTyped ==
    ASSUME NEW op \in Ops, NEW at \in Stream \union {Nobody}, NEW todo \in SUBSET Stream,
           NEW seq \in 0 .. MaxChunks, at = Nobody => op = "none"
    PROVE  [op |-> op, at |-> at, todo |-> todo, seq |-> seq] \in JobRecord
BY DEF JobRecord, Ops

LEMMA ZeroTyped == 0 \in 0 .. MaxChunks
BY ConstantsAssumption

LEMMA IdleTyped == Idle \in JobRecord
<1>1. "none" \in Ops /\ Nobody \in Stream \union {Nobody} /\ {} \in SUBSET Stream
  BY DEF Ops
<1> QED
  BY <1>1, ZeroTyped, RecordTyped, Zenon DEF Idle

LEMMA ConnectTyped ==
    ASSUME NEW s \in Stream
    PROVE  [op |-> "connect", at |-> s, todo |-> {}, seq |-> 0] \in JobRecord
<1>1. /\ "connect" \in Ops /\ s \in Stream \union {Nobody} /\ {} \in SUBSET Stream
      /\ s # Nobody
  BY DEF Ops, Stream, Nobody
<1> QED
  BY <1>1, ZeroTyped, RecordTyped, Zenon

LEMMA VisitTyped ==
    ASSUME job \in [Job -> JobRecord], NEW j \in Job, NEW cs, ConnTyped(cs),
           NEW todo \in SUBSET Stream, Visit(j, cs, todo)
    PROVE  ConnTyped(conn') /\ job' \in [Job -> JobRecord]
<1> DEFINE ss == {r \in todo : Sendable(r) /\ Takes(cs[r])}
           s == First(ss)
<1>1. ss \in SUBSET todo /\ ss \in SUBSET Stream
  OBVIOUS
<1>2. s \in Stream \union {Nobody} /\ After(todo, s) \in SUBSET Stream
  BY <1>1, FirstIsLeast, NothingPassedOver
<1>3. s # Nobody => s \in ss
  BY <1>1, FirstIsLeast
<1>4. CASE s = Nobody
  <2>1. conn' = cs /\ job' = [job EXCEPT ![j] = Idle]
    BY <1>4 DEF Visit
  <2> QED
    BY <2>1, IdleTyped, JobTyped
<1>5. CASE s # Nobody /\ Blocks(cs[s])
  <2>1. /\ conn' = cs
        /\ job' = [job EXCEPT ![j] = [op |-> "blocked", at |-> s,
                                      todo |-> After(todo, s), seq |-> 0]]
    BY <1>5 DEF Visit
  <2>2. [op |-> "blocked", at |-> s, todo |-> After(todo, s), seq |-> 0] \in JobRecord
    BY <1>2, <1>5, ZeroTyped, RecordTyped, Zenon DEF Ops
  <2> QED
    BY <2>1, <2>2, JobTyped
<1>6. CASE s # Nobody /\ ~Blocks(cs[s])
  <2>1. /\ conn' = [cs EXCEPT ![s] = Numbered(cs[s])]
        /\ job' = [job EXCEPT ![j] = [op |-> "send", at |-> s,
                                      todo |-> After(todo, s), seq |-> cs[s].next]]
    BY <1>6 DEF Visit
  <2>2. s \in Stream /\ cs[s] \in Connection /\ Len(cs[s].buffer) <= MaxLen
    BY <1>6, <1>1, <1>3 DEF ConnTyped
  <2>3. cs[s].next < MaxChunks /\ cs[s].next \in 0 .. MaxChunks
    BY <1>6, <1>3, <2>2 DEF Takes, Connection
  <2>4. ConnTyped(conn')
    BY <2>1, <2>2, <2>3, NumberedTyped, UpdateTyped
  <2>5. [op |-> "send", at |-> s, todo |-> After(todo, s), seq |-> cs[s].next] \in JobRecord
    BY <1>2, <1>6, <2>3, RecordTyped, Zenon DEF Ops
  <2> QED
    BY <2>1, <2>4, <2>5, JobTyped
<1> QED
  BY <1>4, <1>5, <1>6

LEMMA ThroughTyped ==
    ASSUME job \in [Job -> JobRecord], alive \subseteq Loop, NEW j \in Job, Through(j)
    PROVE  job' \in [Job -> JobRecord] /\ alive' \subseteq Loop
<1>1. CASE j \in Stopping
  <2>1. alive' = {} /\ job' = [i \in Job |-> IF i \in Loop \union {j} THEN Idle ELSE job[i]]
    BY <1>1 DEF Through
  <2> QED
    BY <2>1, IdleTyped
<1>2. CASE j \notin Stopping
  <2>1. alive' = alive /\ job' = [job EXCEPT ![j] = Idle]
    BY <1>2 DEF Through
  <2> QED
    BY <2>1, IdleTyped, JobTyped
<1> QED
  BY <1>1, <1>2

LEMMA StopNextTyped ==
    ASSUME job \in [Job -> JobRecord], alive \subseteq Loop, ConnTyped(conn), NEW j \in Job,
           NEW reg, NEW todo \in SUBSET Stream, StopNext(j, reg, todo)
    PROVE  ConnTyped(conn') /\ job' \in [Job -> JobRecord] /\ alive' \subseteq Loop
<1> DEFINE s == First(todo \intersect reg)
           stopping == [op |-> "disconnect", at |-> s, todo |-> After(todo, s), seq |-> 0]
<1>1. s \in Stream \union {Nobody} /\ After(todo, s) \in SUBSET Stream
  <2>1. todo \intersect reg \in SUBSET todo /\ todo \intersect reg \in SUBSET Stream
    OBVIOUS
  <2> QED
    BY <2>1, FirstIsLeast, NothingPassedOver
<1>2. ConnTyped(Stopped(s))
  <2>1. CASE s = Nobody
    BY <2>1 DEF Stopped
  <2>2. CASE s # Nobody
    BY <1>1, <2>2, StateUpdateTyped DEF Stopped, StreamState
  <2> QED
    BY <2>1, <2>2
<1>3. s # Nobody => stopping \in JobRecord
  BY <1>1, ZeroTyped, RecordTyped, Zenon DEF Ops
<1>4. /\ conn' = Stopped(s)
      /\ s = Nobody => Through(j)
      /\ s # Nobody => job' = [job EXCEPT ![j] = stopping] /\ alive' = alive
  BY DEF StopNext
<1> HIDE DEF stopping, s
<1> QED
  BY <1>2, <1>3, <1>4, ThroughTyped, JobTyped

\* What a step that only moves jobs and connections leaves alone.
Frame ==
    /\ running \in BOOLEAN
    /\ starts \in 0 .. MaxStarts
    /\ created \in 0 .. MaxStreams
    /\ connections \subseteq 1 .. created
    /\ websockets \subseteq Stream
    /\ active_connections \in Nat
    /\ silent \in [Stream -> BOOLEAN]
    /\ doomed \in [Stopping -> SUBSET Stream]
    /\ overtaken \in BOOLEAN

LEMMA TypeParts ==
    TypeOK <=> /\ Frame /\ ConnTyped(conn)
               /\ job \in [Job -> JobRecord] /\ alive \subseteq Loop
BY DEF TypeOK, Frame, ConnTyped

LEMMA FrameStreams ==
    ASSUME Frame
    PROVE  connections \in SUBSET Stream /\ \A s \in connections : s \in Stream
BY ConstantsAssumption DEF Frame, Stream

LEMMA JobParts ==
    ASSUME job \in [Job -> JobRecord], NEW j \in Job
    PROVE  /\ job[j].at \in Stream \union {Nobody}
           /\ job[j].todo \in SUBSET Stream
           /\ job[j].seq \in 0 .. MaxChunks
           /\ job[j].op # "none" => job[j].at \in Stream
<1>1. job[j] \in JobRecord
  OBVIOUS
<1> QED
  BY <1>1 DEF JobRecord

LEMMA AppendBoundedTyped ==
    ASSUME NEW S, NEW q \in Seq(S), NEW n \in S, Len(q) <= MaxLen
    PROVE  AppendBounded(q, n) \in Seq(S) /\ Len(AppendBounded(q, n)) <= MaxLen
<1>1. MaxLen \in Nat \ {0}
  BY ConstantsAssumption
<1>2. CASE Len(q) >= MaxLen
  <2>1. Len(q) = MaxLen /\ q # <<>>
    BY <1>1, <1>2
  <2>2. Tail(q) \in Seq(S) /\ Len(Tail(q)) = Len(q) - 1
    BY <2>1
  <2> QED
    BY <1>1, <1>2, <2>1, <2>2 DEF AppendBounded
<1>3. CASE ~(Len(q) >= MaxLen)
  BY <1>1, <1>3 DEF AppendBounded
<1> QED
  BY <1>2, <1>3

LEMMA BufferTyped ==
    ASSUME ConnTyped(conn), NEW s \in Stream, NEW n \in 0 .. MaxChunks
    PROVE  ConnTyped([conn EXCEPT ![s].buffer = AppendBounded(@, n)])
<1> DEFINE c == conn[s]
           q == AppendBounded(c.buffer, n)
           d == [c EXCEPT !.buffer = q]
<1>1. c \in Connection /\ Len(c.buffer) <= MaxLen
  BY DEF ConnTyped
<1>2. q \in Seq(0 .. MaxChunks) /\ Len(q) <= MaxLen
  BY <1>1, AppendBoundedTyped DEF Connection
<1>3. ConnTyped([conn EXCEPT ![s] = d])
  <2> HIDE DEF q
  <2>1. d \in Connection /\ d.buffer = q
    BY <1>1, <1>2 DEF Connection
  <2> HIDE DEF d
  <2> QED
    BY <1>2, <2>1, UpdateTyped
<1>4. [conn EXCEPT ![s].buffer = AppendBounded(@, n)] = [conn EXCEPT ![s] = d]
  BY <1>1 DEF ConnTyped, Connection
<1> QED
  BY <1>3, <1>4

LEMMA PollTyped ==
    ASSUME ConnTyped(conn), job \in [Job -> JobRecord], NEW j \in Job, Poll(j)
    PROVE  ConnTyped(conn') /\ job' \in [Job -> JobRecord]
<1> DEFINE s == job[j].at
           c == conn[s]
<1>1. s \in Stream
  BY JobParts DEF Poll
<1>2. c \in Connection /\ Len(c.buffer) <= MaxLen
  BY <1>1 DEF ConnTyped
<1>3. CASE 2 * Len(c.buffer) >= MaxLen \/ c.next >= MaxChunks
  BY <1>3 DEF Poll
<1>4. CASE ~(2 * Len(c.buffer) >= MaxLen \/ c.next >= MaxChunks)
  <2>1. c.next \in 0 .. MaxChunks /\ c.next + 1 \in 0 .. MaxChunks
    BY <1>2, <1>4, ConstantsAssumption DEF Connection
  <2>2. /\ [c EXCEPT !.next = c.next + 1] \in Connection
        /\ [c EXCEPT !.next = c.next + 1].buffer = c.buffer
    BY <1>2, <2>1 DEF Connection
  <2>3. conn' = [conn EXCEPT ![s] = [c EXCEPT !.next = c.next + 1]]
    BY <1>1, <1>4 DEF Poll, ConnTyped
  <2>4. ConnTyped(conn')
    BY <1>1, <1>2, <2>2, <2>3, UpdateTyped
  <2>5. job' = [job EXCEPT ![j] = [op |-> "send", at |-> s,
                                   todo |-> job[j].todo, seq |-> c.next]]
    <3>1. job[j] \in JobRecord
      OBVIOUS
    <3> QED
      BY <1>4, <3>1 DEF Poll, JobRecord
  <2>6. [op |-> "send", at |-> s, todo |-> job[j].todo, seq |-> c.next] \in JobRecord
    <3>1. "send" \in Ops /\ s # Nobody /\ s \in Stream \union {Nobody}
      BY <1>1 DEF Ops, Stream, Nobody
    <3> QED
      BY <3>1, <2>1, JobParts, RecordTyped, Zenon
  <2> QED
    BY <2>4, <2>5, <2>6, JobTyped
<1> QED
  BY <1>3, <1>4

LEMMA CallerTyped ==
    ASSUME TypeOK, NEW j \in Caller,
           \/ \E s \in Stream : ConnectBegin(j, s) \/ DisconnectBegin(j, s)
           \/ ConnectEnd(j) \/ Send(j) \/ SendDone(j) \/ SendFailed(j) \/ Poll(j)
    PROVE  TypeOK'
<1>1. /\ Frame /\ ConnTyped(conn) /\ job \in [Job -> JobRecord] /\ alive \subseteq Loop
      /\ j \in Job
  BY TypeParts DEF Job
<1>2. SUFFICES /\ Frame' /\ ConnTyped(conn')
               /\ job' \in [Job -> JobRecord] /\ alive' \subseteq Loop
  BY DEF TypeOK, Frame, ConnTyped
<1>3. Frame'
  <2>1. UNCHANGED <<running, starts, created, registry, silent, history>>
    BY DEF ConnectBegin, DisconnectBegin, ConnectEnd, Send, SendDone, SendFailed, Poll
  <2> QED
    BY <1>1, <2>1 DEF Frame, registry, history
<1>4. /\ job[j].at \in Stream \union {Nobody}
      /\ job[j].todo \in SUBSET Stream
      /\ job[j].seq \in 0 .. MaxChunks
      /\ job[j].op # "none" => job[j].at \in Stream
  BY <1>1, JobParts
<1>12. (~\E s \in Stream : DisconnectBegin(j, s)) => alive' = alive
  BY DEF ConnectBegin, ConnectEnd, Send, SendDone, SendFailed, Poll
<1>5. ASSUME NEW s \in Stream, ConnectBegin(j, s)
      PROVE  ConnTyped(conn') /\ job' \in [Job -> JobRecord]
  <2>1. ConnTyped(conn')
    BY <1>1, <1>5, StateUpdateTyped DEF ConnectBegin, StreamState
  <2>2. job' \in [Job -> JobRecord]
    BY <1>1, <1>5, ConnectTyped, JobTyped DEF ConnectBegin
  <2> QED
    BY <2>1, <2>2
<1>6. ASSUME NEW s \in Stream, DisconnectBegin(j, s)
      PROVE  ConnTyped(conn') /\ job' \in [Job -> JobRecord] /\ alive' \subseteq Loop
  BY <1>1, <1>6, StopNextTyped DEF DisconnectBegin
<1>7. CASE ConnectEnd(j)
  <2>1. PICK state \in {"streaming", "error"} :
           conn' = [conn EXCEPT ![job[j].at].state = state]
    BY <1>7 DEF ConnectEnd
  <2>2. ConnTyped(conn')
    BY <1>1, <1>4, <1>7, <2>1, StateUpdateTyped DEF ConnectEnd, StreamState
  <2>3. job' \in [Job -> JobRecord]
    BY <1>1, <1>7, IdleTyped, JobTyped DEF ConnectEnd
  <2> QED
    BY <1>1, <1>3, <1>7, <2>2, <2>3 DEF ConnectEnd
<1>8. CASE Send(j)
  <2>1. PICK todo \in {{s} : s \in connections} \union {connections} : Visit(j, conn, todo)
    BY <1>8 DEF Send
  <2>2. todo \in SUBSET Stream
    BY <1>1, FrameStreams
  <2> QED
    BY <1>1, <1>3, <1>8, <2>1, <2>2, VisitTyped DEF Send
<1>9. CASE SendDone(j)
  <2>1. ConnTyped([conn EXCEPT ![job[j].at].buffer = AppendBounded(@, job[j].seq)])
    BY <1>1, <1>4, <1>9, BufferTyped DEF SendDone
  <2> QED
    BY <1>1, <1>3, <1>4, <1>9, <2>1, VisitTyped DEF SendDone
<1>10. CASE SendFailed(j)
  BY <1>1, <1>3, <1>4, <1>10, VisitTyped DEF SendFailed
<1>11. CASE Poll(j)
  BY <1>1, <1>3, <1>11, PollTyped DEF Poll
<1> QED
  BY <1>1, <1>2, <1>3, <1>5, <1>6, <1>7, <1>8, <1>9, <1>10, <1>11, <1>12

LEMMA DeregisterTyped ==
    ASSUME Frame, NEW s, Deregister(s)
    PROVE  /\ connections' \subseteq connections /\ websockets' \subseteq websockets
           /\ active_connections' \in Nat
<1>1. active_connections \in Nat
  BY DEF Frame
<1>2. CASE s \in connections
  BY <1>1, <1>2 DEF Deregister
<1>3. CASE s \notin connections
  BY <1>1, <1>3 DEF Deregister, registry
<1> QED
  BY <1>2, <1>3

\* While the manager runs there is a start() whose stop() is still to come.
Started ==
    /\ starts \in 0 .. MaxStarts
    /\ running => starts \in 1 .. MaxStarts

LEMMA DisconnectTyped ==
    ASSUME TypeOK, Started,
           \/ \E j \in Job : DisconnectEnd(j)
           \/ \E l \in CleanupLoop : SweepBegin(l)
           \/ StopBegin
    PROVE  TypeOK'
<1>1. Frame /\ ConnTyped(conn) /\ job \in [Job -> JobRecord] /\ alive \subseteq Loop
  BY TypeParts
<1>2. SUFFICES /\ Frame' /\ ConnTyped(conn')
               /\ job' \in [Job -> JobRecord] /\ alive' \subseteq Loop
  BY DEF TypeOK, Frame, ConnTyped
<1>3. connections \in SUBSET Stream /\ CleanupLoop \subseteq Job
  BY <1>1, FrameStreams DEF Job, Loop
<1>4. CASE \E j \in Job : DisconnectEnd(j)
  <2>1. PICK j \in Job : DisconnectEnd(j)
    BY <1>4
  <2>2. Frame'
    BY <1>1, <2>1, DeregisterTyped DEF DisconnectEnd, Frame, history
  <2>3. job[j].todo \in SUBSET Stream
    BY <1>1, JobParts
  <2> QED
    BY <1>1, <2>1, <2>2, <2>3, StopNextTyped DEF DisconnectEnd
<1>5. CASE \E l \in CleanupLoop : SweepBegin(l)
  <2>1. PICK l \in CleanupLoop : SweepBegin(l)
    BY <1>5
  <2>2. Frame'
    BY <1>1, <2>1 DEF SweepBegin, Frame, registry, history
  <2>3. {s \in connections : silent[s]} \in SUBSET Stream
    BY <1>3
  <2> QED
    BY <1>1, <1>3, <2>1, <2>2, <2>3, StopNextTyped DEF SweepBegin
<1>6. CASE StopBegin
  <2>1. <<"stop", starts>> \in Job
    BY <1>6 DEF Started, StopBegin, Stopping, Job
  <2>2. Frame'
    BY <1>1, <1>3, <1>6 DEF StopBegin, Frame, registry
  <2> QED
    BY <1>1, <1>3, <1>6, <2>1, <2>2, StopNextTyped DEF StopBegin
<1> QED
  BY <1>4, <1>5, <1>6

LEMMA BeatTyped ==
    ASSUME job \in [Job -> JobRecord], NEW l \in Job, NEW todo \in SUBSET Stream, Beat(l, todo)
    PROVE  job' \in [Job -> JobRecord]
<1> DEFINE ss == {r \in todo : conn[r].is_active}
           s == First(ss)
           beating == [op |-> "heartbeat", at |-> s, todo |-> After(todo, s), seq |-> 0]
<1>1. s \in Stream \union {Nobody} /\ After(todo, s) \in SUBSET Stream
  <2>1. ss \in SUBSET todo /\ ss \in SUBSET Stream
    OBVIOUS
  <2> QED
    BY <2>1, FirstIsLeast, NothingPassedOver
<1>2. job' = [job EXCEPT ![l] = IF s = Nobody THEN Idle ELSE beating]
  BY DEF Beat
<1>3. s # Nobody => beating \in JobRecord
  BY <1>1, ZeroTyped, RecordTyped, Zenon DEF Ops
<1> HIDE DEF beating, s
<1> QED
  BY <1>2, <1>3, IdleTyped, JobTyped

LEMMA LoopTyped ==
    ASSUME TypeOK,
           \/ \E l \in Loop : LoopEnds(l)
           \/ \E l \in HeartbeatLoop : BeatBegin(l) \/ BeatSent(l) \/ BeatFailed(l)
    PROVE  TypeOK'
<1>1. Frame /\ ConnTyped(conn) /\ job \in [Job -> JobRecord] /\ alive \subseteq Loop
  BY TypeParts
<1>2. CASE \E l \in Loop : LoopEnds(l)
  <2>1. Frame' /\ conn' = conn /\ job' = job /\ alive' \subseteq Loop
    BY <1>1, <1>2 DEF LoopEnds, Frame, registry, history
  <2> QED
    BY <1>1, <2>1 DEF TypeOK, Frame, ConnTyped
<1>3. CASE \E l \in HeartbeatLoop : BeatBegin(l) \/ BeatSent(l) \/ BeatFailed(l)
  <2>1. PICK l \in HeartbeatLoop : BeatBegin(l) \/ BeatSent(l) \/ BeatFailed(l)
    BY <1>3
  <2>2. UNCHANGED <<running, starts, created, registry, conn, alive, history>>
    BY <2>1 DEF BeatBegin, BeatSent, BeatFailed
  <2>3. silent' = silent \/ silent' = [silent EXCEPT ![job[l].at] = FALSE]
    BY <2>1 DEF BeatBegin, BeatSent, BeatFailed
  <2>4. Frame'
    BY <1>1, <2>2, <2>3 DEF Frame, registry, history
  <2>5. l \in Job
    BY DEF Job, Loop
  <2>6. connections \in SUBSET Stream /\ job[l].todo \in SUBSET Stream
    BY <1>1, <2>5, FrameStreams, JobParts
  <2>7. job' \in [Job -> JobRecord]
    BY <1>1, <2>1, <2>5, <2>6, BeatTyped DEF BeatBegin, BeatSent, BeatFailed
  <2> QED
    BY <1>1, <2>2, <2>4, <2>7 DEF TypeOK, Frame, ConnTyped
<1> QED
  BY <1>2, <1>3

LEMMA NewConnectionTyped ==
    ASSUME NEW x \in BackpressureStrategy
    PROVE  NewConnection(x) \in Connection /\ Len(NewConnection(x).buffer) <= MaxLen
<1>1. "idle" \in StreamState /\ <<>> \in Seq(0 .. MaxChunks) /\ 0 \in Nat
  BY DEF StreamState
<1>2. NewConnection(x) \in Connection
  BY <1>1, ZeroTyped DEF NewConnection, Connection
<1> QED
  BY <1>2, ConstantsAssumption DEF NewConnection

LEMMA ManagerTyped ==
    ASSUME TypeOK,
           \/ Start
           \/ CreateStream
           \/ \E s \in Stream : Pause(s) \/ Resume(s) \/ ClientBeat(s) \/ FallSilent(s)
    PROVE  TypeOK'
<1>1. Frame /\ ConnTyped(conn) /\ job \in [Job -> JobRecord] /\ alive \subseteq Loop
  BY TypeParts
<1>2. job' = job
  BY DEF Start, CreateStream, Pause, Resume, ClientBeat, FallSilent
<1>3. CASE Start
  <2>1. starts + 1 \in 0 .. MaxStarts
    BY <1>1, <1>3, ConstantsAssumption DEF Start, Frame
  <2>2. Frame' /\ conn' = conn
    BY <1>1, <1>3, <2>1 DEF Start, Frame, registry
  <2>3. starts + 1 \in 1 .. MaxStarts
    BY <1>1, <2>1, ConstantsAssumption DEF Frame
  <2>4. alive' \subseteq Loop
    BY <1>1, <1>3, <2>3 DEF Start, Loop, HeartbeatLoop, CleanupLoop
  <2> QED
    BY <1>1, <1>2, <2>2, <2>4 DEF TypeOK, Frame, ConnTyped
<1>4. CASE CreateStream
  <2>1. created + 1 \in 0 .. MaxStreams /\ created + 1 \in Stream /\ created' = created + 1
    BY <1>1, <1>4, ConstantsAssumption DEF CreateStream, Frame, Stream
  <2>2. connections' \subseteq 1 .. created'
    <3>1. connections \subseteq 1 .. created /\ created \in Nat
      BY <1>1, ConstantsAssumption DEF Frame
    <3>2. connections' = connections \union {created + 1}
      BY <1>4, <2>1 DEF CreateStream
    <3> QED
      BY <2>1, <3>1, <3>2
  <2>3. websockets' \subseteq Stream /\ active_connections' \in Nat
    BY <1>1, <1>4, <2>1 DEF CreateStream, Frame
  <2>4. Frame'
    BY <1>1, <1>4, <2>1, <2>2, <2>3 DEF CreateStream, Frame, history
  <2>5. PICK x \in Strategies : conn' = [conn EXCEPT ![created'] = NewConnection(x)]
    BY <1>4 DEF CreateStream
  <2>6. x \in BackpressureStrategy
    BY ConstantsAssumption
  <2>7. ConnTyped(conn')
    BY <1>1, <2>1, <2>5, <2>6, NewConnectionTyped, UpdateTyped
  <2> QED
    BY <1>1, <1>2, <1>4, <2>4, <2>7 DEF TypeOK, Frame, ConnTyped, CreateStream
<1>5. ASSUME NEW s \in Stream, Pause(s) \/ Resume(s)
      PROVE  TypeOK'
  <2>1. ConnTyped(conn')
    BY <1>1, <1>5, StateUpdateTyped DEF Pause, Resume, StreamState
  <2>2. Frame'
    BY <1>1, <1>5 DEF Pause, Resume, Frame, registry, history
  <2> QED
    BY <1>1, <1>2, <1>5, <2>1, <2>2 DEF TypeOK, Frame, ConnTyped, Pause, Resume
<1>6. ASSUME NEW s \in Stream, ClientBeat(s) \/ FallSilent(s)
      PROVE  TypeOK'
  <2>1. Frame' /\ conn' = conn
    BY <1>1, <1>6 DEF ClientBeat, FallSilent, Frame, registry, history
  <2> QED
    BY <1>1, <1>2, <1>6, <2>1 DEF TypeOK, Frame, ConnTyped, ClientBeat, FallSilent
<1> QED
  BY <1>3, <1>4, <1>5, <1>6

LEMMA NextKeepsStarted ==
    ASSUME Started, [Next]_vars
    PROVE  Started'
<1>1. CASE Start
  <2>1. starts' \in 0 .. MaxStarts /\ starts' \in 1 .. MaxStarts
    BY <1>1, ConstantsAssumption DEF Start, Started
  <2> QED
    BY <2>1 DEF Started
<1>2. CASE StopBegin
  BY <1>2 DEF StopBegin, Started
<1>3. CASE UNCHANGED <<running, starts>>
  BY <1>3 DEF Started
<1>4. ASSUME NEW j \in Caller, NEW s \in Stream, ConnectBegin(j, s) \/ DisconnectBegin(j, s)
      PROVE  UNCHANGED <<running, starts>>
  BY <1>4 DEF ConnectBegin, DisconnectBegin
<1>5. ASSUME NEW j \in Caller, ConnectEnd(j) \/ Send(j) \/ SendDone(j) \/ SendFailed(j) \/ Poll(j)
      PROVE  UNCHANGED <<running, starts>>
  BY <1>5 DEF ConnectEnd, Send, SendDone, SendFailed, Poll
<1>6. ASSUME NEW s \in Stream, Pause(s) \/ Resume(s) \/ ClientBeat(s) \/ FallSilent(s)
      PROVE  UNCHANGED <<running, starts>>
  BY <1>6 DEF Pause, Resume, ClientBeat, FallSilent
<1>7. ASSUME NEW l, LoopEnds(l) \/ SweepBegin(l) \/ BeatBegin(l) \/ BeatSent(l) \/ BeatFailed(l)
      PROVE  UNCHANGED <<running, starts>>
  BY <1>7 DEF LoopEnds, SweepBegin, BeatBegin, BeatSent, BeatFailed
<1>8. ASSUME NEW j \in Job, DisconnectEnd(j)
      PROVE  UNCHANGED <<running, starts>>
  BY <1>8 DEF DisconnectEnd
<1>9. ASSUME CreateStream \/ UNCHANGED vars
      PROVE  UNCHANGED <<running, starts>>
  BY <1>9 DEF CreateStream, vars
<1>10. Start \/ StopBegin \/ UNCHANGED <<running, starts>>
  BY <1>4, <1>5, <1>6, <1>7, <1>8, <1>9 DEF Next
<1> QED
  BY <1>1, <1>2, <1>3, <1>10

LEMMA AlwaysStarted == Spec => []Started
<1>1. Init => Started
  BY ConstantsAssumption DEF Init, Started
<1>2. Started /\ [Next]_vars => Started'
  BY NextKeepsStarted
<1> QED
  BY <1>1, <1>2, PTL DEF Spec

\* The variables of the stream manager stay in their ranges, and no output buffer
\* outgrows its maxlen.
THEOREM StreamsTypeCorrect == Spec => []TypeOK
<1>1. Init => TypeOK
  <2> SUFFICES ASSUME Init PROVE TypeOK
    OBVIOUS
  <2>1. "drop_oldest" \in BackpressureStrategy
    BY DEF BackpressureStrategy
  <2>2. ConnTyped(conn) /\ job \in [Job -> JobRecord] /\ alive \subseteq Loop
    BY <2>1, NewConnectionTyped, IdleTyped DEF Init, ConnTyped
  <2>3. Frame
    <3>1. silent \in [Stream -> BOOLEAN]
      BY Zenon DEF Init
    <3>2. 0 \in 0 .. MaxStarts /\ 0 \in 0 .. MaxStreams
      BY ConstantsAssumption
    <3>4. doomed \in [Stopping -> SUBSET Stream]
      BY DEF Init
    <3>3. connections \subseteq 1 .. created /\ active_connections \in Nat
      BY DEF Init
    <3> QED
      BY <3>1, <3>2, <3>3, <3>4 DEF Init, Frame
  <2> QED
    BY <2>2, <2>3, TypeParts
<1>2. TypeOK /\ Started /\ [Next]_vars => TypeOK'
  <2> SUFFICES ASSUME TypeOK, Started, [Next]_vars PROVE TypeOK'
    OBVIOUS
  <2>1. CASE UNCHANGED vars
    BY <2>1 DEF vars, registry, history, TypeOK
  <2>2. CASE Next
    BY <2>2, CallerTyped, DisconnectTyped, LoopTyped, ManagerTyped DEF Next
  <2> QED
    BY <2>1, <2>2
<1> QED
  BY <1>1, <1>2, AlwaysStarted, PTL DEF Spec

-----------------------------------------------------------------------------
(* A stop() leaves none of the streams it found.  The invariant says where   *)
(* those that are left are: the one whose stop message it awaits, and those  *)
(* it has yet to visit.                                                      *)

At(k) ==
    /\ doomed[k] \subseteq 1 .. created
    /\ job[k] = Idle => doomed[k] \intersect connections = {}
    /\ job[k] # Idle =>
          /\ job[k].op = "disconnect"
          /\ doomed[k] \intersect connections \subseteq job[k].todo \union {job[k].at}

StopInv == \A k \in Stopping : At(k)

LEMMA Apart ==
    /\ \A k \in Stopping : k \in Job /\ k \notin Loop /\ k \notin Caller
    /\ Caller \subseteq Job /\ Loop \subseteq Job
    /\ HeartbeatLoop \subseteq Loop /\ CleanupLoop \subseteq Loop
<1>1. \A k \in Stopping : k \in Job /\ k \notin Loop
  BY DEF Stopping, Job, Loop, HeartbeatLoop, CleanupLoop
<1>2. \A k \in Stopping : k \in {"heartbeat", "cleanup", "stop"} \X (1 .. MaxStarts)
  BY DEF Stopping
<1>3. \A k \in Stopping : k \notin Caller
  BY <1>2, ConstantsAssumption
<1> QED
  BY <1>1, <1>3 DEF Job, Loop

\* A step that lets the stop() of k wait and brings none of its streams back.
LEMMA OthersKeep ==
    ASSUME NEW k, At(k), job'[k] = job[k], doomed'[k] = doomed[k],
           created' = created, connections' \subseteq connections
    PROVE  At(k)'
BY DEF At

\* Whoever turns to another stream or is through, another stop() stays where it is.
LEMMA StopNextLeaves ==
    ASSUME job \in [Job -> JobRecord], NEW j \in Job, NEW k \in Stopping, j # k,
           NEW reg, NEW todo, StopNext(j, reg, todo)
    PROVE  job'[k] = job[k]
<1>1. k \in Job /\ k \notin Loop
  BY Apart
<1>2. \/ \E r : job' = [job EXCEPT ![j] = r]
      \/ job' = [i \in Job |-> IF i \in Loop \union {j} THEN Idle ELSE job[i]]
  BY DEF StopNext, Through
<1> QED
  BY <1>1, <1>2

\* After a stop() turns to the next stream, those of todo that are left are ahead of it.
LEMMA StopNextKeeps ==
    ASSUME TypeOK, NEW k \in Stopping, NEW todo \in SUBSET Stream,
           StopNext(k, connections', todo),
           doomed'[k] \intersect connections' \subseteq todo, doomed'[k] \subseteq 1 .. created'
    PROVE  At(k)'
<1> DEFINE ss == todo \intersect connections'
           s == First(ss)
           r == [op |-> "disconnect", at |-> s, todo |-> After(todo, s), seq |-> 0]
<1>1. k \in Job /\ job \in [Job -> JobRecord]
  BY Apart DEF TypeOK
<1>2. ss \in SUBSET todo /\ ss \in SUBSET Stream
  OBVIOUS
<1>3. CASE s = Nobody
  <2>1. ss = {}
    BY <1>2, <1>3, FirstIsLeast
  <2>2. job'[k] = Idle
    BY <1>1, <1>3 DEF StopNext, Through
  <2> QED
    BY <2>1, <2>2 DEF At
<1>4. CASE s # Nobody
  <2>1. job'[k] = r
    BY <1>1, <1>4 DEF StopNext
  <2>2. ss \subseteq After(todo, s) \union {s}
    BY <1>2, NothingPassedOver
  <2>3. job'[k] # Idle
    BY <2>1 DEF Idle
  <2> HIDE DEF s
  <2> QED
    BY <2>1, <2>2, <2>3 DEF At
<1> QED
  BY <1>3, <1>4

LEMMA StopStepKeeps ==
    ASSUME TypeOK, Registered, StopInv, NEW k \in Stopping,
           DisconnectEnd(k) \/ (StopBegin /\ k = <<"stop", starts>>)
    PROVE  At(k)'
<1>1. connections \in SUBSET Stream
  BY TypeParts, FrameStreams
<1>2. job \in [Job -> JobRecord] /\ doomed \in [Stopping -> SUBSET Stream] /\ k \in Job /\ At(k)
  BY Apart DEF TypeOK, StopInv
<1>3. CASE StopBegin /\ k = <<"stop", starts>>
  <2>1. /\ connections' = connections /\ doomed'[k] = connections /\ created' = created
        /\ StopNext(k, connections', connections)
    BY <1>2, <1>3 DEF StopBegin, registry
  <2> QED
    BY <1>1, <2>1, StopNextKeeps DEF Registered
<1>4. CASE DisconnectEnd(k)
  <2> DEFINE at == job[k].at
             todo == job[k].todo
  <2>1. todo \in SUBSET Stream
    BY <1>2, JobParts
  <2>2. connections' = connections \ {at}
    BY <1>4 DEF DisconnectEnd, Deregister, registry
  <2>3. StopNext(k, connections', todo) /\ doomed' = doomed /\ created' = created
    BY <1>4, <2>2 DEF DisconnectEnd, history
  <2>4. job[k] # Idle
    BY <1>4 DEF DisconnectEnd, Idle
  <2>5. doomed[k] \intersect connections \subseteq todo \union {at} /\ doomed[k] \subseteq 1 .. created
    BY <1>2, <2>4 DEF At
  <2>6. doomed'[k] \intersect connections' \subseteq todo
    BY <2>2, <2>3, <2>5
  <2> HIDE DEF at, todo
  <2> QED
    BY <2>1, <2>3, <2>5, <2>6, StopNextKeeps
<1> QED
  BY <1>3, <1>4

LEMMA NextKeepsStopInv ==
    ASSUME TypeOK, Started, Registered, StopInv, [Next]_vars
    PROVE  StopInv'
<1> SUFFICES ASSUME NEW k \in Stopping
             PROVE  At(k)'
  BY DEF StopInv
<1>1. /\ job \in [Job -> JobRecord] /\ doomed \in [Stopping -> SUBSET Stream] /\ At(k)
      /\ k \in Job /\ k \notin Loop /\ k \notin Caller /\ Caller \subseteq Job /\ Loop \subseteq Job
      /\ HeartbeatLoop \subseteq Loop /\ CleanupLoop \subseteq Loop
  BY Apart DEF TypeOK, StopInv
<1>2. CASE DisconnectEnd(k) \/ (StopBegin /\ k = <<"stop", starts>>)
  BY <1>2, StopStepKeeps
<1>3. CASE CreateStream
  <2>1. created + 1 \notin doomed[k] /\ doomed[k] \subseteq 1 .. created + 1
    BY <1>1 DEF At, Registered
  <2>2. /\ connections' = connections \union {created + 1} /\ created' = created + 1
        /\ doomed' = doomed /\ job' = job
    BY <1>3 DEF CreateStream, history
  <2>3. doomed'[k] \intersect connections' = doomed[k] \intersect connections
    BY <2>1, <2>2
  <2> QED
    BY <1>1, <2>1, <2>2, <2>3 DEF At
<1>4. ASSUME NEW j \in Job, j # k, DisconnectEnd(j)
      PROVE  At(k)'
  <2>1. connections' \subseteq connections /\ doomed' = doomed /\ created' = created
    BY <1>4 DEF DisconnectEnd, Deregister, registry, history
  <2>2. job'[k] = job[k]
    BY <1>1, <1>4, StopNextLeaves DEF DisconnectEnd
  <2> QED
    BY <1>1, <2>1, <2>2, OthersKeep
<1>5. ASSUME NEW j \in Caller, NEW s \in Stream, ConnectBegin(j, s) \/ DisconnectBegin(j, s)
      PROVE  At(k)'
  <2>1. connections' = connections /\ doomed' = doomed /\ created' = created
    BY <1>5 DEF ConnectBegin, DisconnectBegin, registry, history
  <2>2. job'[k] = job[k]
    BY <1>1, <1>5, StopNextLeaves DEF ConnectBegin, DisconnectBegin
  <2> QED
    BY <1>1, <2>1, <2>2, OthersKeep
<1>6. ASSUME NEW j \in Caller, ConnectEnd(j) \/ Send(j) \/ SendDone(j) \/ SendFailed(j) \/ Poll(j)
      PROVE  At(k)'
  <2>1. connections' = connections /\ doomed' = doomed /\ created' = created
    BY <1>6 DEF ConnectEnd, Send, SendDone, SendFailed, Poll, registry, history
  <2>2. job'[k] = job[k]
    BY <1>1, <1>6 DEF ConnectEnd, Send, SendDone, SendFailed, Poll, Visit
  <2> QED
    BY <1>1, <2>1, <2>2, OthersKeep
<1>7. ASSUME \/ \E s \in Stream : Pause(s) \/ Resume(s) \/ ClientBeat(s) \/ FallSilent(s)
             \/ \E l \in Loop : LoopEnds(l)
             \/ Start \/ UNCHANGED vars
      PROVE  At(k)'
  <2>1. UNCHANGED <<connections, doomed, created, job>>
    BY <1>7 DEF Pause, Resume, ClientBeat, FallSilent, LoopEnds, Start, vars, registry, history
  <2> QED
    BY <1>1, <2>1, OthersKeep
<1>8. ASSUME NEW l \in Loop, SweepBegin(l) \/ BeatBegin(l) \/ BeatSent(l) \/ BeatFailed(l)
      PROVE  At(k)'
  <2>1. connections' = connections /\ doomed' = doomed /\ created' = created
    BY <1>8 DEF SweepBegin, BeatBegin, BeatSent, BeatFailed, registry, history
  <2>2. job'[k] = job[k]
    BY <1>1, <1>8, StopNextLeaves DEF SweepBegin, BeatBegin, BeatSent, BeatFailed, Beat
  <2> QED
    BY <1>1, <2>1, <2>2, OthersKeep
<1>9. CASE StopBegin /\ k # <<"stop", starts>>
  <2>1. <<"stop", starts>> \in Job
    BY <1>9 DEF StopBegin, Started, Stopping, Job
  <2>2. connections' = connections /\ doomed'[k] = doomed[k] /\ created' = created
    BY <1>1, <1>9 DEF StopBegin, registry
  <2>3. job'[k] = job[k]
    BY <1>1, <1>9, <2>1, StopNextLeaves DEF StopBegin
  <2> QED
    BY <1>1, <2>2, <2>3, OthersKeep
<1> QED
  BY <1>1, <1>2, <1>3, <1>4, <1>5, <1>6, <1>7, <1>8, <1>9 DEF Next

\* When a stop() is over, every stream it found is gone, whoever else was disconnecting
\* streams at the same time, for any number of streams, callers and starts.
THEOREM StopAlwaysThorough == Spec => []StopIsThorough
<1>1. Init => StopInv
  <2> SUFFICES ASSUME Init, NEW k \in Stopping PROVE At(k)
    BY DEF StopInv
  <2>1. job[k] = Idle /\ doomed[k] = {}
    BY Apart DEF Init
  <2> QED
    BY <2>1 DEF At
<1>2. Init => Registered
  BY FS_EmptySet DEF Init, Registered
<1>3. TypeOK /\ Started /\ Registered /\ StopInv /\ [Next]_vars => Registered' /\ StopInv'
  BY NextRegisters, NextKeepsStopInv
<1>4. StopInv => StopIsThorough
  BY DEF StopInv, At, StopIsThorough
<1> QED
  BY <1>1, <1>2, <1>3, <1>4, AlwaysStarted, StreamsTypeCorrect, PTL DEF Spec

-----------------------------------------------------------------------------
(* Sequence numbers.  Those in the retransmission buffer of a connection and *)
(* those in flight are told apart, also while another send is under way: jb  *)
(* are the jobs, and J those of them that count.                             *)

Flying(jb, j, s) == jb[j].op = "send" /\ jb[j].at = s

\* The buffer of connection c holds numbers given out, each of them once.
Clean(c) ==
    /\ \A a, b \in DOMAIN c.buffer : a # b => c.buffer[a] # c.buffer[b]
    /\ \A a \in DOMAIN c.buffer : c.buffer[a] < c.next

\* The chunks in flight to stream s carry numbers given out and not in the buffer.
Carries(jb, J, s, c) ==
    /\ \A j \in J : Flying(jb, j, s) =>
          jb[j].seq < c.next /\ \A a \in DOMAIN c.buffer : c.buffer[a] # jb[j].seq
    /\ \A i, j \in J : Flying(jb, i, s) /\ Flying(jb, j, s) /\ i # j => jb[i].seq # jb[j].seq

Told(cs, jb, J) == \A s \in Stream : Clean(cs[s]) /\ Carries(jb, J, s, cs[s])

\* Nothing is sent to a stream that is not yet created.
Ahead(jb, n) == \A j \in Job : jb[j].op \in {"send", "blocked"} => jb[j].at <= n

NumbersInv == Told(conn, job, Job) /\ Ahead(job, created)

\* p is q without its m first elements.
Suffix(p, q, m) ==
    /\ Len(p) = Len(q) - m
    /\ \A i \in 1 .. Len(p) : p[i] = q[i + m]

LEMMA SuffixElements ==
    ASSUME NEW S, NEW p \in Seq(S), NEW q \in Seq(S), NEW m \in Nat, Suffix(p, q, m)
    PROVE  \A a \in DOMAIN p :
              a \in Nat /\ a + m \in DOMAIN q /\ p[a] = q[a + m] /\ q[a + m] \in S
<1>1. /\ DOMAIN p = 1 .. Len(p) /\ DOMAIN q = 1 .. Len(q)
      /\ Len(p) \in Nat /\ Len(q) \in Nat /\ Len(p) = Len(q) - m
  BY DEF Suffix
<1>2. SUFFICES ASSUME NEW a \in 1 .. Len(p)
               PROVE  a \in Nat /\ a + m \in 1 .. Len(q) /\ p[a] = q[a + m] /\ q[a + m] \in S
  BY <1>1
<1>3. a \in Nat /\ a + m \in 1 .. Len(q)
  BY <1>1
<1>4. q[a + m] \in S
  BY <1>3
<1>5. p[a] = q[a + m]
  BY DEF Suffix
<1> QED
  BY <1>3, <1>4, <1>5

LEMMA DropOldestSuffix ==
    ASSUME NEW S, NEW q \in Seq(S), Len(q) = MaxLen
    PROVE  \E m \in Nat : Suffix(DropOldest(q), q, m)
<1> DEFINE kept == (4 * MaxLen - 1) \div 5
           p == SubSeq(q, Len(q) - kept + 1, Len(q))
<1>1. kept \in Nat /\ kept <= MaxLen /\ MaxLen \in Nat
  BY ConstantsAssumption
<1> HIDE DEF kept
<1>2. /\ Len(q) - kept + 1 \in Int /\ Len(q) \in Int
      /\ \A i \in Len(q) - kept + 1 .. Len(q) : q[i] \in S
  BY <1>1
<1>3. /\ Len(p) = IF Len(q) - kept + 1 <= Len(q) THEN Len(q) - (Len(q) - kept + 1) + 1 ELSE 0
      /\ \A i \in 1 .. Len(q) - (Len(q) - kept + 1) + 1 : p[i] = q[(Len(q) - kept + 1) + i - 1]
  BY <1>2, SubSeqProperties
<1> HIDE DEF p
<1>4. Len(p) = kept /\ \A i \in 1 .. kept : p[i] = q[(Len(q) - kept + 1) + i - 1]
  BY <1>1, <1>3
<1>5. \A i \in 1 .. kept : (Len(q) - kept + 1) + i - 1 = i + (Len(q) - kept)
  BY <1>1
<1>6. Suffix(p, q, Len(q) - kept) /\ Len(q) - kept \in Nat
  BY <1>1, <1>4, <1>5 DEF Suffix
<1>7. DropOldest(q) = p
  BY DEF DropOldest, p, kept
<1> QED
  BY <1>6, <1>7

LEMMA TailSuffix ==
    ASSUME NEW S, NEW q \in Seq(S), q # <<>>
    PROVE  Suffix(Tail(q), q, 1)
BY HeadTailProperties DEF Suffix

\* Dropping numbers and giving out more keeps the rest told apart.
LEMMA SuffixTold ==
    ASSUME NEW c \in Connection, NEW d \in Connection, NEW m \in Nat, d.next >= c.next,
           Suffix(d.buffer, c.buffer, m), Clean(c),
           NEW jb \in [Job -> JobRecord], NEW J \in SUBSET Job, NEW s \in Stream,
           Carries(jb, J, s, c)
    PROVE  Clean(d) /\ Carries(jb, J, s, d)
<1>1. /\ c.buffer \in Seq(0 .. MaxChunks) /\ d.buffer \in Seq(0 .. MaxChunks)
      /\ c.next \in Nat /\ d.next \in Nat /\ \A j \in J : jb[j].seq \in Nat
  BY DEF Connection, JobRecord
<1>2. \A a \in DOMAIN d.buffer :
         /\ a \in Nat /\ a + m \in DOMAIN c.buffer /\ d.buffer[a] = c.buffer[a + m]
         /\ c.buffer[a + m] \in 0 .. MaxChunks
  BY <1>1, SuffixElements
<1>3. \A a \in DOMAIN d.buffer :
         a + m \in DOMAIN c.buffer /\ d.buffer[a] = c.buffer[a + m] /\ c.buffer[a + m] \in Nat
  BY <1>2
<1>4. \A a, b \in DOMAIN d.buffer : a # b => a + m # b + m
  BY <1>2
<1>5. Clean(d)
  BY <1>1, <1>3, <1>4 DEF Clean
<1>6. Carries(jb, J, s, d)
  BY <1>1, <1>3 DEF Carries
<1> QED
  BY <1>5, <1>6

\* The next chunk takes a number that nothing in the buffer or in flight has.
LEMMA NumberedTold ==
    ASSUME NEW c \in Connection, Len(c.buffer) <= MaxLen, c.next < MaxChunks, Clean(c),
           NEW jb \in [Job -> JobRecord], NEW J \in SUBSET Job, NEW s \in Stream,
           Carries(jb, J, s, c)
    PROVE  /\ Clean(Numbered(c)) /\ Carries(jb, J, s, Numbered(c))
           /\ c.next < Numbered(c).next
           /\ \A a \in DOMAIN Numbered(c).buffer : Numbered(c).buffer[a] # c.next
<1> DEFINE d == HandleBackpressure(c)
           e == Numbered(c)
<1>1. /\ c.buffer \in Seq(0 .. MaxChunks) /\ c.next \in Nat /\ MaxLen \in Nat
  BY ConstantsAssumption DEF Connection
<1>2. \E m \in Nat : Suffix(d.buffer, c.buffer, m)
  <2>1. CASE BufferFull(c) /\ c.strategy = "drop_oldest"
    <3>1. Len(c.buffer) = MaxLen
      BY <1>1, <2>1 DEF BufferFull
    <3>2. \E m \in Nat : Suffix(DropOldest(c.buffer), c.buffer, m)
      BY <1>1, <3>1, DropOldestSuffix
    <3>3. d = [c EXCEPT !.buffer = DropOldest(c.buffer)]
      BY <2>1 DEF HandleBackpressure
    <3>4. d.buffer = DropOldest(c.buffer)
      BY <3>3 DEF Connection
    <3> QED
      BY <3>2, <3>4
  <2>2. CASE ~(BufferFull(c) /\ c.strategy = "drop_oldest")
    <3>1. d = c
      BY <2>2 DEF HandleBackpressure
    <3>2. Suffix(c.buffer, c.buffer, 0)
      BY <1>1 DEF Suffix
    <3> QED
      BY <3>1, <3>2
  <2> QED
    BY <2>1, <2>2
<1>3. e.buffer = d.buffer /\ e.next = c.next + 1
  <2>1. d = c \/ d = [c EXCEPT !.buffer = DropOldest(c.buffer)]
    BY DEF HandleBackpressure
  <2>2. e = [d EXCEPT !.next = d.next + 1]
    BY DEF Numbered
  <2> HIDE DEF e, d
  <2> QED
    BY <2>1, <2>2 DEF Connection
<1>4. e \in Connection
  BY NumberedTyped
<1> HIDE DEF d, e
<1>5. PICK m \in Nat : Suffix(e.buffer, c.buffer, m)
  BY <1>2, <1>3
<1>6. Clean(e) /\ Carries(jb, J, s, e)
  <2>1. e.next >= c.next
    BY <1>1, <1>3
  <2> QED
    BY <1>4, <1>5, <2>1, SuffixTold
<1>7. \A a \in DOMAIN e.buffer : e.buffer[a] # c.next
  <2>1. e.buffer \in Seq(0 .. MaxChunks)
    BY <1>4 DEF Connection
  <2>2. \A a \in DOMAIN e.buffer : a + m \in DOMAIN c.buffer /\ e.buffer[a] = c.buffer[a + m]
    BY <1>1, <1>5, <2>1, SuffixElements
  <2>3. \A b \in DOMAIN c.buffer : c.buffer[b] < c.next
    BY DEF Clean
  <2> QED
    BY <1>1, <2>2, <2>3
<1>8. c.next < e.next
  BY <1>1, <1>3
<1> QED
  BY <1>6, <1>7, <1>8 DEF e

\* A number that was in flight, and in neither place any more, can go to the buffer.
LEMMA AppendTold ==
    ASSUME NEW c \in Connection, Len(c.buffer) <= MaxLen, Clean(c),
           NEW jb \in [Job -> JobRecord], NEW J \in SUBSET Job, NEW s \in Stream,
           Carries(jb, J, s, c),
           NEW n \in 0 .. MaxChunks, n < c.next, \A a \in DOMAIN c.buffer : c.buffer[a] # n,
           \A j \in J : Flying(jb, j, s) => jb[j].seq # n,
           NEW d \in Connection, d = [c EXCEPT !.buffer = AppendBounded(c.buffer, n)]
    PROVE  Clean(d) /\ Carries(jb, J, s, d)
<1> DEFINE p == IF Len(c.buffer) >= MaxLen THEN Tail(c.buffer) ELSE c.buffer
           e == [c EXCEPT !.buffer = p]
<1>1. /\ c.buffer \in Seq(0 .. MaxChunks) /\ MaxLen \in Nat \ {0} /\ Len(c.buffer) \in Nat
      /\ c.next \in Nat
  BY ConstantsAssumption DEF Connection
<1>2. p \in Seq(0 .. MaxChunks) /\ \E m \in Nat : Suffix(p, c.buffer, m)
  <2>1. CASE Len(c.buffer) >= MaxLen
    <3>1. c.buffer # <<>>
      BY <1>1, <2>1
    <3> QED
      BY <1>1, <2>1, <3>1, TailSuffix, HeadTailProperties
  <2>2. CASE ~(Len(c.buffer) >= MaxLen)
    <3>1. Suffix(c.buffer, c.buffer, 0)
      BY <1>1 DEF Suffix
    <3> QED
      BY <1>1, <2>2, <3>1
  <2> QED
    BY <2>1, <2>2
<1>3. AppendBounded(c.buffer, n) = Append(p, n)
  BY DEF AppendBounded
<1> HIDE DEF p
<1>4. e \in Connection /\ e.buffer = p /\ e.next = c.next
  BY <1>2 DEF Connection
<1>5. d.buffer = Append(p, n) /\ d.next = c.next
  BY <1>3 DEF Connection
<1> HIDE DEF e
<1>6. PICK m \in Nat : Suffix(p, c.buffer, m)
  BY <1>2
<1>7. Clean(e) /\ Carries(jb, J, s, e)
  <2>1. e.next >= c.next
    BY <1>1, <1>4
  <2> QED
    BY <1>4, <1>6, <2>1, SuffixTold
<1>8. \A a \in DOMAIN p : p[a] # n
  <2>1. \A a \in DOMAIN p : a + m \in DOMAIN c.buffer /\ p[a] = c.buffer[a + m]
    BY <1>1, <1>2, <1>6, SuffixElements
  <2> QED
    BY <2>1
<1>9. /\ DOMAIN d.buffer = 1 .. Len(p) + 1 /\ DOMAIN p = 1 .. Len(p) /\ Len(p) \in Nat
      /\ \A a \in 1 .. Len(p) : d.buffer[a] = p[a]
      /\ d.buffer[Len(p) + 1] = n
  BY <1>2, <1>5
<1>10. \A a \in DOMAIN d.buffer :
          \/ a \in DOMAIN p /\ d.buffer[a] = p[a]
          \/ a = Len(p) + 1 /\ d.buffer[a] = n
  BY <1>9
<1>11. Clean(d)
  BY <1>4, <1>5, <1>7, <1>8, <1>10 DEF Clean
<1>12. Carries(jb, J, s, d)
  BY <1>4, <1>5, <1>7, <1>10 DEF Carries
<1> QED
  BY <1>11, <1>12

LEMMA ToldApart ==
    ASSUME NEW cs, NEW jb, NEW kb, NEW j \in Job,
           \A i \in Job \ {j} : kb[i] = jb[i], Told(cs, jb, Job \ {j})
    PROVE  Told(cs, kb, Job \ {j})
BY DEF Told, Carries, Flying

LEMMA ToldFewer ==
    ASSUME NEW cs, NEW jb, NEW j \in Job, Told(cs, jb, Job)
    PROVE  Told(cs, jb, Job \ {j})
BY DEF Told, Carries

\* Job j is, after its step, at no send.
LEMMA Grounded ==
    ASSUME NEW cs, NEW jb, NEW kb, NEW j \in Job,
           \A i \in Job \ {j} : kb[i] = jb[i], Told(cs, jb, Job \ {j}), kb[j].op # "send"
    PROVE  Told(cs, kb, Job)
<1>1. Told(cs, kb, Job \ {j})
  BY ToldApart
<1>2. \A i \in Job, s \in Stream : Flying(kb, i, s) => i \in Job \ {j}
  BY DEF Flying
<1> HIDE DEF Flying
<1> QED
  BY <1>1, <1>2 DEF Told, Carries

\* Job j is, after its step, at a send to stream s with the next number of s.
LEMMA TakenOff ==
    ASSUME NEW cs, ConnTyped(cs), NEW s \in Stream, NEW d \in Connection,
           NEW jb \in [Job -> JobRecord], NEW kb \in [Job -> JobRecord], NEW j \in Job,
           \A i \in Job \ {j} : kb[i] = jb[i], Told(cs, jb, Job \ {j}),
           kb[j].op = "send", kb[j].at = s, kb[j].seq = cs[s].next,
           Clean(d), Carries(jb, Job \ {j}, s, d), cs[s].next < d.next,
           \A a \in DOMAIN d.buffer : d.buffer[a] # cs[s].next
    PROVE  Told([cs EXCEPT ![s] = d], kb, Job)
<1> DEFINE ds == [cs EXCEPT ![s] = d]
<1>1. cs \in [Stream -> Connection] /\ ds[s] = d /\ \A r \in Stream : r # s => ds[r] = cs[r]
  BY DEF ConnTyped
<1>2. Told(cs, kb, Job \ {j})
  BY ToldApart
<1>3. Carries(kb, Job \ {j}, s, d)
  BY DEF Carries, Flying
<1>4. cs[s].next \in Nat /\ \A i \in Job : kb[i].seq \in Nat
  <2>1. cs[s] \in Connection /\ \A i \in Job : kb[i] \in JobRecord
    BY <1>1
  <2> QED
    BY <2>1 DEF Connection, JobRecord
<1>5. ASSUME NEW i \in Job \ {j}, Flying(kb, i, s)
      PROVE  kb[i].seq # cs[s].next
  <2>1. kb[i].seq < cs[s].next
    BY <1>2, <1>5 DEF Told, Carries
  <2> QED
    BY <1>4, <2>1
<1>6. Carries(kb, Job, s, d)
  <2>1. ASSUME NEW i \in Job, Flying(kb, i, s)
        PROVE  kb[i].seq < d.next /\ \A a \in DOMAIN d.buffer : d.buffer[a] # kb[i].seq
    <3>1. CASE i = j
      BY <3>1
    <3>2. CASE i # j
      BY <1>3, <2>1, <3>2 DEF Carries
    <3> QED
      BY <3>1, <3>2
  <2>2. ASSUME NEW i \in Job, NEW k \in Job, Flying(kb, i, s), Flying(kb, k, s), i # k
        PROVE  kb[i].seq # kb[k].seq
    <3>1. CASE i = j \/ k = j
      BY <1>5, <2>2, <3>1
    <3>2. CASE i # j /\ k # j
      BY <1>3, <2>2, <3>2 DEF Carries
    <3> QED
      BY <3>1, <3>2
  <2> QED
    BY <2>1, <2>2 DEF Carries
<1>7. ASSUME NEW r \in Stream, r # s
      PROVE  Clean(ds[r]) /\ Carries(kb, Job, r, ds[r])
  <2>1. \A i \in Job : Flying(kb, i, r) => i \in Job \ {j}
    BY <1>7 DEF Flying
  <2>2. Clean(cs[r]) /\ Carries(kb, Job \ {j}, r, cs[r]) /\ ds[r] = cs[r]
    BY <1>1, <1>2, <1>7 DEF Told
  <2> HIDE DEF Flying, ds
  <2> QED
    BY <2>1, <2>2 DEF Carries
<1> HIDE DEF ds
<1>8. Told(ds, kb, Job)
  BY <1>1, <1>6, <1>7 DEF Told
<1> QED
  BY <1>8 DEF ds

LEMMA JobMoves ==
    ASSUME job \in [Job -> JobRecord], NEW j \in Job, NEW r, job' = [job EXCEPT ![j] = r]
    PROVE  job'[j] = r /\ \A i \in Job \ {j} : job'[i] = job[i]
OBVIOUS

LEMMA VisitTold ==
    ASSUME TypeOK, NEW j \in Job, NEW cs, ConnTyped(cs),
           Told(cs, job, Job \ {j}), Ahead(job, created),
           NEW todo \in SUBSET Stream, Visit(j, cs, todo)
    PROVE  Told(conn', job', Job) /\ Ahead(job', created)
<1> DEFINE ss == {r \in todo : Sendable(r) /\ Takes(cs[r])}
           s == First(ss)
<1>1. ss \in SUBSET todo /\ ss \in SUBSET Stream /\ ss \subseteq connections
  BY DEF Sendable
<1>2. s # Nobody => s \in ss /\ s \in Stream /\ s <= created
  <2>1. s # Nobody => s \in ss
    BY <1>1, FirstIsLeast
  <2>2. connections \subseteq 1 .. created /\ created \in Nat
    BY DEF TypeOK
  <2>3. s # Nobody => s \in Stream /\ s \in 1 .. created
    BY <1>1, <2>1, <2>2, Zenon
  <2> HIDE DEF s, ss
  <2> QED
    BY <2>1, <2>2, <2>3
<1>3. job \in [Job -> JobRecord] /\ job' \in [Job -> JobRecord] /\ ConnTyped(conn')
  BY VisitTyped DEF TypeOK
<1>4. CASE s = Nobody
  <2>1. conn' = cs /\ job' = [job EXCEPT ![j] = Idle]
    BY <1>4 DEF Visit
  <2>2. job'[j] = Idle /\ \A i \in Job \ {j} : job'[i] = job[i]
    BY <1>3, <2>1, JobMoves
  <2>3. job'[j].op = "none"
    BY <2>2 DEF Idle
  <2>4. Told(cs, job', Job)
    BY <2>2, <2>3, Grounded
  <2> QED
    BY <2>1, <2>2, <2>3, <2>4 DEF Ahead
<1>5. CASE s # Nobody /\ Blocks(cs[s])
  <2>1. /\ conn' = cs
        /\ job' = [job EXCEPT ![j] = [op |-> "blocked", at |-> s,
                                      todo |-> After(todo, s), seq |-> 0]]
    BY <1>5 DEF Visit
  <2>2. /\ job'[j] = [op |-> "blocked", at |-> s, todo |-> After(todo, s), seq |-> 0]
        /\ \A i \in Job \ {j} : job'[i] = job[i]
    BY <1>3, <2>1, JobMoves
  <2> HIDE DEF s
  <2>3. job'[j].op = "blocked" /\ job'[j].at = s
    BY <2>2
  <2>4. Told(cs, job', Job)
    BY <2>2, <2>3, Grounded
  <2> QED
    BY <1>2, <1>5, <2>1, <2>2, <2>3, <2>4 DEF Ahead
<1>6. CASE s # Nobody /\ ~Blocks(cs[s])
  <2>1. /\ conn' = [cs EXCEPT ![s] = Numbered(cs[s])]
        /\ job' = [job EXCEPT ![j] = [op |-> "send", at |-> s,
                                      todo |-> After(todo, s), seq |-> cs[s].next]]
    BY <1>6 DEF Visit
  <2>2. /\ job'[j] = [op |-> "send", at |-> s, todo |-> After(todo, s), seq |-> cs[s].next]
        /\ \A i \in Job \ {j} : job'[i] = job[i]
    BY <1>3, <2>1, JobMoves
  <2>3. s \in Stream /\ cs[s].next < MaxChunks
    BY <1>2, <1>6 DEF Takes
  <2> HIDE DEF s
  <2>4. job'[j].op = "send" /\ job'[j].at = s /\ job'[j].seq = cs[s].next
    BY <2>2
  <2>5. cs[s] \in Connection /\ Len(cs[s].buffer) <= MaxLen
    BY <2>3 DEF ConnTyped
  <2>6. Clean(cs[s]) /\ Carries(job, Job \ {j}, s, cs[s]) /\ Job \ {j} \in SUBSET Job
    BY <2>3 DEF Told
  <2>7. /\ Clean(Numbered(cs[s])) /\ Carries(job, Job \ {j}, s, Numbered(cs[s]))
        /\ cs[s].next < Numbered(cs[s]).next
        /\ \A a \in DOMAIN Numbered(cs[s]).buffer : Numbered(cs[s]).buffer[a] # cs[s].next
    BY <1>3, <2>3, <2>5, <2>6, NumberedTold
  <2>8. Numbered(cs[s]) \in Connection
    BY <2>3, <2>5, NumberedTyped
  <2>9. Told([cs EXCEPT ![s] = Numbered(cs[s])], job', Job)
    BY <1>3, <2>2, <2>3, <2>4, <2>7, <2>8, TakenOff
  <2> QED
    BY <1>2, <1>6, <2>1, <2>2, <2>4, <2>9 DEF Ahead
<1> QED
  BY <1>4, <1>5, <1>6

LEMMA PollTold ==
    ASSUME TypeOK, NumbersInv, NEW j \in Job, Poll(j)
    PROVE  Told(conn', job', Job) /\ Ahead(job', created)
<1> DEFINE s == job[j].at
           c == conn[s]
           d == [c EXCEPT !.next = c.next + 1]
<1>1. /\ job \in [Job -> JobRecord] /\ ConnTyped(conn) /\ job' \in [Job -> JobRecord]
      /\ s \in Stream
  BY TypeParts, PollTyped, JobParts DEF Poll
<1>2. CASE UNCHANGED <<conn, job>>
  BY <1>2 DEF NumbersInv
<1>3. CASE /\ ~(2 * Len(c.buffer) >= MaxLen \/ c.next >= MaxChunks)
           /\ conn' = [conn EXCEPT ![s].next = @ + 1]
           /\ job' = [job EXCEPT ![j].op = "send", ![j].seq = c.next]
  <2>1. job[j] \in JobRecord /\ c \in Connection
    BY <1>1 DEF ConnTyped
  <2>2. /\ job'[j] = [job[j] EXCEPT !.op = "send", !.seq = c.next]
        /\ \A i \in Job \ {j} : job'[i] = job[i]
    BY <1>1, <1>3
  <2>3. job'[j].op = "send" /\ job'[j].at = s /\ job'[j].seq = c.next
    BY <2>1, <2>2 DEF JobRecord
  <2>4. c.next < MaxChunks /\ c.next + 1 \in 0 .. MaxChunks /\ c.next \in Nat
        /\ c.buffer \in Seq(0 .. MaxChunks)
    BY <1>3, <2>1, ConstantsAssumption DEF Connection
  <2>5. d \in Connection /\ d.buffer = c.buffer /\ d.next = c.next + 1
    BY <2>1, <2>4 DEF Connection
  <2>6. conn' = [conn EXCEPT ![s] = d]
    BY <1>1, <1>3, <2>1 DEF ConnTyped, Connection
  <2>7. Told(conn, job, Job \ {j})
    BY ToldFewer DEF NumbersInv
  <2>8. Clean(c) /\ Carries(job, Job \ {j}, s, c)
    BY <1>1, <2>7 DEF Told
  <2>9. Suffix(d.buffer, c.buffer, 0) /\ d.next >= c.next /\ Job \ {j} \in SUBSET Job
    BY <2>4, <2>5 DEF Suffix
  <2> HIDE DEF d, s
  <2>10. Clean(d) /\ Carries(job, Job \ {j}, s, d)
    BY <1>1, <2>1, <2>5, <2>8, <2>9, SuffixTold
  <2>11. c.next < d.next /\ \A a \in DOMAIN d.buffer : d.buffer[a] # c.next
    <3>1. \A a \in DOMAIN c.buffer : c.buffer[a] < c.next
      BY <2>8 DEF Clean
    <3> QED
      BY <2>4, <2>5, <3>1
  <2>12. Told([conn EXCEPT ![s] = d], job', Job)
    <3>1. ConnTyped(conn) /\ s \in Stream /\ d \in Connection
      BY <1>1, <2>5
    <3>2. \A i \in Job \ {j} : job'[i] = job[i]
      BY <2>2
    <3>3. job'[j].op = "send" /\ job'[j].at = s /\ job'[j].seq = conn[s].next
      BY <2>3
    <3>4. conn[s].next < d.next /\ \A a \in DOMAIN d.buffer : d.buffer[a] # conn[s].next
      BY <2>11
    <3> QED
      BY <1>1, <2>7, <2>10, <3>1, <3>2, <3>3, <3>4, TakenOff, SMTT(60)
  <2>13. job[j].at <= created
    BY DEF NumbersInv, Ahead, Poll
  <2> QED
    BY <2>2, <2>3, <2>6, <2>12, <2>13 DEF NumbersInv, Ahead, s
<1> QED
  BY <1>2, <1>3 DEF Poll

\* A step that touches no buffer, gives out no number and sends nothing.
Quiet ==
    /\ created' = created
    /\ \A s \in Stream : conn'[s].buffer = conn[s].buffer /\ conn'[s].next = conn[s].next
    /\ \A i \in Job : job'[i] = job[i] \/ job'[i].op \notin {"send", "blocked"}

LEMMA QuietTold ==
    ASSUME NumbersInv, Quiet
    PROVE  NumbersInv'
<1>1. \A i \in Job, s \in Stream : Flying(job', i, s) => Flying(job, i, s) /\ job'[i] = job[i]
  BY DEF Quiet, Flying
<1>2. ASSUME NEW s \in Stream
      PROVE  Clean(conn'[s]) /\ Carries(job', Job, s, conn'[s])
  <2>1. Clean(conn[s]) /\ Carries(job, Job, s, conn[s])
    BY DEF NumbersInv, Told
  <2>2. conn'[s].buffer = conn[s].buffer /\ conn'[s].next = conn[s].next
    BY DEF Quiet
  <2>3. Clean(conn'[s])
    BY <2>1, <2>2 DEF Clean
  <2> HIDE DEF Flying
  <2>4. Carries(job', Job, s, conn'[s])
    BY <1>1, <2>1, <2>2 DEF Carries
  <2> QED
    BY <2>3, <2>4
<1>3. Told(conn', job', Job)
  BY <1>2 DEF Told
<1>4. Ahead(job', created')
  BY DEF NumbersInv, Ahead, Quiet
<1> QED
  BY <1>3, <1>4 DEF NumbersInv

LEMMA StoppedQuiet ==
    ASSUME TypeOK, NEW j \in Job, NEW reg, NEW todo \in SUBSET Stream, StopNext(j, reg, todo),
           created' = created
    PROVE  Quiet
<1>1. conn \in [Stream -> Connection] /\ job \in [Job -> JobRecord]
  BY DEF TypeOK
<1>2. PICK s : conn' = Stopped(s)
  BY DEF StopNext
<1>3. \/ conn' = conn
      \/ conn' = [conn EXCEPT ![s].is_active = FALSE, ![s].state = "disconnected"]
  BY <1>2 DEF Stopped
<1>4. \A r \in Stream : conn'[r].buffer = conn[r].buffer /\ conn'[r].next = conn[r].next
  BY <1>1, <1>3 DEF Connection
<1>5. \A i \in Job : job'[i] = job[i] \/ job'[i].op \notin {"send", "blocked"}
  <2> DEFINE first == First(todo \intersect reg)
             r == [op |-> "disconnect", at |-> first, todo |-> After(todo, first), seq |-> 0]
  <2>1. Idle.op = "none" /\ r.op = "disconnect"
    BY DEF Idle
  <2>2. CASE first = Nobody
    <3>1. Through(j)
      BY <2>2 DEF StopNext
    <3>2. \A i \in Job : job'[i] = job[i] \/ job'[i] = Idle
      BY <1>1, <3>1 DEF Through
    <3> QED
      BY <2>1, <3>2
  <2>3. CASE first # Nobody
    <3>1. job' = [job EXCEPT ![j] = r]
      BY <2>3 DEF StopNext
    <3> HIDE DEF r
    <3> QED
      BY <1>1, <2>1, <3>1
  <2> QED
    BY <2>2, <2>3
<1> QED
  BY <1>4, <1>5 DEF Quiet

LEMMA SendDoneTold ==
    ASSUME TypeOK, NumbersInv, NEW j \in Job, SendDone(j)
    PROVE  Told(conn', job', Job) /\ Ahead(job', created)
<1>1. /\ job \in [Job -> JobRecord] /\ ConnTyped(conn)
      /\ job[j].at \in Stream /\ job[j].todo \in SUBSET Stream /\ job[j].seq \in 0 .. MaxChunks
      /\ job[j].op = "send"
  BY TypeParts, JobParts DEF SendDone
<1>2. PICK s \in Stream, n \in 0 .. MaxChunks : s = job[j].at /\ n = job[j].seq
  BY <1>1
<1>3. PICK c \in Connection : c = conn[s] /\ Len(c.buffer) <= MaxLen
  BY <1>1 DEF ConnTyped
<1>4. PICK cs : cs = [conn EXCEPT ![s].buffer = AppendBounded(@, n)]
  OBVIOUS
<1>5. ConnTyped(cs)
  BY <1>1, <1>4, BufferTyped
<1>6. PICK d : d = [c EXCEPT !.buffer = AppendBounded(c.buffer, n)]
  OBVIOUS
<1>7. cs[s] = d /\ \A r \in Stream : r # s => cs[r] = conn[r]
  <2>1. conn \in [Stream -> Connection]
    BY <1>1 DEF ConnTyped
  <2> QED
    BY <1>3, <1>4, <1>6, <2>1
<1>8. d \in Connection
  BY <1>5, <1>7 DEF ConnTyped
<1>9. /\ Clean(c) /\ Carries(job, Job \ {j}, s, c) /\ Job \ {j} \in SUBSET Job
      /\ Told(conn, job, Job \ {j})
  BY <1>3, ToldFewer DEF NumbersInv, Told
<1>10. /\ n < c.next /\ \A a \in DOMAIN c.buffer : c.buffer[a] # n
       /\ \A i \in Job \ {j} : Flying(job, i, s) => job[i].seq # n
  <2>1. Flying(job, j, s) /\ Carries(job, Job, s, c)
    BY <1>1, <1>2, <1>3 DEF Flying, NumbersInv, Told
  <2> HIDE DEF Flying
  <2> QED
    BY <1>2, <2>1 DEF Carries
<1>11. Clean(d) /\ Carries(job, Job \ {j}, s, d)
  BY <1>1, <1>3, <1>6, <1>8, <1>9, <1>10, AppendTold
<1>12. Told(cs, job, Job \ {j})
  BY <1>7, <1>9, <1>11 DEF Told
<1>13. Visit(j, cs, job[j].todo)
  BY <1>2, <1>4 DEF SendDone
<1> QED
  BY <1>1, <1>5, <1>12, <1>13, VisitTold DEF NumbersInv

LEMMA CreateTold ==
    ASSUME TypeOK, NumbersInv, CreateStream
    PROVE  NumbersInv'
<1>1. /\ created' = created + 1 /\ created \in Nat /\ created + 1 \in Stream /\ job' = job
      /\ conn \in [Stream -> Connection] /\ job \in [Job -> JobRecord]
  BY ConstantsAssumption DEF CreateStream, TypeOK, Stream
<1>2. PICK x : conn' = [conn EXCEPT ![created + 1] = NewConnection(x)]
  BY <1>1 DEF CreateStream
<1>3. PICK n \in Stream : n = created + 1
  BY <1>1
<1>4. conn'[n] = NewConnection(x) /\ \A s \in Stream : s # n => conn'[s] = conn[s]
  BY <1>1, <1>2, <1>3
<1>5. \A i \in Job : ~Flying(job, i, n)
  <2>1. ASSUME NEW i \in Job, Flying(job, i, n)
        PROVE  FALSE
    <3>1. job[i].at <= created /\ job[i].at = created + 1
      BY <1>3, <2>1 DEF NumbersInv, Ahead, Flying
    <3> QED
      BY <1>1, <3>1
  <2> QED
    BY <2>1
<1>6. NewConnection(x).buffer = <<>>
  BY DEF NewConnection
<1>7. Clean(NewConnection(x))
  BY <1>6 DEF Clean
<1>8. Carries(job, Job, n, NewConnection(x))
  BY <1>5 DEF Carries
<1>9. ASSUME NEW s \in Stream
      PROVE  Clean(conn'[s]) /\ Carries(job', Job, s, conn'[s])
  <2>1. CASE s = n
    BY <1>1, <1>4, <1>7, <1>8, <2>1
  <2>2. CASE s # n
    BY <1>1, <1>4, <2>2 DEF NumbersInv, Told
  <2> QED
    BY <2>1, <2>2
<1>10. Ahead(job', created')
  <2>1. \A j \in Job : job[j].at \in Nat
    BY <1>1, JobParts DEF Stream, Nobody
  <2>2. ASSUME NEW j \in Job, job[j].op \in {"send", "blocked"}
        PROVE  job[j].at <= created + 1
    BY <1>1, <2>1, <2>2 DEF NumbersInv, Ahead
  <2> QED
    BY <1>1, <2>2 DEF Ahead
<1> QED
  BY <1>9, <1>10 DEF NumbersInv, Told

LEMMA NextTold ==
    ASSUME TypeOK, Started, NumbersInv, [Next]_vars
    PROVE  NumbersInv'
<1>1. /\ conn \in [Stream -> Connection] /\ job \in [Job -> JobRecord]
      /\ Caller \subseteq Job /\ HeartbeatLoop \subseteq Job /\ CleanupLoop \subseteq Job
      /\ ConnTyped(conn) /\ connections \in SUBSET Stream
  BY TypeParts, FrameStreams, Apart DEF TypeOK
<1>2. CASE CreateStream
  BY <1>2, CreateTold
<1>3. ASSUME NEW j \in Job, SendDone(j) \/ Poll(j)
      PROVE  NumbersInv'
  <2>1. Told(conn', job', Job) /\ Ahead(job', created)
    BY <1>3, SendDoneTold, PollTold
  <2>2. created' = created
    BY <1>3 DEF SendDone, Poll
  <2> QED
    BY <2>1, <2>2 DEF NumbersInv
<1>4. ASSUME NEW j \in Job, Send(j) \/ SendFailed(j)
      PROVE  NumbersInv'
  <2>1. \E todo \in SUBSET Stream : Visit(j, conn, todo)
    <3>1. CASE Send(j)
      <4>1. PICK todo \in {{s} : s \in connections} \union {connections} : Visit(j, conn, todo)
        BY <3>1 DEF Send
      <4>2. todo \in SUBSET Stream
        BY <1>1
      <4> QED
        BY <4>1, <4>2
    <3>2. CASE SendFailed(j)
      BY <1>1, <3>2, JobParts DEF SendFailed
    <3> QED
      BY <1>4, <3>1, <3>2
  <2>2. PICK todo \in SUBSET Stream : Visit(j, conn, todo)
    BY <2>1
  <2>3. Told(conn, job, Job \ {j}) /\ Ahead(job, created)
    BY ToldFewer DEF NumbersInv
  <2>4. Told(conn', job', Job) /\ Ahead(job', created)
    BY <1>1, <2>2, <2>3, VisitTold
  <2>5. created' = created
    BY <1>4 DEF Send, SendFailed
  <2> QED
    BY <2>4, <2>5 DEF NumbersInv
<1>5. ASSUME NEW j \in Job, DisconnectEnd(j) \/ \E s \in Stream : DisconnectBegin(j, s)
      PROVE  NumbersInv'
  <2>1. job[j].todo \in SUBSET Stream
    BY <1>1, JobParts
  <2>2. \E reg, todo : todo \in SUBSET Stream /\ StopNext(j, reg, todo)
    BY <1>5, <2>1 DEF DisconnectBegin, DisconnectEnd
  <2>3. created' = created
    BY <1>5 DEF DisconnectBegin, DisconnectEnd
  <2> QED
    BY <2>2, <2>3, StoppedQuiet, QuietTold
<1>6. ASSUME NEW l \in CleanupLoop, SweepBegin(l)
      PROVE  NumbersInv'
  <2>1. {s \in connections : silent[s]} \in SUBSET Stream /\ l \in Job
    BY <1>1
  <2>2. created' = created
    BY <1>6 DEF SweepBegin
  <2>3. Quiet
    BY <1>1, <1>6, <2>1, <2>2, StoppedQuiet DEF SweepBegin
  <2> QED
    BY <2>3, QuietTold
<1>10. CASE StopBegin
  <2>1. <<"stop", starts>> \in Job
    BY <1>10 DEF StopBegin, Started, Stopping, Job
  <2>2. created' = created
    BY <1>10 DEF StopBegin
  <2>3. Quiet
    BY <1>1, <1>10, <2>1, <2>2, StoppedQuiet DEF StopBegin
  <2> QED
    BY <2>3, QuietTold
<1>7. ASSUME NEW j \in Job, ConnectEnd(j) \/ \E s \in Stream : ConnectBegin(j, s)
      PROVE  NumbersInv'
  <2>1. PICK s, state, r :
           /\ \/ conn' = [conn EXCEPT ![s].state = state]
              \/ conn' = [conn EXCEPT ![s].state = state, ![s].is_active = TRUE]
           /\ job' = [job EXCEPT ![j] = r] /\ r.op \in {"none", "connect"} /\ created' = created
    BY <1>7 DEF ConnectBegin, ConnectEnd, Idle
  <2>2. \A q \in Stream : conn'[q].buffer = conn[q].buffer /\ conn'[q].next = conn[q].next
    <3>1. CASE conn' = [conn EXCEPT ![s].state = state]
      BY <1>1, <3>1 DEF Connection
    <3>2. CASE conn' = [conn EXCEPT ![s].state = state, ![s].is_active = TRUE]
      BY <1>1, <3>2 DEF Connection
    <3> QED
      BY <2>1, <3>1, <3>2
  <2>3. \A i \in Job : job'[i] = job[i] \/ job'[i].op \notin {"send", "blocked"}
    BY <1>1, <2>1
  <2> QED
    BY <2>1, <2>2, <2>3, QuietTold DEF Quiet
<1>8. ASSUME NEW l \in HeartbeatLoop, BeatBegin(l) \/ BeatSent(l) \/ BeatFailed(l)
      PROVE  NumbersInv'
  <2>1. conn' = conn /\ created' = created
    BY <1>8 DEF BeatBegin, BeatSent, BeatFailed
  <2>2. ASSUME NEW todo, Beat(l, todo)
        PROVE  \A i \in Job : job'[i] = job[i] \/ job'[i].op \notin {"send", "blocked"}
    <3> DEFINE first == First({r \in todo : conn[r].is_active})
               beating == [op |-> "heartbeat", at |-> first,
                           todo |-> After(todo, first), seq |-> 0]
    <3>1. job' = [job EXCEPT ![l] = IF first = Nobody THEN Idle ELSE beating]
      BY <2>2 DEF Beat
    <3>2. beating.op = "heartbeat" /\ Idle.op = "none"
      BY DEF Idle
    <3> HIDE DEF beating, first
    <3> QED
      BY <1>1, <3>1, <3>2
  <2>3. \A i \in Job : job'[i] = job[i] \/ job'[i].op \notin {"send", "blocked"}
    BY <1>8, <2>2 DEF BeatBegin, BeatSent, BeatFailed
  <2> QED
    BY <2>1, <2>3, QuietTold DEF Quiet
<1>9. CASE \/ Start \/ UNCHANGED vars
           \/ \E l \in Loop : LoopEnds(l)
           \/ \E s \in Stream : Pause(s) \/ Resume(s) \/ ClientBeat(s) \/ FallSilent(s)
  <2>1. PICK s, state : /\ conn' = conn \/ conn' = [conn EXCEPT ![s].state = state]
                        /\ job' = job /\ created' = created
    BY <1>9 DEF Start, LoopEnds, vars, Pause, Resume, ClientBeat, FallSilent
  <2>2. \A q \in Stream : conn'[q].buffer = conn[q].buffer /\ conn'[q].next = conn[q].next
    BY <1>1, <2>1 DEF Connection
  <2> QED
    BY <2>1, <2>2, QuietTold DEF Quiet
<1> QED
  BY <1>1, <1>2, <1>3, <1>4, <1>5, <1>6, <1>7, <1>8, <1>9, <1>10 DEF Next

\* The numbers in a stream's retransmission buffer and in flight to it are all different,
\* with any number of senders at once and whatever DROP_OLDEST and BLOCK do in between.
THEOREM NumbersAlwaysUnique == Spec => []NumbersUnique
<1>1. Init => NumbersInv
  <2> SUFFICES ASSUME Init PROVE NumbersInv
    OBVIOUS
  <2>1. \A j \in Job : job[j].op = "none"
    BY DEF Init, Idle
  <2>2. \A s \in Stream : conn[s].buffer = <<>>
    BY DEF Init, NewConnection
  <2>3. \A s \in Stream : Clean(conn[s]) /\ Carries(job, Job, s, conn[s])
    BY <2>1, <2>2 DEF Clean, Carries, Flying
  <2> QED
    BY <2>1, <2>3 DEF NumbersInv, Told, Ahead
<1>2. TypeOK /\ Started /\ NumbersInv /\ [Next]_vars => NumbersInv'
  BY NextTold
<1>3. TypeOK /\ NumbersInv => NumbersUnique
  <2> SUFFICES ASSUME TypeOK, NumbersInv, NEW s \in Stream
               PROVE  /\ Clean(conn[s])
                      /\ \A i, j \in InFlight(s) : i # j => job[i].seq # job[j].seq
                      /\ \A j \in InFlight(s), a \in DOMAIN conn[s].buffer :
                            job[j].seq # conn[s].buffer[a]
    BY DEF NumbersUnique, Clean
  <2>1. Clean(conn[s]) /\ Carries(job, Job, s, conn[s])
    BY DEF NumbersInv, Told
  <2> QED
    BY <2>1 DEF Carries, Flying, InFlight
<1> QED
  BY <1>1, <1>2, <1>3, AlwaysStarted, StreamsTypeCorrect, PTL DEF Spec
=============================================================================

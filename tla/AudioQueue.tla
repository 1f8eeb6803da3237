----------------------------- MODULE AudioQueue -----------------------------
(***************************************************************************)
(* AudioQueue (core/audio/queue_system): producer threads put chunks,      *)
(* worker threads take one at a time and report it completed or failed, a  *)
(* cleanup thread drops stale chunks.  Every method runs under the queue's *)
(* lock, so an action is one pass through a locked region; a blocked put   *)
(* polls with wait(0.1) and simply tries again.                            *)
(*                                                                         *)
(* A chunk is a number given in the order of created_at.  Abstracted: the  *)
(* audio, tags and sources, clock values, and the statistics nobody reads. *)
(***************************************************************************)
EXTENDS Naturals, FiniteSets, Sequences

CONSTANTS
    Producer, Worker,
    MaxSize,      \* deque(maxlen=max_size)
    MaxRetries,   \* AudioChunkMetadata.max_retries
    Priorities,   \* the priorities in use, of 0 (CRITICAL) .. 4 (BULK)
    MaxChunks     \* bound: calls of put

LOW == 3
Chunk == 1 .. MaxChunks
NoChunk == 0

ASSUME SizeAssumption ==
    /\ MaxSize \in Nat \ {0}
    /\ MaxRetries \in Nat
    /\ MaxChunks \in Nat
    /\ Priorities \subseteq 0 .. 4

Modes == {"nowait", "timed", "forever"}   \* block=False, timeout=t, neither
Status == {"PENDING", "PROCESSING", "COMPLETED", "FAILED"}
Causes == {"evicted", "stale", "cleared", "overflow"}

VARIABLES
    arrays,     \* the payloads are many-element arrays: == between two raises
    born,       \* chunks created so far
    priority, old, status, retries,     \* of each chunk
    call, mode,                         \* each producer's pending put
    queue, registry,
    hands,                              \* the chunk each worker holds
    totals,                             \* enqueued, dequeued, failed
    deliveries, lost                    \* history: per chunk; per cause

chunkVars == <<arrays, born, priority>>
putVars == <<call, mode>>
history == <<deliveries, lost>>
vars == <<chunkVars, old, status, retries, putVars, queue, registry, hands, totals, history>>

Elements(s) == {s[i] : i \in DOMAIN s}
Occurrences(s, c) == Cardinality({i \in DOMAIN s : s[i] = c})
Held == {hands[w] : w \in Worker} \ {NoChunk}
Pending == {call[p] : p \in Producer} \ {NoChunk}

\* What deque.remove leaves of s: the positions of K, in their order.
Nth(K, n) == CHOOSE i \in K : Cardinality({j \in K : j <= i}) = n
Keep(s, K) == [n \in 1 .. Cardinality(K) |-> s[Nth(K, n)]]

\* Mutant: the size test is off by one.
BugFull == Len(queue) > MaxSize

\* The test of put.
Full == Len(queue) >= MaxSize

\* Mutant: an unbounded deque.
BugAppendBounded(q, c) == Append(q, c)

\* deque.append on a full deque drops the chunk at the other end.
AppendBounded(q, c) == Append(IF Len(q) >= MaxSize THEN Tail(q) ELSE q, c)

Init ==
    /\ arrays \in BOOLEAN
    /\ born = 0
    /\ priority = [c \in Chunk |-> LOW]
    /\ old = [c \in Chunk |-> FALSE]
    /\ status = [c \in Chunk |-> "PENDING"]
    /\ retries = [c \in Chunk |-> 0]
    /\ call = [p \in Producer |-> NoChunk]
    /\ mode = [p \in Producer |-> "forever"]
    /\ queue = <<>>
    /\ registry = {}
    /\ hands = [w \in Worker |-> NoChunk]
    /\ totals = [enqueued |-> 0, dequeued |-> 0, failed |-> 0]
    /\ deliveries = [c \in Chunk |-> 0]
    /\ lost = [cause \in Causes |-> 0]

-----------------------------------------------------------------------------
(* put: the chunk is stamped before the lock is taken.                       *)

PutCall(p) ==
    /\ call[p] = NoChunk
    /\ born < MaxChunks
    /\ born' = born + 1
    /\ call' = [call EXCEPT ![p] = born']
    /\ \E m \in Modes : mode' = [mode EXCEPT ![p] = m]
    /\ \E n \in Priorities : priority' = [priority EXCEPT ![born'] = n]
    /\ UNCHANGED <<arrays, old, status, retries, queue, registry, hands, totals, history>>

\* The chunk enters at the back of q, out of registered chunks reg.
Enqueue(p, q, reg) ==
    /\ queue' = AppendBounded(q, call[p])
    /\ registry' = reg \union {call[p]}
    /\ totals' = [totals EXCEPT !.enqueued = @ + 1]
    /\ call' = [call EXCEPT ![p] = NoChunk]
    /\ mode' = [mode EXCEPT ![p] = "forever"]

PutAppend(p) ==
    /\ call[p] # NoChunk
    /\ ~Full
    /\ Enqueue(p, queue, registry)
    /\ UNCHANGED <<chunkVars, old, status, retries, hands, history>>

PutAborts(p) ==
    /\ call' = [call EXCEPT ![p] = NoChunk]
    /\ mode' = [mode EXCEPT ![p] = "forever"]
    /\ UNCHANGED <<chunkVars, old, status, retries, queue, registry, hands, totals, history>>

\* block=False on a full queue, or the timeout has passed.
PutRefused(p) ==
    /\ call[p] # NoChunk
    /\ Full
    /\ mode[p] \in {"nowait", "timed"}
    /\ PutAborts(p)

\* Mutant: the newest low-priority chunk goes, ahead of lower priorities.
BugVictims ==
    {i \in DOMAIN queue : \A j \in DOMAIN queue : queue[j] <= queue[i]}

\* _remove_low_priority_items: the least important chunk, the oldest of those.
Victims ==
    {i \in DOMAIN queue :
        /\ priority[queue[i]] >= LOW
        /\ \A j \in DOMAIN queue :
              \/ priority[queue[j]] < priority[queue[i]]
              \/ priority[queue[j]] = priority[queue[i]] /\ queue[i] <= queue[j]}

\* deque.remove compares the chunks before the one sought: arrays make it raise.
Removable(i) == i = 1 \/ ~arrays

PutEvicting(p) ==
    /\ call[p] # NoChunk
    /\ Full
    /\ mode[p] # "nowait"
    /\ \E i \in Victims :
          /\ Removable(i)
          /\ Enqueue(p, Keep(queue, DOMAIN queue \ {i}), registry \ {queue[i]})
    /\ lost' = [lost EXCEPT !["evicted"] = @ + 1]
    /\ UNCHANGED <<chunkVars, old, status, retries, hands, deliveries>>

PutRaises(p) ==
    /\ call[p] # NoChunk
    /\ Full
    /\ mode[p] # "nowait"
    /\ \E i \in Victims : ~Removable(i)
    /\ PutAborts(p)

-----------------------------------------------------------------------------
(* Workers.                                                                  *)

\* Mutant: the chunk is looked at, and stays queued.
BugGet(w) ==
    /\ hands[w] = NoChunk
    /\ queue # <<>>
    /\ hands' = [hands EXCEPT ![w] = Head(queue)]
    /\ deliveries' = [deliveries EXCEPT ![Head(queue)] = @ + 1]
    /\ UNCHANGED <<chunkVars, old, status, retries, putVars, queue, registry, totals, lost>>

Get(w) ==
    /\ hands[w] = NoChunk
    /\ queue # <<>>
    /\ hands' = [hands EXCEPT ![w] = Head(queue)]
    /\ queue' = Tail(queue)
    /\ status' = [status EXCEPT ![Head(queue)] = "PROCESSING"]
    /\ totals' = [totals EXCEPT !.dequeued = @ + 1]
    /\ deliveries' = [deliveries EXCEPT ![Head(queue)] = @ + 1]
    /\ UNCHANGED <<chunkVars, old, retries, putVars, registry, lost>>

MarkCompleted(w) ==
    /\ hands[w] # NoChunk
    /\ hands' = [hands EXCEPT ![w] = NoChunk]
    /\ status' = IF hands[w] \in registry
                 THEN [status EXCEPT ![hands[w]] = "COMPLETED"] ELSE status
    /\ UNCHANGED <<chunkVars, old, retries, putVars, queue, registry, totals, history>>

CanRetry(c) == retries[c] < MaxRetries

MarkFailedRetry(w) ==
    LET c == hands[w] IN
    /\ c \in registry
    /\ CanRetry(c)
    /\ hands' = [hands EXCEPT ![w] = NoChunk]
    /\ status' = [status EXCEPT ![c] = "PENDING"]
    /\ retries' = [retries EXCEPT ![c] = @ + 1]
    /\ queue' = AppendBounded(queue, c)
    /\ totals' = [totals EXCEPT !.failed = @ + 1]
    /\ lost' = IF Len(queue) = MaxSize THEN [lost EXCEPT !["overflow"] = @ + 1] ELSE lost
    /\ UNCHANGED <<chunkVars, old, putVars, registry, deliveries>>

MarkFailedFinal(w) ==
    LET c == hands[w] IN
    /\ c \in registry
    /\ ~CanRetry(c)
    /\ hands' = [hands EXCEPT ![w] = NoChunk]
    /\ status' = [status EXCEPT ![c] = "FAILED"]
    /\ totals' = [totals EXCEPT !.failed = @ + 1]
    /\ UNCHANGED <<chunkVars, old, retries, putVars, queue, registry, history>>

\* Mutant: a chunk the registry does not know is queued again all the same.
BugMarkFailedUnknown(w) ==
    /\ hands[w] # NoChunk
    /\ hands[w] \notin registry
    /\ hands' = [hands EXCEPT ![w] = NoChunk]
    /\ queue' = AppendBounded(queue, hands[w])
    /\ UNCHANGED <<chunkVars, old, status, retries, putVars, registry, totals, history>>

\* The registry was cleared meanwhile: mark_failed returns False.
MarkFailedUnknown(w) ==
    /\ hands[w] # NoChunk
    /\ hands[w] \notin registry
    /\ hands' = [hands EXCEPT ![w] = NoChunk]
    /\ UNCHANGED <<chunkVars, old, status, retries, putVars, queue, registry, totals, history>>

-----------------------------------------------------------------------------
(* Time, cleanup and clear.                                                  *)

\* max_age or the processing deadline passes for a chunk cleanup may yet look at.
GrowOld(c) ==
    /\ c \in Elements(queue) \union Held \union Pending
    /\ ~old[c]
    /\ old' = [old EXCEPT ![c] = TRUE]
    /\ UNCHANGED <<chunkVars, status, retries, putVars, queue, registry, hands, totals, history>>

Stale(c) == old[c] \/ status[c] \in {"COMPLETED", "FAILED"}

\* Mutant: a chunk is removed by its position before the removals of the same call.
BugCleanable ==
    {i \in DOMAIN queue : \E j \in 1 .. i : Stale(queue[j])}

\* The stale chunks that deque.remove finds: all of them, or with arrays those
\* with no fresh chunk before them ("except ValueError: pass").
Cleanable ==
    {i \in DOMAIN queue :
        /\ Stale(queue[i])
        /\ arrays => \A j \in 1 .. i : Stale(queue[j])}

\* Mutant: the registry entries of cleaned chunks stay.
BugForget(removed) == registry

Forget(removed) == registry \ removed

\* cleanup_old_chunks, one call of the cleanup thread.
Cleanup ==
    /\ Cleanable # {}
    /\ queue' = Keep(queue, DOMAIN queue \ Cleanable)
    /\ lost' = [lost EXCEPT !["stale"] = @ + Cardinality(Cleanable)]
    /\ registry' = Forget({queue[i] : i \in Cleanable})
    /\ UNCHANGED <<chunkVars, old, status, retries, putVars, hands, totals, deliveries>>

Clear ==
    /\ registry # {}
    /\ lost' = [lost EXCEPT !["cleared"] = @ + Len(queue)]
    /\ queue' = <<>>
    /\ registry' = {}
    /\ UNCHANGED <<chunkVars, old, status, retries, putVars, hands, totals, deliveries>>

Next ==
    \/ \E p \in Producer :
          PutCall(p) \/ PutAppend(p) \/ PutRefused(p) \/ PutEvicting(p) \/ PutRaises(p)
    \/ \E w \in Worker :
          \/ Get(w) \/ MarkCompleted(w)
          \/ MarkFailedRetry(w) \/ MarkFailedFinal(w) \/ MarkFailedUnknown(w)
    \/ \E c \in Chunk : GrowOld(c)
    \/ Cleanup
    \/ Clear

Spec == Init /\ [][Next]_vars

-----------------------------------------------------------------------------
\* f[1] + ... + f[MaxChunks]
SumOver(f) ==
    LET sum[n \in 0 .. MaxChunks] == IF n = 0 THEN 0 ELSE sum[n - 1] + f[n]
    IN  sum[MaxChunks]

\* The variables stay in their ranges, and the deque within max_size.
TypeOK ==
    /\ arrays \in BOOLEAN
    /\ born \in 0 .. MaxChunks
    /\ priority \in [Chunk -> 0 .. 4]
    /\ old \in [Chunk -> BOOLEAN]
    /\ status \in [Chunk -> Status]
    /\ retries \in [Chunk -> 0 .. MaxRetries]
    /\ call \in [Producer -> Chunk \union {NoChunk}]
    /\ mode \in [Producer -> Modes]
    /\ queue \in Seq(Chunk)
    /\ Len(queue) <= MaxSize
    /\ registry \subseteq Chunk
    /\ hands \in [Worker -> Chunk \union {NoChunk}]
    /\ totals \in [enqueued: Nat, dequeued: Nat, failed: Nat]
    /\ deliveries \in [Chunk -> Nat]
    /\ lost \in [Causes -> Nat]

\* Every entry into the deque, by put or by the retry of mark_failed, is matched:
\* it was dequeued, is still queued, or was lost to eviction, cleanup, clear or the
\* overflow of a retry.  No interleaving loses a chunk in any other way.
Conservation ==
    totals.enqueued + SumOver(retries)
        = totals.dequeued + Len(queue)
          + lost["evicted"] + lost["stale"] + lost["cleared"] + lost["overflow"]

\* A chunk is in one place: queued once, or with one worker, or with its producer.
\* So no chunk is processed by two workers at a time, retries included.
OnePlace ==
    /\ \A c \in Chunk : Occurrences(queue, c) <= 1
    /\ \A v, w \in Worker : hands[v] = hands[w] /\ v # w => hands[v] = NoChunk
    /\ Elements(queue) \intersect Held = {}
    /\ Pending \intersect (Elements(queue) \union Held \union registry) = {}

\* chunk_registry holds what is queued, and beyond it only chunks a worker has,
\* finished ones (which nothing removes), and PENDING ones that a retry pushed out
\* of the full deque: one per overflow at the most.
RegistryExplained ==
    /\ Elements(queue) \subseteq registry
    /\ \A c \in registry \ (Elements(queue) \union Held) : status[c] # "PROCESSING"
    /\ Cardinality({c \in registry \ Elements(queue) : status[c] = "PENDING"})
           <= lost["overflow"]

\* A put that makes room takes a LOW or BULK chunk, one of the lowest priority
\* queued and the oldest of those; every other chunk keeps its place.
EvictionOrder ==
    [][lost'["evicted"] > lost["evicted"] =>
          \E c \in Elements(queue) :
              /\ priority[c] >= LOW
              /\ \A d \in Elements(queue) \ {c} :
                    /\ d \in Elements(queue')
                    /\ priority[d] < priority[c] \/ (priority[d] = priority[c] /\ c < d)]_vars

\* Cleanup takes stale chunks only, keeps the registry in step, and leaves no stale
\* chunk behind, except with array payloads behind a fresh chunk.
CleanupExact ==
    [][lost'["stale"] > lost["stale"] =>
          LET gone == Elements(queue) \ Elements(queue') IN
          /\ \A c \in gone : Stale(c) /\ c \notin registry'
          /\ \A i \in DOMAIN queue' :
                Stale(queue'[i]) => arrays /\ ~Stale(queue'[1])]_vars

-----------------------------------------------------------------------------
(* The refinement mapping: where each chunk is, read off the queue.          *)

StageOf(c) ==
    CASE c > born -> "unborn"
      [] status[c] = "COMPLETED" -> "done"
      [] status[c] = "FAILED" -> "failed"
      [] \E w \in Worker : hands[w] = c -> "working"
      [] \E i \in DOMAIN queue : queue[i] = c -> "waiting"
      [] \E p \in Producer : call[p] = c -> "offered"
      [] OTHER -> "gone"

Life == INSTANCE ChunkLife WITH
    Attempts <- MaxRetries + 1,
    stage <- [c \in Chunk |-> StageOf(c)],
    tries <- deliveries,
    forgotten <- Held \ registry

\* The queue implements ChunkLife.  Every step under the lock moves one chunk to its
\* next stage; it may cost one waiting chunk its place when it brings one in, and only
\* cleanup and clear drop more; a chunk ends as FAILED after all its attempts and no
\* earlier, and one that clear forgot is neither retried nor reported.
ImplementsChunkLife == Life!Spec
=============================================================================

---------------------------- MODULE AudioStreams ----------------------------
(***************************************************************************)
(* AudioStreamManager and its StreamConnections (core/audio/               *)
(* stream_manager): audio streams over websockets, on one event loop.      *)
(*                                                                         *)
(* The places where a coroutine really waits are the websocket's send_text *)
(* and the sleep of the BLOCK strategy; an action is what runs between two *)
(* of them.  A job is a coroutine with the stream whose send it awaits     *)
(* ("at") and those it has yet to visit ("todo"): a caller's, one of the   *)
(* heartbeat and cleanup loops of some start(), or the stop() that ended   *)
(* that start().  Streams are numbered as they are created, which is the   *)
(* order dictionaries are walked in.                                       *)
(*                                                                         *)
(* Abstracted: audio and its quality, metrics and their loop, clock        *)
(* values (a stream is "silent" once its last heartbeat is out of date),   *)
(* and the receiving direction.                                            *)
(***************************************************************************)
EXTENDS Integers, FiniteSets, Sequences

CONSTANTS
    MaxStreams,   \* bound: calls of create_stream
    Caller,       \* coroutines of the manager's users
    MaxLen,       \* _calculate_buffer_size: the maxlen of output_buffer
    Strategies,   \* the backpressure strategies in use
    MaxChunks,    \* bound: sequence numbers given out by a stream
    Inputs,       \* what users call and clients send: subset of AllInputs
    MaxConnects,  \* bound: only the first MaxConnects streams are connected
    MaxStarts     \* bound: calls of start

AllInputs == {"connect", "send", "disconnect", "pause", "resume", "heartbeat"}
BackpressureStrategy == {"drop_oldest", "drop_newest", "block", "compress"}

ASSUME ConstantsAssumption ==
    /\ MaxStreams \in Nat /\ MaxChunks \in Nat /\ MaxStarts \in Nat
    /\ MaxConnects \in Nat
    /\ MaxLen \in Nat \ {0}
    /\ Strategies \subseteq BackpressureStrategy
    /\ Inputs \subseteq AllInputs
    /\ Caller \intersect ({"heartbeat", "cleanup", "stop"} \X (1 .. MaxStarts)) = {}

Stream == 1 .. MaxStreams
Nobody == 0

\* The loops of each start() and the call of stop() that ends it.
HeartbeatLoop == {"heartbeat"} \X (1 .. MaxStarts)
CleanupLoop == {"cleanup"} \X (1 .. MaxStarts)
Loop == HeartbeatLoop \union CleanupLoop
Stopping == {"stop"} \X (1 .. MaxStarts)
Job == Caller \union Loop \union Stopping
StreamState == {"idle", "connecting", "streaming", "paused", "disconnected", "error"}

VARIABLES
    running, starts,       \* is_running, and the calls of start
    created,               \* streams created so far
    connections, websockets, active_connections,
    conn,                  \* the StreamConnection of each stream
    silent,                \* is_timeout of each stream
    alive,                 \* the loops that have not ended (background_tasks)
    job,
    doomed,                \* history: the streams each stop() found
    overtaken              \* history: a start() ran while a stop() was at work

registry == <<connections, websockets, active_connections>>
history == <<doomed, overtaken>>
vars == <<running, starts, created, registry, conn, silent, alive, job, history>>

NewConnection(strategy) ==
    [state |-> "idle", is_active |-> FALSE, strategy |-> strategy,
     buffer |-> <<>>, next |-> 0]

Idle == [op |-> "none", at |-> Nobody, todo |-> {}, seq |-> 0]

Init ==
    /\ running = FALSE
    /\ starts = 0
    /\ created = 0
    /\ connections = {}
    /\ websockets = {}
    /\ active_connections = 0
    /\ conn = [s \in Stream |-> NewConnection("drop_oldest")]
    /\ silent = [s \in Stream |-> FALSE]
    /\ alive = {}
    /\ job = [j \in Job |-> Idle]
    /\ doomed = [k \in Stopping |-> {}]
    /\ overtaken = FALSE

\* The first of streams ss in creation order, or Nobody.
First(ss) == IF ss = {} THEN Nobody ELSE CHOOSE s \in ss : \A r \in ss : s <= r

\* What is left of todo once s has its turn; those passed over are done with.
After(todo, s) == {r \in todo : s # Nobody /\ r > s}

-----------------------------------------------------------------------------
(* Lifecycle: start, create_stream, connect_stream.                          *)

\* start() looks at is_running only: a stop() may still be at work.
Start ==
    /\ ~running
    /\ starts < MaxStarts
    /\ running' = TRUE
    /\ starts' = starts + 1
    /\ alive' = alive \union {<<"heartbeat", starts'>>, <<"cleanup", starts'>>}
    /\ overtaken' = (overtaken \/ \E k \in Stopping : job[k] # Idle)
    /\ UNCHANGED <<created, registry, conn, silent, job, doomed>>

\* A loop wakes up, or comes back to its test, when is_running is off.
LoopEnds(l) ==
    /\ l \in alive
    /\ ~running
    /\ job[l] = Idle
    /\ alive' = alive \ {l}
    /\ UNCHANGED <<running, starts, created, registry, conn, silent, job, history>>

CreateStream ==
    /\ created < MaxStreams
    /\ created' = created + 1
    /\ \E x \in Strategies : conn' = [conn EXCEPT ![created'] = NewConnection(x)]
    /\ connections' = connections \union {created'}
    /\ websockets' = websockets \union {created'}
    /\ active_connections' = active_connections + 1
    /\ UNCHANGED <<running, starts, silent, alive, job, history>>

ConnectBegin(j, s) ==
    /\ job[j] = Idle
    /\ s <= MaxConnects
    /\ s \in connections
    /\ conn' = [conn EXCEPT ![s].state = "connecting", ![s].is_active = TRUE]
    /\ job' = [job EXCEPT ![j] = [op |-> "connect", at |-> s, todo |-> {}, seq |-> 0]]
    /\ UNCHANGED <<running, starts, created, registry, silent, alive, history>>

\* The configuration is sent, or the websocket raises.
ConnectEnd(j) ==
    /\ job[j].op = "connect"
    /\ \E state \in {"streaming", "error"} : conn' = [conn EXCEPT ![job[j].at].state = state]
    /\ job' = [job EXCEPT ![j] = Idle]
    /\ UNCHANGED <<running, starts, created, registry, silent, alive, history>>

Pause(s) ==
    /\ s \in connections
    /\ conn' = [conn EXCEPT ![s].state = "paused"]
    /\ UNCHANGED <<running, starts, created, registry, silent, alive, job, history>>

Resume(s) ==
    /\ s \in connections
    /\ conn[s].state = "paused"
    /\ conn' = [conn EXCEPT ![s].state = "streaming"]
    /\ UNCHANGED <<running, starts, created, registry, silent, alive, job, history>>

-----------------------------------------------------------------------------
(* Sending: send_audio_to_stream visits one stream, broadcast_audio all.     *)

Sendable(s) ==
    /\ s \in connections
    /\ conn[s].is_active
    /\ conn[s].state = "streaming"

BufferFull(c) == Len(c.buffer) >= MaxLen

\* while len >= 0.8 * maxlen: popleft, on a full buffer.
DropOldest(q) ==
    LET kept == (4 * MaxLen - 1) \div 5
    IN  SubSeq(q, Len(q) - kept + 1, Len(q))

HandleBackpressure(c) ==
    IF BufferFull(c) /\ c.strategy = "drop_oldest"
    THEN [c EXCEPT !.buffer = DropOldest(@)] ELSE c

Blocks(c) == BufferFull(c) /\ c.strategy = "block"

\* Mutant: the number is raised when the send is over.
BugNumbered(c) == HandleBackpressure(c)

\* The connection c once a chunk has its number and goes to the websocket.
Numbered(c) == [HandleBackpressure(c) EXCEPT !.next = @ + 1]

\* Mutant: the deque has no maxlen.
BugAppendBounded(q, n) == Append(q, n)

\* deque(maxlen).append
AppendBounded(q, n) == Append(IF Len(q) >= MaxLen THEN Tail(q) ELSE q, n)

\* A stream that takes no chunk is passed over; MaxChunks makes one such of it, too.
Takes(c) == Blocks(c) \/ c.next < MaxChunks

\* Job j goes on to the first stream of todo that takes a chunk.  cs: the connections.
Visit(j, cs, todo) ==
    LET s == First({r \in todo : Sendable(r) /\ Takes(cs[r])}) IN
    IF s = Nobody
    THEN /\ conn' = cs
         /\ job' = [job EXCEPT ![j] = Idle]
    ELSE IF Blocks(cs[s])
    THEN /\ conn' = cs
         /\ job' = [job EXCEPT ![j] = [op |-> "blocked", at |-> s,
                                       todo |-> After(todo, s), seq |-> 0]]
    ELSE /\ conn' = [cs EXCEPT ![s] = Numbered(@)]
         /\ job' = [job EXCEPT ![j] = [op |-> "send", at |-> s,
                                       todo |-> After(todo, s), seq |-> cs[s].next]]

Send(j) ==
    /\ job[j] = Idle
    /\ \E todo \in {{s} : s \in connections} \union {connections} :
          /\ \E s \in todo : Sendable(s) /\ Takes(conn[s])
          /\ Visit(j, conn, todo)
    /\ UNCHANGED <<running, starts, created, registry, silent, alive, history>>

SendDone(j) ==
    /\ job[j].op = "send"
    /\ Visit(j, [conn EXCEPT ![job[j].at].buffer = AppendBounded(@, job[j].seq)], job[j].todo)
    /\ UNCHANGED <<running, starts, created, registry, silent, alive, history>>

SendFailed(j) ==
    /\ job[j].op = "send"
    /\ Visit(j, conn, job[j].todo)
    /\ UNCHANGED <<running, starts, created, registry, silent, alive, history>>

\* BLOCK: "while len >= 0.5 * maxlen: sleep".
Poll(j) ==
    LET c == conn[job[j].at] IN
    /\ job[j].op = "blocked"
    /\ IF 2 * Len(c.buffer) >= MaxLen \/ c.next >= MaxChunks
       THEN UNCHANGED <<conn, job>>
       ELSE /\ conn' = [conn EXCEPT ![job[j].at].next = @ + 1]
            /\ job' = [job EXCEPT ![j].op = "send", ![j].seq = c.next]
    /\ UNCHANGED <<running, starts, created, registry, silent, alive, history>>

-----------------------------------------------------------------------------
(* Disconnecting: disconnect_stream for one stream (a call, or the client's  *)
(* "stop"), the cleanup loop for those timed out, stop() for all.            *)

\* stop_streaming of s up to its await.
Stopped(s) ==
    IF s = Nobody THEN conn
    ELSE [conn EXCEPT ![s].is_active = FALSE, ![s].state = "disconnected"]

\* Job j is through with its streams.  stop() then cancels every loop, wherever it is:
\* what a loop was doing is not done.
Through(j) ==
    IF j \in Stopping
    THEN /\ alive' = {}
         /\ job' = [i \in Job |-> IF i \in Loop \union {j} THEN Idle ELSE job[i]]
    ELSE /\ job' = [job EXCEPT ![j] = Idle]
         /\ UNCHANGED alive

\* Job j turns to the first of todo that reg still holds.
StopNext(j, reg, todo) ==
    LET s == First(todo \intersect reg) IN
    /\ conn' = Stopped(s)
    /\ IF s = Nobody
       THEN Through(j)
       ELSE /\ job' = [job EXCEPT ![j] = [op |-> "disconnect", at |-> s,
                                          todo |-> After(todo, s), seq |-> 0]]
            /\ UNCHANGED alive

DisconnectBegin(j, s) ==
    /\ job[j] = Idle
    /\ s \in connections
    /\ StopNext(j, connections, {s})
    /\ UNCHANGED <<running, starts, created, registry, silent, history>>

\* Mutant: only streams that were connected are looked at.
BugSweepBegin(l) ==
    /\ l \in alive
    /\ running
    /\ job[l] = Idle
    /\ \E s \in connections : silent[s] /\ conn[s].is_active
    /\ StopNext(l, connections, {s \in connections : silent[s] /\ conn[s].is_active})
    /\ UNCHANGED <<running, starts, created, registry, silent, history>>

SweepBegin(l) ==
    /\ l \in alive
    /\ running
    /\ job[l] = Idle
    /\ \E s \in connections : silent[s]
    /\ StopNext(l, connections, {s \in connections : silent[s]})
    /\ UNCHANGED <<running, starts, created, registry, silent, history>>

\* Mutant: streams that somebody is disconnecting already are skipped.
BugStopBegin ==
    /\ running
    /\ running' = FALSE
    /\ doomed' = [doomed EXCEPT ![<<"stop", starts>>] = connections]
    /\ StopNext(<<"stop", starts>>, connections, {s \in connections : conn[s].state # "disconnected"})
    /\ UNCHANGED <<starts, created, registry, silent, overtaken>>

StopBegin ==
    /\ running
    /\ running' = FALSE
    /\ doomed' = [doomed EXCEPT ![<<"stop", starts>>] = connections]
    /\ StopNext(<<"stop", starts>>, connections, connections)
    /\ UNCHANGED <<starts, created, registry, silent, overtaken>>

\* Mutant: the counter is lowered whether or not this job removed the stream.
BugDeregister(s) ==
    /\ connections' = connections \ {s}
    /\ websockets' = websockets \ {s}
    /\ active_connections' = IF active_connections > 0 THEN active_connections - 1 ELSE 0

\* del connections[s] raises when another job was faster: nothing changes then.
Deregister(s) ==
    IF s \in connections
    THEN /\ connections' = connections \ {s}
         /\ websockets' = websockets \ {s}
         /\ active_connections' = IF active_connections > 0 THEN active_connections - 1 ELSE 0
    ELSE UNCHANGED registry

\* Mutant: a stop message that fails ends the disconnection.
BugDisconnectEnd(j) ==
    /\ job[j].op = "disconnect"
    /\ \/ Deregister(job[j].at)
       \/ UNCHANGED registry
    /\ StopNext(j, connections \ {job[j].at}, job[j].todo)
    /\ UNCHANGED <<running, starts, created, silent, history>>

\* The stop message is sent, or its failure is logged; both go on.
DisconnectEnd(j) ==
    /\ job[j].op = "disconnect"
    /\ Deregister(job[j].at)
    /\ StopNext(j, connections \ {job[j].at}, job[j].todo)
    /\ UNCHANGED <<running, starts, created, silent, history>>

-----------------------------------------------------------------------------
(* Heartbeats.                                                               *)

Beat(l, todo) ==
    LET s == First({r \in todo : conn[r].is_active}) IN
    job' = [job EXCEPT ![l] =
               IF s = Nobody THEN Idle
               ELSE [op |-> "heartbeat", at |-> s, todo |-> After(todo, s), seq |-> 0]]

BeatBegin(l) ==
    /\ l \in alive
    /\ running
    /\ job[l] = Idle
    /\ \E s \in connections : conn[s].is_active
    /\ Beat(l, connections)
    /\ UNCHANGED <<running, starts, created, registry, conn, silent, alive, history>>

BeatSent(l) ==
    /\ job[l].op = "heartbeat"
    /\ silent' = [silent EXCEPT ![job[l].at] = FALSE]
    /\ Beat(l, job[l].todo)
    /\ UNCHANGED <<running, starts, created, registry, conn, alive, history>>

BeatFailed(l) ==
    /\ job[l].op = "heartbeat"
    /\ Beat(l, job[l].todo)
    /\ UNCHANGED <<running, starts, created, registry, conn, silent, alive, history>>

\* A heartbeat message of the client.
ClientBeat(s) ==
    /\ s \in connections
    /\ silent[s]
    /\ silent' = [silent EXCEPT ![s] = FALSE]
    /\ UNCHANGED <<running, starts, created, registry, conn, alive, job, history>>

\* config.timeout has passed since last_heartbeat; only the cleanup loop asks.
FallSilent(s) ==
    /\ running
    /\ s \in connections
    /\ ~silent[s]
    /\ silent' = [silent EXCEPT ![s] = TRUE]
    /\ UNCHANGED <<running, starts, created, registry, conn, alive, job, history>>

-----------------------------------------------------------------------------
Next ==
    \/ Start
    \/ CreateStream
    \/ \E j \in Caller :
          \/ "connect" \in Inputs /\ \E s \in Stream : ConnectBegin(j, s)
          \/ "disconnect" \in Inputs /\ \E s \in Stream : DisconnectBegin(j, s)
          \/ "send" \in Inputs /\ Send(j)
          \/ ConnectEnd(j)
          \/ SendDone(j)
          \/ SendFailed(j)
          \/ Poll(j)
    \/ \E j \in Job : DisconnectEnd(j)
    \/ \E s \in Stream :
          \/ "pause" \in Inputs /\ Pause(s)
          \/ "resume" \in Inputs /\ Resume(s)
          \/ "heartbeat" \in Inputs /\ ClientBeat(s)
          \/ FallSilent(s)
    \/ \E l \in Loop : LoopEnds(l)
    \/ \E l \in CleanupLoop : SweepBegin(l)
    \/ \E l \in HeartbeatLoop : BeatBegin(l) \/ BeatSent(l) \/ BeatFailed(l)
    \/ StopBegin

Spec == Init /\ [][Next]_vars

\* The event loop runs every ready coroutine, the loops wake up again and again, and
\* a websocket's send ends, at the latest with the exception of a lost connection.
FairSpec ==
    /\ Spec
    /\ \A j \in Caller :
          WF_vars(ConnectEnd(j)) /\ WF_vars(SendDone(j) \/ SendFailed(j)) /\ WF_vars(Poll(j))
    /\ \A j \in Job : WF_vars(DisconnectEnd(j))
    /\ \A l \in CleanupLoop : WF_vars(SweepBegin(l))
    /\ \A l \in HeartbeatLoop : WF_vars(BeatSent(l) \/ BeatFailed(l))

-----------------------------------------------------------------------------
\* Only an idle job is at no stream.
JobRecord ==
    {r \in [op: {"none", "connect", "send", "blocked", "disconnect", "heartbeat"},
            at: Stream \union {Nobody}, todo: SUBSET Stream, seq: 0 .. MaxChunks] :
        r.at = Nobody => r.op = "none"}

Connection == [state: StreamState, is_active: BOOLEAN, strategy: BackpressureStrategy,
               buffer: Seq(0 .. MaxChunks), next: 0 .. MaxChunks]

\* The variables stay in their ranges, and the output buffer within its maxlen.
TypeOK ==
    /\ running \in BOOLEAN
    /\ starts \in 0 .. MaxStarts
    /\ created \in 0 .. MaxStreams
    /\ connections \subseteq 1 .. created
    /\ websockets \subseteq Stream
    /\ active_connections \in Nat
    /\ conn \in [Stream -> Connection]
    /\ \A s \in Stream : Len(conn[s].buffer) <= MaxLen
    /\ silent \in [Stream -> BOOLEAN]
    /\ alive \subseteq Loop
    /\ job \in [Job -> JobRecord]
    /\ doomed \in [Stopping -> SUBSET Stream]
    /\ overtaken \in BOOLEAN

\* The count of active connections and the two tables agree, however many callers,
\* loops and stop() disconnect the same stream at once.
TablesAgree ==
    /\ active_connections = Cardinality(connections)
    /\ websockets = connections

InFlight(s) == {j \in Job : job[j].op = "send" /\ job[j].at = s}

\* No two chunks share a number: not two in flight, not two in the retransmission
\* buffer, not one in flight and in the buffer; all are numbers already given out.
NumbersUnique ==
    \A s \in Stream :
        LET q == conn[s].buffer IN
        /\ \A a, b \in DOMAIN q : a # b => q[a] # q[b]
        /\ \A a \in DOMAIN q : q[a] < conn[s].next
        /\ \A i, j \in InFlight(s) : i # j => job[i].seq # job[j].seq
        /\ \A j \in InFlight(s), a \in DOMAIN q : job[j].seq # q[a]

\* When a stop() is over, every stream it found is gone, whoever else was disconnecting
\* it; only streams created while it was at work can be left.
StopIsThorough ==
    \A k \in Stopping : job[k] = Idle => doomed[k] \intersect connections = {}

Disconnects(j, s) == job[j].op = "disconnect" /\ job[j].at = s

\* A stream whose disconnection has begun is removed, even when the job that began it
\* is a cleanup loop and stop() cancels that.  But a stop() that a start() overtook may
\* cancel a loop of that start in the middle of a stream it has not visited itself.
DisconnectEnds ==
    \A s \in Stream :
        /\ (\E j \in Job \ Loop : Disconnects(j, s)) ~> s \notin connections
        /\ (\E l \in Loop : Disconnects(l, s)) ~> (s \notin connections \/ overtaken)

\* While the manager runs, a stream that falls silent is heard again or removed: a
\* cleanup loop is never kept from it for good, unless a start() overtook a stop(),
\* which then cancels the new loops too and leaves is_running on without them.
SilentIsSwept ==
    \A s \in Stream : (s \in connections /\ silent[s]) ~>
                          (~silent[s] \/ s \notin connections \/ ~running \/ overtaken)
=============================================================================

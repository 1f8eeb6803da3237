---------------------------- MODULE VoiceSockets ----------------------------
(***************************************************************************)
(* The audio websocket of the API (api/endpoints/websocket): its           *)
(* ConnectionManager, the endpoint coroutine of each client, and the       *)
(* heartbeat monitor.                                                      *)
(*                                                                         *)
(* The coroutines wait in the websocket's accept, receive, send and close; *)
(* an action is what runs between two waits.  Where a loop goes on without *)
(* waiting the model lets others run in between, too: it has every         *)
(* behaviour of the code and some more.                                    *)
(*                                                                         *)
(* External: the websocket, as the code uses it.  A receive of one kind    *)
(* takes the next message whatever it is, and raises if it is of the other *)
(* kind; after a close every operation raises.                             *)
(*                                                                         *)
(* Abstracted: contents and times (a connection is "silent" once its last  *)
(* heartbeat is 60 s old).  The orchestrator has none of the methods the   *)
(* handlers call, so that a conversation never starts here.  Nothing in    *)
(* the repository calls send_to_session, send_to_user and broadcast.       *)
(***************************************************************************)
EXTENDS Naturals, FiniteSets, Sequences

CONSTANTS
    Peer,         \* clients, each with the one connection it asks for
    User, Session,
    UserOf, SessionOf,
    MaxPerUser,   \* max_connections_per_user
    AckEvery,     \* an acknowledgement is sent for every AckEvery-th chunk
    Frames,       \* the kinds of message in use
    MaxFrames     \* bound: messages the clients send

Frame == {"ping", "start_streaming", "stop_streaming", "get_status", "text_input",
          "malformed", "audio"}

ASSUME ConstantsAssumption ==
    /\ UserOf \in [Peer -> User]
    /\ SessionOf \in [Peer -> Session]
    /\ "monitor" \notin Peer
    /\ MaxPerUser \in Nat /\ MaxFrames \in Nat
    /\ AckEvery \in Nat \ {0}
    /\ Frames \subseteq Frame

Actor == Peer \union {"monitor"}

\* Where an endpoint is.  "starting": its orchestrator is constructed.
Phase == {"away", "refused", "accepting", "confirming", "starting", "receive_text",
          "receive_bytes", "replying", "leaving", "over"}

VARIABLES
    connections, sessions, user_connections,   \* a key without connections is absent
    endpoint,      \* the phase of each client's endpoint
    gone,          \* the client has left
    client_gone,   \* client_state = DISCONNECTED: the server has been told
    closed,        \* the server has closed the websocket
    io,            \* the send or close each coroutine awaits
    monitor,       \* where the heartbeat monitor is
    todo,          \* the connections it has yet to visit
    silent,
    inbox, frames, \* messages on their way to each endpoint; how many were sent in all
    is_streaming, audio_sequence,
    unstarted      \* history: clients whose orchestrator could not be constructed

registry == <<connections, sessions, user_connections>>
socket == <<gone, client_gone, closed>>
loops == <<monitor, todo>>
traffic == <<inbox, frames, is_streaming, audio_sequence>>
vars == <<registry, endpoint, socket, io, loops, silent, traffic, unstarted>>

NoIO == [op |-> "none"]
IO(op, p) == [op |-> op, on |-> p]

Init ==
    /\ connections = {}
    /\ sessions = [s \in Session |-> {}]
    /\ user_connections = [u \in User |-> {}]
    /\ endpoint = [p \in Peer |-> "away"]
    /\ gone = [p \in Peer |-> FALSE]
    /\ client_gone = [p \in Peer |-> FALSE]
    /\ closed = [p \in Peer |-> FALSE]
    /\ io = [a \in Actor |-> NoIO]
    /\ monitor = "asleep"
    /\ todo = {}
    /\ silent = [p \in Peer |-> FALSE]
    /\ inbox = [p \in Peer |-> <<>>]
    /\ frames = 0
    /\ is_streaming = [p \in Peer |-> FALSE]
    /\ audio_sequence = [p \in Peer |-> 0]
    /\ unstarted = {}

-----------------------------------------------------------------------------
(* The manager: registration, disconnect, _send_to_connection.               *)

Register(p) ==
    /\ connections' = connections \union {p}
    /\ sessions' = [sessions EXCEPT ![SessionOf[p]] = @ \union {p}]
    /\ user_connections' = [user_connections EXCEPT ![UserOf[p]] = @ \union {p}]

\* Mutant: the user's set is left alone.
BugRemoveConnection(p) ==
    /\ connections' = connections \ {p}
    /\ sessions' = [sessions EXCEPT ![SessionOf[p]] = @ \ {p}]
    /\ UNCHANGED user_connections

\* Removing what is not registered changes nothing.
RemoveConnection(p) ==
    /\ connections' = connections \ {p}
    /\ sessions' = [sessions EXCEPT ![SessionOf[p]] = @ \ {p}]
    /\ user_connections' = [user_connections EXCEPT ![UserOf[p]] = @ \ {p}]

\* Coroutine a is in phase x, if it is an endpoint.
InPhase(a, x) == endpoint' = IF a \in Peer THEN [endpoint EXCEPT ![a] = x] ELSE endpoint

\* Where an endpoint goes on when its send or close is over.
PhaseAfter(x) ==
    CASE x = "confirming" -> "starting"
      [] x = "replying" -> "receive_text"
      [] x = "leaving" -> "over"
      [] OTHER -> x

\* The websocket of p takes messages, as far as the server knows.
Usable(p) == p \in connections /\ ~client_gone[p] /\ ~closed[p]

\* Mutant: the connection stays registered until somebody's close has ended well.
BugDisconnect(a, p, x) ==
    IF Usable(p)
    THEN /\ closed' = [closed EXCEPT ![p] = TRUE]
         /\ io' = [io EXCEPT ![a] = IO("close", p)]
         /\ InPhase(a, x)
         /\ UNCHANGED registry
    ELSE /\ io' = [io EXCEPT ![a] = NoIO]
         /\ InPhase(a, PhaseAfter(x))
         /\ UNCHANGED <<closed, registry>>

\* disconnect, called by a in phase x: close is awaited, or skipped, or raises at once.
Disconnect(a, p, x) ==
    IF Usable(p)
    THEN /\ closed' = [closed EXCEPT ![p] = TRUE]
         /\ io' = [io EXCEPT ![a] = IO("close", p)]
         /\ InPhase(a, x)
         /\ UNCHANGED registry
    ELSE /\ RemoveConnection(p)
         /\ io' = [io EXCEPT ![a] = NoIO]
         /\ InPhase(a, PhaseAfter(x))
         /\ UNCHANGED closed

SendToConnection(a, p, x) ==
    IF Usable(p)
    THEN /\ io' = [io EXCEPT ![a] = IO("send", p)]
         /\ InPhase(a, x)
         /\ UNCHANGED <<registry, closed>>
    ELSE Disconnect(a, p, x)

PhaseOf(a) == IF a \in Peer THEN endpoint[a] ELSE "none"

\* Mutant: the endpoint is not resumed.
BugSendDone(a) ==
    /\ io[a].op = "send"
    /\ io' = [io EXCEPT ![a] = NoIO]
    /\ UNCHANGED <<registry, endpoint, socket, loops, silent, traffic, unstarted>>

SendDone(a) ==
    /\ io[a].op = "send"
    /\ io' = [io EXCEPT ![a] = NoIO]
    /\ InPhase(a, PhaseAfter(PhaseOf(a)))
    /\ UNCHANGED <<registry, socket, loops, silent, traffic, unstarted>>

SendFailed(a) ==
    /\ io[a].op = "send"
    /\ gone[io[a].on] \/ closed[io[a].on]
    /\ Disconnect(a, io[a].on, PhaseOf(a))
    /\ UNCHANGED <<gone, client_gone, loops, silent, traffic, unstarted>>

CloseEnd(a) ==
    /\ io[a].op = "close"
    /\ RemoveConnection(io[a].on)
    /\ io' = [io EXCEPT ![a] = NoIO]
    /\ InPhase(a, PhaseAfter(PhaseOf(a)))
    /\ UNCHANGED <<socket, loops, silent, traffic, unstarted>>

-----------------------------------------------------------------------------
(* The endpoint of client p.                                                 *)

\* connect: the user's connections are counted before accept is awaited.
Connect(p) ==
    /\ endpoint[p] = "away"
    /\ endpoint' = [endpoint EXCEPT ![p] =
          IF Cardinality(user_connections[UserOf[p]]) >= MaxPerUser THEN "refused"
          ELSE "accepting"]
    /\ UNCHANGED <<registry, socket, io, loops, silent, traffic, unstarted>>

RefuseEnd(p) ==
    /\ endpoint[p] = "refused"
    /\ endpoint' = [endpoint EXCEPT ![p] = "over"]
    /\ UNCHANGED <<registry, socket, io, loops, silent, traffic, unstarted>>

\* The connection is registered and its confirmation sent.
Accepted(p) ==
    /\ endpoint[p] = "accepting"
    /\ Register(p)
    /\ endpoint' = [endpoint EXCEPT ![p] = "confirming"]
    /\ io' = [io EXCEPT ![p] = IO("send", p)]
    /\ silent' = [silent EXCEPT ![p] = FALSE]
    /\ UNCHANGED <<socket, loops, traffic, unstarted>>

AcceptFailed(p) ==
    /\ endpoint[p] = "accepting"
    /\ gone[p]
    /\ endpoint' = [endpoint EXCEPT ![p] = "over"]
    /\ UNCHANGED <<registry, socket, io, loops, silent, traffic, unstarted>>

Started(p) ==
    /\ endpoint[p] = "starting"
    /\ endpoint' = [endpoint EXCEPT ![p] = "receive_text"]
    /\ UNCHANGED <<registry, socket, io, loops, silent, traffic, unstarted>>

\* The constructor of the orchestrator raises before the try that would disconnect.
StartFailed(p) ==
    /\ endpoint[p] = "starting"
    /\ endpoint' = [endpoint EXCEPT ![p] = "over"]
    /\ closed' = [closed EXCEPT ![p] = TRUE]
    /\ unstarted' = unstarted \union {p}
    /\ UNCHANGED <<registry, gone, client_gone, io, loops, silent, traffic>>

\* handle_text_message: every message is answered, but text without a conversation.
HandleText(p, f) ==
    /\ IF f = "text_input"
       THEN UNCHANGED <<registry, closed, io, endpoint>>
       ELSE SendToConnection(p, p, "replying")
    /\ silent' = [silent EXCEPT ![p] = @ /\ f # "ping"]
    /\ is_streaming' = [is_streaming EXCEPT ![p] =
          f = "start_streaming" \/ (@ /\ f # "stop_streaming")]
    /\ audio_sequence' = [audio_sequence EXCEPT ![p] = IF f = "start_streaming" THEN 0 ELSE @]

\* receive_text, and the bare except around it, takes a message of any kind; one that
\* was received when the websocket was closed is still handled.
ReceiveText(p) ==
    /\ endpoint[p] = "receive_text"
    /\ inbox[p] # <<>>
    /\ inbox' = [inbox EXCEPT ![p] = Tail(@)]
    /\ IF Head(inbox[p]) \in {"audio", "malformed"}
       THEN /\ endpoint' = [endpoint EXCEPT ![p] = "receive_bytes"]
            /\ UNCHANGED <<registry, closed, io, silent, is_streaming, audio_sequence>>
       ELSE HandleText(p, Head(inbox[p]))
    /\ UNCHANGED <<gone, client_gone, loops, frames, unstarted>>

\* The websocket is closed, or the client's leaving is received.
Ended(p) == closed[p] \/ (inbox[p] = <<>> /\ gone[p])

TextEnded(p) ==
    /\ endpoint[p] = "receive_text"
    /\ Ended(p)
    /\ client_gone' = [client_gone EXCEPT ![p] = @ \/ gone[p]]
    /\ endpoint' = [endpoint EXCEPT ![p] = "receive_bytes"]
    /\ UNCHANGED <<registry, gone, closed, io, loops, silent, traffic, unstarted>>

\* handle_audio_chunk: an error, an acknowledgement now and then, or no answer.
HandleChunk(p) ==
    /\ audio_sequence' = [audio_sequence EXCEPT ![p] = IF is_streaming[p] THEN @ + 1 ELSE @]
    /\ IF is_streaming[p] /\ audio_sequence'[p] % AckEvery # 0
       THEN /\ endpoint' = [endpoint EXCEPT ![p] = "receive_text"]
            /\ UNCHANGED <<registry, closed, io>>
       ELSE SendToConnection(p, p, "replying")

\* Any other message ends the session.
ReceiveBytes(p) ==
    /\ endpoint[p] = "receive_bytes"
    /\ ~client_gone[p] /\ inbox[p] # <<>>
    /\ inbox' = [inbox EXCEPT ![p] = Tail(@)]
    /\ IF Head(inbox[p]) = "audio"
       THEN HandleChunk(p)
       ELSE Disconnect(p, p, "leaving") /\ UNCHANGED audio_sequence
    /\ UNCHANGED <<gone, client_gone, loops, silent, frames, is_streaming, unstarted>>

\* Mutant: the loop goes on after a receive that raised.
BugBytesEnded(p) ==
    /\ endpoint[p] = "receive_bytes"
    /\ Ended(p) \/ client_gone[p]
    /\ endpoint' = [endpoint EXCEPT ![p] = "receive_text"]
    /\ UNCHANGED <<registry, socket, io, loops, silent, traffic, unstarted>>

\* A receive raises and the loop ends: the finally clause.
BytesEnded(p) ==
    /\ endpoint[p] = "receive_bytes"
    /\ Ended(p) \/ client_gone[p]
    /\ Disconnect(p, p, "leaving")
    /\ UNCHANGED <<gone, client_gone, loops, silent, traffic, unstarted>>

-----------------------------------------------------------------------------
(* The heartbeat monitor.                                                    *)

\* Mutant: what is closed already is passed over.
BugSweepBegin ==
    /\ monitor = "asleep"
    /\ monitor' = "sweeping"
    /\ todo' = {p \in connections : silent[p] /\ ~closed[p]}
    /\ UNCHANGED <<registry, endpoint, socket, io, silent, traffic, unstarted>>

SweepBegin ==
    /\ monitor = "asleep"
    /\ monitor' = "sweeping"
    /\ todo' = {p \in connections : silent[p]}
    /\ UNCHANGED <<registry, endpoint, socket, io, silent, traffic, unstarted>>

SweepNext(p) ==
    /\ monitor = "sweeping"
    /\ io["monitor"] = NoIO
    /\ p \in todo
    /\ todo' = todo \ {p}
    /\ Disconnect("monitor", p, "none")
    /\ UNCHANGED <<gone, client_gone, monitor, silent, traffic, unstarted>>

SweepEnd ==
    /\ monitor = "sweeping"
    /\ io["monitor"] = NoIO
    /\ todo = {}
    /\ monitor' = "pinging"
    /\ todo' = connections
    /\ UNCHANGED <<registry, endpoint, socket, io, silent, traffic, unstarted>>

\* Those whose last heartbeat is 30 s old are asked for one.
PingNext(p) ==
    /\ monitor = "pinging"
    /\ io["monitor"] = NoIO
    /\ p \in todo \intersect connections
    /\ todo' = todo \ {p}
    /\ SendToConnection("monitor", p, "none")
    /\ UNCHANGED <<gone, client_gone, monitor, silent, traffic, unstarted>>

\* All are asked, or the dictionary changed under the loop, which raises.
PingEnd ==
    /\ monitor = "pinging"
    /\ io["monitor"] = NoIO
    /\ monitor' = "asleep"
    /\ todo' = {}
    /\ UNCHANGED <<registry, endpoint, socket, io, silent, traffic, unstarted>>

-----------------------------------------------------------------------------
(* The clients, and the time.                                                *)

Serving(p) == endpoint[p] \notin {"away", "refused", "accepting", "over"}

ClientSends(p) ==
    /\ Serving(p)
    /\ ~gone[p]
    /\ frames < MaxFrames
    /\ frames' = frames + 1
    /\ \E f \in Frames : inbox' = [inbox EXCEPT ![p] = Append(@, f)]
    /\ UNCHANGED <<registry, endpoint, socket, io, loops, silent, is_streaming,
                   audio_sequence, unstarted>>

ClientLeaves(p) ==
    /\ endpoint[p] \notin {"away", "over"}
    /\ ~gone[p]
    /\ gone' = [gone EXCEPT ![p] = TRUE]
    /\ UNCHANGED <<registry, endpoint, client_gone, closed, io, loops, silent, traffic, unstarted>>

FallSilent(p) ==
    /\ p \in connections
    /\ ~silent[p]
    /\ silent' = [silent EXCEPT ![p] = TRUE]
    /\ UNCHANGED <<registry, endpoint, socket, io, loops, traffic, unstarted>>

Next ==
    \/ \E a \in Actor : SendDone(a) \/ SendFailed(a) \/ CloseEnd(a)
    \/ \E p \in Peer :
          \/ Connect(p) \/ RefuseEnd(p) \/ Accepted(p) \/ AcceptFailed(p)
          \/ Started(p) \/ StartFailed(p)
          \/ ReceiveText(p) \/ TextEnded(p) \/ ReceiveBytes(p) \/ BytesEnded(p)
          \/ SweepNext(p) \/ PingNext(p)
          \/ ClientSends(p) \/ ClientLeaves(p) \/ FallSilent(p)
    \/ SweepBegin \/ SweepEnd \/ PingEnd

Spec == Init /\ [][Next]_vars

\* The event loop runs what is ready, a send or close ends, the monitor wakes up, and
\* time passes.  A client need not send, leave, or connect.
FairSpec ==
    /\ Spec
    /\ \A a \in Actor : WF_vars(SendDone(a) \/ SendFailed(a)) /\ WF_vars(CloseEnd(a))
    /\ \A p \in Peer :
          /\ WF_vars(RefuseEnd(p)) /\ WF_vars(Accepted(p) \/ AcceptFailed(p))
          /\ WF_vars(Started(p) \/ StartFailed(p))
          /\ WF_vars(ReceiveText(p)) /\ WF_vars(TextEnded(p))
          /\ WF_vars(ReceiveBytes(p)) /\ WF_vars(BytesEnded(p))
          /\ WF_vars(SweepNext(p)) /\ WF_vars(FallSilent(p))
    /\ WF_vars(SweepBegin) /\ WF_vars(SweepEnd) /\ WF_vars(PingEnd)

-----------------------------------------------------------------------------
IORecord == {NoIO} \union [op: {"send", "close"}, on: Peer]

\* The variables stay in their ranges; an endpoint awaits a send or close on its own
\* connection exactly in the phases that have one, and the monitor only while it visits.
TypeOK ==
    /\ connections \subseteq Peer
    /\ sessions \in [Session -> SUBSET Peer]
    /\ user_connections \in [User -> SUBSET Peer]
    /\ endpoint \in [Peer -> Phase]
    /\ gone \in [Peer -> BOOLEAN]
    /\ client_gone \in [Peer -> BOOLEAN]
    /\ closed \in [Peer -> BOOLEAN]
    /\ io \in [Actor -> IORecord]
    /\ \A p \in Peer : IF endpoint[p] \in {"confirming", "replying", "leaving"}
                        THEN io[p] # NoIO /\ io[p].on = p
                        ELSE io[p] = NoIO
    /\ io["monitor"] # NoIO => monitor # "asleep"
    /\ monitor \in {"asleep", "sweeping", "pinging"}
    /\ todo \subseteq Peer
    /\ silent \in [Peer -> BOOLEAN]
    /\ inbox \in [Peer -> Seq(Frames)]
    /\ frames \in 0 .. MaxFrames
    /\ is_streaming \in [Peer -> BOOLEAN]
    /\ audio_sequence \in [Peer -> Nat]
    /\ unstarted \subseteq Peer

\* The tables by session and by user hold the registered connections, each once and
\* under its own key, however many coroutines disconnect the same client at once.
TablesAgree ==
    /\ \A s \in Session : sessions[s] = {p \in connections : SessionOf[p] = s}
    /\ \A u \in User : user_connections[u] = {p \in connections : UserOf[p] = u}

\* A connection whose endpoint is over is registered no more; the one exception is an
\* endpoint that could not construct its orchestrator.
OnlyUnstartedLinger ==
    \A p \in connections : endpoint[p] = "over" => p \in unstarted

\* A client that leaves ends its endpoint, whatever is still on its way.
LeaverEnds == \A p \in Peer : gone[p] ~> endpoint[p] \in {"away", "over"}

\* What an endpoint leaves registered the heartbeat monitor removes: no slot of a user
\* is taken for ever.
SlotFreed == \A p \in Peer : endpoint[p] = "over" ~> p \notin connections

\* An endpoint that is streaming handles each chunk of audio it takes off the websocket.
ChunksHandled ==
    [][\A p \in Peer :
          /\ is_streaming[p]
          /\ inbox[p] # <<>>
          /\ Head(inbox[p]) = "audio"
          /\ inbox'[p] = Tail(inbox[p])
          => audio_sequence'[p] = audio_sequence[p] + 1]_vars
=============================================================================

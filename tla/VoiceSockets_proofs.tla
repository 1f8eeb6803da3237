------------------------- MODULE VoiceSockets_proofs -------------------------
(***************************************************************************)
(* Theorems about VoiceSockets, for any number of clients, users and       *)
(* sessions: the type invariant, the agreement of the three tables, and    *)
(* that only an endpoint without an orchestrator leaves its connection     *)
(* registered.                                                             *)
(***************************************************************************)
EXTENDS VoiceSockets, TLAPS

Waiting == {"confirming", "replying", "leaving"}

RegistryTyped ==
    /\ connections \subseteq Peer
    /\ sessions \in [Session -> SUBSET Peer]
    /\ user_connections \in [User -> SUBSET Peer]

\* The part of the type invariant about what is awaited.
AwaitsTyped ==
    /\ endpoint \in [Peer -> Phase]
    /\ io \in [Actor -> IORecord]
    /\ \A p \in Peer : IF endpoint[p] \in Waiting
                        THEN io[p] # NoIO /\ io[p].on = p
                        ELSE io[p] = NoIO
    /\ io["monitor"] # NoIO => monitor # "asleep"

RestTyped ==
    /\ gone \in [Peer -> BOOLEAN]
    /\ client_gone \in [Peer -> BOOLEAN]
    /\ closed \in [Peer -> BOOLEAN]
    /\ monitor \in {"asleep", "sweeping", "pinging"}
    /\ todo \subseteq Peer
    /\ silent \in [Peer -> BOOLEAN]
    /\ inbox \in [Peer -> Seq(Frames)]
    /\ frames \in 0 .. MaxFrames
    /\ is_streaming \in [Peer -> BOOLEAN]
    /\ audio_sequence \in [Peer -> Nat]
    /\ unstarted \subseteq Peer

LEMMA TypeParts == TypeOK <=> RegistryTyped /\ AwaitsTyped /\ RestTyped
BY DEF TypeOK, RegistryTyped, AwaitsTyped, RestTyped, Waiting

LEMMA TypePartsNext == RegistryTyped' /\ AwaitsTyped' /\ RestTyped' => TypeOK'
BY DEF TypeOK, RegistryTyped, AwaitsTyped, RestTyped, Waiting

\* What the manager's operations do to the awaits of coroutine a in phase x.
Resumes(a, p, x) ==
    \/ io' = [io EXCEPT ![a] = IO("send", p)] /\ InPhase(a, x)
    \/ io' = [io EXCEPT ![a] = IO("close", p)] /\ InPhase(a, x)
    \/ io' = [io EXCEPT ![a] = NoIO] /\ InPhase(a, PhaseAfter(x))

LEMMA RegisterTyped ==
    ASSUME RegistryTyped, NEW p \in Peer, Register(p)
    PROVE  RegistryTyped'
BY DEF RegistryTyped, Register

LEMMA RemoveTyped ==
    ASSUME RegistryTyped, NEW p \in Peer, RemoveConnection(p)
    PROVE  RegistryTyped'
BY DEF RegistryTyped, RemoveConnection

LEMMA DisconnectTyped ==
    ASSUME RegistryTyped, closed \in [Peer -> BOOLEAN],
           NEW a \in Actor, NEW p \in Peer, NEW x, Disconnect(a, p, x)
    PROVE  RegistryTyped' /\ closed' \in [Peer -> BOOLEAN] /\ Resumes(a, p, x)
<1>1. CASE Usable(p)
  BY <1>1 DEF Disconnect, RegistryTyped, registry, Resumes
<1>2. CASE ~Usable(p)
  <2>1. RemoveConnection(p) /\ UNCHANGED closed
    BY <1>2 DEF Disconnect
  <2>2. Resumes(a, p, x)
    BY <1>2 DEF Disconnect, Resumes
  <2> QED BY <2>1, <2>2, RemoveTyped
<1> QED BY <1>1, <1>2

LEMMA SendTyped ==
    ASSUME RegistryTyped, closed \in [Peer -> BOOLEAN],
           NEW a \in Actor, NEW p \in Peer, NEW x, SendToConnection(a, p, x)
    PROVE  RegistryTyped' /\ closed' \in [Peer -> BOOLEAN] /\ Resumes(a, p, x)
<1>1. CASE Usable(p)
  BY <1>1 DEF SendToConnection, RegistryTyped, registry, Resumes
<1>2. CASE ~Usable(p)
  BY <1>2, DisconnectTyped DEF SendToConnection
<1> QED BY <1>1, <1>2

\* An endpoint that awaits something for itself in a waiting phase, or the monitor while
\* it visits, keeps the awaits typed.
LEMMA ResumesTyped ==
    ASSUME AwaitsTyped, NEW a \in Actor, NEW p \in Peer, NEW x,
           a \in Peer => p = a /\ x \in Waiting,
           a = "monitor" => monitor # "asleep",
           UNCHANGED monitor, Resumes(a, p, x)
    PROVE  AwaitsTyped'
<1> USE DEF AwaitsTyped, Waiting
<1>1. "monitor" \notin Peer
  BY ConstantsAssumption
<1>2. IO("send", p) \in IORecord /\ IO("close", p) \in IORecord /\ NoIO \in IORecord
  BY DEF IO, NoIO, IORecord
<1>3. /\ IO("send", p) # NoIO /\ IO("send", p).on = p
      /\ IO("close", p) # NoIO /\ IO("close", p).on = p
  BY DEF IO, NoIO
<1>4. PICK r \in IORecord : io' = [io EXCEPT ![a] = r] /\ (r = NoIO \/ (r # NoIO /\ r.on = p))
  <2>1. CASE io' = [io EXCEPT ![a] = IO("send", p)]
    BY <1>2, <1>3, <2>1
  <2>2. CASE io' = [io EXCEPT ![a] = IO("close", p)]
    BY <1>2, <1>3, <2>2
  <2>3. CASE io' = [io EXCEPT ![a] = NoIO]
    BY <1>2, <2>3
  <2> QED BY <2>1, <2>2, <2>3 DEF Resumes
<1>5. io' \in [Actor -> IORecord]
  BY <1>4
<1>6. CASE a = "monitor"
  <2>1. UNCHANGED endpoint
    BY <1>1, <1>6 DEF Resumes, InPhase
  <2>2. \A q \in Peer : io'[q] = io[q]
    BY <1>1, <1>4, <1>6 DEF Actor
  <2> QED BY <1>5, <1>6, <2>1, <2>2
<1>7. CASE a \in Peer
  <2>1. PICK y : endpoint' = [endpoint EXCEPT ![a] = y] /\ y \in Phase
                 /\ IF y \in Waiting THEN io'[a] # NoIO /\ io'[a].on = a ELSE io'[a] = NoIO
    <3>1. CASE io' = [io EXCEPT ![a] = NoIO] /\ InPhase(a, PhaseAfter(x))
      <4>1. PhaseAfter(x) \in Phase /\ PhaseAfter(x) \notin Waiting
        BY <1>7 DEF PhaseAfter, Phase
      <4>2. io'[a] = NoIO
        BY <3>1
      <4>3. endpoint' = [endpoint EXCEPT ![a] = PhaseAfter(x)]
        BY <1>7, <3>1 DEF InPhase
      <4> QED BY <4>1, <4>2, <4>3
    <3>2. CASE InPhase(a, x) /\ (io' = [io EXCEPT ![a] = IO("send", p)] \/ io' = [io EXCEPT ![a] = IO("close", p)])
      <4>1. io'[a] # NoIO /\ io'[a].on = a
        BY <1>3, <1>7, <3>2
      <4>2. endpoint' = [endpoint EXCEPT ![a] = x] /\ x \in Phase
        BY <1>7, <3>2 DEF InPhase, Phase
      <4> QED BY <1>7, <4>1, <4>2
    <3> QED BY <3>1, <3>2 DEF Resumes
  <2>2. endpoint' \in [Peer -> Phase]
    BY <2>1
  <2>3. \A q \in Peer : q # a => io'[q] = io[q] /\ endpoint'[q] = endpoint[q]
    BY <1>4, <2>1 DEF Actor
  <2>4. io'["monitor"] = io["monitor"]
    BY <1>1, <1>4, <1>7 DEF Actor
  <2>5. endpoint'[a] \in Waiting <=> endpoint'[a] \in Waiting /\ io'[a] # NoIO /\ io'[a].on = a
    BY <1>7, <2>1
  <2>6. endpoint'[a] \notin Waiting => io'[a] = NoIO
    BY <1>7, <2>1
  <2> QED BY <1>5, <2>2, <2>3, <2>4, <2>5, <2>6
<1> QED BY <1>6, <1>7 DEF Actor

-----------------------------------------------------------------------------
(* The type invariant, action by action.                                     *)

LEMMA HandleTextTyped ==
    ASSUME TypeOK, NEW p \in Peer, NEW f, HandleText(p, f), UNCHANGED monitor
    PROVE  /\ RegistryTyped' /\ AwaitsTyped'
           /\ closed' \in [Peer -> BOOLEAN]
           /\ silent' \in [Peer -> BOOLEAN]
           /\ is_streaming' \in [Peer -> BOOLEAN]
           /\ audio_sequence' \in [Peer -> Nat]
<1> USE TypeParts
<1>1. p \in Actor /\ p # "monitor"
  BY ConstantsAssumption DEF Actor
<1>2. RegistryTyped' /\ AwaitsTyped' /\ closed' \in [Peer -> BOOLEAN]
  <2>1. CASE f = "text_input"
    BY <2>1 DEF HandleText, registry, RegistryTyped, AwaitsTyped, RestTyped
  <2>2. CASE f # "text_input"
    <3>1. SendToConnection(p, p, "replying")
      BY <2>2 DEF HandleText
    <3>2. RegistryTyped' /\ closed' \in [Peer -> BOOLEAN] /\ Resumes(p, p, "replying")
      BY <1>1, <3>1, SendTyped DEF RestTyped
    <3> QED BY <1>1, <3>2, ResumesTyped DEF Waiting
  <2> QED BY <2>1, <2>2
<1>3. silent' \in [Peer -> BOOLEAN]
  BY Zenon DEF HandleText, RestTyped
<1>4. is_streaming' \in [Peer -> BOOLEAN]
  BY Zenon DEF HandleText, RestTyped
<1>5. audio_sequence' \in [Peer -> Nat]
  BY DEF HandleText, RestTyped
<1> QED BY <1>2, <1>3, <1>4, <1>5

LEMMA HandleChunkTyped ==
    ASSUME TypeOK, NEW p \in Peer, HandleChunk(p), UNCHANGED monitor,
           endpoint[p] = "receive_bytes"
    PROVE  /\ RegistryTyped' /\ AwaitsTyped'
           /\ closed' \in [Peer -> BOOLEAN]
           /\ audio_sequence' \in [Peer -> Nat]
<1> USE TypeParts
<1>1. p \in Actor /\ p # "monitor"
  BY ConstantsAssumption DEF Actor
<1>2. audio_sequence' \in [Peer -> Nat]
  BY DEF HandleChunk, RestTyped
<1>3. CASE SendToConnection(p, p, "replying")
  <2>1. RegistryTyped' /\ closed' \in [Peer -> BOOLEAN] /\ Resumes(p, p, "replying")
    BY <1>1, <1>3, SendTyped DEF RestTyped
  <2> QED BY <1>1, <1>2, <2>1, ResumesTyped DEF Waiting
<1>4. CASE endpoint' = [endpoint EXCEPT ![p] = "receive_text"] /\ UNCHANGED <<registry, closed, io>>
  BY <1>2, <1>4 DEF registry, RegistryTyped, AwaitsTyped, RestTyped, Waiting, Phase
<1> QED BY <1>3, <1>4 DEF HandleChunk

LEMMA TypeInit == Init => TypeOK
<1> SUFFICES ASSUME Init PROVE TypeOK
  OBVIOUS
<1>1. RegistryTyped
  BY DEF Init, RegistryTyped
<1>2. AwaitsTyped
  BY DEF Init, AwaitsTyped, Waiting, Phase, IORecord, Actor
<1>3. /\ gone \in [Peer -> BOOLEAN] /\ client_gone \in [Peer -> BOOLEAN]
      /\ closed \in [Peer -> BOOLEAN] /\ silent \in [Peer -> BOOLEAN]
      /\ is_streaming \in [Peer -> BOOLEAN]
  BY Zenon DEF Init
<1>4. frames \in 0 .. MaxFrames /\ audio_sequence \in [Peer -> Nat]
  BY ConstantsAssumption DEF Init
<1>5. inbox \in [Peer -> Seq(Frames)]
  BY DEF Init
<1> QED BY <1>1, <1>2, <1>3, <1>4, <1>5, TypeParts DEF Init, RestTyped

\* The steps that end or begin an await.
AwaitStep ==
    \/ \E a \in Actor : SendDone(a) \/ SendFailed(a) \/ CloseEnd(a)
    \/ \E p \in Peer : ReceiveText(p) \/ ReceiveBytes(p) \/ BytesEnded(p) \/ SweepNext(p) \/ PingNext(p)

LEMMA ActorPhase ==
    ASSUME TypeOK, NEW a \in Actor, io[a] # NoIO
    PROVE  /\ io[a].on \in Peer
           /\ a \in Peer => io[a].on = a /\ PhaseOf(a) \in Waiting
           /\ a = "monitor" => monitor # "asleep"
BY DEF TypeOK, IORecord, PhaseOf, Waiting

LEMMA TypeAwaitStep ==
    ASSUME TypeOK, AwaitStep
    PROVE  TypeOK'
<1> USE TypeParts, TypePartsNext
<1>1. ASSUME NEW a \in Actor, SendDone(a) PROVE TypeOK'
  <2>1. io[a] # NoIO
    BY <1>1 DEF SendDone, NoIO
  <2>2. Resumes(a, io[a].on, PhaseOf(a)) /\ UNCHANGED monitor
    BY <1>1 DEF SendDone, Resumes, loops
  <2>3. AwaitsTyped'
    BY <2>1, <2>2, ActorPhase, ResumesTyped
  <2>4. RegistryTyped' /\ RestTyped'
    BY <1>1 DEF SendDone, RegistryTyped, RestTyped, registry, socket, loops, traffic
  <2> QED BY <2>3, <2>4
<1>2. ASSUME NEW a \in Actor, SendFailed(a) PROVE TypeOK'
  <2>1. io[a] # NoIO /\ Disconnect(a, io[a].on, PhaseOf(a)) /\ UNCHANGED monitor
    BY <1>2 DEF SendFailed, NoIO, loops
  <2>2. RegistryTyped' /\ closed' \in [Peer -> BOOLEAN] /\ Resumes(a, io[a].on, PhaseOf(a))
    BY <2>1, ActorPhase, DisconnectTyped DEF RestTyped
  <2>3. AwaitsTyped'
    BY <2>1, <2>2, ActorPhase, ResumesTyped
  <2>4. RestTyped'
    BY <1>2, <2>2 DEF SendFailed, RestTyped, loops, traffic
  <2> QED BY <2>2, <2>3, <2>4
<1>3. ASSUME NEW a \in Actor, CloseEnd(a) PROVE TypeOK'
  <2>1. io[a] # NoIO
    BY <1>3 DEF CloseEnd, NoIO
  <2>2. Resumes(a, io[a].on, PhaseOf(a)) /\ UNCHANGED monitor
    BY <1>3 DEF CloseEnd, Resumes, loops
  <2>3. AwaitsTyped'
    BY <2>1, <2>2, ActorPhase, ResumesTyped
  <2>4. RegistryTyped'
    BY <1>3, <2>1, ActorPhase, RemoveTyped DEF CloseEnd
  <2>5. RestTyped'
    BY <1>3 DEF CloseEnd, RestTyped, socket, loops, traffic
  <2> QED BY <2>3, <2>4, <2>5
<1>4. ASSUME NEW p \in Peer, ReceiveText(p) PROVE TypeOK'
  <2>1. inbox' \in [Peer -> Seq(Frames)]
    BY <1>4 DEF ReceiveText, RestTyped
  <2>2. CASE Head(inbox[p]) \in {"audio", "malformed"}
    <3>1. RegistryTyped'
      BY <1>4, <2>2 DEF ReceiveText, RegistryTyped, registry
    <3>2. AwaitsTyped'
      BY <1>4, <2>2 DEF ReceiveText, AwaitsTyped, Waiting, Phase, loops
    <3>3. RestTyped'
      BY <1>4, <2>1, <2>2 DEF ReceiveText, RestTyped, loops
    <3> QED BY <3>1, <3>2, <3>3
  <2>3. CASE Head(inbox[p]) \notin {"audio", "malformed"}
    <3>1. HandleText(p, Head(inbox[p])) /\ UNCHANGED monitor
      BY <1>4, <2>3 DEF ReceiveText, loops
    <3>2. RestTyped'
      BY <1>4, <2>1, <3>1, HandleTextTyped DEF ReceiveText, RestTyped, loops
    <3> QED BY <3>1, <3>2, HandleTextTyped
  <2> QED BY <2>2, <2>3
<1>5. ASSUME NEW p \in Peer, ReceiveBytes(p) PROVE TypeOK'
  <2>1. inbox' \in [Peer -> Seq(Frames)] /\ endpoint[p] = "receive_bytes" /\ UNCHANGED monitor
    BY <1>5 DEF ReceiveBytes, RestTyped, loops
  <2>2. CASE HandleChunk(p)
    <3>1. RegistryTyped' /\ AwaitsTyped' /\ closed' \in [Peer -> BOOLEAN] /\ audio_sequence' \in [Peer -> Nat]
      BY <2>1, <2>2, HandleChunkTyped
    <3>2. RestTyped'
      BY <1>5, <2>1, <3>1 DEF ReceiveBytes, RestTyped, loops
    <3> QED BY <3>1, <3>2
  <2>3. CASE Disconnect(p, p, "leaving") /\ UNCHANGED audio_sequence
    <3>1. p \in Actor /\ p # "monitor"
      BY ConstantsAssumption DEF Actor
    <3>2. RegistryTyped' /\ closed' \in [Peer -> BOOLEAN] /\ Resumes(p, p, "leaving")
      BY <2>3, <3>1, DisconnectTyped DEF RestTyped
    <3>3. AwaitsTyped'
      BY <2>1, <3>1, <3>2, ResumesTyped DEF Waiting
    <3>4. RestTyped'
      BY <1>5, <2>1, <2>3, <3>2 DEF ReceiveBytes, RestTyped, loops
    <3> QED BY <3>2, <3>3, <3>4
  <2> QED BY <1>5, <2>2, <2>3 DEF ReceiveBytes
<1>6. ASSUME NEW p \in Peer, BytesEnded(p) PROVE TypeOK'
  <2>1. p \in Actor /\ p # "monitor" /\ Disconnect(p, p, "leaving") /\ UNCHANGED monitor
    BY <1>6, ConstantsAssumption DEF Actor, BytesEnded, loops
  <2>2. RegistryTyped' /\ closed' \in [Peer -> BOOLEAN] /\ Resumes(p, p, "leaving")
    BY <2>1, DisconnectTyped DEF RestTyped
  <2>3. AwaitsTyped'
    BY <2>1, <2>2, ResumesTyped DEF Waiting
  <2>4. RestTyped'
    BY <1>6, <2>2 DEF BytesEnded, RestTyped, loops, traffic
  <2> QED BY <2>2, <2>3, <2>4
<1>7. ASSUME NEW p \in Peer, SweepNext(p) \/ PingNext(p) PROVE TypeOK'
  <2>1. /\ "monitor" \in Actor \ Peer
        /\ Disconnect("monitor", p, "none") \/ SendToConnection("monitor", p, "none")
        /\ monitor # "asleep" /\ UNCHANGED monitor
    BY <1>7, ConstantsAssumption DEF Actor, SweepNext, PingNext
  <2>2. RegistryTyped' /\ closed' \in [Peer -> BOOLEAN] /\ Resumes("monitor", p, "none")
    BY <2>1, DisconnectTyped, SendTyped DEF RestTyped
  <2>3. AwaitsTyped'
    BY <2>1, <2>2, ResumesTyped
  <2>4. RestTyped'
    BY <1>7, <2>2 DEF SweepNext, PingNext, RestTyped, traffic
  <2> QED BY <2>2, <2>3, <2>4
<1> QED BY <1>1, <1>2, <1>3, <1>4, <1>5, <1>6, <1>7 DEF AwaitStep

\* The steps of the endpoint that wait for nothing, of the monitor's loop, and of clients.
LEMMA TypeOtherStep ==
    ASSUME TypeOK,
           \/ \E p \in Peer :
                 \/ Connect(p) \/ RefuseEnd(p) \/ Accepted(p) \/ AcceptFailed(p)
                 \/ Started(p) \/ StartFailed(p) \/ TextEnded(p)
                 \/ ClientSends(p) \/ ClientLeaves(p) \/ FallSilent(p)
           \/ SweepBegin \/ SweepEnd \/ PingEnd \/ UNCHANGED vars
    PROVE  TypeOK'
<1> USE TypeParts, TypePartsNext
<1> USE DEF registry, socket, loops, traffic
<1>1. ASSUME NEW p \in Peer, Connect(p) \/ RefuseEnd(p) \/ AcceptFailed(p) \/ Started(p)
      PROVE  TypeOK'
  <2>1. AwaitsTyped'
    BY <1>1 DEF Connect, RefuseEnd, AcceptFailed, Started, AwaitsTyped, Waiting, Phase
  <2>2. RegistryTyped' /\ RestTyped'
    BY <1>1 DEF Connect, RefuseEnd, AcceptFailed, Started, RegistryTyped, RestTyped
  <2> QED BY <2>1, <2>2
<1>2. ASSUME NEW p \in Peer, Accepted(p) PROVE TypeOK'
  <2>1. p \in Actor /\ p # "monitor"
    BY ConstantsAssumption DEF Actor
  <2>2. Resumes(p, p, "confirming") /\ UNCHANGED monitor
    BY <1>2 DEF Accepted, Resumes, InPhase
  <2>3. AwaitsTyped'
    BY <2>1, <2>2, ResumesTyped DEF Waiting
  <2>4. RegistryTyped'
    BY <1>2, RegisterTyped DEF Accepted
  <2>5. silent' \in [Peer -> BOOLEAN]
    BY <1>2 DEF Accepted, RestTyped
  <2> QED BY <1>2, <2>3, <2>4, <2>5 DEF Accepted, RestTyped
<1>3. ASSUME NEW p \in Peer, StartFailed(p) PROVE TypeOK'
  <2>1. AwaitsTyped'
    BY <1>3 DEF StartFailed, AwaitsTyped, Waiting, Phase
  <2> QED BY <1>3, <2>1 DEF StartFailed, RegistryTyped, RestTyped
<1>4. ASSUME NEW p \in Peer, TextEnded(p) PROVE TypeOK'
  <2>1. AwaitsTyped'
    BY <1>4 DEF TextEnded, AwaitsTyped, Waiting, Phase
  <2>2. client_gone' \in [Peer -> BOOLEAN]
    BY <1>4, Zenon DEF TextEnded, RestTyped
  <2> QED BY <1>4, <2>1, <2>2 DEF TextEnded, RegistryTyped, RestTyped
<1>5. ASSUME NEW p \in Peer, ClientSends(p) PROVE TypeOK'
  <2>1. PICK f \in Frames : inbox' = [inbox EXCEPT ![p] = Append(@, f)]
    BY <1>5 DEF ClientSends
  <2>2. inbox' \in [Peer -> Seq(Frames)]
    BY <2>1 DEF RestTyped
  <2>3. frames' \in 0 .. MaxFrames
    BY <1>5, ConstantsAssumption DEF ClientSends, RestTyped
  <2>4. RegistryTyped' /\ AwaitsTyped'
    BY <1>5 DEF ClientSends, RegistryTyped, AwaitsTyped
  <2> QED BY <1>5, <2>2, <2>3, <2>4 DEF ClientSends, RestTyped
<1>6. ASSUME NEW p \in Peer, ClientLeaves(p) \/ FallSilent(p) PROVE TypeOK'
  <2>1. RegistryTyped' /\ AwaitsTyped'
    BY <1>6 DEF ClientLeaves, FallSilent, RegistryTyped, AwaitsTyped
  <2>2. RestTyped'
    BY <1>6 DEF ClientLeaves, FallSilent, RestTyped
  <2> QED BY <2>1, <2>2
<1>7. CASE SweepBegin \/ SweepEnd \/ PingEnd
  <2>1. RegistryTyped' /\ AwaitsTyped'
    BY <1>7 DEF SweepBegin, SweepEnd, PingEnd, RegistryTyped, AwaitsTyped
  <2>2. todo' \subseteq Peer
    BY <1>7 DEF SweepBegin, SweepEnd, PingEnd, RegistryTyped
  <2>3. RestTyped'
    BY <1>7, <2>2 DEF SweepBegin, SweepEnd, PingEnd, RestTyped
  <2> QED BY <2>1, <2>3
<1>8. CASE UNCHANGED vars
  BY <1>8 DEF vars, RegistryTyped, AwaitsTyped, RestTyped
<1> QED BY <1>1, <1>2, <1>3, <1>4, <1>5, <1>6, <1>7, <1>8

LEMMA NextCases ==
    [Next]_vars =>
        \/ AwaitStep
        \/ \E p \in Peer :
              \/ Connect(p) \/ RefuseEnd(p) \/ Accepted(p) \/ AcceptFailed(p)
              \/ Started(p) \/ StartFailed(p) \/ TextEnded(p)
              \/ ClientSends(p) \/ ClientLeaves(p) \/ FallSilent(p)
        \/ SweepBegin \/ SweepEnd \/ PingEnd \/ UNCHANGED vars
BY DEF Next, AwaitStep

LEMMA TypeStep == TypeOK /\ [Next]_vars => TypeOK'
BY NextCases, TypeAwaitStep, TypeOtherStep

\* The state of the manager, of its endpoints and of its monitor stays well-typed; an
\* endpoint never runs on while its send or close is awaited.
THEOREM SocketsTypeCorrect == Spec => []TypeOK
BY TypeInit, TypeStep, PTL DEF Spec

-----------------------------------------------------------------------------
(* The tables agree.                                                         *)

\* The registry changes by one registration or one removal at a time.
RegistryStep ==
    \/ UNCHANGED registry
    \/ \E p \in Peer : Register(p) \/ RemoveConnection(p)

LEMMA DisconnectRegistry ==
    ASSUME NEW a, NEW p \in Peer, NEW x, Disconnect(a, p, x) \/ SendToConnection(a, p, x)
    PROVE  RegistryStep
BY DEF RegistryStep, Disconnect, SendToConnection, registry

LEMMA NextRegistry ==
    ASSUME TypeOK, [Next]_vars
    PROVE  RegistryStep
<1>1. ASSUME NEW a \in Actor, SendDone(a) \/ SendFailed(a) \/ CloseEnd(a) PROVE RegistryStep
  <2>1. CASE SendDone(a)
    BY <2>1 DEF SendDone, RegistryStep
  <2>2. CASE SendFailed(a)
    <3>1. io[a].on \in Peer
      BY <2>2, ActorPhase DEF SendFailed, NoIO
    <3> QED BY <2>2, <3>1, DisconnectRegistry DEF SendFailed
  <2>3. CASE CloseEnd(a)
    <3>1. io[a].on \in Peer
      BY <2>3, ActorPhase DEF CloseEnd, NoIO
    <3> QED BY <2>3, <3>1 DEF CloseEnd, RegistryStep
  <2> QED BY <1>1, <2>1, <2>2, <2>3
<1>2. ASSUME NEW p \in Peer, ReceiveText(p) \/ ReceiveBytes(p) \/ BytesEnded(p)
                             \/ SweepNext(p) \/ PingNext(p)
      PROVE  RegistryStep
  <2>1. \/ UNCHANGED registry
        \/ \E a, x : Disconnect(a, p, x) \/ SendToConnection(a, p, x)
    BY <1>2 DEF ReceiveText, HandleText, ReceiveBytes, HandleChunk, BytesEnded, SweepNext, PingNext, registry
  <2> QED BY <2>1, DisconnectRegistry DEF RegistryStep
<1>3. ASSUME NEW p \in Peer,
             \/ Connect(p) \/ RefuseEnd(p) \/ Accepted(p) \/ AcceptFailed(p)
             \/ Started(p) \/ StartFailed(p) \/ TextEnded(p)
             \/ ClientSends(p) \/ ClientLeaves(p) \/ FallSilent(p)
      PROVE  RegistryStep
  BY <1>3 DEF Connect, RefuseEnd, Accepted, AcceptFailed, Started, StartFailed, TextEnded,
              ClientSends, ClientLeaves, FallSilent, RegistryStep
<1>4. CASE SweepBegin \/ SweepEnd \/ PingEnd \/ UNCHANGED vars
  BY <1>4 DEF SweepBegin, SweepEnd, PingEnd, vars, RegistryStep
<1> QED BY <1>1, <1>2, <1>3, <1>4, NextCases DEF AwaitStep

LEMMA TablesStep ==
    ASSUME TypeOK, TablesAgree, RegistryStep
    PROVE  TablesAgree'
<1> USE DEF TypeOK, TablesAgree
<1>1. CASE UNCHANGED registry
  BY <1>1 DEF registry
<1>2. ASSUME NEW p \in Peer, Register(p) PROVE TablesAgree'
  <2>1. \A s \in Session : sessions'[s] = IF s = SessionOf[p] THEN sessions[s] \union {p} ELSE sessions[s]
    BY <1>2 DEF Register
  <2>2. \A u \in User : user_connections'[u] = IF u = UserOf[p] THEN user_connections[u] \union {p} ELSE user_connections[u]
    BY <1>2 DEF Register
  <2>3. connections' = connections \union {p}
    BY <1>2 DEF Register
  <2>4. ASSUME NEW s \in Session PROVE sessions'[s] = {q \in connections' : SessionOf[q] = s}
    <3>1. sessions[s] = {q \in connections : SessionOf[q] = s}
      OBVIOUS
    <3>2. CASE s = SessionOf[p]
      BY <2>1, <2>3, <3>1, <3>2, Zenon
    <3>3. CASE s # SessionOf[p]
      BY <2>1, <2>3, <3>1, <3>3, Zenon
    <3> QED BY <3>2, <3>3
  <2>5. ASSUME NEW u \in User PROVE user_connections'[u] = {q \in connections' : UserOf[q] = u}
    <3>1. user_connections[u] = {q \in connections : UserOf[q] = u}
      OBVIOUS
    <3>2. CASE u = UserOf[p]
      BY <2>2, <2>3, <3>1, <3>2, Zenon
    <3>3. CASE u # UserOf[p]
      BY <2>2, <2>3, <3>1, <3>3, Zenon
    <3> QED BY <3>2, <3>3
  <2> QED BY <2>4, <2>5
<1>3. ASSUME NEW p \in Peer, RemoveConnection(p) PROVE TablesAgree'
  <2>1. \A s \in Session : sessions'[s] = IF s = SessionOf[p] THEN sessions[s] \ {p} ELSE sessions[s]
    BY <1>3 DEF RemoveConnection
  <2>2. \A u \in User : user_connections'[u] = IF u = UserOf[p] THEN user_connections[u] \ {p} ELSE user_connections[u]
    BY <1>3 DEF RemoveConnection
  <2>3. connections' = connections \ {p}
    BY <1>3 DEF RemoveConnection
  <2>4. ASSUME NEW s \in Session PROVE sessions'[s] = {q \in connections' : SessionOf[q] = s}
    <3>1. sessions[s] = {q \in connections : SessionOf[q] = s}
      OBVIOUS
    <3> QED BY <2>1, <2>3, <3>1
  <2>5. ASSUME NEW u \in User PROVE user_connections'[u] = {q \in connections' : UserOf[q] = u}
    <3>1. user_connections[u] = {q \in connections : UserOf[q] = u}
      OBVIOUS
    <3> QED BY <2>2, <2>3, <3>1
  <2> QED BY <2>4, <2>5
<1> QED BY <1>1, <1>2, <1>3 DEF RegistryStep

\* The three tables of the connection manager agree, however many coroutines register and
\* disconnect connections at once.
THEOREM SocketTablesAgree == Spec => []TablesAgree
<1>1. Init => TablesAgree
  BY DEF Init, TablesAgree
<1>2. TypeOK /\ TablesAgree /\ [Next]_vars => TablesAgree'
  BY NextRegistry, TablesStep
<1> QED BY <1>1, <1>2, SocketsTypeCorrect, PTL DEF Spec

-----------------------------------------------------------------------------
(* Who leaves a connection registered.                                       *)

\* A client is not registered before its endpoint is accepted; an endpoint leaves by a
\* close; and when it is over its connection is gone, or its orchestrator never was.
Settled(p) ==
    /\ endpoint[p] \in {"away", "refused", "accepting"} => p \notin connections
    /\ endpoint[p] = "leaving" => io[p].op = "close"
    /\ endpoint[p] = "over" => p \notin connections \/ p \in unstarted

AllSettled == \A p \in Peer : Settled(p)

\* A step of coroutine a that registers nobody settles the others.
LEMMA OthersSettled ==
    ASSUME TypeOK, AllSettled, NEW a \in Actor, NEW y, NEW r,
           io' = [io EXCEPT ![a] = r], InPhase(a, y),
           connections' \subseteq connections, UNCHANGED unstarted,
           a \in Peer => Settled(a)'
    PROVE  AllSettled'
<1> SUFFICES ASSUME NEW q \in Peer, q # a PROVE Settled(q)'
  BY DEF AllSettled
<1>1. endpoint'[q] = endpoint[q] /\ io'[q] = io[q]
  BY DEF TypeOK, InPhase, Actor
<1> QED BY <1>1 DEF AllSettled, Settled

LEMMA DisconnectSettled ==
    ASSUME TypeOK, AllSettled, NEW a \in Actor, NEW p \in Peer, NEW x,
           Disconnect(a, p, x), UNCHANGED unstarted,
           a \in Peer => p = a /\ x \in Waiting
    PROVE  AllSettled'
<1>1. CASE Usable(p)
  <2>1. io' = [io EXCEPT ![a] = IO("close", p)] /\ InPhase(a, x) /\ UNCHANGED connections
    BY <1>1 DEF Disconnect, registry
  <2>2. ASSUME a \in Peer PROVE Settled(a)'
    <3>1. endpoint'[a] = x /\ x \in Waiting
      BY <2>1, <2>2 DEF InPhase, TypeOK
    <3>2. io'[a].op = "close"
      BY <2>1 DEF TypeOK, IO
    <3> QED BY <3>1, <3>2 DEF Settled, Waiting
  <2> QED BY <2>1, <2>2, OthersSettled
<1>2. CASE ~Usable(p)
  <2>1. /\ io' = [io EXCEPT ![a] = NoIO] /\ InPhase(a, PhaseAfter(x))
        /\ connections' = connections \ {p}
    BY <1>2 DEF Disconnect, RemoveConnection
  <2>2. ASSUME a \in Peer PROVE Settled(a)'
    <3>1. endpoint'[a] = PhaseAfter(x) /\ p = a /\ x \in Waiting
      BY <2>1, <2>2 DEF InPhase, TypeOK
    <3>2. endpoint'[a] # "leaving" /\ a \notin connections'
      BY <2>1, <3>1 DEF PhaseAfter, Waiting
    <3> QED BY <3>2 DEF Settled
  <2> QED BY <2>1, <2>2, OthersSettled
<1> QED BY <1>1, <1>2

LEMMA SendSettled ==
    ASSUME TypeOK, AllSettled, NEW a \in Actor, NEW p \in Peer, NEW x,
           SendToConnection(a, p, x), UNCHANGED unstarted,
           a \in Peer => p = a /\ x = "replying"
    PROVE  AllSettled'
<1>1. CASE Usable(p)
  <2>1. io' = [io EXCEPT ![a] = IO("send", p)] /\ InPhase(a, x) /\ UNCHANGED connections
    BY <1>1 DEF SendToConnection, registry
  <2>2. a \in Peer => endpoint'[a] = "replying"
    BY <2>1 DEF InPhase, TypeOK
  <2> QED BY <2>1, <2>2, OthersSettled DEF Settled
<1>2. CASE ~Usable(p)
  BY <1>2, DisconnectSettled DEF SendToConnection, Waiting
<1> QED BY <1>1, <1>2

LEMMA SettledAwaitStep ==
    ASSUME TypeOK, AllSettled, AwaitStep
    PROVE  AllSettled'
<1>1. ASSUME NEW a \in Actor, SendDone(a) PROVE AllSettled'
  <2>1. io[a] # NoIO /\ io[a].op = "send"
    BY <1>1 DEF SendDone, NoIO
  <2>2. /\ io' = [io EXCEPT ![a] = NoIO] /\ InPhase(a, PhaseAfter(PhaseOf(a)))
        /\ UNCHANGED <<connections, unstarted>>
    BY <1>1 DEF SendDone, registry
  <2>3. ASSUME a \in Peer PROVE Settled(a)'
    <3>1. endpoint[a] \in {"confirming", "replying"} /\ PhaseOf(a) = endpoint[a]
      BY <2>1, <2>3, ActorPhase DEF AllSettled, Settled, PhaseOf, Waiting
    <3>2. endpoint'[a] \in {"starting", "receive_text"}
      BY <2>2, <2>3, <3>1 DEF InPhase, PhaseAfter, TypeOK
    <3> QED BY <3>2 DEF Settled
  <2> QED BY <2>2, <2>3, OthersSettled
<1>2. ASSUME NEW a \in Actor, SendFailed(a) PROVE AllSettled'
  <2>1. io[a] # NoIO /\ Disconnect(a, io[a].on, PhaseOf(a)) /\ UNCHANGED unstarted
    BY <1>2 DEF SendFailed, NoIO
  <2> QED BY <2>1, ActorPhase, DisconnectSettled
<1>3. ASSUME NEW a \in Actor, CloseEnd(a) PROVE AllSettled'
  <2>1. io[a] # NoIO
    BY <1>3 DEF CloseEnd, NoIO
  <2>2. /\ io' = [io EXCEPT ![a] = NoIO] /\ InPhase(a, PhaseAfter(PhaseOf(a)))
        /\ connections' = connections \ {io[a].on} /\ UNCHANGED unstarted
    BY <1>3 DEF CloseEnd, RemoveConnection
  <2>3. ASSUME a \in Peer PROVE Settled(a)'
    <3>1. PhaseOf(a) \in Waiting /\ a \notin connections'
      BY <2>1, <2>2, <2>3, ActorPhase
    <3>2. endpoint'[a] = PhaseAfter(PhaseOf(a))
      BY <2>2, <2>3 DEF InPhase, TypeOK
    <3>3. endpoint'[a] # "leaving"
      BY <3>1, <3>2 DEF PhaseAfter, Waiting
    <3> QED BY <3>1, <3>3 DEF Settled
  <2> QED BY <2>2, <2>3, OthersSettled
<1>4. ASSUME NEW p \in Peer, ReceiveText(p) \/ ReceiveBytes(p) \/ BytesEnded(p) PROVE AllSettled'
  <2>1. p \in Actor
    BY DEF Actor
  <2>2. /\ UNCHANGED unstarted
        /\ \/ Disconnect(p, p, "leaving")
           \/ SendToConnection(p, p, "replying")
           \/ UNCHANGED <<endpoint, io, registry>>
           \/ /\ \E y \in {"receive_text", "receive_bytes"} : endpoint' = [endpoint EXCEPT ![p] = y]
              /\ UNCHANGED <<io, registry>>
    BY <1>4 DEF ReceiveText, HandleText, ReceiveBytes, HandleChunk, BytesEnded, registry
  <2>3. CASE Disconnect(p, p, "leaving")
    BY <2>1, <2>2, <2>3, DisconnectSettled DEF Waiting
  <2>4. CASE SendToConnection(p, p, "replying")
    BY <2>1, <2>2, <2>4, SendSettled
  <2>5. CASE UNCHANGED <<endpoint, io, registry>>
    BY <2>2, <2>5 DEF AllSettled, Settled, registry
  <2>6. CASE /\ \E y \in {"receive_text", "receive_bytes"} : endpoint' = [endpoint EXCEPT ![p] = y]
             /\ UNCHANGED <<io, registry>>
    BY <2>2, <2>6 DEF AllSettled, Settled, registry, TypeOK
  <2> QED BY <2>2, <2>3, <2>4, <2>5, <2>6
<1>5. ASSUME NEW p \in Peer, SweepNext(p) \/ PingNext(p) PROVE AllSettled'
  <2>1. "monitor" \in Actor \ Peer /\ UNCHANGED unstarted
    BY <1>5, ConstantsAssumption DEF Actor, SweepNext, PingNext
  <2> QED BY <1>5, <2>1, DisconnectSettled, SendSettled DEF SweepNext, PingNext
<1> QED BY <1>1, <1>2, <1>3, <1>4, <1>5 DEF AwaitStep

LEMMA SettledOtherStep ==
    ASSUME TypeOK, AllSettled,
           \/ \E p \in Peer :
                 \/ Connect(p) \/ RefuseEnd(p) \/ Accepted(p) \/ AcceptFailed(p)
                 \/ Started(p) \/ StartFailed(p) \/ TextEnded(p)
                 \/ ClientSends(p) \/ ClientLeaves(p) \/ FallSilent(p)
           \/ SweepBegin \/ SweepEnd \/ PingEnd \/ UNCHANGED vars
    PROVE  AllSettled'
<1> USE DEF AllSettled, Settled, TypeOK, registry
<1>1. ASSUME NEW p \in Peer, Connect(p) \/ RefuseEnd(p) \/ AcceptFailed(p) PROVE AllSettled'
  BY <1>1 DEF Connect, RefuseEnd, AcceptFailed
<1>2. ASSUME NEW p \in Peer, Accepted(p) PROVE AllSettled'
  BY <1>2 DEF Accepted, Register, Actor
<1>3. ASSUME NEW p \in Peer, Started(p) \/ StartFailed(p) \/ TextEnded(p) PROVE AllSettled'
  BY <1>3 DEF Started, StartFailed, TextEnded
<1>4. ASSUME NEW p \in Peer, ClientSends(p) \/ ClientLeaves(p) \/ FallSilent(p) PROVE AllSettled'
  BY <1>4 DEF ClientSends, ClientLeaves, FallSilent
<1>5. CASE SweepBegin \/ SweepEnd \/ PingEnd \/ UNCHANGED vars
  BY <1>5 DEF SweepBegin, SweepEnd, PingEnd, vars
<1> QED BY <1>1, <1>2, <1>3, <1>4, <1>5

\* A connection whose endpoint is over is registered no more, unless its orchestrator could
\* not be constructed: every way out of the receive loop frees the user's slot.
THEOREM OnlyUnstartedEverLinger == Spec => []OnlyUnstartedLinger
<1>1. Init => AllSettled
  BY DEF Init, AllSettled, Settled
<1>2. TypeOK /\ AllSettled /\ [Next]_vars => AllSettled'
  BY NextCases, SettledAwaitStep, SettledOtherStep
<1>3. TypeOK /\ AllSettled => OnlyUnstartedLinger
  BY DEF TypeOK, AllSettled, Settled, OnlyUnstartedLinger
<1> QED BY <1>1, <1>2, <1>3, SocketsTypeCorrect, PTL DEF Spec

=============================================================================

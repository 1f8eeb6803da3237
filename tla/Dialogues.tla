------------------------------ MODULE Dialogues ------------------------------
(***************************************************************************)
(* Conversations with the language model: LLMManager                       *)
(* (services/llm/llm_manager.py), whose requests read a conversation, wait *)
(* for the model and then record question and answer, over                 *)
(* ConversationManager (services/llm/conversation_manager.py), which       *)
(* summarises every Threshold messages and waits for the model again       *)
(* inside of add_message.                                                  *)
(*                                                                         *)
(* One event loop: a step runs from one wait for the model to the next,    *)
(* and a call may be cancelled where it waits, as the orchestrator's       *)
(* timeout cancels the requests of its intent classifier.                  *)
(* Abstracted: contents, prompts, sentiment, intents and entities (their   *)
(* analysis never waits), counters and statistics.                         *)
(***************************************************************************)
EXTENDS Naturals, Sequences, FiniteSets

CONSTANTS
    Call,         \* requests, changes of state and manual summaries
    Conv, NoConv, \* conversation ids; a request outside any conversation
    Session,
    Threshold,    \* summarization_threshold: 20
    MaxDays,      \* bound: so often 24 hours pass
    MaxShutdowns  \* bound

\* A first message alone is never summarised; "start" stands for whoever sent it.  There
\* are session ids, for a conversation is started in a session.
ASSUME ConstantsAssumption ==
    /\ NoConv \notin Conv
    /\ "start" \notin Call
    /\ Session # {}
    /\ Threshold \in Nat \ {0, 1}
    /\ MaxDays \in Nat /\ MaxShutdowns \in Nat

VARIABLES
    manager,      \* LLMManager: is_initialized, its services, the lock (see below)
    frozen,       \* the event loop waits for a threading.Lock it holds itself
    life,         \* of each conversation: in conversations or not
    state,        \* context.state
    messages,     \* context.messages: who added what
    summaries,    \* context.summaries: the count of messages each one ends at
    old,          \* conversations whose last_activity is more than 24 hours ago
    active,       \* active_sessions
    home,         \* context.session_id
    phase, about, \* of each call: what it waits for; its conversation
    seen,         \* messages in the conversation when the awaited summary was begun
    outcome,      \* of each call
    missed,       \* history: summaries that the model failed to write, or nobody waited for
    days, shutdowns

contexts == <<life, state, messages, summaries, old>>
vars == <<manager, frozen, contexts, active, home, phase, about, seen, outcome, missed, days,
          shutdowns>>

\* What the manager is.  "off": no services.  "warming": services, the lock held, not
\* initialised; "undone" if a shutdown dropped the services meanwhile.  "on": initialised.
\* "hollow": initialised without services.  "stale": services of an initialisation that was
\* cancelled, so not initialised; conversations can be started and held all the same.
Managers == {"off", "warming", "undone", "on", "hollow", "stale"}
Served == {"warming", "on", "stale"}

Inactive == {"RESOLVED"}
States == {"INITIATED", "WAITING_USER", "WAITING_SYSTEM", "ESCALATED"} \union Inactive
Waits == {"warming", "generating", "afterUser", "afterAnswer", "afterSystem", "digesting"}
AutoSummary == {"afterUser", "afterAnswer", "afterSystem"}

Live(c) == c \in Conv /\ life[c] = "live"
Waiting(q) == phase[q] \in Waits
By(q, role) == [by |-> q, role |-> role]

Init ==
    /\ manager = "off"
    /\ frozen = FALSE
    /\ life = [c \in Conv |-> "unborn"]
    /\ state = [c \in Conv |-> "INITIATED"]
    /\ messages = [c \in Conv |-> <<>>]
    /\ summaries = [c \in Conv |-> <<>>]
    /\ old = {}
    /\ active = [s \in Session |-> NoConv]
    /\ home = [c \in Conv |-> CHOOSE s \in Session : TRUE]
    /\ phase = [q \in Call |-> "none"]
    /\ about = [q \in Call |-> NoConv]
    /\ seen = [q \in Call |-> 0]
    /\ outcome = [q \in Call |-> "none"]
    /\ missed = {}
    /\ days = 0
    /\ shutdowns = 0

-----------------------------------------------------------------------------
(* Steps of a call.                                                          *)

\* The call waits for the model, to write a summary of the first n messages.
Await(q, p, n) ==
    /\ phase' = [phase EXCEPT ![q] = p]
    /\ seen' = [seen EXCEPT ![q] = n]
    /\ UNCHANGED outcome

\* The call returns.
Return(q, o) ==
    /\ phase' = [phase EXCEPT ![q] = "done"]
    /\ seen' = [seen EXCEPT ![q] = 0]
    /\ outcome' = [outcome EXCEPT ![q] = o]

\* Mutant: a message is no activity.
BugRecord(c, new, s) ==
    /\ messages' = [messages EXCEPT ![c] = @ \o new]
    /\ state' = [state EXCEPT ![c] = s]
    /\ UNCHANGED <<life, old>>

\* The messages new are added to conversation c, which is then in state s.
Record(c, new, s) ==
    /\ messages' = [messages EXCEPT ![c] = @ \o new]
    /\ state' = [state EXCEPT ![c] = s]
    /\ old' = old \ {c}
    /\ UNCHANGED life

\* A conversation of n messages is due for a summary of the last Threshold of them.
Due(n) == n >= Threshold /\ n % Threshold = 0

\* generate_response, to where the model works on the answer.  The manager is made by the
\* first request that needs it; a second one meanwhile waits for the lock, and with it the
\* event loop that would release it.
Request(q, c) ==
    /\ phase[q] = "none"
    /\ c \in Conv => life[c] # "unborn"
    /\ about' = [about EXCEPT ![q] = c]
    /\ \/ /\ manager = "on"
          /\ Await(q, "generating", 0)
          /\ UNCHANGED <<manager, frozen>>
       \/ /\ manager = "off"
          /\ manager' = "warming"
          /\ Await(q, "warming", 0)
          /\ UNCHANGED frozen
       \/ /\ manager \in {"off", "stale", "hollow"}
          /\ Return(q, "failed")
          /\ UNCHANGED <<manager, frozen>>
       \/ /\ manager \in {"warming", "undone"}
          /\ frozen' = TRUE
          /\ UNCHANGED <<manager, phase, seen, outcome>>
    /\ UNCHANGED <<contexts, active, home, missed, days, shutdowns>>

\* The model is warmed up, or failed to and is used all the same.
Warmed(q) ==
    /\ phase[q] = "warming"
    /\ \/ /\ manager = "warming"
          /\ manager' = "on"
          /\ Await(q, "generating", 0)
       \/ /\ manager = "undone"
          /\ manager' = "hollow"
          /\ Return(q, "failed")
    /\ UNCHANGED <<frozen, contexts, active, home, about, missed, days, shutdowns>>

GenerationFails(q) ==
    /\ phase[q] = "generating"
    /\ Return(q, "failed")
    /\ UNCHANGED <<manager, frozen, contexts, active, home, about, missed, days, shutdowns>>

\* A streamed response takes the same steps and yields the answer in pieces first; when
\* its consumer leaves at one of them, the generator is closed and records nothing.
StreamAbandoned(q) ==
    /\ phase[q] = "generating"
    /\ Return(q, "unrecorded")
    /\ UNCHANGED <<manager, frozen, contexts, active, home, about, missed, days, shutdowns>>

\* The answer has come: question and answer are recorded, with a wait after either if a
\* summary is due.
Answered(q) ==
    LET c == about[q]
        n == Len(messages[c])
        question == By(q, "user")
        answer == By(q, "assistant")
    IN
    /\ phase[q] = "generating"
    /\ \/ /\ ~Live(c)
          /\ Return(q, "unrecorded")
          /\ UNCHANGED <<life, state, messages, old>>
       \/ /\ Live(c) /\ Due(n + 1)
          /\ Record(c, <<question>>, "WAITING_SYSTEM")
          /\ Await(q, "afterUser", n + 1)
       \/ /\ Live(c) /\ ~Due(n + 1)
          /\ Record(c, <<question, answer>>, "WAITING_USER")
          /\ IF Due(n + 2) THEN Await(q, "afterAnswer", n + 2) ELSE Return(q, "recorded")
    /\ UNCHANGED <<manager, frozen, summaries, active, home, about, missed, days, shutdowns>>

\* Mutant: the segment is measured when the summary has been written.
BugSummaryOf(q) == Len(messages[about[q]])

\* What the summary that q waited for covers: what there was when it was begun.
SummaryOf(q) == seen[q]

\* The model has written the summary, or failed to; a conversation that was removed
\* meanwhile takes it with it.
Summarised(q) ==
    LET c == about[q] IN
    \/ /\ Live(c)
       /\ summaries' = [summaries EXCEPT ![c] = Append(@, SummaryOf(q))]
       /\ UNCHANGED missed
    \/ /\ Live(c)
       /\ missed' = missed \union {<<c, SummaryOf(q)>>}
       /\ UNCHANGED summaries
    \/ /\ ~Live(c)
       /\ UNCHANGED <<summaries, missed>>

\* The call is cancelled where it waits.  No handler on the way catches CancelledError: an
\* answer stays unrecorded and an awaited summary unwritten.  An initialisation lets go of
\* the lock, and what it set up stays, unless a shutdown dropped it.
Cancelled(q) ==
    /\ Waiting(q)
    /\ Return(q, "cancelled")
    /\ \/ phase[q] = "warming" /\ manager = "warming" /\ manager' = "stale"
       \/ phase[q] = "warming" /\ manager = "undone" /\ manager' = "off"
       \/ phase[q] # "warming" /\ UNCHANGED manager
    /\ missed' = IF phase[q] \in AutoSummary /\ Live(about[q])
                 THEN missed \union {<<about[q], seen[q]>>}
                 ELSE missed
    /\ UNCHANGED <<frozen, contexts, active, home, about, days, shutdowns>>

\* The question's summary is done: the answer follows, whoever wrote in between.  Without
\* the conversation, or without a manager, it is dropped.
AnswerFollows(q) ==
    LET c == about[q]
        n == Len(messages[c])
    IN
    /\ phase[q] = "afterUser"
    /\ Summarised(q)
    /\ \/ /\ Live(c)
          /\ Record(c, <<By(q, "assistant")>>, "WAITING_USER")
          /\ IF Due(n + 1) THEN Await(q, "afterAnswer", n + 1) ELSE Return(q, "recorded")
       \/ /\ ~Live(c)
          /\ Return(q, "half")
          /\ UNCHANGED <<life, state, messages, old>>
    /\ UNCHANGED <<manager, frozen, active, home, about, days, shutdowns>>

\* Mutant: the summaries of one conversation wait for each other.
BugSummaryEnds(q) ==
    /\ phase[q] \in {"afterAnswer", "afterSystem"}
    /\ \A r \in Call \ {q} : about[r] = about[q] => phase[r] \notin AutoSummary
    /\ Summarised(q)
    /\ Return(q, "recorded")
    /\ UNCHANGED <<manager, frozen, life, state, messages, old, active, home, about, days,
                   shutdowns>>

SummaryEnds(q) ==
    /\ phase[q] \in {"afterAnswer", "afterSystem"}
    /\ Summarised(q)
    /\ Return(q, "recorded")
    /\ UNCHANGED <<manager, frozen, life, state, messages, old, active, home, about, days,
                   shutdowns>>

\* update_conversation_state, with the message that tells of it.
UpdateState(q, c, s) ==
    LET n == Len(messages[c]) IN
    /\ phase[q] = "none"
    /\ Live(c)
    /\ about' = [about EXCEPT ![q] = c]
    /\ Record(c, <<By(q, "system")>>, s)
    /\ IF Due(n + 1) THEN Await(q, "afterSystem", n + 1) ELSE Return(q, "recorded")
    /\ UNCHANGED <<manager, frozen, summaries, active, home, missed, days, shutdowns>>

\* summarize_conversation: of all that was said.
Digest(q, c) ==
    /\ phase[q] = "none"
    /\ Live(c)
    /\ about' = [about EXCEPT ![q] = c]
    /\ Await(q, "digesting", Len(messages[c]))
    /\ UNCHANGED <<manager, frozen, contexts, active, home, missed, days, shutdowns>>

\* The digest counts the messages there are now, not those it was written from.
Digested(q) ==
    LET c == about[q] IN
    /\ phase[q] = "digesting"
    /\ \/ /\ summaries' = IF Live(c) THEN [summaries EXCEPT ![c] = Append(@, 0)] ELSE summaries
          /\ Return(q, "recorded")
       \/ /\ UNCHANGED summaries
          /\ Return(q, "failed")
    /\ UNCHANGED <<manager, frozen, life, state, messages, old, active, home, about, missed,
                   days, shutdowns>>

-----------------------------------------------------------------------------
(* Conversations come and go.                                                *)

StartConversation(c, s, first) ==
    /\ manager \in Served
    /\ life[c] = "unborn"
    /\ life' = [life EXCEPT ![c] = "live"]
    /\ home' = [home EXCEPT ![c] = s]
    /\ active' = [active EXCEPT ![s] = c]
    /\ messages' = [messages EXCEPT ![c] = first]
    /\ state' = [state EXCEPT ![c] = IF first = <<>> THEN "INITIATED" ELSE "WAITING_SYSTEM"]
    /\ UNCHANGED <<manager, frozen, summaries, old, phase, about, seen, outcome, missed, days,
                   shutdowns>>

\* The conversations of R are gone, with all that was said.
Remove(R) ==
    /\ life' = [c \in Conv |-> IF c \in R THEN "gone" ELSE life[c]]
    /\ state' = [c \in Conv |-> IF c \in R THEN "INITIATED" ELSE state[c]]
    /\ messages' = [c \in Conv |-> IF c \in R THEN <<>> ELSE messages[c]]
    /\ summaries' = [c \in Conv |-> IF c \in R THEN <<>> ELSE summaries[c]]
    /\ old' = old \ R

\* Mutant: the session keeps its entry.
BugForgetSessions(R) == UNCHANGED active

\* A removed conversation takes the entry of its session with it, whichever it points to.
ForgetSessions(R) ==
    active' = [s \in Session |-> IF \E c \in R : home[c] = s THEN NoConv ELSE active[s]]

Cleanable == {c \in old : Live(c) /\ state[c] \in Inactive}

\* cleanup_old_conversations(24)
Cleanup ==
    /\ Cleanable # {}
    /\ Remove(Cleanable)
    /\ ForgetSessions(Cleanable)
    /\ UNCHANGED <<manager, frozen, home, phase, about, seen, outcome, missed, days, shutdowns>>

\* Mutant: the conversations outlive the manager.
BugShutdown ==
    /\ shutdowns < MaxShutdowns
    /\ shutdowns' = shutdowns + 1
    /\ manager' = IF manager \in {"warming", "undone"} THEN "undone" ELSE "off"
    /\ UNCHANGED <<contexts, active, frozen, home, phase, about, seen, outcome, missed, days>>

\* shutdown drops the services; one that is being warmed up is declared ready afterwards.
Shutdown ==
    /\ shutdowns < MaxShutdowns
    /\ shutdowns' = shutdowns + 1
    /\ manager' = IF manager \in {"warming", "undone"} THEN "undone" ELSE "off"
    /\ Remove({c \in Conv : Live(c)})
    /\ active' = [s \in Session |-> NoConv]
    /\ UNCHANGED <<frozen, home, phase, about, seen, outcome, missed, days>>

\* The first request after a cancelled initialisation runs it anew and makes a new
\* ConversationManager: what the old one held cannot be reached any more.
Reinitialize(q, c) ==
    /\ phase[q] = "none"
    /\ c \in Conv => life[c] # "unborn"
    /\ manager = "stale"
    /\ manager' = "warming"
    /\ about' = [about EXCEPT ![q] = c]
    /\ Await(q, "warming", 0)
    /\ Remove({d \in Conv : Live(d)})
    /\ active' = [s \in Session |-> NoConv]
    /\ UNCHANGED <<frozen, home, missed, days, shutdowns>>

\* 24 hours pass while no call waits: the model answers sooner than that.
DayPasses ==
    /\ days < MaxDays
    /\ \A q \in Call : ~Waiting(q)
    /\ days' = days + 1
    /\ old' = {c \in Conv : Live(c)}
    /\ UNCHANGED <<manager, frozen, life, state, messages, summaries, active, home, phase,
                   about, seen, outcome, missed, shutdowns>>

Proceed(q) ==
    /\ ~frozen
    /\ \/ Warmed(q) \/ GenerationFails(q) \/ Answered(q)
       \/ AnswerFollows(q) \/ SummaryEnds(q) \/ Digested(q)

Next ==
    \/ \E q \in Call : Proceed(q)
    \/ /\ ~frozen
       /\ \/ \E q \in Call, c \in Conv \union {NoConv} : Request(q, c)
          \/ \E q \in Call, c \in Conv \union {NoConv} : Reinitialize(q, c)
          \/ \E q \in Call : StreamAbandoned(q) \/ Cancelled(q)
          \/ \E q \in Call, c \in Conv, s \in {"ESCALATED", "RESOLVED"} : UpdateState(q, c, s)
          \/ \E q \in Call, c \in Conv : Digest(q, c)
          \/ \E c \in Conv, s \in Session, first \in {<<>>, <<By("start", "user")>>} :
                StartConversation(c, s, first)
          \/ Cleanup \/ Shutdown \/ DayPasses

\* The model answers or fails: an assumption about the LLMService in use, since no call of
\* it here has a timeout.
Fairness == \A q \in Call : WF_vars(Proceed(q))

Spec == Init /\ [][Next]_vars
LiveSpec == Spec /\ Fairness

-----------------------------------------------------------------------------
\* The variables stay in their ranges, a conversation that is not there holds nothing, and
\* one that is there belongs to a manager with services, be it initialised or not.
TypeOK ==
    /\ manager \in Managers
    /\ frozen \in BOOLEAN
    /\ life \in [Conv -> {"unborn", "live", "gone"}]
    /\ state \in [Conv -> States]
    /\ \A c \in Conv :
          /\ messages[c] \in Seq([by : Call \union {"start"}, role : {"user", "assistant", "system"}])
          /\ summaries[c] \in Seq(Nat)
          /\ ~Live(c) => messages[c] = <<>> /\ summaries[c] = <<>> /\ c \notin old
          /\ Live(c) => manager \in Served
    /\ old \subseteq Conv
    /\ active \in [Session -> Conv \union {NoConv}]
    /\ home \in [Conv -> Session]
    /\ phase \in [Call -> {"none", "done"} \union Waits]
    /\ about \in [Call -> Conv \union {NoConv}]
    /\ seen \in [Call -> Nat]
    /\ outcome \in [Call -> {"none", "recorded", "unrecorded", "half", "failed", "cancelled"}]
    /\ days \in 0 .. MaxDays /\ shutdowns \in 0 .. MaxShutdowns

Said(c, q, role) == \E i \in DOMAIN messages[c] : messages[c][i] = By(q, role)

\* An exchange is recorded whole, in its order, and once, however many others run on the
\* conversation: between question and answer the request may wait for a summary, and then
\* a cleanup finds the conversation just used.  An answer is dropped after its question
\* was recorded only by a shutdown, which drops the conversation as well, or because its
\* own call was cancelled in between; nobody else's exchange suffers from that.
ExchangesWhole ==
    /\ \A q \in Call : outcome[q] = "half" => shutdowns > 0
    /\ \A c \in Conv : \A i \in DOMAIN messages[c] :
          LET m == messages[c][i] IN
          /\ \A j \in DOMAIN messages[c] : m.by # "start" /\ messages[c][j] = m => i = j
          /\ m.role = "assistant" => \E j \in 1 .. i - 1 : messages[c][j] = By(m.by, "user")
          /\ m.role = "user" /\ m.by # "start" =>
                \/ Said(c, m.by, "assistant")
                \/ phase[m.by] = "afterUser"
                \/ outcome[m.by] = "cancelled"

\* Every Threshold messages are summarised once: the summary is written, or awaited, or
\* missed, for the model failed or the one call that waited was cancelled; none covers a part of another segment or one twice.
Awaited(c, n) == {q \in Call : phase[q] \in AutoSummary /\ about[q] = c /\ seen[q] = n}
Written(c, n) == {i \in DOMAIN summaries[c] : summaries[c][i] = n}
SegmentsOnce ==
    \A c \in Conv : Live(c) =>
        /\ \A n \in 1 .. Len(messages[c]) :
              IF Due(n)
              THEN \/ Cardinality(Awaited(c, n)) + Cardinality(Written(c, n)) = 1
                      /\ <<c, n>> \notin missed
                   \/ Cardinality(Awaited(c, n)) + Cardinality(Written(c, n)) = 0
                      /\ <<c, n>> \in missed
              ELSE Awaited(c, n) \union Written(c, n) = {}
        /\ \A i \in DOMAIN summaries[c] : summaries[c][i] <= Len(messages[c])

\* active_sessions never points to a conversation that is gone, nor to another session's;
\* a session of a live conversation has an entry, unless an older conversation of the
\* same session was cleaned up.
SessionsExplained ==
    /\ \A s \in Session : active[s] # NoConv => Live(active[s]) /\ home[active[s]] = s
    /\ \A c \in Conv : Live(c) /\ active[home[c]] = NoConv =>
          \E d \in Conv \ {c} : home[d] = home[c] /\ life[d] = "gone"

\* Every call comes to an end, unless a request that arrived during the first one's
\* initialisation froze the event loop.
CallsEnd == \A q \in Call : Waiting(q) ~> ~Waiting(q) \/ frozen
=============================================================================

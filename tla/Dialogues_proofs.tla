-------------------------- MODULE Dialogues_proofs ---------------------------
(***************************************************************************)
(* Theorems about Dialogues, for any calls, conversations, sessions and    *)
(* threshold: the type invariant, what active_sessions says, that every    *)
(* segment is summarised once, and that exchanges are recorded whole.      *)
(***************************************************************************)
EXTENDS Dialogues, FiniteSetTheorems, TLAPS

-----------------------------------------------------------------------------
(* The type invariant.                                                       *)

Message == [by : Call \union {"start"}, role : {"user", "assistant", "system"}]
Outcomes == {"none", "recorded", "unrecorded", "half", "failed", "cancelled"}
Phases == {"none", "done"} \union Waits

\* The parts of the type invariant, one for each group of variables.
ManagerTyped ==
    /\ manager \in Managers
    /\ frozen \in BOOLEAN
    /\ days \in 0 .. MaxDays /\ shutdowns \in 0 .. MaxShutdowns
ContextsTyped ==
    /\ life \in [Conv -> {"unborn", "live", "gone"}]
    /\ state \in [Conv -> States]
    /\ messages \in [Conv -> Seq(Message)]
    /\ summaries \in [Conv -> Seq(Nat)]
    /\ old \subseteq Conv
SessionsTyped ==
    /\ active \in [Session -> Conv \union {NoConv}]
    /\ home \in [Conv -> Session]
CallsTyped ==
    /\ phase \in [Call -> Phases]
    /\ about \in [Call -> Conv \union {NoConv}]
    /\ seen \in [Call -> Nat]
    /\ outcome \in [Call -> Outcomes]

\* A conversation that is not there holds nothing, and one that is there has a manager with
\* services.
Empty ==
    \A c \in Conv :
        /\ ~Live(c) => messages[c] = <<>> /\ summaries[c] = <<>> /\ c \notin old
        /\ Live(c) => manager \in Served

Typed == ManagerTyped /\ ContextsTyped /\ SessionsTyped /\ CallsTyped /\ Empty

LEMMA TypedIsTypeOK == ASSUME Typed PROVE TypeOK
BY DEF Typed, ManagerTyped, ContextsTyped, SessionsTyped, CallsTyped, Empty, TypeOK,
   Message, Outcomes, Phases

LEMMA InitTyped == ASSUME Init PROVE Typed
<1>1. (CHOOSE s \in Session : TRUE) \in Session
  BY ConstantsAssumption
<1>2. \A c \in Conv : ~Live(c)
  BY DEF Init, Live
<1>3. ManagerTyped
  <2>1. manager = "off" /\ frozen = FALSE /\ days = 0 /\ shutdowns = 0
    BY DEF Init
  <2>2. 0 \in 0 .. MaxDays /\ 0 \in 0 .. MaxShutdowns
    BY ConstantsAssumption
  <2> QED BY <2>1, <2>2, Zenon DEF ManagerTyped, Managers
<1>4. ContextsTyped
  <2>1. \A S : <<>> \in Seq(S)
    OBVIOUS
  <2> QED BY <2>1 DEF Init, ContextsTyped, States
<1>5. SessionsTyped
  <2>1. PICK s \in Session : s = CHOOSE t \in Session : TRUE
    BY <1>1
  <2>2. home = [c \in Conv |-> s]
    BY <2>1 DEF Init
  <2> QED BY <2>2 DEF Init, SessionsTyped
<1>6. CallsTyped
  BY DEF Init, CallsTyped, Outcomes, Phases
<1>7. Empty
  BY <1>2 DEF Init, Empty
<1> QED BY <1>3, <1>4, <1>5, <1>6, <1>7 DEF Typed

\* The steps of a call keep it in its range.
LEMMA AwaitTyped ==
    ASSUME CallsTyped, NEW q \in Call, NEW p \in Waits, NEW n \in Nat, Await(q, p, n)
    PROVE  /\ phase' \in [Call -> Phases]
           /\ seen' \in [Call -> Nat]
           /\ outcome' \in [Call -> Outcomes]
BY DEF CallsTyped, Await, Phases

LEMMA ReturnTyped ==
    ASSUME CallsTyped, NEW q \in Call, NEW o \in Outcomes, Return(q, o)
    PROVE  /\ phase' \in [Call -> Phases]
           /\ seen' \in [Call -> Nat]
           /\ outcome' \in [Call -> Outcomes]
BY DEF CallsTyped, Return, Phases

\* One message, or two, added to a sequence of them.
LEMMA OneMore ==
    ASSUME NEW S, NEW s \in Seq(S), NEW a \in S
    PROVE  /\ s \o <<a>> \in Seq(S)
           /\ Len(s) \in Nat
           /\ Len(s \o <<a>>) = Len(s) + 1
           /\ DOMAIN s = 1 .. Len(s)
           /\ DOMAIN (s \o <<a>>) = 1 .. Len(s) + 1
           /\ \A i \in 1 .. Len(s) : (s \o <<a>>)[i] = s[i]
           /\ (s \o <<a>>)[Len(s) + 1] = a
OBVIOUS

LEMMA TwoMore ==
    ASSUME NEW S, NEW s \in Seq(S), NEW a \in S, NEW b \in S
    PROVE  /\ s \o <<a, b>> \in Seq(S)
           /\ Len(s) \in Nat
           /\ Len(s \o <<a, b>>) = Len(s) + 2
           /\ DOMAIN s = 1 .. Len(s)
           /\ DOMAIN (s \o <<a, b>>) = 1 .. Len(s) + 2
           /\ \A i \in 1 .. Len(s) : (s \o <<a, b>>)[i] = s[i]
           /\ (s \o <<a, b>>)[Len(s) + 1] = a
           /\ (s \o <<a, b>>)[Len(s) + 2] = b
OBVIOUS

\* What Record does to a live conversation, in the words of the two lemmas.
Grown(c, k) ==
    /\ messages' \in [Conv -> Seq(Message)]
    /\ Len(messages[c]) \in Nat
    /\ Len(messages'[c]) = Len(messages[c]) + k
    /\ DOMAIN messages[c] = 1 .. Len(messages[c])
    /\ DOMAIN messages'[c] = 1 .. Len(messages[c]) + k
    /\ \A i \in 1 .. Len(messages[c]) : messages'[c][i] = messages[c][i]
    /\ \A d \in Conv \ {c} : messages'[d] = messages[d]

LEMMA RecordOne ==
    ASSUME ContextsTyped, NEW c \in Conv, NEW a \in Message, NEW s, Record(c, <<a>>, s)
    PROVE  /\ Grown(c, 1)
           /\ messages'[c][Len(messages[c]) + 1] = a
<1>1. messages[c] \in Seq(Message) /\ messages'[c] = messages[c] \o <<a>>
  BY DEF ContextsTyped, Record
<1>2. messages' = [messages EXCEPT ![c] = messages[c] \o <<a>>]
  BY DEF Record
<1>3. messages[c] \o <<a>> \in Seq(Message)
  BY <1>1, OneMore
<1>4. messages' \in [Conv -> Seq(Message)] /\ \A d \in Conv \ {c} : messages'[d] = messages[d]
  BY <1>2, <1>3 DEF ContextsTyped
<1> QED BY <1>1, <1>4, OneMore DEF Grown

LEMMA RecordTwo ==
    ASSUME ContextsTyped, NEW c \in Conv, NEW a \in Message, NEW b \in Message, NEW s,
           Record(c, <<a, b>>, s)
    PROVE  /\ Grown(c, 2)
           /\ messages'[c][Len(messages[c]) + 1] = a
           /\ messages'[c][Len(messages[c]) + 2] = b
<1>1. messages[c] \in Seq(Message) /\ messages'[c] = messages[c] \o <<a, b>>
  BY DEF ContextsTyped, Record
<1>2. messages' = [messages EXCEPT ![c] = messages[c] \o <<a, b>>]
  BY DEF Record
<1>3. messages[c] \o <<a, b>> \in Seq(Message)
  BY <1>1, TwoMore
<1>4. messages' \in [Conv -> Seq(Message)] /\ \A d \in Conv \ {c} : messages'[d] = messages[d]
  BY <1>2, <1>3 DEF ContextsTyped
<1> QED BY <1>1, <1>4, TwoMore DEF Grown

LEMMA SpokenTyped ==
    ASSUME NEW q \in Call, NEW role \in {"user", "assistant", "system"}
    PROVE  By(q, role) \in Message
BY DEF By, Message

\* Adding messages to a live conversation.
LEMMA RecordTyped ==
    ASSUME ContextsTyped, Empty, NEW c \in Conv, Live(c), NEW new \in Seq(Message),
           NEW s \in States, Record(c, new, s)
    PROVE  /\ life' = life
           /\ state' \in [Conv -> States]
           /\ messages' \in [Conv -> Seq(Message)]
           /\ old' \subseteq Conv
           /\ \A d \in Conv : ~Live(d) => messages'[d] = <<>> /\ d \notin old'
<1>1. messages[c] \o new \in Seq(Message)
  BY DEF ContextsTyped
<1>2. messages' = [messages EXCEPT ![c] = messages[c] \o new]
  BY DEF Record
<1>3. messages' \in [Conv -> Seq(Message)] /\ \A d \in Conv \ {c} : messages'[d] = messages[d]
  BY <1>1, <1>2 DEF ContextsTyped
<1> QED BY <1>3 DEF Record, ContextsTyped, Empty

LEMMA SummarisedTyped ==
    ASSUME ContextsTyped, CallsTyped, Empty, NEW q \in Call, Summarised(q)
    PROVE  /\ summaries' \in [Conv -> Seq(Nat)]
           /\ \A d \in Conv : ~Live(d) => summaries'[d] = <<>>
<1>1. CASE UNCHANGED summaries
  BY <1>1 DEF ContextsTyped, Empty
<1>2. CASE Live(about[q])
           /\ summaries' = [summaries EXCEPT ![about[q]] = Append(@, SummaryOf(q))]
  <2>1. about[q] \in Conv /\ SummaryOf(q) \in Nat
    BY <1>2 DEF Live, SummaryOf, CallsTyped
  <2>2. Append(summaries[about[q]], SummaryOf(q)) \in Seq(Nat)
    BY <2>1 DEF ContextsTyped
  <2> QED BY <1>2, <2>1, <2>2 DEF ContextsTyped, Empty
<1> QED BY <1>1, <1>2 DEF Summarised

\* The parts that most actions leave alone.
LEMMA ManagerKept ==
    ASSUME ManagerTyped, UNCHANGED <<manager, frozen, days, shutdowns>>
    PROVE  ManagerTyped'
BY DEF ManagerTyped

LEMMA ContextsKept ==
    ASSUME ContextsTyped, UNCHANGED contexts
    PROVE  ContextsTyped'
BY DEF ContextsTyped, contexts

LEMMA SessionsKept ==
    ASSUME SessionsTyped, UNCHANGED <<active, home>>
    PROVE  SessionsTyped'
BY DEF SessionsTyped

LEMMA CallsKept ==
    ASSUME CallsTyped, UNCHANGED <<phase, about, seen, outcome>>
    PROVE  CallsTyped'
BY DEF CallsTyped

LEMMA EmptyKept ==
    ASSUME Empty, UNCHANGED contexts,
           (\E c \in Conv : Live(c)) => manager' \in Served
    PROVE  Empty'
BY DEF Empty, contexts, Live

LEMMA RequestTyped ==
    ASSUME Typed, NEW q \in Call, NEW c \in Conv \union {NoConv}, Request(q, c)
    PROVE  Typed'
<1>1. ContextsTyped'
  BY ContextsKept DEF Typed, Request
<1>2. SessionsTyped'
  BY SessionsKept DEF Typed, Request
<1>3. ManagerTyped'
  BY DEF Typed, Request, ManagerTyped, Managers
<1>4. CallsTyped'
  <2>1. about' \in [Call -> Conv \union {NoConv}]
    BY DEF Typed, CallsTyped, Request
  <2>2. CASE Await(q, "generating", 0)
    BY <2>1, <2>2, AwaitTyped DEF Typed, CallsTyped, Waits
  <2>3. CASE Await(q, "warming", 0)
    BY <2>1, <2>3, AwaitTyped DEF Typed, CallsTyped, Waits
  <2>4. CASE Return(q, "failed")
    BY <2>1, <2>4, ReturnTyped DEF Typed, CallsTyped, Outcomes
  <2>5. CASE UNCHANGED <<phase, seen, outcome>>
    BY <2>1, <2>5 DEF Typed, CallsTyped
  <2> QED BY <2>2, <2>3, <2>4, <2>5 DEF Request
<1>5. Empty'
  <2>1. manager \in Served => manager' \in Served
    BY DEF Request, Served
  <2> QED BY <2>1, EmptyKept DEF Typed, Empty, Request
<1> QED BY <1>1, <1>2, <1>3, <1>4, <1>5 DEF Typed

LEMMA WarmedTyped ==
    ASSUME Typed, NEW q \in Call, Warmed(q)
    PROVE  Typed'
<1>1. ContextsTyped'
  BY ContextsKept DEF Typed, Warmed
<1>2. SessionsTyped'
  BY SessionsKept DEF Typed, Warmed
<1>3. ManagerTyped'
  BY DEF Typed, Warmed, ManagerTyped, Managers
<1>4. CallsTyped'
  <2>1. CASE Await(q, "generating", 0)
    BY <2>1, AwaitTyped DEF Typed, CallsTyped, Waits, Warmed
  <2>2. CASE Return(q, "failed")
    BY <2>2, ReturnTyped DEF Typed, CallsTyped, Outcomes, Warmed
  <2> QED BY <2>1, <2>2 DEF Warmed
<1>5. Empty'
  <2>1. manager \in Served => manager' \in Served
    BY DEF Warmed, Served
  <2> QED BY <2>1, EmptyKept DEF Typed, Empty, Warmed
<1> QED BY <1>1, <1>2, <1>3, <1>4, <1>5 DEF Typed

\* A request that ends without a record.
LEMMA LeavesTyped ==
    ASSUME Typed, NEW q \in Call, GenerationFails(q) \/ StreamAbandoned(q)
    PROVE  Typed'
<1>1. UNCHANGED <<manager, frozen, contexts, active, home, about, days, shutdowns>>
  BY DEF GenerationFails, StreamAbandoned
<1>2. CallsTyped'
  <2>1. PICK o \in Outcomes : Return(q, o)
    BY DEF GenerationFails, StreamAbandoned, Outcomes
  <2> QED BY <1>1, <2>1, ReturnTyped DEF Typed, CallsTyped
<1>3. Empty'
  BY <1>1, EmptyKept DEF Typed, Empty
<1> QED BY <1>1, <1>2, <1>3, ManagerKept, ContextsKept, SessionsKept DEF Typed

LEMMA CancelledTyped ==
    ASSUME Typed, NEW q \in Call, Cancelled(q)
    PROVE  Typed'
<1>1. UNCHANGED <<frozen, contexts, active, home, about, days, shutdowns>>
  BY DEF Cancelled
<1>2. CallsTyped'
  BY <1>1, ReturnTyped DEF Typed, CallsTyped, Outcomes, Cancelled
<1>3. ManagerTyped'
  BY DEF Typed, ManagerTyped, Managers, Cancelled
<1>4. Empty'
  <2>1. manager \in Served => manager' \in Served
    BY DEF Cancelled, Served
  <2> QED BY <1>1, <2>1, EmptyKept DEF Typed, Empty
<1> QED BY <1>1, <1>2, <1>3, <1>4, ContextsKept, SessionsKept DEF Typed

\* A call that adds to its conversation and waits or returns.
LEMMA Speaks ==
    ASSUME ContextsTyped, Empty, UNCHANGED manager, UNCHANGED life,
           state' \in [Conv -> States],
           messages' \in [Conv -> Seq(Message)],
           summaries' \in [Conv -> Seq(Nat)],
           old' \subseteq Conv,
           \A d \in Conv : ~Live(d) =>
               messages'[d] = <<>> /\ summaries'[d] = <<>> /\ d \notin old'
    PROVE  ContextsTyped' /\ Empty'
BY DEF ContextsTyped, Empty, Live

LEMMA AnsweredTyped ==
    ASSUME Typed, NEW q \in Call, Answered(q)
    PROVE  Typed'
<1> DEFINE c == about[q]
           n == Len(messages[c])
<1>1. UNCHANGED <<manager, frozen, summaries, active, home, about, days, shutdowns>>
  BY DEF Answered
<1>2. By(q, "user") \in Message /\ By(q, "assistant") \in Message
  BY SpokenTyped
<1>3. Live(c) => c \in Conv /\ n \in Nat
  BY DEF Live, Typed, ContextsTyped
<1>4. ContextsTyped' /\ Empty'
  <2>1. CASE UNCHANGED <<life, state, messages, old>>
    BY <1>1, <2>1, ContextsKept, EmptyKept DEF Typed, Empty, contexts
  <2>2. ASSUME NEW new \in Seq(Message), NEW s \in States, Live(c), Record(c, new, s)
        PROVE  ContextsTyped' /\ Empty'
    <3>1. ContextsTyped /\ Empty /\ \A d \in Conv : ~Live(d) => summaries'[d] = <<>>
      BY <1>1 DEF Typed, Empty
    <3>2. summaries' \in [Conv -> Seq(Nat)]
      BY <1>1, <3>1 DEF ContextsTyped
    <3> HIDE DEF c
    <3> QED BY <1>1, <1>3, <2>2, <3>1, <3>2, RecordTyped, Speaks
  <2>3. <<By(q, "user")>> \in Seq(Message) /\ <<By(q, "user"), By(q, "assistant")>> \in Seq(Message)
    BY <1>2
  <2> QED BY <2>1, <2>2, <2>3 DEF Answered, States
<1>5. CallsTyped'
  <2>1. CASE Return(q, "unrecorded") \/ Return(q, "recorded")
    BY <1>1, <2>1, ReturnTyped DEF Typed, CallsTyped, Outcomes
  <2>2. CASE Live(c) /\ (Await(q, "afterUser", n + 1) \/ Await(q, "afterAnswer", n + 2))
    <3>1. n + 1 \in Nat /\ n + 2 \in Nat /\ {"afterUser", "afterAnswer"} \subseteq Waits
      BY <1>3, <2>2 DEF Waits
    <3> QED BY <1>1, <2>2, <3>1, AwaitTyped DEF Typed, CallsTyped
  <2> QED BY <2>1, <2>2 DEF Answered
<1> QED BY <1>1, <1>4, <1>5, ManagerKept, SessionsKept DEF Typed

LEMMA AnswerFollowsTyped ==
    ASSUME Typed, NEW q \in Call, AnswerFollows(q)
    PROVE  Typed'
<1> DEFINE c == about[q]
           n == Len(messages[c])
<1>1. UNCHANGED <<manager, frozen, active, home, about, days, shutdowns>>
  BY DEF AnswerFollows
<1>2. By(q, "assistant") \in Message
  BY SpokenTyped
<1>3. Live(c) => c \in Conv /\ n \in Nat
  BY DEF Live, Typed, ContextsTyped
<1>4. summaries' \in [Conv -> Seq(Nat)] /\ \A d \in Conv : ~Live(d) => summaries'[d] = <<>>
  BY SummarisedTyped DEF Typed, AnswerFollows
<1>5. ContextsTyped' /\ Empty'
  <2>1. CASE UNCHANGED <<life, state, messages, old>>
    BY <1>1, <1>4, <2>1, Speaks DEF Typed, Empty, ContextsTyped
  <2>2. CASE Live(c) /\ Record(c, <<By(q, "assistant")>>, "WAITING_USER")
    <3>1. <<By(q, "assistant")>> \in Seq(Message) /\ "WAITING_USER" \in States
      BY <1>2 DEF States
    <3>2. ContextsTyped /\ Empty
      BY DEF Typed
    <3> HIDE DEF c
    <3> QED BY <1>1, <1>3, <1>4, <2>2, <3>1, <3>2, RecordTyped, Speaks
  <2> QED BY <2>1, <2>2 DEF AnswerFollows
<1>6. CallsTyped'
  <2>1. CASE Return(q, "half") \/ Return(q, "recorded")
    BY <1>1, <2>1, ReturnTyped DEF Typed, CallsTyped, Outcomes
  <2>2. CASE Live(c) /\ Await(q, "afterAnswer", n + 1)
    <3>1. n + 1 \in Nat /\ "afterAnswer" \in Waits
      BY <1>3, <2>2 DEF Waits
    <3> QED BY <1>1, <2>2, <3>1, AwaitTyped DEF Typed, CallsTyped
  <2> QED BY <2>1, <2>2 DEF AnswerFollows
<1> QED BY <1>1, <1>5, <1>6, ManagerKept, SessionsKept DEF Typed

LEMMA SummaryEndsTyped ==
    ASSUME Typed, NEW q \in Call, SummaryEnds(q)
    PROVE  Typed'
<1>1. UNCHANGED <<manager, frozen, life, state, messages, old, active, home, about, days,
                  shutdowns>>
  BY DEF SummaryEnds
<1>2. summaries' \in [Conv -> Seq(Nat)] /\ \A d \in Conv : ~Live(d) => summaries'[d] = <<>>
  BY SummarisedTyped DEF Typed, SummaryEnds
<1>3. ContextsTyped' /\ Empty'
  BY <1>1, <1>2, Speaks DEF Typed, Empty, ContextsTyped
<1>4. CallsTyped'
  BY <1>1, ReturnTyped DEF Typed, CallsTyped, Outcomes, SummaryEnds
<1> QED BY <1>1, <1>3, <1>4, ManagerKept, SessionsKept DEF Typed

LEMMA UpdateStateTyped ==
    ASSUME Typed, NEW q \in Call, NEW c \in Conv, NEW s \in {"ESCALATED", "RESOLVED"},
           UpdateState(q, c, s)
    PROVE  Typed'
<1> DEFINE n == Len(messages[c])
<1>1. UNCHANGED <<manager, frozen, summaries, active, home, days, shutdowns>>
  BY DEF UpdateState
<1>2. <<By(q, "system")>> \in Seq(Message) /\ s \in States /\ n \in Nat
  BY SpokenTyped DEF States, Inactive, Typed, ContextsTyped
<1>3. summaries' \in [Conv -> Seq(Nat)] /\ \A d \in Conv : ~Live(d) => summaries'[d] = <<>>
  BY <1>1 DEF Typed, ContextsTyped, Empty
<1>4. ContextsTyped' /\ Empty'
  BY <1>1, <1>2, <1>3, RecordTyped, Speaks DEF Typed, UpdateState
<1>5. about' \in [Call -> Conv \union {NoConv}]
  BY DEF UpdateState, Typed, CallsTyped
<1>6. CallsTyped'
  <2>1. CASE Return(q, "recorded")
    BY <1>5, <2>1, ReturnTyped DEF Typed, CallsTyped, Outcomes
  <2>2. CASE Await(q, "afterSystem", n + 1)
    BY <1>2, <1>5, <2>2, AwaitTyped DEF Typed, CallsTyped, Waits
  <2> QED BY <2>1, <2>2 DEF UpdateState
<1> QED BY <1>1, <1>4, <1>6, ManagerKept, SessionsKept DEF Typed

LEMMA DigestTyped ==
    ASSUME Typed, NEW q \in Call, NEW c \in Conv, Digest(q, c)
    PROVE  Typed'
<1>1. UNCHANGED <<manager, frozen, contexts, active, home, days, shutdowns>>
  BY DEF Digest
<1>2. Len(messages[c]) \in Nat
  BY DEF Typed, ContextsTyped
<1>3. CallsTyped'
  <2>1. about' \in [Call -> Conv \union {NoConv}]
    BY DEF Digest, Typed, CallsTyped
  <2> QED BY <1>2, <2>1, AwaitTyped DEF Typed, CallsTyped, Waits, Digest
<1>4. Empty'
  BY <1>1, EmptyKept DEF Typed, Empty
<1> QED BY <1>1, <1>3, <1>4, ManagerKept, ContextsKept, SessionsKept DEF Typed

LEMMA DigestedTyped ==
    ASSUME Typed, NEW q \in Call, Digested(q)
    PROVE  Typed'
<1>1. UNCHANGED <<manager, frozen, life, state, messages, old, active, home, about, days,
                  shutdowns>>
  BY DEF Digested
<1>2. summaries' \in [Conv -> Seq(Nat)] /\ \A d \in Conv : ~Live(d) => summaries'[d] = <<>>
  <2>1. CASE UNCHANGED summaries
    BY <2>1 DEF Typed, ContextsTyped, Empty
  <2>2. CASE Live(about[q]) /\ summaries' = [summaries EXCEPT ![about[q]] = Append(@, 0)]
    <3>1. about[q] \in Conv
      BY <2>2 DEF Live
    <3>2. Append(summaries[about[q]], 0) \in Seq(Nat)
      BY <3>1 DEF Typed, ContextsTyped
    <3> QED BY <2>2, <3>1, <3>2 DEF Typed, ContextsTyped, Empty
  <2> QED BY <2>1, <2>2 DEF Digested
<1>3. ContextsTyped' /\ Empty'
  BY <1>1, <1>2, Speaks DEF Typed, Empty, ContextsTyped
<1>4. CallsTyped'
  BY <1>1, ReturnTyped DEF Typed, CallsTyped, Outcomes, Digested
<1> QED BY <1>1, <1>3, <1>4, ManagerKept, SessionsKept DEF Typed

-----------------------------------------------------------------------------
(* Conversations come and go.                                                *)

LEMMA StartTyped ==
    ASSUME Typed, NEW c \in Conv, NEW s \in Session,
           NEW first \in {<<>>, <<By("start", "user")>>}, StartConversation(c, s, first)
    PROVE  Typed'
<1>1. UNCHANGED <<manager, frozen, summaries, old, phase, about, seen, outcome, days,
                  shutdowns>>
  BY DEF StartConversation
<1>2. first \in Seq(Message)
  <2>1. By("start", "user") \in Message
    BY DEF By, Message
  <2>2. \A S : <<>> \in Seq(S) /\ \A a \in S : <<a>> \in Seq(S)
    OBVIOUS
  <2> HIDE DEF Message
  <2> QED BY <2>1, <2>2
<1>3. ContextsTyped'
  BY <1>1, <1>2 DEF StartConversation, Typed, ContextsTyped, States
<1>4. SessionsTyped'
  BY DEF StartConversation, Typed, SessionsTyped
<1>5. Empty'
  <2>1. manager \in Served
    BY DEF StartConversation
  <2>2. ASSUME NEW d \in Conv, d # c
        PROVE  /\ Live(d)' <=> Live(d)
               /\ messages'[d] = messages[d]
    BY <2>2 DEF StartConversation, Live, Typed, ContextsTyped
  <2>3. Live(c)'
    BY DEF StartConversation, Live, Typed, ContextsTyped
  <2> QED BY <1>1, <2>1, <2>2, <2>3 DEF Typed, Empty
<1> QED BY <1>1, <1>3, <1>4, <1>5, ManagerKept, CallsKept DEF Typed

LEMMA RemoveTyped ==
    ASSUME ContextsTyped, NEW R, Remove(R)
    PROVE  /\ ContextsTyped'
           /\ \A d \in R \intersect Conv :
                 life'[d] = "gone" /\ messages'[d] = <<>> /\ summaries'[d] = <<>> /\ d \notin old'
           /\ \A d \in Conv \ R :
                 /\ life'[d] = life[d] /\ messages'[d] = messages[d] /\ summaries'[d] = summaries[d]
                 /\ d \in old' <=> d \in old
<1>1. <<>> \in Seq(Message) /\ <<>> \in Seq(Nat)
  OBVIOUS
<1>2. life' \in [Conv -> {"unborn", "live", "gone"}]
  BY DEF Remove, ContextsTyped
<1>3. state' \in [Conv -> States]
  BY DEF Remove, ContextsTyped, States
<1>4. messages' \in [Conv -> Seq(Message)]
  BY <1>1 DEF Remove, ContextsTyped
<1>5. summaries' \in [Conv -> Seq(Nat)]
  BY <1>1 DEF Remove, ContextsTyped
<1>6. old' \subseteq Conv
  BY DEF Remove, ContextsTyped
<1> QED BY <1>2, <1>3, <1>4, <1>5, <1>6 DEF Remove, ContextsTyped

LEMMA CleanupTyped ==
    ASSUME Typed, Cleanup
    PROVE  Typed'
<1>1. UNCHANGED <<manager, frozen, home, phase, about, seen, outcome, days, shutdowns>>
  BY DEF Cleanup
<1>2. Remove(Cleanable) /\ ForgetSessions(Cleanable)
  BY DEF Cleanup
<1>3. ContextsTyped'
  BY <1>2, RemoveTyped DEF Typed
<1>4. SessionsTyped'
  BY <1>1, <1>2 DEF Typed, SessionsTyped, ForgetSessions
<1>5. Empty'
  <2>1. ASSUME NEW d \in Conv \ Cleanable
        PROVE  /\ Live(d)' <=> Live(d)
               /\ messages'[d] = messages[d] /\ summaries'[d] = summaries[d]
               /\ d \in old' <=> d \in old
    BY <1>2, RemoveTyped DEF Typed, Live
  <2>2. ASSUME NEW d \in Conv \intersect Cleanable
        PROVE  /\ ~Live(d)'
               /\ messages'[d] = <<>> /\ summaries'[d] = <<>> /\ d \notin old'
    BY <1>2, RemoveTyped DEF Typed, Live
  <2> QED BY <1>1, <2>1, <2>2 DEF Typed, Empty
<1> QED BY <1>1, <1>3, <1>4, <1>5, ManagerKept, CallsKept DEF Typed

\* All conversations are removed: none is left, and none holds anything.
LEMMA AllRemoved ==
    ASSUME Typed, Remove({c \in Conv : Live(c)})
    PROVE  /\ ContextsTyped'
           /\ Empty'
           /\ \A d \in Conv : ~Live(d)' /\ messages'[d] = <<>>
           /\ \A d \in Conv : life[d] # "unborn" => life'[d] # "unborn"
<1> DEFINE R == {c \in Conv : Live(c)}
<1>1. ContextsTyped'
  BY RemoveTyped DEF Typed
<1>2. ASSUME NEW d \in Conv
      PROVE  /\ ~Live(d)' /\ messages'[d] = <<>> /\ summaries'[d] = <<>> /\ d \notin old'
             /\ life[d] # "unborn" => life'[d] # "unborn"
  <2>1. CASE Live(d)
    BY <2>1, RemoveTyped DEF Typed, Live
  <2>2. CASE ~Live(d)
    BY <2>2, RemoveTyped DEF Typed, Live, Empty
  <2> QED BY <2>1, <2>2
<1>3. Empty'
  BY <1>2 DEF Empty
<1> QED BY <1>1, <1>2, <1>3

LEMMA ReinitializeTyped ==
    ASSUME Typed, NEW q \in Call, NEW c \in Conv \union {NoConv}, Reinitialize(q, c)
    PROVE  Typed'
<1>1. ContextsTyped' /\ Empty'
  BY AllRemoved DEF Reinitialize
<1>2. SessionsTyped'
  BY DEF Typed, SessionsTyped, Reinitialize
<1>3. ManagerTyped'
  BY DEF Typed, ManagerTyped, Managers, Reinitialize
<1>4. CallsTyped'
  <2>1. about' \in [Call -> Conv \union {NoConv}]
    BY DEF Typed, CallsTyped, Reinitialize
  <2> QED BY <2>1, AwaitTyped DEF Typed, CallsTyped, Waits, Reinitialize
<1> QED BY <1>1, <1>2, <1>3, <1>4 DEF Typed

LEMMA ShutdownTyped ==
    ASSUME Typed, Shutdown
    PROVE  Typed'
<1>1. UNCHANGED <<frozen, home, phase, about, seen, outcome, days>>
  BY DEF Shutdown
<1>2. ContextsTyped' /\ Empty'
  BY AllRemoved DEF Shutdown
<1>3. SessionsTyped'
  BY <1>1 DEF Typed, SessionsTyped, Shutdown
<1>4. ManagerTyped'
  <2>1. shutdowns' \in 0 .. MaxShutdowns
    BY ConstantsAssumption DEF Typed, ManagerTyped, Shutdown
  <2>2. manager' \in {"off", "undone"}
    BY DEF Shutdown
  <2> QED BY <1>1, <2>1, <2>2 DEF Typed, ManagerTyped, Managers
<1> QED BY <1>1, <1>2, <1>3, <1>4, CallsKept DEF Typed

LEMMA DayPassesTyped ==
    ASSUME Typed, DayPasses
    PROVE  Typed'
<1>1. UNCHANGED <<manager, frozen, life, state, messages, summaries, active, home, phase,
                  about, seen, outcome, shutdowns>>
  BY DEF DayPasses
<1>2. ManagerTyped'
  BY <1>1, ConstantsAssumption DEF DayPasses, Typed, ManagerTyped
<1>3. ContextsTyped'
  BY <1>1 DEF DayPasses, Typed, ContextsTyped
<1>4. Empty'
  BY <1>1 DEF DayPasses, Typed, Empty, Live
<1> QED BY <1>1, <1>2, <1>3, <1>4, SessionsKept, CallsKept DEF Typed

LEMMA StutterTyped == ASSUME Typed, UNCHANGED vars PROVE Typed'
BY ManagerKept, ContextsKept, SessionsKept, CallsKept, EmptyKept DEF Typed, vars, Empty

LEMMA TypedStep == ASSUME Typed, [Next]_vars PROVE Typed'
<1>1. CASE UNCHANGED vars
  BY <1>1, StutterTyped
<1>2. ASSUME NEW q \in Call, Proceed(q) PROVE Typed'
  BY <1>2, WarmedTyped, LeavesTyped, AnsweredTyped, AnswerFollowsTyped, SummaryEndsTyped,
     DigestedTyped DEF Proceed
<1>3. ASSUME NEW q \in Call, NEW c \in Conv \union {NoConv}, Request(q, c) PROVE Typed'
  BY <1>3, RequestTyped
<1>4. ASSUME NEW q \in Call, StreamAbandoned(q) \/ Cancelled(q) PROVE Typed'
  BY <1>4, LeavesTyped, CancelledTyped
<1>5. ASSUME NEW q \in Call, NEW c \in Conv, NEW s \in {"ESCALATED", "RESOLVED"},
             UpdateState(q, c, s)
      PROVE  Typed'
  BY <1>5, UpdateStateTyped
<1>6. ASSUME NEW q \in Call, NEW c \in Conv, Digest(q, c) PROVE Typed'
  BY <1>6, DigestTyped
<1>7. ASSUME NEW c \in Conv, NEW s \in Session,
             NEW first \in {<<>>, <<By("start", "user")>>}, StartConversation(c, s, first)
      PROVE  Typed'
  BY <1>7, StartTyped
<1>8. ASSUME NEW q \in Call, NEW c \in Conv \union {NoConv}, Reinitialize(q, c) PROVE Typed'
  BY <1>8, ReinitializeTyped
<1> QED BY <1>1, <1>2, <1>3, <1>4, <1>5, <1>6, <1>7, <1>8, CleanupTyped, ShutdownTyped,
     DayPassesTyped DEF Next

LEMMA AlwaysTyped == Spec => []Typed
BY InitTyped, TypedStep, PTL DEF Spec

\* The variables stay in their ranges, a conversation that is not there holds nothing, and
\* one that is there belongs to a manager with services, initialised or not.
THEOREM DialoguesTypeCorrect == Spec => []TypeOK
BY AlwaysTyped, TypedIsTypeOK, PTL

-----------------------------------------------------------------------------
(* active_sessions.                                                          *)

\* What SessionsExplained says depends on three tables.
LEMMA SessionsUntouched ==
    ASSUME SessionsExplained, UNCHANGED <<life, active, home>>
    PROVE  SessionsExplained'
BY DEF SessionsExplained, Live

LEMMA SessionsStart ==
    ASSUME Typed, SessionsExplained, NEW c \in Conv, NEW s \in Session, NEW first,
           StartConversation(c, s, first)
    PROVE  SessionsExplained'
<1>1. /\ life' = [life EXCEPT ![c] = "live"]
      /\ home' = [home EXCEPT ![c] = s]
      /\ active' = [active EXCEPT ![s] = c]
      /\ life[c] = "unborn"
  BY DEF StartConversation
<1>2. Live(c)' /\ home'[c] = s /\ active'[s] = c /\ c # NoConv
  BY <1>1, ConstantsAssumption DEF Typed, ContextsTyped, SessionsTyped, Live
<1>3. \A d \in Conv \ {c} : life'[d] = life[d] /\ home'[d] = home[d]
  BY <1>1 DEF Typed, ContextsTyped, SessionsTyped
<1>4. \A t \in Session \ {s} : active'[t] = active[t]
  BY <1>1 DEF Typed, SessionsTyped
<1>5. ASSUME NEW t \in Session, active'[t] # NoConv
      PROVE  Live(active[t])' /\ home'[active'[t]] = t
  <2>1. CASE t = s
    BY <1>2, <2>1 DEF Live
  <2>2. CASE t # s
    <3>1. active'[t] = active[t] /\ Live(active[t]) /\ home[active[t]] = t
      BY <1>4, <1>5, <2>2 DEF SessionsExplained
    <3>2. active[t] \in Conv \ {c}
      BY <1>1, <3>1 DEF Live
    <3> QED BY <1>3, <3>1, <3>2 DEF Live
  <2> QED BY <2>1, <2>2
<1>6. ASSUME NEW d \in Conv, Live(d)', active'[home'[d]] = NoConv
      PROVE  \E e \in Conv \ {d} : home'[e] = home'[d] /\ life'[e] = "gone"
  <2>1. d # c /\ home'[d] # s
    BY <1>2, <1>6
  <2>2. Live(d) /\ active[home[d]] = NoConv /\ home[d] \in Session
    BY <1>3, <1>4, <1>6, <2>1 DEF Live, Typed, SessionsTyped
  <2>3. PICK e \in Conv \ {d} : home[e] = home[d] /\ life[e] = "gone"
    BY <2>2 DEF SessionsExplained
  <2> QED BY <1>1, <1>3, <2>1, <2>3
<1> QED BY <1>5, <1>6 DEF SessionsExplained

LEMMA SessionsCleanup ==
    ASSUME Typed, SessionsExplained, Cleanup
    PROVE  SessionsExplained'
<1>1. PICK R : R = Cleanable
  OBVIOUS
<1>2. Remove(R) /\ ForgetSessions(R) /\ UNCHANGED home /\ R \subseteq Conv
  BY <1>1 DEF Cleanup, Cleanable, Live
<1>3. \A d \in R : life'[d] = "gone"
  BY <1>2, RemoveTyped DEF Typed
<1>4. \A d \in Conv \ R : Live(d)' <=> Live(d)
  BY <1>2, RemoveTyped DEF Typed, Live
<1>5. ASSUME NEW t \in Session, active'[t] # NoConv
      PROVE  Live(active[t])' /\ home'[active'[t]] = t
  <2>1. active'[t] = active[t] /\ ~\E c \in R : home[c] = t
    BY <1>2, <1>5 DEF ForgetSessions
  <2>2. Live(active[t]) /\ home[active[t]] = t
    BY <1>5, <2>1 DEF SessionsExplained
  <2>3. active[t] \in Conv \ R
    BY <2>1, <2>2 DEF Live
  <2> QED BY <1>2, <1>4, <2>1, <2>2, <2>3 DEF Live
<1>6. ASSUME NEW d \in Conv, Live(d)', active'[home'[d]] = NoConv
      PROVE  \E e \in Conv \ {d} : home'[e] = home'[d] /\ life'[e] = "gone"
  <2>1. d \notin R /\ Live(d) /\ home[d] \in Session
    BY <1>3, <1>4, <1>6 DEF Live, Typed, SessionsTyped
  <2>2. CASE \E e \in R : home[e] = home[d]
    BY <1>2, <1>3, <2>1, <2>2
  <2>3. CASE ~\E e \in R : home[e] = home[d]
    <3>1. active[home[d]] = NoConv
      BY <1>2, <1>6, <2>1, <2>3 DEF ForgetSessions
    <3>2. PICK e \in Conv \ {d} : home[e] = home[d] /\ life[e] = "gone"
      BY <2>1, <3>1 DEF SessionsExplained
    <3>3. life'[e] = "gone"
      BY <1>2, <1>3, <3>2, RemoveTyped DEF Typed
    <3> QED BY <1>2, <3>2, <3>3
  <2> QED BY <2>2, <2>3
<1> QED BY <1>5, <1>6 DEF SessionsExplained

LEMMA SessionsStep ==
    ASSUME Typed, SessionsExplained, [Next]_vars
    PROVE  SessionsExplained'
<1>1. CASE UNCHANGED <<life, active, home>>
  BY <1>1, SessionsUntouched
<1>2. ASSUME NEW c \in Conv, NEW s \in Session, NEW first, StartConversation(c, s, first)
      PROVE  SessionsExplained'
  BY <1>2, SessionsStart
<1>3. CASE Cleanup
  BY <1>3, SessionsCleanup
<1>4. CASE \/ Shutdown
           \/ \E q \in Call, c \in Conv \union {NoConv} : Reinitialize(q, c)
  <2>1. \A d \in Conv : ~Live(d)'
    BY <1>4, AllRemoved DEF Shutdown, Reinitialize
  <2>2. \A t \in Session : active'[t] = NoConv
    BY <1>4 DEF Shutdown, Reinitialize
  <2> QED BY <2>1, <2>2 DEF SessionsExplained
<1>5. CASE \E q \in Call : Proceed(q)
  BY <1>1, <1>5 DEF Proceed, Warmed, GenerationFails, Answered, AnswerFollows, SummaryEnds,
     Digested, Record, contexts
<1>6. CASE \E q \in Call, c \in Conv \union {NoConv} : Request(q, c)
  BY <1>1, <1>6 DEF Request, contexts
<1>7. CASE \E q \in Call : StreamAbandoned(q) \/ Cancelled(q)
  BY <1>1, <1>7 DEF StreamAbandoned, Cancelled, contexts
<1>8. CASE \E q \in Call, c \in Conv, s \in {"ESCALATED", "RESOLVED"} : UpdateState(q, c, s)
  BY <1>1, <1>8 DEF UpdateState, Record
<1>9. CASE \E q \in Call, c \in Conv : Digest(q, c)
  BY <1>1, <1>9 DEF Digest, contexts
<1>10. CASE DayPasses
  BY <1>1, <1>10 DEF DayPasses
<1>11. CASE UNCHANGED vars
  BY <1>1, <1>11 DEF vars, contexts
<1> QED BY <1>2, <1>3, <1>4, <1>5, <1>6, <1>7, <1>8, <1>9, <1>10, <1>11 DEF Next

\* active_sessions never points to a conversation that is gone, nor to one of another
\* session, and a live conversation lost its session's entry only to the cleanup of an
\* older conversation of that session.
THEOREM SessionsAlwaysExplained == Spec => []SessionsExplained
<1>1. Init => SessionsExplained
  BY DEF Init, SessionsExplained, Live
<1> QED BY <1>1, AlwaysTyped, SessionsStep, PTL DEF Spec

-----------------------------------------------------------------------------
(* Segments.                                                                 *)

\* A conversation that a call is about, or a summary of which was missed, was started.
Known ==
    /\ \A q \in Call : about[q] \in Conv => life[about[q]] # "unborn"
    /\ \A c \in Conv : \A n \in Nat : <<c, n>> \in missed => life[c] # "unborn"

\* Call q waits for a summary of c that was due.
Asks(q, c) == phase[q] \in AutoSummary /\ about[q] = c
AsksFor(q, c, n) == Asks(q, c) /\ seen[q] = n
WroteFor(i, c, n) == i \in DOMAIN summaries[c] /\ summaries[c][i] = n

\* The segment of c that ends at message n is awaited, written or missed, one of these
\* and once.
SettledOnce(c, n) ==
    /\ \A q, r \in Call : AsksFor(q, c, n) /\ AsksFor(r, c, n) => q = r
    /\ \A i, j \in Nat : WroteFor(i, c, n) /\ WroteFor(j, c, n) => i = j
    /\ \A q \in Call, i \in Nat : ~(AsksFor(q, c, n) /\ WroteFor(i, c, n))
    /\ <<c, n>> \in missed =>
          (\A q \in Call : ~AsksFor(q, c, n)) /\ (\A i \in Nat : ~WroteFor(i, c, n))
    /\ (\E q \in Call : AsksFor(q, c, n)) \/ (\E i \in Nat : WroteFor(i, c, n))
          \/ <<c, n>> \in missed

\* Of a live conversation: summaries are for segments there are, and each segment is
\* settled once.  A digest asked for by a client stands in the list as a 0.
Segmented(c) ==
    /\ \A q \in Call : Asks(q, c) => seen[q] \in 1 .. Len(messages[c]) /\ Due(seen[q])
    /\ \A i \in DOMAIN summaries[c] :
          summaries[c][i] = 0
             \/ (summaries[c][i] \in 1 .. Len(messages[c]) /\ Due(summaries[c][i]))
    /\ \A n \in Nat : <<c, n>> \in missed => n \in 1 .. Len(messages[c]) /\ Due(n)
    /\ \A n \in 1 .. Len(messages[c]) : Due(n) => SettledOnce(c, n)

Segments == Known /\ \A c \in Conv : Live(c) => Segmented(c)

\* A segment settled once stays so while nobody touches it.
LEMMA SettledKept ==
    ASSUME NEW c, NEW n, SettledOnce(c, n),
           \A r \in Call : AsksFor(r, c, n)' <=> AsksFor(r, c, n),
           \A i \in Nat : WroteFor(i, c, n)' <=> WroteFor(i, c, n),
           <<c, n>> \in missed' <=> <<c, n>> \in missed
    PROVE  SettledOnce(c, n)'
BY DEF SettledOnce

\* The one call that waited for it goes on: the summary is written, or missed.
LEMMA SettledEnds ==
    ASSUME NEW c, NEW n, NEW q \in Call, SettledOnce(c, n), AsksFor(q, c, n),
           \A r \in Call : AsksFor(r, c, n)' <=> AsksFor(r, c, n) /\ r # q,
           \/ /\ \E j \in Nat : \A i \in Nat : WroteFor(i, c, n)' <=> WroteFor(i, c, n) \/ i = j
              /\ <<c, n>> \in missed' <=> <<c, n>> \in missed
           \/ /\ \A i \in Nat : WroteFor(i, c, n)' <=> WroteFor(i, c, n)
              /\ <<c, n>> \in missed'
    PROVE  SettledOnce(c, n)'
<1>1. /\ \A r \in Call : ~AsksFor(r, c, n)'
      /\ \A i \in Nat : ~WroteFor(i, c, n)
      /\ <<c, n>> \notin missed
  BY DEF SettledOnce
<1>2. CASE /\ \E j \in Nat : \A i \in Nat : WroteFor(i, c, n)' <=> WroteFor(i, c, n) \/ i = j
           /\ <<c, n>> \in missed' <=> <<c, n>> \in missed
  BY <1>1, <1>2 DEF SettledOnce
<1>3. CASE /\ \A i \in Nat : WroteFor(i, c, n)' <=> WroteFor(i, c, n)
           /\ <<c, n>> \in missed'
  BY <1>1, <1>3 DEF SettledOnce
<1> QED BY <1>2, <1>3

\* A new segment, which nobody waited for or wrote.
LEMMA SettledBegins ==
    ASSUME NEW c, NEW n, NEW q \in Call,
           \A r \in Call : AsksFor(r, c, n)' <=> r = q,
           \A i \in Nat : ~WroteFor(i, c, n)',
           <<c, n>> \notin missed'
    PROVE  SettledOnce(c, n)'
BY DEF SettledOnce

LEMMA WrittenMore ==
    ASSUME NEW c, NEW n \in Nat, NEW x \in Nat, summaries[c] \in Seq(Nat),
           summaries'[c] = Append(summaries[c], x)
    PROVE  /\ x # n => \A i \in Nat : WroteFor(i, c, n)' <=> WroteFor(i, c, n)
           /\ x = n => \E j \in Nat : \A i \in Nat : WroteFor(i, c, n)' <=> WroteFor(i, c, n) \/ i = j
<1> DEFINE s == summaries[c]
           j == Len(s) + 1
<1>1. /\ Len(s) \in Nat /\ DOMAIN s = 1 .. Len(s)
      /\ DOMAIN summaries'[c] = 1 .. j
      /\ \A i \in 1 .. Len(s) : summaries'[c][i] = s[i]
      /\ summaries'[c][j] = x
  OBVIOUS
<1>2. ASSUME NEW i \in Nat
      PROVE  /\ WroteFor(i, c, n) <=> i \in 1 .. Len(s) /\ s[i] = n
             /\ WroteFor(i, c, n)' <=> i \in 1 .. j /\ summaries'[c][i] = n
  BY <1>1 DEF WroteFor
<1>3. ASSUME NEW i \in Nat
      PROVE  WroteFor(i, c, n)' <=> WroteFor(i, c, n) \/ (i = j /\ x = n)
  <2>1. i \in 1 .. j <=> i \in 1 .. Len(s) \/ i = j
    BY <1>1
  <2>2. j \notin 1 .. Len(s)
    BY <1>1
  <2> HIDE DEF s, j
  <2> QED BY <1>1, <1>2, <2>1, <2>2
<1>4. j \in Nat
  BY <1>1
<1> QED BY <1>3, <1>4

\* What a call does to the conversation c: it may end its wait, add up to two messages,
\* and begin to wait for the segment that ends with one of them.
Ends(c, q) ==
    LET same == \A n \in Nat : <<c, n>> \in missed' <=> <<c, n>> \in missed IN
    \/ ~Asks(q, c) /\ summaries'[c] = summaries[c] /\ same
    \/ ~Asks(q, c) /\ summaries'[c] = Append(summaries[c], 0) /\ same
    \/ Asks(q, c) /\ summaries'[c] = Append(summaries[c], seen[q]) /\ same
    \/ /\ Asks(q, c) /\ summaries'[c] = summaries[c]
       /\ \A n \in Nat : <<c, n>> \in missed' <=> <<c, n>> \in missed \/ n = seen[q]

Begins(c, q, first, last) ==
    \/ ~Asks(q, c)' /\ \A m \in first .. last : ~Due(m)
    \/ Asks(q, c)' /\ seen'[q] \in first .. last /\ \A m \in first .. last : Due(m) <=> m = seen'[q]

LEMMA SegmentMoves ==
    ASSUME CallsTyped, NEW c \in Conv, NEW q \in Call, NEW k \in {0, 1, 2}, NEW l \in Nat,
           Len(messages[c]) = l, Len(messages'[c]) = l + k,
           summaries[c] \in Seq(Nat), Segmented(c),
           \A r \in Call \ {q} : (Asks(r, c)' <=> Asks(r, c)) /\ seen'[r] = seen[r],
           Ends(c, q), Begins(c, q, l + 1, l + k)
    PROVE  Segmented(c)'
<1>1. /\ \A r \in Call : Asks(r, c) => seen[r] \in 1 .. l /\ Due(seen[r])
      /\ \A i \in DOMAIN summaries[c] :
            summaries[c][i] = 0 \/ (summaries[c][i] \in 1 .. l /\ Due(summaries[c][i]))
      /\ \A n \in Nat : <<c, n>> \in missed => n \in 1 .. l /\ Due(n)
      /\ \A n \in 1 .. l : Due(n) => SettledOnce(c, n)
  BY DEF Segmented
<1>2. seen[q] \in Nat
  BY DEF CallsTyped
<1>3. \A r \in Call : Asks(r, c)' => seen'[r] \in 1 .. l + k /\ Due(seen'[r])
  <2>1. ASSUME NEW r \in Call \ {q}, Asks(r, c)'
        PROVE  seen'[r] \in 1 .. l + k /\ Due(seen'[r])
    BY <1>1, <2>1
  <2>2. Asks(q, c)' => seen'[q] \in 1 .. l + k /\ Due(seen'[q])
    BY DEF Begins
  <2> QED BY <2>1, <2>2
<1>4. \A i \in DOMAIN summaries'[c] :
         summaries'[c][i] = 0 \/ (summaries'[c][i] \in 1 .. l + k /\ Due(summaries'[c][i]))
  <2>1. CASE summaries'[c] = summaries[c]
    BY <1>1, <2>1
  <2>2. ASSUME NEW x \in Nat, summaries'[c] = Append(summaries[c], x),
               x = 0 \/ (x \in 1 .. l /\ Due(x)),
               NEW i \in DOMAIN summaries'[c]
        PROVE  summaries'[c][i] = 0 \/ (summaries'[c][i] \in 1 .. l + k /\ Due(summaries'[c][i]))
    <3>1. \/ i \in DOMAIN summaries[c] /\ summaries'[c][i] = summaries[c][i]
          \/ summaries'[c][i] = x
      BY <2>2
    <3> QED BY <1>1, <2>2, <3>1
  <2> QED BY <1>1, <1>2, <2>1, <2>2 DEF Ends
<1>5. \A n \in Nat : <<c, n>> \in missed' => n \in 1 .. l + k /\ Due(n)
  BY <1>1 DEF Ends
<1>6. ASSUME NEW n \in 1 .. l, Due(n)
      PROVE  SettledOnce(c, n)'
  <2>1. \A r \in Call : AsksFor(r, c, n)' <=> AsksFor(r, c, n) /\ r # q
    <3>1. ~AsksFor(q, c, n)'
      BY DEF AsksFor, Begins
    <3>2. \A r \in Call \ {q} : AsksFor(r, c, n)' <=> AsksFor(r, c, n)
      BY DEF AsksFor
    <3> QED BY <3>1, <3>2
  <2>2. SettledOnce(c, n) /\ n \in Nat /\ n # 0
    BY <1>1, <1>6
  <2>3. CASE AsksFor(q, c, n)
    <3>1. Asks(q, c) /\ seen[q] = n
      BY <2>3 DEF AsksFor
    <3>2. CASE summaries'[c] = Append(summaries[c], seen[q]) /\ (<<c, n>> \in missed' <=> <<c, n>> \in missed)
      BY <1>2, <2>1, <2>2, <2>3, <3>1, <3>2, WrittenMore, SettledEnds
    <3>3. CASE summaries'[c] = summaries[c] /\ <<c, n>> \in missed'
      <4>1. \A i \in Nat : WroteFor(i, c, n)' <=> WroteFor(i, c, n)
        BY <3>3 DEF WroteFor
      <4> QED BY <2>1, <2>2, <2>3, <3>3, <4>1, SettledEnds
    <3> QED BY <2>2, <3>1, <3>2, <3>3 DEF Ends
  <2>4. CASE ~AsksFor(q, c, n)
    <3>1. \A r \in Call : AsksFor(r, c, n)' <=> AsksFor(r, c, n)
      BY <2>1, <2>4
    <3>2. Asks(q, c) => seen[q] # n
      BY <2>4 DEF AsksFor
    <3>3. <<c, n>> \in missed' <=> <<c, n>> \in missed
      BY <2>2, <3>2 DEF Ends
    <3>4. \A i \in Nat : WroteFor(i, c, n)' <=> WroteFor(i, c, n)
      <4>1. CASE summaries'[c] = summaries[c]
        BY <4>1 DEF WroteFor
      <4>2. CASE summaries'[c] = Append(summaries[c], 0)
        BY <2>2, <4>2, WrittenMore
      <4>3. CASE summaries'[c] = Append(summaries[c], seen[q]) /\ Asks(q, c)
        BY <1>2, <2>2, <3>2, <4>3, WrittenMore
      <4> QED BY <4>1, <4>2, <4>3 DEF Ends
    <3> QED BY <2>2, <3>1, <3>3, <3>4, SettledKept
  <2> QED BY <2>3, <2>4
<1>7. ASSUME NEW n \in l + 1 .. l + k, Due(n)
      PROVE  SettledOnce(c, n)'
  <2>1. Asks(q, c)' /\ seen'[q] = n
    BY <1>7 DEF Begins
  <2>2. n \in Nat /\ n # 0 /\ n \notin 1 .. l
    OBVIOUS
  <2>3. \A r \in Call : AsksFor(r, c, n)' <=> r = q
    <3>1. \A r \in Call \ {q} : ~AsksFor(r, c, n)'
      BY <1>1, <2>2 DEF AsksFor
    <3> QED BY <2>1, <3>1 DEF AsksFor
  <2>4. <<c, n>> \notin missed'
    BY <1>1, <2>2 DEF Ends
  <2>5. \A i \in Nat : ~WroteFor(i, c, n)'
    <3>1. \A i \in Nat : ~WroteFor(i, c, n)
      BY <1>1, <2>2 DEF WroteFor
    <3>2. CASE summaries'[c] = summaries[c]
      BY <3>1, <3>2 DEF WroteFor
    <3>3. CASE summaries'[c] = Append(summaries[c], 0)
      BY <2>2, <3>1, <3>3, WrittenMore
    <3>4. CASE summaries'[c] = Append(summaries[c], seen[q]) /\ Asks(q, c)
      BY <1>1, <1>2, <2>2, <3>1, <3>4, WrittenMore
    <3> QED BY <3>2, <3>3, <3>4 DEF Ends
  <2> QED BY <2>3, <2>4, <2>5, SettledBegins
<1>8. \A n \in 1 .. l + k : n \in 1 .. l \/ n \in l + 1 .. l + k
  OBVIOUS
<1> QED BY <1>3, <1>4, <1>5, <1>6, <1>7, <1>8 DEF Segmented

\* Only call q moves.
OthersRest(q) ==
    \A r \in Call \ {q} :
        phase'[r] = phase[r] /\ about'[r] = about[r] /\ seen'[r] = seen[r] /\ outcome'[r] = outcome[r]

LEMMA AwaitAlone ==
    ASSUME CallsTyped, NEW q \in Call, NEW p \in Waits, NEW n \in Nat, Await(q, p, n)
    PROVE  /\ phase'[q] = p /\ seen'[q] = n /\ outcome' = outcome
           /\ \A r \in Call \ {q} : phase'[r] = phase[r] /\ seen'[r] = seen[r]
BY DEF Await, CallsTyped

LEMMA ReturnAlone ==
    ASSUME CallsTyped, NEW q \in Call, NEW o, Return(q, o)
    PROVE  /\ phase'[q] = "done" /\ outcome'[q] = o
           /\ \A r \in Call \ {q} :
                 phase'[r] = phase[r] /\ seen'[r] = seen[r] /\ outcome'[r] = outcome[r]
BY DEF Return, CallsTyped

\* A conversation that the moving call neither asked for nor asks for now.
LEMMA SegmentRests ==
    ASSUME Typed, NEW q \in Call, OthersRest(q), NEW d \in Conv, Segmented(d),
           ~Asks(q, d), ~Asks(q, d)',
           messages'[d] = messages[d],
           \/ summaries'[d] = summaries[d]
           \/ summaries'[d] = Append(summaries[d], 0),
           \A n \in Nat : <<d, n>> \in missed' <=> <<d, n>> \in missed
    PROVE  Segmented(d)'
<1>1. Ends(d, q)
  BY DEF Ends
<1>2. PICK l \in Nat : l = Len(messages[d])
  BY DEF Typed, ContextsTyped
<1>3. Begins(d, q, l + 1, l + 0)
  BY DEF Begins
<1>4. \A r \in Call \ {q} : (Asks(r, d)' <=> Asks(r, d)) /\ seen'[r] = seen[r]
  BY DEF OthersRest, Asks
<1>5. Len(messages'[d]) = l + 0 /\ summaries[d] \in Seq(Nat) /\ CallsTyped
  BY <1>2 DEF Typed, ContextsTyped
<1> QED BY <1>1, <1>2, <1>3, <1>4, <1>5, SegmentMoves

LEMMA KnownStep ==
    ASSUME Typed, Known,
           \A c \in Conv : life[c] # "unborn" => life'[c] # "unborn",
           \A q \in Call : about'[q] = about[q]
                              \/ (about'[q] \in Conv => life[about'[q]] # "unborn"),
           \A c \in Conv : \A n \in Nat : <<c, n>> \in missed' => <<c, n>> \in missed \/ Live(c)
    PROVE  Known'
BY DEF Known, Live

\* A call that waits for no summary, before or after, and adds nothing.
LEMMA QuietSegments ==
    ASSUME Typed, Segments, NEW q \in Call, OthersRest(q),
           UNCHANGED <<life, messages, missed>>,
           \A d \in Conv : \/ summaries'[d] = summaries[d]
                           \/ summaries'[d] = Append(summaries[d], 0),
           phase[q] \notin AutoSummary, phase'[q] \notin AutoSummary,
           about'[q] \in Conv => about'[q] = about[q] \/ life[about'[q]] # "unborn"
    PROVE  Segments'
<1>1. Known'
  BY KnownStep DEF Segments, OthersRest
<1>2. ASSUME NEW d \in Conv, Live(d)' PROVE Segmented(d)'
  BY <1>2, SegmentRests DEF Segments, Asks, Live
<1> QED BY <1>1, <1>2 DEF Segments

LEMMA RequestSegments ==
    ASSUME Typed, Segments, NEW q \in Call, NEW c \in Conv \union {NoConv}, Request(q, c)
    PROVE  Segments'
<1>1. /\ phase[q] = "none" /\ about' = [about EXCEPT ![q] = c]
      /\ c \in Conv => life[c] # "unborn"
      /\ UNCHANGED <<life, messages, summaries, missed>>
  BY DEF Request, contexts
<1>2. about'[q] = c /\ \A r \in Call \ {q} : about'[r] = about[r]
  BY <1>1 DEF Typed, CallsTyped
<1>3. OthersRest(q) /\ phase'[q] \notin AutoSummary
  <2>1. CASE Await(q, "generating", 0) \/ Await(q, "warming", 0)
    BY <1>2, <2>1, AwaitAlone DEF OthersRest, Typed, Waits, AutoSummary
  <2>2. CASE Return(q, "failed")
    BY <1>2, <2>2, ReturnAlone DEF OthersRest, Typed, AutoSummary
  <2>3. CASE UNCHANGED <<phase, seen, outcome>>
    BY <1>1, <1>2, <2>3 DEF OthersRest, AutoSummary
  <2> QED BY <2>1, <2>2, <2>3 DEF Request
<1> QED BY <1>1, <1>2, <1>3, QuietSegments DEF AutoSummary

LEMMA DigestSegments ==
    ASSUME Typed, Segments, NEW q \in Call, NEW c \in Conv, Digest(q, c)
    PROVE  Segments'
<1>1. /\ phase[q] = "none" /\ about' = [about EXCEPT ![q] = c]
      /\ life[c] # "unborn"
      /\ UNCHANGED <<life, messages, summaries, missed>>
  BY DEF Digest, contexts, Live
<1>2. about'[q] = c /\ \A r \in Call \ {q} : about'[r] = about[r]
  BY <1>1 DEF Typed, CallsTyped
<1>3. Len(messages[c]) \in Nat
  BY DEF Typed, ContextsTyped
<1>4. OthersRest(q) /\ phase'[q] \notin AutoSummary
  BY <1>2, <1>3, AwaitAlone DEF OthersRest, Typed, Waits, AutoSummary, Digest
<1> QED BY <1>1, <1>2, <1>4, QuietSegments DEF AutoSummary

\* The steps of a request outside any summary, and the end of a digest.
LEMMA OutsideSegments ==
    ASSUME Typed, Segments, NEW q \in Call,
           Warmed(q) \/ GenerationFails(q) \/ StreamAbandoned(q) \/ Digested(q)
    PROVE  Segments'
<1>1. /\ phase[q] \notin AutoSummary
      /\ UNCHANGED <<life, messages, about, missed>>
  BY DEF Warmed, GenerationFails, StreamAbandoned, Digested, contexts, AutoSummary
<1>2. OthersRest(q) /\ phase'[q] \notin AutoSummary
  <2>1. CASE Await(q, "generating", 0)
    BY <1>1, <2>1, AwaitAlone DEF OthersRest, Typed, Waits, AutoSummary
  <2>2. CASE \E o \in Outcomes : Return(q, o)
    BY <1>1, <2>2, ReturnAlone DEF OthersRest, Typed, AutoSummary
  <2> QED BY <2>1, <2>2 DEF Warmed, GenerationFails, StreamAbandoned, Digested, Outcomes
<1>3. ASSUME NEW d \in Conv
      PROVE  summaries'[d] = summaries[d] \/ summaries'[d] = Append(summaries[d], 0)
  <2>1. CASE UNCHANGED summaries
    BY <2>1
  <2>2. CASE Live(about[q]) /\ summaries' = [summaries EXCEPT ![about[q]] = Append(@, 0)]
    BY <2>2 DEF Typed, ContextsTyped, Live
  <2> QED BY <2>1, <2>2 DEF Warmed, GenerationFails, StreamAbandoned, Digested, contexts
<1> QED BY <1>1, <1>2, <1>3, QuietSegments

\* The end of a wait for a summary, for the conversation it was of and for the others.
LEMMA SummarisedEnds ==
    ASSUME Typed, NEW q \in Call, phase[q] \in AutoSummary, Summarised(q)
    PROVE  /\ \A d \in Conv : Live(d) /\ d = about[q] => Ends(d, q)
           /\ \A d \in Conv : d # about[q] =>
                 /\ summaries'[d] = summaries[d]
                 /\ \A n \in Nat : <<d, n>> \in missed' <=> <<d, n>> \in missed
           /\ \A d \in Conv : \A n \in Nat : <<d, n>> \in missed' => <<d, n>> \in missed \/ Live(d)
<1> DEFINE c == about[q]
<1>1. seen[q] \in Nat /\ SummaryOf(q) = seen[q]
  BY DEF Typed, CallsTyped, SummaryOf
<1>2. CASE Live(c) /\ summaries' = [summaries EXCEPT ![c] = Append(@, seen[q])] /\ UNCHANGED missed
  <2>1. c \in Conv
    BY <1>2 DEF Live
  <2>2. summaries'[c] = Append(summaries[c], seen[q])
    BY <1>2, <2>1 DEF Typed, ContextsTyped
  <2>3. \A d \in Conv \ {c} : summaries'[d] = summaries[d]
    BY <1>2, <2>1 DEF Typed, ContextsTyped
  <2>4. Ends(c, q)
    BY <1>2, <2>2 DEF Ends, Asks
  <2> QED BY <1>2, <2>3, <2>4
<1>3. CASE Live(c) /\ missed' = missed \union {<<c, seen[q]>>} /\ UNCHANGED summaries
  <2>1. \A d \in Conv : \A n \in Nat :
           <<d, n>> \in missed' <=> <<d, n>> \in missed \/ (d = c /\ n = seen[q])
    BY <1>3
  <2>2. \A d \in Conv : d = c => Ends(d, q)
    BY <1>3, <2>1 DEF Ends, Asks
  <2> QED BY <1>3, <2>1, <2>2
<1>4. CASE ~Live(c) /\ UNCHANGED <<summaries, missed>>
  BY <1>4
<1> QED BY <1>1, <1>2, <1>3, <1>4 DEF Summarised

\* A call that adds to its conversation c, and may end one wait and begin another.
LEMMA SpeakingSegments ==
    ASSUME Typed, Segments, NEW q \in Call, OthersRest(q), NEW c \in Conv,
           about'[q] = c,
           phase[q] \in AutoSummary => about[q] = c,
           UNCHANGED life, life[c] # "unborn",
           \A d \in Conv \ {c} :
               /\ messages'[d] = messages[d] /\ summaries'[d] = summaries[d]
               /\ \A n \in Nat : <<d, n>> \in missed' <=> <<d, n>> \in missed,
           \A n \in Nat : <<c, n>> \in missed' => <<c, n>> \in missed \/ Live(c),
           NEW k \in {0, 1, 2},
           Live(c) => /\ Len(messages'[c]) = Len(messages[c]) + k
                      /\ Ends(c, q)
                      /\ Begins(c, q, Len(messages[c]) + 1, Len(messages[c]) + k)
    PROVE  Segments'
<1>1. Known'
  BY KnownStep DEF Segments, OthersRest
<1>2. ASSUME NEW d \in Conv \ {c}, Live(d)' PROVE Segmented(d)'
  <2>1. ~Asks(q, d) /\ ~Asks(q, d)'
    BY DEF Asks
  <2>2. Segmented(d)
    BY <1>2 DEF Segments, Live
  <2> QED BY <2>1, <2>2, SegmentRests
<1>3. ASSUME Live(c)' PROVE Segmented(c)'
  <2>1. Live(c) /\ Segmented(c)
    BY <1>3 DEF Segments, Live
  <2>2. PICK l \in Nat : l = Len(messages[c])
    BY DEF Typed, ContextsTyped
  <2>3. \A r \in Call \ {q} : (Asks(r, c)' <=> Asks(r, c)) /\ seen'[r] = seen[r]
    BY DEF OthersRest, Asks
  <2>4. summaries[c] \in Seq(Nat) /\ CallsTyped
    BY DEF Typed, ContextsTyped
  <2>5. Len(messages'[c]) = l + k /\ Ends(c, q) /\ Begins(c, q, l + 1, l + k)
    BY <2>1, <2>2
  <2> QED BY <2>1, <2>2, <2>3, <2>4, <2>5, SegmentMoves
<1> QED BY <1>1, <1>2, <1>3 DEF Segments

\* Due is asked of one message, or of two of which only the second can be due.
LEMMA BeginsOne ==
    ASSUME NEW q \in Call, NEW c, NEW l \in Nat,
           \/ Due(l + 1) /\ Asks(q, c)' /\ seen'[q] = l + 1
           \/ ~Due(l + 1) /\ ~Asks(q, c)'
    PROVE  Begins(c, q, l + 1, l + 1)
<1>1. \A m \in l + 1 .. l + 1 : m = l + 1
  OBVIOUS
<1>2. l + 1 \in l + 1 .. l + 1
  OBVIOUS
<1> QED BY <1>1, <1>2 DEF Begins

LEMMA BeginsTwo ==
    ASSUME NEW q \in Call, NEW c, NEW l \in Nat, ~Due(l + 1),
           \/ Due(l + 2) /\ Asks(q, c)' /\ seen'[q] = l + 2
           \/ ~Due(l + 2) /\ ~Asks(q, c)'
    PROVE  Begins(c, q, l + 1, l + 2)
<1>1. \A m \in l + 1 .. l + 2 : m = l + 1 \/ m = l + 2
  OBVIOUS
<1>2. l + 2 \in l + 1 .. l + 2
  OBVIOUS
<1> QED BY <1>1, <1>2 DEF Begins

LEMMA AnsweredSegments ==
    ASSUME Typed, Segments, NEW q \in Call, Answered(q)
    PROVE  Segments'
<1>1. /\ phase[q] = "generating"
      /\ UNCHANGED <<summaries, about, missed>>
  BY DEF Answered
<1>2. PICK c : c = about[q]
  OBVIOUS
<1>3. PICK l : l = Len(messages[c])
  OBVIOUS
<1>4. By(q, "user") \in Message /\ By(q, "assistant") \in Message
  BY SpokenTyped
<1>5. CASE ~Live(c)
  <2>1. Return(q, "unrecorded") /\ UNCHANGED <<life, messages>>
    BY <1>2, <1>5 DEF Answered
  <2>2. OthersRest(q) /\ phase'[q] \notin AutoSummary
    BY <1>1, <2>1, ReturnAlone DEF OthersRest, Typed, AutoSummary
  <2> QED BY <1>1, <2>1, <2>2, QuietSegments DEF AutoSummary
<1>6. CASE Live(c)
  <2>1. c \in Conv /\ l \in Nat /\ life[c] # "unborn"
    BY <1>3, <1>6 DEF Live, Typed, ContextsTyped
  <2>2. ~Asks(q, c) /\ Ends(c, q) /\ about'[q] = c
    BY <1>1, <1>2 DEF Ends, Asks, AutoSummary
  <2>3. CASE Due(l + 1) /\ Record(c, <<By(q, "user")>>, "WAITING_SYSTEM") /\ Await(q, "afterUser", l + 1)
    <3>1. Grown(c, 1) /\ UNCHANGED life
      BY <1>4, <2>1, <2>3, RecordOne DEF Typed, Record
    <3>2. OthersRest(q) /\ Asks(q, c)' /\ seen'[q] = l + 1
      BY <1>1, <2>1, <2>2, <2>3, AwaitAlone DEF OthersRest, Typed, AutoSummary, Waits, Asks
    <3>3. Begins(c, q, l + 1, l + 1)
      BY <2>1, <2>3, <3>2, BeginsOne
    <3> QED BY <1>1, <1>2, <1>3, <2>1, <2>2, <3>1, <3>2, <3>3, SpeakingSegments DEF Grown
  <2>4. CASE /\ ~Due(l + 1) /\ Record(c, <<By(q, "user"), By(q, "assistant")>>, "WAITING_USER")
             /\ IF Due(l + 2) THEN Await(q, "afterAnswer", l + 2) ELSE Return(q, "recorded")
    <3>1. Grown(c, 2) /\ UNCHANGED life
      BY <1>4, <2>1, <2>4, RecordTwo DEF Typed, Record
    <3>2. OthersRest(q) /\ IF Due(l + 2) THEN Asks(q, c)' /\ seen'[q] = l + 2 ELSE ~Asks(q, c)'
      <4>1. CASE Due(l + 2)
        BY <1>1, <2>1, <2>2, <2>4, <4>1, AwaitAlone DEF OthersRest, Typed, AutoSummary, Waits, Asks
      <4>2. CASE ~Due(l + 2)
        BY <1>1, <2>4, <4>2, ReturnAlone DEF OthersRest, Typed, AutoSummary, Asks
      <4> QED BY <4>1, <4>2
    <3>3. Begins(c, q, l + 1, l + 2)
      BY <2>1, <2>4, <3>2, BeginsTwo
    <3> QED BY <1>1, <1>2, <1>3, <2>1, <2>2, <3>1, <3>2, <3>3, SpeakingSegments DEF Grown
  <2> QED BY <1>2, <1>3, <1>6, <2>3, <2>4 DEF Answered
<1> QED BY <1>5, <1>6

LEMMA AnswerFollowsSegments ==
    ASSUME Typed, Segments, NEW q \in Call, AnswerFollows(q)
    PROVE  Segments'
<1>1. /\ phase[q] \in AutoSummary /\ Summarised(q) /\ UNCHANGED about
  BY DEF AnswerFollows, AutoSummary
<1>2. PICK c : c = about[q]
  OBVIOUS
<1>3. PICK l : l = Len(messages[c])
  OBVIOUS
<1>4. By(q, "assistant") \in Message
  BY SpokenTyped
<1>5. CASE ~Live(c)
  <2>1. Return(q, "half") /\ UNCHANGED <<life, messages, summaries, missed>>
    BY <1>1, <1>2, <1>5 DEF AnswerFollows, Summarised
  <2>2. OthersRest(q) /\ phase'[q] \notin AutoSummary
    BY <1>1, <2>1, ReturnAlone DEF OthersRest, Typed, AutoSummary
  <2>3. Known'
    BY <1>1, <2>1, KnownStep DEF Segments
  <2>4. ASSUME NEW d \in Conv, Live(d)' PROVE Segmented(d)'
    <3>1. Live(d) /\ d # c /\ Segmented(d)
      BY <1>5, <2>1, <2>4 DEF Live, Segments
    <3> QED BY <1>1, <1>2, <2>1, <2>2, <3>1, SegmentRests DEF Asks
  <2> QED BY <2>3, <2>4 DEF Segments
<1>6. CASE Live(c)
  <2>1. c \in Conv /\ l \in Nat /\ life[c] # "unborn"
    BY <1>3, <1>6 DEF Live, Typed, ContextsTyped
  <2>2. /\ Record(c, <<By(q, "assistant")>>, "WAITING_USER")
        /\ IF Due(l + 1) THEN Await(q, "afterAnswer", l + 1) ELSE Return(q, "recorded")
    BY <1>2, <1>3, <1>6 DEF AnswerFollows
  <2>3. Grown(c, 1) /\ UNCHANGED life
    BY <1>4, <2>1, <2>2, RecordOne DEF Typed, Record
  <2>4. OthersRest(q) /\ IF Due(l + 1) THEN Asks(q, c)' /\ seen'[q] = l + 1 ELSE ~Asks(q, c)'
    <3>1. CASE Due(l + 1)
      BY <1>1, <1>2, <2>1, <2>2, <3>1, AwaitAlone DEF OthersRest, Typed, AutoSummary, Waits, Asks
    <3>2. CASE ~Due(l + 1)
      BY <1>1, <2>2, <3>2, ReturnAlone DEF OthersRest, Typed, AutoSummary, Asks
    <3> QED BY <3>1, <3>2
  <2>5. Begins(c, q, l + 1, l + 1)
    BY <2>1, <2>4, BeginsOne
  <2>6. /\ Ends(c, q)
        /\ \A d \in Conv \ {c} :
              /\ summaries'[d] = summaries[d]
              /\ \A n \in Nat : <<d, n>> \in missed' <=> <<d, n>> \in missed
        /\ \A n \in Nat : <<c, n>> \in missed' => <<c, n>> \in missed \/ Live(c)
    BY <1>1, <1>2, <1>6, <2>1, SummarisedEnds
  <2>7. about'[q] = c /\ about[q] = c
    BY <1>1, <1>2
  <2> QED BY <1>3, <2>1, <2>3, <2>4, <2>5, <2>6, <2>7, SpeakingSegments DEF Grown
<1> QED BY <1>5, <1>6

\* A wait for a summary ends, and with it the call.
LEMMA WaitEndsSegments ==
    ASSUME Typed, Segments, NEW q \in Call, NEW o, Return(q, o),
           phase[q] \in AutoSummary, Summarised(q), UNCHANGED <<about, life, messages>>
    PROVE  Segments'
<1>1. /\ phase[q] \in AutoSummary /\ Summarised(q) /\ Return(q, o)
      /\ UNCHANGED <<about, life, messages>>
  OBVIOUS
<1>2. OthersRest(q) /\ phase'[q] \notin AutoSummary
  BY <1>1, ReturnAlone DEF OthersRest, Typed, AutoSummary
<1>3. Known'
  BY <1>1, SummarisedEnds, KnownStep DEF Segments
<1>4. ASSUME NEW d \in Conv, Live(d)' PROVE Segmented(d)'
  <2>1. Live(d) /\ Segmented(d) /\ ~Asks(q, d)'
    BY <1>1, <1>2, <1>4 DEF Live, Segments, Asks
  <2>2. CASE d # about[q]
    <3>1. ~Asks(q, d)
      BY <2>2 DEF Asks
    <3> QED BY <1>1, <1>2, <2>1, <2>2, <3>1, SummarisedEnds, SegmentRests
  <2>3. CASE d = about[q]
    <3>1. Ends(d, q)
      BY <1>1, <2>1, <2>3, SummarisedEnds
    <3>2. PICK l \in Nat : l = Len(messages[d])
      BY DEF Typed, ContextsTyped
    <3>3. Begins(d, q, l + 1, l + 0)
      BY <2>1 DEF Begins
    <3>4. \A r \in Call \ {q} : (Asks(r, d)' <=> Asks(r, d)) /\ seen'[r] = seen[r]
      BY <1>2 DEF OthersRest, Asks
    <3>5. Len(messages'[d]) = l + 0 /\ summaries[d] \in Seq(Nat) /\ CallsTyped
      BY <1>1, <3>2 DEF Typed, ContextsTyped
    <3> QED BY <2>1, <3>1, <3>2, <3>3, <3>4, <3>5, SegmentMoves
  <2> QED BY <2>2, <2>3
<1> QED BY <1>3, <1>4 DEF Segments

LEMMA SummaryEndsSegments ==
    ASSUME Typed, Segments, NEW q \in Call, SummaryEnds(q)
    PROVE  Segments'
BY WaitEndsSegments DEF SummaryEnds, AutoSummary

LEMMA CancelledSegments ==
    ASSUME Typed, Segments, NEW q \in Call, Cancelled(q)
    PROVE  Segments'
<1>1. Return(q, "cancelled") /\ UNCHANGED <<about, life, messages, summaries>>
  BY DEF Cancelled, contexts
<1>2. CASE phase[q] \in AutoSummary
  <2>1. Summarised(q)
    BY <1>1, <1>2 DEF Cancelled, Summarised, SummaryOf
  <2> QED BY <1>1, <1>2, <2>1, WaitEndsSegments
<1>3. CASE phase[q] \notin AutoSummary
  <2>1. UNCHANGED missed
    BY <1>3 DEF Cancelled
  <2>2. OthersRest(q) /\ phase'[q] \notin AutoSummary
    BY <1>1, ReturnAlone DEF OthersRest, Typed, AutoSummary
  <2> QED BY <1>1, <1>3, <2>1, <2>2, QuietSegments
<1> QED BY <1>2, <1>3

LEMMA ReinitializeSegments ==
    ASSUME Typed, Segments, NEW q \in Call, NEW c \in Conv \union {NoConv}, Reinitialize(q, c)
    PROVE  Segments'
<1>1. /\ about' = [about EXCEPT ![q] = c] /\ UNCHANGED missed
      /\ c \in Conv => life[c] # "unborn"
      /\ Remove({d \in Conv : Live(d)})
  BY DEF Reinitialize
<1>2. about'[q] = c /\ \A r \in Call \ {q} : about'[r] = about[r]
  BY <1>1 DEF Typed, CallsTyped
<1>3. /\ \A d \in Conv : ~Live(d)'
      /\ \A d \in Conv : life[d] # "unborn" => life'[d] # "unborn"
  BY <1>1, AllRemoved
<1>4. Known'
  BY <1>1, <1>2, <1>3, KnownStep DEF Segments
<1> QED BY <1>3, <1>4 DEF Segments

LEMMA UpdateStateSegments ==
    ASSUME Typed, Segments, NEW q \in Call, NEW c \in Conv, NEW s, UpdateState(q, c, s)
    PROVE  Segments'
<1>1. /\ phase[q] = "none" /\ Live(c) /\ about' = [about EXCEPT ![q] = c]
      /\ Record(c, <<By(q, "system")>>, s)
      /\ UNCHANGED <<summaries, missed>>
  BY DEF UpdateState
<1>2. PICK l : l = Len(messages[c])
  OBVIOUS
<1>3. l \in Nat /\ life[c] # "unborn" /\ By(q, "system") \in Message
  BY <1>1, <1>2, SpokenTyped DEF Live, Typed, ContextsTyped
<1>4. about'[q] = c /\ \A r \in Call \ {q} : about'[r] = about[r]
  BY <1>1 DEF Typed, CallsTyped
<1>5. ~Asks(q, c) /\ Ends(c, q)
  BY <1>1 DEF Ends, Asks, AutoSummary
<1>6. Grown(c, 1) /\ UNCHANGED life
  BY <1>1, <1>3, RecordOne DEF Typed, Record
<1>7. OthersRest(q) /\ IF Due(l + 1) THEN Asks(q, c)' /\ seen'[q] = l + 1 ELSE ~Asks(q, c)'
  <2>1. CASE Due(l + 1)
    <3>1. Await(q, "afterSystem", l + 1)
      BY <1>2, <2>1 DEF UpdateState
    <3> QED BY <1>3, <1>4, <2>1, <3>1, AwaitAlone DEF OthersRest, Typed, AutoSummary, Waits, Asks
  <2>2. CASE ~Due(l + 1)
    <3>1. Return(q, "recorded")
      BY <1>2, <2>2 DEF UpdateState
    <3> QED BY <1>4, <2>2, <3>1, ReturnAlone DEF OthersRest, Typed, AutoSummary, Asks
  <2> QED BY <2>1, <2>2
<1>8. Begins(c, q, l + 1, l + 1)
  BY <1>3, <1>7, BeginsOne
<1>9. phase[q] \notin AutoSummary
  BY <1>1 DEF AutoSummary
<1> QED BY <1>1, <1>2, <1>3, <1>4, <1>5, <1>6, <1>7, <1>8, <1>9, SpeakingSegments DEF Grown

LEMMA StartSegments ==
    ASSUME Typed, Segments, NEW c \in Conv, NEW s \in Session,
           NEW first \in {<<>>, <<By("start", "user")>>}, StartConversation(c, s, first)
    PROVE  Segments'
<1>1. /\ life[c] = "unborn" /\ life' = [life EXCEPT ![c] = "live"]
      /\ messages' = [messages EXCEPT ![c] = first]
      /\ UNCHANGED <<summaries, phase, about, seen, missed>>
  BY DEF StartConversation
<1>2. \A d \in Conv \ {c} : life'[d] = life[d] /\ messages'[d] = messages[d]
  BY <1>1 DEF Typed, ContextsTyped
<1>3. life'[c] = "live" /\ messages'[c] = first
  BY <1>1 DEF Typed, ContextsTyped
<1>4. Known'
  <2>1. \A d \in Conv : life[d] # "unborn" => life'[d] # "unborn"
    BY <1>2, <1>3
  <2> QED BY <1>1, <2>1, KnownStep DEF Segments
<1>5. Segmented(c)'
  <2>1. /\ \A q \in Call : about[q] # c
        /\ \A n \in Nat : <<c, n>> \notin missed
    BY <1>1 DEF Segments, Known
  <2>2. \A q \in Call : ~Asks(q, c)'
    BY <1>1, <2>1 DEF Asks
  <2>3. summaries'[c] = <<>>
    BY <1>1 DEF Typed, Empty, Live
  <2>4. \A n \in 1 .. Len(first) : n = 1
    <3>1. PICK m : m = By("start", "user")
      OBVIOUS
    <3>2. first = <<>> \/ first = <<m>>
      BY <3>1
    <3>3. Len(<<>>) = 0 /\ Len(<<m>>) = 1
      OBVIOUS
    <3>4. Len(first) = 0 \/ Len(first) = 1
      BY <3>2, <3>3, Zenon
    <3>5. \A k : k = 0 \/ k = 1 => \A n \in 1 .. k : n = 1
      OBVIOUS
    <3> QED BY <3>4, <3>5, Zenon
  <2>5. ~Due(1)
    BY ConstantsAssumption DEF Due
  <2>6. DOMAIN summaries'[c] = {}
    BY <2>3
  <2> QED BY <1>1, <1>3, <2>1, <2>2, <2>4, <2>5, <2>6 DEF Segmented
<1>6. ASSUME NEW d \in Conv \ {c}, Live(d)' PROVE Segmented(d)'
  <2>1. Segmented(d)
    BY <1>2, <1>6 DEF Segments, Live
  <2> QED BY <1>1, <1>2, <2>1 DEF Segmented, SettledOnce, Asks, AsksFor, WroteFor
<1> QED BY <1>4, <1>5, <1>6 DEF Segments

\* Conversations are removed, or none is: those that stay keep what they had.
LEMMA RemovalSegments ==
    ASSUME Typed, Segments, UNCHANGED <<phase, about, seen, missed>>,
           \A d \in Conv : \/ life'[d] = "gone"
                           \/ /\ life'[d] = life[d] /\ messages'[d] = messages[d]
                              /\ summaries'[d] = summaries[d]
    PROVE  Segments'
<1>1. Known'
  BY KnownStep DEF Segments
<1>2. ASSUME NEW d \in Conv, Live(d)' PROVE Segmented(d)'
  <2>1. Segmented(d) /\ messages'[d] = messages[d] /\ summaries'[d] = summaries[d]
    BY <1>2 DEF Segments, Live
  <2> QED BY <2>1 DEF Segmented, SettledOnce, Asks, AsksFor, WroteFor
<1> QED BY <1>1, <1>2 DEF Segments

LEMMA SegmentsStep ==
    ASSUME Typed, Segments, [Next]_vars
    PROVE  Segments'
<1>1. ASSUME NEW q \in Call, Proceed(q) PROVE Segments'
  BY <1>1, OutsideSegments, AnsweredSegments, AnswerFollowsSegments, SummaryEndsSegments
  DEF Proceed
<1>2. ASSUME NEW q \in Call, NEW c \in Conv \union {NoConv}, Request(q, c) PROVE Segments'
  BY <1>2, RequestSegments
<1>3. ASSUME NEW q \in Call, StreamAbandoned(q) \/ Cancelled(q) PROVE Segments'
  BY <1>3, OutsideSegments, CancelledSegments
<1>4. ASSUME NEW q \in Call, NEW c \in Conv, NEW s, UpdateState(q, c, s) PROVE Segments'
  BY <1>4, UpdateStateSegments
<1>5. ASSUME NEW q \in Call, NEW c \in Conv, Digest(q, c) PROVE Segments'
  BY <1>5, DigestSegments
<1>6. ASSUME NEW c \in Conv, NEW s \in Session,
             NEW first \in {<<>>, <<By("start", "user")>>}, StartConversation(c, s, first)
      PROVE  Segments'
  BY <1>6, StartSegments
<1>7. ASSUME NEW R, Remove(R), UNCHANGED <<phase, about, seen, missed>> PROVE Segments'
  <2>1. \A d \in Conv : \/ life'[d] = "gone"
                        \/ /\ life'[d] = life[d] /\ messages'[d] = messages[d]
                           /\ summaries'[d] = summaries[d]
    BY <1>7, RemoveTyped DEF Typed
  <2> QED BY <1>7, <2>1, RemovalSegments
<1>8. CASE Cleanup \/ Shutdown
  BY <1>7, <1>8 DEF Cleanup, Shutdown
<1>9. CASE DayPasses \/ UNCHANGED vars
  BY <1>9, RemovalSegments DEF DayPasses, vars, contexts
<1>10. ASSUME NEW q \in Call, NEW c \in Conv \union {NoConv}, Reinitialize(q, c)
       PROVE  Segments'
  BY <1>10, ReinitializeSegments
<1> QED BY <1>1, <1>2, <1>3, <1>4, <1>5, <1>6, <1>8, <1>9, <1>10 DEF Next

LEMMA InitSegments == ASSUME Init PROVE Segments
BY ConstantsAssumption DEF Init, Segments, Known, Live

\* Counting who waits and what was written.
LEMMA SettledCounts ==
    ASSUME Typed, NEW c \in Conv, NEW n \in Nat, SettledOnce(c, n)
    PROVE  \/ Cardinality(Awaited(c, n)) + Cardinality(Written(c, n)) = 1 /\ <<c, n>> \notin missed
           \/ Cardinality(Awaited(c, n)) + Cardinality(Written(c, n)) = 0 /\ <<c, n>> \in missed
<1>1. \A q : q \in Awaited(c, n) <=> q \in Call /\ AsksFor(q, c, n)
  BY DEF Awaited, AsksFor, Asks
<1>2. \A i : i \in Written(c, n) <=> i \in Nat /\ WroteFor(i, c, n)
  BY DEF Written, WroteFor, Typed, ContextsTyped
<1>3. \A x : Cardinality({x}) = 1
  BY FS_Singleton
<1>4. Cardinality({}) = 0
  BY FS_EmptySet
<1>5. CASE \E q \in Call : AsksFor(q, c, n)
  <2>1. PICK q \in Call : AsksFor(q, c, n)
    BY <1>5
  <2>2. Awaited(c, n) = {q} /\ Written(c, n) = {} /\ <<c, n>> \notin missed
    BY <1>1, <1>2, <2>1 DEF SettledOnce
  <2>3. Cardinality(Awaited(c, n)) = 1 /\ Cardinality(Written(c, n)) = 0
    BY <1>3, <1>4, <2>2, Zenon
  <2> QED BY <2>2, <2>3
<1>6. CASE \E i \in Nat : WroteFor(i, c, n)
  <2>1. PICK i \in Nat : WroteFor(i, c, n)
    BY <1>6
  <2>2. Awaited(c, n) = {} /\ Written(c, n) = {i} /\ <<c, n>> \notin missed
    BY <1>1, <1>2, <2>1 DEF SettledOnce
  <2>3. Cardinality(Awaited(c, n)) = 0 /\ Cardinality(Written(c, n)) = 1
    BY <1>3, <1>4, <2>2, Zenon
  <2> QED BY <2>2, <2>3
<1>7. CASE <<c, n>> \in missed
  <2>1. Awaited(c, n) = {} /\ Written(c, n) = {}
    BY <1>1, <1>2, <1>7 DEF SettledOnce
  <2> QED BY <1>4, <1>7, <2>1
<1> QED BY <1>5, <1>6, <1>7 DEF SettledOnce

LEMMA SegmentsAreOnce == ASSUME Typed, Segments PROVE SegmentsOnce
<1> SUFFICES ASSUME NEW c \in Conv, Live(c)
             PROVE  /\ \A n \in 1 .. Len(messages[c]) :
                          IF Due(n)
                          THEN \/ Cardinality(Awaited(c, n)) + Cardinality(Written(c, n)) = 1
                                  /\ <<c, n>> \notin missed
                               \/ Cardinality(Awaited(c, n)) + Cardinality(Written(c, n)) = 0
                                  /\ <<c, n>> \in missed
                          ELSE Awaited(c, n) \union Written(c, n) = {}
                    /\ \A i \in DOMAIN summaries[c] : summaries[c][i] <= Len(messages[c])
  BY DEF SegmentsOnce
<1>1. Segmented(c) /\ Len(messages[c]) \in Nat
  BY DEF Segments, Typed, ContextsTyped
<1>2. ASSUME NEW n \in 1 .. Len(messages[c]), Due(n)
      PROVE  \/ Cardinality(Awaited(c, n)) + Cardinality(Written(c, n)) = 1
                /\ <<c, n>> \notin missed
             \/ Cardinality(Awaited(c, n)) + Cardinality(Written(c, n)) = 0
                /\ <<c, n>> \in missed
  BY <1>1, <1>2, SettledCounts DEF Segmented
<1>3. ASSUME NEW n \in 1 .. Len(messages[c]), ~Due(n)
      PROVE  Awaited(c, n) \union Written(c, n) = {}
  BY <1>1, <1>3 DEF Segmented, Awaited, Written, Asks
<1>4. \A i \in DOMAIN summaries[c] : summaries[c][i] <= Len(messages[c])
  BY <1>1 DEF Segmented
<1> QED BY <1>2, <1>3, <1>4

\* Every Threshold messages are summarised once: the summary is written, or one call
\* waits for it, or it was missed, for the model failed or that call was cancelled, whatever
\* else goes on meanwhile.
THEOREM SegmentsSummarisedOnce == Spec => []SegmentsOnce
BY AlwaysTyped, InitSegments, SegmentsStep, SegmentsAreOnce, PTL DEF Spec

-----------------------------------------------------------------------------
(* Exchanges.                                                                *)

\* The phases in which a call has added a message of the given role.
Spoken ==
    [user |-> {"afterUser", "afterAnswer", "done"},
     assistant |-> {"afterAnswer", "done"},
     system |-> {"afterSystem", "done"}]

\* What messages[c][i] shows of the call that added it.
Voiced(c, i) ==
    LET m == messages[c][i] IN
    /\ m.by = "start" => m.role = "user"
    /\ m.by # "start" =>
          /\ about[m.by] = c
          /\ phase[m.by] \in Spoken[m.role]
          /\ \A j \in DOMAIN messages[c] : messages[c][j] = m => i = j
          /\ m.role = "assistant" => \E j \in 1 .. i - 1 : messages[c][j] = By(m.by, "user")
          /\ m.role = "user" => \/ Said(c, m.by, "assistant")
                                \/ phase[m.by] = "afterUser"
                                \/ phase[m.by] = "done" /\ outcome[m.by] = "cancelled"

\* A call between question and answer: its conversation was just used and holds the
\* question, or a shutdown took it.
MidExchange(q) ==
    phase[q] = "afterUser" =>
        /\ Live(about[q]) => about[q] \notin old /\ Said(about[q], q, "user")
        /\ ~Live(about[q]) => shutdowns > 0

Exchanges ==
    /\ \A c \in Conv : \A i \in DOMAIN messages[c] : Voiced(c, i)
    /\ \A q \in Call : MidExchange(q)
    /\ \A q \in Call : outcome[q] = "half" => shutdowns > 0

Roles == {"user", "assistant", "system"}
Speaking == {"afterUser", "afterAnswer", "afterSystem", "done"}

LEMMA SpokenRoles ==
    ASSUME NEW role \in Roles
    PROVE  Spoken[role] \subseteq Speaking
BY DEF Spoken, Roles, Speaking

\* A message has a speaker and a role.
LEMMA MessageParts ==
    ASSUME Typed, NEW c \in Conv, NEW i \in DOMAIN messages[c]
    PROVE  /\ messages[c][i].by \in Call \union {"start"}
           /\ messages[c][i].role \in Roles
           /\ messages[c][i] = By(messages[c][i].by, messages[c][i].role)
<1>1. messages[c][i] \in Message
  BY DEF Typed, ContextsTyped
<1> QED BY <1>1 DEF Message, Roles, By

LEMMA ByParts ==
    ASSUME NEW q, NEW role
    PROVE  By(q, role).by = q /\ By(q, role).role = role
BY DEF By

\* A call that has not begun to speak, or speaks elsewhere, said nothing here.
LEMMA SaidNothing ==
    ASSUME Typed, NEW c \in Conv, \A i \in DOMAIN messages[c] : Voiced(c, i),
           NEW q \in Call, phase[q] \notin Speaking \/ about[q] # c
    PROVE  \A i \in DOMAIN messages[c] : messages[c][i].by # q
<1> SUFFICES ASSUME NEW i \in DOMAIN messages[c], messages[c][i].by = q
             PROVE  FALSE
  OBVIOUS
<1>1. messages[c][i].role \in Roles /\ q # "start"
  BY MessageParts, ConstantsAssumption
<1> QED BY <1>1, SpokenRoles DEF Voiced

\* What is said stays as it was while the speakers go on, or end.
LEMMA VoicesKept ==
    ASSUME Typed, NEW c \in Conv, \A i \in DOMAIN messages[c] : Voiced(c, i),
           messages'[c] = messages[c],
           \A r \in Call :
               \/ about'[r] = about[r] /\ phase'[r] = phase[r] /\ outcome'[r] = outcome[r]
               \/ /\ about'[r] = about[r] /\ phase'[r] = "done"
                  /\ phase[r] \in {"afterAnswer", "afterSystem"} \/ outcome'[r] = "cancelled"
               \/ phase[r] \notin Speaking \/ about[r] # c
    PROVE  \A i \in DOMAIN messages'[c] : Voiced(c, i)'
<1> SUFFICES ASSUME NEW i \in DOMAIN messages[c]
             PROVE  Voiced(c, i)'
  OBVIOUS
<1>1. PICK m : m = messages[c][i]
  OBVIOUS
<1>2. m.by \in Call \union {"start"} /\ m.role \in Roles
  BY <1>1, MessageParts
<1>3. CASE m.by = "start"
  BY <1>1, <1>3 DEF Voiced
<1>4. CASE m.by # "start"
  <2>1. m.by \in Call /\ phase[m.by] \in Speaking /\ about[m.by] = c
    BY <1>1, <1>2, <1>4, SpokenRoles DEF Voiced
  <2>2. /\ about'[m.by] = about[m.by]
        /\ \/ phase'[m.by] = phase[m.by] /\ outcome'[m.by] = outcome[m.by]
           \/ /\ phase'[m.by] = "done"
              /\ phase[m.by] \in {"afterAnswer", "afterSystem"} \/ outcome'[m.by] = "cancelled"
    BY <2>1
  <2>3. phase[m.by] \in Spoken[m.role] => phase'[m.by] \in Spoken[m.role]
    BY <1>2, <2>2 DEF Spoken, Roles
  <2>4. \/ phase[m.by] = "afterUser"
        \/ phase[m.by] = "done" /\ outcome[m.by] = "cancelled"
        => \/ phase'[m.by] = "afterUser"
           \/ phase'[m.by] = "done" /\ outcome'[m.by] = "cancelled"
    BY <2>2
  <2>5. \A q, role : Said(c, q, role)' <=> Said(c, q, role)
    BY DEF Said
  <2> QED BY <1>1, <1>4, <2>2, <2>3, <2>4, <2>5 DEF Voiced
<1> QED BY <1>3, <1>4

\* What was said was said.
LEMMA GrownSaid ==
    ASSUME NEW c, NEW k \in {1, 2}, Grown(c, k)
    PROVE  \A r, role : Said(c, r, role) => Said(c, r, role)'
<1>1. PICK l : l = Len(messages[c])
  OBVIOUS
<1>2. /\ l \in Nat /\ DOMAIN messages[c] = 1 .. l /\ DOMAIN messages'[c] = 1 .. l + k
      /\ \A i \in 1 .. l : messages'[c][i] = messages[c][i]
  BY <1>1 DEF Grown
<1>3. \A j \in 1 .. l : j \in 1 .. l + k
  BY <1>2
<1> QED BY <1>2, <1>3 DEF Said

\* The same with messages added by a call that had said nothing.
LEMMA VoicesBefore ==
    ASSUME Typed, NEW c \in Conv, \A i \in DOMAIN messages[c] : Voiced(c, i),
           NEW k \in {1, 2}, Grown(c, k), NEW q \in Call, OthersRest(q),
           phase[q] \notin Speaking,
           \A i \in Len(messages[c]) + 1 .. Len(messages[c]) + k : messages'[c][i].by = q
    PROVE  \A i \in 1 .. Len(messages[c]) : Voiced(c, i)'
<1>1. PICK l : l = Len(messages[c])
  OBVIOUS
<1>2. /\ l \in Nat /\ DOMAIN messages[c] = 1 .. l /\ DOMAIN messages'[c] = 1 .. l + k
      /\ \A i \in 1 .. l : messages'[c][i] = messages[c][i]
  BY <1>1 DEF Grown
<1> SUFFICES ASSUME NEW i \in 1 .. l
             PROVE  Voiced(c, i)'
  BY <1>1
<1>3. PICK m : m = messages[c][i] /\ m = messages'[c][i]
  BY <1>2
<1>4. m.by \in Call \union {"start"} /\ m.by # q
  BY <1>2, <1>3, MessageParts, SaidNothing
<1>5. CASE m.by = "start"
  BY <1>2, <1>3, <1>5 DEF Voiced
<1>6. CASE m.by # "start"
  <2>1. /\ about'[m.by] = about[m.by] /\ phase'[m.by] = phase[m.by]
        /\ outcome'[m.by] = outcome[m.by]
    BY <1>4, <1>6 DEF OthersRest
  <2>2. \A j \in 1 .. l + k : messages'[c][j] = m => j \in 1 .. l /\ messages[c][j] = m
    <3>1. \A j \in 1 .. l + k : j \in 1 .. l \/ j \in l + 1 .. l + k
      BY <1>2
    <3> QED BY <1>1, <1>2, <1>4, <3>1
  <2>3. \A j \in 1 .. i - 1 : messages'[c][j] = messages[c][j]
    BY <1>2
  <2>4. \A r, role : Said(c, r, role) => Said(c, r, role)'
    BY GrownSaid
  <2>5. Voiced(c, i) /\ i \in 1 .. l + k
    BY <1>2
  <2>6. m.role = "assistant" => \E j \in 1 .. i - 1 : messages'[c][j] = By(m.by, "user")
    BY <1>3, <1>6, <2>3, <2>5 DEF Voiced
  <2>7. m.role = "user" => \/ Said(c, m.by, "assistant")'
                           \/ phase'[m.by] = "afterUser"
                           \/ phase'[m.by] = "done" /\ outcome'[m.by] = "cancelled"
    BY <1>3, <1>6, <2>1, <2>4, <2>5 DEF Voiced
  <2>8. \A j \in 1 .. l + k : messages'[c][j] = m => i = j
    BY <1>2, <1>3, <1>6, <2>2, <2>5 DEF Voiced
  <2>9. about'[m.by] = c /\ phase'[m.by] \in Spoken[m.role]
    BY <1>3, <1>6, <2>1, <2>5 DEF Voiced
  <2> QED BY <1>2, <1>3, <1>6, <2>6, <2>7, <2>8, <2>9 DEF Voiced
<1> QED BY <1>5, <1>6

\* One message by a call that had said nothing: a question or what tells of a new state.
LEMMA FirstWords ==
    ASSUME Typed, NEW c \in Conv, \A i \in DOMAIN messages[c] : Voiced(c, i),
           NEW q \in Call, NEW role \in {"user", "system"}, Grown(c, 1), OthersRest(q),
           messages'[c][Len(messages[c]) + 1] = By(q, role),
           phase[q] \notin Speaking, about'[q] = c, phase'[q] \in Spoken[role],
           role = "user" => phase'[q] = "afterUser"
    PROVE  \A i \in DOMAIN messages'[c] : Voiced(c, i)'
<1>1. PICK l : l = Len(messages[c])
  OBVIOUS
<1>2. /\ l \in Nat /\ DOMAIN messages[c] = 1 .. l /\ DOMAIN messages'[c] = 1 .. l + 1
      /\ \A i \in 1 .. l : messages'[c][i] = messages[c][i]
  BY <1>1 DEF Grown
<1>3. PICK m : m = By(q, role)
  OBVIOUS
<1>4. m.by = q /\ m.role = role /\ q # "start" /\ messages'[c][l + 1] = m
  BY <1>1, <1>3, ByParts, ConstantsAssumption
<1>5. \A i \in 1 .. l : Voiced(c, i)'
  <2>1. \A i \in l + 1 .. l + 1 : messages'[c][i].by = q
    BY <1>2, <1>4
  <2> QED BY <1>1, <2>1, VoicesBefore
<1>6. Voiced(c, l + 1)'
  <2>1. \A j \in 1 .. l : messages'[c][j] # m
    <3>1. \A j \in 1 .. l : messages[c][j].by # q
      BY <1>2, SaidNothing
    <3> QED BY <1>2, <1>4, <3>1
  <2>2. \A j \in 1 .. l + 1 : j \in 1 .. l \/ j = l + 1
    BY <1>2
  <2>3. \A j \in DOMAIN messages'[c] : messages'[c][j] = m => l + 1 = j
    BY <1>2, <2>1, <2>2
  <2> QED BY <1>4, <2>3 DEF Voiced
<1>7. \A i \in 1 .. l + 1 : i \in 1 .. l \/ i = l + 1
  BY <1>2
<1> QED BY <1>2, <1>5, <1>6, <1>7

\* Question and answer at once.
LEMMA WholeExchange ==
    ASSUME Typed, NEW c \in Conv, \A i \in DOMAIN messages[c] : Voiced(c, i),
           NEW q \in Call, Grown(c, 2), OthersRest(q),
           messages'[c][Len(messages[c]) + 1] = By(q, "user"),
           messages'[c][Len(messages[c]) + 2] = By(q, "assistant"),
           phase[q] \notin Speaking, about'[q] = c, phase'[q] \in {"afterAnswer", "done"}
    PROVE  \A i \in DOMAIN messages'[c] : Voiced(c, i)'
<1>1. PICK l : l = Len(messages[c])
  OBVIOUS
<1>2. /\ l \in Nat /\ DOMAIN messages[c] = 1 .. l /\ DOMAIN messages'[c] = 1 .. l + 2
      /\ \A i \in 1 .. l : messages'[c][i] = messages[c][i]
  BY <1>1 DEF Grown
<1>3. PICK m, n : m = By(q, "user") /\ n = By(q, "assistant")
  OBVIOUS
<1>4. /\ m.by = q /\ m.role = "user" /\ n.by = q /\ n.role = "assistant" /\ m # n
      /\ q # "start"
      /\ messages'[c][l + 1] = m /\ messages'[c][l + 2] = n
  BY <1>1, <1>3, ByParts, ConstantsAssumption
<1>5. \A i \in 1 .. l + 2 : i \in 1 .. l \/ i = l + 1 \/ i = l + 2
  BY <1>2
<1>6. \A i \in 1 .. l : Voiced(c, i)'
  <2>1. \A i \in l + 1 .. l + 2 : i = l + 1 \/ i = l + 2
    BY <1>2
  <2>2. \A i \in l + 1 .. l + 2 : messages'[c][i].by = q
    BY <1>4, <2>1
  <2> QED BY <1>1, <2>2, VoicesBefore
<1>7. \A j \in 1 .. l : messages'[c][j] # m /\ messages'[c][j] # n
  BY <1>2, <1>4, SaidNothing
<1>8. phase'[q] \in Spoken["user"] /\ phase'[q] \in Spoken["assistant"]
  BY DEF Spoken
<1>9. l + 1 \in DOMAIN messages'[c] /\ l + 2 \in DOMAIN messages'[c] /\ l + 1 \in 1 .. (l + 2) - 1
  BY <1>2
<1>10. Voiced(c, l + 1)'
  <2>1. \A j \in DOMAIN messages'[c] : messages'[c][j] = m => l + 1 = j
    BY <1>2, <1>4, <1>5, <1>7
  <2>2. Said(c, q, "assistant")'
    BY <1>3, <1>4, <1>9 DEF Said
  <2> QED BY <1>4, <1>8, <2>1, <2>2 DEF Voiced
<1>11. Voiced(c, l + 2)'
  <2>1. \A j \in DOMAIN messages'[c] : messages'[c][j] = n => l + 2 = j
    BY <1>2, <1>4, <1>5, <1>7
  <2>2. \E j \in 1 .. (l + 2) - 1 : messages'[c][j] = By(q, "user")
    BY <1>3, <1>4, <1>9
  <2> QED BY <1>4, <1>8, <2>1, <2>2 DEF Voiced
<1> QED BY <1>2, <1>5, <1>6, <1>10, <1>11

\* The answer to a question that was asked before a summary.
LEMMA LastWords ==
    ASSUME Typed, NEW c \in Conv, \A i \in DOMAIN messages[c] : Voiced(c, i),
           NEW q \in Call, Grown(c, 1), OthersRest(q),
           messages'[c][Len(messages[c]) + 1] = By(q, "assistant"),
           phase[q] = "afterUser", about'[q] = about[q], about[q] = c, Said(c, q, "user"),
           phase'[q] \in {"afterAnswer", "done"}
    PROVE  \A i \in DOMAIN messages'[c] : Voiced(c, i)'
<1>1. PICK l : l = Len(messages[c])
  OBVIOUS
<1>2. /\ l \in Nat /\ DOMAIN messages[c] = 1 .. l /\ DOMAIN messages'[c] = 1 .. l + 1
      /\ \A i \in 1 .. l : messages'[c][i] = messages[c][i]
  BY <1>1 DEF Grown
<1>3. PICK n : n = By(q, "assistant")
  OBVIOUS
<1>4. n.by = q /\ n.role = "assistant" /\ q # "start" /\ messages'[c][l + 1] = n
  BY <1>1, <1>3, ByParts, ConstantsAssumption
<1>5. \A i \in 1 .. l + 1 : i \in 1 .. l \/ i = l + 1
  BY <1>2
<1>6. l + 1 \in DOMAIN messages'[c] /\ \A i \in 1 .. l : i \in DOMAIN messages'[c]
  BY <1>2
<1>7. Said(c, q, "assistant")'
  BY <1>3, <1>4, <1>6 DEF Said
<1>8. \A i \in 1 .. l : messages[c][i].by = q => messages[c][i].role = "user"
  <2> SUFFICES ASSUME NEW i \in 1 .. l, messages[c][i].by = q
               PROVE  messages[c][i].role = "user"
    OBVIOUS
  <2>1. messages[c][i].role \in Roles /\ "afterUser" \in Spoken[messages[c][i].role]
    BY <1>2, <1>4, MessageParts DEF Voiced
  <2> QED BY <2>1 DEF Roles, Spoken
<1>9. ASSUME NEW i \in 1 .. l PROVE Voiced(c, i)'
  <2>1. PICK m : m = messages[c][i] /\ m = messages'[c][i]
    BY <1>2
  <2>2. m.by \in Call \union {"start"} /\ m.role \in Roles /\ Voiced(c, i)
    BY <1>2, <2>1, MessageParts
  <2>3. \A j \in 1 .. i - 1 : messages'[c][j] = messages[c][j]
    BY <1>2
  <2>4. CASE m.by = "start"
    BY <2>1, <2>2, <2>4 DEF Voiced
  <2>5. CASE m.by = q
    <3>1. m.role = "user" /\ m # n
      BY <1>4, <1>8, <2>1, <2>5
    <3>2. \A j \in DOMAIN messages'[c] : messages'[c][j] = m => i = j
      BY <1>2, <1>4, <1>5, <2>1, <2>2, <2>5, <3>1 DEF Voiced
    <3>3. phase'[q] \in Spoken["user"]
      BY DEF Spoken
    <3> QED BY <1>4, <1>7, <2>1, <2>5, <3>1, <3>2, <3>3 DEF Voiced
  <2>6. CASE m.by \notin {"start", q}
    <3>1. /\ about'[m.by] = about[m.by] /\ phase'[m.by] = phase[m.by]
          /\ outcome'[m.by] = outcome[m.by]
      BY <2>2, <2>6 DEF OthersRest
    <3>2. \A j \in DOMAIN messages'[c] : messages'[c][j] = m => i = j
      BY <1>2, <1>4, <1>5, <2>1, <2>2, <2>6 DEF Voiced
    <3>3. \A r, role : Said(c, r, role) => Said(c, r, role)'
      BY GrownSaid
    <3> QED BY <1>2, <2>1, <2>2, <2>3, <2>6, <3>1, <3>2, <3>3 DEF Voiced
  <2> QED BY <2>2, <2>4, <2>5, <2>6
<1>10. Voiced(c, l + 1)'
  <2>1. \A j \in 1 .. l : messages'[c][j] # n
    BY <1>2, <1>4, <1>8
  <2>2. \A j \in DOMAIN messages'[c] : messages'[c][j] = n => l + 1 = j
    BY <1>2, <1>5, <2>1
  <2>3. \E j \in 1 .. (l + 1) - 1 : messages'[c][j] = By(q, "user")
    <3>1. PICK j \in 1 .. l : messages[c][j] = By(q, "user")
      BY <1>2 DEF Said
    <3>2. j \in 1 .. (l + 1) - 1
      BY <1>2
    <3> QED BY <1>2, <3>1, <3>2
  <2>4. phase'[q] \in Spoken["assistant"] /\ about'[q] = c
    BY DEF Spoken
  <2> QED BY <1>4, <2>2, <2>3, <2>4 DEF Voiced
<1> QED BY <1>2, <1>5, <1>9, <1>10

\* The calls that do not move, while no conversation comes or goes.
LEMMA OthersExchange ==
    ASSUME Exchanges, NEW q \in Call, OthersRest(q), UNCHANGED <<life, shutdowns>>, old' \subseteq old,
           \A d \in Conv : \A r, role : Said(d, r, role) => Said(d, r, role)'
    PROVE  \A r \in Call \ {q} :
               MidExchange(r)' /\ (outcome'[r] = "half" => shutdowns' > 0)
<1> SUFFICES ASSUME NEW r \in Call \ {q}
             PROVE  MidExchange(r)' /\ (outcome'[r] = "half" => shutdowns' > 0)
  OBVIOUS
<1>1. PICK d : d = about[r] /\ d = about'[r]
  BY DEF OthersRest
<1>2. phase'[r] = phase[r] /\ outcome'[r] = outcome[r]
  BY DEF OthersRest
<1>3. Live(d)' <=> Live(d)
  BY DEF Live
<1>4. Live(d) => d \in Conv
  BY DEF Live
<1>5. MidExchange(r)
  BY DEF Exchanges
<1> QED BY <1>1, <1>2, <1>3, <1>4, <1>5 DEF MidExchange, Exchanges

\* Call q moves and says nothing.
LEMMA SilentStep ==
    ASSUME Typed, Exchanges, NEW q \in Call, OthersRest(q),
           UNCHANGED <<life, messages, old, shutdowns>>,
           \/ phase[q] \notin Speaking
           \/ /\ phase[q] \in {"afterAnswer", "afterSystem"} \/ outcome'[q] = "cancelled"
              /\ phase'[q] = "done" /\ about'[q] = about[q],
           phase'[q] # "afterUser", outcome'[q] = "half" => shutdowns > 0
    PROVE  Exchanges'
<1>1. ASSUME NEW d \in Conv, NEW i \in DOMAIN messages'[d] PROVE Voiced(d, i)'
  BY <1>1, VoicesKept DEF Exchanges, OthersRest
<1>2. \A d \in Conv : \A r, role : Said(d, r, role) => Said(d, r, role)'
  BY DEF Said
<1>3. MidExchange(q)'
  BY DEF MidExchange
<1> QED BY <1>1, <1>2, <1>3, OthersExchange DEF Exchanges

LEMMA RequestExchanges ==
    ASSUME Typed, Exchanges, NEW q \in Call, NEW c \in Conv \union {NoConv}, Request(q, c)
    PROVE  Exchanges'
<1>1. /\ phase[q] = "none" /\ about' = [about EXCEPT ![q] = c]
      /\ UNCHANGED <<life, messages, old, shutdowns>>
  BY DEF Request, contexts
<1>2. \A r \in Call \ {q} : about'[r] = about[r]
  BY <1>1 DEF Typed, CallsTyped
<1>3. outcome[q] # "half" \/ shutdowns > 0
  BY DEF Exchanges
<1>4. OthersRest(q) /\ phase'[q] # "afterUser" /\ (outcome'[q] = "half" => outcome[q] = "half")
  <2>1. CASE Await(q, "generating", 0) \/ Await(q, "warming", 0)
    BY <1>2, <2>1, AwaitAlone DEF OthersRest, Typed, Waits
  <2>2. CASE Return(q, "failed")
    BY <1>2, <2>2, ReturnAlone DEF OthersRest, Typed
  <2>3. CASE UNCHANGED <<phase, seen, outcome>>
    BY <1>1, <1>2, <2>3 DEF OthersRest
  <2> QED BY <2>1, <2>2, <2>3 DEF Request
<1> QED BY <1>1, <1>3, <1>4, SilentStep DEF Speaking

LEMMA DigestExchanges ==
    ASSUME Typed, Exchanges, NEW q \in Call, NEW c \in Conv, Digest(q, c)
    PROVE  Exchanges'
<1>1. /\ phase[q] = "none" /\ about' = [about EXCEPT ![q] = c]
      /\ UNCHANGED <<life, messages, old, shutdowns>>
  BY DEF Digest, contexts
<1>2. \A r \in Call \ {q} : about'[r] = about[r]
  BY <1>1 DEF Typed, CallsTyped
<1>3. Len(messages[c]) \in Nat
  BY DEF Typed, ContextsTyped
<1>4. OthersRest(q) /\ phase'[q] # "afterUser" /\ outcome'[q] = outcome[q]
  BY <1>2, <1>3, AwaitAlone DEF OthersRest, Typed, Waits, Digest
<1>5. outcome[q] = "half" => shutdowns > 0
  BY DEF Exchanges
<1> QED BY <1>1, <1>4, <1>5, SilentStep DEF Speaking

LEMMA OutsideExchanges ==
    ASSUME Typed, Exchanges, NEW q \in Call,
           Warmed(q) \/ GenerationFails(q) \/ StreamAbandoned(q) \/ Digested(q)
    PROVE  Exchanges'
<1>1. /\ phase[q] \notin Speaking
      /\ UNCHANGED <<life, messages, old, about, shutdowns>>
  BY DEF Warmed, GenerationFails, StreamAbandoned, Digested, contexts, Speaking
<1>2. outcome[q] = "half" => shutdowns > 0
  BY DEF Exchanges
<1>3. CASE Await(q, "generating", 0)
  <2>1. OthersRest(q) /\ phase'[q] # "afterUser" /\ outcome'[q] = outcome[q]
    BY <1>1, <1>3, AwaitAlone DEF OthersRest, Typed, Waits
  <2> QED BY <1>1, <1>2, <2>1, SilentStep
<1>4. ASSUME NEW o, o # "half", Return(q, o) PROVE Exchanges'
  <2>1. OthersRest(q) /\ phase'[q] # "afterUser" /\ outcome'[q] # "half"
    BY <1>1, <1>4, ReturnAlone DEF OthersRest, Typed
  <2> QED BY <1>1, <2>1, SilentStep
<1> QED BY <1>3, <1>4 DEF Warmed, GenerationFails, StreamAbandoned, Digested

LEMMA SummaryEndsExchanges ==
    ASSUME Typed, Exchanges, NEW q \in Call, SummaryEnds(q)
    PROVE  Exchanges'
<1>1. /\ phase[q] \in {"afterAnswer", "afterSystem"} /\ Return(q, "recorded")
      /\ UNCHANGED <<life, messages, old, about, shutdowns>>
  BY DEF SummaryEnds
<1>2. OthersRest(q) /\ phase'[q] = "done" /\ outcome'[q] # "half"
  BY <1>1, ReturnAlone DEF OthersRest, Typed
<1> QED BY <1>1, <1>2, SilentStep

LEMMA CancelledExchanges ==
    ASSUME Typed, Exchanges, NEW q \in Call, Cancelled(q)
    PROVE  Exchanges'
<1>1. Return(q, "cancelled") /\ UNCHANGED <<life, messages, old, about, shutdowns>>
  BY DEF Cancelled, contexts
<1>2. OthersRest(q) /\ phase'[q] = "done" /\ outcome'[q] = "cancelled"
  BY <1>1, ReturnAlone DEF OthersRest, Typed
<1> QED BY <1>1, <1>2, SilentStep

\* Call q adds to its conversation c, and c is what it says.
LEMMA SpeakingStep ==
    ASSUME Typed, Exchanges, NEW q \in Call, OthersRest(q), NEW c \in Conv, NEW k \in {1, 2},
           UNCHANGED <<life, shutdowns>>, old' \subseteq old, Grown(c, k),
           phase[q] \notin Speaking \/ about[q] = c,
           \A i \in DOMAIN messages'[c] : Voiced(c, i)',
           MidExchange(q)', outcome'[q] = "half" => shutdowns > 0
    PROVE  Exchanges'
<1>1. ASSUME NEW d \in Conv \ {c}, NEW i \in DOMAIN messages'[d] PROVE Voiced(d, i)'
  <2>1. messages'[d] = messages[d]
    BY DEF Grown
  <2> QED BY <1>1, <2>1, VoicesKept DEF Exchanges, OthersRest
<1>2. \A d \in Conv : \A r, role : Said(d, r, role) => Said(d, r, role)'
  <2>1. \A d \in Conv \ {c} : messages'[d] = messages[d]
    BY DEF Grown
  <2>2. \A r, role : Said(c, r, role) => Said(c, r, role)'
    BY GrownSaid
  <2> QED BY <2>1, <2>2 DEF Said
<1> QED BY <1>1, <1>2, OthersExchange DEF Exchanges

LEMMA AnsweredExchanges ==
    ASSUME Typed, Exchanges, NEW q \in Call, Answered(q)
    PROVE  Exchanges'
<1>1. phase[q] = "generating" /\ UNCHANGED <<about, shutdowns>>
  BY DEF Answered
<1>2. PICK c : c = about[q]
  OBVIOUS
<1>3. PICK l : l = Len(messages[c])
  OBVIOUS
<1>4. By(q, "user") \in Message /\ By(q, "assistant") \in Message
  BY SpokenTyped
<1>5. phase[q] \notin Speaking /\ (outcome[q] = "half" => shutdowns > 0)
  BY <1>1 DEF Speaking, Exchanges
<1>6. CASE ~Live(c)
  <2>1. Return(q, "unrecorded") /\ UNCHANGED <<life, messages, old>>
    BY <1>2, <1>6 DEF Answered
  <2>2. OthersRest(q) /\ phase'[q] # "afterUser" /\ outcome'[q] # "half"
    BY <1>1, <2>1, ReturnAlone DEF OthersRest, Typed
  <2> QED BY <1>1, <1>5, <2>1, <2>2, SilentStep
<1>7. CASE Live(c)
  <2>1. c \in Conv /\ l \in Nat /\ about'[q] = c /\ \A i \in DOMAIN messages[c] : Voiced(c, i)
    BY <1>1, <1>2, <1>3, <1>7 DEF Live, Typed, ContextsTyped, Exchanges
  <2>2. CASE Record(c, <<By(q, "user")>>, "WAITING_SYSTEM") /\ Await(q, "afterUser", l + 1)
    <3>1. Grown(c, 1) /\ messages'[c][l + 1] = By(q, "user")
      BY <1>3, <1>4, <2>1, <2>2, RecordOne DEF Typed
    <3>2. UNCHANGED life /\ old' \subseteq old /\ c \notin old'
      BY <2>2 DEF Record
    <3>3. OthersRest(q) /\ phase'[q] = "afterUser" /\ outcome'[q] = outcome[q]
      BY <1>1, <2>1, <2>2, AwaitAlone DEF OthersRest, Typed, Waits
    <3>4. "afterUser" \in Spoken["user"]
      BY DEF Spoken
    <3>5. \A i \in DOMAIN messages'[c] : Voiced(c, i)'
      BY <1>3, <1>5, <2>1, <3>1, <3>3, <3>4, FirstWords
    <3>6. Said(c, q, "user")'
      <4>1. l + 1 \in DOMAIN messages'[c]
        BY <1>3, <2>1, <3>1 DEF Grown
      <4> QED BY <3>1, <4>1 DEF Said
    <3>7. MidExchange(q)'
      <4>1. Live(c)'
        BY <1>7, <3>2 DEF Live
      <4> QED BY <2>1, <3>2, <3>6, <4>1 DEF MidExchange
    <3> QED BY <1>1, <1>5, <2>1, <3>1, <3>2, <3>3, <3>5, <3>7, SpeakingStep
  <2>3. CASE /\ Record(c, <<By(q, "user"), By(q, "assistant")>>, "WAITING_USER")
             /\ Await(q, "afterAnswer", l + 2) \/ Return(q, "recorded")
    <3>1. Grown(c, 2) /\ messages'[c][l + 1] = By(q, "user") /\ messages'[c][l + 2] = By(q, "assistant")
      BY <1>3, <1>4, <2>1, <2>3, RecordTwo DEF Typed
    <3>2. UNCHANGED life /\ old' \subseteq old
      BY <2>3 DEF Record
    <3>3. /\ OthersRest(q) /\ phase'[q] \in {"afterAnswer", "done"}
          /\ outcome'[q] = outcome[q] \/ outcome'[q] = "recorded"
      <4>1. CASE Await(q, "afterAnswer", l + 2)
        BY <1>1, <2>1, <4>1, AwaitAlone DEF OthersRest, Typed, Waits
      <4>2. CASE Return(q, "recorded")
        BY <1>1, <4>2, ReturnAlone DEF OthersRest, Typed
      <4> QED BY <2>3, <4>1, <4>2
    <3>4. \A i \in DOMAIN messages'[c] : Voiced(c, i)'
      BY <1>3, <1>5, <2>1, <3>1, <3>3, WholeExchange
    <3>5. MidExchange(q)'
      BY <3>3 DEF MidExchange
    <3> QED BY <1>1, <1>5, <2>1, <3>1, <3>2, <3>3, <3>4, <3>5, SpeakingStep
  <2> QED BY <1>2, <1>3, <1>7, <2>2, <2>3 DEF Answered
<1> QED BY <1>6, <1>7

LEMMA AnswerFollowsExchanges ==
    ASSUME Typed, Exchanges, NEW q \in Call, AnswerFollows(q)
    PROVE  Exchanges'
<1>1. phase[q] = "afterUser" /\ UNCHANGED <<about, shutdowns>> /\ MidExchange(q)
  BY DEF AnswerFollows, Exchanges
<1>2. PICK c : c = about[q]
  OBVIOUS
<1>3. PICK l : l = Len(messages[c])
  OBVIOUS
<1>4. By(q, "assistant") \in Message
  BY SpokenTyped
<1>5. CASE ~Live(c)
  <2>1. Return(q, "half") /\ UNCHANGED <<life, messages, old>>
    BY <1>2, <1>5 DEF AnswerFollows
  <2>2. OthersRest(q) /\ phase'[q] = "done" /\ shutdowns > 0
    BY <1>1, <1>2, <1>5, <2>1, ReturnAlone DEF OthersRest, Typed, MidExchange
  <2>3. ASSUME NEW d \in Conv, NEW i \in DOMAIN messages'[d] PROVE Voiced(d, i)'
    <3>1. CASE d = c
      <4>1. messages[d] = <<>>
        BY <1>5, <3>1 DEF Typed, Empty
      <4>2. DOMAIN messages'[d] = {}
        BY <2>1, <4>1
      <4> QED BY <2>3, <4>2
    <3>2. CASE d # c
      BY <1>2, <2>1, <2>2, <2>3, <3>2, VoicesKept DEF Exchanges, OthersRest
    <3> QED BY <3>1, <3>2
  <2>4. \A d \in Conv : \A r, role : Said(d, r, role) => Said(d, r, role)'
    BY <2>1 DEF Said
  <2>5. MidExchange(q)' /\ shutdowns' > 0
    BY <1>1, <2>2 DEF MidExchange
  <2> QED BY <1>1, <2>1, <2>2, <2>3, <2>4, <2>5, OthersExchange DEF Exchanges
<1>6. CASE Live(c)
  <2>1. /\ c \in Conv /\ l \in Nat /\ about'[q] = about[q] /\ about[q] = c
        /\ Said(c, q, "user")
        /\ \A i \in DOMAIN messages[c] : Voiced(c, i)
    BY <1>1, <1>2, <1>3, <1>6 DEF Live, Typed, ContextsTyped, Exchanges, MidExchange
  <2>2. /\ Record(c, <<By(q, "assistant")>>, "WAITING_USER")
        /\ Await(q, "afterAnswer", l + 1) \/ Return(q, "recorded")
    BY <1>2, <1>3, <1>6 DEF AnswerFollows
  <2>3. Grown(c, 1) /\ messages'[c][l + 1] = By(q, "assistant")
    BY <1>3, <1>4, <2>1, <2>2, RecordOne DEF Typed
  <2>4. UNCHANGED life /\ old' \subseteq old
    BY <2>2 DEF Record
  <2>5. /\ OthersRest(q) /\ phase'[q] \in {"afterAnswer", "done"}
        /\ outcome'[q] = outcome[q] \/ outcome'[q] = "recorded"
    <3>1. CASE Await(q, "afterAnswer", l + 1)
      BY <1>1, <2>1, <3>1, AwaitAlone DEF OthersRest, Typed, Waits
    <3>2. CASE Return(q, "recorded")
      BY <1>1, <3>2, ReturnAlone DEF OthersRest, Typed
    <3> QED BY <2>2, <3>1, <3>2
  <2>6. \A i \in DOMAIN messages'[c] : Voiced(c, i)'
    BY <1>1, <1>3, <2>1, <2>3, <2>5, LastWords
  <2>7. MidExchange(q)' /\ (outcome[q] = "half" => shutdowns > 0)
    BY <2>5 DEF MidExchange, Exchanges
  <2> QED BY <1>1, <2>1, <2>3, <2>4, <2>5, <2>6, <2>7, SpeakingStep
<1> QED BY <1>5, <1>6

LEMMA UpdateStateExchanges ==
    ASSUME Typed, Exchanges, NEW q \in Call, NEW c \in Conv, NEW s, UpdateState(q, c, s)
    PROVE  Exchanges'
<1>1. /\ phase[q] = "none" /\ Live(c) /\ about' = [about EXCEPT ![q] = c]
      /\ Record(c, <<By(q, "system")>>, s)
      /\ UNCHANGED shutdowns
  BY DEF UpdateState
<1>2. PICK l : l = Len(messages[c])
  OBVIOUS
<1>3. l \in Nat /\ By(q, "system") \in Message /\ \A i \in DOMAIN messages[c] : Voiced(c, i)
  BY <1>2, SpokenTyped DEF Typed, ContextsTyped, Exchanges
<1>4. about'[q] = c /\ \A r \in Call \ {q} : about'[r] = about[r]
  BY <1>1 DEF Typed, CallsTyped
<1>5. phase[q] \notin Speaking /\ (outcome[q] = "half" => shutdowns > 0)
  BY <1>1 DEF Speaking, Exchanges
<1>6. Grown(c, 1) /\ messages'[c][l + 1] = By(q, "system")
  BY <1>1, <1>2, <1>3, RecordOne DEF Typed
<1>7. UNCHANGED life /\ old' \subseteq old
  BY <1>1 DEF Record
<1>8. /\ OthersRest(q) /\ phase'[q] \in Spoken["system"] /\ phase'[q] # "afterUser"
      /\ outcome'[q] = outcome[q] \/ outcome'[q] = "recorded"
  <2>1. CASE Await(q, "afterSystem", l + 1)
    BY <1>3, <1>4, <2>1, AwaitAlone DEF OthersRest, Typed, Waits, Spoken
  <2>2. CASE Return(q, "recorded")
    BY <1>4, <2>2, ReturnAlone DEF OthersRest, Typed, Spoken
  <2> QED BY <1>2, <2>1, <2>2 DEF UpdateState
<1>9. \A i \in DOMAIN messages'[c] : Voiced(c, i)'
  BY <1>2, <1>3, <1>4, <1>5, <1>6, <1>8, FirstWords
<1>10. MidExchange(q)'
  BY <1>8 DEF MidExchange
<1> QED BY <1>1, <1>5, <1>6, <1>7, <1>8, <1>9, <1>10, SpeakingStep

LEMMA StartExchanges ==
    ASSUME Typed, Known, Exchanges, NEW c \in Conv, NEW s \in Session,
           NEW first \in {<<>>, <<By("start", "user")>>}, StartConversation(c, s, first)
    PROVE  Exchanges'
<1>1. /\ life[c] = "unborn" /\ life' = [life EXCEPT ![c] = "live"]
      /\ messages' = [messages EXCEPT ![c] = first]
      /\ UNCHANGED <<old, phase, about, outcome, shutdowns>>
  BY DEF StartConversation
<1>2. \A d \in Conv \ {c} : life'[d] = life[d] /\ messages'[d] = messages[d]
  BY <1>1 DEF Typed, ContextsTyped
<1>3. messages'[c] = first
  BY <1>1 DEF Typed, ContextsTyped
<1>4. \A q \in Call : about[q] # c
  BY <1>1 DEF Known
<1>5. ASSUME NEW i \in DOMAIN messages'[c] PROVE Voiced(c, i)'
  <2>1. PICK m : m = By("start", "user")
    OBVIOUS
  <2>2. m.by = "start" /\ m.role = "user"
    BY <2>1, ByParts
  <2>3. CASE first = <<>>
    BY <1>3, <1>5, <2>3
  <2>4. CASE first = <<m>>
    <3>1. messages'[c][i] = m
      BY <1>3, <1>5, <2>4
    <3> QED BY <2>2, <3>1 DEF Voiced
  <2> QED BY <2>1, <2>3, <2>4
<1>6. ASSUME NEW d \in Conv \ {c}, NEW i \in DOMAIN messages'[d] PROVE Voiced(d, i)'
  BY <1>1, <1>2, <1>6, VoicesKept DEF Exchanges
<1>7. ASSUME NEW q \in Call PROVE MidExchange(q)'
  <2>1. PICK d : d = about[q] /\ d = about'[q] /\ d # c
    BY <1>1, <1>4
  <2>2. Live(d)' <=> Live(d)
    BY <1>2, <2>1 DEF Live
  <2>3. Live(d) => (Said(d, q, "user") => Said(d, q, "user")')
    BY <1>2, <2>1 DEF Live, Said
  <2> QED BY <1>1, <2>1, <2>2, <2>3 DEF MidExchange, Exchanges
<1> QED BY <1>1, <1>5, <1>6, <1>7 DEF Exchanges

\* Conversations are removed: none between a question and its answer, but by a shutdown.
LEMMA RemovalExchanges ==
    ASSUME Typed, Exchanges, NEW R, Remove(R), UNCHANGED <<phase, about, outcome>>,
           \/ R \intersect {c \in Conv : Live(c)} \subseteq old /\ UNCHANGED shutdowns
           \/ R = {c \in Conv : Live(c)} /\ shutdowns' = shutdowns + 1
    PROVE  Exchanges'
<1>1. /\ \A d \in R \intersect Conv : life'[d] = "gone" /\ messages'[d] = <<>>
      /\ \A d \in Conv \ R : life'[d] = life[d] /\ messages'[d] = messages[d]
  BY RemoveTyped DEF Typed
<1>2. old' \subseteq old /\ shutdowns \in Nat
  BY DEF Remove, Typed, ManagerTyped
<1>3. shutdowns > 0 => shutdowns' > 0
  BY <1>2
<1>4. ASSUME NEW d \in Conv, NEW i \in DOMAIN messages'[d] PROVE Voiced(d, i)'
  <2>1. d \notin R
    <3>1. DOMAIN <<>> = {}
      OBVIOUS
    <3> QED BY <1>1, <1>4, <3>1
  <2> QED BY <1>1, <1>4, <2>1, VoicesKept DEF Exchanges
<1>5. ASSUME NEW q \in Call, phase'[q] = "afterUser" PROVE MidExchange(q)'
  <2>1. PICK d : d = about[q] /\ d = about'[q]
    OBVIOUS
  <2>2. /\ phase[q] = "afterUser"
        /\ Live(d) => d \notin old /\ Said(d, q, "user")
        /\ ~Live(d) => shutdowns > 0
    BY <1>5, <2>1 DEF Exchanges, MidExchange
  <2>3. Live(d)' => Live(d) /\ d \in Conv \ R
    BY <1>1 DEF Live
  <2>4. Live(d)' => d \notin old' /\ Said(d, q, "user")'
    BY <1>1, <1>2, <2>2, <2>3 DEF Said
  <2>5. ~Live(d)' => shutdowns' > 0
    <3>1. CASE ~Live(d)
      BY <1>3, <2>2, <3>1
    <3>2. CASE shutdowns' = shutdowns + 1
      BY <1>2, <3>2
    <3>3. CASE Live(d) /\ R \intersect {c \in Conv : Live(c)} \subseteq old
      <4>1. d \in Conv \ R
        BY <2>2, <3>3 DEF Live
      <4> QED BY <1>1, <3>3, <4>1 DEF Live
    <3> QED BY <3>1, <3>2, <3>3
  <2> QED BY <2>1, <2>4, <2>5 DEF MidExchange
<1>6. \A q \in Call : outcome'[q] = "half" => shutdowns' > 0
  BY <1>3 DEF Exchanges
<1>7. \A q \in Call : MidExchange(q)'
  BY <1>5 DEF MidExchange
<1> QED BY <1>4, <1>6, <1>7 DEF Exchanges

\* A request on a live conversation has an initialised manager, until it has recorded its
\* answer: to leave that state the manager drops its conversations.
Ready ==
    \A q \in Call : phase[q] \in {"generating", "afterUser"} /\ Live(about[q]) => manager = "on"

LEMMA ReadyCall ==
    ASSUME Typed, Ready, NEW q \in Call, OthersRest(q),
           \A d \in Conv : Live(d)' => Live(d),
           manager = "on" => manager' = "on",
           \/ phase'[q] \notin {"generating", "afterUser"}
           \/ manager' = "on"
           \/ phase[q] \in {"generating", "afterUser"} /\ about'[q] = about[q]
    PROVE  Ready'
<1> SUFFICES ASSUME NEW r \in Call, phase'[r] \in {"generating", "afterUser"},
                    Live(about[r])', manager' # "on"
             PROVE  FALSE
  BY DEF Ready, Live
<1>1. phase[r] \in {"generating", "afterUser"} /\ about'[r] = about[r]
  BY DEF OthersRest
<1>2. Live(about[r])
  BY <1>1 DEF Live
<1> QED BY <1>1, <1>2 DEF Ready

LEMMA ReadyStep ==
    ASSUME Typed, Known, Ready, [Next]_vars
    PROVE  Ready'
<1>1. ASSUME NEW q \in Call, Proceed(q) \/ StreamAbandoned(q) \/ Cancelled(q) PROVE Ready'
  <2>1. UNCHANGED <<life, about>>
    BY <1>1 DEF Proceed, Warmed, GenerationFails, StreamAbandoned, Cancelled, Answered,
       AnswerFollows, SummaryEnds, Digested, Record, contexts
  <2>2. manager = "on" => manager' = "on"
    BY <1>1 DEF Proceed, Warmed, GenerationFails, StreamAbandoned, Cancelled, Answered,
       AnswerFollows, SummaryEnds, Digested
  <2>3. ASSUME NEW o, Return(q, o) PROVE OthersRest(q) /\ phase'[q] = "done"
    BY <2>1, <2>3, ReturnAlone DEF Typed, OthersRest
  <2>4. ASSUME NEW p \in Waits, NEW n \in Nat, Await(q, p, n)
        PROVE  OthersRest(q) /\ phase'[q] = p
    BY <2>1, <2>4, AwaitAlone DEF Typed, OthersRest
  <2>5. \A d \in Conv : Live(d)' => Live(d)
    BY <2>1 DEF Live
  <2>6. CASE \E o : Return(q, o)
    BY <2>2, <2>3, <2>5, <2>6, ReadyCall
  <2>7. CASE Warmed(q) /\ Await(q, "generating", 0)
    <3>1. OthersRest(q)
      BY <2>4, <2>7 DEF Waits
    <3>2. manager' = "on" \/ Return(q, "failed")
      BY <2>7 DEF Warmed
    <3> QED BY <2>2, <2>5, <2>6, <3>1, <3>2, ReadyCall
  <2>8. ASSUME Live(about[q]) PROVE Len(messages[about[q]]) \in Nat
    BY <2>8 DEF Live, Typed, ContextsTyped
  <2>9. CASE Answered(q)
    <3>1. phase[q] = "generating"
      BY <2>9 DEF Answered
    <3>2. (\E o : Return(q, o)) \/ OthersRest(q)
      BY <2>4, <2>8, <2>9 DEF Answered, Waits
    <3> QED BY <2>1, <2>2, <2>5, <2>6, <3>1, <3>2, ReadyCall
  <2>10. CASE AnswerFollows(q)
    <3>1. phase[q] = "afterUser"
      BY <2>10 DEF AnswerFollows
    <3>2. (\E o : Return(q, o)) \/ OthersRest(q)
      BY <2>4, <2>8, <2>10 DEF AnswerFollows, Waits
    <3> QED BY <2>1, <2>2, <2>5, <2>6, <3>1, <3>2, ReadyCall
  <2> QED BY <1>1, <2>6, <2>7, <2>9, <2>10 DEF Proceed, Warmed, GenerationFails,
     StreamAbandoned, Cancelled, SummaryEnds, Digested
<1>2. ASSUME NEW q \in Call, NEW c \in Conv \union {NoConv}, Request(q, c) PROVE Ready'
  <2>1. /\ phase[q] = "none" /\ about' = [about EXCEPT ![q] = c] /\ UNCHANGED life
        /\ manager = "on" => manager' = "on"
    BY <1>2 DEF Request, contexts
  <2>2. \A r \in Call \ {q} : about'[r] = about[r]
    BY <2>1 DEF Typed, CallsTyped
  <2>3. \A d \in Conv : Live(d)' => Live(d)
    BY <2>1 DEF Live
  <2>4. /\ OthersRest(q)
        /\ phase'[q] \notin {"generating", "afterUser"} \/ manager' = "on"
    <3>1. CASE Await(q, "generating", 0) /\ manager' = "on"
      BY <2>2, <3>1, AwaitAlone DEF OthersRest, Typed, Waits
    <3>2. CASE Await(q, "warming", 0)
      BY <2>2, <3>2, AwaitAlone DEF OthersRest, Typed, Waits
    <3>3. CASE Return(q, "failed")
      BY <2>2, <3>3, ReturnAlone DEF OthersRest, Typed
    <3>4. CASE UNCHANGED <<phase, seen, outcome>>
      BY <2>1, <2>2, <3>4 DEF OthersRest
    <3> QED BY <1>2, <3>1, <3>2, <3>3, <3>4 DEF Request
  <2> QED BY <2>1, <2>3, <2>4, ReadyCall
<1>3. ASSUME NEW q \in Call, NEW c \in Conv, NEW s, UpdateState(q, c, s) \/ Digest(q, c)
      PROVE  Ready'
  <2>1. /\ about' = [about EXCEPT ![q] = c] /\ UNCHANGED <<life, manager>>
        /\ Len(messages[c]) \in Nat
    BY <1>3 DEF UpdateState, Digest, Record, contexts, Typed, ContextsTyped
  <2>2. \A r \in Call \ {q} : about'[r] = about[r]
    BY <2>1 DEF Typed, CallsTyped
  <2>3. \A d \in Conv : Live(d)' => Live(d)
    BY <2>1 DEF Live
  <2>4. OthersRest(q) /\ phase'[q] \notin {"generating", "afterUser"}
    <3>1. CASE Return(q, "recorded")
      BY <2>2, <3>1, ReturnAlone DEF OthersRest, Typed
    <3>2. CASE Await(q, "afterSystem", Len(messages[c]) + 1)
      BY <2>1, <2>2, <3>2, AwaitAlone DEF OthersRest, Typed, Waits
    <3>3. CASE Await(q, "digesting", Len(messages[c]))
      BY <2>1, <2>2, <3>3, AwaitAlone DEF OthersRest, Typed, Waits
    <3> QED BY <1>3, <3>1, <3>2, <3>3 DEF UpdateState, Digest
  <2> QED BY <2>1, <2>3, <2>4, ReadyCall
<1>4. ASSUME NEW c \in Conv, NEW s, NEW first, StartConversation(c, s, first) PROVE Ready'
  <2>1. /\ life[c] = "unborn" /\ life' = [life EXCEPT ![c] = "live"]
        /\ UNCHANGED <<manager, phase, about>>
    BY <1>4 DEF StartConversation
  <2>2. \A q \in Call : about[q] # c
    BY <2>1 DEF Known
  <2>3. \A d \in Conv \ {c} : life'[d] = life[d]
    BY <2>1 DEF Typed, ContextsTyped
  <2> QED BY <2>1, <2>2, <2>3 DEF Ready, Live
<1>5. CASE Cleanup
  <2>1. \A d \in Conv : Live(d)' => Live(d)
    BY <1>5, RemoveTyped DEF Cleanup, Typed, Live
  <2> QED BY <1>5, <2>1 DEF Cleanup, Ready, Live
<1>6. CASE \/ Shutdown
           \/ \E q \in Call, c \in Conv \union {NoConv} : Reinitialize(q, c)
  <2>1. \A d \in Conv : ~Live(d)'
    BY <1>6, AllRemoved DEF Shutdown, Reinitialize
  <2> QED BY <2>1 DEF Ready, Live
<1>7. CASE DayPasses \/ UNCHANGED vars
  BY <1>7 DEF DayPasses, Ready, Live, vars, contexts
<1> QED BY <1>1, <1>2, <1>3, <1>4, <1>5, <1>6, <1>7 DEF Next

LEMMA ReinitializeExchanges ==
    ASSUME Typed, Ready, Exchanges, NEW q \in Call, NEW c \in Conv \union {NoConv},
           Reinitialize(q, c)
    PROVE  Exchanges'
<1>1. /\ manager = "stale" /\ Await(q, "warming", 0) /\ UNCHANGED shutdowns
      /\ about' = [about EXCEPT ![q] = c] /\ Remove({d \in Conv : Live(d)})
  BY DEF Reinitialize
<1>2. OthersRest(q) /\ phase'[q] = "warming" /\ outcome' = outcome
  BY <1>1, AwaitAlone DEF OthersRest, Typed, CallsTyped, Waits
<1>3. \A d \in Conv : ~Live(d)' /\ messages'[d] = <<>>
  BY <1>1, AllRemoved
<1>4. \A d \in Conv : DOMAIN messages'[d] = {}
  BY <1>3
<1>5. ASSUME NEW r \in Call, phase'[r] = "afterUser" PROVE MidExchange(r)'
  <2>1. phase[r] = "afterUser" /\ about'[r] = about[r] /\ MidExchange(r)
    BY <1>2, <1>5 DEF OthersRest, Exchanges
  <2>2. ~Live(about[r])
    BY <1>1, <2>1 DEF Ready
  <2>3. shutdowns' > 0
    BY <1>1, <2>1, <2>2 DEF MidExchange
  <2>4. ~Live(about[r])'
    BY <1>3 DEF Live
  <2> QED BY <2>3, <2>4 DEF MidExchange
<1>6. \A r \in Call : MidExchange(r)'
  BY <1>5 DEF MidExchange
<1> QED BY <1>1, <1>2, <1>4, <1>6 DEF Exchanges

LEMMA DayPassesExchanges ==
    ASSUME Typed, Exchanges, DayPasses
    PROVE  Exchanges'
<1>1. UNCHANGED <<life, messages, phase, about, outcome, shutdowns>>
  BY DEF DayPasses
<1>2. \A q \in Call : phase'[q] # "afterUser"
  BY <1>1 DEF DayPasses, Waiting, Waits
<1>3. ASSUME NEW d \in Conv, NEW i \in DOMAIN messages'[d] PROVE Voiced(d, i)'
  BY <1>1, <1>3, VoicesKept DEF Exchanges
<1> QED BY <1>1, <1>2, <1>3 DEF Exchanges, MidExchange

LEMMA StutterExchanges ==
    ASSUME Exchanges, UNCHANGED vars
    PROVE  Exchanges'
BY DEF Exchanges, Voiced, MidExchange, Said, Live, vars, contexts

LEMMA ExchangesStep ==
    ASSUME Typed, Known, Ready, Exchanges, [Next]_vars
    PROVE  Exchanges'
<1>1. ASSUME NEW q \in Call, Proceed(q) PROVE Exchanges'
  BY <1>1, OutsideExchanges, AnsweredExchanges, AnswerFollowsExchanges, SummaryEndsExchanges
  DEF Proceed
<1>2. ASSUME NEW q \in Call, NEW c \in Conv \union {NoConv}, Request(q, c) PROVE Exchanges'
  BY <1>2, RequestExchanges
<1>3. ASSUME NEW q \in Call, StreamAbandoned(q) \/ Cancelled(q) PROVE Exchanges'
  BY <1>3, OutsideExchanges, CancelledExchanges
<1>4. ASSUME NEW q \in Call, NEW c \in Conv, NEW s, UpdateState(q, c, s) PROVE Exchanges'
  BY <1>4, UpdateStateExchanges
<1>5. ASSUME NEW q \in Call, NEW c \in Conv, Digest(q, c) PROVE Exchanges'
  BY <1>5, DigestExchanges
<1>6. ASSUME NEW c \in Conv, NEW s \in Session,
             NEW first \in {<<>>, <<By("start", "user")>>}, StartConversation(c, s, first)
      PROVE  Exchanges'
  BY <1>6, StartExchanges
<1>7. CASE Cleanup
  <2>1. Cleanable \intersect {c \in Conv : Live(c)} \subseteq old
    BY DEF Cleanable
  <2> QED BY <1>7, <2>1, RemovalExchanges DEF Cleanup
<1>8. CASE Shutdown
  BY <1>8, RemovalExchanges DEF Shutdown
<1>9. ASSUME NEW q \in Call, NEW c \in Conv \union {NoConv}, Reinitialize(q, c)
      PROVE  Exchanges'
  BY <1>9, ReinitializeExchanges
<1> QED BY <1>1, <1>2, <1>3, <1>4, <1>5, <1>6, <1>7, <1>8, <1>9, DayPassesExchanges,
     StutterExchanges DEF Next

LEMMA InitExchanges == ASSUME Init PROVE Exchanges /\ Ready
BY DEF Init, Exchanges, MidExchange, Ready

LEMMA ExchangesAreWhole == ASSUME Typed, Exchanges PROVE ExchangesWhole
<1>1. ASSUME NEW c \in Conv, NEW i \in DOMAIN messages[c], NEW m, m = messages[c][i]
      PROVE  /\ \A j \in DOMAIN messages[c] : m.by # "start" /\ messages[c][j] = m => i = j
             /\ m.role = "assistant" => \E j \in 1 .. i - 1 : messages[c][j] = By(m.by, "user")
             /\ m.role = "user" /\ m.by # "start" =>
                   \/ Said(c, m.by, "assistant")
                   \/ phase[m.by] = "afterUser"
                   \/ outcome[m.by] = "cancelled"
  BY <1>1 DEF Exchanges, Voiced
<1> QED BY <1>1 DEF Exchanges, ExchangesWhole

\* A question and its answer are recorded once, in their order and both, whatever waits
\* between them and whoever else speaks or cleans up meanwhile; only a shutdown, which
\* takes the conversation, or the cancellation of the request itself drops an answer.
THEOREM ExchangesAlwaysWhole == Spec => []ExchangesWhole
<1>1. Segments => Known
  BY DEF Segments
<1> QED BY <1>1, AlwaysTyped, InitSegments, SegmentsStep, InitExchanges, ReadyStep,
     ExchangesStep, ExchangesAreWhole, PTL DEF Spec
=============================================================================

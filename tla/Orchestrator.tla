---------------------------- MODULE Orchestrator ----------------------------
(***************************************************************************)
(* ConversationOrchestrator (core/orchestrator/conversation_orchestrator): *)
(* requests are coroutines on one event loop.  An action is the code       *)
(* between two awaits.  A request waits for the lock of its conversation,  *)
(* then runs the pipeline under asyncio.timeout; with parallel processing  *)
(* the transcription, the response and the ticket are made by three tasks  *)
(* that share the response object with the request's own coroutine.        *)
(*                                                                         *)
(* Abstracted: texts, audio, confidence scores, warnings and errors, times *)
(* and the statistics that only get_metrics reads.  A lock object is named *)
(* by the request that created it.                                         *)
(***************************************************************************)
EXTENDS Naturals, FiniteSets, Sequences

CONSTANTS
    Req,        \* calls of process_conversation
    Conv,       \* conversation ids
    None,       \* no request, no lock
    Shapes,     \* the option records a request may carry
    Warm,       \* TRUE: initialize() completed before the first request
    Outside     \* the calls other code makes: subset of OutsideCalls

OutsideCalls == {"stop", "cleanup", "shutdown", "cancel"}

\* valid: some input is given and is not a many-element array; audio: it is a
\* stream; par, quality, ticket: the enable_ flags; voice: response_format.
Shape == [valid: BOOLEAN, audio: BOOLEAN, par: BOOLEAN,
          quality: BOOLEAN, ticket: BOOLEAN, voice: BOOLEAN]

ASSUME ConstantsAssumption ==
    /\ None \notin Req
    /\ Shapes \subseteq Shape
    /\ Warm \in BOOLEAN
    /\ Outside \subseteq OutsideCalls

VARIABLES
    ready,       \* is_initialized
    initBy,      \* the request inside initialize(), holding the threading.Lock
    frozen,      \* the event loop's thread is blocked on that lock
    closing,     \* a call of shutdown() is awaiting the services
    pc,          \* where each request's coroutine is suspended
    conv, shape, \* its conversation and options
    attempt,     \* retries of the STT or TTS stage so far
    resp,        \* the response object
    outcome,     \* how process_conversation returned
    sttTask, genTask, ticketTask,  \* the three tasks of the parallel pipeline
    active,      \* active_conversations: the request whose response is listed
    lockMap,     \* conversation_locks
    lockOf,      \* the lock object a request waits for or holds
    holder, waiters,      \* the state of each lock object
    metrics,     \* global_metrics: total, successful, failed
    dropped      \* history: conversations whose lock entry was ever deleted

initVars == <<ready, initBy, frozen, closing>>
taskVars == <<sttTask, genTask, ticketTask>>
lockVars == <<lockMap, lockOf, holder, waiters>>
sharedVars == <<active, lockVars, metrics, dropped>>
vars == <<initVars, pc, conv, shape, attempt, resp, outcome, taskVars, sharedVars>>

InPipeline == {"stt", "sttPause", "nlu", "gen", "quality", "ticket", "tts", "ttsPause"}
PC == InPipeline \union {"idle", "init", "lock", "done"}

Stage == {"AUDIO_INPUT", "SPEECH_TO_TEXT", "NLU_PROCESSING", "RESPONSE_GENERATION",
          "QUALITY_CHECK", "TICKET_BUILDING", "TEXT_TO_SPEECH", "COMPLETED", "FAILED"}
State == {"INITIALIZING", "LISTENING", "PROCESSING", "RESOLVED", "ERROR", "TIMEOUT"}
TicketStatus == {"pending", "created", "incomplete", "failed"}
Response == [stage: Stage, state: State, success: BOOLEAN, ticket: TicketStatus]

Outcomes == {"none", "completed", "failed", "timeout", "cancelled", "raised"}
TaskState == {"none", "created", "running", "done", "cancelled"}
MaxRetries == 2

NewResponse ==
    [stage |-> "AUDIO_INPUT", state |-> "INITIALIZING", success |-> FALSE, ticket |-> "pending"]

Init ==
    /\ ready = Warm
    /\ initBy = None
    /\ frozen = FALSE
    /\ closing = FALSE
    /\ pc = [r \in Req |-> "idle"]
    /\ conv \in [Req -> Conv]
    /\ shape \in [Req -> Shapes]
    /\ attempt = [r \in Req |-> 0]
    /\ resp = [r \in Req |-> NewResponse]
    /\ outcome = [r \in Req |-> "none"]
    /\ sttTask = [r \in Req |-> "none"]
    /\ genTask = [r \in Req |-> "none"]
    /\ ticketTask = [r \in Req |-> "none"]
    /\ active = [c \in Conv |-> None]
    /\ lockMap = [c \in Conv |-> None]
    /\ lockOf = [r \in Req |-> None]
    /\ holder = [l \in Req |-> None]
    /\ waiters = [l \in Req |-> <<>>]
    /\ metrics = [total |-> 0, successful |-> 0, failed |-> 0]
    /\ dropped = {}

-----------------------------------------------------------------------------
(* The stage that follows, and what the code writes on entering it.  The     *)
(* parallel pipeline joins a ticket task that has ended without suspending.  *)

AfterTicket(r) == IF shape[r].voice THEN "tts" ELSE "finish"

\* Mutants, named Bug..., are what the checks must be able to tell from the code.
\* Mutant: the ticket task is not joined.
BugAfterQuality(r) ==
    IF shape[r].ticket /\ ~shape[r].par THEN "ticket" ELSE AfterTicket(r)

AfterQuality(r) ==
    IF shape[r].ticket /\ (shape[r].par => ticketTask[r] # "done")
    THEN "ticket"
    ELSE AfterTicket(r)

\* Mutant: the ticket stage is skipped when there is no quality check.
BugAfterGeneration(r) == IF shape[r].quality THEN "quality" ELSE AfterTicket(r)

AfterGeneration(r) == IF shape[r].quality THEN "quality" ELSE AfterQuality(r)

\* The stage is run by a task that the coroutine awaits.
Detached(r, stage) == stage = "stt" /\ shape[r].par

Enter(r, next, rsp) ==
    CASE next = "stt"     -> IF Detached(r, "stt")
                             THEN [rsp EXCEPT !.stage = "SPEECH_TO_TEXT"]
                             ELSE [rsp EXCEPT !.stage = "SPEECH_TO_TEXT", !.state = "PROCESSING"]
      [] next = "nlu"     -> [rsp EXCEPT !.stage = "NLU_PROCESSING"]
      [] next = "gen"     -> IF shape[r].par THEN rsp
                             ELSE [rsp EXCEPT !.stage = "RESPONSE_GENERATION"]
      [] next = "quality" -> [rsp EXCEPT !.stage = "QUALITY_CHECK"]
      [] next = "ticket"  -> IF shape[r].par THEN rsp
                             ELSE [rsp EXCEPT !.stage = "TICKET_BUILDING"]
      [] next = "tts"     -> [rsp EXCEPT !.stage = "TEXT_TO_SPEECH"]
      [] next = "finish"  -> [rsp EXCEPT !.stage = "COMPLETED", !.state = "RESOLVED",
                                         !.success = TRUE]

\* Mutant: the release wakes nobody.
BugRelease(l) == holder' = [holder EXCEPT ![l] = None] /\ UNCHANGED waiters

\* asyncio.Lock.release wakes the first waiter, which then owns the lock.
Release(l) ==
    IF waiters[l] = <<>>
    THEN holder' = [holder EXCEPT ![l] = None] /\ UNCHANGED waiters
    ELSE /\ holder' = [holder EXCEPT ![l] = Head(waiters[l])]
         /\ waiters' = [waiters EXCEPT ![l] = Tail(@)]

\* Mutant: a timeout is not counted.
BugCounted(out) ==
    CASE out = "completed" -> [metrics EXCEPT !.successful = @ + 1]
      [] out = "failed"    -> [metrics EXCEPT !.failed = @ + 1]
      [] OTHER             -> metrics

Counted(out) ==
    CASE out = "completed"           -> [metrics EXCEPT !.successful = @ + 1]
      [] out \in {"failed", "timeout"} -> [metrics EXCEPT !.failed = @ + 1]
      [] OTHER                       -> metrics

\* Mutant: the entry is deleted only when the request was served.
BugLeave(r, rsp, out) ==
    /\ pc' = [pc EXCEPT ![r] = "done"]
    /\ resp' = [resp EXCEPT ![r] = rsp]
    /\ outcome' = [outcome EXCEPT ![r] = out]
    /\ metrics' = Counted(out)
    /\ active' = IF out = "completed" THEN [active EXCEPT ![conv[r]] = None] ELSE active
    /\ Release(lockOf[r])
    /\ UNCHANGED <<lockMap, lockOf, dropped>>

\* Leaving process_conversation from inside the lock, through the finally block.
Leave(r, rsp, out) ==
    /\ pc' = [pc EXCEPT ![r] = "done"]
    /\ resp' = [resp EXCEPT ![r] = rsp]
    /\ outcome' = [outcome EXCEPT ![r] = out]
    /\ metrics' = Counted(out)
    /\ active' = [active EXCEPT ![conv[r]] = None]
    /\ Release(lockOf[r])
    /\ UNCHANGED <<lockMap, lockOf, dropped>>

\* The pipeline goes on to stage next, or completes.
Proceed(r, next, rsp) ==
    IF next = "finish"
    THEN Leave(r, Enter(r, next, rsp), "completed")
    ELSE /\ pc' = [pc EXCEPT ![r] = next]
         /\ resp' = [resp EXCEPT ![r] = Enter(r, next, rsp)]
         /\ UNCHANGED <<outcome, sharedVars>>

Fail(r) ==
    Leave(r, [resp[r] EXCEPT !.stage = "FAILED", !.state = "ERROR"], "failed")

-----------------------------------------------------------------------------
(* process_conversation up to its first suspension.                          *)

FirstStage(r) == IF shape[r].audio THEN "stt" ELSE "nlu"
Listening(rsp) == [rsp EXCEPT !.state = "LISTENING"]

\* Mutant: each request makes a lock of its own.
BugLockFor(r) == r

\* The lock object the request asks for: the listed one, or a new one of its own.
LockFor(r) == IF lockMap[conv[r]] = None THEN r ELSE lockMap[conv[r]]

Track(r) ==
    /\ metrics' = [metrics EXCEPT !.total = @ + 1]
    /\ lockMap' = [lockMap EXCEPT ![conv[r]] = LockFor(r)]
    /\ lockOf' = [lockOf EXCEPT ![r] = LockFor(r)]

AdmitWaiting(r) ==
    /\ holder[LockFor(r)] # None
    /\ Track(r)
    /\ active' = [active EXCEPT ![conv[r]] = r]
    /\ waiters' = [waiters EXCEPT ![LockFor(r)] = Append(@, r)]
    /\ pc' = [pc EXCEPT ![r] = "lock"]
    /\ UNCHANGED <<holder, resp, outcome, sttTask>>

\* The parallel pipeline creates the task of the STT stage and awaits it.
StartStt(r) ==
    sttTask' = [sttTask EXCEPT ![r] = IF Detached(r, FirstStage(r)) THEN "created" ELSE @]

AdmitRunning(r) ==
    /\ holder[LockFor(r)] = None
    /\ shape[r].valid
    /\ Track(r)
    /\ active' = [active EXCEPT ![conv[r]] = r]
    /\ holder' = [holder EXCEPT ![LockFor(r)] = r]
    /\ pc' = [pc EXCEPT ![r] = FirstStage(r)]
    /\ resp' = [resp EXCEPT ![r] = Enter(r, FirstStage(r), Listening(@))]
    /\ StartStt(r)
    /\ UNCHANGED <<waiters, outcome>>

\* Lock, input stage, failure and finally block without a suspension.
AdmitRejected(r) ==
    /\ holder[LockFor(r)] = None
    /\ ~shape[r].valid
    /\ metrics' = [metrics EXCEPT !.total = @ + 1, !.failed = @ + 1]
    /\ lockMap' = [lockMap EXCEPT ![conv[r]] = LockFor(r)]
    /\ lockOf' = [lockOf EXCEPT ![r] = LockFor(r)]
    /\ active' = [active EXCEPT ![conv[r]] = None]
    /\ pc' = [pc EXCEPT ![r] = "done"]
    /\ resp' = [resp EXCEPT ![r].stage = "FAILED", ![r].state = "ERROR"]
    /\ outcome' = [outcome EXCEPT ![r] = "failed"]
    /\ UNCHANGED <<holder, waiters, sttTask>>

Admit(r) ==
    /\ AdmitWaiting(r) \/ AdmitRunning(r) \/ AdmitRejected(r)
    /\ UNCHANGED <<conv, shape, attempt, genTask, ticketTask, dropped>>

Call(r) ==
    /\ pc[r] = "idle"
    /\ ready
    /\ Admit(r)
    /\ UNCHANGED initVars

\* initialize(): "with self.initialization_lock" around awaits.
CallInitializing(r) ==
    /\ pc[r] = "idle"
    /\ ~ready
    /\ initBy = None
    /\ initBy' = r
    /\ pc' = [pc EXCEPT ![r] = "init"]
    /\ UNCHANGED <<ready, frozen, closing, conv, shape, attempt, resp, outcome, taskVars, sharedVars>>

\* A second caller blocks the thread that the first one needs to go on.
CallBlocking(r) ==
    /\ pc[r] = "idle"
    /\ ~ready
    /\ initBy # None
    /\ frozen' = TRUE
    /\ pc' = [pc EXCEPT ![r] = "init"]
    /\ UNCHANGED <<ready, initBy, closing, conv, shape, attempt, resp, outcome, taskVars, sharedVars>>

InitializeDone(r) ==
    /\ pc[r] = "init"
    /\ initBy = r
    /\ initBy' = None
    /\ ready' = TRUE
    /\ Admit(r)
    /\ UNCHANGED <<frozen, closing>>

\* An exception from initialize reaches the caller, before anything is counted.
InitializeFailed(r) ==
    /\ pc[r] = "init"
    /\ initBy = r
    /\ initBy' = None
    /\ pc' = [pc EXCEPT ![r] = "done"]
    /\ outcome' = [outcome EXCEPT ![r] = "raised"]
    /\ UNCHANGED <<ready, frozen, closing, conv, shape, attempt, resp, taskVars, sharedVars>>

\* A waiter that was handed the lock runs the input stage.
Acquire(r) ==
    /\ pc[r] = "lock"
    /\ holder[lockOf[r]] = r
    /\ IF shape[r].valid
       THEN Proceed(r, FirstStage(r), Listening(resp[r])) /\ StartStt(r)
       ELSE Fail(r) /\ UNCHANGED sttTask
    /\ UNCHANGED <<initVars, conv, shape, attempt, genTask, ticketTask>>

-----------------------------------------------------------------------------
(* The stages: the coroutine resumes with the service's answer or error.     *)

Pausing == [stt |-> "sttPause", tts |-> "ttsPause"]

\* An attempt of the stage is under way, in the coroutine or in the stage's task.
Attempting(r, stage) ==
    /\ pc[r] = stage
    /\ Detached(r, stage) => sttTask[r] = "running"

\* The stage gives an answer: on to next with no retry pending.
RetriedStageOk(r, stage, next) ==
    /\ pc[r] = stage /\ ~Detached(r, stage)
    /\ Proceed(r, next, resp[r])
    /\ attempt' = [attempt EXCEPT ![r] = 0]
    /\ UNCHANGED <<initVars, conv, shape, taskVars>>

\* Mutant: one retry too many.
BugRetriedStageEmpty(r, stage) ==
    /\ Attempting(r, stage)
    /\ attempt[r] <= MaxRetries
    /\ attempt' = [attempt EXCEPT ![r] = @ + 1]
    /\ UNCHANGED <<initVars, pc, conv, shape, resp, outcome, taskVars, sharedVars>>

\* Nothing recognised or synthesised, retries left: the next attempt starts.
RetriedStageEmpty(r, stage) ==
    /\ Attempting(r, stage)
    /\ attempt[r] < MaxRetries
    /\ attempt' = [attempt EXCEPT ![r] = @ + 1]
    /\ UNCHANGED <<initVars, pc, conv, shape, resp, outcome, taskVars, sharedVars>>

\* An exception, retries left: the next attempt starts after asyncio.sleep.
RetriedStageError(r, stage) ==
    /\ Attempting(r, stage)
    /\ attempt[r] < MaxRetries
    /\ pc' = [pc EXCEPT ![r] = Pausing[stage]]
    /\ attempt' = [attempt EXCEPT ![r] = @ + 1]
    /\ UNCHANGED <<initVars, conv, shape, resp, outcome, taskVars, sharedVars>>

\* The last attempt fails: the RETRY fallback fails the request.
RetriedStageFailed(r, stage) ==
    /\ pc[r] = stage /\ ~Detached(r, stage)
    /\ attempt[r] = MaxRetries
    /\ Fail(r)
    /\ UNCHANGED <<initVars, conv, shape, attempt, taskVars>>

PauseOver(r, stage) ==
    /\ pc[r] = Pausing[stage]
    /\ pc' = [pc EXCEPT ![r] = stage]
    /\ UNCHANGED <<initVars, conv, shape, attempt, resp, outcome, taskVars, sharedVars>>

\* A result, or the degraded one of _apply_fallback_strategy: both go on.  The
\* parallel pipeline creates its tasks before it waits for the response.
NluDone(r) ==
    /\ pc[r] = "nlu"
    /\ Proceed(r, "gen", [resp[r] EXCEPT !.stage = "RESPONSE_GENERATION"])
    /\ genTask' = [genTask EXCEPT ![r] = IF shape[r].par THEN "created" ELSE @]
    /\ ticketTask' = [ticketTask EXCEPT
                        ![r] = IF shape[r].par /\ shape[r].ticket THEN "created" ELSE @]
    /\ UNCHANGED <<initVars, conv, shape, attempt, sttTask>>

\* A response, or the fallback template.
GenerationDone(r) ==
    /\ pc[r] = "gen"
    /\ shape[r].par => genTask[r] = "done" /\ ticketTask[r] # "created"
    /\ Proceed(r, AfterGeneration(r),
               IF shape[r].par THEN resp[r] ELSE [resp[r] EXCEPT !.stage = "QUALITY_CHECK"])
    /\ UNCHANGED <<initVars, conv, shape, attempt, taskVars>>

\* Scores, or "Quality checks skipped".
QualityDone(r) ==
    /\ pc[r] = "quality"
    /\ Proceed(r, AfterQuality(r), [resp[r] EXCEPT !.stage = "TICKET_BUILDING"])
    /\ UNCHANGED <<initVars, conv, shape, attempt, taskVars>>

\* Mutant: the ticket stage also writes the conversation state.
BugWithTicket(rsp, status) ==
    [rsp EXCEPT !.stage = "TEXT_TO_SPEECH", !.state = "PROCESSING", !.ticket = status]

WithTicket(rsp, status) == [rsp EXCEPT !.stage = "TEXT_TO_SPEECH", !.ticket = status]

TicketDone(r) ==
    /\ pc[r] = "ticket"
    /\ ~shape[r].par
    /\ \E status \in TicketStatus \ {"pending"} :
           Proceed(r, AfterTicket(r), WithTicket(resp[r], status))
    /\ UNCHANGED <<initVars, conv, shape, attempt, taskVars>>

TicketJoined(r) ==
    /\ pc[r] = "ticket"
    /\ shape[r].par
    /\ ticketTask[r] = "done"
    /\ Proceed(r, AfterTicket(r), resp[r])
    /\ UNCHANGED <<initVars, conv, shape, attempt, taskVars>>

-----------------------------------------------------------------------------
(* The tasks of the parallel pipeline write into the shared response.        *)
(* The event loop starts tasks in the order they were created.               *)

Write(r, rsp) ==
    /\ resp' = [resp EXCEPT ![r] = rsp]
    /\ UNCHANGED <<initVars, pc, conv, shape, attempt, outcome, sharedVars>>

SttTaskStart(r) ==
    /\ sttTask[r] = "created"
    /\ sttTask' = [sttTask EXCEPT ![r] = "running"]
    /\ Write(r, [resp[r] EXCEPT !.stage = "SPEECH_TO_TEXT", !.state = "PROCESSING"])
    /\ UNCHANGED <<genTask, ticketTask>>

\* The task ends; its coroutine, which awaits it, is resumed by a later step.
SttTaskEnd(r, rsp) ==
    /\ Detached(r, "stt") /\ Attempting(r, "stt")
    /\ sttTask' = [sttTask EXCEPT ![r] = "done"]
    /\ Write(r, rsp)
    /\ UNCHANGED <<genTask, ticketTask>>

SttTaskOk(r) == SttTaskEnd(r, [resp[r] EXCEPT !.stage = "NLU_PROCESSING"])

\* The last attempt fails: the task writes the failure into the response.
SttTaskFailed(r) ==
    /\ attempt[r] = MaxRetries
    /\ SttTaskEnd(r, [resp[r] EXCEPT !.stage = "FAILED", !.state = "ERROR"])

SttJoined(r) ==
    /\ pc[r] = "stt"
    /\ sttTask[r] = "done"
    /\ IF resp[r].stage = "FAILED"
       THEN Leave(r, resp[r], "failed") /\ UNCHANGED attempt
       ELSE Proceed(r, "nlu", resp[r]) /\ attempt' = [attempt EXCEPT ![r] = 0]
    /\ UNCHANGED <<initVars, conv, shape, taskVars>>

GenTaskStart(r) ==
    /\ genTask[r] = "created"
    /\ genTask' = [genTask EXCEPT ![r] = "running"]
    /\ Write(r, [resp[r] EXCEPT !.stage = "RESPONSE_GENERATION"])
    /\ UNCHANGED <<sttTask, ticketTask>>

GenTaskEnd(r) ==
    /\ genTask[r] = "running"
    /\ genTask' = [genTask EXCEPT ![r] = "done"]
    /\ Write(r, [resp[r] EXCEPT !.stage = "QUALITY_CHECK"])
    /\ UNCHANGED <<sttTask, ticketTask>>

TicketTaskStart(r) ==
    /\ ticketTask[r] = "created"
    /\ genTask[r] # "created"
    /\ ticketTask' = [ticketTask EXCEPT ![r] = "running"]
    /\ Write(r, [resp[r] EXCEPT !.stage = "TICKET_BUILDING"])
    /\ UNCHANGED <<sttTask, genTask>>

TicketTaskEnd(r) ==
    /\ ticketTask[r] = "running"
    /\ ticketTask' = [ticketTask EXCEPT ![r] = "done"]
    /\ \E status \in TicketStatus \ {"pending"} : Write(r, WithTicket(resp[r], status))
    /\ UNCHANGED <<sttTask, genTask>>

-----------------------------------------------------------------------------
(* Timeout and cancellation are delivered at the await the coroutine is in.  *)
(* They also cancel the task it awaits, and no other task.                   *)

Alive == {"created", "running"}

\* Mutant: the awaited task goes on (an asyncio.shield around it).
BugCancelAwaited(r) == UNCHANGED taskVars

CancelAwaited(r) ==
    /\ sttTask' = [sttTask EXCEPT
         ![r] = IF pc[r] \in {"stt", "sttPause"} /\ @ \in Alive THEN "cancelled" ELSE @]
    /\ genTask' = [genTask EXCEPT
         ![r] = IF pc[r] = "gen" /\ @ \in Alive THEN "cancelled" ELSE @]
    /\ ticketTask' = [ticketTask EXCEPT
         ![r] = IF pc[r] = "ticket" /\ @ \in Alive THEN "cancelled" ELSE @]

\* The timer may run before a task just created, or a coroutine just woken, does.
Timeout(r) ==
    /\ pc[r] \in InPipeline
    /\ CancelAwaited(r)
    /\ Leave(r, [resp[r] EXCEPT !.state = "TIMEOUT"], "timeout")
    /\ UNCHANGED <<initVars, conv, shape, attempt>>

CancelRunning(r) ==
    /\ pc[r] \in InPipeline
    /\ CancelAwaited(r)
    /\ Leave(r, resp[r], "cancelled")
    /\ UNCHANGED <<initVars, conv, shape, attempt>>

Without(s, k) == SubSeq(s, 1, k - 1) \o SubSeq(s, k + 1, Len(s))

LeaveQueue(l, r) ==
    \E k \in DOMAIN waiters[l] :
        /\ waiters[l][k] = r
        /\ waiters' = [waiters EXCEPT ![l] = Without(@, k)]

\* Lock.acquire forgets a cancelled waiter, or wakes the next one.
CancelWaiting(r) ==
    /\ pc[r] = "lock"
    /\ IF holder[lockOf[r]] = r
       THEN Release(lockOf[r])
       ELSE LeaveQueue(lockOf[r], r) /\ UNCHANGED holder
    /\ pc' = [pc EXCEPT ![r] = "done"]
    /\ outcome' = [outcome EXCEPT ![r] = "cancelled"]
    /\ active' = [active EXCEPT ![conv[r]] = None]
    /\ UNCHANGED <<initVars, conv, shape, attempt, resp, taskVars, lockMap, lockOf,
                   metrics, dropped>>

CancelInitializing(r) ==
    /\ pc[r] = "init"
    /\ initBy = r
    /\ initBy' = None
    /\ pc' = [pc EXCEPT ![r] = "done"]
    /\ outcome' = [outcome EXCEPT ![r] = "cancelled"]
    /\ UNCHANGED <<ready, frozen, closing, conv, shape, attempt, resp, taskVars, sharedVars>>

-----------------------------------------------------------------------------
(* Calls from outside.                                                       *)

\* stop_conversation on each conversation of C: the two table entries go, the
\* pipeline is not told.
StopAll(C) ==
    /\ active' = [c \in Conv |-> IF c \in C THEN None ELSE active[c]]
    /\ lockMap' = [c \in Conv |-> IF c \in C THEN None ELSE lockMap[c]]
    /\ dropped' = dropped \union {c \in C : lockMap[c] # None}
    /\ UNCHANGED <<initBy, frozen, pc, conv, shape, attempt, resp, outcome, taskVars,
                   lockOf, holder, waiters, metrics>>

StopConversation(c) == StopAll({c}) /\ UNCHANGED <<ready, closing>>

Tracked == {c \in Conv : active[c] # None}

\* The entries older than an hour, whichever they are.
CleanupResources ==
    /\ \E C \in SUBSET Tracked : C # {} /\ StopAll(C)
    /\ UNCHANGED <<ready, closing>>

\* The service shutdowns are awaited between the two halves.
ShutdownBegin ==
    /\ ~closing
    /\ closing' = TRUE
    /\ StopAll(Tracked)
    /\ UNCHANGED ready

ShutdownEnd ==
    /\ closing
    /\ closing' = FALSE
    /\ ready' = FALSE
    /\ StopAll(Conv)

-----------------------------------------------------------------------------
Calling(r) == Call(r) \/ CallInitializing(r) \/ CallBlocking(r)
              \/ InitializeDone(r) \/ InitializeFailed(r) \/ Acquire(r)

RetriedStage(r, stage, next) ==
    \/ RetriedStageOk(r, stage, next)
    \/ RetriedStageEmpty(r, stage)
    \/ RetriedStageError(r, stage)
    \/ RetriedStageFailed(r, stage)
    \/ PauseOver(r, stage)

Staging(r) ==
    \/ RetriedStage(r, "stt", "nlu") \/ SttJoined(r)
    \/ NluDone(r) \/ GenerationDone(r) \/ QualityDone(r)
    \/ TicketDone(r) \/ TicketJoined(r)
    \/ RetriedStage(r, "tts", "finish")

Tasks(r) == SttTaskStart(r) \/ SttTaskOk(r) \/ SttTaskFailed(r)
            \/ GenTaskStart(r) \/ GenTaskEnd(r) \/ TicketTaskStart(r) \/ TicketTaskEnd(r)

Cancelling(r) == CancelRunning(r) \/ CancelWaiting(r) \/ CancelInitializing(r)

Managing ==
    \/ "stop" \in Outside /\ \E c \in Conv : StopConversation(c)
    \/ "cleanup" \in Outside /\ CleanupResources
    \/ "shutdown" \in Outside /\ (ShutdownBegin \/ ShutdownEnd)

Step ==
    \/ \E r \in Req : Calling(r) \/ Staging(r) \/ Tasks(r) \/ Timeout(r)
    \/ "cancel" \in Outside /\ \E r \in Req : Cancelling(r)
    \/ Managing

\* Nothing runs while the event loop's thread is blocked.
Next == ~frozen /\ Step

Spec == Init /\ [][Next]_vars

\* The event loop runs what is ready, and a timer that is due fires.  The loading
\* of the services in initialize() ends; nothing else is assumed of them: during
\* the pipeline an answer may never come.
Fairness ==
    \A r \in Req :
        /\ WF_vars(~frozen /\ (InitializeDone(r) \/ InitializeFailed(r)))
        /\ WF_vars(~frozen /\ Acquire(r))
        /\ WF_vars(~frozen /\ Timeout(r))

FairSpec == Spec /\ Fairness

-----------------------------------------------------------------------------
Admitted == {r \in Req : lockOf[r] # None}
InFlight == {r \in Admitted : pc[r] # "done"}
Returned(outs) == {r \in Admitted : outcome[r] \in outs}
RunningFor(c) == {r \in Req : pc[r] \in InPipeline /\ conv[r] = c}

\* The variables stay in their ranges.
TypeOK ==
    /\ ready \in BOOLEAN /\ frozen \in BOOLEAN /\ closing \in BOOLEAN
    /\ initBy \in Req \union {None}
    /\ pc \in [Req -> PC]
    /\ conv \in [Req -> Conv]
    /\ shape \in [Req -> Shapes]
    /\ attempt \in [Req -> 0 .. MaxRetries]
    /\ resp \in [Req -> Response]
    /\ outcome \in [Req -> Outcomes]
    /\ sttTask \in [Req -> TaskState]
    /\ genTask \in [Req -> TaskState]
    /\ ticketTask \in [Req -> TaskState]
    /\ active \in [Conv -> Req \union {None}]
    /\ lockMap \in [Conv -> Req \union {None}]
    /\ lockOf \in [Req -> Req \union {None}]
    /\ holder \in [Req -> Req \union {None}]
    /\ waiters \in [Req -> Seq(Req)]
    /\ metrics \in [total: Nat, successful: Nat, failed: Nat]
    /\ dropped \subseteq Conv

\* Every request that was let in is, in the counters get_metrics reports, in
\* flight, successful, failed (timeouts too) or was cancelled: none is counted
\* twice and none is lost, whichever way process_conversation is left.
MetricsAccount ==
    /\ metrics.total = Cardinality(Admitted)
    /\ metrics.successful = Cardinality(Returned({"completed"}))
    /\ metrics.failed = Cardinality(Returned({"failed", "timeout"}))
    /\ Admitted = InFlight \union Returned(Outcomes \ {"none", "raised"})

\* active_conversations never keeps the entry of a request that has returned:
\* what it lists under a conversation is a request of it still in flight.
ActiveInFlight ==
    \A c \in Conv : active[c] # None => active[c] \in InFlight /\ conv[active[c]] = c

\* Two pipelines of one conversation run together only after its lock entry was
\* deleted by stop_conversation, cleanup_resources or shutdown.
OnePipelinePerConversation ==
    \A c \in Conv \ dropped :
        \A r, s \in RunningFor(c) : r = s

\* The response a caller gets agrees with how the pipeline ended, although three
\* tasks write into the same object: a success is at stage COMPLETED, a failure at
\* FAILED.  A timeout is not at COMPLETED, and at FAILED only when the STT task had
\* used up its attempts and the timer came before its coroutine was resumed.
OutcomeMatches ==
    \A r \in Req :
        /\ outcome[r] = "completed" =>
               resp[r].stage = "COMPLETED" /\ resp[r].state = "RESOLVED" /\ resp[r].success
        /\ outcome[r] = "failed" =>
               resp[r].stage = "FAILED" /\ resp[r].state = "ERROR" /\ ~resp[r].success
        /\ outcome[r] = "timeout" =>
               /\ resp[r].stage # "COMPLETED"
               /\ resp[r].stage = "FAILED" => sttTask[r] = "done" /\ attempt[r] = MaxRetries
               /\ resp[r].state = "TIMEOUT" /\ ~resp[r].success

\* A pipeline that ends by itself leaves no task behind; only a timeout or a
\* cancellation can leave a ticket task running, and an STT or a generation task
\* never outlives the wait for it.
NoOrphanTasks ==
    \A r \in Req :
        /\ sttTask[r] \in Alive => pc[r] \in {"stt", "sttPause"}
        /\ genTask[r] \in Alive => pc[r] = "gen"
        /\ ticketTask[r] \in Alive =>
               pc[r] \in {"gen", "quality", "ticket"} \/ outcome[r] \in {"timeout", "cancelled"}

\* With a ticket asked for, a completed request has a ticket verdict: the
\* pipeline never completes over a ticket stage that is still open.
CompletedWithTicket ==
    \A r \in Req :
        outcome[r] = "completed" => (shape[r].ticket <=> resp[r].ticket # "pending")

\* Once process_conversation has returned, its verdict never changes, whatever
\* tasks and other requests of the conversation go on doing.
VerdictIsFinal ==
    [][\A r \in Req : pc[r] = "done" =>
          /\ pc'[r] = "done" /\ outcome'[r] = outcome[r]
          /\ resp'[r].state = resp[r].state /\ resp'[r].success = resp[r].success]_vars

\* Every call of process_conversation returns: the timeout covers the pipeline,
\* and a request queued for its conversation is eventually let in.
EveryCallReturns == \A r \in Req : pc[r] # "idle" ~> pc[r] = "done"

\* The response object is not touched after process_conversation returned it.
ReturnedResponseIsFinal ==
    [][\A r \in Req : pc[r] = "done" => resp'[r] = resp[r]]_vars
=============================================================================

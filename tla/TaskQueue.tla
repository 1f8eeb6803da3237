------------------------------ MODULE TaskQueue ------------------------------
(***************************************************************************)
(* The background tasks (workers/tasks.py) under the Celery configuration  *)
(* of workers/celery_app.py: messages are acknowledged late, so a worker   *)
(* that dies gives its message back; every exception is retried, through   *)
(* an apply_async that a circuit breaker guards in each worker process;    *)
(* and a task's steps take effect outside, one by one, whether or not the  *)
(* attempt ends well.                                                      *)
(*                                                                         *)
(* A worker is one process of the pool, which runs one task at a time.     *)
(* Abstracted: the six queues and their priorities (a worker takes any     *)
(* message), countdowns and the five minutes of the breaker (they pass or  *)
(* not), progress, arguments and results.                                  *)
(***************************************************************************)
EXTENDS Naturals, FiniteSets, Sequences

CONSTANTS
    Task, Worker,
    NoTask,       \* what an idle worker holds
    Kinds,        \* the kinds of tasks that are enqueued
    MaxRetries,   \* retry_kwargs["max_retries"]: 3
    Threshold,    \* circuit_breaker_threshold: 5
    MaxFaults     \* bound: broker errors, purges, lost and killed processes

(* What each task does, as the calls that may raise or take effect.  A program *)
(* ends at the first call that raises on every attempt (see Impossible).       *)

ProcessAudioChunk == <<"validate", "processChunk", "transcribeChunk">>
TranscribeAudio == <<"openFile", "readAudio", "processAudio", "transcribe">>
GenerateVoiceResponse == <<"generateSpeech", "audioDir">>
CreateTicket == <<"callCreate", "ticketId">>
UpdateTicket == <<"loadTicket", "updateTicket">>
EscalateTicket == <<"escalateTicket">>
AutoAssignTicket == <<"autoAssign">>
SendEmail == <<"renderTemplate", "smtpServer">>
SendSms == <<"checkNumber", "smsProvider">>
SendWebhook == <<"sign", "post", "checkResponse">>
ComputeAnalytics == <<"compute">>
GenerateReport == <<"generateReport", "reportsDir">>
UpdateDashboard == <<"collect", "cache", "createTask">>
SentimentAnalysis == <<"analyze">>
IntentClassification == <<"classify">>
TextClassification == <<"classify">>
CleanupSessions == <<"findExpired">>
CleanupFiles == <<"cleanupDirs">>
BackupDatabase == <<"backupDir">>
OptimizeDatabase == <<"optimize">>

Program ==
    [process_audio_chunk |-> ProcessAudioChunk,
     transcribe_audio |-> TranscribeAudio,
     generate_voice_response |-> GenerateVoiceResponse,
     create_ticket |-> CreateTicket,
     update_ticket |-> UpdateTicket,
     escalate_ticket |-> EscalateTicket,
     auto_assign_ticket |-> AutoAssignTicket,
     send_email |-> SendEmail,
     send_sms |-> SendSms,
     send_webhook |-> SendWebhook,
     compute_analytics |-> ComputeAnalytics,
     generate_report |-> GenerateReport,
     update_dashboard |-> UpdateDashboard,
     sentiment_analysis |-> SentimentAnalysis,
     intent_classification |-> IntentClassification,
     text_classification |-> TextClassification,
     cleanup_sessions |-> CleanupSessions,
     cleanup_files |-> CleanupFiles,
     backup_database |-> BackupDatabase,
     optimize_database |-> OptimizeDatabase]

\* The call that somebody outside sees.
Effects == {"post"}

(* The calls that raise whatever happens.                                    *)

\* A coroutine that nobody awaits has no id; asyncio.create_task needs a running loop.
NeverAwaited == {"ticketId", "createTask"}

\* The called method does not exist or does not take these arguments, or, for most of the
\* analytics, it searches a database that no worker has connected.
NoSuchCall ==
    {"updateTicket", "escalateTicket", "autoAssign", "compute", "findExpired", "optimize"}

\* The settings have no such field.
NoSuchSetting == {"audioDir", "smtpServer", "smsProvider", "reportsDir", "cleanupDirs", "backupDir"}

Impossible == NeverAwaited \union NoSuchCall \union NoSuchSetting

ASSUME ConstantsAssumption ==
    /\ NoTask \notin Task /\ Kinds \subseteq DOMAIN Program
    /\ MaxRetries \in Nat /\ Threshold \in Nat \ {0} /\ MaxFaults \in Nat

NoKind == "none"

VARIABLES
    kind,         \* of each task, once enqueued
    queue,        \* messages: how many of each task with so many retries
    hand, tried,  \* the task each worker runs; the retries of its message
    phase, pos,   \* what the worker does; the step it is at
    failures,     \* of each worker process: the breaker's count for each kind
    status,       \* in the result backend
    faults,
    deliveries, effects, crashes, purged,    \* history, per task
    cut           \* tasks whose retry was not sent, or whose process was lost

workerVars == <<hand, tried, phase, pos>>
history == <<deliveries, effects, crashes, purged, cut>>
vars == <<kind, queue, workerVars, failures, status, faults, history>>

Retries == 0 .. MaxRetries
Statuses == {"none", "PENDING", "PROCESSING", "FAILURE", "RETRY", "SUCCESS"}
Steps(w) == Program[kind[hand[w]]]
AtStep(w) == phase[w] = "run" /\ pos[w] <= Len(Steps(w))
Step(w) == Steps(w)[pos[w]]
Runs(w, t) == hand[w] = t /\ phase[w] = "run"
Waiting(t) == \E r \in Retries : queue[t][r] > 0
InHand(t) == \E w \in Worker : hand[w] = t

Init ==
    /\ kind = [t \in Task |-> NoKind]
    /\ queue = [t \in Task |-> [r \in Retries |-> 0]]
    /\ hand = [w \in Worker |-> NoTask]
    /\ tried = [w \in Worker |-> 0]
    /\ phase = [w \in Worker |-> "idle"]
    /\ pos = [w \in Worker |-> 1]
    /\ failures = [w \in Worker |-> [k \in DOMAIN Program |-> 0]]
    /\ status = [t \in Task |-> "none"]
    /\ faults = 0
    /\ deliveries = [t \in Task |-> 0]
    /\ effects = [t \in Task |-> 0]
    /\ crashes = [t \in Task |-> 0]
    /\ purged = {} /\ cut = {}

-----------------------------------------------------------------------------
(* The producer's side.                                                      *)

\* TaskQueue.enqueue_*: send_task goes past the breaker.
Enqueue(t, k) ==
    /\ kind[t] = NoKind
    /\ kind' = [kind EXCEPT ![t] = k]
    /\ queue' = [queue EXCEPT ![t][0] = 1]
    /\ status' = [status EXCEPT ![t] = "PENDING"]
    /\ UNCHANGED <<workerVars, failures, faults, history>>

\* TaskQueue.purge_queue, for whichever queue: every queue is purged.
Purge ==
    /\ faults < MaxFaults
    /\ faults' = faults + 1
    /\ \E t \in Task : Waiting(t)
    /\ purged' = purged \union {t \in Task : Waiting(t)}
    /\ queue' = [t \in Task |-> [r \in Retries |-> 0]]
    /\ UNCHANGED <<kind, workerVars, failures, status, deliveries, effects, crashes, cut>>

-----------------------------------------------------------------------------
(* BaseTaskWithRetry.apply_async for kind k in the process of worker w:       *)
(* what it does to the count, when the message is sent, and when it raises.   *)

\* An open breaker refuses until the last failure is five minutes old.
MayRefuse(w, k) == failures[w][k] >= Threshold

\* Mutant: the breaker lets calls through and goes on counting.
BugSendFails(w, k) == failures' = [failures EXCEPT ![w][k] = @ + 1]

Sent(w, k) == failures' = [failures EXCEPT ![w][k] = 0]

SendRefused(w, k) ==
    /\ MayRefuse(w, k)
    /\ UNCHANGED failures

\* The broker does not answer; an open breaker was reset when it let the call pass.
SendFails(w, k) ==
    failures' = [failures EXCEPT ![w][k] = IF MayRefuse(w, k) THEN 1 ELSE @ + 1]

-----------------------------------------------------------------------------
(* A worker.                                                                 *)

\* The broker delivers the message of a dead worker again.
GiveBack(w) == queue' = [queue EXCEPT ![hand[w]][tried[w]] = @ + 1]

Take(w, t, r) ==
    /\ phase[w] = "idle"
    /\ queue[t][r] > 0
    /\ queue' = [queue EXCEPT ![t][r] = @ - 1]
    /\ hand' = [hand EXCEPT ![w] = t]
    /\ tried' = [tried EXCEPT ![w] = r]
    /\ phase' = [phase EXCEPT ![w] = "run"]
    /\ status' = [status EXCEPT ![t] = "PROCESSING"]
    /\ deliveries' = [deliveries EXCEPT ![t] = @ + 1]
    /\ UNCHANGED <<kind, pos, failures, faults, effects, crashes, purged, cut>>

\* A call that succeeds; most are followed by a report of the progress.
Perform(w) ==
    /\ AtStep(w)
    /\ Step(w) \notin Impossible
    /\ pos' = [pos EXCEPT ![w] = @ + 1]
    /\ status' \in {status, [status EXCEPT ![hand[w]] = "PROCESSING"]}
    /\ effects' = IF Step(w) \in Effects THEN [effects EXCEPT ![hand[w]] = @ + 1] ELSE effects
    /\ UNCHANGED <<kind, queue, hand, tried, phase, failures, faults, deliveries, crashes,
                   purged, cut>>

\* A call raises: the handler of the task stores FAILURE and raises the exception again.
Raise(w) ==
    /\ AtStep(w)
    /\ phase' = [phase EXCEPT ![w] = "raised"]
    /\ status' = [status EXCEPT ![hand[w]] = "FAILURE"]
    /\ UNCHANGED <<kind, queue, hand, tried, pos, failures, faults, history>>

Succeed(w) ==
    /\ phase[w] = "run" /\ ~AtStep(w)
    /\ status' = [status EXCEPT ![hand[w]] = "SUCCESS"]
    /\ phase' = [phase EXCEPT ![w] = "acknowledge"]
    /\ UNCHANGED <<kind, queue, hand, tried, pos, failures, faults, history>>

\* The worker is done with its message.
Free(w) ==
    /\ hand' = [hand EXCEPT ![w] = NoTask]
    /\ tried' = [tried EXCEPT ![w] = 0]
    /\ phase' = [phase EXCEPT ![w] = "idle"]
    /\ pos' = [pos EXCEPT ![w] = 1]

\* Mutant: a retry starts counting anew.
BugRetry(w) ==
    /\ phase[w] = "raised"
    /\ tried[w] < MaxRetries
    /\ Sent(w, kind[hand[w]])
    /\ queue' = [queue EXCEPT ![hand[w]][0] = @ + 1]
    /\ status' = [status EXCEPT ![hand[w]] = "RETRY"]
    /\ phase' = [phase EXCEPT ![w] = "acknowledge"]
    /\ UNCHANGED <<kind, hand, tried, pos, faults, history>>

\* autoretry: the message is sent again, with one more retry, before the old one is
\* acknowledged.
Retry(w) ==
    /\ phase[w] = "raised"
    /\ tried[w] < MaxRetries
    /\ Sent(w, kind[hand[w]])
    /\ queue' = [queue EXCEPT ![hand[w]][tried[w] + 1] = @ + 1]
    /\ status' = [status EXCEPT ![hand[w]] = "RETRY"]
    /\ phase' = [phase EXCEPT ![w] = "acknowledge"]
    /\ UNCHANGED <<kind, hand, tried, pos, faults, history>>

\* The retry cannot be sent: the message is rejected and not queued again.
RetryFails(w) ==
    /\ phase[w] = "raised"
    /\ tried[w] < MaxRetries
    /\ \/ SendRefused(w, kind[hand[w]]) /\ UNCHANGED faults
       \/ SendFails(w, kind[hand[w]]) /\ faults < MaxFaults /\ faults' = faults + 1
    /\ Free(w)
    /\ cut' = cut \union {hand[w]}
    /\ UNCHANGED <<kind, queue, status, deliveries, effects, crashes, purged>>

\* Mutant: the last retry is not made.
BugGiveUp(w) ==
    /\ phase[w] = "raised"
    /\ tried[w] + 1 >= MaxRetries
    /\ phase' = [phase EXCEPT ![w] = "acknowledge"]
    /\ UNCHANGED <<kind, queue, hand, tried, pos, failures, status, faults, history>>

GiveUp(w) ==
    /\ phase[w] = "raised"
    /\ tried[w] = MaxRetries
    /\ phase' = [phase EXCEPT ![w] = "acknowledge"]
    /\ UNCHANGED <<kind, queue, hand, tried, pos, failures, status, faults, history>>

Acknowledge(w) ==
    /\ phase[w] = "acknowledge"
    /\ Free(w)
    /\ UNCHANGED <<kind, queue, failures, status, faults, history>>

\* A process starts with an empty breaker.
Restarted(w) ==
    /\ faults < MaxFaults
    /\ faults' = faults + 1
    /\ failures' = [failures EXCEPT ![w] = [k \in DOMAIN Program |-> 0]]
    /\ Free(w)

\* The worker's host goes down.
Crash(w) ==
    /\ phase[w] # "idle"
    /\ Restarted(w)
    /\ GiveBack(w)
    /\ crashes' = [crashes EXCEPT ![hand[w]] = @ + 1]
    /\ UNCHANGED <<kind, status, deliveries, effects, purged, cut>>

\* Mutant: nobody stores the end of the task.
BugKilled(w) ==
    /\ phase[w] \in {"run", "raised"}
    /\ Restarted(w)
    /\ cut' = cut \union {hand[w]}
    /\ UNCHANGED <<kind, queue, status, deliveries, effects, crashes, purged>>

\* The pool's process is lost or killed at the hard time limit: its parent stores
\* FAILURE and acknowledges the message, for task_reject_on_worker_lost is not set.
Killed(w) ==
    /\ phase[w] \in {"run", "raised"}
    /\ Restarted(w)
    /\ status' = [status EXCEPT ![hand[w]] = "FAILURE"]
    /\ cut' = cut \union {hand[w]}
    /\ UNCHANGED <<kind, queue, deliveries, effects, crashes, purged>>

WorkerStep(w) ==
    \/ \E t \in Task, r \in Retries : Take(w, t, r)
    \/ Perform(w) \/ Raise(w) \/ Succeed(w)
    \/ Retry(w) \/ RetryFails(w) \/ GiveUp(w) \/ Acknowledge(w)

Next ==
    \/ \E t \in Task, k \in Kinds : Enqueue(t, k)
    \/ Purge
    \/ \E w \in Worker : WorkerStep(w) \/ Crash(w) \/ Killed(w)

\* Workers that have something to do go on.
Fairness == \A w \in Worker : WF_vars(WorkerStep(w))

Spec == Init /\ [][Next]_vars
LiveSpec == Spec /\ Fairness

-----------------------------------------------------------------------------
\* The variables stay in their ranges; a worker is idle when it holds no message; the
\* breaker never counts past its threshold, since at the threshold it refuses or resets.
TypeOK ==
    /\ kind \in [Task -> Kinds \union {NoKind}]
    /\ queue \in [Task -> [Retries -> Nat]]
    /\ hand \in [Worker -> Task \union {NoTask}]
    /\ tried \in [Worker -> Retries]
    /\ phase \in [Worker -> {"idle", "run", "raised", "acknowledge"}]
    /\ \A w \in Worker : phase[w] = "idle" <=> hand[w] = NoTask
    /\ pos \in [Worker -> Nat \ {0}]
    /\ \A w \in Worker : hand[w] # NoTask => kind[hand[w]] # NoKind /\ pos[w] <= Len(Steps(w)) + 1
    /\ failures \in [Worker -> [DOMAIN Program -> 0 .. Threshold]]
    /\ status \in [Task -> Statuses]
    /\ faults \in 0 .. MaxFaults
    /\ {deliveries, effects, crashes} \subseteq [Task -> Nat]
    /\ purged \subseteq Task /\ cut \subseteq Task

\* A task is attempted once and for each of its retries, and that again for each crash
\* that gave a message back: a crash between a retry and its acknowledgement leaves two
\* messages of one task, which two workers may run side by side.  What others see of a
\* task happens at most once per attempt.
AttemptBudget ==
    \A t \in Task :
        /\ deliveries[t] <= (MaxRetries + 1) * (crashes[t] + 1)
        /\ effects[t] <= deliveries[t]
        /\ \A v, w \in Worker : v # w /\ Runs(v, t) /\ Runs(w, t) => crashes[t] > 0

\* The last verdict on a task is earned.  SUCCESS: some attempt made every call of the
\* program, so none of them raises always, and the webhook was posted.  FAILURE, once
\* nothing of the task is under way: it was attempted with every retry, or its message was
\* purged, or an attempt was cut short with retries left; and that only happens after the
\* broker or a process failed, never by the breaker alone.
VerdictIsEarned ==
    /\ \A t \in Task : status[t] = "SUCCESS" =>
          \A i \in DOMAIN Program[kind[t]] :
              /\ Program[kind[t]][i] \notin Impossible
              /\ Program[kind[t]][i] \in Effects => effects[t] > 0
    /\ \A t \in Task : status[t] = "FAILURE" /\ ~Waiting(t) /\ ~InHand(t) =>
          deliveries[t] > MaxRetries \/ t \in purged \union cut
    /\ cut # {} => faults > 0

\* Every task that is enqueued comes to an end, in SUCCESS or FAILURE and with no message
\* left, unless a purge took its message: whatever raises, is lost, killed or refused.
Settled(t) == ~Waiting(t) /\ ~InHand(t) /\ status[t] \in {"SUCCESS", "FAILURE"}
EveryTaskSettles == \A t \in Task : kind[t] # NoKind ~> Settled(t) \/ t \in purged
=============================================================================

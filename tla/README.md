# VoiceHelpDeskAI: specifications, model checking and proofs

TLA+ specifications of the concurrent core of VoiceHelpDeskAI, TLC runs that check them
on small instances, and theorems that TLAPS proves for every instance. `PROJECT.json`
maps each definition to the source lines it models, and lists the components, runs,
mutants, hazards, findings and theorems. Paths below are relative to
`src/src/voicehelpdeskai/`.

    tlc -config MC_Orchestrator.cfg MC_Orchestrator     # one run
    tlapm Orchestrator_proofs.tla                       # the proofs of one module

1. [The system](#1-the-system)
2. [The modules](#2-the-modules)
3. [The runs](#3-the-runs)
4. [Fairness](#4-fairness)
5. [The proofs](#5-the-proofs)
6. [What disagrees with the documentation](#6-what-disagrees-with-the-documentation)
7. [What is not modelled](#7-what-is-not-modelled)
8. [The plan](#8-the-plan)

## 1. The system

A voice help desk: speech comes in over REST or a websocket, a pipeline recognises it,
understands it, makes a response, checks its quality, opens a ticket and speaks the
response; background workers, monitoring and a database stand behind. The Python process
is an asyncio event loop with some threads. The components, with the state that matters,
their operations, and what makes each correct:

| Component | State | Operations | Hard behaviour | Correct when |
|---|---|---|---|---|
| Conversation orchestrator `core/orchestrator/conversation_orchestrator.py` | response object per request, `active_conversations`, `conversation_locks`, counters, `is_initialized` | process_conversation (two pipelines), stop, cleanup, shutdown, initialize | three tasks and a coroutine share a response; timeout and cancellation at any await; lock entries deleted while held; a threading lock held over awaits | one pipeline per conversation; every call returns; counters and tables account for every request; a verdict is final |
| Audio queue `core/audio/queue_system.py` (`AudioQueue`) | deque, registry, counters | put (refuse, wait, evict), get, mark_completed, mark_failed, cleanup, clear | producer, worker and cleanup threads; retries re-enter a full bounded deque; `deque.remove` compares payloads | no chunk is lost or processed twice in a way the counters do not show; evictions take the least important |
| Audio streams `core/audio/stream_manager.py` | connections, websockets, count, per-stream state, buffer, sequence numbers | start, stop, create, connect, pause, resume, send, broadcast, disconnect, heartbeat and cleanup loops | everyone may disconnect the same stream; sends overlap; loops are cancelled half-way; a start while `stop()` is at work | tables agree; sequence numbers are not reused; silent streams go; stop is thorough |
| Audio websocket `api/endpoints/websocket.py` | connections, sessions, user_connections, per-connection streaming state | connect, receive text or bytes, disconnect, heartbeat monitor | endpoint and monitor disconnect at once; a failing constructor after registration; messages of an unexpected kind | tables agree; an endpoint that ends frees its user's slot; leavers end |
| Server-sent events `api/endpoints/sse.py` | connections with pending_events | subscribe, publish, heartbeat | events queued while a generator is suspended in a yield | no event is dropped |
| Alerting `monitoring/alerting.py` | rules, active_alerts, history | evaluate (concurrently), fire, resolve, suppress | threading lock held over awaits under gather | evaluation never blocks; an alert that lasts is notified |
| LLM conversations `services/llm/llm_manager.py`, `services/llm/conversation_manager.py` | manager state and its lock; conversations, messages, summaries, active_sessions | generate_response, streamed or not, add_message with automatic summaries, update state, summarise, start, cleanup, shutdown | a request waits for the model between a question, its answer and their summaries; cleanup against a newer conversation; a warm-up cancelled or shut down | exchanges are recorded whole; each segment is summarised once; sessions point to live conversations |
| Ticket service `services/ticketing/service.py` | tickets, workflow rules, escalation rules | create, update status, assign, escalate, check rules | external synchronisation fails or is overtaken; rules run again on each check | only allowed transitions; a ticket is escalated once per reason |
| Worker manager `workers/worker_manager.py` | breaker state, dead letters, pool | call, add and get failed tasks, scale, pause | half-open admissions; destructive reads | breaker opens and closes as configured; no failed task is lost |
| Background tasks `workers/tasks.py`, `workers/celery_app.py` | messages, attempts and breaker counts of the worker processes, results | enqueue, twenty task bodies, retry, purge | late acknowledgement, crash between two steps, a retry of what was half done, a breaker that refuses the retry | attempts and effects within the budget; success means done; every task ends |
| Circuit breakers `workers/circuit_breaker.py` | state, counts | call, async_call, force_open | late results of calls admitted in another state | as above (the module cannot be imported) |
| Error handling `core/audio/error_handler.py` | counts, breaker | report, retry | thresholds over time | breaker closes again |
| Continuous transcription `services/stt/continuous_stream.py` | buffer, context, history | start, stop, process chunk | chunks complete out of order; stop waits for nothing | context in speaking order; nothing after stop |
| Scheduler `workers/scheduled_tasks.py` | table of tasks, its copy in Redis, loops, next_run | start, stop, loop, schedule, remove, enable, disable | copies overtaking each other; the table changes under the loop's iterator; entries that make each pass raise; crash and boot; stop and start again before the old loop wakes up | what is stored is what was acknowledged; each due task runs; a stopped manager comes to rest |
| Task results and shutdown `workers/task_result_storage.py` | results, running tasks | store, wait, cancel | the set that is cancelled is iterated | all are cancelled or done |
| LLM service, STT, TTS, NLU, database, REST API, middleware, metrics, configuration, frontend | mostly caches and counters | calls of models, queries, pages | little beyond the lock-over-await pattern | see section 7 |

How they interact. API endpoints call the orchestrator, which awaits the STT, NLU, LLM,
quality, ticket and TTS services; those answer, raise, or never return. Audio reaches the
process through the websocket's `ConnectionManager` or through `AudioStreamManager`, and is
meant to be buffered in `AudioQueue` for worker threads. In the repository as it is these
parts are not connected to each other: the websocket endpoint constructs an orchestrator of
its own for each client and calls methods (`start_conversation`, `process_audio_chunk`,
`process_text_message`) that the class does not have, and no code passes chunks from a
stream to the queue. The scheduler's tasks reach Celery only to mail an alert, and
nothing but `LLMManager` calls the conversation manager. So each component is a module of
its own, its environment the calls its public methods admit. Two modules compose what does
interact: `Dialogues` has a manager over the other's tables, and `TaskQueue` has the tasks
with the broker, the pool processes and the breaker that stand around them.

The hazards of this code, each at its line and with the properties that watch it, are under
`hazards` in `PROJECT.json`; those without a property say why.

## 2. The modules

| Module | Models | Read with |
|---|---|---|
| `Orchestrator` | `ConversationOrchestrator` | `MC_Orchestrator`, `Orchestrator_proofs` |
| `ChunkLife` | what `AudioQueue` promises of each chunk, with no queue in it | instantiated by `AudioQueue` |
| `AudioQueue` | `AudioQueue`; implements `ChunkLife` | `MC_AudioQueue`, `AudioQueue_proofs` |
| `AudioStreams` | `AudioStreamManager`, `StreamConnection` | `MC_AudioStreams`, `AudioStreams_proofs` |
| `VoiceSockets` | `ConnectionManager`, `audio_websocket`, its handlers and monitor | `MC_VoiceSockets`, `VoiceSockets_proofs` |
| `Scheduler` | `ScheduledTaskManager` | `MC_Scheduler`, `Scheduler_proofs` |
| `TaskQueue` | the task bodies, `BaseTaskWithRetry`, `CELERY_CONFIG`, `TaskManager`'s enqueue and purge | `MC_TaskQueue`, `TaskQueue_proofs` |
| `Dialogues` | `LLMManager` over `ConversationManager` | `MC_Dialogues`, `Dialogues_proofs` |

In each module an operator named `Bug...` stands before the definition it is a faulty
variant of. The specifications do not use these; they show that the properties are able to
fail. Each property of a passing run is violated when one definition is replaced by its
variant (`mutants` in `PROJECT.json`).

### Orchestrator

An action is the code between two awaits, of one request's coroutine, of one of the three
tasks of the parallel pipeline (speech recognition, created at line 398 and awaited at 401;
generation; ticket), or of a management call. `pc` is the await a request is
suspended in: the conversation's lock, a service of a stage, or the pause between two
attempts. `Call` runs from the entry to the first suspension: it takes the lock at once
when that is free, and fails without suspending when the input is invalid. `Proceed` enters
the next stage or leaves through the `finally` block (`Leave`), which counts the request,
deletes its entry of `active_conversations` and releases the lock to the first waiter.

- *The response object.* `resp` is shared as in the code: the generation and ticket tasks
  write `pipeline_stage` and the ticket result into it while the coroutine reads it.
- *Locks.* `conversation_locks` maps a conversation to a lock object, named by the request
  that created it. `stop_conversation`, `cleanup_resources` and `shutdown` delete entries of
  locks that are held; the history variable `dropped` records for which conversations.
- *Speech recognition.* The end of its task (`SttTaskOk`, `SttTaskFailed`: the last failure
  sets FAILED, 884-885) and the coroutine's going on (`SttJoined`) are two steps. When the
  timeout comes in between, the outcome is `timeout` and the stage FAILED, not TIMEOUT:
  `OutcomeMatches` names this case.
- *Timeout and cancellation* hit at any await of the pipeline and cancel the task that is
  awaited, recognition or generation, but not the ticket task: that one may outlive its
  request. The timer may also run before a task that was just created.
- *Initialisation.* `initialize` holds a `threading.Lock` over awaits. A second caller blocks
  the event loop's thread (`frozen`): then nothing runs any more.
- *Abstracted:* texts, audio, scores, warnings, clock values. A failing input stage (no input, or an
  array of several elements, whose truth value raises) is `valid = FALSE`. The generic
  `except Exception` handlers behind the stages' own handlers cannot be reached.

### AudioQueue

Every method runs under one lock, so an action is one pass through the locked region, by a
producer, a worker, or the cleanup thread. A blocked `put` polls every 0.1 s and looks
again, so a pass that changes nothing is a stutter. Chunks are numbered by `created_at`;
`mode` is the way a put waits (`block=False`, a timeout, or neither). With many-element
arrays as payloads `deque.remove` raises as soon as it compares two of them; `arrays`
chooses per behaviour. A chunk becomes `old` (past `max_age` or its deadline) at any
moment. History: `deliveries` per chunk, and `lost`, how many entries of the deque went by
each cause.

*Refinement.* `ChunkLife` knows no deque, registry or priorities: a chunk is unborn, offered,
waiting, working, done, failed or gone, counts how often it was taken, and may be forgotten
while in work. Its actions say who may be dropped by whose step: an arrival or a retry costs
at most one waiting chunk its place, only cleanup and `clear` drop more, a chunk in work is
never dropped, a failure leads back into the line as long as attempts are left, and what
`clear` forgot is neither retried nor reported. `StageOf` reads the stage off the queue, the
registry's statuses, the workers' hands and the producers' calls; `ImplementsChunkLife`
says that every step of the queue is a step of `ChunkLife` or leaves the stages alone.

### AudioStreams

A coroutine of this component really waits in two places, the websocket's `send_text` and
the sleep of the BLOCK strategy; an action is what runs between. A *job* is a coroutine (a
caller, the heartbeat loop, the cleanup loop, `stop()`) with the stream it is `at` and those
it has yet to visit, `todo`; dictionaries are walked in the order streams were created.
`Deregister` is the part of `disconnect_stream` that tests the table again after the stop
message. `silent` abstracts the time since the last heartbeat. `Inputs` are the calls from
outside that a run enables, only the first `MaxConnects` streams are ever
connected.

*Start and stop.* Each `start()` has jobs of its own: the loops `<<"heartbeat", k>>` and
`<<"cleanup", k>>`, and the `<<"stop", k>>` that ends them; `alive` are the loops that were not
cancelled. `start()` tests `is_running` only, and `stop()` clears it (518) before it waits for
its disconnections (521-522). A start in between is *overtaken*: `stop()` then cancels the
loops it finds (525-526), which are the new ones, wherever they are, and `is_running` stays
TRUE. Nobody sweeps the streams of such a manager, and a stream whose disconnection a
cancelled loop had begun may stay half disconnected. `SilentIsSwept` and `DisconnectEnds`
except exactly this.

### VoiceSockets

`endpoint` is the phase of each client's endpoint coroutine, from `connect` to the end of
its receive loop. `io` is the send or close a coroutine (an endpoint or the monitor) awaits.
`Disconnect` and `SendToConnection` are the manager's two methods up to their await; what
follows it is in `SendDone`, `SendFailed` and `CloseEnd`. The loop of the code awaits `receive_text`
and, in the handler of whatever that raises, `receive_bytes`; either takes the next message
whatever its kind. The websocket itself (what a receive, send and close do, and when they
raise) is external and modelled from its use. `unstarted` records clients whose
orchestrator could not be constructed.

The orchestrator lacks the methods the handlers call, so `conversation_id` stays `None`,
`start_streaming` ends in its error reply after `is_streaming` was set, text input is
ignored, and audio chunks are only counted and acknowledged. Two over-approximations, both
harmless to the safety properties: other coroutines may run between two rounds of a loop
that goes on without waiting, and the monitor's ping round may end at any moment (in the
code it ends when all were asked, or with the RuntimeError of a dictionary that changed).

### Scheduler

An action is the code between two awaits of the API, of `start`, or of a loop. `table` is
`scheduled_tasks` in order of insertion, `stored` the value under its Redis key, and
`writes` the copy each coroutine has on its way: `_save_scheduled_tasks` serialises the
whole table at once and awaits the write, without a lock, so two copies may land in either
order.

- *The loop* (`Wake`, `Advance`, `TaskReturns`, `Reschedule`, `Continue`) walks the live
  dictionary over the awaits of the tasks it runs: `at` is the iterator, `size` the size it
  was made for (a change of size makes it raise and ends the pass), `asof` the tasks that were
  due at the `now` the pass began with. `stop` clears `is_running`; a loop finds out when it wakes up, and a
  `start` before that adds a second one.
- *Entries that cannot be run.* A `run_at` without a time zone (310) makes the comparison
  with the aware `now` (202) raise in every pass, which ends the pass there: no task
  behind such an entry is looked at again while the entry is there and enabled (`Raises`). A
  `task_func` that no dictionary knows (220-223) is logged and returned from: the task is
  never run, saved or given a new time (`Runs`). `schedule_task` takes both.
  `DueTaskRuns` excepts these tasks and the ones behind them, no others.
- *Persistence:* `Boot` loads the table, or fails to and leaves it empty; `Crash` keeps only
  `stored`; `Expire` is the key's time to live. `start` schedules the defaults when the table
  is empty, one awaited save each (`ScheduleDefault`).
- *Ids* are made from the second and the size of the table, so an id can come again after a
  removal within one second; the history variable `disturbed` records this, overlapping
  and lost copies: these are the situations `Durable` excepts, each reachable.
- *Time:* `next` counts the times `next_run` was computed; `ComesDue` lets that time pass.
  For `ScheduleType.ONCE` the same `run_at` comes out again.
- *Abstracted:* what the task functions do, run counts, stored results, the clock.

### TaskQueue

A worker is one process of a Celery pool. It takes a message, runs the body of the task as
the sequence of calls `Program` lists for its kind, and acknowledges at the end
(`task_acks_late`). Any call may raise; each exception goes to `self.retry` (`Raise`, `Retry`,
`GiveUp`), and the retry is sent by `apply_async`, which counts its failures per process and
kind and refuses with the breaker open (`RetryFails`). `Crash` takes the worker's host down:
the broker gives the message back. `Killed` is a process that is lost or passes the hard time
limit: `task_reject_on_worker_lost` is not set, so its parent stores FAILURE and acknowledges
the message. `queue[t][r]` is a bag: how many messages of task `t` with `r` retries wait. The
history variable `cut` holds the tasks that were ended with retries left. Celery and the
broker are external and modelled from the configuration in `celery_app.py`.

*Most tasks cannot succeed.* Fourteen of the twenty reach a call that raises on every attempt,
and a program of the model ends at it (`Impossible`):

| Task (`workers/tasks.py`) | Always raises at | Why |
|---|---|---|
| `create_ticket_task` | 273 or 289 | `create_ticket` is a coroutine function and is called without `await` (264): nothing is created, and the coroutine has no `id` |
| `update_ticket_task` | 333 | the repository's `update` takes keyword arguments (`database/repositories.py:161`) |
| `escalate_ticket_task` | 391 | `escalate_ticket` takes neither `reason` nor `escalated_by` (`services/ticketing/service.py:617`) |
| `auto_assign_ticket_task` | 445 | the service has no `auto_assign_ticket` |
| `update_dashboard_task` | 815 | `asyncio.create_task` where no loop runs |
| `generate_voice_response`, `send_email_notification`, `send_sms_notification`, `generate_report_task`, `cleanup_temp_files`, `backup_database` | 215, 502, 566, 757, 1030, 1116 | the settings (`config/config.py:589`) have no `audio_output_dir`, `smtp_server`, `sms_provider`, `reports_dir`, directories to clean, `backup_dir` |
| `compute_analytics_task`, `cleanup_expired_sessions`, `optimize_database` | their first call | the called method does not exist, or searches a database that no worker connects |

Audio chunks, transcription, the webhook and the three machine learning tasks are the ones that
may succeed. The webhook's post is the one call that somebody outside sees
(`Effects`). `VerdictIsEarned` says that SUCCESS means all this was done, and what must have
happened for a FAILURE with retries left. `update_ticket_task` is modelled generously: its
first call also searches the unconnected database, and `loadTicket` may succeed.

- *Abstracted:* the six queues and priorities, countdowns, the five minutes of the breaker
  (passed or not, at any time), progress, arguments, results. That `tasks.py` cannot be
  imported as the repository stands is in section 7.

### Dialogues

An action runs from one wait for the model to the next. `manager` is `off`, `warming`
(the lock held over the warm-up), `on`, or what a shutdown during the warm-up makes of it:
`undone`, and, when the warm-up then ends, `hollow`, which claims to be initialised and has
no services. A cancelled warm-up leaves a `stale` manager, with services but not
initialised, since `except Exception` (`llm_manager.py:84-142`) does not catch the
cancellation: conversations are still started, updated and cleaned up, and the next request
replaces the conversation manager, live conversations and all (`Reinitialize`, 122). A request
that arrives while another warms up waits for a `threading.Lock` that the loop's own thread
holds: `frozen`. `phase` is what a call waits for: the warm-up,
the model's answer, or a summary that `add_message` began after the question, after the answer or after a
system message. `messages` records by whom each message was added; `summaries` the length
at which each was begun (`seen`), since the list grows while the summary is awaited.

- *Abstracted:* contents, prompts, sentiment and intents (their analysis never waits),
  statistics. A streamed request takes the same steps after its pieces, and its consumer may
  leave before (`StreamAbandoned`).
- *Cancellation.* The repository cancels a request in one way: the orchestrator's
  `wait_for` around a stage that ends in `intent_classifier.py:688-710`, outside any
  conversation. `Cancelled` lets any call be cancelled wherever it waits, since each public
  method may be awaited under a timeout.
- *The service.* `LLMService` is an interface whose calls wait. The one backend in the repository
  (Mistral) computes without suspending unless it streams; the modules of the others are
  missing. A backend that waits is what the interface and its callers are written for.

## 3. The runs

Passing runs (every action of a module fires in at least one of them):

| Run | Configuration | Instance | Shows |
|---|---|---|---|
| `orchestrator_safety` | `MC_Orchestrator` | 2 requests, 2 conversations, 5 option records, cold start, all outside calls, symmetry | `MetricsAccount`, `ActiveInFlight`, `OnePipelinePerConversation`, `OutcomeMatches`, `NoOrphanTasks`, `CompletedWithTicket`, `VerdictIsFinal` |
| `orchestrator_queue` | `MC_OrchestratorLive` | 3 requests of 1 conversation, stop and cancellations | `EveryCallReturns` |
| `audio_queue` | `MC_AudioQueue` | 2 producers, 2 workers, deque of 2, 3 chunks, 1 retry, priorities 2..4, symmetry | `Conservation`, `OnePlace`, `RegistryExplained`, `EvictionOrder`, `CleanupExact`, `ImplementsChunkLife` |
| `streams_sending` | `MC_AudioStreams` | 2 streams, 2 callers, 2 connections, buffer of 2, 3 numbers, DROP_OLDEST and BLOCK; callers connect, send, pause, resume, disconnect | `NumbersUnique` |
| `streams_lifecycle` | `MC_AudioStreamsLive` | 1 stream connected, 1 caller (connects, sends heartbeats), two starts with their loops, and stops | `TablesAgree`, `StopIsThorough`, `DisconnectEnds`, `SilentIsSwept` |
| `sockets` | `MC_VoiceSockets` | 2 clients of one user, own sessions, limit 1, 2 messages | `TablesAgree`, `OnlyUnstartedLinger`, `LeaverEnds`, `SlotFreed` |
| `scheduler` | `MC_Scheduler` | 2 default tasks in a table of 2, room for 2 loops, 1 caller, 3 calls (tasks that run once, have a naive time or an unknown function), 1 fault | `Durable`, `DueTaskRuns`, `StopQuiets` |
| `tasks` | `MC_TaskQueue` | 1 task of any of the 20 kinds, 2 workers, 2 retries, breaker at 1, 3 faults | `AttemptBudget`, `VerdictIsEarned`, `EveryTaskSettles` |
| `dialogues` | `MC_Dialogues` | 3 calls, 2 conversations of 1 session, summaries every 2 messages, 1 day, 1 shutdown, cancellations | `ExchangesWhole`, `SegmentsOnce`, `SessionsExplained`, `CallsEnd` |

Each component's `TypeOK` is checked by one of its runs. The largest runs are
`audio_queue` with 3.7 and `streams_sending` with 2.2 million distinct states; `tasks` has 1.5,
`dialogues` 1.3, `orchestrator_safety` 0.9, `scheduler` 0.5 and `streams_lifecycle` 0.3 million.

Why the bounds are enough for what they ask. Orchestrator: the requests of different
conversations share only counters and initialisation, so two requests give every pair of
steps, in one conversation or in two, and the five option records take every branch of both
pipelines; a third request is needed only for a waiter behind a waiter, which
`orchestrator_queue` has. AudioQueue: a full deque, an eviction that has to choose between
priorities and ages, a retry into a full deque and a waiting producer meet with a deque of
two, three chunks, two priorities that eviction may take and one it may not; 1 retry
tells the first failure from the last. AudioStreams: the deque of two overflows at the third
number; two streams make a broadcast visit one while the other changes. The
sending run leaves the loops out (`MaxStarts = 0`); the lifecycle run leaves chunks out and
connects one stream, which a caller, either loop and `stop()` disconnect at once. Of its two
starts the second may overtake a stop of the first, or follow it.
VoiceSockets: with a limit of one, two clients meet in every phase of connecting; the
first audio message goes to `receive_text` and the second to `receive_bytes`.
Scheduler: a removal and an addition change the table's size under a pass over it; a stop
and a start give two loops; a caller's and a loop's copies overlap; three calls are enough
for each of these, and one fault for a crash, a lost copy, a failed load or an expired key
at any point of them; a default task stands before or behind one with a naive time. TaskQueue: tasks share only the workers' breaker counts, per process
and kind, and a breaker of 1 opens at the task's own first refused send; two workers run the two messages that a crash
leaves; two retries tell a first, a middle and a last attempt apart (the code has three); three
faults are a crash, a failed retry and a lost process of one task, in any order.
Dialogues: with a threshold of two every exchange ends a segment or sits across the border
of two; three calls put two exchanges and a change of state, or a third exchange, around one
summary; two conversations of one session are the old and the new one of a cleanup. Deadlock is not
checked where the system may stop (`CHECK_DEADLOCK FALSE`): requests are done, the bound on
calls is reached. `sockets` checks it: the monitor never stops.

The violation runs are in section 6.

## 4. Fairness

Weak fairness only, and only of what the code's scheduling gives.

- *Orchestrator:* the event loop runs a coroutine that owns the lock,
  initialisation ends one way or the other, and the pipeline's timeout fires. Nothing is
  assumed of the services during the pipeline, nor that a created task starts. Each condition holds only while the event loop
  is not blocked, so `EveryCallReturns` fails in the freeze run by the freeze alone.
- *AudioStreams:* ready coroutines run, the loops wake up, and `send_text` ends, at the
  latest when the connection is lost. Callers need not call.
- *VoiceSockets:* the same, for accept, send, close, the constructor, the receive loop and
  the monitor; time passes (a registered client that says nothing falls silent). Clients need
  not connect, send or leave.
- *Scheduler:* Redis answers each write, a loop in its sleep or in a task goes on, `start`
  goes through its defaults. Callers need not call, faults need not happen, and times need not
  come.
- *TaskQueue:* a worker process that has a message, or for which one waits, goes on. Nothing is assumed of the
  outcome of a call, and the number of faults is bounded: with crashes for ever no task need
  end.
- *Dialogues:* the model answers or fails, and the call goes on. This is an assumption about
  the `LLMService`: this code puts no timeout around any of its calls. A frozen loop runs nothing, and
  `CallsEnd` excepts it.
- *AudioQueue* has no liveness properties: a blocked put waits for workers that owe it nothing.

## 5. The proofs

TLAPS proves every safety property that the passing runs check, invariants, action
properties and the refinement, for any number of requests, conversations, chunks, workers,
streams, callers, clients, loops, tasks and sessions, and every value of the bounds. TLC
checked the properties, and the inductive invariants behind them, on the instances of
section 3 first.

| Theorem | States (`Spec => ...`) | Argument |
|---|---|---|
| `TypeCorrect` (Orchestrator) | `[]TypeOK` | part of `IInv` |
| `MutualExclusion` | `[]OnePipelinePerConversation` | `IInv`: types; a request in the pipeline is the holder of the lock object it asked for; unless the conversation's entry was ever deleted, that object is the listed one. Two requests of one conversation then share one lock object, which has one holder. |
| `OutcomeAlwaysMatches`, `NeverOrphans`, `AlwaysTicketed` | `[]OutcomeMatches`, `[]NoOrphanTasks`, `[]CompletedWithTicket` | `Sound(r)` for each request `r`: how far its coroutine came and whether it asked for a lock (`Phased`), what the response says before and after the verdict (`Judged`), which of the three tasks there are in which phase (`Tasked`), and that the ticket stage is passed only with a ticket verdict (`Ticketed`) |
| `VerdictAlwaysFinal` | `VerdictIsFinal` | in a `Sound` state no step of a request that is done exists but its ticket task's, which writes neither state nor success |
| `ActiveAlwaysInFlight`, `MetricsAlwaysAccount` | `[]ActiveInFlight`, `[]MetricsAccount` | `Booked(r)`: each step of a request lets it in, returns it, or leaves table and counters alone; the cardinality of the requests let in and of those returned with an outcome follows |
| `QueueTypeCorrect` (AudioQueue) | `[]TypeOK` | an eviction or a refusal precedes each append to a full deque |
| `OnePlaceAlways` | `[]OnePlace` | `Located`: nobody holds or queues a chunk twice; the queue is registered, what producers offer is not; nothing is in two of these |
| `RegistryAlwaysExplained` | `[]RegistryExplained` | `Tracked`: `status`, `retries` and `deliveries` follow the place of a chunk; each overflow of a retry leaves one registered chunk in no queue |
| `ChunksConserved` | `[]Conservation` | the sum of `deliveries` grows by one where the model adds one; the sum over chunks is a recursive function, whose values come from an induction on the number of chunks through a least counterexample |
| `EvictionAlwaysInOrder`, `CleanupAlwaysExact` | `EvictionOrder`, `CleanupExact` | from `Located`: positions stand for chunks, so removing positions removes exactly those chunks |
| `QueueImplementsChunkLife` | `ImplementsChunkLife` | `Stage` tells the stage of a chunk by its place; each action of the queue is the action of `ChunkLife` of the same chunk, with at most one other chunk dropped, or a stutter |
| `StreamsTypeCorrect` (AudioStreams) | `[]TypeOK` | `DROP_OLDEST` and the bounded append keep the buffer within its length |
| `TablesAlwaysAgree` | `[]TablesAgree` | stream numbers are fresh, so that the cardinality follows each addition and removal; a removal tests the table again |
| `StopAlwaysThorough` | `[]StopIsThorough` | the streams `stop()` found and that are left are the one it is at and those it has yet to visit; visiting in creation order passes over none |
| `NumbersAlwaysUnique` | `[]NumbersUnique` | `NumbersInv`: also the numbers in flight are below the next one, and nothing is sent to a stream not yet created; dropping, the bounded append and a new number keep this, whatever the other sends do |
| `SocketsTypeCorrect` (VoiceSockets) | `[]TypeOK` | includes that an endpoint awaits exactly in its waiting phases |
| `SocketTablesAgree` | `[]TablesAgree` | every step is one registration, one removal, or leaves the registry alone |
| `OnlyUnstartedEverLinger` | `[]OnlyUnstartedLinger` | per endpoint: not registered before it is accepted; in the leaving phase it awaits a close, never a send; over only unregistered or unstarted |
| `SchedulerTypeCorrect` (Scheduler) | `[]TypeOK` | `Typed`: every table and every copy on its way holds whole entries, each id once; there is room for the defaults still to come (`Roomy`); `next_run` is ahead of the loops that took the task up (`Paced`), so its bound holds |
| `AlwaysDurable` | `[]Durable` | `InStep`: while nothing was disturbed at most one copy is on its way, it is the table there is, and that table is what was promised |
| `TasksTypeCorrect` (TaskQueue) | `[]TypeOK` | with what each kind's program looks like |
| `AttemptsWithinBudget` | `[]AttemptBudget` | each message that waits still has the attempts of its retries (`Credits`), each worker those after its own (`Later`); attempts made, credits and later ones together never exceed the budget; an effect is made once per attempt (`OneEffect`); without a crash a task is in one place (`Alone`) |
| `VerdictAlwaysEarned` | `[]VerdictIsEarned` | `Earnings`: what a worker has passed in its program can succeed and was made; `AllReached`: a message with `r` retries has `r` attempts behind it; `Failures`: a task that failed and has nothing under way made its last attempt, was purged or was cut; `Sound`: without a fault no breaker counted anything |
| `DialoguesTypeCorrect` (Dialogues) | `[]TypeOK` | with what a conversation that is not there holds: nothing; and that one that is there belongs to a manager with services, initialised or not |
| `SessionsAlwaysExplained` | `[]SessionsExplained` | a cleanup that deletes the entry of a live conversation does it for an older one of the session |
| `SegmentsSummarisedOnce` | `[]SegmentsOnce` | `Segments`: for each segment there is, exactly one of an asking call, a written summary, a miss |
| `ExchangesAlwaysWhole` | `[]ExchangesWhole` | `Exchanges`: each message is its call's, once, an answer behind its question; a call between the two has a live conversation that is not old, or a shutdown came; no call is past the warm-up of a manager that is not `Ready`, so a replaced conversation manager interrupts no exchange unnoticed; a cancelled call leaves what it recorded |

The safety properties are seldom inductive by themselves: mutual exclusion says nothing of
the lock, the counters nothing of the phase that decides whether a request was counted,
uniqueness of numbers nothing of the next number, thoroughness nothing of where `stop()` is,
the budget nothing of the messages that wait. The additions are the ones in the last column.
The proofs are laid out alike. A predicate of one request, call, task or worker is kept by
the steps of that one, action by action; a lemma says that everybody else's is kept by any
step that leaves them alone (`Apart`, `OthersStay`, `OthersRest`, `ToldApart`); a third joins
the two. Helpers of the models have a lemma each (`First`, `DropOldest`, `AppendBounded`,
`Without`, `Keep`, `Enter`, `Leave`), so that proofs about steps need not look into them.

Assumptions: only the modules' named assumptions on their constants, which TLC evaluates
in every run. They say that bounds are natural numbers, sets of options are subsets of what
the code has, and names that stand for "nobody" or for a coroutine of the code's own
(`"monitor"`, `"setup"`, `"start"`, the loops and stops of the streams) are not callers, loops or clients. `Scheduler` assumes that
its loops are finitely many (each is created by a call of `start`) and are not callers;
`Dialogues` that there is a session at all, since a context always has one.

Only model-checked: liveness (`EveryCallReturns`, `DisconnectEnds`, `SilentIsSwept`,
`LeaverEnds`, `SlotFreed`, `DueTaskRuns`, `StopQuiets`, `EveryTaskSettles`, `CallsEnd`), since
the prover does not reason about fairness and ENABLED; and the three violations of
section 6, which are counterexamples.

## 6. What disagrees with the documentation

Each has a run that TLC ends with a counterexample.

| Run | Property | What happens |
|---|---|---|
| `orchestrator_late_ticket` | `ReturnedResponseIsFinal` | The pipeline times out while the ticket task works; the task is not cancelled and writes into the response the caller already has. |
| `orchestrator_cold_freeze` | `EveryCallReturns` | Two first requests: the second blocks the event loop on the threading lock the first one holds over its awaits. |
| `sockets_chunks` | `ChunksHandled` | While the endpoint waits in `receive_text`, a chunk of audio is taken off the websocket and dropped: of a stream of chunks, every other one. |

The quoted lines and the code are under `findings` in `PROJECT.json`.

Met while modelling, without a run of their own. The models have the behaviour where they
reach that far; the properties are stated so as to allow it, and name it.

- The retry of a failed chunk is appended to a full bounded deque (`queue_system.py:407`):
  another chunk is pushed out without an error and stays registered as pending
  (`RegistryExplained` counts these; `TryAgain` of `ChunkLife` names the loss).
- The BLOCK strategy waits for a buffer that only sends of the same stream touch
  (`stream_manager.py:367`): once the buffer is half full no send returns (`Poll`).
- A one-time task keeps its `run_at` after it was run and is run in every pass of the loop
  (`scheduled_tasks.py:307`; `NextRun`).
- "Weekly report - Mondays at 9 AM" (`scheduled_tasks.py:374`) runs daily:
  `_calculate_next_run` looks at hour and minute only.
- A load that fails leaves the table empty, and `start` then stores the defaults over what
  was there (`Boot`, `ScheduleDefault`).
- Fourteen of the twenty background tasks raise on every attempt, at the lines of the table in
  section 2: no ticket is created or changed, no mail, SMS or report goes out, and each costs
  four attempts (`Impossible`, `VerdictIsEarned`). The mock answer of `send_sms_notification`
  for other providers (583-590) is behind the read of `settings.sms_provider`, a field the
  settings do not have, and is not reached.
- A `start()` of the streams while `stop()` waits loses its loops and reports a running manager
  (`stream_manager.py:525`; `overtaken`).
- A one-time task with a naive `run_at` ends every pass of the scheduler's loop at its entry
  (`scheduled_tasks.py:202`; `Raises`), and one with an unknown function never runs (`:220`).
- A request cancelled in the warm-up of `LLMManager` leaves a manager that is not initialised
  and serves; the next request drops its conversations (`llm_manager.py:122`; `stale`).
- The parallel pipeline may time out after recognition has failed for good: the caller gets
  a timeout whose stage is FAILED (`conversation_orchestrator.py:884`; `SttTaskFailed`).
- `cancel_task` revokes by remote control, which `worker_enable_remote_control = False`
  turns off, and `purge_queue` purges all queues.
- A shutdown of `LLMManager` during the warm-up leaves a manager that is initialised and has no
  services: every request fails until it is shut down once more (`hollow`).
- `summaries[-1]`, which the context calls the latest, may be of an older segment, since
  summaries are appended as the model returns them.
- Cleaning up an old conversation deletes its session's entry also when that points to a newer,
  live conversation (`SessionsExplained` names the exception).
- A resolved conversation is opened again by an answer that arrives later.

## 7. What is not modelled

Of the modelled components: `CircularAudioBuffer`, `PriorityAudioQueue` and
`AudioQueueManager`; the receiving direction, quality adaptation and metrics of the audio
streams; `send_to_session`, `send_to_user` and `broadcast` of the websocket's manager, which
nothing calls, and the admin websocket, which only reads; what the scheduler's ten built-in
functions do; `TaskManager`'s queries and `cancel_task`, which has no effect; the text
analysis of the conversation manager, prompt optimisation and the knowledge base; statistics
everywhere except the conversation counters. Only the scheduler's table and Celery's messages
outlive a process; a restart loses the queues, streams, connections and dialogues.

Components without a module are under `components` in `PROJECT.json` with status
`not_modelled` and the reason. Most of the repository's lines are of these kinds, and a state machine
of them would say nothing:

- *Pure data:* signal processing, text rules, prompts and templates, scores, reports, schemas,
  generated test data, pages. No interleaving and no failure to explore, and the
  numbers and texts are what they are about.
- *A library's hard part:* SQLAlchemy sessions and queries, FastAPI request handling, model
  inference, Celery's own delivery.
- *Code that cannot run as written.* `DatabaseManager.initialize` never reaches CONNECTED
  (`manager.py:189-196` against `:380-381`) and its transaction generator yields twice;
  `TicketingService` calls the ticket repository with arguments it does not take; `workers/circuit_breaker.py` cannot be imported
  (`List` is missing); `WorkerManager`'s pool table stays empty with remote control off. A model
  would have to invent the program that was meant.

*Missing modules.* `workers/tasks.py`, which `TaskQueue` models, cannot be imported as the
repository stands: `services.audio_processing`, `services.ai.text_analysis`,
`services.ai.text_to_speech`, `services.notifications.email_service`, `services.reporting`,
`core.cache` and `core.metrics` do not exist, nor does `get_feedback_repository`, and
`database/__init__.py` imports functions that are methods of `RepositoryFactory`. The model
takes the file's own code as written; a call of a missing module may succeed or raise. The
same holds of `services/llm`, whose backends `ollama_service`, `llama_cpp_service`,
`vllm_service`, `transformers_service` and `openai_service` are missing.

## 8. The plan

The order is by what would hurt most: the pipeline every request takes, then the audio path
to it, then the background work and the watchers.

1. `Orchestrator`, with all its safety properties proved. Done.
2. `AudioQueue`, and `ChunkLife` that it implements, all its properties and the refinement
   proved. Done.
3. `AudioStreams`, with tables, types, stop and sequence numbers proved. Done.
4. `VoiceSockets`, with types, tables and lingering proved. Done.
5. `Scheduler`, `TaskQueue`, `Dialogues`, with all their safety properties proved. Done.
6. More theorems, where they say something the properties do not: the step invariants of the
   history variables (`dropped`, `disturbed`, `missed`, `crashes`), that the orchestrator's lock
   table and its list of active conversations are emptied together, and an abstract
   specification of a call of `process_conversation` for the orchestrator to implement.
7. `Alerting`: rules evaluated together by `gather`, a threading lock held over awaits, the
   life cycle of an alert. What reading it found: the second rule to reach the lock blocks the
   loop (`alerting.py:604`); a PENDING alert never becomes FIRING (`:628`); a stop during a
   resolution's notification leaves a RESOLVED alert among the active ones; the evaluation of
   a rule that was removed meanwhile can leave an alert nobody resolves; `update_rule` of an
   unknown rule waits for the lock it holds.
8. `ContinuousStream` (chunks that complete out of order, a stop that waits for nothing) and
   `EventStream` (server-sent events cleared after the yields that send them).

Modules that are proved about use recursive functions and library operators only, no
RECURSIVE declarations; parameters are CONSTANTS with named assumptions; invariants are
conjunctions of named parts.

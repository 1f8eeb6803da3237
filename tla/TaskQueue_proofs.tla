-------------------------- MODULE TaskQueue_proofs ---------------------------
(***************************************************************************)
(* Theorems about TaskQueue, for any tasks, workers, kinds, retries and    *)
(* faults: the type invariant, how often a task is attempted and its       *)
(* effects happen, and what a stored SUCCESS or FAILURE stands for.        *)
(***************************************************************************)
EXTENDS TaskQueue, FiniteSetTheorems, TLAPS

-----------------------------------------------------------------------------
(* What the proofs need to know of the programs, and no more.                *)

ProgramNames ==
    {"process_audio_chunk", "transcribe_audio", "generate_voice_response", "create_ticket",
     "update_ticket", "escalate_ticket", "auto_assign_ticket", "send_email", "send_sms",
     "send_webhook", "compute_analytics", "generate_report", "update_dashboard",
     "sentiment_analysis", "intent_classification", "text_classification",
     "cleanup_sessions", "cleanup_files", "backup_database", "optimize_database"}

\* A program is a sequence of calls.
LEMMA ProgramShape ==
    /\ DOMAIN Program = ProgramNames
    /\ \A k \in DOMAIN Program :
          Len(Program[k]) \in Nat /\ DOMAIN Program[k] = 1 .. Len(Program[k])
<1>1. DOMAIN Program = ProgramNames
  BY DEF Program, ProgramNames
<1>2. ASSUME NEW k \in ProgramNames
      PROVE  Program[k] \in {ProcessAudioChunk, TranscribeAudio,
             GenerateVoiceResponse, CreateTicket, UpdateTicket,
             EscalateTicket, AutoAssignTicket, SendEmail, SendSms,
             SendWebhook, ComputeAnalytics, GenerateReport,
             UpdateDashboard, SentimentAnalysis,
             IntentClassification, TextClassification,
             CleanupSessions, CleanupFiles, BackupDatabase,
             OptimizeDatabase}
  BY <1>2 DEF Program, ProgramNames
<1>3. \A s \in {ProcessAudioChunk, TranscribeAudio, GenerateVoiceResponse, CreateTicket, UpdateTicket} :
         Len(s) \in Nat /\ DOMAIN s = 1 .. Len(s)
  BY DEF ProcessAudioChunk, TranscribeAudio, GenerateVoiceResponse, CreateTicket, UpdateTicket
<1>4. \A s \in {EscalateTicket, AutoAssignTicket, SendEmail, SendSms, SendWebhook} :
         Len(s) \in Nat /\ DOMAIN s = 1 .. Len(s)
  BY DEF EscalateTicket, AutoAssignTicket, SendEmail, SendSms, SendWebhook
<1>5. \A s \in {ComputeAnalytics, GenerateReport, UpdateDashboard, SentimentAnalysis, IntentClassification} :
         Len(s) \in Nat /\ DOMAIN s = 1 .. Len(s)
  BY DEF ComputeAnalytics, GenerateReport, UpdateDashboard, SentimentAnalysis, IntentClassification
<1>6. \A s \in {TextClassification, CleanupSessions, CleanupFiles, BackupDatabase, OptimizeDatabase} :
         Len(s) \in Nat /\ DOMAIN s = 1 .. Len(s)
  BY DEF TextClassification, CleanupSessions, CleanupFiles, BackupDatabase, OptimizeDatabase
<1> QED BY <1>1, <1>2, <1>3, <1>4, <1>5, <1>6

\* No program has two effects.
LEMMA ProgramEffects ==
    \A k \in DOMAIN Program : \A i, j \in DOMAIN Program[k] :
        Program[k][i] \in Effects /\ Program[k][j] \in Effects => i = j
<1>1. ASSUME NEW k \in ProgramNames
      PROVE  \A i, j \in DOMAIN Program[k] :
                 Program[k][i] \in Effects /\ Program[k][j] \in Effects => i = j
  BY <1>1 DEF Program, ProgramNames, Effects, ProcessAudioChunk, TranscribeAudio,
     GenerateVoiceResponse, CreateTicket, UpdateTicket, EscalateTicket, AutoAssignTicket,
     SendEmail, SendSms, SendWebhook, ComputeAnalytics, GenerateReport, UpdateDashboard,
     SentimentAnalysis, IntentClassification, TextClassification, CleanupSessions,
     CleanupFiles, BackupDatabase, OptimizeDatabase
<1> QED BY <1>1, ProgramShape

LEMMA KindProgram == \A k \in Kinds : k \in DOMAIN Program
BY ConstantsAssumption

-----------------------------------------------------------------------------
(* Types.                                                                    *)

\* What TypeOK needs to be inductive: an idle worker starts from the beginning, and
\* only what was enqueued has messages.
Settings ==
    /\ \A w \in Worker : phase[w] = "idle" => tried[w] = 0 /\ pos[w] = 1
    /\ \A t \in Task : kind[t] = NoKind => status[t] = "none" /\ \A r \in Retries : queue[t][r] = 0

Phases == {"idle", "run", "raised", "acknowledge"}

\* The workers' part of TypeOK and Settings, and the rest.
WorkersTyped ==
    /\ hand \in [Worker -> Task \union {NoTask}]
    /\ tried \in [Worker -> Retries]
    /\ phase \in [Worker -> Phases]
    /\ pos \in [Worker -> Nat \ {0}]
    /\ \A w \in Worker :
          /\ phase[w] = "idle" <=> hand[w] = NoTask
          /\ phase[w] = "idle" => tried[w] = 0 /\ pos[w] = 1

PlacesTyped ==
    \A w \in Worker : hand[w] # NoTask => kind[hand[w]] # NoKind /\ pos[w] <= Len(Steps(w)) + 1

QueueTyped ==
    /\ queue \in [Task -> [Retries -> Nat]]
    /\ \A t \in Task : kind[t] = NoKind => \A r \in Retries : queue[t][r] = 0

TasksTyped ==
    /\ kind \in [Task -> Kinds \union {NoKind}]
    /\ status \in [Task -> Statuses]
    /\ \A t \in Task : kind[t] = NoKind => status[t] = "none"

HistoryTyped ==
    /\ faults \in 0 .. MaxFaults
    /\ deliveries \in [Task -> Nat] /\ effects \in [Task -> Nat]
    /\ crashes \in [Task -> Nat]
    /\ purged \subseteq Task /\ cut \subseteq Task

BreakersTyped == failures \in [Worker -> [DOMAIN Program -> 0 .. Threshold]]

Typed == TypeOK /\ Settings

\* Typed, part by part.
LEMMA TypedParts ==
    Typed <=> /\ WorkersTyped /\ PlacesTyped /\ QueueTyped
              /\ TasksTyped /\ HistoryTyped /\ BreakersTyped
BY DEF Typed, TypeOK, Settings, Phases, WorkersTyped, PlacesTyped, QueueTyped, TasksTyped,
   HistoryTyped, BreakersTyped

LEMMA TypedPartsNext ==
    Typed' <=> /\ WorkersTyped' /\ PlacesTyped' /\ QueueTyped'
               /\ TasksTyped' /\ HistoryTyped' /\ BreakersTyped'
BY DEF Typed, TypeOK, Settings, Phases, WorkersTyped, PlacesTyped, QueueTyped, TasksTyped,
   HistoryTyped, BreakersTyped

LEMMA InitTyped == Init => Typed
<1> SUFFICES ASSUME Init PROVE Typed
  OBVIOUS
<1>1. 0 \in Retries /\ 0 \in 0 .. MaxFaults /\ 0 \in 0 .. Threshold
  BY ConstantsAssumption DEF Retries
<1>2. WorkersTyped
  BY <1>1, ConstantsAssumption DEF Init, WorkersTyped, Phases
<1>3. PlacesTyped
  BY DEF Init, PlacesTyped
<1>4. QueueTyped
  BY DEF Init, QueueTyped
<1>5. TasksTyped
  BY DEF Init, TasksTyped, Statuses
<1>6. HistoryTyped
  BY <1>1 DEF Init, HistoryTyped
<1>7. BreakersTyped
  BY <1>1 DEF Init, BreakersTyped
<1> QED BY <1>2, <1>3, <1>4, <1>5, <1>6, <1>7, TypedParts

\* A worker that holds a task has a program to run.
LEMMA HoldsProgram ==
    ASSUME Typed, NEW w \in Worker, phase[w] # "idle"
    PROVE  /\ hand[w] \in Task /\ tried[w] \in Retries /\ tried[w] \in Nat
           /\ kind[hand[w]] \in Kinds /\ kind[hand[w]] \in DOMAIN Program
           /\ Len(Steps(w)) \in Nat /\ DOMAIN Steps(w) = 1 .. Len(Steps(w))
           /\ pos[w] \in Nat /\ 1 <= pos[w] /\ pos[w] <= Len(Steps(w)) + 1
           /\ AtStep(w) => pos[w] \in DOMAIN Steps(w)
<1>1. WorkersTyped /\ PlacesTyped /\ TasksTyped
  BY TypedParts
<1>2. hand[w] \in Task /\ hand[w] # NoTask /\ tried[w] \in Retries /\ pos[w] \in Nat \ {0}
  BY <1>1 DEF WorkersTyped
<1>3. kind[hand[w]] \in Kinds /\ pos[w] <= Len(Steps(w)) + 1
  BY <1>1, <1>2 DEF PlacesTyped, TasksTyped
<1>4. kind[hand[w]] \in DOMAIN Program
  BY <1>3, KindProgram
<1>5. Len(Steps(w)) \in Nat /\ DOMAIN Steps(w) = 1 .. Len(Steps(w))
  BY <1>4, ProgramShape DEF Steps
<1>6. tried[w] \in Nat
  BY <1>2, ConstantsAssumption DEF Retries
<1>7. 1 <= pos[w] /\ (AtStep(w) => pos[w] \in DOMAIN Steps(w))
  BY <1>2, <1>5 DEF AtStep
<1> QED BY <1>2, <1>3, <1>4, <1>5, <1>6, <1>7

\* A worker that is freed is idle, at the beginning.
LEMMA FreeTyped ==
    ASSUME Typed, NEW w \in Worker, Free(w), kind' = kind
    PROVE  WorkersTyped' /\ PlacesTyped'
<1>1. WorkersTyped /\ PlacesTyped
  BY TypedParts
<1>2. 0 \in Retries
  BY ConstantsAssumption DEF Retries
<1>3. WorkersTyped'
  BY <1>1, <1>2, ConstantsAssumption DEF Free, WorkersTyped, Phases
<1>4. \A v \in Worker : v # w => hand'[v] = hand[v] /\ pos'[v] = pos[v]
  BY <1>1 DEF Free, WorkersTyped
<1>5. hand'[w] = NoTask
  BY <1>1 DEF Free, WorkersTyped
<1> QED BY <1>1, <1>3, <1>4, <1>5 DEF PlacesTyped, Steps

\* A breaker stays within its threshold, whatever apply_async does.
LEMMA BreakerStep ==
    ASSUME BreakersTyped, NEW w \in Worker, NEW k \in DOMAIN Program,
           Sent(w, k) \/ SendRefused(w, k) \/ SendFails(w, k)
    PROVE  BreakersTyped'
<1>1. failures[w][k] \in 0 .. Threshold /\ failures[w] \in [DOMAIN Program -> 0 .. Threshold]
  BY DEF BreakersTyped
<1>2. 0 \in 0 .. Threshold /\ 1 \in 0 .. Threshold
  BY ConstantsAssumption
<1>3. (IF MayRefuse(w, k) THEN 1 ELSE failures[w][k] + 1) \in 0 .. Threshold
  BY <1>1, <1>2, ConstantsAssumption DEF MayRefuse
<1>4. \A n \in 0 .. Threshold : failures' = [failures EXCEPT ![w][k] = n] => BreakersTyped'
  BY <1>1 DEF BreakersTyped
<1>5. CASE Sent(w, k)
  BY <1>2, <1>4, <1>5 DEF Sent
<1>6. CASE SendRefused(w, k)
  BY <1>6 DEF SendRefused, BreakersTyped
<1>7. CASE SendFails(w, k)
  BY <1>3, <1>4, <1>7 DEF SendFails
<1> QED BY <1>5, <1>6, <1>7

\* A worker that goes on with its task keeps it.
LEMMA GoOnTyped ==
    ASSUME Typed, NEW w \in Worker, phase[w] # "idle",
           NEW n \in Nat \ {0}, n <= Len(Steps(w)) + 1,
           NEW f \in {"run", "raised", "acknowledge"},
           hand' = hand, tried' = tried, kind' = kind,
           phase' = [phase EXCEPT ![w] = f],
           pos' = [pos EXCEPT ![w] = n]
    PROVE  WorkersTyped' /\ PlacesTyped'
<1>1. WorkersTyped /\ PlacesTyped
  BY TypedParts
<1>2. WorkersTyped'
  BY <1>1 DEF WorkersTyped, Phases
<1>3. PlacesTyped'
  BY <1>1 DEF PlacesTyped, WorkersTyped, Steps
<1> QED BY <1>2, <1>3

\* The queue keeps its type when one count changes, of a task that was enqueued.
LEMMA QueueStep ==
    ASSUME QueueTyped, NEW t \in Task, NEW r \in Retries, NEW n \in Nat, kind'[t] # NoKind,
           queue' = [queue EXCEPT ![t][r] = n],
           \A u \in Task : u # t => kind'[u] = kind[u]
    PROVE  QueueTyped'
<1>1. queue' \in [Task -> [Retries -> Nat]]
  BY DEF QueueTyped
<1>2. \A u \in Task : u # t => queue'[u] = queue[u]
  BY DEF QueueTyped
<1> QED BY <1>1, <1>2 DEF QueueTyped

\* The tasks keep their types when a status changes, of a task that was enqueued.
LEMMA StatusStep ==
    ASSUME TasksTyped, NEW t \in Task, NEW s \in Statuses, kind[t] # NoKind,
           kind' = kind, status' = [status EXCEPT ![t] = s]
    PROVE  TasksTyped'
BY DEF TasksTyped

LEMMA EnqueueTyped ==
    ASSUME Typed, NEW t \in Task, NEW k \in Kinds, Enqueue(t, k)
    PROVE  Typed'
<1>1. /\ WorkersTyped /\ PlacesTyped /\ QueueTyped /\ TasksTyped /\ HistoryTyped /\ BreakersTyped
  BY TypedParts
<1>2. k # NoKind
  BY KindProgram, ProgramShape DEF NoKind, ProgramNames
<1>3. WorkersTyped' /\ HistoryTyped' /\ BreakersTyped'
  BY <1>1 DEF Enqueue, workerVars, history, WorkersTyped, HistoryTyped, BreakersTyped
<1>4. /\ kind' = [kind EXCEPT ![t] = k] /\ kind[t] = NoKind
      /\ kind \in [Task -> Kinds \union {NoKind}]
      /\ status' = [status EXCEPT ![t] = "PENDING"]
      /\ hand' = hand /\ pos' = pos
  BY <1>1 DEF Enqueue, TasksTyped, workerVars
<1>5. TasksTyped'
  BY <1>1, <1>2, <1>4 DEF TasksTyped, Statuses
<1>6. QueueTyped'
  <2>1. queue' = [queue EXCEPT ![t][0] = 1] /\ 0 \in Retries
    BY ConstantsAssumption DEF Enqueue, Retries
  <2>2. kind'[t] # NoKind /\ \A u \in Task : u # t => kind'[u] = kind[u]
    BY <1>2, <1>4
  <2> QED BY <1>1, <2>1, <2>2, QueueStep
<1>7. PlacesTyped'
  <2> SUFFICES ASSUME NEW w \in Worker, hand[w] # NoTask
               PROVE  kind'[hand[w]] # NoKind /\ pos[w] <= Len(Program[kind'[hand[w]]]) + 1
    BY <1>4 DEF PlacesTyped, Steps
  <2>1. kind[hand[w]] # NoKind /\ pos[w] <= Len(Program[kind[hand[w]]]) + 1 /\ hand[w] \in Task
    BY <1>1 DEF PlacesTyped, WorkersTyped, Steps
  <2> QED BY <1>4, <2>1
<1> QED BY <1>3, <1>5, <1>6, <1>7, TypedPartsNext

LEMMA PurgeTyped ==
    ASSUME Typed, Purge
    PROVE  Typed'
<1>1. /\ WorkersTyped /\ PlacesTyped /\ QueueTyped /\ TasksTyped /\ HistoryTyped /\ BreakersTyped
  BY TypedParts
<1>2. WorkersTyped' /\ PlacesTyped' /\ TasksTyped' /\ BreakersTyped'
  BY <1>1 DEF Purge, workerVars, WorkersTyped, PlacesTyped, TasksTyped, BreakersTyped, Steps
<1>3. QueueTyped'
  BY DEF Purge, QueueTyped
<1>4. HistoryTyped'
  BY <1>1, ConstantsAssumption DEF Purge, HistoryTyped
<1> QED BY <1>2, <1>3, <1>4, TypedPartsNext

LEMMA TakeTyped ==
    ASSUME Typed, NEW w \in Worker, NEW t \in Task, NEW r \in Retries, Take(w, t, r)
    PROVE  Typed'
<1>1. /\ WorkersTyped /\ PlacesTyped /\ QueueTyped /\ TasksTyped /\ HistoryTyped /\ BreakersTyped
  BY TypedParts
<1>2. /\ hand' = [hand EXCEPT ![w] = t] /\ tried' = [tried EXCEPT ![w] = r]
      /\ phase' = [phase EXCEPT ![w] = "run"] /\ pos' = pos /\ kind' = kind
      /\ pos[w] = 1
  BY <1>1 DEF Take, WorkersTyped
<1>3. kind[t] # NoKind /\ queue[t][r] \in Nat /\ queue[t][r] > 0
  BY <1>1 DEF Take, QueueTyped
<1>4. WorkersTyped'
  BY <1>1, <1>2, ConstantsAssumption DEF WorkersTyped, Phases
<1>5. PlacesTyped'
  <2>1. kind[t] \in Kinds /\ Len(Program[kind[t]]) \in Nat
    BY <1>1, <1>3, KindProgram, ProgramShape DEF TasksTyped
  <2>2. ASSUME NEW v \in Worker, hand'[v] # NoTask
        PROVE  kind[hand'[v]] # NoKind /\ pos[v] <= Len(Program[kind[hand'[v]]]) + 1
    <3>1. CASE v = w
      <4>1. hand'[v] = t /\ pos[v] = 1
        BY <1>1, <1>2, <3>1 DEF WorkersTyped
      <4> QED BY <1>3, <2>1, <4>1
    <3>2. CASE v # w
      <4>1. hand'[v] = hand[v]
        BY <1>1, <1>2, <3>2 DEF WorkersTyped
      <4> QED BY <1>1, <2>2, <4>1 DEF PlacesTyped, Steps
    <3> QED BY <3>1, <3>2
  <2> QED BY <1>2, <2>2 DEF PlacesTyped, Steps
<1>6. QueueTyped'
  <2>1. queue' = [queue EXCEPT ![t][r] = queue[t][r] - 1] /\ queue[t][r] - 1 \in Nat
    BY <1>3 DEF Take
  <2> QED BY <1>1, <1>2, <1>3, <2>1, QueueStep
<1>7. TasksTyped'
  BY <1>1, <1>3, StatusStep DEF Take, TasksTyped, Statuses
<1>8. HistoryTyped' /\ BreakersTyped'
  BY <1>1 DEF Take, HistoryTyped, BreakersTyped
<1> QED BY <1>4, <1>5, <1>6, <1>7, <1>8, TypedPartsNext

LEMMA PerformTyped ==
    ASSUME Typed, NEW w \in Worker, Perform(w)
    PROVE  Typed'
<1>1. /\ WorkersTyped /\ PlacesTyped /\ QueueTyped /\ TasksTyped /\ HistoryTyped /\ BreakersTyped
  BY TypedParts
<1>2. phase[w] = "run"
  BY DEF Perform, AtStep
<1>3. /\ hand[w] \in Task /\ kind[hand[w]] # NoKind
      /\ pos[w] + 1 \in Nat \ {0} /\ pos[w] + 1 <= Len(Steps(w)) + 1
  <2>1. pos[w] \in Nat /\ Len(Steps(w)) \in Nat /\ pos[w] <= Len(Steps(w)) /\ hand[w] \in Task
    BY <1>2, HoldsProgram DEF Perform, AtStep
  <2>2. hand[w] # NoTask
    BY <2>1, ConstantsAssumption
  <2> QED BY <1>1, <2>1, <2>2 DEF PlacesTyped
<1>4. /\ hand' = hand /\ tried' = tried /\ kind' = kind
      /\ phase' = [phase EXCEPT ![w] = "run"] /\ pos' = [pos EXCEPT ![w] = pos[w] + 1]
  BY <1>1, <1>2 DEF Perform, WorkersTyped
<1>5. WorkersTyped' /\ PlacesTyped'
  <2>1. PICK n \in Nat \ {0} : n = pos[w] + 1
    BY <1>3
  <2> QED BY <1>2, <1>3, <1>4, <2>1, GoOnTyped
<1>6. TasksTyped'
  <2>1. CASE status' = status
    BY <1>1, <1>4, <2>1 DEF TasksTyped
  <2>2. CASE status' = [status EXCEPT ![hand[w]] = "PROCESSING"]
    BY <1>1, <1>3, <1>4, <2>2, StatusStep DEF Statuses
  <2> QED BY <2>1, <2>2 DEF Perform
<1>7. QueueTyped' /\ BreakersTyped' /\ HistoryTyped'
  BY <1>1, <1>3 DEF Perform, QueueTyped, BreakersTyped, HistoryTyped
<1> QED BY <1>5, <1>6, <1>7, TypedPartsNext

\* A change of phase alone, with what it stores.
LEMMA PhaseTyped ==
    ASSUME Typed, NEW w \in Worker, phase[w] # "idle", NEW f \in {"run", "raised", "acknowledge"},
           UNCHANGED <<kind, hand, tried, pos>>,
           phase' = [phase EXCEPT ![w] = f],
           \/ status' = status
           \/ \E x \in Statuses : status' = [status EXCEPT ![hand[w]] = x],
           QueueTyped', HistoryTyped', BreakersTyped'
    PROVE  Typed'
<1>1. /\ WorkersTyped /\ PlacesTyped /\ TasksTyped
  BY TypedParts
<1>2. hand[w] \in Task /\ kind[hand[w]] # NoKind /\ pos[w] \in Nat \ {0} /\ pos[w] <= Len(Steps(w)) + 1
  <2>1. hand[w] \in Task /\ hand[w] # NoTask
    BY <1>1 DEF WorkersTyped
  <2> QED BY <1>1, <2>1 DEF PlacesTyped, WorkersTyped
<1>3. pos' = [pos EXCEPT ![w] = pos[w]]
  BY <1>1 DEF WorkersTyped
<1>4. PICK n \in Nat \ {0} : n = pos[w]
  BY <1>2, <1>3
<1>5. WorkersTyped' /\ PlacesTyped'
  BY <1>2, <1>3, <1>4, GoOnTyped
<1>6. TasksTyped'
  <2>1. CASE status' = status
    BY <1>1, <2>1 DEF TasksTyped
  <2>2. ASSUME NEW x \in Statuses, status' = [status EXCEPT ![hand[w]] = x]
        PROVE  TasksTyped'
    BY <1>1, <1>2, <2>2, StatusStep DEF TasksTyped
  <2> QED BY <2>1, <2>2
<1> QED BY <1>5, <1>6, TypedPartsNext

LEMMA RaiseTyped ==
    ASSUME Typed, NEW w \in Worker, Raise(w)
    PROVE  Typed'
<1>1. /\ QueueTyped /\ HistoryTyped /\ BreakersTyped
  BY TypedParts
<1>2. QueueTyped' /\ HistoryTyped' /\ BreakersTyped'
  BY <1>1 DEF Raise, history, QueueTyped, HistoryTyped, BreakersTyped
<1> QED BY <1>2, PhaseTyped DEF Raise, AtStep, Statuses

LEMMA SucceedTyped ==
    ASSUME Typed, NEW w \in Worker, Succeed(w)
    PROVE  Typed'
<1>1. /\ QueueTyped /\ HistoryTyped /\ BreakersTyped
  BY TypedParts
<1>2. QueueTyped' /\ HistoryTyped' /\ BreakersTyped'
  BY <1>1 DEF Succeed, history, QueueTyped, HistoryTyped, BreakersTyped
<1> QED BY <1>2, PhaseTyped DEF Succeed, Statuses

LEMMA RetryTyped ==
    ASSUME Typed, NEW w \in Worker, Retry(w)
    PROVE  Typed'
<1>1. /\ QueueTyped /\ HistoryTyped /\ BreakersTyped /\ PlacesTyped
  BY TypedParts
<1>2. phase[w] # "idle" /\ hand[w] \in Task /\ kind[hand[w]] \in DOMAIN Program /\ tried[w] \in Nat
  BY HoldsProgram DEF Retry
<1>3. tried[w] + 1 \in Retries
  BY <1>2, ConstantsAssumption DEF Retry, Retries
<1>4. kind'[hand[w]] # NoKind /\ kind' = kind
  BY <1>1, <1>2, ConstantsAssumption DEF Retry, PlacesTyped
<1>5. QueueTyped'
  <2>1. queue[hand[w]][tried[w] + 1] \in Nat
    BY <1>1, <1>2, <1>3 DEF QueueTyped
  <2>2. /\ queue' = [queue EXCEPT ![hand[w]][tried[w] + 1] = queue[hand[w]][tried[w] + 1] + 1]
        /\ queue[hand[w]][tried[w] + 1] + 1 \in Nat
    BY <2>1 DEF Retry
  <2> QED BY <1>1, <1>2, <1>3, <1>4, <2>2, QueueStep
<1>6. HistoryTyped' /\ BreakersTyped'
  BY <1>1, <1>2, BreakerStep DEF Retry, history, HistoryTyped
<1> QED BY <1>2, <1>5, <1>6, PhaseTyped DEF Retry, Statuses

LEMMA GiveUpTyped ==
    ASSUME Typed, NEW w \in Worker, GiveUp(w)
    PROVE  Typed'
<1>1. /\ QueueTyped /\ HistoryTyped /\ BreakersTyped
  BY TypedParts
<1>2. QueueTyped' /\ HistoryTyped' /\ BreakersTyped'
  BY <1>1 DEF GiveUp, history, QueueTyped, HistoryTyped, BreakersTyped
<1> QED BY <1>2, PhaseTyped DEF GiveUp

LEMMA RetryFailsTyped ==
    ASSUME Typed, NEW w \in Worker, RetryFails(w)
    PROVE  Typed'
<1>1. /\ QueueTyped /\ TasksTyped /\ HistoryTyped /\ BreakersTyped
  BY TypedParts
<1>2. kind[hand[w]] \in DOMAIN Program /\ hand[w] \in Task
  BY HoldsProgram DEF RetryFails
<1>3. WorkersTyped' /\ PlacesTyped'
  BY FreeTyped DEF RetryFails
<1>4. BreakersTyped'
  BY <1>1, <1>2, BreakerStep DEF RetryFails
<1>5. QueueTyped' /\ TasksTyped'
  BY <1>1 DEF RetryFails, QueueTyped, TasksTyped
<1>6. HistoryTyped'
  BY <1>1, <1>2, ConstantsAssumption DEF RetryFails, HistoryTyped
<1> QED BY <1>3, <1>4, <1>5, <1>6, TypedPartsNext

LEMMA AcknowledgeTyped ==
    ASSUME Typed, NEW w \in Worker, Acknowledge(w)
    PROVE  Typed'
<1>1. /\ QueueTyped /\ TasksTyped /\ HistoryTyped /\ BreakersTyped
  BY TypedParts
<1>2. WorkersTyped' /\ PlacesTyped'
  BY FreeTyped DEF Acknowledge
<1>3. QueueTyped' /\ TasksTyped' /\ HistoryTyped' /\ BreakersTyped'
  BY <1>1 DEF Acknowledge, history, QueueTyped, TasksTyped, HistoryTyped, BreakersTyped
<1> QED BY <1>2, <1>3, TypedPartsNext

\* A process that starts again has an empty breaker and holds nothing.
LEMMA RestartedTyped ==
    ASSUME Typed, NEW w \in Worker, Restarted(w), kind' = kind
    PROVE  WorkersTyped' /\ PlacesTyped' /\ BreakersTyped' /\ faults' \in 0 .. MaxFaults
<1>1. BreakersTyped /\ HistoryTyped
  BY TypedParts
<1>2. WorkersTyped' /\ PlacesTyped'
  BY FreeTyped DEF Restarted
<1>3. BreakersTyped'
  BY <1>1, ConstantsAssumption DEF Restarted, BreakersTyped
<1>4. faults' \in 0 .. MaxFaults
  BY <1>1, ConstantsAssumption DEF Restarted, HistoryTyped
<1> QED BY <1>2, <1>3, <1>4

LEMMA CrashTyped ==
    ASSUME Typed, NEW w \in Worker, Crash(w)
    PROVE  Typed'
<1>1. /\ QueueTyped /\ TasksTyped /\ HistoryTyped /\ PlacesTyped
  BY TypedParts
<1>2. hand[w] \in Task /\ tried[w] \in Retries
  BY HoldsProgram DEF Crash
<1>3. kind'[hand[w]] # NoKind /\ kind' = kind
  BY <1>1, <1>2, ConstantsAssumption DEF Crash, PlacesTyped
<1>4. WorkersTyped' /\ PlacesTyped' /\ BreakersTyped' /\ faults' \in 0 .. MaxFaults
  BY <1>3, RestartedTyped DEF Crash
<1>5. QueueTyped'
  <2>1. queue[hand[w]][tried[w]] \in Nat
    BY <1>1, <1>2 DEF QueueTyped
  <2>2. /\ queue' = [queue EXCEPT ![hand[w]][tried[w]] = queue[hand[w]][tried[w]] + 1]
        /\ queue[hand[w]][tried[w]] + 1 \in Nat
    BY <2>1 DEF Crash, GiveBack
  <2> QED BY <1>1, <1>2, <1>3, <2>2, QueueStep
<1>6. TasksTyped'
  BY <1>1 DEF Crash, TasksTyped
<1>7. HistoryTyped'
  BY <1>1, <1>2, <1>4 DEF Crash, HistoryTyped
<1> QED BY <1>4, <1>5, <1>6, <1>7, TypedPartsNext

LEMMA KilledTyped ==
    ASSUME Typed, NEW w \in Worker, Killed(w)
    PROVE  Typed'
<1>1. /\ QueueTyped /\ TasksTyped /\ HistoryTyped /\ PlacesTyped
  BY TypedParts
<1>2. hand[w] \in Task /\ kind[hand[w]] # NoKind
  <2>1. hand[w] \in Task
    BY HoldsProgram DEF Killed
  <2> QED BY <1>1, <2>1, ConstantsAssumption DEF PlacesTyped
<1>3. WorkersTyped' /\ PlacesTyped' /\ BreakersTyped' /\ faults' \in 0 .. MaxFaults
  BY RestartedTyped DEF Killed
<1>4. QueueTyped' /\ HistoryTyped'
  BY <1>1, <1>2, <1>3 DEF Killed, QueueTyped, HistoryTyped
<1>5. TasksTyped'
  BY <1>1, <1>2, StatusStep DEF Killed, TasksTyped, Statuses
<1> QED BY <1>3, <1>4, <1>5, TypedPartsNext

LEMMA TypedStep == Typed /\ [Next]_vars => Typed'
<1> SUFFICES ASSUME Typed, [Next]_vars PROVE Typed'
  OBVIOUS
<1>1. ASSUME NEW t \in Task, NEW k \in Kinds, Enqueue(t, k) PROVE Typed'
  BY <1>1, EnqueueTyped
<1>2. CASE Purge
  BY <1>2, PurgeTyped
<1>3. ASSUME NEW w \in Worker, WorkerStep(w) PROVE Typed'
  BY <1>3, TakeTyped, PerformTyped, RaiseTyped, SucceedTyped, RetryTyped,
     RetryFailsTyped, GiveUpTyped, AcknowledgeTyped DEF WorkerStep
<1>4. ASSUME NEW w \in Worker, Crash(w) \/ Killed(w) PROVE Typed'
  BY <1>4, CrashTyped, KilledTyped
<1>5. CASE UNCHANGED vars
  BY <1>5 DEF vars, workerVars, history, Typed, TypeOK, Settings, Steps
<1> QED BY <1>1, <1>2, <1>3, <1>4, <1>5 DEF Next

LEMMA AlwaysTyped == Spec => []Typed
BY InitTyped, TypedStep, PTL DEF Spec

\* A worker is idle exactly when it holds no message, works on tasks that were enqueued and
\* never past their programs, and no breaker counts past its threshold.
THEOREM TasksTypeCorrect == Spec => []TypeOK
<1>1. Typed => TypeOK
  BY DEF Typed
<1> QED BY <1>1, AlwaysTyped, PTL

-----------------------------------------------------------------------------
(* How the messages and the attempts of a task move.                         *)

\* Worker w is at an attempt of t that may still lead to a retry.
Live(w, t) == hand[w] = t /\ phase[w] \in {"run", "raised"}

\* The other workers go on with what they do.
OthersStay(w) ==
    \A v \in Worker \ {w} :
        /\ hand'[v] = hand[v] /\ phase'[v] = phase[v] /\ tried'[v] = tried[v]
        /\ pos'[v] = pos[v]

LEMMA WorkersApart ==
    ASSUME Typed, NEW w \in Worker, WorkerStep(w) \/ Crash(w) \/ Killed(w)
    PROVE  OthersStay(w)
<1>1. WorkersTyped
  BY TypedParts
<1>2. ASSUME Free(w) PROVE OthersStay(w)
  BY <1>1, <1>2 DEF Free, OthersStay, WorkersTyped
<1>3. ASSUME NEW t \in Task, NEW r \in Retries, Take(w, t, r) PROVE OthersStay(w)
  BY <1>1, <1>3 DEF Take, OthersStay, WorkersTyped
<1>4. CASE Perform(w)
  BY <1>1, <1>4 DEF Perform, OthersStay, WorkersTyped
<1>5. CASE Raise(w)
  BY <1>1, <1>5 DEF Raise, OthersStay, WorkersTyped
<1>6. CASE Succeed(w) \/ Retry(w) \/ GiveUp(w)
  BY <1>1, <1>6 DEF Succeed, Retry, GiveUp, OthersStay, WorkersTyped
<1>7. CASE RetryFails(w) \/ Acknowledge(w) \/ Crash(w) \/ Killed(w)
  BY <1>2, <1>7 DEF RetryFails, Acknowledge, Crash, Killed, Restarted
<1> QED BY <1>3, <1>4, <1>5, <1>6, <1>7 DEF WorkerStep

\* A step of w that sends and takes nothing: it may end w's attempt, and no more.
Quiet(w) ==
    /\ UNCHANGED <<queue, deliveries, crashes>>
    /\ \A t \in Task : Live(w, t)' => Live(w, t) /\ tried'[w] = tried[w]

\* The steps of w that ask for no more than Quiet.
QuietStep(w) ==
    \/ Perform(w) \/ Raise(w) \/ Succeed(w) \/ RetryFails(w)
    \/ GiveUp(w) \/ Acknowledge(w) \/ Killed(w)

LEMMA QuietSteps ==
    ASSUME Typed, NEW w \in Worker, QuietStep(w)
    PROVE  Quiet(w)
<1>1. WorkersTyped
  BY TypedParts
<1>2. ASSUME Free(w) PROVE \A t \in Task : ~ Live(w, t)'
  BY <1>1, <1>2, ConstantsAssumption DEF Free, Live, WorkersTyped
<1>3. CASE Perform(w)
  BY <1>1, <1>3 DEF Perform, Quiet, Live
<1>4. CASE Raise(w)
  BY <1>1, <1>4 DEF Raise, AtStep, history, Quiet, Live
<1>5. CASE Succeed(w) \/ GiveUp(w)
  <2>1. phase'[w] = "acknowledge"
    BY <1>1, <1>5 DEF Succeed, GiveUp, WorkersTyped
  <2> QED BY <1>5, <2>1 DEF Succeed, GiveUp, history, Quiet, Live
<1>6. CASE RetryFails(w) \/ Acknowledge(w) \/ Killed(w)
  <2>1. Free(w) /\ UNCHANGED <<queue, deliveries, crashes>>
    BY <1>6 DEF RetryFails, Acknowledge, Killed, Restarted, history
  <2> QED BY <1>2, <2>1 DEF Quiet
<1> QED BY <1>3, <1>4, <1>5, <1>6 DEF QuietStep

LEMMA TakeMoves ==
    ASSUME Typed, NEW w \in Worker, NEW t \in Task, NEW r \in Retries, Take(w, t, r)
    PROVE  /\ queue[t][r] \in Nat /\ queue[t][r] > 0
           /\ queue' = [queue EXCEPT ![t][r] = @ - 1]
           /\ \A u \in Task : ~ Live(w, u) /\ (Live(w, u)' <=> u = t)
           /\ hand[w] = NoTask /\ hand'[w] = t /\ tried'[w] = r /\ crashes' = crashes
           /\ deliveries' = [deliveries EXCEPT ![t] = @ + 1]
<1>1. WorkersTyped /\ QueueTyped
  BY TypedParts
<1> QED BY <1>1 DEF Take, WorkersTyped, QueueTyped, Live

LEMMA RetryMoves ==
    ASSUME Typed, NEW w \in Worker, Retry(w)
    PROVE  /\ Live(w, hand[w]) /\ hand[w] \in Task
           /\ tried[w] \in Nat /\ tried[w] + 1 \in Retries
           /\ queue' = [queue EXCEPT ![hand[w]][tried[w] + 1] = @ + 1]
           /\ \A u \in Task : ~ Live(w, u)'
           /\ deliveries' = deliveries /\ crashes' = crashes
<1>1. WorkersTyped
  BY TypedParts
<1>2. hand[w] \in Task /\ tried[w] \in Nat
  BY HoldsProgram DEF Retry
<1>3. tried[w] + 1 \in Retries
  BY <1>2, ConstantsAssumption DEF Retry, Retries
<1>4. Live(w, hand[w]) /\ \A u \in Task : ~ Live(w, u)'
  BY <1>1 DEF Retry, Live, WorkersTyped
<1> QED BY <1>2, <1>3, <1>4 DEF Retry, history

LEMMA CrashMoves ==
    ASSUME Typed, NEW w \in Worker, Crash(w)
    PROVE  /\ hand[w] \in Task /\ tried[w] \in Retries /\ tried[w] \in Nat
           /\ queue' = [queue EXCEPT ![hand[w]][tried[w]] = @ + 1]
           /\ \A u \in Task : ~ Live(w, u)'
           /\ deliveries' = deliveries /\ crashes' = [crashes EXCEPT ![hand[w]] = @ + 1]
<1>1. WorkersTyped
  BY TypedParts
<1>2. hand[w] \in Task /\ tried[w] \in Retries /\ tried[w] \in Nat
  BY HoldsProgram DEF Crash
<1>3. \A u \in Task : ~ Live(w, u)'
  BY <1>1, ConstantsAssumption DEF Crash, Restarted, Free, Live, WorkersTyped
<1> QED BY <1>2, <1>3 DEF Crash, GiveBack

LEMMA EnqueueMoves ==
    ASSUME Typed, NEW t \in Task, NEW k \in Kinds, Enqueue(t, k)
    PROVE  /\ \A r \in Retries : queue[t][r] = 0
           /\ \A w \in Worker : hand[w] # t
           /\ 0 \in Retries /\ queue' = [queue EXCEPT ![t][0] = @ + 1]
           /\ UNCHANGED <<hand, phase, tried, pos, deliveries, crashes>>
<1>1. PlacesTyped /\ QueueTyped
  BY TypedParts
<1>2. \A r \in Retries : queue[t][r] = 0
  BY <1>1 DEF Enqueue, QueueTyped
<1>3. \A w \in Worker : hand[w] # t
  BY <1>1, ConstantsAssumption DEF Enqueue, PlacesTyped
<1>4. 0 \in Retries
  BY ConstantsAssumption DEF Retries
<1>5. queue' = [queue EXCEPT ![t][0] = @ + 1]
  <2>1. queue[t][0] + 1 = 1
    BY <1>2, <1>4
  <2> QED BY <2>1 DEF Enqueue
<1> QED BY <1>2, <1>3, <1>4, <1>5 DEF Enqueue, workerVars, history

-----------------------------------------------------------------------------
(* As long as no crash gave a message back, a task has one message or one    *)
(* attempt.                                                                  *)

Alone(t) ==
    crashes[t] = 0 =>
        /\ \A r \in Retries : queue[t][r] <= 1
        /\ \A r, s \in Retries : queue[t][r] > 0 /\ queue[t][s] > 0 => r = s
        /\ \A w \in Worker : Live(w, t) => \A r \in Retries : queue[t][r] = 0
        /\ \A v, w \in Worker : Live(v, t) /\ Live(w, t) => v = w

AllAlone == \A t \in Task : Alone(t)

LEMMA AloneStep == Typed /\ AllAlone /\ [Next]_vars => AllAlone'
<1> SUFFICES ASSUME Typed, AllAlone, [Next]_vars, NEW u \in Task PROVE Alone(u)'
  BY DEF AllAlone
<1>0. QueueTyped /\ HistoryTyped /\ Alone(u) /\ \A r \in Retries : queue[u][r] \in Nat
  <2>1. QueueTyped /\ HistoryTyped /\ Alone(u)
    BY TypedParts DEF AllAlone
  <2> QED BY <2>1 DEF QueueTyped
<1>1. ASSUME NEW t \in Task, NEW k \in Kinds, Enqueue(t, k) PROVE Alone(u)'
  <2>1. /\ \A r \in Retries : queue[t][r] = 0
        /\ \A w \in Worker : ~ Live(w, t)
        /\ queue' = [queue EXCEPT ![t][0] = @ + 1] /\ 0 \in Retries
        /\ crashes' = crashes /\ \A w \in Worker : Live(w, u)' <=> Live(w, u)
    BY <1>1, EnqueueMoves DEF Live
  <2>2. CASE u = t
    <3>1. \A r \in Retries : queue'[u][r] = IF r = 0 THEN 1 ELSE 0
      BY <1>0, <2>1, <2>2 DEF QueueTyped
    <3> QED BY <2>1, <2>2, <3>1 DEF Alone
  <2>3. CASE u # t
    <3>1. queue'[u] = queue[u]
      BY <1>0, <2>1, <2>3 DEF QueueTyped
    <3> QED BY <1>0, <2>1, <3>1 DEF Alone
  <2> QED BY <2>2, <2>3
<1>2. CASE Purge
  <2>1. \A r \in Retries : queue'[u][r] = 0
    BY <1>2 DEF Purge
  <2>2. crashes' = crashes /\ \A w \in Worker : Live(w, u)' <=> Live(w, u)
    BY <1>2 DEF Purge, workerVars, Live
  <2> QED BY <1>0, <2>1, <2>2 DEF Alone
<1>3. ASSUME NEW w \in Worker, NEW t \in Task, NEW r \in Retries, Take(w, t, r) PROVE Alone(u)'
  <2>1. OthersStay(w)
    BY <1>3, WorkersApart DEF WorkerStep
  <2>2. /\ queue[t][r] > 0 /\ queue[t][r] \in Nat /\ queue' = [queue EXCEPT ![t][r] = @ - 1]
        /\ ~ Live(w, u) /\ (Live(w, u)' <=> u = t) /\ crashes' = crashes
    BY <1>3, TakeMoves
  <2>3. \A v \in Worker : v # w => (Live(v, u)' <=> Live(v, u))
    BY <2>1 DEF OthersStay, Live
  <2>4. CASE u = t
    <3>1. \A s \in Retries : queue'[u][s] = IF s = r THEN queue[u][r] - 1 ELSE queue[u][s]
      BY <1>0, <2>2, <2>4 DEF QueueTyped
    <3> QED BY <1>0, <2>2, <2>3, <2>4, <3>1 DEF Alone
  <2>5. CASE u # t
    <3>1. queue'[u] = queue[u]
      BY <1>0, <2>2, <2>5 DEF QueueTyped
    <3> QED BY <1>0, <2>2, <2>3, <2>5, <3>1 DEF Alone
  <2> QED BY <2>4, <2>5
<1>4. ASSUME NEW w \in Worker, Retry(w) PROVE Alone(u)'
  <2>1. OthersStay(w)
    BY <1>4, WorkersApart DEF WorkerStep
  <2>2. PICK t \in Task, r \in Retries : t = hand[w] /\ r = tried[w] + 1
    BY <1>4, RetryMoves
  <2>3. /\ Live(w, t) /\ queue' = [queue EXCEPT ![t][r] = @ + 1]
        /\ ~ Live(w, u)' /\ crashes' = crashes
    BY <1>4, <2>2, RetryMoves
  <2>4. \A v \in Worker : v # w => (Live(v, u)' <=> Live(v, u))
    BY <2>1 DEF OthersStay, Live
  <2>5. CASE u = t
    <3>1. \A s \in Retries : queue'[u][s] = IF s = r THEN queue[u][r] + 1 ELSE queue[u][s]
      BY <1>0, <2>3, <2>5 DEF QueueTyped
    <3> QED BY <1>0, <2>3, <2>4, <2>5, <3>1 DEF Alone
  <2>6. CASE u # t
    <3>1. queue'[u] = queue[u]
      BY <1>0, <2>3, <2>6 DEF QueueTyped
    <3> QED BY <1>0, <2>3, <2>4, <3>1 DEF Alone
  <2> QED BY <2>5, <2>6
<1>5. ASSUME NEW w \in Worker, QuietStep(w) PROVE Alone(u)'
  <2>1. OthersStay(w)
    BY <1>5, WorkersApart DEF WorkerStep, QuietStep
  <2>2. queue' = queue /\ crashes' = crashes /\ (Live(w, u)' => Live(w, u))
    BY <1>5, QuietSteps DEF Quiet
  <2>3. \A v \in Worker : v # w => (Live(v, u)' <=> Live(v, u))
    BY <2>1 DEF OthersStay, Live
  <2> QED BY <1>0, <2>2, <2>3 DEF Alone
<1>6. ASSUME NEW w \in Worker, Crash(w) PROVE Alone(u)'
  <2>1. OthersStay(w)
    BY <1>6, WorkersApart
  <2>2. PICK t \in Task, r \in Retries : t = hand[w] /\ r = tried[w]
    BY <1>6, CrashMoves
  <2>3. /\ queue' = [queue EXCEPT ![t][r] = @ + 1]
        /\ ~ Live(w, u)' /\ crashes' = [crashes EXCEPT ![t] = @ + 1]
    BY <1>6, <2>2, CrashMoves
  <2>4. \A v \in Worker : v # w => (Live(v, u)' <=> Live(v, u))
    BY <2>1 DEF OthersStay, Live
  <2>5. CASE u = t
    <3>1. crashes[t] \in Nat /\ crashes'[u] = crashes[t] + 1
      BY <1>0, <2>3, <2>5 DEF HistoryTyped
    <3> QED BY <3>1 DEF Alone
  <2>6. CASE u # t
    <3>1. queue'[u] = queue[u] /\ crashes'[u] = crashes[u]
      BY <1>0, <2>3, <2>6 DEF QueueTyped, HistoryTyped
    <3> QED BY <1>0, <2>3, <2>4, <3>1 DEF Alone
  <2> QED BY <2>5, <2>6
<1>7. CASE UNCHANGED vars
  BY <1>0, <1>7 DEF vars, workerVars, history, Alone, Live
<1> QED BY <1>1, <1>2, <1>3, <1>4, <1>5, <1>6, <1>7 DEF Next, WorkerStep, QuietStep

LEMMA AloneInit == Init => AllAlone
BY ConstantsAssumption DEF Init, AllAlone, Alone, Live, Retries

-----------------------------------------------------------------------------
(* The budget: every message and every live attempt stands for the attempts  *)
(* it may still lead to, and these are counted as elements of sets.          *)

\* The attempts that the messages counted in q, a row of queue, still have: number n of
\* those with r retries leads to attempts r .. MaxRetries.
Credits(q) ==
    {c \in Retries \X Nat \X Retries : 1 <= c[2] /\ c[2] <= q[c[1]] /\ c[1] <= c[3]}

\* The attempts that follow those of the workers at t.
Later(t) == {c \in Worker \X Retries : Live(c[1], t) /\ tried[c[1]] < c[2]}

\* The values of a function that takes none twice.
LEMMA Spread ==
    ASSUME NEW a \in Int, NEW b \in Int, NEW f, DOMAIN f = a .. b,
           f = [s \in a .. b |-> f[s]],
           \A s, t \in a .. b : f[s] = f[t] => s = t,
           NEW T, T = {f[s] : s \in a .. b}
    PROVE  /\ IsFiniteSet(T)
           /\ Cardinality(T) = IF a > b THEN 0 ELSE b - a + 1
<1>1. f \in Bijection(a .. b, T)
  BY DEF Bijection, Injection, Surjection, IsInjective
<1>2. ExistsBijection(a .. b, T)
  BY <1>1 DEF ExistsBijection
<1>3. IsFiniteSet(a .. b) /\ Cardinality(a .. b) = IF a > b THEN 0 ELSE b - a + 1
  BY FS_Interval
<1>4. IsFiniteSet(T) /\ Cardinality(T) = Cardinality(a .. b)
  BY <1>2, <1>3, FS_Bijection
<1> QED BY <1>3, <1>4

\* Adding up.
LEMMA AddUp ==
    ASSUME NEW a \in Nat, NEW b \in Nat, NEW c, NEW m \in Int, NEW r \in Int,
           b = m - r + 1, c = a + b - 0
    PROVE  c = a + (m + 1 - r)
OBVIOUS

\* A message more, with r retries: MaxRetries + 1 - r attempts more.
LEMMA CreditAdds ==
    ASSUME NEW q \in [Retries -> Nat], NEW r \in Retries, IsFiniteSet(Credits(q)),
           NEW p, p = [q EXCEPT ![r] = @ + 1]
    PROVE  /\ IsFiniteSet(Credits(p))
           /\ Cardinality(Credits(p)) = Cardinality(Credits(q)) + (MaxRetries + 1 - r)
<1> DEFINE n == q[r] + 1
           f == [s \in r .. MaxRetries |-> <<r, n, s>>]
           T == {f[s] : s \in r .. MaxRetries}
<1>1. r \in Int /\ MaxRetries \in Int /\ r <= MaxRetries /\ r >= 0 /\ n \in Nat /\ n >= 1
  BY ConstantsAssumption DEF Retries
<1>2. IsFiniteSet(T) /\ Cardinality(T) = MaxRetries - r + 1
  <2>1. DOMAIN f = r .. MaxRetries /\ \A s, t \in r .. MaxRetries : f[s] = f[t] => s = t
    OBVIOUS
  <2>2. f = [s \in r .. MaxRetries |-> f[s]]
    OBVIOUS
  <2>3. T = {f[s] : s \in r .. MaxRetries}
    OBVIOUS
  <2> HIDE DEF f, T
  <2>4. IsFiniteSet(T) /\ Cardinality(T) = IF r > MaxRetries THEN 0 ELSE MaxRetries - r + 1
    BY <1>1, <2>1, <2>2, <2>3, Spread
  <2> QED BY <1>1, <2>4
<1>3. \A s : s \in T <=> \E k \in r .. MaxRetries : s = <<r, n, k>>
  OBVIOUS
<1> HIDE DEF T, f
<1>4. \A c \in Retries \X Nat \X Retries :
         c \in T <=> c[1] = r /\ c[2] = n /\ r <= c[3]
  BY <1>1, <1>3 DEF Retries
<1>5. T \subseteq Retries \X Nat \X Retries
  BY <1>1, <1>3 DEF Retries
<1>6. p[r] = n /\ \A s \in Retries : s # r => p[s] = q[s]
  OBVIOUS
<1>7. Credits(p) = Credits(q) \union T
  <2>1. ASSUME NEW c \in Retries \X Nat \X Retries
        PROVE  c \in Credits(p) <=> c \in Credits(q) \/ c \in T
    <3>1. c[1] \in Retries /\ c[2] \in Nat /\ q[c[1]] \in Nat
      OBVIOUS
    <3>2. CASE c[1] = r
      <4>1. c[2] <= n <=> c[2] <= q[r] \/ c[2] = n
        BY <3>1, <3>2
      <4> QED BY <1>1, <1>4, <1>6, <3>1, <3>2, <4>1 DEF Credits
    <3>3. CASE c[1] # r
      BY <1>4, <1>6, <3>1, <3>3 DEF Credits
    <3> QED BY <3>2, <3>3
  <2> QED BY <1>5, <2>1 DEF Credits
<1>8. Credits(q) \intersect T = {}
  <2>1. ASSUME NEW c \in Credits(q), c \in T PROVE FALSE
    <3>1. c[1] = r /\ c[2] = n /\ c[2] <= q[c[1]]
      BY <1>4, <2>1 DEF Credits
    <3>2. n <= q[r] /\ q[r] \in Nat
      BY <3>1
    <3> QED BY <3>2
  <2> QED BY <2>1
<1> HIDE DEF n
<1>9. /\ IsFiniteSet(Credits(q) \union T)
      /\ Cardinality(Credits(q) \union T)
           = Cardinality(Credits(q)) + Cardinality(T) - Cardinality(Credits(q) \intersect T)
  BY <1>2, FS_Union
<1>10. Cardinality(Credits(q) \intersect T) = 0
  BY <1>8, FS_EmptySet
<1>11. Cardinality(Credits(q)) \in Nat /\ Cardinality(T) \in Nat
  BY <1>2, FS_CardinalityType
<1>12. Cardinality(Credits(p)) = Cardinality(Credits(q)) + Cardinality(T) - 0
  BY <1>7, <1>9, <1>10
<1>13. Cardinality(Credits(p)) = Cardinality(Credits(q)) + (MaxRetries + 1 - r)
  BY <1>1, <1>2, <1>11, <1>12, AddUp
<1> QED BY <1>7, <1>9, <1>13

\* A message less.
LEMMA CreditDrops ==
    ASSUME NEW q \in [Retries -> Nat], NEW r \in Retries, q[r] > 0, IsFiniteSet(Credits(q)),
           NEW p, p = [q EXCEPT ![r] = @ - 1]
    PROVE  /\ IsFiniteSet(Credits(p))
           /\ Cardinality(Credits(q)) = Cardinality(Credits(p)) + (MaxRetries + 1 - r)
<1>1. p \in [Retries -> Nat] /\ q = [p EXCEPT ![r] = @ + 1]
  <2>1. q[r] \in Nat /\ q[r] - 1 \in Nat /\ (q[r] - 1) + 1 = q[r]
    OBVIOUS
  <2>2. p \in [Retries -> Nat] /\ p[r] = q[r] - 1
    BY <2>1
  <2>3. [p EXCEPT ![r] = q[r]] = q
    OBVIOUS
  <2> QED BY <2>1, <2>2, <2>3
<1>2. Credits(p) \subseteq Credits(q)
  <2>1. \A s \in Retries : p[s] <= q[s] /\ p[s] \in Nat /\ q[s] \in Nat
    OBVIOUS
  <2> QED BY <2>1 DEF Credits
<1>3. IsFiniteSet(Credits(p))
  BY <1>2, FS_Subset
<1> QED BY <1>1, <1>3, CreditAdds

\* No messages, no attempts.
LEMMA CreditNone ==
    ASSUME NEW q, \A r \in Retries : q[r] = 0
    PROVE  IsFiniteSet(Credits(q)) /\ Cardinality(Credits(q)) = 0
<1>1. Credits(q) = {}
  BY DEF Credits
<1> QED BY <1>1, FS_EmptySet

\* The attempts after attempt a of worker w, joined to those of others.
LEMMA WorkerRange ==
    ASSUME NEW w \in Worker, NEW a \in Retries, NEW A, NEW B, IsFiniteSet(A),
           \A c \in A : ~ (c[1] = w),
           \A c : c \in B <=> c \in A \/ (c \in Worker \X Retries /\ c[1] = w /\ a < c[2])
    PROVE  IsFiniteSet(B) /\ Cardinality(B) = Cardinality(A) + (MaxRetries - a)
<1> DEFINE f == [s \in a + 1 .. MaxRetries |-> <<w, s>>]
           T == {f[s] : s \in a + 1 .. MaxRetries}
<1>1. a \in Nat /\ a + 1 \in Int /\ MaxRetries \in Int /\ a <= MaxRetries
  BY ConstantsAssumption DEF Retries
<1>2. IsFiniteSet(T) /\ Cardinality(T) = MaxRetries - a
  <2>1. /\ DOMAIN f = a + 1 .. MaxRetries
        /\ \A s, t \in a + 1 .. MaxRetries : f[s] = f[t] => s = t
    OBVIOUS
  <2>2. f = [s \in a + 1 .. MaxRetries |-> f[s]]
    OBVIOUS
  <2>3. T = {f[s] : s \in a + 1 .. MaxRetries}
    OBVIOUS
  <2> HIDE DEF f, T
  <2>4. IsFiniteSet(T) /\ Cardinality(T) = IF a + 1 > MaxRetries THEN 0 ELSE MaxRetries - (a + 1) + 1
    BY <1>1, <2>1, <2>2, <2>3, Spread
  <2> QED BY <1>1, <2>4
<1>3. \A s : s \in T <=> \E k \in a + 1 .. MaxRetries : s = <<w, k>>
  OBVIOUS
<1> HIDE DEF T, f
<1>4. \A c : c \in T <=> c \in Worker \X Retries /\ c[1] = w /\ a < c[2]
  <2>1. ASSUME NEW c, c \in T PROVE c \in Worker \X Retries /\ c[1] = w /\ a < c[2]
    BY <1>1, <1>3, <2>1 DEF Retries
  <2>2. ASSUME NEW c \in Worker \X Retries, c[1] = w, a < c[2] PROVE c \in T
    <3>1. c[2] \in a + 1 .. MaxRetries /\ c = <<w, c[2]>>
      BY <1>1, <2>2 DEF Retries
    <3> QED BY <1>3, <3>1
  <2> QED BY <2>1, <2>2
<1>5. B = A \union T /\ A \intersect T = {}
  BY <1>4
<1>6. /\ IsFiniteSet(A \union T)
      /\ Cardinality(A \union T) = Cardinality(A) + Cardinality(T) - Cardinality(A \intersect T)
  BY <1>2, FS_Union
<1>7. Cardinality(A \intersect T) = 0 /\ Cardinality(A) \in Nat
  BY <1>5, FS_EmptySet, FS_CardinalityType
<1>8. Cardinality(B) = Cardinality(A) + (MaxRetries - a) - 0
  BY <1>2, <1>5, <1>6, <1>7
<1>9. Cardinality(B) = Cardinality(A) + (MaxRetries - a)
  <2> DEFINE x == Cardinality(A)
             y == Cardinality(B)
  <2>1. x \in Nat /\ y = x + (MaxRetries - a) - 0
    BY <1>7, <1>8
  <2> HIDE DEF x, y
  <2>2. y = x + (MaxRetries - a)
    BY <1>1, <2>1
  <2> QED BY <2>2 DEF x, y
<1> QED BY <1>5, <1>6, <1>9

Budget(t) ==
    /\ kind[t] = NoKind => deliveries[t] = 0
    /\ IsFiniteSet(Credits(queue[t])) /\ IsFiniteSet(Later(t))
    /\ deliveries[t] + Cardinality(Credits(queue[t])) + Cardinality(Later(t))
          <= (MaxRetries + 1) * (crashes[t] + 1)

Budgets == \A t \in Task : Budget(t)

\* A step that leaves the attempts of t alone, or ends some.
LEMMA LaterShrinks ==
    ASSUME NEW t \in Task, IsFiniteSet(Later(t)),
           \A v \in Worker : Live(v, t)' => Live(v, t) /\ tried'[v] = tried[v]
    PROVE  /\ IsFiniteSet(Later(t)') /\ Cardinality(Later(t)') <= Cardinality(Later(t))
           /\ Cardinality(Later(t)') \in Nat /\ Cardinality(Later(t)) \in Nat
<1>1. Later(t)' \subseteq Later(t)
  BY DEF Later
<1> QED BY <1>1, FS_Subset, FS_CardinalityType

\* The attempt of w that begins, and the one that ends.
LEMMA LaterAdds ==
    ASSUME Typed, NEW w \in Worker, NEW t \in Task, NEW r \in Retries, IsFiniteSet(Later(t)),
           OthersStay(w), ~ Live(w, t), Live(w, t)', tried'[w] = r
    PROVE  /\ IsFiniteSet(Later(t)')
           /\ Cardinality(Later(t)') = Cardinality(Later(t)) + (MaxRetries - r)
<1>1. \A v \in Worker : v # w => (Live(v, t)' <=> Live(v, t)) /\ tried'[v] = tried[v]
  BY DEF OthersStay, Live
<1>2. \A c \in Later(t) : ~ (c[1] = w)
  BY DEF Later
<1>3. ASSUME NEW c
      PROVE  c \in Later(t)' <=> c \in Later(t) \/ (c \in Worker \X Retries /\ c[1] = w /\ r < c[2])
  BY <1>1 DEF Later
<1> HIDE DEF Later
<1>4. PICK A, B : A = Later(t) /\ B = Later(t)'
  OBVIOUS
<1>5. /\ \A c \in A : ~ (c[1] = w)
      /\ \A c : c \in B <=> c \in A \/ (c \in Worker \X Retries /\ c[1] = w /\ r < c[2])
  BY <1>2, <1>3, <1>4
<1>6. IsFiniteSet(B) /\ Cardinality(B) = Cardinality(A) + (MaxRetries - r)
  BY <1>4, <1>5, WorkerRange
<1> QED BY <1>4, <1>6

LEMMA LaterDrops ==
    ASSUME Typed, NEW w \in Worker, NEW t \in Task, NEW r \in Retries, IsFiniteSet(Later(t)),
           OthersStay(w), Live(w, t), ~ Live(w, t)', tried[w] = r
    PROVE  /\ IsFiniteSet(Later(t)')
           /\ Cardinality(Later(t)) = Cardinality(Later(t)') + (MaxRetries - r)
<1>1. \A v \in Worker : v # w => (Live(v, t)' <=> Live(v, t)) /\ tried'[v] = tried[v]
  BY DEF OthersStay, Live
<1>2. \A c \in Later(t)' : ~ (c[1] = w)
  BY DEF Later
<1>3. ASSUME NEW c
      PROVE  c \in Later(t) <=> c \in Later(t)' \/ (c \in Worker \X Retries /\ c[1] = w /\ r < c[2])
  BY <1>1 DEF Later
<1>4. Later(t)' \subseteq Later(t)
  BY <1>3
<1> HIDE DEF Later
<1>5. PICK A, B : A = Later(t)' /\ B = Later(t)
  OBVIOUS
<1>6. /\ \A c \in A : ~ (c[1] = w)
      /\ \A c : c \in B <=> c \in A \/ (c \in Worker \X Retries /\ c[1] = w /\ r < c[2])
  BY <1>2, <1>3, <1>5
<1>7. IsFiniteSet(A)
  BY <1>4, <1>5, FS_Subset
<1>8. IsFiniteSet(B) /\ Cardinality(B) = Cardinality(A) + (MaxRetries - r)
  BY <1>6, <1>7, WorkerRange
<1> QED BY <1>5, <1>7, <1>8

LEMMA Times ==
    ASSUME NEW a \in Nat, NEW b \in Nat
    PROVE  /\ a * (b + 1) \in Nat /\ a <= a * (b + 1)
           /\ a * ((b + 1) + 1) = a * (b + 1) + a
<1>1. a * b \in Nat /\ a * (b + 1) = a * b + a
  OBVIOUS
<1>2. a * ((b + 1) + 1) = a * (b + 1) + a
  OBVIOUS
<1> QED BY <1>1, <1>2

\* The balance of a step: d deliveries, q and l attempts still to come, out of b.
LEMMA BudgetKept ==
    ASSUME NEW t \in Task, Budget(t), HistoryTyped, HistoryTyped', kind'[t] = kind[t],
           IsFiniteSet(Credits(queue[t]))', IsFiniteSet(Later(t))',
           kind[t] = NoKind => deliveries'[t] = deliveries[t],
           NEW m \in Nat, crashes'[t] = crashes[t] + m, m \in {0, 1},
           deliveries'[t] + Cardinality(Credits(queue[t]))' + Cardinality(Later(t))'
               <= deliveries[t] + Cardinality(Credits(queue[t])) + Cardinality(Later(t))
                    + m * (MaxRetries + 1)
    PROVE  Budget(t)'
<1> DEFINE d == deliveries[t]
           e == deliveries'[t]
           x == Cardinality(Credits(queue[t]))
           y == Cardinality(Later(t))
           xx == Cardinality(Credits(queue[t]))'
           yy == Cardinality(Later(t))'
           b == (MaxRetries + 1) * (crashes[t] + 1)
           bb == (MaxRetries + 1) * (crashes'[t] + 1)
<1>1. d \in Nat /\ e \in Nat /\ x \in Nat /\ y \in Nat /\ xx \in Nat /\ yy \in Nat
  BY FS_CardinalityType DEF HistoryTyped, Budget
<1>2. crashes[t] \in Nat /\ MaxRetries + 1 \in Nat /\ MaxRetries \in Nat
  BY ConstantsAssumption DEF HistoryTyped
<1>3. b \in Nat /\ bb = b + m * (MaxRetries + 1)
  <2>1. CASE m = 0
    <3>1. crashes'[t] = crashes[t] /\ m * (MaxRetries + 1) = 0
      BY <1>2, <2>1
    <3>2. b \in Nat
      BY <1>2, Times
    <3> QED BY <3>1, <3>2
  <2>2. CASE m = 1
    <3>1. crashes'[t] = crashes[t] + 1 /\ m * (MaxRetries + 1) = MaxRetries + 1
      BY <1>2, <2>2
    <3> QED BY <1>2, <3>1, Times
  <2> QED BY <2>1, <2>2
<1>4. d + x + y <= b /\ e + xx + yy <= d + x + y + m * (MaxRetries + 1)
  BY DEF Budget
<1> HIDE DEF d, e, x, y, xx, yy, b, bb
<1>5. m * (MaxRetries + 1) \in Nat
  BY <1>2
<1>6. e + xx + yy <= bb
  BY <1>1, <1>3, <1>4, <1>5
<1>7. e + xx + yy <= bb <=>
        deliveries'[t] + Cardinality(Credits(queue[t]))' + Cardinality(Later(t))'
            <= (MaxRetries + 1) * (crashes'[t] + 1)
  BY DEF e, xx, yy, bb
<1>8. kind'[t] = NoKind => deliveries'[t] = 0
  BY DEF Budget
<1> QED BY <1>6, <1>7, <1>8 DEF Budget

\* A task whose messages and attempts a step leaves alone.
LEMMA BudgetUntouched ==
    ASSUME NEW t \in Task, Budget(t), HistoryTyped, HistoryTyped', kind'[t] = kind[t],
           queue'[t] = queue[t], deliveries'[t] = deliveries[t], crashes'[t] = crashes[t],
           \A v \in Worker : Live(v, t)' => Live(v, t) /\ tried'[v] = tried[v]
    PROVE  Budget(t)'
<1>1. /\ IsFiniteSet(Later(t)') /\ Cardinality(Later(t)') <= Cardinality(Later(t))
      /\ Cardinality(Later(t)') \in Nat /\ Cardinality(Later(t)) \in Nat
  BY LaterShrinks DEF Budget
<1>2. Credits(queue[t])' = Credits(queue[t]) /\ IsFiniteSet(Credits(queue[t]))
  BY DEF Credits, Budget
<1>3. /\ deliveries[t] \in Nat /\ crashes[t] \in Nat /\ MaxRetries \in Nat
      /\ Cardinality(Credits(queue[t])) \in Nat
  BY <1>2, FS_CardinalityType, ConstantsAssumption DEF HistoryTyped
<1>4. deliveries'[t] + Cardinality(Credits(queue[t]))' + Cardinality(Later(t))'
         <= deliveries[t] + Cardinality(Credits(queue[t])) + Cardinality(Later(t)) + 0 * (MaxRetries + 1)
  BY <1>1, <1>2, <1>3
<1> QED BY <1>1, <1>2, <1>3, <1>4, BudgetKept

LEMMA EnqueueBudget ==
    ASSUME Typed, Typed', Budgets, NEW t \in Task, NEW k \in Kinds, Enqueue(t, k), NEW u \in Task
    PROVE  Budget(u)'
<1>1. HistoryTyped /\ HistoryTyped' /\ QueueTyped /\ TasksTyped /\ Budget(u) /\ Budget(t)
  BY TypedParts, TypedPartsNext DEF Budgets
<1>2. /\ \A r \in Retries : queue[t][r] = 0
      /\ \A w \in Worker : hand[w] # t
      /\ 0 \in Retries /\ queue' = [queue EXCEPT ![t][0] = @ + 1]
      /\ UNCHANGED <<hand, phase, tried, deliveries, crashes>>
  BY EnqueueMoves
<1>3. CASE u # t
  <2>1. queue'[u] = queue[u] /\ kind'[u] = kind[u]
    BY <1>1, <1>2, <1>3 DEF Enqueue, QueueTyped, TasksTyped
  <2>2. \A v \in Worker : Live(v, u)' => Live(v, u) /\ tried'[v] = tried[v]
    BY <1>2 DEF Live
  <2> QED BY <1>1, <1>2, <2>1, <2>2, BudgetUntouched
<1>4. CASE u = t
  <2>1. IsFiniteSet(Credits(queue[t])) /\ Cardinality(Credits(queue[t])) = 0
    BY <1>2, CreditNone
  <2>2. queue[t] \in [Retries -> Nat] /\ queue'[t] = [queue[t] EXCEPT ![0] = @ + 1]
    BY <1>1, <1>2 DEF QueueTyped
  <2>3. IsFiniteSet(Credits(queue'[t])) /\ Cardinality(Credits(queue'[t])) = 0 + (MaxRetries + 1 - 0)
    BY <1>2, <2>1, <2>2, CreditAdds
  <2>4. Credits(queue[t])' = Credits(queue'[t])
    BY DEF Credits
  <2>5. Later(t)' = {}
    BY <1>2 DEF Later, Live
  <2>6. IsFiniteSet(Later(t)') /\ Cardinality(Later(t)') = 0
    BY <2>5, FS_EmptySet
  <2>7. deliveries'[t] = 0 /\ crashes'[t] \in Nat /\ MaxRetries + 1 \in Nat /\ MaxRetries \in Nat
    BY <1>1, <1>2, ConstantsAssumption DEF Budget, Enqueue, HistoryTyped
  <2>8. MaxRetries + 1 <= (MaxRetries + 1) * (crashes'[t] + 1)
    BY <2>7, Times
  <2>9. deliveries'[t] + Cardinality(Credits(queue[t]))' + Cardinality(Later(t))' = MaxRetries + 1
    BY <2>3, <2>4, <2>6, <2>7
  <2> QED BY <1>4, <2>3, <2>4, <2>6, <2>7, <2>8, <2>9 DEF Budget
<1> QED BY <1>3, <1>4

LEMMA PurgeBudget ==
    ASSUME Typed, Typed', Budgets, Purge, NEW u \in Task
    PROVE  Budget(u)'
<1>1. HistoryTyped /\ HistoryTyped' /\ Budget(u)
  BY TypedParts, TypedPartsNext DEF Budgets
<1>2. UNCHANGED <<kind, hand, phase, tried, deliveries, crashes>>
  BY DEF Purge, workerVars
<1>3. IsFiniteSet(Credits(queue'[u])) /\ Cardinality(Credits(queue'[u])) = 0
  <2>1. \A r \in Retries : queue'[u][r] = 0
    BY DEF Purge
  <2> QED BY <2>1, CreditNone
<1>4. Credits(queue[u])' = Credits(queue'[u])
  BY DEF Credits
<1>5. /\ IsFiniteSet(Later(u)') /\ Cardinality(Later(u)') <= Cardinality(Later(u))
      /\ Cardinality(Later(u)') \in Nat /\ Cardinality(Later(u)) \in Nat
  <2>1. \A v \in Worker : Live(v, u)' => Live(v, u) /\ tried'[v] = tried[v]
    BY <1>2 DEF Live
  <2> QED BY <1>1, <2>1, LaterShrinks DEF Budget
<1>6. /\ deliveries[u] \in Nat /\ crashes[u] \in Nat /\ MaxRetries \in Nat
      /\ Cardinality(Credits(queue[u])) \in Nat
  BY <1>1, FS_CardinalityType, ConstantsAssumption DEF HistoryTyped, Budget
<1>7. deliveries'[u] + Cardinality(Credits(queue[u]))' + Cardinality(Later(u))'
         <= deliveries[u] + Cardinality(Credits(queue[u])) + Cardinality(Later(u)) + 0 * (MaxRetries + 1)
  BY <1>2, <1>3, <1>4, <1>5, <1>6
<1> QED BY <1>1, <1>2, <1>3, <1>4, <1>5, <1>6, <1>7, BudgetKept

LEMMA TakeBudget ==
    ASSUME Typed, Typed', Budgets, NEW w \in Worker, NEW t \in Task, NEW r \in Retries,
           Take(w, t, r), NEW u \in Task
    PROVE  Budget(u)'
<1>1. HistoryTyped /\ HistoryTyped' /\ QueueTyped /\ Budget(u) /\ OthersStay(w) /\ kind' = kind
  BY TypedParts, TypedPartsNext, WorkersApart DEF Budgets, WorkerStep, Take
<1>2. /\ queue[t][r] \in Nat /\ queue[t][r] > 0
      /\ queue' = [queue EXCEPT ![t][r] = @ - 1]
      /\ \A x \in Task : ~ Live(w, x) /\ (Live(w, x)' <=> x = t)
      /\ tried'[w] = r /\ crashes' = crashes
      /\ deliveries' = [deliveries EXCEPT ![t] = @ + 1]
  BY TakeMoves
<1>3. CASE u # t
  <2>1. queue'[u] = queue[u] /\ deliveries'[u] = deliveries[u]
    BY <1>1, <1>2, <1>3 DEF QueueTyped, HistoryTyped
  <2>2. \A v \in Worker : Live(v, u)' => Live(v, u) /\ tried'[v] = tried[v]
    BY <1>1, <1>2, <1>3 DEF Live, OthersStay
  <2> QED BY <1>1, <1>2, <2>1, <2>2, BudgetUntouched
<1>4. CASE u = t
  <2>1. queue[t] \in [Retries -> Nat] /\ queue'[t] = [queue[t] EXCEPT ![r] = @ - 1]
    BY <1>1, <1>2 DEF QueueTyped
  <2>2. /\ IsFiniteSet(Credits(queue'[t]))
        /\ Cardinality(Credits(queue[t])) = Cardinality(Credits(queue'[t])) + (MaxRetries + 1 - r)
    BY <1>1, <1>2, <1>4, <2>1, CreditDrops DEF Budget
  <2>3. Credits(queue[t])' = Credits(queue'[t])
    BY DEF Credits
  <2>4. /\ IsFiniteSet(Later(t)')
        /\ Cardinality(Later(t)') = Cardinality(Later(t)) + (MaxRetries - r)
    BY <1>1, <1>2, <1>4, LaterAdds DEF Budget
  <2>5. /\ deliveries[t] \in Nat /\ deliveries'[t] = deliveries[t] + 1
        /\ crashes[t] \in Nat /\ MaxRetries \in Nat /\ r \in Nat
    BY <1>1, <1>2, ConstantsAssumption DEF HistoryTyped, Retries
  <2>6. /\ Cardinality(Credits(queue[t])) \in Nat /\ Cardinality(Credits(queue'[t])) \in Nat
        /\ Cardinality(Later(t)) \in Nat /\ Cardinality(Later(t)') \in Nat
    BY <1>1, <1>4, <2>2, <2>4, FS_CardinalityType DEF Budget
  <2>7. deliveries'[t] + Cardinality(Credits(queue[t]))' + Cardinality(Later(t))'
           <= deliveries[t] + Cardinality(Credits(queue[t])) + Cardinality(Later(t)) + 0 * (MaxRetries + 1)
    BY <2>2, <2>3, <2>4, <2>5, <2>6
  <2>8. kind[t] # NoKind
    BY <1>2 DEF QueueTyped, Typed, Settings
  <2> QED BY <1>1, <1>2, <1>4, <2>2, <2>3, <2>4, <2>5, <2>7, <2>8, BudgetKept
<1> QED BY <1>3, <1>4

LEMMA RetryBudget ==
    ASSUME Typed, Typed', Budgets, NEW w \in Worker, Retry(w), NEW u \in Task
    PROVE  Budget(u)'
<1>1. HistoryTyped /\ HistoryTyped' /\ QueueTyped /\ Budget(u) /\ OthersStay(w) /\ kind' = kind
  BY TypedParts, TypedPartsNext, WorkersApart DEF Budgets, WorkerStep, Retry
<1>2. PICK t \in Task, a \in Retries, r \in Retries :
         t = hand[w] /\ a = tried[w] /\ r = a + 1 /\ a \in Nat
  BY RetryMoves, HoldsProgram DEF Retry
<1>3. /\ Live(w, t) /\ queue' = [queue EXCEPT ![t][r] = @ + 1]
      /\ \A x \in Task : ~ Live(w, x)'
      /\ deliveries' = deliveries /\ crashes' = crashes
  BY <1>2, RetryMoves
<1>4. CASE u # t
  <2>1. queue'[u] = queue[u]
    BY <1>1, <1>3, <1>4 DEF QueueTyped
  <2>2. \A v \in Worker : Live(v, u)' => Live(v, u) /\ tried'[v] = tried[v]
    BY <1>1, <1>3 DEF Live, OthersStay
  <2> QED BY <1>1, <1>3, <2>1, <2>2, BudgetUntouched
<1>5. CASE u = t
  <2>1. queue[t] \in [Retries -> Nat] /\ queue'[t] = [queue[t] EXCEPT ![r] = @ + 1]
    BY <1>1, <1>3 DEF QueueTyped
  <2>2. /\ IsFiniteSet(Credits(queue'[t]))
        /\ Cardinality(Credits(queue'[t])) = Cardinality(Credits(queue[t])) + (MaxRetries + 1 - r)
    BY <1>1, <1>5, <2>1, CreditAdds DEF Budget
  <2>3. Credits(queue[t])' = Credits(queue'[t])
    BY DEF Credits
  <2>4. /\ IsFiniteSet(Later(t)')
        /\ Cardinality(Later(t)) = Cardinality(Later(t)') + (MaxRetries - a)
    BY <1>1, <1>2, <1>3, <1>5, LaterDrops DEF Budget
  <2>5. deliveries[t] \in Nat /\ crashes[t] \in Nat /\ MaxRetries \in Nat
    BY <1>1, ConstantsAssumption DEF HistoryTyped
  <2>6. /\ Cardinality(Credits(queue[t])) \in Nat /\ Cardinality(Credits(queue'[t])) \in Nat
        /\ Cardinality(Later(t)) \in Nat /\ Cardinality(Later(t)') \in Nat
    BY <1>1, <1>5, <2>2, <2>4, FS_CardinalityType DEF Budget
  <2>7. deliveries'[t] + Cardinality(Credits(queue[t]))' + Cardinality(Later(t))'
           <= deliveries[t] + Cardinality(Credits(queue[t])) + Cardinality(Later(t)) + 0 * (MaxRetries + 1)
    BY <1>2, <1>3, <2>2, <2>3, <2>4, <2>5, <2>6
  <2> QED BY <1>1, <1>3, <1>5, <2>2, <2>3, <2>4, <2>5, <2>7, BudgetKept
<1> QED BY <1>4, <1>5

LEMMA CrashBudget ==
    ASSUME Typed, Typed', Budgets, NEW w \in Worker, Crash(w), NEW u \in Task
    PROVE  Budget(u)'
<1>1. HistoryTyped /\ HistoryTyped' /\ QueueTyped /\ Budget(u) /\ OthersStay(w) /\ kind' = kind
  BY TypedParts, TypedPartsNext, WorkersApart DEF Budgets, Crash
<1>2. PICK t \in Task, r \in Retries : t = hand[w] /\ r = tried[w] /\ r \in Nat
  BY CrashMoves
<1>3. /\ queue' = [queue EXCEPT ![t][r] = @ + 1]
      /\ \A x \in Task : ~ Live(w, x)'
      /\ deliveries' = deliveries /\ crashes' = [crashes EXCEPT ![t] = @ + 1]
  BY <1>2, CrashMoves
<1>4. \A v \in Worker : Live(v, u)' => Live(v, u) /\ tried'[v] = tried[v]
  BY <1>1, <1>3 DEF Live, OthersStay
<1>5. CASE u # t
  <2>1. queue'[u] = queue[u] /\ crashes'[u] = crashes[u]
    BY <1>1, <1>3, <1>5 DEF QueueTyped, HistoryTyped
  <2> QED BY <1>1, <1>3, <1>4, <2>1, BudgetUntouched
<1>6. CASE u = t
  <2>1. queue[t] \in [Retries -> Nat] /\ queue'[t] = [queue[t] EXCEPT ![r] = @ + 1]
    BY <1>1, <1>3 DEF QueueTyped
  <2>2. /\ IsFiniteSet(Credits(queue'[t]))
        /\ Cardinality(Credits(queue'[t])) = Cardinality(Credits(queue[t])) + (MaxRetries + 1 - r)
    BY <1>1, <1>6, <2>1, CreditAdds DEF Budget
  <2>3. Credits(queue[t])' = Credits(queue'[t])
    BY DEF Credits
  <2>4. /\ IsFiniteSet(Later(t)') /\ Cardinality(Later(t)') <= Cardinality(Later(t))
        /\ Cardinality(Later(t)') \in Nat /\ Cardinality(Later(t)) \in Nat
    BY <1>1, <1>4, <1>6, LaterShrinks DEF Budget
  <2>5. /\ deliveries[t] \in Nat /\ crashes[t] \in Nat /\ MaxRetries \in Nat
        /\ crashes'[t] = crashes[t] + 1
    BY <1>1, <1>3, ConstantsAssumption DEF HistoryTyped
  <2>6. Cardinality(Credits(queue[t])) \in Nat /\ Cardinality(Credits(queue'[t])) \in Nat
    BY <1>1, <1>6, <2>2, FS_CardinalityType DEF Budget
  <2>7. deliveries'[t] + Cardinality(Credits(queue[t]))' + Cardinality(Later(t))'
           <= deliveries[t] + Cardinality(Credits(queue[t])) + Cardinality(Later(t)) + 1 * (MaxRetries + 1)
    BY <1>2, <1>3, <2>2, <2>3, <2>4, <2>5, <2>6
  <2> QED BY <1>1, <1>3, <1>6, <2>2, <2>3, <2>4, <2>5, <2>7, BudgetKept
<1> QED BY <1>5, <1>6

LEMMA BudgetStep == Typed /\ Budgets /\ [Next]_vars => Budgets'
<1> SUFFICES ASSUME Typed, Budgets, [Next]_vars, NEW u \in Task PROVE Budget(u)'
  BY DEF Budgets
<1>0. Typed' /\ HistoryTyped /\ HistoryTyped' /\ Budget(u)
  BY TypedStep, TypedParts, TypedPartsNext DEF Budgets
<1>1. ASSUME NEW w \in Worker, QuietStep(w) PROVE Budget(u)'
  <2>1. OthersStay(w)
    BY <1>1, WorkersApart DEF WorkerStep, QuietStep
  <2>2. UNCHANGED <<queue, deliveries, crashes>> /\ (Live(w, u)' => Live(w, u) /\ tried'[w] = tried[w])
    BY <1>1, QuietSteps DEF Quiet
  <2>3. \A v \in Worker : Live(v, u)' => Live(v, u) /\ tried'[v] = tried[v]
    BY <2>1, <2>2 DEF OthersStay, Live
  <2>4. kind' = kind
    BY <1>1 DEF QuietStep, Perform, Raise, Succeed, RetryFails, GiveUp, Acknowledge, Killed
  <2> QED BY <1>0, <2>2, <2>3, <2>4, BudgetUntouched
<1>2. CASE UNCHANGED vars
  <2>1. UNCHANGED <<kind, queue, deliveries, crashes, hand, phase, tried>>
    BY <1>2 DEF vars, workerVars, history
  <2>2. \A v \in Worker : Live(v, u)' => Live(v, u) /\ tried'[v] = tried[v]
    BY <2>1 DEF Live
  <2> QED BY <1>0, <2>1, <2>2, BudgetUntouched
<1> QED BY <1>0, <1>1, <1>2, EnqueueBudget, PurgeBudget, TakeBudget, RetryBudget, CrashBudget
        DEF Next, WorkerStep, QuietStep

LEMMA BudgetInit == Init => Budgets
<1> SUFFICES ASSUME Init, NEW u \in Task PROVE Budget(u)
  BY DEF Budgets
<1>1. IsFiniteSet(Credits(queue[u])) /\ Cardinality(Credits(queue[u])) = 0
  <2>1. \A r \in Retries : queue[u][r] = 0
    BY DEF Init
  <2> QED BY <2>1, CreditNone
<1>2. Later(u) = {}
  BY ConstantsAssumption DEF Init, Later, Live
<1>3. IsFiniteSet(Later(u)) /\ Cardinality(Later(u)) = 0
  BY <1>2, FS_EmptySet
<1>4. deliveries[u] = 0 /\ crashes[u] = 0 /\ MaxRetries \in Nat
  BY ConstantsAssumption DEF Init
<1>5. 0 + 0 + 0 <= (MaxRetries + 1) * (0 + 1)
  BY <1>4
<1> QED BY <1>1, <1>3, <1>4, <1>5 DEF Budget

-----------------------------------------------------------------------------
(* At most one effect for each attempt.                                      *)

HasEffectFrom(w, n) == \E i \in DOMAIN Steps(w) : n <= i /\ Steps(w)[i] \in Effects

\* The workers at an attempt of t whose effect is still to come.
Ahead(t) == {w \in Worker : Runs(w, t) /\ HasEffectFrom(w, pos[w])}

OneEffect(t) == IsFiniteSet(Ahead(t)) /\ effects[t] + Cardinality(Ahead(t)) <= deliveries[t]

OneEffects == \A t \in Task : OneEffect(t)

\* A worker that a step does not concern has its effect ahead, or not, as before.
LEMMA AheadOthers ==
    ASSUME NEW w \in Worker, OthersStay(w), kind' = kind, NEW t \in Task, NEW v \in Worker, v # w
    PROVE  v \in Ahead(t)' <=> v \in Ahead(t)
<1>1. hand'[v] = hand[v] /\ phase'[v] = phase[v] /\ pos'[v] = pos[v]
  BY DEF OthersStay
<1> QED BY <1>1 DEF Ahead, Runs, HasEffectFrom, Steps

\* Fewer effects to come, none more taken.
LEMMA OneEffectFewer ==
    ASSUME HistoryTyped, NEW t \in Task, OneEffect(t), Ahead(t)' \subseteq Ahead(t),
           effects'[t] = effects[t], deliveries'[t] = deliveries[t]
    PROVE  OneEffect(t)'
<1>1. /\ IsFiniteSet(Ahead(t)') /\ Cardinality(Ahead(t)') <= Cardinality(Ahead(t))
      /\ Cardinality(Ahead(t)') \in Nat /\ Cardinality(Ahead(t)) \in Nat
  BY FS_Subset, FS_CardinalityType DEF OneEffect
<1>2. effects[t] \in Nat /\ deliveries[t] \in Nat
  BY DEF HistoryTyped
<1>3. effects'[t] + Cardinality(Ahead(t)') <= deliveries'[t]
  BY <1>1, <1>2 DEF OneEffect
<1> QED BY <1>1, <1>3 DEF OneEffect

\* The steps of a worker that take no effect and no message.
LEMMA OneEffectElse ==
    ASSUME Typed, OneEffects, NEW w \in Worker, NEW u \in Task,
           \/ Raise(w) \/ Succeed(w) \/ Retry(w)
           \/ RetryFails(w) \/ GiveUp(w) \/ Acknowledge(w) \/ Crash(w) \/ Killed(w)
    PROVE  OneEffect(u)'
<1>1. WorkersTyped /\ HistoryTyped /\ OneEffect(u)
  BY TypedParts DEF OneEffects
<1>2. OthersStay(w)
  BY WorkersApart DEF WorkerStep
<1>3. kind' = kind /\ effects' = effects /\ deliveries' = deliveries
  BY DEF Raise, Succeed, Retry, RetryFails, GiveUp, Acknowledge, Crash, Killed, history
<1>4. phase'[w] # "run"
  <2>1. CASE Raise(w) \/ Succeed(w) \/ Retry(w) \/ GiveUp(w)
    BY <1>1, <2>1 DEF Raise, Succeed, Retry, GiveUp, WorkersTyped
  <2>2. CASE RetryFails(w) \/ Acknowledge(w) \/ Crash(w) \/ Killed(w)
    BY <1>1, <2>2 DEF RetryFails, Acknowledge, Crash, Killed, Restarted, Free, WorkersTyped
  <2> QED BY <2>1, <2>2
<1>5. w \notin Ahead(u)'
  BY <1>4 DEF Ahead, Runs
<1>6. Ahead(u)' \subseteq Ahead(u)
  <2>1. Ahead(u)' \subseteq Worker
    BY DEF Ahead
  <2> QED BY <1>2, <1>3, <1>5, <2>1, AheadOthers
<1> QED BY <1>1, <1>3, <1>6, OneEffectFewer

LEMMA OneEffectPerform ==
    ASSUME Typed, OneEffects, NEW w \in Worker, NEW u \in Task, Perform(w)
    PROVE  OneEffect(u)'
<1>1. WorkersTyped /\ HistoryTyped /\ OneEffect(u)
  BY TypedParts DEF OneEffects
<1>2. OthersStay(w) /\ kind' = kind /\ deliveries' = deliveries
  BY WorkersApart DEF WorkerStep, Perform
<1>3. /\ phase[w] = "run" /\ pos[w] \in DOMAIN Steps(w) /\ pos[w] \in Nat
      /\ hand[w] \in Task /\ kind[hand[w]] \in DOMAIN Program
      /\ \A i \in DOMAIN Steps(w) : i \in Nat
  BY HoldsProgram DEF Perform, AtStep
<1>4. hand'[w] = hand[w] /\ pos'[w] = pos[w] + 1 /\ Steps(w)' = Steps(w)
  BY <1>1, <1>2 DEF Perform, WorkersTyped, Steps
<1>5. w \in Ahead(u)' => w \in Ahead(u) /\ u = hand[w]
  <2>1. HasEffectFrom(w, pos[w])' => HasEffectFrom(w, pos[w])
    BY <1>3, <1>4 DEF HasEffectFrom
  <2> QED BY <1>3, <1>4, <2>1 DEF Ahead, Runs
<1>6. Ahead(u)' \subseteq Ahead(u)
  <2>1. Ahead(u)' \subseteq Worker
    BY DEF Ahead
  <2> QED BY <1>2, <1>5, <2>1, AheadOthers
<1>7. CASE Steps(w)[pos[w]] \in Effects /\ u = hand[w]
  <2>1. w \in Ahead(u)
    BY <1>3, <1>7 DEF Ahead, Runs, HasEffectFrom
  <2>2. w \notin Ahead(u)'
    <3>1. \A i \in DOMAIN Steps(w) : Steps(w)[i] \in Effects => i = pos[w]
      BY <1>3, <1>7, ProgramEffects DEF Steps
    <3>2. ~ HasEffectFrom(w, pos[w])'
      BY <1>3, <1>4, <3>1 DEF HasEffectFrom
    <3> QED BY <3>2 DEF Ahead
  <2>3. IsFiniteSet(Ahead(u)) /\ IsFiniteSet(Ahead(u) \ {w}) /\ Cardinality(Ahead(u)) \in Nat
        /\ Cardinality(Ahead(u) \ {w}) = Cardinality(Ahead(u)) - 1
    BY <1>1, <2>1, FS_RemoveElement, FS_CardinalityType DEF OneEffect
  <2>4. Ahead(u)' \subseteq Ahead(u) \ {w}
    BY <1>6, <2>2
  <2>5. /\ IsFiniteSet(Ahead(u)') /\ Cardinality(Ahead(u)') \in Nat
        /\ Cardinality(Ahead(u)') <= Cardinality(Ahead(u)) - 1
    BY <2>3, <2>4, FS_Subset, FS_CardinalityType
  <2>6. effects'[u] = effects[u] + 1 /\ effects[u] \in Nat /\ deliveries[u] \in Nat
    BY <1>1, <1>3, <1>7 DEF Perform, Step, HistoryTyped
  <2>7. effects'[u] + Cardinality(Ahead(u)') <= deliveries'[u]
    BY <1>1, <1>2, <2>3, <2>5, <2>6 DEF OneEffect
  <2> QED BY <2>5, <2>7 DEF OneEffect
<1>8. CASE ~ (Steps(w)[pos[w]] \in Effects /\ u = hand[w])
  <2>1. effects'[u] = effects[u]
    BY <1>1, <1>3, <1>8 DEF Perform, Step, HistoryTyped
  <2> QED BY <1>1, <1>2, <1>6, <2>1, OneEffectFewer
<1> QED BY <1>7, <1>8

LEMMA OneEffectTake ==
    ASSUME Typed, OneEffects, NEW w \in Worker, NEW t \in Task, NEW r \in Retries,
           Take(w, t, r), NEW u \in Task
    PROVE  OneEffect(u)'
<1>1. HistoryTyped /\ OneEffect(u)
  BY TypedParts DEF OneEffects
<1>2. /\ OthersStay(w) /\ kind' = kind /\ effects' = effects
      /\ hand'[w] = t /\ deliveries' = [deliveries EXCEPT ![t] = @ + 1]
  BY WorkersApart, TakeMoves DEF WorkerStep, Take
<1>3. CASE u # t
  <2>1. w \notin Ahead(u)'
    BY <1>2, <1>3 DEF Ahead, Runs
  <2>2. Ahead(u)' \subseteq Ahead(u)
    <3>1. Ahead(u)' \subseteq Worker
      BY DEF Ahead
    <3> QED BY <1>2, <2>1, <3>1, AheadOthers
  <2>3. deliveries'[u] = deliveries[u]
    BY <1>1, <1>2, <1>3 DEF HistoryTyped
  <2> QED BY <1>1, <1>2, <2>2, <2>3, OneEffectFewer
<1>4. CASE u = t
  <2>1. Ahead(u)' \subseteq Ahead(u) \union {w}
    <3>1. Ahead(u)' \subseteq Worker
      BY DEF Ahead
    <3> QED BY <1>2, <3>1, AheadOthers
  <2>2. /\ IsFiniteSet(Ahead(u) \union {w}) /\ Cardinality(Ahead(u)) \in Nat
        /\ Cardinality(Ahead(u) \union {w}) <= Cardinality(Ahead(u)) + 1
    <3>1. IsFiniteSet(Ahead(u)) /\ Cardinality(Ahead(u)) \in Nat
      BY <1>1, FS_CardinalityType DEF OneEffect
    <3>2. IsFiniteSet(Ahead(u) \union {w})
          /\ Cardinality(Ahead(u) \union {w})
               = IF w \in Ahead(u) THEN Cardinality(Ahead(u)) ELSE Cardinality(Ahead(u)) + 1
      BY <3>1, FS_AddElement
    <3> QED BY <3>1, <3>2
  <2>3. /\ IsFiniteSet(Ahead(u)') /\ Cardinality(Ahead(u)') \in Nat
        /\ Cardinality(Ahead(u)') <= Cardinality(Ahead(u) \union {w})
        /\ Cardinality(Ahead(u) \union {w}) \in Nat
    BY <2>1, <2>2, FS_Subset, FS_CardinalityType
  <2>4. deliveries'[u] = deliveries[u] + 1 /\ effects[u] \in Nat /\ deliveries[u] \in Nat
    BY <1>1, <1>2, <1>4 DEF HistoryTyped
  <2>5. effects'[u] + Cardinality(Ahead(u)') <= deliveries'[u]
    BY <1>1, <1>2, <2>2, <2>3, <2>4 DEF OneEffect
  <2> QED BY <2>3, <2>5 DEF OneEffect
<1> QED BY <1>3, <1>4

LEMMA OneEffectStep == Typed /\ OneEffects /\ [Next]_vars => OneEffects'
<1> SUFFICES ASSUME Typed, OneEffects, [Next]_vars, NEW u \in Task PROVE OneEffect(u)'
  BY DEF OneEffects
<1>0. HistoryTyped /\ PlacesTyped /\ OneEffect(u)
  BY TypedParts DEF OneEffects
<1>1. ASSUME NEW t \in Task, NEW k \in Kinds, Enqueue(t, k) PROVE OneEffect(u)'
  <2>1. /\ UNCHANGED <<hand, phase, pos, effects, deliveries>>
        /\ \A w \in Worker : hand[w] # t
    BY <1>1, EnqueueMoves DEF Enqueue, history
  <2>2. \A w \in Worker : Runs(w, u) => Steps(w)' = Steps(w)
    <3>1. \A x \in Task : x # t => kind'[x] = kind[x]
      BY <1>1, TypedParts DEF Enqueue, TasksTyped
    <3> QED BY <2>1, <3>1 DEF Runs, Steps
  <2>3. Ahead(u)' \subseteq Ahead(u)
    BY <2>1, <2>2 DEF Ahead, Runs, HasEffectFrom
  <2> QED BY <1>0, <2>1, <2>3, OneEffectFewer
<1>2. CASE Purge \/ UNCHANGED vars
  <2>1. UNCHANGED <<kind, hand, phase, pos, effects, deliveries>>
    BY <1>2 DEF Purge, vars, workerVars, history
  <2>2. Ahead(u)' \subseteq Ahead(u)
    BY <2>1 DEF Ahead, Runs, HasEffectFrom, Steps
  <2> QED BY <1>0, <2>1, <2>2, OneEffectFewer
<1> QED BY <1>1, <1>2, OneEffectPerform, OneEffectTake, OneEffectElse DEF Next, WorkerStep

LEMMA OneEffectInit == Init => OneEffects
<1> SUFFICES ASSUME Init, NEW u \in Task PROVE OneEffect(u)
  BY DEF OneEffects
<1>1. Ahead(u) = {}
  BY DEF Init, Ahead, Runs
<1> QED BY <1>1, FS_EmptySet DEF Init, OneEffect

\* A task is attempted once and for each of its retries, and that again for each crash that
\* gave a message back; what others see of it happens at most once per attempt; and two
\* workers run it side by side only after such a crash.
THEOREM AttemptsWithinBudget == Spec => []AttemptBudget
<1> DEFINE IInv == Typed /\ AllAlone /\ Budgets /\ OneEffects
<1>1. Init => IInv
  BY InitTyped, AloneInit, BudgetInit, OneEffectInit
<1>2. IInv /\ [Next]_vars => IInv'
  BY TypedStep, AloneStep, BudgetStep, OneEffectStep
<1>3. IInv => AttemptBudget
  <2> SUFFICES ASSUME IInv, NEW t \in Task
               PROVE  /\ deliveries[t] <= (MaxRetries + 1) * (crashes[t] + 1)
                      /\ effects[t] <= deliveries[t]
                      /\ \A v, w \in Worker : v # w /\ Runs(v, t) /\ Runs(w, t) => crashes[t] > 0
    BY DEF AttemptBudget
  <2>1. HistoryTyped /\ Alone(t) /\ Budget(t) /\ OneEffect(t)
    BY TypedParts DEF AllAlone, Budgets, OneEffects
  <2>2. deliveries[t] \in Nat /\ effects[t] \in Nat /\ crashes[t] \in Nat /\ MaxRetries + 1 \in Nat
    BY <2>1, ConstantsAssumption DEF HistoryTyped
  <2>3. deliveries[t] <= (MaxRetries + 1) * (crashes[t] + 1)
    <3> DEFINE b == (MaxRetries + 1) * (crashes[t] + 1)
               x == Cardinality(Credits(queue[t]))
               y == Cardinality(Later(t))
    <3>1. b \in Nat /\ x \in Nat /\ y \in Nat /\ deliveries[t] + x + y <= b
      BY <2>1, <2>2, Times, FS_CardinalityType DEF Budget
    <3> HIDE DEF b, x, y
    <3>2. deliveries[t] <= b
      BY <2>2, <3>1
    <3> QED BY <3>2 DEF b
  <2>4. effects[t] <= deliveries[t]
    <3>1. Cardinality(Ahead(t)) \in Nat
      BY <2>1, FS_CardinalityType DEF OneEffect
    <3> QED BY <2>1, <2>2, <3>1 DEF OneEffect
  <2>5. \A v, w \in Worker : v # w /\ Runs(v, t) /\ Runs(w, t) => crashes[t] > 0
    BY <2>1, <2>2 DEF Alone, Live, Runs
  <2> QED BY <2>3, <2>4, <2>5
<1> QED BY <1>1, <1>2, <1>3, PTL DEF Spec

-----------------------------------------------------------------------------
(* What a stored SUCCESS or FAILURE stands for.                              *)

\* Of a task that the step of worker w does not concern, only other workers move.
LEMMA Elsewhere ==
    ASSUME Typed, NEW w \in Worker, WorkerStep(w) \/ Crash(w) \/ Killed(w),
           NEW u \in Task, hand[w] # u, hand'[w] # u
    PROVE  /\ kind' = kind /\ status'[u] = status[u] /\ queue'[u] = queue[u]
           /\ deliveries'[u] = deliveries[u] /\ effects'[u] = effects[u]
           /\ purged' = purged /\ cut \subseteq cut'
           /\ \A v \in Worker : hand'[v] = u <=> hand[v] = u
           /\ \A v \in Worker : hand[v] = u =>
                 phase'[v] = phase[v] /\ tried'[v] = tried[v] /\ pos'[v] = pos[v]
<1>1. WorkersTyped /\ QueueTyped /\ TasksTyped /\ HistoryTyped
  BY TypedParts
<1>2. OthersStay(w)
  BY WorkersApart
<1> DEFINE Untouched ==
               /\ kind' = kind /\ status'[u] = status[u] /\ queue'[u] = queue[u]
               /\ deliveries'[u] = deliveries[u] /\ effects'[u] = effects[u]
               /\ purged' = purged /\ cut \subseteq cut'
<1>3. Untouched
  <2>1. ASSUME NEW t \in Task, NEW r \in Retries, Take(w, t, r) PROVE Untouched
    <3>1. t # u
      BY <1>1, <2>1 DEF Take, WorkersTyped
    <3> QED BY <1>1, <2>1, <3>1 DEF Take, QueueTyped, TasksTyped, HistoryTyped
  <2>2. CASE Perform(w) \/ Raise(w) \/ Succeed(w)
    BY <1>1, <2>2 DEF Perform, Raise, Succeed, history, TasksTyped, HistoryTyped
  <2>3. CASE Retry(w) \/ RetryFails(w) \/ GiveUp(w) \/ Acknowledge(w)
    BY <1>1, <2>3 DEF Retry, RetryFails, GiveUp, Acknowledge, history, QueueTyped, TasksTyped
  <2>4. CASE Crash(w) \/ Killed(w)
    BY <1>1, <2>4 DEF Crash, GiveBack, Killed, QueueTyped, TasksTyped
  <2> HIDE DEF Untouched
  <2> QED BY <2>1, <2>2, <2>3, <2>4 DEF WorkerStep
<1> QED BY <1>2, <1>3 DEF OthersStay

\* The retries of a message, or of an attempt, were attempts before it.
Reached(t) ==
    /\ \A r \in Retries : queue[t][r] > 0 => r <= deliveries[t]
    /\ \A w \in Worker : hand[w] = t => tried[w] < deliveries[t]

AllReached == \A t \in Task : Reached(t)

LEMMA ReachedStep == Typed /\ AllReached /\ [Next]_vars => AllReached'
<1> SUFFICES ASSUME Typed, AllReached, [Next]_vars, NEW u \in Task PROVE Reached(u)'
  BY DEF AllReached
<1>0. /\ WorkersTyped /\ QueueTyped /\ HistoryTyped /\ Reached(u)
      /\ deliveries[u] \in Nat /\ \A r \in Retries : r \in Nat
  BY TypedParts, ConstantsAssumption DEF AllReached, HistoryTyped, Retries
<1>1. ASSUME NEW t \in Task, NEW k \in Kinds, Enqueue(t, k) PROVE Reached(u)'
  <2>1. /\ 0 \in Retries /\ queue' = [queue EXCEPT ![t][0] = @ + 1]
        /\ UNCHANGED <<hand, tried, deliveries>>
    BY <1>1, EnqueueMoves
  <2>2. \A r \in Retries : queue'[u][r] = queue[u][r] \/ r = 0
    BY <1>0, <2>1 DEF QueueTyped
  <2> QED BY <1>0, <2>1, <2>2 DEF Reached
<1>2. CASE Purge
  BY <1>0, <1>2 DEF Purge, workerVars, Reached
<1>3. ASSUME NEW w \in Worker, WorkerStep(w) \/ Crash(w) \/ Killed(w), hand[w] # u, hand'[w] # u
      PROVE  Reached(u)'
  BY <1>0, <1>3, Elsewhere DEF Reached
<1>4. ASSUME NEW w \in Worker, NEW r \in Retries, Take(w, u, r) PROVE Reached(u)'
  <2>1. OthersStay(w)
    BY <1>4, WorkersApart DEF WorkerStep
  <2>2. /\ queue[u][r] > 0 /\ queue' = [queue EXCEPT ![u][r] = @ - 1]
        /\ hand'[w] = u /\ tried'[w] = r /\ deliveries'[u] = deliveries[u] + 1
    BY <1>0, <1>4, TakeMoves DEF HistoryTyped
  <2>3. r <= deliveries[u] /\ r \in Nat
    BY <1>0, <2>2 DEF Reached
  <2>4. \A s \in Retries : queue'[u][s] > 0 => s <= deliveries[u]
    BY <1>0, <2>2, <2>3 DEF Reached, QueueTyped
  <2>5. \A v \in Worker : v # w /\ hand'[v] = u => tried'[v] < deliveries[u] /\ tried'[v] \in Nat
    BY <1>0, <2>1 DEF OthersStay, Reached, WorkersTyped
  <2> QED BY <1>0, <2>2, <2>3, <2>4, <2>5 DEF Reached
<1>5. ASSUME NEW w \in Worker, hand[w] = u, Retry(w) \/ Crash(w) PROVE Reached(u)'
  <2>1. OthersStay(w)
    BY <1>5, WorkersApart DEF WorkerStep
  <2>2. tried[w] < deliveries[u] /\ tried[w] \in Nat
    BY <1>0, <1>5 DEF Reached, WorkersTyped
  <2>3. ASSUME NEW r \in Retries, r <= deliveries[u], queue' = [queue EXCEPT ![u][r] = @ + 1]
        PROVE  \A s \in Retries : queue'[u][s] > 0 => s <= deliveries[u]
    <3>1. \A s \in Retries : s # r => queue'[u][s] = queue[u][s]
      BY <1>0, <2>3 DEF QueueTyped
    <3> QED BY <1>0, <2>3, <3>1 DEF Reached
  <2>4. \A s \in Retries : queue'[u][s] > 0 => s <= deliveries[u]
    <3>1. CASE Retry(w)
      <4>1. PICK r \in Retries : r = tried[w] + 1
        BY <3>1, RetryMoves
      <4>2. queue' = [queue EXCEPT ![hand[w]][tried[w] + 1] = @ + 1]
        BY <3>1, RetryMoves
      <4>3. queue' = [queue EXCEPT ![u][r] = @ + 1] /\ r <= deliveries[u]
        BY <1>0, <1>5, <2>2, <4>1, <4>2
      <4> QED BY <2>3, <4>3
    <3>2. CASE Crash(w)
      <4>1. PICK r \in Retries : r = tried[w]
        BY <3>2, CrashMoves
      <4>2. queue' = [queue EXCEPT ![hand[w]][tried[w]] = @ + 1]
        BY <3>2, CrashMoves
      <4>3. queue' = [queue EXCEPT ![u][r] = @ + 1] /\ r <= deliveries[u]
        BY <1>0, <1>5, <2>2, <4>1, <4>2
      <4> QED BY <2>3, <4>3
    <3> QED BY <1>5, <3>1, <3>2
  <2>5. deliveries' = deliveries
    BY <1>5, RetryMoves, CrashMoves
  <2>6. hand'[w] = u => tried'[w] = tried[w]
    BY <1>0, <1>5, ConstantsAssumption DEF Retry, Crash, Restarted, Free, WorkersTyped
  <2> QED BY <1>0, <1>5, <2>1, <2>2, <2>4, <2>5, <2>6 DEF Reached, OthersStay
<1>6. ASSUME NEW w \in Worker, hand[w] = u, QuietStep(w) PROVE Reached(u)'
  <2>1. OthersStay(w)
    BY <1>6, WorkersApart DEF WorkerStep, QuietStep
  <2>2. queue' = queue /\ deliveries' = deliveries
    BY <1>6, QuietSteps DEF Quiet
  <2>3. hand'[w] = u => tried'[w] = tried[w]
    <3>1. CASE Perform(w) \/ Raise(w) \/ Succeed(w) \/ GiveUp(w)
      BY <3>1 DEF Perform, Raise, Succeed, GiveUp
    <3>2. CASE RetryFails(w) \/ Acknowledge(w) \/ Killed(w)
      BY <1>0, <3>2, ConstantsAssumption DEF RetryFails, Acknowledge, Killed, Restarted, Free,
         WorkersTyped
    <3> QED BY <1>6, <3>1, <3>2 DEF QuietStep
  <2> QED BY <1>0, <1>6, <2>1, <2>2, <2>3 DEF Reached, OthersStay
<1>7. CASE UNCHANGED vars
  BY <1>0, <1>7 DEF vars, workerVars, history, Reached
<1>8. ASSUME NEW w \in Worker, WorkerStep(w) \/ Crash(w) \/ Killed(w) PROVE Reached(u)'
  <2>1. ASSUME NEW t \in Task, NEW r \in Retries, Take(w, t, r) PROVE Reached(u)'
    <3>1. hand[w] # u /\ hand'[w] = t
      BY <2>1, TakeMoves, ConstantsAssumption
    <3> QED BY <1>3, <1>4, <1>8, <2>1, <3>1
  <2>2. CASE hand[w] # u /\ hand'[w] # u
    BY <1>3, <1>8, <2>2
  <2>3. CASE hand[w] # u /\ hand'[w] = u /\ ~ \E t \in Task, r \in Retries : Take(w, t, r)
    BY <1>0, <1>8, <2>3, ConstantsAssumption DEF WorkerStep, Perform, Raise, Succeed, Retry, RetryFails,
       GiveUp, Acknowledge, Crash, Killed, Restarted, Free, WorkersTyped
  <2>4. CASE hand[w] = u /\ ~ \E t \in Task, r \in Retries : Take(w, t, r)
    BY <1>5, <1>6, <1>8, <2>4 DEF WorkerStep, QuietStep
  <2> QED BY <2>1, <2>2, <2>3, <2>4
<1> QED BY <1>1, <1>2, <1>7, <1>8 DEF Next

LEMMA ReachedInit == Init => AllReached
BY ConstantsAssumption DEF Init, AllReached, Reached

\* A task stored as failed is at an attempt, or has a message left, unless it was
\* attempted with every retry or lost its message for good.
Failed(t) ==
    status[t] = "FAILURE" =>
        \/ \E w \in Worker : Live(w, t)
        \/ Waiting(t)
        \/ t \in purged \union cut
        \/ deliveries[t] > MaxRetries

Failures == \A t \in Task : Failed(t)

\* The steps of a worker that ends its attempt of u, or goes on with it.
LEMMA FailedAtHand ==
    ASSUME Typed, Typed', AllReached, Failures, NEW u \in Task, NEW w \in Worker, hand[w] = u,
           WorkerStep(w) \/ Crash(w) \/ Killed(w)
    PROVE  Failed(u)'
<1>1. WorkersTyped /\ QueueTyped /\ TasksTyped /\ HistoryTyped /\ QueueTyped'
  BY TypedParts, TypedPartsNext
<1>2. OthersStay(w) /\ Failed(u)
  BY WorkersApart DEF Failures
<1>3. \A t \in Task, r \in Retries : ~ Take(w, t, r)
  BY TakeMoves, ConstantsAssumption
<1>4. CASE Perform(w) \/ Raise(w)
  <2>1. Live(w, u)'
    BY <1>1, <1>4 DEF Perform, Raise, AtStep, Live, WorkersTyped
  <2> QED BY <2>1 DEF Failed
<1>5. CASE Succeed(w) \/ Retry(w)
  <2>1. status'[u] # "FAILURE"
    BY <1>1, <1>5 DEF Succeed, Retry, TasksTyped
  <2> QED BY <2>1 DEF Failed
<1>6. CASE RetryFails(w) \/ Killed(w)
  <2>1. u \in cut'
    BY <1>6 DEF RetryFails, Killed
  <2> QED BY <2>1 DEF Failed
<1>7. CASE GiveUp(w)
  <2>1. deliveries' = deliveries /\ deliveries[u] \in Nat /\ tried[w] = MaxRetries
    BY <1>1, <1>7 DEF GiveUp, history, HistoryTyped
  <2>2. tried[w] < deliveries[u]
    BY DEF AllReached, Reached
  <2>3. deliveries'[u] > MaxRetries
    BY <2>1, <2>2, ConstantsAssumption
  <2> QED BY <2>3 DEF Failed
<1>8. CASE Acknowledge(w)
  <2>1. /\ UNCHANGED <<queue, status, deliveries, purged, cut>>
        /\ ~ Live(w, u)
    BY <1>8 DEF Acknowledge, history, Live
  <2>2. \A v \in Worker : Live(v, u) => Live(v, u)'
    BY <1>2, <2>1 DEF OthersStay, Live
  <2> QED BY <1>2, <2>1, <2>2 DEF Failed, Waiting
<1>9. CASE Crash(w)
  <2>1. PICK r \in Retries : r = tried[w]
    BY <1>9, CrashMoves
  <2>2. queue[u][r] \in Nat
    BY <1>1 DEF QueueTyped
  <2>3. queue'[u][r] = queue[u][r] + 1
    BY <1>1, <1>9, <2>1 DEF Crash, GiveBack, QueueTyped
  <2>4. Waiting(u)'
    BY <2>2, <2>3 DEF Waiting
  <2> QED BY <2>4 DEF Failed
<1> QED BY <1>3, <1>4, <1>5, <1>6, <1>7, <1>8, <1>9 DEF WorkerStep

LEMMA FailedStep == Typed /\ AllReached /\ Failures /\ [Next]_vars => Failures'
<1> SUFFICES ASSUME Typed, AllReached, Failures, [Next]_vars, NEW u \in Task PROVE Failed(u)'
  BY DEF Failures
<1>0. Typed' /\ WorkersTyped /\ QueueTyped /\ TasksTyped /\ HistoryTyped /\ Failed(u)
  BY TypedStep, TypedParts DEF Failures
<1>1. ASSUME NEW t \in Task, NEW k \in Kinds, Enqueue(t, k) PROVE Failed(u)'
  <2>1. CASE u = t
    <3>1. status'[u] = "PENDING"
      BY <1>0, <1>1, <2>1 DEF Enqueue, TasksTyped
    <3> QED BY <3>1 DEF Failed
  <2>2. CASE u # t
    <3>1. /\ queue'[u] = queue[u] /\ status'[u] = status[u]
          /\ UNCHANGED <<hand, phase, deliveries, purged, cut>>
      BY <1>0, <1>1, <2>2 DEF Enqueue, workerVars, history, QueueTyped, TasksTyped
    <3> QED BY <1>0, <3>1 DEF Failed, Live, Waiting
  <2> QED BY <2>1, <2>2
<1>2. CASE Purge
  <2>1. /\ UNCHANGED <<hand, phase, status, deliveries, cut>>
        /\ purged' = purged \union {t \in Task : Waiting(t)}
    BY <1>2 DEF Purge, workerVars
  <2> QED BY <1>0, <2>1 DEF Failed, Live
<1>3. ASSUME NEW w \in Worker, WorkerStep(w) \/ Crash(w) \/ Killed(w) PROVE Failed(u)'
  <2>1. CASE hand[w] = u
    BY <1>0, <1>3, <2>1, FailedAtHand
  <2>2. CASE hand[w] # u /\ hand'[w] # u
    <3>1. \A v \in Worker : Live(v, u) => Live(v, u)'
      BY <1>3, <2>2, Elsewhere DEF Live
    <3>2. /\ status'[u] = status[u] /\ queue'[u] = queue[u] /\ deliveries'[u] = deliveries[u]
          /\ purged' = purged /\ cut \subseteq cut'
      BY <1>3, <2>2, Elsewhere
    <3> QED BY <1>0, <3>1, <3>2 DEF Failed, Waiting
  <2>3. CASE hand[w] # u /\ hand'[w] = u
    <3>1. PICK r \in Retries : Take(w, u, r)
      BY <1>0, <1>3, <2>3, ConstantsAssumption, TakeMoves DEF WorkerStep, Perform, Raise, Succeed,
         Retry, RetryFails, GiveUp, Acknowledge, Crash, Killed, Restarted, Free, WorkersTyped
    <3>2. status'[u] = "PROCESSING"
      BY <1>0, <3>1 DEF Take, TasksTyped
    <3> QED BY <3>2 DEF Failed
  <2> QED BY <2>1, <2>2, <2>3
<1>4. CASE UNCHANGED vars
  BY <1>0, <1>4 DEF vars, workerVars, history, Failed, Live, Waiting
<1> QED BY <1>1, <1>2, <1>3, <1>4 DEF Next

LEMMA FailedInit == Init => Failures
BY DEF Init, Failures, Failed

\* Where nothing failed, no breaker counts anything and nothing was cut short.
Sound == faults = 0 => cut = {} /\ \A w \in Worker, k \in DOMAIN Program : failures[w][k] = 0

LEMMA SoundStep == Typed /\ Sound /\ [Next]_vars => Sound'
<1> SUFFICES ASSUME Typed, Sound, [Next]_vars PROVE Sound'
  OBVIOUS
<1>0. BreakersTyped /\ HistoryTyped /\ faults \in Nat
  BY TypedParts, ConstantsAssumption DEF HistoryTyped
<1>1. ASSUME NEW t \in Task, NEW k \in Kinds, Enqueue(t, k) PROVE Sound'
  BY <1>1 DEF Enqueue, history, Sound
<1>2. CASE Purge
  BY <1>0, <1>2 DEF Purge, Sound
<1>3. ASSUME NEW w \in Worker, WorkerStep(w) PROVE Sound'
  <2>1. ASSUME NEW t \in Task, NEW r \in Retries, Take(w, t, r) PROVE Sound'
    BY <2>1 DEF Take, Sound
  <2>2. CASE Perform(w) \/ Raise(w) \/ Succeed(w) \/ GiveUp(w) \/ Acknowledge(w)
    BY <2>2 DEF Perform, Raise, Succeed, GiveUp, Acknowledge, history, Sound
  <2>3. CASE Retry(w)
    <3>1. kind[hand[w]] \in DOMAIN Program
      BY <2>3, HoldsProgram DEF Retry
    <3> QED BY <1>0, <2>3, <3>1 DEF Retry, Sent, history, BreakersTyped, Sound
  <2>4. CASE RetryFails(w)
    <3>1. kind[hand[w]] \in DOMAIN Program
      BY <2>4, HoldsProgram DEF RetryFails
    <3>2. CASE SendRefused(w, kind[hand[w]]) /\ UNCHANGED faults
      <4>1. failures[w][kind[hand[w]]] \in Nat /\ failures[w][kind[hand[w]]] # 0
        BY <1>0, <3>1, <3>2, ConstantsAssumption DEF SendRefused, MayRefuse, BreakersTyped
      <4> QED BY <3>1, <3>2, <4>1 DEF Sound
    <3>3. CASE faults' = faults + 1
      BY <1>0, <3>3 DEF Sound
    <3> QED BY <2>4, <3>2, <3>3 DEF RetryFails
  <2> QED BY <1>3, <2>1, <2>2, <2>3, <2>4 DEF WorkerStep
<1>4. ASSUME NEW w \in Worker, Crash(w) \/ Killed(w) PROVE Sound'
  BY <1>0, <1>4 DEF Crash, Killed, Restarted, Sound
<1>5. CASE UNCHANGED vars
  BY <1>5 DEF vars, history, Sound
<1> QED BY <1>1, <1>2, <1>3, <1>4, <1>5 DEF Next

LEMMA SoundInit == Init => Sound
BY DEF Init, Sound

\* Call i of the program of kind k was made with success for task t.
Made(t, k, i) ==
    Program[k][i] \notin Impossible /\ (Program[k][i] \in Effects => effects[t] > 0)

\* What a worker at an attempt of t has behind it.
Behind(w, t) == \A i \in DOMAIN Program[kind[t]] : i < pos[w] => Made(t, kind[t], i)

Earned(t) ==
    /\ status[t] = "SUCCESS" => \A i \in DOMAIN Program[kind[t]] : Made(t, kind[t], i)
    /\ \A w \in Worker : Runs(w, t) => Behind(w, t)

Earnings == \A t \in Task : Earned(t)

\* What was made stays made, for the same kind and attempts.
LEMMA EarnedKept ==
    ASSUME Earnings, NEW u \in Task, kind'[u] = kind[u], effects'[u] = effects[u],
           status'[u] = "SUCCESS" => status[u] = "SUCCESS",
           \A v \in Worker : Runs(v, u)' => Runs(v, u) /\ pos'[v] = pos[v]
    PROVE  Earned(u)'
BY DEF Earnings, Earned, Behind, Made

LEMMA EarnedPerform ==
    ASSUME Typed, Earnings, NEW w \in Worker, NEW u \in Task, hand[w] = u, Perform(w)
    PROVE  Earned(u)'
<1>1. WorkersTyped /\ HistoryTyped /\ TasksTyped /\ Earned(u) /\ OthersStay(w)
  BY TypedParts, WorkersApart DEF Earnings, WorkerStep
<1>2. /\ pos[w] \in DOMAIN Program[kind[u]] /\ pos[w] \in Nat
      /\ \A i \in DOMAIN Program[kind[u]] : i \in Nat
  BY HoldsProgram DEF Perform, AtStep, Steps
<1>3. /\ kind' = kind /\ hand' = hand /\ phase' = phase /\ pos'[w] = pos[w] + 1
      /\ Runs(w, u) /\ Step(w) \notin Impossible
      /\ Step(w) = Program[kind[u]][pos[w]]
      /\ effects'[u] = IF Step(w) \in Effects THEN effects[u] + 1 ELSE effects[u]
      /\ effects[u] \in Nat
  BY <1>1 DEF Perform, AtStep, Runs, Step, Steps, WorkersTyped, HistoryTyped
<1>4. status'[u] = "SUCCESS" => status[u] = "SUCCESS"
  <2>1. CASE status' = status
    BY <2>1
  <2>2. CASE status' = [status EXCEPT ![hand[w]] = "PROCESSING"]
    BY <1>1, <2>2 DEF TasksTyped
  <2> QED BY <2>1, <2>2 DEF Perform
<1>5. effects[u] > 0 => effects'[u] > 0
  BY <1>3
<1>6. ASSUME NEW i \in DOMAIN Program[kind[u]], i < pos'[w] PROVE Made(u, kind[u], i)'
  <2>1. i < pos[w] \/ i = pos[w]
    BY <1>2, <1>3, <1>6
  <2>2. CASE i < pos[w]
    BY <1>1, <1>3, <1>5, <2>2 DEF Earned, Behind, Made
  <2>3. CASE i = pos[w]
    BY <1>3, <2>3 DEF Made
  <2> QED BY <2>1, <2>2, <2>3
<1>7. ASSUME NEW v \in Worker, Runs(v, u)' PROVE Behind(v, u)'
  <2>1. CASE v = w
    BY <1>3, <1>6, <2>1 DEF Behind
  <2>2. CASE v # w
    <3>1. Runs(v, u) /\ pos'[v] = pos[v]
      BY <1>1, <1>7, <2>2 DEF OthersStay, Runs
    <3> QED BY <1>1, <1>3, <1>5, <3>1 DEF Earned, Behind, Made
  <2> QED BY <2>1, <2>2
<1>8. status'[u] = "SUCCESS" => \A i \in DOMAIN Program[kind'[u]] : Made(u, kind[u], i)'
  BY <1>1, <1>3, <1>4, <1>5 DEF Earned, Made
<1> QED BY <1>7, <1>8 DEF Earned

LEMMA EarnedSucceed ==
    ASSUME Typed, Earnings, NEW w \in Worker, NEW u \in Task, hand[w] = u, Succeed(w)
    PROVE  Earned(u)'
<1>1. WorkersTyped /\ Earned(u) /\ OthersStay(w)
  BY TypedParts, WorkersApart DEF Earnings, WorkerStep
<1>2. /\ UNCHANGED <<kind, hand, pos, effects>> /\ Runs(w, u) /\ ~ Runs(w, u)'
  BY <1>1 DEF Succeed, history, Runs, WorkersTyped
<1>3. \A i \in DOMAIN Program[kind[u]] : i < pos[w]
  BY HoldsProgram DEF Succeed, AtStep, Steps
<1>4. \A i \in DOMAIN Program[kind[u]] : Made(u, kind[u], i)'
  BY <1>1, <1>2, <1>3 DEF Earned, Behind, Made
<1>5. \A v \in Worker : Runs(v, u)' => Behind(v, u)'
  BY <1>1, <1>2 DEF Earned, Behind, Made, OthersStay, Runs
<1> QED BY <1>2, <1>4, <1>5 DEF Earned

LEMMA EarnedTake ==
    ASSUME Typed, Earnings, NEW w \in Worker, NEW u \in Task, NEW r \in Retries, Take(w, u, r)
    PROVE  Earned(u)'
<1>1. WorkersTyped /\ QueueTyped /\ TasksTyped /\ Earned(u) /\ OthersStay(w)
  BY TypedParts, WorkersApart DEF Earnings, WorkerStep
<1>2. /\ kind' = kind /\ effects' = effects /\ status'[u] = "PROCESSING"
      /\ pos'[w] = 1 /\ kind[u] # NoKind
  BY <1>1 DEF Take, WorkersTyped, QueueTyped, TasksTyped
<1>3. \A i \in DOMAIN Program[kind[u]] : i \in Nat /\ i >= 1
  BY <1>1, <1>2, KindProgram, ProgramShape DEF TasksTyped
<1>4. \A v \in Worker : Runs(v, u)' => Behind(v, u)'
  BY <1>1, <1>2, <1>3 DEF Earned, Behind, Made, OthersStay, Runs
<1> QED BY <1>2, <1>4 DEF Earned

LEMMA EarningsStep == Typed /\ Earnings /\ [Next]_vars => Earnings'
<1> SUFFICES ASSUME Typed, Earnings, [Next]_vars, NEW u \in Task PROVE Earned(u)'
  BY DEF Earnings
<1>0. WorkersTyped /\ TasksTyped
  BY TypedParts
<1>1. ASSUME NEW t \in Task, NEW k \in Kinds, Enqueue(t, k) PROVE Earned(u)'
  <2>1. UNCHANGED <<hand, phase, pos, effects>> /\ \A w \in Worker : hand[w] # t
    BY <1>1, EnqueueMoves DEF Enqueue, history
  <2>2. CASE u = t
    <3>1. status'[u] = "PENDING" /\ \A w \in Worker : ~ Runs(w, u)'
      BY <1>0, <1>1, <2>1, <2>2 DEF Enqueue, TasksTyped, Runs
    <3> QED BY <3>1 DEF Earned
  <2>3. CASE u # t
    <3>1. kind'[u] = kind[u] /\ status'[u] = status[u]
      BY <1>0, <1>1, <2>3 DEF Enqueue, TasksTyped
    <3> QED BY <2>1, <3>1, EarnedKept DEF Runs
  <2> QED BY <2>2, <2>3
<1>2. CASE Purge \/ UNCHANGED vars
  <2>1. UNCHANGED <<kind, hand, phase, pos, effects, status>>
    BY <1>2 DEF Purge, vars, workerVars, history
  <2> QED BY <2>1, EarnedKept DEF Runs
<1>3. ASSUME NEW w \in Worker, WorkerStep(w) \/ Crash(w) \/ Killed(w) PROVE Earned(u)'
  <2>1. OthersStay(w)
    BY <1>3, WorkersApart
  <2>2. CASE hand[w] # u /\ hand'[w] # u
    <3>1. /\ kind' = kind /\ effects'[u] = effects[u] /\ status'[u] = status[u]
          /\ \A v \in Worker : Runs(v, u)' => Runs(v, u) /\ pos'[v] = pos[v]
      BY <1>3, <2>2, Elsewhere DEF Runs
    <3> QED BY <3>1, EarnedKept
  <2>3. CASE hand[w] # u /\ hand'[w] = u
    <3>1. PICK r \in Retries : Take(w, u, r)
      BY <1>0, <1>3, <2>3, ConstantsAssumption, TakeMoves DEF WorkerStep, Perform, Raise, Succeed,
         Retry, RetryFails, GiveUp, Acknowledge, Crash, Killed, Restarted, Free, WorkersTyped
    <3> QED BY <3>1, EarnedTake
  <2>4. CASE hand[w] = u
    <3>1. \A t \in Task, r \in Retries : ~ Take(w, t, r)
      BY <2>4, TakeMoves, ConstantsAssumption
    <3>2. CASE Perform(w) \/ Succeed(w)
      BY <2>4, <3>2, EarnedPerform, EarnedSucceed
    <3>3. CASE Raise(w) \/ Retry(w) \/ GiveUp(w)
      <4>1. /\ kind' = kind /\ effects' = effects /\ ~ Runs(w, u)'
            /\ status'[u] = "SUCCESS" => status[u] = "SUCCESS"
        BY <1>0, <2>4, <3>3 DEF Raise, Retry, GiveUp, history, Runs, WorkersTyped, TasksTyped
      <4>2. \A v \in Worker : Runs(v, u)' => Runs(v, u) /\ pos'[v] = pos[v]
        BY <2>1, <4>1 DEF OthersStay, Runs
      <4> QED BY <4>1, <4>2, EarnedKept
    <3>4. CASE RetryFails(w) \/ Acknowledge(w) \/ Crash(w) \/ Killed(w)
      <4>1. /\ kind' = kind /\ effects' = effects /\ ~ Runs(w, u)'
            /\ status'[u] = "SUCCESS" => status[u] = "SUCCESS"
        BY <1>0, <2>4, <3>4, ConstantsAssumption DEF RetryFails, Acknowledge, Crash, Killed,
           Restarted, Free, history, Runs, WorkersTyped, TasksTyped
      <4>2. \A v \in Worker : Runs(v, u)' => Runs(v, u) /\ pos'[v] = pos[v]
        BY <2>1, <4>1 DEF OthersStay, Runs
      <4> QED BY <4>1, <4>2, EarnedKept
    <3> QED BY <1>3, <3>1, <3>2, <3>3, <3>4 DEF WorkerStep
  <2> QED BY <2>2, <2>3, <2>4
<1> QED BY <1>1, <1>2, <1>3 DEF Next

LEMMA EarningsInit == Init => Earnings
BY ConstantsAssumption DEF Init, Earnings, Earned, Runs

\* The last verdict on a task is earned: SUCCESS by an attempt that made every call of the
\* program, FAILURE by as many attempts as there are retries or by losing its message; and
\* as long as neither the broker nor a process fails, nothing is cut short.
THEOREM VerdictAlwaysEarned == Spec => []VerdictIsEarned
<1> DEFINE IInv == Typed /\ AllReached /\ Failures /\ Sound /\ Earnings
<1>1. Init => IInv
  BY InitTyped, ReachedInit, FailedInit, SoundInit, EarningsInit
<1>2. IInv /\ [Next]_vars => IInv'
  BY TypedStep, ReachedStep, FailedStep, SoundStep, EarningsStep
<1>3. IInv => VerdictIsEarned
  <2> SUFFICES ASSUME IInv PROVE VerdictIsEarned
    OBVIOUS
  <2>1. \A t \in Task : Failed(t) /\ Earned(t)
    BY DEF Failures, Earnings
  <2>2. ASSUME NEW t \in Task, status[t] = "SUCCESS"
        PROVE  \A i \in DOMAIN Program[kind[t]] :
                  /\ Program[kind[t]][i] \notin Impossible
                  /\ Program[kind[t]][i] \in Effects => effects[t] > 0
    BY <2>1, <2>2 DEF Earned, Made
  <2>3. ASSUME NEW t \in Task, status[t] = "FAILURE", ~ Waiting(t), ~ InHand(t)
        PROVE  deliveries[t] > MaxRetries \/ t \in purged \union cut
    BY <2>1, <2>3 DEF Failed, InHand, Live
  <2>4. cut # {} => faults > 0
    <3>1. faults \in Nat
      BY TypedParts, ConstantsAssumption DEF HistoryTyped
    <3> QED BY <3>1 DEF Sound
  <2> QED BY <2>2, <2>3, <2>4 DEF VerdictIsEarned
<1> QED BY <1>1, <1>2, <1>3, PTL DEF Spec
=============================================================================

------------------------------ MODULE Scheduler ------------------------------
(***************************************************************************)
(* ScheduledTaskManager (workers/scheduled_tasks): a table of tasks in     *)
(* memory, copied as a whole to one Redis key after every change; a loop   *)
(* that every 30 s runs what is due; an API that adds, removes, enables    *)
(* and disables tasks meanwhile; a process that may stop, start, crash and *)
(* be booted again.  All of it is asyncio: an action runs from one await   *)
(* to the next.                                                            *)
(*                                                                         *)
(* Abstracted: what the task functions do (a task runs over some awaits    *)
(* and ends, well or not: the loop goes on alike), names, counts of runs,  *)
(* the results that are stored, the clock (next_run is the number of times *)
(* it was computed, and passes when it does).                              *)
(***************************************************************************)
EXTENDS Naturals, FiniteSets, Sequences

CONSTANTS
    Loop,          \* room for the coroutines of _scheduler_loop
    Caller,        \* concurrent callers of the API
    DefaultTypes,  \* schedule_type of the default schedules, in their order
    ApiTypes,      \* the schedule types that callers use
    MaxTasks,      \* bound: entries of the table
    MaxSecond,     \* bound: seconds in which ids are made
    MaxNext,       \* bound: times next_run passes, per task
    MaxCalls,      \* bound: calls of the API, of start and of stop
    MaxFaults      \* bound: crashes, lost saves, failed loads

\* CRON computes a later time as INTERVAL does; "naive" is a ONCE whose run_at has no UTC
\* offset; the function of an "unknown" task is not in the registry.
Types == {"interval", "once", "naive", "unknown"}
Id == [second : 0 .. MaxSecond, n : 0 .. MaxTasks - 1]
None == [second |-> MaxSecond + 1, n |-> 0]
Writer == Loop \union Caller \union {"setup", "stop"}

ASSUME ConstantsAssumption ==
    /\ DefaultTypes \in Seq({"interval", "once"}) /\ DefaultTypes # <<>>
    /\ ApiTypes \subseteq Types
    /\ MaxTasks \in Nat \ {0} /\ Len(DefaultTypes) <= MaxTasks
    /\ {MaxSecond, MaxNext, MaxCalls, MaxFaults} \subseteq Nat
    /\ IsFiniteSet(Loop) /\ Loop \intersect Caller = {}
    /\ {"setup", "stop"} \intersect (Loop \union Caller) = {}

VARIABLES
    up, running,     \* the process; is_running
    table,           \* scheduled_tasks, a dictionary: in order of insertion
    stored,          \* the value of the Redis key
    writes,          \* of each writer: the copy on its way to Redis, or <<>>
    setup,           \* 0, or 1 + how many defaults start() has yet to schedule
    pc, at, size, asof, task,     \* of each loop
    second,          \* int(time.time())
    passed,          \* <<id, next>> of the times that have come
    calls, faults,
    promised,        \* history: tasks added and acknowledged, not removed since
    disturbed        \* history: copies overlapped or were lost, ids collided

loopVars == <<pc, at, size, asof, task>>
clockVars == <<second, passed>>
history == <<promised, disturbed>>
vars == <<up, running, table, stored, writes, setup, loopVars, clockVars, calls, faults,
          history>>

Nothing == [copy |-> <<>>, sent |-> FALSE]
Copy(t) == [copy |-> t, sent |-> TRUE]
Busy(w) == writes[w].sent
Ids(t) == {t[i].id : i \in DOMAIN t}
Due(e) == <<e.id, e.next>> \in passed
Quiet == \A w \in Writer : ~Busy(w)

Init ==
    /\ up = FALSE /\ running = FALSE
    /\ table = <<>> /\ stored = <<>>
    /\ writes = [w \in Writer |-> Nothing]
    /\ setup = 0
    /\ pc = [l \in Loop |-> "none"]
    /\ at = [l \in Loop |-> 0]
    /\ size = [l \in Loop |-> 0]
    /\ asof = [l \in Loop |-> {}]
    /\ task = [l \in Loop |-> None]
    /\ second = 0 /\ passed = {}
    /\ calls = 0 /\ faults = 0
    /\ promised = {} /\ disturbed = FALSE

-----------------------------------------------------------------------------
(* Saving.  The copy is made at once, the write to Redis is awaited: writes  *)
(* on their way together may arrive in either order.                         *)

Save(w, t) ==
    /\ writes' = [writes EXCEPT ![w] = Copy(t)]
    /\ disturbed' = (disturbed \/ ~Quiet)

Land(w) ==
    /\ Busy(w)
    /\ stored' = writes[w].copy
    /\ writes' = [writes EXCEPT ![w] = Nothing]
    /\ UNCHANGED <<up, running, table, setup, loopVars, clockVars, calls, faults,
                   history>>

\* The write fails; the error is logged.
LoseSave(w) ==
    /\ Busy(w)
    /\ faults < MaxFaults
    /\ faults' = faults + 1
    /\ writes' = [writes EXCEPT ![w] = Nothing]
    /\ disturbed' = TRUE
    /\ UNCHANGED <<up, running, table, stored, setup, loopVars, clockVars, calls, promised>>

-----------------------------------------------------------------------------
(* The API.                                                                  *)

NewId == [second |-> second, n |-> Len(table)]
NewTask(type) ==
    [id |-> NewId, type |-> type, next |-> 0, enabled |-> TRUE]

\* Mutant: every assignment makes a new entry.
BugPut(t, e) == Append(t, e)

\* Assignment to a dictionary: a known id keeps its place, a new one comes last.
Put(t, e) ==
    IF e.id \in Ids(t)
    THEN [i \in DOMAIN t |-> IF t[i].id = e.id THEN e ELSE t[i]]
    ELSE Append(t, e)

\* A loop that runs a task which left the table runs an object nobody else knows.
Orphan(id) == task' = [l \in Loop |-> IF task[l] = id THEN None ELSE task[l]]

\* schedule_task, up to the await of its save.
Schedule(w, type) ==
    /\ table' = Put(table, NewTask(type))
    /\ Orphan(NewId)
    /\ writes' = [writes EXCEPT ![w] = Copy(table')]
    /\ promised' = promised \union {NewId}
    /\ disturbed' = (disturbed \/ ~Quiet \/ NewId \in Ids(table))
    /\ passed' = passed \ {<<NewId, k>> : k \in 0 .. MaxNext}
    /\ UNCHANGED <<up, running, stored, pc, at, size, asof, second, faults>>

\* Caller c may call.
Call(c) ==
    /\ up /\ ~Busy(c)
    /\ calls < MaxCalls
    /\ calls' = calls + 1

\* Bound: callers leave room for the defaults that are yet to come.
Room == Len(table) + (IF setup > 1 THEN setup - 1 ELSE 0) < MaxTasks

Add(c, type) ==
    /\ Call(c)
    /\ Room
    /\ Schedule(c, type)
    /\ UNCHANGED setup

\* Mutant: the removal is saved with the next change only.
BugRemove(c, i) ==
    /\ Call(c)
    /\ table' = SubSeq(table, 1, i - 1) \o SubSeq(table, i + 1, Len(table))
    /\ at' = [l \in Loop |-> IF at[l] >= i THEN at[l] - 1 ELSE at[l]]
    /\ Orphan(table[i].id)
    /\ promised' = promised \ {table[i].id}
    /\ UNCHANGED <<up, running, stored, writes, setup, pc, size, asof, clockVars, faults,
                   disturbed>>

\* remove_scheduled_task; an iterator stays at the entry it is at.
Remove(c, i) ==
    /\ Call(c)
    /\ table' = SubSeq(table, 1, i - 1) \o SubSeq(table, i + 1, Len(table))
    /\ at' = [l \in Loop |-> IF at[l] >= i THEN at[l] - 1 ELSE at[l]]
    /\ Orphan(table[i].id)
    /\ Save(c, table')
    /\ promised' = promised \ {table[i].id}
    /\ UNCHANGED <<up, running, stored, setup, pc, size, asof, clockVars, faults>>

\* enable_scheduled_task and disable_scheduled_task.
SetEnabled(c, i, value) ==
    /\ Call(c)
    /\ table' = [table EXCEPT ![i].enabled = value]
    /\ Save(c, table')
    /\ UNCHANGED <<up, running, stored, setup, loopVars, clockVars, faults, promised>>

-----------------------------------------------------------------------------
(* initialize, start and stop.                                               *)

\* _load_scheduled_tasks; a failure to read is logged, and the table stays empty.
Boot ==
    /\ ~up
    /\ up' = TRUE
    /\ \/ table' = stored /\ UNCHANGED <<faults, disturbed>>
       \/ /\ faults < MaxFaults
          /\ faults' = faults + 1
          /\ table' = <<>>
          /\ disturbed' = TRUE
    /\ UNCHANGED <<running, stored, writes, setup, loopVars, clockVars, calls, promised>>

\* create_task(_scheduler_loop()).
Spawn ==
    \E l \in Loop : pc[l] = "none" /\ pc' = [pc EXCEPT ![l] = "sleep"]

\* start: with an empty table the defaults are scheduled first.
\* Bound: one set-up at a time.
Start ==
    /\ up /\ ~running
    /\ setup = 0 \/ table # <<>>
    /\ calls < MaxCalls
    /\ calls' = calls + 1
    /\ running' = TRUE
    /\ IF table = <<>>
       THEN setup' = Len(DefaultTypes) + 1 /\ UNCHANGED pc
       ELSE Spawn /\ UNCHANGED setup
    /\ UNCHANGED <<up, table, stored, writes, at, size, asof, task, clockVars, faults, history>>

\* One default of _setup_default_schedules.
ScheduleDefault ==
    /\ setup > 1 /\ ~Busy("setup")
    /\ Schedule("setup", DefaultTypes[Len(DefaultTypes) - setup + 2])
    /\ setup' = setup - 1
    /\ UNCHANGED calls

\* The defaults are saved.  The loop is created even when stop was called since.
SetupDone ==
    /\ setup = 1 /\ ~Busy("setup")
    /\ Spawn
    /\ setup' = 0
    /\ UNCHANGED <<up, running, table, stored, writes, at, size, asof, task, clockVars, calls,
                   faults, history>>

Stop ==
    /\ up /\ ~Busy("stop")
    /\ calls < MaxCalls
    /\ calls' = calls + 1
    /\ running' = FALSE
    /\ Save("stop", table)
    /\ UNCHANGED <<up, table, stored, setup, loopVars, clockVars, faults, promised>>

Crash ==
    /\ up
    /\ faults < MaxFaults
    /\ faults' = faults + 1
    /\ up' = FALSE /\ running' = FALSE
    /\ table' = <<>> /\ setup' = 0
    /\ writes' = [w \in Writer |-> Nothing]
    /\ pc' = [l \in Loop |-> "none"]
    /\ at' = [l \in Loop |-> 0]
    /\ size' = [l \in Loop |-> 0]
    /\ asof' = [l \in Loop |-> {}]
    /\ task' = [l \in Loop |-> None]
    /\ disturbed' = (disturbed \/ ~Quiet)
    /\ UNCHANGED <<stored, clockVars, calls, promised>>

\* The key lives for seven days after a save.
Expire ==
    /\ ~up /\ stored # <<>>
    /\ stored' = <<>>
    /\ disturbed' = TRUE
    /\ UNCHANGED <<up, running, table, writes, setup, loopVars, clockVars, calls, faults, promised>>

-----------------------------------------------------------------------------
(* _scheduler_loop.                                                          *)

\* Mutant: an error ends the loop.
BugRest(l) ==
    /\ pc' = [pc EXCEPT ![l] = IF size[l] \in {0, Len(table)} THEN "sleep" ELSE "none"]
    /\ at' = [at EXCEPT ![l] = 0]
    /\ size' = [size EXCEPT ![l] = 0]
    /\ asof' = [asof EXCEPT ![l] = {}]
    /\ task' = [task EXCEPT ![l] = None]

\* The end of a pass, or of its try: sleep for 30 or 60 s.
Rest(l) ==
    /\ pc' = [pc EXCEPT ![l] = "sleep"]
    /\ at' = [at EXCEPT ![l] = 0]
    /\ size' = [size EXCEPT ![l] = 0]
    /\ asof' = [asof EXCEPT ![l] = {}]
    /\ task' = [task EXCEPT ![l] = None]

\* next_run and the aware current_time do not compare: TypeError.
Raises(e) == e.enabled /\ e.type = "naive"

\* A task without a function is logged and returned from: no await, no new next_run.
Runs(e, ids) == e.enabled /\ e.type \in {"interval", "once"} /\ e.id \in ids /\ Due(e)

\* The iterator goes on after entry i, of a dictionary that had n entries when the pass
\* began: it raises when the number has changed, and else finds the next entry that is
\* enabled and was due at the pass's current_time (ids), or one that does not compare.
Advance(l, i, n, ids) ==
    LET hits == {j \in i + 1 .. Len(table) : Raises(table[j]) \/ Runs(table[j], ids)}
        j == CHOOSE k \in hits : \A m \in hits : k <= m
    IN  IF Len(table) # n \/ hits = {} \/ Raises(table[j])
        THEN Rest(l)
        ELSE /\ pc' = [pc EXCEPT ![l] = "run"]
             /\ at' = [at EXCEPT ![l] = j]
             /\ size' = [size EXCEPT ![l] = n]
             /\ asof' = [asof EXCEPT ![l] = ids]
             /\ task' = [task EXCEPT ![l] = table[j].id]

\* Mutant: the loop looks at is_running only when nothing is due.
BugWake(l) ==
    /\ pc[l] = "sleep"
    /\ running \/ \E i \in DOMAIN table : Due(table[i])
    /\ Advance(l, 0, Len(table), {table[i].id : i \in {j \in DOMAIN table : Due(table[j])}})
    /\ UNCHANGED <<up, running, table, stored, writes, setup, clockVars, calls, faults, history>>

Wake(l) ==
    /\ pc[l] = "sleep"
    /\ running
    /\ Advance(l, 0, Len(table), {table[i].id : i \in {j \in DOMAIN table : Due(table[j])}})
    /\ UNCHANGED <<up, running, table, stored, writes, setup, clockVars, calls, faults, history>>

LoopEnds(l) ==
    /\ pc[l] = "sleep"
    /\ ~running
    /\ pc' = [pc EXCEPT ![l] = "none"]
    /\ UNCHANGED <<up, running, table, stored, writes, setup, at, size, asof, task, clockVars,
                   calls, faults, history>>

\* The entry that loop l runs, unless it left the table.
Mine(l) == {i \in DOMAIN table : table[i].id = task[l]}

\* The task function returned or raised; the result is being stored.
TaskReturns(l) ==
    /\ pc[l] = "run"
    /\ pc' = [pc EXCEPT ![l] = "store"]
    /\ UNCHANGED <<up, running, table, stored, writes, setup, at, size, asof, task, clockVars, calls,
                   faults, history>>

\* _calculate_next_run: a time to come, but for ONCE the same run_at again.
NextRun(e) == IF e.type = "interval" THEN e.next + 1 ELSE e.next

\* The result is stored, or not: next_run is set and the table saved.
Reschedule(l) ==
    /\ pc[l] = "store"
    /\ table' = [i \in DOMAIN table |->
                    IF i \in Mine(l) THEN [table[i] EXCEPT !.next = NextRun(table[i])] ELSE table[i]]
    /\ Save(l, table')
    /\ pc' = [pc EXCEPT ![l] = "save"]
    /\ UNCHANGED <<up, running, stored, setup, at, size, asof, task, clockVars, calls, faults,
                   promised>>

\* The save is over, well or not: on to the next entry.
Continue(l) ==
    /\ pc[l] = "save" /\ ~Busy(l)
    /\ Advance(l, at[l], size[l], asof[l])
    /\ UNCHANGED <<up, running, table, stored, writes, setup, clockVars, calls, faults, history>>

-----------------------------------------------------------------------------
(* Time.                                                                     *)

Tick ==
    /\ second < MaxSecond
    /\ second' = second + 1
    /\ UNCHANGED <<up, running, table, stored, writes, setup, loopVars, passed, calls, faults,
                   history>>

\* The next_run of a task passes.
ComesDue(i) ==
    /\ ~Due(table[i])
    /\ table[i].next < MaxNext
    /\ passed' = passed \union {<<table[i].id, table[i].next>>}
    /\ UNCHANGED <<up, running, table, stored, writes, setup, loopVars, second, calls, faults,
                   history>>

LoopStep(l) ==
    Wake(l) \/ LoopEnds(l) \/ TaskReturns(l) \/ Reschedule(l) \/ Continue(l)

Next ==
    \/ \E w \in Writer : Land(w) \/ LoseSave(w)
    \/ \E c \in Caller :
          \/ \E type \in ApiTypes : Add(c, type)
          \/ \E i \in DOMAIN table : Remove(c, i)
          \/ \E i \in DOMAIN table, value \in BOOLEAN : SetEnabled(c, i, value)
    \/ Boot \/ Start \/ ScheduleDefault \/ SetupDone \/ Stop \/ Crash \/ Expire
    \/ \E l \in Loop : LoopStep(l)
    \/ Tick
    \/ \E i \in DOMAIN table : ComesDue(i)

\* The event loop and Redis serve everyone; task functions return.
Fairness ==
    /\ \A w \in Writer : WF_vars(Land(w))
    /\ WF_vars(ScheduleDefault) /\ WF_vars(SetupDone)
    /\ \A l \in Loop : WF_vars(LoopStep(l))

Spec == Init /\ [][Next]_vars
LiveSpec == Spec /\ Fairness

-----------------------------------------------------------------------------
Entries == [id : Id, type : Types, next : 0 .. MaxNext + Cardinality(Loop),
            enabled : BOOLEAN]

\* The variables stay in their ranges; a table names each task once.
TypeOK ==
    /\ up \in BOOLEAN /\ running \in BOOLEAN /\ disturbed \in BOOLEAN
    /\ table \in Seq(Entries) /\ Len(table) <= MaxTasks
    /\ stored \in Seq(Entries)
    /\ Cardinality(Ids(table)) = Len(table)
    /\ \A w \in Writer : writes[w].copy \in Seq(Entries) /\ writes[w].sent \in BOOLEAN
    /\ setup \in 0 .. Len(DefaultTypes) + 1
    /\ pc \in [Loop -> {"none", "sleep", "run", "store", "save"}]
    /\ at \in [Loop -> 0 .. MaxTasks]
    /\ size \in [Loop -> 0 .. MaxTasks]
    /\ asof \in [Loop -> SUBSET Id]
    /\ task \in [Loop -> Id \union {None}]
    /\ second \in 0 .. MaxSecond
    /\ passed \subseteq Id \X (0 .. MaxNext)
    /\ calls \in 0 .. MaxCalls /\ faults \in 0 .. MaxFaults
    /\ promised \subseteq Id

\* What is in Redis survives the process: as long as copies do not overlap and none is
\* lost, the stored tasks are, whenever nothing is on its way, exactly those that were
\* added and not removed, whatever stopped, crashed or was booted in between; and they
\* are the table of the running process.
Durable ==
    Quiet /\ ~disturbed =>
        /\ Ids(stored) = promised
        /\ up => stored = table

\* A task that is due, enabled and scheduled in a running manager is run by some loop,
\* unless it is removed or disabled or the manager stops: a table that changes during
\* a pass ends the pass with an error and never the loop.  Two kinds of tasks are never
\* served: those whose function is unknown, and those behind an enabled one whose
\* run_at is naive, at which every pass ends.
Waiting(id) ==
    running /\ \E i \in DOMAIN table :
                  /\ table[i].id = id
                  /\ Runs(table[i], {id})
                  /\ \A j \in 1 .. i - 1 : ~Raises(table[j])
Served(id) == \E l \in Loop : task[l] = id
DueTaskRuns == \A id \in Id : Waiting(id) ~> Served(id) \/ ~Waiting(id)

\* After stop every loop ends, the one that a start still in its set-up goes on to
\* create included, unless the manager is started again first.
StopQuiets == ~running ~> running \/ (setup = 0 /\ \A l \in Loop : pc[l] = "none")
=============================================================================

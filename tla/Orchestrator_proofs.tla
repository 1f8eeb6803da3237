------------------------ MODULE Orchestrator_proofs ------------------------
(***************************************************************************)
(* Proofs about Orchestrator, for any number of requests and conversations *)
(* and any options: type correctness; one pipeline per conversation until  *)
(* the lock entry is deleted; what a response says of its stages, tasks    *)
(* and ticket, and that a verdict is final; and that the table of active   *)
(* conversations and the counters agree with the requests in flight.       *)
(***************************************************************************)
EXTENDS Orchestrator, SequenceTheorems, FiniteSetTheorems, TLAPS

Locking == InPipeline \union {"lock"}

\* A request in the pipeline owns the lock object it asked for; that object is
\* the listed one as long as the entry of the conversation was never deleted.
LockHeld ==
    \A r \in Req :
        /\ pc[r] \in Locking => lockOf[r] \in Req
        /\ pc[r] \in InPipeline => holder[lockOf[r]] = r

LockListed ==
    \A r \in Req :
        pc[r] \in Locking /\ conv[r] \notin dropped => lockMap[conv[r]] = lockOf[r]

IInv == TypeOK /\ LockHeld /\ LockListed

\* The part of the state a step of the pipeline may change, in its range.
SharedOK ==
    /\ pc \in [Req -> PC]
    /\ resp \in [Req -> Response]
    /\ outcome \in [Req -> Outcomes]
    /\ active \in [Conv -> Req \union {None}]
    /\ lockMap \in [Conv -> Req \union {None}]
    /\ lockOf \in [Req -> Req \union {None}]
    /\ holder \in [Req -> Req \union {None}]
    /\ waiters \in [Req -> Seq(Req)]
    /\ metrics \in [total: Nat, successful: Nat, failed: Nat]
    /\ dropped \subseteq Conv

\* ... and the part that is set by the request's own stage.
OwnOK ==
    /\ ready \in BOOLEAN /\ frozen \in BOOLEAN /\ closing \in BOOLEAN
    /\ initBy \in Req \union {None}
    /\ conv \in [Req -> Conv]
    /\ shape \in [Req -> Shapes]
    /\ attempt \in [Req -> 0 .. MaxRetries]
    /\ sttTask \in [Req -> TaskState]
    /\ genTask \in [Req -> TaskState]
    /\ ticketTask \in [Req -> TaskState]

LEMMA TypeParts == TypeOK <=> SharedOK /\ OwnOK
BY DEF TypeOK, SharedOK, OwnOK

LockInv == LockHeld /\ LockListed

LEMMA EnterType ==
    ASSUME NEW r, NEW next \in InPipeline \union {"finish"}, NEW rsp \in Response,
           next \notin {"sttPause", "ttsPause"}
    PROVE  Enter(r, next, rsp) \in Response
BY DEF Enter, InPipeline, Response, Stage, State

LEMMA ReleaseType ==
    ASSUME TypeOK, NEW l \in Req, Release(l)
    PROVE  /\ holder' \in [Req -> Req \union {None}]
           /\ waiters' \in [Req -> Seq(Req)]
           /\ \A k \in Req : k # l => holder'[k] = holder[k]
<1>1. waiters[l] \in Seq(Req)
  BY DEF TypeOK
<1>2. waiters[l] # <<>> => Head(waiters[l]) \in Req /\ Tail(waiters[l]) \in Seq(Req)
  BY <1>1
<1>3. QED
  BY <1>1, <1>2 DEF Release, TypeOK

LEMMA CountedType ==
    ASSUME TypeOK, NEW out
    PROVE  Counted(out) \in [total: Nat, successful: Nat, failed: Nat]
<1>1. metrics \in [total: Nat, successful: Nat, failed: Nat]
  BY DEF TypeOK
<1>2. /\ [metrics EXCEPT !.successful = @ + 1] \in [total: Nat, successful: Nat, failed: Nat]
      /\ [metrics EXCEPT !.failed = @ + 1] \in [total: Nat, successful: Nat, failed: Nat]
  BY <1>1
<1>3. CASE out = "completed"
  BY <1>2, <1>3 DEF Counted
<1>4. CASE out \in {"failed", "timeout"}
  BY <1>2, <1>4 DEF Counted
<1>5. CASE out \notin {"completed", "failed", "timeout"}
  BY <1>1, <1>5 DEF Counted
<1>6. QED
  BY <1>3, <1>4, <1>5

\* Leaving the pipeline gives the lock away: nobody else's lock changes hands.
LEMMA LeavePreserves ==
    ASSUME IInv, NEW r \in Req, NEW rsp \in Response, NEW out \in Outcomes,
           pc[r] \in Locking, holder[lockOf[r]] = r,
           Leave(r, rsp, out), UNCHANGED conv
    PROVE  SharedOK' /\ LockInv'
<1>1. lockOf[r] \in Req
  BY DEF IInv, LockHeld
<1>2. /\ holder' \in [Req -> Req \union {None}]
      /\ waiters' \in [Req -> Seq(Req)]
      /\ \A k \in Req : k # lockOf[r] => holder'[k] = holder[k]
  BY <1>1, ReleaseType DEF Leave, IInv
<1>3. SharedOK'
  <2>1. metrics' \in [total: Nat, successful: Nat, failed: Nat]
    BY CountedType DEF Leave, IInv
  <2>2. QED
    BY <1>2, <2>1 DEF Leave, IInv, TypeOK, SharedOK, PC
<1>4. LockHeld'
  BY <1>1, <1>2 DEF Leave, IInv, LockHeld, TypeOK, Locking, InPipeline
<1>5. LockListed'
  BY DEF Leave, IInv, LockListed, TypeOK, Locking, InPipeline
<1>6. QED
  BY <1>3, <1>4, <1>5 DEF LockInv

\* Going on to another stage keeps the lock.
LEMMA ProceedPreserves ==
    ASSUME IInv, NEW r \in Req, NEW rsp \in Response,
           NEW next \in InPipeline \union {"finish"},
           next \notin {"sttPause", "ttsPause"},
           pc[r] \in Locking, holder[lockOf[r]] = r,
           Proceed(r, next, rsp), UNCHANGED conv
    PROVE  SharedOK' /\ LockInv'
<1>1. Enter(r, next, rsp) \in Response
  BY EnterType
<1>2. CASE next = "finish"
  <2>1. Leave(r, Enter(r, next, rsp), "completed")
    BY <1>2 DEF Proceed
  <2>2. "completed" \in Outcomes
    BY DEF Outcomes
  <2>3. QED
    BY <1>1, <2>1, <2>2, LeavePreserves
<1>3. CASE next # "finish"
  <2>1. SharedOK'
    BY <1>1, <1>3 DEF Proceed, IInv, TypeOK, SharedOK, PC, sharedVars, lockVars
  <2>2. LockHeld'
    BY <1>3 DEF Proceed, IInv, LockHeld, TypeOK, Locking, InPipeline, sharedVars, lockVars
  <2>3. LockListed'
    BY <1>3 DEF Proceed, IInv, LockListed, TypeOK, Locking, InPipeline, sharedVars, lockVars
  <2>4. QED
    BY <2>1, <2>2, <2>3 DEF LockInv
<1>4. QED
  BY <1>2, <1>3

LEMMA FailPreserves ==
    ASSUME IInv, NEW r \in Req, pc[r] \in Locking, holder[lockOf[r]] = r,
           Fail(r), UNCHANGED conv
    PROVE  SharedOK' /\ LockInv'
<1>1. [resp[r] EXCEPT !.stage = "FAILED", !.state = "ERROR"] \in Response
  <2>1. resp[r] \in Response
    BY DEF IInv, TypeOK
  <2>2. QED
    BY <2>1 DEF Response, Stage, State
<1>2. "failed" \in Outcomes
  BY DEF Outcomes
<1>3. QED
  BY <1>1, <1>2, LeavePreserves DEF Fail

LEMMA TotalType ==
    ASSUME TypeOK
    PROVE  /\ [metrics EXCEPT !.total = @ + 1] \in [total: Nat, successful: Nat, failed: Nat]
           /\ [metrics EXCEPT !.total = @ + 1, !.failed = @ + 1]
                  \in [total: Nat, successful: Nat, failed: Nat]
<1>1. metrics \in [total: Nat, successful: Nat, failed: Nat]
  BY DEF TypeOK
<1>2. [metrics EXCEPT !.total = @ + 1] \in [total: Nat, successful: Nat, failed: Nat]
  BY <1>1
<1>3. [metrics EXCEPT !.total = @ + 1, !.failed = @ + 1]
          \in [total: Nat, successful: Nat, failed: Nat]
  <2>1. [metrics EXCEPT !.total = @ + 1, !.failed = @ + 1]
            = [[metrics EXCEPT !.total = @ + 1] EXCEPT !.failed = @ + 1]
    BY <1>1 DEF TypeOK
  <2>2. \A m \in [total: Nat, successful: Nat, failed: Nat] :
            [m EXCEPT !.failed = @ + 1] \in [total: Nat, successful: Nat, failed: Nat]
    OBVIOUS
  <2>3. QED
    BY <1>2, <2>1, <2>2
<1>4. QED
  BY <1>2, <1>3

\* The lock a request asks for is one object of the table or its own.
LEMMA LockForType ==
    ASSUME TypeOK, NEW r \in Req
    PROVE  LockFor(r) \in Req
BY DEF TypeOK, LockFor

LEMMA StartSttType ==
    ASSUME TypeOK, NEW r \in Req, StartStt(r)
    PROVE  sttTask' \in [Req -> TaskState]
BY DEF TypeOK, StartStt, TaskState

\* Being let in creates the STT task at most.
LEMMA AdmitTasks ==
    ASSUME TypeOK, NEW r \in Req, Admit(r)
    PROVE  sttTask' \in [Req -> TaskState]
BY StartSttType DEF TypeOK, Admit, AdmitWaiting, AdmitRunning, AdmitRejected

LEMMA AdmitPreserves ==
    ASSUME IInv, NEW r \in Req, pc[r] \in {"idle", "init"}, Admit(r)
    PROVE  SharedOK' /\ LockInv'
<1> DEFINE l == LockFor(r)
<1>1. l \in Req
  BY LockForType DEF IInv
<1>2. pc[r] \notin Locking
  BY DEF Locking, InPipeline
<1>3. CASE AdmitWaiting(r)
  <2>1. SharedOK'
    <3>1. waiters[l] \in Seq(Req)
      BY <1>1 DEF IInv, TypeOK
    <3>2. Append(waiters[l], r) \in Seq(Req)
      BY <3>1
    <3>3. metrics' \in [total: Nat, successful: Nat, failed: Nat]
      BY <1>3, TotalType DEF AdmitWaiting, Track, IInv
    <3>4. QED
      BY <1>1, <1>3, <3>2, <3>3
         DEF AdmitWaiting, Track, Admit, IInv, TypeOK, SharedOK, PC
  <2>2. LockHeld'
    BY <1>1, <1>2, <1>3
       DEF AdmitWaiting, Track, Admit, IInv, TypeOK, LockHeld, Locking, InPipeline
  <2>3. LockListed'
    BY <1>1, <1>2, <1>3, ConstantsAssumption
       DEF AdmitWaiting, Track, Admit, IInv, TypeOK, LockHeld, LockListed, LockFor,
           Locking, InPipeline
  <2>4. QED
    BY <2>1, <2>2, <2>3 DEF LockInv
<1>4. CASE AdmitRunning(r)
  <2>1. FirstStage(r) \in {"stt", "nlu"}
    BY DEF FirstStage
  <2>2. SharedOK'
    <3>1. resp[r] \in Response
      BY DEF IInv, TypeOK
    <3>2. Listening(resp[r]) \in Response
      BY <3>1 DEF Listening, Response, State
    <3>3. Enter(r, FirstStage(r), Listening(resp[r])) \in Response
      BY <2>1, <3>2, EnterType DEF InPipeline
    <3>4. metrics' \in [total: Nat, successful: Nat, failed: Nat]
      BY <1>4, TotalType DEF AdmitRunning, Track, IInv
    <3>5. QED
      BY <1>1, <1>4, <2>1, <3>3, <3>4
         DEF AdmitRunning, Track, Admit, IInv, TypeOK, SharedOK, PC, InPipeline
  <2>3. LockHeld'
    BY <1>1, <1>2, <1>4, <2>1, ConstantsAssumption
       DEF AdmitRunning, Track, Admit, IInv, TypeOK, LockHeld, Locking, InPipeline
  <2>4. LockListed'
    BY <1>1, <1>2, <1>4, <2>1, ConstantsAssumption
       DEF AdmitRunning, Track, Admit, IInv, TypeOK, LockHeld, LockListed, LockFor,
           Locking, InPipeline
  <2>5. QED
    BY <2>2, <2>3, <2>4 DEF LockInv
<1>5. CASE AdmitRejected(r)
  <2>1. SharedOK'
    <3>1. resp[r] \in Response
      BY DEF IInv, TypeOK
    <3>2. [resp[r] EXCEPT !.stage = "FAILED", !.state = "ERROR"] \in Response
      BY <3>1 DEF Response, Stage, State
    <3>3. resp' \in [Req -> Response]
      BY <1>5, <3>2 DEF AdmitRejected, IInv, TypeOK
    <3>4. metrics' \in [total: Nat, successful: Nat, failed: Nat]
      BY <1>5, TotalType DEF AdmitRejected, IInv
    <3>5. QED
      BY <1>1, <1>5, <3>3, <3>4
         DEF AdmitRejected, Admit, IInv, TypeOK, SharedOK, PC, Outcomes
  <2>2. LockHeld'
    BY <1>1, <1>2, <1>5
       DEF AdmitRejected, Admit, IInv, TypeOK, LockHeld, Locking, InPipeline
  <2>3. LockListed'
    BY <1>1, <1>2, <1>5, ConstantsAssumption
       DEF AdmitRejected, Admit, IInv, TypeOK, LockHeld, LockListed, LockFor,
           Locking, InPipeline
  <2>4. QED
    BY <2>1, <2>2, <2>3 DEF LockInv
<1>6. QED
  BY <1>3, <1>4, <1>5 DEF Admit

\* A coroutine that leaves before it has the pipeline's lock takes no lock along.
LEMMA QuitPreserves ==
    ASSUME IInv, NEW r \in Req, pc' = [pc EXCEPT ![r] = "done"],
           NEW out \in Outcomes, outcome' = [outcome EXCEPT ![r] = out],
           UNCHANGED <<conv, resp, sharedVars>>
    PROVE  SharedOK' /\ LockInv'
BY DEF IInv, TypeOK, SharedOK, LockInv, LockHeld, LockListed, PC, Locking, InPipeline,
       sharedVars, lockVars

\* A suspended coroutine that moves inside its stage, or enters initialize().
LEMMA MovePreserves ==
    ASSUME IInv, NEW r \in Req, NEW p \in PC, pc' = [pc EXCEPT ![r] = p],
           p \in InPipeline => pc[r] \in InPipeline, p # "lock",
           UNCHANGED <<conv, resp, outcome, sharedVars>>
    PROVE  SharedOK' /\ LockInv'
BY DEF IInv, TypeOK, SharedOK, LockInv, LockHeld, LockListed, PC, Locking, InPipeline,
       sharedVars, lockVars

\* A task of the parallel pipeline writes into the response only.
LEMMA WritePreserves ==
    ASSUME IInv, NEW r \in Req, NEW rsp \in Response, Write(r, rsp)
    PROVE  SharedOK' /\ LockInv'
BY DEF Write, IInv, TypeOK, SharedOK, LockInv, LockHeld, LockListed, sharedVars, lockVars

LEMMA StopAllPreserves ==
    ASSUME IInv, NEW C \in SUBSET Conv, StopAll(C)
    PROVE  SharedOK' /\ LockInv'
<1>1. SharedOK'
  BY DEF StopAll, IInv, TypeOK, SharedOK
<1>2. LockHeld'
  BY DEF StopAll, IInv, LockHeld
<1>3. LockListed'
  BY ConstantsAssumption DEF StopAll, IInv, TypeOK, LockHeld, LockListed
<1>4. QED
  BY <1>1, <1>2, <1>3 DEF LockInv

\* A cancelled waiter: the queue stays a queue, and the lock moves only if it was his.
LEMMA CancelWaitingPreserves ==
    ASSUME IInv, NEW r \in Req, CancelWaiting(r)
    PROVE  SharedOK' /\ LockInv'
<1> DEFINE l == lockOf[r]
<1>1. l \in Req /\ pc[r] = "lock"
  BY DEF CancelWaiting, IInv, LockHeld, Locking
<1>2. waiters[l] \in Seq(Req)
  BY <1>1 DEF IInv, TypeOK
<1>3. CASE holder[l] = r
  <2>1. /\ holder' \in [Req -> Req \union {None}]
        /\ waiters' \in [Req -> Seq(Req)]
        /\ \A k \in Req : k # l => holder'[k] = holder[k]
    BY <1>1, <1>3, ReleaseType DEF CancelWaiting, IInv
  <2>2. SharedOK'
    BY <2>1 DEF CancelWaiting, IInv, TypeOK, SharedOK, PC, Outcomes
  <2>3. LockHeld'
    BY <1>1, <1>3, <2>1 DEF CancelWaiting, IInv, TypeOK, LockHeld, Locking, InPipeline
  <2>4. LockListed'
    BY <1>1 DEF CancelWaiting, IInv, TypeOK, LockListed, Locking, InPipeline
  <2>5. QED
    BY <2>2, <2>3, <2>4 DEF LockInv
<1>4. CASE holder[l] # r
  <2>1. PICK k \in DOMAIN waiters[l] : waiters' = [waiters EXCEPT ![l] = Without(@, k)]
    BY <1>4 DEF CancelWaiting, LeaveQueue
  <2>2. k \in 1 .. Len(waiters[l])
    BY <1>2, <2>1
  <2>3. Without(waiters[l], k) \in Seq(Req)
    BY <1>2, <2>2, SubSeqProperties DEF Without
  <2>4. SharedOK'
    BY <1>1, <1>4, <2>1, <2>3 DEF CancelWaiting, IInv, TypeOK, SharedOK, PC, Outcomes
  <2>5. LockHeld'
    BY <1>1, <1>4 DEF CancelWaiting, IInv, TypeOK, LockHeld, Locking, InPipeline
  <2>6. LockListed'
    BY <1>1 DEF CancelWaiting, IInv, TypeOK, LockListed, Locking, InPipeline
  <2>7. QED
    BY <2>4, <2>5, <2>6 DEF LockInv
<1>5. QED
  BY <1>3, <1>4

\* One step per action of a request: the shared state through the lemmas above,
\* the request's own stage directly.
LEMMA CallingPreserves ==
    ASSUME IInv, NEW r \in Req, Calling(r)
    PROVE  IInv'
<1>1. CASE Call(r)
  <2>1. SharedOK' /\ LockInv'
    BY <1>1, AdmitPreserves DEF Call
  <2>2. OwnOK'
    BY <1>1, AdmitTasks DEF Call, Admit, IInv, TypeOK, OwnOK, initVars
  <2>3. QED
    BY <2>1, <2>2, TypeParts DEF IInv, LockInv, TypeOK, SharedOK, OwnOK
<1>2. CASE CallInitializing(r)
  <2>1. SharedOK' /\ LockInv'
    BY <1>2, MovePreserves DEF CallInitializing, PC, InPipeline
  <2>2. OwnOK'
    BY <1>2 DEF CallInitializing, IInv, TypeOK, OwnOK, taskVars
  <2>3. QED
    BY <2>1, <2>2 DEF IInv, LockInv, TypeOK, SharedOK, OwnOK
<1>3. CASE CallBlocking(r)
  <2>1. SharedOK' /\ LockInv'
    BY <1>3, MovePreserves DEF CallBlocking, PC, InPipeline
  <2>2. OwnOK'
    BY <1>3 DEF CallBlocking, IInv, TypeOK, OwnOK, taskVars
  <2>3. QED
    BY <2>1, <2>2 DEF IInv, LockInv, TypeOK, SharedOK, OwnOK
<1>4. CASE InitializeDone(r)
  <2>1. SharedOK' /\ LockInv'
    BY <1>4, AdmitPreserves DEF InitializeDone
  <2>2. OwnOK'
    BY <1>4, AdmitTasks DEF InitializeDone, Admit, IInv, TypeOK, OwnOK
  <2>3. QED
    BY <2>1, <2>2 DEF IInv, LockInv, TypeOK, SharedOK, OwnOK
<1>5. CASE InitializeFailed(r)
  <2>1. SharedOK' /\ LockInv'
    BY <1>5, QuitPreserves DEF InitializeFailed, Outcomes
  <2>2. OwnOK'
    BY <1>5 DEF InitializeFailed, IInv, TypeOK, OwnOK, taskVars
  <2>3. QED
    BY <2>1, <2>2 DEF IInv, LockInv, TypeOK, SharedOK, OwnOK
<1>6. CASE Acquire(r)
  <2>1. pc[r] \in Locking /\ holder[lockOf[r]] = r /\ UNCHANGED conv
    BY <1>6 DEF Acquire, Locking
  <2>2. resp[r] \in Response
    BY DEF IInv, TypeOK
  <2>3. Listening(resp[r]) \in Response
    BY <2>2 DEF Listening, Response, State
  <2>4. FirstStage(r) \in {"stt", "nlu"}
    BY DEF FirstStage
  <2>5. SharedOK' /\ LockInv'
    BY <1>6, <2>1, <2>3, <2>4, ProceedPreserves, FailPreserves DEF Acquire, InPipeline
  <2>6. OwnOK'
    BY <1>6, StartSttType DEF Acquire, IInv, TypeOK, OwnOK, initVars
  <2>7. QED
    BY <2>5, <2>6 DEF IInv, LockInv, TypeOK, SharedOK, OwnOK
<1>7. QED
  BY <1>1, <1>2, <1>3, <1>4, <1>5, <1>6 DEF Calling

LEMMA RetriedStagePreserves ==
    ASSUME IInv, NEW r \in Req,
           NEW stage \in {"stt", "tts"}, NEW next \in {"nlu", "finish"},
           RetriedStage(r, stage, next)
    PROVE  IInv'
<1>1. Pausing[stage] \in {"sttPause", "ttsPause"} /\ stage \in InPipeline
  BY DEF Pausing, InPipeline
<1>2. resp[r] \in Response /\ lockOf[r] \in Req \union {None}
  BY DEF IInv, TypeOK
<1>3. pc[r] \in InPipeline => pc[r] \in Locking /\ holder[lockOf[r]] = r
  BY DEF IInv, LockHeld, Locking
<1> DEFINE next_attempt == [attempt EXCEPT ![r] = @ + 1]
<1>a. attempt[r] < MaxRetries => next_attempt \in [Req -> 0 .. MaxRetries]
  <2>1. attempt \in [Req -> 0 .. MaxRetries]
    BY DEF IInv, TypeOK
  <2>2. attempt[r] < MaxRetries => attempt[r] + 1 \in 0 .. MaxRetries
    BY <2>1 DEF MaxRetries
  <2>3. QED
    BY <2>1, <2>2
<1>4. CASE RetriedStageOk(r, stage, next)
  <2>1. SharedOK' /\ LockInv'
    BY <1>4, <1>1, <1>2, <1>3, ProceedPreserves DEF RetriedStageOk, InPipeline
  <2>2. OwnOK'
    BY <1>4 DEF RetriedStageOk, MaxRetries, IInv, TypeOK, OwnOK, initVars, taskVars
  <2>3. QED
    BY <2>1, <2>2 DEF IInv, LockInv, TypeOK, SharedOK, OwnOK
<1>5. CASE RetriedStageEmpty(r, stage)
  <2>1. SharedOK' /\ LockInv'
    BY <1>5, <1>1 DEF RetriedStageEmpty, Attempting, IInv, TypeOK, SharedOK, LockInv, LockHeld, LockListed, sharedVars, lockVars
  <2>2. OwnOK'
    BY <1>5, <1>a DEF RetriedStageEmpty, IInv, TypeOK, OwnOK, initVars, taskVars
  <2>3. QED
    BY <2>1, <2>2 DEF IInv, LockInv, TypeOK, SharedOK, OwnOK
<1>6. CASE RetriedStageError(r, stage)
  <2>1. SharedOK' /\ LockInv'
    BY <1>6, <1>1, MovePreserves DEF RetriedStageError, Attempting, PC, InPipeline
  <2>2. OwnOK'
    BY <1>6, <1>a DEF RetriedStageError, IInv, TypeOK, OwnOK, initVars, taskVars
  <2>3. QED
    BY <2>1, <2>2 DEF IInv, LockInv, TypeOK, SharedOK, OwnOK
<1>7. CASE RetriedStageFailed(r, stage)
  <2>1. SharedOK' /\ LockInv'
    BY <1>7, <1>1, <1>3, FailPreserves DEF RetriedStageFailed
  <2>2. OwnOK'
    BY <1>7 DEF RetriedStageFailed, IInv, TypeOK, OwnOK, initVars, taskVars
  <2>3. QED
    BY <2>1, <2>2 DEF IInv, LockInv, TypeOK, SharedOK, OwnOK
<1>8. CASE PauseOver(r, stage)
  <2>1. SharedOK' /\ LockInv'
    BY <1>8, <1>1, MovePreserves DEF PauseOver, PC, InPipeline
  <2>2. OwnOK'
    BY <1>8 DEF PauseOver, IInv, TypeOK, OwnOK, initVars, taskVars
  <2>3. QED
    BY <2>1, <2>2 DEF IInv, LockInv, TypeOK, SharedOK, OwnOK
<1>9. QED
  BY <1>4, <1>5, <1>6, <1>7, <1>8 DEF RetriedStage

\* The stage after generation, quality check or ticket is one to go on to.
LEMMA AfterTypes ==
    ASSUME NEW r
    PROVE  /\ AfterTicket(r) \in {"tts", "finish"}
           /\ AfterQuality(r) \in {"ticket", "tts", "finish"}
           /\ AfterGeneration(r) \in {"quality", "ticket", "tts", "finish"}
BY DEF AfterTicket, AfterQuality, AfterGeneration

\* A stage change of the response is a response.
LEMMA StageType ==
    ASSUME NEW rsp \in Response, NEW st \in Stage, NEW status \in TicketStatus
    PROVE  /\ [rsp EXCEPT !.stage = st] \in Response
           /\ WithTicket(rsp, status) \in Response
<1>1. [rsp EXCEPT !.stage = st] \in Response
  BY DEF Response
<1>2. "TEXT_TO_SPEECH" \in Stage
  BY DEF Stage
<1>3. WithTicket(rsp, status) \in Response
  BY <1>2 DEF Response, WithTicket
<1>4. QED
  BY <1>1, <1>3

LEMMA StagingPreserves ==
    ASSUME IInv, NEW r \in Req, Staging(r)
    PROVE  IInv'
<1>1. resp[r] \in Response /\ \A st \in Stage : [resp[r] EXCEPT !.stage = st] \in Response
  BY StageType DEF IInv, TypeOK, TicketStatus
<1>2. pc[r] \in InPipeline => pc[r] \in Locking /\ holder[lockOf[r]] = r
  BY DEF IInv, LockHeld, Locking
<1>3. CASE RetriedStage(r, "stt", "nlu") \/ RetriedStage(r, "tts", "finish")
  BY <1>3, RetriedStagePreserves
<1>4. CASE NluDone(r)
  <2>1. SharedOK' /\ LockInv'
    BY <1>4, <1>1, <1>2, ProceedPreserves DEF NluDone, InPipeline, Stage
  <2>2. OwnOK'
    BY <1>4 DEF NluDone, TaskState, IInv, TypeOK, OwnOK, initVars, taskVars
  <2>3. QED
    BY <2>1, <2>2 DEF IInv, LockInv, TypeOK, SharedOK, OwnOK
<1>5. CASE GenerationDone(r)
  <2>1. SharedOK' /\ LockInv'
    BY <1>5, <1>1, <1>2, AfterTypes, ProceedPreserves DEF GenerationDone, InPipeline, Stage
  <2>2. OwnOK'
    BY <1>5 DEF GenerationDone, IInv, TypeOK, OwnOK, initVars, taskVars
  <2>3. QED
    BY <2>1, <2>2 DEF IInv, LockInv, TypeOK, SharedOK, OwnOK
<1>6. CASE QualityDone(r)
  <2>1. SharedOK' /\ LockInv'
    BY <1>6, <1>1, <1>2, AfterTypes, ProceedPreserves DEF QualityDone, InPipeline, Stage
  <2>2. OwnOK'
    BY <1>6 DEF QualityDone, IInv, TypeOK, OwnOK, initVars, taskVars
  <2>3. QED
    BY <2>1, <2>2 DEF IInv, LockInv, TypeOK, SharedOK, OwnOK
<1>7. CASE TicketDone(r)
  <2>1. SharedOK' /\ LockInv'
    BY <1>7, <1>1, <1>2, AfterTypes, StageType, ProceedPreserves DEF TicketDone, InPipeline, Stage
  <2>2. OwnOK'
    BY <1>7 DEF TicketDone, IInv, TypeOK, OwnOK, initVars, taskVars
  <2>3. QED
    BY <2>1, <2>2 DEF IInv, LockInv, TypeOK, SharedOK, OwnOK
<1>8. CASE TicketJoined(r)
  <2>1. SharedOK' /\ LockInv'
    BY <1>8, <1>1, <1>2, AfterTypes, ProceedPreserves DEF TicketJoined, InPipeline
  <2>2. OwnOK'
    BY <1>8 DEF TicketJoined, IInv, TypeOK, OwnOK, initVars, taskVars
  <2>3. QED
    BY <2>1, <2>2 DEF IInv, LockInv, TypeOK, SharedOK, OwnOK
<1>9. CASE SttJoined(r)
  <2>1. pc[r] \in Locking /\ holder[lockOf[r]] = r /\ UNCHANGED conv
    BY <1>9, <1>2 DEF SttJoined, InPipeline
  <2>2. "failed" \in Outcomes /\ "nlu" \in InPipeline
    BY DEF Outcomes, InPipeline
  <2>3. SharedOK' /\ LockInv'
    <3>1. CASE resp[r].stage = "FAILED"
      <4>1. Leave(r, resp[r], "failed")
        BY <1>9, <3>1 DEF SttJoined
      <4> QED BY <1>1, <2>1, <2>2, <4>1, LeavePreserves
    <3>2. CASE resp[r].stage # "FAILED"
      <4>1. Proceed(r, "nlu", resp[r])
        BY <1>9, <3>2 DEF SttJoined
      <4> QED BY <1>1, <2>1, <2>2, <4>1, ProceedPreserves
    <3> QED BY <3>1, <3>2
  <2>4. OwnOK'
    <3>1. attempt' \in [Req -> 0 .. MaxRetries]
      <4>1. attempt \in [Req -> 0 .. MaxRetries] /\ 0 \in 0 .. MaxRetries
        BY DEF IInv, TypeOK, MaxRetries
      <4>2. attempt' = attempt \/ attempt' = [attempt EXCEPT ![r] = 0]
        BY <1>9 DEF SttJoined
      <4> QED BY <4>1, <4>2
    <3> QED BY <1>9, <3>1 DEF SttJoined, IInv, TypeOK, OwnOK, initVars, taskVars
  <2>5. QED
    BY <2>3, <2>4 DEF IInv, LockInv, TypeOK, SharedOK, OwnOK
<1>10. QED
  BY <1>3, <1>4, <1>5, <1>6, <1>7, <1>8, <1>9 DEF Staging

LEMMA TasksPreserve ==
    ASSUME IInv, NEW r \in Req, Tasks(r)
    PROVE  IInv'
<1>1. resp[r] \in Response /\ \A st \in Stage : [resp[r] EXCEPT !.stage = st] \in Response
  BY StageType DEF IInv, TypeOK, TicketStatus
<1>2. \A status \in TicketStatus : WithTicket(resp[r], status) \in Response
  BY <1>1, StageType DEF Stage
<1>3. CASE GenTaskStart(r)
  <2>1. SharedOK' /\ LockInv'
    BY <1>3, <1>1, <1>2, WritePreserves DEF GenTaskStart, Stage
  <2>2. OwnOK'
    BY <1>3 DEF GenTaskStart, Write, TaskState, IInv, TypeOK, OwnOK, initVars, taskVars
  <2>3. QED
    BY <2>1, <2>2 DEF IInv, LockInv, TypeOK, SharedOK, OwnOK
<1>4. CASE GenTaskEnd(r)
  <2>1. SharedOK' /\ LockInv'
    BY <1>4, <1>1, <1>2, WritePreserves DEF GenTaskEnd, Stage
  <2>2. OwnOK'
    BY <1>4 DEF GenTaskEnd, Write, TaskState, IInv, TypeOK, OwnOK, initVars, taskVars
  <2>3. QED
    BY <2>1, <2>2 DEF IInv, LockInv, TypeOK, SharedOK, OwnOK
<1>5. CASE TicketTaskStart(r)
  <2>1. SharedOK' /\ LockInv'
    BY <1>5, <1>1, <1>2, WritePreserves DEF TicketTaskStart, Stage
  <2>2. OwnOK'
    BY <1>5 DEF TicketTaskStart, Write, TaskState, IInv, TypeOK, OwnOK, initVars, taskVars
  <2>3. QED
    BY <2>1, <2>2 DEF IInv, LockInv, TypeOK, SharedOK, OwnOK
<1>6. CASE TicketTaskEnd(r)
  <2>1. SharedOK' /\ LockInv'
    BY <1>6, <1>1, <1>2, WritePreserves DEF TicketTaskEnd, Stage
  <2>2. OwnOK'
    BY <1>6 DEF TicketTaskEnd, Write, TaskState, IInv, TypeOK, OwnOK, initVars, taskVars
  <2>3. QED
    BY <2>1, <2>2 DEF IInv, LockInv, TypeOK, SharedOK, OwnOK
<1>7. CASE SttTaskStart(r) \/ SttTaskOk(r) \/ SttTaskFailed(r)
  <2>1. /\ [resp[r] EXCEPT !.stage = "SPEECH_TO_TEXT", !.state = "PROCESSING"] \in Response
        /\ [resp[r] EXCEPT !.stage = "NLU_PROCESSING"] \in Response
        /\ [resp[r] EXCEPT !.stage = "FAILED", !.state = "ERROR"] \in Response
    <3>1. resp[r] \in Response
      BY <1>1
    <3>2. [resp[r] EXCEPT !.stage = "SPEECH_TO_TEXT", !.state = "PROCESSING"] \in Response
      BY <3>1 DEF Response, Stage, State
    <3>3. [resp[r] EXCEPT !.stage = "NLU_PROCESSING"] \in Response
      BY <3>1 DEF Response, Stage
    <3>4. [resp[r] EXCEPT !.stage = "FAILED", !.state = "ERROR"] \in Response
      BY <3>1 DEF Response, Stage, State
    <3> QED BY <3>2, <3>3, <3>4
  <2>2. PICK rsp \in Response : Write(r, rsp)
    BY <1>7, <2>1 DEF SttTaskStart, SttTaskOk, SttTaskFailed, SttTaskEnd
  <2>3. SharedOK' /\ LockInv'
    BY <2>2, WritePreserves
  <2>4. OwnOK'
    BY <1>7 DEF SttTaskStart, SttTaskOk, SttTaskFailed, SttTaskEnd, Write, TaskState,
                      IInv, TypeOK, OwnOK, initVars
  <2>5. QED
    BY <2>3, <2>4 DEF IInv, LockInv, TypeOK, SharedOK, OwnOK
<1>8. QED
  BY <1>3, <1>4, <1>5, <1>6, <1>7 DEF Tasks

LEMMA StoppingPreserves ==
    ASSUME IInv, NEW r \in Req, Timeout(r) \/ Cancelling(r)
    PROVE  IInv'
<1>1. resp[r] \in Response /\ [resp[r] EXCEPT !.state = "TIMEOUT"] \in Response
  <2>1. resp[r] \in Response
    BY DEF IInv, TypeOK
  <2>2. QED
    BY <2>1 DEF Response, State
<1>2. pc[r] \in InPipeline => pc[r] \in Locking /\ holder[lockOf[r]] = r
  BY DEF IInv, LockHeld, Locking
<1>3. {"timeout", "cancelled"} \subseteq Outcomes
  BY DEF Outcomes
<1>4. CASE Timeout(r)
  <2>1. SharedOK' /\ LockInv'
    BY <1>4, <1>1, <1>2, <1>3, LeavePreserves DEF Timeout
  <2>2. OwnOK'
    BY <1>4 DEF Timeout, CancelAwaited, TaskState, IInv, TypeOK, OwnOK, initVars, taskVars
  <2>3. QED
    BY <2>1, <2>2 DEF IInv, LockInv, TypeOK, SharedOK, OwnOK
<1>5. CASE CancelRunning(r)
  <2>1. SharedOK' /\ LockInv'
    BY <1>5, <1>1, <1>2, <1>3, LeavePreserves DEF CancelRunning
  <2>2. OwnOK'
    BY <1>5 DEF CancelRunning, CancelAwaited, TaskState, IInv, TypeOK, OwnOK, initVars, taskVars
  <2>3. QED
    BY <2>1, <2>2 DEF IInv, LockInv, TypeOK, SharedOK, OwnOK
<1>6. CASE CancelWaiting(r)
  <2>1. SharedOK' /\ LockInv'
    BY <1>6, CancelWaitingPreserves
  <2>2. OwnOK'
    BY <1>6 DEF CancelWaiting, IInv, TypeOK, OwnOK, initVars, taskVars
  <2>3. QED
    BY <2>1, <2>2 DEF IInv, LockInv, TypeOK, SharedOK, OwnOK
<1>7. CASE CancelInitializing(r)
  <2>1. SharedOK' /\ LockInv'
    BY <1>7, <1>3, QuitPreserves DEF CancelInitializing
  <2>2. OwnOK'
    BY <1>7 DEF CancelInitializing, IInv, TypeOK, OwnOK, initVars, taskVars
  <2>3. QED
    BY <2>1, <2>2 DEF IInv, LockInv, TypeOK, SharedOK, OwnOK
<1>8. QED
  BY <1>4, <1>5, <1>6, <1>7 DEF Cancelling

LEMMA ManagingPreserves ==
    ASSUME IInv, Managing
    PROVE  IInv'
<1>1. PICK C \in SUBSET Conv : StopAll(C)
  BY DEF Managing, StopConversation, CleanupResources, ShutdownBegin, ShutdownEnd, Tracked
<1>2. SharedOK' /\ LockInv'
  BY <1>1, StopAllPreserves
<1>3. ready' \in BOOLEAN /\ closing' \in BOOLEAN
  BY DEF Managing, StopConversation, CleanupResources, ShutdownBegin, ShutdownEnd,
         IInv, TypeOK
<1>4. OwnOK'
  BY <1>1, <1>3 DEF StopAll, IInv, TypeOK, OwnOK, taskVars
<1>5. QED
  BY <1>2, <1>4 DEF IInv, LockInv, TypeOK, SharedOK, OwnOK

LEMMA InitIInv == Init => IInv
<1> SUFFICES ASSUME Init PROVE IInv
  OBVIOUS
<1>1. TypeOK
  <2>1. NewResponse \in Response
    BY DEF NewResponse, Response, Stage, State, TicketStatus
  <2>2. <<>> \in Seq(Req)
    OBVIOUS
  <2>3. metrics \in [total: Nat, successful: Nat, failed: Nat]
    BY DEF Init
  <2>4. SharedOK
    BY <2>1, <2>2, <2>3 DEF Init, SharedOK, PC, Outcomes
  <2>5. OwnOK
    <3>1. ready \in BOOLEAN /\ frozen \in BOOLEAN /\ closing \in BOOLEAN
      BY ConstantsAssumption, Zenon DEF Init
    <3>2. attempt \in [Req -> 0 .. MaxRetries]
      BY DEF Init, MaxRetries
    <3>3. QED
      BY <3>1, <3>2 DEF Init, OwnOK, TaskState
  <2>6. QED
    BY <2>4, <2>5 DEF TypeOK, SharedOK, OwnOK
<1>2. LockHeld /\ LockListed
  BY DEF Init, LockHeld, LockListed, Locking, InPipeline
<1>3. QED
  BY <1>1, <1>2 DEF IInv

LEMMA NextIInv == IInv /\ [Next]_vars => IInv'
<1> SUFFICES ASSUME IInv, [Next]_vars PROVE IInv'
  OBVIOUS
<1>1. CASE UNCHANGED vars
  BY <1>1 DEF vars, initVars, taskVars, sharedVars, lockVars, IInv, TypeOK, LockHeld, LockListed
<1>2. CASE Next
  <2>1. CASE \E r \in Req : Calling(r) \/ Staging(r) \/ Tasks(r) \/ Timeout(r) \/ Cancelling(r)
    BY <2>1, CallingPreserves, StagingPreserves, TasksPreserve, StoppingPreserves
  <2>2. CASE Managing
    BY <2>2, ManagingPreserves
  <2>3. QED
    BY <1>2, <2>1, <2>2 DEF Next, Step
<1>3. QED
  BY <1>1, <1>2

LEMMA Invariance == Spec => []IInv
BY InitIInv, NextIInv, PTL DEF Spec

\* Every reachable state is in the ranges of TypeOK.
THEOREM TypeCorrect == Spec => []TypeOK
<1>1. IInv => TypeOK
  BY DEF IInv
<1>2. QED
  BY <1>1, Invariance, PTL

\* process_conversation runs one pipeline per conversation at a time, for any
\* number of requests, until the lock entry of the conversation is deleted.
THEOREM MutualExclusion == Spec => []OnePipelinePerConversation
<1>1. IInv => OnePipelinePerConversation
  BY DEF IInv, LockHeld, LockListed, OnePipelinePerConversation, RunningFor, Locking
<1>2. QED
  BY <1>1, Invariance, PTL

-----------------------------------------------------------------------------
(* What a request's coroutine, its response and its tasks have to do with    *)
(* each other.                                                               *)

\* How far the coroutine came, and whether it asked for a lock.
Phased(r) ==
    /\ pc[r] = "done" <=> outcome[r] # "none"
    /\ pc[r] \in {"idle", "init"} => lockOf[r] = None
    /\ pc[r] \in Locking => lockOf[r] # None
    /\ outcome[r] \in {"completed", "failed", "timeout"} => lockOf[r] # None
    /\ outcome[r] = "raised" => lockOf[r] = None

\* The STT task has used up its attempts.
SttLost(r) == sttTask[r] = "done" /\ attempt[r] = MaxRetries

\* The response says neither success nor failure before the verdict, and then what it
\* says; but a lost STT task writes its failure before the coroutine that awaits it knows.
Judged(r) ==
    /\ outcome[r] = "none" =>
           /\ resp[r].stage # "COMPLETED" /\ ~resp[r].success
           /\ resp[r].stage = "FAILED" =>
                  pc[r] = "stt" /\ SttLost(r) /\ resp[r].state = "ERROR"
    /\ outcome[r] = "completed" =>
           resp[r].stage = "COMPLETED" /\ resp[r].state = "RESOLVED" /\ resp[r].success
    /\ outcome[r] = "failed" =>
           resp[r].stage = "FAILED" /\ resp[r].state = "ERROR" /\ ~resp[r].success
    /\ outcome[r] = "timeout" =>
           /\ resp[r].stage # "COMPLETED"
           /\ resp[r].stage = "FAILED" => SttLost(r)
           /\ resp[r].state = "TIMEOUT" /\ ~resp[r].success

\* The tasks are those of the parallel pipeline, made when the lock is held and when the
\* NLU stage is over; a lost STT task has written its failure.
Tasked(r) ==
    /\ pc[r] \in {"idle", "init", "lock"} => sttTask[r] = "none"
    /\ sttTask[r] # "none" => shape[r].par
    /\ sttTask[r] \in Alive => pc[r] \in {"stt", "sttPause"}
    /\ pc[r] \in {"idle", "init", "lock", "stt", "sttPause", "nlu"} =>
           genTask[r] = "none" /\ ticketTask[r] = "none"
    /\ genTask[r] # "none" => shape[r].par
    /\ ticketTask[r] # "none" => shape[r].par /\ shape[r].ticket
    /\ genTask[r] \in Alive => pc[r] = "gen"
    /\ ticketTask[r] \in Alive =>
           pc[r] \in {"gen", "quality", "ticket"} \/ outcome[r] \in {"timeout", "cancelled"}

\* The ticket stage is left, and passed over, only with a ticket verdict.
Ticketed(r) ==
    /\ ~shape[r].ticket => resp[r].ticket = "pending"
    /\ pc[r] = "ticket" => shape[r].ticket
    /\ pc[r] \in {"tts", "ttsPause"} /\ shape[r].ticket => resp[r].ticket # "pending"
    /\ ticketTask[r] = "done" => resp[r].ticket # "pending"
    /\ outcome[r] = "completed" /\ shape[r].ticket => resp[r].ticket # "pending"

Sound(r) == Phased(r) /\ Judged(r) /\ Tasked(r) /\ Ticketed(r)
AllSound == \A r \in Req : Sound(r)

\* A step of request r and of no other.
Apart(r) ==
    /\ conv' = conv /\ shape' = shape
    /\ \A s \in Req : s # r =>
           /\ pc'[s] = pc[s] /\ outcome'[s] = outcome[s] /\ resp'[s] = resp[s]
           /\ sttTask'[s] = sttTask[s] /\ attempt'[s] = attempt[s]
           /\ genTask'[s] = genTask[s] /\ ticketTask'[s] = ticketTask[s]
           /\ lockOf'[s] = lockOf[s]

\* The verdict of request s stays what it is.
Settled(s) ==
    pc[s] = "done" =>
        /\ pc'[s] = "done" /\ outcome'[s] = outcome[s]
        /\ resp'[s].state = resp[s].state /\ resp'[s].success = resp[s].success

LEMMA SoundElsewhere ==
    ASSUME NEW r, Apart(r), NEW s \in Req, s # r, Sound(s)
    PROVE  Sound(s)' /\ Settled(s)
BY DEF Apart, Sound, Phased, Judged, SttLost, Tasked, Ticketed, Settled

LEMMA OneMoves ==
    ASSUME AllSound, NEW r \in Req, Apart(r), Sound(r)', pc[r] # "done" \/ Settled(r)
    PROVE  AllSound' /\ \A s \in Req : Settled(s)
<1>1. ASSUME NEW s \in Req PROVE Sound(s)' /\ Settled(s)
  <2>1. CASE s = r
    BY <2>1 DEF Settled
  <2>2. CASE s # r
    BY <2>2, SoundElsewhere DEF AllSound
  <2> QED BY <2>1, <2>2
<1> QED BY <1>1 DEF AllSound

LEMMA NobodyMoves ==
    ASSUME AllSound, conv' = conv, shape' = shape,
           UNCHANGED <<pc, outcome, resp, sttTask, attempt, genTask, ticketTask, lockOf>>
    PROVE  AllSound' /\ \A s \in Req : Settled(s)
BY DEF AllSound, Sound, Phased, Judged, SttLost, Tasked, Ticketed, Settled

\* The attempts and the tasks of the others.
AttemptsApart(r) == \A s \in Req : s # r => attempt'[s] = attempt[s]
TasksApart(r) ==
    /\ AttemptsApart(r)
    /\ \A s \in Req : s # r =>
           /\ sttTask'[s] = sttTask[s]
           /\ genTask'[s] = genTask[s] /\ ticketTask'[s] = ticketTask[s]

LEMMA TaskVarsApart ==
    ASSUME NEW r, UNCHANGED taskVars, AttemptsApart(r)
    PROVE  /\ TasksApart(r) /\ sttTask'[r] = sttTask[r]
           /\ genTask'[r] = genTask[r] /\ ticketTask'[r] = ticketTask[r]
BY DEF TasksApart, taskVars

LEMMA LeaveFields ==
    ASSUME TypeOK, NEW r \in Req, NEW rsp, NEW out, Leave(r, rsp, out),
           conv' = conv, shape' = shape, TasksApart(r)
    PROVE  /\ Apart(r)
           /\ pc'[r] = "done" /\ resp'[r] = rsp /\ outcome'[r] = out /\ lockOf'[r] = lockOf[r]
BY DEF Leave, TypeOK, Apart, TasksApart, AttemptsApart

\* A response that says neither success nor failure.
Unjudged(rsp) == rsp.stage \notin {"COMPLETED", "FAILED"} /\ ~rsp.success

\* The response e of a request that enters stage next with rsp.
Entered(e, next, rsp) ==
    /\ e.ticket = rsp.ticket
    /\ next = "finish" => e.stage = "COMPLETED" /\ e.state = "RESOLVED" /\ e.success
    /\ next # "finish" => Unjudged(e)

LEMMA EnterFields ==
    ASSUME NEW r, NEW next \in InPipeline \union {"finish"},
           next \notin {"sttPause", "ttsPause"},
           NEW rsp \in Response, Unjudged(rsp)
    PROVE  Entered(Enter(r, next, rsp), next, rsp)
<1>1. next \in {"stt", "nlu", "gen", "quality", "ticket", "tts", "finish"}
  BY DEF InPipeline
<1> QED BY <1>1 DEF Enter, Response, Entered, Unjudged

\* The pipeline goes on, or completes: the verdict is right and the ticket is as given.
LEMMA GoesOn ==
    ASSUME TypeOK, NEW r \in Req, Sound(r), pc[r] \in Locking,
           NEW next \in InPipeline \union {"finish"}, next \notin {"sttPause", "ttsPause"},
           NEW rsp \in Response, Unjudged(rsp), Proceed(r, next, rsp), conv' = conv, shape' = shape, TasksApart(r)
    PROVE  /\ Apart(r) /\ Phased(r)' /\ Judged(r)'
           /\ resp'[r].ticket = rsp.ticket
           /\ next = "finish" => pc'[r] = "done" /\ outcome'[r] = "completed"
           /\ next # "finish" => pc'[r] = next /\ outcome'[r] = "none"
<1>1. outcome[r] = "none" /\ lockOf[r] # None
  BY DEF Sound, Phased, Locking, InPipeline
<1>2. CASE next = "finish"
  <2>1. Leave(r, Enter(r, next, rsp), "completed")
    BY <1>2 DEF Proceed
  <2>2. /\ Apart(r)
        /\ pc'[r] = "done" /\ resp'[r] = Enter(r, next, rsp) /\ outcome'[r] = "completed"
        /\ lockOf'[r] = lockOf[r]
    BY <2>1, LeaveFields
  <2>3. Entered(Enter(r, next, rsp), next, rsp)
    BY EnterFields
  <2>4. Phased(r)'
    BY <1>1, <2>2 DEF Phased, Locking, InPipeline
  <2>5. Judged(r)'
    BY <1>2, <2>2, <2>3 DEF Judged, Entered
  <2> QED BY <1>2, <2>2, <2>3, <2>4, <2>5 DEF Entered
<1>3. CASE next # "finish"
  <2>1. /\ pc' = [pc EXCEPT ![r] = next]
        /\ resp' = [resp EXCEPT ![r] = Enter(r, next, rsp)]
        /\ outcome' = outcome /\ lockOf' = lockOf
    BY <1>3 DEF Proceed, sharedVars, lockVars
  <2>2. Apart(r) /\ pc'[r] = next /\ resp'[r] = Enter(r, next, rsp)
    BY <2>1 DEF TypeOK, Apart, TasksApart, AttemptsApart
  <2>3. Entered(Enter(r, next, rsp), next, rsp)
    BY EnterFields
  <2>4. Phased(r)'
    BY <1>1, <1>3, <2>1, <2>2 DEF Phased, Locking, InPipeline
  <2>5. Judged(r)'
    BY <1>1, <1>3, <2>1, <2>2, <2>3 DEF Judged, Entered, Unjudged
  <2> QED BY <1>1, <1>3, <2>1, <2>2, <2>3, <2>4, <2>5 DEF Entered
<1> QED BY <1>2, <1>3

\* The pipeline fails where no task is left.
LEMMA FailsSound ==
    ASSUME TypeOK, NEW r \in Req, Sound(r), pc[r] \in {"lock", "stt", "tts"},
           pc[r] = "stt" => ~shape[r].par,
           Fail(r), conv' = conv, shape' = shape, UNCHANGED taskVars, attempt' = attempt
    PROVE  Apart(r) /\ Sound(r)'
<1>1. outcome[r] = "none" /\ lockOf[r] # None /\ resp[r] \in Response /\ ~resp[r].success
  BY DEF Sound, Phased, Judged, Locking, InPipeline, TypeOK
<1>2. /\ TasksApart(r) /\ sttTask'[r] = sttTask[r]
      /\ genTask'[r] = genTask[r] /\ ticketTask'[r] = ticketTask[r]
  BY TaskVarsApart DEF AttemptsApart
<1>3. PICK rsp : rsp = [resp[r] EXCEPT !.stage = "FAILED", !.state = "ERROR"]
  OBVIOUS
<1>4. /\ Apart(r)
      /\ pc'[r] = "done" /\ resp'[r] = rsp /\ outcome'[r] = "failed" /\ lockOf'[r] = lockOf[r]
  BY <1>2, <1>3, LeaveFields DEF Fail
<1>5. /\ rsp.stage = "FAILED" /\ rsp.state = "ERROR" /\ ~rsp.success
      /\ rsp.ticket = resp[r].ticket
  BY <1>1, <1>3 DEF Response
<1>6. Phased(r)'
  BY <1>1, <1>4 DEF Phased, Locking, InPipeline
<1>7. Judged(r)'
  BY <1>4, <1>5 DEF Judged
<1>8. shape'[r] = shape[r]
  OBVIOUS
<1>9. Tasked(r)'
  BY <1>1, <1>2, <1>4, <1>8 DEF Sound, Tasked, Alive
<1>10. Ticketed(r)'
  BY <1>2, <1>4, <1>5, <1>8 DEF Sound, Ticketed
<1> QED BY <1>4, <1>6, <1>7, <1>9, <1>10 DEF Sound

LEMMA ListeningFields ==
    ASSUME NEW rsp \in Response, Unjudged(rsp)
    PROVE  /\ Listening(rsp) \in Response /\ Unjudged(Listening(rsp))
           /\ Listening(rsp).ticket = rsp.ticket
BY DEF Listening, Response, State, Unjudged

LEMMA AdmitSound ==
    ASSUME TypeOK, NEW r \in Req, Sound(r), pc[r] \in {"idle", "init"}, Admit(r)
    PROVE  Apart(r) /\ Sound(r)'
<1>1. /\ outcome[r] = "none" /\ sttTask[r] = "none" /\ genTask[r] = "none" /\ ticketTask[r] = "none"
      /\ resp[r] \in Response /\ Unjudged(resp[r])
      /\ ~shape[r].ticket => resp[r].ticket = "pending"
  BY DEF Sound, Phased, Judged, Tasked, Ticketed, TypeOK, Unjudged
<1>2. /\ conv' = conv /\ shape' = shape /\ attempt' = attempt
      /\ genTask' = genTask /\ ticketTask' = ticketTask
  BY DEF Admit
<1>3. LockFor(r) \in Req /\ LockFor(r) # None
  BY LockForType, ConstantsAssumption
<1>4. CASE AdmitWaiting(r)
  <2>1. /\ pc' = [pc EXCEPT ![r] = "lock"] /\ resp' = resp /\ outcome' = outcome
        /\ lockOf' = [lockOf EXCEPT ![r] = LockFor(r)] /\ sttTask' = sttTask
    BY <1>4 DEF AdmitWaiting, Track
  <2>2. Apart(r) /\ pc'[r] = "lock" /\ lockOf'[r] = LockFor(r)
    BY <1>2, <2>1 DEF TypeOK, Apart
  <2> QED BY <1>1, <1>2, <1>3, <2>1, <2>2
          DEF Sound, Phased, Judged, SttLost, Tasked, Ticketed, Unjudged, Locking, InPipeline, Alive
<1>5. CASE AdmitRunning(r)
  <2>1. PICK rsp : rsp = Enter(r, FirstStage(r), Listening(resp[r]))
    OBVIOUS
  <2>2. FirstStage(r) \in {"stt", "nlu"}
    BY DEF FirstStage
  <2>3. /\ Listening(resp[r]) \in Response /\ Unjudged(Listening(resp[r]))
        /\ Listening(resp[r]).ticket = resp[r].ticket
    BY <1>1, ListeningFields
  <2>4. Entered(rsp, FirstStage(r), Listening(resp[r]))
    BY <2>1, <2>2, <2>3, EnterFields DEF InPipeline
  <2>5. /\ pc' = [pc EXCEPT ![r] = FirstStage(r)] /\ outcome' = outcome
        /\ lockOf' = [lockOf EXCEPT ![r] = LockFor(r)]
        /\ resp' = [resp EXCEPT ![r] = rsp]
        /\ StartStt(r)
    BY <1>5, <2>1 DEF AdmitRunning, Track
  <2>S. sttTask'[r] = IF FirstStage(r) = "stt" /\ shape[r].par THEN "created" ELSE "none"
    BY <1>1, <2>5 DEF StartStt, Detached, TypeOK
  <2>O. \A q \in Req : q # r => sttTask'[q] = sttTask[q]
    BY <2>5 DEF StartStt, TypeOK
  <2>6. Apart(r) /\ pc'[r] = FirstStage(r) /\ lockOf'[r] = LockFor(r) /\ resp'[r] = rsp
    BY <1>2, <2>5, <2>O DEF TypeOK, Apart
  <2>7. Unjudged(rsp) /\ rsp.ticket = resp[r].ticket
    BY <2>2, <2>3, <2>4 DEF Entered
  <2> QED BY <1>1, <1>2, <1>3, <2>2, <2>5, <2>6, <2>7, <2>S
          DEF Sound, Phased, Judged, SttLost, Tasked, Ticketed, Unjudged, Locking, InPipeline, Alive
<1>6. CASE AdmitRejected(r)
  <2>1. PICK rsp : rsp = [resp[r] EXCEPT !.stage = "FAILED", !.state = "ERROR"]
    OBVIOUS
  <2>2. /\ pc' = [pc EXCEPT ![r] = "done"] /\ outcome' = [outcome EXCEPT ![r] = "failed"]
        /\ lockOf' = [lockOf EXCEPT ![r] = LockFor(r)]
        /\ resp' = [resp EXCEPT ![r].stage = "FAILED", ![r].state = "ERROR"]
        /\ sttTask' = sttTask
    BY <1>6 DEF AdmitRejected
  <2>3. resp' = [resp EXCEPT ![r] = rsp]
    BY <1>1, <2>1, <2>2 DEF TypeOK, Response
  <2>4. /\ Apart(r) /\ pc'[r] = "done" /\ lockOf'[r] = LockFor(r) /\ resp'[r] = rsp
        /\ outcome'[r] = "failed"
    BY <1>2, <2>2, <2>3 DEF TypeOK, Apart
  <2>5. /\ rsp.stage = "FAILED" /\ rsp.state = "ERROR" /\ ~rsp.success
        /\ rsp.ticket = resp[r].ticket
    BY <1>1, <2>1 DEF Response, Unjudged
  <2> QED BY <1>1, <1>2, <1>3, <2>2, <2>4, <2>5
          DEF Sound, Phased, Judged, SttLost, Tasked, Ticketed, Unjudged, Locking, InPipeline, Alive
<1> QED BY <1>4, <1>5, <1>6 DEF Admit

LEMMA CallingSound ==
    ASSUME TypeOK, NEW r \in Req, Sound(r), Calling(r)
    PROVE  Apart(r) /\ Sound(r)' /\ pc[r] # "done"
<1>1. CASE Call(r) \/ InitializeDone(r)
  BY <1>1, AdmitSound DEF Call, InitializeDone
<1>2. CASE CallInitializing(r) \/ CallBlocking(r)
  <2>1. /\ pc[r] = "idle" /\ pc' = [pc EXCEPT ![r] = "init"] /\ conv' = conv /\ shape' = shape
        /\ outcome' = outcome /\ resp' = resp /\ sttTask' = sttTask /\ attempt' = attempt
        /\ genTask' = genTask /\ ticketTask' = ticketTask
        /\ lockOf' = lockOf
    BY <1>2 DEF CallInitializing, CallBlocking, taskVars, sharedVars, lockVars
  <2>2. pc'[r] = "init" /\ Apart(r)
    BY <2>1 DEF TypeOK, Apart
  <2> QED BY <2>1, <2>2
          DEF Sound, Phased, Judged, SttLost, Tasked, Ticketed, Locking, InPipeline, Alive
<1>3. CASE InitializeFailed(r)
  <2>1. /\ pc[r] = "init" /\ pc' = [pc EXCEPT ![r] = "done"] /\ conv' = conv /\ shape' = shape
        /\ outcome' = [outcome EXCEPT ![r] = "raised"]
        /\ resp' = resp /\ sttTask' = sttTask /\ attempt' = attempt
        /\ genTask' = genTask /\ ticketTask' = ticketTask /\ lockOf' = lockOf
    BY <1>3 DEF InitializeFailed, taskVars, sharedVars, lockVars
  <2>2. pc'[r] = "done" /\ outcome'[r] = "raised" /\ Apart(r)
    BY <2>1 DEF TypeOK, Apart
  <2> QED BY <2>1, <2>2
          DEF Sound, Phased, Judged, SttLost, Tasked, Ticketed, Locking, InPipeline, Alive
<1>4. CASE Acquire(r)
  <2>1. /\ pc[r] = "lock" /\ conv' = conv /\ shape' = shape /\ attempt' = attempt
        /\ genTask' = genTask /\ ticketTask' = ticketTask
    BY <1>4 DEF Acquire
  <2>2. CASE shape[r].valid
    <3>1. resp[r] \in Response /\ Unjudged(resp[r]) /\ sttTask[r] = "none"
      BY <2>1 DEF Sound, Phased, Judged, Tasked, TypeOK, Unjudged
    <3>2. PICK rsp \in Response : /\ rsp = Listening(resp[r])
                                  /\ Unjudged(rsp) /\ rsp.ticket = resp[r].ticket
      BY <3>1, ListeningFields
    <3>3. PICK next : next = FirstStage(r)
      OBVIOUS
    <3>4. next \in {"stt", "nlu"} /\ next \in InPipeline \union {"finish"}
          /\ pc[r] \in Locking /\ Proceed(r, next, rsp) /\ StartStt(r)
      BY <1>4, <2>1, <2>2, <3>2, <3>3 DEF FirstStage, Acquire, InPipeline, Locking
    <3>5. /\ sttTask'[r] = IF next = "stt" /\ shape[r].par THEN "created" ELSE "none"
          /\ TasksApart(r)
      BY <2>1, <3>1, <3>3, <3>4
         DEF StartStt, Detached, TypeOK, TasksApart, AttemptsApart
    <3>6. /\ Apart(r) /\ Phased(r)' /\ Judged(r)' /\ resp'[r].ticket = rsp.ticket
          /\ pc'[r] = next /\ outcome'[r] = "none"
      BY <2>1, <3>2, <3>4, <3>5, GoesOn
    <3>7. Tasked(r)'
      BY <2>1, <3>4, <3>5, <3>6 DEF Sound, Tasked, Alive
    <3>8. Ticketed(r)'
      BY <2>1, <3>2, <3>4, <3>6 DEF Sound, Ticketed
    <3> QED BY <2>1, <3>6, <3>7, <3>8 DEF Sound
  <2>3. CASE ~shape[r].valid
    <3>1. Fail(r) /\ UNCHANGED taskVars
      BY <1>4, <2>3 DEF Acquire, taskVars
    <3> QED BY <2>1, <3>1, FailsSound
  <2> QED BY <2>2, <2>3
<1> QED BY <1>1, <1>2, <1>3, <1>4 DEF Calling

\* A retried stage: its tasks are over or not yet made, but for those that are never joined.
LEMMA RetriedStageSound ==
    ASSUME TypeOK, NEW r \in Req, Sound(r),
           NEW stage, NEW next, <<stage, next>> \in {<<"stt", "nlu">>, <<"tts", "finish">>},
           RetriedStage(r, stage, next)
    PROVE  Apart(r) /\ Sound(r)' /\ pc[r] # "done"
<1>1. /\ stage \in {"stt", "tts"} /\ next \in {"nlu", "finish"}
      /\ stage = "stt" <=> next = "nlu"
      /\ Pausing[stage] \in {"sttPause", "ttsPause"}
      /\ stage = "stt" <=> Pausing[stage] = "sttPause"
  BY DEF Pausing
<1>2. conv' = conv /\ shape' = shape /\ UNCHANGED taskVars
      /\ sttTask' = sttTask /\ genTask' = genTask /\ ticketTask' = ticketTask /\ TasksApart(r)
  BY TaskVarsApart
     DEF AttemptsApart, TypeOK, RetriedStage, RetriedStageOk, RetriedStageEmpty, RetriedStageError, RetriedStageFailed,
         PauseOver, taskVars
<1>3. CASE RetriedStageOk(r, stage, next)
  <2>1. /\ pc[r] = stage /\ pc[r] \in Locking /\ Proceed(r, next, resp[r])
        /\ next \in InPipeline \union {"finish"} /\ next \notin {"sttPause", "ttsPause"}
    BY <1>1, <1>3 DEF RetriedStageOk, Locking, InPipeline
  <2>2. resp[r] \in Response /\ Unjudged(resp[r]) /\ sttTask[r] \notin Alive
    <3>1. stage = "stt" => ~shape[r].par
      BY <1>3 DEF RetriedStageOk, Detached
    <3> QED BY <1>1, <2>1, <3>1
            DEF Sound, Phased, Judged, SttLost, Tasked, TypeOK, Unjudged, Alive
  <2>3. /\ Apart(r) /\ Phased(r)' /\ Judged(r)' /\ resp'[r].ticket = resp[r].ticket
        /\ next = "finish" => pc'[r] = "done" /\ outcome'[r] = "completed"
        /\ next # "finish" => pc'[r] = next /\ outcome'[r] = "none"
    BY <1>2, <2>1, <2>2, GoesOn
  <2>4. Tasked(r)'
    BY <1>1, <1>2, <2>1, <2>2, <2>3 DEF Sound, Phased, Tasked, Alive
  <2>5. Ticketed(r)'
    BY <1>1, <1>2, <2>1, <2>3 DEF Sound, Ticketed
  <2> QED BY <1>1, <2>1, <2>3, <2>4, <2>5 DEF Sound
<1>4. CASE \/ RetriedStageEmpty(r, stage) \/ RetriedStageError(r, stage) \/ PauseOver(r, stage)
  <2>1. /\ outcome' = outcome /\ resp' = resp /\ lockOf' = lockOf
        /\ \/ pc[r] = stage /\ pc' = pc
           \/ pc[r] = stage /\ pc' = [pc EXCEPT ![r] = Pausing[stage]]
           \/ pc[r] = Pausing[stage] /\ pc' = [pc EXCEPT ![r] = stage]
    BY <1>4 DEF RetriedStageEmpty, RetriedStageError, PauseOver, Attempting, sharedVars, lockVars
  <2>2. pc \in [Req -> PC]
    BY DEF TypeOK
  <2>3. pc'[r] \in {stage, Pausing[stage]} /\ \A s \in Req : s # r => pc'[s] = pc[s]
    BY <2>1, <2>2
  <2>4. /\ \/ pc[r] \in {"stt", "sttPause"} /\ pc'[r] \in {"stt", "sttPause"}
           \/ pc[r] \in {"tts", "ttsPause"} /\ pc'[r] \in {"tts", "ttsPause"}
        /\ Apart(r)
    BY <1>1, <1>2, <2>1, <2>3 DEF Apart, TasksApart, AttemptsApart
  <2>5. Phased(r)' /\ Judged(r)'
    <3>1. resp[r].stage # "FAILED" /\ outcome[r] = "none"
      <4>1. pc[r] = "stt" => sttTask[r] # "done"
        BY <1>1, <1>4 DEF RetriedStageEmpty, RetriedStageError, PauseOver, Attempting, Detached,
                          Sound, Tasked
      <4> QED BY <2>4, <4>1 DEF Sound, Phased, Judged, SttLost
    <3> QED BY <2>1, <2>4, <3>1 DEF Sound, Phased, Judged, Locking, InPipeline
  <2>6. Tasked(r)'
    BY <1>2, <2>1, <2>4 DEF Sound, Phased, Tasked, Alive
  <2>7. Ticketed(r)'
    BY <1>2, <2>1, <2>4 DEF Sound, Ticketed
  <2> QED BY <2>4, <2>5, <2>6, <2>7 DEF Sound
<1>5. CASE RetriedStageFailed(r, stage)
  BY <1>1, <1>2, <1>5, FailsSound DEF RetriedStageFailed, Detached
<1> QED BY <1>3, <1>4, <1>5 DEF RetriedStage

\* The coroutine is told how its STT task ended.
LEMMA SttJoinedSound ==
    ASSUME TypeOK, NEW r \in Req, Sound(r), SttJoined(r)
    PROVE  Apart(r) /\ Sound(r)' /\ pc[r] # "done"
<1>1. /\ pc[r] = "stt" /\ pc[r] \in Locking /\ sttTask[r] = "done"
      /\ conv' = conv /\ shape' = shape /\ UNCHANGED taskVars
  BY DEF SttJoined, Locking, InPipeline
<1>2. /\ TasksApart(r) /\ sttTask'[r] = sttTask[r]
      /\ genTask'[r] = genTask[r] /\ ticketTask'[r] = ticketTask[r]
  <2>1. AttemptsApart(r)
    BY DEF SttJoined, AttemptsApart, TypeOK
  <2> QED BY <1>1, <2>1, TaskVarsApart
<1>3. resp[r] \in Response /\ outcome[r] = "none" /\ lockOf[r] # None
      /\ genTask[r] = "none" /\ ticketTask[r] = "none"
  BY <1>1 DEF TypeOK, Sound, Phased, Tasked
<1>4. CASE resp[r].stage = "FAILED"
  <2>1. Leave(r, resp[r], "failed") /\ attempt' = attempt
    BY <1>4 DEF SttJoined
  <2>2. /\ Apart(r)
        /\ pc'[r] = "done" /\ resp'[r] = resp[r] /\ outcome'[r] = "failed"
        /\ lockOf'[r] = lockOf[r]
    BY <1>1, <1>2, <2>1, LeaveFields
  <2>3. Phased(r)'
    BY <1>3, <2>2 DEF Phased, Locking, InPipeline
  <2>4. Judged(r)'
    BY <1>3, <1>4, <2>2 DEF Sound, Judged
  <2>5. Tasked(r)' /\ Ticketed(r)'
    BY <1>1, <1>2, <1>3, <2>2 DEF Sound, Tasked, Ticketed, Alive
  <2> QED BY <1>1, <2>2, <2>3, <2>4, <2>5 DEF Sound
<1>5. CASE resp[r].stage # "FAILED"
  <2>1. Proceed(r, "nlu", resp[r]) /\ "nlu" \in InPipeline /\ Unjudged(resp[r])
    BY <1>3, <1>5 DEF SttJoined, InPipeline, Sound, Judged, Unjudged
  <2>2. /\ Apart(r) /\ Phased(r)' /\ Judged(r)' /\ resp'[r].ticket = resp[r].ticket
        /\ pc'[r] = "nlu" /\ outcome'[r] = "none"
    BY <1>1, <1>2, <1>3, <2>1, GoesOn
  <2>3. Tasked(r)' /\ Ticketed(r)'
    BY <1>1, <1>2, <1>3, <2>2 DEF Sound, Tasked, Ticketed, Alive
  <2> QED BY <1>1, <2>2, <2>3 DEF Sound
<1> QED BY <1>4, <1>5

\* The stages that are not retried.
LEMMA NluSound ==
    ASSUME TypeOK, NEW r \in Req, Sound(r), NluDone(r)
    PROVE  Apart(r) /\ Sound(r)' /\ pc[r] # "done"
<1>1. pc[r] = "nlu" /\ pc[r] \in Locking /\ conv' = conv /\ shape' = shape
  BY DEF NluDone, Locking, InPipeline
<1>2. resp[r] \in Response /\ Unjudged(resp[r])
      /\ genTask[r] = "none" /\ ticketTask[r] = "none"
  BY <1>1 DEF Sound, Phased, Judged, Tasked, TypeOK, Unjudged
<1>3. PICK rsp : rsp = [resp[r] EXCEPT !.stage = "RESPONSE_GENERATION"]
  OBVIOUS
<1>4. rsp \in Response /\ Unjudged(rsp) /\ rsp.ticket = resp[r].ticket
  BY <1>2, <1>3 DEF Response, Stage, Unjudged
<1>5. /\ TasksApart(r) /\ sttTask'[r] = sttTask[r] /\ sttTask[r] \notin Alive
      /\ genTask'[r] = IF shape[r].par THEN "created" ELSE "none"
      /\ ticketTask'[r] = IF shape[r].par /\ shape[r].ticket THEN "created" ELSE "none"
  BY <1>2 DEF NluDone, TypeOK, TasksApart, AttemptsApart, Sound, Tasked, Alive
<1>6. Proceed(r, "gen", rsp) /\ "gen" \in InPipeline
  BY <1>3 DEF NluDone, InPipeline
<1>7. /\ Apart(r) /\ Phased(r)' /\ Judged(r)' /\ resp'[r].ticket = rsp.ticket
      /\ pc'[r] = "gen" /\ outcome'[r] = "none"
  BY <1>1, <1>4, <1>5, <1>6, GoesOn
<1>8. Tasked(r)'
  BY <1>1, <1>5, <1>7, Zenon DEF Sound, Tasked
<1>9. Ticketed(r)'
  BY <1>1, <1>2, <1>4, <1>5, <1>7 DEF Sound, Ticketed
<1> QED BY <1>1, <1>7, <1>8, <1>9 DEF Sound

\* From generation or quality on to the stage that follows, over no ticket that is open.
LEMMA GoesOnTo ==
    ASSUME TypeOK, NEW r \in Req, Sound(r), pc[r] \in {"gen", "quality", "ticket"},
           NEW next \in {"quality", "ticket", "tts", "finish"},
           next = "quality" => pc[r] = "gen",
           next = "ticket" => shape[r].ticket /\ pc[r] # "ticket",
           NEW rsp \in Response, Unjudged(rsp), Proceed(r, next, rsp),
           genTask[r] \notin Alive,
           ~shape[r].ticket => rsp.ticket = "pending",
           ticketTask[r] = "done" => rsp.ticket # "pending",
           next \in {"tts", "finish"} =>
               ticketTask[r] \notin Alive /\ (shape[r].ticket => rsp.ticket # "pending"),
           conv' = conv, shape' = shape, UNCHANGED taskVars, attempt' = attempt
    PROVE  Apart(r) /\ Sound(r)' /\ pc[r] # "done"
<1>1. pc[r] \in Locking /\ next \in InPipeline \union {"finish"}
      /\ next \notin {"sttPause", "ttsPause"}
  BY DEF Locking, InPipeline
<1>2. /\ TasksApart(r) /\ sttTask'[r] = sttTask[r]
      /\ genTask'[r] = genTask[r] /\ ticketTask'[r] = ticketTask[r]
  BY TaskVarsApart DEF AttemptsApart
<1>3. /\ Apart(r) /\ Phased(r)' /\ Judged(r)' /\ resp'[r].ticket = rsp.ticket
      /\ next = "finish" => pc'[r] = "done" /\ outcome'[r] = "completed"
      /\ next # "finish" => pc'[r] = next /\ outcome'[r] = "none"
  BY <1>1, <1>2, GoesOn
<1>4. Tasked(r)'
  BY <1>2, <1>3 DEF Sound, Tasked, Alive
<1>5. Ticketed(r)'
  BY <1>2, <1>3 DEF Sound, Ticketed
<1> QED BY <1>3, <1>4, <1>5 DEF Sound

\* A ticket that is asked for is passed over only when its task has written its verdict.
LEMMA AfterFacts ==
    ASSUME TypeOK, NEW r \in Req, Sound(r), pc[r] \in {"gen", "quality"},
           NEW next \in {AfterQuality(r), AfterGeneration(r)}
    PROVE  /\ next \in {"quality", "ticket", "tts", "finish"}
           /\ next = "ticket" => shape[r].ticket
           /\ next \in {"tts", "finish"} =>
                 /\ ticketTask[r] \notin Alive
                 /\ shape[r].ticket => resp[r].ticket # "pending"
<1>1. /\ ticketTask[r] # "none" => shape[r].par /\ shape[r].ticket
      /\ ticketTask[r] = "done" => resp[r].ticket # "pending"
  BY DEF Sound, Tasked, Ticketed
<1>2. /\ AfterQuality(r) \in {"ticket", "tts", "finish"}
      /\ AfterQuality(r) = "ticket" => shape[r].ticket
      /\ AfterQuality(r) # "ticket" => ~shape[r].ticket \/ ticketTask[r] = "done"
  BY DEF AfterQuality, AfterTicket
<1>3. AfterGeneration(r) = "quality" \/ AfterGeneration(r) = AfterQuality(r)
  BY DEF AfterGeneration
<1> QED BY <1>1, <1>2, <1>3 DEF Alive

LEMMA GenerationSound ==
    ASSUME TypeOK, NEW r \in Req, Sound(r), GenerationDone(r)
    PROVE  Apart(r) /\ Sound(r)' /\ pc[r] # "done"
<1>1. /\ pc[r] = "gen" /\ conv' = conv /\ shape' = shape /\ UNCHANGED taskVars
      /\ attempt' = attempt
      /\ shape[r].par => genTask[r] = "done"
  BY DEF GenerationDone
<1>2. resp[r] \in Response /\ Unjudged(resp[r]) /\ genTask[r] \notin Alive
  BY <1>1 DEF Sound, Phased, Judged, Tasked, TypeOK, Unjudged, Alive
<1>3. PICK rsp : rsp = IF shape[r].par THEN resp[r] ELSE [resp[r] EXCEPT !.stage = "QUALITY_CHECK"]
  OBVIOUS
<1>4. rsp \in Response /\ Unjudged(rsp) /\ rsp.ticket = resp[r].ticket
  BY <1>2, <1>3 DEF Response, Stage, Unjudged
<1>5. PICK next : next = AfterGeneration(r)
  OBVIOUS
<1>6. /\ next \in {"quality", "ticket", "tts", "finish"}
      /\ next = "ticket" => shape[r].ticket
      /\ next \in {"tts", "finish"} =>
            ticketTask[r] \notin Alive /\ (shape[r].ticket => resp[r].ticket # "pending")
  BY <1>1, <1>5, AfterFacts
<1>7. /\ ~shape[r].ticket => rsp.ticket = "pending"
      /\ ticketTask[r] = "done" => rsp.ticket # "pending"
  BY <1>4 DEF Sound, Ticketed
<1>8. Proceed(r, next, rsp)
  BY <1>3, <1>5 DEF GenerationDone
<1> QED BY <1>1, <1>2, <1>4, <1>6, <1>7, <1>8, GoesOnTo

LEMMA QualitySound ==
    ASSUME TypeOK, NEW r \in Req, Sound(r), QualityDone(r)
    PROVE  Apart(r) /\ Sound(r)' /\ pc[r] # "done"
<1>1. pc[r] = "quality" /\ conv' = conv /\ shape' = shape /\ UNCHANGED taskVars
      /\ attempt' = attempt
  BY DEF QualityDone
<1>2. resp[r] \in Response /\ Unjudged(resp[r]) /\ genTask[r] \notin Alive
  BY <1>1 DEF Sound, Phased, Judged, Tasked, TypeOK, Unjudged, Alive
<1>3. PICK rsp : rsp = [resp[r] EXCEPT !.stage = "TICKET_BUILDING"]
  OBVIOUS
<1>4. rsp \in Response /\ Unjudged(rsp) /\ rsp.ticket = resp[r].ticket
  BY <1>2, <1>3 DEF Response, Stage, Unjudged
<1>5. PICK next : next = AfterQuality(r)
  OBVIOUS
<1>6. /\ next \in {"ticket", "tts", "finish"}
      /\ next = "ticket" => shape[r].ticket
      /\ next \in {"tts", "finish"} =>
            ticketTask[r] \notin Alive /\ (shape[r].ticket => resp[r].ticket # "pending")
  BY <1>1, <1>5, AfterFacts, AfterTypes
<1>7. /\ ~shape[r].ticket => rsp.ticket = "pending"
      /\ ticketTask[r] = "done" => rsp.ticket # "pending"
  BY <1>4 DEF Sound, Ticketed
<1>8. Proceed(r, next, rsp)
  BY <1>3, <1>5 DEF QualityDone
<1> QED BY <1>1, <1>2, <1>4, <1>6, <1>7, <1>8, GoesOnTo

LEMMA TicketSound ==
    ASSUME TypeOK, NEW r \in Req, Sound(r), TicketDone(r) \/ TicketJoined(r)
    PROVE  Apart(r) /\ Sound(r)' /\ pc[r] # "done"
<1>1. pc[r] = "ticket" /\ conv' = conv /\ shape' = shape /\ UNCHANGED taskVars
      /\ attempt' = attempt
  BY DEF TicketDone, TicketJoined
<1>2. /\ resp[r] \in Response /\ Unjudged(resp[r]) /\ genTask[r] \notin Alive
      /\ shape[r].ticket
      /\ ticketTask[r] = "done" => resp[r].ticket # "pending"
      /\ ticketTask[r] # "none" => shape[r].par
  BY <1>1 DEF Sound, Phased, Judged, SttLost, Tasked, Ticketed, TypeOK, Unjudged, Alive
<1>3. PICK next : next = AfterTicket(r)
  OBVIOUS
<1>4. next \in {"tts", "finish"}
  BY <1>3, AfterTypes
<1>5. CASE TicketDone(r)
  <2>1. PICK status \in TicketStatus \ {"pending"} :
            Proceed(r, AfterTicket(r), WithTicket(resp[r], status)) /\ ~shape[r].par
    BY <1>5 DEF TicketDone
  <2>2. PICK rsp : rsp = WithTicket(resp[r], status)
    OBVIOUS
  <2>3. rsp \in Response /\ Unjudged(rsp) /\ rsp.ticket # "pending"
    BY <1>2, <2>1, <2>2 DEF WithTicket, Response, Stage, Unjudged
  <2>4. Proceed(r, next, rsp) /\ ticketTask[r] \notin Alive
    BY <1>2, <1>3, <2>1, <2>2 DEF Alive
  <2> QED BY <1>1, <1>2, <1>4, <2>3, <2>4, GoesOnTo
<1>6. CASE TicketJoined(r)
  <2>1. Proceed(r, next, resp[r]) /\ ticketTask[r] = "done" /\ ticketTask[r] \notin Alive
    BY <1>3, <1>6 DEF TicketJoined, Alive
  <2> QED BY <1>1, <1>2, <1>4, <2>1, GoesOnTo
<1> QED BY <1>5, <1>6

LEMMA StagingSound ==
    ASSUME TypeOK, NEW r \in Req, Sound(r), Staging(r)
    PROVE  Apart(r) /\ Sound(r)' /\ pc[r] # "done"
BY RetriedStageSound, SttJoinedSound, NluSound, GenerationSound, QualitySound, TicketSound DEF Staging

\* The STT task writes while its coroutine awaits it, and says FAILED only when it is lost.
LEMMA SttTaskSound ==
    ASSUME TypeOK, NEW r \in Req, Sound(r),
           SttTaskStart(r) \/ SttTaskOk(r) \/ SttTaskFailed(r)
    PROVE  Apart(r) /\ Sound(r)' /\ Settled(r)
<1> DEFINE begun == [resp[r] EXCEPT !.stage = "SPEECH_TO_TEXT", !.state = "PROCESSING"]
           heard == [resp[r] EXCEPT !.stage = "NLU_PROCESSING"]
           lost == [resp[r] EXCEPT !.stage = "FAILED", !.state = "ERROR"]
           writes(rsp, now) ==
               /\ sttTask[r] \in Alive /\ sttTask' = [sttTask EXCEPT ![r] = now]
               /\ resp' = [resp EXCEPT ![r] = rsp]
               /\ pc' = pc /\ conv' = conv /\ shape' = shape /\ outcome' = outcome
               /\ attempt' = attempt /\ lockOf' = lockOf
               /\ genTask' = genTask /\ ticketTask' = ticketTask
           finally == pc[r] = "stt" /\ attempt[r] = MaxRetries
<1>1. \/ writes(begun, "running")
      \/ writes(heard, "done")
      \/ writes(lost, "done") /\ finally
  <2>1. CASE SttTaskStart(r)
    BY <2>1 DEF SttTaskStart, Write, Alive, sharedVars, lockVars
  <2>2. CASE SttTaskOk(r)
    <3>1. shape[r].par /\ sttTask[r] = "running"
      BY <2>2 DEF SttTaskOk, SttTaskEnd, Attempting, Detached
    <3> QED BY <2>2, <3>1 DEF SttTaskOk, SttTaskEnd, Write, Alive, sharedVars, lockVars
  <2>3. CASE SttTaskFailed(r)
    <3>1. shape[r].par /\ sttTask[r] = "running" /\ pc[r] = "stt"
      BY <2>3 DEF SttTaskFailed, SttTaskEnd, Attempting, Detached
    <3> QED BY <2>3, <3>1 DEF SttTaskFailed, SttTaskEnd, Write, Alive, sharedVars, lockVars
  <2> QED BY <2>1, <2>2, <2>3
<1>a. PICK rsp, now : /\ writes(rsp, now) /\ now \in {"running", "done"}
                      /\ \/ rsp = begun \/ rsp = heard
                         \/ rsp = lost /\ now = "done" /\ finally
  BY <1>1
<1> HIDE DEF begun, heard, lost
<1>2. /\ resp[r] \in Response /\ resp'[r] = rsp /\ sttTask'[r] = now
      /\ \A q \in Req : q # r => sttTask'[q] = sttTask[q] /\ resp'[q] = resp[q]
  BY <1>a DEF TypeOK
<1>3. pc[r] \in {"stt", "sttPause"} /\ outcome[r] = "none" /\ ~resp[r].success /\ shape[r].par
  BY <1>a DEF Sound, Phased, Judged, Tasked, Alive
<1>4. /\ rsp.stage # "COMPLETED" /\ ~rsp.success /\ rsp.ticket = resp[r].ticket
      /\ rsp.stage = "FAILED" => rsp.state = "ERROR" /\ now = "done" /\ finally
  <2>1. CASE rsp = begun
    BY <1>2, <1>3, <2>1 DEF begun, Response
  <2>2. CASE rsp = heard
    BY <1>2, <1>3, <2>2 DEF heard, Response
  <2>3. CASE rsp = lost /\ now = "done" /\ finally
    BY <1>2, <1>3, <2>3 DEF lost, Response
  <2> QED BY <1>a, <2>1, <2>2, <2>3
<1>5. Apart(r)
  BY <1>a, <1>2 DEF Apart
<1>6. Phased(r)'
  BY <1>a DEF Sound, Phased
<1>7. Judged(r)'
  BY <1>a, <1>2, <1>3, <1>4 DEF Judged, SttLost
<1>8. Tasked(r)'
  BY <1>a, <1>2, <1>3 DEF Sound, Tasked
<1>9. Ticketed(r)'
  BY <1>a, <1>2, <1>4 DEF Sound, Ticketed
<1> QED BY <1>3, <1>5, <1>6, <1>7, <1>8, <1>9 DEF Sound, Settled

\* The later tasks write stage and ticket of the response, at most, and never the last stages.
LEMMA LaterTasksSound ==
    ASSUME TypeOK, NEW r \in Req, Sound(r),
           GenTaskStart(r) \/ GenTaskEnd(r) \/ TicketTaskStart(r) \/ TicketTaskEnd(r)
    PROVE  Apart(r) /\ Sound(r)' /\ Settled(r)
<1> DEFINE staged(rsp) == \E st \in Stage \ {"COMPLETED", "FAILED"} :
                             rsp = [resp[r] EXCEPT !.stage = st]
           ticketed(rsp) == \E status \in TicketStatus \ {"pending"} :
                               rsp = WithTicket(resp[r], status)
           generates == genTask[r] \in Alive /\ genTask'[r] \in {"running", "done"}
                        /\ ticketTask'[r] = ticketTask[r]
           tickets(next) == ticketTask[r] \in Alive /\ ticketTask'[r] = next
                            /\ genTask'[r] = genTask[r]
<1>1. PICK rsp : /\ resp' = [resp EXCEPT ![r] = rsp]
                 /\ pc' = pc /\ conv' = conv /\ shape' = shape /\ outcome' = outcome
                 /\ sttTask' = sttTask /\ attempt' = attempt
                 /\ lockOf' = lockOf /\ TasksApart(r)
                 /\ \/ staged(rsp) /\ (generates \/ tickets("running"))
                    \/ ticketed(rsp) /\ tickets("done")
  <2>1. {"RESPONSE_GENERATION", "QUALITY_CHECK", "TICKET_BUILDING"}
           \subseteq Stage \ {"COMPLETED", "FAILED"}
    BY DEF Stage
  <2>2. CASE GenTaskStart(r) \/ GenTaskEnd(r)
    <3>1. generates /\ TasksApart(r)
      BY <2>2 DEF GenTaskStart, GenTaskEnd, Write, TypeOK, TasksApart, AttemptsApart, Alive
    <3> QED BY <2>1, <2>2, <3>1 DEF GenTaskStart, GenTaskEnd, Write, sharedVars, lockVars
  <2>3. CASE TicketTaskStart(r)
    <3>1. tickets("running") /\ TasksApart(r)
      BY <2>3 DEF TicketTaskStart, Write, TypeOK, TasksApart, AttemptsApart, Alive
    <3> QED BY <2>1, <2>3, <3>1 DEF TicketTaskStart, Write, sharedVars, lockVars
  <2>4. CASE TicketTaskEnd(r)
    <3>1. tickets("done") /\ TasksApart(r)
      BY <2>4 DEF TicketTaskEnd, Write, TypeOK, TasksApart, AttemptsApart, Alive
    <3> QED BY <2>4, <3>1 DEF TicketTaskEnd, Write, sharedVars, lockVars
  <2> QED BY <2>2, <2>3, <2>4
<1>2. resp[r] \in Response /\ resp'[r] = rsp
  BY <1>1 DEF TypeOK
<1>3. /\ rsp.stage \notin {"COMPLETED", "FAILED"}
      /\ rsp.state = resp[r].state /\ rsp.success = resp[r].success
      /\ ticketed(rsp) => rsp.ticket # "pending"
      /\ staged(rsp) => rsp.ticket = resp[r].ticket
  <2>1. CASE staged(rsp)
    <3>1. /\ rsp.stage \notin {"COMPLETED", "FAILED"} /\ rsp.ticket = resp[r].ticket
          /\ rsp.state = resp[r].state /\ rsp.success = resp[r].success
      BY <1>2, <2>1 DEF Response
    <3> QED BY <1>2, <3>1 DEF WithTicket, Response
  <2>2. CASE ticketed(rsp)
    <3>1. /\ rsp.stage = "TEXT_TO_SPEECH" /\ rsp.ticket # "pending"
          /\ rsp.state = resp[r].state /\ rsp.success = resp[r].success
      BY <1>2, <2>2 DEF Response, WithTicket
    <3>2. staged(rsp) => rsp.ticket = resp[r].ticket
      BY <1>2 DEF Response
    <3> QED BY <3>1, <3>2
  <2> QED BY <1>1, <2>1, <2>2
<1>4. /\ TasksApart(r)
      /\ \/ rsp.ticket = resp[r].ticket /\ generates
         \/ rsp.ticket = resp[r].ticket /\ tickets("running")
         \/ rsp.ticket # "pending" /\ tickets("done")
  BY <1>1, <1>3
<1>5. Apart(r)
  BY <1>1, <1>4 DEF TypeOK, Apart, TasksApart, AttemptsApart
<1>6. outcome[r] \notin {"completed", "failed"}
  BY <1>4 DEF Sound, Phased, Tasked, Alive
<1>7. Phased(r)' /\ Judged(r)'
  BY <1>1, <1>2, <1>3, <1>6 DEF Sound, Phased, Judged, SttLost
<1>8. Tasked(r)'
  BY <1>1, <1>4 DEF Sound, Tasked, Alive
<1>9. shape[r].ticket \/ ticketTask[r] \notin Alive
  BY DEF Sound, Tasked, Alive
<1>10. Ticketed(r)'
  BY <1>1, <1>2, <1>3, <1>4, <1>9 DEF Sound, Ticketed, Alive
<1>11. Settled(r)
  BY <1>1, <1>2, <1>3 DEF Settled
<1> QED BY <1>5, <1>7, <1>8, <1>10, <1>11 DEF Sound

LEMMA TasksSound ==
    ASSUME TypeOK, NEW r \in Req, Sound(r), Tasks(r)
    PROVE  Apart(r) /\ Sound(r)' /\ Settled(r)
BY SttTaskSound, LaterTasksSound DEF Tasks

\* A timeout or a cancellation of the pipeline takes along the task that is awaited.
LEMMA CutShortSound ==
    ASSUME TypeOK, NEW r \in Req, Sound(r), pc[r] \in InPipeline, CancelAwaited(r),
           NEW rsp, NEW out \in {"timeout", "cancelled"}, Leave(r, rsp, out),
           rsp.ticket = resp[r].ticket, rsp.stage = resp[r].stage, ~rsp.success, out = "timeout" => rsp.state = "TIMEOUT",
           conv' = conv, shape' = shape, attempt' = attempt
    PROVE  Apart(r) /\ Sound(r)' /\ pc[r] # "done"
<1>1. /\ TasksApart(r)
      /\ sttTask'[r] = IF pc[r] \in {"stt", "sttPause"} /\ sttTask[r] \in Alive THEN "cancelled"
                       ELSE sttTask[r]
      /\ genTask'[r] = IF pc[r] = "gen" /\ genTask[r] \in Alive THEN "cancelled" ELSE genTask[r]
      /\ ticketTask'[r] = IF pc[r] = "ticket" /\ ticketTask[r] \in Alive THEN "cancelled"
                          ELSE ticketTask[r]
  BY DEF CancelAwaited, TypeOK, TasksApart, AttemptsApart
<1>2. /\ Apart(r)
      /\ pc'[r] = "done" /\ resp'[r] = rsp /\ outcome'[r] = out /\ lockOf'[r] = lockOf[r]
  BY <1>1, LeaveFields
<1>3. lockOf[r] # None /\ pc[r] # "done" /\ shape'[r] = shape[r]
  BY DEF Sound, Phased, Locking, InPipeline
<1>4. Phased(r)'
  BY <1>2, <1>3 DEF Phased, Locking, InPipeline
<1>5. Judged(r)'
  <2>1. /\ resp[r].stage # "COMPLETED"
        /\ resp[r].stage = "FAILED" => SttLost(r)
    BY <1>3 DEF Sound, Phased, Judged
  <2>2. SttLost(r) => SttLost(r)'
    BY <1>1 DEF SttLost, Alive
  <2> QED BY <1>2, <2>1, <2>2 DEF Judged
<1>6. Tasked(r)'
  BY <1>1, <1>2, <1>3 DEF Sound, Tasked, Alive
<1>7. Ticketed(r)'
  BY <1>1, <1>2, <1>3 DEF Sound, Ticketed
<1> QED BY <1>2, <1>3, <1>4, <1>5, <1>6, <1>7 DEF Sound

LEMMA StoppingSound ==
    ASSUME TypeOK, NEW r \in Req, Sound(r), Timeout(r) \/ Cancelling(r)
    PROVE  Apart(r) /\ Sound(r)' /\ pc[r] # "done"
<1>1. pc[r] \in InPipeline => resp[r] \in Response /\ ~resp[r].success
  BY DEF Sound, Phased, Judged, TypeOK, InPipeline
<1>2. CASE Timeout(r)
  <2>1. PICK rsp : rsp = [resp[r] EXCEPT !.state = "TIMEOUT"]
    OBVIOUS
  <2>2. pc[r] \in InPipeline /\ CancelAwaited(r) /\ Leave(r, rsp, "timeout")
        /\ conv' = conv /\ shape' = shape /\ attempt' = attempt
    BY <1>2, <2>1 DEF Timeout
  <2>3. /\ rsp.ticket = resp[r].ticket /\ rsp.stage = resp[r].stage
        /\ ~rsp.success /\ rsp.state = "TIMEOUT"
    BY <1>1, <2>1, <2>2 DEF Response
  <2> QED BY <2>2, <2>3, CutShortSound
<1>3. CASE CancelRunning(r)
  <2>1. pc[r] \in InPipeline /\ CancelAwaited(r) /\ Leave(r, resp[r], "cancelled")
        /\ conv' = conv /\ shape' = shape /\ attempt' = attempt
    BY <1>3 DEF CancelRunning
  <2> QED BY <1>1, <2>1, CutShortSound
<1>4. CASE CancelWaiting(r) \/ CancelInitializing(r)
  <2>1. /\ pc[r] \in {"lock", "init"}
        /\ pc' = [pc EXCEPT ![r] = "done"] /\ outcome' = [outcome EXCEPT ![r] = "cancelled"]
        /\ resp' = resp /\ conv' = conv /\ shape' = shape /\ lockOf' = lockOf
        /\ sttTask' = sttTask /\ attempt' = attempt
        /\ genTask' = genTask /\ ticketTask' = ticketTask
    BY <1>4 DEF CancelWaiting, CancelInitializing, taskVars, sharedVars, lockVars
  <2>2. Apart(r) /\ pc'[r] = "done" /\ outcome'[r] = "cancelled"
    BY <2>1 DEF TypeOK, Apart
  <2> QED BY <2>1, <2>2
          DEF Sound, Phased, Judged, SttLost, Tasked, Ticketed, Locking, InPipeline, Alive
<1> QED BY <1>2, <1>3, <1>4 DEF Cancelling

LEMMA SoundStep == IInv /\ AllSound /\ [Next]_vars => AllSound' /\ \A s \in Req : Settled(s)
<1> SUFFICES ASSUME IInv, AllSound, [Next]_vars
             PROVE  AllSound' /\ \A s \in Req : Settled(s)
  OBVIOUS
<1>1. TypeOK /\ \A r \in Req : Sound(r)
  BY DEF IInv, AllSound
<1>2. CASE \E r \in Req : Calling(r) \/ Staging(r) \/ Timeout(r) \/ Cancelling(r)
  <2>1. PICK r \in Req : Calling(r) \/ Staging(r) \/ Timeout(r) \/ Cancelling(r)
    BY <1>2
  <2>2. Apart(r) /\ Sound(r)' /\ pc[r] # "done"
    BY <1>1, <2>1, CallingSound, StagingSound, StoppingSound
  <2> QED BY <2>2, OneMoves
<1>3. CASE \E r \in Req : Tasks(r)
  <2>1. PICK r \in Req : Tasks(r)
    BY <1>3
  <2>2. Apart(r) /\ Sound(r)' /\ Settled(r)
    BY <1>1, <2>1, TasksSound
  <2> QED BY <2>2, OneMoves
<1>4. CASE Managing \/ UNCHANGED vars
  <2>1. UNCHANGED <<conv, shape, pc, outcome, resp, sttTask, attempt, genTask, ticketTask, lockOf>>
    BY <1>4 DEF Managing, StopConversation, CleanupResources, ShutdownBegin, ShutdownEnd, StopAll,
                vars, taskVars, sharedVars, lockVars
  <2> QED BY <2>1, NobodyMoves
<1> QED BY <1>2, <1>3, <1>4 DEF Next, Step

LEMMA InitSound == Init => AllSound
<1> SUFFICES ASSUME Init, NEW r \in Req PROVE Sound(r)
  BY DEF AllSound
<1>1. /\ pc[r] = "idle" /\ outcome[r] = "none" /\ resp[r] = NewResponse
      /\ sttTask[r] = "none" /\ genTask[r] = "none" /\ ticketTask[r] = "none" /\ lockOf[r] = None
  BY DEF Init
<1> QED BY <1>1 DEF Sound, Phased, Judged, SttLost, Tasked, Ticketed, NewResponse, Locking, InPipeline, Alive

LEMMA AlwaysSound == Spec => [](IInv /\ AllSound)
BY InitIInv, NextIInv, InitSound, SoundStep, PTL DEF Spec

\* The response a caller gets agrees with how its pipeline ended, although three tasks write
\* pipeline_stage into the same object: a timeout shows FAILED only where the STT task was lost.
THEOREM OutcomeAlwaysMatches == Spec => []OutcomeMatches
<1>1. AllSound => OutcomeMatches
  BY DEF AllSound, Sound, Judged, SttLost, OutcomeMatches
<1> QED BY <1>1, AlwaysSound, PTL

\* A pipeline that ends by itself has joined its tasks; what a timeout or a cancellation
\* leaves behind is a ticket task, never one that generates.
THEOREM NeverOrphans == Spec => []NoOrphanTasks
<1>1. AllSound => NoOrphanTasks
  BY DEF AllSound, Sound, Tasked, NoOrphanTasks
<1> QED BY <1>1, AlwaysSound, PTL

\* A request that asked for a ticket is completed only with a verdict on it, through
\* whichever of the two pipelines, with or without quality check and voice.
THEOREM AlwaysTicketed == Spec => []CompletedWithTicket
<1>1. AllSound => CompletedWithTicket
  BY DEF AllSound, Sound, Ticketed, CompletedWithTicket
<1> QED BY <1>1, AlwaysSound, PTL

\* Outcome, state and success of a request that returned never change, whatever its tasks,
\* other requests and the calls from outside go on doing.
THEOREM VerdictAlwaysFinal == Spec => VerdictIsFinal
<1>1. IInv /\ AllSound /\ [Next]_vars
         => [\A r \in Req : pc[r] = "done" =>
               /\ pc'[r] = "done" /\ outcome'[r] = outcome[r]
               /\ resp'[r].state = resp[r].state /\ resp'[r].success = resp[r].success]_vars
  BY SoundStep DEF Settled
<1> QED BY <1>1, AlwaysSound, PTL DEF Spec, VerdictIsFinal

-----------------------------------------------------------------------------
(* The tables and the counters.                                              *)

\* What a step of request r means to active_conversations and global_metrics: it lets the
\* request in, or returns, or neither.
LetsIn(r) ==
    /\ lockOf[r] = None /\ lockOf'[r] # None /\ outcome[r] = "none"
    /\ \/ /\ metrics' = [metrics EXCEPT !.total = @ + 1]
          /\ active' = [active EXCEPT ![conv[r]] = r]
          /\ pc'[r] # "done" /\ outcome'[r] = "none"
       \/ /\ metrics' = [metrics EXCEPT !.total = @ + 1, !.failed = @ + 1]
          /\ active' = [active EXCEPT ![conv[r]] = None]
          /\ outcome'[r] = "failed"
Returns(r) ==
    /\ lockOf' = lockOf /\ outcome[r] = "none" /\ outcome'[r] # "none"
    /\ metrics' = Counted(outcome'[r])
    /\ outcome'[r] \in {"completed", "failed", "timeout"} => lockOf[r] # None
    /\ \/ active' = [active EXCEPT ![conv[r]] = None]
       \/ active' = active /\ lockOf[r] = None
GoesOnly(r) ==
    /\ lockOf' = lockOf /\ outcome'[r] = outcome[r] /\ metrics' = metrics /\ active' = active
    /\ pc[r] # "done" => pc'[r] # "done"
Booked(r) == LetsIn(r) \/ Returns(r) \/ GoesOnly(r)

LEMMA LeaveBooked ==
    ASSUME TypeOK, NEW r \in Req, Sound(r), pc[r] \in Locking,
           NEW rsp, NEW out \in Outcomes \ {"none"}, Leave(r, rsp, out)
    PROVE  Returns(r)
<1>1. outcome[r] = "none" /\ lockOf[r] # None
  BY DEF Sound, Phased, Locking, InPipeline
<1>2. /\ outcome'[r] = out /\ lockOf' = lockOf /\ metrics' = Counted(out)
      /\ active' = [active EXCEPT ![conv[r]] = None]
  BY DEF Leave, TypeOK
<1> QED BY <1>1, <1>2 DEF Returns

LEMMA FailBooked ==
    ASSUME TypeOK, NEW r \in Req, Sound(r), pc[r] \in Locking, Fail(r)
    PROVE  Returns(r)
<1>1. PICK rsp : Leave(r, rsp, "failed")
  BY DEF Fail
<1>2. "failed" \in Outcomes \ {"none"}
  BY DEF Outcomes
<1> QED BY <1>1, <1>2, LeaveBooked

LEMMA ProceedBooked ==
    ASSUME TypeOK, NEW r \in Req, Sound(r), pc[r] \in Locking,
           NEW next \in InPipeline \union {"finish"}, NEW rsp, Proceed(r, next, rsp)
    PROVE  Booked(r)
<1>1. CASE next = "finish"
  <2>1. PICK e : Leave(r, e, "completed")
    BY <1>1 DEF Proceed
  <2>2. "completed" \in Outcomes \ {"none"}
    BY DEF Outcomes
  <2> QED BY <2>1, <2>2, LeaveBooked DEF Booked
<1>2. CASE next # "finish"
  <2>1. /\ pc' = [pc EXCEPT ![r] = next] /\ outcome' = outcome /\ lockOf' = lockOf
        /\ metrics' = metrics /\ active' = active
    BY <1>2 DEF Proceed, sharedVars, lockVars
  <2>2. pc'[r] # "done"
    BY <1>2, <2>1 DEF TypeOK, InPipeline
  <2> QED BY <2>1, <2>2 DEF Booked, GoesOnly
<1> QED BY <1>1, <1>2

LEMMA AdmitBooked ==
    ASSUME TypeOK, NEW r \in Req, Sound(r), pc[r] \in {"idle", "init"}, Admit(r)
    PROVE  LetsIn(r)
<1>1. outcome[r] = "none" /\ lockOf[r] = None
  BY DEF Sound, Phased
<1>2. LockFor(r) \in Req /\ LockFor(r) # None
  BY LockForType, ConstantsAssumption
<1>3. CASE AdmitWaiting(r)
  <2>1. /\ metrics' = [metrics EXCEPT !.total = @ + 1] /\ outcome' = outcome
        /\ active' = [active EXCEPT ![conv[r]] = r] /\ pc' = [pc EXCEPT ![r] = "lock"]
        /\ lockOf' = [lockOf EXCEPT ![r] = LockFor(r)]
    BY <1>3 DEF AdmitWaiting, Track
  <2>2. pc'[r] = "lock" /\ lockOf'[r] = LockFor(r)
    BY <2>1 DEF TypeOK
  <2> QED BY <1>1, <1>2, <2>1, <2>2 DEF LetsIn
<1>4. CASE AdmitRunning(r)
  <2>1. /\ metrics' = [metrics EXCEPT !.total = @ + 1] /\ outcome' = outcome
        /\ active' = [active EXCEPT ![conv[r]] = r] /\ pc' = [pc EXCEPT ![r] = FirstStage(r)]
        /\ lockOf' = [lockOf EXCEPT ![r] = LockFor(r)]
    BY <1>4 DEF AdmitRunning, Track
  <2>2. pc'[r] # "done" /\ lockOf'[r] = LockFor(r)
    BY <2>1 DEF TypeOK, FirstStage
  <2> QED BY <1>1, <1>2, <2>1, <2>2 DEF LetsIn
<1>5. CASE AdmitRejected(r)
  <2>1. /\ metrics' = [metrics EXCEPT !.total = @ + 1, !.failed = @ + 1]
        /\ active' = [active EXCEPT ![conv[r]] = None]
        /\ outcome' = [outcome EXCEPT ![r] = "failed"]
        /\ lockOf' = [lockOf EXCEPT ![r] = LockFor(r)]
    BY <1>5 DEF AdmitRejected
  <2>2. outcome'[r] = "failed" /\ lockOf'[r] = LockFor(r)
    BY <2>1 DEF TypeOK
  <2> QED BY <1>1, <1>2, <2>1, <2>2 DEF LetsIn
<1> QED BY <1>3, <1>4, <1>5 DEF Admit

LEMMA CallingBooked ==
    ASSUME TypeOK, NEW r \in Req, Sound(r), Calling(r)
    PROVE  Booked(r)
<1>1. CASE Call(r) \/ InitializeDone(r)
  BY <1>1, AdmitBooked DEF Call, InitializeDone, Booked
<1>2. CASE CallInitializing(r) \/ CallBlocking(r)
  <2>1. /\ pc' = [pc EXCEPT ![r] = "init"] /\ outcome' = outcome /\ lockOf' = lockOf
        /\ metrics' = metrics /\ active' = active
    BY <1>2 DEF CallInitializing, CallBlocking, sharedVars, lockVars
  <2>2. pc'[r] # "done"
    BY <2>1 DEF TypeOK
  <2> QED BY <2>1, <2>2 DEF Booked, GoesOnly
<1>3. CASE InitializeFailed(r)
  <2>1. /\ pc[r] = "init" /\ outcome' = [outcome EXCEPT ![r] = "raised"] /\ lockOf' = lockOf
        /\ metrics' = metrics /\ active' = active
    BY <1>3 DEF InitializeFailed, sharedVars, lockVars
  <2>2. outcome[r] = "none" /\ outcome'[r] = "raised" /\ lockOf[r] = None
    BY <2>1 DEF TypeOK, Sound, Phased
  <2>3. Counted("raised") = metrics
    BY DEF Counted
  <2> QED BY <2>1, <2>2, <2>3 DEF Booked, Returns
<1>4. CASE Acquire(r)
  <2>1. pc[r] \in Locking /\ FirstStage(r) \in InPipeline \union {"finish"}
    BY <1>4 DEF Acquire, Locking, FirstStage, InPipeline
  <2> QED BY <1>4, <2>1, ProceedBooked, FailBooked DEF Acquire, Booked
<1> QED BY <1>1, <1>2, <1>3, <1>4 DEF Calling

LEMMA StagingBooked ==
    ASSUME TypeOK, NEW r \in Req, Sound(r), Staging(r)
    PROVE  Booked(r)
<1>1. ASSUME NEW stage \in {"stt", "tts"}, NEW next \in {"nlu", "finish"},
             RetriedStage(r, stage, next)
      PROVE  Booked(r)
  <2>1. stage \in Locking /\ stage # "done" /\ Pausing[stage] # "done"
        /\ next \in InPipeline \union {"finish"}
    BY DEF Locking, InPipeline, Pausing
  <2>2. CASE RetriedStageOk(r, stage, next)
    BY <2>1, <2>2, ProceedBooked DEF RetriedStageOk
  <2>3. CASE RetriedStageFailed(r, stage)
    BY <2>1, <2>3, FailBooked DEF RetriedStageFailed, Booked
  <2>4. CASE RetriedStageEmpty(r, stage) \/ RetriedStageError(r, stage) \/ PauseOver(r, stage)
    <3>1. /\ outcome' = outcome /\ lockOf' = lockOf /\ metrics' = metrics /\ active' = active
          /\ \/ pc' = pc
             \/ pc' = [pc EXCEPT ![r] = Pausing[stage]]
             \/ pc' = [pc EXCEPT ![r] = stage]
      BY <2>4 DEF RetriedStageEmpty, RetriedStageError, PauseOver, sharedVars, lockVars
    <3>2. pc[r] # "done" => pc'[r] # "done"
      BY <2>1, <3>1 DEF TypeOK
    <3> QED BY <3>1, <3>2 DEF Booked, GoesOnly
  <2> QED BY <1>1, <2>2, <2>3, <2>4 DEF RetriedStage
<1>2. ASSUME NEW p \in {"nlu", "gen", "quality", "ticket"}, pc[r] = p,
             NEW next \in {"gen", "quality", "ticket", "tts", "finish"}, NEW rsp,
             Proceed(r, next, rsp)
      PROVE  Booked(r)
  <2>1. pc[r] \in Locking /\ next \in InPipeline \union {"finish"}
    BY <1>2 DEF Locking, InPipeline
  <2> QED BY <1>2, <2>1, ProceedBooked
<1>3. CASE NluDone(r)
  BY <1>2, <1>3 DEF NluDone
<1>4. CASE GenerationDone(r)
  BY <1>2, <1>4, AfterTypes DEF GenerationDone
<1>5. CASE QualityDone(r)
  BY <1>2, <1>5, AfterTypes DEF QualityDone
<1>6. CASE TicketDone(r) \/ TicketJoined(r)
  BY <1>2, <1>6, AfterTypes DEF TicketDone, TicketJoined
<1>7. CASE SttJoined(r)
  <2>1. CASE resp[r].stage = "FAILED"
    <3>1. Leave(r, resp[r], "failed") /\ pc[r] \in Locking
      BY <1>7, <2>1 DEF SttJoined, Locking, InPipeline
    <3>2. "failed" \in Outcomes \ {"none"}
      BY DEF Outcomes
    <3> QED BY <3>1, <3>2, LeaveBooked DEF Booked
  <2>2. CASE resp[r].stage # "FAILED"
    <3>1. Proceed(r, "nlu", resp[r]) /\ pc[r] \in Locking /\ "nlu" \in InPipeline
      BY <1>7, <2>2 DEF SttJoined, Locking, InPipeline
    <3> QED BY <3>1, ProceedBooked
  <2> QED BY <2>1, <2>2
<1> QED BY <1>1, <1>3, <1>4, <1>5, <1>6, <1>7 DEF Staging

LEMMA StoppingBooked ==
    ASSUME TypeOK, NEW r \in Req, Sound(r), Timeout(r) \/ Cancelling(r)
    PROVE  Booked(r)
<1>1. {"timeout", "cancelled"} \subseteq Outcomes \ {"none"}
  BY DEF Outcomes
<1>2. CASE Timeout(r)
  <2>1. PICK rsp : pc[r] \in InPipeline /\ Leave(r, rsp, "timeout")
    BY <1>2 DEF Timeout
  <2> QED BY <1>1, <2>1, LeaveBooked DEF Booked, Locking
<1>3. CASE CancelRunning(r)
  <2>1. PICK rsp : pc[r] \in InPipeline /\ Leave(r, rsp, "cancelled")
    BY <1>3 DEF CancelRunning
  <2> QED BY <1>1, <2>1, LeaveBooked DEF Booked, Locking
<1>4. CASE CancelWaiting(r) \/ CancelInitializing(r)
  <2>1. /\ pc[r] \in {"lock", "init"} /\ outcome' = [outcome EXCEPT ![r] = "cancelled"]
        /\ lockOf' = lockOf /\ metrics' = metrics
        /\ \/ active' = [active EXCEPT ![conv[r]] = None]
           \/ active' = active /\ pc[r] = "init"
    BY <1>4 DEF CancelWaiting, CancelInitializing, sharedVars, lockVars
  <2>2. /\ outcome[r] = "none" /\ outcome'[r] = "cancelled"
        /\ pc[r] = "init" => lockOf[r] = None
    BY <2>1 DEF TypeOK, Sound, Phased
  <2>3. Counted("cancelled") = metrics
    BY DEF Counted
  <2> QED BY <2>1, <2>2, <2>3 DEF Booked, Returns
<1> QED BY <1>2, <1>3, <1>4 DEF Cancelling

LEMMA TasksBooked ==
    ASSUME TypeOK, NEW r \in Req, Tasks(r)
    PROVE  Booked(r)
BY DEF Tasks, SttTaskStart, SttTaskOk, SttTaskFailed, SttTaskEnd, GenTaskStart, GenTaskEnd, TicketTaskStart, TicketTaskEnd, Write, sharedVars, lockVars,
       Booked, GoesOnly

\* ActiveInFlight, unfolded.
Listed(c) ==
    active[c] # None =>
        active[c] \in Req /\ lockOf[active[c]] # None /\ pc[active[c]] # "done"
        /\ conv[active[c]] = c

LEMMA ListedBooked ==
    ASSUME TypeOK, \A c \in Conv : Listed(c), NEW r \in Req, Sound(r), Apart(r), Booked(r)
    PROVE  \A c \in Conv : Listed(c)'
<1> SUFFICES ASSUME NEW c \in Conv PROVE Listed(c)'
  OBVIOUS
<1>1. active \in [Conv -> Req \union {None}] /\ conv \in [Req -> Conv]
  BY DEF TypeOK
<1>2. Listed(c) /\ (pc[r] = "done" <=> outcome[r] # "none")
  BY DEF Sound, Phased
<1>3. ASSUME active'[c] = active[c], active[c] # r PROVE Listed(c)'
  <2>1. active[c] # None => /\ active[c] \in Req /\ lockOf'[active[c]] = lockOf[active[c]]
                            /\ pc'[active[c]] = pc[active[c]] /\ conv' = conv
    BY <1>2, <1>3 DEF Listed, Apart
  <2> QED BY <1>2, <1>3, <2>1 DEF Listed
<1>4. ASSUME active' = [active EXCEPT ![conv[r]] = None] PROVE Listed(c)'
  <2>1. CASE c = conv[r]
    BY <1>1, <1>4, <2>1 DEF Listed
  <2>2. CASE c # conv[r]
    <3>1. active'[c] = active[c] /\ active[c] # r
      BY <1>1, <1>2, <1>4, <2>2, ConstantsAssumption DEF Listed
    <3> QED BY <1>3, <3>1
  <2> QED BY <2>1, <2>2
<1>5. CASE LetsIn(r)
  <2>1. CASE active' = [active EXCEPT ![conv[r]] = r] /\ pc'[r] # "done"
    <3>1. CASE c = conv[r]
      BY <1>1, <1>5, <2>1, <3>1 DEF Listed, LetsIn, Apart
    <3>2. CASE c # conv[r]
      <4>1. active'[c] = active[c] /\ active[c] # r
        BY <1>1, <1>2, <2>1, <3>2, ConstantsAssumption DEF Listed
      <4> QED BY <1>3, <4>1
    <3> QED BY <3>1, <3>2
  <2>2. CASE active' = [active EXCEPT ![conv[r]] = None]
    BY <1>4, <2>2
  <2> QED BY <1>5, <2>1, <2>2 DEF LetsIn
<1>6. CASE Returns(r)
  <2>1. CASE active' = [active EXCEPT ![conv[r]] = None]
    BY <1>4, <2>1
  <2>2. CASE active' = active /\ lockOf[r] = None
    <3>1. active'[c] = active[c] /\ active[c] # r
      BY <1>2, <2>2, ConstantsAssumption DEF Listed
    <3> QED BY <1>3, <3>1
  <2> QED BY <1>6, <2>1, <2>2 DEF Returns
<1>7. CASE GoesOnly(r)
  <2>1. CASE active[c] # r
    BY <1>3, <1>7, <2>1 DEF GoesOnly
  <2>2. CASE active[c] = r
    <3>1. active' = active /\ lockOf' = lockOf /\ (pc[r] # "done" => pc'[r] # "done")
          /\ conv' = conv
      BY <1>7 DEF GoesOnly, Apart
    <3> QED BY <1>2, <2>2, <3>1 DEF Listed
  <2> QED BY <2>1, <2>2
<1> QED BY <1>5, <1>6, <1>7 DEF Booked

LEMMA ListedStopped ==
    ASSUME TypeOK, \A c \in Conv : Listed(c), NEW C \in SUBSET Conv, StopAll(C)
    PROVE  \A c \in Conv : Listed(c)'
<1>1. /\ active' = [c \in Conv |-> IF c \in C THEN None ELSE active[c]]
      /\ pc' = pc /\ lockOf' = lockOf /\ conv' = conv
  BY DEF StopAll
<1> QED BY <1>1 DEF Listed

\* The counters, and that there is something to count.
Accounted ==
    /\ IsFiniteSet(Admitted)
    /\ metrics.total = Cardinality(Admitted)
    /\ metrics.successful = Cardinality(Returned({"completed"}))
    /\ metrics.failed = Cardinality(Returned({"failed", "timeout"}))

LEMMA OneMore ==
    ASSUME NEW S, IsFiniteSet(S), NEW x, x \notin S, NEW T, T = S \union {x}
    PROVE  IsFiniteSet(T) /\ Cardinality(S) \in Nat /\ Cardinality(T) = Cardinality(S) + 1
BY FS_AddElement, FS_CardinalityType

\* The set of requests that returned with one of some outcomes, when r takes its step.
LEMMA ReturnedMoves ==
    ASSUME TypeOK, NEW r \in Req, Apart(r), NEW outs, "none" \notin outs,
           IsFiniteSet(Admitted)
    PROVE  /\ IsFiniteSet(Returned(outs))
           /\ outcome'[r] = outcome[r] /\ (lockOf'[r] # None <=> lockOf[r] # None)
                 => Returned(outs)' = Returned(outs)
           /\ outcome[r] = "none" /\ ~(outcome'[r] \in outs /\ lockOf'[r] # None)
                 => Returned(outs)' = Returned(outs)
           /\ outcome[r] = "none" /\ outcome'[r] \in outs /\ lockOf'[r] # None
                 => /\ r \notin Returned(outs)
                    /\ Returned(outs)' = Returned(outs) \union {r}
<1>1. Returned(outs) \subseteq Admitted
  BY DEF Returned
<1>2. IsFiniteSet(Returned(outs))
  BY <1>1, FS_Subset
<1>3. \A s \in Req : s # r => outcome'[s] = outcome[s] /\ lockOf'[s] = lockOf[s]
  BY DEF Apart
<1>4. ASSUME outcome'[r] = outcome[r], lockOf'[r] # None <=> lockOf[r] # None
      PROVE  Returned(outs)' = Returned(outs)
  BY <1>3, <1>4 DEF Returned, Admitted
<1>5. ASSUME outcome[r] = "none", ~(outcome'[r] \in outs /\ lockOf'[r] # None)
      PROVE  Returned(outs)' = Returned(outs)
  BY <1>3, <1>5 DEF Returned, Admitted
<1>6. ASSUME outcome[r] = "none", outcome'[r] \in outs, lockOf'[r] # None
      PROVE  r \notin Returned(outs) /\ Returned(outs)' = Returned(outs) \union {r}
  BY <1>3, <1>6 DEF Returned, Admitted
<1> QED BY <1>2, <1>4, <1>5, <1>6

\* The requests let in, when r takes its step.
LEMMA AdmittedMoves ==
    ASSUME NEW r \in Req, Apart(r)
    PROVE  /\ lockOf' = lockOf => Admitted' = Admitted
           /\ lockOf[r] = None /\ lockOf'[r] # None
                 => r \notin Admitted /\ Admitted' = Admitted \union {r}
<1>1. \A s \in Req : s # r => lockOf'[s] = lockOf[s]
  BY DEF Apart
<1> QED BY <1>1 DEF Admitted

LEMMA AccountedBooked ==
    ASSUME TypeOK, Accounted, NEW r \in Req, Sound(r), Apart(r), Booked(r)
    PROVE  Accounted'
<1> DEFINE Good == Returned({"completed"})
           Bad  == Returned({"failed", "timeout"})
<1>1. /\ metrics.total \in Nat /\ metrics.successful \in Nat /\ metrics.failed \in Nat
      /\ metrics \in [total: Nat, successful: Nat, failed: Nat]
  BY DEF TypeOK
<1>2. /\ IsFiniteSet(Admitted) /\ metrics.total = Cardinality(Admitted)
      /\ metrics.successful = Cardinality(Good) /\ metrics.failed = Cardinality(Bad)
  BY DEF Accounted
<1>3. "none" \notin {"completed"} /\ "none" \notin {"failed", "timeout"}
  OBVIOUS
<1>4. /\ IsFiniteSet(Good) /\ IsFiniteSet(Bad)
      /\ outcome'[r] = outcome[r] /\ (lockOf'[r] # None <=> lockOf[r] # None)
            => Good' = Good /\ Bad' = Bad
  BY <1>2, <1>3, ReturnedMoves
<1>5. outcome[r] = "none" /\ ~(outcome'[r] = "completed" /\ lockOf'[r] # None) => Good' = Good
  BY <1>2, <1>3, ReturnedMoves
<1>6. outcome[r] = "none" /\ ~(outcome'[r] \in {"failed", "timeout"} /\ lockOf'[r] # None)
         => Bad' = Bad
  BY <1>2, <1>3, ReturnedMoves
<1>7. outcome[r] = "none" /\ outcome'[r] = "completed" /\ lockOf'[r] # None
         => Cardinality(Good') = Cardinality(Good) + 1
  <2>1. outcome[r] = "none" /\ outcome'[r] \in {"completed"} /\ lockOf'[r] # None
           => r \notin Good /\ Good' = Good \union {r}
    BY <1>2, <1>3, ReturnedMoves
  <2> HIDE DEF Good
  <2> QED BY <1>4, <2>1, OneMore
<1>8. outcome[r] = "none" /\ outcome'[r] \in {"failed", "timeout"} /\ lockOf'[r] # None
         => Cardinality(Bad') = Cardinality(Bad) + 1
  <2>1. outcome[r] = "none" /\ outcome'[r] \in {"failed", "timeout"} /\ lockOf'[r] # None
           => r \notin Bad /\ Bad' = Bad \union {r}
    BY <1>2, <1>3, ReturnedMoves
  <2> HIDE DEF Bad
  <2> QED BY <1>4, <2>1, OneMore
<1>9. /\ lockOf' = lockOf => Admitted' = Admitted
      /\ lockOf[r] = None /\ lockOf'[r] # None
            => IsFiniteSet(Admitted') /\ Cardinality(Admitted') = Cardinality(Admitted) + 1
  <2>1. /\ lockOf' = lockOf => Admitted' = Admitted
        /\ lockOf[r] = None /\ lockOf'[r] # None
              => r \notin Admitted /\ Admitted' = Admitted \union {r}
    BY AdmittedMoves
  <2> QED BY <1>2, <2>1, OneMore
<1> SUFFICES /\ IsFiniteSet(Admitted') /\ metrics'.total = Cardinality(Admitted')
             /\ metrics'.successful = Cardinality(Good')
             /\ metrics'.failed = Cardinality(Bad')
  BY DEF Accounted
<1> HIDE DEF Good, Bad
<1>10. CASE LetsIn(r)
  <2>1. IsFiniteSet(Admitted') /\ Cardinality(Admitted') = metrics.total + 1
    BY <1>2, <1>9, <1>10 DEF LetsIn
  <2>2. CASE metrics' = [metrics EXCEPT !.total = @ + 1] /\ outcome'[r] = "none"
    <3>1. Good' = Good /\ Bad' = Bad
      BY <1>5, <1>6, <1>10, <2>2 DEF LetsIn
    <3>2. /\ metrics'.total = metrics.total + 1 /\ metrics'.successful = metrics.successful
          /\ metrics'.failed = metrics.failed
      BY <1>1, <2>2
    <3> QED BY <1>2, <2>1, <3>1, <3>2
  <2>3. CASE metrics' = [metrics EXCEPT !.total = @ + 1, !.failed = @ + 1] /\ outcome'[r] = "failed"
    <3>1. Good' = Good /\ Cardinality(Bad') = metrics.failed + 1
      BY <1>2, <1>5, <1>8, <1>10, <2>3 DEF LetsIn
    <3>2. /\ metrics'.total = metrics.total + 1 /\ metrics'.successful = metrics.successful
          /\ metrics'.failed = metrics.failed + 1
      BY <1>1, <2>3
    <3> QED BY <1>2, <2>1, <3>1, <3>2
  <2> QED BY <1>10, <2>2, <2>3 DEF LetsIn
<1>11. CASE Returns(r)
  <2>1. IsFiniteSet(Admitted') /\ Cardinality(Admitted') = metrics.total
    BY <1>2, <1>9, <1>11 DEF Returns
  <2>2. outcome[r] = "none" /\ (outcome'[r] \in {"completed", "failed", "timeout"} => lockOf'[r] # None)
    BY <1>11 DEF Returns
  <2>3. CASE outcome'[r] = "completed"
    <3>1. Bad' = Bad /\ Cardinality(Good') = metrics.successful + 1
      BY <1>2, <1>6, <1>7, <2>2, <2>3
    <3>2. metrics' = [metrics EXCEPT !.successful = @ + 1]
      BY <1>11, <2>3 DEF Returns, Counted
    <3>3. /\ metrics'.total = metrics.total /\ metrics'.successful = metrics.successful + 1
          /\ metrics'.failed = metrics.failed
      BY <1>1, <3>2
    <3> QED BY <1>2, <2>1, <3>1, <3>3
  <2>4. CASE outcome'[r] \in {"failed", "timeout"}
    <3>1. Good' = Good /\ Cardinality(Bad') = metrics.failed + 1
      BY <1>2, <1>5, <1>8, <2>2, <2>4
    <3>2. metrics' = [metrics EXCEPT !.failed = @ + 1]
      BY <1>11, <2>4 DEF Returns, Counted
    <3>3. /\ metrics'.total = metrics.total /\ metrics'.successful = metrics.successful
          /\ metrics'.failed = metrics.failed + 1
      BY <1>1, <3>2
    <3> QED BY <1>2, <2>1, <3>1, <3>3
  <2>5. CASE outcome'[r] \notin {"completed", "failed", "timeout"}
    <3>1. Good' = Good /\ Bad' = Bad
      BY <1>5, <1>6, <2>2, <2>5
    <3>2. metrics' = metrics
      BY <1>11, <2>5 DEF Returns, Counted
    <3> QED BY <1>2, <2>1, <3>1, <3>2
  <2> QED BY <2>3, <2>4, <2>5
<1>12. CASE GoesOnly(r)
  <2>1. metrics' = metrics /\ Admitted' = Admitted /\ Good' = Good /\ Bad' = Bad
    BY <1>4, <1>9, <1>12 DEF GoesOnly
  <2> QED BY <1>2, <2>1
<1> QED BY <1>10, <1>11, <1>12 DEF Booked

\* Tables and counters in one invariant.
BooksKept == (\A c \in Conv : Listed(c)) /\ Accounted

LEMMA InitBooks == Init => BooksKept
<1> SUFFICES ASSUME Init PROVE BooksKept
  OBVIOUS
<1>1. \A c \in Conv : active[c] = None
  BY DEF Init
<1>2. \A c \in Conv : Listed(c)
  BY <1>1 DEF Listed
<1>3. Admitted = {}
  BY DEF Init, Admitted
<1>4. Returned({"completed"}) = {} /\ Returned({"failed", "timeout"}) = {}
  BY <1>3 DEF Returned
<1>5. metrics.total = 0 /\ metrics.successful = 0 /\ metrics.failed = 0
  BY DEF Init
<1>6. Accounted
  BY <1>3, <1>4, <1>5, FS_EmptySet DEF Accounted
<1> QED BY <1>2, <1>6 DEF BooksKept

LEMMA BooksStep == IInv /\ AllSound /\ BooksKept /\ [Next]_vars => BooksKept'
<1> SUFFICES ASSUME IInv, AllSound, BooksKept, [Next]_vars
             PROVE  BooksKept'
  OBVIOUS
<1>1. /\ TypeOK /\ \A r \in Req : Sound(r)
      /\ \A c \in Conv : Listed(c)
      /\ Accounted
  BY DEF IInv, AllSound, BooksKept
<1>2. CASE \E r \in Req : Calling(r) \/ Staging(r) \/ Timeout(r) \/ Cancelling(r) \/ Tasks(r)
  <2>1. PICK r \in Req : Calling(r) \/ Staging(r) \/ Timeout(r) \/ Cancelling(r) \/ Tasks(r)
    BY <1>2
  <2>2. Apart(r)
    BY <1>1, <2>1, CallingSound, StagingSound, StoppingSound, TasksSound
  <2>3. Booked(r)
    BY <1>1, <2>1, CallingBooked, StagingBooked, StoppingBooked, TasksBooked
  <2>4. \A c \in Conv : Listed(c)'
    BY <1>1, <2>2, <2>3, ListedBooked
  <2>5. Accounted'
    BY <1>1, <2>2, <2>3, AccountedBooked
  <2> QED BY <2>4, <2>5 DEF BooksKept
<1>3. CASE Managing
  <2>1. PICK C \in SUBSET Conv : StopAll(C)
    BY <1>3 DEF Managing, StopConversation, CleanupResources, ShutdownBegin, ShutdownEnd, Tracked
  <2>2. \A c \in Conv : Listed(c)'
    BY <1>1, <2>1, ListedStopped
  <2>3. metrics' = metrics /\ lockOf' = lockOf /\ outcome' = outcome
    BY <2>1 DEF StopAll
  <2>4. Accounted'
    BY <1>1, <2>3 DEF Accounted, Admitted, Returned
  <2> QED BY <2>2, <2>4 DEF BooksKept
<1>4. CASE UNCHANGED vars
  <2>1. UNCHANGED <<metrics, lockOf, outcome, active, pc, conv>>
    BY <1>4 DEF vars, sharedVars, lockVars
  <2> QED BY <1>1, <2>1 DEF BooksKept, Listed, Accounted, Admitted, Returned
<1> QED BY <1>2, <1>3, <1>4 DEF Next, Step

LEMMA AlwaysBooked == Spec => [](IInv /\ AllSound /\ BooksKept)
BY InitIInv, NextIInv, InitSound, SoundStep, InitBooks, BooksStep, PTL DEF Spec

\* What active_conversations lists under a conversation is a request of it still in flight,
\* whichever way requests return and whenever stop, cleanup and shutdown come.
THEOREM ActiveAlwaysInFlight == Spec => []ActiveInFlight
<1>1. IInv /\ AllSound /\ BooksKept => ActiveInFlight
  BY DEF BooksKept, Listed, ActiveInFlight, InFlight, Admitted
<1> QED BY <1>1, AlwaysBooked, PTL

\* The counters of get_metrics account for every request that was let in exactly once, for
\* any number of requests and every interleaving of them.
THEOREM MetricsAlwaysAccount == Spec => []MetricsAccount
<1>1. ASSUME TypeOK, AllSound
      PROVE  Admitted = InFlight \union Returned(Outcomes \ {"none", "raised"})
  <2>1. ASSUME NEW r \in Admitted, pc[r] = "done"
        PROVE  outcome[r] \in Outcomes \ {"none", "raised"}
    <3>1. r \in Req /\ lockOf[r] # None /\ Phased(r) /\ outcome[r] \in Outcomes
      BY <1>1, <2>1 DEF Admitted, AllSound, Sound, TypeOK
    <3> QED BY <2>1, <3>1 DEF Phased
  <2> QED BY <2>1 DEF InFlight, Returned
<1>2. IInv /\ AllSound /\ BooksKept => MetricsAccount
  BY <1>1 DEF IInv, BooksKept, Accounted, MetricsAccount
<1> QED BY <1>2, AlwaysBooked, PTL
=============================================================================

------------------------- MODULE TaskHandlers_proofs -------------------------
(***************************************************************************)
(* Theorems about the worker's handlers in one run, after those about the  *)
(* evaluation of an interview, InterviewEvaluation's, first for any number *)
(* of workers and then with what a single worker (Workers = {w}, the       *)
(* deployment's) adds: that a resume has its file and its analysis, for    *)
(* any number of workers, and that running work stays owed, with a single  *)
(* worker.  What the handlers have in common is in TaskStream_proofs.      *)
(***************************************************************************)
EXTENDS MCTaskHandlers, TaskStream_proofs

-----------------------------------------------------------------------------
(* The evaluation of an interview, with any number of workers              *)

\* A retry is only on its way for a message that may be retried, and
\* mark_completed only runs for a report or for a session that is gone.
AtWork(w) ==
  /\ worker[w].pc \in {"retry", "readd"} => worker[w].msg.retry < MaxRetries
  /\ worker[w].pc = "complete" =>
       status[Task(w)] \in {"DELETED", "EVALUATED"}

\* A deleted session has no evaluation status any more.
DeletedIsNone ==
  \A s \in Tasks : status[s] = "DELETED" => evalStatus[s] = None

\* A request past its first step is about a session that is not running.
CallsOK ==
  \A c \in Calls : call[c].pc # "idle" => call[c].session \in Tasks

SharedInv ==
  /\ TypeOK
  /\ \A w \in Workers : AtWork(w)
  /\ DeletedIsNone
  /\ CallsOK
  /\ CompletedHasReport

\* The shared invariant holds in the initial states.
LEMMA InitType == Init => SharedInv
<1> SUFFICES ASSUME Init PROVE SharedInv
  OBVIOUS
<1> USE DEF Init, StreamInit, IdleWorker, IdleCall
<1>1. StreamTypeOK
  BY DEF StreamTypeOK, WorkerSteps
<1>2. TypeOK
  BY <1>1, EvaluationAssumption DEF TypeOK
<1>3. \A w \in Workers : AtWork(w)
  BY DEF AtWork
<1>4. DeletedIsNone /\ CallsOK
  BY DEF DeletedIsNone, CallsOK
<1>5. CompletedHasReport
  BY EvaluationAssumption DEF CompletedHasReport
<1> QED
  BY <1>2, <1>3, <1>4, <1>5 DEF SharedInv

-----------------------------------------------------------------------------
\* Steps that leave the stream and its workers alone: what remains is to
\* look at the session's columns.
LEMMA ApiStep ==
  ASSUME SharedInv, NEW c \in Calls,
         Finish(c) \/ Regenerate(c) \/ Reset(c) \/ Enqueue(c)
  PROVE  SharedInv'
<1> USE DEF SharedInv
<1>1. CASE Finish(c)
  <2>1. PICK s \in Tasks :
          /\ status[s] = "IN_PROGRESS"
          /\ status' = [status EXCEPT ![s] = "COMPLETED"]
          /\ evalStatus' = [evalStatus EXCEPT ![s] = "PENDING"]
          /\ call' = [call EXCEPT ![c] = [pc |-> "enqueue", session |-> s]]
    BY <1>1 DEF Finish
  <2>2. UNCHANGED <<stream, old, requeue, faults>>
    BY <1>1 DEF Finish
  <2>3. TypeOK'
    BY <2>1, <2>2 DEF TypeOK, StreamTypeOK, stream, Closed
  <2>4. \A w \in Workers : AtWork(w)'
    BY <2>1, <2>2, TaskType DEF AtWork, TypeOK, stream, Task
  <2>5. DeletedIsNone' /\ CompletedHasReport'
    BY <2>1 DEF DeletedIsNone, CompletedHasReport, TypeOK
  <2>6. CallsOK'
    BY <2>1 DEF CallsOK, TypeOK
  <2> QED
    BY <2>3, <2>4, <2>5, <2>6
<1>2. CASE Regenerate(c)
  <2>1. PICK s \in Tasks : call' = [call EXCEPT ![c] = [pc |-> "reset", session |-> s]]
    BY <1>2 DEF Regenerate
  <2>2. UNCHANGED <<stream, session, requeue, faults>>
    BY <1>2 DEF Regenerate
  <2>3. TypeOK'
    BY <2>1, <2>2 DEF TypeOK, StreamTypeOK, stream, session
  <2>4. (\A w \in Workers : AtWork(w)') /\ DeletedIsNone' /\ CompletedHasReport'
    BY <2>2 DEF AtWork, stream, session, Task, DeletedIsNone, CompletedHasReport
  <2>5. CallsOK'
    BY <2>1 DEF CallsOK, TypeOK
  <2> QED
    BY <2>3, <2>4, <2>5
<1>3. CASE Reset(c)
  <2> DEFINE s == call[c].session
  <2>1. s \in Tasks
    BY <1>3 DEF Reset, CallsOK
  <2>2. TypeOK'
    BY <1>3, <2>1 DEF Reset, TypeOK, StreamTypeOK, stream, Updated
  <2>3. \A w \in Workers : AtWork(w)'
    BY <1>3 DEF Reset, AtWork, stream, Task
  <2>4. DeletedIsNone' /\ CompletedHasReport'
    BY <1>3, <2>1 DEF Reset, Updated, DeletedIsNone, CompletedHasReport, TypeOK
  <2>5. CallsOK'
    BY <1>3 DEF Reset, CallsOK, TypeOK
  <2> QED
    BY <2>2, <2>3, <2>4, <2>5
<1>4. CASE Enqueue(c)
  <2>1. call[c].session \in Tasks
    BY <1>4 DEF Enqueue, CallsOK
  <2>2. queue' \in Seq(Messages)
    <3>1. CASE Add(call[c].session, 0)
      BY <3>1, <2>1, AddType, StreamAssumption DEF TypeOK
    <3>2. CASE queue' = queue
      BY <3>2 DEF TypeOK, StreamTypeOK
    <3> QED
      BY <1>4, <3>1, <3>2 DEF Enqueue
  <2>3. faults' \in 0 .. MaxFaults
    BY <1>4, EvaluationAssumption DEF Enqueue, Fault, TypeOK
  <2>4. TypeOK'
    BY <1>4, <2>2, <2>3 DEF Enqueue, TypeOK, StreamTypeOK, session, IdleCall
  <2>5. (\A w \in Workers : AtWork(w)') /\ DeletedIsNone' /\ CompletedHasReport'
    BY <1>4 DEF Enqueue, AtWork, session, Task, DeletedIsNone, CompletedHasReport
  <2>6. CallsOK'
    BY <1>4 DEF Enqueue, CallsOK, TypeOK, IdleCall
  <2> QED
    BY <2>4, <2>5, <2>6
<1> QED
  BY <1>1, <1>2, <1>3, <1>4

\* A deletion, and a pending evaluation growing old, preserve it.
LEMMA SessionStep ==
  ASSUME SharedInv, NEW s \in Tasks, DeleteSession(s) \/ GrowsOld(s)
  PROVE  SharedInv'
<1> USE DEF SharedInv
<1>1. CASE DeleteSession(s)
  <2>1. TypeOK'
    BY <1>1 DEF DeleteSession, TypeOK, StreamTypeOK, stream
  <2>2. \A w \in Workers : AtWork(w)'
    BY <1>1, TaskType DEF DeleteSession, AtWork, TypeOK, stream, Task
  <2>3. DeletedIsNone' /\ CompletedHasReport'
    BY <1>1, EvaluationAssumption
       DEF DeleteSession, DeletedIsNone, CompletedHasReport, TypeOK
  <2>4. CallsOK'
    BY <1>1 DEF DeleteSession, CallsOK
  <2> QED
    BY <2>1, <2>2, <2>3, <2>4
<1>2. CASE GrowsOld(s)
  BY <1>2 DEF GrowsOld, TypeOK, StreamTypeOK, stream, AtWork, Task,
              DeletedIsNone, CallsOK, CompletedHasReport
<1> QED
  BY <1>1, <1>2

\* The recovery job preserves it.
LEMMA JobStep ==
  ASSUME SharedInv, Scan \/ Requeue \/ RequeueFails
  PROVE  SharedInv'
<1> USE DEF SharedInv
<1>1. UNCHANGED <<pel, idle, worker, session, call>>
  BY DEF Scan, Requeue, RequeueFails, stream
<1>2. queue' \in Seq(Messages)
  <2>1. CASE Requeue
    <3>1. PICK s \in requeue : Add(s, 0)
      BY <2>1 DEF Requeue
    <3> QED
      BY <3>1, AddType, StreamAssumption DEF TypeOK
  <2>2. CASE Scan \/ RequeueFails
    BY <2>2 DEF Scan, RequeueFails, stream, TypeOK, StreamTypeOK
  <2> QED
    BY <2>1, <2>2
<1>3. requeue' \subseteq Tasks /\ faults' \in 0 .. MaxFaults
  BY EvaluationAssumption
     DEF Scan, Requeue, RequeueFails, Fault, TypeOK
<1>4. TypeOK'
  BY <1>1, <1>2, <1>3 DEF TypeOK, StreamTypeOK, session
<1> QED
  BY <1>1, <1>4 DEF AtWork, Task, session, DeletedIsNone, CallsOK,
                    CompletedHasReport

\* An entry that grows idle preserves it.
LEMMA IdleStep ==
  ASSUME SharedInv, NEW m \in Messages, EntryGrowsIdle(m)
  PROVE  SharedInv'
BY DEF SharedInv, EntryGrowsIdle, GrowsIdle, TypeOK, StreamTypeOK, session,
       AtWork, Task, DeletedIsNone, CallsOK, CompletedHasReport

\* A step that changes nothing preserves it.
LEMMA StutterStep ==
  ASSUME SharedInv, UNCHANGED vars
  PROVE  SharedInv'
BY DEF SharedInv, vars, stream, session, TypeOK, StreamTypeOK, AtWork, Task,
       DeletedIsNone, CallsOK, CompletedHasReport

\* A step of worker w that leaves the session's columns alone, or sets them
\* for its task, keeps the other workers where they were.
LEMMA ConsumerStep ==
  ASSUME SharedInv, NEW w \in Workers,
         Consume(w) \/ Handled(w) \/ WorkerFault(w)
  PROVE  SharedInv'
<1> USE DEF SharedInv
<1>1. /\ UNCHANGED <<session, call, requeue>>
      /\ faults' \in 0 .. MaxFaults
  BY EvaluationAssumption
     DEF Consume, Handled, WorkerFault, CallFails, RetryFails, WorkerCrash,
         Fault, TypeOK
<1>2. StreamTypeOK
  BY DEF TypeOK
<1>3. /\ StreamTypeOK'
      /\ \A v \in Workers : AtWork(v)'
  <2>1. CASE Reclaim(w)
    <3>1. \A v \in Workers : worker'[v].pc = worker[v].pc /\ worker'[v].msg = worker[v].msg
      BY <2>1, <1>2 DEF Reclaim, StreamTypeOK
    <3> QED
      BY <3>1, <2>1, <1>1, <1>2, ReclaimType DEF AtWork, Task, session
  <2>2. CASE Read(w)
    <3>1. \A v \in Workers : worker'[v].pc = worker[v].pc /\ worker'[v].msg = worker[v].msg
      BY <2>2, <1>2 DEF Read, StreamTypeOK
    <3> QED
      BY <3>1, <2>2, <1>1, <1>2, ReadType DEF AtWork, Task, session
  <2>3. CASE Take(w)
    <3>1. \A v \in Workers : AtWork(v)'
      BY <2>3, <1>1, <1>2 DEF Take, AtWork, Task, StreamTypeOK, session
    <3> QED
      BY <3>1, <2>3, <1>2, TakeType
  <2>4. CASE Ack(w)
    <3>1. \A v \in Workers : AtWork(v)'
      BY <2>4, <1>1, <1>2 DEF Ack, AtWork, Task, StreamTypeOK, session
    <3> QED
      BY <3>1, <2>4, <1>2, AckType
  <2>5. CASE Failed(w)
    <3>1. \A v \in Workers : AtWork(v)'
      BY <2>5, <1>1, <1>2, StreamAssumption
         DEF Failed, AfterFailure, GoOn, AtWork, Task, StreamTypeOK, session
    <3>2. AfterFailure(worker[w].msg) \in WorkerSteps
      BY DEF AfterFailure, WorkerSteps
    <3>3. "failed" \in WorkerSteps \ {"poll"}
      BY DEF WorkerSteps
    <3> QED
      BY <3>1, <3>2, <3>3, <2>5, <1>2, GoOnType DEF Failed
  <2>6. CASE Readd(w, "readd")
    <3>1. \A v \in Workers : AtWork(v)'
      BY <2>6, <1>1, <1>2 DEF Readd, AtWork, Task, StreamTypeOK, session
    <3>2. worker[w].msg.retry < MaxRetries
      BY <2>6 DEF Readd, AtWork
    <3> QED
      BY <3>1, <3>2, <2>6, <1>2, ReaddType
  <2>7. CASE Raised(w)
    <3>1. \A v \in Workers : AtWork(v)'
      BY <2>7, <1>1, <1>2 DEF Raised, AtWork, Task, StreamTypeOK, session
    <3> QED
      BY <3>1, <2>7, <1>2, RaisedType
  <2>8. CASE Preserve(w, {"retry", "readd"})
    <3>1. \A v \in Workers : AtWork(v)'
      BY <2>8, <1>1, <1>2 DEF Preserve, AtWork, Task, StreamTypeOK, session
    <3> QED
      BY <3>1, <2>8, <1>2, PreserveType
  <2>9. CASE Crash(w)
    <3>1. \A v \in Workers : AtWork(v)'
      BY <2>9, <1>1, <1>2
         DEF Crash, IdleWorker, AtWork, Task, StreamTypeOK, session
    <3> QED
      BY <3>1, <2>9, <1>2, CrashType
  <2> QED
    BY <2>1, <2>2, <2>3, <2>4, <2>5, <2>6, <2>7, <2>8, <2>9
       DEF Consume, Handled, WorkerFault, CallFails, Fails, RetryFails,
           WorkerCrash
<1>4. TypeOK'
  BY <1>1, <1>3 DEF TypeOK, session
<1> QED
  BY <1>1, <1>3, <1>4 DEF session, DeletedIsNone, CallsOK, CompletedHasReport

\* The handler's calls: a move of the worker and a write of the row.
HandlerCall(w) ==
  \/ ShouldSkip(w) \/ MarkProcessing(w) \/ Evaluate(w) \/ SaveReport(w)
  \/ SaveRejected(w) \/ MarkCompleted(w) \/ Retry(w) \/ MarkFailed(w)

\* Each call of the handler preserves it.
LEMMA HandlerStep ==
  ASSUME SharedInv, NEW w \in Workers, HandlerCall(w)
  PROVE  SharedInv'
<1> USE DEF SharedInv
<1>1. /\ UNCHANGED <<queue, pel, idle, old, call, requeue, faults>>
      /\ \E from \in WorkerSteps \ {"poll"}, to \in WorkerSteps : GoOn(w, from, to)
  BY DEF HandlerCall, ShouldSkip, MarkProcessing, Evaluate, SaveReport,
         SaveRejected, MarkCompleted, Retry, MarkFailed, GoOn, session,
         WorkerSteps
<1>2. StreamTypeOK /\ StreamTypeOK' /\ Task(w) \in Tasks
  BY <1>1, GoOnType, TaskType DEF TypeOK, GoOn
<1>3. \A v \in Workers : worker'[v].msg = worker[v].msg
  BY <1>1, <1>2 DEF GoOn, StreamTypeOK
<1>4. \A v \in Workers \ {w} : worker'[v] = worker[v]
  BY <1>1, <1>2 DEF GoOn, StreamTypeOK
<1>5. \A v \in Workers : Task(v)' = Task(v)
  BY <1>3 DEF Task
<1>6. status' \in {status, [status EXCEPT ![Task(w)] = "EVALUATED"]}
  BY DEF HandlerCall, ShouldSkip, MarkProcessing, Evaluate, SaveReport,
         SaveRejected, MarkCompleted, Retry, MarkFailed, session
<1>7. \A v \in Workers \ {w} : AtWork(v)'
  BY <1>2, <1>4, <1>5, <1>6, TaskType DEF AtWork, TypeOK
<1> DEFINE RowOK ==
  /\ status' \in [Tasks -> {"IN_PROGRESS", "DELETED"} \cup Closed]
  /\ evalStatus' \in [Tasks -> {"PENDING", "PROCESSING", "COMPLETED", "FAILED", None}]
  /\ DeletedIsNone'
  /\ CompletedHasReport'
<1>8. AtWork(w)' /\ RowOK
  <2>1. CASE ShouldSkip(w)
    <3>1. RowOK
      BY <2>1 DEF ShouldSkip, session, TypeOK, DeletedIsNone, CompletedHasReport
    <3>2. AtWork(w)'
      BY <2>1, <1>2 DEF ShouldSkip, GoOn, AtWork, StreamTypeOK
    <3> QED
      BY <3>1, <3>2
  <2>2. CASE MarkProcessing(w)
    <3>1. RowOK
      BY <2>2, <1>2
         DEF MarkProcessing, Updated, TypeOK, DeletedIsNone, CompletedHasReport
    <3>2. AtWork(w)'
      BY <2>2, <1>2 DEF MarkProcessing, GoOn, AtWork, StreamTypeOK
    <3> QED
      BY <3>1, <3>2
  <2>3. CASE Evaluate(w)
    <3>1. RowOK
      BY <2>3 DEF Evaluate, session, TypeOK, DeletedIsNone, CompletedHasReport
    <3>2. AtWork(w)'
      BY <2>3, <1>2, <1>5 DEF Evaluate, GoOn, AtWork, StreamTypeOK, session
    <3> QED
      BY <3>1, <3>2
  <2>4. CASE SaveReport(w)
    <3>1. RowOK
      BY <2>4, <1>2
         DEF SaveReport, TypeOK, Closed, DeletedIsNone, CompletedHasReport
    <3>2. AtWork(w)'
      BY <2>4, <1>2, <1>5 DEF SaveReport, GoOn, AtWork, StreamTypeOK, TypeOK
    <3> QED
      BY <3>1, <3>2
  <2>5. CASE SaveRejected(w)
    <3>1. RowOK
      BY <2>5 DEF SaveRejected, session, TypeOK, DeletedIsNone, CompletedHasReport
    <3>2. AtWork(w)'
      BY <2>5, <1>2 DEF SaveRejected, GoOn, AtWork, StreamTypeOK
    <3> QED
      BY <3>1, <3>2
  <2>6. CASE MarkCompleted(w)
    <3>1. status[Task(w)] \in {"DELETED", "EVALUATED"}
      BY <2>6 DEF MarkCompleted, GoOn, AtWork
    <3>2. RowOK
      BY <2>6, <3>1, <1>2
         DEF MarkCompleted, Updated, TypeOK, DeletedIsNone, CompletedHasReport
    <3>3. AtWork(w)'
      BY <2>6, <1>2 DEF MarkCompleted, GoOn, AtWork, StreamTypeOK
    <3> QED
      BY <3>2, <3>3
  <2>7. CASE Retry(w)
    <3>1. RowOK
      BY <2>7, <1>2
         DEF Retry, Updated, TypeOK, DeletedIsNone, CompletedHasReport
    <3>2. AtWork(w)'
      BY <2>7, <1>2, <1>3 DEF Retry, GoOn, AtWork, StreamTypeOK
    <3> QED
      BY <3>1, <3>2
  <2>8. CASE MarkFailed(w)
    <3>1. RowOK
      BY <2>8, <1>2
         DEF MarkFailed, Updated, TypeOK, DeletedIsNone, CompletedHasReport
    <3>2. AtWork(w)'
      BY <2>8, <1>2 DEF MarkFailed, GoOn, AtWork, StreamTypeOK
    <3> QED
      BY <3>1, <3>2
  <2> QED
    BY <2>1, <2>2, <2>3, <2>4, <2>5, <2>6, <2>7, <2>8 DEF HandlerCall
<1>9. TypeOK'
  BY <1>1, <1>2, <1>8 DEF TypeOK
<1>10. CallsOK'
  BY <1>1 DEF CallsOK
<1> QED
  BY <1>7, <1>8, <1>9, <1>10

\* Every step preserves the shared invariant.
LEMMA SharedStep ==
  ASSUME SharedInv, [Next]_vars
  PROVE  SharedInv'
<1>1. CASE \E c \in Calls : Finish(c) \/ Regenerate(c) \/ CallStep(c)
  BY <1>1, ApiStep DEF CallStep
<1>2. CASE \E s \in Tasks : DeleteSession(s) \/ GrowsOld(s)
  BY <1>2, SessionStep
<1>3. CASE \E w \in Workers : WorkerStep(w) \/ WorkerFault(w)
  BY <1>3, ConsumerStep, HandlerStep DEF WorkerStep, HandlerCall
<1>4. CASE \E m \in Messages : EntryGrowsIdle(m)
  BY <1>4, IdleStep
<1>5. CASE Scan \/ Requeue \/ RequeueFails
  BY <1>5, JobStep
<1>6. CASE UNCHANGED vars
  BY <1>6, StutterStep
<1> QED
  BY <1>1, <1>2, <1>3, <1>4, <1>5, <1>6 DEF Next

\* The shared invariant holds in every reachable state, for any number of workers.
THEOREM SharedInvariant == Spec => []SharedInv
BY InitType, SharedStep, PTL DEF Spec

\* Every reachable state is well typed: messages carry a retry count within
\* MAX_RETRY_COUNT and what is idle is pending, for any number of workers.
THEOREM TypeCorrect == Spec => []TypeOK
<1>1. SharedInv => TypeOK
  BY DEF SharedInv
<1> QED
  BY <1>1, SharedInvariant, PTL

\* COMPLETED means a report, for any number of workers, duplicates and
\* faults (process, save_report, mark_completed).
THEOREM CompletedMeansReport == Spec => []CompletedHasReport
<1>1. SharedInv => CompletedHasReport
  BY DEF SharedInv
<1> QED
  BY <1>1, SharedInvariant, PTL

-----------------------------------------------------------------------------
(* The evaluation of an interview, with a single worker                    *)

\* Nobody else acknowledges what worker w holds, or writes the status of the
\* evaluation it is at.
Alone(w) ==
  /\ worker[w].hand \subseteq pel
  /\ worker[w].pc # "poll" => worker[w].msg \in pel \ worker[w].hand
  /\ worker[w].pc \in {"drop", "readd", "ack"} => evalStatus[Task(w)] # "PROCESSING"
  /\ worker[w].pc \in {"mark", "process", "save"} => evalStatus[Task(w)] # "COMPLETED"
  /\ \A s \in Tasks : evalStatus[s] = "PROCESSING" => \E m \in pel : m.task = s

\* The single worker's invariant holds in the initial states.
LEMMA InitAlone ==
  ASSUME NEW w \in Workers, Init
  PROVE  Alone(w)
BY EvaluationAssumption DEF Init, StreamInit, IdleWorker, Alone

\* Callers, the job and time at most reset a status.
LEMMA QuietStep ==
  ASSUME SharedInv, NEW w \in Workers, Alone(w),
         UNCHANGED <<pel, worker>>,
         \A s \in Tasks : evalStatus'[s] \in {evalStatus[s], "PENDING", None}
  PROVE  Alone(w)'
<1>1. worker[w].pc # "poll" => Task(w) \in Tasks
  BY TaskType DEF SharedInv, TypeOK
<1> QED
  BY <1>1, EvaluationAssumption DEF Alone, Task

\* Callers, scheduler and time leave the worker alone and at most reset or remove an
\* evaluation.
LEMMA OthersAreQuiet ==
  ASSUME SharedInv,
         \/ \E c \in Calls : Finish(c) \/ Regenerate(c) \/ CallStep(c)
         \/ \E s \in Tasks : DeleteSession(s) \/ GrowsOld(s)
         \/ \E m \in Messages : EntryGrowsIdle(m)
         \/ Scan \/ Requeue \/ RequeueFails
         \/ UNCHANGED vars
  PROVE  /\ UNCHANGED <<pel, worker>>
         /\ \A s \in Tasks : evalStatus'[s] \in {evalStatus[s], "PENDING", None}
<1> USE DEF SharedInv, TypeOK
<1>1. CASE \E c \in Calls : Finish(c) \/ Regenerate(c) \/ CallStep(c)
  BY <1>1 DEF Finish, Regenerate, CallStep, Reset, Enqueue, Updated, stream,
              session, CallsOK
<1>2. CASE \E s \in Tasks : DeleteSession(s) \/ GrowsOld(s)
  BY <1>2 DEF DeleteSession, GrowsOld, stream
<1>3. CASE \E m \in Messages : EntryGrowsIdle(m)
  BY <1>3 DEF EntryGrowsIdle, GrowsIdle, session
<1>4. CASE Scan \/ Requeue \/ RequeueFails
  BY <1>4 DEF Scan, Requeue, RequeueFails, stream, session
<1>5. CASE UNCHANGED vars
  BY <1>5 DEF vars, stream, session
<1> QED
  BY <1>1, <1>2, <1>3, <1>4, <1>5

\* The consumer's own steps preserve the single worker's invariant.
LEMMA ConsumerAlone ==
  ASSUME SharedInv, NEW w \in Workers, Alone(w),
         Consume(w) \/ Handled(w) \/ WorkerFault(w)
  PROVE  Alone(w)'
<1>1. evalStatus' = evalStatus
  BY DEF Consume, Handled, WorkerFault, CallFails, RetryFails, WorkerCrash, session
<1>2. StreamTypeOK /\ worker \in [Workers -> [pc: WorkerSteps,
                             msg: Messages \cup {NoMessage},
                             hand: SUBSET Messages]]
  BY DEF SharedInv, TypeOK, StreamTypeOK
<1>3. CASE Reclaim(w)
  <2>1. PICK batch \in SUBSET idle : worker' = [worker EXCEPT ![w].hand = batch]
    BY <1>3 DEF Reclaim
  <2>2. batch \subseteq pel /\ pel' = pel /\ worker[w].pc = "poll"
    BY <1>2, <1>3 DEF Reclaim, StreamTypeOK
  <2> QED
    BY <1>1, <1>2, <2>1, <2>2 DEF Alone
<1>4. CASE Read(w)
  <2>1. /\ worker'[w].pc = "poll"
        /\ worker'[w].hand \subseteq pel'
        /\ pel \subseteq pel'
    BY <1>2, <1>4 DEF Read, PendingWith
  <2> QED
    BY <1>1, <2>1 DEF Alone
<1>5. CASE Take(w)
  <2>1. PICK m \in worker[w].hand :
          worker' = [worker EXCEPT ![w] =
            [pc |-> "skip", msg |-> m, hand |-> worker[w].hand \ {m}]]
    BY <1>5 DEF Take
  <2>2. pel' = pel
    BY <1>5 DEF Take
  <2> QED
    BY <1>1, <1>2, <2>1, <2>2 DEF Alone
<1>6. CASE Ack(w)
  <2>1. /\ worker'[w].pc = "poll"
        /\ worker'[w].hand = worker[w].hand
        /\ pel' = pel \ {worker[w].msg}
        /\ evalStatus[Task(w)] # "PROCESSING"
        /\ worker[w].msg \notin worker[w].hand
    BY <1>2, <1>6 DEF Ack, Alone
  <2> QED
    BY <1>1, <2>1 DEF Alone, Task
<1>7. CASE Failed(w) \/ Raised(w)
  <2>1. /\ worker'[w].pc \in {"failed", "retry", "giveup"}
        /\ worker'[w].msg = worker[w].msg
        /\ worker'[w].hand = worker[w].hand
        /\ worker[w].pc # "poll"
        /\ pel' = pel
    BY <1>2, <1>7 DEF Failed, Raised, GoOn, AfterFailure, Guarded
  <2> QED
    BY <1>1, <2>1 DEF Alone
<1>8. CASE Readd(w, "readd")
  <2>1. /\ worker'[w].pc = "ack"
        /\ worker'[w].msg = worker[w].msg
        /\ worker'[w].hand = worker[w].hand
        /\ worker[w].pc = "readd"
        /\ pel' = pel
    BY <1>2, <1>8 DEF Readd
  <2> QED
    BY <1>1, <2>1 DEF Alone, Task
<1>9. CASE Preserve(w, {"retry", "readd"}) \/ Crash(w)
  <2>1. /\ worker'[w].pc = "poll"
        /\ worker'[w].hand \subseteq worker[w].hand
        /\ pel' = pel
    BY <1>2, <1>9 DEF Preserve, Crash, IdleWorker
  <2> QED
    BY <1>1, <2>1 DEF Alone
<1> QED
  BY <1>3, <1>4, <1>5, <1>6, <1>7, <1>8, <1>9
     DEF Consume, Handled, WorkerFault, CallFails, Fails, RetryFails, WorkerCrash

\* The handler's calls preserve it.
LEMMA HandlerAlone ==
  ASSUME SharedInv, NEW w \in Workers, Alone(w), HandlerCall(w)
  PROVE  Alone(w)'
<1>1. /\ UNCHANGED <<queue, pel, idle>>
      /\ \E from \in WorkerSteps \ {"poll"}, to \in WorkerSteps \ {"poll"} :
           GoOn(w, from, to)
  BY DEF HandlerCall, ShouldSkip, MarkProcessing, Evaluate, SaveReport,
         SaveRejected, MarkCompleted, Retry, MarkFailed, GoOn, WorkerSteps
<1>2. StreamTypeOK /\ Task(w) \in Tasks
  BY <1>1, TaskType DEF SharedInv, TypeOK, GoOn
<1>3. /\ worker'[w].msg = worker[w].msg
      /\ worker'[w].hand = worker[w].hand
      /\ Task(w)' = Task(w)
      /\ worker[w].pc # "poll"
  BY <1>1, <1>2 DEF GoOn, StreamTypeOK, Task
<1>4. worker[w].msg \in pel \ worker[w].hand
  BY <1>3 DEF Alone
<1>5. /\ evalStatus \in [Tasks -> {"PENDING", "PROCESSING", "COMPLETED", "FAILED", None}]
      /\ DeletedIsNone
  BY DEF SharedInv, TypeOK
<1>6. /\ worker'[w].pc \in {"drop", "readd", "ack"} => evalStatus'[Task(w)] # "PROCESSING"
      /\ worker'[w].pc \in {"mark", "process", "save"} => evalStatus'[Task(w)] # "COMPLETED"
      /\ \A s \in Tasks \ {Task(w)} : evalStatus'[s] = evalStatus[s]
  <2> USE EvaluationAssumption DEF GoOn, StreamTypeOK, Updated, DeletedIsNone
  <2>1. CASE ShouldSkip(w)
    BY <2>1, <1>2, <1>5 DEF ShouldSkip, Skips, session
  <2>2. CASE MarkProcessing(w)
    BY <2>2, <1>2, <1>5 DEF MarkProcessing
  <2>3. CASE Evaluate(w)
    BY <2>3, <1>2, <1>5 DEF Evaluate, session, Alone
  <2>4. CASE SaveReport(w)
    BY <2>4, <1>2, <1>5 DEF SaveReport
  <2>5. CASE SaveRejected(w)
    BY <2>5, <1>2, <1>5 DEF SaveRejected, session
  <2>6. CASE MarkCompleted(w)
    BY <2>6, <1>2, <1>5 DEF MarkCompleted
  <2>7. CASE Retry(w)
    BY <2>7, <1>2, <1>5 DEF Retry
  <2>8. CASE MarkFailed(w)
    BY <2>8, <1>2, <1>5 DEF MarkFailed
  <2> QED
    BY <2>1, <2>2, <2>3, <2>4, <2>5, <2>6, <2>7, <2>8 DEF HandlerCall
<1>7. \A s \in Tasks : evalStatus'[s] = "PROCESSING" => \E m \in pel : m.task = s
  <2>1. worker[w].msg.task = Task(w)
    BY DEF Task
  <2> QED
    BY <2>1, <1>4, <1>6 DEF Alone
<1> QED
  BY <1>1, <1>3, <1>4, <1>6, <1>7 DEF Alone

\* Every step preserves the single worker's invariant.
LEMMA AloneStep ==
  ASSUME NEW w, Workers = {w}, SharedInv, Alone(w), [Next]_vars
  PROVE  Alone(w)'
<1>1. CASE WorkerStep(w) \/ WorkerFault(w)
  BY <1>1, ConsumerAlone, HandlerAlone DEF WorkerStep, HandlerCall
<1>2. CASE ~(WorkerStep(w) \/ WorkerFault(w))
  BY <1>2, OthersAreQuiet, QuietStep DEF Next
<1> QED
  BY <1>1, <1>2

\* With a single worker its invariant holds in every reachable state.
THEOREM AloneInvariant ==
  ASSUME NEW w, Workers = {w}
  PROVE  Spec => []Alone(w)
<1>1. Init => Alone(w)
  BY InitAlone
<1>2. SharedInv /\ Alone(w) /\ [Next]_vars => Alone(w)'
  BY AloneStep
<1> QED
  BY <1>1, <1>2, SharedInvariant, PTL DEF Spec

\* With one worker, an evaluation shown as running is still owed by the
\* stream whatever crashed or was acknowledged (process_message,
\* pending_evaluations).
THEOREM InterruptedIsOwed ==
  ASSUME NEW w, Workers = {w}
  PROVE  Spec => []InterruptedWorkIsOwed
<1>1. Alone(w) => InterruptedWorkIsOwed
  BY DEF Alone, InterruptedWorkIsOwed, Owed, Entries
<1> QED
  BY <1>1, AloneInvariant, PTL

\* With one worker, no message starts a finished evaluation over
\* (should_skip, try_mark_processing).
THEOREM NotRedone ==
  ASSUME NEW w, Workers = {w}
  PROVE  Spec => []FinishedIsNotRedone
<1>1. Alone(w) => FinishedIsNotRedone
  BY DEF Alone, FinishedIsNotRedone, Task
<1> QED
  BY <1>1, AloneInvariant, PTL

-----------------------------------------------------------------------------
(* The steps of the stream as an instance sees them                        *)

\* The analysis' steps of the stream are those of TaskStream.
LEMMA ResumeStream ==
  /\ \A t, k : Resumes!Add(t, k) <=> Add(t, k)
  /\ \A w : Resumes!Task(w) = Task(w)
  /\ \A w : Resumes!Reclaim(w) <=> Reclaim(w)
  /\ \A w : Resumes!Read(w) <=> Read(w)
  /\ \A w : Resumes!Take(w) <=> Take(w)
  /\ \A w : Resumes!Ack(w) <=> Ack(w)
  /\ \A w, from, to : Resumes!GoOn(w, from, to) <=> GoOn(w, from, to)
  /\ \A w : Resumes!Raised(w) <=> Raised(w)
  /\ \A w : Resumes!Failed(w) <=> Failed(w)
  /\ \A w, from : Resumes!Readd(w, from) <=> Readd(w, from)
  /\ \A w, from : Resumes!Preserve(w, from) <=> Preserve(w, from)
  /\ \A w : Resumes!Crash(w) <=> Crash(w)
  /\ \A m : Resumes!GrowsIdle(m) <=> GrowsIdle(m)
  /\ Resumes!StreamInit <=> StreamInit
<1>1. \A t, k : Resumes!Add(t, k) <=> Add(t, k)
  BY DEF Resumes!Add, Add, Resumes!FreeIds, FreeIds, Resumes!InUse, InUse,
         Resumes!Entries, Entries, Resumes!Queued, Queued
<1>2. \A w : Resumes!Task(w) = Task(w)
  BY DEF Resumes!Task, Task
<1>3. \A w : Resumes!Reclaim(w) <=> Reclaim(w)
  BY Zenon DEF Resumes!Reclaim, Reclaim, Resumes!AtMost, AtMost, Resumes!Cardinality, Cardinality
<1>4. \A w : Resumes!Read(w) <=> Read(w)
  BY DEF Resumes!Read, Read, Resumes!AtMost, AtMost, Resumes!PendingWith, PendingWith
<1>5. \A w : Resumes!Take(w) <=> Take(w)
  BY DEF Resumes!Take, Take
<1>6. \A w : Resumes!Ack(w) <=> Ack(w)
  BY DEF Resumes!Ack, Ack, Resumes!NoMessage, NoMessage
<1>7. \A w, from, to : Resumes!GoOn(w, from, to) <=> GoOn(w, from, to)
  BY DEF Resumes!GoOn, GoOn
<1>8. \A w : Resumes!Raised(w) <=> Raised(w)
  BY DEF Resumes!Raised, Raised, Resumes!Guarded, Guarded
<1>9. \A w : Resumes!Failed(w) <=> Failed(w)
  BY <1>7 DEF Resumes!Failed, Failed, Resumes!AfterFailure, AfterFailure
<1>10. \A w, from : Resumes!Readd(w, from) <=> Readd(w, from)
  BY <1>1, <1>2 DEF Resumes!Readd, Readd
<1>11. \A w, from : Resumes!Preserve(w, from) <=> Preserve(w, from)
  BY DEF Resumes!Preserve, Preserve, Resumes!NoMessage, NoMessage
<1>12. \A w : Resumes!Crash(w) <=> Crash(w)
  BY DEF Resumes!Crash, Crash, Resumes!IdleWorker, IdleWorker, Resumes!NoMessage, NoMessage
<1>13. \A m : Resumes!GrowsIdle(m) <=> GrowsIdle(m)
  BY DEF Resumes!GrowsIdle, GrowsIdle
<1>14. Resumes!StreamInit <=> StreamInit
  BY DEF Resumes!StreamInit, StreamInit, Resumes!IdleWorker, IdleWorker, Resumes!NoMessage, NoMessage
<1> QED BY <1>1, <1>2, <1>3, <1>4, <1>5, <1>6, <1>7, <1>8, <1>9, <1>10, <1>11, <1>12,
           <1>13, <1>14

\* And so are the vectorization's.
LEMMA VectorStream ==
  /\ \A t, k : Vectors!Add(t, k) <=> Add(t, k)
  /\ \A w : Vectors!Task(w) = Task(w)
  /\ \A w : Vectors!Reclaim(w) <=> Reclaim(w)
  /\ \A w : Vectors!Read(w) <=> Read(w)
  /\ \A w : Vectors!Take(w) <=> Take(w)
  /\ \A w : Vectors!Ack(w) <=> Ack(w)
  /\ \A w, from, to : Vectors!GoOn(w, from, to) <=> GoOn(w, from, to)
  /\ \A w : Vectors!Raised(w) <=> Raised(w)
  /\ \A w : Vectors!Failed(w) <=> Failed(w)
  /\ \A w, from : Vectors!Readd(w, from) <=> Readd(w, from)
  /\ \A w, from : Vectors!Preserve(w, from) <=> Preserve(w, from)
  /\ \A w : Vectors!Crash(w) <=> Crash(w)
  /\ \A m : Vectors!GrowsIdle(m) <=> GrowsIdle(m)
  /\ Vectors!StreamInit <=> StreamInit
<1>1. \A t, k : Vectors!Add(t, k) <=> Add(t, k)
  BY DEF Vectors!Add, Add, Vectors!FreeIds, FreeIds, Vectors!InUse, InUse,
         Vectors!Entries, Entries, Vectors!Queued, Queued
<1>2. \A w : Vectors!Task(w) = Task(w)
  BY DEF Vectors!Task, Task
<1>3. \A w : Vectors!Reclaim(w) <=> Reclaim(w)
  BY Zenon DEF Vectors!Reclaim, Reclaim, Vectors!AtMost, AtMost, Vectors!Cardinality, Cardinality
<1>4. \A w : Vectors!Read(w) <=> Read(w)
  BY DEF Vectors!Read, Read, Vectors!AtMost, AtMost, Vectors!PendingWith, PendingWith
<1>5. \A w : Vectors!Take(w) <=> Take(w)
  BY DEF Vectors!Take, Take
<1>6. \A w : Vectors!Ack(w) <=> Ack(w)
  BY DEF Vectors!Ack, Ack, Vectors!NoMessage, NoMessage
<1>7. \A w, from, to : Vectors!GoOn(w, from, to) <=> GoOn(w, from, to)
  BY DEF Vectors!GoOn, GoOn
<1>8. \A w : Vectors!Raised(w) <=> Raised(w)
  BY DEF Vectors!Raised, Raised, Vectors!Guarded, Guarded
<1>9. \A w : Vectors!Failed(w) <=> Failed(w)
  BY <1>7 DEF Vectors!Failed, Failed, Vectors!AfterFailure, AfterFailure
<1>10. \A w, from : Vectors!Readd(w, from) <=> Readd(w, from)
  BY <1>1, <1>2 DEF Vectors!Readd, Readd
<1>11. \A w, from : Vectors!Preserve(w, from) <=> Preserve(w, from)
  BY DEF Vectors!Preserve, Preserve, Vectors!NoMessage, NoMessage
<1>12. \A w : Vectors!Crash(w) <=> Crash(w)
  BY DEF Vectors!Crash, Crash, Vectors!IdleWorker, IdleWorker, Vectors!NoMessage, NoMessage
<1>13. \A m : Vectors!GrowsIdle(m) <=> GrowsIdle(m)
  BY DEF Vectors!GrowsIdle, GrowsIdle
<1>14. Vectors!StreamInit <=> StreamInit
  BY DEF Vectors!StreamInit, StreamInit, Vectors!IdleWorker, IdleWorker, Vectors!NoMessage, NoMessage
<1> QED BY <1>1, <1>2, <1>3, <1>4, <1>5, <1>6, <1>7, <1>8, <1>9, <1>10, <1>11, <1>12,
           <1>13, <1>14

-----------------------------------------------------------------------------
(* The rows and files of resumes, for any number of workers                *)

AnalyzeStatuses == {"NEW", "PENDING", "PROCESSING", "COMPLETED", "FAILED", "DELETED"}
ResumeCalls     == {"idle", "store", "insert", "discard", "enqueue", "unqueued",
                    "erase", "remove"}

ResumeTypes ==
  /\ StreamInv
  /\ analyzeStatus \in [Tasks -> AnalyzeStatuses]
  /\ storageKey \in [Tasks -> Keys \cup {None}]
  /\ call \in [Calls -> [pc: ResumeCalls, row: Tasks \cup {None}, key: Keys \cup {None}]]

\* A request past its insert, and a message, are about a row that was
\* inserted.
RowsKnown ==
  /\ \A t \in Carried : analyzeStatus[t] # "NEW"
  /\ \A c \in Calls : call[c].pc \in {"enqueue", "unqueued", "erase", "remove"} =>
       call[c].row \in Tasks /\ analyzeStatus[call[c].row] # "NEW"

\* mark_completed runs for an analysis that was stored or for a row that is
\* gone.
AnalysesKept ==
  \A w \in Workers : worker[w].pc = "complete" =>
    Task(w) \in analyzed \/ analyzeStatus[Task(w)] = "DELETED"

Uploading(c) == call[c].pc \in {"store", "insert", "discard"}

\* An upload's key is its own, a row's key is no other row's, and what a
\* deletion erases is the file of its row and of no other.
KeysKept ==
  /\ \A c \in Calls : Uploading(c) =>
       /\ call[c].key \in Keys
       /\ \A r \in Tasks : storageKey[r] # call[c].key
       /\ \A d \in Calls \ {c} : call[d].key # call[c].key
  /\ \A c \in Calls : call[c].pc = "insert" => call[c].key \in objects
  /\ \A c \in Calls : call[c].pc = "erase" =>
       /\ call[c].key \in Keys
       /\ \A r \in Tasks : storageKey[r] = call[c].key => r = call[c].row
  /\ \A r \in Tasks : Resumes!Exists(r) => storageKey[r] \in Keys
  /\ \A r, s \in Tasks : storageKey[r] = storageKey[s] => r = s \/ storageKey[r] = None

ResumeInv ==
  /\ ResumeTypes /\ RowsKnown /\ AnalysesKept /\ KeysKept
  /\ Resumes!CompletedHasAnalysis /\ Resumes!RowsHaveFiles

\* Which rows there are does not change.
SameRows ==
  \A r \in Tasks :
    /\ analyzeStatus'[r] = "NEW" <=> analyzeStatus[r] = "NEW"
    /\ analyzeStatus'[r] = "DELETED" <=> analyzeStatus[r] = "DELETED"

\* An update writes the status of a row there is, and no other.
LEMMA UpdatedRows ==
  ASSUME ResumeTypes, NEW r, NEW v \in {"PROCESSING", "COMPLETED", "FAILED"},
         analyzeStatus' = Resumes!Updated(r, v)
  PROVE  /\ analyzeStatus' \in [Tasks -> AnalyzeStatuses]
         /\ SameRows
         /\ \A s \in Tasks : analyzeStatus'[s] \in {analyzeStatus[s], v}
         /\ v # "COMPLETED" => \A s \in Tasks : analyzeStatus'[s] = "COMPLETED" => analyzeStatus[s] = "COMPLETED"
         /\ \A s \in Tasks : s # r => analyzeStatus'[s] = analyzeStatus[s]
         /\ r \in Tasks => analyzeStatus'[r] = "DELETED" \/ analyzeStatus'[r] = "NEW" \/ analyzeStatus'[r] = v
BY DEF ResumeTypes, AnalyzeStatuses, Resumes!Updated, Resumes!Exists, SameRows

\* What a message a worker is at is about.
LEMMA TaskIsCarried ==
  ASSUME ResumeTypes, NEW w \in Workers, worker[w].pc # "poll"
  PROVE  Task(w) \in Tasks /\ Task(w) \in Carried
BY TaskType DEF ResumeTypes, StreamInv, Carried

\* The worker's steps, by what they do to the stream: the consumer's own,
\* the handler's calls, and the retry's XADD.
LEMMA ResumeWorkerStream ==
  ASSUME ResumeTypes, NEW w \in Workers, Resumes!WorkerStep(w) \/ Resumes!WorkerFault(w)
  PROVE  StreamInv' /\ Carried' \subseteq Carried
<1> USE DEF ResumeTypes
<1>1. ASSUME NEW from \in WorkerSteps \ {"poll"}, NEW to \in WorkerSteps \ {"retry", "readd"},
             GoOn(w, from, to)
      PROVE  StreamInv' /\ Carried' \subseteq Carried
  BY <1>1, StreamGoesOn, WorkerMovesCarry DEF StreamInv, WorkerMoves
<1>2. ASSUME WorkerMoves(w), StreamInv' PROVE StreamInv' /\ Carried' \subseteq Carried
  BY <1>2, WorkerMovesCarry DEF StreamInv
<1>3. CASE Resumes!Consume(w)
  <2>1. Reclaim(w) \/ Read(w) \/ Take(w) \/ Ack(w)
    BY <1>3, ResumeStream DEF Resumes!Consume
  <2> QED BY <1>2, <2>1, StreamConsumes DEF WorkerMoves
<1>4. CASE Resumes!ShouldSkip(w) \/ Resumes!MarkProcessing(w) \/ Resumes!Analyze(w)
             \/ Resumes!SaveAnalysis(w) \/ Resumes!MarkCompleted(w) \/ Resumes!MarkFailed(w)
  <2>1. \E from \in WorkerSteps \ {"poll"}, to \in WorkerSteps \ {"retry", "readd"} :
          GoOn(w, from, to)
    BY <1>4, ResumeStream DEF Resumes!ShouldSkip, Resumes!MarkProcessing, Resumes!Analyze,
       Resumes!SaveAnalysis, Resumes!MarkCompleted, Resumes!MarkFailed, WorkerSteps
  <2> QED BY <1>1, <2>1
<1>5. CASE Failed(w) \/ Raised(w)
  BY <1>2, <1>5, StreamFails DEF WorkerMoves
<1>6. ASSUME NEW to \in {"ack", "unqueued"}, worker[w].pc = "retry",
             Add(Task(w), worker[w].msg.retry + 1),
             worker' = [worker EXCEPT ![w].pc = to], UNCHANGED <<pel, idle>>
      PROVE  StreamInv' /\ Carried' \subseteq Carried
  <2>1. StreamInv'
    BY <1>6, StreamRetries
  <2>2. Task(w) \in Carried
    BY <1>6, TaskIsCarried
  <2>3. \A v \in Workers : /\ worker'[v].msg = worker[v].msg /\ worker'[v].hand = worker[v].hand
                           /\ worker'[v].pc # "poll" => worker[v].pc # "poll"
    BY <1>6 DEF StreamInv, StreamTypeOK
  <2>4. Carried' \subseteq Carried \cup {Task(w)}
    BY <1>6, <2>3, AddCarries DEF StreamInv
  <2> QED BY <2>1, <2>2, <2>4
<1>7. CASE Resumes!Handled(w)
  <2>1. CASE Readd(w, "retry")
    BY <1>6, <2>1 DEF Readd
  <2> QED BY <1>5, <1>7, <2>1, ResumeStream DEF Resumes!Handled
<1>8. CASE Resumes!CallFails(w)
  BY <1>5, <1>8, ResumeStream DEF Resumes!CallFails, Resumes!Fails
<1>9. CASE Resumes!RetryFails(w)
  <2>1. CASE GoOn(w, "retry", "unqueued")
    BY <1>1, <2>1 DEF WorkerSteps
  <2>2. CASE ~GoOn(w, "retry", "unqueued")
    BY <1>6, <1>9, <2>2, ResumeStream DEF Resumes!RetryFails
  <2> QED BY <2>1, <2>2
<1>10. CASE Resumes!MarkRetryFails(w)
  <2>1. Preserve(w, {"unqueued"})
    BY <1>10, ResumeStream DEF Resumes!MarkRetryFails
  <2>2. {"unqueued"} \in SUBSET WorkerSteps
    BY DEF WorkerSteps
  <2> QED BY <1>2, <2>1, <2>2, StreamLets DEF WorkerMoves
<1>11. CASE Resumes!WorkerCrash(w)
  <2>1. Crash(w)
    BY <1>11, ResumeStream DEF Resumes!WorkerCrash
  <2> QED BY <1>2, <2>1, StreamLets DEF WorkerMoves
<1> QED BY <1>3, <1>4, <1>7, <1>8, <1>9, <1>10, <1>11
        DEF Resumes!WorkerStep, Resumes!WorkerFault

\* The worker's steps, by what they do to the rows: at most the status of a
\* row there is, and the analysis before COMPLETED.
LEMMA ResumeWorkerRows ==
  ASSUME ResumeInv, NEW w \in Workers, Resumes!WorkerStep(w) \/ Resumes!WorkerFault(w)
  PROVE  /\ UNCHANGED <<storageKey, objects, call, halfDeleted>>
         /\ analyzeStatus' \in [Tasks -> AnalyzeStatuses]
         /\ SameRows
         /\ AnalysesKept'
         /\ Resumes!CompletedHasAnalysis'
<1> USE DEF ResumeInv
<1>1. /\ UNCHANGED <<storageKey, objects, call, halfDeleted>>
      /\ analyzed \subseteq analyzed'
  BY DEF Resumes!WorkerStep, Resumes!WorkerFault, Resumes!Consume, Resumes!ShouldSkip,
     Resumes!MarkProcessing, Resumes!Analyze, Resumes!SaveAnalysis, Resumes!MarkCompleted,
     Resumes!Handled, Resumes!MarkFailed, Resumes!CallFails, Resumes!RetryFails,
     Resumes!MarkRetryFails, Resumes!WorkerCrash, Resumes!resume
<1>2. worker \in [Workers -> [pc: WorkerSteps, msg: Messages \cup {NoMessage},
                              hand: SUBSET Messages]]
  BY DEF ResumeTypes, StreamInv, StreamTypeOK
<1>3. analyzeStatus \in [Tasks -> AnalyzeStatuses]
  BY DEF ResumeTypes
<1> DEFINE Same == analyzeStatus' = analyzeStatus
           Sets(v) == analyzeStatus' = Resumes!Updated(Task(w), v)
           Writes == \/ Same
                     \/ Sets("PROCESSING") \/ Sets("FAILED")
                     \/ Sets("COMPLETED") /\ worker[w].pc = "complete"
           Moved(to) == worker[w].pc # "poll" /\ worker' = [worker EXCEPT ![w].pc = to]
           Goal == /\ analyzeStatus' \in [Tasks -> AnalyzeStatuses]
                   /\ SameRows
                   /\ AnalysesKept'
                   /\ Resumes!CompletedHasAnalysis'
\* It is enough to look at the worker that moves.
<1>4. ASSUME Writes,
             \A v \in Workers \ {w} : worker'[v] = worker[v],
             worker'[w].pc = "complete" =>
               /\ worker[w].pc # "poll" /\ worker'[w].msg = worker[w].msg
               /\ Task(w) \in analyzed' \/ analyzeStatus[Task(w)] = "DELETED"
      PROVE  Goal
  <2>1. analyzeStatus' \in [Tasks -> AnalyzeStatuses] /\ SameRows
    <3>1. CASE Same BY <1>3, <3>1 DEF SameRows
    <3> QED BY <1>4, <3>1, UpdatedRows
  <2>2. ASSUME NEW v \in Workers, worker'[v].pc = "complete"
        PROVE  Task(v)' \in analyzed' \/ analyzeStatus'[Task(v)'] = "DELETED"
    <3>1. Task(v)' = Task(v) /\ worker[v].pc # "poll"
      BY <1>4, <2>2 DEF Task
    <3>2. Task(v) \in Tasks
      BY <3>1, TaskIsCarried
    <3>3. Task(v) \in analyzed' \/ analyzeStatus[Task(v)] = "DELETED"
      BY <1>1, <1>4, <2>2 DEF AnalysesKept
    <3> QED BY <2>1, <3>1, <3>2, <3>3 DEF SameRows
  <2>3. ASSUME NEW r \in Tasks, analyzeStatus'[r] = "COMPLETED" PROVE r \in analyzed'
    <3>1. CASE analyzeStatus[r] = "COMPLETED"
      BY <1>1, <3>1 DEF Resumes!CompletedHasAnalysis
    <3>2. CASE analyzeStatus[r] # "COMPLETED"
      <4>1. Sets("COMPLETED") /\ worker[w].pc = "complete"
        BY <1>4, <2>3, <3>2, UpdatedRows
      <4>2. r = Task(w) /\ analyzeStatus[r] # "DELETED"
        BY <2>1, <2>3, <3>2, <4>1, UpdatedRows DEF SameRows
      <4> QED BY <1>1, <4>1, <4>2 DEF AnalysesKept
    <3> QED BY <3>1, <3>2
  <2> QED BY <2>1, <2>2, <2>3 DEF AnalysesKept, Resumes!CompletedHasAnalysis
<1> HIDE DEF Writes, Goal
<1>16. ASSUME Writes, NEW to, Moved(to),
              to = "complete" => Task(w) \in analyzed' \/ analyzeStatus[Task(w)] = "DELETED"
       PROVE  Goal
  BY <1>2, <1>4, <1>16
<1>17. /\ Same => Writes
       /\ Sets("PROCESSING") => Writes
       /\ Sets("FAILED") => Writes
       /\ Sets("COMPLETED") /\ worker[w].pc = "complete" => Writes
  BY DEF Writes
<1> HIDE DEF Moved, Sets
<1> SUFFICES Goal
  BY <1>1 DEF Goal
<1>5. CASE Resumes!Consume(w)
  <2>1. Reclaim(w) \/ Read(w) \/ Take(w) \/ Ack(w)
    BY <1>5, ResumeStream DEF Resumes!Consume
  <2>2. /\ \A v \in Workers \ {w} : worker'[v] = worker[v]
        /\ worker'[w].pc # "complete"
    BY <1>2, <2>1 DEF Reclaim, Read, Take, Ack
  <2> QED BY <1>4, <1>5, <1>17, <2>2 DEF Resumes!Consume, Resumes!resume
<1>6. CASE Resumes!ShouldSkip(w)
  <2>1. Same /\ \E to \in {"drop", "mark"} : Moved(to)
    BY <1>6, ResumeStream DEF Moved, Sets, Resumes!ShouldSkip, GoOn, Resumes!resume
  <2> QED BY <1>16, <1>17, <2>1
<1>7. CASE Resumes!MarkProcessing(w)
  <2>1. Sets("PROCESSING") /\ \E to \in {"process", "drop"} : Moved(to)
    BY <1>7, ResumeStream DEF Moved, Sets, Resumes!MarkProcessing, GoOn
  <2> QED BY <1>16, <1>17, <2>1
<1>8. CASE Resumes!Analyze(w)
  <2>1. /\ Same
        /\ \/ Moved("save")
           \/ Moved("complete") /\ ~Resumes!Exists(Task(w))
    BY <1>8, ResumeStream DEF Moved, Sets, Resumes!Analyze, GoOn, Resumes!resume
  <2>2. Task(w) \in Tasks /\ analyzeStatus[Task(w)] # "NEW"
    BY <2>1, TaskIsCarried DEF Moved, RowsKnown
  <2> QED BY <1>16, <1>17, <2>1, <2>2 DEF Resumes!Exists
<1>9. CASE Resumes!SaveAnalysis(w)
  <2>1. Same /\ Moved("complete") /\ (Resumes!Exists(Task(w)) => Task(w) \in analyzed')
    BY <1>9, ResumeStream DEF Moved, Sets, Resumes!SaveAnalysis, GoOn
  <2>2. Task(w) \in Tasks /\ analyzeStatus[Task(w)] # "NEW"
    BY <2>1, TaskIsCarried DEF Moved, RowsKnown
  <2> QED BY <1>16, <1>17, <2>1, <2>2 DEF Resumes!Exists
<1>10. CASE Resumes!MarkCompleted(w)
  <2>1. Sets("COMPLETED") /\ worker[w].pc = "complete" /\ Moved("ack")
    BY <1>10, ResumeStream DEF Moved, Sets, Resumes!MarkCompleted, GoOn
  <2> QED BY <1>16, <1>17, <2>1
<1>11. CASE Resumes!Handled(w)
  <2>1. Same /\ \E to \in {"retry", "giveup", "ack"} : Moved(to)
    BY <1>11, ResumeStream
       DEF Moved, Sets, Resumes!Handled, Failed, AfterFailure, Readd, GoOn, Resumes!resume
  <2> QED BY <1>16, <1>17, <2>1
<1>12. CASE Resumes!MarkFailed(w)
  <2>1. Sets("FAILED") /\ Moved("ack")
    BY <1>12, ResumeStream DEF Moved, Sets, Resumes!MarkFailed, GoOn
  <2> QED BY <1>16, <1>17, <2>1
<1>13. CASE Resumes!CallFails(w)
  <2>1. Same /\ Moved("failed")
    BY <1>13, ResumeStream
       DEF Moved, Sets, Resumes!CallFails, Resumes!Fails, Raised, Guarded, Resumes!resume
  <2> QED BY <1>16, <1>17, <2>1
<1>14. CASE Resumes!RetryFails(w)
  <2>1. Same /\ Moved("unqueued")
    BY <1>14, ResumeStream DEF Moved, Sets, Resumes!RetryFails, GoOn, Resumes!resume
  <2> QED BY <1>16, <1>17, <2>1
<1>15. CASE Resumes!MarkRetryFails(w) \/ Resumes!WorkerCrash(w)
  <2>1. Preserve(w, {"unqueued"}) \/ Crash(w)
    BY <1>15, ResumeStream DEF Moved, Sets, Resumes!MarkRetryFails, Resumes!WorkerCrash
  <2>2. /\ \A v \in Workers \ {w} : worker'[v] = worker[v]
        /\ worker'[w].pc = "poll"
    BY <1>2, <2>1 DEF Preserve, Crash, IdleWorker
  <2> QED BY <1>4, <1>15, <1>17, <2>2
          DEF Resumes!MarkRetryFails, Resumes!WorkerCrash, Resumes!resume
<1> QED BY <1>1, <1>5, <1>6, <1>7, <1>8, <1>9, <1>10, <1>11, <1>12, <1>13, <1>14, <1>15
        DEF Resumes!WorkerStep, Resumes!WorkerFault

\* The stream carries tasks.
LEMMA CarriedTasks ==
  ASSUME ResumeTypes
  PROVE  \A t \in Carried : t \in Tasks
<1>1. Entries \cup UNION {worker[w].hand : w \in Workers} \subseteq Messages
  BY DEF ResumeTypes, StreamInv, StreamTypeOK, Entries, Queued
<1>2. \A v \in Workers : worker[v].pc # "poll" => Task(v) \in Tasks
  BY TaskType DEF ResumeTypes, StreamInv
<1> QED BY <1>1, <1>2 DEF Carried, Messages

\* So the worker's steps preserve the invariant.
LEMMA ResumeWorkerStep ==
  ASSUME ResumeInv, NEW w \in Workers, Resumes!WorkerStep(w) \/ Resumes!WorkerFault(w)
  PROVE  ResumeInv'
<1>1. StreamInv' /\ Carried' \subseteq Carried
  BY ResumeWorkerStream DEF ResumeInv
<1>2. /\ UNCHANGED <<storageKey, objects, call, halfDeleted>>
      /\ analyzeStatus' \in [Tasks -> AnalyzeStatuses]
      /\ SameRows
      /\ AnalysesKept'
      /\ Resumes!CompletedHasAnalysis'
  BY ResumeWorkerRows
<1>3. ResumeTypes'
  BY <1>1, <1>2 DEF ResumeInv, ResumeTypes
<1>4. \A t \in Carried : t \in Tasks
  BY CarriedTasks DEF ResumeInv
<1>5. RowsKnown'
  BY <1>1, <1>2, <1>4 DEF ResumeInv, RowsKnown, SameRows
<1>6. KeysKept'
  BY <1>2 DEF ResumeInv, KeysKept, Uploading, Resumes!Exists, SameRows
<1>7. Resumes!RowsHaveFiles'
  BY <1>2 DEF ResumeInv, Resumes!RowsHaveFiles, Resumes!Exists, SameRows
<1> QED BY <1>2, <1>3, <1>5, <1>6, <1>7 DEF ResumeInv

\* The API's steps, by what they do to the stream: at most an XADD for the
\* request's row.
LEMMA ResumeApiStream ==
  ASSUME ResumeInv, NEW c \in Calls,
         Resumes!Upload(c) \/ Resumes!Reanalyze(c) \/ Resumes!Delete(c) \/ Resumes!CallStep(c)
  PROVE  /\ UNCHANGED <<pel, idle, worker>>
         /\ StreamInv'
         /\ \A t \in Carried' : t \in Carried \/ (t = call[c].row /\ analyzeStatus' = analyzeStatus
                                                   /\ call[c].pc = "enqueue")
<1> USE DEF ResumeInv, ResumeTypes
<1>1. /\ UNCHANGED <<pel, idle, worker>>
      /\ \/ UNCHANGED queue
         \/ /\ Add(call[c].row, 0) /\ analyzeStatus' = analyzeStatus
            /\ call[c].pc = "enqueue"
  BY ResumeStream
     DEF Resumes!Upload, Resumes!Reanalyze, Resumes!Delete, Resumes!CallStep, Resumes!Store,
         Resumes!Insert, Resumes!InsertFails, Resumes!Discard, Resumes!Enqueue,
         Resumes!EnqueueFails, Resumes!MarkUnqueued, Resumes!Erase, Resumes!Remove,
         Resumes!RemoveFails, Resumes!stream, Resumes!resume
<1>2. CASE UNCHANGED queue
  <2>1. Carried' = Carried
    BY <1>1, <1>2 DEF Carried, Entries, Queued, Task
  <2> QED BY <1>1, <1>2, <2>1, StreamStays DEF stream
<1>3. CASE Add(call[c].row, 0) /\ analyzeStatus' = analyzeStatus /\ call[c].pc = "enqueue"
  <2>1. call[c].row \in Tasks
    BY <1>3 DEF RowsKnown
  <2>2. StreamInv'
    BY <1>1, <1>3, <2>1, StreamAdds
  <2>3. Carried' \subseteq Carried \cup {call[c].row}
    BY <1>1, <1>3, AddCarries DEF StreamInv
  <2> QED BY <1>1, <1>3, <2>2, <2>3
<1> QED BY <1>1, <1>2, <1>3

\* They at most ask for an analysis again, give one up, or delete it with
\* its row.
LEMMA ResumeApiAnalyses ==
  ASSUME ResumeInv, NEW c \in Calls, UNCHANGED worker,
         \A r \in Tasks :
           /\ analyzeStatus'[r] \in {analyzeStatus[r], "PENDING", "FAILED", "DELETED"}
           /\ analyzeStatus[r] = "DELETED" => analyzeStatus'[r] = "DELETED"
           /\ r \in analyzed => r \in analyzed' \/ analyzeStatus'[r] = "DELETED"
  PROVE  AnalysesKept' /\ Resumes!CompletedHasAnalysis'
<1>1. \A v \in Workers : worker[v].pc = "complete" => Task(v) \in Tasks
  BY TaskIsCarried DEF ResumeInv
<1>2. AnalysesKept'
  BY <1>1 DEF ResumeInv, AnalysesKept, Task
<1>3. Resumes!CompletedHasAnalysis'
  BY DEF ResumeInv, Resumes!CompletedHasAnalysis
<1> QED BY <1>2, <1>3

\* A request is a record of its step, its row and its object's key.
LEMMA InsertedCall ==
  ASSUME ResumeTypes, NEW c \in Calls, NEW r,
         call' = [call EXCEPT ![c].pc = "enqueue", ![c].row = r]
  PROVE  call' = [call EXCEPT ![c] = [pc |-> "enqueue", row |-> r, key |-> call[c].key]]
<1>1. call[c] \in [pc: ResumeCalls, row: Tasks \cup {None}, key: Keys \cup {None}]
  BY DEF ResumeTypes
<1> DEFINE x == [pc |-> "enqueue", row |-> r, key |-> call[c].key]
<1>2. call'[c] = x
  BY <1>1 DEF ResumeTypes
<1>3. \A d \in Calls \ {c} : call'[d] = call[d]
  BY DEF ResumeTypes
<1>4. call' = [d \in Calls |-> call'[d]]
  BY DEF ResumeTypes
<1> HIDE DEF x
<1>5. call' = [call EXCEPT ![c] = x]
  BY <1>2, <1>3, <1>4 DEF ResumeTypes
<1> QED BY <1>5 DEF x

\* What a step of the API may do to a row: nothing, or a change that does not
\* bring back a row that was not there.
LEMMA ResumeApiRows ==
  ASSUME ResumeInv, NEW c \in Calls,
         Resumes!Upload(c) \/ Resumes!Reanalyze(c) \/ Resumes!Delete(c) \/ Resumes!CallStep(c)
  PROVE  /\ analyzeStatus' \in [Tasks -> AnalyzeStatuses]
         /\ \A r \in Tasks :
              /\ analyzeStatus'[r] \in {analyzeStatus[r], "PENDING", "FAILED", "DELETED"}
              /\ analyzeStatus[r] = "DELETED" => analyzeStatus'[r] = "DELETED"
              /\ analyzeStatus'[r] = "NEW" => analyzeStatus[r] = "NEW"
              /\ r \in analyzed => r \in analyzed' \/ analyzeStatus'[r] = "DELETED"
         /\ storageKey' \in [Tasks -> Keys \cup {None}]
         /\ call' \in [Calls -> [pc: ResumeCalls, row: Tasks \cup {None}, key: Keys \cup {None}]]
         /\ \A d \in Calls \ {c} : call'[d] = call[d]
         /\ call'[c].pc \in {"enqueue", "unqueued", "erase", "remove"} =>
              call'[c].row \in Tasks /\ analyzeStatus'[call'[c].row] # "NEW"
<1> USE DEF ResumeInv, ResumeTypes, ResumeCalls, AnalyzeStatuses, Resumes!resume, Resumes!Done,
            Resumes!IdleCall, Resumes!Exists
<1> DEFINE Goal ==
      /\ analyzeStatus' \in [Tasks -> AnalyzeStatuses]
      /\ \A r \in Tasks :
           /\ analyzeStatus'[r] \in {analyzeStatus[r], "PENDING", "FAILED", "DELETED"}
           /\ analyzeStatus[r] = "DELETED" => analyzeStatus'[r] = "DELETED"
           /\ analyzeStatus'[r] = "NEW" => analyzeStatus[r] = "NEW"
           /\ r \in analyzed => r \in analyzed' \/ analyzeStatus'[r] = "DELETED"
      /\ storageKey' \in [Tasks -> Keys \cup {None}]
      /\ call' \in [Calls -> [pc: ResumeCalls, row: Tasks \cup {None}, key: Keys \cup {None}]]
      /\ \A d \in Calls \ {c} : call'[d] = call[d]
      /\ call'[c].pc \in {"enqueue", "unqueued", "erase", "remove"} =>
           call'[c].row \in Tasks /\ analyzeStatus'[call'[c].row] # "NEW"
<1> SUFFICES Goal
  OBVIOUS
<1>1. CASE Resumes!Upload(c)
  <2>1. (CHOOSE k \in Keys \ Resumes!UsedKeys : TRUE) \in Keys
    BY <1>1 DEF Resumes!Upload
  <2> QED BY <1>1, <2>1 DEF Resumes!Upload
<1>2. CASE Resumes!Store(c)
  BY <1>2 DEF Resumes!Store
<1>3. CASE Resumes!Insert(c)
  <2>1. PICK r \in Tasks :
          /\ analyzeStatus[r] = "NEW"
          /\ analyzeStatus' = [analyzeStatus EXCEPT ![r] = "PENDING"]
          /\ storageKey' = [storageKey EXCEPT ![r] = call[c].key]
          /\ call' = [call EXCEPT ![c].pc = "enqueue", ![c].row = r]
          /\ analyzed' = analyzed
    BY <1>3 DEF Resumes!Insert, Resumes!NewRows
  <2>2. call[c].key \in Keys \cup {None}
    OBVIOUS
  <2>3. call' = [call EXCEPT ![c] = [pc |-> "enqueue", row |-> r, key |-> call[c].key]]
    BY <2>1, InsertedCall
  <2>4. /\ analyzeStatus' \in [Tasks -> AnalyzeStatuses]
        /\ storageKey' \in [Tasks -> Keys \cup {None}]
    BY <2>1, <2>2
  <2>5. call' \in [Calls -> [pc: ResumeCalls, row: Tasks \cup {None}, key: Keys \cup {None}]]
    BY <2>2, <2>3
  <2>6. /\ \A d \in Calls \ {c} : call'[d] = call[d]
        /\ call'[c].row = r /\ analyzeStatus'[r] = "PENDING"
    BY <2>1, <2>3
  <2>7. \A s \in Tasks : analyzeStatus'[s] = IF s = r THEN "PENDING" ELSE analyzeStatus[s]
    BY <2>1
  <2> QED BY <2>1, <2>4, <2>5, <2>6, <2>7
<1>4. CASE Resumes!InsertFails(c)
  BY <1>4 DEF Resumes!InsertFails
<1>5. CASE Resumes!Discard(c)
  BY <1>5 DEF Resumes!Discard
<1>6. CASE Resumes!Reanalyze(c)
  BY <1>6 DEF Resumes!Reanalyze
<1>7. CASE Resumes!Enqueue(c)
  BY <1>7 DEF Resumes!Enqueue
<1>8. CASE Resumes!EnqueueFails(c)
  BY <1>8 DEF Resumes!EnqueueFails, RowsKnown
<1>9. CASE Resumes!MarkUnqueued(c)
  BY <1>9 DEF Resumes!MarkUnqueued, Resumes!Updated
<1>10. CASE Resumes!Delete(c)
  BY <1>10 DEF Resumes!Delete
<1>11. CASE Resumes!Erase(c)
  BY <1>11 DEF Resumes!Erase, RowsKnown
<1>12. CASE Resumes!Remove(c)
  <2>1. call[c].row \in Tasks
    BY <1>12 DEF Resumes!Remove, RowsKnown
  <2> QED BY <1>12, <2>1 DEF Resumes!Remove
<1>13. CASE Resumes!RemoveFails(c)
  BY <1>13 DEF Resumes!RemoveFails
<1> QED BY <1>1, <1>2, <1>3, <1>4, <1>5, <1>6, <1>7, <1>8, <1>9, <1>10, <1>11, <1>12, <1>13
        DEF Resumes!CallStep

\* Keys stay with the upload or the row they were drawn for, and the file of
\* a row there is goes only with the deletion of the row.
LEMMA ResumeApiKeys ==
  ASSUME ResumeInv, NEW c \in Calls,
         Resumes!Upload(c) \/ Resumes!Reanalyze(c) \/ Resumes!Delete(c) \/ Resumes!CallStep(c)
  PROVE  KeysKept' /\ Resumes!RowsHaveFiles'
<1> USE DEF ResumeInv, ResumeTypes, ResumeCalls, AnalyzeStatuses, Resumes!resume, Resumes!Done,
            Resumes!IdleCall, KeysKept, Uploading, Resumes!Exists, Resumes!RowsHaveFiles
<1>0. None \notin Keys
  BY HandlersAssumption DEF Resumes!ResumeAssumption
<1>13. \A r \in halfDeleted : r \in halfDeleted'
  BY DEF Resumes!Upload, Resumes!Reanalyze, Resumes!Delete, Resumes!CallStep, Resumes!Store,
     Resumes!Insert, Resumes!InsertFails, Resumes!Discard, Resumes!Enqueue,
     Resumes!EnqueueFails, Resumes!MarkUnqueued, Resumes!Erase, Resumes!Remove,
     Resumes!RemoveFails
<1>1. CASE Resumes!Upload(c)
  <2> DEFINE k == CHOOSE x \in Keys \ Resumes!UsedKeys : TRUE
  <2>1. k \in Keys /\ k \notin Resumes!UsedKeys
    BY <1>1 DEF Resumes!Upload
  <2>2. /\ \A r \in Tasks : storageKey[r] # k
        /\ \A d \in Calls : call[d].key # k
    BY <2>1 DEF Resumes!UsedKeys
  <2>3. /\ call' = [call EXCEPT ![c] = [pc |-> "store", row |-> None, key |-> k]]
        /\ UNCHANGED <<analyzeStatus, storageKey, objects>>
    BY <1>1 DEF Resumes!Upload
  <2> HIDE DEF k
  <2>4. KeysKept'
    BY <2>1, <2>2, <2>3
  <2>5. Resumes!RowsHaveFiles'
    BY <1>13, <1>1, <2>3 DEF Resumes!Upload
  <2> QED BY <2>4, <2>5
<1>2. CASE Resumes!Store(c)
  <2>1. /\ call[c].pc = "store"
        /\ \/ call' = [call EXCEPT ![c].pc = "insert"] /\ call[c].key \in objects'
           \/ call' = [call EXCEPT ![c] = Resumes!IdleCall]
        /\ objects \subseteq objects'
        /\ UNCHANGED <<analyzeStatus, storageKey>>
    BY <1>2 DEF Resumes!Store
  <2>2. KeysKept'
    BY <1>0, <2>1
  <2>3. Resumes!RowsHaveFiles'
    BY <1>13, <2>1
  <2> QED BY <2>2, <2>3
<1>3. CASE Resumes!Insert(c)
  <2>1. PICK r \in Tasks :
          /\ analyzeStatus[r] = "NEW"
          /\ analyzeStatus' = [analyzeStatus EXCEPT ![r] = "PENDING"]
          /\ storageKey' = [storageKey EXCEPT ![r] = call[c].key]
          /\ call' = [call EXCEPT ![c].pc = "enqueue", ![c].row = r]
          /\ objects' = objects /\ call[c].pc = "insert"
    BY <1>3 DEF Resumes!Insert, Resumes!NewRows
  <2>3. call' = [call EXCEPT ![c] = [pc |-> "enqueue", row |-> r, key |-> call[c].key]]
    BY <2>1, InsertedCall
  <2>4. /\ call[c].key \in Keys /\ call[c].key \in objects
        /\ \A s \in Tasks : storageKey[s] # call[c].key
        /\ \A d \in Calls \ {c} : call[d].key # call[c].key
    BY <2>1
  <2>5. /\ \A d \in Calls \ {c} : call'[d] = call[d]
        /\ call'[c].pc = "enqueue" /\ call'[c].key = call[c].key
        /\ \A s \in Tasks \ {r} : /\ storageKey'[s] = storageKey[s]
                                  /\ analyzeStatus'[s] = analyzeStatus[s]
        /\ storageKey'[r] = call[c].key
    BY <2>1, <2>3
  <2>6. KeysKept'
    BY <2>1, <2>4, <2>5
  <2>7. Resumes!RowsHaveFiles'
    BY <1>13, <2>1, <2>4, <2>5
  <2> QED BY <2>6, <2>7
<1>4. CASE Resumes!InsertFails(c)
  <2>1. /\ call[c].pc = "insert" /\ call' = [call EXCEPT ![c].pc = "discard"]
        /\ UNCHANGED <<analyzeStatus, storageKey, objects>>
    BY <1>4 DEF Resumes!InsertFails
  <2> QED BY <1>13, <2>1
<1>5. CASE Resumes!Discard(c)
  <2>1. /\ call[c].pc = "discard" /\ call' = [call EXCEPT ![c] = Resumes!IdleCall]
        /\ \A k \in objects : k # call[c].key => k \in objects'
        /\ UNCHANGED <<analyzeStatus, storageKey>>
    BY <1>5 DEF Resumes!Discard, Resumes!Discarded
  <2>2. KeysKept'
    BY <1>0, <2>1
  <2>3. Resumes!RowsHaveFiles'
    BY <1>13, <2>1
  <2> QED BY <2>2, <2>3
<1>6. CASE Resumes!Reanalyze(c)
  <2>1. PICK r \in Tasks :
          /\ Resumes!Exists(r)
          /\ analyzeStatus' = [analyzeStatus EXCEPT ![r] = "PENDING"]
          /\ call' = [call EXCEPT ![c] = [pc |-> "enqueue", row |-> r, key |-> None]]
    BY <1>6 DEF Resumes!Reanalyze
  <2>2. call[c].pc = "idle" /\ UNCHANGED <<storageKey, objects>>
    BY <1>6 DEF Resumes!Reanalyze
  <2>3. KeysKept'
    BY <1>0, <2>1, <2>2
  <2>4. Resumes!RowsHaveFiles'
    BY <1>13, <2>1, <2>2
  <2> QED BY <2>3, <2>4
<1>7. CASE Resumes!Enqueue(c) \/ Resumes!EnqueueFails(c)
  <2>1. /\ call[c].pc = "enqueue"
        /\ \/ call' = [call EXCEPT ![c] = Resumes!IdleCall]
           \/ call' = [call EXCEPT ![c].pc = "unqueued"]
        /\ UNCHANGED <<analyzeStatus, storageKey, objects>>
    BY <1>7 DEF Resumes!Enqueue, Resumes!EnqueueFails
  <2>2. KeysKept'
    BY <1>0, <2>1
  <2>3. Resumes!RowsHaveFiles'
    BY <1>13, <2>1
  <2> QED BY <2>2, <2>3
<1>8. CASE Resumes!MarkUnqueued(c)
  <2>1. /\ call[c].pc = "unqueued" /\ call' = [call EXCEPT ![c] = Resumes!IdleCall]
        /\ UNCHANGED <<storageKey, objects>>
        /\ analyzeStatus' = Resumes!Updated(call[c].row, "FAILED")
    BY <1>8 DEF Resumes!MarkUnqueued
  <2>2. SameRows
    BY <2>1, UpdatedRows
  <2>3. KeysKept'
    BY <1>0, <2>1, <2>2 DEF SameRows
  <2>4. Resumes!RowsHaveFiles'
    BY <1>13, <2>1, <2>2 DEF SameRows
  <2> QED BY <2>3, <2>4
<1>9. CASE Resumes!Delete(c)
  <2>1. PICK r \in Tasks :
          /\ Resumes!Exists(r)
          /\ call' = [call EXCEPT ![c] = [pc |-> "erase", row |-> r, key |-> storageKey[r]]]
    BY <1>9 DEF Resumes!Delete
  <2>2. call[c].pc = "idle" /\ UNCHANGED <<analyzeStatus, storageKey, objects>>
    BY <1>9 DEF Resumes!Delete
  <2>3. storageKey[r] \in Keys /\ \A s \in Tasks : storageKey[s] = storageKey[r] => s = r
    BY <1>0, <2>1
  <2>4. KeysKept'
    BY <2>1, <2>2, <2>3
  <2>5. Resumes!RowsHaveFiles'
    BY <1>13, <2>1, <2>2
  <2> QED BY <2>4, <2>5
<1>10. CASE Resumes!Erase(c)
  <2>1. /\ call[c].pc = "erase" /\ call' = [call EXCEPT ![c].pc = "remove"]
        /\ \A k \in objects : k # call[c].key => k \in objects'
        /\ UNCHANGED <<analyzeStatus, storageKey>>
    BY <1>10 DEF Resumes!Erase
  <2>2. KeysKept'
    BY <2>1
  <2>3. Resumes!RowsHaveFiles'
    BY <1>13, <2>1
  <2> QED BY <2>2, <2>3
<1>11. CASE Resumes!Remove(c)
  <2> DEFINE r == call[c].row
  <2>1. /\ call[c].pc = "remove" /\ call' = [call EXCEPT ![c] = Resumes!IdleCall]
        /\ analyzeStatus' = [analyzeStatus EXCEPT ![r] = "DELETED"]
        /\ storageKey' = [storageKey EXCEPT ![r] = None]
        /\ objects' = objects
    BY <1>11 DEF Resumes!Remove
  <2>2. r \in Tasks
    BY <2>1 DEF RowsKnown
  <2>3. /\ \A s \in Tasks \ {r} : storageKey'[s] = storageKey[s] /\ analyzeStatus'[s] = analyzeStatus[s]
        /\ storageKey'[r] = None /\ analyzeStatus'[r] = "DELETED"
        /\ \A d \in Calls \ {c} : call'[d] = call[d]
        /\ call'[c].pc = "idle" /\ call'[c].key = None
    BY <2>1, <2>2
  <2>4. KeysKept'
    BY <1>0, <2>1, <2>3
  <2>5. Resumes!RowsHaveFiles'
    BY <1>13, <2>1, <2>3
  <2> QED BY <2>4, <2>5
<1>12. CASE Resumes!RemoveFails(c)
  <2>1. /\ call[c].pc = "remove" /\ call' = [call EXCEPT ![c] = Resumes!IdleCall]
        /\ call[c].row \in halfDeleted'
        /\ UNCHANGED <<analyzeStatus, storageKey, objects>>
    BY <1>12 DEF Resumes!RemoveFails
  <2>2. KeysKept'
    BY <1>0, <2>1
  <2>3. Resumes!RowsHaveFiles'
    BY <1>13, <2>1
  <2> QED BY <2>2, <2>3
<1> QED BY <1>1, <1>2, <1>3, <1>4, <1>5, <1>6, <1>7, <1>8, <1>9, <1>10, <1>11, <1>12
        DEF Resumes!CallStep

\* So the API's steps preserve the invariant.
LEMMA ResumeApiStep ==
  ASSUME ResumeInv, NEW c \in Calls,
         Resumes!Upload(c) \/ Resumes!Reanalyze(c) \/ Resumes!Delete(c) \/ Resumes!CallStep(c)
  PROVE  ResumeInv'
<1>1. /\ UNCHANGED <<pel, idle, worker>>
      /\ StreamInv'
      /\ \A t \in Carried' : t \in Carried \/ (t = call[c].row /\ analyzeStatus' = analyzeStatus
                                                /\ call[c].pc = "enqueue")
  BY ResumeApiStream
<1>2. /\ analyzeStatus' \in [Tasks -> AnalyzeStatuses]
      /\ \A r \in Tasks :
           /\ analyzeStatus'[r] \in {analyzeStatus[r], "PENDING", "FAILED", "DELETED"}
           /\ analyzeStatus[r] = "DELETED" => analyzeStatus'[r] = "DELETED"
           /\ analyzeStatus'[r] = "NEW" => analyzeStatus[r] = "NEW"
           /\ r \in analyzed => r \in analyzed' \/ analyzeStatus'[r] = "DELETED"
      /\ storageKey' \in [Tasks -> Keys \cup {None}]
      /\ call' \in [Calls -> [pc: ResumeCalls, row: Tasks \cup {None}, key: Keys \cup {None}]]
      /\ \A d \in Calls \ {c} : call'[d] = call[d]
      /\ call'[c].pc \in {"enqueue", "unqueued", "erase", "remove"} =>
           call'[c].row \in Tasks /\ analyzeStatus'[call'[c].row] # "NEW"
  BY ResumeApiRows
<1>3. ResumeTypes'
  BY <1>1, <1>2 DEF ResumeTypes
<1>4. AnalysesKept' /\ Resumes!CompletedHasAnalysis'
  BY <1>1, <1>2, ResumeApiAnalyses
<1>5. KeysKept' /\ Resumes!RowsHaveFiles'
  BY ResumeApiKeys
<1>6. \A t \in Carried : t \in Tasks
  BY CarriedTasks DEF ResumeInv
<1>7. ASSUME NEW t \in Carried' PROVE analyzeStatus'[t] # "NEW"
  BY <1>1, <1>2, <1>6 DEF ResumeInv, RowsKnown
<1>8. ASSUME NEW d \in Calls, call'[d].pc \in {"enqueue", "unqueued", "erase", "remove"}
      PROVE  call'[d].row \in Tasks /\ analyzeStatus'[call'[d].row] # "NEW"
  BY <1>2, <1>8 DEF ResumeInv, RowsKnown
<1>9. RowsKnown'
  BY <1>7, <1>8 DEF RowsKnown
<1> QED BY <1>3, <1>4, <1>5, <1>9 DEF ResumeInv

\* An entry that grows idle, or another handler's step, changes nothing of
\* what it speaks of.
LEMMA ResumeRests ==
  ASSUME ResumeInv,
         \/ \E m \in Messages : Resumes!EntryGrowsIdle(m)
         \/ UNCHANGED <<stream, resumeRows, call>>
  PROVE  ResumeInv'
<1>1. UNCHANGED <<queue, pel, worker, analyzeStatus, storageKey, analyzed, objects, call, halfDeleted>>
  BY ResumeStream DEF Resumes!EntryGrowsIdle, GrowsIdle, Resumes!resume, stream, resumeRows
<1>2. StreamInv'
  BY ResumeStream, StreamGrowsIdle, StreamStays DEF Resumes!EntryGrowsIdle, ResumeInv, ResumeTypes
<1>3. Carried' = Carried
  BY <1>1 DEF Carried, Entries, Queued, Task
<1>4. ResumeTypes' /\ RowsKnown' /\ AnalysesKept' /\ KeysKept'
  BY <1>1, <1>2, <1>3
     DEF ResumeInv, ResumeTypes, RowsKnown, AnalysesKept, KeysKept, Uploading,
         Resumes!Exists, Task
<1>5. Resumes!CompletedHasAnalysis' /\ Resumes!RowsHaveFiles'
  BY <1>1 DEF ResumeInv, Resumes!CompletedHasAnalysis, Resumes!RowsHaveFiles, Resumes!Exists
<1> QED BY <1>4, <1>5 DEF ResumeInv

\* It holds of rows that were not uploaded yet and an empty stream.
LEMMA ResumeStarts ==
  ASSUME Resumes!Init
  PROVE  ResumeInv
<1>1. StreamInit /\ StreamInv
  BY ResumeStream, StreamStarts DEF Resumes!Init
<1>2. \A c \in Calls : call[c] = Resumes!IdleCall
  BY DEF Resumes!Init
<1>3. /\ call \in [Calls -> [pc: ResumeCalls, row: Tasks \cup {None}, key: Keys \cup {None}]]
      /\ analyzeStatus \in [Tasks -> AnalyzeStatuses]
      /\ storageKey \in [Tasks -> Keys \cup {None}]
  BY DEF Resumes!Init, Resumes!IdleCall, ResumeCalls, AnalyzeStatuses
<1>4. Carried = {} /\ \A w \in Workers : worker[w].pc = "poll"
  BY <1>1 DEF StreamInit, IdleWorker, Carried, Entries, Queued
<1>5. ResumeTypes /\ RowsKnown /\ AnalysesKept
  BY <1>1, <1>2, <1>3, <1>4 DEF ResumeTypes, RowsKnown, AnalysesKept, Resumes!IdleCall
<1>6. KeysKept /\ Resumes!CompletedHasAnalysis /\ Resumes!RowsHaveFiles
  BY <1>2 DEF Resumes!Init, KeysKept, Uploading, Resumes!IdleCall, Resumes!Exists,
     Resumes!CompletedHasAnalysis, Resumes!RowsHaveFiles
<1> QED BY <1>5, <1>6 DEF ResumeInv

\* Every step of the analysis preserves the invariant.
LEMMA ResumeStep ==
  ASSUME ResumeInv, Resumes!Next
  PROVE  ResumeInv'
BY ResumeApiStep, ResumeWorkerStep, ResumeRests DEF Resumes!Next, Resumes!Messages, Messages

\* Of a behaviour about another handler the resumes stay as they began.
ResumesInv == IF handler = "resumes" THEN ResumeInv
                                     ELSE \A r \in Tasks : analyzeStatus[r] = "NEW"

\* A resume shown as analysed has an analysis, and one that is listed has its
\* file unless a deletion of it is under way or its transaction failed, for
\* any number of uploads, analyses, workers, object keys, retries and faults
\* (upload, delete, process, mark_completed).
THEOREM ResumesAreWhole == HandlersSpec => []ResumesHold
<1>1. HandlersInit => ResumesInv
  <2> SUFFICES ASSUME HandlersInit PROVE ResumesInv
    OBVIOUS
  <2>1. CASE handler = "resumes"
    BY <2>1, ResumeStarts DEF HandlersInit, ResumesInv
  <2>2. CASE handler # "resumes"
    BY <2>2 DEF HandlersInit, ResumesInv
  <2> QED BY <2>1, <2>2
<1>2. ResumesInv /\ [HandlersNext]_all => ResumesInv'
  <2> SUFFICES ASSUME ResumesInv, [HandlersNext]_all PROVE ResumesInv'
    OBVIOUS
  <2>1. CASE OfResumes /\ Resumes!Next
    BY <2>1, ResumeStep DEF OfResumes, ResumesInv
  <2>2. CASE OfEvaluation \/ OfVectors
    BY <2>2 DEF OfEvaluation, OfVectors, ResumesInv, resumeRows
  <2>3. CASE UNCHANGED all
    <3>1. UNCHANGED <<handler, analyzeStatus>> /\ UNCHANGED <<stream, resumeRows, call>>
      BY <2>3 DEF all, common, resumeRows
    <3> QED BY <3>1, ResumeRests DEF ResumesInv
  <2> QED BY <2>1, <2>2, <2>3 DEF HandlersNext
<1>3. ResumesInv => ResumesHold
  BY DEF ResumesInv, ResumeInv, ResumesHold, Resumes!CompletedHasAnalysis, Resumes!RowsHaveFiles,
     Resumes!Exists
<1> QED BY <1>1, <1>2, <1>3, PTL DEF HandlersSpec

-----------------------------------------------------------------------------
(* Running work, with a single worker                                      *)

\* Nobody but the worker removes an entry, and of every task shown as running
\* one is left after what the worker may be about to acknowledge.
AnalysesAreKept(w) ==
  /\ HoldsPending(w)
  /\ \A r \in Tasks : analyzeStatus[r] = "PROCESSING" => KeptFor(w, r)

\* The analysis' worker keeps an entry of every analysis shown as running:
\* it acknowledges a message only when its row is not shown so any more.
LEMMA ResumeWorkerKeeps ==
  ASSUME ResumeTypes, NEW w \in Workers, AnalysesAreKept(w),
         Resumes!WorkerStep(w) \/ Resumes!WorkerFault(w)
  PROVE  AnalysesAreKept(w)'
<1>0. StreamTypeOK
  BY DEF ResumeTypes, StreamInv
<1> DEFINE Same == \A r \in Tasks : analyzeStatus'[r] = analyzeStatus[r]
           Sets(v) == analyzeStatus' = Resumes!Updated(Task(w), v)
           Goal == AnalysesAreKept(w)'
<1>1. ASSUME Same,
             \/ Reclaim(w) \/ Read(w) \/ Take(w) \/ Ack(w) \/ Failed(w) \/ Raised(w) \/ Crash(w)
             \/ \E from \in SUBSET (WorkerSteps \ {"drop", "ack"}) : Preserve(w, from)
      PROVE  Goal
  <2>1. \A t : HoldsPending(w)' /\ (KeptFor(w, t) => KeptFor(w, t)')
    BY <1>0, <1>1, ConsumerKeeps DEF AnalysesAreKept
  <2> QED BY <1>1, <2>1 DEF AnalysesAreKept
<1>2. ASSUME Same, NEW to \in {"ack", "unqueued"}, worker[w].pc = "retry",
             Add(Task(w), worker[w].msg.retry + 1),
             worker' = [worker EXCEPT ![w].pc = to], UNCHANGED pel
      PROVE  Goal
  <2>1. \A t : HoldsPending(w)' /\ (KeptFor(w, t) => KeptFor(w, t)')
    BY <1>0, <1>2, RetryKeeps DEF AnalysesAreKept, WorkerSteps
  <2> QED BY <1>2, <2>1 DEF AnalysesAreKept
<1>3. ASSUME NEW from \in WorkerSteps \ {"poll", "drop", "ack"}, NEW to \in WorkerSteps \ {"poll"},
             GoOn(w, from, to),
             \A r \in Tasks \ {Task(w)} : analyzeStatus'[r] = analyzeStatus[r],
             to \in {"drop", "ack"} => analyzeStatus'[Task(w)] # "PROCESSING"
      PROVE  Goal
  <2>1. \A t : /\ HoldsPending(w)'
               /\ to \notin {"drop", "ack"} => KeptFor(w, Task(w))'
               /\ KeptFor(w, t) /\ (t # Task(w) \/ to \notin {"drop", "ack"}) => KeptFor(w, t)'
    BY <1>0, <1>3, GoOnKeeps DEF AnalysesAreKept
  <2>2. ASSUME NEW r \in Tasks, analyzeStatus'[r] = "PROCESSING" PROVE KeptFor(w, r)'
    <3>1. CASE r = Task(w)
      <4>1. to \notin {"drop", "ack"}
        BY <1>3, <2>2, <3>1
      <4>2. worker'[w].msg = worker[w].msg
        BY <1>0, <1>3 DEF GoOn, StreamTypeOK
      <4>3. Task(w)' = Task(w)
        BY <4>2 DEF Task
      <4> QED BY <2>1, <3>1, <4>1, <4>3
    <3>2. CASE r # Task(w)
      BY <1>3, <2>1, <2>2, <3>2 DEF AnalysesAreKept
    <3> QED BY <3>1, <3>2
  <2> QED BY <2>1, <2>2 DEF AnalysesAreKept
<1>4. ASSUME NEW v \in {"PROCESSING", "COMPLETED", "FAILED"}, Sets(v), worker[w].pc # "poll"
      PROVE  /\ \A r \in Tasks \ {Task(w)} : analyzeStatus'[r] = analyzeStatus[r]
             /\ analyzeStatus'[Task(w)] = "PROCESSING" => v = "PROCESSING"
  BY <1>4, UpdatedRows, TaskIsCarried
<1> USE DEF Resumes!resume
<1> HIDE DEF Goal
<1> SUFFICES Goal
  BY DEF Goal
<1>5. CASE Resumes!Consume(w)
  BY <1>1, <1>5, ResumeStream DEF Resumes!Consume
<1>6. CASE Resumes!ShouldSkip(w)
  <2>1. \E to \in {"drop", "mark"} : GoOn(w, "skip", to)
                    /\ (to = "drop" => analyzeStatus[Task(w)] # "PROCESSING")
    BY <1>6, ResumeStream DEF Resumes!ShouldSkip, Resumes!Skips, Resumes!Exists
  <2> QED BY <1>3, <1>6, <2>1 DEF Resumes!ShouldSkip, WorkerSteps
<1>7. CASE Resumes!MarkProcessing(w)
  <2>1. Sets("PROCESSING")
    BY <1>7, ResumeStream DEF Resumes!MarkProcessing
  <2>2. PICK to \in {"process", "drop"} : GoOn(w, "mark", to)
                    /\ (to = "drop" => ~Resumes!Exists(Task(w)))
    BY <1>7, ResumeStream DEF Resumes!MarkProcessing
  <2>3. to = "drop" => analyzeStatus'[Task(w)] # "PROCESSING"
    BY <2>1, <2>2 DEF Resumes!Updated, Resumes!Exists
  <2>4. \A r \in Tasks \ {Task(w)} : analyzeStatus'[r] = analyzeStatus[r]
    BY <1>4, <2>1, <2>2 DEF GoOn
  <2> QED BY <1>3, <2>2, <2>3, <2>4 DEF WorkerSteps
<1>8. CASE Resumes!Analyze(w)
  <2>1. Same /\ \E to \in {"save", "complete"} : GoOn(w, "process", to)
    BY <1>8, ResumeStream DEF Resumes!Analyze
  <2> QED BY <1>3, <2>1 DEF WorkerSteps
<1>9. CASE Resumes!SaveAnalysis(w)
  <2>1. Same /\ GoOn(w, "save", "complete")
    BY <1>9, ResumeStream DEF Resumes!SaveAnalysis
  <2> QED BY <1>3, <2>1 DEF WorkerSteps
<1>10. CASE Resumes!MarkCompleted(w) \/ Resumes!MarkFailed(w)
  <2>1. \E v \in {"COMPLETED", "FAILED"} : Sets(v)
    BY <1>10, ResumeStream DEF Resumes!MarkCompleted, Resumes!MarkFailed
  <2>2. PICK from \in {"complete", "unqueued", "giveup"} : GoOn(w, from, "ack")
    BY <1>10, ResumeStream DEF Resumes!MarkCompleted, Resumes!MarkFailed
  <2>3. /\ \A r \in Tasks \ {Task(w)} : analyzeStatus'[r] = analyzeStatus[r]
        /\ analyzeStatus'[Task(w)] # "PROCESSING"
    BY <1>4, <2>1, <2>2 DEF GoOn
  <2> QED BY <1>3, <2>2, <2>3 DEF WorkerSteps
<1>11. CASE Resumes!Handled(w)
  <2>1. Same /\ (Failed(w) \/ Readd(w, "retry"))
    BY <1>11, ResumeStream DEF Resumes!Handled
  <2> QED BY <1>1, <1>2, <2>1 DEF Readd
<1>12. CASE Resumes!CallFails(w)
  <2>1. Same /\ Raised(w)
    BY <1>12, ResumeStream DEF Resumes!CallFails, Resumes!Fails
  <2> QED BY <1>1, <2>1
<1>13. CASE Resumes!RetryFails(w)
  <2>1. Same
    BY <1>13 DEF Resumes!RetryFails
  <2>2. CASE GoOn(w, "retry", "unqueued")
    BY <1>3, <2>1, <2>2 DEF WorkerSteps
  <2>3. CASE ~GoOn(w, "retry", "unqueued")
    BY <1>2, <1>13, <2>1, <2>3, ResumeStream DEF Resumes!RetryFails
  <2> QED BY <2>2, <2>3
<1>14. CASE Resumes!MarkRetryFails(w)
  <2>1. Same /\ Preserve(w, {"unqueued"})
    BY <1>14, ResumeStream DEF Resumes!MarkRetryFails
  <2>2. {"unqueued"} \in SUBSET (WorkerSteps \ {"drop", "ack"})
    BY DEF WorkerSteps
  <2> QED BY <1>1, <2>1, <2>2
<1>15. CASE Resumes!WorkerCrash(w)
  <2>1. Same /\ Crash(w)
    BY <1>15, ResumeStream DEF Resumes!WorkerCrash
  <2> QED BY <1>1, <2>1
<1> QED BY <1>5, <1>6, <1>7, <1>8, <1>9, <1>10, <1>11, <1>12, <1>13, <1>14, <1>15
        DEF Resumes!WorkerStep, Resumes!WorkerFault

\* Requests and time show no analysis as running, and remove no entry.
LEMMA ResumeOthersKeep ==
  ASSUME ResumeInv, NEW w \in Workers, AnalysesAreKept(w),
         \/ \E c \in Calls : Resumes!Upload(c) \/ Resumes!Reanalyze(c) \/ Resumes!Delete(c)
                               \/ Resumes!CallStep(c)
         \/ \E m \in Messages : Resumes!EntryGrowsIdle(m)
         \/ UNCHANGED <<stream, resumeRows, call>>
  PROVE  AnalysesAreKept(w)'
<1>1. /\ UNCHANGED <<pel, worker>>
      /\ UNCHANGED queue \/ \E t, k : Add(t, k)
      /\ \A r \in Tasks : analyzeStatus'[r] = "PROCESSING" => analyzeStatus[r] = "PROCESSING"
  <2>1. CASE \E m \in Messages : Resumes!EntryGrowsIdle(m)
    BY <2>1, ResumeStream DEF Resumes!EntryGrowsIdle, GrowsIdle, Resumes!resume
  <2>2. CASE UNCHANGED <<stream, resumeRows, call>>
    BY <2>2 DEF stream, resumeRows
  <2>3. ASSUME NEW c \in Calls,
               Resumes!Upload(c) \/ Resumes!Reanalyze(c) \/ Resumes!Delete(c)
                 \/ Resumes!CallStep(c)
        PROVE  /\ UNCHANGED <<pel, worker>>
               /\ UNCHANGED queue \/ \E t, k : Add(t, k)
               /\ \A r \in Tasks :
                    analyzeStatus'[r] = "PROCESSING" => analyzeStatus[r] = "PROCESSING"
    <3>1. /\ UNCHANGED <<pel, worker>>
          /\ UNCHANGED queue \/ \E t, k : Add(t, k)
      BY <2>3, ResumeStream
         DEF Resumes!Upload, Resumes!Reanalyze, Resumes!Delete, Resumes!CallStep, Resumes!Store,
             Resumes!Insert, Resumes!InsertFails, Resumes!Discard, Resumes!Enqueue,
             Resumes!EnqueueFails, Resumes!MarkUnqueued, Resumes!Erase, Resumes!Remove,
             Resumes!RemoveFails, Resumes!stream
    <3>2. \A r \in Tasks :
            analyzeStatus'[r] \in {analyzeStatus[r], "PENDING", "FAILED", "DELETED"}
      BY <2>3, ResumeApiRows
    <3> QED BY <3>1, <3>2
  <2> QED BY <2>1, <2>2, <2>3
<1>2. \A t : HoldsPending(w)' /\ (KeptFor(w, t) => KeptFor(w, t)')
  BY <1>1, QuietKeeps DEF AnalysesAreKept, ResumeInv, ResumeTypes, StreamInv
<1> QED BY <1>1, <1>2 DEF AnalysesAreKept

-----------------------------------------------------------------------------
(* The same of the vectorization                                           *)

VectorTypes ==
  /\ StreamInv
  /\ vectorStatus \in [Tasks -> AnalyzeStatuses]
  /\ \A c \in VectorCalls : call[c].pc # "idle" => call[c].kb \in Tasks
  /\ call \in [VectorCalls -> [pc: {"idle", "enqueue", "unqueued", "purge"},
                               kb: Tasks \cup {None}]]

VectorsAreKept(w) ==
  /\ HoldsPending(w)
  /\ \A k \in Tasks : vectorStatus[k] = "PROCESSING" => KeptFor(w, k)

\* An update writes the status of a knowledge base there is, and no other.
LEMMA UpdatedVectors ==
  ASSUME VectorTypes, NEW k, NEW v \in {"PROCESSING", "COMPLETED", "FAILED"},
         vectorStatus' = Vectors!Updated(k, v)
  PROVE  /\ vectorStatus' \in [Tasks -> AnalyzeStatuses]
         /\ \A s \in Tasks \ {k} : vectorStatus'[s] = vectorStatus[s]
         /\ k \in Tasks => (vectorStatus'[k] = "PROCESSING" => v = "PROCESSING")
BY DEF VectorTypes, AnalyzeStatuses, Vectors!Updated, Vectors!Exists

\* The vectorization's worker keeps the types, and an entry of every
\* vectorization shown as running.
LEMMA VectorWorkerKeeps ==
  ASSUME VectorTypes, NEW w \in Workers, VectorsAreKept(w),
         Vectors!WorkerStep(w) \/ Vectors!WorkerFault(w)
  PROVE  VectorTypes' /\ VectorsAreKept(w)'
<1>0. StreamTypeOK
  BY DEF VectorTypes, StreamInv
<1> DEFINE Same == vectorStatus' = vectorStatus
           Sets(v) == vectorStatus' = Vectors!Updated(Task(w), v)
           Goal == VectorTypes' /\ VectorsAreKept(w)'
<1>c. UNCHANGED call
  BY DEF Vectors!WorkerStep, Vectors!WorkerFault, Vectors!Consume, Vectors!ShouldSkip,
     Vectors!MarkProcessing, Vectors!StartJob, Vectors!StoreBatch, Vectors!CompleteJob,
     Vectors!Cleanup, Vectors!Handled, Vectors!MarkFailed, Vectors!JobFails, Vectors!CallFails,
     Vectors!RetryFails, Vectors!MarkRetryFails, Vectors!WorkerCrash
<1>1. ASSUME Same,
             \/ Reclaim(w) \/ Read(w) \/ Take(w) \/ Ack(w) \/ Failed(w) \/ Raised(w) \/ Crash(w)
             \/ Preserve(w, {"unqueued"})
      PROVE  Goal
  <2>1. {"unqueued"} \in SUBSET (WorkerSteps \ {"drop", "ack"})
    BY DEF WorkerSteps
  <2>2. \A t : HoldsPending(w)' /\ (KeptFor(w, t) => KeptFor(w, t)')
    BY <1>0, <1>1, <2>1, ConsumerKeeps DEF VectorsAreKept
  <2>3. StreamInv'
    BY <1>1, StreamConsumes, StreamFails, StreamLets DEF VectorTypes
  <2> QED BY <1>c, <1>1, <2>2, <2>3 DEF VectorsAreKept, VectorTypes
<1>2. ASSUME Same, NEW to \in {"ack", "unqueued"}, worker[w].pc = "retry",
             Add(Task(w), worker[w].msg.retry + 1),
             worker' = [worker EXCEPT ![w].pc = to], UNCHANGED <<pel, idle>>
      PROVE  Goal
  <2>1. \A t : HoldsPending(w)' /\ (KeptFor(w, t) => KeptFor(w, t)')
    BY <1>0, <1>2, RetryKeeps DEF VectorsAreKept, WorkerSteps
  <2>2. StreamInv'
    BY <1>2, StreamRetries DEF VectorTypes
  <2> QED BY <1>c, <1>2, <2>1, <2>2 DEF VectorsAreKept, VectorTypes
<1>3. ASSUME NEW from \in WorkerSteps \ {"poll", "drop", "ack"},
             NEW to \in WorkerSteps \ {"poll", "retry", "readd"},
             GoOn(w, from, to),
             vectorStatus' \in [Tasks -> AnalyzeStatuses],
             \A r \in Tasks \ {Task(w)} : vectorStatus'[r] = vectorStatus[r],
             to \in {"drop", "ack"} => vectorStatus'[Task(w)] # "PROCESSING"
      PROVE  Goal
  <2>1. \A t : /\ HoldsPending(w)'
               /\ to \notin {"drop", "ack"} => KeptFor(w, Task(w))'
               /\ KeptFor(w, t) /\ (t # Task(w) \/ to \notin {"drop", "ack"}) => KeptFor(w, t)'
    BY <1>0, <1>3, GoOnKeeps DEF VectorsAreKept
  <2>2. ASSUME NEW r \in Tasks, vectorStatus'[r] = "PROCESSING" PROVE KeptFor(w, r)'
    <3>1. CASE r = Task(w)
      <4>1. to \notin {"drop", "ack"}
        BY <1>3, <2>2, <3>1
      <4>2. worker'[w].msg = worker[w].msg
        BY <1>0, <1>3 DEF GoOn, StreamTypeOK
      <4>3. Task(w)' = Task(w)
        BY <4>2 DEF Task
      <4> QED BY <2>1, <3>1, <4>1, <4>3
    <3>2. CASE r # Task(w)
      BY <1>3, <2>1, <2>2, <3>2 DEF VectorsAreKept
    <3> QED BY <3>1, <3>2
  <2>3. StreamInv'
    BY <1>3, StreamGoesOn DEF VectorTypes
  <2> QED BY <1>c, <1>3, <2>1, <2>2, <2>3 DEF VectorsAreKept, VectorTypes
<1>4. ASSUME NEW v \in {"PROCESSING", "COMPLETED", "FAILED"}, Sets(v), worker[w].pc # "poll"
      PROVE  /\ vectorStatus' \in [Tasks -> AnalyzeStatuses]
             /\ \A r \in Tasks \ {Task(w)} : vectorStatus'[r] = vectorStatus[r]
             /\ vectorStatus'[Task(w)] = "PROCESSING" => v = "PROCESSING"
  BY <1>0, <1>4, UpdatedVectors, TaskType
<1>s. ASSUME Same PROVE /\ vectorStatus' \in [Tasks -> AnalyzeStatuses]
                        /\ \A r \in Tasks \ {Task(w)} : vectorStatus'[r] = vectorStatus[r]
  BY <1>s DEF VectorTypes
<1> HIDE DEF Goal
<1> SUFFICES Goal
  BY DEF Goal
<1>5. CASE Vectors!Consume(w)
  BY <1>1, <1>5, VectorStream DEF Vectors!Consume
<1>6. CASE Vectors!ShouldSkip(w)
  <2>1. PICK to \in {"drop", "mark"} : GoOn(w, "skip", to)
                    /\ (to = "drop" => vectorStatus[Task(w)] # "PROCESSING")
    BY <1>6, VectorStream DEF Vectors!ShouldSkip, Vectors!Skips, Vectors!Exists
  <2>2. Same
    BY <1>6 DEF Vectors!ShouldSkip
  <2> QED BY <1>3, <1>s, <2>1, <2>2 DEF WorkerSteps
<1>7. CASE Vectors!MarkProcessing(w)
  <2>1. Sets("PROCESSING")
    BY <1>7, VectorStream DEF Vectors!MarkProcessing
  <2>2. PICK to \in {"process", "drop"} : GoOn(w, "mark", to)
                    /\ (to = "drop" => ~Vectors!Exists(Task(w)))
    BY <1>7, VectorStream DEF Vectors!MarkProcessing
  <2>3. to = "drop" => vectorStatus'[Task(w)] # "PROCESSING"
    BY <2>1, <2>2 DEF Vectors!Updated, Vectors!Exists
  <2>4. /\ vectorStatus' \in [Tasks -> AnalyzeStatuses]
        /\ \A r \in Tasks \ {Task(w)} : vectorStatus'[r] = vectorStatus[r]
    BY <1>4, <2>1, <2>2 DEF GoOn
  <2> QED BY <1>3, <2>2, <2>3, <2>4 DEF WorkerSteps
<1>8. CASE Vectors!StartJob(w)
  <2>1. Same
    BY <1>8 DEF Vectors!StartJob
  <2>2. PICK to \in {"save", "ack"} : GoOn(w, "process", to)
                    /\ (to = "ack" => ~Vectors!Exists(Task(w)))
    BY <1>8, VectorStream DEF Vectors!StartJob
  <2> QED BY <1>3, <1>s, <2>1, <2>2 DEF WorkerSteps, Vectors!Exists
<1>9. CASE Vectors!StoreBatch(w)
  <2>1. Same /\ \E to \in {"save", "complete"} : GoOn(w, "save", to)
    BY <1>9, VectorStream DEF Vectors!StoreBatch
  <2> QED BY <1>3, <1>s, <2>1 DEF WorkerSteps
<1>10. CASE Vectors!CompleteJob(w) \/ Vectors!MarkFailed(w)
  <2>1. \E v \in {"COMPLETED", "FAILED"} : Sets(v)
    BY <1>10, VectorStream DEF Vectors!CompleteJob, Vectors!MarkFailed
  <2>2. PICK from \in {"complete", "unqueued", "giveup"} : GoOn(w, from, "ack")
    BY <1>10, VectorStream DEF Vectors!CompleteJob, Vectors!MarkFailed
  <2>3. /\ vectorStatus' \in [Tasks -> AnalyzeStatuses]
        /\ \A r \in Tasks \ {Task(w)} : vectorStatus'[r] = vectorStatus[r]
        /\ vectorStatus'[Task(w)] # "PROCESSING"
    BY <1>4, <2>1, <2>2 DEF GoOn
  <2> QED BY <1>3, <2>2, <2>3 DEF WorkerSteps
<1>11. CASE Vectors!Cleanup(w) \/ Vectors!JobFails(w)
  <2>1. Same
    BY <1>11 DEF Vectors!Cleanup, Vectors!JobFails
  <2>2. \E from \in {"save", "complete", "cleanup"}, to \in {"failed", "cleanup"} : GoOn(w, from, to)
    BY <1>11, VectorStream DEF Vectors!Cleanup, Vectors!JobFails
  <2> QED BY <1>3, <1>s, <2>1, <2>2 DEF WorkerSteps
<1>12. CASE Vectors!Handled(w)
  <2>1. Same /\ (Failed(w) \/ Readd(w, "retry"))
    BY <1>12, VectorStream DEF Vectors!Handled
  <2> QED BY <1>1, <1>2, <2>1 DEF Readd
<1>13. CASE Vectors!CallFails(w)
  <2>1. Same /\ Raised(w)
    BY <1>13, VectorStream DEF Vectors!CallFails
  <2> QED BY <1>1, <2>1
<1>14. CASE Vectors!RetryFails(w)
  <2>1. Same
    BY <1>14 DEF Vectors!RetryFails
  <2>2. CASE GoOn(w, "retry", "unqueued")
    BY <1>3, <1>s, <2>1, <2>2 DEF WorkerSteps
  <2>3. CASE ~GoOn(w, "retry", "unqueued")
    BY <1>2, <1>14, <2>1, <2>3, VectorStream DEF Vectors!RetryFails
  <2> QED BY <2>2, <2>3
<1>15. CASE Vectors!MarkRetryFails(w)
  <2>1. Same /\ Preserve(w, {"unqueued"})
    BY <1>15, VectorStream DEF Vectors!MarkRetryFails
  <2> QED BY <1>1, <2>1
<1>16. CASE Vectors!WorkerCrash(w)
  <2>1. Same /\ Crash(w)
    BY <1>16, VectorStream DEF Vectors!WorkerCrash
  <2> QED BY <1>1, <2>1
<1> QED BY <1>5, <1>6, <1>7, <1>8, <1>9, <1>10, <1>11, <1>12, <1>13, <1>14, <1>15, <1>16
        DEF Vectors!WorkerStep, Vectors!WorkerFault

\* Requests and time show no vectorization as running, and remove no entry.
LEMMA VectorOthersKeep ==
  ASSUME VectorTypes, NEW w \in Workers, VectorsAreKept(w),
         \/ \E c \in VectorCalls :
              \/ Vectors!Upload(c) \/ Vectors!Revectorize(c) \/ Vectors!Delete(c)
              \/ Vectors!CallStep(c) \/ Vectors!EnqueueFails(c) \/ Vectors!AppCrash(c)
         \/ \E m \in Messages : Vectors!EntryGrowsIdle(m)
         \/ UNCHANGED <<stream, vectorRows, call>>
  PROVE  VectorTypes' /\ VectorsAreKept(w)'
<1> DEFINE Goal ==
      /\ UNCHANGED <<pel, worker>>
      /\ StreamInv'
      /\ UNCHANGED queue \/ \E t, k : Add(t, k)
      /\ vectorStatus' \in [Tasks -> AnalyzeStatuses]
      /\ \A k \in Tasks : vectorStatus'[k] = "PROCESSING" => vectorStatus[k] = "PROCESSING"
      /\ \A c \in VectorCalls : call'[c].pc # "idle" => call'[c].kb \in Tasks
      /\ call' \in [VectorCalls -> [pc: {"idle", "enqueue", "unqueued", "purge"},
                                    kb: Tasks \cup {None}]]
<1>1. Goal
  <2>1. CASE \E m \in Messages : Vectors!EntryGrowsIdle(m)
    <3>1. UNCHANGED <<queue, pel, worker, vectorStatus, call>>
      BY <2>1, VectorStream DEF Vectors!EntryGrowsIdle, GrowsIdle
    <3>2. StreamInv'
      BY <2>1, VectorStream, StreamGrowsIdle DEF Vectors!EntryGrowsIdle, VectorTypes
    <3> QED BY <3>1, <3>2 DEF VectorTypes
  <2>2. CASE UNCHANGED <<stream, vectorRows, call>>
    <3>1. UNCHANGED <<queue, pel, worker, vectorStatus, call>>
      BY <2>2 DEF stream, vectorRows
    <3>2. StreamInv'
      BY <2>2, StreamStays DEF VectorTypes
    <3> QED BY <3>1, <3>2 DEF VectorTypes
  <2>3. ASSUME NEW c \in VectorCalls,
               \/ Vectors!Upload(c) \/ Vectors!Revectorize(c) \/ Vectors!Delete(c)
               \/ Vectors!CallStep(c) \/ Vectors!EnqueueFails(c) \/ Vectors!AppCrash(c)
        PROVE  Goal
    <3>1. /\ UNCHANGED <<pel, idle, worker>>
          /\ UNCHANGED queue \/ (Add(call[c].kb, 0) /\ call[c].pc = "enqueue")
      BY <2>3, VectorStream
         DEF Vectors!Upload, Vectors!Revectorize, Vectors!AskFor, Vectors!Delete,
             Vectors!CallStep, Vectors!Enqueue, Vectors!MarkUnqueued, Vectors!DeleteVectors,
             Vectors!EnqueueFails, Vectors!AppCrash, Vectors!stream
    <3>2. StreamInv'
      BY <3>1, StreamAdds, StreamStays DEF VectorTypes, stream
    <3>3. CASE \E k \in Tasks : Vectors!AskFor(c, k)
      BY <3>1, <3>2, <3>3 DEF Vectors!AskFor, VectorTypes, AnalyzeStatuses
    <3>4. CASE Vectors!Delete(c)
      BY <3>1, <3>2, <3>4 DEF Vectors!Delete, VectorTypes, AnalyzeStatuses
    <3>5. CASE Vectors!MarkUnqueued(c)
      <4>1. vectorStatus' = Vectors!Updated(call[c].kb, "FAILED") /\ call[c].kb \in Tasks
        BY <3>5 DEF Vectors!MarkUnqueued, VectorTypes
      <4>2. /\ vectorStatus' \in [Tasks -> AnalyzeStatuses]
            /\ \A k \in Tasks : vectorStatus'[k] = "PROCESSING" => vectorStatus[k] = "PROCESSING"
        BY <4>1, UpdatedVectors
      <4> QED BY <3>1, <3>2, <3>5, <4>2 DEF Vectors!MarkUnqueued, VectorTypes, Vectors!IdleCall
    <3>6. CASE Vectors!Enqueue(c) \/ Vectors!DeleteVectors(c) \/ Vectors!AppCrash(c)
      BY <3>1, <3>2, <3>6 DEF Vectors!Enqueue, Vectors!DeleteVectors, Vectors!AppCrash,
         VectorTypes, Vectors!IdleCall
    <3>7. CASE Vectors!EnqueueFails(c)
      BY <3>1, <3>2, <3>7 DEF Vectors!EnqueueFails, VectorTypes
    <3> HIDE DEF Goal
    <3> QED BY <2>3, <3>3, <3>4, <3>5, <3>6, <3>7
            DEF Vectors!Upload, Vectors!Revectorize, Vectors!CallStep
  <2> HIDE DEF Goal
  <2> QED BY <2>1, <2>2, <2>3
<1>2. \A t : HoldsPending(w)' /\ (KeptFor(w, t) => KeptFor(w, t)')
  BY <1>1, QuietKeeps DEF VectorsAreKept, VectorTypes, StreamInv
<1> QED BY <1>1, <1>2 DEF VectorsAreKept, VectorTypes

-----------------------------------------------------------------------------
(* All handlers                                                            *)

\* What is known of the handler that the behaviour is about.
WorkIsKept(w) ==
  /\ handler \in {"resumes", "evaluation", "vectors"}
  /\ handler = "resumes"    => ResumeInv /\ AnalysesAreKept(w)
  /\ handler = "evaluation" => SharedInv /\ Alone(w)
  /\ handler = "vectors"    => VectorTypes /\ VectorsAreKept(w)

\* It holds in the initial states.
LEMMA WorkStarts ==
  ASSUME NEW w \in Workers, HandlersInit
  PROVE  WorkIsKept(w)
<1>1. StreamInit /\ StreamInv
  BY ResumeStream, VectorStream, StreamStarts
     DEF HandlersInit, Resumes!Init, Init, Vectors!Init
<1>2. HoldsPending(w)
  BY <1>1 DEF StreamInit, IdleWorker, HoldsPending
<1>3. CASE handler = "resumes"
  BY <1>2, <1>3, ResumeStarts DEF HandlersInit, WorkIsKept, AnalysesAreKept
<1>4. CASE handler = "evaluation"
  BY <1>4, InitType, InitAlone DEF HandlersInit, WorkIsKept
<1>5. CASE handler = "vectors"
  <2>1. vectorStatus = [k \in Tasks |-> "NEW"] /\ call = [c \in VectorCalls |-> Vectors!IdleCall]
    BY <1>5 DEF HandlersInit, Vectors!Init
  <2>2. VectorTypes
    BY <1>1, <2>1 DEF VectorTypes, AnalyzeStatuses, Vectors!IdleCall
  <2> QED BY <1>2, <1>5, <2>1, <2>2 DEF WorkIsKept, VectorsAreKept
<1> QED BY <1>3, <1>4, <1>5 DEF HandlersInit

\* Every step of a handler preserves it.
LEMMA WorkStep ==
  ASSUME NEW w, Workers = {w}, WorkIsKept(w), [HandlersNext]_all
  PROVE  WorkIsKept(w)'
<1>1. handler' = handler
  BY DEF HandlersNext, OfResumes, OfEvaluation, OfVectors, all, common
<1>2. CASE handler = "resumes"
  <2>1. ResumeInv /\ AnalysesAreKept(w)
    BY <1>2 DEF WorkIsKept
  <2>2. Resumes!Next \/ UNCHANGED <<stream, resumeRows, call>>
    BY <1>2 DEF HandlersNext, OfEvaluation, OfVectors, all, common
  <2>3. ResumeInv'
    BY <2>1, <2>2, ResumeStep, ResumeRests
  <2>4. AnalysesAreKept(w)'
    <3>1. CASE Resumes!WorkerStep(w) \/ Resumes!WorkerFault(w)
      BY <2>1, <3>1, ResumeWorkerKeeps DEF ResumeInv
    <3>2. CASE ~(Resumes!WorkerStep(w) \/ Resumes!WorkerFault(w))
      BY <2>1, <2>2, <3>2, ResumeOthersKeep DEF Resumes!Next, Resumes!Messages, Messages
    <3> QED BY <3>1, <3>2
  <2> QED BY <1>1, <1>2, <2>3, <2>4 DEF WorkIsKept
<1>3. CASE handler = "evaluation"
  <2>1. SharedInv /\ Alone(w)
    BY <1>3 DEF WorkIsKept
  <2>2. [Next]_vars
    BY <1>3 DEF HandlersNext, OfResumes, OfVectors, all, common, evalRows, vars, session
  <2>3. SharedInv' /\ Alone(w)'
    BY <2>1, <2>2, SharedStep, AloneStep
  <2> QED BY <1>1, <1>3, <2>3 DEF WorkIsKept
<1>4. CASE handler = "vectors"
  <2>1. VectorTypes /\ VectorsAreKept(w)
    BY <1>4 DEF WorkIsKept
  <2>2. Vectors!Next \/ UNCHANGED <<stream, vectorRows, call>>
    BY <1>4 DEF HandlersNext, OfResumes, OfEvaluation, all, common
  <2>3. VectorTypes' /\ VectorsAreKept(w)'
    <3>1. CASE Vectors!WorkerStep(w) \/ Vectors!WorkerFault(w)
      BY <2>1, <3>1, VectorWorkerKeeps
    <3>2. CASE ~(Vectors!WorkerStep(w) \/ Vectors!WorkerFault(w))
      BY <2>1, <2>2, <3>2, VectorOthersKeep DEF Vectors!Next, Vectors!Messages, Messages
    <3> QED BY <3>1, <3>2
  <2> QED BY <1>1, <1>4, <2>3 DEF WorkIsKept
<1> QED BY <1>2, <1>3, <1>4 DEF WorkIsKept

\* With a single worker, an analysis, an evaluation or a vectorization shown
\* as running is still owed by its stream, whatever crashed, failed, was
\* retried or acknowledged: for any number of rows, requests, retries,
\* batches and faults (process_message, retry, read_batch).
THEOREM RunningOwed ==
  ASSUME NEW w, Workers = {w}
  PROVE  HandlersSpec => []RunningIsOwed
<1>1. HandlersInit => WorkIsKept(w)
  BY WorkStarts
<1>2. WorkIsKept(w) /\ [HandlersNext]_all => WorkIsKept(w)'
  BY WorkStep
<1>3. WorkIsKept(w) => RunningIsOwed
  <2> SUFFICES ASSUME WorkIsKept(w) PROVE RunningIsOwed
    OBVIOUS
  <2>1. \A t : Resumes!Owed(t) = Owed(t) /\ Vectors!Owed(t) = Owed(t)
    BY DEF Resumes!Owed, Vectors!Owed, Owed, Resumes!Entries, Vectors!Entries, Entries,
       Resumes!Queued, Vectors!Queued, Queued
  <2>2. handler = "resumes" => Resumes!AnalysisIsOwed
    BY <2>1, KeptIsOwed DEF WorkIsKept, AnalysesAreKept, Resumes!AnalysisIsOwed
  <2>3. handler = "vectors" => Vectors!InterruptedWorkIsOwed
    BY <2>1, KeptIsOwed DEF WorkIsKept, VectorsAreKept, Vectors!InterruptedWorkIsOwed
  <2>4. handler = "evaluation" => InterruptedWorkIsOwed
    BY DEF WorkIsKept, Alone, InterruptedWorkIsOwed, Owed, Entries
  <2> QED BY <2>2, <2>3, <2>4 DEF WorkIsKept, RunningIsOwed
<1> QED BY <1>1, <1>2, <1>3, PTL DEF HandlersSpec
=============================================================================

---------------------------- MODULE Models_proofs ----------------------------
(***************************************************************************)
(* Theorems about Models, for any values of its parameters: what a         *)
(* search finds while a knowledge base is vectorized, which implements     *)
(* KnowledgeIndex, the questions that a knowledge base offers, the answers *)
(* to those asked of it, speech recognition, and the keys that lists of    *)
(* models and connections are made with.                                   *)
(***************************************************************************)
EXTENDS Models, TaskStream_proofs
-----------------------------------------------------------------------------
(* Vectorization                                                           *)

\* A request past its first step knows its knowledge base, and one that
\* deletes vectors has deleted the row.
CallsKnow ==
  \A c \in Calls :
    /\ call[c].pc # "idle" => call[c].kb \in Tasks
    /\ call[c].pc = "purge" => vectorStatus[call[c].kb] = "DELETED"

\* An attempt that stores vectors has a job, and nobody else has that one.
JobsAreOwn ==
  \A w \in Workers :
    /\ worker[w].pc \in {"save", "complete", "cleanup"} => job[w] \in Jobs
    /\ \A v \in Workers \ {w} : job[w] \in Jobs => job[v] # job[w]

Typed == TypeOK /\ RetriesFit /\ CallsKnow /\ JobsAreOwn
IInv  == Typed /\ JobsKeepTheirVectors /\ SearchSeesOneJob /\ CompletedIsSearchable

\* The invariant holds in the initial states.
LEMMA VectorizationStarts == Init => IInv
<1> SUFFICES ASSUME Init PROVE IInv
  OBVIOUS
<1>1. StreamInv
  BY StreamStarts DEF Init
<1>2. \A w \in Workers : worker[w].pc = "poll" /\ job[w] = None
  BY DEF Init, StreamInit, IdleWorker
<1>3. Typed
  BY <1>1, <1>2, VectorizationAssumption
     DEF Init, IdleCall, TypeOK, StreamInv, Typed, CallsKnow, JobsAreOwn
<1> QED BY <1>2, <1>3 DEF Init, IInv, JobsKeepTheirVectors, SearchSeesOneJob,
                          CompletedIsSearchable

-----------------------------------------------------------------------------
(* Types                                                                   *)

\* No step breaks what is known of the stream and its workers.
LEMMA StreamIsKept ==
  ASSUME Typed, [Next]_vars
  PROVE  StreamInv'
<1>1. StreamInv
  BY DEF Typed, TypeOK, StreamInv
<1>2. ASSUME NEW c \in Calls, Enqueue(c) \/ EnqueueFails(c)
      PROVE  StreamInv'
  <2>1. call[c].kb \in Tasks
    BY <1>2 DEF Enqueue, EnqueueFails, Typed, CallsKnow
  <2>2. UNCHANGED <<pel, idle, worker>> /\ (UNCHANGED queue \/ Add(call[c].kb, 0))
    BY <1>2 DEF Enqueue, EnqueueFails
  <2> QED BY <1>1, <2>1, <2>2, StreamAdds, StreamStays DEF stream
<1>3. CASE UNCHANGED stream
  BY <1>1, <1>3, StreamStays
<1>4. ASSUME NEW m \in Messages, EntryGrowsIdle(m) PROVE StreamInv'
  BY <1>1, <1>4, StreamGrowsIdle DEF EntryGrowsIdle
<1>5. ASSUME NEW w \in Workers, WorkerStep(w) PROVE StreamInv'
  <2>1. CASE Consume(w)
    BY <1>1, <2>1, StreamConsumes DEF Consume
  <2>2. CASE ShouldSkip(w)
    BY <1>1, <2>2, StreamGoesOn DEF ShouldSkip, WorkerSteps
  <2>3. CASE MarkProcessing(w)
    BY <1>1, <2>3, StreamGoesOn DEF MarkProcessing, WorkerSteps
  <2>4. CASE StartJob(w)
    BY <1>1, <2>4, StreamGoesOn DEF StartJob, WorkerSteps
  <2>5. CASE StoreBatch(w)
    BY <1>1, <2>5, StreamGoesOn DEF StoreBatch, WorkerSteps
  <2>6. CASE CompleteJob(w)
    BY <1>1, <2>6, StreamGoesOn DEF CompleteJob, WorkerSteps
  <2>7. CASE Cleanup(w)
    BY <1>1, <2>7, StreamGoesOn DEF Cleanup, WorkerSteps
  <2>8. CASE Handled(w)
    BY <1>1, <2>8, StreamFails, StreamRetries DEF Handled, Readd
  <2>9. CASE MarkFailed(w)
    BY <1>1, <2>9, StreamGoesOn DEF MarkFailed, WorkerSteps
  <2> QED BY <1>5, <2>1, <2>2, <2>3, <2>4, <2>5, <2>6, <2>7, <2>8, <2>9 DEF WorkerStep
<1>6. ASSUME NEW w \in Workers, WorkerFault(w) PROVE StreamInv'
  <2>1. CASE JobFails(w)
    BY <1>1, <2>1, StreamGoesOn DEF JobFails, WorkerSteps
  <2>2. CASE CallFails(w)
    BY <1>1, <2>2, StreamFails DEF CallFails
  <2>3. CASE RetryFails(w) /\ GoOn(w, "retry", "unqueued")
    BY <1>1, <2>3, StreamGoesOn DEF WorkerSteps
  <2>4. CASE RetryFails(w) /\ ~GoOn(w, "retry", "unqueued")
    BY <1>1, <2>4, StreamRetries DEF RetryFails
  <2>5. CASE MarkRetryFails(w)
    BY <1>1, <2>5, StreamLets DEF MarkRetryFails
  <2>6. CASE WorkerCrash(w)
    BY <1>1, <2>6, StreamLets DEF WorkerCrash
  <2> QED BY <1>6, <2>1, <2>2, <2>3, <2>4, <2>5, <2>6 DEF WorkerFault
<1> QED BY <1>2, <1>3, <1>4, <1>5, <1>6
        DEF Next, CallStep, Upload, Revectorize, AskFor, Delete, MarkUnqueued,
            DeleteVectors, AppCrash, vars

\* The API's steps touch neither pending vectors nor jobs.
LEMMA ApiTypes ==
  ASSUME Typed, NEW c \in Calls,
         Upload(c) \/ Revectorize(c) \/ Delete(c) \/ CallStep(c) \/ EnqueueFails(c)
           \/ AppCrash(c)
  PROVE  /\ vectorStatus' \in [Tasks -> {"NEW", "PENDING", "PROCESSING", "COMPLETED",
                                         "FAILED", "DELETED"}]
         /\ visible' \in [Tasks -> SUBSET Vectors]
         /\ call' \in [Calls -> [pc: {"idle", "enqueue", "unqueued", "purge"},
                                 kb: Tasks \cup {None}]]
         /\ CallsKnow'
         /\ UNCHANGED <<pending, job>>
<1> USE DEF Typed, TypeOK, CallsKnow, IdleCall, Exists
<1>1. ASSUME NEW k \in Tasks, vectorStatus[k] # "DELETED", AskFor(c, k)
      PROVE  /\ vectorStatus' \in [Tasks -> {"NEW", "PENDING", "PROCESSING", "COMPLETED",
                                             "FAILED", "DELETED"}]
             /\ call' \in [Calls -> [pc: {"idle", "enqueue", "unqueued", "purge"},
                                     kb: Tasks \cup {None}]]
             /\ CallsKnow' /\ UNCHANGED index
  BY <1>1 DEF AskFor
<1>2. CASE Upload(c) \/ Revectorize(c)
  BY <1>1, <1>2 DEF Upload, Revectorize, AskFor, index
<1>3. CASE Delete(c) BY <1>3 DEF Delete, index
<1>4. CASE Enqueue(c) BY <1>4 DEF Enqueue, index
<1>5. CASE MarkUnqueued(c) BY <1>5 DEF MarkUnqueued, Updated, index
<1>6. CASE DeleteVectors(c) BY <1>6 DEF DeleteVectors
<1>7. CASE EnqueueFails(c) BY <1>7 DEF EnqueueFails, index
<1>8. CASE AppCrash(c) BY <1>8 DEF AppCrash, index
<1> QED BY <1>2, <1>3, <1>4, <1>5, <1>6, <1>7, <1>8 DEF CallStep

\* A worker's step writes its own task's row and its own job.
LEMMA WorkerTypes ==
  ASSUME Typed, NEW w \in Workers, WorkerStep(w) \/ WorkerFault(w)
  PROVE  /\ vectorStatus' \in [Tasks -> {"NEW", "PENDING", "PROCESSING", "COMPLETED",
                                         "FAILED", "DELETED"}]
         /\ pending' \in [Tasks -> SUBSET Vectors]
         /\ visible' \in [Tasks -> SUBSET Vectors]
         /\ CallsKnow'
         /\ UNCHANGED call
<1> USE DEF Typed, TypeOK, CallsKnow, Exists, Updated
<1>1. CASE UNCHANGED <<vectorStatus, index, call>>
  BY <1>1 DEF index
<1>2. CASE MarkProcessing(w) BY <1>2 DEF MarkProcessing, index
<1>3. CASE MarkFailed(w) BY <1>3 DEF MarkFailed, index
<1>4. CASE StoreBatch(w)
  <2>1. PICK p \in Parts : pending' = [pending EXCEPT ![Task(w)] = @ \cup {<<job[w], p>>}]
    BY <1>4 DEF StoreBatch, Unstored
  <2>2. <<job[w], p>> \in Vectors
    BY <1>4, <2>1 DEF StoreBatch, JobsAreOwn, Vectors
  <2> QED BY <1>4, <2>1, <2>2 DEF StoreBatch
<1>5. CASE CompleteJob(w)
  <2>1. \A k \in Tasks : JobRows(w, k) \in SUBSET Vectors
    BY DEF JobRows
  <2>2. Task(w) \in Tasks
    BY <1>5, TaskType DEF CompleteJob, GoOn
  <2>3. pending' \in [Tasks -> SUBSET Vectors]
    BY <1>5 DEF CompleteJob, WithoutJob
  <2>4. visible' \in [Tasks -> SUBSET Vectors]
    BY <1>5, <2>1, <2>2 DEF CompleteJob, PromotedTo
  <2> QED BY <1>5, <2>3, <2>4 DEF CompleteJob
<1>6. CASE Cleanup(w)
  BY <1>6 DEF Cleanup, WithoutJob, JobRows
<1> QED BY <1>1, <1>2, <1>3, <1>4, <1>5, <1>6
        DEF WorkerStep, WorkerFault, Consume, ShouldSkip, StartJob, Handled, JobFails,
            CallFails, RetryFails, MarkRetryFails, WorkerCrash, index

\* The job id a worker holds is in use.
LEMMA UsedByWorker == \A v \in Workers : job[v] \in UsedJobs
BY DEF UsedJobs

\* A job is drawn for one worker, that stores, completes and cleans up for it.
LEMMA JobsAreKept ==
  ASSUME Typed, NEW w \in Workers, WorkerStep(w) \/ WorkerFault(w)
  PROVE  job' \in [Workers -> Jobs \cup {None}] /\ JobsAreOwn'
<1> USE DEF Typed, TypeOK, StreamTypeOK, JobsAreOwn
<1>1. CASE StartJob(w)
  <2>1. CASE Exists(Task(w))
    <3>1. PICK j \in Jobs \ UsedJobs : job' = [job EXCEPT ![w] = j]
      BY <1>1, <2>1 DEF StartJob
    <3>2. \A v \in Workers : job[v] # j
      BY <3>1, UsedByWorker
    <3> QED BY <1>1, <3>1, <3>2 DEF StartJob, GoOn
  <2>2. CASE ~Exists(Task(w))
    BY <1>1, <2>2 DEF StartJob, GoOn
  <2> QED BY <2>1, <2>2
<1>2. CASE StoreBatch(w)
  <2>1. worker[w].pc = "save" /\ UNCHANGED job
    BY <1>2 DEF StoreBatch
  <2>2. \E to \in {"save", "complete"} : worker' = [worker EXCEPT ![w].pc = to]
    BY <1>2 DEF StoreBatch, GoOn
  <2> QED BY <2>1, <2>2
<1>3. CASE CompleteJob(w) \/ Cleanup(w)
  <2>1. /\ \E to \in {"ack", "failed"} : worker' = [worker EXCEPT ![w].pc = to]
        /\ job' = [job EXCEPT ![w] = None]
    BY <1>3 DEF CompleteJob, Cleanup, GoOn
  <2> QED BY <2>1, VectorizationAssumption
<1>4. CASE JobFails(w)
  BY <1>4 DEF JobFails, GoOn
<1>5. CASE WorkerCrash(w)
  BY <1>5, VectorizationAssumption DEF WorkerCrash, Crash, IdleWorker
<1>6. CASE /\ UNCHANGED job
           /\ \A v \in Workers : worker'[v].pc \in {"save", "complete", "cleanup"}
                                    => worker'[v].pc = worker[v].pc
  BY <1>6
<1>7. CASE Consume(w)
  <2>1. CASE Reclaim(w) \/ Read(w)
    <3>1. \E batch : worker' = [worker EXCEPT ![w].hand = batch]
      BY <2>1, Zenon DEF Reclaim, Read
    <3>2. \A v \in Workers : worker'[v].pc = worker[v].pc
      BY <3>1
    <3> QED BY <1>6, <1>7, <3>2 DEF Consume
  <2>2. CASE Take(w) \/ Ack(w)
    BY <1>6, <1>7, <2>2 DEF Consume, Take, Ack
  <2> QED BY <1>7, <2>1, <2>2 DEF Consume
<1>8. CASE ShouldSkip(w) \/ MarkProcessing(w) \/ MarkFailed(w)
  BY <1>6, <1>8 DEF ShouldSkip, MarkProcessing, MarkFailed, GoOn
<1>9. CASE Handled(w)
  BY <1>6, <1>9 DEF Handled, Failed, AfterFailure, Readd, GoOn
<1>10. CASE CallFails(w)
  BY <1>6, <1>10 DEF CallFails, Raised
<1>11. CASE RetryFails(w)
  BY <1>6, <1>11 DEF RetryFails, GoOn
<1>12. CASE MarkRetryFails(w)
  BY <1>6, <1>12 DEF MarkRetryFails, Preserve
<1> QED BY <1>1, <1>2, <1>3, <1>4, <1>5, <1>7, <1>8, <1>9, <1>10, <1>11, <1>12
        DEF WorkerStep, WorkerFault

\* No step exceeds the bound on faults.
LEMMA FaultsAreCounted ==
  ASSUME Typed, [Next]_vars
  PROVE  faults' \in 0 .. MaxFaults
<1>1. faults \in 0 .. MaxFaults /\ MaxFaults \in Nat
  BY VectorizationAssumption DEF Typed, TypeOK
<1>2. UNCHANGED faults \/ Fault
  BY DEF Next, vars, CallStep, Upload, Revectorize, AskFor, Delete, Enqueue, EnqueueFails,
         MarkUnqueued, DeleteVectors, AppCrash, WorkerStep, WorkerFault, Consume, ShouldSkip,
         MarkProcessing, StartJob, StoreBatch, CompleteJob, Cleanup, Handled, MarkFailed,
         JobFails, CallFails, RetryFails, MarkRetryFails, WorkerCrash, EntryGrowsIdle
<1> QED BY <1>1, <1>2 DEF Fault

\* Types, retries, the requests' locals and the workers' own job ids are inductive
\* together.
LEMMA TypesAreKept == Typed /\ [Next]_vars => Typed'
<1> SUFFICES ASSUME Typed, [Next]_vars PROVE Typed'
  OBVIOUS
<1>1. StreamTypeOK' /\ RetriesFit' /\ faults' \in 0 .. MaxFaults
  BY StreamIsKept, FaultsAreCounted DEF StreamInv
<1>2. CASE UNCHANGED vars \/ \E m \in Messages : EntryGrowsIdle(m)
  <2>1. UNCHANGED <<vectorStatus, pending, visible, job, call, worker>>
    BY <1>2 DEF vars, stream, index, EntryGrowsIdle, GrowsIdle
  <2> QED BY <1>1, <2>1 DEF Typed, TypeOK, CallsKnow, JobsAreOwn
<1>3. ASSUME NEW c \in Calls,
             Upload(c) \/ Revectorize(c) \/ Delete(c) \/ CallStep(c) \/ EnqueueFails(c)
               \/ AppCrash(c)
      PROVE  Typed'
  <2>1. UNCHANGED worker
    BY <1>3 DEF CallStep, Upload, Revectorize, AskFor, Delete, Enqueue, EnqueueFails,
                MarkUnqueued, DeleteVectors, AppCrash, stream
  <2> QED BY <1>1, <1>3, <2>1, ApiTypes DEF Typed, TypeOK, JobsAreOwn
<1>4. ASSUME NEW w \in Workers, WorkerStep(w) \/ WorkerFault(w) PROVE Typed'
  BY <1>1, <1>4, WorkerTypes, JobsAreKept DEF Typed, TypeOK
<1> QED BY <1>2, <1>3, <1>4 DEF Next

-----------------------------------------------------------------------------
(* What a search finds                                                     *)

\* A worker's batches.
LEMMA StoreKeeps ==
  ASSUME IInv, NEW w \in Workers, StoreBatch(w)
  PROVE  JobsKeepTheirVectors'
<1> USE DEF IInv, Typed, TypeOK, StreamTypeOK, JobsKeepTheirVectors
<1>1. PICK p \in Unstored(w) :
        /\ pending' = [pending EXCEPT ![Task(w)] = @ \cup {<<job[w], p>>}]
        /\ GoOn(w, "save", IF Unstored(w) = {p} THEN "complete" ELSE "save")
        /\ UNCHANGED job
  BY DEF StoreBatch
<1>2. Task(w) \in Tasks
  BY TaskType DEF StoreBatch
<1>3. \A k \in Tasks : pending[k] \subseteq pending'[k]
  BY <1>1, <1>2
<1>4. \A v \in Workers : Task(v)' = Task(v)
  BY <1>1 DEF GoOn, Task
<1>5. ASSUME NEW v \in Workers, v # w, worker'[v].pc = "complete"
      PROVE  Of(job'[v]) \subseteq pending'[Task(v)']
  <2>1. worker[v].pc = "complete" /\ Task(v) \in Tasks /\ job'[v] = job[v]
    BY <1>1, <1>5, TaskType DEF GoOn
  <2>2. Of(job[v]) \subseteq pending[Task(v)]
    BY <2>1
  <2> QED BY <1>3, <1>4, <2>1, <2>2
<1>6. ASSUME worker'[w].pc = "complete"
      PROVE  Of(job'[w]) \subseteq pending'[Task(w)']
  <2>1. Unstored(w) = {p}
    BY <1>1, <1>6 DEF GoOn
  <2>2. \A q \in Parts \ {p} : <<job[w], q>> \in pending[Task(w)]
    <3> SUFFICES ASSUME NEW q \in Parts, q # p
                 PROVE  <<job[w], q>> \in pending[Task(w)]
      OBVIOUS
    <3>1. q \in Stored(w)
      BY <2>1 DEF Unstored
    <3>2. PICK u \in pending[Task(w)] : u[1] = job[w] /\ u[2] = q
      BY <3>1 DEF Stored
    <3>3. u \in Vectors
      BY <1>2, <3>2
    <3>4. PICK a \in Jobs, b \in Parts : u = <<a, b>>
      BY <3>3 DEF Vectors
    <3>5. a = job[w] /\ b = q
      BY <3>2, <3>4
    <3> QED BY <3>2, <3>4, <3>5
  <2>3. \A q \in Parts : <<job[w], q>> \in pending'[Task(w)]
    BY <1>1, <1>2, <2>2
  <2>4. Of(job[w]) \subseteq pending'[Task(w)]
    BY <2>3 DEF Of
  <2> QED BY <1>1, <1>4, <2>4
<1> QED BY <1>5, <1>6 DEF Task

\* Removing one worker's rows leaves the others' alone.
LEMMA RemovalKeeps ==
  ASSUME IInv, NEW w \in Workers, CompleteJob(w) \/ Cleanup(w)
  PROVE  JobsKeepTheirVectors'
<1> USE DEF IInv, Typed, TypeOK, StreamTypeOK, JobsKeepTheirVectors
<1>1. /\ pending' = WithoutJob(w) \/ pending' = pending
      /\ job' = [job EXCEPT ![w] = None]
      /\ worker[w].pc \in {"complete", "cleanup"}
      /\ \E to \in {"ack", "failed"} : worker' = [worker EXCEPT ![w].pc = to]
  BY DEF CompleteJob, Cleanup, GoOn
<1> SUFFICES ASSUME NEW v \in Workers, worker'[v].pc = "complete"
             PROVE  Of(job'[v]) \subseteq pending'[Task(v)']
  BY DEF Task
<1>2. v # w /\ worker[v].pc = "complete" /\ job'[v] = job[v] /\ Task(v)' = Task(v)
  BY <1>1 DEF Task
<1>3. job[v] # job[w] /\ Task(v) \in Tasks
  BY <1>1, <1>2, TaskType DEF JobsAreOwn
<1>4. Of(job[v]) \subseteq pending[Task(v)]
  BY <1>2
<1>5. \A x \in Of(job[v]) : x[1] # job[w]
  BY <1>3 DEF Of
<1> QED BY <1>1, <1>2, <1>3, <1>4, <1>5 DEF WithoutJob, JobRows

\* A batch is stored only under the job of the attempt that stores it.
LEMMA JobsKeep ==
  ASSUME IInv, [Next]_vars
  PROVE  JobsKeepTheirVectors'
<1> USE DEF IInv, Typed, TypeOK, StreamTypeOK, JobsKeepTheirVectors
<1>1. ASSUME /\ UNCHANGED pending
             /\ \A w \in Workers : worker'[w].pc = "complete" =>
                  /\ worker[w].pc = "complete"
                  /\ worker'[w].msg = worker[w].msg
                  /\ job'[w] = job[w]
      PROVE  JobsKeepTheirVectors'
  BY <1>1 DEF Task
<1>2. CASE UNCHANGED <<worker, pending, job>>
  BY <1>1, <1>2
<1>3. ASSUME NEW w \in Workers, WorkerStep(w) PROVE JobsKeepTheirVectors'
  <2>1. CASE StoreBatch(w) BY <2>1, StoreKeeps
  <2>2. CASE CompleteJob(w) \/ Cleanup(w) BY <2>2, RemovalKeeps
  <2>3. CASE Consume(w)
    <3>1. CASE Reclaim(w) \/ Read(w) \/ Take(w)
      BY <1>1, <2>3, <3>1 DEF Consume, Reclaim, Read, Take, index
    <3>2. CASE Ack(w)
      BY <1>1, <2>3, <3>2 DEF Consume, Ack, index
    <3> QED BY <2>3, <3>1, <3>2 DEF Consume
  <2>4. CASE ShouldSkip(w) \/ MarkProcessing(w) \/ MarkFailed(w)
    BY <1>1, <2>4 DEF ShouldSkip, MarkProcessing, MarkFailed, GoOn, index
  <2>5. CASE StartJob(w)
    BY <1>1, <2>5 DEF StartJob, GoOn, index
  <2>6. CASE Handled(w)
    BY <1>1, <2>6 DEF Handled, Failed, AfterFailure, Readd, GoOn, index
  <2> QED BY <1>3, <2>1, <2>2, <2>3, <2>4, <2>5, <2>6 DEF WorkerStep
<1>4. ASSUME NEW w \in Workers, WorkerFault(w) PROVE JobsKeepTheirVectors'
  <2>1. CASE JobFails(w) BY <1>1, <2>1 DEF JobFails, GoOn, index
  <2>2. CASE CallFails(w) BY <1>1, <2>2 DEF CallFails, Raised, index
  <2>3. CASE RetryFails(w) BY <1>1, <2>3 DEF RetryFails, GoOn, index
  <2>4. CASE MarkRetryFails(w) BY <1>1, <2>4 DEF MarkRetryFails, Preserve, index
  <2>5. CASE WorkerCrash(w) BY <1>1, <2>5 DEF WorkerCrash, Crash, IdleWorker, index
  <2> QED BY <1>4, <2>1, <2>2, <2>3, <2>4, <2>5 DEF WorkerFault
<1> QED BY <1>2, <1>3, <1>4
        DEF Next, vars, stream, index, CallStep, Upload, Revectorize, AskFor, Delete,
            Enqueue, EnqueueFails, MarkUnqueued, DeleteVectors, AppCrash, EntryGrowsIdle,
            GrowsIdle

\* What a step may do to what a search finds and to the status of knowledge
\* base k: nothing, a status that is not COMPLETED, deletion, purge, or the
\* promotion of one whole job.
Same(k)     == vectorStatus'[k] = vectorStatus[k] /\ visible'[k] = visible[k]
Marks(k)    == /\ vectorStatus[k] # "DELETED" /\ vectorStatus'[k] \notin {"COMPLETED", "DELETED"}
               /\ visible'[k] = visible[k]
Leaves(k)   == /\ vectorStatus[k] # "DELETED" /\ vectorStatus'[k] = "DELETED"
               /\ visible'[k] = visible[k]
Purges(k)   == /\ vectorStatus[k] = "DELETED" /\ vectorStatus'[k] = "DELETED"
               /\ visible'[k] = {}
Replaces(k) == /\ vectorStatus[k] # "DELETED" /\ vectorStatus'[k] = "COMPLETED"
               /\ \E j \in Jobs : visible'[k] = Of(j)

\* A step that promotes at all promotes everything there is of a job.
LEMMA PromotionIsWhole ==
  ASSUME IInv, NEW w \in Workers, worker[w].pc = "complete"
  PROVE  PromotedTo(w, Task(w)) = Of(job[w])
<1> USE DEF IInv, Typed, TypeOK
<1>1. Task(w) \in Tasks
  BY TaskType
<1>2. Of(job[w]) \subseteq pending[Task(w)] /\ pending[Task(w)] \subseteq Vectors
  BY <1>1 DEF JobsKeepTheirVectors
<1>3. ASSUME NEW x \in Of(job[w]) PROVE x \in PromotedTo(w, Task(w))
  BY <1>2, <1>3 DEF Of, PromotedTo, JobRows
<1>4. ASSUME NEW x \in PromotedTo(w, Task(w)) PROVE x \in Of(job[w])
  <2>1. x \in Vectors /\ x[1] = job[w]
    BY <1>2, <1>4 DEF PromotedTo, JobRows
  <2> QED BY <2>1 DEF Vectors, Of
<1> QED BY <1>3, <1>4

\* Every step leaves all knowledge bases as they are, or changes one in one of four ways.
LEMMA IndexMoves ==
  ASSUME IInv, [Next]_vars
  PROVE  \/ \A k \in Tasks : Same(k)
         \/ \E k \in Tasks : /\ Marks(k) \/ Leaves(k) \/ Purges(k) \/ Replaces(k)
                             /\ \A l \in Tasks \ {k} : Same(l)
<1> USE DEF IInv, Typed, TypeOK
<1>1. CASE UNCHANGED <<vectorStatus, visible>>
  BY <1>1 DEF Same
<1>2. ASSUME NEW k \in Tasks, NEW value \in {"PENDING", "PROCESSING", "FAILED"},
             vectorStatus[k] # "DELETED",
             vectorStatus' = [vectorStatus EXCEPT ![k] = value], UNCHANGED visible
      PROVE  Marks(k) /\ \A l \in Tasks \ {k} : Same(l)
  BY <1>2 DEF Marks, Same
<1>3. ASSUME NEW c \in Calls, Upload(c) \/ Revectorize(c)
      PROVE  \E k \in Tasks : Marks(k) /\ \A l \in Tasks \ {k} : Same(l)
  BY <1>2, <1>3 DEF Upload, Revectorize, AskFor, Exists, index
<1>4. ASSUME NEW c \in Calls, MarkUnqueued(c), ~UNCHANGED vectorStatus
      PROVE  \E k \in Tasks : Marks(k) /\ \A l \in Tasks \ {k} : Same(l)
  BY <1>2, <1>4 DEF MarkUnqueued, Updated, Exists, index, CallsKnow
<1>5. ASSUME NEW c \in Calls, Delete(c)
      PROVE  \E k \in Tasks : Leaves(k) /\ \A l \in Tasks \ {k} : Same(l)
  BY <1>5 DEF Delete, Exists, Leaves, Same, index
<1>6. ASSUME NEW c \in Calls, DeleteVectors(c)
      PROVE  \E k \in Tasks : Purges(k) /\ \A l \in Tasks \ {k} : Same(l)
  BY <1>6 DEF DeleteVectors, Purges, Same, CallsKnow
<1>7. ASSUME NEW w \in Workers, MarkProcessing(w) \/ MarkFailed(w), ~UNCHANGED vectorStatus
      PROVE  \E k \in Tasks : Marks(k) /\ \A l \in Tasks \ {k} : Same(l)
  <2>1. Task(w) \in Tasks
    BY <1>7, TaskType DEF MarkProcessing, MarkFailed, GoOn
  <2> QED BY <1>2, <1>7, <2>1 DEF MarkProcessing, MarkFailed, Updated, Exists, index
<1>8. ASSUME NEW w \in Workers, CompleteJob(w), ~UNCHANGED <<vectorStatus, visible>>
      PROVE  \E k \in Tasks : Replaces(k) /\ \A l \in Tasks \ {k} : Same(l)
  <2>1. worker[w].pc = "complete"
    BY <1>8 DEF CompleteJob, GoOn
  <2>2. Task(w) \in Tasks /\ job[w] \in Jobs
    BY <2>1, TaskType DEF JobsAreOwn
  <2>3. Exists(Task(w))
    BY <1>8 DEF CompleteJob, Promotes, Updated
  <2>4. visible' = [visible EXCEPT ![Task(w)] = Of(job[w])]
    BY <1>8, <2>1, <2>3, PromotionIsWhole DEF CompleteJob, Promotes
  <2>5. vectorStatus' = [vectorStatus EXCEPT ![Task(w)] = "COMPLETED"]
    BY <1>8, <2>3 DEF CompleteJob, Updated
  <2>6. Replaces(Task(w)) /\ \A l \in Tasks \ {Task(w)} : Same(l)
    BY <2>2, <2>3, <2>4, <2>5 DEF Replaces, Same, Exists
  <2> QED BY <2>2, <2>6
<1>9. ASSUME NEW w \in Workers, WorkerStep(w) \/ WorkerFault(w),
             ~(MarkProcessing(w) \/ MarkFailed(w) \/ CompleteJob(w))
      PROVE  UNCHANGED <<vectorStatus, visible>>
  BY <1>9 DEF WorkerStep, WorkerFault, Consume, ShouldSkip, StartJob, StoreBatch, Cleanup,
              Handled, JobFails, CallFails, RetryFails, MarkRetryFails, WorkerCrash, index
<1>10. ASSUME NEW c \in Calls, Enqueue(c) \/ EnqueueFails(c) \/ AppCrash(c)
       PROVE  UNCHANGED <<vectorStatus, visible>>
  BY <1>10 DEF Enqueue, EnqueueFails, AppCrash, index
<1>11. ASSUME NEW m \in Messages, EntryGrowsIdle(m) PROVE UNCHANGED <<vectorStatus, visible>>
  BY <1>11 DEF EntryGrowsIdle, index
<1>12. ASSUME NEW c \in Calls, MarkUnqueued(c) PROVE UNCHANGED visible
  BY <1>12 DEF MarkUnqueued, index
<1>13. ASSUME NEW w \in Workers, MarkProcessing(w) \/ MarkFailed(w) PROVE UNCHANGED visible
  BY <1>13 DEF MarkProcessing, MarkFailed, index
<1> QED BY <1>1, <1>3, <1>4, <1>5, <1>6, <1>7, <1>8, <1>9, <1>10, <1>11, <1>12, <1>13
        DEF Next, vars, index, CallStep

\* A job has at least one vector.
LEMMA OfJobIsSomething == ASSUME NEW j \in Jobs PROVE Of(j) # {}
<1>1. <<j, 1>> \in Of(j)
  BY VectorizationAssumption DEF Of, Parts
<1> QED BY <1>1

\* Every step preserves the invariant.
LEMMA VectorizationKeeps == IInv /\ [Next]_vars => IInv'
<1> SUFFICES ASSUME IInv, [Next]_vars PROVE IInv'
  OBVIOUS
<1>1. Typed' /\ JobsKeepTheirVectors'
  BY TypesAreKept, JobsKeep DEF IInv
<1>2. \A k \in Tasks : Same(k) \/ Marks(k) \/ Leaves(k) \/ Purges(k) \/ Replaces(k)
  BY IndexMoves
<1>3. SearchSeesOneJob'
  BY <1>2 DEF IInv, SearchSeesOneJob, Same, Marks, Leaves, Purges, Replaces
<1>4. CompletedIsSearchable'
  BY <1>2, OfJobIsSomething
     DEF IInv, CompletedIsSearchable, Same, Marks, Leaves, Purges, Replaces
<1> QED BY <1>1, <1>3, <1>4 DEF IInv

\* The invariant holds in every reachable state.
LEMMA VectorizationInvariant == Spec => []IInv
BY VectorizationStarts, VectorizationKeeps, PTL DEF Spec

-----------------------------------------------------------------------------
\* Every reachable state is well typed.
THEOREM TypeCorrect == Spec => []TypeOK
<1>1. IInv => TypeOK
  BY DEF IInv, Typed
<1> QED BY <1>1, VectorizationInvariant, PTL

\* A knowledge base shown as COMPLETED can be searched, whatever attempts,
\* duplicates and deletions ran beside the one that completed it
\* (complete_job, cleanup_job, delete_vectors).
THEOREM CompletedMeansSearchable == Spec => []CompletedIsSearchable
<1>1. IInv => CompletedIsSearchable
  BY DEF IInv
<1> QED BY <1>1, VectorizationInvariant, PTL

\* A search never finds a part of a job or parts of two, and no attempt's
\* clean-up takes another's vectors (promote_vector_job, cleanup_job).
THEOREM JobsDoNotMix == Spec => [](SearchSeesOneJob /\ JobsKeepTheirVectors)
<1>1. IInv => SearchSeesOneJob /\ JobsKeepTheirVectors
  BY DEF IInv
<1> QED BY <1>1, VectorizationInvariant, PTL

-----------------------------------------------------------------------------
(* Refinement                                                              *)

\* The vectorization a search finds, as a mapping of what is visible.
IndexOf(found) == IF found = {} THEN None ELSE CHOOSE j \in Jobs : Of(j) \subseteq found

\* A search that finds all vectors of one job finds that job, as KnowledgeIndex sees it.
LEMMA WholeJobIsItsIndex == ASSUME NEW j \in Jobs PROVE IndexOf(Of(j)) = j
<1>1. Of(j) # {}
  BY OfJobIsSomething
<1>2. ASSUME NEW i \in Jobs, Of(i) \subseteq Of(j) PROVE i = j
  <2>1. <<i, 1>> \in Of(i)
    BY VectorizationAssumption DEF Of, Parts
  <2>2. <<i, 1>> \in Of(j)
    BY <1>2, <2>1
  <2> QED BY <2>2 DEF Of
<1>3. (CHOOSE i \in Jobs : Of(i) \subseteq Of(j)) = j
  BY <1>2
<1> QED BY <1>1, <1>3 DEF IndexOf

\* Attempts, retries, deletions and clean-ups, however they interleave, do no
\* more than replace one whole job by another at once (complete_job, delete,
\* promote_vector_job).
THEOREM IndexIsReplacedAtOnce == Spec => SearchIsAtomic
<1>1. /\ indexBar = [k \in Tasks |-> IndexOf(visible[k])]
      /\ indexBar' = [k \in Tasks |-> IndexOf(visible'[k])]
  BY DEF indexBar, IndexOf
<1>2. Init => Index!Init
  BY DEF Init, Index!Init, indexBar, goneBar
<1>3. ASSUME IInv, [Next]_vars PROVE [Index!Next]_<<indexBar, goneBar>>
  <2>1. ASSUME NEW k \in Tasks, Same(k) \/ Marks(k) \/ Leaves(k)
        PROVE  visible'[k] = visible[k]
    BY <2>1 DEF Same, Marks, Leaves
  <2>2. CASE \A k \in Tasks : Same(k)
    <3>1. indexBar' = indexBar
      BY <1>1, <2>1, <2>2
    <3>2. goneBar' = goneBar
      BY <2>2 DEF goneBar, Same
    <3> QED BY <3>1, <3>2
  <2>3. ASSUME NEW k \in Tasks, \A l \in Tasks \ {k} : Same(l)
        PROVE  indexBar' = [indexBar EXCEPT ![k] = IndexOf(visible'[k])]
    BY <1>1, <2>1, <2>3
  <2>4. ASSUME NEW k \in Tasks, \A l \in Tasks \ {k} : Same(l), Marks(k)
        PROVE  UNCHANGED <<indexBar, goneBar>>
    <3>1. indexBar' = indexBar
      BY <1>1, <2>1, <2>4
    <3>2. goneBar' = goneBar
      BY <2>4 DEF goneBar, Same, Marks
    <3> QED BY <3>1, <3>2
  <2>5. ASSUME NEW k \in Tasks, \A l \in Tasks \ {k} : Same(l), Leaves(k)
        PROVE  Index!Next
    <3>1. indexBar' = indexBar
      BY <1>1, <2>1, <2>5
    <3>2. k \notin goneBar /\ goneBar' = goneBar \cup {k}
      BY <2>5 DEF goneBar, Same, Leaves
    <3> QED BY <3>1, <3>2 DEF Index!Next, Index!Remove
  <2>6. ASSUME NEW k \in Tasks, \A l \in Tasks \ {k} : Same(l), Purges(k)
        PROVE  Index!Next
    <3>1. IndexOf(visible'[k]) = None
      BY <2>6 DEF Purges, IndexOf
    <3>2. k \in goneBar /\ goneBar' = goneBar
      BY <2>6 DEF goneBar, Same, Purges
    <3> QED BY <2>3, <2>6, <3>1, <3>2 DEF Index!Next, Index!Purge
  <2>7. ASSUME NEW k \in Tasks, \A l \in Tasks \ {k} : Same(l), Replaces(k)
        PROVE  Index!Next
    <3>1. PICK j \in Jobs : visible'[k] = Of(j)
      BY <2>7 DEF Replaces
    <3>2. IndexOf(visible'[k]) = j
      BY <3>1, WholeJobIsItsIndex
    <3>3. k \notin goneBar /\ goneBar' = goneBar
      BY <2>7 DEF goneBar, Same, Replaces
    <3> QED BY <2>3, <2>7, <3>2, <3>3 DEF Index!Next, Index!Replace
  <2> QED BY <1>3, <2>2, <2>4, <2>5, <2>6, <2>7, IndexMoves
<1> QED BY <1>2, <1>3, VectorizationInvariant, PTL DEF Spec, SearchIsAtomic, Index!Spec

-----------------------------------------------------------------------------
(* The question bank                                                       *)

\* The bank counts as FiniteSets does.
LEMMA BankCounts == \A S : Bank!Cardinality(S) = Cardinality(S)
BY Zenon DEF Bank!Cardinality, Cardinality

\* The order that is chosen is one.
LEMMA InOrderOrders ==
  ASSUME NEW K \in SUBSET Nat, IsFiniteSet(K)
  PROVE  Orders(Bank!InOrder(K), K)
<1> DEFINE F == [1 .. Cardinality(K) -> K]
           s == CHOOSE t \in F : \A j, k \in DOMAIN t : j < k => t[j] < t[k]
<1>1. PICK t : Orders(t, K)
  BY OrderExists
<1>2. t \in F /\ \A j, k \in DOMAIN t : j < k => t[j] < t[k]
  BY <1>1 DEF Orders
<1>3. s \in F /\ \A j, k \in DOMAIN s : j < k => s[j] < s[k]
  BY <1>2
<1>4. Bank!InOrder(K) = s
  BY BankCounts DEF Bank!InOrder
<1> HIDE DEF s
<1> QED BY <1>3, <1>4 DEF Orders

\* What an answer's questions come to.
LEMMA BuiltRows ==
  ASSUME NEW answer \in Bank!Answers, NEW t
  PROVE  LET rows_ == Bank!Built(answer, t)
         IN  /\ Len(rows_) \in Nat /\ DOMAIN rows_ = 1 .. Len(rows_)
             /\ \A n \in 1 .. Len(rows_) :
                  /\ DOMAIN rows_[n] = {"text", "category", "status", "from"}
                  /\ rows_[n].category = Bank!Trim(rows_[n].category)
                  /\ rows_[n].from = t
             /\ \A m, n \in 1 .. Len(rows_) : m # n => rows_[m].text[1] # rows_[n].text[1]
<1> DEFINE K == Bank!Kept(answer)
           kept == Bank!InOrder(K)
           built == Bank!Built(answer, t)
<1>1. PICK n \in Nat : DOMAIN answer = 1 .. n
  BY ModelsAssumption DEF Bank!Answers, Bank!BankAssumption
<1>2. K \subseteq 1 .. n
  BY <1>1 DEF Bank!Kept
<1>3. IsFiniteSet(K) /\ K \in SUBSET Nat
  <2>1. IsFiniteSet(1 .. n)
    BY <1>1, FS_Interval
  <2> QED BY <1>2, <2>1, FS_Subset
<1>4. Orders(kept, K) /\ Cardinality(K) \in Nat
  BY <1>3, InOrderOrders, FS_CardinalityType
<1> DEFINE size == Cardinality(K)
           row_(k) == [text |-> answer[kept[k]][1], category |-> Bank!Direction(answer[kept[k]][2]),
                       status |-> "DRAFT", from |-> t]
<1>5. kept \in [1 .. size -> K]
  BY <1>4 DEF Orders
<1>6. built = [k \in 1 .. size |-> row_(k)]
  BY <1>5 DEF Bank!Built
<1>7. /\ \A k \in K : answer[k] # <<>>
      /\ \A k \in K : \A j \in 1 .. k - 1 : answer[j] # <<>> => answer[j][1][1] # answer[k][1][1]
  BY DEF Bank!Kept
<1>8. \A typed : Bank!Direction(typed) = Bank!Trim(Bank!Direction(typed))
  <2>1. \A a : Bank!Trim(<<a, FALSE>>) = <<a, FALSE>>
    BY DEF Bank!Trim
  <2>2. \A typed : Bank!Direction(typed) = <<Bank!DefaultName, FALSE>> \/ Bank!Direction(typed) = <<typed[1], FALSE>>
    BY DEF Bank!Direction, Bank!Trim
  <2> QED BY <2>1, <2>2
<1>9. \A j, k \in 1 .. size : j < k => answer[kept[j]][1][1] # answer[kept[k]][1][1]
  <2> SUFFICES ASSUME NEW j \in 1 .. size, NEW k \in 1 .. size, j < k
               PROVE  answer[kept[j]][1][1] # answer[kept[k]][1][1]
    OBVIOUS
  <2>1. kept[j] < kept[k] /\ kept[j] \in K /\ kept[k] \in K
    BY <1>4, <1>5 DEF Orders
  <2>2. kept[j] \in 1 .. kept[k] - 1
    BY <1>1, <1>2, <2>1
  <2> QED BY <1>7, <2>1, <2>2
<1> HIDE DEF built, kept, K, size
<1>10. DOMAIN built = 1 .. size /\ size \in Nat
  BY <1>4, <1>6 DEF size
<1>11. Len(built) = size
  BY <1>6, <1>10
<1>12. \A k \in 1 .. size : built[k] = row_(k)
  BY <1>6
<1>13. \A j, k \in 1 .. size : j # k => built[j].text[1] # built[k].text[1]
  <2> SUFFICES ASSUME NEW j \in 1 .. size, NEW k \in 1 .. size, j # k
               PROVE  built[j].text[1] # built[k].text[1]
    OBVIOUS
  <2>1. built[j].text = answer[kept[j]][1] /\ built[k].text = answer[kept[k]][1]
    <3>1. built[j] = row_(j) /\ built[k] = row_(k)
      BY <1>12
    <3> QED BY <3>1
  <2>2. j < k \/ k < j
    BY <1>10
  <2> QED BY <1>9, <2>1, <2>2
<1>14. \A k \in 1 .. size :
         /\ DOMAIN built[k] = {"text", "category", "status", "from"}
         /\ built[k].category = Bank!Trim(built[k].category)
         /\ built[k].from = t
  <2> SUFFICES ASSUME NEW k \in 1 .. size
               PROVE  /\ DOMAIN built[k] = {"text", "category", "status", "from"}
                      /\ built[k].category = Bank!Trim(built[k].category)
                      /\ built[k].from = t
    OBVIOUS
  <2>1. built[k] = row_(k)
    BY <1>12
  <2>2. built[k].category = Bank!Direction(answer[kept[k]][2]) /\ built[k].from = t
    BY <2>1
  <2>3. DOMAIN built[k] = {"text", "category", "status", "from"}
    BY <2>1
  <2> QED BY <1>8, <2>2, <2>3
<1> QED BY <1>10, <1>11, <1>13, <1>14 DEF built

\* A direction is stored trimmed, by whoever stores it.
RowHolds(r) == "category" \in DOMAIN r /\ "from" \in DOMAIN r /\ r.category = Bank!Trim(r.category)

\* Questions that are of one task and not each other's duplicates.
RowsOf(new, t) ==
  /\ Len(new) \in Nat /\ DOMAIN new = 1 .. Len(new)
  /\ \A n \in 1 .. Len(new) : RowHolds(new[n]) /\ new[n].from = t
  /\ \A m, n \in 1 .. Len(new) : m # n => new[m].text[1] # new[n].text[1]

\* The questions generated are one task's.
FromOne == \A i, j \in DOMAIN bank : bank[i].from # 0 /\ bank[j].from # 0 => bank[i].from = bank[j].from

BankInv ==
  /\ nextId \in Nat
  /\ \A i \in DOMAIN bank : RowHolds(bank[i])
  /\ FromOne
  /\ attempt = [w \in Workers |-> attempt[w]]
  /\ \A w \in Workers : attempt[w].pc = "replace" => RowsOf(attempt[w].rows, attempt[w].task)
  /\ edit = [c \in Calls |-> edit[c]]
  /\ \A c \in Calls : edit[c].pc = "update" => DOMAIN edit[c].change \subseteq {"text", "category", "status"}

\* The bank begins empty.
LEMMA BankStarts == Bank!Init => BankInv
<1> SUFFICES ASSUME Bank!Init PROVE BankInv
  OBVIOUS
<1>1. DOMAIN bank = {}
  BY DEF Bank!Init
<1> QED BY <1>1 DEF Bank!Init, Bank!IdleAttempt, Bank!IdleCall, BankInv, FromOne

\* A step of a request that leaves the bank.
LEMMA CallKeepsBank ==
  ASSUME BankInv, NEW c \in Calls, NEW to, edit' = [edit EXCEPT ![c] = to],
         to.pc = "update" => DOMAIN to.change \subseteq {"text", "category", "status"},
         nextId' \in Nat, UNCHANGED attempt,
         \A i \in DOMAIN bank' : RowHolds(bank'[i]), FromOne'
  PROVE  BankInv'
<1>1. edit' = [d \in Calls |-> edit'[d]]
  BY DEF BankInv
<1>2. \A d \in Calls : edit'[d].pc = "update" => DOMAIN edit'[d].change \subseteq {"text", "category", "status"}
  BY DEF BankInv
<1>3. \A i \in DOMAIN bank' : RowHolds(bank[i])'
  BY DEF RowHolds
<1> QED BY <1>1, <1>2, <1>3 DEF BankInv, RowsOf, RowHolds

\* create_question: trimmed, and of no task.
LEMMA CreationKeepsBank ==
  ASSUME BankInv, NEW c \in Calls, Bank!CreateQuestion(c) PROVE BankInv'
<1>1. edit' = [edit EXCEPT ![c] = Bank!IdleCall] /\ UNCHANGED attempt /\ Bank!IdleCall.pc = "idle"
  BY DEF Bank!CreateQuestion, Bank!Becomes, Bank!IdleCall
<1>2. CASE UNCHANGED <<bank, nextId>>
  BY <1>1, <1>2, CallKeepsBank DEF BankInv, FromOne
<1>3. ASSUME NEW t \in QuestionTexts, NEW d \in Bank!Typed, NEW s \in Bank!Statuses,
             nextId' = nextId + 1,
             bank' = [i \in DOMAIN bank \cup {nextId} |->
               IF i = nextId THEN [text |-> t, category |-> Bank!Trim(d), status |-> s, from |-> 0]
               ELSE bank[i]]
      PROVE  BankInv'
  <2> DEFINE new == [text |-> t, category |-> Bank!Trim(d), status |-> s, from |-> 0]
  <2>1. RowHolds(new) /\ new.from = 0
    <3>1. Bank!Trim(Bank!Trim(d)) = Bank!Trim(d)
      BY DEF Bank!Trim
    <3> QED BY <3>1 DEF RowHolds
  <2>2. /\ DOMAIN bank' = DOMAIN bank \cup {nextId} /\ bank'[nextId] = new
        /\ \A i \in DOMAIN bank \ {nextId} : bank'[i] = bank[i]
    BY <1>3
  <2> HIDE DEF new
  <2>3. \A i \in DOMAIN bank' : RowHolds(bank'[i])
    BY <2>1, <2>2 DEF BankInv
  <2>4. FromOne'
    BY <2>1, <2>2 DEF BankInv, FromOne
  <2>5. nextId' \in Nat
    BY <1>3 DEF BankInv
  <2> QED BY <1>1, <2>3, <2>4, <2>5, CallKeepsBank
<1> QED BY <1>2, <1>3 DEF Bank!CreateQuestion

\* update_question: what is written is trimmed, and the task stays.
LEMMA UpdateKeepsBank ==
  ASSUME BankInv, NEW c \in Calls, Bank!UpdateQuestion(c) PROVE BankInv'
<1> DEFINE change_ == edit[c].change
<1>1. /\ edit' = [edit EXCEPT ![c] = Bank!IdleCall] /\ UNCHANGED <<attempt, nextId>>
      /\ Bank!IdleCall.pc = "idle" /\ edit[c].pc = "update"
      /\ bank' = [i \in DOMAIN bank |->
                    [f \in DOMAIN bank[i] |->
                       IF i = edit[c].id /\ f \in DOMAIN change_ THEN Bank!Stored(f, change_[f]) ELSE bank[i][f]]]
  BY DEF Bank!UpdateQuestion, Bank!Becomes, Bank!IdleCall
<1>2. DOMAIN change_ \subseteq {"text", "category", "status"}
  BY <1>1 DEF BankInv
<1> HIDE DEF change_
<1>3. \A v : Bank!Stored("category", v) = Bank!Trim(v) /\ Bank!Trim(Bank!Trim(v)) = Bank!Trim(v)
  BY DEF Bank!Stored, Bank!Trim
<1>4. DOMAIN bank' = DOMAIN bank
  BY <1>1
<1>5. ASSUME NEW i \in DOMAIN bank PROVE RowHolds(bank'[i]) /\ bank'[i].from = bank[i].from
  <2>1. /\ "category" \in DOMAIN bank[i] /\ "from" \in DOMAIN bank[i]
        /\ bank[i].category = Bank!Trim(bank[i].category)
    BY DEF BankInv, RowHolds
  <2>2. bank'[i] = [f \in DOMAIN bank[i] |->
                      IF i = edit[c].id /\ f \in DOMAIN change_ THEN Bank!Stored(f, change_[f]) ELSE bank[i][f]]
    BY <1>1
  <2>3. DOMAIN bank'[i] = DOMAIN bank[i]
    BY <2>2
  <2>4. bank'[i].from = bank[i].from
    BY <1>2, <2>1, <2>2
  <2>5. \/ bank'[i].category = Bank!Stored("category", change_["category"])
        \/ bank'[i].category = bank[i].category
    BY <2>1, <2>2
  <2>6. bank'[i].category = Bank!Trim(bank'[i].category)
    BY <1>3, <2>1, <2>5
  <2> QED BY <2>1, <2>3, <2>4, <2>6 DEF RowHolds
<1>6. FromOne'
  BY <1>4, <1>5 DEF BankInv, FromOne
<1>7. nextId' \in Nat
  BY <1>1 DEF BankInv
<1> QED BY <1>1, <1>4, <1>5, <1>6, <1>7, CallKeepsBank

\* A question is deleted.
LEMMA DeletionKeepsBank ==
  ASSUME BankInv, NEW c \in Calls, Bank!DeleteQuestion(c) PROVE BankInv'
<1>1. /\ edit' = [edit EXCEPT ![c] = Bank!IdleCall] /\ UNCHANGED <<attempt, nextId>>
      /\ Bank!IdleCall.pc = "idle"
      /\ bank' = [i \in DOMAIN bank \ {edit[c].id} |-> bank[i]]
  BY DEF Bank!DeleteQuestion, Bank!Becomes, Bank!IdleCall, Bank!Restrict
<1>2. DOMAIN bank' \subseteq DOMAIN bank /\ \A i \in DOMAIN bank' : bank'[i] = bank[i]
  BY <1>1
<1>3. nextId' \in Nat /\ (\A i \in DOMAIN bank' : RowHolds(bank'[i])) /\ FromOne'
  BY <1>1, <1>2 DEF BankInv, FromOne
<1> QED BY <1>1, <1>3, CallKeepsBank

\* A step of a worker that leaves the bank.
LEMMA WorkerKeepsBank ==
  ASSUME BankInv, NEW w \in Workers, NEW to, attempt' = [attempt EXCEPT ![w] = to],
         to.pc = "replace" => RowsOf(to.rows, to.task),
         nextId' \in Nat, UNCHANGED edit,
         \A i \in DOMAIN bank' : RowHolds(bank'[i]), FromOne'
  PROVE  BankInv'
<1>1. attempt' = [v \in Workers |-> attempt'[v]]
  BY DEF BankInv
<1>2. \A v \in Workers : attempt'[v].pc = "replace" => RowsOf(attempt'[v].rows, attempt'[v].task)
  BY DEF BankInv
<1> QED BY <1>1, <1>2 DEF BankInv, RowsOf, RowHolds

\* The model answers: what is built of it is ready to replace the bank.
LEMMA GenerationKeepsBank ==
  ASSUME BankInv, NEW w \in Workers, Bank!Generate(w) PROVE BankInv'
<1>1. UNCHANGED <<bank, nextId, edit>>
  BY DEF Bank!Generate
<1>2. nextId' \in Nat /\ (\A i \in DOMAIN bank' : RowHolds(bank'[i])) /\ FromOne'
  BY <1>1 DEF BankInv, FromOne
<1>3. ASSUME NEW answer \in Bank!Answers,
             attempt' = [attempt EXCEPT ![w] = [pc |-> "replace", task |-> attempt[w].task,
                                                rows |-> Bank!Built(answer, attempt[w].task)]]
      PROVE  BankInv'
  <2> DEFINE built == Bank!Built(answer, attempt[w].task)
             to    == [pc |-> "replace", task |-> attempt[w].task, rows |-> built]
  <2>1. RowsOf(built, attempt[w].task)
    BY BuiltRows DEF RowsOf, RowHolds
  <2>2. to.rows = built /\ to.task = attempt[w].task /\ attempt' = [attempt EXCEPT ![w] = to]
    BY <1>3
  <2> HIDE DEF to, built
  <2> QED BY <1>1, <1>2, <2>1, <2>2, WorkerKeepsBank
<1>4. CASE attempt' = [attempt EXCEPT ![w] = Bank!IdleAttempt]
  <2>1. Bank!IdleAttempt.pc = "idle"
    BY DEF Bank!IdleAttempt
  <2> QED BY <1>1, <1>2, <1>4, <2>1, WorkerKeepsBank
<1> QED BY <1>3, <1>4 DEF Bank!Generate

\* What a replacement leaves.
LEMMA ReplacementIs ==
  ASSUME BankInv, NEW t, NEW new, RowsOf(new, t), bank' = Bank!Replacement(new)
  PROVE  /\ \A i \in DOMAIN bank' : RowHolds(bank'[i]) /\ bank'[i].from = t
         /\ Bank!NoDuplicates(bank')
<1>1. nextId \in Nat /\ Len(new) \in Nat
  BY DEF BankInv, RowsOf
<1>2. bank' = [i \in nextId .. nextId + Len(new) - 1 |-> new[i - nextId + 1]]
  BY DEF Bank!Replacement
<1>3. \A i \in DOMAIN bank' : i \in Int /\ i - nextId + 1 \in 1 .. Len(new) /\ bank'[i] = new[i - nextId + 1]
  <2> TAKE i \in DOMAIN bank'
  <2>1. i \in nextId .. nextId + Len(new) - 1
    BY <1>2
  <2> QED BY <1>1, <1>2, <2>1
<1>4. \A i \in DOMAIN bank' : RowHolds(bank'[i]) /\ bank'[i].from = t
  BY <1>3 DEF RowsOf
<1>5. ASSUME NEW i \in DOMAIN bank', NEW j \in DOMAIN bank', i # j
      PROVE  bank'[i].text[1] # bank'[j].text[1]
  <2>1. i - nextId + 1 # j - nextId + 1
    BY <1>1, <1>3, <1>5
  <2> QED BY <1>3, <2>1 DEF RowsOf
<1> QED BY <1>4, <1>5 DEF Bank!NoDuplicates

\* The bank is replaced, or the attempt finds that it is late.
LEMMA ReplaceKeepsBank ==
  ASSUME BankInv, NEW w \in Workers, Bank!Replace(w) PROVE BankInv'
<1> DEFINE new == attempt[w].rows
<1>1. /\ attempt[w].pc = "replace" /\ attempt' = [attempt EXCEPT ![w] = Bank!IdleAttempt]
      /\ UNCHANGED edit /\ Bank!IdleAttempt.pc = "idle"
      /\ \/ bank' = Bank!Replacement(new) /\ nextId' = nextId + Len(new)
         \/ UNCHANGED <<bank, nextId>>
  BY DEF Bank!Replace, Bank!IdleAttempt
<1>2. RowsOf(new, attempt[w].task)
  BY <1>1 DEF BankInv
<1> HIDE DEF new
<1>3. CASE bank' = Bank!Replacement(new) /\ nextId' = nextId + Len(new)
  <2>1. \A i \in DOMAIN bank' : RowHolds(bank'[i]) /\ bank'[i].from = attempt[w].task
    BY <1>2, <1>3, ReplacementIs
  <2>2. FromOne'
    BY <2>1 DEF FromOne
  <2>3. nextId' \in Nat
    BY <1>2, <1>3 DEF BankInv, RowsOf
  <2> QED BY <1>1, <2>1, <2>2, <2>3, WorkerKeepsBank
<1>4. CASE UNCHANGED <<bank, nextId>>
  <2>1. nextId' \in Nat /\ (\A i \in DOMAIN bank' : RowHolds(bank'[i])) /\ FromOne'
    BY <1>4 DEF BankInv, FromOne
  <2> QED BY <1>1, <2>1, WorkerKeepsBank
<1> QED BY <1>1, <1>3, <1>4

\* No step of the bank breaks its invariant.
LEMMA BankStep == ASSUME BankInv, [Bank!Next]_bankVars PROVE BankInv'
<1>0. UNCHANGED <<bank, nextId>> => nextId' \in Nat /\ (\A i \in DOMAIN bank' : RowHolds(bank'[i])) /\ FromOne'
  BY DEF BankInv, FromOne
<1>1. ASSUME NEW c \in Calls, Bank!ReadBase(c) \/ Bank!ReadForDelete(c) PROVE BankInv'
  <2>1. UNCHANGED <<bank, nextId, attempt>>
    BY <1>1 DEF Bank!ReadBase, Bank!ReadForDelete
  <2>2. PICK to : edit' = [edit EXCEPT ![c] = to] /\ to.pc # "update"
    BY <1>1 DEF Bank!ReadBase, Bank!ReadForDelete, Bank!Becomes
  <2> QED BY <1>0, <2>1, <2>2, CallKeepsBank
<1>2. ASSUME NEW c \in Calls, Bank!ReadForUpdate(c) PROVE BankInv'
  <2>1. UNCHANGED <<bank, nextId, attempt>>
    BY <1>2 DEF Bank!ReadForUpdate
  <2>2. PICK i \in DOMAIN bank, ch \in Bank!Changes :
          edit' = [edit EXCEPT ![c] = [pc |-> "update", id |-> i,
                     change |-> Bank!Restrict(ch, Bank!Differing(bank[i], ch))]]
    BY <1>2 DEF Bank!ReadForUpdate, Bank!Becomes
  <2>3. DOMAIN Bank!Restrict(ch, Bank!Differing(bank[i], ch)) \subseteq {"text", "category", "status"}
    <3>1. DOMAIN ch \subseteq {"text", "category", "status"}
      BY DEF Bank!Changes
    <3>2. Bank!Differing(bank[i], ch) \subseteq DOMAIN ch
      BY DEF Bank!Differing
    <3> HIDE DEF Bank!Differing
    <3> QED BY <3>1, <3>2 DEF Bank!Restrict
  <2> DEFINE to == [pc |-> "update", id |-> i, change |-> Bank!Restrict(ch, Bank!Differing(bank[i], ch))]
  <2>4. to.change = Bank!Restrict(ch, Bank!Differing(bank[i], ch))
    OBVIOUS
  <2>5. edit' = [edit EXCEPT ![c] = to]
    BY <2>2
  <2> HIDE DEF to
  <2> QED BY <1>0, <2>1, <2>3, <2>4, <2>5, CallKeepsBank
<1>3. ASSUME NEW w \in Workers, Bank!StartAttempt(w) PROVE BankInv'
  <2>1. UNCHANGED <<bank, nextId, edit>>
    BY <1>3 DEF Bank!StartAttempt
  <2> DEFINE to == [pc |-> "generate", task |-> gen.task]
  <2>2. attempt' = [attempt EXCEPT ![w] = to] /\ to.pc # "replace"
    BY <1>3 DEF Bank!StartAttempt
  <2> HIDE DEF to
  <2> QED BY <1>0, <2>1, <2>2, WorkerKeepsBank
<1>4. CASE UNCHANGED <<bank, nextId, attempt, edit>>
  BY <1>4 DEF BankInv, FromOne, RowsOf, RowHolds
<1>5. CASE Bank!DeleteKnowledgeBase \/ Bank!CreateTask \/ Bank!Requeue \/ Bank!MarkFailed
             \/ UNCHANGED bankVars
  BY <1>4, <1>5 DEF Bank!DeleteKnowledgeBase, Bank!CreateTask, Bank!Requeue, Bank!MarkFailed, bankVars
<1> QED BY <1>1, <1>2, <1>3, <1>5, CreationKeepsBank, UpdateKeepsBank, DeletionKeepsBank,
           GenerationKeepsBank, ReplaceKeepsBank DEF Bank!Next

\* What follows from it.
LEMMA BankIsHonest == BankInv => Bank!BankHolds
<1> SUFFICES ASSUME BankInv PROVE Bank!BankHolds
  OBVIOUS
<1>1. \A i \in DOMAIN bank : Bank!Trim(bank[i].category) = bank[i].category
  BY DEF BankInv, RowHolds
<1>2. \A typed : Bank!Offered(Bank!Trim(typed)) = Bank!Drawable(typed)
  BY <1>1 DEF Bank!Offered, Bank!Drawable
<1>3. \A typed : Bank!Drawable(typed) = Bank!Listed("ACTIVE", typed)
  BY DEF Bank!Drawable, Bank!Listed
<1> QED BY <1>2, <1>3 DEF Bank!BankHolds, Bank!CapacityIsHonest, Bank!OneGeneration, BankInv, FromOne

\* What a step of the bank does to the questions that are there.
LEMMA BankReplaced ==
  ASSUME BankInv, [Bank!Next]_bankVars
  PROVE  \/ DOMAIN bank \subseteq DOMAIN bank'
         \/ edit' # edit
         \/ /\ gen.status = "PROCESSING"
            /\ gen' = [gen EXCEPT !.status = "COMPLETED"]
            /\ Bank!NoDuplicates(bank')
<1>1. ASSUME NEW c \in Calls, Bank!DeleteQuestion(c) PROVE edit' # edit
  <2>1. edit[c].pc = "delete" /\ edit' = [edit EXCEPT ![c] = Bank!IdleCall] /\ Bank!IdleCall.pc = "idle"
    BY <1>1 DEF Bank!DeleteQuestion, Bank!Becomes, Bank!IdleCall
  <2>2. edit'[c].pc = "idle"
    BY <2>1 DEF BankInv
  <2> QED BY <2>1, <2>2
<1>2. ASSUME NEW w \in Workers, Bank!Replace(w), Bank!Matches(w)
      PROVE  /\ gen.status = "PROCESSING"
             /\ gen' = [gen EXCEPT !.status = "COMPLETED"]
             /\ Bank!NoDuplicates(bank')
  <2>1. gen.status = "PROCESSING"
    BY <1>2 DEF Bank!Matches
  <2>2. gen' = [gen EXCEPT !.status = "COMPLETED"] /\ bank' = Bank!Replacement(attempt[w].rows)
    BY <1>2 DEF Bank!Replace
  <2>3. RowsOf(attempt[w].rows, attempt[w].task)
    BY <1>2 DEF Bank!Replace, BankInv
  <2> QED BY <2>1, <2>2, <2>3, ReplacementIs
<1>3. ASSUME NEW w \in Workers, Bank!Replace(w), ~Bank!Matches(w) PROVE UNCHANGED bank
  BY <1>3 DEF Bank!Replace
<1>4. ASSUME NEW c \in Calls, Bank!CreateQuestion(c) \/ Bank!UpdateQuestion(c)
      PROVE  DOMAIN bank \subseteq DOMAIN bank'
  <2>1. CASE Bank!CreateQuestion(c)
    BY <2>1 DEF Bank!CreateQuestion
  <2>2. CASE Bank!UpdateQuestion(c)
    BY <2>2 DEF Bank!UpdateQuestion
  <2> QED BY <1>4, <2>1, <2>2
<1>5. ASSUME NEW c \in Calls, Bank!ReadBase(c) \/ Bank!ReadForUpdate(c) \/ Bank!ReadForDelete(c)
      PROVE  UNCHANGED bank
  BY <1>5 DEF Bank!ReadBase, Bank!ReadForUpdate, Bank!ReadForDelete
<1>6. ASSUME NEW w \in Workers, Bank!StartAttempt(w) \/ Bank!Generate(w) PROVE UNCHANGED bank
  BY <1>6 DEF Bank!StartAttempt, Bank!Generate
<1>7. Bank!DeleteKnowledgeBase \/ Bank!CreateTask \/ Bank!Requeue \/ Bank!MarkFailed
        \/ UNCHANGED bankVars => UNCHANGED bank
  BY DEF Bank!DeleteKnowledgeBase, Bank!CreateTask, Bank!Requeue, Bank!MarkFailed, bankVars
<1> QED BY <1>1, <1>2, <1>3, <1>4, <1>5, <1>6, <1>7 DEF Bank!Next

-----------------------------------------------------------------------------
(* Questions about knowledge bases                                         *)

\* Of the constants.
LEMMA QueryParameters == TopK \in Nat /\ Probe \in Nat \ {0} /\ MaxReply \in Nat
BY ModelsAssumption DEF Query!QueryAssumption

Chars == 0 .. 3

\* A set of numbers up to some number has a smallest and a largest one.
LEMMA Ends ==
  ASSUME NEW n \in Nat, NEW S \in SUBSET (1 .. n), S # {}
  PROVE  Query!Min(S) \in S /\ Query!Max(S) \in S
<1>1. PICK x \in S : \A y \in S : x =< y
  BY Smallest
<1>2. Query!Min(S) \in S
  BY <1>1 DEF Query!Min
<1>3. PICK z \in {n + 1 - v : v \in S} : \A y \in {n + 1 - v : v \in S} : z =< y
  <2>1. {n + 1 - v : v \in S} \in SUBSET Nat
    BY SMT
  <2>2. {n + 1 - v : v \in S} # {}
    BY Zenon
  <2> QED BY <2>1, <2>2, Smallest
<1>4. PICK v \in S : z = n + 1 - v
  BY <1>3
<1>5. \A y \in S : v >= y
  BY <1>3, <1>4
<1>6. Query!Max(S) \in S
  BY <1>5 DEF Query!Max
<1> QED BY <1>2, <1>6

\* The first characters of what is said.
LEMMA TakeIs ==
  ASSUME NEW s \in Seq(Chars), NEW n \in Nat
  PROVE  LET t == Query!Take(s, n)
         IN  /\ t \in Seq(Chars)
             /\ Len(t) = IF n =< Len(s) THEN n ELSE Len(s)
             /\ \A i \in 1 .. Len(t) : t[i] = s[i]
<1> DEFINE m == IF n =< Len(s) THEN n ELSE Len(s)
<1>1. Query!Min({n, Len(s)}) = m
  <2>1. m \in {n, Len(s)} /\ \A y \in {n, Len(s)} : m =< y
    OBVIOUS
  <2>2. \A x \in {n, Len(s)} : (\A y \in {n, Len(s)} : x =< y) => x = m
    OBVIOUS
  <2> HIDE DEF m
  <2> QED BY <2>1, <2>2 DEF Query!Min
<1>2. m \in Nat /\ m =< Len(s) /\ \A i \in 1 .. m : s[i] \in Chars
  OBVIOUS
<1>3. Query!Take(s, n) = SubSeq(s, 1, m)
  BY <1>1 DEF Query!Take
<1> HIDE DEF m
<1>4. /\ SubSeq(s, 1, m) \in Seq(Chars)
      /\ Len(SubSeq(s, 1, m)) = IF 1 =< m THEN m - 1 + 1 ELSE 0
      /\ \A i \in 1 .. m - 1 + 1 : SubSeq(s, 1, m)[i] = s[1 + i - 1]
  BY <1>2, SubSeqProperties
<1>5. Len(SubSeq(s, 1, m)) = m /\ \A i \in 1 .. m : SubSeq(s, 1, m)[i] = s[i]
  BY <1>2, <1>4
<1> QED BY <1>3, <1>4, <1>5 DEF m

\* A marker in the first characters is one in all of them.
LEMMA MarkerStays ==
  ASSUME NEW s \in Seq(Chars), NEW n \in Nat, Query!HasMarker(Query!Take(s, n))
  PROVE  Query!HasMarker(s) /\ \E i \in 1 .. n - 1 : s[i] = 1 /\ s[i + 1] = 2
<1> DEFINE t == Query!Take(s, n)
<1>1. /\ t \in Seq(Chars)
      /\ Len(t) = IF n =< Len(s) THEN n ELSE Len(s)
      /\ \A i \in 1 .. Len(t) : t[i] = s[i]
  BY TakeIs
<1>2. PICK i \in 1 .. Len(t) - 1 : t[i] = 1 /\ t[i + 1] = 2
  BY DEF Query!HasMarker
<1> HIDE DEF t
<1>3. i \in 1 .. Len(t) /\ i + 1 \in 1 .. Len(t) /\ i \in 1 .. n - 1 /\ i \in 1 .. Len(s) - 1
  BY <1>1, <1>2
<1>4. s[i] = 1 /\ s[i + 1] = 2
  BY <1>1, <1>2, <1>3
<1> QED BY <1>3, <1>4 DEF Query!HasMarker

\* What is left of a text that is not blank.
LEMMA StripIs == ASSUME NEW s \in Seq(Chars), ~Query!IsBlank(s) PROVE Query!Strip(s) \in Seq(Chars)
<1> DEFINE S == Query!Inked(s)
<1>1. S \in SUBSET (1 .. Len(s)) /\ S # {} /\ Len(s) \in Nat
  BY DEF Query!Inked, Query!IsBlank
<1>2. Query!Min(S) \in 1 .. Len(s) /\ Query!Max(S) \in 1 .. Len(s)
  BY <1>1, Ends
<1> HIDE DEF S
<1>3. \A i \in Query!Min(S) .. Query!Max(S) : s[i] \in Chars
  BY <1>2
<1>4. SubSeq(s, Query!Min(S), Query!Max(S)) \in Seq(Chars)
  BY <1>2, <1>3, SubSeqProperties
<1> QED BY <1>4 DEF Query!Strip, S

\* SaysOneThing of a text, how it ended, and what the model said.
OneThing(sent_, end, said, streamed, found) ==
  LET first == Query!Take(said, Probe)
  IN  /\ end = "nothing" => sent_ = <<>>
      /\ Query!HasMarker(first) => sent_ = <<>>
      /\ end = "ended" => sent_ = IF streamed /\ Len(said) >= Probe THEN said ELSE Query!Strip(said)
      /\ end = "ended" /\ Len(said) < Probe => ~Query!HasMarker(said) /\ ~Query!IsBlank(said)
      /\ end = "nothing" /\ found => Query!IsBlank(said) \/ Query!HasMarker(said)
      /\ sent_ = Query!Take(said, Len(sent_)) \/ sent_ = Query!Strip(said)

\* Nothing is said, a short answer, and a long one.
LEMMA SaysNothing ==
  ASSUME NEW said \in Seq(Chars), NEW end, end # "ended", NEW streamed, NEW found,
         end = "nothing" /\ found => Query!IsBlank(said) \/ Query!HasMarker(said)
  PROVE  OneThing(<<>>, end, said, streamed, found)
<1>1. <<>> = Query!Take(said, Len(<<>>))
  <2>1. Query!Take(said, 0) \in Seq(Chars) /\ Len(Query!Take(said, 0)) = 0
    BY TakeIs
  <2> QED BY <2>1
<1> QED BY <1>1 DEF OneThing

\* A short answer, as if it had come whole.
LEMMA SaysShort ==
  ASSUME NEW said \in Seq(Chars), NEW streamed, NEW found, streamed => Len(said) < Probe,
         ~Query!HasMarker(said), ~Query!IsBlank(said)
  PROVE  OneThing(Query!Strip(said), "ended", said, streamed, found)
<1>1. ~Query!HasMarker(Query!Take(said, Probe))
  BY QueryParameters, MarkerStays
<1>2. ~(streamed /\ Len(said) >= Probe)
  BY QueryParameters
<1> QED BY <1>1, <1>2 DEF OneThing

\* A long one.
LEMMA SaysLong ==
  ASSUME NEW said \in Seq(Chars), NEW end \in {"open", "ended", "error", "left"}, NEW found,
         Len(said) >= Probe, \A i \in 1 .. Probe - 1 : ~(said[i] = 1 /\ said[i + 1] = 2)
  PROVE  OneThing(said, end, said, TRUE, found)
<1>1. ~Query!HasMarker(Query!Take(said, Probe))
  BY QueryParameters, MarkerStays
<1>2. said = Query!Take(said, Len(said))
  <2>1. LET t == Query!Take(said, Len(said))
        IN  t \in Seq(Chars) /\ Len(t) = Len(said) /\ \A i \in 1 .. Len(t) : t[i] = said[i]
    BY TakeIs
  <2> QED BY <2>1, SeqEqual
<1>3. ~(Len(said) < Probe)
  BY QueryParameters
<1> QED BY <1>1, <1>2, <1>3 DEF OneThing

\* The question's steps, and where a text may end.
QuerySteps == {"asked", "search", "fallback", "answer", "stream", "pass", "done"}
Endings    == {"open", "ended", "nothing", "error", "raised", "left"}

QueryTypes ==
  /\ query \in [pc: QuerySteps, streamed: BOOLEAN, bases: SUBSET Bases, left: 0 .. 2]
  /\ query.bases # {}
  /\ raw \in Seq(Chars) /\ probe \in Seq(Chars)
  /\ out \in [text: Seq(Chars), end: Endings]

\* What the model was given is of the knowledge bases asked.
UsedHolds ==
  /\ \A v \in used : of[v] \in query.bases
  /\ query.pc \in {"asked", "search", "fallback"} => used = {}

\* Counted in all of them, or in none.
CountedNowhere == \A b \in Bases : counts[b] = 0
CountedOnce    == \A b \in Bases : counts[b] = IF b \in query.bases THEN 1 ELSE 0

CountsHold ==
  /\ query.pc = "asked" => CountedNowhere
  /\ query.pc \in {"search", "fallback", "answer", "stream", "pass"} => CountedOnce
  /\ query.pc = "done" => CountedOnce \/ (CountedNowhere /\ used = {})

\* Nothing is said before the probe is passed, and then all that came.
Unmarked(s) == \A i \in 1 .. Probe - 1 : ~(s[i] = 1 /\ s[i + 1] = 2)

SaidSoFar ==
  /\ query.pc \in {"asked", "search", "fallback", "answer", "stream"} => out.text = <<>>
  /\ query.pc \in {"asked", "search", "fallback", "answer"} => raw = <<>> /\ probe = <<>>
  /\ query.pc = "stream" => query.streamed /\ raw = probe /\ Len(probe) < Probe
  /\ query.pc = "pass" => query.streamed /\ out.text = raw /\ Len(raw) >= Probe /\ Unmarked(raw)
  /\ query.pc # "done" => out.end = "open"
  /\ query.pc = "done" => OneThing(out.text, out.end, raw, query.streamed, used # {})

QueryInv == QueryTypes /\ UsedHolds /\ CountsHold /\ SaidSoFar

\* A question as it comes.
LEMMA QuestionCame ==
  ASSUME NEW S, NEW q \in [pc: {"asked"}, streamed: BOOLEAN, bases: S \ {{}}, left: {0}]
  PROVE  /\ q.pc = "asked" /\ q.bases # {}
         /\ q \in [pc: QuerySteps, streamed: BOOLEAN, bases: S, left: 0 .. 2]
<1>1. q.pc = "asked" /\ q.streamed \in BOOLEAN /\ q.bases \in S /\ q.bases # {} /\ q.left = 0
  OBVIOUS
<1>2. q = [pc |-> q.pc, streamed |-> q.streamed, bases |-> q.bases, left |-> q.left]
  OBVIOUS
<1> QED BY <1>1, <1>2 DEF QuerySteps

\* The question comes with nothing counted, found or said.
LEMMA QueryStarts == ASSUME Query!Init PROVE QueryInv
<1>1. query.pc = "asked" /\ query.bases # {}
      /\ query \in [pc: QuerySteps, streamed: BOOLEAN, bases: SUBSET Bases, left: 0 .. 2]
  <2>1. query \in [pc: {"asked"}, streamed: BOOLEAN, bases: (SUBSET Bases) \ {{}}, left: {0}]
    BY Zenon DEF Query!Init
  <2> QED BY <2>1, QuestionCame, Zenon
<1>2. raw \in Seq(Chars) /\ probe \in Seq(Chars) /\ out.text = <<>> /\ out.end = "open"
  BY DEF Query!Init
<1>3. out \in [text: Seq(Chars), end: Endings]
  BY DEF Query!Init, Endings
<1>4. QueryTypes
  BY <1>1, <1>2, <1>3 DEF QueryTypes
<1>5. UsedHolds /\ CountsHold
  BY <1>1 DEF Query!Init, UsedHolds, CountsHold, CountedNowhere
<1>6. SaidSoFar
  BY <1>1, <1>2 DEF Query!Init, SaidSoFar
<1> QED BY <1>4, <1>5, <1>6 DEF QueryInv

\* The question is settled.
LEMMA Settled ==
  ASSUME QueryInv, NEW from \in QuerySteps \ {"asked", "done"}, NEW t \in Seq(Chars),
         NEW end \in Endings, Query!Answers(from, t, end),
         of' = of, counts' = counts, used' = used, raw' \in Seq(Chars), probe' \in Seq(Chars),
         OneThing(out.text \o t, end, raw', query.streamed, used # {})
  PROVE  QueryInv'
<1> USE DEF QueryInv, Query!Answers, Query!Step
<1>1. query.pc = from /\ query' = [query EXCEPT !.pc = "done"]
      /\ out' = [text |-> out.text \o t, end |-> end]
  OBVIOUS
<1>2. /\ query'.pc = "done" /\ query'.streamed = query.streamed /\ query'.bases = query.bases
      /\ query' \in [pc: QuerySteps, streamed: BOOLEAN, bases: SUBSET Bases, left: 0 .. 2]
  BY <1>1 DEF QueryTypes, QuerySteps
<1>3. out.text \o t \in Seq(Chars)
  BY DEF QueryTypes
<1>4. out'.text = out.text \o t /\ out'.end = end /\ out' \in [text: Seq(Chars), end: Endings]
  BY <1>1, <1>3
<1>5. QueryTypes'
  BY <1>2, <1>4 DEF QueryTypes
<1>6. UsedHolds'
  BY <1>2 DEF UsedHolds
<1>7. CountsHold'
  BY <1>1, <1>2 DEF CountsHold, CountedOnce, CountedNowhere, QuerySteps
<1>8. SaidSoFar'
  BY <1>2, <1>4 DEF SaidSoFar
<1> QED BY <1>5, <1>6, <1>7, <1>8

\* It is settled with nothing said.
LEMMA SettledSilent ==
  ASSUME QueryInv, NEW from \in QuerySteps \ {"asked", "pass", "done"},
         NEW end \in Endings \ {"open", "ended"}, Query!Answers(from, <<>>, end),
         of' = of, counts' = counts, used' = used, raw' \in Seq(Chars), probe' \in Seq(Chars),
         end = "nothing" /\ used # {} => Query!IsBlank(raw') \/ Query!HasMarker(raw')
  PROVE  QueryInv'
<1>1. out.text = <<>>
  BY DEF QueryInv, SaidSoFar, QuerySteps, Query!Answers, Query!Step
<1>2. OneThing(<<>>, end, raw', query.streamed, used # {})
  BY SaysNothing
<1>3. <<>> \in Seq(Chars) /\ out.text \o <<>> = <<>>
  BY <1>1
<1>4. OneThing(out.text \o <<>>, end, raw', query.streamed, used # {})
  BY <1>2, <1>3
<1> QED BY <1>3, <1>4, Settled

\* It fails before anything was said.
LEMMA SettledFails ==
  ASSUME QueryInv, NEW from \in QuerySteps \ {"asked", "pass", "done"}, Query!Fails(from),
         counts' = counts
  PROVE  QueryInv'
<1>1. of' = of /\ used' = used /\ raw' \in Seq(Chars) /\ probe' \in Seq(Chars)
  BY DEF Query!Fails, QueryInv, QueryTypes
<1>2. PICK end \in {"error", "raised"} : Query!Answers(from, <<>>, end)
  BY DEF Query!Fails
<1> QED BY <1>1, <1>2, SettledSilent DEF Endings

\* A question that goes on with nothing said yet.
LEMMA GoesOn ==
  ASSUME QueryInv, query.pc \in {"asked", "search", "fallback", "answer"},
         NEW to \in {"search", "fallback", "answer", "stream"}, NEW n \in 0 .. 2,
         query' = [query EXCEPT !.pc = to, !.left = n],
         of' = of, raw' = raw, probe' = probe, out' = out,
         to = "stream" => query.streamed,
         \A v \in used' : of[v] \in query.bases,
         to \in {"search", "fallback"} => used' = {},
         \A b \in Bases : counts'[b] = IF b \in query.bases THEN 1 ELSE 0
  PROVE  QueryInv'
<1> USE DEF QueryInv
<1>1. /\ query'.pc = to /\ query'.streamed = query.streamed /\ query'.bases = query.bases
      /\ query' \in [pc: QuerySteps, streamed: BOOLEAN, bases: SUBSET Bases, left: 0 .. 2]
  BY DEF QueryTypes, QuerySteps
<1>2. QueryTypes'
  BY <1>1 DEF QueryTypes
<1>3. UsedHolds'
  BY <1>1 DEF UsedHolds
<1>4. CountsHold'
  BY <1>1 DEF CountsHold, CountedOnce, CountedNowhere
<1>5. SaidSoFar'
  BY <1>1, QueryParameters DEF SaidSoFar, QueryTypes
<1> QED BY <1>2, <1>3, <1>4, <1>5

\* Counted in all or none.
LEMMA Counting == ASSUME QueryInv, Query!Count PROVE QueryInv'
<1> USE DEF Query!Count
<1>1. query.pc = "asked" /\ CountedNowhere /\ used = {}
  BY DEF QueryInv, CountsHold, UsedHolds
<1>2. \A b \in Bases : counts'[b] = IF b \in query.bases /\ query.bases \subseteq rows THEN 1 ELSE 0
  BY <1>1 DEF Query!Counts, CountedNowhere
<1>3. CASE query.bases \subseteq rows
  <2>1. PICK n \in {1, 2} : query' = [query EXCEPT !.pc = "search", !.left = n]
    BY <1>3
  <2>2. of' = of /\ raw' = raw /\ probe' = probe /\ out' = out /\ used' = {}
    BY <1>1, <1>3
  <2>3. \A b \in Bases : counts'[b] = IF b \in query.bases THEN 1 ELSE 0
    BY <1>2, <1>3
  <2>4. n \in 0 .. 2
    OBVIOUS
  <2> QED BY <1>1, <2>1, <2>2, <2>3, <2>4, GoesOn
<1>4. CASE ~(query.bases \subseteq rows)
  <2>1. Query!Fails("asked") /\ of' = of /\ used' = {} /\ raw' = raw /\ probe' = probe
    BY <1>1, <1>4 DEF Query!Fails
  <2>2. PICK end \in {"error", "raised"} : Query!Answers("asked", <<>>, end)
    BY <2>1 DEF Query!Fails
  <2>3. out.text = <<>> /\ raw \in Seq(Chars)
    BY <1>1 DEF QueryInv, SaidSoFar, QueryTypes
  <2>4. out' = [text |-> <<>>, end |-> end] /\ query' = [query EXCEPT !.pc = "done"]
    BY <2>2, <2>3 DEF Query!Answers, Query!Step
  <2>5. OneThing(<<>>, end, raw, query.streamed, FALSE)
    BY <2>3, SaysNothing
  <2>6. /\ query'.pc = "done" /\ query'.streamed = query.streamed /\ query'.bases = query.bases
        /\ query' \in [pc: QuerySteps, streamed: BOOLEAN, bases: SUBSET Bases, left: 0 .. 2]
    BY <2>4 DEF QueryInv, QueryTypes, QuerySteps
  <2>7. out'.text = <<>> /\ out'.end = end /\ out' \in [text: Seq(Chars), end: Endings]
    BY <2>4 DEF Endings
  <2>8. QueryTypes' /\ UsedHolds'
    BY <2>1, <2>6, <2>7 DEF QueryInv, QueryTypes, UsedHolds
  <2>9. CountsHold'
    BY <1>2, <1>4, <2>1, <2>6 DEF CountsHold, CountedNowhere
  <2>10. (used' # {}) = FALSE
    BY <2>1
  <2>11. SaidSoFar'
    BY <2>1, <2>5, <2>6, <2>7, <2>10 DEF SaidSoFar
  <2> QED BY <2>8, <2>9, <2>11 DEF QueryInv
<1> QED BY <1>3, <1>4

\* What a search found, of the knowledge bases asked.
LEMMA FoundThose ==
  ASSUME QueryInv, NEW from \in {"search", "fallback"}, query.pc = from,
         NEW V, \A v \in V : of[v] \in query.bases, Query!Found(from, V),
         of' = of, counts' = counts, raw' = raw, probe' = probe
  PROVE  QueryInv'
<1> USE DEF Query!Found
<1>1. used = {} /\ \A b \in Bases : counts'[b] = IF b \in query.bases THEN 1 ELSE 0
  BY DEF QueryInv, UsedHolds, CountsHold, CountedOnce
<1>2. query.left \in 0 .. 2 /\ query \in [pc: QuerySteps, streamed: BOOLEAN, bases: SUBSET Bases, left: 0 .. 2]
  BY DEF QueryInv, QueryTypes
<1>3. CASE V # {}
  <2>1. query' = [query EXCEPT !.pc = "answer", !.left = query.left] /\ used' = V /\ out' = out
    BY <1>2, <1>3
  <2> QED BY <1>1, <1>2, <2>1, GoesOn
<1>4. CASE V = {} /\ query.left = 2
  <2>1. query' = [query EXCEPT !.pc = "search", !.left = 1] /\ used' = {} /\ out' = out
    BY <1>1, <1>4
  <2>2. 1 \in 0 .. 2
    OBVIOUS
  <2> QED BY <1>1, <2>1, <2>2, GoesOn
<1>5. CASE V = {} /\ query.left # 2
  <2>1. Query!Answers(from, <<>>, "nothing") /\ used' = used
    BY <1>5
  <2>2. raw' \in Seq(Chars) /\ probe' \in Seq(Chars)
    BY DEF QueryInv, QueryTypes
  <2>3. "nothing" \in Endings \ {"open", "ended"} /\ from \in QuerySteps \ {"asked", "pass", "done"}
    BY DEF Endings, QuerySteps
  <2> QED BY <1>1, <2>1, <2>2, <2>3, SettledSilent
<1> QED BY <1>3, <1>4, <1>5

\* A search of the knowledge bases asked.
LEMMA Searching == ASSUME QueryInv, Query!Search PROVE QueryInv'
<1>1. PICK hits \in Query!Nearest(Query!Mine(query.bases), TopK) : Query!Found("search", Query!Range(hits))
  BY DEF Query!Search
<1>2. \A i \in DOMAIN hits : hits[i] \in Query!Mine(query.bases)
  BY QueryParameters DEF Query!Nearest
<1>3. \A v \in Query!Range(hits) : of[v] \in query.bases
  BY <1>2 DEF Query!Range, Query!Mine
<1> QED BY <1>1, <1>3, FoundThose DEF Query!Search

\* A search of all, of which only those asked are kept.
LEMMA FallingBack == ASSUME QueryInv, Query!Fallback PROVE QueryInv'
<1>1. PICK hits \in Query!Nearest(Query!Mine(Bases), 3 * TopK) :
        Query!Found("fallback", {hits[i] : i \in Query!FirstOf(Query!Allowed(hits), TopK)})
  BY DEF Query!Fallback
<1>2. \A v \in {hits[i] : i \in Query!FirstOf(Query!Allowed(hits), TopK)} : of[v] \in query.bases
  BY DEF Query!FirstOf, Query!Allowed
<1> HIDE DEF Query!Found
<1> QED BY <1>1, <1>2, FoundThose DEF Query!Fallback

\* The search raises.
LEMMA SearchFailing == ASSUME QueryInv, Query!SearchFails PROVE QueryInv'
<1>1. query.left \in 0 .. 2 /\ query \in [pc: QuerySteps, streamed: BOOLEAN, bases: SUBSET Bases, left: 0 .. 2]
  BY DEF QueryInv, QueryTypes
<1>2. query.pc = "search" /\ query' = [query EXCEPT !.pc = "fallback", !.left = query.left]
  BY <1>1 DEF Query!SearchFails, Query!Step
<1>3. used' = {} /\ \A b \in Bases : counts'[b] = IF b \in query.bases THEN 1 ELSE 0
  BY <1>2 DEF Query!SearchFails, QueryInv, UsedHolds, CountsHold, CountedOnce
<1> QED BY <1>1, <1>2, <1>3, GoesOn DEF Query!SearchFails

\* So does the one that replaces it.
LEMMA FallbackFailing == ASSUME QueryInv, Query!FallbackFails PROVE QueryInv'
BY SettledFails DEF Query!FallbackFails, QuerySteps

\* So does the model.
LEMMA AnswerFailing == ASSUME QueryInv, Query!AnswerFails PROVE QueryInv'
BY SettledFails DEF Query!AnswerFails, QuerySteps

\* The stream opens.
LEMMA Opening == ASSUME QueryInv, Query!OpenStream PROVE QueryInv'
<1>1. query.left \in 0 .. 2 /\ query \in [pc: QuerySteps, streamed: BOOLEAN, bases: SUBSET Bases, left: 0 .. 2]
  BY DEF QueryInv, QueryTypes
<1>2. query.pc = "answer" /\ query.streamed /\ query' = [query EXCEPT !.pc = "stream", !.left = query.left]
  BY <1>1 DEF Query!OpenStream, Query!Step
<1>3. /\ \A v \in used' : of[v] \in query.bases
      /\ \A b \in Bases : counts'[b] = IF b \in query.bases THEN 1 ELSE 0
  BY <1>2 DEF Query!OpenStream, QueryInv, UsedHolds, CountsHold, CountedOnce
<1> QED BY <1>1, <1>2, <1>3, GoesOn DEF Query!OpenStream

\* The whole of an answer, short or unstreamed, is normalized.
LEMMA Normalizing ==
  ASSUME QueryInv, NEW from \in {"answer", "stream"}, NEW s \in Seq(Chars), raw' = s,
         query.streamed => Len(s) < Probe, Query!NormalizeAnswer(from, s),
         of' = of, counts' = counts, used' = used, probe' = probe
  PROVE  QueryInv'
<1>1. /\ from \in QuerySteps \ {"asked", "done"} /\ from \in QuerySteps \ {"asked", "pass", "done"}
      /\ "ended" \in Endings /\ "nothing" \in Endings \ {"open", "ended"}
  BY DEF QuerySteps, Endings
<1>2. probe' \in Seq(Chars) /\ raw' \in Seq(Chars)
  BY DEF QueryInv, QueryTypes
<1>3. CASE Query!IsBlank(s) \/ Query!HasMarker(s)
  <2>1. Query!Answers(from, <<>>, "nothing")
    BY <1>3 DEF Query!NormalizeAnswer
  <2> QED BY <1>1, <1>2, <1>3, <2>1, SettledSilent
<1>4. CASE ~(Query!IsBlank(s) \/ Query!HasMarker(s))
  <2>1. Query!Answers(from, Query!Strip(s), "ended")
    BY <1>4 DEF Query!NormalizeAnswer
  <2>2. Query!Strip(s) \in Seq(Chars)
    BY <1>4, StripIs
  <2>3. out.text = <<>>
    BY <2>1 DEF QueryInv, SaidSoFar, Query!Answers, Query!Step
  <2>4. OneThing(Query!Strip(s), "ended", raw', query.streamed, used # {})
    BY <1>4, SaysShort
  <2>5. OneThing(out.text \o Query!Strip(s), "ended", raw', query.streamed, used # {})
    BY <2>2, <2>3, <2>4
  <2> QED BY <1>1, <1>2, <2>1, <2>2, <2>5, Settled
<1> QED BY <1>3, <1>4

\* A plain answer.
LEMMA Replying == ASSUME QueryInv, Query!Reply PROVE QueryInv'
<1>1. PICK s \in Query!UpTo(MaxReply) : raw' = s /\ Query!NormalizeAnswer("answer", s)
  BY DEF Query!Reply, Query!Chars
<1>2. s \in Seq(Chars)
  BY QueryParameters DEF Query!UpTo, Query!Chars, Chars
<1> QED BY <1>1, <1>2, Normalizing DEF Query!Reply

\* While it is passed on, a piece is all of what came.
LEMMA PassingPiece ==
  ASSUME QueryInv, NEW s \in Seq(Chars), Query!Piece(s), query.pc = "pass"
  PROVE  QueryInv'
<1> USE DEF Query!Piece, Query!Step
<1>1. /\ query.streamed /\ out.text = raw /\ Len(raw) >= Probe /\ Unmarked(raw) /\ out.end = "open"
      /\ raw \in Seq(Chars) /\ out \in [text: Seq(Chars), end: Endings]
      /\ query \in [pc: QuerySteps, streamed: BOOLEAN, bases: SUBSET Bases, left: 0 .. 2]
  BY DEF QueryInv, SaidSoFar, QueryTypes
<1>2. raw' = raw \o s /\ out' = [out EXCEPT !.text = @ \o s] /\ query' = query /\ probe' = probe
  BY <1>1 DEF Query!Answers
<1>3. raw' \in Seq(Chars) /\ out'.text = raw' /\ out'.end = "open" /\ out' \in [text: Seq(Chars), end: Endings]
  <2>1. raw' \in Seq(Chars)
    BY <1>1, <1>2
  <2>2. out' = [out EXCEPT !.text = raw']
    BY <1>1, <1>2
  <2> QED BY <1>1, <2>1, <2>2
<1>4. Len(raw') >= Probe /\ Unmarked(raw')
  <2>1. Len(raw') = Len(raw) + Len(s) /\ \A i \in 1 .. Len(raw) : raw'[i] = raw[i]
    BY <1>1, <1>2
  <2> QED BY <1>1, <2>1, QueryParameters DEF Unmarked
<1>5. QueryTypes'
  BY <1>2, <1>3 DEF QueryInv, QueryTypes
<1>6. UsedHolds' /\ CountsHold'
  BY <1>2 DEF QueryInv, UsedHolds, CountsHold, CountedOnce, CountedNowhere
<1>7. SaidSoFar'
  BY <1>1, <1>2, <1>3, <1>4 DEF SaidSoFar
<1> QED BY <1>5, <1>6, <1>7 DEF QueryInv

\* While it is held back, a piece ends it, opens it or joins the rest.
LEMMA ProbedPiece ==
  ASSUME QueryInv, NEW s \in Seq(Chars), Query!Piece(s), query.pc = "stream"
  PROVE  QueryInv'
<1>1. /\ query.streamed /\ raw = probe /\ Len(probe) < Probe /\ out.end = "open" /\ out.text = <<>>
      /\ raw \in Seq(Chars) /\ out \in [text: Seq(Chars), end: Endings]
      /\ query \in [pc: QuerySteps, streamed: BOOLEAN, bases: SUBSET Bases, left: 0 .. 2]
  BY DEF QueryInv, SaidSoFar, QueryTypes
<1>2. raw' = probe \o s /\ raw' \in Seq(Chars) /\ of' = of /\ counts' = counts /\ used' = used
  BY <1>1 DEF Query!Piece
<1>3. CASE Query!HasMarker(probe \o s)
  <2>1. Query!Answers("stream", <<>>, "nothing") /\ probe' = probe
    BY <1>1, <1>3 DEF Query!Piece, Query!Searched, Query!Step
  <2>2. /\ "stream" \in QuerySteps \ {"asked", "pass", "done"}
        /\ "nothing" \in Endings \ {"open", "ended"} /\ probe' \in Seq(Chars)
    BY <1>1, <2>1 DEF QuerySteps, Endings
  <2> QED BY <1>2, <1>3, <2>1, <2>2, SettledSilent
<1>4. CASE ~Query!HasMarker(probe \o s) /\ Len(probe \o s) >= Probe
  <2>1. query' = [query EXCEPT !.pc = "pass"] /\ out' = [out EXCEPT !.text = probe \o s] /\ probe' = <<>>
    BY <1>1, <1>4, QueryParameters DEF Query!Piece, Query!Searched, Query!Step, Query!Answers
  <2>2. /\ query'.pc = "pass" /\ query'.streamed = query.streamed /\ query'.bases = query.bases
        /\ query' \in [pc: QuerySteps, streamed: BOOLEAN, bases: SUBSET Bases, left: 0 .. 2]
    BY <1>1, <2>1 DEF QuerySteps
  <2>3. out'.text = raw' /\ out'.end = "open" /\ out' \in [text: Seq(Chars), end: Endings]
    BY <1>1, <1>2, <2>1
  <2>4. Len(raw') >= Probe /\ Unmarked(raw')
    BY <1>2, <1>4, QueryParameters DEF Unmarked, Query!HasMarker
  <2>5. QueryTypes'
    <3>1. query'.bases # {}
      BY <2>2 DEF QueryInv, QueryTypes
    <3>2. probe' \in Seq(Chars)
      BY <2>1
    <3> QED BY <1>2, <2>2, <2>3, <3>1, <3>2 DEF QueryTypes
  <2>6. UsedHolds' /\ CountsHold'
    BY <1>2, <2>2 DEF QueryInv, UsedHolds, CountsHold, CountedOnce, CountedNowhere
  <2>7. SaidSoFar'
    BY <1>1, <2>2, <2>3, <2>4 DEF SaidSoFar
  <2> QED BY <2>5, <2>6, <2>7 DEF QueryInv
<1>5. CASE ~Query!HasMarker(probe \o s) /\ ~(Len(probe \o s) >= Probe)
  <2>1. query' = query /\ out' = out /\ probe' = probe \o s
    BY <1>1, <1>5, QueryParameters DEF Query!Piece, Query!Searched, Query!Step, Query!Answers
  <2>2. Len(probe') < Probe /\ probe' \in Seq(Chars) /\ raw' = probe'
    BY <1>2, <1>5, <2>1, QueryParameters
  <2>3. QueryTypes'
    BY <1>2, <2>1, <2>2 DEF QueryInv, QueryTypes
  <2>4. UsedHolds' /\ CountsHold'
    BY <1>2, <2>1 DEF QueryInv, UsedHolds, CountsHold, CountedOnce, CountedNowhere
  <2>5. SaidSoFar'
    BY <1>1, <2>1, <2>2 DEF SaidSoFar
  <2> QED BY <2>3, <2>4, <2>5 DEF QueryInv
<1> QED BY <1>3, <1>4, <1>5

\* A piece of the stream.
LEMMA HearingPiece == ASSUME QueryInv, NEW s \in Seq(Chars), Query!Piece(s) PROVE QueryInv'
<1>1. query.pc \in {"pass", "stream"}
  BY DEF Query!Piece, Query!Step, Query!Answers
<1> QED BY <1>1, PassingPiece, ProbedPiece

\* A stream that is passed on stops where it is.
LEMMA SettledStream ==
  ASSUME QueryInv, NEW end \in {"ended", "error", "left"}, Query!Answers("pass", <<>>, end),
         of' = of, counts' = counts, used' = used, raw' = raw, probe' = probe
  PROVE  QueryInv'
<1>1. query.pc = "pass"
  BY DEF Query!Answers, Query!Step
<1>2. query.streamed = TRUE /\ out.text = raw /\ Len(raw) >= Probe /\ Unmarked(raw) /\ raw \in Seq(Chars)
      /\ probe \in Seq(Chars)
  BY <1>1 DEF QueryInv, SaidSoFar, QueryTypes
<1>3. OneThing(raw, end, raw, TRUE, used # {})
  BY <1>2, SaysLong DEF Unmarked
<1>4. out.text \o <<>> = raw /\ <<>> \in Seq(Chars)
  BY <1>2
<1>5. OneThing(out.text \o <<>>, end, raw', query.streamed, used # {})
  BY <1>2, <1>3, <1>4
<1>6. "pass" \in QuerySteps \ {"asked", "done"} /\ end \in Endings
  BY DEF QuerySteps, Endings
<1> QED BY <1>2, <1>4, <1>5, <1>6, Settled

\* The stream ends.
LEMMA StreamEnding == ASSUME QueryInv, Query!StreamEnds PROVE QueryInv'
<1>1. CASE Query!Answers("pass", <<>>, "ended")
  BY <1>1, SettledStream DEF Query!StreamEnds
<1>2. CASE Query!NormalizeAnswer("stream", probe)
  <2>1. query.pc = "stream"
    BY <1>2 DEF Query!NormalizeAnswer, Query!Answers, Query!Step
  <2>2. raw' = probe /\ probe \in Seq(Chars) /\ Len(probe) < Probe
    BY <2>1 DEF QueryInv, SaidSoFar, QueryTypes, Query!StreamEnds
  <2> QED BY <1>2, <2>2, Normalizing DEF Query!StreamEnds
<1> QED BY <1>1, <1>2 DEF Query!StreamEnds

\* It breaks off.
LEMMA StreamStopping == ASSUME QueryInv, Query!StreamFails \/ Query!ClientLeaves PROVE QueryInv'
<1>1. of' = of /\ counts' = counts /\ used' = used /\ raw' = raw /\ probe' = probe
  BY DEF Query!StreamFails, Query!ClientLeaves
<1>2. PICK end \in {"error", "left"} :
        Query!Answers("pass", <<>>, end) \/ Query!Answers("stream", <<>>, end)
  BY DEF Query!StreamFails, Query!ClientLeaves
<1>3. CASE Query!Answers("pass", <<>>, end)
  BY <1>1, <1>3, SettledStream
<1>4. CASE Query!Answers("stream", <<>>, end)
  <2>1. /\ "stream" \in QuerySteps \ {"asked", "pass", "done"} /\ end \in Endings \ {"open", "ended"}
        /\ raw' \in Seq(Chars) /\ probe' \in Seq(Chars)
    BY <1>1 DEF QuerySteps, Endings, QueryInv, QueryTypes
  <2> QED BY <1>1, <1>4, <2>1, SettledSilent
<1> QED BY <1>2, <1>3, <1>4

\* Steps of others.
LEMMA QueryUntouched ==
  ASSUME QueryInv, UNCHANGED <<of, counts, query, used, raw, probe, out>> PROVE QueryInv'
BY DEF QueryInv, QueryTypes, UsedHolds, CountsHold, CountedOnce, CountedNowhere, SaidSoFar

\* No step of a question breaks its invariant.
LEMMA QueryStep == ASSUME QueryInv, [Query!Next]_queryVars PROVE QueryInv'
<1>1. ASSUME NEW s \in Query!UpTo(2), Query!Piece(s) PROVE QueryInv'
  <2>1. s \in Seq(Chars)
    <3>1. PICK m \in 0 .. 2 : s \in [1 .. m -> 0 .. 3]
      BY DEF Query!UpTo, Query!Chars
    <3> QED BY <3>1 DEF Chars
  <2> QED BY <1>1, <2>1, HearingPiece
<1>2. CASE Query!DeleteBase \/ UNCHANGED queryVars
  BY <1>2, QueryUntouched DEF Query!DeleteBase, queryVars
<1> QED
  BY <1>1, <1>2, Counting, Searching, SearchFailing, FallingBack, FallbackFailing, Replying,
     Opening, AnswerFailing, StreamEnding, StreamStopping DEF Query!Next, Query!Chars

\* What follows from it.
LEMMA QueryIsHonest == QueryInv => Query!AsksOnlyTheAsked /\ Query!SaysOneThing
<1> SUFFICES ASSUME QueryInv PROVE Query!AsksOnlyTheAsked /\ Query!SaysOneThing
  OBVIOUS
<1>1. Query!AsksOnlyTheAsked
  <2>1. PICK b \in Bases : b \in query.bases
    BY DEF QueryInv, QueryTypes
  <2>2. CountedOnce \/ (CountedNowhere /\ used = {})
    BY DEF QueryInv, QueryTypes, QuerySteps, UsedHolds, CountsHold
  <2> QED BY <2>1, <2>2 DEF Query!AsksOnlyTheAsked, QueryInv, UsedHolds, CountedOnce, CountedNowhere
<1>2. raw \in Seq(Chars) /\ query.pc \in QuerySteps
  BY DEF QueryInv, QueryTypes
<1>3. OneThing(out.text, out.end, raw, query.streamed, used # {})
  <2>1. CASE query.pc \in {"asked", "search", "fallback", "answer", "stream"}
    <3>1. out.text = <<>> /\ out.end = "open"
      BY <2>1 DEF QueryInv, SaidSoFar
    <3>2. OneThing(<<>>, "open", raw, query.streamed, used # {})
      BY <1>2, SaysNothing
    <3> QED BY <3>1, <3>2
  <2>2. CASE query.pc = "pass"
    <3>1. out.text = raw /\ out.end = "open" /\ query.streamed = TRUE /\ Len(raw) >= Probe /\ Unmarked(raw)
      BY <2>2 DEF QueryInv, SaidSoFar, QueryTypes
    <3>2. OneThing(raw, "open", raw, TRUE, used # {})
      BY <1>2, <3>1, SaysLong DEF Unmarked
    <3> QED BY <3>1, <3>2
  <2>3. CASE query.pc = "done"
    BY <2>3 DEF QueryInv, SaidSoFar
  <2> QED BY <1>2, <2>1, <2>2, <2>3 DEF QuerySteps
<1>4. Query!SaysOneThing
  BY <1>3 DEF OneThing, Query!SaysOneThing
<1> QED BY <1>1, <1>4

-----------------------------------------------------------------------------
(* Speech recognition: the newest run is heard                             *)

\* Of the constants.
LEMMA AsrParameters == MaxRuns \in Nat \ {0} /\ MaxAppends \in Nat
BY ModelsAssumption DEF Asr!RecognitionAssumption

AsrRuns     == 1 .. MaxRuns
AsrStoppers == {"receive", "monitor", "close"}
Stopping    == [pc: {"idle", "finish", "gather", "sleep"}, run: 0 .. MaxRuns]

AsrTypes ==
  /\ asrGen \in AsrRuns /\ closed \in BOOLEAN /\ ready \in BOOLEAN
  /\ asrConn \in 0 .. MaxRuns /\ task \in {0, asrGen}
  /\ run \in [AsrRuns -> {"none", "connect", "setup", "listen", "ending", "done"}]
  /\ stop \in [AsrStoppers -> Stopping]

\* A run without a task has been cancelled, or has ended.
CancelledEnds == task = 0 => run[asrGen] \in {"ending", "done"}

\* While nobody is about to close its connection, the newest run has the
\* session's, and is ready once it listens.
NewestConnected ==
  (/\ ~closed /\ \A s \in AsrStoppers : stop[s].pc # "finish"
   /\ run[asrGen] \in {"setup", "listen"})
     => asrConn = asrGen /\ (run[asrGen] = "listen" => ready)

\* A closed session has no connection and, once that is closed, no task.
ClosedHasNone == closed => asrConn = 0 /\ (stop["close"].pc # "finish" => task = 0)

\* A run with a connection is the one the session can cancel, or was
\* overtaken.
LinkedHasTask ==
  \A g \in AsrRuns : run[g] \in {"setup", "listen"} => g = task \/ g \in overtaken

AsrInv == AsrTypes /\ CancelledEnds /\ NewestConnected /\ ClosedHasNone /\ LinkedHasTask

\* Recognition begins with its first run connecting.
LEMMA AsrStarts == Asr!Init => AsrInv
<1> SUFFICES ASSUME Asr!Init PROVE AsrInv
  OBVIOUS
<1>1. AsrTypes
  <2>1. 1 \in AsrRuns /\ 0 \in 0 .. MaxRuns
    BY AsrParameters DEF AsrRuns
  <2>2. Asr!IdleStop \in Stopping
    BY <2>1 DEF Asr!IdleStop, Stopping
  <2> QED BY <2>1, <2>2 DEF Asr!Init, Asr!Runs, Asr!Stoppers, AsrTypes, AsrRuns, AsrStoppers
<1>2. run[asrGen] = "connect"
  BY AsrParameters DEF Asr!Init, Asr!Runs
<1>3. LinkedHasTask
  BY AsrParameters DEF Asr!Init, Asr!Runs, AsrRuns, LinkedHasTask
<1> QED BY <1>1, <1>2, <1>3 DEF Asr!Init, AsrInv, CancelledEnds, NewestConnected, ClosedHasNone

\* The newest run is at its end, or someone is about to close its connection,
\* or the session is closed.
Interrupted == run[asrGen] \in {"ending", "done"} \/ closed \/ \E s \in AsrStoppers : stop[s].pc = "finish"

\* Runs make their steps; the other variables keep.
LEMMA RunMoves ==
  ASSUME AsrInv, NEW g \in AsrRuns, NEW to \in {"setup", "listen", "ending", "done"},
         run' = [run EXCEPT ![g] = to], UNCHANGED <<asrGen, closed, task, overtaken, stop>>,
         to = "setup" => g = task, to = "listen" => run[g] = "setup",
         asrConn' \in 0 .. MaxRuns, ready' \in BOOLEAN,
         closed => asrConn' = 0,
         run[g] \in {"ending", "done"} => to = "done",
         \* it is the newest one, or leaves what the newest has
         \/ g = asrGen /\ (to \in {"setup", "listen"} =>
              closed \/ (\E s \in AsrStoppers : stop[s].pc = "finish")
                \/ (asrConn' = g /\ (to = "listen" => ready')))
         \/ g # asrGen /\ asrConn' = asrConn /\ (ready => ready')
  PROVE  AsrInv'
<1> USE DEF AsrInv
<1>0. /\ run'[g] = to /\ \A h \in AsrRuns \ {g} : run'[h] = run[h]
      /\ asrGen \in AsrRuns
  BY DEF AsrTypes
<1>1. AsrTypes'
  BY DEF AsrTypes
<1>2. CancelledEnds'
  BY <1>0 DEF CancelledEnds
<1>3. NewestConnected'
  <2>1. CASE g = asrGen
    BY <1>0, <2>1 DEF NewestConnected
  <2>2. CASE g # asrGen
    BY <1>0, <2>2 DEF NewestConnected
  <2> QED BY <2>1, <2>2
<1>4. ClosedHasNone'
  BY DEF ClosedHasNone
<1>5. LinkedHasTask'
  BY <1>0 DEF LinkedHasTask
<1> QED BY <1>1, <1>2, <1>3, <1>4, <1>5

\* The newest run is cancelled, or its connection is about to be closed.
LEMMA StopMoves ==
  ASSUME AsrInv, asrGen' = asrGen, closed' \in BOOLEAN, ready' \in BOOLEAN,
         asrConn' \in {0, asrConn}, closed' => asrConn' = 0, task' \in {0, task},
         run' \in [AsrRuns -> {"none", "connect", "setup", "listen", "ending", "done"}],
         stop' \in [AsrStoppers -> Stopping],
         task' = 0 => run'[asrGen] \in {"ending", "done"},
         closed' => stop'["close"].pc = "finish" \/ task' = 0,
         overtaken' = overtaken,
         \A g \in AsrRuns : run'[g] \in {"setup", "listen"} =>
           run[g] = run'[g] /\ (g = task => task' = task),
         \/ run'[asrGen] \in {"ending", "done"}
         \/ closed'
         \/ \E s \in AsrStoppers : stop'[s].pc = "finish"
  PROVE  AsrInv'
<1>1. AsrTypes'
  <2>1. 0 \in 0 .. MaxRuns
    BY AsrParameters
  <2> QED BY <2>1 DEF AsrInv, AsrTypes
<1>2. CancelledEnds'
  BY DEF CancelledEnds
<1>3. NewestConnected'
  BY DEF NewestConnected
<1>4. ClosedHasNone'
  BY DEF ClosedHasNone
<1>5. LinkedHasTask'
  BY DEF AsrInv, LinkedHasTask
<1> QED BY <1>1, <1>2, <1>3, <1>4, <1>5 DEF AsrInv

\* What cancelling a run leaves.
LEMMA RunCancelled ==
  ASSUME AsrInv, 
         run' = IF task # 0 /\ run[task] # "done" THEN [run EXCEPT ![task] = "ending"] ELSE run
  PROVE  /\ run'[asrGen] \in {"ending", "done"}
         /\ run' \in [AsrRuns -> {"none", "connect", "setup", "listen", "ending", "done"}]
         /\ \A g \in AsrRuns : run'[g] \in {"setup", "listen"} => run[g] = run'[g] /\ g # task
<1>1. CASE task # 0
  <2>1. task = asrGen /\ asrGen \in AsrRuns
    BY <1>1 DEF AsrInv, AsrTypes
  <2> QED BY <1>1, <2>1 DEF AsrInv, AsrTypes
<1>2. CASE task = 0
  BY <1>2 DEF AsrInv, AsrTypes, AsrRuns, CancelledEnds
<1> QED BY <1>1, <1>2

\* A step of one run.
LEMMA StepOfRun ==
  ASSUME AsrInv, NEW g \in AsrRuns,
         Asr!Connected(g) \/ Asr!Configured(g) \/ Asr!Hangs(g) \/ Asr!RunEnds(g)
  PROVE  AsrInv'
<1> USE AsrParameters
<1>0. /\ asrGen \in AsrRuns /\ asrConn \in 0 .. MaxRuns /\ closed \in BOOLEAN /\ ready \in BOOLEAN
      /\ closed => asrConn = 0
      /\ g \in 0 .. MaxRuns
  BY DEF AsrInv, AsrTypes, ClosedHasNone, AsrRuns
<1>1. CASE Asr!Connected(g)
  <2>1. UNCHANGED <<asrGen, closed, task, overtaken, stop, ready>>
    BY <1>1 DEF Asr!Connected
  <2>2. CASE closed \/ g # asrGen
    <3>1. run[g] = "connect" /\ run' = [run EXCEPT ![g] = "ending"] /\ asrConn' = asrConn
      BY <1>1, <2>2 DEF Asr!Connected, Asr!Run
    <3> QED BY <1>0, <2>1, <3>1, RunMoves
  <2>3. CASE ~(closed \/ g # asrGen)
    <3>1. run[g] = "connect" /\ run' = [run EXCEPT ![g] = "setup"] /\ asrConn' = g
      BY <1>1, <2>3 DEF Asr!Connected, Asr!Run
    <3>2. g = task
      BY <1>0, <2>3, <3>1 DEF AsrInv, AsrTypes, CancelledEnds
    <3> QED BY <1>0, <2>1, <2>3, <3>1, <3>2, RunMoves
  <2> QED BY <2>2, <2>3
<1>2. CASE Asr!Configured(g)
  <2>1. UNCHANGED <<asrGen, closed, task, overtaken, stop, asrConn>>
    BY <1>2 DEF Asr!Configured
  <2>2. CASE g \in asrShut
    <3>1. run[g] = "setup" /\ run' = [run EXCEPT ![g] = "ending"] /\ ready' = ready
      BY <1>2, <2>2 DEF Asr!Configured, Asr!Run
    <3> QED BY <1>0, <2>1, <3>1, RunMoves
  <2>3. CASE g \notin asrShut
    <3>1. run[g] = "setup" /\ run' = [run EXCEPT ![g] = "listen"] /\ ready' = TRUE
      BY <1>2, <2>3 DEF Asr!Configured, Asr!Run
    <3>2. g = asrGen => \/ closed \/ (\E s \in AsrStoppers : stop[s].pc = "finish")
                        \/ asrConn = g
      BY <3>1 DEF AsrInv, NewestConnected
    <3> QED BY <1>0, <2>1, <3>1, <3>2, RunMoves
  <2> QED BY <2>2, <2>3
<1>3. CASE Asr!Hangs(g)
  <2>1. UNCHANGED <<asrGen, closed, task, overtaken, stop, asrConn, ready>>
    BY <1>3 DEF Asr!Hangs, Asr!session
  <2>2. run[g] \in {"connect", "setup", "listen"} /\ run' = [run EXCEPT ![g] = "ending"]
    BY <1>3 DEF Asr!Hangs, Asr!Run
  <2> QED BY <1>0, <2>1, <2>2, RunMoves
<1>4. CASE Asr!RunEnds(g)
  <2>1. UNCHANGED <<asrGen, closed, task, overtaken, stop>> /\ run[g] = "ending" /\ run' = [run EXCEPT ![g] = "done"]
    BY <1>4 DEF Asr!RunEnds, Asr!Run
  <2>2. \/ g = asrGen /\ ready' = FALSE /\ asrConn' = 0
        \/ g # asrGen /\ ready' = ready /\ asrConn' = asrConn
    BY <1>4 DEF Asr!RunEnds, Asr!Current
  <2>3. asrConn' \in 0 .. MaxRuns /\ ready' \in BOOLEAN /\ (closed => asrConn' = 0)
    <3>1. 0 \in 0 .. MaxRuns /\ FALSE \in BOOLEAN
      OBVIOUS
    <3> QED BY <1>0, <2>2, <3>1
  <2> QED BY <1>0, <2>1, <2>2, <2>3, RunMoves
<1> QED BY <1>1, <1>2, <1>3, <1>4

\* _stop_connection
LEMMA StopKeeps ==
  ASSUME AsrInv, NEW s \in AsrStoppers, Asr!StopConnection(s), UNCHANGED <<asrGen, closed, overtaken>>,
         s # "close"
  PROVE  AsrInv'
<1>0. /\ stop \in [AsrStoppers -> Stopping] /\ task \in 0 .. MaxRuns /\ asrConn \in 0 .. MaxRuns
      /\ closed \in BOOLEAN /\ ready' = FALSE /\ asrConn' = 0
      /\ closed => stop["close"].pc = "finish" \/ task = 0
  BY AsrParameters DEF AsrInv, AsrTypes, AsrRuns, ClosedHasNone, Asr!StopConnection
<1>1. CASE asrConn = 0 /\ Asr!CancelRun(s)
  <2>1. /\ run' = IF task # 0 /\ run[task] # "done" THEN [run EXCEPT ![task] = "ending"] ELSE run
        /\ stop' = [stop EXCEPT ![s] = [pc |-> "gather", run |-> task]] /\ task' = 0
    BY <1>1 DEF Asr!CancelRun
  <2>2. stop' \in [AsrStoppers -> Stopping]
    BY <1>0, <2>1 DEF Stopping
  <2> QED BY <1>0, <2>1, <2>2, RunCancelled, StopMoves
<1>2. CASE asrConn # 0
  <2>1. stop' = [stop EXCEPT ![s] = [pc |-> "finish", run |-> asrConn]] /\ UNCHANGED <<task, run>>
    BY <1>2 DEF Asr!StopConnection
  <2>2. /\ stop' \in [AsrStoppers -> Stopping] /\ stop'[s].pc = "finish"
        /\ "close" \in AsrStoppers /\ stop'["close"] = stop["close"]
    BY <1>0, <2>1 DEF Stopping, AsrStoppers
  <2>3. task = 0 => run[asrGen] \in {"ending", "done"}
    BY DEF AsrInv, CancelledEnds
  <2>4. run \in [AsrRuns -> {"none", "connect", "setup", "listen", "ending", "done"}]
    BY DEF AsrInv, AsrTypes
  <2> QED BY <1>0, <2>1, <2>2, <2>3, <2>4, StopMoves
<1> QED BY <1>1, <1>2 DEF Asr!StopConnection

\* A connection is finished, and with it the run on it.
LEMMA FinishKeeps ==
  ASSUME AsrInv, NEW s \in AsrStoppers, Asr!FinishConnection(s)
  PROVE  AsrInv'
<1>0. /\ stop \in [AsrStoppers -> Stopping] /\ task \in 0 .. MaxRuns
      /\ closed \in BOOLEAN /\ ready \in BOOLEAN /\ (closed => asrConn = 0)
      /\ UNCHANGED <<asrGen, closed, ready, asrConn, overtaken>>
  BY AsrParameters DEF AsrInv, AsrTypes, AsrRuns, ClosedHasNone, Asr!FinishConnection
<1>1. /\ run' = IF task # 0 /\ run[task] # "done" THEN [run EXCEPT ![task] = "ending"] ELSE run
      /\ stop' = [stop EXCEPT ![s] = [pc |-> "gather", run |-> task]] /\ task' = 0
  BY DEF Asr!FinishConnection, Asr!CancelRun
<1>2. stop' \in [AsrStoppers -> Stopping]
  BY <1>0, <1>1 DEF Stopping
<1> QED BY <1>0, <1>1, <1>2, RunCancelled, StopMoves

\* The session is closed.
LEMMA CloseKeeps == ASSUME AsrInv, Asr!Close PROVE AsrInv'
<1> DEFINE at == [stop EXCEPT !["monitor"] = Asr!IdleStop]
<1>0. /\ stop \in [AsrStoppers -> Stopping] /\ task \in 0 .. MaxRuns /\ asrConn \in 0 .. MaxRuns
      /\ closed' = TRUE /\ ready' = FALSE /\ asrConn' = 0 /\ UNCHANGED <<asrGen, overtaken>>
      /\ at \in [AsrStoppers -> Stopping]
  BY AsrParameters DEF AsrInv, AsrTypes, AsrRuns, Asr!Close, Asr!IdleStop, Stopping, AsrStoppers
<1>1. CASE /\ run' = IF task # 0 /\ run[task] # "done" THEN [run EXCEPT ![task] = "ending"] ELSE run
           /\ stop' = [at EXCEPT !["close"] = [pc |-> "gather", run |-> task]]
           /\ task' = 0
  <2>1. stop' \in [AsrStoppers -> Stopping]
    BY <1>0, <1>1 DEF Stopping
  <2> QED BY <1>0, <1>1, <2>1, RunCancelled, StopMoves
<1>2. CASE stop' = [at EXCEPT !["close"] = [pc |-> "finish", run |-> asrConn]] /\ UNCHANGED <<task, run>>
  <2>1. stop' \in [AsrStoppers -> Stopping] /\ stop'["close"].pc = "finish" /\ "close" \in AsrStoppers
    BY <1>0, <1>2 DEF Stopping, AsrStoppers
  <2>2. /\ task = 0 => run[asrGen] \in {"ending", "done"}
        /\ run \in [AsrRuns -> {"none", "connect", "setup", "listen", "ending", "done"}]
    BY DEF AsrInv, CancelledEnds, AsrTypes
  <2> QED BY <1>0, <1>2, <2>1, <2>2, StopMoves
<1> QED BY <1>1, <1>2 DEF Asr!Close

\* No step of recognition breaks its invariant.
LEMMA AsrStep == ASSUME AsrInv, [Asr!Next]_asrVars PROVE AsrInv'
<1> USE AsrParameters
<1>1. ASSUME UNCHANGED <<asrGen, closed, ready, asrConn, task, overtaken, run>>, NEW s \in AsrStoppers,
             NEW pc \in {"idle", "sleep"}, stop[s].pc # "finish",
             stop' = [stop EXCEPT ![s] = [pc |-> pc, run |-> 0]]
      PROVE  AsrInv'
  <2>1. /\ stop' \in [AsrStoppers -> Stopping]
        /\ \A t \in AsrStoppers : stop'[t].pc = "finish" <=> stop[t].pc = "finish"
    BY <1>1 DEF AsrInv, AsrTypes, Stopping
  <2>2. "close" \in AsrStoppers
    BY DEF AsrStoppers
  <2> QED BY <1>1, <2>1, <2>2 DEF AsrInv, AsrTypes, CancelledEnds, NewestConnected, ClosedHasNone, LinkedHasTask
<1>2. ASSUME NEW s \in AsrStoppers, Asr!Stopped(s) PROVE AsrInv'
  <2>1. UNCHANGED <<asrGen, closed, ready, asrConn, task, overtaken, run>> /\ stop[s].pc = "gather"
    BY <1>2 DEF Asr!Stopped, Asr!Gathered, Asr!session
  <2>2. \E pc \in {"idle", "sleep"} : stop' = [stop EXCEPT ![s] = [pc |-> pc, run |-> 0]]
    BY <1>2 DEF Asr!Stopped, Asr!IdleStop
  <2> QED BY <1>1, <2>1, <2>2
<1>3. ASSUME NEW s \in AsrStoppers, Asr!Start(s) PROVE AsrInv'
  <2>1. /\ stop[s].pc = "sleep" /\ stop' = [stop EXCEPT ![s] = [pc |-> "idle", run |-> 0]]
        /\ UNCHANGED <<closed, ready, asrConn>>
    BY <1>3 DEF Asr!Start, Asr!IdleStop
  <2>2. CASE closed
    BY <1>1, <1>3, <2>1, <2>2 DEF Asr!Start, Asr!MayStart
  <2>3. CASE ~closed
    <3>1. /\ asrGen < MaxRuns /\ asrGen' = asrGen + 1 /\ task' = asrGen + 1
          /\ run' = [run EXCEPT ![asrGen + 1] = "connect"]
      BY <1>3, <2>3 DEF Asr!Start, Asr!MayStart
    <3>2. asrGen' \in AsrRuns /\ run'[asrGen'] = "connect" /\ asrGen' # 0
      BY <3>1 DEF AsrInv, AsrTypes, AsrRuns
    <3>3. AsrTypes'
      BY <2>1, <3>1, <3>2 DEF AsrInv, AsrTypes, Stopping
    <3>4. LinkedHasTask'
      <4>1. overtaken' = overtaken \cup {g \in {task} \ {0} : run[g] \in {"setup", "listen"}}
        BY <1>3, <2>3 DEF Asr!Start, Asr!MayStart, Asr!Linked
      <4> QED BY <3>1, <4>1 DEF AsrInv, AsrTypes, AsrRuns, LinkedHasTask
    <3> QED BY <2>1, <2>3, <3>1, <3>2, <3>3, <3>4
            DEF AsrInv, CancelledEnds, NewestConnected, ClosedHasNone
  <2> QED BY <2>2, <2>3
<1>4. CASE Asr!MonitorRestarts
  BY <1>4, StopKeeps DEF Asr!MonitorRestarts, AsrStoppers
<1>5. CASE UNCHANGED <<asrGen, closed, ready, asrConn, task, overtaken, run, stop>>
  BY <1>5 DEF AsrInv, AsrTypes, CancelledEnds, NewestConnected, ClosedHasNone, LinkedHasTask
<1>6. CASE Asr!Append
  <2>1. CASE Asr!StopConnection("receive")
    BY <1>6, <2>1, StopKeeps DEF Asr!Append, AsrStoppers
  <2> QED BY <1>5, <1>6, <2>1 DEF Asr!Append
<1>7. CASE Asr!Receives \/ Asr!Retry \/ UNCHANGED asrVars
  BY <1>5, <1>7 DEF Asr!Receives, Asr!Retry, Asr!session, asrVars
<1> QED BY <1>2, <1>3, <1>4, <1>6, <1>7, StepOfRun, FinishKeeps, CloseKeeps
        DEF Asr!Next, Asr!Runs, Asr!Stoppers, AsrRuns, AsrStoppers

\* What follows from it.
LEMMA NewestHeard == AsrInv => Asr!RecognitionHolds
<1> SUFFICES ASSUME AsrInv PROVE Asr!NewestIsHeard /\ Asr!ClosedIsSilent
  BY DEF Asr!RecognitionHolds
<1>1. Asr!NewestIsHeard
  BY DEF Asr!NewestIsHeard, Asr!Busy, Asr!Stoppers, AsrInv, NewestConnected, AsrStoppers
<1>2. Asr!ClosedIsSilent
  BY DEF Asr!ClosedIsSilent, Asr!Linked, Asr!Runs, AsrInv, AsrTypes, AsrRuns, ClosedHasNone, LinkedHasTask
<1> QED BY <1>1, <1>2

-----------------------------------------------------------------------------
(* Lists of models: each is of the key it was asked with                   *)

\* Of the constants.
LEMMA DiscoveryParameters ==
  /\ MaxVersion \in Nat \ {0}
  /\ None \notin [url: Urls, key: ApiKeys \cup {None}]
  /\ None \notin Urls \X ApiKeys
  /\ None \notin {"chat", "embed"}
BY ModelsAssumption
   DEF Discovery!DiscoveryAssumption, Discovery!Rows, Discovery!Pairs, Discovery!Models

\* What a list is of, and what a request reads, asks and answers.
Places    == Urls \X (ApiKeys \cup {None})
ListsOf   == [of: {None} \cup (Urls \X ApiKeys), models: SUBSET {"chat", "embed"}]
Asking    == [pc: {"idle", "lookup", "fetch", "again", "store", "done", "test", "retest", "edit"},
              url: Urls \cup {None}, key: ApiKeys \cup {None}, version: 0 .. MaxVersion,
              list: ListsOf]
CachedLists == [url: Urls, version: 1 .. MaxVersion, of: Urls \X ApiKeys,
                models: SUBSET {"chat", "embed"}]

DiscoveryTypes ==
  /\ version \in 1 .. MaxVersion
  /\ row \in [url: Urls, key: ApiKeys \cup {None}] \cup {None}
  /\ cache \subseteq CachedLists
  /\ lookup \in [Askers -> Asking]

\* A request that lists has an address, and once the provider is asked a key;
\* what it has got by then is of that key.
AsksHold ==
  \A c \in Askers :
    /\ lookup[c].pc = "lookup" => lookup[c].url \in Urls
    /\ lookup[c].pc \in {"fetch", "again", "store"} => <<lookup[c].url, lookup[c].key>> \in Urls \X ApiKeys
    /\ lookup[c].list.of \in {None, <<lookup[c].url, lookup[c].key>>}
    /\ lookup[c].list.of = None => lookup[c].list.models = {}
    /\ lookup[c].pc = "store" => lookup[c].list.of = <<lookup[c].url, lookup[c].key>>

\* What is known of the key of a version of the row: by the row as it is, by
\* the requests that read it, and by what is in Redis.
Known ==
  {<<version, <<r.url, r.key>>>> : r \in {row} \ {None}}
    \cup {<<lookup[c].version, <<lookup[c].url, lookup[c].key>>>> : c \in {d \in Askers : lookup[d].version # 0}}
    \cup {<<e.version, e.of>> : e \in cache}

\* One version has one key.
VersionsAgree ==
  /\ \A p \in Known : p[1] =< version
  /\ \A p, q \in Known : p[1] = q[1] => p[2] = q[2]

DiscoveryInv == DiscoveryTypes /\ AsksHold /\ VersionsAgree

\* What a request asks for.
LEMMA AsksFor ==
  ASSUME NEW pc, NEW url, NEW k, NEW v
  PROVE  LET ask == Discovery!Asks(pc, url, k, v)
         IN  /\ ask.pc = pc /\ ask.url = url /\ ask.key = k /\ ask.version = v
             /\ ask.list.of = None /\ ask.list.models = {}
BY DEF Discovery!Asks, Discovery!NoList

\* It is one of those a caller may have.
LEMMA AsksTyped ==
  ASSUME NEW pc \in {"idle", "lookup", "test", "edit"}, NEW url \in Urls \cup {None},
         NEW k \in ApiKeys \cup {None}, NEW v \in 0 .. MaxVersion
  PROVE  Discovery!Asks(pc, url, k, v) \in Asking
<1>1. Discovery!NoList \in ListsOf
  BY DEF Discovery!NoList, ListsOf
<1> QED BY <1>1 DEF Discovery!Asks, Asking

\* A caller without a request.
LEMMA IdleAsks ==
  /\ Discovery!Idle \in Asking /\ Discovery!Idle.version = 0 /\ Discovery!Idle.pc = "idle"
  /\ Discovery!Idle.list.of = None /\ Discovery!Idle.list.models = {}
<1>1. 0 \in 0 .. MaxVersion
  BY DiscoveryParameters
<1> QED BY <1>1, AsksFor, AsksTyped DEF Discovery!Idle

\* Nothing is cached and nothing asked.
LEMMA DiscoveryStarts == Discovery!Init => DiscoveryInv
<1> SUFFICES ASSUME Discovery!Init PROVE DiscoveryInv
  OBVIOUS
<1>1. /\ version = 1 /\ row \in [url: Urls, key: ApiKeys \cup {None}] /\ cache = {}
      /\ lookup = [c \in Askers |-> Discovery!Idle]
  BY DEF Discovery!Init, Discovery!Rows
<1>2. DiscoveryTypes
  BY <1>1, IdleAsks, DiscoveryParameters DEF DiscoveryTypes
<1>3. AsksHold
  BY <1>1, IdleAsks DEF AsksHold
<1>4. \A p \in Known : p = <<1, <<row.url, row.key>>>>
  BY <1>1, IdleAsks DEF Known
<1>5. VersionsAgree
  BY <1>1, <1>4 DEF VersionsAgree
<1> QED BY <1>2, <1>3, <1>5 DEF DiscoveryInv

\* A step after which nothing more is known of a version.
LEMMA NothingLearnt ==
  ASSUME VersionsAgree, Known' \subseteq Known, version' = version
  PROVE  VersionsAgree'
BY DEF VersionsAgree

\* A step of one request that leaves the row, and of what is in Redis adds at
\* most what the request knew.
LEMMA RequestMoves ==
  ASSUME DiscoveryInv, NEW c \in Askers, NEW ask \in Asking,
         lookup' = [lookup EXCEPT ![c] = ask], UNCHANGED <<version, row>>,
         cache' \subseteq CachedLists,
         \A e \in cache' : e \in cache \/ <<e.version, e.of>> \in Known,
         ask.version # 0 => <<ask.version, <<ask.url, ask.key>>>> \in Known,
         ask.pc = "lookup" => ask.url \in Urls,
         ask.pc \in {"fetch", "again", "store"} => <<ask.url, ask.key>> \in Urls \X ApiKeys,
         ask.list.of \in {None, <<ask.url, ask.key>>},
         ask.list.of = None => ask.list.models = {},
         ask.pc = "store" => ask.list.of = <<ask.url, ask.key>>
  PROVE  DiscoveryInv'
<1>0. lookup \in [Askers -> Asking]
  BY DEF DiscoveryInv, DiscoveryTypes
<1>1. DiscoveryTypes'
  BY <1>0 DEF DiscoveryInv, DiscoveryTypes
<1>2. lookup'[c] = ask /\ \A d \in Askers \ {c} : lookup'[d] = lookup[d]
  BY <1>0
<1>3. AsksHold'
  <2> SUFFICES ASSUME NEW d \in Askers
               PROVE  /\ lookup'[d].pc = "lookup" => lookup'[d].url \in Urls
                      /\ lookup'[d].pc \in {"fetch", "again", "store"}
                           => <<lookup'[d].url, lookup'[d].key>> \in Urls \X ApiKeys
                      /\ lookup'[d].list.of \in {None, <<lookup'[d].url, lookup'[d].key>>}
                      /\ lookup'[d].list.of = None => lookup'[d].list.models = {}
                      /\ lookup'[d].pc = "store" => lookup'[d].list.of = <<lookup'[d].url, lookup'[d].key>>
    BY DEF AsksHold
  <2>1. CASE d = c
    BY <1>2, <2>1
  <2>2. CASE d # c
    BY <1>2, <2>2 DEF DiscoveryInv, AsksHold
  <2> QED BY <2>1, <2>2
<1>4. Known' \subseteq Known
  <2> SUFFICES ASSUME NEW p \in Known' PROVE p \in Known
    OBVIOUS
  <2>1. CASE row' # None /\ p = <<version', <<row'.url, row'.key>>>>
    BY <2>1 DEF Known
  <2>2. CASE \E d \in Askers : lookup'[d].version # 0 /\ p = <<lookup'[d].version, <<lookup'[d].url, lookup'[d].key>>>>
    <3>1. PICK d \in Askers : lookup'[d].version # 0 /\ p = <<lookup'[d].version, <<lookup'[d].url, lookup'[d].key>>>>
      BY <2>2
    <3>2. CASE d = c
      BY <1>2, <3>1, <3>2
    <3>3. CASE d # c
      BY <1>2, <3>1, <3>3 DEF Known
    <3> QED BY <3>2, <3>3
  <2>3. CASE \E e \in cache' : p = <<e.version, e.of>>
    BY <2>3 DEF Known
  <2> QED BY <2>1, <2>2, <2>3 DEF Known
<1>5. VersionsAgree'
  BY <1>4, NothingLearnt DEF DiscoveryInv
<1> QED BY <1>1, <1>3, <1>5 DEF DiscoveryInv

\* A row written anew has a version of its own.
LEMMA RowAnew ==
  ASSUME DiscoveryInv, version < MaxVersion, version' = version + 1, UNCHANGED cache,
         row' \in [url: Urls, key: ApiKeys \cup {None}],
         lookup' \in [Askers -> Asking], 
         \A c \in Askers : lookup'[c] = lookup[c] \/ lookup'[c] = Discovery!Idle
  PROVE  DiscoveryInv'
<1>0. version' \in 1 .. MaxVersion
  BY DiscoveryParameters DEF DiscoveryInv, DiscoveryTypes
<1>1. DiscoveryTypes'
  BY <1>0 DEF DiscoveryInv, DiscoveryTypes
<1>2. AsksHold'
  BY IdleAsks DEF DiscoveryInv, AsksHold
<1>3. \A p \in Known' : p \in Known \/ p = <<version', <<row'.url, row'.key>>>>
  <2> SUFFICES ASSUME NEW p \in Known' PROVE p \in Known \/ p = <<version', <<row'.url, row'.key>>>>
    OBVIOUS
  <2>1. CASE \E d \in Askers : lookup'[d].version # 0 /\ p = <<lookup'[d].version, <<lookup'[d].url, lookup'[d].key>>>>
    BY <2>1, IdleAsks DEF Known
  <2>2. CASE \E e \in cache' : p = <<e.version, e.of>>
    BY <2>2 DEF Known
  <2> QED BY <2>1, <2>2 DEF Known
<1>4. VersionsAgree'
  <2>0. version \in Nat /\ \A p \in Known : p[1] =< version /\ p[1] \in Nat
    <3>1. version \in Nat
      BY DEF DiscoveryInv, DiscoveryTypes
    <3>2. \A p \in Known : p[1] \in Nat
      BY <3>1 DEF Known, DiscoveryInv, DiscoveryTypes, Asking, CachedLists
    <3> QED BY <3>1, <3>2 DEF DiscoveryInv, VersionsAgree
  <2>1. \A p \in Known' : p[1] =< version'
    BY <1>3, <2>0
  <2>2. ASSUME NEW p \in Known', NEW q \in Known', p[1] = q[1] PROVE p[2] = q[2]
    <3> DEFINE new == <<version', <<row'.url, row'.key>>>>
    <3>1. CASE p \in Known /\ q \in Known
      BY <2>2, <3>1 DEF DiscoveryInv, VersionsAgree
    <3>2. CASE p = new /\ q = new
      BY <3>2
    <3>3. new[1] = version + 1
      OBVIOUS
    <3>4. ~(p \in Known /\ q = new) /\ ~(q \in Known /\ p = new)
      BY <2>0, <2>2, <3>3
    <3> QED BY <1>3, <3>1, <3>2, <3>4
  <2> QED BY <2>1, <2>2 DEF VersionsAgree
<1> QED BY <1>1, <1>2, <1>4 DEF DiscoveryInv

\* A request that goes on with what it asks for.
LEMMA RequestGoesOn ==
  ASSUME DiscoveryInv, NEW c \in Askers, NEW ask \in Asking,
         lookup' = [lookup EXCEPT ![c] = ask], UNCHANGED <<version, row, cache>>,
         ask.url = lookup[c].url, ask.key = lookup[c].key, ask.version = lookup[c].version,
         ask.pc # "lookup",
         ask.pc \in {"fetch", "again", "store"} => <<ask.url, ask.key>> \in Urls \X ApiKeys,
         ask.list.of \in {None, <<ask.url, ask.key>>},
         ask.list.of = None => ask.list.models = {},
         ask.pc = "store" => ask.list.of = <<ask.url, ask.key>>
  PROVE  DiscoveryInv'
<1>1. ask.version # 0 => <<ask.version, <<ask.url, ask.key>>>> \in Known
  BY DEF DiscoveryInv, AsksHold, Known
<1>2. cache' \subseteq CachedLists
  BY DEF DiscoveryInv, DiscoveryTypes
<1> QED BY <1>1, <1>2, RequestMoves

\* A request that only goes on.
LEMMA RequestSteps ==
  ASSUME DiscoveryInv, NEW c \in Askers, NEW to \in {"fetch", "again", "done", "retest"},
         lookup' = [lookup EXCEPT ![c].pc = to], UNCHANGED <<version, row, cache>>,
         to \in {"fetch", "again"} => <<lookup[c].url, lookup[c].key>> \in Urls \X ApiKeys
  PROVE  DiscoveryInv'
<1> DEFINE ask == [lookup[c] EXCEPT !.pc = to]
<1>0. lookup \in [Askers -> Asking] /\ lookup[c] \in Asking
  BY DEF DiscoveryInv, DiscoveryTypes
<1>1. lookup' = [lookup EXCEPT ![c] = ask]
  BY <1>0
<1>2. /\ ask \in Asking /\ ask.pc = to /\ ask.url = lookup[c].url /\ ask.key = lookup[c].key
      /\ ask.version = lookup[c].version /\ ask.list = lookup[c].list
  BY <1>0 DEF Asking
<1>3. /\ lookup[c].list.of \in {None, <<lookup[c].url, lookup[c].key>>}
      /\ lookup[c].list.of = None => lookup[c].list.models = {}
  BY DEF DiscoveryInv, AsksHold
<1> HIDE DEF ask
<1> QED BY <1>1, <1>2, <1>3, RequestGoesOn

\* A request that ends, or begins without a version.
LEMMA RequestRests ==
  ASSUME DiscoveryInv, NEW c \in Askers, NEW ask \in Asking,
         lookup' = [lookup EXCEPT ![c] = ask], UNCHANGED <<version, row, cache>>,
         ask.version = 0, ask.pc = "lookup" => ask.url \in Urls,
         ask.pc \notin {"fetch", "again", "store"},
         ask.list.of = None, ask.list.models = {}
  PROVE  DiscoveryInv'
<1>1. cache' \subseteq CachedLists
  BY DEF DiscoveryInv, DiscoveryTypes
<1> QED BY <1>1, RequestMoves

\* A request begins.
LEMMA RequestBegins ==
  ASSUME DiscoveryInv, NEW c \in Askers, NEW to \in {"lookup", "edit", "test"},
         NEW url \in Urls \cup {None}, NEW k \in ApiKeys \cup {None},
         to = "lookup" => url \in Urls,
         lookup' = [lookup EXCEPT ![c] = Discovery!Asks(to, url, k, 0)],
         UNCHANGED <<version, row, cache>>
  PROVE  DiscoveryInv'
<1> DEFINE ask == Discovery!Asks(to, url, k, 0)
<1>1. /\ ask.pc = to /\ ask.url = url /\ ask.version = 0
      /\ ask.list.of = None /\ ask.list.models = {}
  BY AsksFor
<1>2. 0 \in 0 .. MaxVersion
  BY DiscoveryParameters
<1>3. ask \in Asking
  BY <1>2, AsksTyped
<1> HIDE DEF ask
<1>4. lookup' = [lookup EXCEPT ![c] = ask]
  BY DEF ask
<1> QED BY <1>1, <1>3, <1>4, RequestRests

\* It ends.
LEMMA RequestEnds ==
  ASSUME DiscoveryInv, NEW c \in Askers, lookup' = [lookup EXCEPT ![c] = Discovery!Idle],
         UNCHANGED <<version, row, cache>>
  PROVE  DiscoveryInv'
BY IdleAsks, RequestRests

\* A list is found, or has to be fetched.
LEMMA ListFound == ASSUME DiscoveryInv, NEW c \in Askers, Discovery!Lookup(c) PROVE DiscoveryInv'
<1> USE DiscoveryParameters
<1> DEFINE asks == lookup[c]
<1>0. /\ lookup \in [Askers -> Asking] /\ asks \in Asking /\ asks.pc = "lookup"
      /\ cache \subseteq CachedLists
      /\ UNCHANGED <<version, row, cache>>
  BY DEF Discovery!Lookup, Discovery!At, DiscoveryInv, DiscoveryTypes
<1>a. /\ asks.list.of \in {None, <<asks.url, asks.key>>}
      /\ asks.list.of = None => asks.list.models = {}
  BY DEF DiscoveryInv, AsksHold
<1>1. CASE lookup' = [lookup EXCEPT ![c].pc = "done"]
  BY <1>0, <1>1, RequestSteps
<1>2. ASSUME asks.key # None,
             NEW e \in Discovery!Cached(c),
             lookup' = [lookup EXCEPT ![c].pc = "done",
                                      ![c].list = [of |-> e.of, models |-> e.models]]
      PROVE  DiscoveryInv'
  <2> DEFINE ask == [asks EXCEPT !.pc = "done", !.list = [of |-> e.of, models |-> e.models]]
  <2>1. e \in cache /\ e.url = asks.url /\ e.version = asks.version /\ e \in CachedLists
    BY <1>0 DEF Discovery!Cached
  <2>2. e.of \in Urls \X ApiKeys /\ e.models \in SUBSET {"chat", "embed"} /\ e.version # 0
    BY <2>1 DEF CachedLists
  <2>3. e.of = <<asks.url, asks.key>>
    <3>1. <<e.version, e.of>> \in Known /\ <<asks.version, <<asks.url, asks.key>>>> \in Known
      BY <2>1, <2>2 DEF Known
    <3> QED BY <2>1, <3>1 DEF DiscoveryInv, VersionsAgree
  <2>4. lookup' = [lookup EXCEPT ![c] = ask]
    BY <1>0, <1>2
  <2>5. /\ ask \in Asking /\ ask.pc = "done" /\ ask.url = asks.url /\ ask.key = asks.key
        /\ ask.version = asks.version /\ ask.list.of = e.of
    BY <1>0, <2>2 DEF Asking, ListsOf
  <2>6. e.of # None
    BY <2>2
  <2> HIDE DEF ask, asks
  <2> QED BY <1>0, <2>3, <2>4, <2>5, <2>6, RequestGoesOn DEF asks
<1>3. CASE asks.key # None /\ lookup' = [lookup EXCEPT ![c].pc = "fetch"]
  <2>1. <<asks.url, asks.key>> \in Urls \X ApiKeys
    BY <1>0, <1>3 DEF DiscoveryInv, AsksHold, Asking
  <2> QED BY <1>0, <1>3, <2>1, RequestSteps
<1>4. CASE lookup' = [lookup EXCEPT ![c] = Discovery!Idle]
  BY <1>0, <1>4, RequestEnds
<1> QED BY <1>1, <1>2, <1>3, <1>4 DEF Discovery!Lookup

\* What the provider sends is a list of the key it was asked with.
LEMMA ProviderAnswers == ASSUME DiscoveryInv, NEW c \in Askers, Discovery!Fetch(c) PROVE DiscoveryInv'
<1> DEFINE asks == lookup[c]
<1>0. /\ lookup \in [Askers -> Asking] /\ asks \in Asking /\ UNCHANGED <<version, row, cache>>
      /\ asks.pc \in {"fetch", "again"}
  BY DEF Discovery!Fetch, Discovery!At, DiscoveryInv, DiscoveryTypes
<1>a. /\ asks.list.of \in {None, <<asks.url, asks.key>>}
      /\ asks.list.of = None => asks.list.models = {}
      /\ <<asks.url, asks.key>> \in Urls \X ApiKeys
  BY <1>0 DEF DiscoveryInv, AsksHold
<1>1. \E next \in {"done", "again"} : Discovery!Receives(c, next)
  BY DEF Discovery!Fetch
<1>2. PICK came \in Discovery!Raw, next \in {"done", "again"} :
        \/ lookup' = [lookup EXCEPT ![c].pc = "store",
                        ![c].list = [of |-> <<lookup[c].url, lookup[c].key>>,
                                     models |-> Discovery!Parsed(came)]]
        \/ lookup' = [lookup EXCEPT ![c].pc = next]
  BY <1>1 DEF Discovery!Receives
<1>3. CASE lookup' = [lookup EXCEPT ![c].pc = next]
  BY <1>0, <1>a, <1>3, RequestSteps
<1>4. CASE lookup' = [lookup EXCEPT ![c].pc = "store",
                        ![c].list = [of |-> <<lookup[c].url, lookup[c].key>>,
                                     models |-> Discovery!Parsed(came)]]
  <2>1. Discovery!Parsed(came) \subseteq {"chat", "embed"}
    <3>1. PICK n \in 0 .. MaxListed : came \in [1 .. n -> {"chat", "embed", "blank"}]
      BY DEF Discovery!Raw, Discovery!Models, Discovery!Blank
    <3> QED BY <3>1 DEF Discovery!Parsed, Discovery!Blank
  <2> DEFINE list == [of |-> <<asks.url, asks.key>>, models |-> Discovery!Parsed(came)]
             ask  == [asks EXCEPT !.pc = "store", !.list = list]
  <2>2. list \in ListsOf
    BY <1>a, <2>1 DEF ListsOf
  <2>3. lookup' = [lookup EXCEPT ![c] = ask]
    BY <1>0, <1>4
  <2>4. /\ ask \in Asking /\ ask.pc = "store" /\ ask.url = asks.url /\ ask.key = asks.key
        /\ ask.version = asks.version /\ ask.list.of = <<asks.url, asks.key>>
    BY <1>0, <2>2 DEF Asking
  <2>5. <<asks.url, asks.key>> # None
    BY <1>a, DiscoveryParameters
  <2> HIDE DEF ask, asks
  <2> QED BY <1>0, <1>a, <2>3, <2>4, <2>5, RequestGoesOn DEF asks
<1> QED BY <1>2, <1>3, <1>4

\* What is kept is what the request got.
LEMMA ListStored == ASSUME DiscoveryInv, NEW c \in Askers, Discovery!Store(c) PROVE DiscoveryInv'
<1> DEFINE asks == lookup[c]
           ask  == [asks EXCEPT !.pc = "done"]
           kept == [url |-> asks.url, version |-> asks.version,
                    of |-> asks.list.of, models |-> asks.list.models]
<1>0. /\ lookup \in [Askers -> Asking] /\ asks \in Asking /\ UNCHANGED <<version, row>>
      /\ asks.pc = "store" /\ lookup' = [lookup EXCEPT ![c].pc = "done"]
      /\ cache \subseteq CachedLists
  BY DEF Discovery!Store, Discovery!At, DiscoveryInv, DiscoveryTypes
<1>1. /\ asks.list.of = <<asks.url, asks.key>>
      /\ <<asks.url, asks.key>> \in Urls \X ApiKeys
  BY <1>0 DEF DiscoveryInv, AsksHold
<1>2. lookup' = [lookup EXCEPT ![c] = ask]
  BY <1>0
<1>3. /\ ask \in Asking /\ ask.pc = "done" /\ ask.url = asks.url /\ ask.key = asks.key
      /\ ask.version = asks.version /\ ask.list = asks.list
  BY <1>0 DEF Asking
<1>4. asks.version # 0 => <<asks.version, <<asks.url, asks.key>>>> \in Known
  BY DEF Known
<1>5. cache' = cache \/ (asks.version # 0 /\ cache' \subseteq cache \cup {kept})
  BY DEF Discovery!Store
<1>6. asks.version # 0 => kept \in CachedLists /\ <<kept.version, kept.of>> \in Known
  <2>1. asks.list \in ListsOf /\ asks.version \in 0 .. MaxVersion
    BY <1>0 DEF Asking
  <2>2. asks.version # 0 => asks.version \in 1 .. MaxVersion
    BY <2>1, DiscoveryParameters
  <2>3. asks.list.models \in SUBSET {"chat", "embed"} /\ asks.url \in Urls
    BY <1>1, <2>1 DEF ListsOf
  <2> QED BY <1>1, <1>4, <2>2, <2>3 DEF CachedLists
<1>7. cache' \subseteq CachedLists /\ \A e \in cache' : e \in cache \/ <<e.version, e.of>> \in Known
  BY <1>0, <1>5, <1>6
<1>8. <<asks.url, asks.key>> # None
  BY <1>1, DiscoveryParameters
<1>9. /\ ask.list.of = <<ask.url, ask.key>> /\ ask.list.of # None
      /\ ask.version # 0 => <<ask.version, <<ask.url, ask.key>>>> \in Known
  BY <1>1, <1>3, <1>4, <1>8
<1> HIDE DEF ask, asks, kept
<1> QED BY <1>0, <1>2, <1>3, <1>7, <1>9, RequestMoves

\* No step breaks the invariant of the lists.
LEMMA DiscoveryStep == ASSUME DiscoveryInv, [Discovery!Next]_discoveryVars PROVE DiscoveryInv'
<1> USE DiscoveryParameters
<1>0. lookup \in [Askers -> Asking]
  BY DEF DiscoveryInv, DiscoveryTypes
<1>1. ASSUME NEW c \in Askers, Discovery!Edit(c) PROVE DiscoveryInv'
  <2>1. PICK url \in Urls \cup {None}, k \in ApiKeys \cup {None} :
          lookup' = [lookup EXCEPT ![c] = Discovery!Asks("edit", url, k, 0)]
    BY <1>1 DEF Discovery!Edit
  <2>2. UNCHANGED <<version, row, cache>>
    BY <1>1 DEF Discovery!Edit
  <2> QED BY <2>1, <2>2, RequestBegins
<1>2. ASSUME NEW c \in Askers, Discovery!WriteRow(c) PROVE DiscoveryInv'
  <2>0. lookup' = [lookup EXCEPT ![c] = Discovery!Idle] /\ UNCHANGED cache
    BY <1>2 DEF Discovery!WriteRow
  <2>1. CASE row = None
    BY <1>2, <2>0, <2>1, RequestEnds DEF Discovery!WriteRow
  <2>2. CASE row # None
    <3>1. /\ version < MaxVersion /\ version' = version + 1
          /\ row' = [url |-> Discovery!Given(lookup[c].url, row.url),
                     key |-> Discovery!Given(lookup[c].key, row.key)]
      BY <1>2, <2>2 DEF Discovery!WriteRow
    <3>2. row' \in [url: Urls, key: ApiKeys \cup {None}]
      <4>1. row \in [url: Urls, key: ApiKeys \cup {None}] /\ lookup[c] \in Asking
        BY <1>0, <2>2 DEF DiscoveryInv, DiscoveryTypes
      <4>2. Discovery!Given(lookup[c].url, row.url) \in Urls
        BY <4>1 DEF Discovery!Given, Asking
      <4>3. Discovery!Given(lookup[c].key, row.key) \in ApiKeys \cup {None}
        BY <4>1 DEF Discovery!Given, Asking
      <4> QED BY <3>1, <4>2, <4>3
    <3>3. /\ lookup' \in [Askers -> Asking]
          /\ \A d \in Askers : lookup'[d] = lookup[d] \/ lookup'[d] = Discovery!Idle
      BY <1>0, <2>0, IdleAsks
    <3> QED BY <2>0, <3>1, <3>2, <3>3, RowAnew
  <2> QED BY <2>1, <2>2
<1>3. ASSUME NEW c \in Askers, Discovery!AskSaved(c) PROVE DiscoveryInv'
  <2> DEFINE ask == Discovery!Asks("lookup", row.url, row.key, version)
  <2>1. /\ row # None /\ lookup' = [lookup EXCEPT ![c] = ask] /\ UNCHANGED <<version, row, cache>>
    BY <1>3 DEF Discovery!AskSaved, Discovery!Discovers, Discovery!RowVersion
  <2>2. /\ row \in [url: Urls, key: ApiKeys \cup {None}] /\ version \in 0 .. MaxVersion
        /\ cache \subseteq CachedLists
    BY <2>1 DEF DiscoveryInv, DiscoveryTypes
  <2>6. ask \in Asking
    BY <2>2, AsksTyped
  <2>7. /\ ask.pc = "lookup" /\ ask.url = row.url /\ ask.key = row.key
        /\ ask.version = version /\ ask.list.of = None /\ ask.list.models = {}
    BY AsksFor
  <2>4. <<version, <<row.url, row.key>>>> \in Known
    BY <2>1 DEF Known
  <2> HIDE DEF ask
  <2> QED BY <2>1, <2>2, <2>4, <2>6, <2>7, RequestMoves
<1>4. ASSUME NEW c \in Askers, Discovery!AskNew(c) PROVE DiscoveryInv'
  <2>1. PICK p \in Urls \X ApiKeys : lookup' = [lookup EXCEPT ![c] = Discovery!Asks("lookup", p[1], p[2], 0)]
    BY <1>4 DEF Discovery!AskNew, Discovery!Discovers, Discovery!Pairs
  <2>2. UNCHANGED <<version, row, cache>>
    BY <1>4 DEF Discovery!AskNew
  <2> QED BY <2>1, <2>2, RequestBegins
<1>5. ASSUME NEW c \in Askers, Discovery!Leave(c) PROVE DiscoveryInv'
  BY <1>5, RequestEnds DEF Discovery!Leave
<1>6. ASSUME NEW c \in Askers, Discovery!Test(c) PROVE DiscoveryInv'
  <2>0. UNCHANGED <<version, row, cache>>
    BY <1>6 DEF Discovery!Test
  <2>1. CASE lookup' = [lookup EXCEPT ![c] = Discovery!Idle]
    BY <2>0, <2>1, RequestEnds
  <2>2. CASE row # None /\ lookup' = [lookup EXCEPT ![c] = Discovery!Asks("test", row.url, row.key, 0)]
    <3>1. row \in [url: Urls, key: ApiKeys \cup {None}]
      BY <2>2 DEF DiscoveryInv, DiscoveryTypes
    <3> QED BY <2>0, <2>2, <3>1, RequestBegins
  <2>3. CASE lookup' = [lookup EXCEPT ![c].pc = "retest"]
    BY <2>0, <2>3, RequestSteps
  <2> QED BY <1>6, <2>1, <2>2, <2>3 DEF Discovery!Test
<1>7. CASE Discovery!Create
  BY <1>0, <1>7, RowAnew DEF Discovery!Create
<1>8. ASSUME UNCHANGED <<version, lookup>>, row' \in {row, None}, cache' \subseteq cache PROVE DiscoveryInv'
  <2>1. Known' \subseteq Known
    BY <1>8 DEF Known
  <2> QED BY <1>8, <2>1, NothingLearnt DEF DiscoveryInv, DiscoveryTypes, AsksHold
<1>9. CASE Discovery!Delete \/ Discovery!Expire \/ UNCHANGED discoveryVars
  BY <1>8, <1>9 DEF Discovery!Delete, Discovery!Expire, discoveryVars
<1> QED BY <1>1, <1>2, <1>3, <1>4, <1>5, <1>6, <1>7, <1>9, ListFound, ProviderAnswers, ListStored
        DEF Discovery!Next

\* The lists count as FiniteSets does.
LEMMA DiscoveryCounts == \A S : Discovery!Cardinality(S) = Cardinality(S)
BY Zenon DEF Discovery!Cardinality, Cardinality

\* SetToSeq of the sets of models that can be left.
LEMMA NoneInSequence == Discovery!SetToSeq({}) = <<>>
<1>1. Discovery!Cardinality({}) = 0
  BY DiscoveryCounts, FS_EmptySet
<1> DEFINE F == [1 .. 0 -> {}]
           f == CHOOSE g \in F : Discovery!IsInjective(g)
<1>2. [i \in 1 .. 0 |-> i] \in F
  BY SMT
<1>3. Discovery!IsInjective([i \in 1 .. 0 |-> i])
  BY SMT DEF Discovery!IsInjective
<1>4. f \in F
  BY <1>2, <1>3
<1>7. Discovery!SetToSeq({}) = f
  BY <1>1 DEF Discovery!SetToSeq
<1> HIDE DEF f
<1>5. f \in Seq({}) /\ Len(f) = 0
  BY <1>4
<1>6. f = <<>>
  BY <1>5, EmptySeq
<1> QED BY <1>6, <1>7

\* A sequence of one.
LEMMA OneInSequence == ASSUME NEW x PROVE Discovery!SetToSeq({x}) = <<x>>
<1>1. Discovery!Cardinality({x}) = 1
  BY DiscoveryCounts, FS_Singleton
<1> DEFINE F == [1 .. 1 -> {x}]
           f == CHOOSE g \in F : Discovery!IsInjective(g)
<1>2. [i \in 1 .. 1 |-> x] \in F
  BY SMT
<1>3. Discovery!IsInjective([i \in 1 .. 1 |-> x])
  BY SMT DEF Discovery!IsInjective
<1>4. f \in F
  BY <1>2, <1>3
<1>7. Discovery!SetToSeq({x}) = f
  BY <1>1 DEF Discovery!SetToSeq
<1> HIDE DEF f
<1>5. f \in Seq({x}) /\ Len(f) = 1 /\ f[1] = x
  BY <1>4
<1>6. f = <<x>>
  BY <1>5
<1> QED BY <1>6, <1>7

\* The configured model first and once, and then the other one.
LEMMA FirstOfChat ==
  ASSUME NEW m \in {"chat", "embed", None}, NEW models \in SUBSET {"chat"}
  PROVE  LET first == Discovery!First(m, models)
         IN  /\ Discovery!IsInjective(first)
             /\ m # None => Head(first) = m
             /\ models = {} => Discovery!Range(first) \subseteq {m}
<1> DEFINE left  == models \ {m}
           first == Discovery!First(m, models)
<1>1. left = {} \/ (left = {"chat"} /\ m # "chat")
  OBVIOUS
<1>2. /\ m = None => first = <<>> \o Discovery!SetToSeq(left)
      /\ m # None => first = <<m>> \o Discovery!SetToSeq(left)
  BY DEF Discovery!First
<1>3. \/ first = <<>> /\ m = None
      \/ first = <<m>> /\ m # None
      \/ first = <<"chat">> /\ m = None /\ left = {"chat"}
      \/ first = <<m, "chat">> /\ m # None /\ m # "chat" /\ left = {"chat"}
  <2>1. left = {} => Discovery!SetToSeq(left) = <<>>
    BY NoneInSequence
  <2>2. left = {"chat"} => Discovery!SetToSeq(left) = <<"chat">>
    BY OneInSequence
  <2>3. /\ <<>> \o <<>> = <<>> /\ <<m>> \o <<>> = <<m>>
        /\ <<>> \o <<"chat">> = <<"chat">> /\ <<m>> \o <<"chat">> = <<m, "chat">>
    <3> DEFINE S == {m, "chat"}
    <3>1. <<>> \in Seq(S) /\ <<m>> \in Seq(S) /\ <<"chat">> \in Seq(S) /\ <<m, "chat">> \in Seq(S)
      OBVIOUS
    <3>2. <<>> \o <<>> = <<>> /\ <<m>> \o <<>> = <<m>> /\ <<>> \o <<"chat">> = <<"chat">>
      BY <3>1, ConcatEmptySeq
    <3>3. <<m>> \o <<"chat">> = <<m, "chat">>
      <4> DEFINE both == <<m>> \o <<"chat">>
      <4>1. /\ both \in Seq(S) /\ Len(both) = 2
            /\ \A i \in 1 .. 2 : both[i] = IF i <= 1 THEN m ELSE "chat"
        BY <3>1, ConcatProperties
      <4> HIDE DEF both
      <4>2. both = <<m, "chat">>
        BY <3>1, <4>1, SeqEqual
      <4> QED BY <4>2 DEF both
    <3> QED BY <3>2, <3>3
  <2> HIDE DEF first, left
  <2> QED BY <1>1, <1>2, <2>1, <2>2, <2>3
<1>4. left # {} => models # {}
  OBVIOUS
<1> HIDE DEF first, left
<1>5. Discovery!IsInjective(first)
  <2>1. \A x, y : x # y => Discovery!IsInjective(<<x, y>>)
    BY DEF Discovery!IsInjective
  <2>2. \A x : Discovery!IsInjective(<<x>>)
    BY DEF Discovery!IsInjective
  <2>3. Discovery!IsInjective(<<>>)
    BY DEF Discovery!IsInjective
  <2> QED BY <1>3, <2>1, <2>2, <2>3
<1>6. m # None => Head(first) = m
  BY <1>3
<1>7. models = {} => Discovery!Range(first) \subseteq {m}
  <2>1. \A x : Discovery!Range(<<x>>) \subseteq {x}
    BY DEF Discovery!Range
  <2>2. Discovery!Range(<<>>) = {}
    BY DEF Discovery!Range
  <2> QED BY <1>3, <1>4, <2>1, <2>2
<1> QED BY <1>5, <1>6, <1>7 DEF first

\* What follows from the invariant of the lists.
LEMMA ListsFollow == DiscoveryInv => Discovery!ListsAreOfTheirKey
<1> SUFFICES ASSUME DiscoveryInv, NEW c \in Askers, NEW m \in {"chat", "embed", None},
                    Discovery!At(c, "done")
             PROVE  LET a == Discovery!Answer(lookup[c].list, m)
                    IN  /\ a.of \in {None, <<lookup[c].url, lookup[c].key>>}
                        /\ Discovery!IsInjective(a.chat)
                        /\ m # None => Head(a.chat) = m
                        /\ a.of = None => Discovery!Range(a.chat) \subseteq {m} /\ a.embed = {} /\ ~a.missing
  BY DEF Discovery!ListsAreOfTheirKey, Discovery!Models
<1> DEFINE list == lookup[c].list
           a    == Discovery!Answer(list, m)
<1>1. /\ list.of \in {None, <<lookup[c].url, lookup[c].key>>}
      /\ list.of = None => list.models = {}
  BY DEF DiscoveryInv, AsksHold
<1>2. /\ a.chat = Discovery!First(m, list.models \cap {"chat"})
      /\ a.of = list.of /\ a.embed = list.models \cap {"embed"}
      /\ a.missing = (list.models # {} /\ m \notin list.models \cup {None})
  BY DEF Discovery!Answer
<1>3. /\ Discovery!IsInjective(a.chat)
      /\ m # None => Head(a.chat) = m
      /\ list.models \cap {"chat"} = {} => Discovery!Range(a.chat) \subseteq {m}
  <2>1. list.models \cap {"chat"} \in SUBSET {"chat"}
    OBVIOUS
  <2> QED BY <1>2, <2>1, FirstOfChat
<1>4. list.models = {} => /\ list.models \cap {"chat"} = {} /\ list.models \cap {"embed"} = {}
                          /\ ~(list.models # {} /\ m \notin list.models \cup {None})
  OBVIOUS
<1> HIDE DEF a, list
<1>5. a.of = None => Discovery!Range(a.chat) \subseteq {m} /\ a.embed = {} /\ ~a.missing
  BY <1>1, <1>2, <1>3, <1>4
<1>6. a.of \in {None, <<lookup[c].url, lookup[c].key>>}
  BY <1>1, <1>2
<1> QED BY <1>3, <1>5, <1>6 DEF a, list

-----------------------------------------------------------------------------
(* Settings for voice: no new address with an older key                    *)

\* Of the constants.
LEMMA SettingsParameters ==
  /\ \A e \in Edits : e \in Nat /\ e # 0
  /\ Edits \subseteq Nat \ {0} /\ None \notin Edits \cup {0}
  /\ Builtin \in Providers /\ None \notin Providers
BY ModelsAssumption DEF Settings!SettingsAssumption

\* Where a connection leads, what an edit asks for, and what is read for one.
VoiceUses == {"asr", "tts"}
Addresses == [edit: {0} \cup Edits, of: Providers]
EditKeys  == {0, None} \cup Edits
Requested == [pc: {"idle", "choose", "key", "settings", "done"}, use: VoiceUses,
              provider: Providers \cup {None}, moves: BOOLEAN, keyed: BOOLEAN]
Connecting == [pc: {"idle", "provider", "resolve", "open"}, use: VoiceUses,
               provider: Providers \cup {None}, chosen: {0} \cup Edits,
               url: Addresses \cup {None}, key: EditKeys]

SettingsTypes ==
  /\ key \in [Providers -> EditKeys]
  /\ settings \in [VoiceUses -> [provider: Providers, chosen: {0} \cup Edits, url: Addresses]]
  /\ begun \in {0} \cup Edits
  /\ change \in [Edits -> Requested]
  /\ reader \in Connecting
  /\ crossed \in BOOLEAN

\* Edits and addresses are of edits that have begun; an edit past its first
\* step has a provider, and one of the address has a key as well.
EditsBegun ==
  /\ \A e \in Edits : change[e].pc # "idle" => e =< begun /\ change[e].provider \in Providers
  /\ \A e \in Edits : change[e].moves => change[e].keyed
  /\ \A u \in VoiceUses : settings[u].url.edit =< begun
  /\ reader.pc # "idle" => /\ reader.url \in Addresses /\ reader.provider \in Providers
                           /\ reader.url.edit =< begun

\* A key of an address is the one the address came with, or a newer one.
Follows(k, url) == url.edit = 0 \/ (k \in Edits /\ k >= url.edit)

Busy == {e \in Edits : change[e].pc \notin {"idle", "done"}}

\* While no two edits overlapped, the one under way is newer than every
\* address, and no address is older than the key it is used with.
KeysFollow ==
  /\ \A d, e \in Busy : d = e
  /\ \A e \in Busy : /\ \A u \in VoiceUses : settings[u].url.edit =< e
                     /\ reader.pc # "idle" => reader.url.edit =< e
  /\ \A u \in VoiceUses : Follows(key[settings[u].url.of], settings[u].url)
  /\ reader.pc \in {"provider", "resolve"} => Follows(key[reader.url.of], reader.url)
  /\ (reader.pc = "open" /\ reader.provider = reader.url.of) => Follows(reader.key, reader.url)
  /\ \A e \in Edits : (change[e].pc = "settings" /\ change[e].moves) =>
       key[change[e].provider] \in Edits /\ key[change[e].provider] >= e

\* The edit under way has brought no address yet; a provider that is not its
\* address's was chosen by a later edit.
Redirects ==
  /\ \A e \in Busy : \A u \in VoiceUses : settings[u].url.edit # e
  /\ \A u \in VoiceUses :
       settings[u].provider # settings[u].url.of => settings[u].chosen > settings[u].url.edit
  /\ (reader.pc # "idle" /\ reader.provider # reader.url.of) => reader.chosen > reader.url.edit

SettingsInv == SettingsTypes /\ EditsBegun /\ (~crossed => KeysFollow /\ Redirects)

\* It is kept by what changes no settings, and what is read of them.
LEMMA RedirectsKeep ==
  ASSUME Redirects, Busy' \subseteq Busy, UNCHANGED settings,
         \/ reader'.pc = "idle"
         \/ /\ reader.pc # "idle" /\ reader'.provider = reader.provider
            /\ reader'.chosen = reader.chosen /\ reader'.url = reader.url
         \/ \E u \in VoiceUses : /\ reader'.provider = settings[u].provider
                                 /\ reader'.chosen = settings[u].chosen
                                 /\ reader'.url = settings[u].url
  PROVE  Redirects'
BY DEF Redirects

\* The number of the edit an address came with.
LEMMA AddressEdits ==
  ASSUME SettingsInv
  PROVE  /\ \A u \in VoiceUses : settings[u].url.edit \in Nat
         /\ reader.pc # "idle" => reader.url.edit \in Nat
<1>1. ASSUME NEW a \in Addresses PROVE a.edit \in Nat
  <2>1. a.edit \in {0} \cup Edits
    BY DEF Addresses
  <2>2. \A e \in Edits : e \in Nat
    BY SettingsParameters
  <2> QED BY <2>1, <2>2
<1>2. \A u \in VoiceUses : settings[u].url \in Addresses
  BY DEF SettingsInv, SettingsTypes
<1>3. reader.pc # "idle" => reader.url \in Addresses
  BY DEF SettingsInv, EditsBegun
<1> QED BY <1>1, <1>2, <1>3

\* The settings begin with the built-in provider and its address.
LEMMA SettingsStart == Settings!Init => SettingsInv
<1> SUFFICES ASSUME Settings!Init PROVE SettingsInv
  OBVIOUS
<1> USE SettingsParameters
<1>1. SettingsTypes
  BY DEF Settings!Init, Settings!NoEdit, Settings!NoReader, Settings!Uses, SettingsTypes,
         VoiceUses, Addresses, EditKeys, Requested, Connecting
<1>2. EditsBegun
  BY DEF Settings!Init, Settings!NoEdit, Settings!NoReader, Settings!Uses, EditsBegun, VoiceUses
<1>3. KeysFollow
  BY DEF Settings!Init, Settings!NoEdit, Settings!NoReader, Settings!Uses, KeysFollow, Busy,
         Follows, VoiceUses
<1>4. Redirects
  BY DEF Settings!Init, Settings!NoEdit, Settings!NoReader, Settings!Uses, Redirects, Busy,
         VoiceUses
<1> QED BY <1>1, <1>2, <1>3, <1>4 DEF SettingsInv

\* A step of an edit that changes neither its request nor, unless it gets to
\* its second write, what the settings rest on.
LEMMA EditMoves ==
  ASSUME SettingsInv, NEW e \in Busy, NEW to \in {"key", "settings", "done"},
         change' = [change EXCEPT ![e].pc = to],
         UNCHANGED <<key, settings, begun, reader, crossed>>,
         (to = "settings" /\ change[e].moves /\ ~crossed) =>
            key[change[e].provider] \in Edits /\ key[change[e].provider] >= e
  PROVE  SettingsInv'
<1> USE SettingsParameters
<1>0. e \in Edits /\ change \in [Edits -> Requested]
  BY DEF Busy, SettingsInv, SettingsTypes
<1>1. SettingsTypes'
  BY <1>0 DEF SettingsInv, SettingsTypes, Requested
<1>2. EditsBegun'
  BY <1>0 DEF SettingsInv, EditsBegun, Requested, Busy
<1>3. ASSUME ~crossed PROVE KeysFollow'
  <2>1. Busy' \subseteq Busy
    BY <1>0 DEF Busy, Requested
  <2>2. \A d \in Edits : (change'[d].pc = "settings" /\ change'[d].moves) =>
          key[change'[d].provider] \in Edits /\ key[change'[d].provider] >= d
    BY <1>0, <1>3 DEF Requested, SettingsInv, KeysFollow
  <2> QED BY <1>3, <2>1, <2>2 DEF SettingsInv, KeysFollow, Follows
<1>4. ASSUME ~crossed PROVE Redirects'
  <2>1. Busy' \subseteq Busy
    BY <1>0 DEF Busy, Requested
  <2> QED BY <1>4, <2>1, RedirectsKeep DEF SettingsInv
<1> QED BY <1>1, <1>2, <1>3, <1>4 DEF SettingsInv

\* A key written by an edit newer than every address.
LEMMA KeyIsNewer ==
  ASSUME SettingsInv, NEW e \in Edits, NEW p \in Providers, ~crossed,
         key' = [key EXCEPT ![p] = e],
         \A u \in VoiceUses : settings[u].url.edit =< e,
         reader.pc # "idle" => reader.url.edit =< e
  PROVE  /\ \A u \in VoiceUses : Follows(key'[settings[u].url.of], settings[u].url)
         /\ reader.pc \in {"provider", "resolve"} => Follows(key'[reader.url.of], reader.url)
<1> USE SettingsParameters
<1>1. \A u \in VoiceUses : settings[u].url \in Addresses
  BY DEF SettingsInv, SettingsTypes
<1>2. key \in [Providers -> EditKeys]
  BY DEF SettingsInv, SettingsTypes
<1>3. \A u \in VoiceUses : Follows(key'[settings[u].url.of], settings[u].url)
  <2> TAKE u \in VoiceUses
  <2>1. Follows(key[settings[u].url.of], settings[u].url)
    BY DEF SettingsInv, KeysFollow
  <2>2. CASE settings[u].url.of = p
    BY <1>1, <1>2, <2>2 DEF Follows, Addresses
  <2>3. CASE settings[u].url.of # p
    BY <1>1, <1>2, <2>1, <2>3 DEF Follows, Addresses
  <2> QED BY <2>2, <2>3
<1>4. ASSUME reader.pc \in {"provider", "resolve"} PROVE Follows(key'[reader.url.of], reader.url)
  <2>1. Follows(key[reader.url.of], reader.url) /\ reader.url \in Addresses
    BY <1>4 DEF SettingsInv, KeysFollow, EditsBegun
  <2>2. CASE reader.url.of = p
    BY <1>4, <1>2, <2>1, <2>2 DEF Follows, Addresses
  <2>3. CASE reader.url.of # p
    BY <1>2, <2>1, <2>3 DEF Follows, Addresses
  <2> QED BY <2>2, <2>3
<1> QED BY <1>3, <1>4

\* _update_api_key
LEMMA KeyWritten == ASSUME SettingsInv, NEW e \in Edits, Settings!WriteKey(e) PROVE SettingsInv'
<1> USE SettingsParameters
<1>0. e \in Busy /\ change[e].pc = "key" /\ change \in [Edits -> Requested]
  BY DEF Settings!WriteKey, Busy, SettingsInv, SettingsTypes
<1>a. Settings!After("key") = "settings"
  BY DEF Settings!After, Settings!WriteOrder
<1>b. change[e].provider \in Providers /\ (change[e].moves => change[e].keyed)
  BY <1>0 DEF SettingsInv, EditsBegun
<1>1. CASE ~change[e].keyed
  <2>1. /\ change' = [change EXCEPT ![e].pc = "settings"]
        /\ UNCHANGED <<key, settings, begun, reader, crossed>>
    BY <1>1, <1>a DEF Settings!WriteKey
  <2> QED BY <1>0, <1>1, <1>b, <2>1, EditMoves
<1>2. CASE change[e].keyed /\ change[e].provider \notin exists
  <2>1. /\ change' = [change EXCEPT ![e].pc = "done"]
        /\ UNCHANGED <<key, settings, begun, reader, crossed>>
    BY <1>2 DEF Settings!WriteKey
  <2> QED BY <1>0, <2>1, EditMoves
<1>3. CASE change[e].keyed /\ change[e].provider \in exists
  <2> DEFINE p == change[e].provider
  <2>1. /\ change' = [change EXCEPT ![e].pc = "settings"]
        /\ key' = [key EXCEPT ![p] = e]
        /\ UNCHANGED <<settings, begun, reader, crossed>>
    BY <1>3, <1>a DEF Settings!WriteKey
  <2>2. SettingsTypes'
    BY <1>0, <1>b, <2>1 DEF SettingsInv, SettingsTypes, Requested, EditKeys
  <2>3. EditsBegun'
    BY <1>0, <2>1 DEF SettingsInv, EditsBegun, Requested
  <2>4. ASSUME ~crossed PROVE KeysFollow'
    <3>1. Busy' \subseteq Busy
      BY <1>0, <2>1 DEF Busy, Requested
    <3>2. \A d \in Edits \ {e} : d \notin Busy
      BY <1>0, <2>4 DEF SettingsInv, KeysFollow
    <3>3. /\ \A u \in VoiceUses : settings[u].url.edit =< e
          /\ reader.pc # "idle" => reader.url.edit =< e
      BY <1>0, <2>4 DEF SettingsInv, KeysFollow
    <3>4. /\ \A u \in VoiceUses : Follows(key'[settings[u].url.of], settings[u].url)
          /\ reader.pc \in {"provider", "resolve"} => Follows(key'[reader.url.of], reader.url)
      BY <1>b, <2>1, <2>4, <3>3, KeyIsNewer
    <3>5. \A d \in Edits : (change'[d].pc = "settings" /\ change'[d].moves) =>
            key'[change'[d].provider] \in Edits /\ key'[change'[d].provider] >= d
      <4> TAKE d \in Edits
      <4>1. CASE d = e
        <5>1. change'[e].provider = p
          BY <1>0, <2>1 DEF Requested
        <5>2. key'[p] = e
          BY <1>b, <2>1 DEF SettingsInv, SettingsTypes
        <5> QED BY <4>1, <5>1, <5>2
      <4>2. CASE d # e
        BY <1>0, <2>1, <3>2, <4>2 DEF Requested, Busy
      <4> QED BY <4>1, <4>2
    <3> QED BY <2>1, <2>4, <3>1, <3>4, <3>5 DEF SettingsInv, KeysFollow, Follows
  <2>5. ASSUME ~crossed PROVE Redirects'
    <3>1. Busy' \subseteq Busy
      BY <1>0, <2>1 DEF Busy, Requested
    <3> QED BY <2>1, <2>5, <3>1, RedirectsKeep DEF SettingsInv
  <2> QED BY <2>1, <2>2, <2>3, <2>4, <2>5 DEF SettingsInv
<1> QED BY <1>1, <1>2, <1>3

\* update_voice_config
LEMMA SettingsWritten == ASSUME SettingsInv, NEW e \in Edits, Settings!WriteSettings(e) PROVE SettingsInv'
<1> USE SettingsParameters
<1> DEFINE p == change[e].provider
           s == change[e].use
<1>0. /\ e \in Busy /\ change[e].pc = "settings" /\ change \in [Edits -> Requested]
      /\ p \in Providers /\ s \in VoiceUses
  BY DEF Settings!WriteSettings, Busy, SettingsInv, SettingsTypes, EditsBegun, Requested
<1>a. Settings!After("settings") = "done"
  BY DEF Settings!After, Settings!WriteOrder
<1>b. change' = [change EXCEPT ![e].pc = "done"] /\ UNCHANGED <<key, begun, reader, crossed>>
  BY <1>a DEF Settings!WriteSettings
<1>1. CASE p \notin exists
  <2>1. UNCHANGED settings
    BY <1>1 DEF Settings!WriteSettings
  <2> QED BY <1>0, <1>b, <2>1, EditMoves
<1>2. CASE p \in exists
  <2> DEFINE url == IF change[e].moves THEN [edit |-> e, of |-> p] ELSE settings[s].url
             by  == IF change[e].moves \/ p # settings[s].provider THEN e ELSE settings[s].chosen
  <2>0. settings \in [VoiceUses -> [provider: Providers, chosen: {0} \cup Edits, url: Addresses]]
    BY DEF SettingsInv, SettingsTypes
  <2>1. url \in Addresses /\ by \in {0} \cup Edits
    BY <1>0, <2>0 DEF Addresses
  <2>2. settings' = [settings EXCEPT ![s] = [provider |-> p, chosen |-> by, url |-> url]]
    BY <1>2, <2>0 DEF Settings!WriteSettings
  <2>3. /\ settings'[s].url = url /\ settings'[s].provider = p /\ settings'[s].chosen = by
        /\ \A u \in VoiceUses \ {s} : settings'[u] = settings[u]
    BY <1>0, <2>0, <2>2
  <2>4. SettingsTypes'
    <3>1. settings' \in [VoiceUses -> [provider: Providers, chosen: {0} \cup Edits, url: Addresses]]
      BY <1>0, <2>0, <2>1, <2>2
    <3>2. change' \in [Edits -> Requested]
      BY <1>0, <1>b DEF Requested
    <3> QED BY <1>b, <3>1, <3>2 DEF SettingsInv, SettingsTypes
  <2>5. url.edit =< begun
    BY <1>0 DEF SettingsInv, EditsBegun
  <2>6. EditsBegun'
    BY <1>0, <1>b, <2>3, <2>5 DEF SettingsInv, EditsBegun, Requested
  <2>7. ASSUME ~crossed PROVE KeysFollow'
    <3>1. Busy' = {}
      BY <1>0, <1>b, <2>7 DEF SettingsInv, KeysFollow, Busy, Requested
    <3>2. Follows(key[url.of], url)
      <4>1. CASE change[e].moves
        BY <1>0, <2>7, <4>1 DEF SettingsInv, KeysFollow, Follows
      <4>2. CASE ~change[e].moves
        BY <1>0, <2>7, <4>2 DEF SettingsInv, KeysFollow
      <4> QED BY <4>1, <4>2
    <3>3. \A u \in VoiceUses : Follows(key'[settings'[u].url.of], settings'[u].url)
      <4> TAKE u \in VoiceUses
      <4>1. CASE u = s
        BY <1>b, <2>3, <3>2, <4>1
      <4>2. CASE u # s
        <5>1. settings'[u] = settings[u] /\ key' = key
          BY <1>b, <2>3, <4>2
        <5> QED BY <2>7, <5>1 DEF SettingsInv, KeysFollow
      <4> QED BY <4>1, <4>2
    <3>4. /\ reader'.pc \in {"provider", "resolve"} => Follows(key'[reader'.url.of], reader'.url)
          /\ (reader'.pc = "open" /\ reader'.provider = reader'.url.of) => Follows(reader'.key, reader'.url)
      BY <1>b, <2>7 DEF SettingsInv, KeysFollow
    <3>5. \A d \in Edits : (change'[d].pc = "settings" /\ change'[d].moves) =>
            key'[change'[d].provider] \in Edits /\ key'[change'[d].provider] >= d
      <4>1. \A d \in Edits : change'[d].pc # "settings"
        BY <3>1 DEF Busy
      <4> QED BY <4>1
    <3>6. Follows(key[1], url)' <=> Follows(key'[1], url')
      BY DEF Follows
    <3>7. \A u \in VoiceUses : Follows(key[settings[u].url.of], settings[u].url)'
      BY <3>3 DEF Follows
    <3> QED BY <3>1, <3>4, <3>5, <3>7 DEF KeysFollow, Follows
  <2>8. ASSUME ~crossed PROVE Redirects'
    <3>1. Busy' = {}
      BY <1>0, <1>b, <2>8 DEF SettingsInv, KeysFollow, Busy, Requested
    <3>2. /\ settings[s].url.edit \in Nat /\ settings[s].url.edit =< e /\ settings[s].url.edit # e
          /\ settings[s].provider # settings[s].url.of => settings[s].chosen > settings[s].url.edit
      BY <1>0, <2>8, AddressEdits DEF SettingsInv, KeysFollow, Redirects
    <3>3. p # url.of => by > url.edit
      <4>1. CASE change[e].moves BY <4>1
      <4>2. CASE ~change[e].moves BY <3>2, <4>2
      <4> QED BY <4>1, <4>2
    <3>4. Redirects
      BY <2>8 DEF SettingsInv
    <3> QED BY <1>b, <2>3, <3>1, <3>3, <3>4 DEF Redirects
  <2> QED BY <1>b, <2>4, <2>6, <2>7, <2>8 DEF SettingsInv
<1> QED BY <1>1, <1>2

\* A new edit is newer than all there was.
LEMMA EditBegins == ASSUME SettingsInv, NEW e \in Edits, Settings!Begin(e) PROVE SettingsInv'
<1> USE SettingsParameters
<1>1. PICK u \in VoiceUses, p \in Providers \cup {None}, moves \in BOOLEAN, keyed \in BOOLEAN :
        /\ moves => keyed
        /\ change' = [change EXCEPT ![e] =
             [pc |-> "choose", use |-> u, moves |-> moves, keyed |-> keyed,
              provider |-> IF p = None THEN settings[u].provider ELSE p]]
  BY DEF Settings!Begin, Settings!Uses, VoiceUses
<1>2. /\ begun' = begun + 1 /\ e = begun' /\ begun \in Nat
      /\ crossed' = (crossed \/ Busy # {})
      /\ UNCHANGED <<key, settings, reader>>
  BY DEF Settings!Begin, Settings!UnderWay, Busy, SettingsInv, SettingsTypes
<1>3. /\ change \in [Edits -> Requested]
      /\ settings \in [VoiceUses -> [provider: Providers, chosen: {0} \cup Edits, url: Addresses]]
  BY DEF SettingsInv, SettingsTypes
<1>4. change'[e] \in Requested /\ change'[e].provider \in Providers
  BY <1>1, <1>3 DEF Requested
<1>5. \A d \in Edits \ {e} : change'[d] = change[d]
  BY <1>1
<1>6. SettingsTypes'
  BY <1>1, <1>2, <1>3, <1>4 DEF SettingsInv, SettingsTypes
<1>7. EditsBegun'
  <2>1. \A d \in Edits : change'[d].pc # "idle" => d =< begun' /\ change'[d].provider \in Providers
    BY <1>2, <1>4, <1>5 DEF SettingsInv, EditsBegun
  <2>2. \A d \in Edits : change'[d].moves => change'[d].keyed
    BY <1>1, <1>3, <1>5 DEF SettingsInv, EditsBegun
  <2>3. \A v \in VoiceUses : settings'[v].url.edit =< begun'
    <3> TAKE v \in VoiceUses
    <3>1. settings[v].url.edit \in Nat /\ settings[v].url.edit =< begun
      BY AddressEdits DEF SettingsInv, EditsBegun
    <3> QED BY <1>2, <3>1
  <2>4. reader.pc # "idle" => /\ reader.url \in Addresses /\ reader.provider \in Providers
                              /\ reader.url.edit =< begun'
    BY <1>2, AddressEdits DEF SettingsInv, EditsBegun
  <2> QED BY <1>2, <2>1, <2>2, <2>3, <2>4 DEF EditsBegun
<1>8. ASSUME ~crossed' PROVE KeysFollow'
  <2>1. Busy = {} /\ ~crossed
    BY <1>2, <1>8
  <2>2. Busy' = {e}
    BY <1>1, <1>3, <1>5, <2>1 DEF Busy
  <2>3. \A v \in VoiceUses : settings'[v].url.edit =< e
    BY <1>2, <1>7 DEF EditsBegun
  <2>4. reader'.pc # "idle" => reader'.url.edit =< e
    BY <1>2, <1>7 DEF EditsBegun
  <2>5. \A d \in Edits : change'[d].pc # "settings"
    BY <1>1, <1>3, <1>5, <2>1 DEF Busy
  <2> QED BY <1>2, <2>1, <2>2, <2>3, <2>4, <2>5 DEF SettingsInv, KeysFollow, Follows
<1>9. ASSUME ~crossed' PROVE Redirects'
  <2>1. Busy = {} /\ ~crossed
    BY <1>2, <1>9
  <2>2. Busy' = {e}
    BY <1>1, <1>3, <1>5, <2>1 DEF Busy
  <2>3. \A v \in VoiceUses : settings'[v].url.edit # e
    BY <1>2, AddressEdits DEF SettingsInv, EditsBegun
  <2> QED BY <1>2, <2>1, <2>2, <2>3 DEF SettingsInv, Redirects
<1> QED BY <1>6, <1>7, <1>8, <1>9 DEF SettingsInv

\* A provider gets its first key, or a new one.
LEMMA ProviderKeyed ==
  ASSUME SettingsInv, NEW e \in Edits, NEW p \in Providers,
         Settings!Create(e, p) \/ Settings!Rekey(e, p)
  PROVE  SettingsInv'
<1> USE SettingsParameters
<1>0. begun \in Nat /\ crossed \in BOOLEAN
  BY DEF SettingsInv, SettingsTypes
<1>1. /\ begun' = begun + 1 /\ e = begun' /\ begun \in Nat
      /\ key' = [key EXCEPT ![p] = e]
      /\ UNCHANGED <<settings, change, reader>> /\ (crossed => crossed') /\ crossed' \in BOOLEAN
  <2>1. CASE Settings!Create(e, p)
    BY <1>0, <2>1 DEF Settings!Create
  <2>2. CASE Settings!Rekey(e, p)
    BY <1>0, <2>2 DEF Settings!Rekey
  <2> QED BY <2>1, <2>2
<1>2. SettingsTypes'
  BY <1>1 DEF SettingsInv, SettingsTypes, EditKeys
<1>3. EditsBegun'
  <2>1. ASSUME NEW d \in Edits, change[d].pc # "idle"
        PROVE  d =< begun' /\ change[d].provider \in Providers
    <3>1. d =< begun /\ change[d].provider \in Providers /\ d \in Nat
      BY <2>1 DEF SettingsInv, EditsBegun
    <3> QED BY <1>1, <3>1
  <2>2. \A u \in VoiceUses : settings[u].url.edit =< begun'
    BY <1>1, AddressEdits DEF SettingsInv, EditsBegun
  <2>3. reader.pc # "idle" => reader.url.edit =< begun'
    BY <1>1, AddressEdits DEF SettingsInv, EditsBegun
  <2> QED BY <1>1, <2>1, <2>2, <2>3 DEF SettingsInv, EditsBegun
<1>4. ASSUME ~crossed PROVE KeysFollow'
  <2>1. /\ \A u \in VoiceUses : settings[u].url.edit =< e
        /\ reader.pc # "idle" => reader.url.edit =< e
    BY <1>1, <1>3 DEF EditsBegun
  <2>2. /\ \A u \in VoiceUses : Follows(key'[settings[u].url.of], settings[u].url)
        /\ reader.pc \in {"provider", "resolve"} => Follows(key'[reader.url.of], reader.url)
    BY <1>1, <1>4, <2>1, KeyIsNewer
  <2>3. \A d \in Edits : (change'[d].pc = "settings" /\ change'[d].moves) =>
          key'[change'[d].provider] \in Edits /\ key'[change'[d].provider] >= d
    <3> SUFFICES ASSUME NEW d \in Edits, change[d].pc = "settings", change[d].moves
                 PROVE  key'[change[d].provider] \in Edits /\ key'[change[d].provider] >= d
      BY <1>1
    <3>1. key[change[d].provider] \in Edits /\ key[change[d].provider] >= d
      BY <1>4 DEF SettingsInv, KeysFollow
    <3>2. d =< begun /\ change[d].provider \in Providers
      BY DEF SettingsInv, EditsBegun
    <3>3. CASE change[d].provider = p
      BY <1>1, <3>2, <3>3 DEF SettingsInv, SettingsTypes
    <3>4. CASE change[d].provider # p
      BY <1>1, <3>1, <3>2, <3>4 DEF SettingsInv, SettingsTypes
    <3> QED BY <3>3, <3>4
  <2> QED BY <1>1, <1>4, <2>2, <2>3 DEF SettingsInv, KeysFollow, Follows, Busy
<1>5. ASSUME ~crossed PROVE Redirects'
  BY <1>1, <1>5 DEF SettingsInv, Redirects, Busy
<1> QED BY <1>1, <1>2, <1>3, <1>4, <1>5 DEF SettingsInv

\* What a session reads changes nothing else.
LEMMA ReaderMoves ==
  ASSUME SettingsInv, UNCHANGED <<key, settings, begun, change, crossed>>,
         reader' \in Connecting,
         reader'.pc # "idle" => /\ reader'.url \in Addresses /\ reader'.provider \in Providers
                                /\ reader'.url.edit =< begun,
         ~crossed =>
           /\ \A e \in Busy : reader'.pc # "idle" => reader'.url.edit =< e
           /\ reader'.pc \in {"provider", "resolve"} => Follows(key[reader'.url.of], reader'.url)
           /\ (reader'.pc = "open" /\ reader'.provider = reader'.url.of)
                => Follows(reader'.key, reader'.url)
           /\ (reader'.pc # "idle" /\ reader'.provider # reader'.url.of)
                => reader'.chosen > reader'.url.edit
  PROVE  SettingsInv'
<1>1. SettingsTypes'
  BY DEF SettingsInv, SettingsTypes
<1>2. EditsBegun'
  BY DEF SettingsInv, EditsBegun
<1>3. ASSUME ~crossed PROVE KeysFollow'
  BY <1>3 DEF SettingsInv, KeysFollow, Busy, Follows
<1>4. ASSUME ~crossed PROVE Redirects'
  BY <1>4 DEF SettingsInv, Redirects, Busy
<1> QED BY <1>1, <1>2, <1>3, <1>4 DEF SettingsInv

\* A connection that is not being made.
LEMMA NoReaderRests == Settings!NoReader \in Connecting /\ Settings!NoReader.pc = "idle"
BY DEF Settings!NoReader, Connecting, VoiceUses, EditKeys

\* No step breaks the invariant of the settings.
LEMMA SettingsStep == ASSUME SettingsInv, [Settings!Next]_settingsVars PROVE SettingsInv'
<1> USE SettingsParameters
<1>1. ASSUME NEW e \in Edits, Settings!Choose(e) PROVE SettingsInv'
  <2>1. e \in Busy /\ UNCHANGED <<key, settings, begun, reader, crossed>>
    BY <1>1 DEF Settings!Choose, Busy
  <2>2. \E to \in {"key", "done"} : change' = [change EXCEPT ![e].pc = to]
    BY <1>1 DEF Settings!Choose, Settings!WriteOrder
  <2> QED BY <2>1, <2>2, EditMoves
<1>2. ASSUME NEW e \in Edits, Settings!EditFails(e) PROVE SettingsInv'
  <2>1. e \in Busy /\ UNCHANGED <<key, settings, begun, reader, crossed>>
    BY <1>2 DEF Settings!EditFails, Settings!UnderWay, Busy
  <2>2. change' = [change EXCEPT ![e].pc = "done"]
    BY <1>2 DEF Settings!EditFails
  <2> QED BY <2>1, <2>2, EditMoves
<1>3. ASSUME NEW u \in VoiceUses, Settings!ReadSettings(u) PROVE SettingsInv'
  <2>1. /\ reader' = [pc |-> "provider", use |-> u, key |-> None,
                      provider |-> settings[u].provider, chosen |-> settings[u].chosen,
                      url |-> settings[u].url]
        /\ UNCHANGED <<key, settings, begun, change, crossed>>
    BY <1>3 DEF Settings!ReadSettings
  <2>2. /\ settings[u].url \in Addresses /\ settings[u].provider \in Providers
        /\ settings[u].chosen \in {0} \cup Edits
    BY DEF SettingsInv, SettingsTypes
  <2>3. reader' \in Connecting
    BY <2>1, <2>2 DEF Connecting, EditKeys
  <2>4. settings[u].url.edit =< begun
    BY DEF SettingsInv, EditsBegun
  <2>5. ~crossed => /\ \A e \in Busy : settings[u].url.edit =< e
                    /\ Follows(key[settings[u].url.of], settings[u].url)
                    /\ settings[u].provider # settings[u].url.of
                         => settings[u].chosen > settings[u].url.edit
    BY DEF SettingsInv, KeysFollow, Redirects
  <2> QED BY <2>1, <2>2, <2>3, <2>4, <2>5, ReaderMoves
<1>4. ASSUME Settings!ReadProvider PROVE SettingsInv'
  <2>1. UNCHANGED <<key, settings, begun, change, crossed>> /\ reader \in Connecting
    BY <1>4 DEF Settings!ReadProvider, SettingsInv, SettingsTypes
  <2>2. CASE reader' = Settings!NoReader
    BY <2>1, <2>2, NoReaderRests, ReaderMoves
  <2>3. CASE reader' = [reader EXCEPT !.pc = "resolve"]
    <3>1. reader.pc = "provider"
      BY <1>4 DEF Settings!ReadProvider
    <3>2. /\ reader' \in Connecting /\ reader'.pc = "resolve"
          /\ reader'.url = reader.url /\ reader'.provider = reader.provider
          /\ reader'.chosen = reader.chosen
      BY <2>1, <2>3 DEF Connecting
    <3> QED BY <2>1, <3>1, <3>2, ReaderMoves DEF SettingsInv, EditsBegun, KeysFollow, Redirects
  <2> QED BY <1>4, <2>2, <2>3 DEF Settings!ReadProvider
<1>5. ASSUME Settings!Resolve PROVE SettingsInv'
  <2>1. UNCHANGED <<key, settings, begun, change, crossed>> /\ reader \in Connecting
    BY <1>5 DEF Settings!Resolve, SettingsInv, SettingsTypes
  <2>2. CASE reader' = Settings!NoReader
    BY <2>1, <2>2, NoReaderRests, ReaderMoves
  <2>3. CASE reader' = [reader EXCEPT !.pc = "open", !.key = key[reader.provider]]
    <3>1. reader.pc = "resolve"
      BY <1>5 DEF Settings!Resolve
    <3>2. reader.url \in Addresses /\ reader.provider \in Providers /\ reader.url.edit =< begun
      BY <3>1 DEF SettingsInv, EditsBegun
    <3>3. /\ reader' \in Connecting /\ reader'.pc = "open" /\ reader'.key = key[reader.provider]
          /\ reader'.url = reader.url /\ reader'.provider = reader.provider
          /\ reader'.chosen = reader.chosen
      BY <2>1, <2>3, <3>2 DEF Connecting, SettingsInv, SettingsTypes
    <3> QED BY <2>1, <3>1, <3>2, <3>3, ReaderMoves DEF SettingsInv, KeysFollow, Redirects
  <2> QED BY <1>5, <2>2, <2>3 DEF Settings!Resolve
<1>6. ASSUME Settings!Opened PROVE SettingsInv'
  BY <1>6, NoReaderRests, ReaderMoves DEF Settings!Opened
<1>7. CASE UNCHANGED <<key, settings, begun, change, reader, crossed>>
  BY <1>7 DEF SettingsInv, SettingsTypes, EditsBegun, KeysFollow, Redirects, Busy, Follows
<1>8. ASSUME NEW p \in Providers, Settings!Delete(p) PROVE SettingsInv'
  BY <1>7, <1>8 DEF Settings!Delete
<1>9. CASE UNCHANGED settingsVars
  BY <1>7, <1>9 DEF settingsVars
<1> QED BY <1>1, <1>2, <1>3, <1>4, <1>5, <1>6, <1>8, <1>9, KeyWritten, SettingsWritten,
           EditBegins, ProviderKeyed DEF Settings!Next, Settings!Uses, VoiceUses

-----------------------------------------------------------------------------
(* The parts in one behaviour                                              *)

ModelsInv == IInv /\ BankInv /\ QueryInv /\ AsrInv /\ DiscoveryInv /\ SettingsInv

\* Each part begins as its own module has it begin.
LEMMA PartsStart == ModelsInit => ModelsInv
<1> SUFFICES ASSUME ModelsInit PROVE ModelsInv
  OBVIOUS
<1>1. Init /\ Bank!Init /\ Query!Init /\ Asr!Init /\ Discovery!Init /\ Settings!Init
  BY Zenon DEF ModelsInit
<1> QED BY <1>1, VectorizationStarts, BankStarts, QueryStarts, AsrStarts, DiscoveryStarts,
           SettingsStart, Zenon DEF ModelsInv

\* A step is one of the part the behaviour is about, and leaves the rest.
LEMMA PartsStep ==
  ASSUME [ModelsNext]_parts
  PROVE  /\ [Next]_vars /\ [Bank!Next]_bankVars /\ [Query!Next]_queryVars
         /\ [Asr!Next]_asrVars /\ [Discovery!Next]_discoveryVars /\ [Settings!Next]_settingsVars
<1>1. CASE UNCHANGED parts
  BY <1>1, Zenon DEF parts
<1>2. CASE ModelsNext
  <2>1. /\ about # "vectors" => UNCHANGED vars
        /\ about # "bank" => UNCHANGED bankVars
        /\ about # "query" => UNCHANGED queryVars
        /\ about # "recognition" => UNCHANGED asrVars
        /\ about # "discovery" => UNCHANGED discoveryVars
        /\ about # "settings" => UNCHANGED settingsVars
    BY <1>2, Zenon DEF ModelsNext, Still
  <2>2. /\ about = "vectors" => Next
        /\ about = "bank" => Bank!Next
        /\ about = "query" => Query!Next
        /\ about = "recognition" => Asr!Next
        /\ about = "discovery" => Discovery!Next
        /\ about = "settings" => Settings!Next
    BY <1>2 DEF ModelsNext
  <2> QED BY <2>1, <2>2, Zenon
<1> QED BY <1>1, <1>2

\* No step of any part breaks what is known of another.
LEMMA PartsKeep == ModelsInv /\ [ModelsNext]_parts => ModelsInv'
<1> SUFFICES ASSUME ModelsInv, [ModelsNext]_parts PROVE ModelsInv'
  OBVIOUS
<1>1. IInv' /\ BankInv' /\ QueryInv'
  BY PartsStep, VectorizationKeeps, BankStep, QueryStep, Zenon DEF ModelsInv
<1>2. AsrInv' /\ DiscoveryInv' /\ SettingsInv'
  BY PartsStep, AsrStep, DiscoveryStep, SettingsStep, Zenon DEF ModelsInv
<1> QED BY <1>1, <1>2, Zenon DEF ModelsInv

\* So all of it always holds.
LEMMA ModelsInvariant == ModelsSpec => []ModelsInv
BY PartsStart, PartsKeep, PTL DEF ModelsSpec

\* Seen from the vectorization, the others only stutter.
LEMMA ModelsVectorize == ModelsSpec => Spec
<1>1. ModelsInit => Init
  BY Zenon DEF ModelsInit
<1>2. [ModelsNext]_parts => [Next]_vars
  BY PartsStep, Zenon
<1> QED BY <1>1, <1>2, PTL DEF ModelsSpec, Spec

\* Whatever the requests, attempts and answers, as many questions are offered of
\* a direction as can be drawn and listed, and the bank never mixes the questions
\* that two tasks generated (question_counts, replace_questions_and_complete).
THEOREM BankKeepsItsWord == ModelsSpec => []BankHolds
<1>1. ModelsInv => BankHolds
  BY BankIsHonest, Zenon DEF ModelsInv, BankHolds
<1> QED BY <1>1, ModelsInvariant, PTL

\* Whatever is found, and however the model cuts its answer into pieces, the
\* model is told only of the knowledge bases asked, the question is counted in
\* all of them or none, and the client gets one answer or "nothing was found",
\* never both (similarity_search_unfiltered, _normalize_stream).
THEOREM AnswersAreOfTheAsked == ModelsSpec => []AnswersHold
<1>1. ModelsInv => AnswersHold
  BY QueryIsHonest, Zenon DEF ModelsInv, AnswersHold
<1> QED BY <1>1, ModelsInvariant, PTL

\* Whatever restarts, retries and failures there are, what is said is heard by
\* the newest run of the recognition, and after a close no run of it listens
\* but one whose task overlapping restarts had replaced while it was connected
\* (SpeechRecognition).
THEOREM NewestRunHears == ModelsSpec => []RecognitionHolds
<1>1. ModelsInv => RecognitionHolds
  BY NewestHeard, Zenon DEF ModelsInv, RecognitionHolds
<1> QED BY <1>1, ModelsInvariant, PTL

\* While no two edits overlapped, a connection to an edit's address has the key
\* that the address came with, or a newer one, unless a later edit chose
\* another provider for it.
LEMMA KeyFollows == SettingsInv => Settings!KeyFollowsAddress
<1> SUFFICES ASSUME SettingsInv, reader.pc = "open", ~crossed, reader.url.edit # 0
             PROVE  reader.key >= reader.url.edit
                      \/ (reader.provider # reader.url.of /\ reader.chosen > reader.url.edit)
  BY DEF Settings!KeyFollowsAddress, Settings!OfItsAddress, Settings!Redirected
<1> QED BY DEF SettingsInv, KeysFollow, Redirects, Follows

\* Whatever is edited in between, a list of models is of the address and the
\* key it is kept for; and while no two edits overlapped, a connection to an
\* address that an edit brought has that edit's key or a newer one, unless a
\* later edit chose another provider for the address, whose key it then is
\* (ModelDiscovery, VoiceSettings).
THEOREM KeysBelong == ModelsSpec => []KeysHold
<1>1. ModelsInv => KeysHold
  BY KeyFollows, ListsFollow DEF ModelsInv, KeysHold
<1> QED BY <1>1, ModelsInvariant, PTL

\* The vectors that a search sees and the questions that a knowledge base
\* offers are each replaced in one step, by a complete job's and by the task
\* that is theirs (promote_vectors, save_generated_questions).
THEOREM OffersAreReplacedAtOnce == ModelsSpec => ReplacedAtOnce
<1> DEFINE Kept == \/ DOMAIN bank \subseteq DOMAIN bank'
                   \/ edit' # edit
                   \/ /\ gen.status = "PROCESSING"
                      /\ gen' = [gen EXCEPT !.status = "COMPLETED"]
                      /\ Bank!NoDuplicates(bank')
<1>1. ASSUME ModelsInv, [ModelsNext]_parts PROVE [Kept]_(Bank!vars)
  BY <1>1, PartsStep, BankReplaced, Zenon DEF ModelsInv
<1>2. ModelsSpec => [][Kept]_(Bank!vars)
  <2> HIDE DEF Kept
  <2> QED BY <1>1, ModelsInvariant, PTL DEF ModelsSpec
<1>3. ModelsSpec => Bank!ReplacedOncePerTask
  BY <1>2 DEF Bank!ReplacedOncePerTask
<1>4. ModelsSpec => SearchIsAtomic
  BY ModelsVectorize, IndexIsReplacedAtOnce, PTL
<1> QED BY <1>3, <1>4 DEF ReplacedAtOnce
=============================================================================

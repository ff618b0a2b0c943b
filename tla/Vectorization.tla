--------------------------- MODULE Vectorization ---------------------------
(***************************************************************************)
(* The vectorization of knowledge bases: upload, revectorize and delete,   *)
(* the vectorize stream and its worker (VectorizeStreamHandler), and the   *)
(* rows of vector_store.  Every attempt is a job with an id of its own: it *)
(* stores its vectors in batches as pending, invisible to a search, and    *)
(* promotes them in one transaction that replaces the previous job's.      *)
(***************************************************************************)
EXTENDS TaskStream

CONSTANTS Calls,        \* API requests being served at once
          Jobs,         \* vector job ids in use at once
          NParts,       \* embedding batches of a document
          AppCrashes,   \* whether the application may die between two steps
          MaxEntries,   \* stream entries at which producers pause
          MaxFaults     \* exceptions, failed XADDs and crashes in a behaviour

ASSUME VectorizationAssumption ==
  /\ NParts \in Nat \ {0}
  /\ AppCrashes \in BOOLEAN
  /\ MaxEntries \in Nat
  /\ MaxFaults \in Nat
  /\ None \notin Jobs

VARIABLES
  vectorStatus,   \* knowledge base -> vector_status, "NEW" before its upload
                  \* and "DELETED" when no row is left
  pending,        \* knowledge base -> its vectors tagged pending:<id>:<job>
  visible,        \* knowledge base -> its vectors with its own kb_id
  job,            \* worker -> vector job of the attempt it is at
  call,           \* API request -> its step and knowledge base
  faults          \* faults so far

index == <<pending, visible>>
vars  == <<stream, vectorStatus, index, job, call, faults>>

\* A batch of vectors is <<job, part>>.
Parts    == 1 .. NParts
Vectors  == Jobs \X Parts
Of(j)    == {j} \X Parts
IdleCall == [pc |-> "idle", kb |-> None]

TypeOK ==
  /\ StreamTypeOK
  /\ vectorStatus \in
       [Tasks -> {"NEW", "PENDING", "PROCESSING", "COMPLETED", "FAILED", "DELETED"}]
  /\ pending \in [Tasks -> SUBSET Vectors]
  /\ visible \in [Tasks -> SUBSET Vectors]
  /\ job \in [Workers -> Jobs \cup {None}]
  /\ call \in [Calls -> [pc: {"idle", "enqueue", "unqueued", "purge"},
                         kb: Tasks \cup {None}]]
  /\ faults \in 0 .. MaxFaults

Init ==
  /\ StreamInit
  /\ vectorStatus = [k \in Tasks |-> "NEW"]
  /\ pending = [k \in Tasks |-> {}]
  /\ visible = [k \in Tasks |-> {}]
  /\ job = [w \in Workers |-> None]
  /\ call = [c \in Calls |-> IdleCall]
  /\ faults = 0

Fault == faults < MaxFaults /\ faults' = faults + 1

Room == Cardinality(Entries) < MaxEntries

Exists(k) == vectorStatus[k] \notin {"NEW", "DELETED"}

\* update_status: no row, no change.
Updated(k, value) ==
  IF Exists(k) THEN [vectorStatus EXCEPT ![k] = value] ELSE vectorStatus

-----------------------------------------------------------------------------
(* The API                                                                 *)

\* PENDING is committed, then the stream is written: a new row (upload), or
\* an existing one whatever its status (revectorize).
AskFor(c, k) ==
  /\ call[c].pc = "idle"
  /\ vectorStatus' = [vectorStatus EXCEPT ![k] = "PENDING"]
  /\ call' = [call EXCEPT ![c] = [pc |-> "enqueue", kb |-> k]]
  /\ UNCHANGED <<stream, index, job, faults>>

Upload(c)      == \E k \in Tasks : vectorStatus[k] = "NEW" /\ AskFor(c, k)
Revectorize(c) == \E k \in Tasks : Exists(k) /\ AskFor(c, k)

\* _enqueue_vectorization
Enqueue(c) ==
  /\ call[c].pc = "enqueue"
  /\ Room
  /\ Add(call[c].kb, 0)
  /\ call' = [call EXCEPT ![c] = IdleCall]
  /\ UNCHANGED <<pel, idle, worker, vectorStatus, index, job, faults>>

\* The XADD raises, whether or not Redis has carried it out.
EnqueueFails(c) ==
  /\ call[c].pc = "enqueue"
  /\ Fault
  /\ UNCHANGED queue \/ (Room /\ Add(call[c].kb, 0))
  /\ call' = [call EXCEPT ![c].pc = "unqueued"]
  /\ UNCHANGED <<pel, idle, worker, vectorStatus, index, job>>

MarkUnqueued(c) ==
  /\ call[c].pc = "unqueued"
  /\ vectorStatus' = Updated(call[c].kb, "FAILED")
  /\ call' = [call EXCEPT ![c] = IdleCall]
  /\ UNCHANGED <<stream, index, job, faults>>

\* delete: the row first, the vectors in a transaction of their own.
Delete(c) ==
  /\ call[c].pc = "idle"
  /\ \E k \in Tasks :
       /\ Exists(k)
       /\ vectorStatus' = [vectorStatus EXCEPT ![k] = "DELETED"]
       /\ call' = [call EXCEPT ![c] = [pc |-> "purge", kb |-> k]]
  /\ UNCHANGED <<stream, index, job, faults>>

DeleteVectors(c) ==
  /\ call[c].pc = "purge"
  /\ visible' = [visible EXCEPT ![call[c].kb] = {}]
  /\ call' = [call EXCEPT ![c] = IdleCall]
  /\ UNCHANGED <<stream, vectorStatus, pending, job, faults>>

\* The application dies, or a database error leaves the request where it is.
AppCrash(c) ==
  /\ AppCrashes
  /\ call[c].pc # "idle"
  /\ call' = [call EXCEPT ![c] = IdleCall]
  /\ Fault
  /\ UNCHANGED <<stream, vectorStatus, index, job>>

-----------------------------------------------------------------------------
(* The worker: VectorizeStreamHandler                                      *)

\* should_skip
\* Fault: a task that is being processed is left to whoever processes it.
SkipsRunning(k) == ~Exists(k) \/ vectorStatus[k] \in {"COMPLETED", "PROCESSING"}
Skips(k)        == ~Exists(k) \/ vectorStatus[k] = "COMPLETED"

ShouldSkip(w) ==
  /\ GoOn(w, "skip", IF Skips(Task(w)) THEN "drop" ELSE "mark")
  /\ UNCHANGED <<vectorStatus, index, job, call, faults>>

\* try_mark_processing: whatever the status has become since should_skip.
MarkProcessing(w) ==
  /\ GoOn(w, "mark", IF Exists(Task(w)) THEN "process" ELSE "drop")
  /\ vectorStatus' = Updated(Task(w), "PROCESSING")
  /\ UNCHANGED <<index, job, call, faults>>

UsedJobs == (UNION {{v[1] : v \in pending[k] \cup visible[k]} : k \in Tasks})
              \cup {job[w] : w \in Workers}

\* process: a knowledge base that is gone ends the call quietly, otherwise a
\* job begins; mark_completed has nothing left to do.
StartJob(w) ==
  /\ GoOn(w, "process", IF Exists(Task(w)) THEN "save" ELSE "ack")
  /\ IF Exists(Task(w))
     THEN /\ Jobs \ UsedJobs # {}
          /\ job' = [job EXCEPT ![w] = CHOOSE j \in Jobs \ UsedJobs : TRUE]
     ELSE UNCHANGED job
  /\ UNCHANGED <<vectorStatus, index, call, faults>>

Stored(w)   == {v[2] : v \in {u \in pending[Task(w)] : u[1] = job[w]}}
Unstored(w) == Parts \ Stored(w)

\* store_pending_batch, once per batch of embeddings.
StoreBatch(w) ==
  /\ worker[w].pc = "save"
  /\ \E p \in Unstored(w) :
       /\ \A q \in Unstored(w) : p <= q
       /\ pending' = [pending EXCEPT ![Task(w)] = @ \cup {<<job[w], p>>}]
       /\ GoOn(w, "save", IF Unstored(w) = {p} THEN "complete" ELSE "save")
  /\ UNCHANGED <<vectorStatus, visible, job, call, faults>>

\* Rows of the worker's job.
\* Fault: they are looked for by knowledge base.
JobRowsOfTask(w, k) == IF k = Task(w) THEN pending[k] ELSE {}
JobRows(w, k)       == {v \in pending[k] : v[1] = job[w]}

WithoutJob(w) == [k \in Tasks |-> pending[k] \ JobRows(w, k)]

\* promote_vector_job: what a search will find.
\* Fault: the previous job's vectors are not deleted.
PromotedBeside(w, k) == visible[k] \cup JobRows(w, k)
PromotedTo(w, k)     == JobRows(w, k)

\* complete_job, under the lock of the knowledge base's row.
\* Fault: the row is not looked for again.
PromotesBlindly(w) == TRUE
Promotes(w)        == Exists(Task(w))

CompleteJob(w) ==
  /\ GoOn(w, "complete", "ack")
  /\ pending' = WithoutJob(w)
  /\ IF Promotes(w)
     THEN visible' = [visible EXCEPT ![Task(w)] = PromotedTo(w, Task(w))]
     ELSE UNCHANGED visible
  /\ vectorStatus' = Updated(Task(w), "COMPLETED")
  /\ job' = [job EXCEPT ![w] = None]
  /\ UNCHANGED <<call, faults>>

\* The embedding, a batch's transaction or complete_job raises.
JobFails(w) ==
  /\ \E from \in {"save", "complete"} : GoOn(w, from, "cleanup")
  /\ Fault
  /\ UNCHANGED <<vectorStatus, index, job, call>>

\* cleanup_job; its own failure is logged and swallowed.
Cleanup(w) ==
  /\ GoOn(w, "cleanup", "failed")
  /\ \/ pending' = WithoutJob(w) /\ UNCHANGED faults
     \/ Fault /\ UNCHANGED pending
  /\ job' = [job EXCEPT ![w] = None]
  /\ UNCHANGED <<vectorStatus, visible, call>>

\* should_skip, try_mark_processing, exists, get_embedding or the
\* acknowledgement of a skipped message raises.
CallFails(w) ==
  /\ worker[w].pc \notin {"save", "complete"}
  /\ Raised(w)
  /\ Fault
  /\ UNCHANGED <<vectorStatus, index, job, call>>

Handled(w) ==
  /\ Failed(w) \/ Readd(w, "retry")
  /\ UNCHANGED <<vectorStatus, index, job, call, faults>>

\* retry: a failed XADD makes the task a failed one instead.
RetryFails(w) ==
  /\ worker[w].pc = "retry"
  /\ \/ GoOn(w, "retry", "unqueued")
     \/ /\ Add(Task(w), worker[w].msg.retry + 1)
        /\ worker' = [worker EXCEPT ![w].pc = "unqueued"]
        /\ UNCHANGED <<pel, idle>>
  /\ Fault
  /\ UNCHANGED <<vectorStatus, index, job, call>>

MarkFailed(w) ==
  /\ \E from \in {"unqueued", "giveup"} : GoOn(w, from, "ack")
  /\ vectorStatus' = Updated(Task(w), "FAILED")
  /\ UNCHANGED <<index, job, call, faults>>

MarkRetryFails(w) ==
  /\ Preserve(w, {"unqueued"})
  /\ Fault
  /\ UNCHANGED <<vectorStatus, index, job, call>>

Consume(w) ==
  /\ Reclaim(w) \/ Read(w) \/ Take(w) \/ Ack(w)
  /\ UNCHANGED <<vectorStatus, index, job, call, faults>>

\* Nobody cleans up after a job whose worker died.
WorkerCrash(w) ==
  /\ Crash(w)
  /\ job' = [job EXCEPT ![w] = None]
  /\ Fault
  /\ UNCHANGED <<vectorStatus, index, call>>

EntryGrowsIdle(m) ==
  /\ GrowsIdle(m)
  /\ UNCHANGED <<vectorStatus, index, job, call, faults>>

-----------------------------------------------------------------------------
CallStep(c) == Enqueue(c) \/ MarkUnqueued(c) \/ DeleteVectors(c)

WorkerStep(w) ==
  \/ Consume(w) \/ ShouldSkip(w) \/ MarkProcessing(w) \/ StartJob(w)
  \/ StoreBatch(w) \/ CompleteJob(w) \/ Cleanup(w) \/ Handled(w)
  \/ MarkFailed(w)

WorkerFault(w) ==
  \/ JobFails(w) \/ CallFails(w) \/ RetryFails(w) \/ MarkRetryFails(w)
  \/ WorkerCrash(w)

Next ==
  \/ \E c \in Calls :
       \/ Upload(c) \/ Revectorize(c) \/ Delete(c) \/ CallStep(c)
       \/ EnqueueFails(c) \/ AppCrash(c)
  \/ \E w \in Workers : WorkerStep(w) \/ WorkerFault(w)
  \/ \E m \in Messages : EntryGrowsIdle(m)

Spec == Init /\ [][Next]_vars

\* Requests being served run on, the worker runs and is restarted, and idle
\* time passes.  Clients owe nothing, and no job looks after the stream.
Fairness ==
  /\ \A c \in Calls : WF_vars(CallStep(c))
  /\ \A w \in Workers : WF_vars(WorkerStep(w))
  /\ \A m \in Messages : WF_vars(EntryGrowsIdle(m))

FairSpec == Spec /\ Fairness

-----------------------------------------------------------------------------
(* Safety                                                                  *)

\* A search finds nothing or the whole of one job, never a mixture of two
\* attempts or a part of one, whatever attempts ran, failed or were cleaned
\* up meanwhile (promote_vector_job, cleanup_job).
SearchSeesOneJob ==
  \A k \in Tasks : visible[k] = {} \/ \E j \in Jobs : visible[k] = Of(j)

\* COMPLETED means that a search finds the document, one that was long enough
\* to give a chunk at all (complete_job, cleanup_job).
CompletedIsSearchable ==
  \A k \in Tasks : vectorStatus[k] = "COMPLETED" => visible[k] # {}

\* A vectorization shown as running is still owed by the stream: no job of
\* the scheduler looks for one that was interrupted (process_message, retry).
\* Only with a single worker.
InterruptedWorkIsOwed ==
  \A k \in Tasks : vectorStatus[k] = "PROCESSING" => Owed(k) # {}

\* Nobody removes the vectors of a job that is still at work: a failed
\* attempt and a deletion clean up after themselves only (cleanup_job,
\* delete_vectors).
JobsKeepTheirVectors ==
  \A w \in Workers : worker[w].pc = "complete" =>
    Of(job[w]) \subseteq pending[Task(w)]

(* Liveness                                                                *)

Unsettled(k) == vectorStatus[k] \in {"PENDING", "PROCESSING"}

\* Every vectorization asked for ends in COMPLETED or FAILED, through
\* failing XADDs, worker crashes and retries, unless the application dies
\* between the commit and the XADD (_enqueue_vectorization, process_message).
VectorizationsSettle == \A k \in Tasks : Unsettled(k) ~> ~Unsettled(k)

-----------------------------------------------------------------------------
(* Refinement                                                              *)

indexBar == [k \in Tasks |->
  IF visible[k] = {} THEN None ELSE CHOOSE j \in Jobs : Of(j) \subseteq visible[k]]
goneBar  == {k \in Tasks : vectorStatus[k] = "DELETED"}

Index == INSTANCE KnowledgeIndex WITH index <- indexBar, gone <- goneBar

\* Attempts, retries and deletions together do no more than replace one
\* complete index by another, at once, and only while the knowledge base
\* exists (complete_job, delete).
SearchIsAtomic == Index!Spec
=============================================================================

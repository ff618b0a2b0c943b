--------------------------- MODULE ResumeAnalysis ---------------------------
(***************************************************************************)
(* The uploads of one resume file, the analyze stream and its worker       *)
(* (ResumeAnalyzeHandler), and the object storage behind them.  An upload  *)
(* stores the object before the row, and the unique (user_id, file_hash)   *)
(* decides which of two uploads keeps its row; a deletion removes the      *)
(* object before the row.  No job looks for an analysis that was never     *)
(* queued.                                                                 *)
(*                                                                         *)
(* Files do not refer to each other: the module is about the rows that the *)
(* uploads of one file get, at most one of them at a time.                 *)
(***************************************************************************)
EXTENDS TaskStream

CONSTANTS Calls,        \* API requests being served at once
          Keys,         \* object keys in use at once
          MaxEntries,   \* stream entries at which producers pause
          MaxFaults     \* exceptions, failed XADDs and crashes in a behaviour

\* What is assumed of the constants.
ResumeAssumption ==
  /\ MaxEntries \in Nat
  /\ MaxFaults \in Nat
  /\ None \notin Keys

VARIABLES
  analyzeStatus,  \* row -> analyze_status, "NEW" before its upload and
                  \* "DELETED" when no row is left
  storageKey,     \* row -> storage_key
  analyzed,       \* rows that a ResumeAnalysis row refers to
  objects,        \* keys of the objects stored
  call,           \* API request -> its step, row and object key
  halfDeleted,    \* history: rows a deletion failed to remove, its file gone
  faults          \* faults so far

resume == <<analyzeStatus, storageKey, analyzed>>
vars   == <<stream, resume, objects, call, halfDeleted, faults>>

IdleCall == [pc |-> "idle", row |-> None, key |-> None]

TypeOK ==
  /\ StreamTypeOK
  /\ analyzeStatus \in
       [Tasks -> {"NEW", "PENDING", "PROCESSING", "COMPLETED", "FAILED", "DELETED"}]
  /\ storageKey \in [Tasks -> Keys \cup {None}]
  /\ analyzed \subseteq Tasks
  /\ objects \subseteq Keys
  /\ call \in [Calls -> [pc: {"idle", "store", "insert", "discard", "enqueue",
                              "unqueued", "erase", "remove"},
                         row: Tasks \cup {None},
                         key: Keys \cup {None}]]
  /\ halfDeleted \subseteq Tasks
  /\ faults \in 0 .. MaxFaults

Init ==
  /\ StreamInit
  /\ analyzeStatus = [r \in Tasks |-> "NEW"]
  /\ storageKey = [r \in Tasks |-> None]
  /\ analyzed = {}
  /\ objects = {}
  /\ call = [c \in Calls |-> IdleCall]
  /\ halfDeleted = {}
  /\ faults = 0

Fault == faults < MaxFaults /\ faults' = faults + 1

Room == Cardinality(Entries) < MaxEntries

Exists(r) == analyzeStatus[r] \notin {"NEW", "DELETED"}

NewRows == {r \in Tasks : analyzeStatus[r] = "NEW"}

\* _update_status: no row, no change.
Updated(r, value) ==
  IF Exists(r) THEN [analyzeStatus EXCEPT ![r] = value] ELSE analyzeStatus

Done(c) == call' = [call EXCEPT ![c] = IdleCall]

-----------------------------------------------------------------------------
(* upload                                                                  *)

UsedKeys == objects \cup {storageKey[r] : r \in Tasks}
              \cup {call[c].key : c \in Calls}

\* get_by_hash found nothing (otherwise only access_count changes).
Upload(c) ==
  /\ call[c].pc = "idle"
  /\ \A r \in Tasks : ~Exists(r)
  /\ NewRows # {}
  /\ Keys \ UsedKeys # {}
  /\ call' = [call EXCEPT ![c] =
       [pc |-> "store", row |-> None, key |-> CHOOSE k \in Keys \ UsedKeys : TRUE]]
  /\ UNCHANGED <<stream, resume, objects, halfDeleted, faults>>

\* S3Storage.upload; a time-out raises whether or not the object was stored.
Store(c) ==
  /\ call[c].pc = "store"
  /\ \/ /\ objects' = objects \cup {call[c].key}
        /\ call' = [call EXCEPT ![c].pc = "insert"]
        /\ UNCHANGED faults
     \/ /\ objects' \in {objects, objects \cup {call[c].key}}
        /\ Done(c)
        /\ Fault
  /\ UNCHANGED <<stream, resume, halfDeleted>>

\* uq_resumes_user_hash lets one row in.
Collides == \E r \in Tasks : Exists(r)

Insert(c) ==
  /\ call[c].pc = "insert"
  /\ ~Collides
  /\ \E r \in NewRows :
       /\ analyzeStatus' = [analyzeStatus EXCEPT ![r] = "PENDING"]
       /\ storageKey' = [storageKey EXCEPT ![r] = call[c].key]
       /\ call' = [call EXCEPT ![c].pc = "enqueue", ![c].row = r]
  /\ UNCHANGED <<stream, analyzed, objects, halfDeleted, faults>>

InsertFails(c) ==
  /\ call[c].pc = "insert"
  /\ \/ Collides /\ UNCHANGED faults
     \/ Fault
  /\ call' = [call EXCEPT ![c].pc = "discard"]
  /\ UNCHANGED <<stream, resume, objects, halfDeleted>>

\* The object of an upload that got no row; the failure to delete it leaves
\* an object nothing refers to.
\* Fault: the object of the row that exists is deleted.
DiscardedStored(c) == {storageKey[r] : r \in {s \in Tasks : Exists(s)}}
Discarded(c)       == {call[c].key}

Discard(c) ==
  /\ call[c].pc = "discard"
  /\ \/ objects' = objects \ Discarded(c) /\ UNCHANGED faults
     \/ Fault /\ UNCHANGED objects
  /\ Done(c)
  /\ UNCHANGED <<stream, resume, halfDeleted>>

-----------------------------------------------------------------------------
(* reanalyze, and the queueing both requests end with                      *)

\* PENDING is committed, whatever the status was, then the stream is written.
Reanalyze(c) ==
  /\ call[c].pc = "idle"
  /\ \E r \in Tasks :
       /\ Exists(r)
       /\ analyzeStatus' = [analyzeStatus EXCEPT ![r] = "PENDING"]
       /\ call' = [call EXCEPT ![c] = [pc |-> "enqueue", row |-> r, key |-> None]]
  /\ UNCHANGED <<stream, storageKey, analyzed, objects, halfDeleted, faults>>

Enqueue(c) ==
  /\ call[c].pc = "enqueue"
  /\ Room
  /\ Add(call[c].row, 0)
  /\ Done(c)
  /\ UNCHANGED <<pel, idle, worker, resume, objects, halfDeleted, faults>>

\* The XADD raises, whether or not Redis has carried it out.
EnqueueFails(c) ==
  /\ call[c].pc = "enqueue"
  /\ Fault
  /\ UNCHANGED queue \/ (Room /\ Add(call[c].row, 0))
  /\ call' = [call EXCEPT ![c].pc = "unqueued"]
  /\ UNCHANGED <<pel, idle, worker, resume, objects, halfDeleted>>

MarkUnqueued(c) ==
  /\ call[c].pc = "unqueued"
  /\ analyzeStatus' = Updated(call[c].row, "FAILED")
  /\ Done(c)
  /\ UNCHANGED <<stream, storageKey, analyzed, objects, halfDeleted, faults>>

-----------------------------------------------------------------------------
(* delete: the object first, then delete_graph in one transaction          *)

Delete(c) ==
  /\ call[c].pc = "idle"
  /\ \E r \in Tasks :
       /\ Exists(r)
       /\ call' = [call EXCEPT ![c] =
            [pc |-> "erase", row |-> r, key |-> storageKey[r]]]
  /\ UNCHANGED <<stream, resume, objects, halfDeleted, faults>>

\* A failure is logged; the object may be gone all the same.
Erase(c) ==
  /\ call[c].pc = "erase"
  /\ \/ objects' = objects \ {call[c].key} /\ UNCHANGED faults
     \/ Fault /\ objects' \in {objects, objects \ {call[c].key}}
  /\ call' = [call EXCEPT ![c].pc = "remove"]
  /\ UNCHANGED <<stream, resume, halfDeleted>>

Remove(c) ==
  /\ call[c].pc = "remove"
  /\ LET r == call[c].row IN
       /\ analyzeStatus' = [analyzeStatus EXCEPT ![r] = "DELETED"]
       /\ storageKey' = [storageKey EXCEPT ![r] = None]
       /\ analyzed' = analyzed \ {r}
  /\ Done(c)
  /\ UNCHANGED <<stream, objects, halfDeleted, faults>>

\* The transaction raises: the row stays, and its file may be gone.
RemoveFails(c) ==
  /\ call[c].pc = "remove"
  /\ halfDeleted' = halfDeleted \cup {call[c].row}
  /\ Done(c)
  /\ Fault
  /\ UNCHANGED <<stream, resume, objects>>

-----------------------------------------------------------------------------
(* The worker: ResumeAnalyzeHandler                                        *)

\* should_skip
\* Fault: an analysis that is running is left to whoever runs it.
SkipsRunning(r) == ~Exists(r) \/ analyzeStatus[r] \in {"COMPLETED", "PROCESSING"}
Skips(r)        == ~Exists(r) \/ analyzeStatus[r] = "COMPLETED"

ShouldSkip(w) ==
  /\ GoOn(w, "skip", IF Skips(Task(w)) THEN "drop" ELSE "mark")
  /\ UNCHANGED <<resume, objects, call, halfDeleted, faults>>

MarkProcessing(w) ==
  /\ GoOn(w, "mark", IF Exists(Task(w)) THEN "process" ELSE "drop")
  /\ analyzeStatus' = Updated(Task(w), "PROCESSING")
  /\ UNCHANGED <<storageKey, analyzed, objects, call, halfDeleted, faults>>

\* process: owner and provider are read, then the model is asked; a resume
\* deleted before it ends the call quietly.
Analyze(w) ==
  /\ GoOn(w, "process", IF Exists(Task(w)) THEN "save" ELSE "complete")
  /\ UNCHANGED <<resume, objects, call, halfDeleted, faults>>

\* One more ResumeAnalysis row, unless the resume was deleted meanwhile.
SaveAnalysis(w) ==
  /\ GoOn(w, "save", "complete")
  /\ analyzed' = analyzed \cup {r \in {Task(w)} : Exists(r)}
  /\ UNCHANGED <<analyzeStatus, storageKey, objects, call, halfDeleted, faults>>

MarkCompleted(w) ==
  /\ GoOn(w, "complete", "ack")
  /\ analyzeStatus' = Updated(Task(w), "COMPLETED")
  /\ UNCHANGED <<storageKey, analyzed, objects, call, halfDeleted, faults>>

\* A provider, model, database or Redis error in one of these calls.
\* Fault: the exception of process is swallowed.
FailsQuietly(w) == \E from \in {"process", "save"} : GoOn(w, from, "complete")
Fails(w)        == Raised(w)

CallFails(w) ==
  /\ Fails(w)
  /\ Fault
  /\ UNCHANGED <<resume, objects, call, halfDeleted>>

Handled(w) ==
  /\ Failed(w) \/ Readd(w, "retry")
  /\ UNCHANGED <<resume, objects, call, halfDeleted, faults>>

\* retry leaves the status as it is; a failed XADD, carried out or not,
\* makes the analysis a failed one.
RetryFails(w) ==
  /\ worker[w].pc = "retry"
  /\ \/ GoOn(w, "retry", "unqueued")
     \/ /\ Add(Task(w), worker[w].msg.retry + 1)
        /\ worker' = [worker EXCEPT ![w].pc = "unqueued"]
        /\ UNCHANGED <<pel, idle>>
  /\ Fault
  /\ UNCHANGED <<resume, objects, call, halfDeleted>>

MarkFailed(w) ==
  /\ \E from \in {"unqueued", "giveup"} : GoOn(w, from, "ack")
  /\ analyzeStatus' = Updated(Task(w), "FAILED")
  /\ UNCHANGED <<storageKey, analyzed, objects, call, halfDeleted, faults>>

MarkRetryFails(w) ==
  /\ Preserve(w, {"unqueued"})
  /\ Fault
  /\ UNCHANGED <<resume, objects, call, halfDeleted>>

Consume(w) ==
  /\ Reclaim(w) \/ Read(w) \/ Take(w) \/ Ack(w)
  /\ UNCHANGED <<resume, objects, call, halfDeleted, faults>>

WorkerCrash(w) ==
  /\ Crash(w)
  /\ Fault
  /\ UNCHANGED <<resume, objects, call, halfDeleted>>

EntryGrowsIdle(m) ==
  /\ GrowsIdle(m)
  /\ UNCHANGED <<resume, objects, call, halfDeleted, faults>>

-----------------------------------------------------------------------------
CallStep(c) ==
  \/ Store(c) \/ Insert(c) \/ InsertFails(c) \/ Discard(c)
  \/ Enqueue(c) \/ EnqueueFails(c) \/ MarkUnqueued(c)
  \/ Erase(c) \/ Remove(c) \/ RemoveFails(c)

WorkerStep(w) ==
  \/ Consume(w) \/ ShouldSkip(w) \/ MarkProcessing(w) \/ Analyze(w)
  \/ SaveAnalysis(w) \/ MarkCompleted(w) \/ Handled(w) \/ MarkFailed(w)

WorkerFault(w) ==
  CallFails(w) \/ RetryFails(w) \/ MarkRetryFails(w) \/ WorkerCrash(w)

Next ==
  \/ \E c \in Calls : Upload(c) \/ Reanalyze(c) \/ Delete(c) \/ CallStep(c)
  \/ \E w \in Workers : WorkerStep(w) \/ WorkerFault(w)
  \/ \E m \in Messages : EntryGrowsIdle(m)

Spec == Init /\ [][Next]_vars

\* Requests being served run on, the worker runs and is restarted, and idle
\* time passes.  Clients owe nothing, the application does not die between
\* two steps of a request, and no job looks after the stream.
Fairness ==
  /\ \A c \in Calls : WF_vars(CallStep(c))
  /\ \A w \in Workers : WF_vars(WorkerStep(w))
  /\ \A m \in Messages : WF_vars(EntryGrowsIdle(m))

FairSpec == Spec /\ Fairness

-----------------------------------------------------------------------------
(* Safety                                                                  *)

\* A resume shown as COMPLETED has an analysis to show, although
\* mark_completed asks nobody whether process stored one (mark_completed,
\* process).
CompletedHasAnalysis ==
  \A r \in Tasks : analyzeStatus[r] = "COMPLETED" => r \in analyzed

\* An analysis shown as running is still owed by the stream; no job of the
\* scheduler looks at resumes (process_message, retry).  Only with a single
\* worker.
AnalysisIsOwed ==
  \A r \in Tasks : analyzeStatus[r] = "PROCESSING" => Owed(r) # {}

\* Two uploads of one file may both have stored it: the one whose insert is
\* refused takes back its own object, never the row's.  A row without its
\* file is left only by a deletion of that row, which erases the object in
\* front of its transaction: one under way, or one whose transaction failed
\* (upload, delete).
RowsHaveFiles ==
  \A r \in Tasks : Exists(r) =>
    \/ storageKey[r] \in objects
    \/ \E c \in Calls : call[c].pc = "remove" /\ call[c].row = r
    \/ r \in halfDeleted

(* Liveness                                                                *)

Unsettled(r) == analyzeStatus[r] \in {"PENDING", "PROCESSING"}

\* Every analysis asked for ends in COMPLETED or FAILED, through failing
\* XADDs, worker crashes and retries (upload, reanalyze, process_message).
AnalysesSettle == \A r \in Tasks : Unsettled(r) ~> ~Unsettled(r)
=============================================================================

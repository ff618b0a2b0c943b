------------------------ MODULE InterviewEvaluation ------------------------
(***************************************************************************)
(* The evaluation of finished interviews: the API calls that ask for it    *)
(* (the end of an interview, POST /report), the evaluation stream and its  *)
(* worker (InterviewEvaluateHandler), and the scheduler's requeueing of    *)
(* pending evaluations.  InterviewTurn has the sessions' life before it.   *)
(***************************************************************************)
EXTENDS TaskStream

CONSTANTS Calls,        \* API requests being served at once
          MaxEntries,   \* stream entries at which producers pause
          MaxFaults     \* exceptions, failed XADDs and crashes in a behaviour

ASSUME EvaluationAssumption ==
  /\ MaxEntries \in Nat
  /\ MaxFaults \in Nat
  /\ None \notin {"PENDING", "PROCESSING", "COMPLETED", "FAILED"}

VARIABLES
  status,      \* session -> InterviewSession.status, "DELETED" when no row is left
  evalStatus,  \* session -> evaluate_status
  old,         \* sessions whose completed_at is at least 30 s back
  call,        \* API request -> its step and session
  requeue,     \* pending evaluations the job has read and not queued yet
  faults       \* faults so far

session == <<status, evalStatus, old>>
vars    == <<stream, session, call, requeue, faults>>

Closed   == {"COMPLETED", "EVALUATED"}
IdleCall == [pc |-> "idle", session |-> None]

TypeOK ==
  /\ StreamTypeOK
  /\ status \in [Tasks -> {"IN_PROGRESS", "DELETED"} \cup Closed]
  /\ evalStatus \in
       [Tasks -> {"PENDING", "PROCESSING", "COMPLETED", "FAILED", None}]
  /\ old \subseteq Tasks
  /\ call \in [Calls -> [pc: {"idle", "reset", "enqueue"},
                         session: Tasks \cup {None}]]
  /\ requeue \subseteq Tasks
  /\ faults \in 0 .. MaxFaults

Init ==
  /\ StreamInit
  /\ status = [s \in Tasks |-> "IN_PROGRESS"]
  /\ evalStatus = [s \in Tasks |-> None]
  /\ old = {}
  /\ call = [c \in Calls |-> IdleCall]
  /\ requeue = {}
  /\ faults = 0

Fault == faults < MaxFaults /\ faults' = faults + 1

Room == Cardinality(Entries) < MaxEntries

-----------------------------------------------------------------------------
(* The API                                                                 *)

\* The last turn's finalize_turn, or complete_session: PENDING is committed
\* with the end of the session, the stream is written afterwards.
Finish(c) ==
  /\ call[c].pc = "idle"
  /\ \E s \in Tasks :
       /\ status[s] = "IN_PROGRESS"
       /\ status' = [status EXCEPT ![s] = "COMPLETED"]
       /\ evalStatus' = [evalStatus EXCEPT ![s] = "PENDING"]
       /\ call' = [call EXCEPT ![c] = [pc |-> "enqueue", session |-> s]]
  /\ UNCHANGED <<stream, old, requeue, faults>>

\* regenerate_report: the session is read, then reset whatever happened
\* meanwhile.
Regenerate(c) ==
  /\ call[c].pc = "idle"
  /\ \E s \in Tasks :
       /\ status[s] \in Closed
       /\ call' = [call EXCEPT ![c] = [pc |-> "reset", session |-> s]]
  /\ UNCHANGED <<stream, session, requeue, faults>>

\* update_evaluate_status: no row, no change.
Updated(s, value) ==
  IF status[s] = "DELETED" THEN evalStatus
                           ELSE [evalStatus EXCEPT ![s] = value]

Reset(c) ==
  /\ call[c].pc = "reset"
  /\ evalStatus' = Updated(call[c].session, "PENDING")
  /\ call' = [call EXCEPT ![c].pc = "enqueue"]
  /\ UNCHANGED <<stream, status, old, requeue, faults>>

\* _enqueue_evaluation; a failed XADD is logged and swallowed, and a crash
\* of the application in its place leaves the same.
Enqueue(c) ==
  /\ call[c].pc = "enqueue"
  /\ \/ Room /\ Add(call[c].session, 0) /\ UNCHANGED faults
     \/ Fault /\ UNCHANGED queue
  /\ call' = [call EXCEPT ![c] = IdleCall]
  /\ UNCHANGED <<pel, idle, worker, session, requeue>>

DeleteSession(s) ==
  /\ status[s] # "DELETED"
  /\ status' = [status EXCEPT ![s] = "DELETED"]
  /\ evalStatus' = [evalStatus EXCEPT ![s] = None]
  /\ old' = old \ {s}
  /\ UNCHANGED <<stream, call, requeue, faults>>

-----------------------------------------------------------------------------
(* The worker: InterviewEvaluateHandler                                    *)

\* should_skip
\* Fault: a finished evaluation is not skipped.
SkipsMissing(s) == status[s] = "DELETED"
Skips(s)        == status[s] = "DELETED" \/ evalStatus[s] = "COMPLETED"

ShouldSkip(w) ==
  /\ GoOn(w, "skip", IF Skips(Task(w)) THEN "drop" ELSE "mark")
  /\ UNCHANGED <<session, call, requeue, faults>>

\* try_mark_processing: whatever the status has become since should_skip.
MarkProcessing(w) ==
  /\ GoOn(w, "mark", IF status[Task(w)] = "DELETED" THEN "drop" ELSE "process")
  /\ evalStatus' = Updated(Task(w), "PROCESSING")
  /\ UNCHANGED <<status, old, call, requeue, faults>>

\* process: the aggregate is read, the model is asked; a session deleted
\* before it ends the call quietly.
Evaluate(w) ==
  /\ GoOn(w, "process", IF status[Task(w)] = "DELETED" THEN "complete" ELSE "save")
  /\ UNCHANGED <<session, call, requeue, faults>>

\* save_report
SaveReport(w) ==
  /\ GoOn(w, "save", "complete")
  /\ status[Task(w)] # "DELETED"
  /\ status' = [status EXCEPT ![Task(w)] = "EVALUATED"]
  /\ evalStatus' = [evalStatus EXCEPT ![Task(w)] = "COMPLETED"]
  /\ UNCHANGED <<old, call, requeue, faults>>

SaveRejected(w) ==
  /\ GoOn(w, "save", "failed")
  /\ status[Task(w)] = "DELETED"
  /\ UNCHANGED <<session, call, requeue, faults>>

MarkCompleted(w) ==
  /\ GoOn(w, "complete", "ack")
  /\ evalStatus' = Updated(Task(w), "COMPLETED")
  /\ UNCHANGED <<status, old, call, requeue, faults>>

\* A provider, model, database or Redis error in one of these calls.
\* Fault: the exception of process is swallowed.
FailsQuietly(w) == GoOn(w, "process", "complete")
Fails(w)        == Raised(w)

CallFails(w) ==
  /\ Fails(w)
  /\ Fault
  /\ UNCHANGED <<session, call, requeue>>

Handled(w) ==
  /\ \/ Failed(w)
     \/ Readd(w, "readd")
  /\ UNCHANGED <<session, call, requeue, faults>>

\* retry: PENDING first, so that the scheduler sees it if the XADD fails.
Retry(w) ==
  /\ GoOn(w, "retry", "readd")
  /\ evalStatus' = Updated(Task(w), "PENDING")
  /\ UNCHANGED <<status, old, call, requeue, faults>>

RetryFails(w) ==
  /\ Preserve(w, {"retry", "readd"})
  /\ Fault
  /\ UNCHANGED <<session, call, requeue>>

\* mark_failed
MarkFailed(w) ==
  /\ GoOn(w, "giveup", "ack")
  /\ evalStatus' = Updated(Task(w), "FAILED")
  /\ UNCHANGED <<status, old, call, requeue, faults>>

Consume(w) ==
  /\ Reclaim(w) \/ Read(w) \/ Take(w) \/ Ack(w)
  /\ UNCHANGED <<session, call, requeue, faults>>

WorkerCrash(w) ==
  /\ Crash(w)
  /\ Fault
  /\ UNCHANGED <<session, call, requeue>>

-----------------------------------------------------------------------------
(* The scheduler job, and time                                             *)

\* pending_evaluations, thirty seconds after the end of the interview.
\* Fault: the wrong status is looked for.
OverdueProcessing(s) == s \in old /\ evalStatus[s] = "PROCESSING"
Overdue(s)           == s \in old /\ evalStatus[s] = "PENDING"

Scan ==
  /\ requeue = {}
  /\ requeue' = {s \in Tasks : Overdue(s)}
  /\ UNCHANGED <<stream, session, call, faults>>

Requeue ==
  \E s \in requeue :
    /\ Room
    /\ Add(s, 0)
    /\ requeue' = requeue \ {s}
    /\ UNCHANGED <<pel, idle, worker, session, call, faults>>

\* A failed XADD, or the scheduler's death, ends this run of the job.
RequeueFails ==
  /\ requeue # {}
  /\ requeue' = {}
  /\ Fault
  /\ UNCHANGED <<stream, session, call>>

GrowsOld(s) ==
  /\ status[s] \in Closed
  /\ s \notin old
  /\ old' = old \cup {s}
  /\ UNCHANGED <<stream, status, evalStatus, call, requeue, faults>>

EntryGrowsIdle(m) ==
  /\ GrowsIdle(m)
  /\ UNCHANGED <<session, call, requeue, faults>>

-----------------------------------------------------------------------------
CallStep(c) == Reset(c) \/ Enqueue(c)

WorkerStep(w) ==
  \/ Consume(w) \/ ShouldSkip(w) \/ MarkProcessing(w) \/ Evaluate(w)
  \/ SaveReport(w) \/ SaveRejected(w) \/ MarkCompleted(w) \/ Handled(w)
  \/ Retry(w) \/ MarkFailed(w)

WorkerFault(w) == CallFails(w) \/ RetryFails(w) \/ WorkerCrash(w)

Next ==
  \/ \E c \in Calls : Finish(c) \/ Regenerate(c) \/ CallStep(c)
  \/ \E s \in Tasks : DeleteSession(s) \/ GrowsOld(s)
  \/ \E w \in Workers : WorkerStep(w) \/ WorkerFault(w)
  \/ \E m \in Messages : EntryGrowsIdle(m)
  \/ Scan \/ Requeue \/ RequeueFails

Spec == Init /\ [][Next]_vars

\* The worker runs (and is restarted when it dies), the scheduler fires, the
\* idle time and the thirty seconds pass.  Clients owe nothing.
Fairness ==
  /\ \A c \in Calls : WF_vars(CallStep(c))
  /\ \A w \in Workers : WF_vars(WorkerStep(w))
  /\ WF_vars(Scan \/ Requeue)
  /\ \A s \in Tasks : WF_vars(GrowsOld(s))
  /\ \A m \in Messages : WF_vars(EntryGrowsIdle(m))

FairSpec == Spec /\ Fairness

-----------------------------------------------------------------------------
(* Safety                                                                  *)

\* An evaluation shown as running is still owed by the stream: the scheduler
\* looks for PENDING only, so an interrupted one is started over by nobody
\* but the reader of its unacknowledged message (process_message,
\* pending_evaluations).
InterruptedWorkIsOwed ==
  \A s \in Tasks : evalStatus[s] = "PROCESSING" => Owed(s) # {}

\* COMPLETED is never shown without a report, although mark_completed writes
\* it unconditionally and process returns without a report when the session
\* is gone (process, save_report, mark_completed).
CompletedHasReport ==
  \A s \in Tasks : evalStatus[s] = "COMPLETED" => status[s] = "EVALUATED"

\* A duplicate message -- the scheduler's, a retry's, one delivered again --
\* never starts a finished evaluation over: what should_skip has seen still
\* holds when the row is marked and while the model works, although neither
\* try_mark_processing nor save_report looks at the status again.  Only with
\* a single worker (should_skip, try_mark_processing).
FinishedIsNotRedone ==
  \A w \in Workers, s \in Tasks :
    Task(w) = s /\ worker[w].pc \in {"mark", "process", "save"} =>
      evalStatus[s] # "COMPLETED"

(* Liveness                                                                *)

Unsettled(s) == evalStatus[s] \in {"PENDING", "PROCESSING"}

\* Every evaluation asked for ends, in a report or in FAILED, through lost
\* XADDs, worker crashes and retries (process_message, read_batch, recover).
EvaluationsSettle == \A s \in Tasks : Unsettled(s) ~> ~Unsettled(s)
=============================================================================

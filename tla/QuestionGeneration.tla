------------------------- MODULE QuestionGeneration -------------------------
(***************************************************************************)
(* The generation of interview questions from a knowledge base: the        *)
(* request, the question-gen stream and its worker, and the scheduler's    *)
(* recovery of tasks that were never queued or never came back.  Every     *)
(* transition is a compare-and-set, under the lock of the knowledge base's *)
(* row, on the task's id and status (QuestionGenerationStateService).      *)
(*                                                                         *)
(* The module is about one knowledge base: they do not refer to each       *)
(* other.  TaskStream's Tasks are the ids of its generation tasks.         *)
(***************************************************************************)
EXTENDS TaskStream

CONSTANTS Calls,        \* API requests being served at once
          MaxEntries,   \* stream entries at which requests pause
          JobEntries,   \* stream entries at which the recovery job pauses
          MaxFaults     \* exceptions, failed XADDs, crashes and slow attempts

ASSUME GenerationAssumption ==
  /\ MaxEntries \in Nat
  /\ JobEntries \in Nat
  /\ MaxFaults \in Nat

VARIABLES
  genStatus,   \* question_gen_status, "DELETED" when no row is left
  genTask,     \* question_gen_task_id
  saved,       \* the task the stored questions come from
  age,         \* of question_gen_updated_at: 1 from two minutes, 2 from twenty
  ageAtScan,   \* what age was when the job began, 0 if the row changed since
  call,        \* API request -> its step and task
  job,         \* the recovery job's step, the status it looks for, its task
  faults       \* faults so far

row  == <<genStatus, genTask, saved, age, ageAtScan>>
vars == <<stream, row, call, job, faults>>

IdleCall == [pc |-> "idle", task |-> None]
IdleJob  == [pc |-> "idle", looksFor |-> "QUEUED", task |-> None]

TypeOK ==
  /\ StreamTypeOK
  /\ genStatus \in {"NONE", "QUEUED", "PROCESSING", "COMPLETED", "FAILED", "DELETED"}
  /\ genTask \in Tasks \cup {None}
  /\ saved \in Tasks \cup {None}
  /\ age \in 0 .. 2
  /\ ageAtScan \in 0 .. age
  /\ call \in [Calls -> [pc: {"idle", "send", "unsent"}, task: Tasks \cup {None}]]
  /\ job \in [pc: {"idle", "scan", "touch", "send", "unsent"},
              looksFor: {"QUEUED", "PROCESSING"}, task: Tasks \cup {None}]
  /\ faults \in 0 .. MaxFaults

Init ==
  /\ StreamInit
  /\ genStatus = "NONE"
  /\ genTask = None
  /\ saved = None
  /\ age = 0
  /\ ageAtScan = 0
  /\ call = [c \in Calls |-> IdleCall]
  /\ job = IdleJob
  /\ faults = 0

Fault == faults < MaxFaults /\ faults' = faults + 1

Room    == Cardinality(Entries) < MaxEntries
JobRoom == Cardinality(Entries) < JobEntries

-----------------------------------------------------------------------------
(* QuestionGenerationStateService                                          *)

\* Fault: the task id alone is compared.
MatchesTask(t, expected) == genTask = t
Matches(t, expected)     == genTask = t /\ genStatus = expected

\* An update of the row sets question_gen_updated_at.
Becomes(value) ==
  /\ genStatus' = value
  /\ age' = 0
  /\ ageAtScan' = 0

\* _transition, try_mark_processing: what the caller learns is `Matches`.
Transition(t, expected, target) ==
  /\ IF Matches(t, expected)
     THEN Becomes(target)
     ELSE UNCHANGED <<genStatus, age, ageAtScan>>
  /\ UNCHANGED <<genTask, saved>>

\* mark_failed
MarkFailedRow(t) ==
  /\ IF genTask = t /\ genStatus # "COMPLETED"
     THEN Becomes("FAILED")
     ELSE UNCHANGED <<genStatus, age, ageAtScan>>
  /\ UNCHANGED <<genTask, saved>>

-----------------------------------------------------------------------------
(* The API                                                                 *)

\* Task ids somebody still knows of; a new task gets another one.
KnownTasks ==
  {genTask, saved, job.task} \cup {m.task : m \in Entries}
    \cup {call[c].task : c \in Calls} \cup {worker[w].msg.task : w \in Workers}
    \cup {m.task : m \in UNION {worker[w].hand : w \in Workers}}

\* create_task
\* Fault: a running task is replaced.
MayCreateAnyway == genStatus # "DELETED"
MayCreate       == genStatus \in {"NONE", "COMPLETED", "FAILED"}

CreateTask(c) ==
  /\ call[c].pc = "idle"
  /\ MayCreate
  /\ Becomes("QUEUED")
  /\ \E t \in Tasks \ KnownTasks :
       /\ genTask' = t
       /\ call' = [call EXCEPT ![c] = [pc |-> "send", task |-> t]]
  /\ UNCHANGED <<stream, saved, job, faults>>

\* QuestionGenStreamProducer.send
Send(c) ==
  /\ call[c].pc = "send"
  /\ Room
  /\ Add(call[c].task, 0)
  /\ call' = [call EXCEPT ![c] = IdleCall]
  /\ UNCHANGED <<pel, idle, worker, row, job, faults>>

\* Its XADD raises, whether or not Redis has carried it out.
SendFails(c) ==
  /\ call[c].pc = "send"
  /\ UNCHANGED queue \/ (Room /\ Add(call[c].task, 0))
  /\ call' = [call EXCEPT ![c].pc = "unsent"]
  /\ Fault
  /\ UNCHANGED <<pel, idle, worker, row, job>>

MarkUnsent(c) ==
  /\ call[c].pc = "unsent"
  /\ MarkFailedRow(call[c].task)
  /\ call' = [call EXCEPT ![c] = IdleCall]
  /\ UNCHANGED <<stream, job, faults>>

\* The application dies, or a database error leaves the request there.
AppCrash(c) ==
  /\ call[c].pc # "idle"
  /\ call' = [call EXCEPT ![c] = IdleCall]
  /\ Fault
  /\ UNCHANGED <<stream, row, job>>

\* The knowledge base's row.  The foreign key of its questions refuses that
\* until they are gone, deleted one by one before (QuestionBank).
DeleteKnowledgeBase ==
  /\ genStatus # "DELETED"
  /\ Becomes("DELETED")
  /\ genTask' = None
  /\ saved' = None
  /\ UNCHANGED <<stream, call, job, faults>>

-----------------------------------------------------------------------------
(* The worker: QuestionGenStreamHandler                                    *)

\* should_skip never does.
ShouldSkip(w) ==
  /\ GoOn(w, "skip", "mark")
  /\ UNCHANGED <<row, call, job, faults>>

MarkProcessing(w) ==
  /\ GoOn(w, "mark", IF Matches(Task(w), "QUEUED") THEN "process" ELSE "drop")
  /\ Transition(Task(w), "QUEUED", "PROCESSING")
  /\ UNCHANGED <<call, job, faults>>

\* get_config raises for a task that is no longer the current one; execute
\* looks once more and returns.
Generate(w) ==
  /\ IF genTask = Task(w)
     THEN GoOn(w, "process", "save")
     ELSE \E to \in {"failed", "ack"} : GoOn(w, "process", to)
  /\ UNCHANGED <<row, call, job, faults>>

\* replace_questions_and_complete; mark_completed has nothing left to do.
SaveQuestions(w) ==
  /\ GoOn(w, "save", "ack")
  /\ IF Matches(Task(w), "PROCESSING")
     THEN Becomes("COMPLETED") /\ saved' = Task(w)
     ELSE UNCHANGED <<genStatus, age, ageAtScan, saved>>
  /\ UNCHANGED <<genTask, call, job, faults>>

\* A provider, model, database or Redis error.
CallFails(w) ==
  /\ Raised(w)
  /\ Fault
  /\ UNCHANGED <<row, call, job>>

\* retry: a task that is not PROCESSING any more is left alone.
Retry(w) ==
  /\ GoOn(w, "retry", IF Matches(Task(w), "PROCESSING") THEN "readd" ELSE "ack")
  /\ Transition(Task(w), "PROCESSING", "QUEUED")
  /\ UNCHANGED <<call, job, faults>>

Handled(w) ==
  /\ Failed(w) \/ Readd(w, "readd")
  /\ UNCHANGED <<row, call, job, faults>>

ReaddFails(w) ==
  /\ worker[w].pc = "readd"
  /\ \/ GoOn(w, "readd", "unqueued")
     \/ /\ Add(Task(w), worker[w].msg.retry + 1)
        /\ worker' = [worker EXCEPT ![w].pc = "unqueued"]
        /\ UNCHANGED <<pel, idle>>
  /\ Fault
  /\ UNCHANGED <<row, call, job>>

MarkFailed(w) ==
  /\ \E from \in {"unqueued", "giveup"} : GoOn(w, from, "ack")
  /\ MarkFailedRow(Task(w))
  /\ UNCHANGED <<call, job, faults>>

\* reset_for_retry, or mark_failed after the failed XADD, raises.
RetryFails(w) ==
  /\ Preserve(w, {"retry", "unqueued"})
  /\ Fault
  /\ UNCHANGED <<row, call, job>>

Consume(w) ==
  /\ Reclaim(w) \/ Read(w) \/ Take(w) \/ Ack(w)
  /\ UNCHANGED <<row, call, job, faults>>

WorkerCrash(w) ==
  /\ Crash(w)
  /\ Fault
  /\ UNCHANGED <<row, call, job>>

-----------------------------------------------------------------------------
(* The scheduler job: QuestionGenerationRecoveryService.recover            *)

\* First the QUEUED tasks, then the PROCESSING ones, then the end.
\* Fault: tasks that were being processed are not looked for.
NextPassNone == IdleJob
NextPass     == IF job.looksFor = "QUEUED"
                THEN [pc |-> "scan", looksFor |-> "PROCESSING", task |-> None]
                ELSE IdleJob

\* Two minutes for a QUEUED task, twenty for a PROCESSING one, before the job
\* began.
Stale == ageAtScan >= (IF job.looksFor = "QUEUED" THEN 1 ELSE 2)

StartJob ==
  /\ job = IdleJob
  /\ job' = [IdleJob EXCEPT !.pc = "scan"]
  /\ ageAtScan' = age
  /\ UNCHANGED <<stream, genStatus, genTask, saved, age, call, faults>>

ScanTasks ==
  /\ job.pc = "scan"
  /\ job' = IF genStatus = job.looksFor /\ Stale
            THEN [job EXCEPT !.pc = "touch", !.task = genTask]
            ELSE NextPass
  /\ UNCHANGED <<stream, row, call, faults>>

\* touch_queued_for_recovery, reset_stale_processing
RecoverTask ==
  /\ job.pc = "touch"
  /\ IF Matches(job.task, job.looksFor) /\ Stale
     THEN Becomes("QUEUED") /\ job' = [job EXCEPT !.pc = "send"]
     ELSE UNCHANGED <<genStatus, age, ageAtScan>> /\ job' = NextPass
  /\ UNCHANGED <<stream, genTask, saved, call, faults>>

JobSend ==
  /\ job.pc = "send"
  /\ JobRoom
  /\ Add(job.task, 0)
  /\ job' = NextPass
  /\ UNCHANGED <<pel, idle, worker, row, call, faults>>

JobSendFails ==
  /\ job.pc = "send"
  /\ UNCHANGED queue \/ (JobRoom /\ Add(job.task, 0))
  /\ job' = [job EXCEPT !.pc = "unsent"]
  /\ Fault
  /\ UNCHANGED <<pel, idle, worker, row, call>>

JobMarkFailed ==
  /\ job.pc = "unsent"
  /\ MarkFailedRow(job.task)
  /\ job' = NextPass
  /\ UNCHANGED <<stream, call, faults>>

\* The scheduler dies, or a database error ends this run of the job.
JobCrash ==
  /\ job # IdleJob
  /\ job' = IdleJob
  /\ Fault
  /\ UNCHANGED <<stream, row, call>>

-----------------------------------------------------------------------------
(* Time                                                                    *)

InWork == \E w \in Workers : worker[w].pc # "poll" /\ Task(w) = genTask

\* An attempt that takes twenty minutes is one of the faults.
GrowsOld ==
  /\ genStatus \in {"QUEUED", "PROCESSING"}
  /\ age < 2
  /\ age' = age + 1
  /\ IF age = 1 /\ InWork THEN Fault ELSE UNCHANGED faults
  /\ UNCHANGED <<stream, genStatus, genTask, saved, ageAtScan, call, job>>

EntryGrowsIdle(m) ==
  /\ GrowsIdle(m)
  /\ UNCHANGED <<row, call, job, faults>>

-----------------------------------------------------------------------------
CallStep(c) == Send(c) \/ MarkUnsent(c)

WorkerStep(w) ==
  \/ Consume(w) \/ ShouldSkip(w) \/ MarkProcessing(w) \/ Generate(w)
  \/ SaveQuestions(w) \/ Retry(w) \/ Handled(w) \/ MarkFailed(w)

WorkerFault(w) == CallFails(w) \/ ReaddFails(w) \/ RetryFails(w) \/ WorkerCrash(w)

JobStep == StartJob \/ ScanTasks \/ RecoverTask \/ JobSend \/ JobMarkFailed

Next ==
  \/ \E c \in Calls : CreateTask(c) \/ CallStep(c) \/ SendFails(c) \/ AppCrash(c)
  \/ DeleteKnowledgeBase
  \/ \E w \in Workers : WorkerStep(w) \/ WorkerFault(w)
  \/ \E m \in Messages : EntryGrowsIdle(m)
  \/ JobStep \/ JobSendFails \/ JobCrash
  \/ GrowsOld

Spec == Init /\ [][Next]_vars

\* Requests being served run on, the worker runs and is restarted, the job is
\* run every minute, and time passes.  Clients owe nothing.
Fairness ==
  /\ \A c \in Calls : WF_vars(CallStep(c))
  /\ \A w \in Workers : WF_vars(WorkerStep(w))
  /\ WF_vars(JobStep)
  /\ WF_vars(GrowsOld)
  /\ \A m \in Messages : WF_vars(EntryGrowsIdle(m))

FairSpec == Spec /\ Fairness

-----------------------------------------------------------------------------
(* Safety                                                                  *)

\* A task being saved is never one that has ended, so a slow attempt whose
\* task was reset, run again and settled meanwhile changes nothing, and the
\* questions shown always come from the last task that succeeded
\* (replace_questions_and_complete, mark_failed, reset_for_retry).
GenTask == INSTANCE GenerationTask
  WITH state <- CASE genStatus = "NONE"      -> "none"
                  [] genStatus = "COMPLETED" -> "done"
                  [] genStatus = "FAILED"    -> "failed"
                  [] genStatus = "DELETED"   -> "removed"
                  [] OTHER                   -> "asked",
       task <- genTask

RunsOneTask == GenTask!Spec

(* Liveness                                                                *)

Running(t) == genTask = t /\ genStatus \in {"QUEUED", "PROCESSING"}

\* Every task ends, although the request, the worker or the job may die
\* between any two steps and the message may never be written (recover).
TasksSettle == \A t \in Tasks : Running(t) ~> ~Running(t)
=============================================================================

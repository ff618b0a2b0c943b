---------------------------- MODULE WorkerProcess ----------------------------
(***************************************************************************)
(* The life of a worker process: its consumers, one task each in one task  *)
(* group (run_stream_consumers), the blocking calls they have carried out  *)
(* by the threads of BlockingExecutor, and how it ends, by the stop signal *)
(* or because a consumer raised.  What a consumer does with a message is   *)
(* TaskStream's subject.                                                   *)
(***************************************************************************)
EXTENDS Naturals, FiniteSets

CONSTANTS Consumers,
          Batch,      \* messages of one read_batch
          Threads,    \* blocking_worker_count
          MaxCalls,   \* blocking calls
          None

\* No status of a call is None.
ProcessAssumption == MaxCalls \in Nat /\ Batch \in Nat /\ None # "queued"

VARIABLES
  stage,    \* of the process
  stop,     \* the stop event
  broken,   \* whether a consumer raised: the group cancels the others
  task,     \* consumer -> what it does, messages left of its batch, its call
  call,     \* call -> where it is; calls queue in the order of their numbers
  called    \* calls made

vars == <<stage, stop, broken, task, call, called>>

BlockingCalls == 1 .. MaxCalls

TypeOK ==
  /\ stage \in {"run", "closed", "exited"}
  /\ stop \in BOOLEAN /\ broken \in BOOLEAN
  /\ task \in [Consumers -> [does: {"read", "handle", "wait", "unwind", "over"},
                             left: 0 .. Batch, call: BlockingCalls \cup {None}]]
  /\ call \in [BlockingCalls -> {None, "queued", "running", "done", "dropped"}]
  /\ called \in 0 .. MaxCalls

Init ==
  /\ stage = "run" /\ stop = FALSE /\ broken = FALSE
  /\ task = [t \in Consumers |-> [does |-> "read", left |-> 0, call |-> None]]
  /\ call = [c \in BlockingCalls |-> None]
  /\ called = 0

Does(t, d) == task[t].does = d
Goes(t, d) == task' = [task EXCEPT ![t] = [does |-> d, left |-> @.left, call |-> None]]

\* install_shutdown_handlers
Signal ==
  /\ ~stop /\ stop' = TRUE
  /\ UNCHANGED <<stage, broken, task, call, called>>

-----------------------------------------------------------------------------
(* BlockingExecutor                                                        *)

Queued == {c \in BlockingCalls : call[c] = "queued"}

\* Fault: the executor is not told of it.
StaysQueued(c) == call

\* The future that a task waits for is cancelled: a call that no thread has
\* taken is never made, and one under way goes on with nobody waiting for it.
Cancelled(c) == IF call[c] = "queued" THEN [call EXCEPT ![c] = "dropped"] ELSE call

\* run
Submit(t) ==
  /\ Does(t, "handle") /\ called < MaxCalls
  /\ called' = called + 1
  /\ call' = [call EXCEPT ![called + 1] = "queued"]
  /\ task' = [task EXCEPT ![t].does = "wait", ![t].call = called + 1]
  /\ UNCHANGED <<stage, stop, broken>>

ThreadTakes ==
  /\ Cardinality({c \in BlockingCalls : call[c] = "running"}) < Threads
  /\ \E c \in Queued :
       /\ \A d \in Queued : c <= d
       /\ call' = [call EXCEPT ![c] = "running"]
  /\ UNCHANGED <<stage, stop, broken, task, called>>

ThreadEnds(c) ==
  /\ call[c] = "running" /\ call' = [call EXCEPT ![c] = "done"]
  /\ task' = [t \in Consumers |->
                IF Does(t, "wait") /\ task[t].call = c
                THEN [task[t] EXCEPT !.does = "handle", !.call = None] ELSE task[t]]
  /\ UNCHANGED <<stage, stop, broken, called>>

\* wait_for in S3Storage._call
TimesOut(t) ==
  /\ Does(t, "wait")
  /\ call' = Cancelled(task[t].call)
  /\ Goes(t, "handle")
  /\ UNCHANGED <<stage, stop, broken, called>>

-----------------------------------------------------------------------------
(* run, run_stream_consumers                                               *)

\* read_batch, or the end of the loop.
Read(t) ==
  /\ Does(t, "read") /\ ~broken
  /\ IF stop THEN Goes(t, "over")
     ELSE \E n \in 0 .. Batch :
            task' = [task EXCEPT ![t] = [does |-> IF n = 0 THEN "read" ELSE "handle",
                                         left |-> n, call |-> None]]
  /\ UNCHANGED <<stage, stop, broken, call, called>>

\* process_message returns: what the handler raises is dealt with there.
Handled(t) ==
  /\ Does(t, "handle")
  /\ task' = [task EXCEPT ![t] = [does |-> IF task[t].left > 1 THEN "handle" ELSE "read",
                                  left |-> task[t].left - 1, call |-> None]]
  /\ UNCHANGED <<stage, stop, broken, call, called>>

\* Redis fails in read_batch, or in the acknowledgement.
Raises(t) ==
  /\ Does(t, "read") \/ Does(t, "handle")
  /\ Goes(t, "over") /\ broken' = TRUE
  /\ UNCHANGED <<stage, stop, call, called>>

\* CancelledError, which process_message does not catch: the message keeps its
\* place in the stream's pending list.
Cancel(t) ==
  /\ broken
  /\ \/ Does(t, "read") \/ Does(t, "handle") \/ Does(t, "wait")
  /\ call' = IF Does(t, "wait") THEN Cancelled(task[t].call) ELSE call
  /\ Goes(t, "unwind")
  /\ UNCHANGED <<stage, stop, broken, called>>

Unwinds(t) ==
  /\ Does(t, "unwind") /\ Goes(t, "over")
  /\ UNCHANGED <<stage, stop, broken, call, called>>

\* The group ends with its last task; then infrastructure.close(), which ends
\* the executor with cancel_futures unless a client before it fails to close.
Close ==
  /\ stage = "run" /\ \A t \in Consumers : Does(t, "over")
  /\ stage' = "closed"
  /\ \/ call' = [c \in BlockingCalls |-> IF call[c] = "queued" THEN "dropped" ELSE call[c]]
     \/ UNCHANGED call
  /\ UNCHANGED <<stop, broken, task, called>>

\* No thread is left, whether shutdown waited for them or the interpreter does.
Exit ==
  /\ stage = "closed" /\ \A c \in BlockingCalls : call[c] # "running"
  /\ stage' = "exited"
  /\ UNCHANGED <<stop, broken, task, call, called>>

ConsumerStep(t) == Read(t) \/ Handled(t) \/ Cancel(t) \/ Unwinds(t)

ProcessStep == ThreadTakes \/ Close \/ Exit

Next ==
  \/ Signal \/ ProcessStep
  \/ \E t \in Consumers : Submit(t) \/ TimesOut(t) \/ Raises(t) \/ ConsumerStep(t)
  \/ \E c \in BlockingCalls : ThreadEnds(c)

\* A thread ends: blocking calls have timeouts of their own.
Fairness ==
  /\ \A t \in Consumers : WF_vars(ConsumerStep(t))
  /\ WF_vars(ProcessStep)
  /\ \A c \in BlockingCalls : WF_vars(ThreadEnds(c))

Spec == Init /\ [][Next]_vars /\ Fairness

-----------------------------------------------------------------------------
\* A queued call always has a consumer that waits for it, so none begins after
\* its consumer gave up, and none is left when the process closes although the
\* close may stop before the executor (BlockingExecutor.run, _call).
CallsAreWaitedFor ==
  /\ \A c \in Queued : \E t \in Consumers : Does(t, "wait") /\ task[t].call = c
  /\ stage # "run" => Queued = {}

\* A process that is told to stop, or one of whose consumers raised, exits.
WorkerEnds == (stop \/ broken) ~> stage = "exited"
=============================================================================

----------------------------- MODULE TaskStream -----------------------------
(***************************************************************************)
(* A Redis stream with its consumer group and the worker's sequential      *)
(* consumer of it: what RedisStreamService and SequentialStreamConsumer    *)
(* give to every background task.  Delivery is at least once: an entry     *)
(* stays in the group's pending list from XREADGROUP to XACK, and a worker *)
(* that reads an entry again after five idle minutes starts it over.       *)
(*                                                                         *)
(* The module has no specification of its own.  A task's module extends it *)
(* and adds the handler: what is skipped, marked, processed and retried.   *)
(***************************************************************************)
EXTENDS Naturals, Sequences, FiniteSets

CONSTANTS Tasks,        \* what messages are about: rows of the task's table
          Workers,      \* consumers of the group
          Ids,          \* stream entry ids in use at once
          MaxRetries,   \* MAX_RETRY_COUNT
          Batch,        \* BATCH_SIZE and PENDING_CLAIM_BATCH_SIZE
          None

ASSUME StreamAssumption ==
  /\ MaxRetries \in Nat
  /\ Batch \in Nat \ {0}
  /\ None \notin Tasks

Messages == [id: Ids, task: Tasks, retry: 0 .. MaxRetries]

VARIABLES
  queue,     \* entries not delivered to the group yet, oldest first
  pel,       \* entries delivered and not acknowledged (the pending list)
  idle,      \* those of them delivered five minutes ago or more
  worker     \* consumer -> step of process_message, its message, the batch behind it

stream == <<queue, pel, idle, worker>>

\* The steps of process_message: reading, the handler's calls in their order,
\* the acknowledgement of a skipped message ("drop"), a handler's own clean-up,
\* the two ways out of a failure, and the acknowledgement at the end.
WorkerSteps == {"poll", "skip", "mark", "drop", "process", "save", "complete",
                "cleanup", "failed", "retry", "readd", "unqueued", "giveup",
                "ack"}

NoMessage  == [id |-> None, task |-> None, retry |-> 0]
IdleWorker == [pc |-> "poll", msg |-> NoMessage, hand |-> {}]

Queued == {queue[i] : i \in 1 .. Len(queue)}

StreamTypeOK ==
  /\ queue \in Seq(Messages)
  /\ pel \subseteq Messages
  /\ idle \subseteq pel
  /\ worker \in [Workers -> [pc: WorkerSteps,
                             msg: Messages \cup {NoMessage},
                             hand: SUBSET Messages]]
  /\ \A w \in Workers : worker[w].pc # "poll" => worker[w].msg \in Messages

StreamInit ==
  /\ queue = <<>>
  /\ pel = {}
  /\ idle = {}
  /\ worker = [w \in Workers |-> IdleWorker]

\* Entries the group still owes for a task.
Entries    == Queued \cup pel
Owed(t)    == {m \in Entries : m.task = t}

-----------------------------------------------------------------------------
(* XADD                                                                    *)

InUse   == {m.id : m \in Entries \cup UNION {worker[w].hand : w \in Workers}}
             \cup {worker[w].msg.id : w \in Workers}
FreeIds == Ids \ InUse

Add(t, k) ==
  /\ FreeIds # {}
  /\ queue' = Append(queue, [id |-> CHOOSE i \in FreeIds : TRUE,
                             task |-> t, retry |-> k])

-----------------------------------------------------------------------------
(* read_batch                                                              *)

AtMost(n, limit) == IF n <= limit THEN n ELSE limit

\* XAUTOCLAIM: entries idle for five minutes come first, whoever read them.

Reclaim(w) ==
  /\ worker[w].pc = "poll" /\ worker[w].hand = {}
  /\ \E batch \in (SUBSET idle) \ {{}} :
       /\ Cardinality(batch) = AtMost(Cardinality(idle), Batch)
       /\ idle' = idle \ batch
       /\ worker' = [worker EXCEPT ![w].hand = batch]
  /\ UNCHANGED <<queue, pel>>

\* XREADGROUP ">" enters what it delivers into the pending list.
\* Fault: the entries are read without it.
PendingNoAck(batch) == pel
PendingWith(batch)  == pel \cup batch

Read(w) ==
  /\ worker[w].pc = "poll" /\ worker[w].hand = {}
  /\ idle = {}
  /\ queue # <<>>
  /\ LET n     == AtMost(Len(queue), Batch)
         batch == {queue[i] : i \in 1 .. n}
     IN /\ queue' = SubSeq(queue, n + 1, Len(queue))
        /\ pel' = PendingWith(batch)
        /\ worker' = [worker EXCEPT ![w].hand = batch]
  /\ UNCHANGED idle

-----------------------------------------------------------------------------
(* process_message                                                         *)

Take(w) ==
  /\ worker[w].pc = "poll"
  /\ \E m \in worker[w].hand :
       worker' = [worker EXCEPT ![w] =
         [pc |-> "skip", msg |-> m, hand |-> worker[w].hand \ {m}]]
  /\ UNCHANGED <<queue, pel, idle>>

Task(w) == worker[w].msg.task

\* The handler's call at step `from` returned and the next one is `to`.
GoOn(w, from, to) ==
  /\ worker[w].pc = from
  /\ worker' = [worker EXCEPT ![w].pc = to]
  /\ UNCHANGED <<queue, pel, idle>>

\* A call inside process_message's try raised: the handler's, or the XACK of
\* a skipped message, which is then retried like a failed one.
Guarded == {"skip", "mark", "drop", "process", "save", "complete"}

Raised(w) ==
  /\ worker[w].pc \in Guarded
  /\ worker' = [worker EXCEPT ![w].pc = "failed"]
  /\ UNCHANGED <<queue, pel, idle>>

\* Fault: one retry too many.
AfterFailureLate(m) == IF m.retry <= MaxRetries THEN "retry" ELSE "giveup"
AfterFailure(m)     == IF m.retry < MaxRetries THEN "retry" ELSE "giveup"

Failed(w) == GoOn(w, "failed", AfterFailure(worker[w].msg))

\* The retry's XADD, at step `from` of the handler's retry, then on to the
\* acknowledgement of the failed message.
Readd(w, from) ==
  /\ worker[w].pc = from
  /\ Add(Task(w), worker[w].msg.retry + 1)
  /\ worker' = [worker EXCEPT ![w].pc = "ack"]
  /\ UNCHANGED <<pel, idle>>

\* retry raised: the message is left in the pending list, unacknowledged.
Preserve(w, from) ==
  /\ worker[w].pc \in from
  /\ worker' = [worker EXCEPT ![w].pc = "poll", ![w].msg = NoMessage]
  /\ UNCHANGED <<queue, pel, idle>>

Ack(w) ==
  /\ worker[w].pc \in {"drop", "ack"}
  /\ pel' = pel \ {worker[w].msg}
  /\ idle' = idle \ {worker[w].msg}
  /\ worker' = [worker EXCEPT ![w].pc = "poll", ![w].msg = NoMessage]
  /\ UNCHANGED queue

\* The worker process dies, or an exception outside process_message's try
\* (reading, mark_failed, XACK) ends its TaskGroup and so the process.  A
\* new one starts with nothing in hand.
Crash(w) ==
  /\ worker[w] # IdleWorker
  /\ worker' = [worker EXCEPT ![w] = IdleWorker]
  /\ UNCHANGED <<queue, pel, idle>>

\* Five minutes since an entry was last delivered.
GrowsIdle(m) ==
  /\ m \in pel \ idle
  /\ idle' = idle \cup {m}
  /\ UNCHANGED <<queue, pel, worker>>
=============================================================================

-------------------------- MODULE TaskStream_proofs --------------------------
(***************************************************************************)
(* What the other proofs rest on: lemmas about the steps of TaskStream,    *)
(* for any number of workers, tasks, entry ids, retries and batches, and,  *)
(* at the end, lemmas about natural numbers, finite sets of them and       *)
(* functions defined by recursion.                                         *)
(***************************************************************************)
EXTENDS TaskStream, SequenceTheorems, FiniteSetTheorems, WellFoundedInduction, TLAPS

\* A retry is only on its way for a message that may be retried.
RetriesFit ==
  \A w \in Workers : worker[w].pc \in {"retry", "readd"} => worker[w].msg.retry < MaxRetries

StreamInv == StreamTypeOK /\ RetriesFit

-----------------------------------------------------------------------------
(* The type of the stream                                                  *)

\* XADD keeps the stream a sequence of messages.
LEMMA AddType ==
  ASSUME StreamTypeOK, NEW t \in Tasks, NEW k \in 0 .. MaxRetries, Add(t, k)
  PROVE  queue' \in Seq(Messages)
<1> DEFINE i == CHOOSE j \in FreeIds : TRUE
<1>1. i \in Ids
  BY DEF Add, FreeIds
<1>2. [id |-> i, task |-> t, retry |-> k] \in Messages
  BY <1>1 DEF Messages
<1>3. queue \in Seq(Messages)
  BY DEF StreamTypeOK
<1> QED
  BY <1>2, <1>3, AppendProperties DEF Add

\* The consumer's own steps keep the stream well typed.
LEMMA ReclaimType ==
  ASSUME StreamTypeOK, NEW w \in Workers, Reclaim(w)
  PROVE  StreamTypeOK'
<1>1. PICK batch \in (SUBSET idle) \ {{}} :
        /\ idle' = idle \ batch
        /\ worker' = [worker EXCEPT ![w].hand = batch]
        /\ UNCHANGED <<queue, pel>>
  BY DEF Reclaim
<1>2. batch \subseteq Messages
  BY <1>1 DEF StreamTypeOK
<1> QED
  BY <1>1, <1>2 DEF StreamTypeOK

\* read_batch delivers well-typed entries, whether claimed or new.
LEMMA ReadType ==
  ASSUME StreamTypeOK, NEW w \in Workers, Read(w)
  PROVE  StreamTypeOK'
<1> DEFINE n     == AtMost(Len(queue), Batch)
           batch == {queue[i] : i \in 1 .. n}
<1>1. queue \in Seq(Messages) /\ Len(queue) \in Nat
  BY LenProperties DEF StreamTypeOK
<1>2. n \in 0 .. Len(queue)
  BY <1>1, StreamAssumption DEF AtMost
<1>3. batch \subseteq Messages
  BY <1>1, <1>2
<1>4. SubSeq(queue, n + 1, Len(queue)) \in Seq(Messages)
  BY <1>1, <1>2, SubSeqProperties
<1>5. /\ queue' = SubSeq(queue, n + 1, Len(queue))
      /\ pel' = pel \cup batch
      /\ worker' = [worker EXCEPT ![w].hand = batch]
      /\ UNCHANGED idle
  BY DEF Read, PendingWith
<1> HIDE DEF n, batch
<1> QED
  BY <1>1, <1>3, <1>4, <1>5 DEF StreamTypeOK

\* Taking the next message of the batch keeps the stream well typed.
LEMMA TakeType ==
  ASSUME StreamTypeOK, NEW w \in Workers, Take(w)
  PROVE  StreamTypeOK'
<1>1. PICK m \in worker[w].hand :
        worker' = [worker EXCEPT ![w] =
          [pc |-> "skip", msg |-> m, hand |-> worker[w].hand \ {m}]]
  BY DEF Take
<1>2. m \in Messages
  BY DEF StreamTypeOK
<1> QED
  BY <1>1, <1>2 DEF StreamTypeOK, Take, WorkerSteps

\* So does going from one call of process_message to the next.
LEMMA GoOnType ==
  ASSUME StreamTypeOK, NEW w \in Workers,
         NEW from \in WorkerSteps \ {"poll"}, NEW to \in WorkerSteps,
         GoOn(w, from, to)
  PROVE  StreamTypeOK'
BY DEF StreamTypeOK, GoOn

\* So does an exception of the handler.
LEMMA RaisedType ==
  ASSUME StreamTypeOK, NEW w \in Workers, Raised(w)
  PROVE  StreamTypeOK'
BY DEF StreamTypeOK, Raised, Guarded, WorkerSteps

\* So does adding the message again with one more retry, below MAX_RETRY_COUNT.
LEMMA ReaddType ==
  ASSUME StreamTypeOK, NEW w \in Workers, NEW from \in {"retry", "readd"},
         Readd(w, from), worker[w].msg.retry < MaxRetries
  PROVE  StreamTypeOK'
<1>1. worker[w].msg \in Messages
  BY DEF StreamTypeOK, Readd
<1>2. Task(w) \in Tasks /\ worker[w].msg.retry + 1 \in 0 .. MaxRetries
  BY <1>1, StreamAssumption DEF Messages, Task
<1>3. queue' \in Seq(Messages)
  BY <1>2, AddType DEF Readd
<1> QED
  BY <1>1, <1>3 DEF StreamTypeOK, Readd, WorkerSteps

\* So does leaving the message unacknowledged when a retry itself raises.
LEMMA PreserveType ==
  ASSUME StreamTypeOK, NEW w \in Workers, NEW from,
         Preserve(w, from)
  PROVE  StreamTypeOK'
<1>1. worker' = [worker EXCEPT ![w].pc = "poll", ![w].msg = NoMessage]
      /\ UNCHANGED <<queue, pel, idle>>
  BY DEF Preserve
<1> QED BY <1>1 DEF StreamTypeOK, WorkerSteps

\* So does the acknowledgement.
LEMMA AckType ==
  ASSUME StreamTypeOK, NEW w \in Workers, Ack(w)
  PROVE  StreamTypeOK'
BY DEF StreamTypeOK, Ack, WorkerSteps

\* So does the death of a worker.
LEMMA CrashType ==
  ASSUME StreamTypeOK, NEW w \in Workers, Crash(w)
  PROVE  StreamTypeOK'
BY DEF StreamTypeOK, Crash, IdleWorker, WorkerSteps

\* The message a worker is busy with is about a task.
LEMMA TaskType ==
  ASSUME StreamTypeOK, NEW w \in Workers, worker[w].pc # "poll"
  PROVE  Task(w) \in Tasks
BY DEF StreamTypeOK, Task, Messages

-----------------------------------------------------------------------------
(* StreamInv                                                               *)

\* The stream invariant holds of the empty stream and idle workers.
LEMMA StreamStarts == StreamInit => StreamInv
BY DEF StreamInit, IdleWorker, StreamInv, StreamTypeOK, RetriesFit, WorkerSteps

\* A step that leaves the stream alone keeps its invariant.
LEMMA StreamStays == StreamInv /\ UNCHANGED stream => StreamInv'
BY DEF StreamInv, StreamTypeOK, RetriesFit, stream

\* A producer's XADD.
LEMMA StreamAdds ==
  ASSUME StreamInv, NEW t \in Tasks, Add(t, 0), UNCHANGED <<pel, idle, worker>>
  PROVE  StreamInv'
<1>1. queue' \in Seq(Messages)
  BY AddType, StreamAssumption DEF StreamInv
<1> QED BY <1>1 DEF StreamInv, StreamTypeOK, RetriesFit

\* The consumer reads, takes and acknowledges.
LEMMA StreamConsumes ==
  ASSUME StreamInv, NEW w \in Workers, Reclaim(w) \/ Read(w) \/ Take(w) \/ Ack(w)
  PROVE  StreamInv'
<1>1. StreamTypeOK'
  BY ReclaimType, ReadType, TakeType, AckType DEF StreamInv
<1>2. CASE Reclaim(w)
  BY <1>1, <1>2 DEF Reclaim, StreamInv, StreamTypeOK, RetriesFit
<1>3. CASE Read(w)
  BY <1>1, <1>3 DEF Read, StreamInv, StreamTypeOK, RetriesFit
<1>4. CASE Take(w)
  BY <1>1, <1>4 DEF Take, StreamInv, StreamTypeOK, RetriesFit
<1>5. CASE Ack(w)
  BY <1>1, <1>5 DEF Ack, StreamInv, StreamTypeOK, RetriesFit
<1> QED BY <1>1, <1>2, <1>3, <1>4, <1>5 DEF StreamInv

\* A call of the handler returns; a retry goes on to its XADD at most.
LEMMA StreamGoesOn ==
  ASSUME StreamInv, NEW w \in Workers,
         NEW from \in WorkerSteps \ {"poll"}, NEW to \in WorkerSteps, GoOn(w, from, to),
         to \in {"retry", "readd"} => from = "retry"
  PROVE  StreamInv'
BY GoOnType DEF GoOn, StreamInv, StreamTypeOK, RetriesFit

\* A failing call of the handler, caught or not, keeps it.
LEMMA StreamFails ==
  ASSUME StreamInv, NEW w \in Workers, Raised(w) \/ Failed(w)
  PROVE  StreamInv'
<1>1. CASE Raised(w)
  BY <1>1, RaisedType DEF Raised, StreamInv, StreamTypeOK, RetriesFit
<1>2. CASE Failed(w)
  <2>1. GoOn(w, "failed", AfterFailure(worker[w].msg)) /\ AfterFailure(worker[w].msg) \in WorkerSteps
    BY <1>2 DEF Failed, AfterFailure, WorkerSteps
  <2>2. StreamTypeOK'
    BY <2>1, GoOnType DEF StreamInv, WorkerSteps
  <2> QED BY <2>1, <2>2 DEF GoOn, AfterFailure, StreamInv, StreamTypeOK, RetriesFit
<1> QED BY <1>1, <1>2

\* The retry's XADD, whether or not its reply was received.
LEMMA StreamRetries ==
  ASSUME StreamInv, NEW w \in Workers, NEW to \in {"ack", "unqueued"},
         worker[w].pc \in {"retry", "readd"},
         Add(Task(w), worker[w].msg.retry + 1),
         worker' = [worker EXCEPT ![w].pc = to],
         UNCHANGED <<pel, idle>>
  PROVE  StreamInv'
<1>1. worker[w].msg \in Messages /\ worker[w].msg.retry < MaxRetries
  BY DEF StreamInv, StreamTypeOK, RetriesFit
<1>2. Task(w) \in Tasks /\ worker[w].msg.retry + 1 \in 0 .. MaxRetries
  BY <1>1, StreamAssumption DEF Messages, Task
<1>3. queue' \in Seq(Messages)
  BY <1>2, AddType DEF StreamInv
<1> QED BY <1>1, <1>3 DEF StreamInv, StreamTypeOK, RetriesFit, WorkerSteps

\* The message is left pending, or the worker dies.
LEMMA StreamLets ==
  ASSUME StreamInv, NEW w \in Workers, NEW from,
         Preserve(w, from) \/ Crash(w)
  PROVE  StreamInv'
<1>1. CASE Preserve(w, from)
  <2>1. StreamTypeOK'
    BY <1>1, PreserveType DEF StreamInv
  <2>2. worker' = [worker EXCEPT ![w].pc = "poll", ![w].msg = NoMessage]
    BY <1>1 DEF Preserve
  <2> QED BY <2>1, <2>2 DEF StreamInv, StreamTypeOK, RetriesFit
<1>2. CASE Crash(w)
  BY <1>2, CrashType DEF Crash, IdleWorker, StreamInv, StreamTypeOK, RetriesFit
<1> QED BY <1>1, <1>2

\* An entry that grows idle keeps it.
LEMMA StreamGrowsIdle ==
  ASSUME StreamInv, NEW m \in Messages, GrowsIdle(m)
  PROVE  StreamInv'
BY DEF GrowsIdle, StreamInv, StreamTypeOK, RetriesFit

\* What a step of one worker leaves alone.
LEMMA OthersStay ==
  ASSUME StreamTypeOK, NEW w \in Workers, NEW v \in Workers, v # w,
         \E x : worker' = [worker EXCEPT ![w] = x]
  PROVE  worker'[v] = worker[v]
BY DEF StreamTypeOK

-----------------------------------------------------------------------------
(* What the stream carries                                                 *)

\* The tasks of the messages in the stream and with its workers.
Carried ==
  {m.task : m \in Entries \cup UNION {worker[w].hand : w \in Workers}}
    \cup {Task(w) : w \in {v \in Workers : worker[v].pc # "poll"}}

\* The moves of a worker that put no message into the stream.
WorkerMoves(w) ==
  \/ Reclaim(w) \/ Read(w) \/ Take(w) \/ Ack(w) \/ Failed(w) \/ Raised(w) \/ Crash(w)
  \/ \E from \in SUBSET WorkerSteps : Preserve(w, from)
  \/ \E from \in WorkerSteps \ {"poll"}, to \in WorkerSteps : GoOn(w, from, to)

\* An XADD puts its task into the stream and nothing else; the worker that
\* retries keeps its message.
LEMMA AddCarries ==
  ASSUME StreamTypeOK, NEW t, NEW k, Add(t, k), UNCHANGED pel,
         \A v \in Workers : worker'[v].msg = worker[v].msg /\ worker'[v].hand = worker[v].hand,
         \A v \in Workers : worker'[v].pc # "poll" => worker[v].pc # "poll"
  PROVE  Carried' \subseteq Carried \cup {t}
<1> DEFINE m == [id |-> CHOOSE i \in FreeIds : TRUE, task |-> t, retry |-> k]
<1>1. queue' = Append(queue, m)
  BY DEF Add
<1>2. m.task = t
  OBVIOUS
<1> HIDE DEF m
<1>3. Queued' \subseteq Queued \cup {m}
  BY <1>1 DEF Queued, StreamTypeOK
<1>4. Entries' \subseteq Entries \cup {m}
  BY <1>3 DEF Entries
<1> SUFFICES ASSUME NEW u \in Carried' PROVE u \in Carried \cup {t}
  OBVIOUS
<1>5. CASE \E x \in Entries' : u = x.task
  BY <1>2, <1>4, <1>5 DEF Carried
<1>6. CASE \E v \in Workers : \E x \in worker'[v].hand : u = x.task
  BY <1>6 DEF Carried
<1>7. CASE \E v \in Workers : worker'[v].pc # "poll" /\ u = worker'[v].msg.task
  BY <1>7 DEF Carried, Task
<1> QED BY <1>5, <1>6, <1>7 DEF Carried, Task

\* What a worker reads, takes, gives up or acknowledges was carried before.
LEMMA WorkerMovesCarry ==
  ASSUME StreamTypeOK, NEW w \in Workers, WorkerMoves(w)
  PROVE  Carried' \subseteq Carried
<1>1. ASSUME Entries' \subseteq Entries,
             \A v \in Workers : worker'[v].hand \subseteq worker[v].hand \cup Entries,
             \A v \in Workers : worker'[v].pc # "poll" =>
               \/ worker[v].pc # "poll" /\ worker'[v].msg = worker[v].msg
               \/ worker'[v].msg \in worker[v].hand
      PROVE  Carried' \subseteq Carried
  <2> SUFFICES ASSUME NEW u \in Carried' PROVE u \in Carried
    OBVIOUS
  <2>1. CASE \E x \in Entries' : u = x.task
    BY <1>1, <2>1 DEF Carried
  <2>2. CASE \E v \in Workers : \E x \in worker'[v].hand : u = x.task
    BY <1>1, <2>2 DEF Carried
  <2>3. CASE \E v \in Workers : worker'[v].pc # "poll" /\ u = worker'[v].msg.task
    BY <1>1, <2>3 DEF Carried, Task
  <2> QED BY <2>1, <2>2, <2>3 DEF Carried, Task
<1>2. /\ worker \in [Workers -> [pc: WorkerSteps, msg: Messages \cup {NoMessage},
                                 hand: SUBSET Messages]]
      /\ queue \in Seq(Messages) /\ idle \subseteq pel
  BY DEF StreamTypeOK
<1>3. CASE Reclaim(w)
  <2>1. PICK batch \in SUBSET idle : worker' = [worker EXCEPT ![w].hand = batch]
    BY <1>3 DEF Reclaim
  <2>2. Entries' = Entries
    BY <1>3 DEF Reclaim, Entries, Queued
  <2> QED BY <1>1, <1>2, <2>1, <2>2 DEF Entries
<1>4. CASE Read(w)
  <2> DEFINE n     == AtMost(Len(queue), Batch)
             batch == {queue[i] : i \in 1 .. n}
  <2>1. Len(queue) \in Nat /\ n \in 0 .. Len(queue)
    BY <1>2, LenProperties, StreamAssumption DEF AtMost
  <2>2. batch \subseteq Queued
    BY <2>1 DEF Queued
  <2>3. /\ queue' = SubSeq(queue, n + 1, Len(queue))
        /\ pel' = pel \cup batch
        /\ worker' = [worker EXCEPT ![w].hand = batch]
    BY <1>4 DEF Read, PendingWith
  <2> HIDE DEF batch
  <2>4. Queued' \subseteq Queued
    <3> SUFFICES ASSUME NEW i \in 1 .. Len(queue') PROVE queue'[i] \in Queued
      BY DEF Queued
    <3>1. Len(queue') = Len(queue) - n /\ n + i \in 1 .. Len(queue)
      BY <1>2, <2>1, <2>3, SubSeqProperties
    <3>2. queue'[i] = queue[n + i]
      BY <1>2, <2>1, <2>3, <3>1, SubSeqProperties
    <3> QED BY <3>1, <3>2 DEF Queued
  <2>5. Entries' \subseteq Entries
    BY <2>2, <2>3, <2>4 DEF Entries
  <2> QED BY <1>1, <1>2, <2>2, <2>3, <2>5 DEF Entries
<1>5. CASE Take(w)
  <2>1. PICK m \in worker[w].hand :
          worker' = [worker EXCEPT ![w] =
            [pc |-> "skip", msg |-> m, hand |-> worker[w].hand \ {m}]]
    BY <1>5 DEF Take
  <2>2. Entries' = Entries
    BY <1>5 DEF Take, Entries, Queued
  <2> QED BY <1>1, <1>2, <2>1, <2>2
<1>6. CASE Ack(w)
  <2>1. Entries' \subseteq Entries
    BY <1>6 DEF Ack, Entries, Queued
  <2> QED BY <1>1, <1>2, <1>6, <2>1 DEF Ack
<1>7. CASE Failed(w) \/ Raised(w) \/ Crash(w)
  <2>1. Entries' = Entries
    BY <1>7 DEF Failed, GoOn, Raised, Crash, Entries, Queued
  <2> QED BY <1>1, <1>2, <1>7, <2>1 DEF Failed, GoOn, Raised, Guarded, Crash, IdleWorker
<1>8. CASE \E from \in SUBSET WorkerSteps : Preserve(w, from)
  <2>1. Entries' = Entries
    BY <1>8 DEF Preserve, Entries, Queued
  <2> QED BY <1>1, <1>2, <1>8, <2>1 DEF Preserve
<1>9. CASE \E from \in WorkerSteps \ {"poll"}, to \in WorkerSteps : GoOn(w, from, to)
  <2>1. Entries' = Entries
    BY <1>9 DEF GoOn, Entries, Queued
  <2> QED BY <1>1, <1>2, <1>9, <2>1 DEF GoOn
<1> QED BY <1>3, <1>4, <1>5, <1>6, <1>7, <1>8, <1>9 DEF WorkerMoves

-----------------------------------------------------------------------------
(* A single worker                                                         *)

\* What the worker holds is pending, and so is the message it is at.
HoldsPending(w) ==
  /\ worker[w].hand \subseteq pel
  /\ worker[w].pc # "poll" => worker[w].msg \in pel \ worker[w].hand

\* An entry of the task will still be there after the acknowledgement that
\* the worker may be about to make.
KeptFor(w, t) ==
  \E m \in Entries :
    m.task = t /\ ~(worker[w].pc \in {"drop", "ack"} /\ m = worker[w].msg)

\* Before its end the message a worker is at keeps its task in the stream.
LEMMA HeldIsKept ==
  ASSUME NEW w \in Workers, HoldsPending(w), worker[w].pc \notin {"poll", "drop", "ack"}
  PROVE  KeptFor(w, Task(w))
BY DEF HoldsPending, KeptFor, Entries, Task

\* Of a task kept for, the stream owes an entry.
LEMMA KeptIsOwed ==
  ASSUME NEW w, NEW t, KeptFor(w, t)
  PROVE  Owed(t) # {}
BY DEF KeptFor, Owed

\* What others do to the stream: entries are added, and none is removed.
LEMMA QuietKeeps ==
  ASSUME StreamTypeOK, NEW w \in Workers, HoldsPending(w), NEW t,
         UNCHANGED <<pel, worker>>,
         UNCHANGED queue \/ \E u, k : Add(u, k)
  PROVE  HoldsPending(w)' /\ (KeptFor(w, t) => KeptFor(w, t)')
<1>1. UNCHANGED queue \/ \E x : queue' = Append(queue, x)
  BY DEF Add
<1>2. Queued \subseteq Queued'
  BY <1>1 DEF StreamTypeOK, Queued
<1> QED BY <1>2 DEF HoldsPending, KeptFor, Entries

\* The worker's own moves that are no call of the handler.
LEMMA ConsumerKeeps ==
  ASSUME StreamTypeOK, NEW w \in Workers, HoldsPending(w), NEW t,
         \/ Reclaim(w) \/ Read(w) \/ Take(w) \/ Ack(w) \/ Failed(w) \/ Raised(w) \/ Crash(w)
         \/ \E from \in SUBSET (WorkerSteps \ {"drop", "ack"}) : Preserve(w, from)
  PROVE  HoldsPending(w)' /\ (KeptFor(w, t) => KeptFor(w, t)')
<1>1. /\ worker \in [Workers -> [pc: WorkerSteps, msg: Messages \cup {NoMessage},
                                 hand: SUBSET Messages]]
      /\ queue \in Seq(Messages) /\ idle \subseteq pel
  BY DEF StreamTypeOK
<1>2. CASE Reclaim(w)
  <2>1. PICK batch \in SUBSET idle : worker' = [worker EXCEPT ![w].hand = batch]
    BY <1>2 DEF Reclaim
  <2> QED BY <1>1, <1>2, <2>1 DEF Reclaim, HoldsPending, KeptFor, Entries, Queued
<1>3. CASE Read(w)
  <2> DEFINE n     == AtMost(Len(queue), Batch)
             batch == {queue[i] : i \in 1 .. n}
  <2>1. Len(queue) \in Nat /\ n \in 0 .. Len(queue)
    BY <1>1, LenProperties, StreamAssumption DEF AtMost
  <2>2. /\ queue' = SubSeq(queue, n + 1, Len(queue))
        /\ pel' = pel \cup batch
        /\ worker' = [worker EXCEPT ![w].hand = batch]
        /\ worker[w].pc = "poll"
    BY <1>3 DEF Read, PendingWith
  <2>3. Queued \subseteq Queued' \cup batch
    <3> SUFFICES ASSUME NEW i \in 1 .. Len(queue), queue[i] \notin batch
                 PROVE  queue[i] \in Queued'
      BY DEF Queued
    <3>1. i \notin 1 .. n
      OBVIOUS
    <3>2. i \in n + 1 .. Len(queue)
      BY <2>1, <3>1
    <3>3. Len(queue') = Len(queue) - n /\ i - n \in 1 .. Len(queue) - n
      BY <1>1, <2>1, <2>2, <3>2, SubSeqProperties
    <3>4. queue'[i - n] = queue[i]
      BY <1>1, <2>1, <2>2, <3>2, <3>3, SubSeqProperties
    <3> QED BY <3>3, <3>4 DEF Queued
  <2> HIDE DEF batch
  <2>4. Entries \subseteq Entries'
    BY <2>2, <2>3 DEF Entries
  <2>5. worker'[w].pc = "poll" /\ worker'[w].hand = batch
    BY <1>1, <2>2
  <2> QED BY <2>2, <2>4, <2>5 DEF HoldsPending, KeptFor
<1>4. CASE Take(w)
  <2>1. PICK m \in worker[w].hand :
          worker' = [worker EXCEPT ![w] =
            [pc |-> "skip", msg |-> m, hand |-> worker[w].hand \ {m}]]
    BY <1>4 DEF Take
  <2> QED BY <1>1, <1>4, <2>1 DEF Take, HoldsPending, KeptFor, Entries, Queued
<1>5. CASE Ack(w)
  <2>1. /\ worker'[w].pc = "poll" /\ worker'[w].hand = worker[w].hand
        /\ worker[w].msg \notin worker[w].hand
    BY <1>1, <1>5 DEF Ack, HoldsPending
  <2>2. queue' = queue /\ pel' = pel \ {worker[w].msg} /\ worker[w].pc \in {"drop", "ack"}
    BY <1>5 DEF Ack
  <2>3. HoldsPending(w)'
    BY <2>1, <2>2 DEF HoldsPending
  <2>4. ASSUME KeptFor(w, t) PROVE KeptFor(w, t)'
    <3>1. PICK m \in Entries : m.task = t /\ m # worker[w].msg
      BY <2>2, <2>4 DEF KeptFor
    <3>2. m \in Entries'
      BY <2>2, <3>1 DEF Entries, Queued
    <3> QED BY <2>1, <3>1, <3>2 DEF KeptFor
  <2> QED BY <2>3, <2>4
<1>6. CASE Failed(w) \/ Raised(w)
  <2>1. /\ worker'[w].pc \in {"failed", "retry", "giveup"}
        /\ worker'[w].msg = worker[w].msg
        /\ worker'[w].hand = worker[w].hand
        /\ worker[w].pc # "poll"
        /\ UNCHANGED <<queue, pel>>
    BY <1>1, <1>6 DEF Failed, Raised, GoOn, AfterFailure, Guarded
  <2> QED BY <2>1 DEF HoldsPending, KeptFor, Entries, Queued
<1>7. CASE Crash(w) \/ \E from \in SUBSET (WorkerSteps \ {"drop", "ack"}) : Preserve(w, from)
  <2>1. /\ worker'[w].pc = "poll"
        /\ worker'[w].hand \subseteq worker[w].hand
        /\ UNCHANGED <<queue, pel>>
    BY <1>1, <1>7 DEF Preserve, Crash, IdleWorker
  <2> QED BY <2>1 DEF HoldsPending, KeptFor, Entries, Queued
<1> QED BY <1>2, <1>3, <1>4, <1>5, <1>6, <1>7

\* A call of the handler: only the end of a message leaves its own task to
\* the other entries.
LEMMA GoOnKeeps ==
  ASSUME StreamTypeOK, NEW w \in Workers, HoldsPending(w), NEW t,
         NEW from \in WorkerSteps \ {"poll", "drop", "ack"}, NEW to \in WorkerSteps \ {"poll"},
         GoOn(w, from, to)
  PROVE  /\ HoldsPending(w)'
         /\ to \notin {"drop", "ack"} => KeptFor(w, Task(w))'
         /\ KeptFor(w, t) /\ (t # Task(w) \/ to \notin {"drop", "ack"}) => KeptFor(w, t)'
<1>1. /\ worker'[w].pc = to /\ worker[w].pc = from
      /\ worker'[w].msg = worker[w].msg
      /\ worker'[w].hand = worker[w].hand
      /\ UNCHANGED <<queue, pel>>
  BY DEF StreamTypeOK, GoOn
<1> QED BY <1>1 DEF HoldsPending, KeptFor, Entries, Queued, Task

\* A retry: the new entry is another one than the worker's.
LEMMA RetryKeeps ==
  ASSUME StreamTypeOK, NEW w \in Workers, HoldsPending(w), NEW t,
         NEW to \in WorkerSteps \ {"poll"}, NEW k,
         worker[w].pc \notin {"poll", "drop", "ack"},
         Add(Task(w), k),
         worker' = [worker EXCEPT ![w].pc = to],
         UNCHANGED pel
  PROVE  HoldsPending(w)' /\ (KeptFor(w, t) => KeptFor(w, t)')
<1> DEFINE i == CHOOSE j \in FreeIds : TRUE
           m == [id |-> i, task |-> Task(w), retry |-> k]
<1>1. i \in FreeIds /\ queue' = Append(queue, m)
  BY DEF Add
<1>2. i # worker[w].msg.id
  BY <1>1 DEF FreeIds, InUse
<1>3. m # worker[w].msg /\ m.task = Task(w)
  BY <1>2
<1> HIDE DEF i, m
<1>4. Queued' = Queued \cup {m}
  BY <1>1 DEF Queued, StreamTypeOK
<1>5. /\ worker'[w].pc = to
      /\ worker'[w].msg = worker[w].msg
      /\ worker'[w].hand = worker[w].hand
  BY DEF StreamTypeOK
<1>6. HoldsPending(w)'
  BY <1>5 DEF HoldsPending
<1>7. ASSUME KeptFor(w, t) PROVE KeptFor(w, t)'
  <2>1. CASE t = Task(w)
    BY <1>3, <1>4, <1>5, <2>1 DEF KeptFor, Entries
  <2>2. CASE t # Task(w)
    BY <1>4, <1>5, <1>7, <2>2 DEF KeptFor, Entries, Task
  <2> QED BY <2>1, <2>2
<1> QED BY <1>6, <1>7

-----------------------------------------------------------------------------
(* Numbers and recursion.  The induction these need is had from the        *)
(* smallest counterexample, a set instead of a predicate.                  *)

\* A nonempty set of natural numbers has a smallest member.
LEMMA Smallest == ASSUME NEW S \in SUBSET Nat, S # {} PROVE \E x \in S : \A y \in S : x =< y
<1>1. \E x \in S : \A y \in S : ~(<<y, x>> \in OpToRel(<, Nat))
  BY WFMin, NatLessThanWellFounded
<1>2. PICK x \in S : \A y \in S : ~(<<y, x>> \in OpToRel(<, Nat))
  BY <1>1
<1>3. \A y \in S : x =< y
  <2> TAKE y \in S
  <2>1. y \in Nat /\ x \in Nat /\ <<y, x>> \in Nat \X Nat
    OBVIOUS
  <2>2. ~(y < x)
    BY <1>2, <2>1 DEF OpToRel
  <2> QED BY <2>1, <2>2
<1> QED BY <1>3

\* A nonempty set of numbers up to n has a greatest member.
LEMMA Greatest ==
  ASSUME NEW n \in Nat, NEW S \in SUBSET (0 .. n), S # {}
  PROVE  \E x \in S : \A y \in S : y =< x
<1>1. PICK z \in {n - v : v \in S} : \A y \in {n - v : v \in S} : z =< y
  <2>1. {n - v : v \in S} \in SUBSET Nat
    BY SMT
  <2>2. {n - v : v \in S} # {}
    BY Zenon
  <2> QED BY <2>1, <2>2, Smallest
<1>2. PICK x \in S : z = n - x
  BY <1>1
<1>3. \A y \in S : y =< x
  BY <1>1, <1>2
<1> QED BY <1>3

\* What holds of 0, and of every number up to n after one of which it holds,
\* holds of all of them.
LEMMA Induction ==
  ASSUME NEW n \in Nat, NEW K, 0 \in K, \A i \in 1 .. n : i - 1 \in K => i \in K
  PROVE  \A i \in 0 .. n : i \in K
<1> SUFFICES ASSUME (0 .. n) \ K # {} PROVE FALSE
  OBVIOUS
<1>1. PICK x \in (0 .. n) \ K : \A y \in (0 .. n) \ K : x =< y
  <2>1. (0 .. n) \ K \in SUBSET Nat
    OBVIOUS
  <2> QED BY <2>1, Smallest
<1>2. x # 0 /\ x - 1 \in 0 .. n /\ x - 1 < x
  BY <1>1
<1>3. x - 1 \in K
  BY <1>1, <1>2
<1> QED BY <1>1, <1>2, <1>3

\* The values of a recursive function, up to n.
Unfolds(f, n, S, b, step) ==
  f \in [0 .. n -> S] /\ f[0] = b /\ \A i \in 1 .. n : f[i] = step[<<i, f[i - 1]>>]

\* A function on 0 .. n may be defined by its first value and a step.
LEMMA Recursion ==
  ASSUME NEW S, NEW b \in S, NEW n \in Nat, NEW step \in [(1 .. n) \X S -> S]
  PROVE  \E f : Unfolds(f, n, S, b, step)
<1> DEFINE K == {m \in 0 .. n :

              \E f \in [0 .. m -> S] : f[0] = b /\ \A i \in 1 .. m : f[i] = step[<<i, f[i - 1]>>]}
<1>1. 0 \in K
  <2> DEFINE f == [i \in 0 .. 0 |-> b]
  <2>1. f \in [0 .. 0 -> S] /\ f[0] = b
    OBVIOUS
  <2>2. 1 .. 0 = {} /\ 0 \in 0 .. n
    OBVIOUS
  <2> HIDE DEF f
  <2> QED BY <2>1, <2>2
<1>2. ASSUME NEW m \in 1 .. n, m - 1 \in K PROVE m \in K
  <2>1. PICK f \in [0 .. m - 1 -> S] : f[0] = b /\ \A i \in 1 .. m - 1 : f[i] = step[<<i, f[i - 1]>>]
    BY <1>2
  <2> DEFINE g == [i \in 0 .. m |-> IF i < m THEN f[i] ELSE step[<<m, f[m - 1]>>]]
  <2>2. g \in [0 .. m -> S]
    <3>1. <<m, f[m - 1]>> \in (1 .. n) \X S
      OBVIOUS
    <3>2. step[<<m, f[m - 1]>>] \in S
      BY <3>1
    <3> QED BY <3>2
  <2>3. g[0] = b
    BY <2>1
  <2>4. ASSUME NEW i \in 1 .. m PROVE g[i] = step[<<i, g[i - 1]>>]
    <3>1. CASE i < m
      <4>1. i \in 1 .. m - 1 /\ i \in 0 .. m /\ i - 1 \in 0 .. m /\ i - 1 < m
        BY <3>1
      <4>2. g[i] = f[i] /\ g[i - 1] = f[i - 1]
        BY <3>1, <4>1
      <4> HIDE DEF g
      <4> QED BY <2>1, <4>1, <4>2
    <3>2. CASE i = m
      <4>1. i \in 0 .. m /\ i - 1 \in 0 .. m /\ i - 1 < m /\ ~(i < m)
        BY <3>2
      <4>2. g[i] = step[<<m, f[m - 1]>>] /\ g[i - 1] = f[i - 1]
        BY <3>2, <4>1
      <4> HIDE DEF g
      <4> QED BY <3>2, <4>2
    <3>3. i < m \/ i = m
      OBVIOUS
    <3> QED BY <3>1, <3>2, <3>3
  <2> HIDE DEF g
  <2> QED BY <2>2, <2>3, <2>4
<1>3. \A i \in 0 .. n : i \in K
  <2> HIDE DEF K
  <2> QED BY <1>1, <1>2, Induction
<1> QED BY <1>3 DEF Unfolds

\* Two functions begin alike and go on alike.
Alike(f, g, n) ==
  /\ f = [i \in 0 .. n |-> f[i]] /\ g = [i \in 0 .. n |-> g[i]]
  /\ f[0] = g[0] /\ \A i \in 1 .. n : f[i - 1] = g[i - 1] => f[i] = g[i]

\* Then they are one.
LEMMA SameRecursion ==
  ASSUME NEW n \in Nat, NEW f, NEW g, Alike(f, g, n)
  PROVE  f = g
<1> DEFINE K == {j \in 0 .. n : f[j] = g[j]}
<1>0. 0 \in 0 .. n /\ \A i \in 1 .. n : i \in 0 .. n
  BY ONLY n \in Nat
<1>1. 0 \in K /\ \A i \in 1 .. n : i - 1 \in K => i \in K
  BY <1>0, Zenon DEF Alike
<1>2. \A i \in 0 .. n : i \in K
  <2> HIDE DEF K
  <2> QED BY <1>1, Induction
<1>3. \A i \in 0 .. n : f[i] = g[i]
  BY <1>2
<1> QED BY <1>3 DEF Alike


-----------------------------------------------------------------------------
(* Finite sets of numbers in their order                                   *)

\* A set of numbers in its order.
Orders(s, K) == s \in [1 .. Cardinality(K) -> K] /\ \A j, k \in 1 .. Cardinality(K) : j < k => s[j] < s[k]

\* The smallest number goes before the rest in their order.
LEMMA OrderGrows ==
  ASSUME NEW K \in SUBSET Nat, IsFiniteSet(K), NEW x \in K, \A y \in K : x =< y,
         NEW s, Orders(s, K \ {x})
  PROVE  \E t : Orders(t, K)
<1> DEFINE n == Cardinality(K)
           m == Cardinality(K \ {x})
           t == [i \in 1 .. n |-> IF i = 1 THEN x ELSE s[i - 1]]
<1>1. n \in Nat /\ m \in Nat /\ n = m + 1
  <2>1. IsFiniteSet(K \ {x}) /\ m = n - 1
    BY FS_RemoveElement
  <2>2. n \in Nat /\ m \in Nat
    BY <2>1, FS_CardinalityType
  <2> HIDE DEF n, m
  <2> QED BY <2>1, <2>2
<1>2. \A i \in 1 .. m : s[i] \in K /\ x < s[i]
  <2> TAKE i \in 1 .. m
  <2>1. s[i] \in K \ {x}
    BY DEF Orders
  <2>2. s[i] \in Nat /\ x \in Nat /\ s[i] # x /\ x =< s[i]
    BY <2>1
  <2> QED BY <2>1, <2>2
<1>3. \A j, k \in 1 .. m : j < k => s[j] < s[k]
  BY DEF Orders
<1> HIDE DEF n, m
<1>4. t \in [1 .. n -> K]
  BY <1>1, <1>2
<1>5. ASSUME NEW j \in 1 .. n, NEW k \in 1 .. n, j < k PROVE t[j] < t[k]
  <2>1. k # 1 /\ t[k] = s[k - 1] /\ k - 1 \in 1 .. m
    BY <1>1, <1>5
  <2>2. CASE j = 1
    BY <1>2, <2>1, <2>2
  <2>3. CASE j # 1
    <3>1. t[j] = s[j - 1] /\ j - 1 \in 1 .. m /\ j - 1 < k - 1
      BY <1>1, <1>5, <2>3
    <3> QED BY <1>3, <2>1, <3>1
  <2> QED BY <2>2, <2>3
<1>6. Orders(t, K)
  BY <1>4, <1>5 DEF Orders, n
<1> QED BY <1>6

\* A finite set of numbers can be put in order.
LEMMA OrderExists == ASSUME NEW K \in SUBSET Nat, IsFiniteSet(K) PROVE \E s : Orders(s, K)
<1> DEFINE Unordered == {n \in Nat : \E L \in SUBSET Nat : /\ IsFiniteSet(L) /\ Cardinality(L) = n
                                                          /\ \A s : ~Orders(s, L)}
<1>1. CASE Unordered = {}
  <2>1. Cardinality(K) \in Nat
    BY FS_CardinalityType
  <2> QED BY <1>1, <2>1
<1>2. CASE Unordered # {}
  <2>1. PICK n \in Unordered : \A k \in Unordered : n =< k
    <3>1. Unordered \in SUBSET Nat
      OBVIOUS
    <3> HIDE DEF Unordered
    <3> QED BY <1>2, <3>1, Smallest
  <2>2. PICK L \in SUBSET Nat : /\ IsFiniteSet(L) /\ Cardinality(L) = n
                                /\ \A s : ~Orders(s, L)
    OBVIOUS
  <2>3. CASE L = {}
    <3>1. Cardinality({}) = 0
      BY FS_EmptySet
    <3>2. Orders([i \in 1 .. 0 |-> i], {})
      BY <3>1 DEF Orders
    <3> QED BY <2>2, <2>3, <3>2
  <2>4. CASE L # {}
    <3>1. PICK x \in L : \A y \in L : x =< y
      BY <2>4, Smallest
    <3>2. IsFiniteSet(L \ {x}) /\ Cardinality(L \ {x}) = n - 1 /\ n \in Nat
      BY <2>2, FS_RemoveElement
    <3>3. Cardinality(L \ {x}) \in Nat /\ Cardinality(L \ {x}) < n
      BY <3>2, FS_CardinalityType
    <3>4. Cardinality(L \ {x}) \notin Unordered
      BY <2>1, <3>3
    <3>5. PICK s : Orders(s, L \ {x})
      BY <3>2, <3>3, <3>4
    <3>6. \E t : Orders(t, L)
      BY <2>2, <3>1, <3>5, OrderGrows
    <3> QED BY <2>2, <3>6
  <2> QED BY <2>3, <2>4
<1> QED BY <1>1, <1>2

\* It has every member, at one place.
LEMMA OrderHasAll ==
  ASSUME NEW K \in SUBSET Nat, IsFiniteSet(K), NEW s, Orders(s, K)
  PROVE  /\ Cardinality(K) \in Nat
         /\ \A x \in K : \E k \in 1 .. Cardinality(K) : s[k] = x
<1>1. Cardinality(K) \in Nat
  BY FS_CardinalityType
<1>2. \A j, k \in 1 .. Cardinality(K) : s[j] = s[k] => j = k
  <2> TAKE j, k \in 1 .. Cardinality(K)
  <2>1. s[j] \in Nat /\ s[k] \in Nat
    BY DEF Orders
  <2>2. j < k \/ k < j \/ j = k
    BY <1>1
  <2> QED BY <2>1, <2>2 DEF Orders
<1>3. {s[k] : k \in 1 .. Cardinality(K)} = K
  <2> DEFINE R == {s[k] : k \in 1 .. Cardinality(K)}
  <2>1. R \subseteq K
    BY DEF Orders
  <2>2. s \in [1 .. Cardinality(K) -> R]
    BY DEF Orders
  <2>3. s \in Bijection(1 .. Cardinality(K), R)
    <3>1. \A t \in R : \E k \in 1 .. Cardinality(K) : s[k] = t
      OBVIOUS
    <3>2. IsInjective(s)
      <4> HIDE DEF R
      <4> QED BY <1>2, <2>2 DEF IsInjective
    <3> HIDE DEF R
    <3> QED BY <2>2, <3>1, <3>2 DEF Bijection, Injection, Surjection
  <2>4. IsFiniteSet(R) /\ Cardinality(R) = Cardinality(K)
    <3>1. ExistsBijection(1 .. Cardinality(K), R)
      BY <2>3 DEF ExistsBijection
    <3>2. Cardinality(R) = Cardinality(K)
      BY <1>1, <3>1, FS_CountingElements
    <3>3. IsFiniteSet(R)
      BY <2>1, FS_Subset
    <3> QED BY <3>2, <3>3
  <2> QED BY <2>1, <2>4, FS_Subset
<1> QED BY <1>1, <1>3
=============================================================================

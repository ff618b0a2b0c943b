--------------------------- MODULE InterviewTurn ---------------------------
(***************************************************************************)
(* The turn state machine of an adaptive interview: the rows of            *)
(* interview_sessions, interview_questions and interview_turns, the API    *)
(* calls that move a session along its questions (submit_turn, complete,   *)
(* delete) and the scheduler job that recovers what they leave behind.     *)
(*                                                                         *)
(* Every database transaction of InterviewRepository locks the session row *)
(* (SELECT ... FOR UPDATE) and is one atomic step.  What happens between   *)
(* two transactions of the same call -- the decision model, the wait for a *)
(* concurrent duplicate, the XADD to Redis -- is where calls interleave.   *)
(***************************************************************************)
EXTENDS Naturals, FiniteSets

CONSTANTS Sessions,      \* interview sessions
          Calls,         \* API requests the processes can be serving at once
          Scheduler,     \* the adaptive-interview-recovery job
          Requests,      \* client-chosen requestIds
          Answers,       \* answers, up to equality of their hashes
          NMains,        \* planned main questions of a session
          MaxFollowUps,  \* max_follow_ups_per_main
          MaxFaults,     \* crashes, failed XADDs and lost cache entries in a behaviour
          CallKinds,     \* which API operations clients use
          None           \* SQL NULL, no value

ASSUME ConstantsAssumption ==
  /\ NMains \in Nat \ {0}
  /\ MaxFollowUps \in Nat
  /\ MaxFaults \in Nat
  /\ Scheduler \notin Calls

\* A question is <<main_order, follow_up_order>>: unique in its session.
Mains     == 0 .. (NMains - 1)
Questions == Mains \X (0 .. MaxFollowUps)
Procs     == Calls \cup {Scheduler}

ASSUME NoneAssumption ==
  /\ None \notin Questions
  /\ None \notin Requests
  /\ None \notin Answers
  /\ None \notin Sessions
  /\ None \notin {"FOLLOW_UP", "NEXT_MAIN", "COMPLETE"}

Actions == {"FOLLOW_UP", "NEXT_MAIN", "COMPLETE"}      \* TurnAction
Decided == {"COMPLETED", "FALLBACK"}                   \* TurnDecisionStatus
Closed  == {"COMPLETED", "EVALUATED"}

VARIABLES
  status,      \* session -> InterviewSession.status, "DELETED" when no row is left
  current,     \* session -> current_question_id
  followUps,   \* session -> main question -> follow-up questions asked so far
  turns,       \* session -> question -> its InterviewTurnRecord
  evalStatus,  \* session -> evaluate_status
  old,         \* sessions whose completed_at is at least 30 s back
  evalQueue,   \* sessions with a message in interview:evaluate:stream
  turnCache,   \* session -> requestId -> question of the cached turn
  proc,        \* the calls and the job: program counter and locals
  todo,        \* stale turns the job has read and not handled yet
  requeue,     \* pending evaluations the job has read and not queued yet
  faults       \* crashes, Redis errors and lost cache entries so far

rows == <<status, current, followUps, turns, evalStatus>>
jobs == <<todo, requeue>>
vars == <<rows, old, evalQueue, turnCache, proc, jobs, faults>>

NoTurn == [state |-> "NONE", request |-> None, answer |-> None,
           expired |-> FALSE, action |-> None, next |-> None]

IdleProc == [pc |-> "idle", session |-> None, question |-> None,
             request |-> None, answer |-> None, seen |-> 0, action |-> None,
             result |-> None, ret |-> "idle", cached |-> FALSE,
             reply |-> NoTurn]

TurnRow == [state: {"NONE", "PROCESSING"} \cup Decided,
            request: Requests \cup {None}, answer: Answers \cup {None},
            expired: BOOLEAN, action: Actions \cup {None},
            next: Questions \cup {None}]

ProcState == [pc: {"idle", "lookup", "begin", "decide", "finalize", "enqueue",
                   "cache", "replay", "wait", "recover", "completing", "close",
                   "scan", "requeue", "done"},
              session: Sessions \cup {None}, question: Questions \cup {None},
              request: Requests \cup {None}, answer: Answers \cup {None},
              seen: 0 .. MaxFollowUps, action: Actions \cup {None},
              result: Decided \cup {None},
              ret: {"idle", "cache", "wait", "close", "scan"},
              cached: BOOLEAN,
              reply: TurnRow]

TypeOK ==
  /\ status \in [Sessions -> {"CREATED", "IN_PROGRESS", "DELETED"} \cup Closed]
  /\ current \in [Sessions -> Questions \cup {None}]
  /\ followUps \in [Sessions -> [Mains -> 0 .. MaxFollowUps]]
  /\ turns \in [Sessions -> [Questions -> TurnRow]]
  /\ evalStatus \in [Sessions -> {"PENDING", "COMPLETED", None}]
  /\ old \subseteq Sessions
  /\ evalQueue \subseteq Sessions
  /\ turnCache \in [Sessions -> [Requests -> Questions \cup {None}]]
  /\ proc \in [Procs -> ProcState]
  /\ todo \subseteq Sessions \X Questions
  /\ requeue \subseteq Sessions
  /\ faults \in 0 .. MaxFaults

\* Questions with a row: every main question, and the follow-ups added so far.
Asked(s) == {q \in Questions : q[2] <= followUps[s][q[1]]}

Row(s, q)     == turns[s][q]
HasTurn(s, q) == turns[s][q].state # "NONE"

\* create_session: main questions only, the first one current.
Init ==
  /\ status = [s \in Sessions |-> "CREATED"]
  /\ current = [s \in Sessions |-> <<0, 0>>]
  /\ followUps = [s \in Sessions |-> [m \in Mains |-> 0]]
  /\ turns = [s \in Sessions |-> [q \in Questions |-> NoTurn]]
  /\ evalStatus = [s \in Sessions |-> None]
  /\ old = {}
  /\ evalQueue = {}
  /\ turnCache = [s \in Sessions |-> [r \in Requests |-> None]]
  /\ proc = [p \in Procs |-> IdleProc]
  /\ todo = {}
  /\ requeue = {}
  /\ faults = 0

-----------------------------------------------------------------------------
(* Moving between the steps of a call.                                     *)

Goto(p, pc) == proc' = [proc EXCEPT ![p].pc = pc]

\* The exception leaves the call, or ends this run of the job: the stale
\* turns and pending evaluations behind the failed one are not reached.
Raise(p) ==
  /\ proc' = [proc EXCEPT ![p] = IdleProc]
  /\ IF p = Scheduler THEN todo' = {} /\ requeue' = {} ELSE UNCHANGED jobs

\* Where the caller of recover_turn or _enqueue_evaluation goes on.
Resumed(l) ==
  CASE l.ret = "idle" -> IdleProc
    [] l.ret = "scan" -> [IdleProc EXCEPT !.pc = "scan"]
    [] OTHER          -> [l EXCEPT !.pc = l.ret, !.ret = "idle",
                                   !.action = None, !.result = None]

-----------------------------------------------------------------------------
(* submit_turn                                                             *)

\* A client posts an answer to a question it was shown.  Retries reuse the
\* requestId; a confused client may reuse it for something else.
SubmitTurn(c) ==
  /\ "submit" \in CallKinds
  /\ proc[c].pc = "idle"
  /\ \E s \in Sessions, r \in Requests, a \in Answers :
       /\ status[s] # "DELETED"
       /\ \E q \in Asked(s) :
            proc' = [proc EXCEPT ![c] =
              [IdleProc EXCEPT !.pc = "lookup", !.session = s,
                 !.question = q, !.request = r, !.answer = a]]
  /\ UNCHANGED <<rows, old, evalQueue, turnCache, jobs, faults>>

\* A duplicate of an undecided turn waits for the decision.
\* Fault: the wait is forgotten.
ReplayAtOnce(t) == "replay"
ReplayFrom(t)   == IF t.state = "PROCESSING" THEN "wait" ELSE "replay"

\* _validate_replayed_turn, then the wait or the response.
Replay(c, x) ==
  LET l == proc[c] IN
  IF x # l.question \/ Row(l.session, x).answer # l.answer
  THEN Raise(c)
  ELSE /\ proc' = [proc EXCEPT ![c].pc = ReplayFrom(Row(l.session, x)),
                               ![c].cached = (l.pc = "lookup")]
       /\ UNCHANGED jobs

\* get_turn_result, and the turn it names if that turn still exists.
LookupTurn(c) ==
  LET l == proc[c]
      x == turnCache[l.session][l.request]
  IN /\ l.pc = "lookup"
     /\ IF x # None /\ HasTurn(l.session, x)
        THEN Replay(c, x)
        ELSE Goto(c, "begin") /\ UNCHANGED jobs
     /\ UNCHANGED <<rows, old, evalQueue, turnCache, faults>>

\* begin_turn: the turn of this requestId, else the turn of this question.
ExistingTurns(s, q, r) ==
  LET byRequest == {x \in Questions : HasTurn(s, x) /\ Row(s, x).request = r}
  IN IF byRequest # {} THEN byRequest ELSE {x \in {q} : HasTurn(s, x)}

BeginExisting(c) ==
  LET l == proc[c] IN
  /\ l.pc = "begin"
  /\ status[l.session] # "DELETED"
  /\ \E x \in ExistingTurns(l.session, l.question, l.request) : Replay(c, x)
  /\ UNCHANGED <<rows, old, evalQueue, turnCache, faults>>

\* The session still runs, and the client answers the question it is on.
\* Fault: the current question is not compared.
MayBeginAnywhere(s, q) == status[s] \notin Closed
MayBegin(s, q) == status[s] \notin Closed /\ current[s] = q

BeginRejected(c) ==
  LET l == proc[c] IN
  /\ l.pc = "begin"
  /\ \/ status[l.session] = "DELETED"
     \/ /\ ExistingTurns(l.session, l.question, l.request) = {}
        /\ ~MayBegin(l.session, l.question)
  /\ Raise(c)
  /\ UNCHANGED <<rows, old, evalQueue, turnCache, faults>>

\* The PROCESSING turn and its lease; the decision will be taken from the
\* aggregate read here (seen: the follow-ups of the current main question).
BeginTurn(c) ==
  LET l == proc[c]
      s == l.session
      q == l.question
  IN /\ l.pc = "begin"
     /\ status[s] # "DELETED"
     /\ ExistingTurns(s, q, l.request) = {}
     /\ MayBegin(s, q)
     /\ turns' = [turns EXCEPT ![s][q] =
                    [NoTurn EXCEPT !.state = "PROCESSING",
                       !.request = l.request, !.answer = l.answer]]
     /\ status' = [status EXCEPT ![s] = "IN_PROGRESS"]
     /\ proc' = [proc EXCEPT ![c].pc = "decide",
                             ![c].seen = followUps[s][q[1]]]
     /\ UNCHANGED <<current, followUps, evalStatus, old, evalQueue, turnCache,
                    jobs, faults>>

HasNextMain(q) == q[1] + 1 \in Mains

\* fallback_without_model and the deterministic rules.
\* Fault: the last main question is taken for one with a successor.
AdvanceBlindly(q) == "NEXT_MAIN"
Advance(q) == IF HasNextMain(q) THEN "NEXT_MAIN" ELSE "COMPLETE"

\* decide, for every answer of the model: the deterministic rules and the
\* model's NEXT_MAIN advance, the model's FOLLOW_UP is only asked for below
\* the limit, and a failing provider or model falls back.
Decisions(q, seen) ==
  {<<Advance(q), "COMPLETED">>, <<Advance(q), "FALLBACK">>}
    \cup {d \in {<<"FOLLOW_UP", "COMPLETED">>} : seen < MaxFollowUps}

Decide(c) ==
  LET l == proc[c] IN
  /\ l.pc = "decide"
  /\ \E d \in Decisions(l.question, l.seen) :
       proc' = [proc EXCEPT ![c] =
         [l EXCEPT !.pc = "finalize", !.action = d[1], !.result = d[2],
                   !.seen = 0, !.ret = "cache"]]
  /\ UNCHANGED <<rows, old, evalQueue, turnCache, jobs, faults>>

-----------------------------------------------------------------------------
(* finalize_turn, shared by submit_turn and recover_turn                   *)

EffectiveAction(s, q, action) ==
  IF action = "FOLLOW_UP" /\ followUps[s][q[1]] < MaxFollowUps
  THEN "FOLLOW_UP"
  ELSE IF action # "COMPLETE" THEN Advance(q) ELSE "COMPLETE"

\* Fault: the follow-up is numbered with the count itself.
NextQuestionUncounted(s, q, effective) ==
  CASE effective = "FOLLOW_UP" -> <<q[1], followUps[s][q[1]]>>
    [] effective = "NEXT_MAIN" -> <<q[1] + 1, 0>>
    [] OTHER                   -> None

NextQuestion(s, q, effective) ==
  CASE effective = "FOLLOW_UP" -> <<q[1], followUps[s][q[1]] + 1>>
    [] effective = "NEXT_MAIN" -> <<q[1] + 1, 0>>
    [] OTHER                   -> None

\* The new row of interview_questions.
\* Fault: it is not added to the session.
FollowUpsUnsaved(s, q, effective) == followUps
FollowUpsSaved(s, q, effective) ==
  IF effective = "FOLLOW_UP"
  THEN [followUps EXCEPT ![s][q[1]] = @ + 1] ELSE followUps

\* Checked again under the row locks, after the model has answered.
\* Faults: one check or the other is dropped.
MayFinalizeAlways(s, q) == HasTurn(s, q)
MayFinalizeClosed(s, q) == Row(s, q).state = "PROCESSING"
MayFinalize(s, q)       == Row(s, q).state = "PROCESSING" /\ current[s] = q

\* submit_turn answers with the turn finalize_turn returns.
\* Fault: the caller's own decision, not the stored one.
ReplyOwn(l, t) ==
  IF l.ret = "cache" THEN [t EXCEPT !.action = l.action] ELSE l.reply
ReplyOf(l, t) == IF l.ret = "cache" THEN t ELSE l.reply

FinalizeTurn(p) ==
  LET l == proc[p]
      s == l.session
      q == l.question
      e == EffectiveAction(s, q, l.action)
      n == NextQuestion(s, q, e)
      t == [Row(s, q) EXCEPT !.state = l.result, !.action = e, !.next = n]
      k == [l EXCEPT !.reply = ReplyOf(l, t)]
  IN /\ l.pc = "finalize"
     /\ status[s] # "DELETED"
     /\ MayFinalize(s, q)
     /\ turns' = [turns EXCEPT ![s][q] = t]
     /\ followUps' = FollowUpsSaved(s, q, e)
     /\ current' = [current EXCEPT ![s] = n]
     /\ IF e = "COMPLETE"
        THEN /\ status' = [status EXCEPT ![s] = "COMPLETED"]
             /\ evalStatus' = [evalStatus EXCEPT ![s] = "PENDING"]
             /\ proc' = [proc EXCEPT ![p] = [k EXCEPT !.pc = "enqueue"]]
        ELSE /\ status' = [status EXCEPT ![s] = "IN_PROGRESS"]
             /\ proc' = [proc EXCEPT ![p] = Resumed(k)]
             /\ UNCHANGED evalStatus
     /\ UNCHANGED <<old, evalQueue, turnCache, jobs, faults>>

\* Somebody else decided the turn first: the caller takes that decision.
FinalizeSuperseded(p) ==
  LET l == proc[p]
      t == Row(l.session, l.question)
  IN /\ l.pc = "finalize"
     /\ t.state \in Decided
     /\ proc' = [proc EXCEPT ![p] = Resumed([l EXCEPT !.reply = ReplyOf(l, t)])]
     /\ UNCHANGED <<rows, old, evalQueue, turnCache, jobs, faults>>

\* No session, no turn, or the session has moved away from the question.
FinalizeRejected(p) ==
  LET l == proc[p] IN
  /\ l.pc = "finalize"
  /\ \/ ~HasTurn(l.session, l.question)
     \/ /\ Row(l.session, l.question).state = "PROCESSING"
        /\ ~MayFinalize(l.session, l.question)
  /\ Raise(p)
  /\ UNCHANGED <<rows, old, evalQueue, turnCache, faults>>

\* _enqueue_evaluation: a failed XADD is logged and swallowed.
EnqueueEvaluation(p) ==
  LET l == proc[p] IN
  /\ l.pc = "enqueue"
  /\ \/ /\ evalQueue' = evalQueue \cup {l.session}
        /\ UNCHANGED faults
     \/ /\ faults < MaxFaults
        /\ faults' = faults + 1
        /\ UNCHANGED evalQueue
  /\ proc' = [proc EXCEPT ![p] = Resumed(l)]
  /\ UNCHANGED <<rows, old, turnCache, jobs>>

-----------------------------------------------------------------------------
(* The end of submit_turn                                                  *)

\* set_turn_result and the response for a turn this call finalized.
ReplyFresh(c) ==
  LET l == proc[c] IN
  /\ l.pc = "cache"
  /\ turnCache' = [turnCache EXCEPT ![l.session][l.request] = l.question]
  /\ Goto(c, "done")
  /\ UNCHANGED <<rows, old, evalQueue, jobs, faults>>

\* The same for a turn decided before: the aggregate is read once more, and
\* a turn found through the cache is not cached again.
ReplyReplayed(c) ==
  LET l == proc[c] IN
  /\ l.pc = "replay"
  /\ IF status[l.session] = "DELETED"
     THEN Raise(c) /\ UNCHANGED turnCache
     ELSE /\ proc' = [proc EXCEPT ![c].pc = "done",
                                  ![c].reply = Row(l.session, l.question)]
          /\ IF l.cached
             THEN UNCHANGED turnCache
             ELSE turnCache' = [turnCache EXCEPT ![l.session][l.request] = l.question]
          /\ UNCHANGED jobs
  /\ UNCHANGED <<rows, old, evalQueue, faults>>

\* _wait_for_turn sees the decision, or that the turn is gone.
WaitOver(c) ==
  LET l == proc[c] IN
  /\ l.pc = "wait"
  /\ \/ /\ Row(l.session, l.question).state \in Decided
        /\ Goto(c, "replay")
        /\ UNCHANGED jobs
     \/ /\ ~HasTurn(l.session, l.question)
        /\ Raise(c)
  /\ UNCHANGED <<rows, old, evalQueue, turnCache, faults>>

\* ... or an expired lease, and recovers the turn itself.
WaitRecover(c) ==
  LET l == proc[c] IN
  /\ l.pc = "wait"
  /\ Row(l.session, l.question).state = "PROCESSING"
  /\ Row(l.session, l.question).expired
  /\ proc' = [proc EXCEPT ![c].pc = "recover", ![c].ret = "wait"]
  /\ UNCHANGED <<rows, old, evalQueue, turnCache, jobs, faults>>

WaitTimeout(c) ==
  /\ proc[c].pc = "wait"
  /\ Row(proc[c].session, proc[c].question).state = "PROCESSING"
  /\ Raise(c)
  /\ UNCHANGED <<rows, old, evalQueue, turnCache, faults>>

\* The client has its response.
Return(c) ==
  /\ proc[c].pc = "done"
  /\ proc' = [proc EXCEPT ![c] = IdleProc]
  /\ UNCHANGED <<rows, old, evalQueue, turnCache, jobs, faults>>

-----------------------------------------------------------------------------
(* recover_turn: a read, the deterministic fallback, then finalize_turn    *)

RecoverTurn(p) ==
  LET l == proc[p]
      s == l.session
      t == Row(s, l.question)
  IN /\ l.pc = "recover"
     /\ IF t.state # "PROCESSING"
        THEN proc' = [proc EXCEPT ![p] = Resumed(l)] /\ UNCHANGED jobs
        ELSE IF current[s] = None
        THEN Raise(p)           \* fallback_for_stale has no current question
        ELSE /\ proc' = [proc EXCEPT ![p] =
                  [l EXCEPT !.pc = "finalize", !.action = Advance(current[s]),
                            !.result = "FALLBACK"]]
             /\ UNCHANGED jobs
     /\ UNCHANGED <<rows, old, evalQueue, turnCache, faults>>

-----------------------------------------------------------------------------
(* complete and delete                                                     *)

CompleteInterview(c) ==
  /\ "complete" \in CallKinds
  /\ proc[c].pc = "idle"
  /\ \E s \in Sessions :
       /\ status[s] # "DELETED"
       /\ proc' = [proc EXCEPT ![c] =
            [IdleProc EXCEPT !.pc = "completing", !.session = s]]
  /\ UNCHANGED <<rows, old, evalQueue, turnCache, jobs, faults>>

Processing(s) == {q \in Questions : Row(s, q).state = "PROCESSING"}

\* The aggregate is read; its first PROCESSING turn, if any, is recovered.
CompleteRead(c) ==
  LET l == proc[c] IN
  /\ l.pc = "completing"
  /\ \/ /\ status[l.session] = "DELETED"
        /\ Raise(c)
     \/ /\ status[l.session] # "DELETED"
        /\ Processing(l.session) = {}
        /\ Goto(c, "close")
        /\ UNCHANGED jobs
     \/ /\ \E q \in Processing(l.session) :
             proc' = [proc EXCEPT ![c].pc = "recover", ![c].question = q,
                                  ![c].ret = "close"]
        /\ UNCHANGED jobs
  /\ UNCHANGED <<rows, old, evalQueue, turnCache, faults>>

\* complete_session does not look at the turns again.
CompleteSession(c) ==
  LET l == proc[c]
      s == l.session
  IN /\ l.pc = "close"
     /\ IF status[s] \in Closed \cup {"DELETED"}
        THEN Raise(c) /\ UNCHANGED rows
        ELSE /\ status' = [status EXCEPT ![s] = "COMPLETED"]
             /\ current' = [current EXCEPT ![s] = None]
             /\ evalStatus' = [evalStatus EXCEPT ![s] = "PENDING"]
             /\ proc' = [proc EXCEPT ![c].pc = "enqueue", ![c].ret = "idle"]
             /\ UNCHANGED <<followUps, turns, jobs>>
     /\ UNCHANGED <<old, evalQueue, turnCache, faults>>

DeleteSession(s) ==
  /\ "delete" \in CallKinds
  /\ status[s] # "DELETED"
  /\ status' = [status EXCEPT ![s] = "DELETED"]
  /\ current' = [current EXCEPT ![s] = None]
  /\ followUps' = [followUps EXCEPT ![s] = [m \in Mains |-> 0]]
  /\ turns' = [turns EXCEPT ![s] = [q \in Questions |-> NoTurn]]
  /\ evalStatus' = [evalStatus EXCEPT ![s] = None]
  /\ old' = old \ {s}
  /\ UNCHANGED <<evalQueue, turnCache, proc, jobs, faults>>

-----------------------------------------------------------------------------
(* The scheduler job: InterviewRecoveryService.recover                     *)

\* stale_processing_turns
\* Fault: the comparison with the lease is reversed.
StaleUnexpired(t) == t.state = "PROCESSING" /\ ~t.expired
Stale(t)          == t.state = "PROCESSING" /\ t.expired

ScanTurns ==
  /\ proc[Scheduler].pc = "idle"
  /\ todo' = {x \in Sessions \X Questions : Stale(Row(x[1], x[2]))}
  /\ Goto(Scheduler, "scan")
  /\ UNCHANGED <<rows, old, evalQueue, turnCache, requeue, faults>>

RecoverNext ==
  /\ proc[Scheduler].pc = "scan"
  /\ \E x \in todo :
       /\ todo' = todo \ {x}
       /\ proc' = [proc EXCEPT ![Scheduler] =
            [IdleProc EXCEPT !.pc = "recover", !.session = x[1],
                             !.question = x[2], !.ret = "scan"]]
  /\ UNCHANGED <<rows, old, evalQueue, turnCache, requeue, faults>>

\* pending_evaluations
\* Fault: the wrong status is looked for.
OverdueProcessing(s) == s \in old /\ evalStatus[s] = "PROCESSING"
Overdue(s)           == s \in old /\ evalStatus[s] = "PENDING"

ScanEvaluations ==
  /\ proc[Scheduler].pc = "scan"
  /\ todo = {}
  /\ requeue' = {s \in Sessions : Overdue(s)}
  /\ Goto(Scheduler, "requeue")
  /\ UNCHANGED <<rows, old, evalQueue, turnCache, todo, faults>>

\* An XADD per pending evaluation; a failure ends this run of the job.
RequeueEvaluation ==
  /\ proc[Scheduler].pc = "requeue"
  /\ \E s \in requeue :
       \/ /\ evalQueue' = evalQueue \cup {s}
          /\ requeue' = requeue \ {s}
          /\ UNCHANGED <<proc, todo, faults>>
       \/ /\ faults < MaxFaults
          /\ faults' = faults + 1
          /\ Raise(Scheduler)
          /\ UNCHANGED evalQueue
  /\ UNCHANGED <<rows, old, turnCache>>

RecoverDone ==
  /\ proc[Scheduler].pc = "requeue"
  /\ requeue = {}
  /\ Goto(Scheduler, "idle")
  /\ UNCHANGED <<rows, old, evalQueue, turnCache, jobs, faults>>

-----------------------------------------------------------------------------
(* Time, crashes, and the worker                                           *)

LeaseExpires(s, q) ==
  /\ Row(s, q).state = "PROCESSING"
  /\ ~Row(s, q).expired
  /\ turns' = [turns EXCEPT ![s][q].expired = TRUE]
  /\ UNCHANGED <<status, current, followUps, evalStatus, old, evalQueue,
                 turnCache, proc, jobs, faults>>

\* Thirty seconds after completed_at was set.
GrowsOld(s) ==
  /\ status[s] \in Closed
  /\ s \notin old
  /\ old' = old \cup {s}
  /\ UNCHANGED <<rows, evalQueue, turnCache, proc, jobs, faults>>

\* A cached result is evicted or outlives its TTL.
CacheExpires(s, r) ==
  /\ turnCache[s][r] # None
  /\ faults < MaxFaults
  /\ faults' = faults + 1
  /\ turnCache' = [turnCache EXCEPT ![s][r] = None]
  /\ UNCHANGED <<rows, old, evalQueue, proc, jobs>>

\* The process serving the call, or the scheduler, dies between two steps.
Crash(p) ==
  /\ proc[p].pc \notin {"idle", "done"}
  /\ faults < MaxFaults
  /\ faults' = faults + 1
  /\ Raise(p)
  /\ UNCHANGED <<rows, old, evalQueue, turnCache>>

\* save_report, the effect of the evaluation worker on the session.  The
\* worker and its stream are the subject of InterviewEvaluation.
SaveReport(s) ==
  /\ s \in evalQueue
  /\ status[s] \in Closed
  /\ evalStatus[s] = "PENDING"
  /\ status' = [status EXCEPT ![s] = "EVALUATED"]
  /\ evalStatus' = [evalStatus EXCEPT ![s] = "COMPLETED"]
  /\ evalQueue' = evalQueue \ {s}
  /\ UNCHANGED <<current, followUps, turns, old, turnCache, proc, jobs, faults>>

-----------------------------------------------------------------------------
CallStep(c) ==
  \/ LookupTurn(c) \/ BeginExisting(c) \/ BeginRejected(c) \/ BeginTurn(c)
  \/ Decide(c) \/ FinalizeTurn(c) \/ FinalizeSuperseded(c)
  \/ FinalizeRejected(c) \/ EnqueueEvaluation(c)
  \/ ReplyFresh(c) \/ ReplyReplayed(c)
  \/ WaitOver(c) \/ WaitRecover(c) \/ WaitTimeout(c)
  \/ RecoverTurn(c) \/ CompleteRead(c) \/ CompleteSession(c)

SchedulerStep ==
  \/ ScanTurns \/ RecoverNext \/ ScanEvaluations
  \/ RequeueEvaluation \/ RecoverDone
  \/ RecoverTurn(Scheduler) \/ FinalizeTurn(Scheduler)
  \/ FinalizeSuperseded(Scheduler) \/ FinalizeRejected(Scheduler)
  \/ EnqueueEvaluation(Scheduler)

ClientStep ==
  \/ \E c \in Calls : SubmitTurn(c) \/ CompleteInterview(c) \/ Return(c)
  \/ \E s \in Sessions : DeleteSession(s)

TimeStep ==
  \/ \E s \in Sessions, q \in Questions : LeaseExpires(s, q)
  \/ \E s \in Sessions : GrowsOld(s)
  \/ \E s \in Sessions, r \in Requests : CacheExpires(s, r)

Next ==
  \/ \E c \in Calls : CallStep(c)
  \/ SchedulerStep
  \/ ClientStep
  \/ TimeStep
  \/ \E p \in Procs : Crash(p)
  \/ \E s \in Sessions : SaveReport(s)

Spec == Init /\ [][Next]_vars

\* What must happen: a request being served runs on, the scheduler fires
\* every 30 s, leases and the 30 s age run out.  Clients owe nothing.
Fairness ==
  /\ \A c \in Calls : WF_vars(CallStep(c))
  /\ WF_vars(SchedulerStep)
  /\ \A s \in Sessions, q \in Questions : WF_vars(LeaseExpires(s, q))
  /\ \A s \in Sessions : WF_vars(GrowsOld(s))

FairSpec == Spec /\ Fairness

-----------------------------------------------------------------------------
(* Safety                                                                  *)

Open(s) == status[s] \in {"CREATED", "IN_PROGRESS"}

\* Whoever crashes, retries or recovers, an open interview stands on exactly
\* one question that can still be answered: it was asked, it is the last of
\* its main question's chain, and no decision has been stored for it.  A
\* session standing on a decided question would replay that decision for
\* ever and never move (begin_turn, finalize_turn).
CurrentIsAnswerable ==
  \A s \in Sessions : Open(s) =>
    /\ current[s] \in Questions
    /\ current[s][2] = followUps[s][current[s][1]]
    /\ Row(s, current[s]).state \in {"NONE", "PROCESSING"}

\* In an open interview the only turn waiting for a decision is the one on
\* the current question, which is what finalize_turn demands of every turn
\* the scheduler or a waiting duplicate recovers.
OpenTurnIsCurrent ==
  \A s \in Sessions, q \in Questions :
    Open(s) /\ Row(s, q).state = "PROCESSING" => current[s] = q

\* A follow-up question exists exactly when the turn before it in the chain
\* decided to ask it: no retry, recovery or crash adds a second one, loses
\* one, or leaves one that no decision asked for (finalize_turn).
FollowUpsHaveDecisions ==
  \A s \in Sessions, m \in Mains, k \in 0 .. (MaxFollowUps - 1) :
    k < followUps[s][m] <=> Row(s, <<m, k>>).action = "FOLLOW_UP"

\* Reaching a main question means every earlier main question was left by a
\* decision on the last question of its chain: none is skipped, whatever
\* mixture of callers finalized the turns (finalize_turn).
Left(s, m) == Row(s, <<m, followUps[s][m]>>).action = "NEXT_MAIN"

NoMainSkipped ==
  \A s \in Sessions, q \in Questions :
    HasTurn(s, q) \/ (Open(s) /\ current[s] = q) =>
      \A m \in 0 .. (q[1] - 1) : Left(s, m)

\* What a client has been answered is what the database says and will go on
\* saying: the response of a submit, fresh or replayed, is the stored turn
\* (submit_turn, _turn_response).
RepliesAreDurable ==
  \A c \in Calls :
    proc[c].pc = "done" /\ status[proc[c].session] # "DELETED" =>
      /\ proc[c].reply = Row(proc[c].session, proc[c].question)
      /\ proc[c].reply.state \in Decided

\* A cached turn id leads to the turn that was accepted for that requestId
\* or question, never to an undecided one: a replay from Redis needs no wait.
CachedTurnsAreDecided ==
  \A s \in Sessions, r \in Requests :
    turnCache[s][r] # None /\ HasTurn(s, turnCache[s][r]) =>
      Row(s, turnCache[s][r]).state \in Decided

(* Action properties                                                       *)

\* A decision is taken once: the model's late answer never overwrites the
\* recovery's fallback nor the other way round (finalize_turn).
DecisionIsFinal ==
  [][\A s \in Sessions, q \in Questions :
       Row(s, q).state \in Decided =>
         turns'[s][q] = Row(s, q) \/ status'[s] = "DELETED"]_vars

\* A closed interview is not reopened by a turn that was being decided when
\* the user completed it (finalize_turn, complete_session).
ClosedStaysClosed ==
  [][\A s \in Sessions : status[s] \in Closed =>
       /\ status'[s] \in Closed \cup {"DELETED"}
       /\ status[s] = "EVALUATED" => status'[s] # "COMPLETED"
       /\ current'[s] = None]_vars

(* Liveness                                                                *)

\* The scheduler recovers every turn whose lease ran out, so no submitted
\* answer stays undecided (recover, docs/ADAPTIVE_INTERVIEW.md:65 and :109).
TurnsGetDecided ==
  \A s \in Sessions, q \in Questions :
    Row(s, q).state = "PROCESSING" ~> Row(s, q).state # "PROCESSING"

\* A finished interview whose evaluation never reached the stream is queued
\* by the scheduler (recover, docs/ADAPTIVE_INTERVIEW.md:65 and :109).
EvaluationsGetQueued ==
  \A s \in Sessions :
    evalStatus[s] = "PENDING" ~> s \in evalQueue \/ evalStatus[s] # "PENDING"

-----------------------------------------------------------------------------
(* Refinement                                                              *)

lifeBar == [s \in Sessions |->
             IF status[s] = "DELETED" THEN "gone"
             ELSE IF status[s] \in Closed THEN "closed" ELSE "open"]

decisionBar == [s \in Sessions |-> [q \in Questions |-> Row(s, q).action]]

Path == INSTANCE InterviewPath
          WITH life <- lifeBar, at <- current, decision <- decisionBar

\* The calls, the waiters and the scheduler together do no more than walk a
\* session along its questions, one decision each (begin_turn,
\* finalize_turn, complete_session, delete_session).
WalksThePath == Path!Spec
=============================================================================

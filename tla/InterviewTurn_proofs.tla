------------------------ MODULE InterviewTurn_proofs ------------------------
(***************************************************************************)
(* Proofs about InterviewTurn, for every set of sessions, calls, requests  *)
(* and answers, every number of main questions and every follow-up limit.  *)
(***************************************************************************)
EXTENDS InterviewTurn, TLAPS

USE DEF Procs

\* The locals a process needs at the step it is at.
LocalsOK(l) ==
  /\ l.pc \notin {"idle", "scan", "requeue"} => l.session \in Sessions
  /\ \/ l.pc \in {"lookup", "begin", "decide", "finalize", "cache", "replay",
                  "wait", "recover"}
     \/ l.pc = "enqueue" /\ l.ret \in {"cache", "wait"}
     => l.question \in Questions
  /\ l.pc = "finalize" =>
       /\ l.action \in Actions /\ l.result \in Decided
       /\ l.action = "COMPLETE" => ~HasNextMain(l.question)

TypeInv == TypeOK /\ \A p \in Procs : LocalsOK(proc[p])

\* The strengthening that makes the safety invariants of the rows inductive,
\* for a session with follow-up counts f and turns t ...
Walked(f, t) ==
  /\ \A m \in Mains, k \in 0 .. (MaxFollowUps - 1) :
       k < f[m] <=> t[<<m, k>>].action = "FOLLOW_UP"
  /\ \A q \in Questions : t[q].state # "NONE" =>
       /\ q[2] <= f[q[1]]
       /\ \A m \in 0 .. (q[1] - 1) : t[<<m, f[m]>>].action = "NEXT_MAIN"
  /\ \A q \in Questions :
       t[q].state \in {"NONE", "PROCESSING"} => t[q].action = None

\* ... that stands on question c: nothing lies ahead of it yet.
StandsOn(c, f, t) ==
  /\ c \in Questions
  /\ c[2] = f[c[1]]
  /\ t[c].state \in {"NONE", "PROCESSING"}
  /\ \A q \in Questions : t[q].state = "PROCESSING" => c = q
  /\ \A q \in Questions : t[q].state # "NONE" => q[1] <= c[1]
  /\ \A m \in 0 .. (c[1] - 1) : t[<<m, f[m]>>].action = "NEXT_MAIN"
  /\ \A m \in Mains : m > c[1] => f[m] = 0

SessionInv(s) ==
  /\ Walked(followUps[s], turns[s])
  /\ Open(s) => StandsOn(current[s], followUps[s], turns[s])
  /\ ~Open(s) => current[s] = None

RowsInv == \A s \in Sessions : SessionInv(s)

\* A question is a pair of a main question's number and a follow-up's.
LEMMA QuestionPairs ==
  /\ \A q \in Questions : /\ q[1] \in Mains
                          /\ q[2] \in 0 .. MaxFollowUps
                          /\ q = <<q[1], q[2]>>
  /\ \A m \in Mains, k \in 0 .. MaxFollowUps :
       <<m, k>> \in Questions /\ <<m, k>>[1] = m /\ <<m, k>>[2] = k
BY DEF Questions

\* The absent turn is a turn row.
LEMMA NoTurnType == NoTurn \in TurnRow
BY DEF NoTurn, TurnRow

\* A process with nothing to do is well typed.
LEMMA IdleType == IdleProc \in ProcState /\ LocalsOK(IdleProc)
BY ConstantsAssumption, NoTurnType DEF IdleProc, ProcState, LocalsOK

\* A call that goes on after recovering another's turn is well typed.
LEMMA ResumedType ==
  ASSUME NEW l \in ProcState, LocalsOK(l), l.pc \in {"recover", "finalize", "enqueue"}
  PROVE  Resumed(l) \in ProcState /\ LocalsOK(Resumed(l))
<1>1. CASE l.ret = "idle"
  BY <1>1, IdleType DEF Resumed
<1>2. CASE l.ret = "scan"
  <2> DEFINE m == [IdleProc EXCEPT !.pc = "scan"]
  <2>1. m \in ProcState /\ m.pc = "scan"
    BY IdleType DEF ProcState
  <2>2. LocalsOK(m)
    BY <2>1 DEF LocalsOK
  <2>3. QED
    BY <1>2, <2>1, <2>2 DEF Resumed
<1>3. CASE l.ret \notin {"idle", "scan"}
  <2> DEFINE m == [l EXCEPT !.pc = l.ret, !.ret = "idle",
                            !.action = None, !.result = None]
  <2>1. Resumed(l) = m
    BY <1>3 DEF Resumed
  <2>2. l.ret \in {"cache", "wait", "close"}
    BY <1>3 DEF ProcState
  <2>3. /\ m \in ProcState
        /\ m.pc = l.ret /\ m.session = l.session /\ m.question = l.question
    BY <2>2 DEF ProcState
  <2>4. LocalsOK(m)
    BY <2>2, <2>3 DEF LocalsOK
  <2>5. QED
    BY <2>1, <2>3, <2>4
<1>4. QED
  BY <1>1, <1>2, <1>3

\* Noting the reply keeps a process well typed.
LEMMA ReplyType ==
  ASSUME NEW l \in ProcState, LocalsOK(l), NEW t \in TurnRow
  PROVE  LET k == [l EXCEPT !.reply = ReplyOf(l, t)]
         IN k \in ProcState /\ LocalsOK(k) /\ k.pc = l.pc
<1> DEFINE k == [l EXCEPT !.reply = ReplyOf(l, t)]
<1>1. ReplyOf(l, t) \in TurnRow
  BY DEF ReplyOf, ProcState
<1>2. /\ k \in ProcState
      /\ k.pc = l.pc /\ k.session = l.session /\ k.question = l.question
      /\ k.ret = l.ret /\ k.action = l.action /\ k.result = l.result
  BY <1>1 DEF ProcState
<1>3. QED
  BY <1>2 DEF LocalsOK

-----------------------------------------------------------------------------
(* Type correctness: the processes                                         *)

\* A process moves to a state that is well typed and has its locals.
LEMMA ProcType ==
  ASSUME TypeInv, NEW p \in Procs, NEW l \in ProcState, LocalsOK(l),
         proc' = [proc EXCEPT ![p] = l]
  PROVE  proc' \in [Procs -> ProcState] /\ \A x \in Procs : LocalsOK(proc'[x])
BY DEF TypeOK, TypeInv

\* A step that moves processes, to states that are well typed.
ProcsMove ==
  /\ proc' \in [Procs -> ProcState]
  /\ \A x \in Procs : LocalsOK(proc'[x])
  /\ todo' \subseteq Sessions \X Questions
  /\ requeue' \subseteq Sessions

\* ... and nothing else.
Moved == ProcsMove /\ UNCHANGED <<rows, old, evalQueue, turnCache, faults>>

\* A step that only moves one process keeps all of them well typed.
LEMMA MoveType ==
  ASSUME TypeInv, NEW p \in Procs, NEW l \in ProcState, LocalsOK(l),
         proc' = [proc EXCEPT ![p] = l], UNCHANGED jobs
  PROVE  ProcsMove
BY ProcType DEF TypeOK, TypeInv, ProcsMove, jobs

\* The locals' part of TypeInv depends on proc alone.
LEMMA LocalsPreserved ==
  ASSUME TypeInv
  PROVE  (\A x \in Procs : LocalsOK(proc'[x])) <=> (\A x \in Procs : LocalsOK(proc[x]))'
BY DEF LocalsOK

\* A step that moves processes and no row preserves TypeInv.
LEMMA MovedType == TypeInv /\ Moved => TypeInv'
BY LocalsPreserved DEF TypeInv, TypeOK, Moved, ProcsMove, rows

\* Going on to another program counter keeps the processes well typed.
LEMMA GotoType ==
  ASSUME TypeInv, NEW p \in Procs, NEW pc,
         pc \in {"begin", "replay", "close", "done", "scan", "requeue", "idle"},
         pc \notin {"scan", "requeue", "idle"} => proc[p].session \in Sessions,
         pc \in {"begin", "replay"} => proc[p].question \in Questions,
         Goto(p, pc)
  PROVE  proc' \in [Procs -> ProcState] /\ \A x \in Procs : LocalsOK(proc'[x])
<1> DEFINE m == [proc[p] EXCEPT !.pc = pc]
<1>1. proc[p] \in ProcState
  BY DEF TypeInv, TypeOK
<1>2. /\ m \in ProcState
      /\ m.pc = pc /\ m.session = proc[p].session /\ m.question = proc[p].question
  BY <1>1 DEF ProcState
<1>3. LocalsOK(m)
  BY <1>2 DEF LocalsOK
<1>4. proc' = [proc EXCEPT ![p] = m]
  BY DEF Goto
<1>5. QED
  BY <1>2, <1>3, <1>4, ProcType

\* So does an exception.
LEMMA RaiseType ==
  ASSUME TypeInv, NEW p \in Procs, Raise(p)
  PROVE  ProcsMove
BY IdleType, ProcType DEF TypeInv, TypeOK, Raise, jobs, ProcsMove

\* A stored turn is a turn row.
LEMMA RowType ==
  ASSUME TypeInv, NEW s \in Sessions, NEW q \in Questions
  PROVE  Row(s, q) \in TurnRow
BY DEF TypeInv, TypeOK, Row

\* Advance names a question that exists, and ends only after the last main question.
LEMMA AdvanceType ==
  ASSUME NEW q \in Questions
  PROVE  /\ Advance(q) \in Actions
         /\ Advance(q) = "NEXT_MAIN" => <<q[1] + 1, 0>> \in Questions
         /\ Advance(q) # "FOLLOW_UP"
         /\ Advance(q) = "COMPLETE" => ~HasNextMain(q)
BY QuestionPairs, ConstantsAssumption DEF Advance, HasNextMain, Actions, Mains

\* What finalize_turn writes is an action and a question of the interview.
LEMMA EffectType ==
  ASSUME TypeInv, NEW s \in Sessions, NEW q \in Questions, NEW a \in Actions
  PROVE  LET e == EffectiveAction(s, q, a)
             n == NextQuestion(s, q, e)
         IN /\ e \in Actions
            /\ e = "FOLLOW_UP" => /\ followUps[s][q[1]] + 1 \in 0 .. MaxFollowUps
                                  /\ n = <<q[1], followUps[s][q[1]] + 1>>
                                  /\ n \in Questions
            /\ e = "NEXT_MAIN" => n = <<q[1] + 1, 0>> /\ n \in Questions
            /\ e = "COMPLETE" => n = None
<1> DEFINE e == EffectiveAction(s, q, a)
           n == NextQuestion(s, q, e)
<1>1. q[1] \in Mains /\ followUps[s][q[1]] \in 0 .. MaxFollowUps
  BY QuestionPairs DEF TypeInv, TypeOK
<1>2. /\ e \in Actions
      /\ e = "NEXT_MAIN" => <<q[1] + 1, 0>> \in Questions
      /\ e = "FOLLOW_UP" => followUps[s][q[1]] < MaxFollowUps
  BY AdvanceType DEF EffectiveAction, Actions
<1>3. e = "FOLLOW_UP" => <<q[1], followUps[s][q[1]] + 1>> \in Questions
  BY <1>1, <1>2, QuestionPairs, ConstantsAssumption
<1>4. QED
  BY <1>1, <1>2, <1>3, ConstantsAssumption DEF NextQuestion

\* So does whatever decide may return.
LEMMA DecisionsType ==
  ASSUME NEW q \in Questions, NEW seen, NEW d \in Decisions(q, seen)
  PROVE  /\ d[1] \in Actions /\ d[2] \in Decided
         /\ d[1] = "COMPLETE" => ~HasNextMain(q)
<1>1. \/ d = <<Advance(q), "COMPLETED">>
      \/ d = <<Advance(q), "FALLBACK">>
      \/ d = <<"FOLLOW_UP", "COMPLETED">>
  BY DEF Decisions
<1>2. {"COMPLETED", "FALLBACK"} = Decided /\ "FOLLOW_UP" \in Actions
  BY DEF Decided, Actions
<1>3. CASE d = <<Advance(q), "COMPLETED">>
  <2>1. d[1] = Advance(q) /\ d[2] = "COMPLETED"
    BY <1>3
  <2>2. QED
    BY <2>1, <1>2, AdvanceType
<1>4. CASE d = <<Advance(q), "FALLBACK">>
  <2>1. d[1] = Advance(q) /\ d[2] = "FALLBACK"
    BY <1>4
  <2>2. QED
    BY <2>1, <1>2, AdvanceType
<1>5. CASE d = <<"FOLLOW_UP", "COMPLETED">>
  <2>1. d[1] = "FOLLOW_UP" /\ d[2] = "COMPLETED"
    BY <1>5
  <2>2. QED
    BY <2>1, <1>2
<1>6. QED
  BY <1>1, <1>3, <1>4, <1>5

\* A duplicate request goes on to wait or to answer.
LEMMA ReplayType ==
  ASSUME TypeInv, NEW c \in Calls, NEW x, Replay(c, x), proc[c].pc \in {"lookup", "begin"}
  PROVE  ProcsMove
<1> DEFINE pc == ReplayFrom(Row(proc[c].session, x))
           m == [proc[c] EXCEPT !.pc = pc, !.cached = (proc[c].pc = "lookup")]
<1>1. CASE Raise(c)
  BY <1>1, RaiseType
<1>2. CASE proc' = [proc EXCEPT ![c] = m] /\ UNCHANGED jobs
  <2>1. proc[c] \in ProcState /\ proc[c].session \in Sessions /\ proc[c].question \in Questions
    BY DEF TypeInv, TypeOK, LocalsOK
  <2>2. pc \in {"wait", "replay"}
    BY DEF ReplayFrom
  <2>3. \A b \in BOOLEAN, z \in {"wait", "replay"} :
          LET k == [proc[c] EXCEPT !.pc = z, !.cached = b]
          IN /\ k \in ProcState
             /\ k.pc = z /\ k.session = proc[c].session /\ k.question = proc[c].question
    BY <2>1 DEF ProcState
  <2>4. (proc[c].pc = "lookup") \in BOOLEAN
    OBVIOUS
  <2>5. m \in ProcState /\ m.pc = pc /\ m.session \in Sessions /\ m.question \in Questions
    BY <2>1, <2>2, <2>3, <2>4
  <2>6. LocalsOK(m)
    BY <2>2, <2>5 DEF LocalsOK
  <2>7. QED
    BY <1>2, <2>5, <2>6, MoveType
<1>3. QED
  BY <1>1, <1>2 DEF Replay

\* A submitted answer moves one call.
LEMMA SubmitType ==
  ASSUME TypeInv, NEW c \in Calls, SubmitTurn(c)
  PROVE  Moved
<1>1. PICK s \in Sessions, r \in Requests, a \in Answers, q \in Questions :
        proc' = [proc EXCEPT ![c] =
            [IdleProc EXCEPT !.pc = "lookup", !.session = s,
               !.question = q, !.request = r, !.answer = a]]
  BY DEF SubmitTurn, Asked
<1> DEFINE m == [IdleProc EXCEPT !.pc = "lookup", !.session = s,
                   !.question = q, !.request = r, !.answer = a]
<1>2. m \in ProcState /\ m.pc = "lookup" /\ m.session = s /\ m.question = q
  BY IdleType DEF ProcState
<1>3. LocalsOK(m)
  BY <1>2 DEF LocalsOK
<1>4. QED
  BY <1>1, <1>2, <1>3, MoveType DEF SubmitTurn, Moved

\* So does the look-up of a request's turn.
LEMMA LookupType ==
  ASSUME TypeInv, NEW c \in Calls, LookupTurn(c)
  PROVE  Moved
<1>1. /\ proc[c].pc = "lookup" /\ proc[c].session \in Sessions /\ proc[c].question \in Questions
      /\ UNCHANGED <<rows, old, evalQueue, turnCache, faults>>
  BY DEF LookupTurn, TypeInv, LocalsOK
<1>2. CASE Goto(c, "begin") /\ UNCHANGED jobs
  BY <1>1, <1>2, GotoType DEF Moved, ProcsMove, TypeInv, TypeOK, jobs
<1>3. CASE Replay(c, turnCache[proc[c].session][proc[c].request])
  BY <1>1, <1>3, ReplayType DEF Moved
<1>4. QED
  BY <1>2, <1>3 DEF LookupTurn

\* So does the model's decision.
LEMMA DecideType ==
  ASSUME TypeInv, NEW c \in Calls, Decide(c)
  PROVE  Moved
<1> DEFINE l == proc[c]
           m(a, r) == [l EXCEPT !.pc = "finalize", !.action = a, !.result = r,
                                !.seen = 0, !.ret = "cache"]
<1>1. PICK d \in Decisions(l.question, l.seen) :
        proc' = [proc EXCEPT ![c] = m(d[1], d[2])]
  BY DEF Decide
<1>2. l \in ProcState /\ l.session \in Sessions /\ l.question \in Questions
  BY DEF TypeInv, TypeOK, LocalsOK, Decide
<1>3. 0 \in 0 .. MaxFollowUps
  BY ConstantsAssumption
<1>4. ASSUME NEW a \in Actions, NEW r \in Decided
      PROVE  /\ m(a, r) \in ProcState
             /\ m(a, r).pc = "finalize" /\ m(a, r).action = a /\ m(a, r).result = r
             /\ m(a, r).session = l.session /\ m(a, r).question = l.question
  BY <1>2, <1>3 DEF ProcState
<1> HIDE DEF m
<1>5. ASSUME NEW a \in Actions, NEW r \in Decided,
             a = "COMPLETE" => ~HasNextMain(l.question)
      PROVE  LocalsOK(m(a, r))
  <2>1. m(a, r).action = "COMPLETE" => ~HasNextMain(m(a, r).question)
    BY <1>4, <1>5
  <2>2. QED
    BY <1>2, <1>4, <2>1 DEF LocalsOK
<1>6. /\ d[1] \in Actions /\ d[2] \in Decided
      /\ d[1] = "COMPLETE" => ~HasNextMain(l.question)
  BY <1>2, DecisionsType
<1>7. m(d[1], d[2]) \in ProcState /\ LocalsOK(m(d[1], d[2]))
  BY <1>4, <1>5, <1>6
<1>8. QED
  BY <1>1, <1>7, MoveType DEF Decide, Moved

\* So do the ends of waiting for another's turn.
LEMMA WaitType ==
  ASSUME TypeInv, NEW c \in Calls, WaitOver(c) \/ WaitRecover(c) \/ WaitTimeout(c)
  PROVE  Moved
<1> DEFINE l == proc[c]
<1>1. /\ l \in ProcState /\ l.session \in Sessions /\ l.question \in Questions
      /\ UNCHANGED <<rows, old, evalQueue, turnCache, faults>>
  BY DEF TypeInv, TypeOK, LocalsOK, WaitOver, WaitRecover, WaitTimeout
<1>2. CASE Raise(c)
  BY <1>1, <1>2, RaiseType DEF Moved
<1>3. CASE Goto(c, "replay") /\ UNCHANGED jobs
  BY <1>1, <1>3, GotoType DEF Moved, ProcsMove, TypeInv, TypeOK, jobs
<1>4. CASE WaitRecover(c)
  <2> DEFINE m == [l EXCEPT !.pc = "recover", !.ret = "wait"]
  <2>1. /\ m \in ProcState
        /\ m.pc = "recover" /\ m.session = l.session /\ m.question = l.question
    BY <1>1 DEF ProcState
  <2>2. LocalsOK(m)
    BY <1>1, <2>1 DEF LocalsOK
  <2>3. proc' = [proc EXCEPT ![c] = m]
    BY <1>4 DEF WaitRecover, TypeInv, TypeOK
  <2>4. QED
    BY <1>1, <1>4, <2>1, <2>2, <2>3, MoveType DEF WaitRecover, Moved
<1>5. QED
  BY <1>2, <1>3, <1>4 DEF WaitOver, WaitTimeout

\* So do the first steps of complete.
LEMMA CompleteType ==
  ASSUME TypeInv, NEW c \in Calls, CompleteInterview(c) \/ CompleteRead(c)
  PROVE  Moved
<1> DEFINE l == proc[c]
<1>1. l \in ProcState /\ UNCHANGED <<rows, old, evalQueue, turnCache, faults>>
  BY DEF TypeInv, TypeOK, CompleteInterview, CompleteRead
<1>2. CASE CompleteInterview(c)
  <2>1. PICK s \in Sessions :
          proc' = [proc EXCEPT ![c] = [IdleProc EXCEPT !.pc = "completing", !.session = s]]
    BY <1>2 DEF CompleteInterview
  <2> DEFINE m == [IdleProc EXCEPT !.pc = "completing", !.session = s]
  <2>2. m \in ProcState /\ m.pc = "completing" /\ m.session = s
    BY IdleType DEF ProcState
  <2>3. LocalsOK(m)
    BY <2>2 DEF LocalsOK
  <2>4. QED
    BY <1>1, <1>2, <2>1, <2>2, <2>3, MoveType DEF CompleteInterview, Moved
<1>3. CASE CompleteRead(c)
  <2>1. l.session \in Sessions
    BY <1>3 DEF TypeInv, LocalsOK, CompleteRead
  <2>2. CASE Raise(c)
    BY <1>1, <2>2, RaiseType DEF Moved
  <2>3. CASE Goto(c, "close") /\ UNCHANGED jobs
    BY <1>1, <2>1, <2>3, GotoType DEF Moved, ProcsMove, TypeInv, TypeOK, jobs
  <2>4. ASSUME NEW q \in Questions, UNCHANGED jobs,
               proc' = [proc EXCEPT ![c].pc = "recover", ![c].question = q,
                                    ![c].ret = "close"]
        PROVE  Moved
    <3> DEFINE m == [l EXCEPT !.pc = "recover", !.question = q, !.ret = "close"]
    <3>1. m \in ProcState /\ m.pc = "recover" /\ m.session = l.session /\ m.question = q
      BY <1>1 DEF ProcState
    <3>2. LocalsOK(m)
      BY <2>1, <3>1 DEF LocalsOK
    <3>3. proc' = [proc EXCEPT ![c] = m]
      BY <2>4 DEF TypeInv, TypeOK
    <3>4. QED
      BY <1>1, <2>4, <3>1, <3>2, <3>3, MoveType DEF Moved
  <2>5. QED
    BY <1>3, <2>2, <2>3, <2>4 DEF CompleteRead, Processing
<1>4. QED
  BY <1>2, <1>3

\* So do the exits of finalize_turn that write nothing.
LEMMA FinalizeMoves ==
  ASSUME TypeInv, NEW p \in Procs, FinalizeSuperseded(p) \/ FinalizeRejected(p)
  PROVE  Moved
<1> DEFINE l == proc[p]
           t == Row(l.session, l.question)
           k == [l EXCEPT !.reply = ReplyOf(l, t)]
<1>1. /\ l \in ProcState /\ LocalsOK(l) /\ l.pc = "finalize" /\ t \in TurnRow
      /\ UNCHANGED <<rows, old, evalQueue, turnCache, faults>>
  BY RowType DEF TypeInv, TypeOK, LocalsOK, FinalizeSuperseded, FinalizeRejected
<1>2. CASE FinalizeSuperseded(p)
  <2>1. k \in ProcState /\ LocalsOK(k) /\ k.pc = "finalize"
    BY <1>1, ReplyType
  <2>2. Resumed(k) \in ProcState /\ LocalsOK(Resumed(k))
    BY <2>1, ResumedType
  <2>3. QED
    BY <1>1, <1>2, <2>2, MoveType DEF FinalizeSuperseded, Moved
<1>3. CASE FinalizeRejected(p)
  BY <1>1, <1>3, RaiseType DEF FinalizeRejected, Moved
<1>4. QED
  BY <1>2, <1>3

\* A stale turn is recovered from the question the session stands on, which
\* is the turn's own.
LEMMA RecoverType ==
  ASSUME TypeInv, RowsInv, NEW p \in Procs, RecoverTurn(p)
  PROVE  Moved
<1> DEFINE l == proc[p]
           c == current[l.session]
           m(a) == [l EXCEPT !.pc = "finalize", !.action = a, !.result = "FALLBACK"]
<1>1. /\ l \in ProcState /\ LocalsOK(l) /\ l.pc = "recover"
      /\ UNCHANGED <<rows, old, evalQueue, turnCache, faults>>
  BY DEF TypeInv, TypeOK, RecoverTurn
<1>2. CASE proc' = [proc EXCEPT ![p] = Resumed(l)] /\ UNCHANGED jobs
  <2>1. Resumed(l) \in ProcState /\ LocalsOK(Resumed(l))
    BY <1>1, ResumedType
  <2>2. QED
    BY <1>1, <1>2, <2>1, MoveType DEF Moved
<1>3. CASE Raise(p)
  BY <1>1, <1>3, RaiseType DEF Moved
<1>4. CASE /\ c # None /\ Row(l.session, l.question).state = "PROCESSING"
           /\ proc' = [proc EXCEPT ![p] = m(Advance(c))]
           /\ UNCHANGED jobs
  <2>1. l.session \in Sessions /\ l.question \in Questions
    BY <1>1 DEF LocalsOK
  <2>2. c \in Questions /\ c = l.question
    BY <1>4, <2>1 DEF TypeInv, TypeOK, RowsInv, SessionInv, StandsOn, Row
  <2>3. ASSUME NEW a \in Actions
        PROVE  /\ m(a) \in ProcState
               /\ m(a).pc = "finalize" /\ m(a).action = a /\ m(a).result \in Decided
               /\ m(a).session = l.session /\ m(a).question = l.question
    BY <1>1 DEF ProcState, Decided
  <2> HIDE DEF m
  <2>4. ASSUME NEW a \in Actions, a = "COMPLETE" => ~HasNextMain(l.question)
        PROVE  LocalsOK(m(a))
    <3>1. m(a).action = "COMPLETE" => ~HasNextMain(m(a).question)
      BY <2>3, <2>4
    <3>2. QED
      BY <2>1, <2>3, <3>1 DEF LocalsOK
  <2>5. /\ Advance(c) \in Actions
        /\ Advance(c) = "COMPLETE" => ~HasNextMain(l.question)
    BY <2>2, AdvanceType
  <2>6. m(Advance(c)) \in ProcState /\ LocalsOK(m(Advance(c)))
    BY <2>3, <2>4, <2>5
  <2>7. QED
    BY <1>1, <1>4, <2>6, MoveType DEF Moved
<1>5. QED
  BY <1>2, <1>3, <1>4 DEF RecoverTurn

\* So do the recovery job's reads.
LEMMA SchedulerMoves ==
  ASSUME TypeInv, ScanTurns \/ RecoverNext \/ ScanEvaluations \/ RecoverDone
  PROVE  Moved
<1>1. UNCHANGED <<rows, old, evalQueue, turnCache, faults>>
  BY DEF ScanTurns, RecoverNext, ScanEvaluations, RecoverDone
<1>2. CASE ScanTurns \/ ScanEvaluations \/ RecoverDone
  <2>1. /\ todo' \subseteq Sessions \X Questions
        /\ requeue' \subseteq Sessions
    BY <1>2 DEF ScanTurns, ScanEvaluations, RecoverDone, TypeInv, TypeOK, jobs
  <2>2. QED
    BY <1>1, <1>2, <2>1, GotoType
      DEF ScanTurns, ScanEvaluations, RecoverDone, Moved, ProcsMove
<1>3. CASE RecoverNext
  <2>1. PICK x \in todo :
          /\ todo' = todo \ {x}
          /\ proc' = [proc EXCEPT ![Scheduler] =
               [IdleProc EXCEPT !.pc = "recover", !.session = x[1],
                                !.question = x[2], !.ret = "scan"]]
    BY <1>3 DEF RecoverNext
  <2>2. x[1] \in Sessions /\ x[2] \in Questions
    BY <2>1 DEF TypeInv, TypeOK
  <2> DEFINE m(s, q) == [IdleProc EXCEPT !.pc = "recover", !.session = s,
                                         !.question = q, !.ret = "scan"]
  <2>3. ASSUME NEW s \in Sessions, NEW q \in Questions
        PROVE  /\ m(s, q) \in ProcState
               /\ m(s, q).pc = "recover" /\ m(s, q).session = s /\ m(s, q).question = q
    BY IdleType DEF ProcState
  <2>4. proc' = [proc EXCEPT ![Scheduler] = m(x[1], x[2])]
    BY <2>1
  <2> HIDE DEF m
  <2>5. ASSUME NEW s \in Sessions, NEW q \in Questions
        PROVE  LocalsOK(m(s, q))
    BY <2>3 DEF LocalsOK
  <2>6. m(x[1], x[2]) \in ProcState /\ LocalsOK(m(x[1], x[2]))
    BY <2>2, <2>3, <2>5
  <2>7. /\ proc' \in [Procs -> ProcState]
        /\ \A y \in Procs : LocalsOK(proc'[y])
    BY <2>4, <2>6, ProcType
  <2>8. QED
    BY <1>1, <1>3, <2>1, <2>7 DEF RecoverNext, Moved, ProcsMove, TypeInv, TypeOK
<1>4. QED
  BY <1>2, <1>3

-----------------------------------------------------------------------------
(* Type correctness: the rows                                              *)

\* Assembles TypeInv' from the parts a step may change.
LEMMA Assemble ==
  ASSUME TypeInv, ProcsMove,
         status' \in [Sessions -> {"CREATED", "IN_PROGRESS", "DELETED"} \cup Closed],
         current' \in [Sessions -> Questions \cup {None}],
         followUps' \in [Sessions -> [Mains -> 0 .. MaxFollowUps]],
         turns' \in [Sessions -> [Questions -> TurnRow]],
         evalStatus' \in [Sessions -> {"PENDING", "COMPLETED", None}],
         old' \subseteq Sessions,
         evalQueue' \subseteq Sessions,
         turnCache' \in [Sessions -> [Requests -> Questions \cup {None}]],
         faults' \in 0 .. MaxFaults
  PROVE  TypeInv'
BY LocalsPreserved DEF TypeInv, TypeOK, ProcsMove

\* begin_turn preserves TypeInv.
LEMMA BeginType ==
  ASSUME TypeInv, NEW c \in Calls, BeginTurn(c)
  PROVE  TypeInv'
<1> DEFINE l == proc[c]
           s == l.session
           q == l.question
           t == [NoTurn EXCEPT !.state = "PROCESSING",
                   !.request = l.request, !.answer = l.answer]
           m(n) == [l EXCEPT !.pc = "decide", !.seen = n]
<1>1. l \in ProcState /\ s \in Sessions /\ q \in Questions
  BY DEF TypeInv, TypeOK, LocalsOK, BeginTurn
<1>2. followUps[s][q[1]] \in 0 .. MaxFollowUps
  BY <1>1, QuestionPairs DEF TypeInv, TypeOK
<1>3. t \in TurnRow
  BY <1>1, NoTurnType DEF TurnRow, ProcState
<1>4. ASSUME NEW n \in 0 .. MaxFollowUps
      PROVE  /\ m(n) \in ProcState
             /\ m(n).pc = "decide" /\ m(n).session = s /\ m(n).question = q
  BY <1>1 DEF ProcState
<1>5. proc' = [proc EXCEPT ![c] = m(followUps[s][q[1]])]
  BY <1>1 DEF BeginTurn, TypeInv, TypeOK
<1>6. turns' = [turns EXCEPT ![s][q] = t]
  BY DEF BeginTurn
<1> HIDE DEF m, t
<1>7. LocalsOK(m(followUps[s][q[1]]))
  BY <1>1, <1>2, <1>4 DEF LocalsOK
<1>8. ProcsMove
  BY <1>2, <1>4, <1>5, <1>7, MoveType DEF BeginTurn
<1>9. turns' \in [Sessions -> [Questions -> TurnRow]]
  BY <1>1, <1>3, <1>6 DEF TypeInv, TypeOK
<1>10. status' \in [Sessions -> {"CREATED", "IN_PROGRESS", "DELETED"} \cup Closed]
  BY DEF BeginTurn, TypeInv, TypeOK
<1>11. QED
  BY <1>8, <1>9, <1>10, Assemble DEF BeginTurn, TypeInv, TypeOK

\* The values finalize_turn writes.
LEMMA FinalizeValues ==
  ASSUME TypeInv, NEW p \in Procs, FinalizeTurn(p)
  PROVE  LET s == proc[p].session
             q == proc[p].question
             e == EffectiveAction(s, q, proc[p].action)
             n == NextQuestion(s, q, e)
             t == [Row(s, q) EXCEPT !.state = proc[p].result, !.action = e, !.next = n]
         IN /\ s \in Sessions /\ q \in Questions /\ t \in TurnRow
            /\ q[1] \in Mains /\ followUps[s][q[1]] \in 0 .. MaxFollowUps
            /\ proc[p].result \in Decided
            /\ t.state = proc[p].result /\ t.action = e
            /\ e \in Actions /\ n \in Questions \cup {None}
            /\ e = "FOLLOW_UP" => /\ followUps[s][q[1]] + 1 \in 0 .. MaxFollowUps
                                  /\ n = <<q[1], followUps[s][q[1]] + 1>>
                                  /\ n \in Questions
            /\ e = "NEXT_MAIN" => n = <<q[1] + 1, 0>> /\ n \in Questions
            /\ e = "COMPLETE" => n = None
<1> DEFINE s == proc[p].session
           q == proc[p].question
           e == EffectiveAction(s, q, proc[p].action)
           n == NextQuestion(s, q, e)
           t == [Row(s, q) EXCEPT !.state = proc[p].result, !.action = e, !.next = n]
<1>1. /\ s \in Sessions /\ q \in Questions
      /\ proc[p].action \in Actions /\ proc[p].result \in Decided
  BY DEF TypeInv, LocalsOK, FinalizeTurn
<1>2. q[1] \in Mains /\ followUps[s][q[1]] \in 0 .. MaxFollowUps
  BY <1>1, QuestionPairs DEF TypeInv, TypeOK
<1>3. /\ e \in Actions
      /\ e = "FOLLOW_UP" => /\ followUps[s][q[1]] + 1 \in 0 .. MaxFollowUps
                            /\ n = <<q[1], followUps[s][q[1]] + 1>>
                            /\ n \in Questions
      /\ e = "NEXT_MAIN" => n = <<q[1] + 1, 0>> /\ n \in Questions
      /\ e = "COMPLETE" => n = None
  BY <1>1, EffectType
<1>4. n \in Questions \cup {None}
  BY <1>3 DEF Actions
<1> HIDE DEF e, n
<1>5. Row(s, q) \in TurnRow
  BY <1>1, RowType
<1>6. t \in TurnRow /\ t.state = proc[p].result /\ t.action = e
  BY <1>1, <1>3, <1>4, <1>5 DEF TurnRow
<1>7. QED
  BY <1>1, <1>2, <1>3, <1>4, <1>6 DEF e, n

\* finalize_turn preserves TypeInv.
LEMMA FinalizeType ==
  ASSUME TypeInv, NEW p \in Procs, FinalizeTurn(p)
  PROVE  TypeInv'
<1> DEFINE l == proc[p]
           s == l.session
           q == l.question
           e == EffectiveAction(s, q, l.action)
           n == NextQuestion(s, q, e)
           t == [Row(s, q) EXCEPT !.state = l.result, !.action = e, !.next = n]
           k == [l EXCEPT !.reply = ReplyOf(l, t)]
           m == [k EXCEPT !.pc = "enqueue"]
<1>1. /\ s \in Sessions /\ q \in Questions /\ t \in TurnRow
      /\ q[1] \in Mains /\ n \in Questions \cup {None}
      /\ e = "FOLLOW_UP" => followUps[s][q[1]] + 1 \in 0 .. MaxFollowUps
  BY FinalizeValues
<1>2. /\ turns' = [turns EXCEPT ![s][q] = t]
      /\ followUps' = FollowUpsSaved(s, q, e)
      /\ current' = [current EXCEPT ![s] = n]
      /\ \/ /\ status' = [status EXCEPT ![s] = "COMPLETED"]
            /\ evalStatus' = [evalStatus EXCEPT ![s] = "PENDING"]
            /\ proc' = [proc EXCEPT ![p] = m]
         \/ /\ status' = [status EXCEPT ![s] = "IN_PROGRESS"]
            /\ proc' = [proc EXCEPT ![p] = Resumed(k)]
            /\ UNCHANGED evalStatus
      /\ UNCHANGED <<old, evalQueue, turnCache, jobs, faults>>
  BY DEF FinalizeTurn
<1>3. l \in ProcState /\ LocalsOK(l) /\ l.pc = "finalize"
  BY DEF FinalizeTurn, TypeInv, TypeOK
<1> HIDE DEF t, e, n
<1>4. k \in ProcState /\ LocalsOK(k) /\ k.pc = "finalize"
  BY <1>1, <1>3, ReplyType
<1> HIDE DEF k
<1>5. Resumed(k) \in ProcState /\ LocalsOK(Resumed(k))
  BY <1>4, ResumedType
<1>6. /\ m \in ProcState
      /\ m.pc = "enqueue" /\ m.session = k.session /\ m.question = k.question
  BY <1>4 DEF ProcState
<1>7. LocalsOK(m)
  BY <1>4, <1>6 DEF LocalsOK
<1> HIDE DEF m
<1>8. ProcsMove
  BY <1>2, <1>5, <1>6, <1>7, MoveType
<1>9. turns' \in [Sessions -> [Questions -> TurnRow]]
  BY <1>1, <1>2 DEF TypeInv, TypeOK
<1>10. followUps' \in [Sessions -> [Mains -> 0 .. MaxFollowUps]]
  BY <1>1, <1>2 DEF TypeInv, TypeOK, FollowUpsSaved
<1>11. current' \in [Sessions -> Questions \cup {None}]
  BY <1>1, <1>2 DEF TypeInv, TypeOK
<1>12. /\ status' \in [Sessions -> {"CREATED", "IN_PROGRESS", "DELETED"} \cup Closed]
       /\ evalStatus' \in [Sessions -> {"PENDING", "COMPLETED", None}]
  BY <1>1, <1>2 DEF TypeInv, TypeOK, Closed
<1>13. /\ old' \subseteq Sessions /\ evalQueue' \subseteq Sessions
       /\ turnCache' \in [Sessions -> [Requests -> Questions \cup {None}]]
       /\ faults' \in 0 .. MaxFaults
  BY <1>2 DEF TypeInv, TypeOK
<1>14. QED
  BY <1>8, <1>9, <1>10, <1>11, <1>12, <1>13, Assemble

\* Queueing the evaluation preserves TypeInv.
LEMMA EnqueueType ==
  ASSUME TypeInv, NEW p \in Procs, EnqueueEvaluation(p)
  PROVE  TypeInv'
<1> DEFINE l == proc[p]
<1>1. l \in ProcState /\ LocalsOK(l) /\ l.pc = "enqueue" /\ l.session \in Sessions
  BY DEF EnqueueEvaluation, TypeInv, TypeOK, LocalsOK
<1>2. Resumed(l) \in ProcState /\ LocalsOK(Resumed(l))
  BY <1>1, ResumedType
<1>3. ProcsMove
  BY <1>2, MoveType DEF EnqueueEvaluation
<1>4. evalQueue' \subseteq Sessions /\ faults' \in 0 .. MaxFaults
  BY <1>1, ConstantsAssumption DEF EnqueueEvaluation, TypeInv, TypeOK
<1>5. QED
  BY <1>3, <1>4, Assemble DEF EnqueueEvaluation, TypeInv, TypeOK, rows

\* Caching the reply preserves TypeInv.
LEMMA ReplyTurnType ==
  ASSUME TypeInv, NEW c \in Calls, ReplyFresh(c) \/ ReplyReplayed(c)
  PROVE  TypeInv'
<1> DEFINE l == proc[c]
           m(t) == [l EXCEPT !.pc = "done", !.reply = t]
<1>1. /\ l \in ProcState /\ l.session \in Sessions /\ l.question \in Questions
      /\ UNCHANGED <<rows, old, evalQueue, faults>>
  BY DEF ReplyFresh, ReplyReplayed, TypeInv, TypeOK, LocalsOK
<1>2. \/ turnCache' = turnCache
      \/ turnCache' = [turnCache EXCEPT ![l.session][l.request] = l.question]
  BY DEF ReplyFresh, ReplyReplayed
<1>21. ASSUME NEW s \in Sessions, NEW r, NEW q \in Questions
       PROVE  [turnCache EXCEPT ![s][r] = q] \in [Sessions -> [Requests -> Questions \cup {None}]]
  BY DEF TypeInv, TypeOK
<1>22. turnCache' \in [Sessions -> [Requests -> Questions \cup {None}]]
  <2>1. CASE turnCache' = turnCache
    BY <2>1 DEF TypeInv, TypeOK
  <2>2. CASE turnCache' = [turnCache EXCEPT ![l.session][l.request] = l.question]
    BY <1>1, <1>21, <2>2, Zenon
  <2>3. QED
    BY <1>2, <2>1, <2>2
<1>3. ASSUME ReplyFresh(c) PROVE ProcsMove
  BY <1>1, <1>3, GotoType DEF ReplyFresh, ProcsMove, TypeInv, TypeOK, jobs
<1>4. ASSUME ReplyReplayed(c) PROVE ProcsMove
  <2>1. CASE Raise(c)
    BY <2>1, RaiseType
  <2>2. CASE /\ proc' = [proc EXCEPT ![c].pc = "done",
                                     ![c].reply = Row(l.session, l.question)]
             /\ UNCHANGED jobs
    <3>1. Row(l.session, l.question) \in TurnRow
      BY <1>1, RowType
    <3>2. ASSUME NEW t \in TurnRow
          PROVE  m(t) \in ProcState /\ m(t).pc = "done" /\ m(t).session = l.session
      BY <1>1 DEF ProcState
    <3>3. proc' = [proc EXCEPT ![c] = m(Row(l.session, l.question))]
      BY <2>2 DEF TypeInv, TypeOK
    <3> HIDE DEF m
    <3>4. LocalsOK(m(Row(l.session, l.question)))
      BY <1>1, <3>1, <3>2 DEF LocalsOK
    <3>5. QED
      BY <2>2, <3>1, <3>2, <3>3, <3>4, MoveType
  <2>3. QED
    BY <1>4, <2>1, <2>2 DEF ReplyReplayed
<1>5. ProcsMove
  BY <1>3, <1>4
<1>6. QED
  BY <1>1, <1>22, <1>5, Assemble DEF TypeInv, TypeOK, rows

\* complete_session preserves TypeInv.
LEMMA CloseType ==
  ASSUME TypeInv, NEW c \in Calls, CompleteSession(c)
  PROVE  TypeInv'
<1> DEFINE l == proc[c]
           m == [l EXCEPT !.pc = "enqueue", !.ret = "idle"]
<1>1. /\ l \in ProcState /\ l.session \in Sessions
      /\ UNCHANGED <<old, evalQueue, turnCache, faults>>
  BY DEF CompleteSession, TypeInv, TypeOK, LocalsOK
<1>2. CASE Raise(c) /\ UNCHANGED rows
  <2>1. ProcsMove
    BY <1>2, RaiseType
  <2>2. QED
    BY <1>1, <1>2, <2>1, Assemble DEF TypeInv, TypeOK, rows
<1>3. CASE /\ status' = [status EXCEPT ![l.session] = "COMPLETED"]
           /\ current' = [current EXCEPT ![l.session] = None]
           /\ evalStatus' = [evalStatus EXCEPT ![l.session] = "PENDING"]
           /\ proc' = [proc EXCEPT ![c].pc = "enqueue", ![c].ret = "idle"]
           /\ UNCHANGED <<followUps, turns, jobs>>
  <2>1. m \in ProcState /\ m.pc = "enqueue" /\ m.ret = "idle" /\ m.session = l.session
    BY <1>1 DEF ProcState
  <2>2. LocalsOK(m)
    BY <1>1, <2>1 DEF LocalsOK
  <2>3. proc' = [proc EXCEPT ![c] = m]
    BY <1>3 DEF TypeInv, TypeOK
  <2>4. ProcsMove
    BY <1>3, <2>1, <2>2, <2>3, MoveType
  <2>5. QED
    BY <1>1, <1>3, <2>4, Assemble DEF TypeInv, TypeOK, Closed
<1>4. QED
  BY <1>2, <1>3 DEF CompleteSession

\* delete_session preserves TypeInv.
LEMMA DeleteType ==
  ASSUME TypeInv, NEW s \in Sessions, DeleteSession(s)
  PROVE  TypeInv'
<1>1. 0 \in 0 .. MaxFollowUps
  BY ConstantsAssumption
<1>2. /\ turns' \in [Sessions -> [Questions -> TurnRow]]
      /\ followUps' \in [Sessions -> [Mains -> 0 .. MaxFollowUps]]
  BY <1>1, NoTurnType DEF DeleteSession, TypeInv, TypeOK
<1>3. ProcsMove
  BY DEF DeleteSession, ProcsMove, TypeInv, TypeOK, jobs
<1>4. QED
  BY <1>2, <1>3, Assemble DEF DeleteSession, TypeInv, TypeOK

\* Requeueing by the job preserves TypeInv.
LEMMA RequeueType ==
  ASSUME TypeInv, RequeueEvaluation
  PROVE  TypeInv'
<1>1. /\ evalQueue' \subseteq Sessions /\ faults' \in 0 .. MaxFaults
      /\ UNCHANGED <<rows, old, turnCache>>
  BY ConstantsAssumption DEF RequeueEvaluation, TypeInv, TypeOK
<1>2. ProcsMove
  BY RaiseType DEF RequeueEvaluation, ProcsMove, TypeInv, TypeOK
<1>3. QED
  BY <1>1, <1>2, Assemble DEF TypeInv, TypeOK, rows

\* A crash preserves TypeInv.
LEMMA CrashType ==
  ASSUME TypeInv, NEW p \in Procs, Crash(p)
  PROVE  TypeInv'
<1>1. ProcsMove
  BY RaiseType DEF Crash
<1>2. faults' \in 0 .. MaxFaults
  BY ConstantsAssumption DEF Crash, TypeInv, TypeOK
<1>3. QED
  BY <1>1, <1>2, Assemble DEF Crash, TypeInv, TypeOK, rows

\* Time and the evaluation worker preserve TypeInv.
LEMMA TimeType ==
  ASSUME TypeInv,
         TimeStep \/ \E s \in Sessions : SaveReport(s)
  PROVE  TypeInv'
<1>0. UNCHANGED <<proc, jobs>> => ProcsMove
  BY DEF ProcsMove, TypeInv, TypeOK, jobs
<1>1. ASSUME NEW s \in Sessions, NEW q \in Questions, LeaseExpires(s, q)
      PROVE  TypeInv'
  <2>0. turns[s][q] \in TurnRow
    BY DEF TypeInv, TypeOK
  <2>1. [turns[s][q] EXCEPT !.expired = TRUE] \in TurnRow
    BY <2>0 DEF TurnRow
  <2>2. turns' = [turns EXCEPT ![s][q] = [turns[s][q] EXCEPT !.expired = TRUE]]
    BY <1>1 DEF LeaseExpires, TypeInv, TypeOK
  <2>3. turns' \in [Sessions -> [Questions -> TurnRow]]
    BY <2>1, <2>2 DEF TypeInv, TypeOK
  <2>4. QED
    BY <1>0, <1>1, <2>3, Assemble DEF LeaseExpires, TypeInv, TypeOK
<1>2. ASSUME NEW s \in Sessions, GrowsOld(s)
      PROVE  TypeInv'
  BY <1>0, <1>2, Assemble DEF GrowsOld, TypeInv, TypeOK, rows
<1>3. ASSUME NEW s \in Sessions, NEW r \in Requests, CacheExpires(s, r)
      PROVE  TypeInv'
  <2>1. /\ turnCache' \in [Sessions -> [Requests -> Questions \cup {None}]]
        /\ faults' \in 0 .. MaxFaults
    BY <1>3, ConstantsAssumption DEF CacheExpires, TypeInv, TypeOK
  <2>2. QED
    BY <1>0, <1>3, <2>1, Assemble DEF CacheExpires, TypeInv, TypeOK, rows
<1>4. ASSUME NEW s \in Sessions, SaveReport(s)
      PROVE  TypeInv'
  BY <1>0, <1>4, Assemble DEF SaveReport, TypeInv, TypeOK, Closed
<1>5. QED
  BY <1>1, <1>2, <1>3, <1>4 DEF TimeStep

\* The steps that only move processes.
LEMMA AllMoves ==
  ASSUME TypeInv, RowsInv,
         \/ \E c \in Calls : \/ SubmitTurn(c) \/ LookupTurn(c) \/ BeginExisting(c)
                             \/ BeginRejected(c) \/ Decide(c) \/ WaitOver(c)
                             \/ WaitRecover(c) \/ WaitTimeout(c) \/ Return(c)
                             \/ CompleteInterview(c) \/ CompleteRead(c)
         \/ \E p \in Procs : \/ FinalizeSuperseded(p) \/ FinalizeRejected(p)
                             \/ RecoverTurn(p)
         \/ ScanTurns \/ RecoverNext \/ ScanEvaluations \/ RecoverDone
  PROVE  Moved
<1>1. ASSUME NEW c \in Calls, BeginExisting(c)
      PROVE  Moved
  BY <1>1, ReplayType DEF BeginExisting, Moved
<1>2. ASSUME NEW c \in Calls, BeginRejected(c)
      PROVE  Moved
  BY <1>2, RaiseType DEF BeginRejected, Moved
<1>3. ASSUME NEW c \in Calls, Return(c)
      PROVE  Moved
  BY <1>3, IdleType, MoveType DEF Return, Moved
<1>4. QED
  BY <1>1, <1>2, <1>3, SubmitType, LookupType, DecideType, WaitType, CompleteType,
     FinalizeMoves, RecoverType, SchedulerMoves

\* TypeInv holds in the initial states.
LEMMA TypeInit == Init => TypeInv
<1> SUFFICES ASSUME Init PROVE TypeInv
  OBVIOUS
<1>1. 0 \in Mains /\ 0 \in 0 .. MaxFollowUps /\ 0 \in 0 .. MaxFaults
  BY ConstantsAssumption DEF Mains
<1>2. <<0, 0>> \in Questions
  BY <1>1, QuestionPairs
<1>3. QED
  BY <1>1, <1>2, IdleType, NoTurnType DEF Init, TypeInv, TypeOK

\* Every step preserves TypeInv.
LEMMA TypeStep == TypeInv /\ RowsInv /\ [Next]_vars => TypeInv'
<1> SUFFICES ASSUME TypeInv, RowsInv, [Next]_vars PROVE TypeInv'
  OBVIOUS
<1>1. CASE UNCHANGED vars
  BY <1>1, LocalsPreserved DEF vars, rows, jobs, TypeInv, TypeOK
<1>2. ASSUME NEW c \in Calls, CallStep(c)
      PROVE  TypeInv'
  BY <1>2, AllMoves, MovedType, BeginType, FinalizeType, EnqueueType,
     ReplyTurnType, CloseType DEF CallStep
<1>3. CASE SchedulerStep
  BY <1>3, AllMoves, MovedType, FinalizeType, EnqueueType, RequeueType DEF SchedulerStep
<1>4. CASE ClientStep
  BY <1>4, AllMoves, MovedType, DeleteType DEF ClientStep
<1>5. CASE TimeStep \/ \E s \in Sessions : SaveReport(s)
  BY <1>5, TimeType
<1>6. ASSUME NEW p \in Procs, Crash(p)
      PROVE  TypeInv'
  BY <1>6, CrashType
<1>7. QED
  BY <1>1, <1>2, <1>3, <1>4, <1>5, <1>6 DEF Next

-----------------------------------------------------------------------------
(* The walk of one session                                                 *)

\* A pair is a question exactly when both numbers agree.
LEMMA PairEquality ==
  ASSUME NEW q \in Questions, NEW m, NEW k
  PROVE  <<m, k>> = q <=> m = q[1] /\ k = q[2]
BY DEF Questions

\* Each link of a chain but the last is a question.
LEMMA ChainPairs ==
  \A m \in Mains, k \in 0 .. (MaxFollowUps - 1) : <<m, k>> \in Questions
<1> TAKE m \in Mains, k \in 0 .. (MaxFollowUps - 1)
<1>1. k \in 0 .. MaxFollowUps
  BY ConstantsAssumption
<1>2. QED
  BY <1>1, QuestionPairs

\* Every number below a main question's is a main question.
LEMMA EarlierMains == \A q \in Questions : \A m \in 0 .. (q[1] - 1) : m \in Mains
BY QuestionPairs, ConstantsAssumption DEF Mains

\* A turn on the current question leaves the session where it is.
LEMMA WalkBegin ==
  ASSUME NEW f \in [Mains -> 0 .. MaxFollowUps], NEW t \in [Questions -> TurnRow],
         NEW c, NEW r, Walked(f, t), StandsOn(c, f, t),
         t[c].state = "NONE", r.state = "PROCESSING", r.action = None
  PROVE  LET u == [t EXCEPT ![c] = r]
         IN Walked(f, u) /\ StandsOn(c, f, u)
<1> DEFINE u == [t EXCEPT ![c] = r]
<1>1. c \in Questions /\ t[c].action = None
  BY DEF StandsOn, Walked
<1>2. /\ \A q \in Questions : u[q].action = t[q].action
      /\ \A q \in Questions : q # c => u[q] = t[q]
      /\ u[c].state = "PROCESSING"
  BY <1>1
<1>3. \A m \in Mains : f[m] \in 0 .. MaxFollowUps /\ <<m, f[m]>> \in Questions
  BY QuestionPairs
<1>4. \A q \in Questions : \A m \in 0 .. (q[1] - 1) : m \in Mains
  BY EarlierMains
<1>5. \A m \in Mains, k \in 0 .. (MaxFollowUps - 1) : <<m, k>> \in Questions
  BY ChainPairs
<1> HIDE DEF u
<1>6. Walked(f, u)
  <2>1. \A m \in Mains, k \in 0 .. (MaxFollowUps - 1) :
          k < f[m] <=> u[<<m, k>>].action = "FOLLOW_UP"
    <3> TAKE m \in Mains, k \in 0 .. (MaxFollowUps - 1)
    <3>1. k < f[m] <=> t[<<m, k>>].action = "FOLLOW_UP"
      BY DEF Walked
    <3>2. u[<<m, k>>].action = t[<<m, k>>].action
      BY <1>2, <1>5
    <3>3. QED
      BY <3>1, <3>2
  <2>2. ASSUME NEW q \in Questions, u[q].state # "NONE"
        PROVE  /\ q[2] <= f[q[1]]
               /\ \A m \in 0 .. (q[1] - 1) : u[<<m, f[m]>>].action = "NEXT_MAIN"
    <3>1. CASE q = c
      <4>1. q[2] <= f[q[1]]
        BY <3>1, <1>3, QuestionPairs DEF StandsOn
      <4>2. \A m \in 0 .. (q[1] - 1) : t[<<m, f[m]>>].action = "NEXT_MAIN"
        BY <3>1 DEF StandsOn
      <4>3. QED
        BY <4>1, <4>2, <1>2, <1>3, <1>4
    <3>2. CASE q # c
      BY <2>2, <3>2, <1>2, <1>3, <1>4 DEF Walked
    <3>3. QED
      BY <3>1, <3>2
  <2>3. \A q \in Questions :
          u[q].state \in {"NONE", "PROCESSING"} => u[q].action = None
    BY <1>1, <1>2 DEF Walked
  <2>4. QED
    BY <2>1, <2>2, <2>3 DEF Walked
<1>7. StandsOn(c, f, u)
  <2>1. \A q \in Questions : /\ u[q].state = "PROCESSING" => c = q
                             /\ u[q].state # "NONE" => q[1] <= c[1]
    BY <1>1, <1>2, QuestionPairs DEF StandsOn, Mains
  <2>2. \A m \in 0 .. (c[1] - 1) : u[<<m, f[m]>>].action = "NEXT_MAIN"
    BY <1>1, <1>2, <1>3, <1>4 DEF StandsOn
  <2>3. QED
    BY <1>1, <1>2, <2>1, <2>2 DEF StandsOn
<1>8. QED
  BY <1>6, <1>7 DEF u

\* A decided turn whose action keeps the chain as long as it is.
LEMMA WalkDecided ==
  ASSUME NEW f \in [Mains -> 0 .. MaxFollowUps], NEW t \in [Questions -> TurnRow],
         NEW c, NEW r, Walked(f, t), StandsOn(c, f, t),
         r.state \in Decided, r.action \in {"NEXT_MAIN", "COMPLETE"}
  PROVE  Walked(f, [t EXCEPT ![c] = r])
<1> DEFINE u == [t EXCEPT ![c] = r]
<1>1. c \in Questions /\ c[1] \in Mains /\ c[2] = f[c[1]]
  BY QuestionPairs DEF StandsOn
<1>2. u[c] = r /\ \A q \in Questions : q # c => u[q] = t[q]
  BY <1>1
<1>3. \A m \in Mains : f[m] \in 0 .. MaxFollowUps /\ <<m, f[m]>> \in Questions
  BY QuestionPairs
<1> HIDE DEF u
<1>4. ASSUME NEW m \in Mains, NEW k \in 0 .. (MaxFollowUps - 1)
      PROVE  k < f[m] <=> u[<<m, k>>].action = "FOLLOW_UP"
  <2>1. k < f[m] <=> t[<<m, k>>].action = "FOLLOW_UP"
    BY DEF Walked
  <2>2. <<m, k>> \in Questions /\ (<<m, k>> = c <=> m = c[1] /\ k = c[2])
    BY <1>1, ChainPairs, PairEquality
  <2>3. CASE <<m, k>> = c
    BY <1>1, <1>2, <1>3, <2>2, <2>3
  <2>4. CASE <<m, k>> # c
    BY <1>2, <2>1, <2>2, <2>4
  <2>5. QED
    BY <2>3, <2>4
<1>5. ASSUME NEW q \in Questions, u[q].state # "NONE"
      PROVE  /\ q[2] <= f[q[1]]
             /\ \A m \in 0 .. (q[1] - 1) : u[<<m, f[m]>>].action = "NEXT_MAIN"
  <2>1. q[1] <= c[1] /\ q[2] <= f[q[1]]
    BY <1>1, <1>2, <1>3, <1>5, QuestionPairs DEF Walked, StandsOn, Mains
  <2>2. ASSUME NEW m \in 0 .. (q[1] - 1)
        PROVE  u[<<m, f[m]>>].action = "NEXT_MAIN"
    <3>1. m \in Mains /\ m < c[1] /\ m \in 0 .. (c[1] - 1)
      BY <1>1, <2>1, EarlierMains, QuestionPairs, ConstantsAssumption DEF Mains
    <3>2. <<m, f[m]>> \in Questions /\ <<m, f[m]>> # c
      BY <1>1, <1>3, <3>1, PairEquality DEF Mains
    <3>3. t[<<m, f[m]>>].action = "NEXT_MAIN"
      BY <3>1 DEF StandsOn
    <3>4. QED
      BY <1>2, <3>2, <3>3
  <2>3. QED
    BY <2>1, <2>2
<1>6. \A q \in Questions :
        u[q].state \in {"NONE", "PROCESSING"} => u[q].action = None
  BY <1>2 DEF Walked, Decided
<1>7. QED
  BY <1>4, <1>5, <1>6 DEF Walked, u

\* finalize_turn adds a follow-up question and moves to it.
LEMMA WalkFollowUp ==
  ASSUME NEW f \in [Mains -> 0 .. MaxFollowUps], NEW t \in [Questions -> TurnRow],
         NEW c, NEW r, Walked(f, t), StandsOn(c, f, t),
         r.state \in Decided, r.action = "FOLLOW_UP",
         f[c[1]] + 1 \in 0 .. MaxFollowUps
  PROVE  LET g == [f EXCEPT ![c[1]] = @ + 1]
             u == [t EXCEPT ![c] = r]
         IN Walked(g, u) /\ StandsOn(<<c[1], f[c[1]] + 1>>, g, u)
<1> DEFINE g == [f EXCEPT ![c[1]] = @ + 1]
           u == [t EXCEPT ![c] = r]
           n == <<c[1], f[c[1]] + 1>>
<1>1. c \in Questions /\ c[1] \in Mains /\ c[2] = f[c[1]]
  BY QuestionPairs DEF StandsOn
<1>2. u[c] = r /\ \A q \in Questions : q # c => u[q] = t[q]
  BY <1>1
<1>3. \A m \in Mains : f[m] \in 0 .. MaxFollowUps /\ <<m, f[m]>> \in Questions
  BY QuestionPairs
<1>4. g[c[1]] = f[c[1]] + 1 /\ \A m \in Mains : m # c[1] => g[m] = f[m]
  BY <1>1
<1>5. n \in Questions /\ n[1] = c[1] /\ n[2] = f[c[1]] + 1 /\ n # c
  BY <1>1, <1>3, QuestionPairs
<1> HIDE DEF u, g, n
<1>6. ASSUME NEW m \in Mains, NEW k \in 0 .. (MaxFollowUps - 1)
      PROVE  k < g[m] <=> u[<<m, k>>].action = "FOLLOW_UP"
  <2>1. k < f[m] <=> t[<<m, k>>].action = "FOLLOW_UP"
    BY DEF Walked
  <2>2. <<m, k>> \in Questions /\ (<<m, k>> = c <=> m = c[1] /\ k = c[2])
    BY <1>1, ChainPairs, PairEquality
  <2>3. CASE <<m, k>> = c
    BY <1>1, <1>2, <1>3, <1>4, <2>2, <2>3
  <2>4. CASE <<m, k>> # c
    <3>1. k < g[m] <=> k < f[m]
      BY <1>1, <1>3, <1>4, <2>2, <2>4
    <3>2. QED
      BY <1>2, <2>1, <2>2, <2>4, <3>1
  <2>5. QED
    BY <2>3, <2>4
<1>7. \A m \in 0 .. (c[1] - 1) : u[<<m, g[m]>>].action = "NEXT_MAIN"
  <2> TAKE m \in 0 .. (c[1] - 1)
  <2>1. m \in Mains /\ m < c[1]
    BY <1>1, EarlierMains, ConstantsAssumption DEF Mains
  <2>2. <<m, f[m]>> \in Questions /\ <<m, f[m]>> # c /\ g[m] = f[m]
    BY <1>1, <1>3, <1>4, <2>1, PairEquality DEF Mains
  <2>3. t[<<m, f[m]>>].action = "NEXT_MAIN"
    BY DEF StandsOn
  <2>4. QED
    BY <1>2, <2>2, <2>3
<1>8. ASSUME NEW q \in Questions, u[q].state # "NONE"
      PROVE  /\ q[1] <= c[1]
             /\ q[2] <= g[q[1]]
             /\ \A m \in 0 .. (q[1] - 1) : u[<<m, g[m]>>].action = "NEXT_MAIN"
  <2>1. q[1] <= c[1] /\ q[2] <= f[q[1]] /\ q[1] \in Mains /\ q[2] \in 0 .. MaxFollowUps
    BY <1>1, <1>2, <1>3, <1>8, QuestionPairs DEF Walked, StandsOn, Mains
  <2>2. q[2] <= g[q[1]]
    BY <1>1, <1>3, <1>4, <2>1, ConstantsAssumption
  <2>3. \A m \in 0 .. (q[1] - 1) : m \in 0 .. (c[1] - 1)
    BY <1>1, <2>1, ConstantsAssumption DEF Mains
  <2>4. QED
    BY <1>7, <2>1, <2>2, <2>3
<1>9. \A q \in Questions :
        /\ u[q].state \in {"NONE", "PROCESSING"} => u[q].action = None
        /\ u[q].state # "PROCESSING"
  BY <1>2 DEF Walked, StandsOn, Decided
<1>10. u[n].state = "NONE"
  BY <1>1, <1>2, <1>3, <1>5 DEF Walked
<1>11. \A m \in Mains : m > c[1] => g[m] = 0
  BY <1>1, <1>4 DEF StandsOn, Mains
<1>12. Walked(g, u)
  BY <1>6, <1>8, <1>9 DEF Walked
<1>13. StandsOn(n, g, u)
  BY <1>4, <1>5, <1>7, <1>8, <1>9, <1>10, <1>11 DEF StandsOn
<1>14. QED
  BY <1>12, <1>13 DEF g, u, n

\* finalize_turn moves to the next main question.
LEMMA WalkNextMain ==
  ASSUME NEW f \in [Mains -> 0 .. MaxFollowUps], NEW t \in [Questions -> TurnRow],
         NEW c, NEW r, Walked(f, t), StandsOn(c, f, t),
         r.state \in Decided, r.action = "NEXT_MAIN",
         <<c[1] + 1, 0>> \in Questions
  PROVE  StandsOn(<<c[1] + 1, 0>>, f, [t EXCEPT ![c] = r])
<1> DEFINE u == [t EXCEPT ![c] = r]
           n == <<c[1] + 1, 0>>
<1>1. c \in Questions /\ c[1] \in Mains /\ c[2] = f[c[1]] /\ c = <<c[1], c[2]>>
  BY QuestionPairs DEF StandsOn
<1>2. u[c] = r /\ \A q \in Questions : q # c => u[q] = t[q]
  BY <1>1
<1>3. \A m \in Mains : f[m] \in 0 .. MaxFollowUps /\ <<m, f[m]>> \in Questions
  BY QuestionPairs
<1>4. n \in Questions /\ n[1] = c[1] + 1 /\ n[2] = 0 /\ n[1] \in Mains /\ n # c
  BY <1>1, QuestionPairs, ConstantsAssumption DEF Mains
<1> HIDE DEF u, n
<1>5. f[n[1]] = 0
  BY <1>1, <1>4 DEF StandsOn, Mains
<1>6. ASSUME NEW q \in Questions
      PROVE  /\ u[q].state # "PROCESSING"
             /\ u[q].state # "NONE" => q[1] <= n[1]
  BY <1>1, <1>2, <1>4, QuestionPairs DEF StandsOn, Decided, Mains
<1>7. u[n].state = "NONE"
  BY <1>1, <1>2, <1>4 DEF StandsOn, Mains
<1>8. ASSUME NEW m \in 0 .. (n[1] - 1)
      PROVE  u[<<m, f[m]>>].action = "NEXT_MAIN"
  <2>1. m \in Mains /\ (m = c[1] \/ m \in 0 .. (c[1] - 1))
    BY <1>1, <1>4, EarlierMains, ConstantsAssumption DEF Mains
  <2>2. CASE m = c[1]
    BY <1>1, <1>2, <2>2
  <2>3. CASE m \in 0 .. (c[1] - 1)
    <3>1. <<m, f[m]>> \in Questions /\ <<m, f[m]>> # c
      BY <1>1, <1>3, <2>1, <2>3, PairEquality DEF Mains
    <3>2. t[<<m, f[m]>>].action = "NEXT_MAIN"
      BY <2>3 DEF StandsOn
    <3>3. QED
      BY <1>2, <3>1, <3>2
  <2>4. QED
    BY <2>1, <2>2, <2>3
<1>9. \A m \in Mains : m > n[1] => f[m] = 0
  BY <1>1, <1>4 DEF StandsOn, Mains
<1>10. QED
  BY <1>4, <1>5, <1>6, <1>7, <1>8, <1>9 DEF StandsOn, u, n

\* What the invariant says of a session depends on the states and actions of
\* its turns only: not on leases, nor on who asked.
LEMMA WalkSame ==
  ASSUME NEW f \in [Mains -> 0 .. MaxFollowUps], NEW t, NEW u,
         \A q \in Questions : u[q].state = t[q].state /\ u[q].action = t[q].action
  PROVE  /\ Walked(f, t) => Walked(f, u)
         /\ \A c : StandsOn(c, f, t) => StandsOn(c, f, u)
<1>1. \A m \in Mains : <<m, f[m]>> \in Questions
  BY QuestionPairs
<1>2. ASSUME NEW m \in Mains, NEW k \in 0 .. (MaxFollowUps - 1)
      PROVE  u[<<m, k>>].action = t[<<m, k>>].action
  BY ChainPairs
<1>3. ASSUME NEW q \in Questions, NEW m \in 0 .. (q[1] - 1)
      PROVE  u[<<m, f[m]>>].action = t[<<m, f[m]>>].action
  BY <1>1, EarlierMains
<1>4. Walked(f, t) => Walked(f, u)
  BY <1>2, <1>3 DEF Walked
<1>5. \A c : StandsOn(c, f, t) => StandsOn(c, f, u)
  BY <1>3 DEF StandsOn
<1>6. QED
  BY <1>4, <1>5

-----------------------------------------------------------------------------
(* Every step keeps every session on its walk                              *)

SessionKept(s) ==
  /\ Open(s)' <=> Open(s)
  /\ current'[s] = current[s]
  /\ followUps'[s] = followUps[s]
  /\ \A q \in Questions : /\ turns'[s][q].state = turns[s][q].state
                          /\ turns'[s][q].action = turns[s][q].action

\* A session whose rows a step leaves alone keeps its invariant.
LEMMA KeptSession ==
  ASSUME TypeInv, NEW s \in Sessions, SessionInv(s), SessionKept(s)
  PROVE  SessionInv(s)'
<1>1. followUps[s] \in [Mains -> 0 .. MaxFollowUps]
  BY DEF TypeInv, TypeOK
<1>2. /\ Walked(followUps[s], turns[s]) => Walked(followUps[s], turns'[s])
      /\ \A c : StandsOn(c, followUps[s], turns[s]) => StandsOn(c, followUps[s], turns'[s])
  BY <1>1, WalkSame DEF SessionKept
<1>3. Walked(followUps'[s], turns'[s])
  BY <1>2 DEF SessionInv, SessionKept
<1>4. Open(s)' => StandsOn(current'[s], followUps'[s], turns'[s])
  BY <1>2 DEF SessionInv, SessionKept
<1>5. ~Open(s)' => current'[s] = None
  BY DEF SessionInv, SessionKept
<1>6. QED
  BY <1>3, <1>4, <1>5 DEF SessionInv

\* Steps that leave the rows alone, and those that touch columns the
\* invariant does not look at.
LEMMA RowsKept ==
  ASSUME TypeInv, RowsInv,
         \/ UNCHANGED rows
         \/ \E s \in Sessions, q \in Questions : LeaseExpires(s, q)
         \/ \E s \in Sessions : SaveReport(s)
  PROVE  RowsInv'
<1>1. CASE UNCHANGED rows
  <2>1. \A s \in Sessions : SessionKept(s)
    BY <1>1 DEF SessionKept, rows, Open
  <2>2. QED
    BY <2>1, KeptSession DEF RowsInv
<1>2. ASSUME NEW x \in Sessions, NEW y \in Questions, LeaseExpires(x, y)
      PROVE  RowsInv'
  <2>1. ASSUME NEW s \in Sessions, NEW q \in Questions
        PROVE  /\ turns'[s][q].state = turns[s][q].state
               /\ turns'[s][q].action = turns[s][q].action
    <3>1. turns' = [turns EXCEPT ![x][y] = [turns[x][y] EXCEPT !.expired = TRUE]]
      BY <1>2 DEF LeaseExpires, TypeInv, TypeOK
    <3>2. turns[x][y] \in TurnRow
      BY DEF TypeInv, TypeOK
    <3> DEFINE r == [turns[x][y] EXCEPT !.expired = TRUE]
    <3>3. r.state = turns[x][y].state /\ r.action = turns[x][y].action
      BY <3>2 DEF TurnRow
    <3>4. turns' = [turns EXCEPT ![x][y] = r]
      BY <3>1
    <3> HIDE DEF r
    <3>5. QED
      BY <3>3, <3>4 DEF TypeInv, TypeOK
  <2>2. \A s \in Sessions : SessionKept(s)
    BY <1>2, <2>1 DEF LeaseExpires, SessionKept, Open
  <2>3. QED
    BY <2>2, KeptSession DEF RowsInv
<1>3. ASSUME NEW x \in Sessions, SaveReport(x)
      PROVE  RowsInv'
  <2>1. \A s \in Sessions : SessionKept(s)
    BY <1>3 DEF SaveReport, SessionKept, Open, Closed, TypeInv, TypeOK
  <2>2. QED
    BY <2>1, KeptSession DEF RowsInv
<1>4. QED
  BY <1>1, <1>2, <1>3

\* A step on the rows of session x leaves the others alone.
LEMMA OneSession ==
  ASSUME TypeInv, RowsInv, NEW x \in Sessions, SessionInv(x)',
         NEW st, NEW c, NEW f, NEW t,
         status' = [status EXCEPT ![x] = st],
         current' = [current EXCEPT ![x] = c],
         followUps' = [followUps EXCEPT ![x] = f],
         turns' = [turns EXCEPT ![x] = t]
  PROVE  RowsInv'
<1>1. \A s \in Sessions : s # x => SessionKept(s)
  BY DEF SessionKept, Open, TypeInv, TypeOK
<1>2. QED
  BY <1>1, KeptSession DEF RowsInv

\* begin_turn preserves the invariant on rows.
LEMMA BeginRows ==
  ASSUME TypeInv, RowsInv, NEW c \in Calls, BeginTurn(c)
  PROVE  RowsInv'
<1> DEFINE l == proc[c]
           r == [NoTurn EXCEPT !.state = "PROCESSING",
                   !.request = l.request, !.answer = l.answer]
<1>1. PICK s \in Sessions, q \in Questions : s = l.session /\ q = l.question
  BY DEF TypeInv, LocalsOK, BeginTurn
<1>2. Open(s) /\ current[s] = q
  BY <1>1 DEF BeginTurn, MayBegin, Open, TypeInv, TypeOK
<1>3. turns[s][q].state = "NONE"
  BY <1>1 DEF BeginTurn, ExistingTurns, HasTurn
<1>4. r.state = "PROCESSING" /\ r.action = None
  BY DEF NoTurn
<1>5. /\ status' = [status EXCEPT ![s] = "IN_PROGRESS"]
      /\ turns' = [turns EXCEPT ![s][q] = r]
      /\ UNCHANGED <<current, followUps>>
  BY <1>1 DEF BeginTurn
<1> HIDE DEF r
<1>6. Walked(followUps[s], turns[s]) /\ StandsOn(q, followUps[s], turns[s])
  BY <1>1, <1>2 DEF RowsInv, SessionInv
<1>7. followUps[s] \in [Mains -> 0 .. MaxFollowUps] /\ turns[s] \in [Questions -> TurnRow]
  BY <1>1 DEF TypeInv, TypeOK
<1>8. LET u == [turns[s] EXCEPT ![q] = r]
      IN Walked(followUps[s], u) /\ StandsOn(q, followUps[s], u)
  BY <1>3, <1>4, <1>6, <1>7, WalkBegin
<1>9. /\ status'[s] = "IN_PROGRESS" /\ current'[s] = q /\ followUps'[s] = followUps[s]
      /\ turns'[s] = [turns[s] EXCEPT ![q] = r]
  BY <1>1, <1>2, <1>5 DEF TypeInv, TypeOK
<1>10. SessionInv(s)'
  BY <1>8, <1>9 DEF SessionInv, Open
<1>11. /\ status' = [status EXCEPT ![s] = "IN_PROGRESS"]
       /\ current' = [current EXCEPT ![s] = current[s]]
       /\ followUps' = [followUps EXCEPT ![s] = followUps[s]]
       /\ turns' = [turns EXCEPT ![s] = [turns[s] EXCEPT ![q] = r]]
  BY <1>1, <1>5 DEF TypeInv, TypeOK
<1>12. QED
  BY <1>1, <1>10, <1>11, OneSession

\* finalize_turn preserves the invariant on rows.
LEMMA FinalizeRows ==
  ASSUME TypeInv, RowsInv, NEW p \in Procs, FinalizeTurn(p)
  PROVE  RowsInv'
<1>0. PICK s \in Sessions, q \in Questions :
        s = proc[p].session /\ q = proc[p].question
  BY DEF TypeInv, LocalsOK, FinalizeTurn
<1> DEFINE e == EffectiveAction(s, q, proc[p].action)
           n == NextQuestion(s, q, e)
           r == [Row(s, q) EXCEPT !.state = proc[p].result, !.action = e, !.next = n]
           f == followUps[s]
           g == [f EXCEPT ![q[1]] = @ + 1]
           u == [turns[s] EXCEPT ![q] = r]
<1>1. /\ s \in Sessions /\ q \in Questions /\ q[1] \in Mains
      /\ r.state \in Decided /\ r.action = e /\ e \in Actions
      /\ e = "FOLLOW_UP" => f[q[1]] + 1 \in 0 .. MaxFollowUps /\ n = <<q[1], f[q[1]] + 1>>
      /\ e = "NEXT_MAIN" => n = <<q[1] + 1, 0>> /\ n \in Questions
      /\ e = "COMPLETE" => n = None
  BY <1>0, FinalizeValues
<1>2. /\ status[s] # "DELETED"
      /\ MayFinalize(s, q)
      /\ turns' = [turns EXCEPT ![s][q] = r]
      /\ followUps' = FollowUpsSaved(s, q, e)
      /\ current' = [current EXCEPT ![s] = n]
      /\ status' = [status EXCEPT ![s] = IF e = "COMPLETE" THEN "COMPLETED" ELSE "IN_PROGRESS"]
  BY <1>0 DEF FinalizeTurn
<1> HIDE DEF e, n, r
<1>3. current[s] = q /\ Open(s)
  BY <1>1, <1>2, NoneAssumption DEF MayFinalize, RowsInv, SessionInv
<1>4. Walked(f, turns[s]) /\ StandsOn(q, f, turns[s])
  BY <1>1, <1>3 DEF RowsInv, SessionInv
<1>5. f \in [Mains -> 0 .. MaxFollowUps] /\ turns[s] \in [Questions -> TurnRow]
  BY <1>1 DEF TypeInv, TypeOK
<1>6. /\ turns'[s] = u /\ current'[s] = n
      /\ turns' = [turns EXCEPT ![s] = u]
      /\ status'[s] = IF e = "COMPLETE" THEN "COMPLETED" ELSE "IN_PROGRESS"
  BY <1>1, <1>2 DEF TypeInv, TypeOK
<1>7. CASE e = "FOLLOW_UP"
  <2>1. followUps' = [followUps EXCEPT ![s] = g] /\ followUps'[s] = g
    BY <1>1, <1>2, <1>7 DEF FollowUpsSaved, TypeInv, TypeOK
  <2>2. Walked(g, u) /\ StandsOn(n, g, u)
    BY <1>1, <1>4, <1>5, <1>7, WalkFollowUp
  <2> HIDE DEF g, u
  <2>3. SessionInv(s)'
    BY <1>6, <1>7, <2>1, <2>2 DEF SessionInv, Open
  <2>4. QED
    BY <1>1, <1>2, <1>6, <2>1, <2>3, OneSession
<1>8. CASE e # "FOLLOW_UP"
  <2>1. followUps' = [followUps EXCEPT ![s] = f] /\ followUps'[s] = f
    BY <1>1, <1>2, <1>8 DEF FollowUpsSaved, TypeInv, TypeOK
  <2>2. Walked(f, u)
    BY <1>1, <1>4, <1>5, <1>8, WalkDecided DEF Actions
  <2>3. e = "NEXT_MAIN" => StandsOn(n, f, u)
    BY <1>1, <1>4, <1>5, WalkNextMain
  <2> HIDE DEF u
  <2>4. SessionInv(s)'
    BY <1>1, <1>6, <1>8, <2>1, <2>2, <2>3 DEF SessionInv, Open, Actions
  <2>5. QED
    BY <1>1, <1>2, <1>6, <2>1, <2>4, OneSession
<1>9. QED
  BY <1>7, <1>8

\* complete_session preserves the invariant on rows.
LEMMA CloseRows ==
  ASSUME TypeInv, RowsInv, NEW c \in Calls, CompleteSession(c)
  PROVE  RowsInv'
<1>1. PICK s \in Sessions : s = proc[c].session
  BY DEF TypeInv, LocalsOK, CompleteSession
<1>2. CASE UNCHANGED rows
  BY <1>2, RowsKept
<1>3. CASE /\ status' = [status EXCEPT ![s] = "COMPLETED"]
           /\ current' = [current EXCEPT ![s] = None]
           /\ UNCHANGED <<followUps, turns>>
  <2>1. /\ status' = [status EXCEPT ![s] = "COMPLETED"]
        /\ current' = [current EXCEPT ![s] = None]
        /\ status'[s] = "COMPLETED" /\ current'[s] = None
        /\ followUps' = [followUps EXCEPT ![s] = followUps[s]]
        /\ turns' = [turns EXCEPT ![s] = turns[s]]
    BY <1>1, <1>3 DEF TypeInv, TypeOK
  <2>2. SessionInv(s)'
    BY <1>1, <1>3, <2>1 DEF RowsInv, SessionInv, Open
  <2>3. QED
    BY <1>1, <2>1, <2>2, OneSession
<1>4. QED
  BY <1>1, <1>2, <1>3 DEF CompleteSession

\* A session with no turn stands on its first main question.
LEMMA EmptyWalk ==
  /\ Walked([m \in Mains |-> 0], [q \in Questions |-> NoTurn])
  /\ StandsOn(<<0, 0>>, [m \in Mains |-> 0], [q \in Questions |-> NoTurn])
<1> DEFINE f == [m \in Mains |-> 0]
           t == [q \in Questions |-> NoTurn]
<1>1. NoTurn.state = "NONE" /\ NoTurn.action = None
  BY DEF NoTurn
<1>2. 0 \in Mains /\ 0 \in 0 .. MaxFollowUps /\ <<0, 0>> \in Questions
  BY ConstantsAssumption, QuestionPairs DEF Mains
<1>3. ASSUME NEW m \in Mains, NEW k \in 0 .. (MaxFollowUps - 1)
      PROVE  ~(k < f[m]) /\ t[<<m, k>>].action # "FOLLOW_UP"
  BY <1>1, ChainPairs, NoneAssumption, ConstantsAssumption
<1>4. Walked(f, t)
  BY <1>1, <1>3 DEF Walked
<1>5. StandsOn(<<0, 0>>, f, t)
  <2>1. <<0, 0>>[1] = 0 /\ <<0, 0>>[2] = 0 /\ 0 .. (0 - 1) = {}
    OBVIOUS
  <2>2. QED
    BY <1>1, <1>2, <2>1 DEF StandsOn
<1>6. QED
  BY <1>4, <1>5

\* delete_session preserves the invariant on rows.
LEMMA DeleteRows ==
  ASSUME TypeInv, RowsInv, NEW s \in Sessions, DeleteSession(s)
  PROVE  RowsInv'
<1> DEFINE f == [m \in Mains |-> 0]
           t == [q \in Questions |-> NoTurn]
<1>1. /\ status' = [status EXCEPT ![s] = "DELETED"]
      /\ current' = [current EXCEPT ![s] = None]
      /\ followUps' = [followUps EXCEPT ![s] = f]
      /\ turns' = [turns EXCEPT ![s] = t]
  BY DEF DeleteSession
<1>2. Walked(f, t)
  BY EmptyWalk
<1> HIDE DEF f, t
<1>3. SessionInv(s)'
  BY <1>1, <1>2 DEF SessionInv, Open, TypeInv, TypeOK
<1>4. QED
  BY <1>1, <1>3, OneSession

\* The steps that move processes, queue or cache, and leave the rows alone.
LEMMA RowsUnchanged ==
  ASSUME TypeInv,
         \/ \E p \in Procs : EnqueueEvaluation(p) \/ Crash(p)
         \/ \E c \in Calls : ReplyFresh(c) \/ ReplyReplayed(c)
         \/ RequeueEvaluation
         \/ \E s \in Sessions : GrowsOld(s)
         \/ \E s \in Sessions, r \in Requests : CacheExpires(s, r)
         \/ Moved
  PROVE  UNCHANGED rows
BY DEF EnqueueEvaluation, Crash, ReplyFresh, ReplyReplayed, RequeueEvaluation,
       GrowsOld, CacheExpires, Moved

IInv == TypeInv /\ RowsInv

\* The invariant on rows holds in the initial states.
LEMMA RowsInit == Init => RowsInv
<1> SUFFICES ASSUME Init, NEW s \in Sessions PROVE SessionInv(s)
  BY DEF RowsInv
<1>1. /\ Open(s) /\ current[s] = <<0, 0>>
      /\ followUps[s] = [m \in Mains |-> 0]
      /\ turns[s] = [q \in Questions |-> NoTurn]
  BY DEF Init, Open
<1>2. QED
  BY <1>1, EmptyWalk DEF SessionInv

\* Every step preserves the invariant on rows.
LEMMA RowsStep == IInv /\ [Next]_vars => RowsInv'
<1> SUFFICES ASSUME TypeInv, RowsInv, [Next]_vars PROVE RowsInv'
  BY DEF IInv
<1>1. CASE UNCHANGED vars
  BY <1>1, RowsKept DEF vars
<1>2. ASSUME NEW c \in Calls, CallStep(c)
      PROVE  RowsInv'
  BY <1>2, AllMoves, RowsUnchanged, RowsKept, BeginRows, FinalizeRows, CloseRows
    DEF CallStep
<1>3. CASE SchedulerStep
  BY <1>3, AllMoves, RowsUnchanged, RowsKept, FinalizeRows DEF SchedulerStep
<1>4. CASE ClientStep
  BY <1>4, AllMoves, RowsUnchanged, RowsKept, DeleteRows DEF ClientStep
<1>5. CASE TimeStep \/ \E s \in Sessions : SaveReport(s)
  BY <1>5, RowsUnchanged, RowsKept DEF TimeStep
<1>6. ASSUME NEW p \in Procs, Crash(p)
      PROVE  RowsInv'
  BY <1>6, RowsUnchanged, RowsKept
<1>7. QED
  BY <1>1, <1>2, <1>3, <1>4, <1>5, <1>6 DEF Next

\* The inductive invariant holds in every reachable state.
LEMMA InvHolds == Spec => []IInv
<1>1. Init => IInv
  BY TypeInit, RowsInit DEF IInv
<1>2. IInv /\ [Next]_vars => IInv'
  BY TypeStep, RowsStep DEF IInv
<1>3. QED
  BY <1>1, <1>2, PTL DEF Spec

\* Every reachable state is well typed (the invariant adds that a process
\* always holds the session and question its next step works on).
THEOREM TypeCorrect == Spec => []TypeOK
<1>1. IInv => TypeOK
  BY DEF IInv, TypeInv
<1>2. QED
  BY <1>1, InvHolds, PTL

\* However calls, crashes, retries and recoveries interleave, an open
\* interview stands on one answerable question.
THEOREM StandsOnAQuestion == Spec => []CurrentIsAnswerable
<1>1. IInv => CurrentIsAnswerable
  BY DEF IInv, RowsInv, SessionInv, StandsOn, CurrentIsAnswerable, Row
<1>2. QED
  BY <1>1, InvHolds, PTL

\* The turn being decided is the one the interview stands on.
THEOREM OneTurnIsOpen == Spec => []OpenTurnIsCurrent
<1>1. IInv => OpenTurnIsCurrent
  BY DEF IInv, RowsInv, SessionInv, StandsOn, OpenTurnIsCurrent, Row
<1>2. QED
  BY <1>1, InvHolds, PTL

\* Follow-up questions and the decisions to ask them match one to one.
THEOREM FollowUpsMatch == Spec => []FollowUpsHaveDecisions
<1>1. IInv => FollowUpsHaveDecisions
  BY DEF IInv, RowsInv, SessionInv, Walked, FollowUpsHaveDecisions, Row
<1>2. QED
  BY <1>1, InvHolds, PTL

\* No main question is skipped.
THEOREM MainsInOrder == Spec => []NoMainSkipped
<1>1. IInv => NoMainSkipped
  BY DEF IInv, RowsInv, SessionInv, Walked, StandsOn, NoMainSkipped, HasTurn, Left, Row
<1>2. QED
  BY <1>1, InvHolds, PTL

-----------------------------------------------------------------------------
(* What a step may never do, and the walk it takes                         *)

\* The steps that write the rows of a session.
LEMMA StepKinds ==
  ASSUME IInv, [Next]_vars
  PROVE  \/ UNCHANGED rows
         \/ \E c \in Calls : BeginTurn(c) \/ CompleteSession(c)
         \/ \E p \in Procs : FinalizeTurn(p)
         \/ \E s \in Sessions : DeleteSession(s) \/ SaveReport(s)
         \/ \E s \in Sessions, q \in Questions : LeaseExpires(s, q)
<1>0. TypeInv /\ RowsInv
  BY DEF IInv
<1>1. CASE UNCHANGED vars
  BY <1>1 DEF vars
<1>2. ASSUME NEW c \in Calls, CallStep(c), ~UNCHANGED rows
      PROVE  BeginTurn(c) \/ CompleteSession(c) \/ FinalizeTurn(c)
  BY <1>0, <1>2, AllMoves, RowsUnchanged DEF CallStep
<1>3. ASSUME SchedulerStep, ~UNCHANGED rows
      PROVE  FinalizeTurn(Scheduler)
  BY <1>0, <1>3, AllMoves, RowsUnchanged DEF SchedulerStep
<1>4. ASSUME ClientStep, ~UNCHANGED rows
      PROVE  \E s \in Sessions : DeleteSession(s)
  BY <1>0, <1>4, AllMoves, RowsUnchanged DEF ClientStep
<1>5. ASSUME TimeStep, ~UNCHANGED rows
      PROVE  \E s \in Sessions, q \in Questions : LeaseExpires(s, q)
  BY <1>0, <1>5, RowsUnchanged DEF TimeStep
<1>6. ASSUME NEW p \in Procs, Crash(p)
      PROVE  UNCHANGED rows
  BY <1>0, <1>6, RowsUnchanged
<1>7. QED
  BY <1>1, <1>2, <1>3, <1>4, <1>5, <1>6 DEF Next

\* No step changes a stored decision but the deletion of its session.
LEMMA DecisionKept ==
  ASSUME IInv, [Next]_vars, NEW s \in Sessions, NEW q \in Questions,
         Row(s, q).state \in Decided
  PROVE  turns'[s][q] = Row(s, q) \/ status'[s] = "DELETED"
<1>0. TypeInv /\ turns \in [Sessions -> [Questions -> TurnRow]]
  BY DEF IInv, TypeInv, TypeOK
<1>1. CASE UNCHANGED rows
  BY <1>1 DEF rows, Row
<1>2. ASSUME NEW x \in Sessions, NEW y \in Questions, NEW r,
             turns[x][y].state \notin Decided, turns' = [turns EXCEPT ![x][y] = r]
      PROVE  turns'[s][q] = Row(s, q)
  BY <1>0, <1>2 DEF Row
<1>3. ASSUME NEW c \in Calls, BeginTurn(c)
      PROVE  turns'[s][q] = Row(s, q)
  <2>1. proc[c].session \in Sessions /\ proc[c].question \in Questions
    BY <1>0, <1>3 DEF TypeInv, LocalsOK, BeginTurn
  <2>2. turns[proc[c].session][proc[c].question].state \notin Decided
    BY <1>3, <2>1 DEF BeginTurn, ExistingTurns, HasTurn, Decided
  <2>3. QED
    BY <1>2, <1>3, <2>1, <2>2 DEF BeginTurn
<1>4. ASSUME NEW c \in Calls, CompleteSession(c)
      PROVE  turns'[s][q] = Row(s, q)
  BY <1>4 DEF CompleteSession, rows, Row
<1>5. ASSUME NEW p \in Procs, FinalizeTurn(p)
      PROVE  turns'[s][q] = Row(s, q)
  <2>1. proc[p].session \in Sessions /\ proc[p].question \in Questions
    BY <1>0, <1>5 DEF TypeInv, LocalsOK, FinalizeTurn
  <2>2. turns[proc[p].session][proc[p].question].state \notin Decided
    BY <1>5 DEF FinalizeTurn, MayFinalize, Row, Decided
  <2>3. QED
    BY <1>2, <1>5, <2>1, <2>2 DEF FinalizeTurn
<1>6. ASSUME NEW x \in Sessions, DeleteSession(x)
      PROVE  turns'[s][q] = Row(s, q) \/ status'[s] = "DELETED"
  BY <1>0, <1>6 DEF DeleteSession, Row, TypeInv, TypeOK
<1>7. ASSUME NEW x \in Sessions, SaveReport(x)
      PROVE  turns'[s][q] = Row(s, q)
  BY <1>7 DEF SaveReport, Row
<1>8. ASSUME NEW x \in Sessions, NEW y \in Questions, LeaseExpires(x, y)
      PROVE  turns'[s][q] = Row(s, q)
  <2>1. turns' = [turns EXCEPT ![x][y] = [turns[x][y] EXCEPT !.expired = TRUE]]
    BY <1>0, <1>8 DEF LeaseExpires
  <2>2. turns[x][y].state \notin Decided
    BY <1>8 DEF LeaseExpires, Row, Decided
  <2>3. QED
    BY <1>2, <2>1, <2>2
<1>9. QED
  BY <1>1, <1>3, <1>4, <1>5, <1>6, <1>7, <1>8, StepKinds

\* A stored decision never changes: the model's late answer and the recovery's
\* fallback cannot overwrite each other.
THEOREM DecisionsAreFinal == Spec => DecisionIsFinal
<1>1. IInv /\ [Next]_vars =>
        [\A s \in Sessions, q \in Questions :
           Row(s, q).state \in Decided =>
             turns'[s][q] = Row(s, q) \/ status'[s] = "DELETED"]_vars
  BY DecisionKept
<1>2. QED
  BY <1>1, InvHolds, PTL DEF Spec, DecisionIsFinal

\* No step opens a closed session.
LEMMA ClosedKept ==
  ASSUME IInv, [Next]_vars, NEW s \in Sessions, status[s] \in Closed
  PROVE  /\ status'[s] \in Closed \cup {"DELETED"}
         /\ status[s] = "EVALUATED" => status'[s] # "COMPLETED"
         /\ current'[s] = None
<1>0. /\ TypeInv /\ current[s] = None
      /\ status \in [Sessions -> {"CREATED", "IN_PROGRESS", "DELETED"} \cup Closed]
      /\ current \in [Sessions -> Questions \cup {None}]
  BY DEF IInv, TypeInv, TypeOK, RowsInv, SessionInv, Open, Closed
<1>1. CASE UNCHANGED <<status, current>>
  BY <1>0, <1>1
<1>2. ASSUME NEW x \in Sessions, x # s, NEW st, NEW c,
             status' = [status EXCEPT ![x] = st],
             current' = current \/ current' = [current EXCEPT ![x] = c]
      PROVE  status'[s] = status[s] /\ current'[s] = None
  BY <1>0, <1>2
<1>3. ASSUME NEW c \in Calls, BeginTurn(c)
      PROVE  status'[s] = status[s] /\ current'[s] = None
  <2>1. proc[c].session \in Sessions /\ proc[c].session # s
    BY <1>0, <1>3 DEF TypeInv, LocalsOK, BeginTurn, MayBegin
  <2>2. QED
    BY <1>2, <1>3, <2>1 DEF BeginTurn
<1>4. ASSUME NEW c \in Calls, CompleteSession(c), ~UNCHANGED rows
      PROVE  status'[s] = status[s] /\ current'[s] = None
  <2>1. proc[c].session \in Sessions /\ proc[c].session # s
    BY <1>0, <1>4 DEF TypeInv, LocalsOK, CompleteSession
  <2>2. QED
    BY <1>2, <1>4, <2>1 DEF CompleteSession
<1>5. ASSUME NEW p \in Procs, FinalizeTurn(p)
      PROVE  status'[s] = status[s] /\ current'[s] = None
  <2>1. proc[p].session \in Sessions /\ proc[p].question \in Questions
    BY <1>0, <1>5 DEF TypeInv, LocalsOK, FinalizeTurn
  <2>2. proc[p].session # s
    BY <1>0, <1>5, <2>1, NoneAssumption DEF FinalizeTurn, MayFinalize
  <2>3. QED
    BY <1>2, <1>5, <2>1, <2>2 DEF FinalizeTurn
<1>6. ASSUME NEW x \in Sessions, DeleteSession(x)
      PROVE  /\ status'[s] = IF x = s THEN "DELETED" ELSE status[s]
             /\ current'[s] = None
  BY <1>0, <1>6 DEF DeleteSession
<1>7. ASSUME NEW x \in Sessions, SaveReport(x)
      PROVE  /\ status'[s] = IF x = s THEN "EVALUATED" ELSE status[s]
             /\ current'[s] = None
  BY <1>0, <1>7 DEF SaveReport
<1>8. ASSUME NEW x \in Sessions, NEW y \in Questions, LeaseExpires(x, y)
      PROVE  UNCHANGED <<status, current>>
  BY <1>8 DEF LeaseExpires
<1>9. UNCHANGED rows => UNCHANGED <<status, current>>
  BY DEF rows
<1>10. QED
  BY <1>0, <1>1, <1>3, <1>4, <1>5, <1>6, <1>7, <1>8, <1>9, StepKinds DEF Closed

\* Completing an interview is final, whatever turn was being decided.
THEOREM ClosedIsFinal == Spec => ClosedStaysClosed
<1>1. IInv /\ [Next]_vars =>
        [\A s \in Sessions : status[s] \in Closed =>
           /\ status'[s] \in Closed \cup {"DELETED"}
           /\ status[s] = "EVALUATED" => status'[s] # "COMPLETED"
           /\ current'[s] = None]_vars
  BY ClosedKept
<1>2. QED
  BY <1>1, InvHolds, PTL DEF Spec, ClosedStaysClosed

-----------------------------------------------------------------------------
(* The interview implements its abstract walk                              *)

\* The abstract variables, one session at a time.
LEMMA BarSession ==
  ASSUME NEW s \in Sessions
  PROVE  /\ lifeBar[s] = IF status[s] = "DELETED" THEN "gone"
                         ELSE IF status[s] \in Closed THEN "closed" ELSE "open"
         /\ \A q \in Questions : decisionBar[s][q] = turns[s][q].action
BY DEF lifeBar, decisionBar, Row

\* The initial states are those of InterviewPath.
LEMMA WalkInit == Init => Path!Init
BY DEF Init, Path!Init, lifeBar, decisionBar, Row, NoTurn, Closed,
       Questions, Mains, Path!Questions, Path!Mains

\* Steps that take no decision and end no interview are not seen.
LEMMA WalkStutters ==
  ASSUME UNCHANGED current,
         \A s \in Sessions :
           /\ status'[s] = "DELETED" <=> status[s] = "DELETED"
           /\ status'[s] \in Closed <=> status[s] \in Closed
           /\ \A q \in Questions : turns'[s][q].action = turns[s][q].action
  PROVE  UNCHANGED Path!path
<1>1. lifeBar' = lifeBar
  BY DEF lifeBar
<1>2. decisionBar' = decisionBar
  BY DEF decisionBar, Row
<1>3. QED
  BY <1>1, <1>2 DEF Path!path

\* finalize_turn is a step of InterviewPath.
LEMMA WalkFinalize ==
  ASSUME IInv, NEW p \in Procs, FinalizeTurn(p)
  PROVE  Path!Next
<1>0. PICK s \in Sessions, q \in Questions :
        s = proc[p].session /\ q = proc[p].question
  BY DEF IInv, TypeInv, LocalsOK, FinalizeTurn
<1> DEFINE e == EffectiveAction(s, q, proc[p].action)
           n == NextQuestion(s, q, e)
           r == [Row(s, q) EXCEPT !.state = proc[p].result, !.action = e, !.next = n]
           f == followUps[s]
<1>1. /\ q[1] \in Mains
      /\ r.state \in Decided /\ r.action = e /\ e \in Actions
      /\ e = "FOLLOW_UP" => f[q[1]] + 1 \in 0 .. MaxFollowUps /\ n = <<q[1], f[q[1]] + 1>> /\ n \in Questions
      /\ e = "NEXT_MAIN" => n = <<q[1] + 1, 0>> /\ n \in Questions
      /\ e = "COMPLETE" => n = None
  BY <1>0, FinalizeValues DEF IInv
<1>2. /\ status[s] # "DELETED"
      /\ MayFinalize(s, q)
      /\ turns' = [turns EXCEPT ![s][q] = r]
      /\ current' = [current EXCEPT ![s] = n]
      /\ status' = [status EXCEPT ![s] = IF e = "COMPLETE" THEN "COMPLETED" ELSE "IN_PROGRESS"]
  BY <1>0 DEF FinalizeTurn
<1>3. e = "COMPLETE" => q[1] + 1 \notin Mains
  BY <1>0, AdvanceType DEF EffectiveAction, FinalizeTurn, IInv, TypeInv, LocalsOK, HasNextMain
<1> HIDE DEF e, n, r
<1>4. /\ status \in [Sessions -> {"CREATED", "IN_PROGRESS", "DELETED"} \cup Closed]
      /\ turns \in [Sessions -> [Questions -> TurnRow]]
      /\ f \in [Mains -> 0 .. MaxFollowUps]
  BY DEF IInv, TypeInv, TypeOK
<1>5. /\ current[s] = q /\ Open(s) /\ Walked(f, turns[s]) /\ StandsOn(q, f, turns[s])
  BY <1>2, NoneAssumption DEF MayFinalize, IInv, RowsInv, SessionInv
<1>6. lifeBar[s] = "open" /\ decisionBar[s][q] = None
  BY <1>2, <1>5, BarSession DEF Open, Closed, Walked, MayFinalize, Row
<1>7. decisionBar' = [decisionBar EXCEPT ![s][q] = e]
  <2>1. \A x \in Sessions, y \in Questions :
          turns'[x][y].action = IF x = s /\ y = q THEN e ELSE turns[x][y].action
    BY <1>1, <1>2, <1>4
  <2>2. decisionBar' = [x \in Sessions |-> [y \in Questions |->
                         IF x = s /\ y = q THEN e ELSE turns[x][y].action]]
    BY <2>1 DEF decisionBar, Row
  <2>3. [decisionBar EXCEPT ![s][q] = e]
          = [x \in Sessions |-> [y \in Questions |->
               IF x = s /\ y = q THEN e ELSE turns[x][y].action]]
    <3>1. [decisionBar[s] EXCEPT ![q] = e]
            = [y \in Questions |-> IF y = q THEN e ELSE turns[s][y].action]
      BY DEF decisionBar, Row
    <3>2. \A x \in Sessions : decisionBar[x] = [y \in Questions |-> turns[x][y].action]
      BY DEF decisionBar, Row
    <3>3. [decisionBar EXCEPT ![s][q] = e]
            = [x \in Sessions |-> IF x = s THEN [decisionBar[s] EXCEPT ![q] = e]
                                   ELSE decisionBar[x]]
      BY DEF decisionBar
    <3> DEFINE g(x) == IF x = s THEN [decisionBar[s] EXCEPT ![q] = e] ELSE decisionBar[x]
               h(x) == [y \in Questions |->
                          IF x = s /\ y = q THEN e ELSE turns[x][y].action]
    <3>4. ASSUME NEW x \in Sessions PROVE g(x) = h(x)
      <4>1. CASE x = s
        BY <3>1, <4>1
      <4>2. CASE x # s
        BY <3>2, <4>2
      <4>3. QED
        BY <4>1, <4>2
    <3> HIDE DEF g, h
    <3>5. [x \in Sessions |-> g(x)] = [x \in Sessions |-> h(x)]
      BY <3>4
    <3>6. QED
      BY <3>3, <3>5 DEF g, h
  <2>4. QED
    BY <2>2, <2>3
<1>8. lifeBar' = IF e = "COMPLETE" THEN [lifeBar EXCEPT ![s] = "closed"] ELSE lifeBar
  <2>1. /\ \A x \in Sessions : x # s => status'[x] = status[x]
        /\ status'[s] = IF e = "COMPLETE" THEN "COMPLETED" ELSE "IN_PROGRESS"
    BY <1>2, <1>4
  <2>2. CASE e = "COMPLETE"
    BY <1>5, <2>1, <2>2 DEF lifeBar, Open, Closed
  <2>3. CASE e # "COMPLETE"
    BY <1>5, <2>1, <2>3 DEF lifeBar, Open, Closed
  <2>4. QED
    BY <2>2, <2>3
<1>9. CASE e = "COMPLETE"
  <2>1. Path!Finish(s)
    BY <1>1, <1>2, <1>3, <1>5, <1>6, <1>7, <1>8, <1>9 DEF Path!Finish, Path!Mains, Mains
  <2>2. QED
    BY <2>1 DEF Path!Next
<1>10. CASE e # "COMPLETE"
  <2>1. e \in {"FOLLOW_UP", "NEXT_MAIN"}
    BY <1>1, <1>10 DEF Actions
  <2>2. n = Path!Step(q, e) /\ n \in Path!Questions
    BY <1>1, <1>5, <2>1 DEF Path!Step, Path!Questions, Path!Mains, Questions, Mains, StandsOn
  <2>3. n \in Questions /\ turns[s][n].state \in {"NONE", "PROCESSING"}
    <3>1. n \in Questions /\ (turns[s][n].state # "NONE" => n[1] <= q[1] /\ n[2] <= f[n[1]])
      BY <1>1, <1>5, <2>1 DEF Walked, StandsOn
    <3>2. e = "FOLLOW_UP" => n[1] = q[1] /\ n[2] = f[q[1]] + 1
      BY <1>1
    <3>3. e = "NEXT_MAIN" => n[1] = q[1] + 1
      BY <1>1
    <3>4. f[q[1]] \in 0 .. MaxFollowUps /\ q[1] \in 0 .. (NMains - 1)
      BY <1>1, <1>4 DEF Mains
    <3>5. ~(n[1] <= q[1] /\ n[2] <= f[n[1]])
      BY <2>1, <3>2, <3>3, <3>4, ConstantsAssumption
    <3>6. QED
      BY <3>1, <3>5
  <2>4. decisionBar[s][n] = None
    BY <1>5, <2>3, BarSession DEF Walked
  <2>5. Path!Move(s, e)
    BY <1>2, <1>5, <1>6, <1>7, <1>8, <1>10, <2>2, <2>4 DEF Path!Move
  <2>6. QED
    BY <2>1, <2>5 DEF Path!Next
<1>11. QED
  BY <1>9, <1>10

\* Every step is one of InterviewPath or a stutter.
LEMMA WalkStep == IInv /\ [Next]_vars => [Path!Next]_Path!path
<1> SUFFICES ASSUME IInv, [Next]_vars PROVE [Path!Next]_Path!path
  OBVIOUS
<1>0. /\ status \in [Sessions -> {"CREATED", "IN_PROGRESS", "DELETED"} \cup Closed]
      /\ turns \in [Sessions -> [Questions -> TurnRow]]
      /\ TypeInv
  BY DEF IInv, TypeInv, TypeOK
<1>1. CASE UNCHANGED rows
  BY <1>1, WalkStutters DEF rows
<1>2. ASSUME NEW c \in Calls, BeginTurn(c)
      PROVE  UNCHANGED Path!path
  <2>1. PICK s \in Sessions, q \in Questions :
          /\ s = proc[c].session /\ q = proc[c].question
          /\ turns[s][q].state = "NONE" /\ status[s] \notin Closed /\ status[s] # "DELETED"
    BY <1>0, <1>2 DEF TypeInv, LocalsOK, BeginTurn, ExistingTurns, HasTurn, MayBegin
  <2> DEFINE r == [NoTurn EXCEPT !.state = "PROCESSING",
                     !.request = proc[c].request, !.answer = proc[c].answer]
  <2>2. turns[s][q].action = None /\ r.action = None
    BY <2>1 DEF IInv, RowsInv, SessionInv, Walked, NoTurn
  <2>3. /\ turns' = [turns EXCEPT ![s][q] = r] /\ UNCHANGED current
        /\ status' = [status EXCEPT ![s] = "IN_PROGRESS"]
    BY <1>2, <2>1 DEF BeginTurn
  <2> HIDE DEF r
  <2>4. \A x \in Sessions, y \in Questions : turns'[x][y].action = turns[x][y].action
    BY <1>0, <2>2, <2>3
  <2>5. \A x \in Sessions : /\ status'[x] = "DELETED" <=> status[x] = "DELETED"
                            /\ status'[x] \in Closed <=> status[x] \in Closed
    BY <1>0, <2>1, <2>3 DEF Closed
  <2>6. QED
    BY <2>3, <2>4, <2>5, WalkStutters
<1>3. ASSUME NEW c \in Calls, CompleteSession(c), ~UNCHANGED rows
      PROVE  Path!Next
  <2>1. PICK s \in Sessions :
          /\ s = proc[c].session /\ status[s] \notin Closed /\ status[s] # "DELETED"
          /\ status' = [status EXCEPT ![s] = "COMPLETED"]
          /\ current' = [current EXCEPT ![s] = None]
          /\ UNCHANGED turns
    BY <1>0, <1>3 DEF TypeInv, LocalsOK, CompleteSession
  <2>2. decisionBar' = decisionBar
    BY <2>1 DEF decisionBar, Row
  <2>3. lifeBar' = [lifeBar EXCEPT ![s] = "closed"]
    BY <1>0, <2>1 DEF lifeBar, Closed
  <2>4. Path!Close(s)
    BY <2>1, <2>2, <2>3, BarSession DEF Path!Close
  <2>5. QED
    BY <2>4 DEF Path!Next
<1>4. ASSUME NEW p \in Procs, FinalizeTurn(p)
      PROVE  Path!Next
  BY <1>4, WalkFinalize
<1>5. ASSUME NEW s \in Sessions, DeleteSession(s)
      PROVE  Path!Next
  <2>1. lifeBar' = [lifeBar EXCEPT ![s] = "gone"]
    BY <1>0, <1>5 DEF DeleteSession, lifeBar
  <2>2. decisionBar' = [decisionBar EXCEPT ![s] = [q \in Path!Questions |-> None]]
    <3>1. Path!Questions = Questions
      BY DEF Path!Questions, Path!Mains, Questions, Mains
    <3>2. \A x \in Sessions, q \in Questions :
            turns'[x][q].action = IF x = s THEN None ELSE turns[x][q].action
      BY <1>0, <1>5 DEF DeleteSession, NoTurn
    <3>3. QED
      BY <3>1, <3>2 DEF decisionBar, Row
  <2>3. Path!Remove(s)
    BY <1>5, <2>1, <2>2, BarSession DEF DeleteSession, Path!Remove
  <2>4. QED
    BY <2>3 DEF Path!Next
<1>6. ASSUME NEW s \in Sessions, SaveReport(s)
      PROVE  UNCHANGED Path!path
  BY <1>0, <1>6, WalkStutters DEF SaveReport, Closed
<1>7. ASSUME NEW s \in Sessions, NEW q \in Questions, LeaseExpires(s, q)
      PROVE  UNCHANGED Path!path
  <2> DEFINE r == [turns[s][q] EXCEPT !.expired = TRUE]
  <2>1. r.action = turns[s][q].action /\ turns' = [turns EXCEPT ![s][q] = r]
    <3>1. turns[s][q] \in TurnRow
      BY <1>0
    <3>2. QED
      BY <1>0, <1>7, <3>1 DEF LeaseExpires, TurnRow
  <2> HIDE DEF r
  <2>2. \A x \in Sessions, y \in Questions : turns'[x][y].action = turns[x][y].action
    BY <1>0, <2>1
  <2>3. QED
    BY <1>7, <2>2, WalkStutters DEF LeaseExpires
<1>8. QED
  BY <1>1, <1>2, <1>3, <1>4, <1>5, <1>6, <1>7, StepKinds

\* Every behaviour of calls, waiters, crashes and recoveries is, session by
\* session, a walk along the questions: InterviewTurn implements InterviewPath.
THEOREM TurnsWalkThePath == Spec => WalksThePath
<1>1. Init => Path!Init
  BY WalkInit
<1>2. IInv /\ [Next]_vars => [Path!Next]_Path!path
  BY WalkStep
<1>3. QED
  BY <1>1, <1>2, InvHolds, PTL DEF Spec, WalksThePath, Path!Spec

-----------------------------------------------------------------------------
(* Replies, the cache and deleted sessions                                 *)

\* The reply process l holds is the decided turn of its question, as long as
\* the session is there, for session statuses st and turns t.
Answered(l, st, t) ==
  st[l.session] # "DELETED" =>
    /\ l.reply = t[l.session][l.question]
    /\ l.reply.state \in Decided

\* What a process knows of the turn it is about to answer with.
Replying(l, st, t) ==
  /\ \/ l.pc \in {"cache", "done"}
     \/ l.pc = "enqueue" /\ l.ret = "cache"
     => l.question \in Questions /\ Answered(l, st, t)
  /\ l.pc = "replay" /\ st[l.session] # "DELETED" =>
       t[l.session][l.question].state \in Decided
  /\ l.pc = "recover" => l.ret # "cache"

\* Every cached turn of a session that is there is decided.
CacheDecided(cache, st, t) ==
  \A s \in Sessions, r \in Requests :
    cache[s][r] # None /\ st[s] # "DELETED" => t[s][cache[s][r]].state \in Decided

\* The rows of a deleted session are gone for good.
GoneIsEmpty ==
  \A s \in Sessions : status[s] = "DELETED" =>
    \A q \in Questions : turns[s][q].state = "NONE"

\* What makes the replies inductive: the processes, the cache and the rows.
ReplyInv ==
  /\ \A p \in Procs : Replying(proc[p], status, turns)
  /\ CacheDecided(turnCache, status, turns)
  /\ GoneIsEmpty

\* A deleted session stays deleted, and its turns go with it.
LEMMA DeletedKept ==
  ASSUME IInv, GoneIsEmpty, [Next]_vars, NEW s \in Sessions
  PROVE  /\ status[s] = "DELETED" => status'[s] = "DELETED" /\ turns'[s] = turns[s]
         /\ status[s] # "DELETED" /\ status'[s] = "DELETED" =>
              \A q \in Questions : turns'[s][q].state = "NONE"
<1>0. /\ TypeInv /\ turns \in [Sessions -> [Questions -> TurnRow]]
      /\ status \in [Sessions -> {"CREATED", "IN_PROGRESS", "DELETED"} \cup Closed]
      /\ RowsInv
  BY DEF IInv, TypeInv, TypeOK
<1> DEFINE Kept == /\ status[s] = "DELETED" => status'[s] = "DELETED" /\ turns'[s] = turns[s]
                   /\ status[s] # "DELETED" => status'[s] # "DELETED"
<1>1. CASE UNCHANGED rows
  BY <1>1 DEF rows
<1>2. ASSUME NEW x \in Sessions, status[x] # "DELETED", NEW st, st # "DELETED",
             status' = [status EXCEPT ![x] = st],
             NEW ts, turns' = [turns EXCEPT ![x] = ts]
      PROVE  Kept
  <2>1. CASE x = s
    <3>1. status'[s] = st
      BY <1>0, <1>2, <2>1
    <3>2. QED
      BY <1>2, <2>1, <3>1
  <2>2. CASE x # s
    BY <1>0, <1>2, <2>2
  <2>3. QED
    BY <2>1, <2>2
<1>3. ASSUME NEW c \in Calls, BeginTurn(c)
      PROVE  Kept
  <2>1. proc[c].session \in Sessions /\ proc[c].question \in Questions
    BY <1>0, <1>3 DEF TypeInv, LocalsOK, BeginTurn
  <2> DEFINE x == proc[c].session
             t == [NoTurn EXCEPT !.state = "PROCESSING",
                     !.request = proc[c].request, !.answer = proc[c].answer]
             ts == [turns[x] EXCEPT ![proc[c].question] = t]
  <2>4. turns' = [turns EXCEPT ![x][proc[c].question] = t]
    BY <1>3 DEF BeginTurn
  <2> HIDE DEF t
  <2>2. turns' = [turns EXCEPT ![x] = ts]
    BY <2>4
  <2> HIDE DEF ts
  <2>3. status[x] # "DELETED" /\ status' = [status EXCEPT ![x] = "IN_PROGRESS"]
    BY <1>3 DEF BeginTurn
  <2>5. QED
    BY <1>2, <2>1, <2>2, <2>3
<1>4. ASSUME NEW c \in Calls, CompleteSession(c), ~UNCHANGED rows
      PROVE  Kept
  <2>1. proc[c].session \in Sessions
    BY <1>0, <1>4 DEF TypeInv, LocalsOK, CompleteSession
  <2>2. /\ status[proc[c].session] # "DELETED" /\ turns' = turns
        /\ status' = [status EXCEPT ![proc[c].session] = "COMPLETED"]
    BY <1>4 DEF CompleteSession
  <2>3. QED
    BY <1>0, <2>1, <2>2
<1>5. ASSUME NEW p \in Procs, FinalizeTurn(p)
      PROVE  Kept
  <2> DEFINE x == proc[p].session
             q == proc[p].question
             e == EffectiveAction(x, q, proc[p].action)
             n == NextQuestion(x, q, e)
             t == [Row(x, q) EXCEPT !.state = proc[p].result, !.action = e, !.next = n]
             ts == [turns[x] EXCEPT ![q] = t]
  <2>1. x \in Sessions
    BY <1>0, <1>5, FinalizeValues
  <2>2. /\ turns' = [turns EXCEPT ![x][q] = t]
        /\ status[x] # "DELETED"
        /\ \/ status' = [status EXCEPT ![x] = "COMPLETED"]
           \/ status' = [status EXCEPT ![x] = "IN_PROGRESS"]
    BY <1>5 DEF FinalizeTurn
  <2> HIDE DEF t
  <2>3. turns' = [turns EXCEPT ![x] = ts]
    BY <2>2
  <2> HIDE DEF ts
  <2>4. QED
    BY <1>2, <2>1, <2>2, <2>3
<1>6. ASSUME NEW x \in Sessions, DeleteSession(x)
      PROVE  /\ status[s] = "DELETED" => status'[s] = "DELETED" /\ turns'[s] = turns[s]
             /\ status[s] # "DELETED" /\ status'[s] = "DELETED" =>
                  \A q \in Questions : turns'[s][q].state = "NONE"
  <2>1. /\ status[x] # "DELETED" /\ status' = [status EXCEPT ![x] = "DELETED"]
        /\ turns' = [turns EXCEPT ![x] = [q \in Questions |-> NoTurn]]
    BY <1>6 DEF DeleteSession
  <2>2. NoTurn.state = "NONE"
    BY DEF NoTurn
  <2>3. CASE x = s
    BY <1>0, <2>1, <2>2, <2>3
  <2>4. CASE x # s
    BY <1>0, <2>1, <2>4
  <2>5. QED
    BY <2>3, <2>4
<1>7. ASSUME NEW x \in Sessions, SaveReport(x)
      PROVE  Kept
  BY <1>0, <1>7 DEF SaveReport, Closed
<1>8. ASSUME NEW x \in Sessions, NEW y \in Questions, LeaseExpires(x, y)
      PROVE  Kept
  <2>1. /\ turns[x][y].state = "PROCESSING" /\ status' = status
        /\ turns' = [turns EXCEPT ![x] =
             [turns[x] EXCEPT ![y] = [turns[x][y] EXCEPT !.expired = TRUE]]]
    BY <1>0, <1>8 DEF LeaseExpires, Row
  <2>2. CASE x # s
    BY <1>0, <2>1, <2>2
  <2>3. CASE x = s
    <3>1. status[s] # "DELETED"
      BY <2>1, <2>3 DEF GoneIsEmpty
    <3>2. QED
      BY <2>1, <3>1
  <2>4. QED
    BY <2>2, <2>3
<1>9. QED
  BY <1>1, <1>3, <1>4, <1>5, <1>6, <1>7, <1>8, StepKinds

\* A turn that was decided is what it was, as long as its session is there.
LEMMA DecidedKept ==
  ASSUME IInv, GoneIsEmpty, [Next]_vars, NEW s \in Sessions, NEW q \in Questions,
         status'[s] # "DELETED"
  PROVE  /\ status[s] # "DELETED"
         /\ turns[s][q].state \in Decided => turns'[s][q] = turns[s][q]
<1>1. status[s] # "DELETED"
  BY DeletedKept
<1>2. ASSUME turns[s][q].state \in Decided
      PROVE  turns'[s][q] = turns[s][q]
  BY <1>2, DecisionKept DEF Row
<1>3. QED
  BY <1>1, <1>2

\* What a process knows of its turn outlives the steps of the others.
LEMMA ReplyingKept ==
  ASSUME IInv, GoneIsEmpty, [Next]_vars, NEW l \in ProcState, LocalsOK(l),
         Replying(l, status, turns)
  PROVE  Replying(l, status', turns')
<1>1. ASSUME l.session \in Sessions, l.question \in Questions, Answered(l, status, turns)
      PROVE  Answered(l, status', turns')
  <2>1. SUFFICES ASSUME status'[l.session] # "DELETED"
                 PROVE  /\ l.reply = turns'[l.session][l.question]
                        /\ l.reply.state \in Decided
    BY DEF Answered
  <2>2. /\ l.reply = turns[l.session][l.question]
        /\ l.reply.state \in Decided
    BY <1>1, <2>1, DecidedKept DEF Answered
  <2>3. QED
    BY <1>1, <2>1, <2>2, DecidedKept
<1>2. CASE \/ l.pc \in {"cache", "done"}
           \/ l.pc = "enqueue" /\ l.ret = "cache"
  <2>1. l.session \in Sessions
    BY <1>2 DEF LocalsOK
  <2>2. l.question \in Questions /\ Answered(l, status, turns)
    BY <1>2 DEF Replying
  <2>3. QED
    BY <1>1, <1>2, <2>1, <2>2 DEF Replying
<1>3. CASE l.pc = "replay"
  <2>1. l.session \in Sessions /\ l.question \in Questions
    BY <1>3 DEF LocalsOK
  <2>2. QED
    BY <1>3, <2>1, DecidedKept DEF Replying
<1>4. QED
  BY <1>2, <1>3 DEF Replying

\* A process that is nowhere near a reply knows nothing of one.
LEMMA FarFromReply ==
  ASSUME NEW l, NEW st, NEW t,
         l.pc \notin {"cache", "done", "enqueue", "replay", "recover"}
  PROVE  Replying(l, st, t)
BY DEF Replying

\* A caller that goes on after a recovery or an enqueue keeps what it knows.
LEMMA ResumedReplying ==
  ASSUME NEW l \in ProcState, NEW st, NEW t,
         l.ret = "cache" => l.question \in Questions /\ Answered(l, st, t)
  PROVE  Replying(Resumed(l), st, t)
<1>1. CASE l.ret = "idle"
  <2>1. Resumed(l).pc = "idle"
    BY <1>1 DEF Resumed, IdleProc
  <2>2. QED
    BY <2>1, FarFromReply
<1>2. CASE l.ret = "scan"
  <2>1. Resumed(l) = [IdleProc EXCEPT !.pc = "scan"]
    BY <1>2 DEF Resumed
  <2>3. Resumed(l).pc = "scan"
    BY <2>1, IdleType DEF ProcState
  <2>2. QED
    BY <2>3, FarFromReply
<1>3. CASE l.ret \notin {"idle", "scan"}
  <2> DEFINE m == [l EXCEPT !.pc = l.ret, !.ret = "idle",
                            !.action = None, !.result = None]
  <2>1. Resumed(l) = m
    BY <1>3 DEF Resumed
  <2>2. l.ret \in {"cache", "wait", "close"}
    BY <1>3 DEF ProcState
  <2>3. /\ m.pc = l.ret /\ m.session = l.session /\ m.question = l.question
        /\ m.reply = l.reply
    BY <2>2 DEF ProcState
  <2> HIDE DEF m
  <2>4. Replying(m, st, t)
    BY <2>2, <2>3 DEF Replying, Answered
  <2>5. QED
    BY <2>1, <2>4
<1>4. QED
  BY <1>1, <1>2, <1>3

\* Only process p moves, and what it then knows of its turn is so.
OneMoves(p) ==
  /\ \A x \in Procs \ {p} : proc'[x] = proc[x]
  /\ Replying(proc'[p], status', turns')

\* A process that takes a step and is then nowhere near a reply.
LEMMA FarMoves ==
  ASSUME TypeInv, NEW p \in Procs, NEW l, proc' = [proc EXCEPT ![p] = l],
         l.pc \notin {"cache", "done", "enqueue", "replay", "recover"}
  PROVE  OneMoves(p)
<1>1. proc'[p] = l /\ \A x \in Procs \ {p} : proc'[x] = proc[x]
  BY DEF TypeInv, TypeOK
<1>2. QED
  BY <1>1, FarFromReply DEF OneMoves

\* An exception leaves the call.
LEMMA RaiseMoves ==
  ASSUME TypeInv, NEW p \in Procs, Raise(p)
  PROVE  OneMoves(p)
<1>1. IdleProc.pc = "idle"
  BY DEF IdleProc
<1>2. QED
  BY <1>1, FarMoves DEF Raise

\* A process that only moves its program counter, away from any reply.
LEMMA GotoMoves ==
  ASSUME TypeInv, NEW p \in Procs, NEW pc, Goto(p, pc),
         pc \notin {"cache", "done", "enqueue", "replay", "recover"}
  PROVE  OneMoves(p)
<1> DEFINE l == [proc[p] EXCEPT !.pc = pc]
<1>1. proc' = [proc EXCEPT ![p] = l]
  BY DEF Goto, TypeInv, TypeOK
<1>2. l.pc = pc
  BY DEF TypeInv, TypeOK, ProcState
<1> HIDE DEF l
<1>3. QED
  BY <1>1, <1>2, FarMoves

\* _validate_replayed_turn: a reply is read from a turn that is decided.
LEMMA ReplayMoves ==
  ASSUME TypeInv, NEW c \in Procs, NEW x, Replay(c, x),
         proc[c].session \in Sessions, proc[c].question \in Questions,
         HasTurn(proc[c].session, x),
         UNCHANGED rows
  PROVE  OneMoves(c)
<1> DEFINE l == proc[c]
           pc == ReplayFrom(Row(l.session, x))
           m == [l EXCEPT !.pc = pc, !.cached = (l.pc = "lookup")]
<1>1. CASE Raise(c)
  BY <1>1, RaiseMoves
<1>2. CASE ~Raise(c)
  <2>1. x = l.question /\ proc' = [proc EXCEPT ![c] = m]
    BY <1>2 DEF Replay, TypeInv, TypeOK
  <2>2. Row(l.session, x) \in TurnRow
    BY <2>1, RowType
  <2>3. \/ pc = "wait"
        \/ pc = "replay" /\ Row(l.session, x).state \in Decided
    BY <2>2 DEF ReplayFrom, HasTurn, TurnRow, Row
  <2>4. l \in ProcState
    BY DEF TypeInv, TypeOK
  <2> HIDE DEF pc
  <2>5. m.pc = pc /\ m.session = l.session /\ m.question = l.question
    BY <2>3, <2>4 DEF ProcState
  <2> HIDE DEF m
  <2>6. proc'[c] = m /\ \A y \in Procs \ {c} : proc'[y] = proc[y]
    BY <2>1 DEF TypeInv, TypeOK
  <2>7. Replying(m, status, turns)
    BY <2>1, <2>3, <2>5 DEF Replying, Row
  <2>8. QED
    BY <2>6, <2>7 DEF OneMoves, rows
<1>3. QED
  BY <1>1, <1>2

\* Finding a turn, and starting one.
LEMMA BeginMoves ==
  ASSUME TypeInv, NEW c \in Calls,
         LookupTurn(c) \/ BeginExisting(c) \/ BeginRejected(c) \/ BeginTurn(c)
  PROVE  OneMoves(c)
<1> DEFINE l == proc[c]
           x == turnCache[l.session][l.request]
<1>0. c \in Procs /\ proc[c] \in ProcState /\ LocalsOK(proc[c])
  BY DEF TypeInv, TypeOK
<1>1. CASE LookupTurn(c)
  <2>1. l.session \in Sessions
    BY <1>0, <1>1 DEF LookupTurn, LocalsOK
  <2>2. CASE x # None /\ HasTurn(l.session, x)
    <3>1. Replay(c, x) /\ UNCHANGED rows
      BY <1>1, <2>2 DEF LookupTurn
    <3>2. l.question \in Questions
      BY <1>0, <1>1 DEF LookupTurn, LocalsOK
    <3>3. QED
      BY <1>0, <2>1, <2>2, <3>1, <3>2, ReplayMoves
  <2>3. CASE ~(x # None /\ HasTurn(l.session, x))
    <3>1. Goto(c, "begin")
      BY <1>1, <2>3 DEF LookupTurn
    <3>2. QED
      BY <1>0, <3>1, GotoMoves
  <2>4. QED
    BY <2>2, <2>3
<1>2. CASE BeginExisting(c)
  <2>1. PICK y \in ExistingTurns(l.session, l.question, l.request) : Replay(c, y)
    BY <1>2 DEF BeginExisting
  <2>2. l.session \in Sessions /\ l.question \in Questions
    BY <1>0, <1>2 DEF BeginExisting, LocalsOK
  <2>3. y \in Questions /\ HasTurn(l.session, y)
    BY <2>2 DEF ExistingTurns
  <2>4. UNCHANGED rows
    BY <1>2 DEF BeginExisting
  <2>5. QED
    BY <1>0, <2>1, <2>2, <2>3, <2>4, ReplayMoves
<1>3. CASE BeginRejected(c)
  BY <1>0, <1>3, RaiseMoves DEF BeginRejected
<1>4. CASE BeginTurn(c)
  <2> DEFINE n == followUps[l.session][l.question[1]]
             m == [l EXCEPT !.pc = "decide", !.seen = n]
  <2>1. proc' = [proc EXCEPT ![c] = m]
    BY <1>0, <1>4 DEF BeginTurn, TypeInv, TypeOK
  <2> HIDE DEF n
  <2>2. m.pc = "decide"
    BY <1>0 DEF ProcState
  <2> HIDE DEF m
  <2>3. QED
    BY <1>0, <2>1, <2>2, FarMoves
<1>5. QED
  BY <1>1, <1>2, <1>3, <1>4

\* finalize_turn returns the turn it stores.
LEMMA FinalizeReplies ==
  ASSUME TypeInv, NEW p \in Procs, FinalizeTurn(p)
  PROVE  OneMoves(p)
<1> DEFINE l == proc[p]
           s == l.session
           q == l.question
           e == EffectiveAction(s, q, l.action)
           n == NextQuestion(s, q, e)
           t == [Row(s, q) EXCEPT !.state = l.result, !.action = e, !.next = n]
           k == [l EXCEPT !.reply = ReplyOf(l, t)]
           m == [k EXCEPT !.pc = "enqueue"]
<1>1. /\ s \in Sessions /\ q \in Questions /\ t \in TurnRow
      /\ t.state \in Decided
  BY FinalizeValues
<1>2. /\ turns' = [turns EXCEPT ![s][q] = t]
      /\ \/ proc' = [proc EXCEPT ![p] = m]
         \/ proc' = [proc EXCEPT ![p] = Resumed(k)]
  BY DEF FinalizeTurn
<1>3. l \in ProcState /\ LocalsOK(l) /\ l.pc = "finalize"
  BY DEF FinalizeTurn, TypeInv, TypeOK
<1> HIDE DEF t
<1>4. /\ k \in ProcState
      /\ k.session = s /\ k.question = q /\ k.ret = l.ret
      /\ l.ret = "cache" => k.reply = t
  BY <1>1, <1>3 DEF ProcState, ReplyOf
<1> HIDE DEF k
<1>5. m.pc = "enqueue" /\ m.session = s /\ m.question = q /\ m.ret = l.ret
      /\ m.reply = k.reply
  BY <1>4 DEF ProcState
<1> HIDE DEF m
<1>6. turns'[s][q] = t
  BY <1>1, <1>2 DEF TypeInv, TypeOK
<1>7. l.ret = "cache" => Answered(k, status', turns')
  BY <1>1, <1>4, <1>6 DEF Answered
<1>8. Replying(Resumed(k), status', turns')
  BY <1>1, <1>4, <1>7, ResumedReplying
<1>9. Replying(m, status', turns')
  BY <1>1, <1>4, <1>5, <1>7 DEF Replying, Answered
<1>10. /\ proc'[p] \in {m, Resumed(k)}
       /\ \A x \in Procs \ {p} : proc'[x] = proc[x]
  BY <1>2 DEF TypeInv, TypeOK
<1>11. QED
  BY <1>8, <1>9, <1>10 DEF OneMoves

\* Another caller decided the turn, or finalize_turn refuses.
LEMMA SupersededMoves ==
  ASSUME TypeInv, NEW p \in Procs, FinalizeSuperseded(p) \/ FinalizeRejected(p)
  PROVE  OneMoves(p)
<1>1. CASE FinalizeRejected(p)
  BY <1>1, RaiseMoves DEF FinalizeRejected
<1>2. CASE FinalizeSuperseded(p)
  <2> DEFINE l == proc[p]
             s == l.session
             q == l.question
             t == Row(s, q)
             k == [l EXCEPT !.reply = ReplyOf(l, t)]
  <2>1. l \in ProcState /\ s \in Sessions /\ q \in Questions
    BY <1>2 DEF FinalizeSuperseded, TypeInv, TypeOK, LocalsOK
  <2>2. /\ t \in TurnRow /\ t.state \in Decided
        /\ proc' = [proc EXCEPT ![p] = Resumed(k)]
        /\ UNCHANGED rows
    BY <1>2, <2>1, RowType DEF FinalizeSuperseded
  <2>3. t = turns'[s][q]
    BY <2>2 DEF rows, Row
  <2> HIDE DEF t
  <2>4. /\ k \in ProcState
        /\ k.session = s /\ k.question = q /\ k.ret = l.ret
        /\ l.ret = "cache" => k.reply = t
    BY <2>1, <2>2 DEF ProcState, ReplyOf
  <2> HIDE DEF k
  <2>5. l.ret = "cache" => Answered(k, status', turns')
    BY <2>2, <2>3, <2>4 DEF Answered
  <2>6. Replying(Resumed(k), status', turns')
    BY <2>1, <2>4, <2>5, ResumedReplying
  <2>7. /\ proc'[p] = Resumed(k)
        /\ \A x \in Procs \ {p} : proc'[x] = proc[x]
    BY <2>2 DEF TypeInv, TypeOK
  <2>8. QED
    BY <2>6, <2>7 DEF OneMoves
<1>3. QED
  BY <1>1, <1>2

\* The XADD, and recover_turn: the caller goes on with what it knew.
LEMMA RecoveryMoves ==
  ASSUME TypeInv, NEW p \in Procs, EnqueueEvaluation(p) \/ RecoverTurn(p),
         Replying(proc[p], status, turns)
  PROVE  OneMoves(p)
<1> DEFINE l == proc[p]
<1>1. l \in ProcState /\ UNCHANGED rows
  BY DEF TypeInv, TypeOK, EnqueueEvaluation, RecoverTurn
<1>2. CASE Raise(p)
  BY <1>2, RaiseMoves
<1>3. CASE proc' = [proc EXCEPT ![p] = Resumed(l)]
  <2>1. l.ret = "cache" => l.question \in Questions /\ Answered(l, status, turns)
    BY DEF Replying, EnqueueEvaluation, RecoverTurn
  <2>2. Replying(Resumed(l), status, turns)
    BY <1>1, <2>1, ResumedReplying
  <2>3. Replying(Resumed(l), status', turns')
    BY <1>1, <2>2 DEF rows
  <2>4. /\ proc'[p] = Resumed(l)
        /\ \A x \in Procs \ {p} : proc'[x] = proc[x]
    BY <1>3 DEF TypeInv, TypeOK
  <2>5. QED
    BY <2>3, <2>4 DEF OneMoves
<1>4. CASE \E a : proc' = [proc EXCEPT ![p] =
             [l EXCEPT !.pc = "finalize", !.action = a, !.result = "FALLBACK"]]
  <2>1. PICK a : proc' = [proc EXCEPT ![p] =
             [l EXCEPT !.pc = "finalize", !.action = a, !.result = "FALLBACK"]]
    BY <1>4
  <2> DEFINE m == [l EXCEPT !.pc = "finalize", !.action = a, !.result = "FALLBACK"]
  <2>2. m.pc = "finalize"
    BY <1>1 DEF ProcState
  <2> HIDE DEF m
  <2>3. QED
    BY <2>1, <2>2, FarMoves DEF m
<1>5. QED
  BY <1>2, <1>3, <1>4 DEF EnqueueEvaluation, RecoverTurn

\* The response is the turn of the question, decided.
LEMMA ResponseMoves ==
  ASSUME TypeInv, NEW c \in Calls, ReplyFresh(c) \/ ReplyReplayed(c),
         Replying(proc[c], status, turns)
  PROVE  OneMoves(c)
<1> DEFINE l == proc[c]
           s == l.session
           q == l.question
<1>1. /\ l \in ProcState /\ c \in Procs
      /\ s \in Sessions /\ q \in Questions /\ UNCHANGED rows
  BY DEF TypeInv, TypeOK, LocalsOK, ReplyFresh, ReplyReplayed
<1>2. CASE Raise(c)
  BY <1>1, <1>2, RaiseMoves
<1>3. CASE ReplyFresh(c)
  <2> DEFINE m == [l EXCEPT !.pc = "done"]
  <2>1. proc' = [proc EXCEPT ![c] = m]
    BY <1>1, <1>3 DEF ReplyFresh, Goto, TypeInv, TypeOK
  <2>2. m.pc = "done" /\ m.session = s /\ m.question = q /\ m.reply = l.reply
    BY <1>1 DEF ProcState
  <2> HIDE DEF m
  <2>3. Replying(m, status, turns)
    BY <1>1, <1>3, <2>2 DEF ReplyFresh, Replying, Answered
  <2>4. proc'[c] = m /\ \A x \in Procs \ {c} : proc'[x] = proc[x]
    BY <1>1, <2>1 DEF TypeInv, TypeOK
  <2>5. QED
    BY <1>1, <2>3, <2>4 DEF OneMoves, rows
<1>4. CASE ReplyReplayed(c) /\ ~Raise(c)
  <2> DEFINE t == Row(s, q)
             m == [l EXCEPT !.pc = "done", !.reply = t]
  <2>1. status[s] # "DELETED" /\ l.pc = "replay" /\ proc' = [proc EXCEPT ![c] = m]
    BY <1>1, <1>4 DEF ReplyReplayed, TypeInv, TypeOK
  <2>2. t \in TurnRow /\ t.state \in Decided /\ t = turns[s][q]
    BY <1>1, <2>1, RowType DEF Replying, Row
  <2> HIDE DEF t
  <2>3. m.pc = "done" /\ m.session = s /\ m.question = q /\ m.reply = t
    BY <1>1 DEF ProcState
  <2> HIDE DEF m
  <2>4. Replying(m, status, turns)
    BY <1>1, <2>2, <2>3 DEF Replying, Answered
  <2>5. proc'[c] = m /\ \A x \in Procs \ {c} : proc'[x] = proc[x]
    BY <1>1, <2>1 DEF TypeInv, TypeOK
  <2>6. QED
    BY <1>1, <2>4, <2>5 DEF OneMoves, rows
<1>5. QED
  BY <1>2, <1>3, <1>4

\* A waiting duplicate answers only once the turn is decided.
LEMMA WaitMoves ==
  ASSUME TypeInv, NEW c \in Calls, WaitOver(c) \/ WaitRecover(c) \/ WaitTimeout(c)
  PROVE  OneMoves(c)
<1> DEFINE l == proc[c]
           s == l.session
           q == l.question
           Step(m) == proc' = [proc EXCEPT ![c] = m]
<1>1. /\ l \in ProcState /\ c \in Procs
      /\ s \in Sessions /\ q \in Questions /\ UNCHANGED rows
  BY DEF TypeInv, TypeOK, LocalsOK, WaitOver, WaitRecover, WaitTimeout
<1>2. CASE Raise(c)
  BY <1>1, <1>2, RaiseMoves
<1>3. ASSUME NEW m, Replying(m, status, turns), Step(m)
      PROVE  OneMoves(c)
  <2>1. proc'[c] = m /\ \A x \in Procs \ {c} : proc'[x] = proc[x]
    BY <1>1, <1>3 DEF TypeInv, TypeOK
  <2>2. QED
    BY <1>1, <1>3, <2>1 DEF OneMoves, rows
<1>4. CASE WaitOver(c) /\ ~Raise(c)
  <2> DEFINE m == [l EXCEPT !.pc = "replay"]
  <2>1. Row(s, q).state \in Decided /\ Step(m)
    BY <1>1, <1>4 DEF WaitOver, Goto, TypeInv, TypeOK
  <2>2. m.pc = "replay" /\ m.session = s /\ m.question = q
    BY <1>1 DEF ProcState
  <2> HIDE DEF m
  <2>3. Replying(m, status, turns)
    BY <2>1, <2>2 DEF Replying, Row
  <2>4. QED
    BY <1>3, <2>1, <2>3
<1>5. CASE WaitRecover(c)
  <2> DEFINE m == [l EXCEPT !.pc = "recover", !.ret = "wait"]
  <2>1. Step(m)
    BY <1>1, <1>5 DEF WaitRecover, TypeInv, TypeOK
  <2>2. m.pc = "recover" /\ m.ret = "wait"
    BY <1>1 DEF ProcState
  <2> HIDE DEF m
  <2>3. Replying(m, status, turns)
    BY <2>2 DEF Replying
  <2>4. QED
    BY <1>3, <2>1, <2>3
<1>6. QED
  BY <1>2, <1>4, <1>5 DEF WaitTimeout

\* The decision is taken away from any reply.
LEMMA DecideMoves ==
  ASSUME TypeInv, NEW c \in Calls, Decide(c)
  PROVE  OneMoves(c)
<1>1. PICK d \in Decisions(proc[c].question, proc[c].seen) :
        proc' = [proc EXCEPT ![c] =
          [proc[c] EXCEPT !.pc = "finalize", !.action = d[1], !.result = d[2],
                          !.seen = 0, !.ret = "cache"]]
  BY DEF Decide
<1> DEFINE m == [proc[c] EXCEPT !.pc = "finalize", !.action = d[1], !.result = d[2],
                                !.seen = 0, !.ret = "cache"]
<1>2. m.pc = "finalize"
  BY DEF TypeInv, TypeOK, ProcState
<1>3. proc' = [proc EXCEPT ![c] = m]
  BY <1>1
<1> HIDE DEF m
<1>4. QED
  BY <1>2, <1>3, FarMoves

\* Completing recovers a turn, or closes the session, for no reply.
LEMMA CompleteMoves ==
  ASSUME TypeInv, NEW c \in Calls, CompleteRead(c) \/ CompleteSession(c)
  PROVE  OneMoves(c)
<1> DEFINE l == proc[c]
           Step(m) == proc' = [proc EXCEPT ![c] = m]
<1>1. l \in ProcState /\ c \in Procs
  BY DEF TypeInv, TypeOK
<1>2. CASE Raise(c)
  BY <1>1, <1>2, RaiseMoves
<1>3. CASE Goto(c, "close")
  BY <1>1, <1>3, GotoMoves
<1>4. ASSUME NEW m, m.ret # "cache", m.pc \in {"recover", "enqueue"}, Step(m)
      PROVE  OneMoves(c)
  <2>1. proc'[c] = m /\ \A x \in Procs \ {c} : proc'[x] = proc[x]
    BY <1>1, <1>4 DEF TypeInv, TypeOK
  <2>2. Replying(m, status', turns')
    BY <1>4 DEF Replying
  <2>3. QED
    BY <2>1, <2>2 DEF OneMoves
<1>5. ASSUME NEW q \in Processing(l.session), CompleteRead(c),
             proc' = [proc EXCEPT ![c].pc = "recover", ![c].question = q,
                                  ![c].ret = "close"]
      PROVE  OneMoves(c)
  <2> DEFINE m == [l EXCEPT !.pc = "recover", !.question = q, !.ret = "close"]
  <2>1. Step(m)
    BY <1>1, <1>5 DEF TypeInv, TypeOK
  <2>2. m.pc = "recover" /\ m.ret = "close"
    BY <1>1 DEF ProcState
  <2> HIDE DEF m
  <2>3. QED
    BY <1>4, <2>1, <2>2
<1>6. CASE CompleteSession(c) /\ ~Raise(c)
  <2> DEFINE m == [l EXCEPT !.pc = "enqueue", !.ret = "idle"]
  <2>1. Step(m)
    BY <1>1, <1>6 DEF CompleteSession, TypeInv, TypeOK
  <2>2. m.pc = "enqueue" /\ m.ret = "idle"
    BY <1>1 DEF ProcState
  <2> HIDE DEF m
  <2>3. QED
    BY <1>4, <2>1, <2>2
<1>7. QED
  BY <1>2, <1>3, <1>5, <1>6 DEF CompleteRead

\* A request arrives, or its response has been read.
LEMMA ClientMoves ==
  ASSUME TypeInv, NEW c \in Calls,
         SubmitTurn(c) \/ CompleteInterview(c) \/ Return(c)
  PROVE  OneMoves(c)
<1>1. ASSUME NEW s, NEW q, NEW r, NEW a,
             proc' = [proc EXCEPT ![c] =
               [IdleProc EXCEPT !.pc = "lookup", !.session = s,
                  !.question = q, !.request = r, !.answer = a]]
      PROVE  OneMoves(c)
  <2> DEFINE m == [IdleProc EXCEPT !.pc = "lookup", !.session = s,
                     !.question = q, !.request = r, !.answer = a]
  <2>1. m.pc = "lookup"
    BY IdleType DEF ProcState
  <2> HIDE DEF m
  <2>2. QED
    BY <1>1, <2>1, FarMoves DEF m
<1>2. ASSUME NEW s, proc' = [proc EXCEPT ![c] =
               [IdleProc EXCEPT !.pc = "completing", !.session = s]]
      PROVE  OneMoves(c)
  <2> DEFINE m == [IdleProc EXCEPT !.pc = "completing", !.session = s]
  <2>1. m.pc = "completing"
    BY IdleType DEF ProcState
  <2> HIDE DEF m
  <2>2. QED
    BY <1>2, <2>1, FarMoves DEF m
<1>3. IdleProc.pc = "idle"
  BY DEF IdleProc
<1>4. CASE Return(c)
  BY <1>3, <1>4, FarMoves DEF Return
<1>5. CASE SubmitTurn(c)
  <2>1. PICK s \in Sessions, r \in Requests, a \in Answers :
          \E q \in Asked(s) : proc' = [proc EXCEPT ![c] =
            [IdleProc EXCEPT !.pc = "lookup", !.session = s,
               !.question = q, !.request = r, !.answer = a]]
    BY <1>5 DEF SubmitTurn
  <2>2. QED
    BY <1>1, <2>1
<1>6. CASE CompleteInterview(c)
  BY <1>2, <1>6 DEF CompleteInterview
<1>7. QED
  BY <1>4, <1>5, <1>6

\* The scheduler answers nobody.
LEMMA JobMoves ==
  ASSUME TypeInv, ScanTurns \/ RecoverNext \/ ScanEvaluations \/ RecoverDone
                  \/ (RequeueEvaluation /\ proc' # proc)
  PROVE  OneMoves(Scheduler)
<1>1. CASE RecoverNext
  <2>1. PICK x \in todo : proc' = [proc EXCEPT ![Scheduler] =
            [IdleProc EXCEPT !.pc = "recover", !.session = x[1],
                             !.question = x[2], !.ret = "scan"]]
    BY <1>1 DEF RecoverNext
  <2> DEFINE m == [IdleProc EXCEPT !.pc = "recover", !.session = x[1],
                                   !.question = x[2], !.ret = "scan"]
  <2>2. proc' = [proc EXCEPT ![Scheduler] = m]
    BY <2>1
  <2>3. m.pc = "recover" /\ m.ret = "scan"
    BY IdleType DEF ProcState
  <2> HIDE DEF m
  <2>4. Replying(m, status', turns')
    BY <2>3 DEF Replying
  <2>5. proc'[Scheduler] = m /\ \A y \in Procs \ {Scheduler} : proc'[y] = proc[y]
    BY <2>2 DEF TypeInv, TypeOK
  <2>6. QED
    BY <2>4, <2>5 DEF OneMoves
<1>2. CASE RequeueEvaluation /\ proc' # proc
  BY <1>2, RaiseMoves DEF RequeueEvaluation
<1>3. CASE ScanTurns
  BY <1>3, GotoMoves DEF ScanTurns
<1>4. CASE ScanEvaluations
  BY <1>4, GotoMoves DEF ScanEvaluations
<1>5. CASE RecoverDone
  BY <1>5, GotoMoves DEF RecoverDone
<1>6. QED
  BY <1>1, <1>2, <1>3, <1>4, <1>5

\* Whatever step is taken, one process moves or none, with a reply that is so.
LEMMA StepsReply ==
  ASSUME IInv, ReplyInv, [Next]_vars, proc' # proc
  PROVE  \E p \in Procs : OneMoves(p)
<1>0. TypeInv /\ \A p \in Procs : Replying(proc[p], status, turns)
  BY DEF IInv, ReplyInv
<1>1. ~UNCHANGED vars
  BY DEF vars
<1>2. ASSUME NEW c \in Calls, CallStep(c)
      PROVE  OneMoves(c)
  BY <1>0, <1>2, BeginMoves, DecideMoves, FinalizeReplies, SupersededMoves,
     RecoveryMoves, ResponseMoves, WaitMoves, CompleteMoves DEF CallStep
<1>3. CASE SchedulerStep
  BY <1>0, <1>3, JobMoves, FinalizeReplies, SupersededMoves, RecoveryMoves
    DEF SchedulerStep
<1>4. CASE ClientStep
  BY <1>0, <1>4, ClientMoves DEF ClientStep, DeleteSession
<1>5. CASE TimeStep \/ \E s \in Sessions : SaveReport(s)
  BY <1>5 DEF TimeStep, LeaseExpires, GrowsOld, CacheExpires, SaveReport
<1>6. ASSUME NEW p \in Procs, Crash(p)
      PROVE  OneMoves(p)
  BY <1>0, <1>6, RaiseMoves DEF Crash
<1>7. QED
  BY <1>1, <1>2, <1>3, <1>4, <1>5, <1>6 DEF Next

\* Only a response writes to the cache, and only time takes from it.
LEMMA CacheKinds ==
  ASSUME [Next]_vars, turnCache' # turnCache
  PROVE  \/ \E c \in Calls : ReplyFresh(c) \/ ReplyReplayed(c)
         \/ \E s \in Sessions, r \in Requests : CacheExpires(s, r)
<1>1. ~UNCHANGED vars
  BY DEF vars
<1>2. ASSUME NEW c \in Calls, CallStep(c)
      PROVE  ReplyFresh(c) \/ ReplyReplayed(c)
  BY <1>2 DEF CallStep, LookupTurn, BeginExisting, BeginRejected, BeginTurn, Decide,
              FinalizeTurn, FinalizeSuperseded, FinalizeRejected, EnqueueEvaluation,
              WaitOver, WaitRecover, WaitTimeout, RecoverTurn, CompleteRead,
              CompleteSession
<1>3. ~SchedulerStep
  BY DEF SchedulerStep, ScanTurns, RecoverNext, ScanEvaluations, RequeueEvaluation,
         RecoverDone, RecoverTurn, FinalizeTurn, FinalizeSuperseded,
         FinalizeRejected, EnqueueEvaluation
<1>4. ~ClientStep
  BY DEF ClientStep, SubmitTurn, CompleteInterview, Return, DeleteSession
<1>5. ~(\E p \in Procs : Crash(p)) /\ ~(\E s \in Sessions : SaveReport(s))
  BY DEF Crash, SaveReport
<1>6. QED
  BY <1>1, <1>2, <1>3, <1>4, <1>5 DEF Next, TimeStep, LeaseExpires, GrowsOld

\* Every cached turn is a decided one, after every step.
LEMMA CacheStep ==
  ASSUME IInv, ReplyInv, [Next]_vars
  PROVE  CacheDecided(turnCache', status', turns')
<1>0. /\ TypeInv /\ GoneIsEmpty /\ CacheDecided(turnCache, status, turns)
      /\ turnCache \in [Sessions -> [Requests -> Questions \cup {None}]]
      /\ \A p \in Procs : Replying(proc[p], status, turns)
  BY DEF IInv, ReplyInv, TypeInv, TypeOK
<1>1. SUFFICES ASSUME NEW s \in Sessions, NEW r \in Requests,
                      turnCache'[s][r] # None, status'[s] # "DELETED"
               PROVE  turns'[s][turnCache'[s][r]].state \in Decided
  BY DEF CacheDecided
<1>2. ASSUME NEW q \in Questions, turnCache'[s][r] = q, turns[s][q].state \in Decided
      PROVE  turns'[s][turnCache'[s][r]].state \in Decided
  BY <1>0, <1>1, <1>2, DecidedKept
<1>3. status[s] # "DELETED"
  BY <1>0, <1>1, DeletedKept
<1>4. ASSUME turnCache'[s][r] = turnCache[s][r]
      PROVE  turns'[s][turnCache'[s][r]].state \in Decided
  BY <1>0, <1>1, <1>2, <1>3, <1>4 DEF CacheDecided
<1>5. ASSUME NEW c \in Calls, ReplyFresh(c) \/ ReplyReplayed(c)
      PROVE  turns'[s][turnCache'[s][r]].state \in Decided
  <2> DEFINE l == proc[c]
  <2>1. l.session \in Sessions /\ l.question \in Questions
    BY <1>0, <1>5 DEF ReplyFresh, ReplyReplayed, TypeInv, LocalsOK
  <2>2. \/ turnCache' = turnCache
        \/ turnCache' = [turnCache EXCEPT ![l.session][l.request] = l.question]
    BY <1>5 DEF ReplyFresh, ReplyReplayed
  <2>3. CASE turnCache'[s][r] = turnCache[s][r]
    BY <1>4, <2>3
  <2>4. CASE turnCache'[s][r] # turnCache[s][r]
    <3>1. s = l.session /\ turnCache'[s][r] = l.question
      BY <1>0, <2>2, <2>4
    <3>2. turns[s][l.question].state \in Decided
      BY <1>0, <1>3, <1>5, <3>1 DEF ReplyFresh, ReplyReplayed, Replying, Answered
    <3>3. QED
      BY <1>2, <2>1, <3>1, <3>2
  <2>5. QED
    BY <2>3, <2>4
<1>6. ASSUME NEW x \in Sessions, NEW y \in Requests, CacheExpires(x, y)
      PROVE  turns'[s][turnCache'[s][r]].state \in Decided
  BY <1>0, <1>1, <1>4, <1>6 DEF CacheExpires
<1>7. QED
  BY <1>4, <1>5, <1>6, CacheKinds

\* Nothing has been answered at first.
LEMMA ReplyInit == Init => ReplyInv
<1>1. IdleProc.pc = "idle"
  BY DEF IdleProc
<1>2. QED
  BY <1>1, FarFromReply DEF Init, ReplyInv, CacheDecided, GoneIsEmpty

\* Every step keeps the invariant on replies.
LEMMA ReplyStep == IInv /\ ReplyInv /\ [Next]_vars => ReplyInv'
<1> SUFFICES ASSUME IInv, ReplyInv, [Next]_vars PROVE ReplyInv'
  OBVIOUS
<1>0. /\ GoneIsEmpty /\ \A p \in Procs : Replying(proc[p], status, turns)
      /\ \A p \in Procs : proc[p] \in ProcState /\ LocalsOK(proc[p])
  BY DEF ReplyInv, IInv, TypeInv, TypeOK
<1>1. ASSUME NEW p \in Procs, proc'[p] = proc[p]
      PROVE  Replying(proc'[p], status', turns')
  BY <1>0, <1>1, ReplyingKept
<1>2. \A p \in Procs : Replying(proc'[p], status', turns')
  BY <1>1, StepsReply DEF OneMoves
<1>3. GoneIsEmpty'
  <2>1. SUFFICES ASSUME NEW s \in Sessions, status'[s] = "DELETED",
                        NEW q \in Questions
                 PROVE  turns'[s][q].state = "NONE"
    BY DEF GoneIsEmpty
  <2>2. QED
    BY <1>0, <2>1, DeletedKept DEF GoneIsEmpty
<1>4. QED
  BY <1>2, <1>3, CacheStep DEF ReplyInv

\* The invariant on replies holds in every reachable state.
LEMMA ReplyInvHolds == Spec => []ReplyInv
<1>1. QED
  BY ReplyInit, ReplyStep, InvHolds, PTL DEF Spec

\* What a client was answered is the stored turn, decided, for as long as the
\* session is there.
THEOREM RepliesLast == Spec => []RepliesAreDurable
<1>1. ReplyInv => RepliesAreDurable
  BY DEF ReplyInv, Replying, Answered, RepliesAreDurable, Row
<1>2. QED
  BY <1>1, ReplyInvHolds, PTL

\* A turn found through the cache needs no wait.
THEOREM CacheNamesDecisions == Spec => []CachedTurnsAreDecided
<1>1. IInv /\ ReplyInv => CachedTurnsAreDecided
  <2>1. SUFFICES ASSUME IInv, ReplyInv, NEW s \in Sessions, NEW r \in Requests,
                        turnCache[s][r] # None, HasTurn(s, turnCache[s][r])
                 PROVE  Row(s, turnCache[s][r]).state \in Decided
    BY DEF CachedTurnsAreDecided
  <2>2. turnCache[s][r] \in Questions
    BY <2>1 DEF IInv, TypeInv, TypeOK
  <2>3. QED
    BY <2>1, <2>2 DEF ReplyInv, CacheDecided, GoneIsEmpty, HasTurn, Row
<1>2. QED
  BY <1>1, InvHolds, ReplyInvHolds, PTL
=============================================================================

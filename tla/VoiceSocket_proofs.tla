-------------------------- MODULE VoiceSocket_proofs --------------------------
(***************************************************************************)
(* Theorems about a voice session.  Of its socket (VoiceSocket), for any   *)
(* number of connections, requestIds and questions: its types, what a turn *)
(* sends and what is recorded of it.  Of its records (VoiceSession), for   *)
(* any number of calls: that its end is the interview's.                   *)
(***************************************************************************)
EXTENDS MCVoice, SequenceTheorems, WellFoundedInduction, TLAPS

-----------------------------------------------------------------------------
(* The invariant                                                           *)

\* TypeOK in parts: a step touches one or two of them.
Turns == [pc: {"idle", "begin", "wait", "decide", "reply", "look", "write",
               "speak", "refused", "clashed"},
          id: Ids \cup {0}, text: Answers, question: 0 .. NQuestions, found: Nat]
Notes == [asks: 1 .. NQuestions + 1, turn: 0 .. NQuestions]

ServiceTypes ==
  /\ status \in {"IN_PROGRESS", "PAUSED", "COMPLETED"}
  /\ question \in 1 .. NQuestions + 1
  /\ turnOf \in [Ids \cup {Uuid} -> 0 .. NQuestions]
  /\ sent \in [Ids \cup {Uuid} -> Answers]
SocketTypes ==
  /\ opened \in 0 .. NConns
  /\ peer \in [Conns -> {"none", "open", "lost", "done"}] /\ shut \subseteq Conns
  /\ current \in 0 .. NConns /\ chain \in [Conns -> 0 .. NConns]
  /\ pausing \in 0 .. NConns
TaskTypes ==
  /\ opening \in [Conns -> {"none", "check", "save"}]
  /\ delayed \subseteq Conns
  /\ turn \in [Conns -> Turns]
SpeechTypes == buffer \in Answers /\ pending \in Ids \cup {Uuid} /\ cooling \in BOOLEAN
ClientTypes == asked \in Ids \cup {0} /\ submitting \in BOOLEAN
RecordTypes == log \in Seq(Notes) /\ overlapped \subseteq 0 .. NQuestions

\* The type invariant is the conjunction of the parts the steps below treat one by one.
LEMMA TypesInParts ==
  TypeOK <=> /\ ServiceTypes /\ SocketTypes /\ TaskTypes /\ SpeechTypes /\ ClientTypes
             /\ RecordTypes
BY DEF TypeOK, ServiceTypes, SocketTypes, TaskTypes, SpeechTypes, ClientTypes, RecordTypes, Turns, Notes

\* The registered connection has a chain that began after the one being
\* paused was popped, and its socket is open.
ChainsFit ==
  /\ current <= opened /\ pausing <= opened /\ current \notin shut
  /\ \A n \in Conns : chain[n] <= n /\ (n \in shut => n <= opened)
  /\ current # 0 => chain[current] > 0 /\ chain[current] > pausing

\* One turn at a time is being decided, that of the current question.
OneIsDecided ==
  \A n \in Conns : turn[n].pc = "decide" =>
    /\ question <= NQuestions /\ turnOf[turn[n].id] = question
    /\ \A m \in Conns \ {n} : turn[m].pc # "decide"

\* An answer that waits with its requestId is alone in the buffer, its submit
\* is on its way, and nothing is heard until then.
WaitsAlone ==
  pending # Uuid =>
    /\ buffer = {pending} /\ current # 0 /\ chain[current] \in delayed
    /\ Processing(current) \/ cooling

\* A turn that was opened has its question.
QuestionsFit ==
  \A n \in Conns :
    turn[n].pc \in {"wait", "decide", "reply", "look", "write"} => turn[n].question # 0

\* Unless saves overlapped, a save goes on only while its turn has no message,
\* and the message it found is still without an answer.
SavesFit ==
  \A n \in Conns :
    /\ turn[n].pc \in {"look", "write"} => turn[n].question \in overlapped \/ Unknown(turn[n].question)
    /\ turn[n].pc = "write" =>
         /\ turn[n].found \in 0 .. Len(log)
         /\ turn[n].found # 0 /\ log[turn[n].found].turn # 0 => log[turn[n].found].turn \in overlapped

\* Unless saves overlapped, a reply is there with its turn's answer.
RepliesHaveTurns ==
  \A m \in 1 .. Len(log) : log[m].asks > 1 =>
    log[m].asks - 1 \in overlapped \/ ~Unknown(log[m].asks - 1)

RecordsFit == SavesFit /\ RepliesHaveTurns /\ TurnRecordedOnce

IInv == TypeOK /\ ChainsFit /\ OneIsDecided /\ WaitsAlone
          /\ SubmittedTextIsSent /\ QuestionsFit /\ RecordsFit

\* The invariant holds in the initial states.
LEMMA SocketStarts == Init => IInv
<1> SUFFICES ASSUME Init PROVE IInv
  OBVIOUS
<1>1. TypeOK
  <2>1. RecordTypes
    BY DEF Init, RecordTypes
  <2>2. ServiceTypes
    BY SocketAssumption DEF Init, ServiceTypes, Answers
  <2>3. SocketTypes
    BY SocketAssumption DEF Init, SocketTypes, Conns
  <2>4. TaskTypes
    BY SocketAssumption DEF Init, TaskTypes, NoTurn, Turns, Answers
  <2>5. SpeechTypes /\ ClientTypes
    BY DEF Init, SpeechTypes, ClientTypes, Answers
  <2> QED BY <2>1, <2>2, <2>3, <2>4, <2>5, TypesInParts
<1>2. ChainsFit /\ OneIsDecided /\ WaitsAlone
  BY SocketAssumption DEF Init, ChainsFit, OneIsDecided, WaitsAlone, Conns, NoTurn, Uuid
<1>3. SubmittedTextIsSent
  BY SocketAssumption DEF Init, SubmittedTextIsSent, NoTurn
<1>4. QuestionsFit /\ RecordsFit
  BY DEF Init, QuestionsFit, NoTurn, RecordsFit, SavesFit, RepliesHaveTurns, TurnRecordedOnce
<1> QED BY <1>1, <1>2, <1>3, <1>4 DEF IInv

-----------------------------------------------------------------------------
(* Sockets                                                                 *)

\* Connections, the registry and the chains of a speaker keep their types.
LEMMA SocketsAreKept ==
  ASSUME IInv, [Next]_vars
  PROVE  SocketTypes' /\ ChainsFit'
<1> USE SocketAssumption DEF IInv, SocketTypes, ChainsFit, Conns
<1>0. SocketTypes
  BY TypesInParts
<1>1. CASE Accept
  <2> DEFINE n == opened + 1
  <2>1. /\ n \in Conns /\ opened' = n /\ current' = n
        /\ peer' = [peer EXCEPT ![n] = "open"]
        /\ UNCHANGED <<shut, pausing>>
    BY <1>0, <1>1 DEF Accept
  <2>2. \/ current # 0 /\ chain' = [chain EXCEPT ![n] = chain[current]]
        \/ current = 0 /\ chain' = [chain EXCEPT ![n] = n]
    BY <1>1 DEF Accept
  <2>3. /\ chain' \in [Conns -> 0 .. NConns]
        /\ \A m \in Conns \ {n} : chain'[m] = chain[m]
        /\ chain'[n] <= n /\ chain'[n] > 0 /\ chain'[n] > pausing
    <3>1. CASE current # 0 /\ chain' = [chain EXCEPT ![n] = chain[current]]
      <4>1. /\ current \in Conns /\ chain[current] \in 0 .. NConns /\ chain[current] <= current
            /\ current <= opened /\ chain[current] > 0 /\ chain[current] > pausing
        BY <1>0, <3>1
      <4> QED BY <1>0, <2>1, <3>1, <4>1
    <3>2. CASE current = 0 /\ chain' = [chain EXCEPT ![n] = n]
      BY <1>0, <2>1, <3>2
    <3> QED BY <2>2, <3>1, <3>2
  <2>4. SocketTypes'
    BY <1>0, <2>1, <2>3
  <2>5. ChainsFit'
    <3>1. n \notin shut
      BY <1>0, <2>1
    <3>2. pausing <= n
      BY <1>0, <2>1
    <3>3. \A m \in Conns : chain'[m] <= m /\ (m \in shut => m <= n)
      <4> TAKE m \in Conns
      <4>1. CASE m = n
        BY <2>3, <3>1, <4>1
      <4>2. CASE m # n
        <5>1. chain'[m] = chain[m] /\ chain[m] <= m
          BY <1>0, <2>3, <4>2
        <5>2. m \in shut => m <= opened
          BY <1>0
        <5>3. opened \in Nat /\ m \in Nat
          BY <1>0
        <5> QED BY <5>1, <5>2, <5>3
      <4> QED BY <4>1, <4>2
    <3>4. current' <= opened' /\ pausing' <= opened' /\ current' \notin shut'
      BY <1>0, <2>1, <3>1, <3>2
    <3>5. \A m \in Conns : chain'[m] <= m /\ (m \in shut' => m <= opened')
      BY <2>1, <3>3
    <3>6. chain'[current'] > 0 /\ chain'[current'] > pausing'
      BY <2>1, <2>3
    <3> QED BY <3>4, <3>5, <3>6
  <2> QED BY <2>4, <2>5
<1>2. CASE ClientLost
  BY <1>0, <1>2 DEF ClientLost
<1>3. ASSUME NEW n \in Conns, Disconnect(n) PROVE SocketTypes' /\ ChainsFit'
  BY <1>0, <1>3 DEF Disconnect
<1>4. CASE PausePops
  <2>1. /\ current # 0 /\ pausing' = current /\ current' = 0
        /\ UNCHANGED <<opened, peer, shut, chain>>
    BY <1>4 DEF PausePops
  <2>2. SocketTypes'
    BY <1>0, <2>1
  <2>3. current' <= opened' /\ pausing' <= opened' /\ current' \notin shut'
    BY <1>0, <2>1
  <2>4. \A n \in Conns : chain'[n] <= n /\ (n \in shut' => n <= opened')
    BY <1>0, <2>1
  <2>5. ChainsFit'
    BY <2>1, <2>3, <2>4 DEF ChainsFit
  <2> QED BY <2>2, <2>5
<1>5. CASE PauseEnds
  <2>1. /\ pausing # 0 /\ pausing' = 0
        /\ shut' = shut \/ shut' = shut \cup {pausing}
        /\ UNCHANGED <<opened, peer, current, chain>>
    BY <1>5 DEF PauseEnds
  <2>2. current # pausing
    BY <1>0, <2>1
  <2>3. shut' \subseteq Conns /\ current \notin shut' /\ \A n \in shut' : n <= opened
    <3>1. pausing \in Conns /\ pausing <= opened
      BY <1>0, <2>1
    <3>2. shut' \subseteq shut \cup {pausing}
      BY <2>1
    <3> QED BY <1>0, <2>2, <3>1, <3>2
  <2>4. pausing' \in 0 .. NConns
    BY <2>1
  <2>5. SocketTypes'
    BY <1>0, <2>1, <2>3, <2>4
  <2>6. ChainsFit'
    BY <1>0, <2>1, <2>3
  <2> QED BY <2>5, <2>6
<1>6. CASE UNCHANGED <<sockets, pausing>>
  BY <1>0, <1>6 DEF sockets
<1> QED BY <1>1, <1>2, <1>3, <1>4, <1>5, <1>6
        DEF Next, vars, TurnStep, ClientSubmits, Heard, CooldownEnds, PauseOrResume,
            RecoverTurn, BeginTurn, DecideTurn, WaitedTurn, SendReply, FindUnanswered,
            WriteRecord, SaveFails, FinishTurn, OpeningChecks, OpeningSaves, DelayedSubmit

\* What is registered can be reached, and a pause cancels another chain.
LEMMA RegisteredIsReachable ==
  ASSUME IInv
  PROVE  /\ Reachable <=> current # 0
         /\ current # 0 => current \in Conns /\ chain[current] \in Conns
         /\ pausing # 0 /\ current # 0 => chain[current] # chain[pausing]
BY TypesInParts, SocketAssumption DEF IInv, SocketTypes, ChainsFit, Reachable, Conns

-----------------------------------------------------------------------------
(* Turns                                                                   *)

\* What a step may do to turn n: start it with a text that is its id's, go on
\* with it for some question, decide it as the only one, go on saving it, or
\* end it.
Began(i, t) == [NoTurn EXCEPT !.pc = "begin", !.id = i, !.text = t]

Starts(n, i, t) ==
  /\ turn[n].pc = "idle" /\ i \in Ids \cup {Uuid} /\ t \in Answers /\ (i \in Ids => t = {i})
  /\ turn' = [turn EXCEPT ![n] = Began(i, t)]
GoesOn(n, pc, q) ==
  /\ turn[n].pc # "idle" /\ pc \in {"wait", "reply", "refused"}
  /\ q \in 0 .. NQuestions /\ (pc # "refused" => q # 0)
  /\ turn' = [turn EXCEPT ![n].pc = pc, ![n].question = q]
Takes(n) ==
  /\ turn[n].pc = "begin" /\ New(n)
  /\ turn' = [turn EXCEPT ![n].pc = "decide", ![n].question = question]
  /\ turnOf' = [turnOf EXCEPT ![turn[n].id] = question]
  /\ UNCHANGED question
EndSome == \E some \in SUBSET Conns : turn' = [n \in Conns |-> IF n \in some THEN NoTurn ELSE turn[n]]

TurnsMove ==
  \/ UNCHANGED turn \/ EndSome
  \/ \E n \in Conns :
       \/ \E i, t : Starts(n, i, t)
       \/ \E pc, q : GoesOn(n, pc, q)

Saves(n, pc, f) ==
  /\ turn[n].pc \in {"reply", "look", "write"} /\ pc \in {"look", "write", "speak", "clashed"}
  /\ f \in Nat
  /\ turn' = [turn EXCEPT ![n].pc = pc, ![n].found = f]
TurnSaves ==
  \E n \in Conns :
    /\ SendReply(n) \/ FindUnanswered(n) \/ WriteRecord(n)
    /\ \E pc, f : Saves(n, pc, f)

\* A turn that begins carries the id and the text of the answer that began it.
LEMMA BeganTurn ==
  ASSUME NEW i \in Ids \cup {Uuid}, NEW t \in Answers
  PROVE  Began(i, t) \in Turns /\ Began(i, t).pc = "begin"
           /\ Began(i, t).id = i /\ Began(i, t).text = t
<1>1. NoTurn \in Turns
  BY SocketAssumption DEF NoTurn, Turns, Answers
<1> QED BY <1>1 DEF Began, Turns, Uuid

\* A turn's last steps end one task and start none.
LEMMA SomeTurnsEnd ==
  ASSUME TaskTypes, NEW n \in Conns, TurnEnds(n)
  PROVE  EndSome
<1>1. turn' = [m \in Conns |-> IF m \in {n} THEN NoTurn ELSE turn[m]]
  BY DEF TaskTypes, TurnEnds, Cleared
<1> QED BY <1>1 DEF EndSome

\* Cancelling a connection's tasks ends some turns and starts none.
LEMMA CancelEndsSome ==
  ASSUME NEW k, Cancel(k)
  PROVE  EndSome
<1>1. OfChain(k) \in SUBSET Conns
  BY DEF OfChain
<1> QED BY <1>1 DEF Cancel, EndSome

\* The question's number on a turn that goes on with its own.
LEMMA TurnGoesOn ==
  ASSUME TaskTypes, NEW n \in Conns, turn[n].pc # "idle", NEW pc \in {"reply", "refused"},
         pc # "refused" => turn[n].question # 0, TurnGoes(n, pc)
  PROVE  \E q : GoesOn(n, pc, q)
<1>1. turn[n] \in Turns
  BY DEF TaskTypes
<1>2. [turn EXCEPT ![n].pc = pc] = [turn EXCEPT ![n].pc = pc, ![n].question = turn[n].question]
  BY <1>1 DEF TaskTypes, Turns
<1> QED BY <1>1, <1>2 DEF TurnGoes, GoesOn, Turns

\* The client's answer, or what waited with its id, starts a turn.
LEMMA SubmitStarts ==
  ASSUME IInv, ClientSubmits
  PROVE  UNCHANGED turn \/ \E i, t : current \in Conns /\ Starts(current, i, t)
<1>1. CASE UNCHANGED turn
  BY <1>1
<1>2. CASE ~UNCHANGED turn
  <2>1. PICK i \in Ids :
          Reachable /\ ~Processing(current) /\ StartTurn(current, {i}, i)
    BY <1>2, TypesInParts DEF ClientSubmits, Fresh, tasks, IInv, ClientTypes
  <2>2. current \in Conns
    BY <2>1, RegisteredIsReachable
  <2>3. Starts(current, i, {i})
    BY <2>1 DEF Starts, Began, StartTurn, Processing, Answers
  <2> QED BY <2>2, <2>3
<1> QED BY <1>1, <1>2

\* The merge timer starts at most one turn, on the current connection.
LEMMA DelayedStarts ==
  ASSUME IInv, NEW k \in Conns, DelayedSubmit(k)
  PROVE  UNCHANGED turn \/ \E i, t : current \in Conns /\ Starts(current, i, t)
<1>1. CASE UNCHANGED turn
  BY <1>1
<1>2. CASE ~UNCHANGED turn
  <2>1. Reachable /\ ~Processing(current) /\ StartTurn(current, buffer, pending)
    BY <1>2 DEF DelayedSubmit
  <2>2. current \in Conns
    BY <2>1, RegisteredIsReachable
  <2>3. pending \in Ids => buffer = {pending}
    BY SocketAssumption DEF IInv, WaitsAlone, Uuid
  <2>4. buffer \in Answers /\ pending \in Ids \cup {Uuid}
    BY TypesInParts DEF IInv, SpeechTypes
  <2>5. Starts(current, pending, buffer)
    BY <2>1, <2>3, <2>4 DEF Starts, Began, StartTurn, Processing
  <2> QED BY <2>2, <2>5
<1> QED BY <1>1, <1>2

\* While a turn is being decided its question has an open turn.
LEMMA DecidedIsOpen ==
  ASSUME IInv, OpenTurns = {}
  PROVE  \A m \in Conns : turn[m].pc # "decide"
<1>1. \A m \in Conns : turn[m].id \in Ids \cup {Uuid}
  BY TypesInParts DEF IInv, TaskTypes, Turns, Uuid
<1> QED BY <1>1 DEF IInv, OneIsDecided, OpenTurns

\* begin_turn either moves its task on or takes the answer for deciding.
LEMMA BeginMoves ==
  ASSUME IInv, NEW n \in Conns, BeginTurn(n)
  PROVE  TurnsMove \/ Takes(n)
<1> USE DEF IInv
<1>1. TaskTypes /\ ServiceTypes
  BY TypesInParts
<1>2. turn[n].pc = "begin"
  BY DEF BeginTurn
<1>3. CASE TurnEnds(n)
  BY <1>1, <1>3, SomeTurnsEnd DEF TurnsMove
<1>4. CASE /\ New(n) /\ turn' = [turn EXCEPT ![n].pc = "decide", ![n].question = question]
           /\ turnOf' = [turnOf EXCEPT ![turn[n].id] = question]
  BY <1>2, <1>4 DEF Takes, BeginTurn
<1>5. CASE Known(n) /\ turn' = [turn EXCEPT ![n].pc = "wait", ![n].question = question]
  <2>1. question \in 0 .. NQuestions /\ question # 0
    BY <1>1, <1>5 DEF Known, OpenTurns, ServiceTypes
  <2>2. GoesOn(n, "wait", question)
    BY <1>2, <1>5, <2>1 DEF GoesOn
  <2> QED BY <2>2 DEF TurnsMove
<1>6. CASE TurnGoes(n, "refused")
  BY <1>1, <1>2, <1>6, TurnGoesOn DEF TurnsMove
<1> QED BY <1>3, <1>4, <1>5, <1>6 DEF BeginTurn

\* A nonempty set of numbers up to n has a greatest one.
LEMMA Greatest ==
  ASSUME NEW n \in Nat, NEW S \in SUBSET (0 .. n), S # {}
  PROVE  \E x \in S : \A y \in S : y <= x
<1> DEFINE T == {n - v : v \in S}
<1>1. T \in SUBSET Nat
  BY SMT
<1>2. T # {}
  BY Zenon
<1>3. PICK z \in T : \A y \in T : ~(<<y, z>> \in OpToRel(<, Nat))
  BY <1>1, <1>2, WFMin, NatLessThanWellFounded
<1>4. PICK x \in S : z = n - x
  BY <1>3
<1>5. ASSUME NEW y \in S PROVE y <= x
  <2>1. n - y \in T /\ <<n - y, n - x>> \in Nat \X Nat
    BY <1>1, <1>4
  <2>2. ~(n - y < n - x)
    BY <1>3, <1>4, <2>1 DEF OpToRel
  <2> QED BY <2>2
<1> QED BY <1>4, <1>5

\* The last message without an answer, if there is one.
LEMMA LatestIs ==
  ASSUME log \in Seq(Notes)
  PROVE  Latest \in 0 .. Len(log) /\ (Latest # 0 => log[Latest].turn = 0)
<1>1. Len(log) \in Nat /\ Unanswered \subseteq 1 .. Len(log)
  BY DEF Unanswered
<1>2. \E m \in Unanswered \cup {0} : \A k \in Unanswered : k <= m
  <2>1. CASE Unanswered = {}
    BY <2>1
  <2>2. CASE Unanswered # {}
    <3>1. Unanswered \in SUBSET (0 .. Len(log))
      BY <1>1
    <3>2. \E m \in Unanswered : \A k \in Unanswered : k <= m
      BY <1>1, <2>2, <3>1, Greatest
    <3> QED BY <3>2
  <2> QED BY <2>1, <2>2
<1>3. Latest \in Unanswered \cup {0}
  BY <1>2 DEF Latest
<1> QED BY <1>1, <1>3 DEF Unanswered

\* A turn that is saved goes on with its own question.
LEMMA ReplySaves ==
  ASSUME IInv, NEW n \in Conns, SendReply(n) \/ FindUnanswered(n) \/ WriteRecord(n)
  PROVE  TurnsMove \/ \E pc, f : Saves(n, pc, f)
<1>1. TaskTypes /\ RecordTypes
  BY TypesInParts DEF IInv
<1>2. turn[n] \in Turns
  BY <1>1 DEF TaskTypes
<1>3. CASE SendReply(n)
  <2>1. CASE TurnEnds(n)
    BY <1>1, <2>1, SomeTurnsEnd DEF TurnsMove
  <2>2. ASSUME NEW pc \in {"look", "speak"}, TurnGoes(n, pc)
        PROVE  Saves(n, pc, turn[n].found)
    <3>1. [turn EXCEPT ![n].pc = pc] = [turn EXCEPT ![n].pc = pc, ![n].found = turn[n].found]
      BY <1>1, <1>2 DEF TaskTypes, Turns
    <3> QED BY <1>2, <1>3, <2>2, <3>1 DEF SendReply, TurnGoes, Saves, Turns
  <2> QED BY <1>3, <2>1, <2>2 DEF SendReply
<1>4. CASE FindUnanswered(n)
  <2>1. Latest \in Nat
    BY <1>1, LatestIs DEF RecordTypes
  <2>2. Saves(n, "write", Latest)
    BY <1>4, <2>1 DEF FindUnanswered, Saves
  <2> QED BY <2>2
<1>5. CASE WriteRecord(n)
  <2>1. \E pc \in {"clashed", "speak"} : Saves(n, pc, 0)
    BY <1>5 DEF WriteRecord, Saves
  <2> QED BY <2>1
<1> QED BY <1>3, <1>4, <1>5

\* The later calls of a turn do the same.
LEMMA TurnStepMoves ==
  ASSUME IInv, NEW n \in Conns, TurnStep(n)
  PROVE  TurnsMove \/ TurnSaves \/ Takes(n)
<1>1. TaskTypes
  BY TypesInParts DEF IInv
<1>2. CASE BeginTurn(n)
  BY <1>2, BeginMoves
<1>3. CASE DecideTurn(n) \/ WaitedTurn(n)
  <2>1. turn[n].pc # "idle" /\ turn[n].question # 0 /\ TurnGoes(n, "reply")
    BY <1>3 DEF DecideTurn, WaitedTurn, IInv, QuestionsFit
  <2> QED BY <1>1, <2>1, TurnGoesOn DEF TurnsMove
<1>4. CASE SendReply(n) \/ FindUnanswered(n) \/ WriteRecord(n)
  BY <1>4, ReplySaves DEF TurnSaves
<1>5. CASE SaveFails(n) \/ FinishTurn(n)
  BY <1>1, <1>5, SomeTurnsEnd DEF SaveFails, FinishTurn, TurnsMove
<1> QED BY <1>2, <1>3, <1>4, <1>5 DEF TurnStep

\* In every step turns keep their id and text, move on or end, or one of them is saved or
\* takes its answer.
LEMMA TurnsOnlyMove ==
  ASSUME IInv, [Next]_vars
  PROVE  TurnsMove \/ TurnSaves \/ \E n \in Conns : Takes(n)
<1>1. CASE ClientSubmits
  BY <1>1, SubmitStarts DEF TurnsMove
<1>2. ASSUME NEW k \in Conns, DelayedSubmit(k) PROVE TurnsMove
  BY <1>2, DelayedStarts DEF TurnsMove
<1>3. ASSUME NEW n \in Conns, TurnStep(n) PROVE TurnsMove \/ TurnSaves \/ Takes(n)
  BY <1>3, TurnStepMoves
<1>4. ASSUME NEW n \in Conns, Disconnect(n) PROVE TurnsMove
  BY <1>4, CancelEndsSome DEF Disconnect, tasks, TurnsMove
<1>5. CASE PauseEnds
  BY <1>5, CancelEndsSome DEF PauseEnds, tasks, TurnsMove
<1>6. CASE UNCHANGED turn
  BY <1>6 DEF TurnsMove
<1> QED BY <1>1, <1>2, <1>3, <1>4, <1>5, <1>6
        DEF Next, vars, tasks, Accept, ClientLost, Heard, CooldownEnds, PausePops,
            PauseOrResume, RecoverTurn, OpeningChecks, OpeningSaves

\* A turn going from one call to the next keeps its id and its text.
LEMMA OneGoesOn ==
  ASSUME TaskTypes, NEW n \in Conns,
         NEW pc \in {"wait", "decide", "reply", "speak", "refused"}, NEW q \in 0 .. NQuestions,
         turn' = [turn EXCEPT ![n].pc = pc, ![n].question = q]
  PROVE  /\ turn' \in [Conns -> Turns]
         /\ \A m \in Conns : turn'[m].id = turn[m].id /\ turn'[m].text = turn[m].text
<1> DEFINE new == [turn[n] EXCEPT !.pc = pc, !.question = q]
<1>1. turn[n] \in Turns
  BY DEF TaskTypes
<1>2. new \in Turns /\ new.id = turn[n].id /\ new.text = turn[n].text
  BY <1>1 DEF Turns
<1>3. turn' = [turn EXCEPT ![n] = new]
  BY DEF TaskTypes
<1> HIDE DEF new
<1> QED BY <1>2, <1>3 DEF TaskTypes

\* So does a turn that goes on being saved, which keeps its question too.
LEMMA OneSaves ==
  ASSUME TaskTypes, NEW n \in Conns, NEW pc, NEW f, Saves(n, pc, f)
  PROVE  /\ turn' \in [Conns -> Turns]
         /\ \A m \in Conns : turn'[m].id = turn[m].id /\ turn'[m].text = turn[m].text
         /\ turn'[n].pc = pc /\ turn'[n].found = f /\ turn'[n].question = turn[n].question
         /\ \A m \in Conns \ {n} : turn'[m] = turn[m]
<1> DEFINE new == [turn[n] EXCEPT !.pc = pc, !.found = f]
<1>1. turn[n] \in Turns
  BY DEF TaskTypes
<1>2. new \in Turns /\ new.id = turn[n].id /\ new.text = turn[n].text
      /\ new.pc = pc /\ new.found = f /\ new.question = turn[n].question
  BY <1>1 DEF Turns, Saves
<1>3. turn' = [turn EXCEPT ![n] = new]
  BY DEF TaskTypes, Saves
<1> HIDE DEF new
<1> QED BY <1>2, <1>3 DEF TaskTypes

\* Whichever it is, the turns stay well typed and the submitted text stays that of the id.
LEMMA TurnTypes ==
  ASSUME IInv, TurnsMove \/ TurnSaves \/ \E n \in Conns : Takes(n)
  PROVE  turn' \in [Conns -> Turns] /\ SubmittedTextIsSent'
<1> USE DEF SubmittedTextIsSent
<1>1. TaskTypes /\ ServiceTypes /\ SubmittedTextIsSent
  BY TypesInParts DEF IInv
<1>2. NoTurn \in Turns /\ NoTurn.id \notin Ids
  BY SocketAssumption DEF NoTurn, Turns, Answers
<1>3. CASE UNCHANGED turn
  BY <1>1, <1>3 DEF TaskTypes
<1>4. CASE EndSome
  BY <1>1, <1>2, <1>4 DEF EndSome, TaskTypes
<1>5. ASSUME NEW n \in Conns, NEW i, NEW t, Starts(n, i, t)
      PROVE  turn' \in [Conns -> Turns] /\ SubmittedTextIsSent'
  <2>1. Began(i, t) \in Turns /\ Began(i, t).id = i /\ Began(i, t).text = t
    BY <1>5, BeganTurn DEF Starts
  <2> QED BY <1>1, <1>5, <2>1 DEF Starts, TaskTypes
<1>6. ASSUME NEW n \in Conns, NEW pc, NEW q, GoesOn(n, pc, q)
      PROVE  turn' \in [Conns -> Turns] /\ SubmittedTextIsSent'
  BY <1>1, <1>6, OneGoesOn DEF GoesOn, TaskTypes
<1>7. ASSUME NEW n \in Conns, Takes(n)
      PROVE  turn' \in [Conns -> Turns] /\ SubmittedTextIsSent'
  <2>1. question \in 0 .. NQuestions
    BY <1>1, <1>7, SocketAssumption DEF Takes, New, ServiceTypes
  <2>2. turn' = [turn EXCEPT ![n].pc = "decide", ![n].question = question]
    BY <1>7 DEF Takes
  <2> QED BY <1>1, <2>1, <2>2, OneGoesOn
<1>8. ASSUME NEW n \in Conns, NEW pc, NEW f, Saves(n, pc, f)
      PROVE  turn' \in [Conns -> Turns] /\ SubmittedTextIsSent'
  BY <1>1, <1>8, OneSaves
<1> QED BY <1>3, <1>4, <1>5, <1>6, <1>7, <1>8 DEF TurnsMove, TurnSaves

\* A turn is opened with a question, and keeps it.
LEMMA QuestionsAreKept ==
  ASSUME IInv, [Next]_vars
  PROVE  QuestionsFit'
<1> USE DEF QuestionsFit
<1>1. TaskTypes /\ ServiceTypes /\ QuestionsFit
  BY TypesInParts DEF IInv
<1>2. CASE UNCHANGED turn
  BY <1>1, <1>2
<1>3. CASE EndSome
  BY <1>1, <1>3 DEF EndSome, NoTurn
<1>4. ASSUME NEW n \in Conns, NEW i, NEW t, Starts(n, i, t) PROVE QuestionsFit'
  <2>1. Began(i, t).pc = "begin"
    BY <1>4, BeganTurn DEF Starts
  <2>2. turn'[n].pc = "begin" /\ \A m \in Conns \ {n} : turn'[m] = turn[m]
    BY <1>1, <1>4, <2>1 DEF Starts, TaskTypes
  <2> QED BY <1>1, <2>2
<1>5. ASSUME NEW n \in Conns, NEW pc, NEW q, pc # "refused" => q # 0,
             turn' = [turn EXCEPT ![n].pc = pc, ![n].question = q]
      PROVE  QuestionsFit'
  <2>1. turn'[n].pc = pc /\ turn'[n].question = q /\ \A m \in Conns \ {n} : turn'[m] = turn[m]
    BY <1>1, <1>5 DEF TaskTypes, Turns
  <2> QED BY <1>1, <1>5, <2>1
<1>6. ASSUME NEW n \in Conns, Takes(n) PROVE QuestionsFit'
  <2>1. question # 0
    BY <1>1 DEF ServiceTypes
  <2>2. turn' = [turn EXCEPT ![n].pc = "decide", ![n].question = question]
    BY <1>6 DEF Takes
  <2> QED BY <1>5, <2>1, <2>2
<1>7. ASSUME NEW n \in Conns, NEW pc, NEW f, Saves(n, pc, f) PROVE QuestionsFit'
  <2>1. turn[n].question # 0
    BY <1>1, <1>7 DEF Saves
  <2> QED BY <1>1, <1>7, <2>1, OneSaves
<1>8. ASSUME NEW n \in Conns, NEW pc, NEW q, GoesOn(n, pc, q) PROVE QuestionsFit'
  BY <1>5, <1>8 DEF GoesOn
<1> QED BY <1>2, <1>3, <1>4, <1>6, <1>7, <1>8, TurnsOnlyMove DEF TurnsMove, TurnSaves

-----------------------------------------------------------------------------
(* Decisions                                                               *)

\* Unless a turn is taken up, those being decided get fewer.
LEMMA DecidersShrink ==
  ASSUME IInv, TurnsMove \/ TurnSaves
  PROVE  \A m \in Conns : turn'[m].pc = "decide" => turn'[m] = turn[m]
<1>1. TaskTypes
  BY TypesInParts DEF IInv
<1>2. CASE UNCHANGED turn
  BY <1>2
<1>3. CASE EndSome
  BY <1>3 DEF EndSome, NoTurn
<1>4. ASSUME NEW n \in Conns, NEW i, NEW t, Starts(n, i, t)
      PROVE  \A m \in Conns : turn'[m].pc = "decide" => turn'[m] = turn[m]
  <2>1. Began(i, t).pc = "begin"
    BY <1>4, BeganTurn DEF Starts
  <2> QED BY <1>1, <1>4, <2>1 DEF Starts, TaskTypes
<1>5. ASSUME NEW n \in Conns, NEW pc, NEW q, GoesOn(n, pc, q)
      PROVE  \A m \in Conns : turn'[m].pc = "decide" => turn'[m] = turn[m]
  BY <1>1, <1>5 DEF GoesOn, TaskTypes, Turns
<1>6. ASSUME NEW n \in Conns, NEW pc, NEW f, Saves(n, pc, f)
      PROVE  \A m \in Conns : turn'[m].pc = "decide" => turn'[m] = turn[m]
  <2>1. pc # "decide"
    BY <1>6 DEF Saves
  <2> QED BY <1>1, <1>6, <2>1, OneSaves
<1> QED BY <1>2, <1>3, <1>4, <1>5, <1>6 DEF TurnsMove, TurnSaves

\* A turn takes its answer only while no other is being decided: the interview's row lock
\* serves them in order.
LEMMA TakesAlone ==
  ASSUME IInv, NEW n \in Conns, Takes(n)
  PROVE  OneIsDecided'
<1>1. ServiceTypes /\ TaskTypes
  BY TypesInParts DEF IInv
<1>2. \A m \in Conns : turn[m].pc # "decide"
  BY DecidedIsOpen DEF Takes, New, NewAtEnd
<1>3. \A m \in Conns \ {n} : turn'[m].pc # "decide"
  BY <1>1, <1>2 DEF Takes, TaskTypes
<1>4. turn[n].id \in Ids \cup {Uuid} /\ turn'[n].id = turn[n].id
  BY <1>1 DEF Takes, TaskTypes, Turns, Uuid
<1>5. turnOf'[turn'[n].id] = question /\ question <= NQuestions
  BY <1>1, <1>4 DEF Takes, ServiceTypes, New
<1> QED BY <1>3, <1>5 DEF Takes, OneIsDecided

\* What a turn that sends has is recorded under its id.
LEMMA BeginTypes ==
  ASSUME IInv, NEW n \in Conns, BeginTurn(n)
  PROVE  ServiceTypes' /\ OneIsDecided'
<1>1. ServiceTypes /\ TaskTypes
  BY TypesInParts DEF IInv
<1>2. turn[n].id \in Ids \cup {Uuid} /\ turn[n].text \in Answers
  BY <1>1 DEF TaskTypes, Turns, Uuid
<1>3. UNCHANGED <<status, question>>
  BY DEF BeginTurn
<1>4. ASSUME New(n), turnOf' = [turnOf EXCEPT ![turn[n].id] = question],
             sent' = [sent EXCEPT ![turn[n].id] = turn[n].text]
      PROVE  ServiceTypes'
  BY <1>1, <1>2, <1>3, <1>4, SocketAssumption DEF New, ServiceTypes
<1>5. ASSUME UNCHANGED <<turnOf, sent>> PROVE ServiceTypes'
  BY <1>1, <1>3, <1>5 DEF ServiceTypes
<1>6. ServiceTypes'
  BY <1>4, <1>5 DEF BeginTurn
<1>7. TurnsMove \/ Takes(n)
  BY BeginMoves
<1>8. CASE Takes(n)
  BY <1>6, <1>8, TakesAlone
<1>9. CASE ~Takes(n)
  <2>1. UNCHANGED turnOf
    BY <1>9 DEF BeginTurn, Takes
  <2> QED BY <1>3, <1>6, <1>7, <1>9, <2>1, DecidersShrink DEF IInv, OneIsDecided
<1> QED BY <1>8, <1>9

\* A decision, made or recovered, leaves no turn being decided.
LEMMA DecisionTypes ==
  ASSUME IInv, RecoverTurn \/ \E n \in Conns : DecideTurn(n)
  PROVE  ServiceTypes' /\ OneIsDecided'
<1>1. ServiceTypes /\ TaskTypes
  BY TypesInParts DEF IInv
<1>2. Decides /\ UNCHANGED <<turnOf, sent>>
  BY DEF RecoverTurn, DecideTurn
<1>3. question <= NQuestions
  <2>1. CASE RecoverTurn
    BY <1>1, <2>1 DEF RecoverTurn, OpenTurns, ServiceTypes
  <2>2. CASE \E n \in Conns : DecideTurn(n)
    BY <2>2 DEF DecideTurn, IInv, OneIsDecided
  <2> QED BY <2>1, <2>2
<1>4. question + 1 \in 1 .. NQuestions + 1
  BY <1>1, <1>3, SocketAssumption DEF ServiceTypes
<1>5. ServiceTypes'
  BY <1>1, <1>2, <1>4 DEF Decides, ServiceTypes
<1>6. \A m \in Conns : turn'[m].pc # "decide"
  <2>1. CASE RecoverTurn
    BY <2>1 DEF RecoverTurn, tasks
  <2>2. ASSUME NEW n \in Conns, DecideTurn(n)
        PROVE  \A m \in Conns : turn'[m].pc # "decide"
    BY <1>1, <2>2 DEF DecideTurn, TurnGoes, IInv, OneIsDecided, TaskTypes
  <2> QED BY <2>1, <2>2
<1> QED BY <1>5, <1>6 DEF OneIsDecided

\* No step puts a second answer before the model while one is being decided.
LEMMA DecisionsAreKept ==
  ASSUME IInv, [Next]_vars
  PROVE  ServiceTypes' /\ OneIsDecided'
<1>1. ServiceTypes
  BY TypesInParts DEF IInv
<1>2. ASSUME NEW n \in Conns, BeginTurn(n) PROVE ServiceTypes' /\ OneIsDecided'
  BY <1>2, BeginTypes
<1>3. CASE RecoverTurn \/ \E n \in Conns : DecideTurn(n)
  BY <1>3, DecisionTypes
<1>4. CASE UNCHANGED <<question, turnOf, sent>>
           /\ status' \in {"IN_PROGRESS", "PAUSED", "COMPLETED"}
  <2>1. ServiceTypes'
    BY <1>1, <1>4 DEF ServiceTypes
  <2>2. CASE TurnsMove \/ TurnSaves
    BY <1>4, <2>1, <2>2, DecidersShrink DEF IInv, OneIsDecided
  <2>3. CASE \E n \in Conns : Takes(n)
    BY <2>1, <2>3, TakesAlone
  <2> QED BY <2>1, <2>2, <2>3, TurnsOnlyMove
<1> QED BY <1>1, <1>2, <1>3, <1>4
        DEF Next, vars, service, ServiceTypes, TurnStep, Accept, ClientLost, ClientSubmits,
            Heard, CooldownEnds, PausePops, PauseEnds, PauseOrResume, Disconnect,
            WaitedTurn, SendReply, FindUnanswered, WriteRecord, SaveFails, FinishTurn,
            OpeningChecks, OpeningSaves, DelayedSubmit

-----------------------------------------------------------------------------
(* The records                                                             *)

\* What a save writes.
LEMMA SavedIs ==
  ASSUME log \in Seq(Notes), NEW m \in 0 .. Len(log), NEW q \in 0 .. NQuestions
  PROVE  LET l == Saved(m, q) IN
         /\ l \in Seq(Notes) /\ Len(l) = Len(log) + 1
         /\ l[Len(log) + 1].asks = q + 1
         /\ l[Len(log) + 1].turn = IF m = 0 THEN q ELSE 0
         /\ \A k \in 1 .. Len(log) :
              l[k].asks = log[k].asks /\ l[k].turn = IF k = m THEN q ELSE log[k].turn
<1>1. Len(log) \in Nat /\ \A k \in 1 .. Len(log) : log[k] \in Notes
  OBVIOUS
<1>2. CASE m = 0
  <2> DEFINE e == [asks |-> q + 1, turn |-> q]
  <2>1. e \in Notes
    BY SocketAssumption DEF Notes
  <2>2. /\ Append(log, e) \in Seq(Notes) /\ Len(Append(log, e)) = Len(log) + 1
        /\ Append(log, e)[Len(log) + 1] = e
        /\ \A k \in 1 .. Len(log) : Append(log, e)[k] = log[k]
    BY <2>1
  <2>3. Saved(m, q) = Append(log, e)
    BY <1>2 DEF Saved
  <2>4. e.asks = q + 1 /\ e.turn = q
    OBVIOUS
  <2>5. \A k \in 1 .. Len(log) : k # m
    BY <1>2
  <2> HIDE DEF e
  <2> QED BY <1>2, <2>2, <2>3, <2>4, <2>5
<1>3. CASE m # 0
  <2> DEFINE mid == [log EXCEPT ![m].turn = q]
             e   == [asks |-> q + 1, turn |-> 0]
  <2>1. Saved(m, q) = Append(mid, e)
    BY <1>3 DEF Saved
  <2>2. e \in Notes /\ e.asks = q + 1 /\ e.turn = 0
    BY SocketAssumption DEF Notes
  <2> HIDE DEF e
  <2>3. /\ mid \in Seq(Notes) /\ Len(mid) = Len(log)
        /\ \A k \in 1 .. Len(log) : mid[k].asks = log[k].asks /\ mid[k].turn = IF k = m THEN q ELSE log[k].turn
    <3>1. DOMAIN log = 1 .. Len(log)
      BY <1>1, LenProperties
    <3>2. ASSUME NEW k \in 1 .. Len(log)
          PROVE  mid[k] \in Notes /\ mid[k].asks = log[k].asks /\ mid[k].turn = IF k = m THEN q ELSE log[k].turn
      <4>1. CASE k = m
        <5>1. mid[k] = [log[k] EXCEPT !.turn = q]
          BY <3>1, <4>1
        <5>2. log[k] \in Notes
          BY <1>1
        <5> HIDE DEF mid
        <5> QED BY <4>1, <5>1, <5>2 DEF Notes
      <4>2. CASE k # m
        BY <1>1, <3>1, <4>2
      <4> QED BY <4>1, <4>2
    <3>3. mid = [k \in 1 .. Len(log) |-> mid[k]]
      BY <3>1
    <3>4. mid \in [1 .. Len(log) -> Notes]
      BY <3>2, <3>3
    <3> HIDE DEF mid
    <3>5. mid \in Seq(Notes)
      BY <3>4, <1>1, SeqDef
    <3> QED BY <3>2, <3>4, <3>5, <1>1, LenProperties
  <2> HIDE DEF mid
  <2>4. mid \in Seq(Notes) /\ e \in Notes
    BY <2>2, <2>3
  <2>5. /\ Append(mid, e) \in Seq(Notes)
        /\ Len(Append(mid, e)) = Len(mid) + 1
        /\ Append(mid, e)[Len(mid) + 1] = e
        /\ \A k \in 1 .. Len(mid) : Append(mid, e)[k] = mid[k]
    BY <2>4
  <2> QED BY <1>3, <2>1, <2>2, <2>3, <2>5
<1> QED BY <1>2, <1>3

\* A step that starts no save and writes no message.
LEMMA NothingSaved ==
  ASSUME IInv, UNCHANGED records,
         \A n \in Conns : turn'[n].pc \in {"look", "write", "clashed"} => turn'[n] = turn[n]
  PROVE  RecordsFit'
<1>1. UNCHANGED <<log, overlapped>>
  BY DEF records
<1>2. SavesFit'
  BY <1>1 DEF IInv, RecordsFit, SavesFit, Unknown
<1>3. RepliesHaveTurns'
  BY <1>1 DEF IInv, RecordsFit, RepliesHaveTurns, Unknown
<1>4. TurnRecordedOnce'
  BY <1>1 DEF IInv, RecordsFit, TurnRecordedOnce
<1> QED BY <1>2, <1>3, <1>4 DEF RecordsFit

\* Such are the steps by which turns move or take their answers.
LEMMA SavesStay ==
  ASSUME IInv, TurnsMove \/ \E n \in Conns : Takes(n)
  PROVE  \A n \in Conns : turn'[n].pc \in {"look", "write", "clashed"} => turn'[n] = turn[n]
<1>1. TaskTypes
  BY TypesInParts DEF IInv
<1>2. CASE UNCHANGED turn
  BY <1>2
<1>3. CASE EndSome
  BY <1>3 DEF EndSome, NoTurn
<1>4. ASSUME NEW n \in Conns, NEW i, NEW t, Starts(n, i, t)
      PROVE  \A m \in Conns : turn'[m].pc \in {"look", "write", "clashed"} => turn'[m] = turn[m]
  <2>1. Began(i, t).pc = "begin"
    BY <1>4, BeganTurn DEF Starts
  <2> QED BY <1>1, <1>4, <2>1 DEF Starts, TaskTypes
<1>5. ASSUME NEW n \in Conns, NEW pc \in {"wait", "reply", "refused", "decide"}, NEW q,
             turn' = [turn EXCEPT ![n].pc = pc, ![n].question = q]
      PROVE  \A m \in Conns : turn'[m].pc \in {"look", "write", "clashed"} => turn'[m] = turn[m]
  <2>1. turn'[n].pc = pc /\ \A m \in Conns \ {n} : turn'[m] = turn[m]
    BY <1>1, <1>5 DEF TaskTypes, Turns
  <2>2. pc \notin {"look", "write", "clashed"}
    OBVIOUS
  <2> QED BY <2>1, <2>2
<1>6. ASSUME NEW n \in Conns, NEW pc, NEW q, GoesOn(n, pc, q)
      PROVE  \A m \in Conns : turn'[m].pc \in {"look", "write", "clashed"} => turn'[m] = turn[m]
  BY <1>5, <1>6 DEF GoesOn
<1>7. ASSUME NEW n \in Conns, Takes(n)
      PROVE  \A m \in Conns : turn'[m].pc \in {"look", "write", "clashed"} => turn'[m] = turn[m]
  <2>1. turn' = [turn EXCEPT ![n].pc = "decide", ![n].question = question]
    BY <1>7 DEF Takes
  <2> QED BY <1>5, <2>1
<1> QED BY <1>2, <1>3, <1>4, <1>6, <1>7 DEF TurnsMove

\* A save that begins found no message of its turn; one that goes on found the
\* last message without an answer.
LEMMA ReadsFit ==
  ASSUME IInv, NEW n \in Conns, NEW pc, NEW f, Saves(n, pc, f), SendReply(n) \/ FindUnanswered(n)
  PROVE  RecordTypes' /\ RecordsFit'
<1>1. TaskTypes /\ RecordTypes
  BY TypesInParts DEF IInv
<1>2. UNCHANGED <<log, overlapped>>
  BY DEF SendReply, FindUnanswered, service, records
<1>3. /\ turn'[n].pc = pc /\ turn'[n].found = f /\ turn'[n].question = turn[n].question
      /\ \A m \in Conns \ {n} : turn'[m] = turn[m]
  BY <1>1, OneSaves
<1>4. /\ pc \in {"look", "write"} => turn[n].question \in overlapped \/ Unknown(turn[n].question)
      /\ pc = "write" => f \in 0 .. Len(log) /\ (f # 0 => log[f].turn = 0)
      /\ pc # "clashed"
  <2>1. CASE SendReply(n)
    <3>1. pc = "look" \/ pc = "write" => Unknown(turn[n].question) /\ pc # "write"
      <4>1. ~TurnEnds(n) \/ pc = "idle"
        BY <1>1, <1>3 DEF TurnEnds, Cleared, NoTurn, TaskTypes
      <4>2. pc # "idle"
        BY DEF Saves
      <4>3. TurnGoes(n, IF Unknown(turn[n].question) THEN "look" ELSE "speak")
        BY <2>1, <4>1, <4>2 DEF SendReply
      <4>4. turn'[n].pc = IF Unknown(turn[n].question) THEN "look" ELSE "speak"
        BY <1>1, <4>3 DEF TurnGoes, TaskTypes, Turns
      <4> QED BY <1>3, <4>4
    <3>2. pc # "clashed"
      <4>1. ~TurnEnds(n) \/ pc = "idle"
        BY <1>1, <1>3 DEF TurnEnds, Cleared, NoTurn, TaskTypes
      <4>2. pc # "idle"
        BY DEF Saves
      <4>3. TurnGoes(n, IF Unknown(turn[n].question) THEN "look" ELSE "speak")
        BY <2>1, <4>1, <4>2 DEF SendReply
      <4>4. turn'[n].pc = IF Unknown(turn[n].question) THEN "look" ELSE "speak"
        BY <1>1, <4>3 DEF TurnGoes, TaskTypes, Turns
      <4> QED BY <1>3, <4>4
    <3> QED BY <3>1, <3>2
  <2>2. CASE FindUnanswered(n)
    <3>1. turn[n].pc = "look" /\ turn'[n].pc = "write" /\ turn'[n].found = Latest
      BY <1>1, <2>2 DEF FindUnanswered, TaskTypes, Turns
    <3>2. Latest \in 0 .. Len(log) /\ (Latest # 0 => log[Latest].turn = 0)
      BY <1>1, LatestIs DEF RecordTypes
    <3> QED BY <1>3, <3>1, <3>2 DEF IInv, RecordsFit, SavesFit
  <2> QED BY <2>1, <2>2
<1>5. SavesFit'
  <2> SUFFICES ASSUME NEW m \in Conns
               PROVE  /\ turn'[m].pc \in {"look", "write"} =>
                           turn'[m].question \in overlapped \/ Unknown(turn'[m].question)
                      /\ turn'[m].pc = "write" =>
                           /\ turn'[m].found \in 0 .. Len(log)
                           /\ turn'[m].found # 0 /\ log[turn'[m].found].turn # 0
                                => log[turn'[m].found].turn \in overlapped
    BY <1>2 DEF SavesFit, Unknown
  <2>1. CASE m = n
    BY <1>3, <1>4, <2>1
  <2>2. CASE m # n
    BY <1>3, <2>2 DEF IInv, RecordsFit, SavesFit
  <2> QED BY <2>1, <2>2
<1>6. RepliesHaveTurns'
  BY <1>2 DEF IInv, RecordsFit, RepliesHaveTurns, Unknown
<1>7. TurnRecordedOnce'
  BY <1>2, <1>3, <1>4 DEF IInv, RecordsFit, TurnRecordedOnce
<1> QED BY <1>1, <1>2, <1>5, <1>6, <1>7 DEF RecordTypes, RecordsFit

\* A save that is refused by the key is one that others overlapped.
LEMMA ClashFits ==
  ASSUME IInv, NEW n \in Conns, turn[n].pc = "write", Clashes(turn[n].found, turn[n].question),
         turn' = [turn EXCEPT ![n].pc = "clashed", ![n].found = 0], UNCHANGED records
  PROVE  RecordTypes' /\ RecordsFit'
<1>1. TaskTypes /\ RecordTypes
  BY TypesInParts DEF IInv
<1>2. UNCHANGED <<log, overlapped>>
  BY DEF records
<1>3. /\ turn'[n].pc = "clashed" /\ turn'[n].question = turn[n].question
      /\ \A m \in Conns \ {n} : turn'[m] = turn[m]
  BY <1>1 DEF TaskTypes, Turns
<1>4. turn[n].question \in overlapped
  BY DEF IInv, RecordsFit, SavesFit, Clashes, Unknown
<1>5. SavesFit'
  <2>1. \A m \in Conns : turn'[m].pc \in {"look", "write"} => turn'[m] = turn[m]
    BY <1>3
  <2>2. SavesFit /\ (\A q : Unknown(q)' <=> Unknown(q)) /\ Len(log') = Len(log)
    BY <1>2 DEF IInv, RecordsFit, Unknown
  <2> SUFFICES ASSUME NEW m \in Conns, turn'[m].pc \in {"look", "write"}
               PROVE  /\ turn'[m].question \in overlapped \/ Unknown(turn'[m].question)
                      /\ turn'[m].pc = "write" =>
                           /\ turn'[m].found \in 0 .. Len(log)
                           /\ turn'[m].found # 0 /\ log[turn'[m].found].turn # 0
                                => log[turn'[m].found].turn \in overlapped
    BY <1>2, <2>2 DEF SavesFit
  <2>3. turn'[m] = turn[m]
    BY <2>1
  <2> QED BY <2>2, <2>3 DEF SavesFit
<1>6. RepliesHaveTurns'
  BY <1>2 DEF IInv, RecordsFit, RepliesHaveTurns, Unknown
<1>7. TurnRecordedOnce'
  <2>1. ASSUME NEW m \in Conns, turn'[m].pc = "clashed" PROVE turn'[m].question \in overlapped
    <3>1. CASE m = n
      BY <1>3, <1>4, <3>1
    <3>2. CASE m # n
      BY <1>3, <2>1, <3>2 DEF IInv, RecordsFit, TurnRecordedOnce
    <3> QED BY <3>1, <3>2
  <2> QED BY <1>2, <2>1 DEF IInv, RecordsFit, TurnRecordedOnce
<1> QED BY <1>1, <1>2, <1>5, <1>6, <1>7 DEF RecordTypes, RecordsFit

\* A save that writes: the turn had no other message, and every save it
\* overlapped is known from now on.
LEMMA WriteFits ==
  ASSUME IInv, NEW n \in Conns, turn[n].pc = "write", ~Clashes(turn[n].found, turn[n].question),
         turn' = [turn EXCEPT ![n].pc = "speak", ![n].found = 0],
         log' = Saved(turn[n].found, turn[n].question),
         overlapped' = overlapped \cup
           (IF Others(n) = {} THEN {} ELSE {turn[k].question : k \in Others(n) \cup {n}})
  PROVE  RecordTypes' /\ RecordsFit'
<1> DEFINE q == turn[n].question
           m == turn[n].found
           L == Len(log)
<1>1. TaskTypes /\ RecordTypes /\ SavesFit /\ RepliesHaveTurns /\ TurnRecordedOnce
  BY TypesInParts DEF IInv, RecordsFit
<1>2. /\ turn'[n].pc = "speak"
      /\ \A k \in Conns \ {n} : turn'[k] = turn[k]
  BY <1>1 DEF TaskTypes, Turns
<1>3. q \in 0 .. NQuestions /\ m \in 0 .. L /\ L \in Nat /\ NQuestions \in Nat
      /\ (m # 0 /\ log[m].turn # 0 => log[m].turn \in overlapped)
  BY <1>1, SocketAssumption DEF TaskTypes, Turns, SavesFit, RecordTypes
<1>4. /\ log' \in Seq(Notes) /\ Len(log') = L + 1
      /\ log'[L + 1].asks = q + 1 /\ log'[L + 1].turn = IF m = 0 THEN q ELSE 0
      /\ \A k \in 1 .. L : log'[k].asks = log[k].asks /\ log'[k].turn = IF k = m THEN q ELSE log[k].turn
  BY <1>1, <1>3, SavedIs DEF RecordTypes
<1>5. \A k \in 1 .. L : k # m => log[k].turn # q
  BY DEF Clashes
<1>6. /\ overlapped \subseteq overlapped' /\ overlapped' \subseteq 0 .. NQuestions
      /\ \A k \in Others(n) : turn[k].question \in overlapped' /\ q \in overlapped'
  <2>1. \A k \in Others(n) \cup {n} : turn[k].question \in 0 .. NQuestions
    BY <1>1 DEF Others, TaskTypes, Turns
  <2> QED BY <1>1, <2>1 DEF RecordTypes
<1>7. \A k \in 1 .. L : log[k].turn \in 0 .. NQuestions /\ log[k].asks \in 1 .. NQuestions + 1
  <2>1. \A k \in 1 .. L : log[k] \in Notes
    BY <1>1 DEF RecordTypes
  <2> HIDE DEF L
  <2> QED BY <2>1 DEF Notes
<1> HIDE DEF q, m, L
<1>8. \A k \in 1 .. L + 1 : k \in 1 .. L \/ k = L + 1
  BY <1>3
\* The message that has the turn now.
<1>9. PICK w \in 1 .. L + 1 : /\ log'[w].turn = q
                              /\ \A k \in 1 .. L + 1 : k # w /\ log'[k].turn # 0 =>
                                    k \in 1 .. L /\ k # m /\ log'[k].turn = log[k].turn
  <2>1. CASE m = 0
    <3>1. \A k \in 1 .. L : k # m /\ log'[k].turn = log[k].turn
      BY <1>3, <1>4, <2>1
    <3>2. L + 1 \in 1 .. L + 1 /\ log'[L + 1].turn = q
      BY <1>3, <1>4, <2>1
    <3> QED BY <1>8, <3>1, <3>2
  <2>2. CASE m # 0
    <3>1. m \in 1 .. L + 1 /\ log'[m].turn = q /\ log'[L + 1].turn = 0
      BY <1>3, <1>4, <2>2
    <3>2. \A k \in 1 .. L : k # m => log'[k].turn = log[k].turn
      BY <1>4
    <3> QED BY <1>8, <3>1, <3>2
  <2> QED BY <2>1, <2>2
\* A turn whose message is the one written over was overlapped.
<1>10. ASSUME NEW t \in 1 .. NQuestions, NEW k \in 1 .. L, log[k].turn = t
       PROVE  t \in overlapped \/ (k # m /\ log'[k].turn = t)
  <2>1. CASE k = m
    <3>1. m # 0 /\ log[m].turn # 0
      BY <1>10, <2>1
    <3> QED BY <1>3, <1>10, <2>1, <3>1
  <2>2. CASE k # m
    BY <1>4, <1>10, <2>2
  <2> QED BY <2>1, <2>2
<1>11. TurnRecordedOnce'
  <2>1. ASSUME NEW a \in 1 .. L + 1, NEW b \in 1 .. L + 1, log'[a].turn = log'[b].turn, log'[a].turn # 0
        PROVE  a = b
    <3>1. CASE a = w \/ b = w
      BY <1>5, <1>9, <2>1, <3>1
    <3>2. CASE a # w /\ b # w
      <4>1. a \in 1 .. L /\ b \in 1 .. L /\ log[a].turn = log[b].turn /\ log[a].turn # 0
        BY <1>9, <2>1, <3>2
      <4> QED BY <1>1, <4>1 DEF TurnRecordedOnce, L
    <3> QED BY <3>1, <3>2
  <2>2. ASSUME NEW k \in 1 .. L, log[k].asks = q + 1, log[k].asks > 1
        PROVE  q \in overlapped
    <3>1. log[k].asks - 1 = q /\ q \in 1 .. NQuestions
      BY <1>3, <1>7, <2>2
    <3>2. q \in overlapped \/ \E j \in 1 .. L : log[j].turn = q
      BY <1>1, <2>2, <3>1 DEF RepliesHaveTurns, Unknown, L
    <3>3. CASE \E j \in 1 .. L : log[j].turn = q
      <4>1. PICK j \in 1 .. L : log[j].turn = q
        BY <3>3
      <4>2. j = m
        BY <1>5, <4>1
      <4> QED BY <1>10, <3>1, <4>1, <4>2
    <3> QED BY <3>2, <3>3
  <2>3. ASSUME NEW a \in 1 .. L + 1, NEW b \in 1 .. L + 1, log'[a].asks = log'[b].asks, log'[a].asks > 1, a # b
        PROVE  log'[a].asks - 1 \in overlapped'
    <3>1. CASE a \in 1 .. L /\ b \in 1 .. L
      <4>1. log[a].asks = log[b].asks /\ log[a].asks > 1 /\ log'[a].asks = log[a].asks
        BY <1>4, <2>3, <3>1
      <4>2. log[a].asks - 1 \in overlapped
        BY <1>1, <2>3, <3>1, <4>1 DEF TurnRecordedOnce, L
      <4> QED BY <1>6, <4>1, <4>2
    <3>2. CASE a = L + 1 /\ b \in 1 .. L
      <4>1. log'[a].asks = q + 1 /\ log[b].asks = q + 1 /\ log[b].asks > 1
        BY <1>4, <2>3, <3>2
      <4>2. q \in overlapped
        BY <2>2, <3>2, <4>1
      <4>3. log'[a].asks - 1 = q
        BY <1>3, <4>1
      <4> QED BY <1>6, <4>2, <4>3
    <3>3. CASE b = L + 1 /\ a \in 1 .. L
      <4>1. log'[a].asks = q + 1 /\ log[a].asks = q + 1 /\ log[a].asks > 1
        BY <1>4, <2>3, <3>3
      <4>2. q \in overlapped
        BY <2>2, <3>3, <4>1
      <4>3. log'[a].asks - 1 = q
        BY <1>3, <4>1
      <4> QED BY <1>6, <4>2, <4>3
    <3> QED BY <1>8, <2>3, <3>1, <3>2, <3>3
  <2>4. ASSUME NEW k \in Conns, turn'[k].pc = "clashed"
        PROVE  turn'[k].question \in overlapped'
    <3>1. k # n /\ turn'[k] = turn[k]
      BY <1>2, <2>4
    <3> QED BY <1>1, <1>6, <2>4, <3>1 DEF TurnRecordedOnce
  <2> QED BY <1>4, <2>1, <2>3, <2>4 DEF TurnRecordedOnce
<1>12. RepliesHaveTurns'
  <2> SUFFICES ASSUME NEW a \in 1 .. L + 1, log'[a].asks > 1
               PROVE  log'[a].asks - 1 \in overlapped' \/ \E k \in 1 .. L + 1 : log'[k].turn = log'[a].asks - 1
    BY <1>4 DEF RepliesHaveTurns, Unknown
  <2>1. CASE a = L + 1
    <3>1. log'[a].asks - 1 = q
      BY <1>3, <1>4, <2>1
    <3> QED BY <1>9, <3>1
  <2>2. CASE a \in 1 .. L
    <3> DEFINE t == log[a].asks - 1
    <3>1. t \in 1 .. NQuestions /\ log'[a].asks - 1 = t /\ log[a].asks > 1
      BY <1>3, <1>4, <1>7, <2>2
    <3>2. t \in overlapped \/ \E k \in 1 .. L : log[k].turn = t
      BY <1>1, <2>2, <3>1 DEF RepliesHaveTurns, Unknown, L
    <3> HIDE DEF t
    <3>3. CASE \E k \in 1 .. L : log[k].turn = t
      <4>1. PICK k \in 1 .. L : log[k].turn = t
        BY <3>3
      <4>2. t \in overlapped \/ log'[k].turn = t
        BY <1>10, <3>1, <4>1
      <4>3. k \in 1 .. L + 1
        BY <1>3
      <4> QED BY <1>6, <3>1, <4>2, <4>3
    <3> QED BY <1>6, <3>1, <3>2, <3>3
  <2> QED BY <1>8, <2>1, <2>2
<1>13. SavesFit'
  <2> SUFFICES ASSUME NEW k \in Conns, turn'[k].pc \in {"look", "write"}
               PROVE  /\ turn'[k].question \in overlapped'
                      /\ turn'[k].pc = "write" =>
                           /\ turn'[k].found \in 0 .. Len(log')
                           /\ turn'[k].found # 0 /\ log'[turn'[k].found].turn # 0
                                => log'[turn'[k].found].turn \in overlapped'
    BY DEF SavesFit
  <2>1. k # n /\ turn'[k] = turn[k] /\ k \in Others(n)
    BY <1>2 DEF Others
  <2>2. turn[k].question \in overlapped' /\ q \in overlapped'
    BY <1>6, <2>1
  <2>3. ASSUME turn[k].pc = "write"
        PROVE  /\ turn[k].found \in 0 .. L + 1
               /\ turn[k].found # 0 /\ log'[turn[k].found].turn # 0 => log'[turn[k].found].turn \in overlapped'
    <3>1. /\ turn[k].found \in 0 .. L
          /\ turn[k].found # 0 /\ log[turn[k].found].turn # 0 => log[turn[k].found].turn \in overlapped
      BY <1>1, <2>3 DEF SavesFit, L
    <3>2. ASSUME turn[k].found # 0, log'[turn[k].found].turn # 0
          PROVE  log'[turn[k].found].turn \in overlapped'
      <4>1. turn[k].found \in 1 .. L
        BY <1>3, <3>1, <3>2
      <4>2. CASE turn[k].found = m
        BY <1>4, <2>2, <4>1, <4>2
      <4>3. CASE turn[k].found # m
        BY <1>4, <1>6, <3>1, <3>2, <4>1, <4>3
      <4> QED BY <4>2, <4>3
    <3> QED BY <1>3, <3>1, <3>2
  <2> QED BY <1>4, <2>1, <2>2, <2>3
<1> QED BY <1>4, <1>6, <1>11, <1>12, <1>13 DEF RecordTypes, RecordsFit

\* The opening asks the first question and answers none.
LEMMA OpeningFits ==
  ASSUME IInv, NEW k \in Conns, OpeningSaves(k)
  PROVE  RecordTypes' /\ RecordsFit'
<1>1. RecordTypes /\ SavesFit /\ RepliesHaveTurns /\ TurnRecordedOnce
  BY TypesInParts DEF IInv, RecordsFit
<1>2. UNCHANGED <<turn, overlapped>>
  BY DEF OpeningSaves
<1>3. CASE UNCHANGED log
  <2>1. UNCHANGED records
    BY <1>2, <1>3 DEF records
  <2> QED BY <1>1, <1>2, <1>3, <2>1, NothingSaved DEF RecordTypes
<1>4. CASE log' = Append(log, [asks |-> 1, turn |-> 0])
  <2> DEFINE e == [asks |-> 1, turn |-> 0]
             L == Len(log)
  <2>1. e \in Notes /\ e.asks = 1 /\ e.turn = 0
    BY SocketAssumption DEF Notes
  <2> HIDE DEF e
  <2>2. /\ log' \in Seq(Notes) /\ Len(log') = L + 1 /\ L \in Nat
        /\ log'[L + 1] = e /\ \A j \in 1 .. L : log'[j] = log[j]
    BY <1>1, <1>4, <2>1 DEF RecordTypes, e
  <2>3. \A j \in 1 .. L : log[j] \in Notes
    BY <1>1 DEF RecordTypes
  <2> HIDE DEF L
  <2>4. \A j \in 1 .. L + 1 : j \in 1 .. L \/ j = L + 1
    BY <2>2
  <2>5. TurnRecordedOnce'
    <3>1. ASSUME NEW a \in 1 .. L + 1, NEW b \in 1 .. L + 1
          PROVE  /\ log'[a].turn = log'[b].turn /\ log'[a].turn # 0 => a = b
                 /\ log'[a].asks = log'[b].asks /\ log'[a].asks > 1 => a = b \/ log'[a].asks - 1 \in overlapped
      <4>1. CASE a \in 1 .. L /\ b \in 1 .. L
        BY <1>1, <2>2, <4>1 DEF TurnRecordedOnce, L
      <4>2. CASE a = L + 1 \/ b = L + 1
        <5>1. ASSUME NEW j \in 1 .. L PROVE log'[j].asks \in Nat /\ log'[j].turn \in Nat
          <6>1. log'[j] \in Notes
            BY <2>2, <2>3
          <6>2. log'[j].asks \in 1 .. NQuestions + 1 /\ log'[j].turn \in 0 .. NQuestions
            BY <6>1 DEF Notes
          <6> QED BY <6>2, SocketAssumption
        <5> QED BY <2>1, <2>2, <2>4, <4>2, <5>1
      <4> QED BY <2>4, <4>1, <4>2
    <3>2. \A n \in Conns : turn'[n].pc = "clashed" => turn'[n].question \in overlapped
      BY <1>1, <1>2 DEF TurnRecordedOnce
    <3> QED BY <1>2, <2>2, <3>1, <3>2 DEF TurnRecordedOnce
  <2>6. RepliesHaveTurns'
    <3> SUFFICES ASSUME NEW a \in 1 .. L + 1, log'[a].asks > 1
                 PROVE  log'[a].asks - 1 \in overlapped \/ \E j \in 1 .. L + 1 : log'[j].turn = log'[a].asks - 1
      BY <1>2, <2>2 DEF RepliesHaveTurns, Unknown
    <3>1. a \in 1 .. L /\ log'[a] = log[a]
      BY <2>1, <2>2, <2>4
    <3>2. log[a].asks - 1 \in overlapped \/ \E j \in 1 .. L : log[j].turn = log[a].asks - 1
      BY <1>1, <3>1 DEF RepliesHaveTurns, Unknown, L
    <3>3. \A j \in 1 .. L : j \in 1 .. L + 1
      BY <2>2
    <3> QED BY <2>2, <3>1, <3>2, <3>3
  <2>7. SavesFit'
    <3> SUFFICES ASSUME NEW n \in Conns
                 PROVE  /\ turn[n].pc \in {"look", "write"} =>
                             turn[n].question \in overlapped \/ (\A j \in 1 .. L + 1 : log'[j].turn # turn[n].question)
                        /\ turn[n].pc = "write" =>
                             /\ turn[n].found \in 0 .. L + 1
                             /\ turn[n].found # 0 /\ log'[turn[n].found].turn # 0
                                  => log'[turn[n].found].turn \in overlapped
      BY <1>2, <2>2 DEF SavesFit, Unknown
    <3>1. ASSUME turn[n].pc = "write"
          PROVE  /\ turn[n].found \in 0 .. L + 1
                 /\ turn[n].found # 0 /\ log'[turn[n].found].turn # 0
                      => log'[turn[n].found].turn \in overlapped
      <4>1. /\ turn[n].found \in 0 .. L
            /\ turn[n].found # 0 /\ log[turn[n].found].turn # 0 => log[turn[n].found].turn \in overlapped
        BY <1>1, <3>1 DEF SavesFit, L
      <4>2. turn[n].found # 0 => log'[turn[n].found] = log[turn[n].found]
        BY <2>2, <4>1
      <4> QED BY <2>2, <4>1, <4>2
    <3>2. ASSUME turn[n].pc \in {"look", "write"}, turn[n].question \notin overlapped
          PROVE  \A j \in 1 .. L + 1 : log'[j].turn # turn[n].question
      <4>1. \A j \in 1 .. L : log[j].turn # turn[n].question
        BY <1>1, <3>2 DEF SavesFit, Unknown, L
      <4>2. turn[n].question # 0
        BY <3>2 DEF IInv, QuestionsFit
      <4> QED BY <2>1, <2>2, <2>4, <4>1, <4>2
    <3> QED BY <3>1, <3>2
  <2> QED BY <1>1, <1>2, <2>2, <2>5, <2>6, <2>7 DEF RecordTypes, RecordsFit
<1> QED BY <1>3, <1>4 DEF OpeningSaves

\* No step writes a second message of a turn.
LEMMA RecordsAreKept ==
  ASSUME IInv, [Next]_vars
  PROVE  RecordTypes' /\ RecordsFit'
<1>1. RecordTypes
  BY TypesInParts DEF IInv
<1>2. CASE TurnSaves
  <2>1. PICK n \in Conns : /\ \E pc, f : Saves(n, pc, f)
                           /\ SendReply(n) \/ FindUnanswered(n) \/ WriteRecord(n)
    BY <1>2 DEF TurnSaves
  <2>2. CASE WriteRecord(n)
    BY <2>2, ClashFits, WriteFits DEF WriteRecord
  <2> QED BY <2>1, <2>2, ReadsFit
<1>3. ASSUME NEW k \in Conns, OpeningSaves(k) PROVE RecordTypes' /\ RecordsFit'
  BY <1>3, OpeningFits
<1>4. CASE UNCHANGED records /\ ~TurnSaves
  <2>1. RecordsFit'
    BY <1>4, TurnsOnlyMove, SavesStay, NothingSaved
  <2> QED BY <1>1, <1>4, <2>1 DEF RecordTypes, records
<1>5. ASSUME NEW n \in Conns, WriteRecord(n) PROVE RecordTypes' /\ RecordsFit'
  BY <1>5, ClashFits, WriteFits DEF WriteRecord
<1> QED BY <1>2, <1>3, <1>4, <1>5
        DEF Next, vars, service, TurnStep, Accept, ClientLost, ClientSubmits, Heard,
            CooldownEnds, PausePops, PauseEnds, PauseOrResume, RecoverTurn, Disconnect,
            BeginTurn, DecideTurn, WaitedTurn, SendReply, FindUnanswered, SaveFails,
            FinishTurn, OpeningChecks, DelayedSubmit

-----------------------------------------------------------------------------
(* Tasks, speech and the client                                            *)

\* The background tasks keep their types.
LEMMA TasksAreKept ==
  ASSUME IInv, [Next]_vars
  PROVE  TaskTypes'
<1> USE DEF TaskTypes
<1>1. TaskTypes /\ SocketTypes
  BY TypesInParts DEF IInv
<1>2. turn' \in [Conns -> Turns]
  BY TurnsOnlyMove, TurnTypes
<1>3. CASE UNCHANGED <<opening, delayed>>
  BY <1>1, <1>2, <1>3
<1>4. CASE Accept
  BY <1>1, <1>2, <1>4 DEF Accept
<1>5. ASSUME NEW k, Cancel(k) PROVE TaskTypes'
  BY <1>1, <1>2, <1>5 DEF Cancel
<1>6. CASE ClientSubmits
  BY <1>1, <1>2, <1>6, RegisteredIsReachable DEF ClientSubmits, tasks
<1>7. ASSUME NEW k \in Conns, OpeningChecks(k) \/ OpeningSaves(k) PROVE TaskTypes'
  BY <1>1, <1>2, <1>7 DEF OpeningChecks, OpeningSaves
<1>8. ASSUME NEW k \in Conns, DelayedSubmit(k) PROVE TaskTypes'
  BY <1>1, <1>2, <1>8, RegisteredIsReachable DEF DelayedSubmit
<1> QED BY <1>3, <1>4, <1>5, <1>6, <1>7, <1>8
        DEF Next, vars, tasks, TurnStep, ClientLost, Disconnect, Heard, CooldownEnds,
            PausePops, PauseEnds, PauseOrResume, RecoverTurn, BeginTurn, DecideTurn,
            WaitedTurn, SendReply, FindUnanswered, WriteRecord, SaveFails, FinishTurn

\* A turn that ends leaves what waits to its cooldown; one that goes on is
\* still being processed.
LEMMA TurnStepWaits ==
  ASSUME IInv, NEW n \in Conns, TurnStep(n)
  PROVE  SpeechTypes' /\ WaitsAlone'
<1> USE DEF SpeechTypes, WaitsAlone
<1>1. SpeechTypes /\ TaskTypes /\ WaitsAlone
  BY TypesInParts DEF IInv
<1>2. UNCHANGED <<current, chain, delayed>>
  BY DEF TurnStep, BeginTurn, DecideTurn, WaitedTurn, SendReply, FindUnanswered, WriteRecord,
         SaveFails, FinishTurn, sockets
<1>3. CASE TurnEnds(n)
  <2>1. UNCHANGED <<buffer, pending>> /\ (cooling \/ n = current => cooling')
    BY <1>3 DEF TurnEnds
  <2>2. cooling' \in BOOLEAN
    BY <1>3 DEF TurnEnds
  <2>3. \A m \in Conns \ {n} : turn'[m] = turn[m]
    BY <1>1, <1>3 DEF TurnEnds, TaskTypes
  <2>4. current # 0 => current \in Conns
    BY RegisteredIsReachable
  <2> QED BY <1>1, <1>2, <2>1, <2>2, <2>3, <2>4 DEF Processing
<1>4. CASE /\ UNCHANGED speech
           /\ \E pc \in {"wait", "decide", "reply", "look", "write", "speak", "refused", "clashed"} :
                turn'[n].pc = pc
           /\ \A m \in Conns \ {n} : turn'[m] = turn[m]
  <2>1. current # 0 => current \in Conns
    BY RegisteredIsReachable
  <2> QED BY <1>1, <1>2, <1>4, <2>1 DEF speech, Processing
<1>5. ASSUME NEW pc \in {"wait", "decide", "reply", "look", "write", "speak", "refused", "clashed"}, TurnGoes(n, pc)
      PROVE  turn'[n].pc = pc /\ \A m \in Conns \ {n} : turn'[m] = turn[m]
  BY <1>1, <1>5 DEF TurnGoes, TaskTypes, Turns
<1>6. ASSUME NEW pc \in {"wait", "decide", "reply", "look", "write", "speak", "refused", "clashed"},
             turn' = [turn EXCEPT ![n].pc = pc, ![n].question = question]
      PROVE  turn'[n].pc = pc /\ \A m \in Conns \ {n} : turn'[m] = turn[m]
  BY <1>1, <1>6 DEF TaskTypes, Turns
<1>7. CASE BeginTurn(n)
  BY <1>3, <1>4, <1>5, <1>6, <1>7 DEF BeginTurn
<1>8. CASE DecideTurn(n) \/ WaitedTurn(n)
  BY <1>4, <1>5, <1>8 DEF DecideTurn, WaitedTurn
<1>9. CASE SendReply(n)
  BY <1>3, <1>4, <1>5, <1>9 DEF SendReply
<1>10. CASE FindUnanswered(n) \/ WriteRecord(n)
  <2>1. UNCHANGED speech
    BY <1>10 DEF FindUnanswered, WriteRecord
  <2>2. PICK pc, f : /\ pc \in {"write", "clashed", "speak"}
                     /\ turn' = [turn EXCEPT ![n].pc = pc, ![n].found = f]
    BY <1>10 DEF FindUnanswered, WriteRecord
  <2>3. turn'[n].pc = pc /\ \A m \in Conns \ {n} : turn'[m] = turn[m]
    BY <1>1, <2>2 DEF TaskTypes, Turns
  <2> QED BY <1>4, <2>1, <2>2, <2>3
<1>11. CASE SaveFails(n) \/ FinishTurn(n)
  BY <1>3, <1>11 DEF SaveFails, FinishTurn
<1> QED BY <1>7, <1>8, <1>9, <1>10, <1>11 DEF TurnStep

\* What the client or the timer submits waits alone in the merge buffer.
LEMMA SubmitsWait ==
  ASSUME IInv, ClientSubmits \/ \E k \in Conns : DelayedSubmit(k)
  PROVE  SpeechTypes' /\ WaitsAlone'
<1> USE DEF SpeechTypes, WaitsAlone
<1>1. SpeechTypes /\ ClientTypes /\ WaitsAlone
  BY TypesInParts DEF IInv
<1>2. UNCHANGED <<current, chain>>
  BY DEF ClientSubmits, DelayedSubmit, sockets
<1>3. ASSUME NEW n, NEW t, NEW i, StartTurn(n, t, i) PROVE SpeechTypes' /\ WaitsAlone'
  BY <1>1, <1>3 DEF StartTurn, Answers
<1>4. CASE ClientSubmits
  <2>1. CASE UNCHANGED <<tasks, speech>>
    BY <1>1, <1>2, <2>1 DEF tasks, speech, Processing
  <2>2. ASSUME NEW i \in Ids, Reachable, Processing(current), buffer' = {i}, pending' = i,
               delayed' = delayed \cup {chain[current]}, UNCHANGED <<turn, cooling>>
        PROVE  SpeechTypes' /\ WaitsAlone'
    BY <1>1, <1>2, <2>2, RegisteredIsReachable DEF Processing, Answers
  <2> QED BY <1>1, <1>3, <1>4, <2>1, <2>2 DEF ClientSubmits, Fresh, ClientTypes
<1>5. ASSUME NEW k \in Conns, DelayedSubmit(k) PROVE SpeechTypes' /\ WaitsAlone'
  <2>1. CASE /\ Reachable => ~Processing(current) /\ buffer = {}
             /\ UNCHANGED <<turn, speech>>
    BY <1>1, <1>2, <2>1, RegisteredIsReachable DEF speech
  <2>2. CASE /\ Reachable /\ delayed' = (delayed \ {k}) \cup {chain[current]}
             /\ UNCHANGED <<turn, speech>>
    BY <1>1, <1>2, <2>2 DEF speech, Processing
  <2> QED BY <1>3, <1>5, <2>1, <2>2 DEF DelayedSubmit
<1> QED BY <1>4, <1>5

\* What waits is dropped with its connection, and a pause cancels only the
\* tasks of another chain.
LEMMA ConnectionsWait ==
  ASSUME IInv, Accept \/ PausePops \/ PauseEnds \/ \E n \in Conns : Disconnect(n)
  PROVE  SpeechTypes' /\ WaitsAlone'
<1> USE DEF SpeechTypes, WaitsAlone
<1>1. SpeechTypes /\ TaskTypes /\ WaitsAlone
  BY TypesInParts DEF IInv
<1>2. CASE NewSpeech
  BY <1>2 DEF NewSpeech, Answers
<1>3. CASE PauseEnds
  <2>1. pausing # 0 /\ UNCHANGED <<current, chain, speech>>
    BY <1>3 DEF PauseEnds
  <2>2. CASE UNCHANGED tasks
    BY <1>1, <2>1, <2>2 DEF tasks, speech, Processing
  <2>3. CASE Cancel(chain[pausing])
    <3>1. current # 0 => chain[current] # chain[pausing] /\ current \in Conns
      BY <2>1, RegisteredIsReachable
    <3>2. current # 0 => turn'[current] = turn[current]
      BY <2>3, <3>1 DEF Cancel, OfChain
    <3> QED BY <1>1, <2>1, <2>3, <3>1, <3>2 DEF Cancel, speech, Processing
  <2> QED BY <1>3, <2>2, <2>3 DEF PauseEnds
<1> QED BY <1>2, <1>3 DEF Accept, PausePops, Disconnect

\* No step leaves a second answer waiting in the merge buffer.
LEMMA SpeechIsKept ==
  ASSUME IInv, [Next]_vars
  PROVE  SpeechTypes' /\ WaitsAlone'
<1> USE DEF SpeechTypes, WaitsAlone
<1>1. SpeechTypes /\ WaitsAlone
  BY TypesInParts DEF IInv
<1>2. CASE Heard
  <2>1. pending = Uuid
    BY <1>1, <1>2 DEF Heard
  <2>2. buffer' \in Answers
    BY <1>1, <1>2 DEF Heard, Answers
  <2> QED BY <1>1, <1>2, <2>1, <2>2 DEF Heard
<1>3. CASE CooldownEnds
  <2>1. pending = Uuid
    BY <1>1, <1>3 DEF CooldownEnds, CooldownLong
  <2> QED BY <1>1, <1>3, <2>1 DEF CooldownEnds
<1>4. CASE UNCHANGED <<current, chain, delayed, turn, speech>>
  BY <1>1, <1>4 DEF speech, Processing
<1> QED BY <1>2, <1>3, <1>4, TurnStepWaits, SubmitsWait, ConnectionsWait
        DEF Next, vars, sockets, tasks, ClientLost, PauseOrResume, RecoverTurn,
            OpeningChecks, OpeningSaves

\* The client's own state stays well typed.
LEMMA ClientIsKept ==
  ASSUME IInv, [Next]_vars
  PROVE  ClientTypes'
<1> USE DEF ClientTypes
<1>1. ClientTypes
  BY TypesInParts DEF IInv
<1>2. CASE ClientSubmits
  BY <1>1, <1>2 DEF ClientSubmits, Fresh
<1>3. ASSUME NEW n \in Conns, SendReply(n) \/ SaveFails(n) \/ FinishTurn(n) PROVE ClientTypes'
  BY <1>1, <1>3 DEF SendReply, SaveFails, FinishTurn, ToldOfError, client
<1>4. CASE Accept
  BY <1>1, <1>4 DEF Accept
<1>5. CASE UNCHANGED client
  BY <1>1, <1>5 DEF client
<1> QED BY <1>2, <1>3, <1>4, <1>5
        DEF Next, vars, TurnStep, ClientLost, Disconnect, Heard, CooldownEnds, PausePops,
            PauseEnds, PauseOrResume, RecoverTurn, BeginTurn, DecideTurn, WaitedTurn,
            FindUnanswered, WriteRecord, OpeningChecks, OpeningSaves, DelayedSubmit

-----------------------------------------------------------------------------
\* Every step preserves the invariant.
LEMMA SocketKeeps == IInv /\ [Next]_vars => IInv'
<1> SUFFICES ASSUME IInv, [Next]_vars PROVE IInv'
  OBVIOUS
<1>1. SubmittedTextIsSent' /\ QuestionsFit'
  BY TurnsOnlyMove, TurnTypes, QuestionsAreKept
<1>2. SocketTypes' /\ ChainsFit' /\ ServiceTypes' /\ OneIsDecided' /\ TaskTypes'
  BY SocketsAreKept, DecisionsAreKept, TasksAreKept
<1>3. SpeechTypes' /\ WaitsAlone' /\ ClientTypes' /\ RecordTypes' /\ RecordsFit'
  BY SpeechIsKept, ClientIsKept, RecordsAreKept
<1>4. TypeOK'
  BY <1>2, <1>3 DEF TypeOK, ServiceTypes, SocketTypes, TaskTypes, SpeechTypes, ClientTypes,
                    RecordTypes, Turns, Notes
<1> QED BY <1>1, <1>2, <1>3, <1>4 DEF IInv

\* The invariant holds in every reachable state.
LEMMA SocketInvariant == Spec => []IInv
BY SocketStarts, SocketKeeps, PTL DEF Spec

\* Every reachable state is well typed.
THEOREM TypeCorrect == Spec => []TypeOK
<1>1. IInv => TypeOK
  BY DEF IInv
<1> QED BY <1>1, SocketInvariant, PTL

\* Whatever is heard, replaced, paused or lost meanwhile, a turn with a
\* requestId sends the text that came with that id (_submit, _on_asr_text,
\* _delayed_submit).
THEOREM IdsKeepTheirText == Spec => []SubmittedTextIsSent
<1>1. IInv => SubmittedTextIsSent
  BY DEF IInv
<1> QED BY <1>1, SocketInvariant, PTL

\* However many connections process one turn, its answer is in one message; and
\* unless saves overlapped, its reply is too and no save is refused by the key
\* on the turn (save_message, whose two reads and write are steps of their own).
THEOREM RecordedOnce == Spec => []TurnRecordedOnce
<1>1. IInv => TurnRecordedOnce
  BY DEF IInv, RecordsFit
<1> QED BY <1>1, SocketInvariant, PTL

-----------------------------------------------------------------------------
(* The session's records                                                   *)

\* An end_session between its first commit and its last.
Ending(c) == call[c].kind = "end" /\ call[c].pc \in {"invalidate", "interview"}

\* Calls are records, and the last turn's submit ends the row only after the
\* interview was over: no step opens an interview again.
CallsOfSession ==
  /\ call \in [Session!Callers -> {Session!NoCall} \cup
                 [kind: Session!Kinds, pc: Session!Steps, seen: Session!Statuses \cup {None}]]
  /\ \A c \in Session!Callers :
       call[c].kind = "submit" /\ call[c].pc \in {"row", "invalidate"} => core # "IN_PROGRESS"

SessionInv == faults \in Nat /\ CallsOfSession /\ EndsInterview

\* It holds of a session that was just created.
LEMMA SessionStarts == Session!Init => SessionInv
BY DEF Session!Init, SessionInv, CallsOfSession, EndsInterview, Session!EndsInterview,
       Session!NoCall

\* Calls stay calls, and what is known of the last turn's submit is kept.
LEMMA CallsAreKept ==
  ASSUME SessionInv, Session!Next
  PROVE  /\ CallsOfSession'
         /\ core' = "IN_PROGRESS" => core = "IN_PROGRESS"
<1> USE DEF SessionInv, CallsOfSession, Session!Begins, Session!At, Session!GoesTo,
            Session!Returns, Session!NoCall, Session!Kinds, Session!Steps, Session!Statuses,
            Session!row
<1>0. None \notin Session!Statuses
  BY VoiceAssumption DEF Session!SessionAssumption
<1>1. ASSUME NEW c \in Session!Callers, Session!Asked(c) \/ Session!Checked(c)
      PROVE  CallsOfSession' /\ core' = core
  <2>1. PICK kind \in Session!Kinds, pc \in {"row", "turn"} :
          /\ call' = [call EXCEPT ![c] = [kind |-> kind, pc |-> pc, seen |-> None]]
          /\ kind = "submit" => pc = "turn"
          /\ core' = core
    BY <1>1 DEF Session!Asked, Session!Checked
  <2> QED BY <2>1
<1>2. CASE Session!FindsStale
  BY <1>2 DEF Session!FindsStale, Session!Callers
<1>3. ASSUME NEW c \in Session!Callers, Session!CallStep(c)
      PROVE  CallsOfSession' /\ (core' = "IN_PROGRESS" => core = "IN_PROGRESS")
  <2>1. CASE Session!DecideTurn(c)
    BY <2>1 DEF Session!DecideTurn
  <2>2. CASE Session!UpdatePhase(c)
    BY <2>2 DEF Session!UpdatePhase, Session!Gone
  <2>3. CASE Session!EndRow(c)
    BY <2>3 DEF Session!EndRow, Session!Gone
  <2>4. CASE Session!PauseRow(c)
    BY <2>4 DEF Session!PauseRow
  <2>5. CASE Session!ResumeRow(c)
    BY <2>5 DEF Session!ResumeRow, Session!Gone
  <2>6. CASE Session!DeleteRow(c)
    BY <2>6 DEF Session!DeleteRow, Session!Gone
  <2>7. CASE Session!CacheSession(c) \/ Session!InvalidateCache(c)
    BY <2>7 DEF Session!CacheSession, Session!InvalidateCache, Session!TouchesInterview
  <2>8. CASE Session!CompleteInterview(c) \/ Session!DeleteInterview(c)
    BY <1>0, <2>8 DEF Session!CompleteInterview, Session!DeleteInterview
  <2> QED BY <1>3, <2>1, <2>2, <2>3, <2>4, <2>5, <2>6, <2>7, <2>8 DEF Session!CallStep
<1>4. ASSUME NEW c \in Session!Callers, Session!CallLost(c)
      PROVE  CallsOfSession' /\ core' = core
  BY <1>4 DEF Session!CallLost
<1>5. CASE Session!InterviewDeleted \/ Session!GrowsOld \/ Session!CopyExpires
  BY <1>0, <1>5 DEF Session!InterviewDeleted, Session!GrowsOld, Session!CopyExpires
<1> QED BY <1>1, <1>2, <1>3, <1>4, <1>5 DEF Session!Next, Session!Callers

\* The row becomes COMPLETED under an interview that runs only by an
\* end_session, which stays at its remaining commits until the interview is
\* over too.
LEMMA EndsAreKept ==
  ASSUME SessionInv, Session!Next
  PROVE  faults' \in Nat /\ EndsInterview'
<1> USE DEF CallsOfSession, Session!Begins, Session!At, Session!GoesTo,
            Session!Returns, Session!NoCall, Session!Kinds, Session!Steps, Session!Statuses,
            Session!row, Ending
<1>0. /\ None \notin Session!Statuses
      /\ faults \in Nat /\ CallsOfSession
      /\ EndsInterview <=> (row = "COMPLETED" /\ core = "IN_PROGRESS" =>
                              faults > 0 \/ \E c \in Session!Callers : Ending(c))
      /\ EndsInterview' <=> (row' = "COMPLETED" /\ core' = "IN_PROGRESS" =>
                              faults' > 0 \/ \E c \in Session!Callers : Ending(c)')
  BY VoiceAssumption DEF Session!SessionAssumption, SessionInv, EndsInterview,
     Session!EndsInterview
<1>1. EndsInterview /\ (core' = "IN_PROGRESS" => core = "IN_PROGRESS")
  BY CallsAreKept DEF SessionInv
<1> DEFINE Kept == faults' \in Nat /\ EndsInterview'
\* A step that does not complete the row, and takes no end_session away.
<1>2. ASSUME row' = "COMPLETED" => row = "COMPLETED", faults' = faults,
             \A c \in Session!Callers : Ending(c) => Ending(c)'
      PROVE  Kept
  BY <1>0, <1>1, <1>2
<1>3. ASSUME NEW c \in Session!Callers, ~Ending(c),
             \A d \in Session!Callers \ {c} : call'[d] = call[d]
      PROVE  \A d \in Session!Callers : Ending(d) => Ending(d)'
  BY <1>3
<1>4. ASSUME NEW c \in Session!Callers, Session!Asked(c) \/ Session!Checked(c)
      PROVE  Kept
  <2>1. /\ UNCHANGED <<row, core, faults>> /\ call[c] = Session!NoCall
        /\ \A d \in Session!Callers \ {c} : call'[d] = call[d]
    BY <1>0, <1>4 DEF Session!Asked, Session!Checked
  <2> QED BY <1>2, <1>3, <2>1
<1>5. CASE Session!FindsStale
  <2>1. /\ UNCHANGED <<row, core, faults>> /\ call[Cleanup] = Session!NoCall
        /\ \A d \in Session!Callers \ {Cleanup} : call'[d] = call[d]
    BY <1>0, <1>5 DEF Session!FindsStale
  <2> QED BY <1>2, <1>3, <2>1 DEF Session!Callers
<1>6. ASSUME NEW c \in Session!Callers, Session!CallLost(c) PROVE Kept
  BY <1>0, <1>6 DEF Session!CallLost
<1>7. CASE Session!InterviewDeleted \/ Session!GrowsOld \/ Session!CopyExpires
  BY <1>0, <1>2, <1>7 DEF Session!InterviewDeleted, Session!GrowsOld, Session!CopyExpires
<1>8. ASSUME NEW c \in Session!Callers, Session!CallStep(c) PROVE Kept
  <2>1. CASE Session!DecideTurn(c)
    <3>1. /\ UNCHANGED <<row, faults>> /\ call[c].pc = "turn"
          /\ \A d \in Session!Callers \ {c} : call'[d] = call[d]
      BY <1>0, <2>1 DEF Session!DecideTurn
    <3> QED BY <1>2, <1>3, <3>1
  <2>2. CASE Session!UpdatePhase(c) \/ Session!ResumeRow(c)
    <3>1. /\ row' = "COMPLETED" => row = "COMPLETED"
          /\ faults' = faults /\ call[c].pc = "row"
          /\ \A d \in Session!Callers \ {c} : call'[d] = call[d]
      BY <1>0, <2>2 DEF Session!UpdatePhase, Session!ResumeRow, Session!Gone
    <3> QED BY <1>2, <1>3, <3>1
  <2>3. CASE Session!EndRow(c)
    <3>1. CASE Session!Gone(c)
      <4>1. /\ UNCHANGED <<row, faults>> /\ call[c].pc = "row"
            /\ \A d \in Session!Callers \ {c} : call'[d] = call[d]
        BY <1>0, <2>3, <3>1 DEF Session!EndRow, Session!Gone
      <4> QED BY <1>2, <1>3, <4>1
    <3>2. CASE ~Session!Gone(c)
      <4>1. /\ call' = [call EXCEPT ![c].pc = "invalidate"] /\ call[c].pc = "row"
            /\ call[c].kind \in {"end", "submit"} /\ UNCHANGED <<core, faults>>
        BY <2>3, <3>2 DEF Session!EndRow
      <4>2. CASE call[c].kind = "end"
        <5>1. Ending(c)'
          BY <1>0, <4>1, <4>2
        <5> QED BY <1>0, <4>1, <5>1
      <4>3. CASE call[c].kind = "submit"
        <5>1. core' # "IN_PROGRESS"
          BY <1>0, <4>1, <4>3
        <5> QED BY <1>0, <4>1, <5>1
      <4> QED BY <4>1, <4>2, <4>3
    <3> QED BY <3>1, <3>2
  <2>4. CASE Session!PauseRow(c) \/ Session!DeleteRow(c)
    <3>1. /\ row' = "COMPLETED" => row = "COMPLETED"
          /\ faults' = faults /\ call[c].pc = "row"
          /\ \A d \in Session!Callers \ {c} : call'[d] = call[d]
      BY <1>0, <2>4 DEF Session!PauseRow, Session!DeleteRow, Session!Gone
    <3> QED BY <1>2, <1>3, <3>1
  <2>5. CASE Session!CacheSession(c)
    <3>1. /\ UNCHANGED <<row, faults>> /\ call[c].pc = "cache"
          /\ \A d \in Session!Callers \ {c} : call'[d] = call[d]
      BY <1>0, <2>5 DEF Session!CacheSession
    <3> QED BY <1>2, <1>3, <3>1
  <2>6. CASE Session!InvalidateCache(c)
    <3>1. /\ UNCHANGED <<row, faults>>
          /\ \A d \in Session!Callers \ {c} : call'[d] = call[d]
          /\ call[c].kind = "end" => call' = [call EXCEPT ![c].pc = "interview"]
      BY <1>0, <2>6 DEF Session!InvalidateCache, Session!TouchesInterview
    <3>2. Ending(c) => Ending(c)'
      BY <1>0, <3>1
    <3> QED BY <1>2, <3>1, <3>2
  <2>7. CASE Session!CompleteInterview(c)
    <3>1. core' # "IN_PROGRESS" /\ faults' = faults
      BY <1>0, <2>7 DEF Session!CompleteInterview
    <3> QED BY <1>0, <3>1
  <2>8. CASE Session!DeleteInterview(c)
    <3>1. core' # "IN_PROGRESS" /\ faults' = faults
      BY <1>0, <2>8 DEF Session!DeleteInterview
    <3> QED BY <1>0, <3>1
  <2> QED BY <1>8, <2>1, <2>2, <2>3, <2>4, <2>5, <2>6, <2>7, <2>8 DEF Session!CallStep
<1> QED BY <1>4, <1>5, <1>6, <1>7, <1>8 DEF Session!Next, Session!Callers

\* A voice session that is over has its interview over too, or an end_session
\* that is still to complete it, unless a failure cut a call short: for any
\* number of calls beside the cleanup job (end_session, submit_turn,
\* cleanup_stale_sessions).
THEOREM InterviewEnds == VoiceSpec => []EndsInterview
<1>1. VoiceInit => SessionInv
  BY SessionStarts DEF VoiceInit
<1>2. SessionInv /\ [VoiceNext]_allVars => SessionInv'
  <2> SUFFICES ASSUME SessionInv, [VoiceNext]_allVars PROVE SessionInv'
    OBVIOUS
  <2>1. CASE OnSession(Session!Next)
    BY <2>1, CallsAreKept, EndsAreKept DEF OnSession, SessionInv
  <2>2. CASE UNCHANGED sessionVars
    BY <2>2 DEF sessionVars, SessionInv, CallsOfSession, EndsInterview, Session!EndsInterview
  <2> QED BY <2>1, <2>2 DEF VoiceNext, OnSocket, allVars
<1>3. SessionInv => EndsInterview
  BY DEF SessionInv
<1> QED BY <1>1, <1>2, <1>3, PTL DEF VoiceSpec
=============================================================================

----------------------------- MODULE VoiceSocket -----------------------------
(***************************************************************************)
(* The WebSocket runtime of one voice session: the registered connection,  *)
(* the tasks started for it, the utterance being collected and the turns   *)
(* that are decided, spoken and recorded.  Handlers reach the connection   *)
(* through the session's id, so a handler of an old connection acts on     *)
(* whatever is registered.                                                 *)
(*                                                                         *)
(* A connection that replaces a registered one takes over its speech       *)
(* recognition and its tasks: the two form a chain, named after its first  *)
(* connection.  The interview is its current question and its turns, one   *)
(* question per turn (InterviewTurn has the whole of it).                  *)
(***************************************************************************)
EXTENDS Naturals, Sequences

CONSTANTS NConns,      \* connections the client opens
          Ids,         \* requestIds the client draws, in this order
          NQuestions   \* questions of the interview

ASSUME SocketAssumption ==
  /\ NConns \in Nat \ {0} /\ NQuestions \in Nat \ {0} /\ Ids \subseteq Nat \ {0}

VARIABLES
  status,     \* of the voice session
  question,   \* the interview's current question, NQuestions + 1 at its end
  turnOf,     \* requestId -> the question its turn answers, 0 without a turn
  sent,       \* requestId -> the answer its turn has
  log,        \* voice_interview_messages: what each asks, whose turn it ends
  overlapped, \* the questions of which a turn was saved beside another save
  opened,     \* connections accepted so far; the client is on the last one
  peer,       \* connection -> "open", "lost" by the client, handler "done"
  shut,       \* connections whose socket the server closed
  current,    \* the registered connection, 0 without one
  chain,      \* connection -> its chain
  opening,    \* chains whose opening is checked or about to be saved
  delayed,    \* chains with a submit waiting for the turn before it
  turn,       \* connection -> the turn it processes
  buffer,     \* the registered connection's merge_buffer (nobody reads that of
  pending,    \* one no longer registered), its pending_request_id, and whether
  cooling,    \* it is within ai_cooldown_ms of its last turn
  pausing,    \* the connection being paused for inactivity
  asked,      \* the client's last requestId, 0 once it was answered
  submitting  \* the client waits for a reply or an error

records  == <<log, overlapped>>
service  == <<status, question, turnOf, sent, records>>
sockets  == <<opened, peer, shut, current, chain>>
tasks    == <<opening, delayed, turn>>
speech   == <<buffer, pending, cooling>>
client   == <<asked, submitting>>
vars     == <<service, sockets, tasks, speech, pausing, client>>

Conns   == 1 .. NConns
Speech  == 0                         \* what the recognition heard, any of it
Uuid    == 0                         \* the id a turn without one gets, used once
Answers == SUBSET (Ids \cup {Speech}) \* the texts submitted and heard, joined
\* `found` is the message that save_message found without an answer, 0 if none.
NoTurn  == [pc |-> "idle", id |-> 0, text |-> {}, question |-> 0, found |-> 0]

TypeOK ==
  /\ status \in {"IN_PROGRESS", "PAUSED", "COMPLETED"}
  /\ question \in 1 .. NQuestions + 1
  /\ turnOf \in [Ids \cup {Uuid} -> 0 .. NQuestions]
  /\ sent \in [Ids \cup {Uuid} -> Answers]
  /\ log \in Seq([asks: 1 .. NQuestions + 1, turn: 0 .. NQuestions])
  /\ overlapped \subseteq 0 .. NQuestions
  /\ opened \in 0 .. NConns
  /\ peer \in [Conns -> {"none", "open", "lost", "done"}] /\ shut \subseteq Conns
  /\ current \in 0 .. NConns /\ chain \in [Conns -> 0 .. NConns]
  /\ delayed \subseteq Conns
  /\ opening \in [Conns -> {"none", "check", "save"}]
  /\ buffer \in Answers /\ pending \in Ids \cup {Uuid} /\ cooling \in BOOLEAN
  /\ turn \in [Conns -> [pc: {"idle", "begin", "wait", "decide", "reply", "look", "write",
                              "speak", "refused", "clashed"},
                         id: Ids \cup {0}, text: Answers,
                         question: 0 .. NQuestions, found: Nat]]
  /\ pausing \in 0 .. NConns /\ asked \in Ids \cup {0} /\ submitting \in BOOLEAN

Init ==
  /\ status = "IN_PROGRESS" /\ question = 1
  /\ turnOf = [i \in Ids \cup {Uuid} |-> 0]
  /\ sent = [i \in Ids \cup {Uuid} |-> {}]
  /\ log = <<>> /\ overlapped = {}
  /\ opened = 0 /\ peer = [n \in Conns |-> "none"] /\ shut = {}
  /\ current = 0 /\ chain = [n \in Conns |-> 0]
  /\ opening = [n \in Conns |-> "none"] /\ delayed = {}
  /\ buffer = {} /\ pending = Uuid /\ cooling = FALSE
  /\ turn = [n \in Conns |-> NoTurn]
  /\ pausing = 0 /\ asked = 0 /\ submitting = FALSE

Reachable  == current # 0 /\ current \notin shut
Processing(n) == turn[n].pc # "idle"

-----------------------------------------------------------------------------
(* Connections                                                             *)

NewSpeech == buffer' = {} /\ pending' = Uuid /\ cooling' = FALSE

\* The client is alone on its session and comes back when its connection is
\* lost; the old handler may not have noticed.
Accept ==
  LET n == opened + 1 IN
  /\ opened < NConns
  /\ opened > 0 => peer[opened] # "open" \/ opened \in shut
  /\ status = "IN_PROGRESS"
  /\ opened' = n /\ current' = n
  /\ peer' = [peer EXCEPT ![n] = "open"]
  /\ \/ /\ current # 0
        /\ chain' = [chain EXCEPT ![n] = chain[current]]
        /\ UNCHANGED opening
     \/ /\ current = 0
        /\ chain' = [chain EXCEPT ![n] = n]
        /\ opening' = [opening EXCEPT ![n] = "check"]
  /\ NewSpeech
  /\ submitting' = FALSE
  /\ UNCHANGED <<service, shut, delayed, turn, pausing, asked>>

ClientLost ==
  /\ opened > 0 /\ peer[opened] = "open"
  /\ peer' = [peer EXCEPT ![opened] = "lost"]
  /\ UNCHANGED <<service, opened, shut, current, chain, tasks, speech, pausing, client>>

\* _cancel_tasks and the close of the recognition, which is open while a
\* connection of its chain is registered; the turns' `finally` clears processing.
OfChain(k) == {n \in Conns : chain[n] = k}

Cancel(k) ==
  /\ opening' = [opening EXCEPT ![k] = "none"]
  /\ delayed' = delayed \ {k}
  /\ turn' = [n \in Conns |-> IF n \in OfChain(k) THEN NoTurn ELSE turn[n]]

\* The receive loop of n ends, and disconnect pops the session's connection.
Disconnect(n) ==
  /\ peer[n] = "lost" \/ (peer[n] = "open" /\ n \in shut)
  /\ peer' = [peer EXCEPT ![n] = "done"]
  /\ IF current = 0 THEN UNCHANGED tasks ELSE Cancel(chain[current])
  /\ current' = 0 /\ NewSpeech
  /\ UNCHANGED <<service, opened, shut, chain, pausing, client>>

-----------------------------------------------------------------------------
(* Inactivity, and the session's pause and resumption over HTTP            *)

PausePops ==
  /\ current # 0 /\ pausing = 0
  /\ pausing' = current /\ current' = 0 /\ NewSpeech
  /\ UNCHANGED <<service, opened, peer, shut, chain, tasks, client>>

\* pause_session refuses a session that is not in progress, and then nothing
\* is cancelled or closed.
PauseEnds ==
  /\ pausing # 0
  /\ \/ /\ status = "IN_PROGRESS"
        /\ status' = "PAUSED"
        /\ Cancel(chain[pausing])
        /\ shut' = shut \cup {pausing}
     \/ status # "IN_PROGRESS" /\ UNCHANGED <<status, tasks, shut>>
  /\ pausing' = 0
  /\ UNCHANGED <<question, turnOf, sent, records, opened, peer, current, chain, speech, client>>

PauseOrResume ==
  /\ \/ status = "IN_PROGRESS" /\ status' = "PAUSED"
     \/ status = "PAUSED" /\ status' = "IN_PROGRESS"
  /\ UNCHANGED <<question, turnOf, sent, records, sockets, tasks, speech, pausing, client>>

-----------------------------------------------------------------------------
(* The opening                                                             *)

OpeningChecks(k) ==
  /\ opening[k] = "check"
  /\ opening' = [opening EXCEPT ![k] =
       IF log = <<>> /\ question <= NQuestions THEN "save" ELSE "none"]
  /\ UNCHANGED <<service, sockets, delayed, turn, speech, pausing, client>>

OpeningSaves(k) ==
  /\ opening[k] = "save"
  /\ opening' = [opening EXCEPT ![k] = "none"]
  /\ log' = IF Reachable THEN Append(log, [asks |-> 1, turn |-> 0]) ELSE log
  /\ UNCHANGED <<status, question, turnOf, sent, overlapped, sockets, delayed, turn,
                 speech, pausing, client>>

-----------------------------------------------------------------------------
(* _submit                                                                 *)

\* The utterance is taken together with the pending request id.
StartTurn(n, text, id) ==
  /\ turn' = [turn EXCEPT ![n] = [NoTurn EXCEPT !.pc = "begin", !.id = id, !.text = text]]
  /\ buffer' = {} /\ pending' = Uuid
  /\ UNCHANGED cooling

\* Fresh text has a fresh requestId, the same text the one it had.
Drawn == {asked} \cup {i \in Ids : turnOf[i] # 0 \/ pending = i \/ i \in buffer
                         \/ \E n \in Conns : turn[n].id = i}
Fresh == Ids \ Drawn

ClientSubmits ==
  /\ opened > 0 /\ peer[opened] = "open" /\ ~submitting
  /\ submitting' = TRUE
  /\ \E i \in {j \in Fresh : \A k \in Fresh : j <= k} \cup ({asked} \ {0}) :
       /\ asked' = i
       /\ \/ ~Reachable /\ UNCHANGED <<tasks, speech>>
          \/ /\ Reachable /\ ~Processing(current)
             /\ StartTurn(current, {i}, i)
             /\ UNCHANGED <<opening, delayed>>
          \/ /\ Reachable /\ Processing(current)
             /\ buffer' = {i} /\ pending' = i
             /\ delayed' = delayed \cup {chain[current]}
             /\ UNCHANGED <<opening, turn, cooling>>
  /\ UNCHANGED <<service, sockets, pausing>>

\* A submit waits again when it finds another turn, and starts none when
\* nothing is left to say.
DelayedSubmit(k) ==
  /\ k \in delayed
  /\ \/ /\ Reachable => ~Processing(current) /\ buffer = {}
        /\ delayed' = delayed \ {k}
        /\ UNCHANGED <<turn, speech>>
     \/ /\ Reachable /\ Processing(current)
        /\ delayed' = (delayed \ {k}) \cup {chain[current]}
        /\ UNCHANGED <<turn, speech>>
     \/ /\ Reachable /\ ~Processing(current) /\ buffer # {}
        /\ delayed' = delayed \ {k}
        /\ StartTurn(current, buffer, pending)
  /\ UNCHANGED <<service, sockets, opening, pausing, client>>

\* _on_asr_text: a final result, while nobody else is speaking.  What is
\* heard is heard once.
NothingHeard ==
  /\ turnOf[Uuid] = 0
  /\ Speech \notin buffer
  /\ \A n \in Conns : Processing(n) => turn[n].id # Uuid

Heard ==
  /\ NothingHeard
  /\ current # 0 /\ ~Processing(current) /\ ~cooling
  /\ buffer' = buffer \cup {Speech}
  /\ UNCHANGED <<service, sockets, tasks, pending, cooling, pausing, client>>

\* ai_cooldown_ms is longer than submit_retry_seconds: what waits is
\* submitted first.
\* Fault: it is not.
CooldownShort == TRUE
CooldownLong  == delayed = {}

CooldownEnds ==
  /\ cooling
  /\ CooldownLong
  /\ cooling' = FALSE
  /\ UNCHANGED <<service, sockets, tasks, buffer, pending, pausing, client>>

-----------------------------------------------------------------------------
(* _process_turn                                                           *)

TurnGoes(n, pc) == turn' = [turn EXCEPT ![n].pc = pc]

\* `finally`, after a reply, a refusal and a connection that is gone.
\* Fault: only after a reply.
ClearedOnSuccess(n) == IF turn[n].pc = "refused" THEN turn[n] ELSE NoTurn
Cleared(n)          == NoTurn

TurnEnds(n) ==
  /\ turn' = [turn EXCEPT ![n] = Cleared(n)]
  /\ cooling' = (cooling \/ n = current)
  /\ UNCHANGED <<buffer, pending>>

\* submit_turn with the current question: a requestId seen before must belong
\* to that question and have the same answer; another turn must not be open.
\* Fault: a finished interview takes one more turn.
OpenTurns == {i \in Ids \cup {Uuid} : turnOf[i] = question}

Known(n) == turn[n].id \in OpenTurns /\ sent[turn[n].id] = turn[n].text

NewAtEnd(n) == OpenTurns = {} /\ turnOf[turn[n].id] = 0
New(n)      == question <= NQuestions /\ NewAtEnd(n)

BeginTurn(n) ==
  /\ turn[n].pc = "begin"
  /\ \/ ~Reachable /\ TurnEnds(n) /\ UNCHANGED <<turnOf, sent>>
     \/ /\ Reachable /\ New(n)
        /\ turn' = [turn EXCEPT ![n].pc = "decide", ![n].question = question]
        /\ turnOf' = [turnOf EXCEPT ![turn[n].id] = question]
        /\ sent' = [sent EXCEPT ![turn[n].id] = turn[n].text]
        /\ UNCHANGED speech
     \/ /\ Reachable /\ Known(n)
        /\ turn' = [turn EXCEPT ![n].pc = "wait", ![n].question = question]
        /\ UNCHANGED <<turnOf, sent, speech>>
     \/ /\ Reachable /\ ~New(n) /\ ~Known(n)
        /\ TurnGoes(n, "refused")
        /\ UNCHANGED <<turnOf, sent, speech>>
  /\ UNCHANGED <<status, question, records, sockets, opening, delayed, pausing, client>>

\* The last turn ends the session.
Decides ==
  /\ question' = question + 1
  /\ status' = IF question = NQuestions THEN "COMPLETED" ELSE status

DecideTurn(n) ==
  /\ turn[n].pc = "decide"
  /\ Decides
  /\ TurnGoes(n, "reply")
  /\ UNCHANGED <<turnOf, sent, records, sockets, opening, delayed, speech,
                 pausing, client>>

\* A turn whose decision was cancelled is decided by the scheduler when its
\* lease ends.
RecoverTurn ==
  /\ OpenTurns # {}
  /\ \A n \in Conns : turn[n].pc # "decide"
  /\ Decides
  /\ UNCHANGED <<turnOf, sent, records, sockets, tasks, speech, pausing, client>>

WaitedTurn(n) ==
  /\ turn[n].pc = "wait" /\ question # turn[n].question
  /\ TurnGoes(n, "reply")
  /\ UNCHANGED <<service, sockets, opening, delayed, speech, pausing, client>>

-----------------------------------------------------------------------------
(* The reply, and save_message: its transaction reads twice and then       *)
(* writes, and locks nothing until it writes                               *)

\* Fault: without looking for the turn's message first.
UnknownAny(q) == TRUE
Unknown(q)    == \A m \in 1 .. Len(log) : log[m].turn # q

\* The reply is sent and the turn's message looked for, which only a save of
\* the same turn could write meanwhile; without a connection the reply is
\* dropped, and so is its record.
SendReply(n) ==
  /\ turn[n].pc = "reply"
  /\ \/ /\ Reachable
        /\ TurnGoes(n, IF Unknown(turn[n].question) THEN "look" ELSE "speak")
        /\ IF peer[current] = "open"
           THEN asked' = 0 /\ submitting' = FALSE ELSE UNCHANGED client
        /\ UNCHANGED speech
     \/ ~Reachable /\ TurnEnds(n) /\ UNCHANGED client
  /\ UNCHANGED <<service, sockets, opening, delayed, pausing>>

\* The last message without an answer.
Unanswered == {m \in 1 .. Len(log) : log[m].turn = 0}
Latest     == CHOOSE m \in Unanswered \cup {0} : \A k \in Unanswered : k <= m

FindUnanswered(n) ==
  /\ turn[n].pc = "look"
  /\ turn' = [turn EXCEPT ![n].pc = "write", ![n].found = Latest]
  /\ UNCHANGED <<service, sockets, opening, delayed, speech, pausing, client>>

\* The key on interview_turn_id: no other message may have the turn.
Clashes(m, q) == \E k \in 1 .. Len(log) : k # m /\ log[k].turn = q

\* The answer goes to the message that was found, whatever became of it since,
\* or to the message with the reply.
Saved(m, q) ==
  IF m = 0 THEN Append(log, [asks |-> q + 1, turn |-> q])
  ELSE Append([log EXCEPT ![m].turn = q], [asks |-> q + 1, turn |-> 0])

\* Saves of other connections that read before this one writes.
Others(n) == {m \in Conns \ {n} : turn[m].pc \in {"look", "write"}}

WriteRecord(n) ==
  LET q == turn[n].question
      m == turn[n].found
  IN
  /\ turn[n].pc = "write"
  /\ \/ /\ Clashes(m, q)
        /\ turn' = [turn EXCEPT ![n].pc = "clashed", ![n].found = 0]
        /\ UNCHANGED records
     \/ /\ ~Clashes(m, q)
        /\ turn' = [turn EXCEPT ![n].pc = "speak", ![n].found = 0]
        /\ log' = Saved(m, q)
        /\ overlapped' = overlapped \cup
             (IF Others(n) = {} THEN {} ELSE {turn[k].question : k \in Others(n) \cup {n}})
  /\ UNCHANGED <<status, question, turnOf, sent, sockets, opening, delayed, speech, pausing, client>>

-----------------------------------------------------------------------------
(* The end of a turn                                                       *)

\* The error message.
ToldOfError == submitting' = (submitting /\ ~(Reachable /\ peer[current] = "open"))

\* The database fails: the client is told, and the turn ends.
SaveFails(n) ==
  /\ turn[n].pc \in {"look", "write"}
  /\ ToldOfError /\ TurnEnds(n)
  /\ UNCHANGED <<service, sockets, opening, delayed, pausing, asked>>

\* The sentences are spoken, or the error message is sent.
FinishTurn(n) ==
  /\ \/ turn[n].pc = "speak" /\ UNCHANGED submitting
     \/ turn[n].pc \in {"refused", "clashed"} /\ ToldOfError
  /\ TurnEnds(n)
  /\ UNCHANGED <<service, sockets, opening, delayed, pausing, asked>>

-----------------------------------------------------------------------------
TurnStep(n) ==
  \/ BeginTurn(n) \/ DecideTurn(n) \/ WaitedTurn(n)
  \/ SendReply(n) \/ FindUnanswered(n) \/ WriteRecord(n) \/ SaveFails(n)
  \/ FinishTurn(n)

Next ==
  \/ Accept \/ ClientLost \/ ClientSubmits \/ Heard \/ CooldownEnds
  \/ PausePops \/ PauseEnds \/ PauseOrResume \/ RecoverTurn
  \/ \E n \in Conns : Disconnect(n) \/ TurnStep(n)
  \/ \E k \in Conns : OpeningChecks(k) \/ OpeningSaves(k) \/ DelayedSubmit(k)

Spec == Init /\ [][Next]_vars

\* Tasks run on; decisions and sentences have time limits.
Fairness ==
  /\ \A n \in Conns : WF_vars(TurnStep(n))
  /\ \A k \in Conns : WF_vars(DelayedSubmit(k))
  /\ WF_vars(RecoverTurn)

FairSpec == Spec /\ Fairness

-----------------------------------------------------------------------------
\* A turn that has a requestId has the answer the client sent with that id and
\* nothing else, although what the recognition hears is joined to the same
\* buffer (_handle_control, _submit, _on_asr_text).
SubmittedTextIsSent ==
  \A n \in Conns : turn[n].id \in Ids => turn[n].text = {turn[n].id}

\* A turn has one message, although two connections may process the same
\* request at once.  And unless saves overlapped - a connection wrote between
\* another's reads and its write, of the same turn or of the next - its reply
\* is one message too, and no save is refused by the key on the turn: which
\* the turn that comes second then is, or it writes the reply again
\* (save_message).
TurnRecordedOnce ==
  /\ \A m, k \in 1 .. Len(log) :
       /\ log[m].turn = log[k].turn /\ log[m].turn # 0 => m = k
       /\ log[m].asks = log[k].asks /\ log[m].asks > 1 => m = k \/ log[m].asks - 1 \in overlapped
  /\ \A n \in Conns : turn[n].pc = "clashed" => turn[n].question \in overlapped

\* An answer that arrived during a turn is not left in the buffer, nor is one
\* that the client sent in its place: what waits is taken when the turn before
\* it ends, however that ends, unless its connection is gone (_submit,
\* _delayed_submit, _process_turn).
SubmitsAreServed == buffer \cap Ids # {} ~> buffer \cap Ids = {}

\* A client that is connected and was not told otherwise is heard: "a dropped
\* connection does not complete the session, the client can reconnect".
LatestIsServed ==
  opened > 0 /\ peer[opened] = "open" /\ opened \notin shut =>
    opened \in {current, pausing}

\* A repeated requestId with the same answer gets the result of its turn.
RetriesAreAnswered ==
  \A n \in Conns :
    turn[n].pc = "refused" =>
      ~ (turnOf[turn[n].id] # 0 /\ sent[turn[n].id] = turn[n].text)
=============================================================================

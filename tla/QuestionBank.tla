---------------------------- MODULE QuestionBank ----------------------------
(***************************************************************************)
(* The question bank of one knowledge base: what its owner creates, edits  *)
(* and deletes (KnowledgeBaseQuestionService), what a generation task      *)
(* replaces it with (KnowledgeBaseQuestionGenerationService.execute,       *)
(* replace_questions_and_complete), and what an interview about the        *)
(* knowledge base may draw from it (KnowledgeBaseInterviewService).  How a *)
(* task gets from one status to the next is QuestionGeneration; here it    *)
(* does in as few steps as its attempts can tell apart.                    *)
(*                                                                         *)
(* A transaction that inserts a question holds a key share of the          *)
(* knowledge base's row, which excludes the FOR UPDATE of the transaction  *)
(* that replaces the bank, so each of them is one step.                    *)
(***************************************************************************)
EXTENDS Integers, Sequences, FiniteSets, Functions, TLC

CONSTANTS Calls,      \* requests of the owner being served at once
          Workers,    \* attempts at a generation task being made at once
          Names,      \* directions ("category") of questions
          Texts,      \* <<key, form>>: forms _question_key maps to one key
          MaxId,      \* questions ever stored
          MaxTasks,   \* generation tasks ever asked for
          MaxAnswer   \* questions in a model's answer

VARIABLES
  base,      \* whether the knowledge base's row is there
  bank,      \* knowledge_base_questions: id -> row
  nextId,    \* of the identity column
  gen,       \* question_gen_task_id and question_gen_status
  attempt,   \* worker -> its step, its task and the questions it has built
  call       \* request -> its step, the question, the row it read, its change

vars == <<base, bank, nextId, gen, attempt, call>>

BankAssumption == MaxId \in Nat /\ MaxTasks \in Nat /\ MaxAnswer \in Nat

\* What a client or the model sends for a direction, padded with blanks or not.
Typed == Names \X BOOLEAN
Blank == <<0, TRUE>>
Trim(name) == <<name[1], FALSE>>

\* ARCHIVED and STALE are, like DRAFT, not ACTIVE.
Statuses == {"DRAFT", "ACTIVE"}
Row      == [text: Texts, category: Typed, status: Statuses, from: 0 .. MaxTasks]
Changes  == [{"text"} -> Texts] \cup [{"category"} -> Typed \cup {Blank}] \cup [{"status"} -> Statuses]

IdleCall    == [pc |-> "idle"]
IdleAttempt == [pc |-> "idle"]

TypeOK ==
  /\ base \in BOOLEAN
  /\ nextId \in 1 .. MaxId + 1
  /\ DOMAIN bank \subseteq 1 .. nextId - 1
  /\ Range(bank) \subseteq Row
  /\ gen \in [task: 0 .. MaxTasks,
              status: {"NONE", "QUEUED", "PROCESSING", "COMPLETED", "FAILED"}]
  /\ \A w \in Workers : attempt[w].pc \in {"idle", "generate", "replace"}
  /\ \A c \in Calls : call[c].pc \in {"idle", "insert", "update", "delete"}

Init ==
  /\ base = TRUE
  /\ bank = <<>>
  /\ nextId = 1
  /\ gen = [task |-> 0, status |-> "NONE"]
  /\ attempt = [w \in Workers |-> IdleAttempt]
  /\ call = [c \in Calls |-> IdleCall]

Has(n) == nextId + n <= MaxId + 1

-----------------------------------------------------------------------------
(* The owner: KnowledgeBaseQuestionService                                 *)

Becomes(c, step) == call' = [call EXCEPT ![c] = step]

\* create_question reads the knowledge base, then inserts the question; the
\* foreign key refuses it when the row has gone.
ReadBase(c) ==
  /\ call[c].pc = "idle"
  /\ base
  /\ Becomes(c, [pc |-> "insert"])
  /\ UNCHANGED <<base, bank, nextId, gen, attempt>>

CreateQuestion(c) ==
  /\ call[c].pc = "insert"
  /\ Becomes(c, IdleCall)
  /\ \/ ~base /\ UNCHANGED <<bank, nextId>>
     \/ /\ base /\ Has(1)
        /\ nextId' = nextId + 1
        /\ \E t \in Texts, d \in Typed, s \in Statuses :
             bank' = [i \in DOMAIN bank \cup {nextId} |->
               IF i = nextId THEN [text |-> t, category |-> Trim(d), status |-> s, from |-> 0]
               ELSE bank[i]]
  /\ UNCHANGED <<base, gen, attempt>>

\* Fault: a direction is stored as it was sent.
AsSent(f, value) == value
Stored(f, value) == IF f = "category" THEN Trim(value) ELSE value

\* The columns an UPDATE names: those that differ from the row as it was read.
Differing(row, change) == {f \in DOMAIN change : Stored(f, change[f]) # row[f]}

\* update_question and update_status read the row; a blank direction is
\* refused with nothing written.
ReadForUpdate(c) ==
  /\ call[c].pc = "idle"
  /\ \E i \in DOMAIN bank, change \in Changes :
       /\ "category" \in DOMAIN change => change.category # Blank
       /\ Becomes(c, [pc |-> "update", id |-> i,
                      change |-> Restrict(change, Differing(bank[i], change))])
  /\ UNCHANGED <<base, bank, nextId, gen, attempt>>

\* An UPDATE that finds no row fails the request.
UpdateQuestion(c) ==
  /\ call[c].pc = "update"
  /\ LET change == call[c].change
     IN  bank' = [i \in DOMAIN bank |->
                    [f \in DOMAIN bank[i] |->
                       IF i = call[c].id /\ f \in DOMAIN change
                       THEN Stored(f, change[f])
                       ELSE bank[i][f]]]
  /\ Becomes(c, IdleCall)
  /\ UNCHANGED <<base, nextId, gen, attempt>>

ReadForDelete(c) ==
  /\ call[c].pc = "idle"
  /\ \E i \in DOMAIN bank : Becomes(c, [pc |-> "delete", id |-> i])
  /\ UNCHANGED <<base, bank, nextId, gen, attempt>>

DeleteQuestion(c) ==
  /\ call[c].pc = "delete"
  /\ bank' = Restrict(bank, DOMAIN bank \ {call[c].id})
  /\ Becomes(c, IdleCall)
  /\ UNCHANGED <<base, nextId, gen, attempt>>

\* KnowledgeBaseService.delete removes no question, and the foreign key of the
\* questions keeps the row of a knowledge base that has any.
DeleteKnowledgeBase ==
  /\ base
  /\ bank = <<>>
  /\ base' = FALSE
  /\ UNCHANGED <<bank, nextId, gen, attempt, call>>

-----------------------------------------------------------------------------
(* Generation                                                              *)

CreateTask ==
  /\ base
  /\ gen.status \in {"NONE", "COMPLETED", "FAILED"}
  /\ gen.task < MaxTasks
  /\ gen' = [task |-> gen.task + 1, status |-> "QUEUED"]
  /\ UNCHANGED <<base, bank, nextId, attempt, call>>

\* A worker takes the task's message: try_mark_processing, and execute, which
\* reads the knowledge base.
StartAttempt(w) ==
  /\ attempt[w].pc = "idle"
  /\ base
  /\ gen.status = "QUEUED"
  /\ gen' = [gen EXCEPT !.status = "PROCESSING"]
  /\ attempt' = [attempt EXCEPT ![w] = [pc |-> "generate", task |-> gen.task]]
  /\ UNCHANGED <<base, bank, nextId, call>>

\* reset_for_retry, and reset_stale_processing, which does not know whether
\* the attempt is still being made.
Requeue ==
  /\ base
  /\ gen.status = "PROCESSING"
  /\ gen' = [gen EXCEPT !.status = "QUEUED"]
  /\ UNCHANGED <<base, bank, nextId, attempt, call>>

MarkFailed ==
  /\ base
  /\ gen.status \in {"QUEUED", "PROCESSING"}
  /\ gen' = [gen EXCEPT !.status = "FAILED"]
  /\ UNCHANGED <<base, bank, nextId, attempt, call>>

Answers == UNION {[1 .. n -> (Texts \X (Typed \cup {Blank})) \cup {<<>>}] : n \in 0 .. MaxAnswer}

\* _build_entities: a question without text, or whose key another one before
\* it has, is skipped.
Kept(answer) ==
  {k \in DOMAIN answer :
     /\ answer[k] # <<>>
     /\ \A j \in 1 .. k - 1 : answer[j] # <<>> => answer[j][1][1] # answer[k][1][1]}

\* Without a direction of its own a question gets the knowledge base's name.
DefaultName == CHOOSE name \in Names : TRUE
Direction(typed) == IF typed = Blank THEN <<DefaultName, FALSE>> ELSE Trim(typed)

\* A finite set of numbers in its order (SetToSortSeq, in a form that can be
\* reasoned about).
InOrder(K) ==
  CHOOSE s \in [1 .. Cardinality(K) -> K] : \A j, k \in DOMAIN s : j < k => s[j] < s[k]

Built(answer, t) ==
  LET kept == InOrder(Kept(answer))
  IN  [n \in DOMAIN kept |->
         [text |-> answer[kept[n]][1], category |-> Direction(answer[kept[n]][2]),
          status |-> "DRAFT", from |-> t]]

\* An answer without a usable question fails the attempt, as does an empty
\* index, or a model that raises.
Generate(w) ==
  /\ attempt[w].pc = "generate"
  /\ \/ \E answer \in Answers :
          /\ Kept(answer) # {}
          /\ attempt' = [attempt EXCEPT
               ![w] = [pc |-> "replace", task |-> attempt[w].task,
                       rows |-> Built(answer, attempt[w].task)]]
     \/ attempt' = [attempt EXCEPT ![w] = IdleAttempt]
  /\ UNCHANGED <<base, bank, nextId, gen, call>>

\* Fault: the status is not compared.
MatchesTask(w) == base /\ gen.task = attempt[w].task
Matches(w)     == base /\ gen = [task |-> attempt[w].task, status |-> "PROCESSING"]

\* replace_questions deletes whatever the bank holds.
\* Fault: the questions are added to those of the task before.
Addition(rows)    == bank @@ [i \in nextId .. nextId + Len(rows) - 1 |-> rows[i - nextId + 1]]
Replacement(rows) == [i \in nextId .. nextId + Len(rows) - 1 |-> rows[i - nextId + 1]]

Replace(w) ==
  /\ attempt[w].pc = "replace"
  /\ LET rows == attempt[w].rows
     IN  IF Matches(w)
         THEN /\ Has(Len(rows))
              /\ bank' = Replacement(rows)
              /\ nextId' = nextId + Len(rows)
              /\ gen' = [gen EXCEPT !.status = "COMPLETED"]
         ELSE UNCHANGED <<bank, nextId, gen>>
  /\ attempt' = [attempt EXCEPT ![w] = IdleAttempt]
  /\ UNCHANGED <<base, call>>

Next ==
  \/ \E c \in Calls :
       \/ ReadBase(c) \/ CreateQuestion(c)
       \/ ReadForUpdate(c) \/ UpdateQuestion(c)
       \/ ReadForDelete(c) \/ DeleteQuestion(c)
  \/ DeleteKnowledgeBase
  \/ CreateTask \/ Requeue \/ MarkFailed
  \/ \E w \in Workers : StartAttempt(w) \/ Generate(w) \/ Replace(w)

Spec == Init /\ [][Next]_vars

-----------------------------------------------------------------------------
(* What the bank offers                                                    *)

\* list_questions, with a status and a direction the client sent.
Listed(status, typed) ==
  {i \in DOMAIN bank : bank[i].status = status /\ bank[i].category = Trim(typed)}

\* active_questions, from which create_session draws.
Drawable(typed) == {i \in DOMAIN bank : bank[i].status = "ACTIVE" /\ bank[i].category = Trim(typed)}

\* capacity: the directions it names, each with the questions that, trimmed,
\* have it.
Offered(name) == {i \in DOMAIN bank : bank[i].status = "ACTIVE" /\ Trim(bank[i].category) = name}

-----------------------------------------------------------------------------
\* Whoever stored a question - the owner, an edit or a generation - an
\* interview on a direction that capacity offers finds as many questions as
\* it offers, and the list shows the same ones (capacity, create_session,
\* list_questions).
CapacityIsHonest ==
  \A typed \in Typed :
    Offered(Trim(typed)) = Drawable(typed) /\ Drawable(typed) = Listed("ACTIVE", typed)

\* The questions two tasks generated are never in the bank together, however
\* late an attempt at the older one is answered
\* (replace_questions_and_complete).
OneGeneration ==
  \A i, j \in DOMAIN bank :
    bank[i].from # 0 /\ bank[j].from # 0 => bank[i].from = bank[j].from

BankHolds == CapacityIsHonest /\ OneGeneration

NoDuplicates(b) == \A i, j \in DOMAIN b : i # j => b[i].text[1] # b[j].text[1]

\* A task replaces the bank once, with questions that are not each other's
\* duplicates: the edits its owner makes after it has completed are lost
\* neither to a second attempt at the same task nor to one at an older task
\* (reset_stale_processing, _build_entities, replace_questions_and_complete).
ReplacedOncePerTask ==
  [][\/ DOMAIN bank \subseteq DOMAIN bank'
     \/ call' # call
     \/ /\ gen.status = "PROCESSING"
        /\ gen' = [gen EXCEPT !.status = "COMPLETED"]
        /\ NoDuplicates(bank')]_vars
=============================================================================

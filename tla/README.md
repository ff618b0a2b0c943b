# TLA+ models of interview-guide

This directory holds a verification development of the backend under
`src/backend/src/interview_guide`: TLA+ modules translated from its source, TLC
configurations that check them on small instances, and TLAPS proofs of the
theorems that should hold for every size. Paths below are relative to that
package unless they start with `src/`.

Contents: [1 The system](#1-the-system) · [2 Modules](#2-modules) ·
[3 Interviews](#3-interviews) · [4 Tasks of the worker](#4-tasks-of-the-worker) ·
[5 Knowledge bases](#5-knowledge-bases) · [6 Voice](#6-voice) ·
[7 Accounts, providers and schedules](#7-accounts-providers-and-schedules) ·
[8 Models and what goes to them](#8-models-and-what-goes-to-them) ·
[9 Processes](#9-processes) · [10 Runs](#10-runs) · [11 Findings](#11-findings) ·
[12 Proofs](#12-proofs) · [13 Plan](#13-plan) · [14 Not modelled](#14-not-modelled)

## 1 The system

Four processes share one PostgreSQL database, one Redis and an S3 store
(`src/docker-compose.yml`): `migrate` (runs once), `app` (REST, SSE and
WebSocket), `worker` (one asyncio task per Redis stream in one TaskGroup, each
handling one message at a time) and `scheduler` (APScheduler; `max_instances=1`,
so a job never overlaps itself). Compose runs one replica of each. Nothing is
shared in memory between processes; they meet in database rows, Redis keys and
stream entries. A database transaction ends before every model call, so most of the
hard behaviour is in what happens *between* two transactions of one operation;
the voice runtime adds asyncio tasks that share one process's memory between
awaits.

### Components

State, operations, what is hard, and what makes it correct.

**Interview turns and recovery** (`modules/interview/service.py`, `repository.py`,
`turn.py`, `cache.py`).
State: `interview_sessions` (status, current question, evaluate status),
`interview_questions` (main questions and follow-ups), `interview_turns` (one
per answered question, PROCESSING → COMPLETED | FALLBACK, with a lease), Redis
cache requestId → turn id. Operations: create, submit_turn (begin_turn, model
decision, finalize_turn, XADD, cache), complete, delete, and the scheduler's
recover (stale turns, then pending evaluations). Hard: the decision model
answers long after begin_turn; duplicates wait, recover, or replay; the
scheduler recovers what is only late; crashes between any two transactions.
Correct: one decision per turn, never changed; a session walks its questions in
order; a client is told what is stored; nothing stays undecided.

**Interview creation** (`cache.py` create lock, `create_session`).
State: Redis lock (owner, 600 s lease), 24 h result cache, unique
(user, request id). Hard: a lease that expires under its owner; a second
creator. Correct: one session per request id; every caller gets that one.

**Interview planning and report** (`question.py`, `evaluation.py`, the skill
library). State: none that outlives a call. Hard: two concurrent model calls of
which either fails or is short; groups that a model reorders, repeats or drops.
Correct: a plan is filled up and never too long; a report is of the answers.

**Task streams and their consumer** (`common/redis/streams.py`, `worker.py`).
State: stream, consumer group, pending entry list, the consumer's batch.
Operations: XADD, read_batch (XAUTOCLAIM of entries idle for five minutes, else
XREADGROUP), process_message (skip, mark, process, complete | retry | fail,
XACK). Hard: at-least-once delivery, a retry whose XADD fails, a worker's death
at any step. Correct: no task in progress is ever owed by nobody.

**Interview evaluation** (`InterviewEvaluateHandler`, `pending_evaluations`,
`save_report`). State: evaluate_status, the report columns and answers.
Operations: the handler's five calls, POST /report, the scheduler's requeueing.
Hard: duplicates of one evaluation in the stream, resets while it runs.
Correct: COMPLETED means a report; every evaluation asked for settles.

**Resume upload and analysis** (`modules/resume`). State: resume rows with an
analysis status and an object's key, analysis rows, objects, stream.
Operations: upload, reanalyze, handler, delete. Hard: two uploads of one file
under a unique hash; PENDING is committed before the XADD and no job looks for
lost ones. Correct: a visible analysis for COMPLETED; a file for every row.

**Knowledge base vectorization** (`modules/knowledge_base/vectorization.py`).
State: document status, vectors tagged by document or by job, stream.
Operations: splitting, handler with pending batches, promote, clean-up; upload,
delete, revectorize. Hard: two attempts, or attempt and deletion, finishing in
either order; orphans of a dead attempt. Correct: exactly one job's vectors
visible, and of its text.

**Question generation and the question bank** (`question_service.py`,
`question_repository.py`). State: task id, status, questions. Operations:
create, mark, save, reset for retry, fail, recovery of QUEUED (2 min) and
PROCESSING (20 min), all compare-and-set on (task id, status); the owner's edits.
Hard: a slow worker and its replacement share a task id, while the owner edits.
Correct: saved questions come from the current task; every task settles; what
the bank offers, an interview finds.

**RAG chat and knowledge queries** (`rag_chat_*`, `query_service.py`). State:
messages with an order number and a completed flag. Operations: prepare
(allocates n, n+1 under the row lock), stream, complete, change of bases, delete.
Hard: two streams of one chat; a client that leaves; a refusal cut over two
pieces. Correct: pairs never interleave in order; a stream says one thing.

**Voice interview sessions** (`modules/voice_interview/service.py`,
`repository.py`). State: session row, messages, Redis copy with a TTL.
Operations: create, pause, resume, end, clean-up of stale sessions. Hard: check
and write in separate transactions; end completes the interview in a separate
call. Correct: its interview ends with it, and none stays open for ever.

**Voice WebSocket runtime** (`websocket.py`, `dashscope.py`). State: connection
registry, merge buffer, processing flag, timers, recognition runs, synthesis
tasks. Operations: connect (take-over), utterance, delayed submit, disconnect,
inactivity. Hard: a replaced connection's `disconnect` runs after the new one
registered; overlapping restarts of the recognition. Correct: an answer is
submitted once, as it came; a reply is heard whole and in order.

**Accounts and sessions** (`modules/auth`). State: accounts, one-time tokens,
session records and a per-user index in Redis. Hard: revoke_all reads the index
and deletes later, while requests refresh. Correct: an ended session stays so.

**Rate limiter** (`common/redis/rate_limit.py`, `rate_limit_single.lua`).
State: per-rule windows. Correct: all rules charged or none, no rule exceeded.

**Model providers and their settings** (`modules/llm_provider`,
`common/ai/user_providers.py`). State: providers, settings that refer to them,
keys, model lists cached in Redis. Correct: a setting never refers to a missing
provider; a list or connection is made with the key that belongs to it.

**Interview schedule** (`modules/interview_schedule`). State: status per entry.
Operations: the user's changes, hourly expiry, the reading of an invitation.
Correct: what was told stays; what is offered can be created.

**Scheduler** (`scheduler.py`). Four jobs: interview recovery (30 s),
question generation recovery (60 s), voice clean-up (60 s), schedule expiry
(hourly). Each appears with the component it works on.

**Processes** (`common/runtime.py`, `infrastructure.py`, `worker.py`). State:
bucket, seed rows, thread pool. Hard: three starts at once on an empty database;
blocking calls that outlive their callers. Correct: every process comes to run,
a stopped one exits.

**Model proxy** (`src/tools/model-proxy`). Faults to inject and records of what
passed. Correct: as many faults as configured, a record for every message.

### Interactions

    client -> app:   submit_turn, complete, delete, POST /report, chats, edits
    app    -> DB:    begin_turn | finalize_turn | complete_session   (FOR UPDATE)
    app    -> Redis: turn-result cache, create lock, sessions, limits; XADD
    worker <- Redis: XREADGROUP / XAUTOCLAIM -> handler -> DB -> XACK
    scheduler -> DB: stale turns, evaluations, generation tasks, voice, schedules
    voice  -> interview: submit_turn, complete, through InterviewService
    voice  -> DashScope: recognition and synthesis connections
    all    -> models: through StructuredOutputInvoker and the adapters

`PROJECT.json` lists under "hazards" where each of these can go wrong, line by
line, with the properties that watch it.

## 2 Modules

| module | models |
|---|---|
| `InterviewPath` | what an interview promises, abstractly: life, position, decisions |
| `InterviewTurn` | sessions, questions, turns, the calls and the recovery job |
| `InterviewCreation` | create_session: lock, result cache, unique request id |
| `QuestionPlan` | the planning of main questions |
| `SkillReferences` | shares of a skill's categories, reference files |
| `EvaluationReport` | the report computed from a model's groups |
| `TaskStream` | stream, group, pending list, sequential consumer |
| `InterviewEvaluation` | evaluation handler, POST /report, requeueing; extends `TaskStream` |
| `ResumeAnalysis` | upload, reanalyze, delete, handler; extends `TaskStream` |
| `KnowledgeIndex` | what a search finds, abstractly |
| `Vectorization` | vectorization handler, upload, revectorize, delete; extends `TaskStream` |
| `TextSplit` | the splitting of a text and the order of its vectors |
| `GenerationTask` | what question generation promises, abstractly |
| `QuestionGeneration` | generation handler, requests, recovery job; extends `TaskStream` |
| `QuestionBank` | the questions: edits, replacement by a task, what is offered |
| `KnowledgeQuery` | a question about knowledge bases, its searches and its streamed answer |
| `RagChat` | a chat: messages, streams, change of bases, deletion |
| `VoiceSession` | a voice session's row, its interview, the cached copy, the clean-up job |
| `VoiceSocket` | the WebSocket runtime: connections, buffer, turns, records |
| `SpeechRecognition` | recognition runs and those who restart them |
| `VoiceSpeech` | the speaking of a reply |
| `VoiceSettings` | voice settings and the keys used with them |
| `Providers` | providers and the settings that name them |
| `ModelDiscovery` | lists of models and their cache; the connection test |
| `Accounts` | one account: registration, tokens, password, sessions |
| `RateLimiter` | check() and the Lua script |
| `InterviewSchedule` | schedules and the hourly expiry |
| `ScheduleParse` | the reading of an invitation |
| `StructuredOutput` | attempts at a structured answer and the repair of quotes |
| `Startup` | the simultaneous start of application, worker and scheduler |
| `WorkerProcess` | a worker's consumers, blocking calls and end |
| `ModelProxy` | the proxy of acceptance runs |
| `InterviewTurn_proofs` | theorems about InterviewTurn |
| `TaskStream_proofs` | what the other proofs rest on: lemmas about the stream, and about numbers, finite sets and recursive functions |
| `VoiceSocket_proofs` | theorems about both sides of MCVoice |
| `TaskHandlers_proofs` | theorems about InterviewEvaluation and MCTaskHandlers: reports, resumes, and what one worker owes |
| `Services_proofs` | theorems about QuestionGeneration and the other services of MCServices, planning included |
| `Models_proofs` | theorems about Models and the parts put together in it |
| `Exchanges_proofs` | theorems about the parts MCModels adds: speech, proxy, invitations, reports, skills |
| `Texts_proofs` | theorems about two more of them: structured answers and split texts |
| `Models` | Vectorization, QuestionBank, KnowledgeQuery, SpeechRecognition, ModelDiscovery and VoiceSettings side by side |
| `MCInterviewTurn`, `MCTaskHandlers`, `MCVoice`, `MCServices`, `MCModels` | the instances TLC checks |

`InterviewTurn` implements `InterviewPath`, `Vectorization` implements
`KnowledgeIndex` and `QuestionGeneration` implements `GenerationTask`; the
refinement mapping is at the end of each.

Modules meet where the code does. The handlers extend `TaskStream`. Where a
module knows another only by what it leaves behind, that is one action:
`InterviewTurn` knows the evaluation worker as `SaveReport`, `InterviewEvaluation`
the interview's end as `Finish`, `VoiceSession` the interview as `core`,
`VoiceSocket` as its current question and turns, `QuestionBank` the task as its
status. Each opens up what the other closes.

MCTaskHandlers, MCVoice, MCServices, Models and MCModels put modules side by
side that share no state: the variable `handler`, `side`, `service` or `about` is chosen
in the initial state and says whose behaviour it is, and the others' variables
keep their initial values. What is shown is therefore what a run of each module
alone would show. Nothing is claimed of their interleaving, which none of them
could observe.

A definition preceded by a comment "Fault: ..." is a plausible bug, not the
code: `PROJECT.json` names it as the mutated form of the definition after it,
and the run of that property must find the property violated with it.

## 3 Interviews

### InterviewTurn

One action per transaction or external call; a process (an API request in
`Calls`, or the job `Scheduler`) carries its program counter and locals in
`proc`. A question is `<<main, followUp>>`.

| actions | code |
|---|---|
| SubmitTurn, LookupTurn, BeginExisting, BeginTurn, BeginRejected | `submit_turn` up to the model call; `begin_turn` |
| Decide | `InterviewTurnDecisionService.decide`, its fallbacks and caps |
| FinalizeTurn, FinalizeSuperseded, FinalizeRejected | `finalize_turn` and its three early exits |
| EnqueueEvaluation | `_enqueue_evaluation`; a failed XADD is swallowed |
| ReplyFresh, ReplyReplayed, Return | the cache write, the response |
| WaitOver, WaitRecover, WaitTimeout, RecoverTurn | `_wait_for_turn`, `recover_turn` |
| CompleteInterview, CompleteRead, CompleteSession | `complete`, `complete_session` |
| DeleteSession | `delete_session` |
| ScanTurns, RecoverNext, ScanEvaluations, RequeueEvaluation, RecoverDone | the recovery job |
| LeaseExpires, GrowsOld, CacheExpires | time |
| Crash | a process dies, or a Redis error leaves the call, between two steps |
| SaveReport | the evaluation worker |

Abstractions:

- Every transaction that decides something locks the session row first, so it is
  one step; `delete_session` takes that lock by its first UPDATE. Reads of the
  whole aggregate are one step; whatever they decide is checked again under the
  lock by `finalize_turn`.
- Answers are equal or not (`answer_hash`). Follow-up texts and the check for a
  repeated topic are part of the model's free choice: the decision may be
  anything `decide` can return for that session.
- The lease and the 30 seconds are flags that go up once, at any time.
- A Redis error while caching the reply is a `Crash` at that step.
- Clients retry as they like, with the same or another request id, for any
  question they could have been shown. Session ids are not reused, and sessions
  are created before the behaviour starts.
- `MaxFaults` bounds crashes, failed XADDs and lost cache entries.

### InterviewCreation

A call's program counter goes lock, cache, find, unfinished, generate, insert,
remember, unlock, reply. `lock` is the owner or None; `LeaseEnds` and
`CacheEntryEnds` may happen at any time and are noted in `lapsed`, because one
thing the code does depends on them: a request that does not force a new
interview and takes over an unfinished one stores its own request id only in
the cached result, so that once this is gone a repetition may get another
interview. `RepliesAgree` promises the forced case for ever and the other until
then. `Forced` is a set of request ids; the run has both. Of a session the
module keeps its request and whether it is open, over or deleted.

### QuestionPlan, SkillReferences, EvaluationReport

Pure computations with the model's answers as input. QuestionPlan has the two
concurrent calls of `generate` end in either order, fail, or be awaited first;
`Fixed` are the questions of a skill that fill up. SkillReferences is
`_allocate` and the section made of the reference files, in characters where the
code compares lengths; a question is given the references its type or its label
names. EvaluationReport takes groups in any order, repeated,
omitted and mixed up, and is checked against what a report must be, stated over
sets and sums rather than as the code computes it (rounding included).

## 4 Tasks of the worker

### TaskStream

`TaskStream` holds what every task shares. A message has an id, a task and a
retry count; `queue` is what the group has not delivered, `pel` what is
unacknowledged, `idle` the part of it delivered five minutes ago. A worker's
`pc` walks `process_message`: skip, mark, process, save, complete, ack; drop is
the acknowledgement of a skipped message, which is inside the `try`, so that its
failure goes the way of a failed task; failed, retry, readd and giveup are the
`except` branch. An exception outside the `try` ends the TaskGroup, hence the
process: `Crash`. When `retry` itself raises, the message stays unacknowledged
(`Preserve`).

### InterviewEvaluation

What each call does to the row. `update_evaluate_status` writes whatever is
there; so does `save_report`. Consequences worth knowing, none of which the
properties forbid: when `save_report` succeeded and `mark_completed` fails, the
evaluation goes back to PENDING and is repeated, or ends in FAILED with its
report stored on the last retry; when the XACK of a skipped message fails, a
finished evaluation is set back to PENDING too; and `pending_evaluations`
selects every PENDING evaluation 30 seconds after the interview's end, also
those whose message is waiting in the stream, so that duplicates are normal.

Row updates without FOR UPDATE are one step (they write without depending on
what they read); the answers of the model are left out (EvaluationReport has
them).

### ResumeAnalysis

The uploads of one file: store the object, insert the row under the unique
(user, file hash), take back one's own object when the insert is refused,
commit PENDING, XADD. `Delete` erases the object, then the row in a transaction that may
fail (`RemoveFails`): the row then stays without its file, and `halfDeleted` remembers
for which rows that happened. `RowsHaveFiles` says that this is the only way to such a
row, and that it concerns the row that was to be deleted and no other. `Keys` bounds
the objects there are at once. The handler inserts an analysis and marks the row; `analyzed`
says whether a row has one. Nobody looks for a resume whose message was never
written, so the application does not die between the two in this module; a
failing XADD, carried out or not, is modelled.

### Common to the handlers

Malformed messages, trimming at STREAM_MAX_LEN and an XAUTOCLAIM cursor over
more than one batch are not modelled. `MaxEntries` pauses producers only (a
retry always finds room), so `Ids` needs room for the entries, one per fault
and one per worker.

## 5 Knowledge bases

### Vectorization

A vector is <<job, batch>>; the metadata of a row says whether it is pending
(`kb_id` = `pending:<id>:<job>`) or visible (`kb_id` = the knowledge base's id).

| actions | code |
|---|---|
| Upload, Revectorize, Enqueue, EnqueueFails, MarkUnqueued | `upload`, `revectorize`, `_enqueue_vectorization` |
| Delete, DeleteVectors | `delete`: the rows, then the vectors in another transaction |
| ShouldSkip, MarkProcessing | `is_missing_or_completed`, `update_status` |
| StartJob, StoreBatch, CompleteJob | `process`, `vectorize`, `store_pending_batch`, `complete_job` with `promote_vector_job` |
| JobFails, Cleanup | the `except` branch of `vectorize`; a failing clean-up is swallowed |
| Handled, RetryFails, MarkFailed, MarkRetryFails | `retry` and what follows a failed XADD, `mark_failed` |
| AppCrash, WorkerCrash, EntryGrowsIdle | deaths and time |

A failing XADD may have been carried out by Redis. `complete_job` locks the
knowledge base's row, which the deletion needs too: each is one step. The text is
the same in every attempt; `Jobs` is the set of job ids in use at once, an id being
free again when no row and no worker has it (they are UUIDs). A document gives
at least one chunk: one shorter than `MIN_CHUNK_LENGTH_TO_EMBED` completes with
nothing to find.

Not forbidden by any property, and worth knowing: the pending vectors of a dead
worker, or of an attempt whose clean-up failed, are never removed by anybody
(a deletion looks for `kb_id` only); a knowledge base whose request died between
the commit of PENDING and the XADD stays PENDING until its owner asks again
(which is why settling is checked with `AppCrashes` = FALSE); and a knowledge
base that has questions cannot be deleted, because their foreign key has no
cascade and `delete` removes none.

### TextSplit

One turn of the loop of `split_text` is an action. The tokenizer (cl100k_base) is
external. The model keeps of it that a wide character is two tokens and that a mark
may share its token with what stands behind it: letters (`.com`) or closing brackets
and quotes, which are one `tail` here. A chunk is cut behind its last mark and encoded
anew to count the tokens it took; a mark cut from its tail still counts as one token,
so the tail is in no chunk: **that text is lost**, which `TakenOnce` names as the one
loss there is (only a `tail`, and only behind the mark at which a chunk was cut). It
is assumed that a piece of text that begins and ends between two tokens is encoded as
in the whole; how blanks are grouped by what follows them is left out. Then the
batches of the embedding, whose items come back in any order.

### QuestionGeneration

One knowledge base, since they never refer to each other. `age` is that of
`question_gen_updated_at` in the two steps that matter (two and twenty
minutes), `ageAtScan` what it was at the `now` from which the job computes its
thresholds; every update of the row resets both.

| actions | code |
|---|---|
| CreateTask, Send, SendFails, MarkUnsent | `submit_generation_task`, `create_task`, `send` and its `mark_failed` |
| MarkProcessing, Generate, SaveQuestions | `try_mark_processing`, `execute`, `replace_questions_and_complete` |
| Retry, Handled, ReaddFails, MarkFailed, RetryFails | `retry`, `reset_for_retry`, `mark_failed` |
| StartJob, ScanTasks, RecoverTask, JobSend, JobSendFails, JobMarkFailed, JobCrash | `recover`: first QUEUED, then PROCESSING |
| DeleteKnowledgeBase, AppCrash, WorkerCrash, GrowsOld, EntryGrowsIdle | deletion, deaths, time |

Every transition holds the row's lock and is one step. What can go wrong is
what they compare: a task reset after twenty minutes keeps its id, so that a
slow attempt and its replacement are told apart by the status only. An attempt
that takes twenty minutes counts as a fault. An id nobody remembers may be used
again (they are UUIDs).

### QuestionBank

What a task's questions do to the bank, and what the owner does to it
meanwhile: each edit reads a row and writes it in separate steps and names only
the columns that differ. A text or a direction is a pair of what it says and
whether it is padded with blanks. The properties compare `capacity`,
`active_questions` and `list_questions`, which see the same rows through
different conditions.

### KnowledgeQuery and RagChat

KnowledgeQuery is one question: its count in one transaction, a rewritten and an
original candidate, the search with a filter and the one without that replaces a
failed one, the answer whole or in pieces. Characters are numbers, the marker of
a refusal two of them, so that a piece can end between. RagChat is the chat
around it: allocation of numbers under the row lock, the history, completion,
and the deletion statement by statement under READ COMMITTED, where it meets
inserts of links.

## 6 Voice

### VoiceSession

Each call of `VoiceInterviewService` is a sequence of repository calls, cache
writes and the call of the interview's service; `call[c].pc` says what is next,
`seen` the row it read. `Cleanup` is the scheduler's job, `old` the start time
it goes by. `CallLost` ends a call or the job at any step. A session that a
late `resume` reopens is in progress again; `SessionsEnd` says that the job
ends it, because `stale_in_progress` looks at nothing but status and start
time.

### VoiceSocket

| variables | state of `VoiceWebSocketRuntime` |
|---|---|
| opened, peer, shut, current, chain | accepted connections, what their handlers know of them, the registered one, and which connection's tasks and recognition it took over |
| opening, delayed, turn | the tasks: the opening message, the delayed submits, a turn each |
| buffer, pending, cooling | merge buffer, pending request id, cooldown after speech |
| question, turnOf, sent, log | the interview as it is seen from here, and the recorded messages |
| asked, submitting | the client |

Between two awaits nothing else happens: an action is a piece of a coroutine
between two of them. `Disconnect` is the end of a receive loop, `Accept` a
client that (re)connects; between `ClientLost` and `Disconnect` the old handler
knows nothing. Texts are the sets of what was submitted and heard, so that it
shows when one answer is joined to another. The client is one (a second tab is
the same take-over), sends each request id with one text, and sends a text again
under its own id.

`save_message` is three steps, as its transaction reads twice and then writes and
locks nothing before it writes: the turn's message is looked for with the reply's
sending (`SendReply`), the last message without an answer is read (`FindUnanswered`),
and what was found is updated or a new message inserted (`WriteRecord`), which the
unique key on the turn may refuse. Two connections with one turn may both find
nothing. `TurnRecordedOnce` says what remains true: the turn's answer is in one
message; and unless saves overlapped (`overlapped` remembers the turns for which they
did), its reply is in one too and the key refuses nobody. Where they overlap, the
later one writes the reply a second time or its client is told of an error.
`SaveFails` is a database that fails in any of these steps.

### SpeechRecognition, VoiceSpeech

SpeechRecognition has one state per run of `DashScopeAsrSession` and three who
stop and start it: the receive loop, the monitor, and close. `start` replaces the
task of the run before it without a look at that run, so when two restarts overlap,
a run that was connected by then has no task any more that a later close could
cancel: it may listen, on an open connection, until its provider hangs up.
`overtaken` remembers those runs, and `ClosedIsSilent` says of all others that they
do not listen once the session is closed. VoiceSpeech has one task per sentence,
the semaphore, and the turn, which shows the text, stores the reply and sends what
the tasks made in order; a sentence may fail, be empty or too long to be sent, the
client may reconnect, the turn be cancelled. When storing the reply raises
(`SaveFails`) the sentences are cancelled, whatever of them was made, and the client
is told of an error; `HeardWhole` counts that as an answer, `SpokenInOrder` says that
nothing of the reply was heard then.

## 7 Accounts, providers and schedules

- `Accounts`: one account, whose calls (register, verify, log in, authenticate
  with its refresh, log out, change and reset of the password) are overtaken
  between any two accesses to PostgreSQL or Redis; MULTI blocks are one step.
  `session[s] = "gone"` means that it was there and is no more. Worth knowing:
  a login that checked the old password may create its session after a password
  change revoked the others, and a login that renews an outdated hash writes the
  password it checked over one that was set meanwhile; the property is about
  sessions that existed.
- `Providers`: transactions with row locks, key-share locks of foreign keys and
  PostgreSQL's deadlock victims (`RolledBack`). The settings are locked before
  or after the provider as the code does. `ReferencesHold` says that the check
  of `delete_provider` is never made vain by a concurrent choice.
- `ModelDiscovery`: the row's version in the cache key, keys and addresses by
  number; the answer of an address is the pair of address and key it was asked
  with.
- `VoiceSettings`: an edit writes key and settings in two transactions, a
  connection reads settings and key in two. `crossed` notes that two edits were
  under way at once, for which the code promises nothing and the property says
  nothing. An edit may also choose another provider and leave the address: it asks
  for no key, and the address is then opened with whatever key that provider has,
  older ones included. `KeyFollowsAddress` names that case (`Redirected`: a later
  edit chose a provider that is not the address's) and demands the address's own key
  or a newer one in every other.
- `RateLimiter`: time in ticks; a request carries the time it read, which the
  script uses up to `MaxDelay` later.
- `InterviewSchedule`: each request reads, then writes the columns that changed;
  the hourly job cancels what is overdue in between. `ToldIsKept` is stated for
  one request at a time: two clients' edits of one schedule may overwrite each
  other, as the last writer wins by design. An edit that the job overtakes between
  its read and its write may tell PENDING of a cancelled schedule; `late` remembers
  for which ids the last reply was of that kind, and in no other case is that answer
  allowed while the schedule's time is to come.
- `ScheduleParse`: a text is its markers, its labels and its dates in order. The
  regular expressions become conditions on those.

## 8 Models and what goes to them

`StructuredOutput` reads answers character by character where the repair of
quotes looks at characters (`quote`, `comma`, `colon`, `end`, a blank and others):
a quote the model left unescaped before a comma, a colon or a closing bracket is
taken for the end of its string, and `clear` is that there is none. It says what is read of a whole answer, of one cut short, and of one whose quotes
stand where the repair must guess. `ModelProxy` is the proxy in
`src/tools/model-proxy`: fault sets with counts, HTTP requests and WebSocket
pumps in two directions, and a record that is written by a thread after its
writer was cancelled.

## 9 Processes

`Startup`: bucket (a 409 is as good as a success), seed rows counted and
inserted under an advisory lock, the legacy owner's defaults without one; a
process whose start fails starts again. `WorkerProcess`: consumers in one task
group, calls queued for the executor's threads, time limits, the stop signal,
cancellation of all by one that raises, and the close of the executor. A call
that no thread has taken when its waiter gives up is never made; one under way
goes on.

## 10 Runs

| run | instance | shows |
|---|---|---|
| InterviewTurnRace | 1 session, 2 calls, 2 request ids, 2 mains, 1 follow-up, no faults, submit and complete | TypeOK, CurrentIsAnswerable, FollowUpsHaveDecisions, NoMainSkipped, RepliesAreDurable; DecisionIsFinal, ClosedStaysClosed |
| InterviewTurnFaults | 1 call, 2 faults, deletion too | OpenTurnIsCurrent, CachedTurnsAreDecided; refinement of InterviewPath (WalksThePath) |
| InterviewTurnLive | 1 call, 1 fault, submit and delete, fair | TurnsGetDecided, EvaluationsGetQueued |
| TaskHandlersSettle | resumes, evaluation or vectors: 1 task, 2 calls (vectors 1), 1 worker, 5 ids, 1 retry, batch 2, 1 entry, 2 faults (vectors 3), fair | RunningIsOwed, ResumesHold, CompletedHasReport, FinishedIsNotRedone; HandlersSettle |
| Voice | session: 2 calls and the clean-up, 1 fault; socket: 2 connections, 2 request ids, 1 question; fair | EndsInterview, SubmittedTextIsSent, TurnRecordedOnce; SessionsEnd, SubmitsAreServed |
| Services | see below | PlanIsFull, RepliesAgree, ReferencesHold, ChatsHold, LimitsHold, SchedulesHold, ProcessHolds; SessionsStayEnded, RunsOneTask (refinement of GenerationTask), ServicesSettle |
| Models | see below | CompletedIsSearchable, BankHolds, AnswersHold, RecognitionHolds, ExchangesHold, KeysHold, TextsHold; ReplacedAtOnce (refinement of KnowledgeIndex) |
| InterviewTurnStuck | 2 calls, 1 main, no fault, fair | TurnsGetDecided violated |
| InterviewTurnUnqueued | 2 calls, 1 main, 1 fault, fair | EvaluationsGetQueued violated |
| VoiceRetry | the socket of Voice | RetriesAreAnswered violated |
| VoiceReconnect | the socket of Voice | LatestIsServed violated |
| ProviderInUse | 2 aliases | TasksKeepTheirProvider violated |

Services: generation 2 task ids, 1 call, 1 worker, 4 message ids, 1 retry, 1
entry from requests and 1 from the job, 2 faults; plan up to 4 questions, 2
categories; creation 2 calls with one request id, forced or not, 2 sessions, 1
fault; 2 providers, 2 calls; account 2 calls, 2 sessions, 1 token; chat 2
streams, 2 calls, 1 base, history of 2; limiter 4 requests, 2 users, window 3,
7 ticks, 1 tick late; schedule 1 request at a time, 2 rows, 3 ticks; start of 3
processes, 1 fault; process 2 consumers, batches of 2, 1 thread, 3 calls.

Models: vectors 1 knowledge base, 2 workers, 3 jobs of 2 batches, 1 call, no
retry, 2 faults, crashes of the application too; bank 2 tasks, answers of 2
questions, 3 rows; query 2 bases, 2 vectors, answers of 3 characters with a probe
of 2; recognition 3 runs, 2 faults; discovery 2 calls, 2 keys; settings 2 edits, 2
providers; split up to 5 characters in chunks of 3 tokens, 2 chunks; speech 3
characters, 2 permits, 2 connections; structured 2 attempts; report 2 mains with
follow-ups, 2 groups; proxy 2 requests; parse 2 dates; skills 3 categories.

Why the bounds are enough. Rows of different sessions, resumes or knowledge
bases never refer to each other, so one is enough for what a property says of
each (the job's loop over several is what InterviewTurnUnqueued needs two turns
for, and they may be of one session). Two calls and the job are three concurrent
finalizers of one turn; two request ids give a duplicate and a rival submit; two
main questions with one follow-up reach every action of `decide`, the follow-up
cap and the last question. Two faults allow a crash and one in its recovery.

For the handlers, one retry reaches both exits of a failure; a batch of two
leaves a message waiting behind the one in work; MaxEntries pauses a new request
while an entry is unacknowledged, and duplicates come from retries, from
deliveries after five idle minutes, from XADDs that failed after they were
carried out and from the job. Vectors has three faults because a failing retry
takes three: the task, its XADD, and the mark that follows. In Models, two
workers put two attempts of one knowledge base at work at once, as an old and a
new worker do while one replaces the other; two batches make a half-stored job;
three job ids are one visible and one at work per worker. For a generation, two
task ids are the current and the previous one, and a message delivered again
makes a slow attempt and its replacement.

On the socket, two connections are the one replaced and the one replacing it; two
request ids are the answer in work and the one that waits. In creation, two calls
of one request id are a repetition that overlaps; two sessions are the first and
the one a repetition must not create. In Startup all three processes are there.
A window of three ticks with four requests fills, empties in part and fills
again, and seven ticks are past the expiry of the limiter's key. The inputs of the pure modules are all those of the stated lengths: each
is long enough for a cut inside, a cut at the end and something after it.

Calls, request ids, answers and the workers of Models are interchangeable and
symmetric in safety runs; runs with liveness use no symmetry.

Deadlock is checked in the three InterviewTurn runs. It is not in
TaskHandlersSettle, Voice, Services and Models: a resume or knowledge base once
deleted, a session once ended, a computation once made and a process once exited
have nothing more to do.

Fairness. A request being served runs on (asyncio schedules every task, and
decisions, sentences and blocking calls have time limits of their own); the
scheduler's interval triggers fire for ever; leases, idle times and the 30 seconds
pass; the worker runs and Compose restarts it (`restart: unless-stopped`). Clients
owe nothing: no fairness on SubmitTurn, complete, delete, POST /report, uploads,
Accept or Return. Faults and crashes are never fair, and bounded. Models
states none.

Scope of some properties:

- InterviewTurnLive leaves `complete` out of the clients' operations, because with
  it the property fails (InterviewTurnStuck); the run shows that this race is the
  only obstacle at that size.
- `RunningIsOwed` and `FinishedIsNotRedone` hold for one worker: with two, one
  can finish and acknowledge a duplicate between another's should_skip and its
  mark. Compose runs one.
- `EndsInterview` excepts what a failure cut between the two commits, and
  `RepliesAgree` what a lapsed lease or cache entry may do to a request that does
  not force an interview.
- `SchedulesHold` is about one request at a time, and lets PENDING be told of a
  cancelled schedule only when its time is past or the job overtook that edit.
  `KeysHold` is about edits of the voice settings that do not overlap, and about
  addresses used with the provider they came with or with one chosen earlier.
- `ResumesHold` is about rows: an object whose deletion failed is referred to by
  nobody and stays; a row whose own deletion failed after its object was erased is
  left without its file.
- `RecognitionHolds` excepts, of a closed session, runs that overlapping restarts
  replaced while they were connected (`overtaken`): the code stops them by nothing.
- `TurnRecordedOnce` demands one message per answer always, one reply per turn only
  of turns whose saves did not overlap.
- `ExchangesHold` takes an error message for an end of a reply, as storing it may fail.
- `TextsHold` excepts what shares a token with the mark at which a chunk is cut, and
  answers with a raw quote before a comma, a colon or a closing bracket.

In the last five the exception is what the code does, not what the model leaves out:
each is a behaviour of the module, remembered where it happens, and the property
demands that nothing else has the same outcome.

## 11 Findings

- **A turn that nobody can decide** (InterviewTurnStuck). `complete()` reads the
  session and finds no turn in PROCESSING; a concurrent submit begins one;
  `complete_session` closes the session and clears the current question without
  looking again (`repository.py:495`). From then on `finalize_turn` rejects the
  turn because the session is closed, and the scheduler's recovery raises for
  want of a current question.
- **It blocks the job behind it** (InterviewTurnUnqueued). `recover()` handles
  stale turns in a loop without a handler (`service.py:842`), before the pending
  evaluations: the stuck turn ends every run, and an evaluation whose XADD failed
  is never queued.
- **A repeated voice answer is refused** (VoiceRetry). The documentation promises
  the original result for a repeated requestId; the voice path fills in the
  question that is current at the repetition, so that after the first turn was
  decided the same answer is about another question and refused.
- **The new connection goes with the old one** (VoiceReconnect). `disconnect()`
  removes whatever connection is registered. When a client reconnects before the
  old handler has noticed the loss, the new connection is removed and nobody
  listens to it.
- **A provider in use is deleted** (ProviderInUse). The documentation says that a
  provider an unfinished task refers to cannot be deleted; `delete_provider` looks
  at the defaults and the voice settings only.

## 12 Proofs

All theorems hold for any sets and numbers the constants may have, from the
named assumptions of the modules only (such as: None is not a value; what a
number counts is a natural number). MCTaskHandlers, MCVoice, MCServices and
Models take their parameters as CONSTANTS too, with the assumptions of the
modules they instantiate (HandlersAssumption, VoiceAssumption,
ServicesAssumption, ModelsAssumption), so what is proved of them is proved for
every value; the values in the .cfg files are the
instance TLC checks. Each proof of a safety property follows one pattern: the
inductive invariant holds at first, every step keeps it, it implies the property;
TLC checked each invariant on the run's instance before it was proved.

### InterviewTurn_proofs

| theorem | states |
|---|---|
| TypeCorrect | Spec => []TypeOK |
| StandsOnAQuestion | Spec => []CurrentIsAnswerable |
| OneTurnIsOpen | Spec => []OpenTurnIsCurrent |
| FollowUpsMatch | Spec => []FollowUpsHaveDecisions |
| MainsInOrder | Spec => []NoMainSkipped |
| DecisionsAreFinal | Spec => DecisionIsFinal |
| ClosedIsFinal | Spec => ClosedStaysClosed |
| TurnsWalkThePath | Spec => WalksThePath (refinement of InterviewPath) |
| RepliesLast | Spec => []RepliesAreDurable |
| CacheNamesDecisions | Spec => []CachedTurnsAreDecided |

None of the first four safety invariants is inductive alone: that a session's current
question is undecided depends on where finalize_turn can have been, that no main
question is skipped on follow-ups being counted right, and so on. The inductive
invariant is

    IInv == TypeInv /\ RowsInv

TypeInv is TypeOK plus what each process's locals hold at each program counter
(LocalsOK): a call past begin_turn names a question, a decision about to be
finalized is one its follow-up count allows. RowsInv says per session, as a
predicate of its two functions `f` (follow-ups) and `t` (turns): `Walked(f, t)`,
follow-ups and main questions are backed by decisions and nothing is decided
beyond them; while it is open, `StandsOn(current, f, t)`, the current question
ends its chain and is the only one that may be PROCESSING; once closed, there is
no current question. Only BeginTurn, FinalizeTurn, CompleteSession and
DeleteSession touch these rows. The one delicate case is FinalizeTurn by a
recoverer: its fallback was computed for the session's current question, not for
its own turn, and it is OpenTurnIsCurrent that makes the two the same whenever
finalize_turn goes through.

The action properties and the refinement follow from the same invariant, one
step per action: FinalizeTurn maps to Move or Finish of InterviewPath,
CompleteSession to Close, DeleteSession to Remove, all others to a stutter.

RepliesAreDurable and CachedTurnsAreDecided are about what was read and is used
later, after the row lock is gone. Their invariant, on top of IInv, is

    ReplyInv == every process' Replying /\ CacheDecided /\ GoneIsEmpty

Replying says of each program counter between the commit of finalize_turn and the
answer that the turn the process carries is decided as it remembers it, or the
session was deleted; a replay of a known request has a decided turn or a deleted
session before it; a process that only recovers never goes on to write the cache.
CacheDecided says the same of the cache's entries, and GoneIsEmpty that a deleted
session's rows are gone and stay so. What keeps it is DecisionIsFinal in its
one-step form: no step of another process changes a decided turn.

### TaskStream_proofs

Lemmas the handlers share: each operation of the stream keeps it well typed, and
a message on its way to a retry is below MAX_RETRY_COUNT (StreamInv). Two more
sections are for what a handler claims of the tasks themselves:

- `Carried`, the tasks that some entry or worker carries: adding an entry for t
  carries at most t more (AddCarries), a worker's step none (WorkerMovesCarry).
- For a single worker, `HoldsPending(w)`: what it holds is pending and not also in
  its batch; and `KeptFor(w, t)`: a pending entry of t is still before it, or in
  its hands short of the acknowledgement. QuietKeeps, ConsumerKeeps, GoOnKeeps and
  RetryKeeps say which steps keep both, KeptIsOwed that a kept task is owed.

The module knows nothing of what a handler does to a row, which is what lets the
modules below cite it.

A last section is about numbers and recursion, for all that follows. The provers
cannot instantiate an induction theorem's predicate; these lemmas put a set in its
place: a nonempty set of naturals has a smallest member (Smallest), so a set that has
0 and with every number its successor has all of them up to n (Induction). From that:
a recursive function on 0 .. n exists and equals its unfolding (Recursion,
SameRecursion), and a finite set of naturals has exactly one increasing enumeration
(OrderGrows, OrderExists, OrderHasAll), which is what a CHOOSE of an order in
QuestionPlan, VoiceSpeech or SkillReferences denotes. The sums of EvaluationReport
and SkillReferences, and what StructuredOutput and TextSplit compute character by
character, are written as recursive functions for that.

### Models_proofs

| theorem | states |
|---|---|
| TypeCorrect | Spec => []TypeOK |
| CompletedMeansSearchable | Spec => []CompletedIsSearchable |
| JobsDoNotMix | Spec => [](SearchSeesOneJob /\ JobsKeepTheirVectors) |
| IndexIsReplacedAtOnce | Spec => SearchIsAtomic (refinement of KnowledgeIndex) |
| OffersAreReplacedAtOnce | ModelsSpec => ReplacedAtOnce |
| BankKeepsItsWord | ModelsSpec => []BankHolds |
| AnswersAreOfTheAsked | ModelsSpec => []AnswersHold |
| NewestRunHears | ModelsSpec => []RecognitionHolds |
| KeysBelong | ModelsSpec => []KeysHold |

MCModels extends Models by parts that share no state with it and leave `parts`
unchanged (MCNext): a behaviour of MCSpec is one of ModelsSpec, with `about` naming
something in `Elsewhere` while one of those parts runs.

Each part of Models has an invariant of its own; PartsStep says that a step of
ModelsNext is a step or a stutter of every part, so that together they are
inductive (ModelsInv), and ModelsVectorize that ModelsSpec implies the
specification of Vectorization.

Vectorization (IInv), for any number of workers, jobs and batches: it adds to the three
properties that a job id at work belongs to one worker (JobsAreOwn): an attempt's
clean-up removes the vectors pending under its own id, and that no one else
stores under it is what keeps another attempt's job whole. Every step is first
classified by what it does to what a search sees: nothing, marking the status,
leaving COMPLETED, deleting, or replacing all that is visible by one whole job.
The refinement maps the last three to Replace and Remove of KnowledgeIndex or to a
stutter.

The others, for any numbers of requests, runs, pieces, versions and edits:

- BankInv: every row's direction is stored trimmed, whoever writes it, and all
  generated rows are of one task; rows that wait to replace the bank are of the
  attempt's task and not each other's duplicates (RowsOf, from BuiltRows: what is
  built of any answer is). That a replacement is of the task in progress is the
  comparison of replace_questions_and_complete, and BankReplaced that nothing else
  takes rows away but the owner.
- QueryInv: the vectors used are of the knowledge bases asked; a question is
  counted exactly once past its first step (CountsHold); until the probe is passed
  the client has nothing and what came is held back, afterwards it has all that
  came, of which the probe has no marker (SaidSoFar). Where it ends, three lemmas
  about one text (SaysNothing, SaysShort, SaysLong) give SaysOneThing.
- AsrInv: a cancelled run is ending or has ended, the newest run past its connect has
  the session's connection while nobody is about to finish it, a closed session has
  neither, and a run with a connection is the one of the session's task or was
  overtaken (LinkedHasTask), which is what a close can and cannot reach. An older run
  that ends late cannot take the newest one's connection, because it compares before
  it clears.
- DiscoveryInv: what is known of the key of a version of the row (by the row, by
  the requests that read it, by what is cached) is one key per version, and no
  version is newer than the row's (VersionsAgree). It is inductive because every
  write of an address or key advances the version.
- SettingsInv: while no two edits overlapped, the edit under way is newer than
  every address, and an address's key is the one it came with or newer, in the
  settings and in what a connection has read (KeysFollow). A provider that is not its
  address's was chosen by an edit later than the one that brought the address
  (Redirects). Once edits overlap it says nothing, as the property does.

### TaskHandlers_proofs

| theorem | states |
|---|---|
| TypeCorrect | Spec => []TypeOK |
| CompletedMeansReport | Spec => []CompletedHasReport |
| InterruptedIsOwed | Workers = {w}: Spec => []InterruptedWorkIsOwed |
| NotRedone | Workers = {w}: Spec => []FinishedIsNotRedone |
| ResumesAreWhole | HandlersSpec => []ResumesHold |
| RunningOwed | Workers = {w}: HandlersSpec => []RunningIsOwed |

The first four are about InterviewEvaluation by itself (Spec).
The first two from SharedInv: TypeOK, AtWork (a retry is on its way only for a
message below MAX_RETRY_COUNT; mark_completed runs only for a stored report or a
session that is gone), DeletedIsNone and CallsOK. The others from Alone(w): what
the worker holds is pending and not also in the batch behind it, what it skips,
gives up or acknowledges is not PROCESSING, what it is about to evaluate is not
COMPLETED, and whatever is PROCESSING has a pending entry. The crucial step is
the acknowledgement: it takes away the only entry it can take away when the
status has just left PROCESSING. `OthersAreQuiet` says why callers, scheduler
and time cannot break it: they at most reset a status to PENDING or remove it.
With two workers both are false (section 10).

The last two are about the three handlers of MCTaskHandlers. That an instance's steps of the stream
are TaskStream's own is shown once (ResumeStream and its like), and from then on
the lemmas of TaskStream_proofs apply.

ResumesAreWhole holds for any number of workers. Its invariant ResumeInv has, next
to the two properties: RowsKnown (requests past their insert, and messages, are about
a row that was inserted), AnalysesKept (mark_completed runs for an analysis that was
stored or a row that is gone) and KeysKept (an upload's key is its own, a row's key
no other row's, and what a deletion erases is the file of its row alone, so that a
failing deletion leaves no other row without its file). RunningOwed is, for each of the three,
`KeptFor(w, t)` for every task t shown as PROCESSING: the worker's own steps leave
PROCESSING before they drop or acknowledge, and nobody else's step enters it.
Its evaluation part is the lemma behind InterruptedIsOwed.

### VoiceSocket_proofs

| theorem | states |
|---|---|
| TypeCorrect | Spec => []TypeOK |
| IdsKeepTheirText | Spec => []SubmittedTextIsSent |
| RecordedOnce | Spec => []TurnRecordedOnce |
| InterviewEnds | VoiceSpec => []EndsInterview |

For any number of connections, answers and questions. IdsKeepTheirText needs
WaitsAlone: an answer that waits with its id is alone in the buffer, its submit is
on its way, and nothing is heard until then, because a turn is processed or the
cooldown outlasts the retry interval; and ChainsFit, by which the delayed submit
that is on its way belongs to the chain of the registered connection. RecordedOnce
needs OneIsDecided: only one turn is before the model, that of the current
question; and, unless saves overlapped, that what a save read still holds when it
writes: its turn has no message and the message it found has no answer (SavesFit), and
a reply is there only together with its turn's answer (RepliesHaveTurns). WriteFits is
the step that writes: to the message found or to a new one, with or without another
save beside it.

InterviewEnds is about the other side of MCVoice, the session's records, for any
number of calls and failures. EndsInterview is nearly inductive: what it lacks is
that no step opens an interview again, and that the submit of a last turn ends the
row only once the interview is over (CallsOfSession). A row becomes COMPLETED under
a running interview only by end_session, which stays at its remaining commits until
the interview is over, or is cut off, which the property excepts.

### Services_proofs

| theorem | states | inductive invariant |
|---|---|---|
| RepliesNameOne | ServicesSpec => []RepliesAgree | CreationInv |
| SettingsNameProviders | ServicesSpec => []ReferencesHold | ProviderInv |
| SessionsEndForGood | ServicesSpec => SessionsStayEnded | AccountTypes |
| ChatsInOrder | ServicesSpec => []ChatsHold | ChatInv |
| WindowsHold | ServicesSpec => []LimitsHold | LimiterInv |
| SchedulesAreAsTold | ServicesSpec => []SchedulesHold | ScheduleInv |
| ProcessesHold | ServicesSpec => []ProcessHolds | StartInv, ProcessInv |
| PlansAreFull | ServicesSpec => []PlanIsFull | PlanInv |
| TypeCorrect | Spec => []TypeOK | IInv |
| OneTaskAtATime | Spec => RunsOneTask (refinement of GenerationTask) | IInv |

The last two are about QuestionGeneration by itself (Spec).

- CreationInv: an interview that a call, the cache or a reply names for a request
  was created, and for that request if requests force a new one (IsOf); while
  nothing lapsed, a call owns its request's lock, so what it read of the cache stays
  true until it replies (CallHolds). The unique request id gives the case in which
  the lock lapsed.
- ProviderInv: which locks a transaction holds at each of its steps. A deletion has
  its row FOR UPDATE and then both settings; a choice that names another provider
  has the row's key share. The two exclude each other on the row (RowsAreHad), which
  is why the check for references is still true when the row is deleted.
- SessionsStayEnded needs types only: every write of a session's state asks that it
  be live.
- ChatInv: the chat's lock is held by exactly the stream that is numbering, whose
  number is the count it read (ChatLocked). That the orders are the even numbers
  below twice the count is then an argument about cardinalities, from
  FiniteSetTheorems.
- LimiterInv: a bucket's tokens and permits add up to the limit, a permit that is no
  longer there is as old as a window less the delay a script may have, and no window
  holds more requests than the limit. The step that matters is the script letting
  one pass: the requests of the window are a subset of the permits that are left.
- ScheduleInv: what a request has read and will say of its row fits what is stored,
  with one request at a time and the hourly expiry beside it.
- StartInv: what a process has come to at each step rests on what is there (seeds
  read under the bootstrap lock are still the seeds; a process that runs found
  everything). ProcessInv: a waiting consumer has a message, none is left once the
  process closes, and a queued call is waited for by the consumer that submitted it.
- PlanInv: the plan and both answers are sequences. That a plan is full is decided
  in the step that fills up: what Unseen leaves of the fixed questions are all that
  the plan has not (the order it takes them in exists, OrderExists), so plan and
  rest together have at least as many members as there are fixed questions, and
  cutting at `count` leaves exactly as many as were asked for or all there are.

IInv of QuestionGeneration: the invariant is small, because every transition compares task id and status
under the row's lock: TypeOK, RowIsNamed (a row that is in a task names it),
CallsKnow and JobKnows (whoever marks a task as failed remembers an id). RowStep
lists what a step may do to the row (stay, create, move, end, break off, remove);
one lemma per actor shows that it does nothing else, and each of the six is a step
or a stutter of GenerationTask, whatever the age at the job's scan, the number of
attempts, or what the stream delivered again.

### Exchanges_proofs

| theorem | states |
|---|---|
| ExchangesAreMeant | MCSpec => []ExchangesHold |

For any values of the parameters of the five parts, from ExchangesAssumption, which is
the conjunction of their own assumptions. MCSpec runs one part at a time; the invariant
is the conjunction of one for each:

- SpeechInv, for any number of sentences, permits and connections. QueueInv: a task in
  the queue waits, and stands there once; MessageInv: a chunk sent is of a sentence
  already taken, and nothing follows what ends the reply; PairInv: of two chunks
  received, on whatever connections, the earlier is of the earlier sentence; HeardInv:
  while the client stays connected it has every sentence taken so far, and when the turn
  is over all of them and the end, or an error as the last it got. SpokenInOrder
  then follows from MessageInv and PairInv, HeardWhole from HeardInv. The sentences
  themselves are a lemma (SentencesAre): pieces between two pauses, disjoint, in order.
- ProxyInv, for any numbers of requests and messages. FaultInv: what is left of a
  fault is its count less the requests since. PumpInv: of a direction's messages the
  records are all that were read, or all but the last, which then was not passed on; this
  is where a pump that is cancelled while its thread still writes comes out.
  OrderInv: the records of a direction are in order, and none of a message that was
  passed on follows the close.
- ParseInv, for any number of dates: which rule finds an invitation depends on the text
  alone, and what the model's answer is used for could be created as a schedule.
- ReportInv: a report is the one made of the answers (MadeReport). All is in the
  lemmas about that function: a group's score is one that the model gave to that main
  question (ScoreIs), every mean is a sum divided and rounded down, those of the
  categories adding up to the overall one's sum but for what rounding lost
  (CategoriesAre, OverallIs), the view shows each question's own score (ShownIs), and of
  the points the first few of each wording are kept (PointsAre).
- SkillsInv: what is allocated and written is what the functions of the categories give
  (Allocated, Section). That shares are even goes along the function's recursion
  (GivenGoes): after m questions each category has the share of m that its turn gives it
  (SharesAre). That references fit: the shares of the budget add
  up to at most the budget (CutFits), and headings and separators were taken off
  before.

### Texts_proofs

| theorem | states |
|---|---|
| TextsAreKept | MCSpec => []TextsHold |

The two parts of MCModels that go through a text character by character, for any
values of their parameters (ExchangesAssumption); again one invariant for each:

- StructuredInv: what is meant is some strings, and MeantIsRead. It is inductive as
  it stands, because a call is one step; the work is in what that step computes of a
  text of any length. `Reaches` gives the writer of an answer states (between two
  strings, so far in one, behind a backslash, behind a string), and every text of
  Written is a way through them (WrittenReached). A reader who follows it agrees with
  the writer at each character (AgreesGoes, PlainReading), so only a whole answer is
  read to its end (DoneIsWhole). The repair follows the writer too, or has taken a
  quote for the end of its string because only blanks are left (RepairingGoes): in a
  clear text a quote the model left as it is is not followed by a closer, one that
  ends a string is (RawIsFollowed, CloseIsFollowed). Hence what is read of a
  beginning, repaired or not, is what was meant if it is whole, and nothing if it is
  not (ConvertedIsMeant).
- SplitInv, for a content of any length, any size of a chunk or batch and any limits:
  the tokens left are in line (Lined: each a character, half of one, or a mark with
  what shares its token, one behind the other), what was taken is everything before
  them in order but for the tails of the marks at which a chunk was cut (TakenSo,
  Dropped), each of it that is long enough is a
  piece, and what is stored of the pieces is the first of them with their own vectors
  (StoredSo). The step that matters is TakeChunk, which counts the tokens of the cut
  text by encoding it anew: what is decoded of tokens in line is encoded as they are
  (ReadBack), and a text cut at its last mark is that of some tokens and of the mark
  at least (MarksAre, CutIs), so the count is that of the tokens taken. A batch that
  comes back in any order is sorted right because an injection of some numbers into
  themselves that keeps their order is the identity (InOrder, OrderedIs).
  SplitAssumption asks for chunks and batches of at least one; `split_text` raises on
  less, and the batch is a constant of the module.

### Model-checked only

Every safety invariant and action property of the passing runs is a theorem. What is
left to TLC:

- Everything about liveness, and ENABLED: TurnsGetDecided, EvaluationsGetQueued,
  HandlersSettle, SessionsEnd, SubmitsAreServed, ServicesSettle.
- The five violations of section 11, which are counterexamples.

## 13 Plan

What would come next, most important first:

1. Trimming of a stream as a fault of `TaskStream`, and with it what a lost entry
   means to each handler.
2. A second file for `ResumeAnalysis`, two chats and two accounts, should the code
   begin to relate them.
3. `VoiceSocket` composed with `VoiceSession`: the pause for inactivity against a
   concurrent end, with the row as the modules' shared variable.

## 14 Not modelled

- Wording: prompts, titles, messages, the rendering of reports and exports.
- Calls into libraries: document parsing, PDF export, audio formats, HTTP,
  encryption of keys. Their failures are failing steps of the services that call
  them.
- `common/ai/providers.py` (LlmProviderRegistry), which only tests use beyond the
  bootstrap of the seed rows (`Startup`).
- APScheduler's trigger arithmetic and the shutdown of application and scheduler.
- Trimming of streams at STREAM_MAX_LEN, an XAUTOCLAIM cursor over more than one
  batch, malformed messages.
- Migrations (declarative; the constraints that transactions rely on are named in
  their modules), the frontend (its requests are the clients of the models), shell
  scripts, Compose files and the generators of reference files.
- Views and lists that no decision depends on.

"components" in `PROJECT.json` gives each part's status and reason.

--------------------------- MODULE MCTaskHandlers ---------------------------
(***************************************************************************)
(* The worker's task handlers in one run.  Their streams, rows and callers *)
(* are disjoint, so nothing one of them does can be seen by another: a     *)
(* behaviour is about one handler, chosen at the start, and the others'    *)
(* rows stay as they began.  The evaluation is the module extended here.   *)
(***************************************************************************)
EXTENDS InterviewEvaluation

CONSTANTS
  x1, w1, c1, c2,
  Keys,                                                 \* ResumeAnalysis
  VectorCalls, Jobs, NParts, AppCrashes, VectorFaults   \* Vectorization

VARIABLES
  handler,                                              \* whose behaviour it is
  analyzeStatus, storageKey, analyzed, objects,         \* ResumeAnalysis
  halfDeleted,
  vectorStatus, pending, visible, job                   \* Vectorization

Resumes == INSTANCE ResumeAnalysis
Vectors == INSTANCE Vectorization WITH Calls <- VectorCalls, MaxFaults <- VectorFaults

ASSUME HandlersAssumption == Resumes!ResumeAssumption

common     == <<handler, stream, call, faults>>
resumeRows == <<analyzeStatus, storageKey, analyzed, objects, halfDeleted>>
evalRows   == <<session, requeue>>
vectorRows == <<vectorStatus, pending, visible, job>>
all        == <<common, resumeRows, evalRows, vectorRows>>

HandlersInit ==
  /\ handler \in {"resumes", "evaluation", "vectors"}
  /\ analyzeStatus = [r \in Tasks |-> "NEW"]
  /\ storageKey = [r \in Tasks |-> None]
  /\ analyzed = {} /\ objects = {} /\ halfDeleted = {}
  /\ status = [s \in Tasks |-> "IN_PROGRESS"]
  /\ evalStatus = [s \in Tasks |-> None]
  /\ old = {} /\ requeue = {}
  /\ vectorStatus = [k \in Tasks |-> "NEW"]
  /\ pending = [k \in Tasks |-> {}] /\ visible = [k \in Tasks |-> {}]
  /\ job = [w \in Workers |-> None]
  /\ \/ handler = "resumes"    /\ Resumes!Init
     \/ handler = "evaluation" /\ Init
     \/ handler = "vectors"    /\ Vectors!Init

\* A step of one handler leaves the others' rows alone.
OfResumes ==
  handler = "resumes" /\ UNCHANGED <<handler, evalRows, vectorRows>>
OfEvaluation ==
  handler = "evaluation" /\ UNCHANGED <<handler, resumeRows, vectorRows>>
OfVectors ==
  handler = "vectors" /\ UNCHANGED <<handler, resumeRows, evalRows>>

HandlersNext ==
  \/ OfResumes    /\ Resumes!Next
  \/ OfEvaluation /\ Next
  \/ OfVectors    /\ Vectors!Next

\* The fairness of the handler the behaviour is about, as its module states it.
Served(c) ==
  \/ OfResumes    /\ Resumes!CallStep(c)
  \/ OfEvaluation /\ CallStep(c)
  \/ OfVectors    /\ c \in VectorCalls /\ Vectors!CallStep(c)

Works(w) ==
  \/ OfResumes    /\ Resumes!WorkerStep(w)
  \/ OfEvaluation /\ WorkerStep(w)
  \/ OfVectors    /\ Vectors!WorkerStep(w)

JobRuns    == OfEvaluation /\ (Scan \/ Requeue)
TimePasses == OfEvaluation /\ \E s \in Tasks : GrowsOld(s)

\* No two entries have the same id.
EntryWaits(i) ==
  \E m \in pel :
    /\ m.id = i
    /\ \/ OfResumes    /\ Resumes!EntryGrowsIdle(m)
       \/ OfEvaluation /\ EntryGrowsIdle(m)
       \/ OfVectors    /\ Vectors!EntryGrowsIdle(m)

HandlersSpec ==
  /\ HandlersInit /\ [][HandlersNext]_all
  /\ \A c \in Calls : WF_all(Served(c))
  /\ \A w \in Workers : WF_all(Works(w))
  /\ WF_all(JobRuns)
  /\ WF_all(TimePasses)
  /\ \A i \in Ids : WF_all(EntryWaits(i))

-----------------------------------------------------------------------------
\* Work shown as running is still owed by its stream with a single worker
\* (process_message, read_batch).
RunningIsOwed ==
  CASE handler = "resumes"    -> Resumes!AnalysisIsOwed
    [] handler = "evaluation" -> InterruptedWorkIsOwed
    [] handler = "vectors"    -> Vectors!InterruptedWorkIsOwed

\* A resume shown as analysed has an analysis, and one that is listed has its
\* file unless a deletion of that resume is under way or its transaction
\* failed (process, upload, delete).
ResumesHold == Resumes!CompletedHasAnalysis /\ Resumes!RowsHaveFiles

\* What a client asked of the worker comes to an end (see the property of the
\* same name in each handler's module).
HandlersSettle ==
  /\ EvaluationsSettle
  /\ Vectors!VectorizationsSettle
  /\ Resumes!AnalysesSettle
=============================================================================

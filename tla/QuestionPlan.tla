---------------------------- MODULE QuestionPlan ----------------------------
(***************************************************************************)
(* The planning of an interview's main questions                           *)
(* (InterviewQuestionService.generate): a resume adds a second model call  *)
(* next to the one for the interview's direction, either may fail, and     *)
(* fixed questions take the place of the ones that are missing.            *)
(*                                                                         *)
(* A question is its text: the n-th question of a model's answer, or a     *)
(* fixed text.  The texts of two answers differ, and from the fixed ones.  *)
(***************************************************************************)
EXTENDS Integers, Sequences, FiniteSetsExt

CONSTANTS MaxCount,        \* the largest question count asked for
          Labels,          \* labels of categories
          NoLabel,         \* a custom category without key or label
          MaxCategories    \* the most categories a skill has

PlanAssumption ==
  /\ MaxCount \in Nat \ {0}
  /\ MaxCategories \in Nat
  /\ NoLabel \notin Labels

VARIABLES
  count,       \* question_count
  asked,       \* the categories of the preset skill, or the custom ones
  categories,  \* the resolved skill's, by label
  hasResume,   \* a resume text that is not blank
  step,        \* the node of the graph, or the task awaited in it
  fromResume,  \* resume_task
  direction,   \* direction_task, or the call that stands alone
  plan

vars == <<count, asked, categories, hasResume, step, fromResume, direction, plan>>

\* A model call: its outcome so far, and the questions it answered.
Task(at, questions) == [at |-> at, questions |-> questions]
Idle    == Task("idle", <<>>)
Running == Task("running", <<>>)
Raised  == Task("raised", <<>>)

TypeOK ==
  /\ count \in 1 .. MaxCount
  /\ Range(categories) \subseteq Labels
  /\ hasResume \in BOOLEAN
  /\ step \in {"resolve", "provider", "resume", "direction", "alone",
               "merge", "topUp", "planned", "failed"}
  /\ {fromResume.at, direction.at} \subseteq {"idle", "running", "answered", "raised"}
  /\ Len(fromResume.questions) <= count
  /\ Len(direction.questions) <= count
  /\ Len(plan) <= count

Init ==
  /\ count \in 1 .. MaxCount
  /\ asked \in UNION {[1 .. n -> Labels \cup {NoLabel}] : n \in 0 .. MaxCategories}
  /\ hasResume \in BOOLEAN
  /\ categories = <<>>
  /\ step = "resolve"
  /\ fromResume = Idle
  /\ direction = Idle
  /\ plan = <<>>

-----------------------------------------------------------------------------
\* Six texts, once as they are and once with a plea for another example.
GenericText(i) == IF i < 6 THEN i ELSE 6 + (i % 6)

\* _fallback_questions: question i of n.
FixedText(i) ==
  IF categories = <<>>
  THEN [by |-> "generic", n |-> GenericText(i)]
  ELSE [by |-> "category", n |-> categories[1 + (i % Len(categories))]]

Fixed(n) == [i \in 1 .. n |-> FixedText(i - 1)]

\* _convert and _cap: at most n of the usable questions, none perhaps.
Answers(by, n) == {[i \in 1 .. k |-> [by |-> by, n |-> i]] : k \in 0 .. n}

\* _generate_resume
ResumeOutcomes(n) ==
  {Task("answered", qs) : qs \in Answers("resume", n)} \cup {Raised}

\* _generate_direction: no usable question and any exception but the model
\* call's own leave the fixed questions.
DirectionOutcomes(n) ==
  {Task("answered", qs) : qs \in (Answers("direction", n) \ {<<>>}) \cup {Fixed(n)}}
    \cup {Raised}

\* Six tenths of the questions, rounded, and one at the least.
ResumeCount    == IF hasResume THEN Max({1, (6 * count + 5) \div 10}) ELSE 0
DirectionCount == count - ResumeCount

-----------------------------------------------------------------------------
\* _resolve_skill_node: custom categories need a key and a label.
Resolve ==
  /\ step = "resolve"
  /\ categories' = SelectSeq(asked, LAMBDA label : label # NoLabel)
  /\ step' = "provider"
  /\ UNCHANGED <<count, asked, hasResume, fromResume, direction, plan>>

\* _generate_node: with a resume both calls run, else one.
Generate ==
  /\ step = "provider"
  /\ direction' = Running
  /\ IF hasResume
     THEN fromResume' = Running /\ step' = "resume"
     ELSE step' = "alone" /\ UNCHANGED fromResume
  /\ UNCHANGED <<count, asked, categories, hasResume, plan>>

\* The user's provider is not usable.
NoProvider ==
  /\ step = "provider"
  /\ step' = "failed"
  /\ UNCHANGED <<count, asked, categories, hasResume, fromResume, direction, plan>>

ResumeEnds ==
  /\ fromResume = Running
  /\ fromResume' \in ResumeOutcomes(ResumeCount)
  /\ UNCHANGED <<count, asked, categories, hasResume, step, direction, plan>>

\* Alone, without a resume or after its call failed, it asks for them all.
DirectionEnds ==
  /\ direction = Running
  /\ direction' \in DirectionOutcomes(IF step = "alone" THEN count ELSE DirectionCount)
  /\ UNCHANGED <<count, asked, categories, hasResume, step, fromResume, plan>>

\* The resume's call is awaited first; if it failed the other one is
\* cancelled, ended or not, and begun anew.
AwaitResume ==
  /\ step = "resume"
  /\ fromResume.at \in {"answered", "raised"}
  /\ IF fromResume = Raised
     THEN direction' = Running /\ step' = "alone"
     ELSE step' = "direction" /\ UNCHANGED direction
  /\ UNCHANGED <<count, asked, categories, hasResume, fromResume, plan>>

\* A direction that failed leaves the resume's questions, or the fixed ones.
AwaitDirection ==
  /\ step = "direction"
  /\ direction.at \in {"answered", "raised"}
  /\ IF direction # Raised
     THEN step' = "merge" /\ UNCHANGED plan
     ELSE /\ plan' = IF fromResume.questions # <<>>
                     THEN fromResume.questions ELSE Fixed(count)
          /\ step' = "topUp"
  /\ UNCHANGED <<count, asked, categories, hasResume, fromResume, direction>>

\* Its own failure ends the request.
AwaitAlone ==
  /\ step = "alone"
  /\ direction.at \in {"answered", "raised"}
  /\ IF direction = Raised
     THEN step' = "failed" /\ UNCHANGED plan
     ELSE step' = "topUp" /\ plan' = direction.questions
  /\ UNCHANGED <<count, asked, categories, hasResume, fromResume, direction>>

\* _merge_node
Merge ==
  /\ step = "merge"
  /\ LET both == fromResume.questions \o direction.questions
     IN  plan' = IF both = <<>> THEN Fixed(count) ELSE both
  /\ step' = "topUp"
  /\ UNCHANGED <<count, asked, categories, hasResume, fromResume, direction>>

\* What of a sequence is not in the plan, in its order (SelectSeq, in a form
\* that can be reasoned about).
Unseen(s) ==
  LET at == {i \in DOMAIN s : s[i] \notin Range(plan)}
      order == CHOOSE o \in [1 .. Cardinality(at) -> at] : \A j, k \in DOMAIN o : j < k => o[j] < o[k]
  IN  [k \in DOMAIN order |-> s[order[k]]]

\* generate: a plan too short is filled with fixed questions not in it.
\* Fault: only as many of them are looked at as questions are missing.
FillersMissing == Unseen(Fixed(count - Len(plan)))
Fillers        == Unseen(Fixed(count))

TopUp ==
  /\ step = "topUp"
  /\ LET filled == IF Len(plan) < count THEN plan \o Fillers ELSE plan
     IN  plan' = SubSeq(filled, 1, Min({count, Len(filled)}))
  /\ step' = "planned"
  /\ UNCHANGED <<count, asked, categories, hasResume, fromResume, direction>>

Next ==
  \/ Resolve \/ Generate \/ NoProvider
  \/ ResumeEnds \/ DirectionEnds
  \/ AwaitResume \/ AwaitDirection \/ AwaitAlone
  \/ Merge \/ TopUp

Spec == Init /\ [][Next]_vars

-----------------------------------------------------------------------------
(* Safety                                                                  *)

\* Whatever of the two calls fails, an interview gets a question at least and
\* never more than asked for; it gets fewer only if every fixed question of
\* its skill is among them already (generate).
PlanIsFull ==
  step = "planned" =>
    /\ Len(plan) \in 1 .. count
    /\ Len(plan) < count => Range(Fixed(count)) \subseteq Range(plan)
=============================================================================

--------------------------- MODULE EvaluationReport ---------------------------
(***************************************************************************)
(* The report made of an evaluation (UnifiedEvaluationService): the model  *)
(* is sent the main questions that have an answer, each with its            *)
(* follow-ups, and may leave some out of what it returns, repeat them, mix  *)
(* them up or invent others.  And the view of an interview, which is made   *)
(* of the saved report and the questions (InterviewService.detail).         *)
(***************************************************************************)
EXTENDS Integers, Sequences, FiniteSetsExt

CONSTANTS NMains, MaxFollowUps,
          Scores,     \* some of 0 .. 100
          NLabels,    \* categories
          MaxGroups, MaxTurns, MaxPoints,  \* of what the model returns
          MaxKept     \* strengths and improvements kept: 8

ReportAssumption ==
  /\ {NMains, MaxFollowUps, NLabels, MaxGroups, MaxTurns, MaxPoints, MaxKept} \subseteq Nat
  /\ Scores \subseteq Nat

VARIABLES
  followUps,  \* main question -> its follow-ups
  category,   \* main question -> its category
  answered,   \* questions with a turn
  groups,     \* of the model: groups with their turns
  points,     \* of the model: strengths, or improvements
  report      \* the saved report, <<>> before

vars == <<followUps, category, answered, groups, points, report>>

Mains  == 1 .. NMains
Labels == 1 .. NLabels
\* A main question is its own number 0.
Questions == {<<m, i>> : m \in Mains, i \in 0 .. MaxFollowUps}
Asked     == {q \in Questions : q[2] <= followUps[q[1]]}
Before(q, r) == q[1] < r[1] \/ (q[1] = r[1] /\ q[2] < r[2])

TurnsOf == [question: Questions, score: Scores]
GroupsOf == [order: 1 .. NMains + 1, score: Scores,
             turns: UNION {[1 .. n -> TurnsOf] : n \in 0 .. MaxTurns}]
Points  == {"one", "other", "blank"}

Init ==
  /\ followUps \in [Mains -> 0 .. MaxFollowUps]
  /\ category \in [Mains -> Labels]
  \* Answered in order, up to where the interview was ended; the decision on
  \* an answer asks a follow-up.
  /\ answered \in SUBSET Asked
  /\ \A q \in answered, r \in Asked : Before(r, q) => r \in answered
  /\ \A m \in Mains : followUps[m] > 0 => <<m, followUps[m] - 1>> \in answered
  /\ groups \in UNION {[1 .. n -> GroupsOf] : n \in 0 .. MaxGroups}
  /\ points \in UNION {[1 .. n -> Points] : n \in 0 .. MaxPoints}
  /\ groups # <<>> => points = <<>>
  /\ report = <<>>

-----------------------------------------------------------------------------
InOrder(K) ==
  CHOOSE o \in [1 .. Cardinality(K) -> K] : \A i, j \in DOMAIN o : i < j => o[i] < o[j]

\* _answered_groups
AnsweredMains == {m \in Mains : \E q \in answered : q[1] = m}
Answered      == InOrder(AnsweredMains)

\* What the model says of a group, or of a question within the group: the
\* last of several counts.  Fault: it is taken by its place.
LastOf(seq, at) == IF at = {} THEN <<>> ELSE <<seq[Max(at)]>>
AtPlace(m)   == IF m \in DOMAIN groups THEN <<groups[m]>> ELSE <<>>
Evaluated(m) == LastOf(groups, {k \in DOMAIN groups : groups[k].order = m})

ScoreOf(found) == IF found = <<>> THEN 0 ELSE found[1].score

\* Of the values of some of 1 .. n.
SumTo(n, value) ==
  LET upto[k \in 0 .. n] ==
        IF k = 0 THEN 0 ELSE upto[k - 1] + (IF k \in DOMAIN value THEN value[k] ELSE 0)
  IN  upto[n]

\* Integer division, as int() of the mean
Mean(score) == SumTo(NMains, score) \div Cardinality(DOMAIN score)

\* One group of the report
GroupReport(m) ==
  LET found == Evaluated(m)
      turns == IF found = <<>> THEN <<>> ELSE found[1].turns
  IN  [main    |-> m,
       score   |-> ScoreOf(found),
       details |-> [q \in {q \in Asked : q[1] = m} |->
                      ScoreOf(LastOf(turns, {k \in DOMAIN turns : turns[k].question = q}))]]

\* _unique: the first of each, in their order
Unique(values) ==
  LET first == {k \in DOMAIN values : /\ values[k] # "blank"
                                      /\ \A j \in 1 .. k - 1 : values[j] # values[k]}
      order == InOrder(first)
  IN  [i \in 1 .. Min({MaxKept, Cardinality(first)}) |-> values[order[i]]]

\* _report; without an answer the model is not asked.
Evaluate ==
  /\ report = <<>>
  /\ LET of(l)     == {m \in AnsweredMains : category[m] = l}
         scored(S) == [m \in S |-> GroupReport(m).score]
     IN  report' =
       <<[groups     |-> [k \in DOMAIN Answered |-> GroupReport(Answered[k])],
          overall    |-> IF AnsweredMains = {} THEN 0 ELSE Mean(scored(AnsweredMains)),
          categories |-> [l \in {category[m] : m \in AnsweredMains} |->
                            [score |-> Mean(scored(of(l))), count |-> Cardinality(of(l))]],
          strengths  |-> IF AnsweredMains = {} THEN <<>> ELSE Unique(points)]>>
  /\ UNCHANGED <<followUps, category, answered, groups, points>>

Next == Evaluate
Spec == Init /\ [][Next]_vars

\* detail: the score shown with a question
Shown(q) ==
  LET of == {k \in DOMAIN report[1].groups : q \in DOMAIN report[1].groups[k].details}
  IN  IF of = {} THEN 0 ELSE report[1].groups[CHOOSE k \in of : TRUE].details[q]

-----------------------------------------------------------------------------
TypeOK == report # <<>> => report[1].overall \in 0 .. Max(Scores \cup {0})

\* Every answered main question is in the report once, in the order of the
\* interview and with a score that the model gave to it and to no other, or 0;
\* every question is shown with its own score; the means agree with one
\* another and with the scores to rounding (_report, detail).
ReportIsOfTheAnswers ==
  report # <<>> =>
    LET r == report[1]
        n == Len(r.groups)
        scores == SumTo(n, [k \in 1 .. n |-> r.groups[k].score])
        of     == r.categories
        shares == SumTo(NLabels, [l \in DOMAIN of |-> of[l].score * of[l].count])
        said   == {points[k] : k \in DOMAIN points} \ {"blank"}
        kept   == {r.strengths[k] : k \in DOMAIN r.strengths}
        Given(m, s) == \E k \in DOMAIN groups : groups[k].order = m /\ groups[k].score = s
    IN  /\ \A q \in answered : \E k \in 1 .. n : r.groups[k].main = q[1]
        /\ \A k \in 1 .. n :
             LET g == r.groups[k]
             IN  /\ \E q \in answered : q[1] = g.main
                 /\ k > 1 => r.groups[k - 1].main < g.main
                 /\ Given(g.main, g.score) \/ (g.score = 0 /\ \A s \in Scores : ~Given(g.main, s))
        /\ SumTo(NLabels, [l \in DOMAIN of |-> of[l].count]) = n
        /\ n * r.overall <= scores /\ (n > 0 => scores < n * (r.overall + 1))
        /\ shares <= scores /\ (n > 0 => scores < shares + n)
        /\ \A q \in Asked :
             \/ \E k \in DOMAIN groups : \E j \in DOMAIN groups[k].turns :
                  groups[k].order = q[1] /\ groups[k].turns[j] = [question |-> q, score |-> Shown(q)]
             \/ Shown(q) = 0
        /\ \A i, j \in DOMAIN r.strengths : i # j => r.strengths[i] # r.strengths[j]
        /\ kept \subseteq said
        /\ n > 0 /\ Cardinality(said) <= MaxKept => said = kept
=============================================================================

---------------------------- MODULE SkillReferences ----------------------------
(***************************************************************************)
(* What a skill brings to the planning of an interview                     *)
(* (InterviewSkillLibrary): how many questions each of its categories gets, *)
(* and the reference files that go into the prompt, cut to the space there  *)
(* is, and to a question afterwards.  A file is its length and the place    *)
(* where it lies.                                                          *)
(***************************************************************************)
EXTENDS Integers, Sequences, FiniteSetsExt

CONSTANTS MaxTotal,       \* questions asked for
          MaxCategories,
          Header, Marker, \* lengths of a reference's heading and of the mark of a cut
          MaxSection,     \* MAX_REFERENCE_SECTION_CHARS
          MaxSingle       \* MAX_SINGLE_REFERENCE_CHARS

SkillsAssumption ==
  {MaxTotal, MaxCategories, Header, Marker, MaxSection, MaxSingle} \subseteq Nat

VARIABLES
  custom,      \* the skill is made of the client's categories
  categories,  \* in order
  total,
  files,       \* place -> length of the file a category names there, 0 without
  allocation,  \* key -> questions, <<>> before
  section      \* the references' part of the prompt, <<>> before

vars == <<custom, categories, total, files, allocation, section>>

Places == {"own", "shared", "other"}
Keys   == 1 .. MaxCategories
\* `mapped`: a custom category whose key a preset skill uses with a file.
Category == [key: Keys, priority: {"ALWAYS_ONE", "CORE", "NORMAL"},
             shared: BOOLEAN, mapped: BOOLEAN]

\* Keys may repeat: what is not a letter or digit of a custom key is replaced.
Init ==
  /\ custom \in BOOLEAN
  /\ categories \in UNION {[1 .. n -> Category] : n \in 1 .. MaxCategories}
  /\ \A k \in DOMAIN categories :
       /\ categories[k].key \in {k, 1}
       /\ categories[k].mapped = (custom /\ k = 1)
       /\ categories[k].shared => k = 1
  /\ ~custom => \A k \in DOMAIN categories : categories[k].key = k
  /\ total \in 1 .. MaxTotal
  /\ files \in [Places -> {0, 2, MaxSingle + 1}]
  /\ allocation = <<>> /\ section = <<>>

\* Some of the categories, in their order.
InOrder(K) ==
  CHOOSE o \in [1 .. Cardinality(K) -> K] : \A i, j \in DOMAIN o : i < j => o[i] < o[j]
Those(K) == [i \in DOMAIN InOrder(K) |-> categories[InOrder(K)[i]]]

SumTo(n, value) ==
  LET upto[k \in 0 .. n] ==
        IF k = 0 THEN 0 ELSE upto[k - 1] + (IF k \in DOMAIN value THEN value[k] ELSE 0)
  IN  upto[n]

-----------------------------------------------------------------------------
(* allocation                                                              *)

OfPriority(p) == Those({k \in DOMAIN categories : categories[k].priority = p})
Always == OfPriority("ALWAYS_ONE")
\* The order in which the others get a question, again and again.
Rounds == OfPriority("CORE") \o OfPriority("NORMAL")

\* Fault: a round is finished although no question is left.
WholeRounds ==
  LET left == total - Len(Always)
  IN  IF Rounds = <<>> \/ left <= 0 THEN Min({total, Len(Always)})
      ELSE Len(Always) + Len(Rounds) * ((left + Len(Rounds) - 1) \div Len(Rounds))
Given == IF Rounds = <<>> THEN Min({total, Len(Always)}) ELSE total

Turn(k) == IF k <= Len(Always) THEN Always[k] ELSE Rounds[((k - Len(Always) - 1) % Len(Rounds)) + 1]

\* A category's first question is set, and any more are added.
Allocated ==
  LET given[n \in 0 .. Given] ==
        IF n = 0 THEN [k \in Keys |-> 0]
        ELSE [given[n - 1] EXCEPT ![Turn(n).key] =
                IF n <= Len(Always) + Len(Rounds) THEN 1 ELSE @ + 1]
  IN  given[Given]

Allocate ==
  /\ allocation = <<>>
  /\ allocation' = Allocated
  /\ UNCHANGED <<custom, categories, total, files, section>>

-----------------------------------------------------------------------------
(* _load_reference                                                         *)

\* Where a category's file is looked for, in order.  A custom skill has no
\* directory of its own; all skills are searched in their order for it, and
\* for a file that is shared.
Locations(c) ==
  LET own  == IF custom /\ (c.shared \/ ~c.mapped) THEN <<>> ELSE <<"own">>
      near == IF c.shared THEN <<"shared">> \o own ELSE own \o <<"shared">>
  IN  near \o (IF custom \/ c.shared THEN <<"other", "own">> ELSE <<>>)

Found(c) == {i \in DOMAIN Locations(c) : files[Locations(c)[i]] > 0}
Place(c) == Locations(c)[Min(Found(c))]
Loaded(c) ==
  IF Found(c) = {} THEN 0
  ELSE IF files[Place(c)] > MaxSingle THEN MaxSingle + Marker ELSE files[Place(c)]

-----------------------------------------------------------------------------
(* _reference_section, _truncate_reference, _attach_question_reference     *)

\* Of the length of the budget, unless the cut falls behind a blank.
Truncated(length, budget) == IF length <= budget THEN length ELSE budget

\* Headings and contents, with an empty line between two of them.
LengthOf(parts) ==
  2 * (Len(parts) - 1) + SumTo(Len(parts), [k \in DOMAIN parts |-> Header + parts[k].length])

Section(included) ==
  LET found  == Those({k \in DOMAIN categories :
                         categories[k].key \in included /\ Loaded(categories[k]) > 0})
      parts  == [k \in DOMAIN found |-> [key |-> found[k].key, length |-> Loaded(found[k])]]
      budget == MaxSection - 2 * (Len(parts) - 1) - Header * Len(parts)
      share(k) == budget \div Len(parts) + (IF k <= budget % Len(parts) THEN 1 ELSE 0)
  IN  IF parts = <<>> \/ LengthOf(parts) <= MaxSection
      THEN [parts |-> parts, cut |-> FALSE]
      ELSE IF budget <= 0
      THEN [parts |-> parts, cut |-> TRUE]
      ELSE [parts |-> [k \in DOMAIN parts |->
                         [parts[k] EXCEPT !.length = Truncated(@, share(k))]],
            cut   |-> FALSE]

\* generation_reference_section
Describe ==
  /\ allocation # <<>> /\ section = <<>>
  /\ section' = <<Section({k \in DOMAIN allocation : allocation[k] > 0})>>
  /\ UNCHANGED <<custom, categories, total, files, allocation>>

\* A question without a context of its own gets the file of the first category
\* that has its type for a key or is one of `named`, those that have its
\* category for a label; 0 without a file.
Attached(type, named) ==
  LET matching == named \cup {k \in DOMAIN categories : categories[k].key = type}
      first    == categories[Min(matching)]
  IN  IF matching = {} \/ Loaded(first) = 0 THEN 0 ELSE Truncated(Header + Loaded(first), MaxSingle)

Next == Allocate \/ Describe
Spec == Init /\ [][Next]_vars

-----------------------------------------------------------------------------
KeysDiffer == \A i, j \in DOMAIN categories : i # j => categories[i].key # categories[j].key
RankOf(k)  == CHOOSE i \in DOMAIN Rounds : Rounds[i].key = k

\* When no two keys are alike every question asked for is given to a category
\* if one may have more than one, evenly and the core ones first; without such
\* a category each one has at most its one (allocation).
SharesAreEven ==
  allocation # <<>> /\ KeysDiffer =>
    LET n     == Len(Rounds)
        left  == Max({0, total - Len(Always)})
    IN  /\ SumTo(MaxCategories, allocation) = IF n > 0 THEN total ELSE Min({total, Len(Always)})
        /\ \A i \in DOMAIN Rounds :
             allocation[Rounds[i].key] = left \div n + (IF i <= left % n THEN 1 ELSE 0)
        /\ \A i \in DOMAIN Always : allocation[Always[i].key] = IF i <= total THEN 1 ELSE 0

\* The references never take more space than they may, are cut only if they
\* would, and then every category asked about keeps its part; a skill's own
\* file comes before any other's (_reference_section, _load_reference).
ReferencesFit ==
  section # <<>> =>
    LET s == section[1]
        wanted == Those({k \in DOMAIN categories :
                           allocation[categories[k].key] > 0 /\ Loaded(categories[k]) > 0})
    IN  /\ s.cut \/ LengthOf(s.parts) <= MaxSection \/ s.parts = <<>>
        /\ Len(s.parts) = Len(wanted)
        /\ \A k \in DOMAIN s.parts : s.parts[k].key = wanted[k].key
        /\ \A i \in DOMAIN categories : ~categories[i].shared /\ ~custom =>
             /\ files["own"] > 0 => Found(categories[i]) # {} /\ Place(categories[i]) = "own"
             /\ Found(categories[i]) = {} \/ Place(categories[i]) # "other"
        /\ \A k \in Keys, named \in SUBSET DOMAIN categories : Attached(k, named) <= MaxSingle

SkillsHold == SharesAreEven /\ ReferencesFit
=============================================================================

-------------------------- MODULE MCInterviewTurn --------------------------
(* Small instances of InterviewTurn for TLC.                               *)
EXTENDS InterviewTurn, TLC

CONSTANTS s1, s2, c1, c2, r1, r2, a1, a2

\* Calls, requestIds and answers are interchangeable in every safety run.
Symmetry == Permutations(Calls) \cup Permutations(Requests)
              \cup Permutations(Answers)
=============================================================================

--------------------------- MODULE InterviewPath ---------------------------
(***************************************************************************)
(* What an adaptive interview promises, with no calls, leases, retries or  *)
(* recovery: a session walks along its questions, one irrevocable decision *)
(* per answered question, until it is closed or removed.                   *)
(***************************************************************************)
EXTENDS Naturals

CONSTANTS Sessions, NMains, MaxFollowUps, None

Mains     == 0 .. (NMains - 1)
Questions == Mains \X (0 .. MaxFollowUps)

VARIABLES life,      \* session -> "open", "closed" or "gone"
          at,        \* session -> the question it stands on
          decision   \* session -> question -> the decision taken there

path == <<life, at, decision>>

Init ==
  /\ life = [s \in Sessions |-> "open"]
  /\ at = [s \in Sessions |-> <<0, 0>>]
  /\ decision = [s \in Sessions |-> [q \in Questions |-> None]]

\* The question a decision leads to, if the interview has such a question.
Step(q, d) ==
  CASE d = "FOLLOW_UP" -> <<q[1], q[2] + 1>>
    [] d = "NEXT_MAIN" -> <<q[1] + 1, 0>>
    [] OTHER           -> None

\* A turn is decided: the session moves to an undecided question ...
Move(s, d) ==
  /\ life[s] = "open"
  /\ decision[s][at[s]] = None
  /\ Step(at[s], d) \in Questions
  /\ decision[s][Step(at[s], d)] = None
  /\ decision' = [decision EXCEPT ![s][at[s]] = d]
  /\ at' = [at EXCEPT ![s] = Step(at[s], d)]
  /\ UNCHANGED life

\* ... or, on the last main question, ends the interview.
Finish(s) ==
  /\ life[s] = "open"
  /\ at[s][1] + 1 \notin Mains
  /\ decision[s][at[s]] = None
  /\ decision' = [decision EXCEPT ![s][at[s]] = "COMPLETE"]
  /\ at' = [at EXCEPT ![s] = None]
  /\ life' = [life EXCEPT ![s] = "closed"]

\* The user ends it early.
Close(s) ==
  /\ life[s] = "open"
  /\ life' = [life EXCEPT ![s] = "closed"]
  /\ at' = [at EXCEPT ![s] = None]
  /\ UNCHANGED decision

Remove(s) ==
  /\ life[s] # "gone"
  /\ life' = [life EXCEPT ![s] = "gone"]
  /\ at' = [at EXCEPT ![s] = None]
  /\ decision' = [decision EXCEPT ![s] = [q \in Questions |-> None]]

Next == \E s \in Sessions :
  \/ \E d \in {"FOLLOW_UP", "NEXT_MAIN"} : Move(s, d)
  \/ Finish(s) \/ Close(s) \/ Remove(s)

Spec == Init /\ [][Next]_path
=============================================================================

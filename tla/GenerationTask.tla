--------------------------- MODULE GenerationTask ---------------------------
(***************************************************************************)
(* What the question generation of a knowledge base promises, with no      *)
(* messages, attempts, retries or recovery: one task at a time is asked    *)
(* for; it ends once, in questions that replace the earlier ones or in a   *)
(* failure that leaves them alone; and an ended task stays ended.          *)
(***************************************************************************)
CONSTANTS Tasks, None

VARIABLES state,   \* "none", "asked", "done", "failed" or "removed"
          task,    \* the task last asked for
          saved    \* the task the stored questions come from

task_vars == <<state, task, saved>>

Init == state = "none" /\ task = None /\ saved = None

Ask(t) ==
  /\ state \in {"none", "done", "failed"}
  /\ t # task
  /\ state' = "asked"
  /\ task' = t
  /\ UNCHANGED saved

Succeed ==
  /\ state = "asked"
  /\ state' = "done"
  /\ saved' = task
  /\ UNCHANGED task

Fail ==
  /\ state = "asked"
  /\ state' = "failed"
  /\ UNCHANGED <<task, saved>>

Remove ==
  /\ state # "removed"
  /\ state' = "removed"
  /\ task' = None
  /\ saved' = None

Next == (\E t \in Tasks : Ask(t)) \/ Succeed \/ Fail \/ Remove

Spec == Init /\ [][Next]_task_vars
=============================================================================

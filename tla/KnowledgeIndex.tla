--------------------------- MODULE KnowledgeIndex ---------------------------
(***************************************************************************)
(* What the vector index of knowledge bases promises to a search, with no  *)
(* messages, batches, retries or clean-up: a knowledge base has no vectors *)
(* or those of one complete vectorization, which another one replaces at   *)
(* once; nothing is indexed for a knowledge base that was removed.         *)
(***************************************************************************)
CONSTANTS Tasks, Jobs, None

VARIABLES index,   \* knowledge base -> the vectorization a search finds
          gone     \* knowledge bases removed

Init ==
  /\ index = [k \in Tasks |-> None]
  /\ gone = {}

Replace(k, j) ==
  /\ k \notin gone
  /\ index' = [index EXCEPT ![k] = j]
  /\ UNCHANGED gone

Remove(k) ==
  /\ k \notin gone
  /\ gone' = gone \cup {k}
  /\ UNCHANGED index

Purge(k) ==
  /\ k \in gone
  /\ index' = [index EXCEPT ![k] = None]
  /\ UNCHANGED gone

Next == \E k \in Tasks :
  \/ \E j \in Jobs : Replace(k, j)
  \/ Remove(k)
  \/ Purge(k)

Spec == Init /\ [][Next]_<<index, gone>>
=============================================================================

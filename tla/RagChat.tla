------------------------------ MODULE RagChat ------------------------------
(***************************************************************************)
(* A chat about knowledge bases (RagChatRepository, rag_chat_api.py): its  *)
(* row, its links to knowledge bases, and its messages, one question and   *)
(* one answer for each stream.  Transactions are READ COMMITTED; their     *)
(* statements are steps where another transaction may come between them.   *)
(* The title, the pin and what the messages say are left out.              *)
(***************************************************************************)
EXTENDS Integers, FiniteSets

CONSTANTS Streams,     \* questions asked, each with the stream of its answer
          Calls,       \* other API requests being served at once
          Bases,       \* knowledge bases
          None,
          MaxHistory   \* history_max_messages

ChatAssumption == None \notin Streams /\ MaxHistory \in Nat

VARIABLES
  chat,     \* the row: whether it exists, its count of messages, its lock
  links,    \* knowledge bases it is linked to
  asked,    \* streams whose question and answer have their rows
  stream,   \* stream -> its step, the order of its question, its history
  edit      \* API request -> its step, the rows it saw, deleted, and writes

vars == <<chat, links, asked, stream, edit>>

Unasked == [pc |-> "new", order |-> 0, history |-> {}]
Idle    == [pc |-> "idle", seen |-> {}, dead |-> {}, gone |-> {}, new |-> {}]

Orders == 0..(2 * Cardinality(Streams) - 1)

TypeOK ==
  /\ chat \in [row: {"none", "some", "deleted"}, count: Nat, lock: Streams \cup {None}]
  /\ links \subseteq Bases
  /\ asked \subseteq Streams
  /\ stream \in [Streams -> [pc: {"new", "locked", "asked", "open", "answered", "left"},
                             order: Orders, history: SUBSET Orders]]
  /\ edit \in [Calls -> [pc: {"idle", "relink", "linked", "erase", "erased"},
                         seen: SUBSET Bases, dead: SUBSET Bases,
                         gone: SUBSET Streams, new: SUBSET Bases]]

Init ==
  /\ chat = [row |-> "none", count |-> 0, lock |-> None]
  /\ links = {}
  /\ asked = {}
  /\ stream = [s \in Streams |-> Unasked]
  /\ edit = [c \in Calls |-> Idle]

\* What is gathered for the model goes with the stream.
StreamTo(s, from, to) ==
  /\ stream[s].pc = from
  /\ stream' = [stream EXCEPT ![s] = [@ EXCEPT !.pc = to, !.history = {}]]
Ends(c)               == edit' = [edit EXCEPT ![c] = Idle]

\* create_session
Create(K) ==
  /\ chat.row = "none"
  /\ chat' = [chat EXCEPT !.row = "some"]
  /\ links' = K
  /\ UNCHANGED <<asked, stream, edit>>

-----------------------------------------------------------------------------
(* send_message_stream                                                     *)

\* Fault: the row is read without FOR UPDATE.
Always == TRUE
Unlocked == chat.lock = None

LockChat(s) ==
  /\ chat.row = "some"
  /\ Unlocked
  /\ stream[s].pc = "new"
  /\ stream' = [stream EXCEPT ![s] = [@ EXCEPT !.pc = "locked", !.order = chat.count]]
  /\ chat' = [chat EXCEPT !.lock = s]
  /\ UNCHANGED <<links, asked, edit>>

\* The rest of prepare_stream_message, and its commit.
Ask(s) ==
  /\ chat.row = "some"
  /\ StreamTo(s, "locked", "asked")
  /\ asked' = asked \cup {s}
  /\ chat' = [chat EXCEPT !.count = stream[s].order + 2, !.lock = None]
  /\ UNCHANGED <<links, edit>>

\* The completed messages: every question and the answers that have ended.
Completed ==
  {stream[s].order : s \in asked}
    \cup {stream[s].order + 1 : s \in {q \in asked : stream[q].pc = "answered"}}

\* stream_context: the newest messages, less the newest of them.
History ==
  LET Later(o) == Cardinality({p \in Completed : p > o})
  IN  {o \in Completed : Later(o) \in 1..MaxHistory}

OpenStream(s) ==
  /\ stream[s].pc = "asked"
  /\ stream' = [stream EXCEPT ![s] =
       IF chat.row = "some" THEN [@ EXCEPT !.pc = "open", !.history = History]
                            ELSE [@ EXCEPT !.pc = "left"]]
  /\ UNCHANGED <<chat, links, asked, edit>>

\* The stream ends or fails: either way what came of the answer is kept, if its
\* row is still there; a row that is being deleted is waited for.
Complete(s) ==
  /\ \A c \in Calls : s \notin edit[c].gone
  /\ IF s \in asked THEN StreamTo(s, "open", "answered") ELSE StreamTo(s, "open", "left")
  /\ UNCHANGED <<chat, links, asked, edit>>

\* The client goes, or the process does: the answer stays incomplete.  A
\* transaction that was under way is undone.
Leave(s) ==
  /\ stream[s].pc \in {"locked", "asked", "open"}
  /\ StreamTo(s, stream[s].pc, "left")
  /\ chat' = [chat EXCEPT !.lock = IF @ = s THEN None ELSE @]
  /\ UNCHANGED <<links, asked, edit>>

-----------------------------------------------------------------------------
(* update_knowledge_bases and delete_session                               *)

\* The first DELETE sees the links of this moment; a link that another
\* transaction has deleted is waited for.
Begin(c, pc, K) ==
  /\ chat.row = "some"
  /\ edit[c] = Idle
  /\ edit' = [edit EXCEPT ![c] = [@ EXCEPT !.pc = pc, !.seen = links, !.new = K]]
  /\ UNCHANGED <<chat, links, asked, stream>>

NotDead(c, K) == \A d \in Calls \ {c} : edit[d].dead \cap K = {}

DeleteLinks(c) ==
  /\ edit[c].pc = "relink"
  /\ NotDead(c, edit[c].seen)
  /\ edit' = [edit EXCEPT ![c] = [@ EXCEPT !.pc = "linked", !.seen = {},
                                           !.dead = edit[c].seen \cap links]]
  /\ UNCHANGED <<chat, links, asked, stream>>

\* A link that is there already, or a chat that is gone, undoes it all.
InsertLinks(c) ==
  LET left == links \ edit[c].dead
  IN  /\ edit[c].pc = "linked"
      /\ chat.lock = None
      /\ NotDead(c, edit[c].new)
      /\ links' = IF chat.row = "some" /\ left \cap edit[c].new = {}
                  THEN left \cup edit[c].new
                  ELSE links
      /\ Ends(c)
      /\ UNCHANGED <<chat, asked, stream>>

DeleteRows(c) ==
  /\ edit[c].pc = "erase"
  /\ NotDead(c, edit[c].seen)
  /\ \A d \in Calls : edit[d].gone \cap asked = {}
  /\ edit' = [edit EXCEPT ![c] = [@ EXCEPT !.pc = "erased", !.seen = {},
                                           !.dead = edit[c].seen \cap links, !.gone = asked]]
  /\ UNCHANGED <<chat, links, asked, stream>>

\* The foreign keys refuse to let the chat go while rows name it.
DeleteChat(c) ==
  /\ edit[c].pc = "erased"
  /\ chat.lock = None
  /\ IF chat.row = "some" /\ links \subseteq edit[c].dead /\ asked \subseteq edit[c].gone
     THEN /\ chat' = [chat EXCEPT !.row = "deleted"]
          /\ links' = {}
          /\ asked' = {}
     ELSE UNCHANGED <<chat, links, asked>>
  /\ Ends(c)
  /\ UNCHANGED stream

Next ==
  \/ \E K \in (SUBSET Bases) \ {{}} : Create(K)
  \/ \E s \in Streams : LockChat(s) \/ Ask(s) \/ OpenStream(s) \/ Complete(s) \/ Leave(s)
  \/ \E c \in Calls :
       \/ Begin(c, "erase", {}) \/ \E K \in (SUBSET Bases) \ {{}} : Begin(c, "relink", K)
       \/ DeleteLinks(c) \/ InsertLinks(c) \/ DeleteRows(c) \/ DeleteChat(c)

Spec == Init /\ [][Next]_vars

-----------------------------------------------------------------------------
(* Safety                                                                  *)

\* However streams and deletions cross, the messages of a chat are numbered
\* without a gap or a repetition, each answer after its question, and the count
\* is right; a chat that is deleted leaves no rows (prepare_stream_message,
\* delete_session).
MessagesInOrder ==
  /\ \A s, q \in asked : s # q => stream[s].order # stream[q].order
  /\ {stream[s].order : s \in asked} = {2 * i : i \in 0..(Cardinality(asked) - 1)}
  /\ chat.row = "some" => chat.count = 2 * Cardinality(asked)
  /\ chat.row # "some" => asked = {} /\ links = {}

\* The history that goes with the latest question holds neither that question
\* nor the answer to come, and neither does any history without a later
\* question (stream_context drops the newest message).
HistoryIsEarlier ==
  \A s \in asked :
    (stream[s].pc = "open" /\ \A q \in asked : stream[q].order <= stream[s].order)
      => \A o \in stream[s].history : o < stream[s].order

ChatsHold == MessagesInOrder /\ HistoryIsEarlier
=============================================================================

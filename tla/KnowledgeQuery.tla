--------------------------- MODULE KnowledgeQuery ---------------------------
(***************************************************************************)
(* A question about knowledge bases (KnowledgeBaseQueryService): the       *)
(* counting of it, the rewritten question and the original one searched in *)
(* turn, the search without a filter that replaces a failed one, and the   *)
(* model's answer, whole or streamed in pieces that are held back until it *)
(* is clear that they do not say "nothing was found".                      *)
(*                                                                         *)
(* Characters of an answer are numbers: 0 is a blank, 1 followed by 2 is a *)
(* marker of NO_RESULT_MARKERS.  A vector is its place in vector_store;    *)
(* which of them a search finds close enough, in which order, is its own.  *)
(***************************************************************************)
EXTENDS Integers, Sequences, FiniteSetsExt

CONSTANTS Bases,      \* the knowledge bases of the user
          Vectors,    \* rows of vector_store
          TopK,       \* top_k of the question's length
          Probe,      \* STREAM_PROBE_CHARS
          MaxText,    \* characters of an answer
          MaxFaults   \* calls that raise

VARIABLES
  rows,     \* knowledge bases whose row is there
  of,       \* vector -> its metadata's kb_id
  counts,   \* question_count of each knowledge base
  query,    \* the question: its step, mode, knowledge bases, candidates left
  used,     \* the vectors the model was given
  raw,      \* what the model has said
  probe,    \* what of it is held back (probe_buffer)
  out,      \* what the client got, and how that ended
  faults

vars == <<rows, of, counts, query, used, raw, probe, out, faults>>

QueryAssumption == TopK \in Nat /\ Probe \in Nat \ {0} /\ MaxText \in Nat /\ MaxFaults \in Nat

Chars  == 0 .. 3
UpTo(n) == UNION {[1 .. m -> Chars] : m \in 0 .. n}   \* texts of at most n characters
Endings == {"open", "ended", "nothing", "error", "raised", "left"}

TypeOK ==
  /\ rows \subseteq Bases
  /\ of \in [Vectors -> Bases]
  /\ counts \in [Bases -> 0 .. 1]
  /\ query \in [pc: {"asked", "search", "fallback", "answer", "stream", "pass", "done"},
                streamed: BOOLEAN, bases: SUBSET Bases, left: 0 .. 2]
  /\ used \subseteq Vectors
  /\ \A s \in {raw, probe, out.text} : s \in Seq(Chars) /\ Len(s) <= MaxText
  /\ out.end \in Endings
  /\ faults \in 0 .. MaxFaults

\* A blank question, or no knowledge base, is answered NO_RESULT_RESPONSE at
\* once and never gets here.
Init ==
  /\ rows = Bases
  /\ of \in [Vectors -> Bases]
  /\ counts = [b \in Bases |-> 0]
  /\ query \in [pc: {"asked"}, streamed: BOOLEAN, bases: (SUBSET Bases) \ {{}}, left: {0}]
  /\ used = {} /\ raw = <<>> /\ probe = <<>>
  /\ out = [text |-> <<>>, end |-> "open"]
  /\ faults = 0

Fault == faults < MaxFaults /\ faults' = faults + 1

Step(from, to) == query.pc = from /\ query' = [query EXCEPT !.pc = to]

\* The client gets the text, and no more.
Answers(from, text, end) ==
  /\ Step(from, "done")
  /\ out' = [text |-> out.text \o text, end |-> end]

\* A streamed question is answered with one piece that names the error; a
\* plain one raises.
Fails(from) ==
  /\ Answers(from, <<>>, IF query.streamed THEN "error" ELSE "raised")
  /\ UNCHANGED <<rows, of, used, raw, probe>>

-----------------------------------------------------------------------------
(* Counting and rewriting                                                  *)

\* Fault: the knowledge bases that are there are counted, whatever is missing.
CountsThose(K) == [b \in Bases |-> IF b \in K \cap rows THEN counts[b] + 1 ELSE counts[b]]
\* increment_question_counts: all of them or, when one is missing, none.
Counts(K)      == [b \in Bases |-> IF b \in K /\ K \subseteq rows THEN counts[b] + 1 ELSE counts[b]]

\* _build_query_context: the rewritten question, unless the model fails to
\* give another one, and then the original.
Count ==
  /\ query.pc = "asked"
  /\ counts' = Counts(query.bases)
  /\ \/ /\ query.bases \subseteq rows
        /\ \E n \in {1, 2} : query' = [query EXCEPT !.pc = "search", !.left = n]
        /\ UNCHANGED <<rows, of, used, raw, probe, out>>
     \/ /\ ~(query.bases \subseteq rows)
        /\ Fails("asked")
  /\ UNCHANGED faults

-----------------------------------------------------------------------------
(* _retrieve_relevant_documents                                            *)

\* A search never finds the vectors of a knowledge base whose row has gone.
Mine(K) == {v \in Vectors : of[v] \in K \cap rows}

\* The nearest vectors of a set, at most k of them, in a search's own order.
Nearest(V, k) == {hits \in UNION {[1 .. n -> V] : n \in 0 .. k} :
                    \A i, j \in DOMAIN hits : hits[i] = hits[j] => i = j}

\* No vectors: the next candidate, if there is one.
Found(from, V) ==
  \/ /\ V # {}
     /\ query' = [query EXCEPT !.pc = "answer"]
     /\ used' = V
     /\ UNCHANGED out
  \/ /\ V = {} /\ query.left = 2
     /\ query' = [query EXCEPT !.pc = "search", !.left = 1]
     /\ UNCHANGED <<used, out>>
  \/ /\ V = {} /\ query.left = 1
     /\ Answers(from, <<>>, "nothing")
     /\ UNCHANGED used

Search ==
  /\ query.pc = "search"
  /\ \E hits \in Nearest(Mine(query.bases), TopK) : Found("search", Range(hits))
  /\ UNCHANGED <<rows, of, counts, raw, probe, faults>>

\* The embedding or the search raises.
SearchFails ==
  /\ Step("search", "fallback")
  /\ Fault
  /\ UNCHANGED <<rows, of, counts, used, raw, probe, out>>

Take(s, n) == SubSeq(s, 1, Min({n, Len(s)}))

\* Fault: the vectors of every knowledge base of the user are kept.
AllOf(hits)   == DOMAIN hits
Allowed(hits) == {i \in DOMAIN hits : of[hits[i]] \in query.bases}

\* The first k of some places.
FirstOf(places, k) == {i \in places : Cardinality({j \in places : j =< i}) =< k}

Fallback ==
  /\ query.pc = "fallback"
  /\ \E hits \in Nearest(Mine(Bases), 3 * TopK) :
       Found("fallback", {hits[i] : i \in FirstOf(Allowed(hits), TopK)})
  /\ UNCHANGED <<rows, of, counts, raw, probe, faults>>

FallbackFails ==
  /\ Fails("fallback")
  /\ Fault
  /\ UNCHANGED counts

-----------------------------------------------------------------------------
(* The answer                                                              *)

HasMarker(s) == \E i \in 1 .. Len(s) - 1 : s[i] = 1 /\ s[i + 1] = 2

IsBlank(s) == \A i \in DOMAIN s : s[i] = 0
Inked(s)   == {i \in DOMAIN s : s[i] # 0}
Strip(s)   == IF IsBlank(s) THEN <<>> ELSE SubSeq(s, Min(Inked(s)), Max(Inked(s)))

\* _normalize_answer
NormalizeAnswer(from, s) ==
  IF IsBlank(s) \/ HasMarker(s)
  THEN Answers(from, <<>>, "nothing")
  ELSE Answers(from, Strip(s), "ended")

\* answer_question: the whole answer at once.
Reply ==
  /\ ~query.streamed
  /\ \E s \in UpTo(MaxText) : raw' = s /\ NormalizeAnswer("answer", s)
  /\ UNCHANGED <<rows, of, counts, used, probe, faults>>

\* answer_question_stream
OpenStream ==
  /\ query.streamed
  /\ Step("answer", "stream")
  /\ UNCHANGED <<rows, of, counts, used, raw, probe, out, faults>>

\* The model, or its provider, raises.
AnswerFails ==
  /\ Fails("answer")
  /\ Fault
  /\ UNCHANGED counts

\* What is searched for a marker.
\* Fault: each piece by itself.
PieceAlone(s) == s
Searched(s)   == probe \o s

\* A piece of the answer is passed on, or held back for the probe.
Piece(s) ==
  /\ Len(raw) + Len(s) <= MaxText
  /\ raw' = raw \o s
  /\ \/ /\ Step("pass", "pass")
        /\ out' = [out EXCEPT !.text = @ \o s]
        /\ UNCHANGED probe
     \/ /\ HasMarker(Searched(s))
        /\ Answers("stream", <<>>, "nothing")
        /\ UNCHANGED probe
     \/ /\ ~HasMarker(Searched(s))
        /\ Len(probe \o s) >= Probe
        /\ Step("stream", "pass")
        /\ out' = [out EXCEPT !.text = probe \o s]
        /\ probe' = <<>>
     \/ /\ ~HasMarker(Searched(s))
        /\ Len(probe \o s) < Probe
        /\ Step("stream", "stream")
        /\ probe' = probe \o s
        /\ UNCHANGED out
  /\ UNCHANGED <<rows, of, counts, used, faults>>

StreamEnds ==
  /\ \/ Answers("pass", <<>>, "ended")
     \/ NormalizeAnswer("stream", probe)
  /\ UNCHANGED <<rows, of, counts, used, raw, probe, faults>>

\* What was held back is lost.
StreamFails ==
  /\ Answers("pass", <<>>, "error") \/ Answers("stream", <<>>, "error")
  /\ Fault
  /\ UNCHANGED <<rows, of, counts, used, raw, probe>>

ClientLeaves ==
  /\ Answers("pass", <<>>, "left") \/ Answers("stream", <<>>, "left")
  /\ UNCHANGED <<rows, of, counts, used, raw, probe, faults>>

\* KnowledgeBaseService.delete, whose vectors go later if they go at all.  Once
\* the vectors are found nothing but the names in a plain reply is read.
DeleteBase ==
  /\ query.pc \in {"asked", "search", "fallback"}
  /\ \E b \in rows : rows' = rows \ {b}
  /\ UNCHANGED <<of, counts, query, used, raw, probe, out, faults>>

Next ==
  \/ Count \/ Search \/ SearchFails \/ Fallback \/ FallbackFails
  \/ Reply \/ OpenStream \/ AnswerFails
  \/ \E s \in UpTo(2) \ {<<>>} : Piece(s)
  \/ StreamEnds \/ StreamFails \/ ClientLeaves
  \/ DeleteBase

Spec == Init /\ [][Next]_vars

-----------------------------------------------------------------------------
\* The model is told only what is in the knowledge bases the question is
\* about, by whichever search found it, and a question that got so far is
\* counted in all of them; one that was refused is counted in none
\* (similarity_search_unfiltered, increment_question_counts).
AsksOnlyTheAsked ==
  /\ \A v \in used : of[v] \in query.bases
  /\ \/ \A b \in Bases : counts[b] = 0
     \/ \A b \in Bases : counts[b] = IF b \in query.bases THEN 1 ELSE 0
  /\ used # {} => \E b \in Bases : counts[b] = 1

\* However the model cuts its answer into pieces, the client gets all of it or
\* none: "nothing was found" is never said after a part of an answer, an
\* answer with a marker within the probe is never begun, and one shorter than
\* the probe reads as if it had come whole (_normalize_stream).
SaysOneThing ==
  LET first == Take(raw, Probe)
  IN  /\ out.end = "nothing" => out.text = <<>>
      /\ HasMarker(first) => out.text = <<>>
      /\ out.end = "ended" => out.text = IF query.streamed /\ Len(raw) >= Probe THEN raw ELSE Strip(raw)
      /\ out.end = "ended" /\ Len(raw) < Probe => ~HasMarker(raw) /\ ~IsBlank(raw)
      /\ out.end = "nothing" /\ used # {} => IsBlank(raw) \/ HasMarker(raw)
      /\ out.text = Take(raw, Len(out.text)) \/ out.text = Strip(raw)
=============================================================================

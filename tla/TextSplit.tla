------------------------------ MODULE TextSplit ------------------------------
(***************************************************************************)
(* From the text of a knowledge base to its vectors: split_text, one turn  *)
(* of whose loop is an action, and then KnowledgeBaseVectorizationService, *)
(* which embeds the pieces in batches.                                     *)
(*                                                                         *)
(* The tokenizer is external (cl100k_base).  Of what it does the model     *)
(* keeps that a wide character is two tokens, either of which alone        *)
(* decodes to a replacement character, and that a mark may share its token *)
(* with what stands behind it: letters (.com) or closing brackets and      *)
(* quotes.  The characters a mark has in its token are never parted but    *)
(* from it, and are one `tail` here.  A text that begins and ends between  *)
(* two tokens is encoded as in the whole, the way a byte-pair encoding     *)
(* does; that a run of blanks is grouped by what follows it is left out.   *)
(***************************************************************************)
EXTENDS Integers, Sequences, SequencesExt, FiniteSetsExt

CONSTANTS MaxContent,   \* characters of a content
          ChunkSize,    \* tokens
          MinChunkSize, \* min_chunk_size_characters
          MinLength,    \* min_chunk_length_to_embed
          MaxChunks,    \* max_num_chunks
          BatchSize     \* MAX_EMBEDDING_BATCH_SIZE

SplitAssumption ==
  /\ {MaxContent, MinChunkSize, MinLength, MaxChunks} \subseteq Nat
  /\ {ChunkSize, BatchSize} \subseteq Nat \ {0}

VARIABLES
  content,  \* its characters' kinds
  tokens,   \* those left
  count,    \* chunk_count
  chunks,   \* the pieces so far
  read,     \* what the loop has taken, piece or not
  phase,
  vectors   \* what is stored: the piece each vector is of, and is kept with

vars == <<content, tokens, count, chunks, read, phase, vectors>>

Kinds == {"letter", "blank", "mark", "tail", "wide"}

\* A part of a text: a character by its place, whole (0) or the half that one
\* token of a wide character decodes to (1 or 2).
Kind(part) == IF part[2] = 0 THEN content[part[1]] ELSE "half"

\* One part more, in its tokens.
Tokenized(done, part) ==
  CASE Kind(part) = "wide" -> done \o << <<<<part[1], 1>>>>, <<<<part[1], 2>>>> >>
    [] Kind(part) = "tail" /\ done # <<>> /\ Kind(Last(Last(done))) = "mark" ->
         Append(Front(done), Append(Last(done), part))
    [] OTHER -> Append(done, <<part>>)

Encode(text) ==
  LET done[k \in 0 .. Len(text)] == IF k = 0 THEN <<>> ELSE Tokenized(done[k - 1], text[k])
  IN  done[Len(text)]

\* Two halves that meet are their character again.
Joined(text, part) ==
  IF part[2] = 2 /\ text # <<>> /\ Last(text) = <<part[1], 1>>
  THEN Append(Front(text), <<part[1], 0>>) ELSE Append(text, part)

TextOf(some) ==
  LET text[k \in 0 .. Len(some)] == IF k = 0 THEN <<>> ELSE Joined(text[k - 1], some[k])
  IN  text[Len(some)]

Decode(some) == TextOf(FlattenSeq(some))

Blank(part) == Kind(part) = "blank"

Strip(text) ==
  LET solid == {k \in DOMAIN text : ~Blank(text[k])}
  IN  IF solid = {} THEN <<>> ELSE SubSeq(text, Min(solid), Max(solid))

\* last_punctuation_index, from 1; 0 when there is none
LastPunctuation(text) == Max({0} \cup {k \in DOMAIN text : Kind(text[k]) = "mark"})

TypeOK ==
  /\ Range(content) \subseteq Kinds
  /\ count \in 0 .. MaxChunks
  /\ phase \in {"split", "embed", "stored", "failed"}
  /\ Len(chunks) <= MaxChunks + 1

Init ==
  /\ content \in UNION {[1 .. n -> Kinds] : n \in 0 .. MaxContent}
  /\ LET text == [i \in DOMAIN content |-> <<i, 0>>]
     IN  tokens = IF Strip(text) = <<>> THEN <<>> ELSE Encode(text)
  /\ count = 0 /\ chunks = <<>> /\ read = <<>>
  /\ phase = "split" /\ vectors = <<>>

Looping == phase = "split" /\ tokens # <<>> /\ count < MaxChunks

Chunk == SubSeq(tokens, 1, Min({ChunkSize, Len(tokens)}))

\* A blank chunk is passed over and not counted.
SkipBlank ==
  /\ Looping
  /\ Strip(Decode(Chunk)) = <<>>
  /\ tokens' = SubSeq(tokens, Len(Chunk) + 1, Len(tokens))
  /\ read' = Append(read, Decode(Chunk))
  /\ UNCHANGED <<content, count, chunks, phase, vectors>>

\* Cut after its last mark, unless it is the last or the mark is too early.
Cut(text) ==
  LET k == LastPunctuation(text)
  IN  IF Len(tokens) > ChunkSize /\ k # 0 /\ k - 1 > MinChunkSize
      THEN SubSeq(text, 1, k) ELSE text

Kept(text) == IF Len(Strip(text)) > MinLength THEN <<Strip(text)>> ELSE <<>>

\* Fault: the whole chunk is passed over.
ConsumedChunk(text) == Len(Chunk)

\* The tokens of what was taken, encoded anew.
Consumed(text) == Len(Encode(text))

TakeChunk ==
  /\ Looping
  /\ Strip(Decode(Chunk)) # <<>>
  /\ LET text == Cut(Decode(Chunk))
     IN  /\ chunks' = chunks \o Kept(text)
         /\ tokens' = SubSeq(tokens, Consumed(text) + 1, Len(tokens))
         /\ read' = Append(read, text)
  /\ count' = count + 1
  /\ UNCHANGED <<content, phase, vectors>>

\* Whatever is left is one piece more, however long.
TakeRest ==
  /\ phase = "split" /\ ~Looping
  /\ chunks' = chunks \o Kept(Decode(tokens))
  /\ read' = Append(read, Decode(tokens))
  /\ tokens' = <<>>
  /\ phase' = "embed"
  /\ UNCHANGED <<content, count, vectors>>

\* The next batch of pieces, by their numbers.
NextBatch ==
  Len(vectors) + 1 .. Min({Len(vectors) + BatchSize, Len(chunks)})

\* Fault: as they come.
AsTheyCome(data) == data
\* embed sorts by the index.
Ordered(data) ==
  LET order == CHOOSE p \in [DOMAIN data -> DOMAIN data] :
                 /\ IsInjective(p)
                 /\ \A j, k \in DOMAIN data : j < k => data[p[j]].index <= data[p[k]].index
  IN  [k \in DOMAIN data |-> data[order[k]]]

\* embed: what the provider answers with, in the order of the batch.
Embed(data) == [k \in DOMAIN data |-> Ordered(data)[k].embedding]

\* _combine_embeddings
Combined(embeddings) ==
  [k \in DOMAIN embeddings |->
    [content |-> chunks[Len(vectors) + k], embedding |-> embeddings[k]]]

\* The provider answers with one item per piece of the batch, in any order,
\* each with the piece's index in the batch; or it answers too few, or none.
EmbedBatch ==
  /\ phase = "embed" /\ Len(vectors) < Len(chunks)
  /\ \E n \in 0 .. Cardinality(NextBatch) :
       \E places \in {p \in [1 .. n -> 1 .. n] : IsInjective(p)} :
         LET data == [k \in 1 .. n |->
               [index |-> places[k] - 1, embedding |-> chunks[Len(vectors) + places[k]]]]
         IN  IF n = Cardinality(NextBatch)
             THEN vectors' = vectors \o Combined(Embed(data)) /\ UNCHANGED phase
             ELSE vectors' = <<>> /\ phase' = "failed"
  /\ UNCHANGED <<content, tokens, count, chunks, read>>

CompleteJob ==
  /\ phase = "embed" /\ Len(vectors) = Len(chunks)
  /\ phase' = "stored"
  /\ UNCHANGED <<content, tokens, count, chunks, read, vectors>>

Next == SkipBlank \/ TakeChunk \/ TakeRest \/ EmbedBatch \/ CompleteJob

Spec == Init /\ [][Next]_vars

-----------------------------------------------------------------------------
\* Every character of the content is taken once and in its order, wherever
\* the chunks end, but for a wide character that two chunks share, of which
\* each has a replacement; and for what shares a token with the mark at which
\* a chunk was cut (the com of example.com), which is in no chunk (split_text).
TakenOnce ==
  LET all     == FlattenSeq(read) \o Decode(tokens)
      places  == {all[k][1] : k \in DOMAIN all}
      missing == DOMAIN content \ places
      cuts    == {Last(read[k])[1] : k \in {h \in DOMAIN read : read[h] # <<>>}}
  IN  content # <<>> /\ all # <<>> =>
        /\ \A k \in 1 .. Len(all) - 1 :
             \/ all[k][1] < all[k + 1][1]
             \/ all[k] = <<all[k + 1][1], 1>> /\ all[k + 1][2] = 2
        /\ \A i \in missing : content[i] = "tail" /\ i - 1 \in cuts /\ content[i - 1] = "mark"

\* What is stored is every piece, none with another's vector, whatever order
\* the provider answers in; a piece is what was taken, but for its blanks, and
\* what is in no piece was too short to be one (embed, _combine_embeddings).
StoredWhole ==
  /\ phase = "stored" =>
       /\ [k \in DOMAIN vectors |-> vectors[k].content] = chunks
       /\ \A k \in DOMAIN vectors : vectors[k].embedding = vectors[k].content
  /\ \A k \in DOMAIN read : Len(Strip(read[k])) > MinLength => Strip(read[k]) \in Range(chunks)

SplitHolds == TakenOnce /\ StoredWhole
=============================================================================

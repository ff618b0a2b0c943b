--------------------------- MODULE Exchanges_proofs ---------------------------
(***************************************************************************)
(* Theorems about what is exchanged with models, for any values of the     *)
(* parts' parameters: a reply that is spoken (VoiceSpeech), the proxy's    *)
(* records (ModelProxy), an invitation that is read (ScheduleParse), the   *)
(* report of an interview (EvaluationReport), and what a skill brings      *)
(* (SkillReferences).                                                      *)
(***************************************************************************)
EXTENDS MCModels, TaskStream_proofs

-----------------------------------------------------------------------------
(* A reply's sentences                                                     *)

\* The greatest and the smallest of some numbers up to n.
LEMMA GreatestIs ==
  ASSUME NEW n \in Nat, NEW S \in SUBSET (0 .. n), S # {}
  PROVE  Spoken!Max(S) \in S /\ \A y \in S : y =< Spoken!Max(S)
<1>1. PICK x \in S : \A y \in S : y =< x
  BY Greatest
<1>2. \A y \in S : x >= y
  BY <1>1
<1>3. \A y \in S : Spoken!Max(S) >= y
  BY <1>2 DEF Spoken!Max
<1>4. Spoken!Max(S) \in S
  BY <1>2 DEF Spoken!Max
<1> QED BY <1>3, <1>4

\* The smallest of some numbers is one of them.
LEMMA SmallestIs ==
  ASSUME NEW S \in SUBSET Nat, S # {}
  PROVE  Spoken!Min(S) \in S /\ \A y \in S : Spoken!Min(S) =< y
<1>1. PICK x \in S : \A y \in S : x =< y
  BY Smallest
<1> QED BY <1>1 DEF Spoken!Min

\* What strip leaves is within the piece, and has all that is not blank.
LEMMA StrippedIs ==
  ASSUME NEW n \in Nat, NEW a \in Nat, NEW b \in 0 .. n
  PROVE  /\ Spoken!Stripped(a, b) \subseteq a .. b
         /\ \A k \in a .. b : text[k] # "blank" => k \in Spoken!Stripped(a, b)
<1> DEFINE K == Spoken!Solid(a .. b)
<1>1. K \in SUBSET (a .. b) /\ \A k \in a .. b : text[k] # "blank" => k \in K
  BY DEF Spoken!Solid
<1>2. CASE K = {}
  BY <1>1, <1>2 DEF Spoken!Stripped
<1>3. CASE K # {}
  <2> HIDE DEF K
  <2>1. K \in SUBSET Nat /\ K \in SUBSET (0 .. n)
    BY <1>1
  <2>2. Spoken!Min(K) \in K /\ Spoken!Max(K) \in K /\ \A y \in K : Spoken!Min(K) =< y /\ y =< Spoken!Max(K)
    BY <1>3, <2>1, GreatestIs, SmallestIs
  <2>3. Spoken!Stripped(a, b) = Spoken!Min(K) .. Spoken!Max(K)
    BY <1>3 DEF Spoken!Stripped, K
  <2>4. \A k \in K : k \in Spoken!Min(K) .. Spoken!Max(K)
    BY <2>1, <2>2
  <2>5. Spoken!Min(K) .. Spoken!Max(K) \subseteq a .. b
    <3>1. Spoken!Min(K) \in a .. b /\ Spoken!Max(K) \in a .. b
      BY <1>1, <2>2
    <3> QED BY <3>1
  <2> QED BY <1>1, <2>3, <2>4, <2>5
<1> QED BY <1>2, <1>3

\* A text's sentences have all of it but blanks, each of them after those
\* before it.
LEMMA SentencesAre ==
  ASSUME text \in Spoken!Texts
  PROVE  /\ Len(Spoken!Sentences) \in Nat /\ Spoken!Indexes = 1 .. Len(Spoken!Sentences)
         /\ \A k \in DOMAIN text : text[k] # "blank" => \E i \in Spoken!Indexes : k \in Spoken!Sentences[i]
         /\ \A i, j \in Spoken!Indexes : i < j => Spoken!Max(Spoken!Sentences[i]) < Spoken!Min(Spoken!Sentences[j])
<1>1. PICK n \in Nat : text \in [1 .. n -> Spoken!Characters]
  BY DEF Spoken!Texts
<1>2. Len(text) = n /\ DOMAIN text = 1 .. n
  BY <1>1
<1>3. Spoken!Pauses \in SUBSET (0 .. n) /\ n \in Spoken!Pauses
  BY <1>2 DEF Spoken!Pauses, Spoken!Ends
<1> DEFINE before(e) == {0} \cup {p \in Spoken!Pauses : p < e}
           start(e) == 1 + Spoken!Max(before(e))
           ends == {e \in Spoken!Pauses : Spoken!Piece(e) # {}}
           N == Cardinality(ends)
           order == CHOOSE o \in [1 .. N -> ends] : \A i, j \in DOMAIN o : i < j => o[i] < o[j]
<1>4. ASSUME NEW e \in Spoken!Pauses
      PROVE  /\ Spoken!Max(before(e)) \in before(e) /\ \A p \in before(e) : p =< Spoken!Max(before(e))
             /\ start(e) \in Nat /\ Spoken!Piece(e) = Spoken!Stripped(start(e), e)
             /\ Spoken!Piece(e) \subseteq start(e) .. e
             /\ \A k \in start(e) .. e : text[k] # "blank" => k \in Spoken!Piece(e)
  <2>1. before(e) \in SUBSET (0 .. n) /\ before(e) # {}
    <3>1. \A p \in Spoken!Pauses : p \in 0 .. n
      BY <1>3
    <3>2. 0 \in 0 .. n
      OBVIOUS
    <3> QED BY <3>1, <3>2, Zenon
  <2>2. Spoken!Max(before(e)) \in before(e) /\ \A p \in before(e) : p =< Spoken!Max(before(e))
    <3> HIDE DEF before
    <3> QED BY <2>1, GreatestIs
  <2>3. start(e) \in Nat /\ e \in 0 .. n
    BY <1>3, <2>1, <2>2
  <2>4. Spoken!Piece(e) = Spoken!Stripped(start(e), e)
    BY DEF Spoken!Piece
  <2> HIDE DEF start
  <2> QED BY <2>2, <2>3, <2>4, StrippedIs
<1>5. ends \in SUBSET Nat /\ IsFiniteSet(ends)
  <2>1. ends \in SUBSET (0 .. n)
    BY <1>3, Zenon
  <2>2. ends \in SUBSET Nat
    BY <2>1
  <2>3. IsFiniteSet(ends)
    <3> HIDE DEF ends
    <3>1. IsFiniteSet(0 .. n)
      BY FS_Interval
    <3> QED BY <2>1, <3>1, FS_Subset
  <2> QED BY <2>2, <2>3
<1>6. Orders(order, ends)
  <2> HIDE DEF ends
  <2>1. PICK t : Orders(t, ends)
    BY <1>5, OrderExists
  <2>2. t \in [1 .. N -> ends] /\ \A i, j \in DOMAIN t : i < j => t[i] < t[j]
    BY <2>1 DEF Orders
  <2>3. order \in [1 .. N -> ends] /\ \A i, j \in DOMAIN order : i < j => order[i] < order[j]
    BY <2>2
  <2> HIDE DEF order
  <2> QED BY <2>3 DEF Orders
<1>7. N \in Nat /\ \A e \in ends : \E i \in 1 .. N : order[i] = e
  <2> HIDE DEF ends, order
  <2> QED BY <1>5, <1>6, OrderHasAll
<1>8. Spoken!Sentences = [i \in DOMAIN order |-> Spoken!Piece(order[i])]
  BY DEF Spoken!Sentences, Spoken!Cardinality, Cardinality
<1>9. DOMAIN order = 1 .. N /\ \A i \in 1 .. N : order[i] \in ends
  BY <1>6 DEF Orders
<1>10. Len(Spoken!Sentences) = N /\ Spoken!Indexes = 1 .. N /\ \A i \in 1 .. N : Spoken!Sentences[i] = Spoken!Piece(order[i])
  <2> HIDE DEF order, N
  <2> QED BY <1>7, <1>8, <1>9 DEF Spoken!Indexes
<1> HIDE DEF order
<1>11. ASSUME NEW k \in 1 .. n, text[k] # "blank" PROVE \E i \in 1 .. N : k \in Spoken!Sentences[i]
  <2> DEFINE later == {p \in Spoken!Pauses : k =< p}
  <2>1. later \in SUBSET Nat /\ later # {}
    <3>1. \A p \in Spoken!Pauses : p \in Nat
      BY <1>3
    <3>2. n \in later
      BY <1>3
    <3> QED BY <3>1, <3>2, Zenon
  <2>2. PICK e \in later : \A p \in later : e =< p
    <3> HIDE DEF later
    <3> QED BY <2>1, Smallest
  <2>3. start(e) =< k
    <3>1. Spoken!Max(before(e)) \in before(e)
      BY <1>4
    <3>2. \A p \in before(e) : p \in Nat /\ p < k
      BY <1>3, <2>2
    <3> HIDE DEF before
    <3> QED BY <3>1, <3>2
  <2>4. k \in Spoken!Piece(e)
    BY <1>3, <1>4, <2>3, <1>11
  <2>5. e \in ends
    BY <2>4
  <2> HIDE DEF N
  <2> QED BY <1>7, <1>10, <2>4, <2>5
<1>12. ASSUME NEW i \in 1 .. N, NEW j \in 1 .. N, i < j PROVE Spoken!Max(Spoken!Sentences[i]) < Spoken!Min(Spoken!Sentences[j])
  <2>1. order[i] \in ends /\ order[j] \in ends /\ order[i] < order[j] /\ order[i] \in Nat
    BY <1>5, <1>6, <1>9, <1>12 DEF Orders
  <2>2. order[i] =< Spoken!Max(before(order[j])) /\ Spoken!Max(before(order[j])) \in Nat
    <3>1. order[i] \in before(order[j])
      BY <2>1
    <3>2. \A p \in before(order[j]) : p \in Nat
      BY <1>3
    <3>3. /\ Spoken!Max(before(order[j])) \in before(order[j])
          /\ \A p \in before(order[j]) : p =< Spoken!Max(before(order[j]))
      BY <1>4, <2>1
    <3> HIDE DEF before
    <3> QED BY <3>1, <3>2, <3>3
  <2> DEFINE S == Spoken!Sentences[i]
             T == Spoken!Sentences[j]
  <2>3. /\ S = Spoken!Piece(order[i]) /\ T = Spoken!Piece(order[j]) /\ S # {} /\ T # {}
        /\ S \in SUBSET (start(order[i]) .. order[i]) /\ T \in SUBSET (start(order[j]) .. order[j])
        /\ start(order[i]) \in Nat /\ start(order[j]) \in Nat
    BY <1>4, <1>10, <2>1
  <2>4. S \in SUBSET (0 .. order[i]) /\ T \in SUBSET Nat
    BY <2>1, <2>3
  <2> HIDE DEF S, T
  <2>5. Spoken!Max(S) \in S /\ Spoken!Min(T) \in T
    BY <2>1, <2>3, <2>4, GreatestIs, SmallestIs
  <2>6. Spoken!Max(S) =< order[i] /\ start(order[j]) =< Spoken!Min(T) /\ Spoken!Max(S) \in Nat /\ Spoken!Min(T) \in Nat
    BY <2>1, <2>3, <2>4, <2>5
  <2>7. order[i] < start(order[j])
    BY <2>1, <2>2
  <2>8. Spoken!Max(S) < Spoken!Min(T)
    <3> HIDE DEF start
    <3> QED BY <2>1, <2>3, <2>6, <2>7
  <2> QED BY <2>8 DEF S, T
<1> QED BY <1>2, <1>7, <1>10, <1>11, <1>12

-----------------------------------------------------------------------------
(* Speaking a reply                                                        *)

\* The parameters of VoiceSpeech are what its assumption says.
LEMMA SpeechIsAssumed == Spoken!SpeechAssumption
  BY ExchangesAssumption

SpeechMessages == [kind: {"chunk", "complete", "whole", "error"}, of: Nat]

SpeechTyped ==
  /\ text \in Spoken!Texts
  /\ synth \in [Spoken!Indexes -> {"waits", "runs", "cancelled"} \cup Spoken!Made]
  /\ pc \in {"say", "save", "emit", "fallback", "over"}
  /\ emitted \in Nat /\ next \in 1 .. Len(Spoken!Sentences) + 1
  /\ opened \in 1 .. NConns /\ conn \in {0, opened} /\ open \in BOOLEAN /\ changed \in BOOLEAN
  /\ got \in [1 .. NConns -> Seq(SpeechMessages)]

\* Every task in the queue waits, and stands there once; none is left of a
\* turn that is over.
QueueInv ==
  /\ speakQueue \in Seq(Spoken!Indexes)
  /\ \A k \in 1 .. Len(speakQueue) : synth[speakQueue[k]] = "waits"
  /\ \A k, l \in 1 .. Len(speakQueue) : speakQueue[k] = speakQueue[l] => k = l
  /\ \A i \in 1 .. next - 1 : synth[i] \in Spoken!Made
  /\ pc = "over" => speakQueue = <<>> /\ \A i \in Spoken!Indexes : synth[i] # "runs"
  /\ pc = "fallback" => next > Len(Spoken!Sentences) /\ emitted = 0
  /\ pc \in {"say", "save"} => next = 1 /\ emitted = 0

\* What a connection was sent, and when; what is not of a sentence ends it.
MessageInv ==
  \A n \in 1 .. NConns : \A k \in 1 .. Len(got[n]) :
    /\ n =< opened
    /\ got[n][k].kind = "chunk" => got[n][k].of < next /\ emitted > 0
    /\ got[n][k].kind # "chunk" => pc = "over" /\ k = Len(got[n])
    /\ got[n][k].kind = "whole" \/ got[n][k].kind = "error" => emitted = 0

PairInv ==
  \A n, m \in 1 .. NConns : \A k \in 1 .. Len(got[n]), l \in 1 .. Len(got[m]) :
    /\ got[n][k].kind = "chunk" /\ got[m][l].kind = "chunk" /\ (n < m \/ (n = m /\ k < l))
         => got[n][k].of < got[m][l].of
    /\ got[n][k].kind # "chunk" /\ got[m][l].kind # "chunk" => n = m /\ k = l

\* Who stayed connected heard the sentences so far, and then the end or an
\* error.
HeardInv ==
  ~changed =>
    /\ conn = 1 /\ opened = 1 /\ open
    /\ \A i \in 1 .. next - 1 : synth[i] = "audio" =>
         \E k \in 1 .. Len(got[1]) : got[1][k].kind = "chunk" /\ got[1][k].of = i
    /\ pc = "over" =>
         \/ Len(got[1]) > 0 /\ got[1][Len(got[1])].kind = "error"
         \/ /\ next > Len(Spoken!Sentences)
            /\ emitted > 0 => Len(got[1]) > 0 /\ got[1][Len(got[1])].kind = "complete"

SpeechInv == SpeechTyped /\ QueueInv /\ MessageInv /\ PairInv /\ HeardInv

\* A reply's sentences stay.
LEMMA SentencesStay == ASSUME text' = text PROVE Spoken!Sentences' = Spoken!Sentences /\ Spoken!Indexes' = Spoken!Indexes
BY DEF Spoken!Sentences, Spoken!Indexes, Spoken!Pauses, Spoken!Ends, Spoken!Piece, Spoken!Stripped, Spoken!Solid

\* What counts sentences and connections is a number, and who hears a chunk
\* knows its sentence.
LEMMA SpeechNumbers ==
  ASSUME SpeechTyped
  PROVE  /\ Len(Spoken!Sentences) \in Nat /\ Spoken!Indexes = 1 .. Len(Spoken!Sentences)
         /\ next \in Nat /\ next >= 1 /\ opened \in Nat /\ NConns \in Nat
         /\ \A n \in 1 .. NConns : /\ Len(got[n]) \in Nat /\ DOMAIN got[n] = 1 .. Len(got[n])
                                   /\ \A k \in 1 .. Len(got[n]) : got[n][k].of \in Nat
<1>1. Len(Spoken!Sentences) \in Nat /\ Spoken!Indexes = 1 .. Len(Spoken!Sentences)
  BY SentencesAre DEF SpeechTyped
<1>2. ASSUME NEW n \in 1 .. NConns
      PROVE  /\ Len(got[n]) \in Nat /\ DOMAIN got[n] = 1 .. Len(got[n])
             /\ \A k \in 1 .. Len(got[n]) : got[n][k].of \in Nat
  <2>1. got[n] \in Seq(SpeechMessages)
    BY DEF SpeechTyped
  <2>2. Len(got[n]) \in Nat /\ DOMAIN got[n] = 1 .. Len(got[n])
        /\ \A k \in 1 .. Len(got[n]) : got[n][k] \in SpeechMessages
    BY <2>1, LenProperties
  <2> QED BY <2>2 DEF SpeechMessages
<1> QED BY <1>1, <1>2, SpeechIsAssumed DEF SpeechTyped, Spoken!SpeechAssumption

\* A message goes to the end of what the connection was sent.
LEMMA Sending ==
  ASSUME SpeechTyped, conn # 0, NEW what \in {"chunk", "complete", "whole", "error"}, NEW whose \in Nat,
         Spoken!Send(what, whose)
  PROVE  /\ got' \in [1 .. NConns -> Seq(SpeechMessages)] /\ conn \in 1 .. NConns /\ conn = opened
         /\ \A n \in 1 .. NConns : n # conn => got'[n] = got[n]
         /\ Len(got'[conn]) = Len(got[conn]) + 1
         /\ \A k \in 1 .. Len(got[conn]) : got'[conn][k] = got[conn][k]
         /\ got'[conn][Len(got[conn]) + 1].kind = what /\ got'[conn][Len(got[conn]) + 1].of = whose
<1> DEFINE m == [kind |-> what, of |-> whose]
<1>1. conn \in 1 .. NConns /\ conn = opened /\ m \in SpeechMessages /\ got[conn] \in Seq(SpeechMessages)
  BY DEF SpeechTyped, SpeechMessages
<1>2. got' = [got EXCEPT ![conn] = Append(got[conn], m)]
  BY DEF Spoken!Send
<1> HIDE DEF m
<1>3. Append(got[conn], m) \in Seq(SpeechMessages) /\ Len(Append(got[conn], m)) = Len(got[conn]) + 1
      /\ (\A k \in 1 .. Len(got[conn]) : Append(got[conn], m)[k] = got[conn][k])
      /\ Append(got[conn], m)[Len(got[conn]) + 1] = m
  BY <1>1, AppendProperties
<1>4. got \in [1 .. NConns -> Seq(SpeechMessages)]
  BY DEF SpeechTyped
<1>5. /\ got'[conn] = Append(got[conn], m)
      /\ \A n \in 1 .. NConns : n # conn => got'[n] = got[n]
      /\ got' \in [1 .. NConns -> Seq(SpeechMessages)]
  BY <1>1, <1>2, <1>3, <1>4
<1> QED BY <1>1, <1>3, <1>5 DEF m

\* A step that sends nothing.
LEMMA NothingSent ==
  ASSUME SpeechInv, UNCHANGED <<text, got>>, SpeechTyped', opened =< opened', next =< next',
         emitted =< emitted', emitted' # emitted => pc # "over", pc = "over" => pc' = "over"
  PROVE  MessageInv' /\ PairInv'
<1>1. /\ next \in Nat /\ next' \in Nat /\ opened \in Nat /\ opened' \in Nat
      /\ emitted \in Nat /\ emitted' \in Nat
  BY SpeechNumbers, SentencesStay DEF SpeechInv, SpeechTyped
<1>2. MessageInv'
  <2> SUFFICES ASSUME NEW n \in 1 .. NConns, NEW k \in 1 .. Len(got[n])
               PROVE  /\ n =< opened'
                      /\ got[n][k].kind = "chunk" => got[n][k].of < next' /\ emitted' > 0
                      /\ got[n][k].kind # "chunk" => pc' = "over" /\ k = Len(got[n])
                      /\ got[n][k].kind = "whole" \/ got[n][k].kind = "error" => emitted' = 0
    BY DEF MessageInv
  <2>1. /\ n =< opened
        /\ got[n][k].kind = "chunk" => got[n][k].of < next /\ emitted > 0
        /\ got[n][k].kind # "chunk" => pc = "over" /\ k = Len(got[n])
        /\ got[n][k].kind = "whole" \/ got[n][k].kind = "error" => emitted = 0
    BY DEF MessageInv, SpeechInv
  <2>2. got[n][k].of \in Nat
    BY SpeechNumbers DEF SpeechInv
  <2>3. n =< opened'
    BY <1>1, <2>1
  <2>4. got[n][k].kind = "chunk" => got[n][k].of < next' /\ emitted' > 0
    BY <1>1, <2>1, <2>2
  <2>5. got[n][k].kind # "chunk" => pc' = "over" /\ k = Len(got[n]) /\ emitted' = emitted
    BY <1>1, <2>1
  <2>6. CASE got[n][k].kind = "chunk"
    BY <2>3, <2>4, <2>6
  <2>7. CASE got[n][k].kind # "chunk"
    BY <2>1, <2>3, <2>5, <2>7
  <2> QED BY <2>6, <2>7
<1>3. PairInv'
  BY DEF PairInv, SpeechInv
<1> QED BY <1>2, <1>3

\* A chunk of the next sentence.
LEMMA ChunkSent ==
  ASSUME SpeechInv, pc = "emit", conn # 0, Spoken!Send("chunk", next), UNCHANGED <<text, pc, opened>>,
         next' = next + 1, emitted' = emitted + 1
  PROVE  MessageInv' /\ PairInv'
<1> USE SpeechInv DEF SpeechInv
<1>1. next \in Nat /\ emitted \in Nat /\ opened \in Nat /\ NConns \in Nat
  BY SpeechNumbers DEF SpeechTyped
<1> DEFINE c == conn
           e == Len(got[conn]) + 1
<1>2. /\ c \in 1 .. NConns /\ c = opened
      /\ \A n \in 1 .. NConns : n # c => got'[n] = got[n]
      /\ Len(got'[c]) = e
      /\ \A k \in 1 .. Len(got[c]) : got'[c][k] = got[c][k]
      /\ got'[c][e].kind = "chunk" /\ got'[c][e].of = next
  BY <1>1, Sending DEF SpeechInv
<1>3. \A n \in 1 .. NConns : Len(got[n]) \in Nat /\ \A k \in 1 .. Len(got[n]) : got[n][k].of \in Nat
  BY SpeechNumbers
<1>4. \A n \in 1 .. NConns : \A k \in 1 .. Len(got'[n]) :
        \/ n = c /\ k = e
        \/ k \in 1 .. Len(got[n]) /\ got'[n][k] = got[n][k] /\ (n # c => Len(got'[n]) = Len(got[n]))
  BY <1>2, <1>3
<1>5. \A n \in 1 .. NConns : \A k \in 1 .. Len(got[n]) :
        got[n][k].kind = "chunk" /\ got[n][k].of < next /\ n =< c
  BY <1>2 DEF MessageInv
<1> HIDE DEF c, e
<1>6. MessageInv'
  <2> SUFFICES ASSUME NEW n \in 1 .. NConns, NEW k \in 1 .. Len(got'[n])
               PROVE  /\ n =< opened'
                      /\ got'[n][k].kind = "chunk" /\ got'[n][k].of < next' /\ emitted' > 0
    BY DEF MessageInv
  <2>1. CASE n = c /\ k = e
    BY <1>1, <1>2, <2>1
  <2>2. CASE k \in 1 .. Len(got[n]) /\ got'[n][k] = got[n][k]
    <3>1. got'[n][k].kind = "chunk" /\ got'[n][k].of < next /\ got'[n][k].of \in Nat /\ n =< c
      BY <1>3, <1>5, <2>2
    <3> QED BY <1>1, <1>2, <3>1
  <2> QED BY <1>4, <2>1, <2>2
<1>7. PairInv'
  <2> SUFFICES ASSUME NEW n \in 1 .. NConns, NEW m \in 1 .. NConns,
                      NEW k \in 1 .. Len(got'[n]), NEW l \in 1 .. Len(got'[m])
               PROVE  /\ got'[n][k].kind = "chunk" /\ got'[m][l].kind = "chunk"
                      /\ (n < m \/ (n = m /\ k < l)) => got'[n][k].of < got'[m][l].of
    BY DEF PairInv
  <2>1. CASE m = c /\ l = e
    <3>1. CASE n = c /\ k = e
      BY <1>1, <1>2, <1>3, <2>1, <3>1
    <3>2. CASE k \in 1 .. Len(got[n]) /\ got'[n][k] = got[n][k]
      BY <1>2, <1>5, <2>1, <3>2
    <3> QED BY <1>4, <3>1, <3>2
  <2>2. CASE n = c /\ k = e
    BY <1>1, <1>2, <1>3, <1>4, <1>5, <2>2
  <2>3. CASE /\ k \in 1 .. Len(got[n]) /\ got'[n][k] = got[n][k]
             /\ l \in 1 .. Len(got[m]) /\ got'[m][l] = got[m][l]
    BY <1>5, <2>3 DEF PairInv
  <2> QED BY <1>4, <2>1, <2>2, <2>3
<1> QED BY <1>6, <1>7

\* What ends a turn.
LEMMA EndSent ==
  ASSUME SpeechInv, pc # "over", conn # 0, NEW what \in {"complete", "whole", "error"}, Spoken!Send(what, 0),
         what = "whole" \/ what = "error" => emitted = 0, UNCHANGED <<text, next, emitted, opened>>, pc' = "over"
  PROVE  MessageInv' /\ PairInv'
<1>1. next \in Nat /\ emitted \in Nat /\ opened \in Nat /\ NConns \in Nat
  BY SpeechNumbers DEF SpeechTyped, SpeechInv
<1> DEFINE c == conn
           e == Len(got[conn]) + 1
<1>2. /\ c \in 1 .. NConns /\ c = opened
      /\ \A n \in 1 .. NConns : n # c => got'[n] = got[n]
      /\ Len(got'[c]) = e
      /\ \A k \in 1 .. Len(got[c]) : got'[c][k] = got[c][k]
      /\ got'[c][e].kind = what /\ got'[c][e].of = 0
  BY Sending DEF SpeechInv
<1>3. \A n \in 1 .. NConns : Len(got[n]) \in Nat
  BY SpeechNumbers DEF SpeechInv
<1>4. \A n \in 1 .. NConns : \A k \in 1 .. Len(got'[n]) :
        \/ n = c /\ k = e
        \/ k \in 1 .. Len(got[n]) /\ got'[n][k] = got[n][k]
  BY <1>2, <1>3
<1>5. \A n \in 1 .. NConns : \A k \in 1 .. Len(got[n]) :
        got[n][k].kind = "chunk" /\ got[n][k].of < next /\ emitted > 0 /\ n =< opened
  BY DEF MessageInv, SpeechInv
<1> HIDE DEF c, e
<1>6. MessageInv'
  <2> SUFFICES ASSUME NEW n \in 1 .. NConns, NEW k \in 1 .. Len(got'[n])
               PROVE  /\ n =< opened'
                      /\ got'[n][k].kind = "chunk" => got'[n][k].of < next' /\ emitted' > 0
                      /\ got'[n][k].kind # "chunk" => pc' = "over" /\ k = Len(got'[n])
                      /\ got'[n][k].kind = "whole" \/ got'[n][k].kind = "error" => emitted' = 0
    BY DEF MessageInv
  <2>1. CASE n = c /\ k = e
    BY <1>1, <1>2, <2>1
  <2>2. CASE k \in 1 .. Len(got[n]) /\ got'[n][k] = got[n][k]
    BY <1>1, <1>5, <2>2
  <2> QED BY <1>4, <2>1, <2>2
<1>7. PairInv'
  <2> SUFFICES ASSUME NEW n \in 1 .. NConns, NEW m \in 1 .. NConns,
                      NEW k \in 1 .. Len(got'[n]), NEW l \in 1 .. Len(got'[m])
               PROVE  /\ got'[n][k].kind = "chunk" /\ got'[m][l].kind = "chunk" /\ (n < m \/ (n = m /\ k < l))
                           => got'[n][k].of < got'[m][l].of
                      /\ got'[n][k].kind # "chunk" /\ got'[m][l].kind # "chunk" => n = m /\ k = l
    BY DEF PairInv
  <2>1. (n = c /\ k = e) \/ (k \in 1 .. Len(got[n]) /\ got'[n][k] = got[n][k] /\ got'[n][k].kind = "chunk")
    BY <1>4, <1>5
  <2>2. (m = c /\ l = e) \/ (l \in 1 .. Len(got[m]) /\ got'[m][l] = got[m][l] /\ got'[m][l].kind = "chunk")
    BY <1>4, <1>5
  <2>3. got'[c][e].kind # "chunk"
    BY <1>2
  <2>4. CASE (n = c /\ k = e) \/ (m = c /\ l = e)
    BY <2>1, <2>2, <2>3, <2>4
  <2>5. CASE ~(n = c /\ k = e) /\ ~(m = c /\ l = e)
    BY <2>1, <2>2, <2>5 DEF PairInv, SpeechInv
  <2> QED BY <2>4, <2>5
<1> QED BY <1>6, <1>7

\* A reply begins with nothing queued, sent or heard.
LEMMA SpeechBegins == ASSUME Spoken!Init PROVE SpeechInv
<1>1. text \in Spoken!Texts /\ Len(Spoken!Sentences) \in Nat /\ Spoken!Indexes = 1 .. Len(Spoken!Sentences)
  BY SentencesAre DEF Spoken!Init
<1>2. SpeechTyped
  <2>1. <<>> \in Seq(SpeechMessages)
    BY EmptySeq
  <2>2. synth \in [Spoken!Indexes -> {"waits", "runs", "cancelled"} \cup Spoken!Made]
    BY DEF Spoken!Init
  <2>3. got \in [1 .. NConns -> Seq(SpeechMessages)]
    BY <2>1 DEF Spoken!Init
  <2>4. next \in 1 .. Len(Spoken!Sentences) + 1
    BY <1>1 DEF Spoken!Init
  <2>5. opened \in 1 .. NConns
    BY SpeechIsAssumed DEF Spoken!Init, Spoken!SpeechAssumption
  <2> QED BY <2>2, <2>3, <2>4, <2>5, <1>1 DEF Spoken!Init, SpeechTyped
<1>3. QueueInv
  <2> DEFINE q == [i \in 1 .. Len(Spoken!Sentences) |-> i]
  <2>1. q \in Seq(1 .. Len(Spoken!Sentences)) /\ Len(q) = Len(Spoken!Sentences)
    <3>1. q \in [1 .. Len(Spoken!Sentences) -> 1 .. Len(Spoken!Sentences)]
      OBVIOUS
    <3> HIDE DEF q
    <3> QED BY <1>1, <3>1, SeqDef
  <2>2. speakQueue = q /\ synth = [i \in Spoken!Indexes |-> "waits"] /\ pc = "say" /\ next = 1 /\ emitted = 0
    BY <1>1 DEF Spoken!Init
  <2>3. \A k \in 1 .. Len(Spoken!Sentences) : q[k] = k
    OBVIOUS
  <2>4. \A k \in 1 .. Len(Spoken!Sentences) : synth[k] = "waits"
    BY <1>1, <2>2
  <2>5. 1 .. next - 1 = {}
    BY <2>2
  <2> HIDE DEF q
  <2> QED BY <1>1, <2>1, <2>2, <2>3, <2>4, <2>5 DEF QueueInv
<1>4. MessageInv /\ PairInv /\ HeardInv
  <2>1. \A n \in 1 .. NConns : 1 .. Len(got[n]) = {}
    BY EmptySeq DEF Spoken!Init
  <2>2. 1 .. next - 1 = {} /\ conn = 1 /\ opened = 1 /\ open /\ pc = "say"
    BY DEF Spoken!Init
  <2> QED BY <2>1, <2>2 DEF MessageInv, PairInv, HeardInv
<1> QED BY <1>2, <1>3, <1>4 DEF SpeechInv

\* Every step keeps it.
LEMMA SpeechStep == ASSUME SpeechInv, [Spoken!Next]_spokenVars PROVE SpeechInv'
<1> USE DEF SpeechInv
<1> DEFINE N == Len(Spoken!Sentences)
<1>1. /\ N \in Nat /\ Spoken!Indexes = 1 .. N /\ next \in Nat /\ next >= 1 /\ opened \in Nat /\ NConns \in Nat
      /\ emitted \in Nat
  BY SpeechNumbers DEF SpeechTyped
<1>0. next \in 1 .. N + 1 /\ \A i \in 1 .. next - 1 : i \in Spoken!Indexes
  <2>1. next \in 1 .. N + 1
    BY DEF SpeechTyped
  <2> HIDE DEF N
  <2> QED BY <1>1, <2>1
<1>2. text' = text
  BY DEF Spoken!Next, spokenVars, Spoken!Say, Spoken!Saved, Spoken!SaveFails, Spoken!Acquire, Spoken!Synthesized, Spoken!Emit, Spoken!EmitEnds, Spoken!Fallback, Spoken!Accept, Spoken!SocketCloses, Spoken!PausePops, Spoken!Cancelled
<1>3. Spoken!Sentences' = Spoken!Sentences /\ Spoken!Indexes' = Spoken!Indexes
  BY <1>2, SentencesStay
<1>4. \A n \in 1 .. NConns : Len(got[n]) \in Nat
  BY SpeechNumbers
<1>5. CASE UNCHANGED spokenVars
  <2>1. UNCHANGED <<text, synth, speakQueue, pc, emitted, next, opened, conn, open, changed, got>>
    BY <1>5 DEF spokenVars
  <2>2. SpeechTyped'
    BY <1>3, <2>1 DEF SpeechTyped
  <2>3. QueueInv'
    BY <1>3, <2>1 DEF QueueInv
  <2>4. MessageInv' /\ PairInv'
    BY <2>1 DEF MessageInv, PairInv
  <2>5. HeardInv'
    BY <1>3, <2>1 DEF HeardInv
  <2> QED BY <2>2, <2>3, <2>4, <2>5
<1>6. CASE Spoken!Acquire
  <2> DEFINE h == Head(speakQueue)
  <2>1. /\ speakQueue \in Seq(Spoken!Indexes) /\ h \in Spoken!Indexes /\ speakQueue' \in Seq(Spoken!Indexes)
        /\ Len(speakQueue) \in Nat /\ Len(speakQueue) > 0 /\ h = speakQueue[1]
        /\ Len(speakQueue') = Len(speakQueue) - 1 /\ \A k \in 1 .. Len(speakQueue') : speakQueue'[k] = speakQueue[k + 1]
    <3>1. speakQueue \in Seq(Spoken!Indexes) /\ speakQueue # <<>> /\ speakQueue' = Tail(speakQueue)
      BY <1>6 DEF Spoken!Acquire, QueueInv
    <3> QED BY <3>1, HeadTailProperties, EmptySeq, LenProperties
  <2>2. synth' = [synth EXCEPT ![h] = "runs"] /\ UNCHANGED <<text, pc, emitted, next, opened, conn, open, changed, got>>
    BY <1>6 DEF Spoken!Acquire
  <2>3. synth[h] = "waits"
    BY <2>1 DEF QueueInv
  <2> HIDE DEF h
  <2>4. SpeechTyped'
    BY <1>3, <2>1, <2>2 DEF SpeechTyped
  <2>5. \A i \in Spoken!Indexes : synth'[i] = IF i = h THEN "runs" ELSE synth[i]
    BY <2>1, <2>2 DEF SpeechTyped
  <2>6. \A k \in 1 .. Len(speakQueue') : k + 1 \in 1 .. Len(speakQueue) /\ k + 1 # 1 /\ speakQueue[k + 1] # h /\ speakQueue[k + 1] \in Spoken!Indexes
    <3> TAKE k \in 1 .. Len(speakQueue')
    <3>1. k + 1 \in 1 .. Len(speakQueue) /\ k + 1 # 1 /\ 1 \in 1 .. Len(speakQueue)
      BY <2>1
    <3> QED BY <2>1, <3>1, ElementOfSeq DEF QueueInv
  <2>7. pc # "over"
    BY <2>1, EmptySeq DEF QueueInv
  <2>8. QueueInv'
    <3>1. \A k \in 1 .. Len(speakQueue') : synth'[speakQueue'[k]] = "waits"
      BY <2>1, <2>5, <2>6 DEF QueueInv
    <3>2. \A k, l \in 1 .. Len(speakQueue') : speakQueue'[k] = speakQueue'[l] => k = l
      BY <2>1, <2>6 DEF QueueInv
    <3>3. \A i \in 1 .. next - 1 : synth'[i] \in Spoken!Made
      BY <1>0, <2>3, <2>5 DEF QueueInv, Spoken!Made
    <3> QED BY <1>3, <2>1, <2>2, <2>7, <3>1, <3>2, <3>3 DEF QueueInv
  <2>9. MessageInv' /\ PairInv'
    BY <2>2, <2>4, <1>1, NothingSent
  <2>10. HeardInv'
    BY <1>0, <1>3, <2>2, <2>3, <2>5, <2>7 DEF HeardInv
  <2> QED BY <2>4, <2>8, <2>9, <2>10
<1>7. ASSUME NEW j \in Spoken!Indexes, Spoken!Synthesized(j) PROVE SpeechInv'
  <2>1. PICK made \in Spoken!Made : synth' = [synth EXCEPT ![j] = made]
    BY <1>7 DEF Spoken!Synthesized
  <2>2. synth[j] = "runs" /\ UNCHANGED <<text, speakQueue, pc, emitted, next, opened, conn, open, changed, got>>
    BY <1>7 DEF Spoken!Synthesized
  <2>3. \A i \in Spoken!Indexes : synth'[i] = IF i = j THEN made ELSE synth[i]
    BY <2>1 DEF SpeechTyped
  <2>4. SpeechTyped'
    BY <1>3, <2>1, <2>2 DEF SpeechTyped
  <2>5. pc # "over"
    BY <2>2 DEF QueueInv
  <2>6. \A i \in 1 .. next - 1 : i \in Spoken!Indexes /\ i # j
    BY <1>0, <2>2 DEF QueueInv, Spoken!Made
  <2>7. QueueInv'
    <3>1. \A k \in 1 .. Len(speakQueue) : speakQueue[k] \in Spoken!Indexes /\ speakQueue[k] # j
      BY <2>2, ElementOfSeq DEF QueueInv
    <3>2. \A k \in 1 .. Len(speakQueue) : synth'[speakQueue[k]] = "waits"
      BY <2>3, <3>1 DEF QueueInv
    <3>3. \A i \in 1 .. next - 1 : synth'[i] \in Spoken!Made
      BY <2>3, <2>6 DEF QueueInv
    <3> QED BY <1>3, <2>2, <2>5, <3>2, <3>3 DEF QueueInv
  <2>8. MessageInv' /\ PairInv'
    BY <2>2, <2>4, <1>1, NothingSent
  <2>9. HeardInv'
    BY <1>3, <2>2, <2>3, <2>5, <2>6 DEF HeardInv
  <2> QED BY <2>4, <2>7, <2>8, <2>9
<1>8. ASSUME NEW j \in Spoken!Indexes, Spoken!Emit(j) PROVE SpeechInv'
  <2>1. /\ pc = "emit" /\ j = next /\ synth[next] \in Spoken!Made /\ next' = next + 1
        /\ UNCHANGED <<text, synth, speakQueue, pc, opened, conn, open, changed>>
    BY <1>8 DEF Spoken!Emit, Spoken!Awaited
  <2> DEFINE hears == synth[next] \in {"audio", "long"} /\ conn # 0 /\ open
  <2>2. hears => emitted' = emitted + 1 /\ IF synth[next] = "audio" THEN Spoken!Send("chunk", next) ELSE UNCHANGED got
    BY <1>8, <2>1 DEF Spoken!Emit
  <2>3. ~hears => UNCHANGED <<emitted, got>>
    BY <1>8, <2>1 DEF Spoken!Emit
  <2>4. SpeechTyped'
    <3>1. got' \in [1 .. NConns -> Seq(SpeechMessages)]
      <4>1. CASE hears /\ synth[next] = "audio"
        BY <1>1, <2>2, <4>1, Sending
      <4>2. CASE ~(hears /\ synth[next] = "audio")
        BY <2>2, <2>3, <4>2 DEF SpeechTyped
      <4> QED BY <4>1, <4>2
    <3>2. emitted' \in Nat
      BY <1>1, <2>2, <2>3
    <3> QED BY <1>1, <1>3, <2>1, <3>1, <3>2 DEF SpeechTyped
  <2>5. QueueInv'
    BY <1>1, <1>3, <2>1 DEF QueueInv
  <2>6. MessageInv' /\ PairInv'
    <3>1. CASE hears /\ synth[next] = "audio"
      BY <2>1, <2>2, <3>1, ChunkSent
    <3>2. CASE ~(hears /\ synth[next] = "audio")
      <4>1. UNCHANGED got /\ emitted =< emitted'
        BY <1>1, <2>2, <2>3, <3>2
      <4> QED BY <1>1, <2>1, <2>4, <4>1, NothingSent
    <3> QED BY <3>1, <3>2
  <2>7. HeardInv'
    <3> SUFFICES ASSUME ~changed, NEW i \in 1 .. next' - 1, synth[i] = "audio"
                 PROVE  \E k \in 1 .. Len(got'[1]) : got'[1][k].kind = "chunk" /\ got'[1][k].of = i
      BY <2>1 DEF HeardInv
    <3>1. conn = 1 /\ open /\ 1 \in 1 .. NConns
      BY DEF HeardInv, SpeechTyped
    <3>2. CASE i = next
      <4>1. hears /\ Spoken!Send("chunk", next)
        BY <2>2, <3>1, <3>2
      <4>2. Len(got'[1]) = Len(got[1]) + 1 /\ Len(got[1]) \in Nat
            /\ got'[1][Len(got[1]) + 1].kind = "chunk" /\ got'[1][Len(got[1]) + 1].of = next
        BY <1>1, <1>4, <3>1, <4>1, Sending
      <4> QED BY <3>2, <4>2
    <3>3. CASE i # next
      <4>1. i \in 1 .. next - 1
        BY <1>1, <2>1, <3>3
      <4>2. PICK k \in 1 .. Len(got[1]) : got[1][k].kind = "chunk" /\ got[1][k].of = i
        BY <4>1 DEF HeardInv
      <4>3. k \in 1 .. Len(got'[1]) /\ got'[1][k] = got[1][k]
        <5>1. CASE hears /\ synth[next] = "audio"
          BY <1>1, <1>4, <2>2, <3>1, <5>1, Sending
        <5>2. CASE ~(hears /\ synth[next] = "audio")
          BY <2>2, <2>3, <5>2
        <5> QED BY <5>1, <5>2
      <4> QED BY <4>2, <4>3
    <3> QED BY <3>2, <3>3
  <2> QED BY <2>4, <2>5, <2>6, <2>7
<1>9. ASSUME UNCHANGED <<synth, speakQueue, emitted, next, opened, conn, open, changed>>, pc' = "over", pc # "over",
             next > N, SpeechTyped', MessageInv', PairInv',
             ~changed /\ emitted > 0 => Len(got'[1]) > 0 /\ got'[1][Len(got'[1])].kind = "complete",
             ~changed => \A k \in 1 .. Len(got[1]) : k \in 1 .. Len(got'[1]) /\ got'[1][k] = got[1][k]
      PROVE  SpeechInv'
  <2>1. next - 1 = N
    <3> HIDE DEF N
    <3> QED BY <1>0, <1>1, <1>9
  <2>2. \A i \in Spoken!Indexes : synth[i] \in Spoken!Made
    BY <1>1, <2>1 DEF QueueInv
  <2>3. speakQueue = <<>>
    <3> SUFFICES ASSUME speakQueue # <<>> PROVE FALSE
      OBVIOUS
    <3>1. speakQueue \in Seq(Spoken!Indexes) /\ 1 \in 1 .. Len(speakQueue) /\ speakQueue[1] \in Spoken!Indexes
      BY EmptySeq, ElementOfSeq DEF QueueInv
    <3> QED BY <2>2, <3>1 DEF QueueInv, Spoken!Made
  <2>4. QueueInv'
    BY <1>3, <1>9, <2>2, <2>3 DEF QueueInv, Spoken!Made
  <2>5. HeardInv'
    BY <1>3, <1>9 DEF HeardInv
  <2> QED BY <1>9, <2>4, <2>5
<1>10. CASE Spoken!EmitEnds
  <2>1. pc = "emit" /\ next > N /\ UNCHANGED <<text, synth, speakQueue, emitted, next, opened, conn, open, changed>>
    BY <1>10 DEF Spoken!EmitEnds
  <2> DEFINE tells == emitted > 0 /\ conn # 0 /\ open
  <2>2. (tells => Spoken!Send("complete", 0)) /\ (~tells => UNCHANGED got)
    BY <1>10 DEF Spoken!EmitEnds
  <2>3. got' \in [1 .. NConns -> Seq(SpeechMessages)] /\ pc' \in {"fallback", "over"}
    <3>1. pc' \in {"fallback", "over"}
      BY <1>10 DEF Spoken!EmitEnds
    <3>2. CASE tells
      BY <2>2, <3>1, <3>2, Sending
    <3>3. CASE ~tells
      BY <2>2, <3>1, <3>3 DEF SpeechTyped
    <3> QED BY <3>2, <3>3
  <2>4. SpeechTyped'
    BY <1>3, <2>1, <2>3 DEF SpeechTyped
  <2>5. CASE pc' = "over"
    <3>1. MessageInv' /\ PairInv'
      <4>1. CASE tells
        BY <2>1, <2>2, <2>5, <4>1, EndSent, <1>2
      <4>2. CASE ~tells
        BY <1>1, <1>2, <2>1, <2>2, <2>4, <2>5, <4>2, NothingSent
      <4> QED BY <4>1, <4>2
    <3>2. ASSUME ~changed
          PROVE  /\ emitted > 0 => Len(got'[1]) > 0 /\ got'[1][Len(got'[1])].kind = "complete"
                 /\ \A k \in 1 .. Len(got[1]) : k \in 1 .. Len(got'[1]) /\ got'[1][k] = got[1][k]
      <4>1. conn = 1 /\ open /\ Len(got[1]) \in Nat
        BY <1>4, <3>2 DEF HeardInv, SpeechTyped
      <4>2. CASE tells
        BY <2>2, <4>1, <4>2, Sending
      <4>3. CASE ~tells
        BY <2>2, <4>1, <4>3
      <4> QED BY <4>2, <4>3
    <3> QED BY <1>9, <2>1, <2>4, <2>5, <3>1, <3>2
  <2>6. CASE pc' = "fallback"
    <3>1. emitted = 0
      BY <1>10, <2>6 DEF Spoken!EmitEnds
    <3>2. UNCHANGED got
      BY <2>2, <3>1
    <3>3. MessageInv' /\ PairInv'
      BY <1>1, <1>2, <2>1, <2>4, <3>2, NothingSent
    <3>4. QueueInv'
      BY <1>3, <2>1, <2>6, <3>1 DEF QueueInv
    <3>5. HeardInv'
      BY <1>3, <2>1, <2>6, <3>2 DEF HeardInv
    <3> QED BY <2>4, <3>3, <3>4, <3>5
  <2> QED BY <2>3, <2>5, <2>6
<1>11. CASE Spoken!Fallback
  <2>1. /\ pc = "fallback" /\ pc' = "over" /\ emitted = 0 /\ next > N
        /\ UNCHANGED <<text, synth, speakQueue, emitted, next, opened, conn, open, changed>>
    BY <1>11 DEF Spoken!Fallback, QueueInv
  <2>2. UNCHANGED got \/ \E what \in {"whole", "error"} : conn # 0 /\ Spoken!Send(what, 0)
    BY <1>11 DEF Spoken!Fallback
  <2>3. /\ got' \in [1 .. NConns -> Seq(SpeechMessages)]
        /\ ~changed => \A k \in 1 .. Len(got[1]) : k \in 1 .. Len(got'[1]) /\ got'[1][k] = got[1][k]
    <3>1. CASE UNCHANGED got
      BY <3>1 DEF SpeechTyped
    <3>2. CASE \E what \in {"whole", "error"} : conn # 0 /\ Spoken!Send(what, 0)
      <4>1. PICK what \in {"whole", "error"} : conn # 0 /\ Spoken!Send(what, 0)
        BY <3>2
      <4>2. ~changed => conn = 1 /\ Len(got[1]) \in Nat
        BY <1>4 DEF HeardInv, SpeechTyped
      <4> QED BY <4>1, <4>2, Sending
    <3> QED BY <2>2, <3>1, <3>2
  <2>4. SpeechTyped'
    BY <1>3, <2>1, <2>3 DEF SpeechTyped
  <2>5. MessageInv' /\ PairInv'
    <3>1. CASE UNCHANGED got
      BY <1>1, <1>2, <2>1, <2>4, <3>1, NothingSent
    <3>2. CASE \E what \in {"whole", "error"} : conn # 0 /\ Spoken!Send(what, 0)
      BY <2>1, <3>2, EndSent
    <3> QED BY <2>2, <3>1, <3>2
  <2> QED BY <1>1, <1>9, <2>1, <2>3, <2>4, <2>5
<1>12. ASSUME UNCHANGED <<text, synth, speakQueue, pc, emitted, next, got>>, changed' = TRUE, SpeechTyped', opened =< opened'
       PROVE  SpeechInv'
  <2>1. MessageInv' /\ PairInv'
    BY <1>1, <1>12, NothingSent
  <2>2. QueueInv' /\ HeardInv'
    BY <1>3, <1>12 DEF QueueInv, HeardInv
  <2> QED BY <1>12, <2>1, <2>2
<1>13. CASE Spoken!Accept
  <2>1. SpeechTyped' /\ opened =< opened'
    BY <1>1, <1>3, <1>13 DEF Spoken!Accept, SpeechTyped
  <2> QED BY <1>12, <1>13, <2>1 DEF Spoken!Accept
<1>14. CASE Spoken!SocketCloses
  <2>1. SpeechTyped' /\ opened =< opened'
    <3>1. opened' = opened
      BY <1>14 DEF Spoken!SocketCloses
    <3>2. SpeechTyped'
      BY <1>3, <1>14 DEF Spoken!SocketCloses, SpeechTyped
    <3> QED BY <1>1, <3>1, <3>2
  <2> QED BY <1>12, <1>14, <2>1 DEF Spoken!SocketCloses
<1>15. CASE Spoken!PausePops
  <2>1. SpeechTyped' /\ opened =< opened'
    <3>1. opened' = opened
      BY <1>15 DEF Spoken!PausePops
    <3>2. SpeechTyped'
      BY <1>3, <1>15 DEF Spoken!PausePops, SpeechTyped
    <3> QED BY <1>1, <3>1, <3>2
  <2> QED BY <1>12, <1>15, <2>1 DEF Spoken!PausePops
<1>16. ASSUME Spoken!Stops, UNCHANGED <<text, next, emitted>>
       PROVE  QueueInv' /\ synth' \in [Spoken!Indexes -> {"waits", "runs", "cancelled"} \cup Spoken!Made]
  <2>1. /\ pc' = "over" /\ speakQueue' = <<>>
        /\ synth' = [i \in Spoken!Indexes |-> IF synth[i] \in Spoken!Made THEN synth[i] ELSE "cancelled"]
    BY <1>16 DEF Spoken!Stops
  <2>2. \A i \in Spoken!Indexes : synth'[i] = IF synth[i] \in Spoken!Made THEN synth[i] ELSE "cancelled"
    BY <2>1
  <2>3. speakQueue' \in Seq(Spoken!Indexes) /\ 1 .. Len(speakQueue') = {}
    BY <2>1, EmptySeq
  <2>4. \A i \in 1 .. next - 1 : i \in Spoken!Indexes /\ synth'[i] \in Spoken!Made
    BY <1>0, <2>2 DEF QueueInv
  <2>5. \A i \in Spoken!Indexes : synth'[i] # "runs"
    BY <2>2 DEF Spoken!Made
  <2>6. QueueInv'
    BY <1>3, <1>16, <2>1, <2>3, <2>4, <2>5 DEF QueueInv
  <2>7. synth' \in [Spoken!Indexes -> {"waits", "runs", "cancelled"} \cup Spoken!Made]
    BY <2>1
  <2> QED BY <2>6, <2>7
<1>17. CASE Spoken!Cancelled
  <2>1. /\ UNCHANGED <<text, emitted, next, opened, got>> /\ pc' = "over" /\ changed' = TRUE
        /\ conn' = 0 /\ open' = FALSE /\ Spoken!Stops
    BY <1>17 DEF Spoken!Cancelled, Spoken!Stops
  <2>2. QueueInv' /\ synth' \in [Spoken!Indexes -> {"waits", "runs", "cancelled"} \cup Spoken!Made]
    BY <1>16, <2>1
  <2>3. SpeechTyped'
    BY <1>3, <2>1, <2>2 DEF SpeechTyped
  <2>4. MessageInv' /\ PairInv'
    BY <1>1, <2>1, <2>3, NothingSent
  <2> QED BY <2>1, <2>2, <2>3, <2>4 DEF HeardInv
<1>18. CASE Spoken!Say
  <2>1. pc = "say" /\ UNCHANGED <<text, emitted, next, opened, conn, open, changed, got>>
    BY <1>18 DEF Spoken!Say
  <2>2. CASE conn # 0 /\ open
    <3>1. pc' = "save" /\ UNCHANGED <<synth, speakQueue>>
      BY <1>18, <2>2 DEF Spoken!Say
    <3>2. SpeechTyped'
      BY <1>3, <2>1, <3>1 DEF SpeechTyped
    <3>3. QueueInv'
      BY <1>3, <2>1, <3>1 DEF QueueInv
    <3>4. MessageInv' /\ PairInv'
      BY <1>1, <2>1, <3>2, NothingSent
    <3>5. HeardInv'
      BY <1>3, <2>1, <3>1 DEF HeardInv
    <3> QED BY <3>2, <3>3, <3>4, <3>5
  <2>3. CASE ~(conn # 0 /\ open)
    <3>1. Spoken!Stops /\ pc' = "over"
      BY <1>18, <2>3 DEF Spoken!Say, Spoken!Stops
    <3>2. QueueInv' /\ synth' \in [Spoken!Indexes -> {"waits", "runs", "cancelled"} \cup Spoken!Made]
      BY <1>16, <2>1, <3>1
    <3>3. SpeechTyped'
      BY <1>3, <2>1, <3>1, <3>2 DEF SpeechTyped
    <3>4. MessageInv' /\ PairInv'
      BY <1>1, <2>1, <3>1, <3>3, NothingSent
    <3>5. changed'
      BY <2>1, <2>3 DEF HeardInv
    <3> QED BY <3>2, <3>3, <3>4, <3>5 DEF HeardInv
  <2> QED BY <2>2, <2>3
<1>19. CASE Spoken!Saved
  <2>1. pc = "save" /\ pc' = "emit" /\ UNCHANGED <<text, synth, speakQueue, emitted, next, opened, conn, open, changed, got>>
    BY <1>19 DEF Spoken!Saved
  <2>2. SpeechTyped'
    BY <1>3, <2>1 DEF SpeechTyped
  <2>3. QueueInv'
    BY <1>3, <2>1 DEF QueueInv
  <2>4. MessageInv' /\ PairInv'
    BY <1>1, <2>1, <2>2, NothingSent
  <2>5. HeardInv'
    BY <1>3, <2>1 DEF HeardInv
  <2> QED BY <2>2, <2>3, <2>4, <2>5
<1>20. CASE Spoken!SaveFails
  <2>1. /\ pc = "save" /\ Spoken!Stops /\ pc' = "over" /\ emitted = 0 /\ next = 1
        /\ UNCHANGED <<text, emitted, next, opened, conn, open, changed>>
    BY <1>20 DEF Spoken!SaveFails, Spoken!Stops, QueueInv
  <2>2. QueueInv' /\ synth' \in [Spoken!Indexes -> {"waits", "runs", "cancelled"} \cup Spoken!Made]
    BY <1>16, <2>1
  <2>3. CASE conn # 0 /\ open
    <3>1. Spoken!Send("error", 0)
      BY <1>20, <2>3 DEF Spoken!SaveFails
    <3>2. SpeechTyped'
      <4>1. got' \in [1 .. NConns -> Seq(SpeechMessages)]
        BY <2>3, <3>1, Sending
      <4> QED BY <1>3, <2>1, <2>2, <4>1 DEF SpeechTyped
    <3>3. MessageInv' /\ PairInv'
      BY <2>1, <2>3, <3>1, EndSent
    <3>4. HeardInv'
      <4>1. 1 .. next' - 1 = {}
        BY <2>1
      <4>2. ~changed => Len(got'[1]) > 0 /\ got'[1][Len(got'[1])].kind = "error"
        <5> SUFFICES ASSUME ~changed PROVE Len(got'[1]) > 0 /\ got'[1][Len(got'[1])].kind = "error"
          OBVIOUS
        <5>1. conn = 1 /\ Len(got[1]) \in Nat
          BY <1>4 DEF HeardInv, SpeechTyped
        <5> QED BY <2>3, <3>1, <5>1, Sending
      <4> QED BY <2>1, <4>1, <4>2 DEF HeardInv
    <3> QED BY <2>2, <3>2, <3>3, <3>4
  <2>4. CASE ~(conn # 0 /\ open)
    <3>1. UNCHANGED got
      BY <1>20, <2>4 DEF Spoken!SaveFails
    <3>2. SpeechTyped'
      BY <1>3, <2>1, <2>2, <3>1 DEF SpeechTyped
    <3>3. MessageInv' /\ PairInv'
      BY <1>1, <2>1, <3>1, <3>2, NothingSent
    <3>4. changed'
      BY <2>1, <2>4 DEF HeardInv
    <3> QED BY <2>2, <3>2, <3>3, <3>4 DEF HeardInv
  <2> QED BY <2>3, <2>4
<1> QED BY <1>5, <1>6, <1>7, <1>8, <1>10, <1>11, <1>13, <1>14, <1>15, <1>17, <1>18, <1>19, <1>20 DEF Spoken!Next

\* What the invariant of VoiceSpeech says of a reply.
LEMMA SpeechIsHeld == ASSUME SpeechInv PROVE Spoken!SpeechHolds
<1> USE DEF SpeechInv
<1>1. /\ Len(Spoken!Sentences) \in Nat /\ Spoken!Indexes = 1 .. Len(Spoken!Sentences) /\ next \in Nat
      /\ \A n \in 1 .. NConns : Len(got[n]) \in Nat /\ DOMAIN got[n] = 1 .. Len(got[n])
  BY SpeechNumbers
<1>2. \A kinds : \A p \in Spoken!Of(kinds) : /\ p = <<p[1], p[2]>> /\ p[1] \in 1 .. NConns /\ p[2] \in 1 .. Len(got[p[1]])
                                       /\ Spoken!At(p) = got[p[1]][p[2]] /\ Spoken!At(p).kind \in kinds
  BY <1>1 DEF Spoken!Of, Spoken!Received, Spoken!At
<1>3. \A kinds : \A n \in 1 .. NConns : \A k \in 1 .. Len(got[n]) :
        got[n][k].kind \in kinds => <<n, k>> \in Spoken!Of(kinds) /\ Spoken!At(<<n, k>>) = got[n][k]
  BY <1>1 DEF Spoken!Of, Spoken!Received, Spoken!At
<1>4. Spoken!SpokenInOrder
  <2>1. \A p, q \in Spoken!Of({"chunk"}) : Spoken!Earlier(p, q) => Spoken!At(p).of < Spoken!At(q).of
    BY <1>2 DEF PairInv, Spoken!Earlier
  <2>2. \A p, q \in Spoken!Of({"complete", "whole", "error"}) : p = q
    <3> TAKE p, q \in Spoken!Of({"complete", "whole", "error"})
    <3>0. /\ got[p[1]][p[2]].kind # "chunk" /\ p[1] \in 1 .. NConns /\ p[2] \in 1 .. Len(got[p[1]])
          /\ got[q[1]][q[2]].kind # "chunk" /\ q[1] \in 1 .. NConns /\ q[2] \in 1 .. Len(got[q[1]])
      <4>1. \A r \in Spoken!Of({"complete", "whole", "error"}) :
              /\ got[r[1]][r[2]].kind \in {"complete", "whole", "error"}
              /\ r[1] \in 1 .. NConns /\ r[2] \in 1 .. Len(got[r[1]])
        BY <1>2, Zenon
      <4> QED BY <4>1
    <3>1. p[1] = q[1] /\ p[2] = q[2]
      BY <3>0 DEF PairInv
    <3> QED BY <1>2, <3>1
  <2>3. Spoken!Of({"whole", "error"}) # {} => Spoken!Of({"chunk"}) = {}
    <3> SUFFICES ASSUME NEW p \in Spoken!Of({"whole", "error"}), NEW q \in Spoken!Of({"chunk"}) PROVE FALSE
      OBVIOUS
    <3>1. /\ p[1] \in 1 .. NConns /\ p[2] \in 1 .. Len(got[p[1]])
          /\ got[p[1]][p[2]].kind = "whole" \/ got[p[1]][p[2]].kind = "error"
      <4>1. \A r \in Spoken!Of({"whole", "error"}) :
              /\ r[1] \in 1 .. NConns /\ r[2] \in 1 .. Len(got[r[1]])
              /\ got[r[1]][r[2]].kind \in {"whole", "error"}
        BY <1>2, Zenon
      <4> QED BY <4>1
    <3>2. q[1] \in 1 .. NConns /\ q[2] \in 1 .. Len(got[q[1]]) /\ got[q[1]][q[2]].kind = "chunk"
      <4>1. \A r \in Spoken!Of({"chunk"}) :
              r[1] \in 1 .. NConns /\ r[2] \in 1 .. Len(got[r[1]]) /\ got[r[1]][r[2]].kind = "chunk"
        BY <1>2
      <4> QED BY <4>1
    <3>3. emitted = 0
      BY <3>1 DEF MessageInv
    <3>4. emitted > 0
      BY <3>2 DEF MessageInv
    <3> QED BY <3>3, <3>4
  <2>4. \A p \in Spoken!Of({"complete"}) : p[2] = Len(got[p[1]])
    BY <1>2 DEF MessageInv
  <2> QED BY <2>1, <2>2, <2>3, <2>4, SentencesAre DEF Spoken!SpokenInOrder, SpeechTyped
<1>5. Spoken!HeardWhole
  <2>1. pc = "over" => Spoken!Running = {} /\ speakQueue = <<>>
    BY DEF QueueInv, Spoken!Running
  <2>2. ASSUME pc = "over", ~changed, NEW i \in Spoken!Indexes, synth[i] = "audio",
               ~\E p \in Spoken!Of({"error"}) : p[1] = 1
        PROVE  /\ \E p \in Spoken!Of({"chunk"}) : p[1] = 1 /\ Spoken!At(p).of = i
               /\ \E p \in Spoken!Of({"complete"}) : p[1] = 1 /\ p[2] = Len(got[1])
    <3>0. conn = 1 /\ 1 \in 1 .. NConns /\ Len(got[1]) \in Nat
      BY <1>1, <2>2 DEF HeardInv, SpeechTyped
    <3>7. ~(Len(got[1]) > 0 /\ got[1][Len(got[1])].kind = "error")
      <4> SUFFICES ASSUME Len(got[1]) > 0, got[1][Len(got[1])].kind = "error" PROVE FALSE
        OBVIOUS
      <4>1. Len(got[1]) \in 1 .. Len(got[1])
        BY <3>0
      <4>2. <<1, Len(got[1])>> \in Spoken!Of({"error"})
        BY <1>3, <3>0, <4>1
      <4> QED BY <2>2, <4>2
    <3>8. next > Len(Spoken!Sentences) /\ (emitted > 0 => Len(got[1]) > 0 /\ got[1][Len(got[1])].kind = "complete")
      BY <2>2, <3>7 DEF HeardInv
    <3>1. conn = 1 /\ 1 \in 1 .. NConns /\ i \in 1 .. next - 1
      BY <1>1, <3>0, <3>8
    <3>2. PICK k \in 1 .. Len(got[1]) : got[1][k].kind = "chunk" /\ got[1][k].of = i
      BY <2>2, <3>1 DEF HeardInv
    <3>3. <<1, k>> \in Spoken!Of({"chunk"}) /\ Spoken!At(<<1, k>>).of = i
      BY <1>3, <3>1, <3>2
    <3>4. emitted > 0
      BY <3>1, <3>2 DEF MessageInv
    <3>5. Len(got[1]) \in 1 .. Len(got[1]) /\ got[1][Len(got[1])].kind = "complete"
      BY <1>1, <3>1, <3>4, <3>8
    <3>6. <<1, Len(got[1])>> \in Spoken!Of({"complete"})
      BY <1>3, <3>1, <3>5
    <3> QED BY <3>3, <3>6
  <2> QED BY <2>1, <2>2 DEF Spoken!HeardWhole
<1> QED BY <1>4, <1>5 DEF Spoken!SpeechHolds

-----------------------------------------------------------------------------
(* The proxy's records                                                     *)
LEMMA ProxyA == Proxy!ProxyAssumption BY ExchangesAssumption

Whats  == Proxy!Directions \cup {"fault-injected", "http-request", "http-response", "upstream-error",
                           "websocket-open", "websocket-close"}
Lines  == [what: Whats, n: Nat]
States == Proxy!Over \cup {"new", "inject", "ask", "answer", "open", "pumps", "closing"}

ProxyTyped ==
  /\ fault \in Nat /\ since \in [count: Nat, requests: Nat]
  /\ kind \in [Requests -> {"http", "socket"}]
  /\ \A r, s \in Requests : kind[r] = "socket" /\ kind[s] = "socket" => r = s
  /\ state \in [Requests -> States]
  /\ injected \in [Requests -> [was: BOOLEAN, due: BOOLEAN]]
  /\ log \in [Requests -> Seq(Lines)]
  /\ pump \in [Proxy!Directions -> {"idle", "records", "forwards", "ended"}]
  /\ read \in [Proxy!Directions -> Nat] /\ sent \in [Proxy!Directions -> Nat]

\* What is left of a fault is what was asked for less the requests since.
FaultInv ==
  /\ fault = IF since.requests < since.count THEN since.count - since.requests ELSE 0
  /\ \A r \in Requests :
       /\ injected[r].was = injected[r].due
       /\ injected[r].was => /\ state[r] \in {"inject", "done", "hangs", "broken"}
                             /\ \A k \in 1 .. Len(log[r]) : log[r][k].what = "fault-injected"
       /\ state[r] = "new" => ~injected[r].was /\ Len(log[r]) = 0

\* The numbers of the messages of a direction that are recorded: of all that
\* were read, or of all but the last, which then was not passed on.
Numbers(r, d) == {log[r][k].n : k \in {k \in 1 .. Len(log[r]) : log[r][k].what = d}}
Full(r, d)    == Numbers(r, d) = 1 .. read[d]
Short(r, d)   == Numbers(r, d) = 1 .. read[d] - 1 /\ read[d] = sent[d] + 1

\* What is recorded while the pumps run, and after.
RunsAt(r, d) ==
  /\ pump[d] = "idle" => Full(r, d) /\ sent[d] = read[d]
  /\ pump[d] = "records" => Short(r, d)
  /\ pump[d] = "forwards" => Full(r, d) /\ read[d] = sent[d] + 1
  /\ pump[d] = "ended" => Full(r, d) /\ (sent[d] = read[d] \/ read[d] = sent[d] + 1)
EndsAt(r, d) ==
  \/ Short(r, d)
  \/ /\ Full(r, d) /\ (sent[d] = read[d] \/ read[d] = sent[d] + 1)
     /\ Proxy!Line(d, read[d]) \notin late

\* Where a WebSocket is and where its pumps are.
PumpInv(r) ==
  /\ state[r] \notin {"pumps", "closing", "closed"} =>
       late = {} /\ \A d \in Proxy!Directions : pump[d] = "idle" /\ Full(r, d) /\ sent[d] = read[d]
  /\ state[r] = "pumps" =>
       late = {} /\ \A d \in Proxy!Directions : RunsAt(r, d)
  /\ state[r] \in {"closing", "closed"} =>
       late \subseteq {Proxy!Line(d, read[d]) : d \in Proxy!Directions} /\ \A d \in Proxy!Directions : EndsAt(r, d)

OrderInv(r) ==
  \A j, k \in 1 .. Len(log[r]) :
    /\ log[r][j].what \in Proxy!Directions /\ log[r][k].what = log[r][j].what /\ j < k
         => log[r][j].n < log[r][k].n
    /\ log[r][j].what = "websocket-close" =>
         /\ state[r] = "closed"
         /\ log[r][k].what \in Proxy!Directions /\ j < k => log[r][k].n > sent[log[r][k].what]

SocketInv ==
  \A r \in Requests :
    IF kind[r] = "socket" THEN PumpInv(r) /\ OrderInv(r)
    ELSE state[r] \notin {"open", "pumps", "closing", "closed"}

ProxyInv == ProxyTyped /\ FaultInv /\ SocketInv

\* A record goes to the end of a request's.
LEMMA Appending ==
  ASSUME ProxyTyped, NEW r \in Requests, NEW line \in Lines, Proxy!Appends(r, line)
  PROVE  /\ log' \in [Requests -> Seq(Lines)]
         /\ \A s \in Requests : s # r => log'[s] = log[s]
         /\ Len(log[r]) \in Nat /\ Len(log'[r]) = Len(log[r]) + 1
         /\ \A k \in 1 .. Len(log[r]) : log'[r][k] = log[r][k] /\ log[r][k] \in Lines
         /\ log'[r][Len(log[r]) + 1] = line
<1>1. log \in [Requests -> Seq(Lines)] /\ log[r] \in Seq(Lines)
  BY DEF ProxyTyped
<1>2. /\ Append(log[r], line) \in Seq(Lines) /\ Len(Append(log[r], line)) = Len(log[r]) + 1
      /\ \A k \in 1 .. Len(log[r]) : Append(log[r], line)[k] = log[r][k]
      /\ Append(log[r], line)[Len(log[r]) + 1] = line
  BY <1>1, AppendProperties
<1>3. Len(log[r]) \in Nat /\ \A k \in 1 .. Len(log[r]) : log[r][k] \in Lines
  BY <1>1, LenProperties
<1>4. /\ log'[r] = Append(log[r], line)
      /\ \A s \in Requests : s # r => log'[s] = log[s]
      /\ log' \in [Requests -> Seq(Lines)]
  BY <1>1, <1>2 DEF Proxy!Appends
<1> QED BY <1>2, <1>3, <1>4

\* A message recorded adds its number to those of its direction.
LEMMA Numbering ==
  ASSUME ProxyTyped, NEW r \in Requests, NEW line \in Lines, Proxy!Appends(r, line)
  PROVE  \A d \in Proxy!Directions :
           Numbers(r, d)' = IF line.what = d THEN Numbers(r, d) \cup {line.n} ELSE Numbers(r, d)
<1> DEFINE e == Len(log[r]) + 1
<1>1. /\ Len(log[r]) \in Nat /\ Len(log'[r]) = e
      /\ \A k \in 1 .. Len(log[r]) : log'[r][k] = log[r][k]
      /\ log'[r][e] = line
  BY Appending
<1> SUFFICES ASSUME NEW d \in Proxy!Directions
             PROVE  Numbers(r, d)' = IF line.what = d THEN Numbers(r, d) \cup {line.n} ELSE Numbers(r, d)
  OBVIOUS
<1>2. ASSUME NEW x PROVE x \in Numbers(r, d)' <=> x \in Numbers(r, d) \/ (line.what = d /\ x = line.n)
  <2>1. x \in Numbers(r, d)' <=> \E k \in 1 .. e : log'[r][k].what = d /\ x = log'[r][k].n
    BY <1>1 DEF Numbers
  <2>2. x \in Numbers(r, d) <=> \E k \in 1 .. Len(log[r]) : log[r][k].what = d /\ x = log[r][k].n
    BY DEF Numbers
  <2>3. \A k : k \in 1 .. e <=> k \in 1 .. Len(log[r]) \/ k = e
    BY <1>1
  <2> HIDE DEF e
  <2> QED BY <1>1, <2>1, <2>2, <2>3
<1> QED BY <1>2

\* The proxy begins with no request and no record.
LEMMA ProxyBegins == ASSUME Proxy!Init PROVE ProxyInv
<1>1. <<>> \in Seq(Lines) /\ Len(<<>>) = 0
  BY EmptySeq
<1>2. \A r \in Requests : log[r] = <<>> /\ state[r] = "new" /\ 1 .. Len(log[r]) = {}
  <2>1. \A r \in Requests : log[r] = <<>> /\ state[r] = "new"
    BY DEF Proxy!Init
  <2>2. 1 .. 0 = {}
    OBVIOUS
  <2> QED BY <1>1, <2>1, <2>2
<1>3. ProxyTyped
  BY <1>1 DEF Proxy!Init, ProxyTyped, States
<1>4. FaultInv
  <2>1. fault = 0 /\ since.requests = 0 /\ since.count = 0
    BY DEF Proxy!Init
  <2>2. \A r \in Requests : ~injected[r].was /\ injected[r].was = injected[r].due
    BY DEF Proxy!Init
  <2>3. \A r \in Requests : Len(log[r]) = 0
    BY <1>1, <1>2
  <2> QED BY <2>1, <2>2, <2>3 DEF FaultInv
<1>5. \A r \in Requests : \A d \in Proxy!Directions : Numbers(r, d) = {}
  BY <1>2 DEF Numbers
<1>6. \A r \in Requests : \A d \in Proxy!Directions : Full(r, d) /\ sent[d] = read[d] /\ pump[d] = "idle" /\ late = {}
  <2>1. 1 .. 0 = {}
    OBVIOUS
  <2> QED BY <1>5, <2>1 DEF Proxy!Init, Full
<1>7. SocketInv
  <2>0. late = {}
    BY DEF Proxy!Init
  <2>1. \A r \in Requests : PumpInv(r)
    BY <1>2, <1>6, <2>0 DEF PumpInv
  <2>2. \A r \in Requests : OrderInv(r)
    BY <1>2 DEF OrderInv
  <2>3. \A r \in Requests : state[r] \notin {"open", "pumps", "closing", "closed"}
    BY <1>2
  <2> QED BY <2>1, <2>2, <2>3 DEF SocketInv
<1> QED BY <1>3, <1>4, <1>7 DEF ProxyInv

\* A step that records nothing and leaves the pumps alone.
LEMMA QuietStep ==
  ASSUME ProxyInv, NEW r \in Requests, UNCHANGED <<log, kind, pump, read, sent, late>>, NEW s \in States, Proxy!Becomes(r, s),
         state[r] \notin {"pumps", "closing", "closed"}, s \notin {"pumps", "closing", "closed"},
         s = "open" => kind[r] = "socket"
  PROVE  SocketInv' /\ state' \in [Requests -> States]
<1>1. state \in [Requests -> States]
  BY DEF ProxyInv, ProxyTyped
<1>2. \A q \in Requests : state'[q] = IF q = r THEN s ELSE state[q]
  BY <1>1 DEF Proxy!Becomes
<1>3. state' \in [Requests -> States]
  BY <1>1 DEF Proxy!Becomes
<1>4. \A q \in Requests : \A d \in Proxy!Directions : (Full(q, d)' <=> Full(q, d)) /\ (Short(q, d)' <=> Short(q, d))
  BY DEF Full, Short, Numbers
<1>4a. \A q \in Requests : \A d \in Proxy!Directions : (RunsAt(q, d)' <=> RunsAt(q, d)) /\ (EndsAt(q, d)' <=> EndsAt(q, d))
  BY <1>4 DEF RunsAt, EndsAt, Proxy!Line
<1>5. ASSUME NEW q \in Requests
      PROVE  IF kind'[q] = "socket" THEN PumpInv(q)' /\ OrderInv(q)'
             ELSE state'[q] \notin {"open", "pumps", "closing", "closed"}
  <2>1. CASE kind[q] # "socket"
    BY <1>2, <2>1 DEF ProxyInv, SocketInv
  <2>2. CASE kind[q] = "socket"
    <3>1. PumpInv(q) /\ OrderInv(q)
      BY <2>2 DEF ProxyInv, SocketInv
    <3>2. PumpInv(q)'
      <4>1. state'[q] = state[q] \/ (/\ state[q] \notin {"pumps", "closing", "closed"}
                                     /\ state'[q] \notin {"pumps", "closing", "closed"})
        BY <1>2
      <4> QED BY <1>4, <1>4a, <3>1, <4>1 DEF PumpInv, Proxy!Line
    <3>3. OrderInv(q)'
      BY <1>2, <3>1 DEF OrderInv
    <3> QED BY <2>2, <3>2, <3>3
  <2> QED BY <2>1, <2>2
<1> QED BY <1>3, <1>5 DEF SocketInv

\* A step that records something else than a message.
LEMMA PlainStep ==
  ASSUME ProxyInv, NEW r \in Requests, UNCHANGED <<kind, pump, read, sent, late>>,
         NEW what \in Whats \ Proxy!Directions, Proxy!Records(r, what), NEW s \in States, Proxy!Becomes(r, s),
         \/ state[r] \notin {"pumps", "closing", "closed"} /\ s \notin {"closing", "closed"}
         \/ state[r] = "closing" /\ s = "closed",
         s \in {"open", "pumps"} => kind[r] = "socket",
         what = "websocket-close" => s = "closed"
  PROVE  SocketInv' /\ state' \in [Requests -> States] /\ log' \in [Requests -> Seq(Lines)]
<1> DEFINE e == Len(log[r]) + 1
<1>0. ProxyTyped
  BY DEF ProxyInv
<1>1. state \in [Requests -> States]
  BY DEF ProxyInv, ProxyTyped
<1>2. \A q \in Requests : state'[q] = IF q = r THEN s ELSE state[q]
  BY <1>1 DEF Proxy!Becomes
<1>3. state' \in [Requests -> States]
  BY <1>1 DEF Proxy!Becomes
<1>4. Proxy!Line(what, 0) \in Lines /\ Proxy!Line(what, 0).what = what /\ Proxy!Appends(r, Proxy!Line(what, 0))
  BY DEF Lines, Proxy!Line, Proxy!Records
<1>5. /\ log' \in [Requests -> Seq(Lines)] /\ \A q \in Requests : q # r => log'[q] = log[q]
      /\ Len(log[r]) \in Nat /\ Len(log'[r]) = e
      /\ \A k \in 1 .. Len(log[r]) : log'[r][k] = log[r][k]
      /\ log'[r][e].what = what
  BY <1>0, <1>4, Appending
<1>6. \A q \in Requests : \A d \in Proxy!Directions : Numbers(q, d)' = Numbers(q, d)
  <2> TAKE q \in Requests
  <2>1. CASE q = r
    BY <1>0, <1>4, <2>1, Numbering
  <2>2. CASE q # r
    BY <1>5, <2>2 DEF Numbers
  <2> QED BY <2>1, <2>2
<1>7. \A q \in Requests : \A d \in Proxy!Directions : (Full(q, d)' <=> Full(q, d)) /\ (Short(q, d)' <=> Short(q, d))
  BY <1>6 DEF Full, Short
<1>7a. \A q \in Requests : \A d \in Proxy!Directions : (RunsAt(q, d)' <=> RunsAt(q, d)) /\ (EndsAt(q, d)' <=> EndsAt(q, d))
  BY <1>7 DEF RunsAt, EndsAt, Proxy!Line
<1>8. ASSUME NEW q \in Requests
      PROVE  IF kind'[q] = "socket" THEN PumpInv(q)' /\ OrderInv(q)'
             ELSE state'[q] \notin {"open", "pumps", "closing", "closed"}
  <2>1. CASE kind[q] # "socket"
    BY <1>2, <2>1 DEF ProxyInv, SocketInv
  <2>2. CASE kind[q] = "socket"
    <3>1. PumpInv(q) /\ OrderInv(q)
      BY <2>2 DEF ProxyInv, SocketInv
    <3>2. PumpInv(q)'
      <4>1. CASE state'[q] = state[q] \/ (state[q] = "closing" /\ state'[q] = "closed")
        BY <1>7, <1>7a, <3>1, <4>1 DEF PumpInv, Proxy!Line
      <4>2. CASE /\ state[q] \notin {"pumps", "closing", "closed"}
                 /\ state'[q] \notin {"closing", "closed"}
        <5>1. late' = {} /\ \A d \in Proxy!Directions : /\ pump'[d] = "idle" /\ Full(q, d)'
                                                 /\ sent'[d] = read'[d] /\ RunsAt(q, d)'
          BY <1>7, <3>1, <4>2 DEF PumpInv, RunsAt
        <5> QED BY <4>2, <5>1 DEF PumpInv
      <4> QED BY <1>2, <4>1, <4>2
    <3>3. CASE q # r
      <4>1. log'[q] = log[q] /\ state'[q] = state[q]
        BY <1>2, <1>5, <3>3
      <4>2. OrderInv(q)'
        BY <3>1, <4>1 DEF OrderInv
      <4> QED BY <2>2, <3>2, <4>2
    <3>4. CASE q = r
      <4> SUFFICES ASSUME NEW j \in 1 .. Len(log'[r]), NEW k \in 1 .. Len(log'[r])
                   PROVE  /\ log'[r][j].what \in Proxy!Directions /\ log'[r][k].what = log'[r][j].what /\ j < k
                               => log'[r][j].n < log'[r][k].n
                          /\ log'[r][j].what = "websocket-close" =>
                               /\ state'[r] = "closed"
                               /\ log'[r][k].what \in Proxy!Directions /\ j < k => log'[r][k].n > sent'[log'[r][k].what]
        BY <2>2, <3>2, <3>4 DEF OrderInv
      <4>1. \A i \in 1 .. Len(log'[r]) : i = e \/ (i \in 1 .. Len(log[r]) /\ log'[r][i] = log[r][i])
        BY <1>5
      <4>2. what \notin Proxy!Directions /\ ~(e < k)
        BY <1>5
      <4>3. CASE j = e
        BY <1>2, <1>5, <4>2, <4>3
      <4>4. CASE j \in 1 .. Len(log[r]) /\ log'[r][j] = log[r][j] /\ k = e
        <5>1. log[r][j].what = "websocket-close" => state[r] = "closed"
          BY <3>1, <3>4, <4>4 DEF OrderInv
        <5> QED BY <1>2, <1>5, <4>2, <4>4, <5>1
      <4>5. CASE /\ j \in 1 .. Len(log[r]) /\ log'[r][j] = log[r][j]
                 /\ k \in 1 .. Len(log[r]) /\ log'[r][k] = log[r][k]
        BY <1>2, <3>1, <3>4, <4>5 DEF OrderInv
      <4> QED BY <4>1, <4>3, <4>4, <4>5
    <3> QED BY <2>2, <3>2, <3>3, <3>4
  <2> QED BY <2>1, <2>2
<1> QED BY <1>3, <1>5, <1>8 DEF SocketInv

\* A message recorded: the first of its direction not recorded before.
LEMMA MessageStep ==
  ASSUME ProxyInv, NEW r \in Requests, kind[r] = "socket", NEW d \in Proxy!Directions,
         Proxy!Appends(r, Proxy!Line(d, read[d])), UNCHANGED <<kind, state, read, sent>>, Short(r, d)
  PROVE  /\ log' \in [Requests -> Seq(Lines)]
         /\ Full(r, d)' /\ read[d] = sent[d] + 1 /\ OrderInv(r)'
         /\ \A c \in Proxy!Directions \ {d} : (Full(r, c)' <=> Full(r, c)) /\ (Short(r, c)' <=> Short(r, c))
<1> DEFINE e == Len(log[r]) + 1
<1>1. ProxyTyped /\ read[d] \in Nat /\ sent[d] \in Nat
  BY DEF ProxyInv, ProxyTyped
<1>2. Proxy!Line(d, read[d]) \in Lines /\ Proxy!Line(d, read[d]).what = d /\ Proxy!Line(d, read[d]).n = read[d]
  BY <1>1 DEF Lines, Proxy!Line, Whats
<1>3. /\ log' \in [Requests -> Seq(Lines)]
      /\ Len(log[r]) \in Nat /\ Len(log'[r]) = e
      /\ \A k \in 1 .. Len(log[r]) : log'[r][k] = log[r][k]
      /\ log'[r][e].what = d /\ log'[r][e].n = read[d]
  BY <1>1, <1>2, Appending
<1>4. \A c \in Proxy!Directions : Numbers(r, c)' = IF c = d THEN Numbers(r, d) \cup {read[d]} ELSE Numbers(r, c)
  BY <1>1, <1>2, Numbering
<1>5. Numbers(r, d) = 1 .. read[d] - 1 /\ read[d] = sent[d] + 1
  BY DEF Short
<1>6. Full(r, d)'
  <2>1. (1 .. read[d] - 1) \cup {read[d]} = 1 .. read[d]
    BY <1>1, <1>5
  <2> QED BY <1>4, <1>5, <2>1 DEF Full
<1>7. \A c \in Proxy!Directions \ {d} : (Full(r, c)' <=> Full(r, c)) /\ (Short(r, c)' <=> Short(r, c))
  BY <1>4 DEF Full, Short
<1>8. \A k \in 1 .. Len(log[r]) : log[r][k].what = d => log[r][k].n < read[d]
  <2> TAKE k \in 1 .. Len(log[r])
  <2>1. log[r][k].what = d => log[r][k].n \in Numbers(r, d)
    BY DEF Numbers
  <2> QED BY <1>1, <1>5, <2>1
<1>9. OrderInv(r)'
  <2> SUFFICES ASSUME NEW j \in 1 .. Len(log'[r]), NEW k \in 1 .. Len(log'[r])
               PROVE  /\ log'[r][j].what \in Proxy!Directions /\ log'[r][k].what = log'[r][j].what /\ j < k
                           => log'[r][j].n < log'[r][k].n
                      /\ log'[r][j].what = "websocket-close" =>
                           /\ state'[r] = "closed"
                           /\ log'[r][k].what \in Proxy!Directions /\ j < k => log'[r][k].n > sent'[log'[r][k].what]
    BY DEF OrderInv
  <2>0. OrderInv(r)
    BY DEF ProxyInv, SocketInv
  <2>1. \A i \in 1 .. Len(log'[r]) : i = e \/ (i \in 1 .. Len(log[r]) /\ log'[r][i] = log[r][i])
    BY <1>3
  <2>2. d # "websocket-close" /\ ~(e < k)
    BY <1>3 DEF Proxy!Directions
  <2>3. CASE j = e
    BY <1>3, <2>2, <2>3
  <2>4. CASE j \in 1 .. Len(log[r]) /\ log'[r][j] = log[r][j] /\ k = e
    <3>1. log[r][j].what = "websocket-close" => state[r] = "closed"
      BY <2>0, <2>4 DEF OrderInv
    <3>2. log[r][j].what = d => log[r][j].n < read[d]
      BY <1>8, <2>4
    <3> QED BY <1>1, <1>3, <1>5, <2>4, <3>1, <3>2
  <2>5. CASE /\ j \in 1 .. Len(log[r]) /\ log'[r][j] = log[r][j]
             /\ k \in 1 .. Len(log[r]) /\ log'[r][k] = log[r][k]
    BY <2>0, <2>5 DEF OrderInv
  <2> QED BY <2>1, <2>3, <2>4, <2>5
<1> QED BY <1>3, <1>5, <1>6, <1>7, <1>9

\* Requests that are under way leave the count of a fault as it is.
LEMMA FaultKept ==
  ASSUME ProxyInv, UNCHANGED <<fault, since, injected>>,
         \A r \in Requests : \/ UNCHANGED <<state[r], log[r]>>
                             \/ ~injected[r].was /\ state'[r] # "new"
  PROVE  FaultInv'
<1>1. FaultInv
  BY DEF ProxyInv
<1>2. \A r \in Requests :
        /\ injected[r].was = injected[r].due
        /\ injected[r].was => /\ state'[r] \in {"inject", "done", "hangs", "broken"}
                              /\ \A k \in 1 .. Len(log'[r]) : log'[r][k].what = "fault-injected"
        /\ state'[r] = "new" => ~injected[r].was /\ Len(log'[r]) = 0
  BY <1>1 DEF FaultInv
<1> QED BY <1>1, <1>2 DEF FaultInv

\* A fault is asked for.
LEMMA FaultAsked == ASSUME ProxyInv, NEW n \in Nat, Proxy!SetFault(n) PROVE ProxyInv'
<1>1. fault' = n /\ since' = [count |-> n, requests |-> 0] /\ UNCHANGED <<kind, state, injected, log, pump, read, sent, late>>
  BY DEF Proxy!SetFault, Proxy!sockets
<1>2. ProxyTyped'
  BY <1>1 DEF ProxyInv, ProxyTyped
<1>3. FaultInv'
  <2>1. since'.requests = 0 /\ since'.count = n /\ fault' = IF 0 < n THEN n - 0 ELSE 0
    BY <1>1
  <2>2. FaultInv
    BY DEF ProxyInv
  <2> QED BY <1>1, <2>1, <2>2 DEF FaultInv
<1>4. SocketInv'
  <2>1. \A r \in Requests : (PumpInv(r) => PumpInv(r)') /\ (OrderInv(r) => OrderInv(r)')
    BY <1>1 DEF PumpInv, OrderInv, RunsAt, EndsAt, Full, Short, Numbers, Proxy!Line
  <2>2. SocketInv
    BY DEF ProxyInv
  <2> QED BY <1>1, <2>1, <2>2 DEF SocketInv
<1> QED BY <1>2, <1>3, <1>4 DEF ProxyInv

\* A request comes.
LEMMA RequestComes == ASSUME ProxyInv, NEW r \in Requests, Proxy!Arrive(r) PROVE ProxyInv'
<1> USE DEF ProxyInv
<1>1. /\ state[r] = "new" /\ UNCHANGED <<kind, log, pump, read, sent, late>>
      /\ fault' = IF fault > 0 THEN fault - 1 ELSE 0
      /\ since' = [since EXCEPT !.requests = @ + 1]
      /\ injected' = [injected EXCEPT ![r] = [was |-> fault > 0, due |-> since.requests < since.count]]
  BY DEF Proxy!Arrive, Proxy!Left, Proxy!sockets
<1>2. PICK s \in {"inject", "refused", "ask", "open"} :
        /\ Proxy!Becomes(r, s) /\ (s = "open" => kind[r] = "socket") /\ (fault > 0 => s = "inject")
  BY DEF Proxy!Arrive, ProxyTyped
<1>3. SocketInv' /\ state' \in [Requests -> States]
  BY <1>1, <1>2, QuietStep DEF States, Proxy!Over
<1>4. fault \in Nat /\ since \in [count: Nat, requests: Nat] /\ since.requests \in Nat /\ since.count \in Nat
  BY DEF ProxyTyped
<1>5. since'.requests = since.requests + 1 /\ since'.count = since.count /\ since' \in [count: Nat, requests: Nat]
  BY <1>1, <1>4
<1>6. ProxyTyped'
  <2>1. injected' \in [Requests -> [was: BOOLEAN, due: BOOLEAN]]
    BY <1>1 DEF ProxyTyped
  <2>2. fault' \in Nat
    BY <1>1, <1>4
  <2> QED BY <1>1, <1>3, <1>5, <2>1, <2>2 DEF ProxyTyped
<1>7. fault = IF since.requests < since.count THEN since.count - since.requests ELSE 0
  BY DEF FaultInv
<1>8. (fault > 0) <=> (since.requests < since.count)
  BY <1>4, <1>7
<1>9. fault' = IF since'.requests < since'.count THEN since'.count - since'.requests ELSE 0
  BY <1>1, <1>4, <1>5, <1>7
<1>10. ASSUME NEW q \in Requests
       PROVE  /\ injected'[q].was = injected'[q].due
              /\ injected'[q].was => /\ state'[q] \in {"inject", "done", "hangs", "broken"}
                                     /\ \A k \in 1 .. Len(log'[q]) : log'[q][k].what = "fault-injected"
              /\ state'[q] = "new" => ~injected'[q].was /\ Len(log'[q]) = 0
  <2>1. CASE q = r
    <3>1. injected'[r].was = (fault > 0) /\ injected'[r].due = (since.requests < since.count)
      BY <1>1 DEF ProxyTyped
    <3>2. state'[r] = s /\ s # "new" /\ (fault > 0 => s = "inject")
      BY <1>2 DEF Proxy!Becomes, ProxyTyped
    <3>3. Len(log'[r]) = 0 /\ 1 .. 0 = {}
      BY <1>1 DEF FaultInv
    <3>4. (fault > 0) = (since.requests < since.count)
      BY <1>8
    <3>5. injected'[r].was = injected'[r].due
      BY <3>1, <3>4, Zenon
    <3>6. injected'[r].was => fault > 0
      BY <3>1, Zenon
    <3> QED BY <2>1, <3>2, <3>3, <3>5, <3>6
  <2>2. CASE q # r
    <3>1. injected'[q] = injected[q] /\ state'[q] = state[q] /\ log'[q] = log[q]
      BY <1>1, <1>2, <2>2 DEF Proxy!Becomes, ProxyTyped
    <3> QED BY <3>1 DEF FaultInv
  <2> QED BY <2>1, <2>2
<1>11. FaultInv'
  BY <1>9, <1>10 DEF FaultInv
<1> QED BY <1>3, <1>6, <1>11

\* A fault is injected.
LEMMA FaultInjected == ASSUME ProxyInv, NEW r \in Requests, Proxy!Inject(r) PROVE ProxyInv'
<1> USE DEF ProxyInv
<1>1. state[r] = "inject" /\ Proxy!Records(r, "fault-injected")
      /\ UNCHANGED <<fault, since, sets, kind, injected, pump, read, sent, late>>
  BY DEF Proxy!Inject, Proxy!controls, Proxy!sockets
<1>2. PICK s \in {"done", "hangs", "broken"} : Proxy!Becomes(r, s)
  BY DEF Proxy!Inject
<1>3. SocketInv' /\ state' \in [Requests -> States] /\ log' \in [Requests -> Seq(Lines)]
  BY <1>1, <1>2, PlainStep DEF States, Proxy!Over, Whats, Proxy!Directions
<1>4. ProxyTyped'
  BY <1>1, <1>3 DEF ProxyTyped
<1>5. /\ \A q \in Requests : q # r => log'[q] = log[q]
      /\ Len(log[r]) \in Nat /\ Len(log'[r]) = Len(log[r]) + 1
      /\ \A k \in 1 .. Len(log[r]) : log'[r][k] = log[r][k]
      /\ log'[r][Len(log[r]) + 1].what = "fault-injected"
  <2>1. Proxy!Line("fault-injected", 0) \in Lines /\ Proxy!Line("fault-injected", 0).what = "fault-injected"
    BY DEF Proxy!Line, Lines, Whats
  <2> QED BY <1>1, <2>1, Appending DEF Proxy!Records
<1>6. ASSUME NEW q \in Requests
      PROVE  /\ injected[q].was = injected[q].due
             /\ injected[q].was => /\ state'[q] \in {"inject", "done", "hangs", "broken"}
                                   /\ \A k \in 1 .. Len(log'[q]) : log'[q][k].what = "fault-injected"
             /\ state'[q] = "new" => ~injected[q].was /\ Len(log'[q]) = 0
  <2>1. CASE q = r
    <3>1. state'[r] = s
      BY <1>2 DEF Proxy!Becomes, ProxyTyped
    <3>2. ASSUME injected[r].was, NEW k \in 1 .. Len(log'[r]) PROVE log'[r][k].what = "fault-injected"
      <4>1. k = Len(log[r]) + 1 \/ k \in 1 .. Len(log[r])
        BY <1>5
      <4> QED BY <1>5, <3>2, <4>1 DEF FaultInv
    <3> QED BY <2>1, <3>1, <3>2 DEF FaultInv
  <2>2. CASE q # r
    <3>1. state'[q] = state[q] /\ log'[q] = log[q]
      BY <1>2, <1>5, <2>2 DEF Proxy!Becomes, ProxyTyped
    <3> QED BY <3>1 DEF FaultInv
  <2> QED BY <2>1, <2>2
<1>7. FaultInv'
  BY <1>1, <1>6 DEF FaultInv
<1> QED BY <1>3, <1>4, <1>7

\* What else is recorded of a request, by a step that leaves the pumps alone.
LEMMA RecordStep ==
  ASSUME ProxyInv, NEW r \in Requests, UNCHANGED <<fault, since, kind, injected, pump, read, sent, late>>,
         NEW s \in States, Proxy!Becomes(r, s), s # "new", state[r] \in {"ask", "answer", "open", "closing"},
         \/ /\ \E what \in Whats \ (Proxy!Directions \cup {"websocket-close"}) : Proxy!Records(r, what)
            /\ state[r] # "closing" /\ s \notin {"closing", "closed", "open"}
            /\ s = "pumps" => kind[r] = "socket"
         \/ Proxy!Records(r, "websocket-close") /\ state[r] = "closing" /\ s = "closed"
         \/ UNCHANGED log /\ state[r] # "closing" /\ s \notin {"pumps", "closing", "closed", "open"}
  PROVE  ProxyInv'
<1> USE DEF ProxyInv
<1>1. SocketInv' /\ state' \in [Requests -> States] /\ log' \in [Requests -> Seq(Lines)]
  <2>1. CASE \E what \in Whats \ (Proxy!Directions \cup {"websocket-close"}) :
               Proxy!Records(r, what) /\ state[r] # "closing" /\ s \notin {"closing", "closed", "open"}
                 /\ (s = "pumps" => kind[r] = "socket")
    BY <2>1, PlainStep
  <2>2. CASE Proxy!Records(r, "websocket-close") /\ state[r] = "closing" /\ s = "closed"
    <3>1. "websocket-close" \in Whats \ Proxy!Directions
      BY DEF Whats, Proxy!Directions
    <3> QED BY <2>2, <3>1, PlainStep
  <2>3. CASE UNCHANGED log /\ state[r] # "closing" /\ s \notin {"pumps", "closing", "closed", "open"}
    BY <2>3, QuietStep DEF ProxyTyped
  <2> QED BY <2>1, <2>2, <2>3
<1>2. ProxyTyped'
  BY <1>1 DEF ProxyTyped
<1>3. ~injected[r].was
  BY DEF FaultInv
<1>4. \A q \in Requests : q # r => state'[q] = state[q] /\ log'[q] = log[q]
  BY DEF Proxy!Becomes, Proxy!Records, Proxy!Appends, ProxyTyped
<1>5. state'[r] = s
  BY DEF Proxy!Becomes, ProxyTyped
<1>6. FaultInv'
  BY <1>3, <1>4, <1>5, FaultKept
<1> QED BY <1>1, <1>2, <1>6

\* The socket that is pumping, and its invariant put together again.
LEMMA PumpStep ==
  ASSUME ProxyInv, NEW r \in Requests, state[r] = "pumps",
         UNCHANGED <<fault, since, kind, injected>>, state' \in [Requests -> States],
         state'[r] \in {"pumps", "closing"}, \A q \in Requests : q # r => state'[q] = state[q] /\ log'[q] = log[q],
         log' \in [Requests -> Seq(Lines)], pump' \in [Proxy!Directions -> {"idle", "records", "forwards", "ended"}],
         read' \in [Proxy!Directions -> Nat], sent' \in [Proxy!Directions -> Nat],
         PumpInv(r)', OrderInv(r)'
  PROVE  ProxyInv'
<1> USE DEF ProxyInv
<1>1. kind[r] = "socket" /\ ~injected[r].was
  BY DEF SocketInv, FaultInv, ProxyTyped
<1>2. ProxyTyped'
  BY DEF ProxyTyped
<1>3. FaultInv'
  BY <1>1, FaultKept
<1>4. SocketInv'
  <2> SUFFICES ASSUME NEW q \in Requests, q # r, kind[q] # "socket"
               PROVE  state'[q] \notin {"open", "pumps", "closing", "closed"}
    BY <1>1 DEF SocketInv, ProxyTyped
  <2> QED BY DEF SocketInv
<1> QED BY <1>2, <1>3, <1>4

\* What a pump does.
LEMMA MessageRead ==
  ASSUME ProxyInv, NEW r \in Requests, NEW d \in Proxy!Directions,
         Proxy!ReadMessage(r, d) \/ Proxy!RecordMessage(r, d) \/ Proxy!ForwardMessage(r, d) \/ Proxy!SourceEnds(r, d)
  PROVE  ProxyInv'
<1> USE DEF ProxyInv
<1>1. /\ state[r] = "pumps" /\ UNCHANGED <<fault, since, kind, injected, state, late>>
      /\ pump' = [pump EXCEPT ![d] = pump'[d]] /\ pump'[d] \in {"idle", "records", "forwards", "ended"}
      /\ read' = [read EXCEPT ![d] = read'[d]] /\ sent' = [sent EXCEPT ![d] = sent'[d]]
  BY DEF Proxy!ReadMessage, Proxy!RecordMessage, Proxy!ForwardMessage, Proxy!SourceEnds, Proxy!Pumping, Proxy!Goes, Proxy!controls, ProxyTyped
<1>2. /\ late = {} /\ kind[r] = "socket" /\ OrderInv(r) /\ \A c \in Proxy!Directions : RunsAt(r, c)
      /\ read[d] \in Nat /\ sent[d] \in Nat
  BY <1>1 DEF SocketInv, PumpInv, ProxyTyped
<1>3. \A c \in Proxy!Directions : c # d => UNCHANGED <<pump[c], read[c], sent[c]>>
  BY <1>1 DEF ProxyTyped
<1>4. CASE Proxy!RecordMessage(r, d)
  <2>1. pump[d] = "records" /\ pump'[d] = "forwards" /\ Proxy!Appends(r, Proxy!Line(d, read[d])) /\ UNCHANGED <<read, sent>>
    BY <1>4 DEF Proxy!RecordMessage, Proxy!Goes, ProxyTyped
  <2>2. Short(r, d)
    BY <1>2, <2>1 DEF RunsAt
  <2>3. /\ log' \in [Requests -> Seq(Lines)] /\ Full(r, d)' /\ read[d] = sent[d] + 1 /\ OrderInv(r)'
        /\ \A c \in Proxy!Directions \ {d} : (Full(r, c)' <=> Full(r, c)) /\ (Short(r, c)' <=> Short(r, c))
    BY <1>1, <1>2, <2>1, <2>2, MessageStep
  <2>4. \A c \in Proxy!Directions : RunsAt(r, c)'
    <3> TAKE c \in Proxy!Directions
    <3>1. CASE c = d
      BY <2>1, <2>3, <3>1 DEF RunsAt
    <3>2. CASE c # d
      BY <1>2, <1>3, <2>3, <3>2 DEF RunsAt
    <3> QED BY <3>1, <3>2
  <2>5. PumpInv(r)'
    BY <1>1, <1>2, <2>4 DEF PumpInv
  <2>6. \A q \in Requests : q # r => log'[q] = log[q]
    BY <2>1 DEF Proxy!Appends, ProxyTyped
  <2>7. pump' \in [Proxy!Directions -> {"idle", "records", "forwards", "ended"}]
    BY <1>1 DEF ProxyTyped
  <2> QED BY <1>1, <2>1, <2>3, <2>5, <2>6, <2>7, PumpStep DEF ProxyTyped
<1>5. ASSUME UNCHANGED log, RunsAt(r, d)', read'[d] \in Nat, sent'[d] \in Nat, sent'[d] >= sent[d],
             \A k \in 1 .. Len(log[r]) : log[r][k].what # "websocket-close"
      PROVE  ProxyInv'
  <2>1. \A c \in Proxy!Directions : RunsAt(r, c)'
    <3> TAKE c \in Proxy!Directions
    <3>1. CASE c # d
      <4>1. read'[c] = read[c] /\ sent'[c] = sent[c] /\ pump'[c] = pump[c] /\ Numbers(r, c)' = Numbers(r, c)
        BY <1>3, <1>5, <3>1 DEF Numbers
      <4>2. (Full(r, c)' <=> Full(r, c)) /\ (Short(r, c)' <=> Short(r, c))
        BY <4>1 DEF Full, Short
      <4> QED BY <1>2, <4>1, <4>2 DEF RunsAt
    <3> QED BY <1>5, <3>1
  <2>2. PumpInv(r)'
    BY <1>1, <1>2, <2>1 DEF PumpInv
  <2>3. OrderInv(r)'
    BY <1>1, <1>2, <1>5 DEF OrderInv
  <2>4. /\ pump' \in [Proxy!Directions -> {"idle", "records", "forwards", "ended"}]
        /\ read' \in [Proxy!Directions -> Nat] /\ sent' \in [Proxy!Directions -> Nat]
    BY <1>1, <1>5 DEF ProxyTyped
  <2> QED BY <1>1, <1>5, <2>2, <2>3, <2>4, PumpStep DEF ProxyTyped
<1>6. \A k \in 1 .. Len(log[r]) : log[r][k].what # "websocket-close"
  BY <1>1, <1>2 DEF OrderInv
<1>7. CASE Proxy!ReadMessage(r, d)
  <2>1. pump[d] = "idle" /\ pump'[d] = "records" /\ read'[d] = read[d] + 1 /\ UNCHANGED <<log, sent>>
    BY <1>7 DEF Proxy!ReadMessage, Proxy!Goes, ProxyTyped
  <2>2. Full(r, d) /\ sent[d] = read[d]
    BY <1>2, <2>1 DEF RunsAt
  <2>3. Numbers(r, d)' = 1 .. read'[d] - 1 /\ read'[d] = sent'[d] + 1
    BY <1>2, <2>1, <2>2 DEF Full, Numbers
  <2>4. RunsAt(r, d)'
    BY <2>1, <2>3 DEF RunsAt, Short
  <2> QED BY <1>2, <1>5, <1>6, <2>1, <2>4
<1>8. CASE Proxy!ForwardMessage(r, d)
  <2>1. pump[d] = "forwards" /\ UNCHANGED <<log, read>>
        /\ \/ sent'[d] = sent[d] + 1 /\ pump'[d] = "idle"
           \/ sent'[d] = sent[d] /\ pump'[d] = "ended"
    BY <1>8 DEF Proxy!ForwardMessage, Proxy!Goes, ProxyTyped
  <2>2. Full(r, d) /\ read[d] = sent[d] + 1
    BY <1>2, <2>1 DEF RunsAt
  <2>3. Full(r, d)'
    BY <2>1, <2>2 DEF Full, Numbers
  <2>4. RunsAt(r, d)'
    BY <2>1, <2>2, <2>3 DEF RunsAt
  <2> QED BY <1>2, <1>5, <1>6, <2>1, <2>4
<1>9. CASE Proxy!SourceEnds(r, d)
  <2>1. pump[d] = "idle" /\ pump'[d] = "ended" /\ UNCHANGED <<log, read, sent>>
    BY <1>9 DEF Proxy!SourceEnds, Proxy!Goes, ProxyTyped
  <2>2. Full(r, d)' /\ sent[d] = read[d]
    BY <1>2, <2>1 DEF RunsAt, Full, Numbers
  <2>3. RunsAt(r, d)'
    BY <2>1, <2>2 DEF RunsAt
  <2> QED BY <1>2, <1>5, <1>6, <2>1, <2>3
<1> QED BY <1>4, <1>7, <1>8, <1>9

\* One pump has ended and the other is cancelled.
LEMMA PumpsEnd == ASSUME ProxyInv, NEW r \in Requests, Proxy!OnePumpEnds(r) PROVE ProxyInv'
<1> USE DEF ProxyInv
<1>1. /\ state[r] = "pumps" /\ UNCHANGED <<fault, since, kind, injected, log, read>>
      /\ pump' = [d \in Proxy!Directions |-> "ended"] /\ Proxy!Becomes(r, "closing")
  BY DEF Proxy!OnePumpEnds, Proxy!Pumping, Proxy!controls
<1>2. PICK kept \in SUBSET {d \in Proxy!Directions : pump[d] = "records"} : late' = {Proxy!Line(d, read[d]) : d \in kept}
  BY DEF Proxy!OnePumpEnds
<1>3. PICK gone \in SUBSET {d \in Proxy!Directions : pump[d] = "forwards"} :
        sent' = [d \in Proxy!Directions |-> IF d \in gone THEN sent[d] + 1 ELSE sent[d]]
  BY DEF Proxy!OnePumpEnds
<1>4. /\ kind[r] = "socket" /\ OrderInv(r) /\ \A c \in Proxy!Directions : RunsAt(r, c)
      /\ \A d \in Proxy!Directions : read[d] \in Nat /\ sent[d] \in Nat
  BY <1>1 DEF SocketInv, PumpInv, ProxyTyped
<1>5. \A d \in Proxy!Directions : EndsAt(r, d)'
  <2> TAKE d \in Proxy!Directions
  <2>1. (Full(r, d)' <=> Full(r, d)) /\ Numbers(r, d)' = Numbers(r, d)
    BY <1>1 DEF Full, Numbers
  <2>2. CASE pump[d] = "records"
    <3>1. sent'[d] = sent[d]
      BY <1>3, <2>2
    <3>2. Short(r, d)'
      BY <1>1, <1>4, <2>1, <2>2, <3>1 DEF RunsAt, Short
    <3> QED BY <3>2 DEF EndsAt
  <2>3. CASE pump[d] # "records"
    <3>1. Full(r, d) /\ (sent[d] = read[d] \/ read[d] = sent[d] + 1)
      BY <1>4, <2>3 DEF RunsAt, ProxyTyped
    <3>2. pump[d] = "forwards" => read[d] = sent[d] + 1
      BY <1>4 DEF RunsAt
    <3>3. sent'[d] = read[d] \/ read[d] = sent'[d] + 1
      BY <1>3, <3>1, <3>2
    <3>4. Proxy!Line(d, read[d]) \notin late'
      <4>1. \A c \in kept : c # d
        BY <2>3
      <4>2. \A c \in kept : Proxy!Line(c, read[c]) # Proxy!Line(d, read[d])
        <5> TAKE c \in kept
        <5>1. Proxy!Line(c, read[c]).what = c /\ Proxy!Line(d, read[d]).what = d
          BY DEF Proxy!Line
        <5> QED BY <4>1, <5>1
      <4> QED BY <1>2, <4>2
    <3>5. Full(r, d)' /\ read' = read /\ Proxy!Line(d, read[d])' = Proxy!Line(d, read[d])
      BY <1>1, <2>1, <3>1 DEF Proxy!Line
    <3> QED BY <3>3, <3>4, <3>5 DEF EndsAt
  <2> QED BY <2>2, <2>3
<1>6. late' \subseteq {Proxy!Line(d, read'[d]) : d \in Proxy!Directions}
  BY <1>1, <1>2 DEF Proxy!Line
<1>7. state' \in [Requests -> States] /\ state'[r] = "closing" /\ \A q \in Requests : q # r => state'[q] = state[q]
  BY <1>1 DEF Proxy!Becomes, ProxyTyped, States
<1>8. PumpInv(r)'
  BY <1>5, <1>6, <1>7 DEF PumpInv, Proxy!Line
<1>9. OrderInv(r)'
  <2>1. \A k \in 1 .. Len(log[r]) : log[r][k].what # "websocket-close"
    BY <1>1, <1>4 DEF OrderInv
  <2> QED BY <1>1, <1>4, <2>1 DEF OrderInv
<1>10. sent' \in [Proxy!Directions -> Nat] /\ pump' \in [Proxy!Directions -> {"idle", "records", "forwards", "ended"}]
  BY <1>1, <1>3, <1>4
<1> QED BY <1>1, <1>7, <1>8, <1>9, <1>10, PumpStep DEF ProxyTyped

\* A thread records what its pump was cancelled over.
LEMMA RecordedLate == ASSUME ProxyInv, NEW r \in Requests, Proxy!LateRecord(r) PROVE ProxyInv'
<1> USE DEF ProxyInv
<1>1. kind[r] = "socket" /\ UNCHANGED <<fault, since, kind, injected, state, pump, read, sent>>
  BY DEF Proxy!LateRecord, Proxy!controls
<1>2. PICK m \in late : Proxy!Appends(r, m) /\ late' = late \ {m}
  BY DEF Proxy!LateRecord
<1>3. PumpInv(r) /\ OrderInv(r)
  BY <1>1 DEF SocketInv
<1>4. state[r] \in {"closing", "closed"} /\ late \subseteq {Proxy!Line(d, read[d]) : d \in Proxy!Directions}
      /\ \A d \in Proxy!Directions : EndsAt(r, d)
  BY <1>2, <1>3 DEF PumpInv
<1>5. PICK d \in Proxy!Directions : m = Proxy!Line(d, read[d])
  BY <1>2, <1>4
<1>6. Short(r, d)
  BY <1>2, <1>4, <1>5 DEF EndsAt
<1>7. /\ log' \in [Requests -> Seq(Lines)] /\ Full(r, d)' /\ read[d] = sent[d] + 1 /\ OrderInv(r)'
      /\ \A c \in Proxy!Directions \ {d} : (Full(r, c)' <=> Full(r, c)) /\ (Short(r, c)' <=> Short(r, c))
  BY <1>1, <1>2, <1>5, <1>6, MessageStep
<1>8. \A c \in Proxy!Directions : EndsAt(r, c)'
  <2> TAKE c \in Proxy!Directions
  <2>1. Proxy!Line(c, read[c])' = Proxy!Line(c, read[c])
    BY <1>1 DEF Proxy!Line
  <2>2. CASE c = d
    BY <1>1, <1>2, <1>5, <1>7, <2>1, <2>2 DEF EndsAt
  <2>3. CASE c # d
    BY <1>1, <1>2, <1>4, <1>7, <2>1, <2>3 DEF EndsAt
  <2> QED BY <2>2, <2>3
<1>9. PumpInv(r)'
  <2>1. late' \subseteq {Proxy!Line(c, read'[c]) : c \in Proxy!Directions}
    BY <1>1, <1>2, <1>4
  <2> QED BY <1>1, <1>4, <1>8, <2>1 DEF PumpInv, Proxy!Line
<1>10. \A q \in Requests : q # r => log'[q] = log[q]
  BY <1>2 DEF Proxy!Appends, ProxyTyped
<1>11. ~injected[r].was
  BY <1>4 DEF FaultInv
<1>12. FaultInv'
  <2>1. state'[r] # "new"
    BY <1>1, <1>4
  <2> QED BY <1>1, <1>10, <1>11, <2>1, FaultKept
<1>13. ProxyTyped'
  BY <1>1, <1>7 DEF ProxyTyped
<1>14. SocketInv'
  <2> SUFFICES ASSUME NEW q \in Requests, q # r, kind[q] # "socket"
               PROVE  state[q] \notin {"open", "pumps", "closing", "closed"}
    BY <1>1, <1>7, <1>9 DEF SocketInv, ProxyTyped
  <2> QED BY DEF SocketInv
<1> QED BY <1>12, <1>13, <1>14

\* Each request, message and record keeps the proxy's account of them.
LEMMA ProxyStep == ASSUME ProxyInv, [Proxy!Next]_proxyVars PROVE ProxyInv'
<1>1. CASE UNCHANGED proxyVars
  <2>1. UNCHANGED <<fault, since, kind, state, injected, log, pump, read, sent, late>>
    BY <1>1 DEF proxyVars
  <2>2. ProxyTyped' /\ FaultInv'
    BY <2>1 DEF ProxyInv, ProxyTyped, FaultInv
  <2>3. \A r \in Requests : (PumpInv(r) => PumpInv(r)') /\ (OrderInv(r) => OrderInv(r)')
    BY <2>1 DEF PumpInv, OrderInv, RunsAt, EndsAt, Full, Short, Numbers, Proxy!Line
  <2>4. SocketInv'
    BY <2>1, <2>3 DEF ProxyInv, SocketInv
  <2> QED BY <2>2, <2>4 DEF ProxyInv
<1>2. CASE Proxy!ConfigureFault \/ Proxy!ResetFault
  BY <1>2, ProxyA, FaultAsked DEF Proxy!ConfigureFault, Proxy!ResetFault, Proxy!ProxyAssumption
<1>3. ASSUME NEW r \in Requests PROVE (Proxy!Arrive(r) \/ Proxy!Inject(r) \/ Proxy!OnePumpEnds(r) \/ Proxy!LateRecord(r)) => ProxyInv'
  BY RequestComes, FaultInjected, PumpsEnd, RecordedLate
<1>4. ASSUME NEW r \in Requests, Proxy!Ask(r) \/ Proxy!Answer(r) \/ Proxy!Open(r) \/ Proxy!CloseSocket(r) PROVE ProxyInv'
  <2>1. UNCHANGED <<fault, since, kind, injected, pump, read, sent, late>>
    BY <1>4 DEF Proxy!Ask, Proxy!Answer, Proxy!Open, Proxy!CloseSocket, Proxy!controls, Proxy!sockets
  <2>2. state[r] = "open" => kind[r] = "socket"
    BY DEF ProxyInv, ProxyTyped, SocketInv
  <2>3. /\ {"done", "badGateway", "broken", "answer", "pumps", "closed"} \subseteq States
        /\ {"http-request", "http-response", "upstream-error", "websocket-open"}
             \subseteq Whats \ (Proxy!Directions \cup {"websocket-close"})
    BY DEF States, Proxy!Over, Whats, Proxy!Directions
  <2>4. CASE Proxy!Ask(r)
    BY <2>1, <2>3, <2>4, RecordStep DEF Proxy!Ask
  <2>5. CASE Proxy!Answer(r)
    BY <2>1, <2>3, <2>5, RecordStep DEF Proxy!Answer
  <2>6. CASE Proxy!Open(r)
    BY <2>1, <2>2, <2>3, <2>6, RecordStep DEF Proxy!Open
  <2>7. CASE Proxy!CloseSocket(r)
    BY <2>1, <2>3, <2>7, RecordStep DEF Proxy!CloseSocket
  <2> QED BY <1>4, <2>4, <2>5, <2>6, <2>7
<1> QED BY <1>1, <1>2, <1>3, <1>4, MessageRead DEF Proxy!Next

\* What the invariant of ModelProxy says of its records.
LEMMA ProxyIsHeld == ASSUME ProxyInv PROVE Proxy!ProxyHolds
<1> USE DEF ProxyInv
<1>1. \A r \in Requests : DOMAIN log[r] = 1 .. Len(log[r])
  BY LenProperties DEF ProxyTyped
<1>2. Proxy!FaultsAreCounted
  BY <1>1 DEF Proxy!FaultsAreCounted, FaultInv
<1>3. ASSUME NEW r \in Requests, kind[r] = "socket", NEW d \in Proxy!Directions
      PROVE  LET frames == {k \in DOMAIN log[r] : log[r][k].what = d}
                 number(k) == log[r][k].n
             IN  /\ \A j, k \in frames : j < k => number(j) < number(k)
                 /\ \E n \in {sent[d], sent[d] + 1} : {number(k) : k \in frames} = 1 .. n
                 /\ \A c \in DOMAIN log[r], k \in frames :
                      log[r][c].what = "websocket-close" /\ c < k => number(k) > sent[d]
  <2>1. PumpInv(r) /\ OrderInv(r) /\ read[d] \in Nat /\ sent[d] \in Nat
    BY <1>3 DEF SocketInv, ProxyTyped
  <2>2. Numbers(r, d) = 1 .. sent[d] \/ Numbers(r, d) = 1 .. sent[d] + 1
    <3>1. (Full(r, d) /\ (sent[d] = read[d] \/ read[d] = sent[d] + 1)) \/ Short(r, d)
      BY <2>1 DEF PumpInv, RunsAt, EndsAt, ProxyTyped
    <3>2. Short(r, d) => read[d] - 1 = sent[d]
      BY <2>1 DEF Short
    <3> QED BY <3>1, <3>2 DEF Full, Short
  <2>3. Numbers(r, d) = {log[r][k].n : k \in {k \in DOMAIN log[r] : log[r][k].what = d}}
    BY <1>1 DEF Numbers
  <2> QED BY <1>1, <2>1, <2>2, <2>3 DEF OrderInv
<1>4. Proxy!FramesAreRecorded
  BY <1>3 DEF Proxy!FramesAreRecorded
<1> QED BY <1>2, <1>4 DEF Proxy!ProxyHolds

-----------------------------------------------------------------------------
(* Reading an invitation                                                   *)
LEMMA ParseA == Parse!ParseAssumption BY ExchangesAssumption

ParseInv ==
  /\ invitation \in Parse!Text
  /\ result.method = "rule" => result.data = Parse!TryRules /\ Parse!Valid(Parse!TryRules)
  /\ result.method = "ai" => Parse!Creatable(result.data)
  /\ result.method \notin {"pending", "rule"} => ~Parse!Valid(Parse!TryRules)

\* A parser finds a name or nothing, and one of the text's dates or nothing.
LEMMA ParsersFind ==
  ASSUME invitation \in Parse!Text, NEW p \in {Parse!ParseFeishu, Parse!ParseTencent, Parse!ParseZoom}
  PROVE  /\ DOMAIN p = {"company", "position", "time"}
         /\ p.company \in {"given", None} /\ p.position \in {"given", None}
         /\ p.time = None \/ p.time \in DOMAIN invitation.dates
<1>1. ASSUME NEW K \in SUBSET (DOMAIN invitation.dates), NEW forms
      PROVE  Parse!TimeOf(K, forms) = None \/ Parse!TimeOf(K, forms) \in DOMAIN invitation.dates
  <2>1. K \in SUBSET Nat
    BY DEF Parse!Text
  <2>2. CASE K # {}
    <3>1. Parse!Min(K) \in K
      BY <2>1, <2>2, Smallest DEF Parse!Min
    <3> QED BY <3>1 DEF Parse!TimeOf, Parse!First
  <2>3. CASE K = {}
    BY <2>3 DEF Parse!TimeOf, Parse!First
  <2> QED BY <2>2, <2>3
<1>2. Parse!Labelled \in SUBSET (DOMAIN invitation.dates)
  BY DEF Parse!Labelled
<1>3. CASE p = Parse!ParseFeishu
  BY <1>1, <1>2, <1>3 DEF Parse!ParseFeishu, Parse!Found
<1>4. CASE p = Parse!ParseTencent
  BY <1>1, <1>4 DEF Parse!ParseTencent, Parse!Found
<1>5. CASE p = Parse!ParseZoom
  BY <1>1, <1>5 DEF Parse!ParseZoom, Parse!Empty
<1> QED BY <1>3, <1>4, <1>5

\* What the rules find can be created; the parsers of Feishu and Tencent are
\* always tried.
LEMMA RulesFind ==
  ASSUME invitation \in Parse!Text
  PROVE  /\ Parse!Valid(Parse!TryRules) => Parse!Creatable(Parse!TryRules) /\ Parse!TryRules.time \in DOMAIN invitation.dates
         /\ source \notin Parse!Services /\ ~Parse!Valid(Parse!TryRules) => ~Parse!Valid(Parse!ParseFeishu) /\ ~Parse!Valid(Parse!ParseTencent)
         /\ /\ Parse!Valid(Parse!TryRules) /\ Parse!Valid(Parse!ParseFeishu) /\ source # "tencent"
            /\ "tencent" \in invitation.markers => "feishu" \in invitation.markers
            => Parse!TryRules = Parse!ParseFeishu
<1>1. \A s \in Parse!Services : Parse!ParserOf(s) \in {Parse!ParseFeishu, Parse!ParseTencent, Parse!ParseZoom}
  BY DEF Parse!Services, Parse!ParserOf
<1>2. ~Parse!Valid(Parse!ParseZoom)
  BY DEF Parse!Valid, Parse!ParseZoom, Parse!Empty
<1>3. \A k \in 1 .. 6 : Parse!Order[k] \in Parse!Services
  BY DEF Parse!Order, Parse!Services
<1> DEFINE good == {k \in Parse!Tried : Parse!Valid(Parse!ParserOf(Parse!Order[k]))}
<1>4. good \in SUBSET Nat /\ \A k \in good : k \in 1 .. 6 /\ Parse!Valid(Parse!ParserOf(Parse!Order[k]))
  BY DEF Parse!Tried
<1>5. good # {} => Parse!Min(good) \in good /\ \A k \in good : Parse!Min(good) =< k
  <2> SUFFICES ASSUME good # {} PROVE Parse!Min(good) \in good /\ \A k \in good : Parse!Min(good) =< k
    OBVIOUS
  <2> HIDE DEF good
  <2> QED BY <1>4, Smallest DEF Parse!Min
<1>6. source \notin Parse!Services => Parse!TryRules = IF good = {} THEN Parse!ParseZoom ELSE Parse!ParserOf(Parse!Order[Parse!Min(good)])
  BY DEF Parse!TryRules
<1>7. source \in Parse!Services => Parse!TryRules = Parse!ParserOf(source)
  BY DEF Parse!TryRules
<1>8. /\ 4 \in good <=> Parse!Valid(Parse!ParseFeishu)
      /\ 5 \in good <=> Parse!Valid(Parse!ParseTencent)
      /\ 1 \in good <=> Parse!Valid(Parse!ParseFeishu) /\ "feishu" \in invitation.markers
      /\ 2 \in good => "tencent" \in invitation.markers
      /\ 3 \notin good
  BY <1>2 DEF Parse!Tried, Parse!Order, Parse!ParserOf
<1> HIDE DEF good
<1>9. Parse!TryRules \in {Parse!ParseFeishu, Parse!ParseTencent, Parse!ParseZoom}
  <2>1. CASE source \in Parse!Services
    BY <1>1, <1>7, <2>1
  <2>2. CASE source \notin Parse!Services
    <3>1. good # {} => Parse!Order[Parse!Min(good)] \in Parse!Services
      BY <1>3, <1>4, <1>5
    <3> QED BY <1>1, <1>6, <2>2, <3>1
  <2> QED BY <2>1, <2>2
<1>10. ASSUME Parse!Valid(Parse!TryRules) PROVE Parse!Creatable(Parse!TryRules) /\ Parse!TryRules.time \in DOMAIN invitation.dates
  <2>1. /\ DOMAIN Parse!TryRules = {"company", "position", "time"}
        /\ Parse!TryRules.company \in {"given", None} /\ Parse!TryRules.position \in {"given", None}
        /\ Parse!TryRules.time = None \/ Parse!TryRules.time \in DOMAIN invitation.dates
    BY <1>9, ParsersFind
  <2>2. Parse!TryRules.company # None /\ Parse!TryRules.position # None /\ Parse!TryRules.time # None
    BY <1>10, <2>1 DEF Parse!Valid
  <2>3. DOMAIN invitation.dates \in SUBSET (Nat \ {0})
    BY DEF Parse!Text
  <2> QED BY <1>10, <2>1, <2>2, <2>3 DEF Parse!Creatable, Parse!Blank, Parse!Zoned
<1>11. ASSUME source \notin Parse!Services, ~Parse!Valid(Parse!TryRules) PROVE ~Parse!Valid(Parse!ParseFeishu) /\ ~Parse!Valid(Parse!ParseTencent)
  <2>1. good = {}
    BY <1>4, <1>5, <1>6, <1>11
  <2> QED BY <1>8, <2>1
<1>12. ASSUME Parse!Valid(Parse!TryRules), Parse!Valid(Parse!ParseFeishu), source # "tencent",
              "tencent" \in invitation.markers => "feishu" \in invitation.markers
       PROVE  Parse!TryRules = Parse!ParseFeishu
  <2>1. CASE source \in Parse!Services
    BY <1>2, <1>7, <1>12, <2>1 DEF Parse!Services, Parse!ParserOf
  <2>2. CASE source \notin Parse!Services
    <3>1. Parse!Min(good) \in good /\ Parse!Min(good) =< 4 /\ Parse!Min(good) \in 1 .. 6
      BY <1>4, <1>5, <1>8, <1>12
    <3>2. Parse!Min(good) = 1 \/ Parse!Min(good) = 4
      BY <1>5, <1>8, <1>12, <3>1
    <3> QED BY <1>6, <2>2, <3>1, <3>2 DEF Parse!Order, Parse!ParserOf
  <2> QED BY <2>1, <2>2
<1> QED BY <1>10, <1>11, <1>12

\* An invitation begins unread.
LEMMA ParseBegins == ASSUME Parse!Init PROVE ParseInv
BY DEF Parse!Init, ParseInv

\* Which rule finds an invitation is a matter of its text alone.
LEMMA ParseSame == ASSUME UNCHANGED <<invitation, source>> PROVE Parse!TryRules' = Parse!TryRules
BY DEF Parse!TryRules, Parse!ParserOf, Parse!ParseFeishu, Parse!ParseTencent, Parse!ParseZoom, Parse!TimeOf, Parse!First, Parse!Found, Parse!Labelled, Parse!Tried, Parse!Order,
       Parse!Empty, Parse!Valid

\* Reading by the rules and by the model keeps what each may find.
LEMMA ParseStep == ASSUME ParseInv, [Parse!Next]_parseVars PROVE ParseInv'
<1>1. UNCHANGED <<invitation, source>>
  BY DEF Parse!Next, Parse!Rules, Parse!Model, parseVars
<1>2. Parse!TryRules' = Parse!TryRules /\ (Parse!Valid(Parse!TryRules)' <=> Parse!Valid(Parse!TryRules))
  <2>1. Parse!TryRules' = Parse!TryRules
    BY <1>1, ParseSame
  <2> QED BY <2>1 DEF Parse!Valid
<1>3. CASE UNCHANGED parseVars
  BY <1>1, <1>2, <1>3 DEF parseVars, ParseInv, Parse!Creatable, Parse!Valid
<1>4. CASE Parse!Rules
  <2>1. result'.method = "rule" /\ result'.data = Parse!TryRules /\ Parse!Valid(Parse!TryRules)
    BY <1>4 DEF Parse!Rules, Parse!Answers
  <2> QED BY <1>1, <1>2, <2>1 DEF ParseInv
<1>5. CASE Parse!Model
  <2>1. ~Parse!Valid(Parse!TryRules)
    BY <1>5 DEF Parse!Model
  <2>2. \/ result'.method \in {"none", "raised"}
        \/ result'.method = "ai" /\ Parse!Creatable(result'.data)
    BY <1>5 DEF Parse!Model, Parse!Answers
  <2>3. Parse!Creatable(result'.data) => Parse!Creatable(result.data)'
    BY DEF Parse!Creatable, Parse!Valid
  <2> QED BY <1>1, <1>2, <2>1, <2>2, <2>3 DEF ParseInv
<1> QED BY <1>3, <1>4, <1>5 DEF Parse!Next

\* What the invariant of ScheduleParse says of what was read.
LEMMA ParseIsHeld == ASSUME ParseInv PROVE Parse!ParseHolds
<1>1. Parse!OfferIsCreatable
  BY RulesFind DEF ParseInv, Parse!OfferIsCreatable
<1>2. Parse!LabelledFirst
  BY RulesFind DEF ParseInv, Parse!LabelledFirst
<1> QED BY <1>1, <1>2 DEF Parse!ParseHolds

-----------------------------------------------------------------------------
(* Sums                                                                    *)

ValueAt(value, k) == IF k \in DOMAIN value THEN value[k] ELSE 0
Numeric(value)    == \A k \in DOMAIN value : value[k] \in Int

\* The sums of a function's values, one after the other.
Sums(u, n, value) ==
  u \in [0 .. n -> Int] /\ u[0] = 0 /\ \A k \in 1 .. n : u[k] = u[k - 1] + ValueAt(value, k)

\* A sum is the last of these.
LEMMA SumGoes ==
  ASSUME NEW n \in Nat, NEW value, Numeric(value)
  PROVE  \E u : Sums(u, n, value) /\ Report!SumTo(n, value) = u[n]
<1> DEFINE D(k) == IF k \in DOMAIN value THEN value[k] ELSE 0
           step == [p \in (1 .. n) \X Int |-> p[2] + D(p[1])]
<1>1. \A k \in 1 .. n : D(k) \in Int
  BY DEF Numeric
<1>2. step \in [(1 .. n) \X Int -> Int]
  <2> HIDE DEF D
  <2> QED BY <1>1
<1>3. PICK f : Unfolds(f, n, Int, 0, step)
  <2> HIDE DEF step
  <2>1. 0 \in Int
    OBVIOUS
  <2> QED BY <1>2, <2>1, Recursion, Zenon
<1>4. \A k \in 1 .. n : k - 1 \in 0 .. n /\ f[k - 1] \in Int /\ f[k] = f[k - 1] + D(k)
  <2> TAKE k \in 1 .. n
  <2>1. k - 1 \in 0 .. n
    OBVIOUS
  <2>2. <<k, f[k - 1]>> \in (1 .. n) \X Int
    BY <1>3, <2>1 DEF Unfolds
  <2> HIDE DEF D
  <2> QED BY <1>3, <2>1, <2>2 DEF Unfolds
<1> DEFINE rec(g) == [k \in 0 .. n |-> IF k = 0 THEN 0 ELSE g[k - 1] + D(k)]
           upto == CHOOSE g : g = rec(g)
<1>5. f = rec(f)
  <2> HIDE DEF D, step
  <2>1. \A k \in 0 .. n : f[k] = IF k = 0 THEN 0 ELSE f[k - 1] + D(k)
    BY <1>3, <1>4 DEF Unfolds
  <2> QED BY <1>3, <2>1 DEF Unfolds
<1>6. upto = rec(upto)
  <2> HIDE DEF rec
  <2> QED BY <1>5
<1>7. upto = f
  <2>1. f[0] = upto[0] /\ \A k \in 1 .. n : f[k - 1] = upto[k - 1] => f[k] = upto[k]
    <3>1. 0 \in 0 .. n /\ \A k \in 1 .. n : k \in 0 .. n /\ k # 0
      OBVIOUS
    <3>2. \A g : g = rec(g) => g[0] = 0 /\ \A k \in 1 .. n : g[k] = g[k - 1] + D(k)
      <4> HIDE DEF D
      <4> QED BY <3>1
    <3> HIDE DEF rec, upto, D
    <3> QED BY <1>5, <1>6, <3>2
  <2>2. f = [k \in 0 .. n |-> f[k]] /\ upto = [k \in 0 .. n |-> upto[k]]
    <3>1. upto = [k \in 0 .. n |-> upto[k]]
      <4> HIDE DEF upto, D
      <4>1. DOMAIN rec(upto) = 0 .. n /\ rec(upto) = [k \in 0 .. n |-> rec(upto)[k]]
        OBVIOUS
      <4> HIDE DEF rec
      <4> QED BY <1>6, <4>1
    <3> QED BY <1>3, <3>1 DEF Unfolds
  <2> HIDE DEF upto, rec, D, step
  <2>3. Alike(f, upto, n)
    BY <2>1, <2>2 DEF Alike
  <2> QED BY <2>3, SameRecursion

<1>8. Report!SumTo(n, value) = upto[n]
  BY DEF Report!SumTo
<1> HIDE DEF upto, rec, D, step
<1>9. Report!SumTo(n, value) = f[n]
  BY <1>7, <1>8
<1>10. \A k \in 1 .. n : f[k] = f[k - 1] + D(k)
  BY <1>4
<1> QED BY <1>3, <1>9, <1>10 DEF D, Unfolds, Sums, ValueAt

\* Two sums whose terms are no more than a third's, or as much.
LEMMA SumsAdd ==
  ASSUME NEW n \in Nat, NEW f, NEW g, NEW h, Numeric(f), Numeric(g), Numeric(h),
         \A k \in 1 .. n : ValueAt(h, k) = ValueAt(f, k) + ValueAt(g, k)
  PROVE  Report!SumTo(n, h) = Report!SumTo(n, f) + Report!SumTo(n, g)
<1>1. PICK u : Sums(u, n, f) /\ Report!SumTo(n, f) = u[n]
  BY SumGoes
<1>2. PICK v : Sums(v, n, g) /\ Report!SumTo(n, g) = v[n]
  BY SumGoes
<1>3. PICK w : Sums(w, n, h) /\ Report!SumTo(n, h) = w[n]
  BY SumGoes
<1> DEFINE K == {k \in 0 .. n : w[k] = u[k] + v[k]}
<1>4. 0 \in K
  BY <1>1, <1>2, <1>3 DEF Sums
<1>5. ASSUME NEW i \in 1 .. n, i - 1 \in K PROVE i \in K
  <2>1. /\ w[i] = w[i - 1] + ValueAt(h, i) /\ u[i] = u[i - 1] + ValueAt(f, i)
        /\ v[i] = v[i - 1] + ValueAt(g, i)
    BY <1>1, <1>2, <1>3 DEF Sums
  <2>2. /\ ValueAt(h, i) \in Int /\ ValueAt(f, i) \in Int /\ ValueAt(g, i) \in Int
        /\ u[i - 1] \in Int /\ v[i - 1] \in Int /\ w[i - 1] \in Int
    BY <1>1, <1>2, <1>3 DEF Sums, ValueAt, Numeric
  <2> QED BY <1>5, <2>1, <2>2
<1>6. \A k \in 0 .. n : k \in K
  <2> HIDE DEF K
  <2> QED BY <1>4, <1>5, Induction
<1>7. w[n] = u[n] + v[n]
  BY <1>6
<1> QED BY <1>1, <1>2, <1>3, <1>7

\* The sum of the values of some numbers in their order is that of the values.
LEMMA SumInOrder ==
  ASSUME NEW n \in Nat, NEW K \in SUBSET (1 .. n), NEW s, Orders(s, K), NEW c \in Nat,
         c = Cardinality(K), NEW value, DOMAIN value = K, Numeric(value)
  PROVE  Report!SumTo(c, [k \in 1 .. c |-> value[s[k]]]) = Report!SumTo(n, value)
<1> DEFINE turned == [k \in 1 .. c |-> value[s[k]]]
<1>1. s \in [1 .. c -> K] /\ \A j, k \in 1 .. c : j < k => s[j] < s[k]
  BY DEF Orders
<1>a. \A k \in 1 .. c : s[k] \in K /\ s[k] \in Int /\ 1 =< s[k] /\ s[k] =< n
  <2> TAKE k \in 1 .. c
  <2>1. s[k] \in K
    BY <1>1
  <2>2. K \subseteq 1 .. n
    OBVIOUS
  <2>3. s[k] \in 1 .. n
    BY <2>1, <2>2
  <2> QED BY <2>1, <2>3
<1>2. \A x \in K : \E k \in 1 .. c : s[k] = x
  <2>1. K \in SUBSET Nat
    OBVIOUS
  <2>2. IsFiniteSet(K)
    <3>1. 1 \in Int /\ n \in Int
      OBVIOUS
    <3>2. IsFiniteSet(1 .. n)
      BY <3>1, FS_Interval
    <3> QED BY <3>2, FS_Subset
  <2> QED BY <2>1, <2>2, OrderHasAll
<1>3. DOMAIN turned = 1 .. c /\ Numeric(turned) /\ \A k \in 1 .. c : ValueAt(turned, k) = value[s[k]]
  BY <1>1 DEF Numeric, ValueAt
<1> HIDE DEF turned
<1>4. PICK u : Sums(u, c, turned) /\ Report!SumTo(c, turned) = u[c]
  BY <1>3, SumGoes
<1>5. PICK v : Sums(v, n, value) /\ Report!SumTo(n, value) = v[n]
  BY SumGoes
<1> DEFINE Upto(m, i) == v[m] = u[i] /\ \A k \in 1 .. c : k =< i <=> s[k] =< m
           M == {m \in 0 .. n : \E i \in 0 .. c : Upto(m, i)}
<1>6. 0 \in M
  <2>1. \A k \in 1 .. c : ~(k =< 0) /\ ~(s[k] =< 0)
    BY <1>a
  <2>2. Upto(0, 0) /\ 0 \in 0 .. c /\ 0 \in 0 .. n
    BY <2>1, <1>4, <1>5 DEF Sums
  <2> QED BY <2>2
<1>7. ASSUME NEW m \in 1 .. n, m - 1 \in M PROVE m \in M
  <2>1. PICK i \in 0 .. c : Upto(m - 1, i)
    BY <1>7
  <2>2. v[m] = v[m - 1] + ValueAt(value, m) /\ v[m - 1] \in Int
    BY <1>5 DEF Sums
  <2>3. CASE m \in K
    <3>1. PICK j \in 1 .. c : s[j] = m
      BY <1>2, <2>3
    <3>2. j = i + 1
      <4>1. j > i
        BY <2>1, <3>1
      <4>2. ASSUME i + 1 < j PROVE FALSE
        <5>1. i + 1 \in 1 .. c /\ s[i + 1] < m /\ s[i + 1] \in Int
          <6>1. i + 1 \in 1 .. c
            BY <4>2
          <6> QED BY <1>1, <1>a, <3>1, <4>2, <6>1
        <5>2. s[i + 1] =< m - 1
          BY <5>1
        <5> QED BY <2>1, <5>1, <5>2
      <4> QED BY <4>1, <4>2
    <3>3. v[m] = u[j]
      <4>1. u[j] = u[j - 1] + ValueAt(turned, j) /\ ValueAt(turned, j) = value[m]
        BY <1>3, <1>4, <3>1 DEF Sums
      <4>2. ValueAt(value, m) = value[m]
        BY <2>3 DEF ValueAt
      <4>3. j - 1 = i
        BY <3>2
      <4> QED BY <2>1, <2>2, <4>1, <4>2, <4>3
    <3>4. \A k \in 1 .. c : k =< j <=> s[k] =< m
      <4> TAKE k \in 1 .. c
      <4>1. s[k] \in Int /\ (k < j => s[k] < m) /\ (k > j => s[k] > m)
        BY <1>1, <1>a, <3>1
      <4> QED BY <3>1, <4>1
    <3> QED BY <3>3, <3>4
  <2>4. CASE m \notin K
    <3>1. v[m] = u[i]
      BY <2>1, <2>2, <2>4 DEF ValueAt
    <3>2. \A k \in 1 .. c : s[k] =< m - 1 <=> s[k] =< m
      <4> TAKE k \in 1 .. c
      <4>1. s[k] \in Int /\ s[k] # m
        BY <1>a, <2>4
      <4> QED BY <4>1
    <3> QED BY <2>1, <3>1, <3>2
  <2> QED BY <2>3, <2>4
<1>8. \A m \in 0 .. n : m \in M
  <2> HIDE DEF M
  <2> QED BY <1>6, <1>7, Induction
<1>9. PICK i \in 0 .. c : Upto(n, i)
  BY <1>8
<1>10. i = c
  <2>1. \A k \in 1 .. c : s[k] =< n
    BY <1>a
  <2> QED BY <1>9, <2>1
<1> QED BY <1>4, <1>5, <1>9, <1>10 DEF turned

-----------------------------------------------------------------------------
(* The report                                                              *)

\* The parameters of EvaluationReport are what its assumption says.
LEMMA ReportA == Report!ReportAssumption
  BY ExchangesAssumption

\* The parts of a report, of what it is made of.
ScoreFor(m)  == Report!GroupReport(m).score
ScoresOf(S)  == [m \in S |-> ScoreFor(m)]
OfLabel(l)   == {m \in Report!AnsweredMains : category[m] = l}
ByLabel      == [l \in {category[m] : m \in Report!AnsweredMains} |->
                   [score |-> Report!Mean(ScoresOf(OfLabel(l))), count |-> Cardinality(OfLabel(l))]]
MadeReport ==
  [groups     |-> [k \in DOMAIN Report!Answered |-> Report!GroupReport(Report!Answered[k])],
   overall    |-> IF Report!AnsweredMains = {} THEN 0 ELSE Report!Mean(ScoresOf(Report!AnsweredMains)),
   categories |-> ByLabel,
   strengths  |-> IF Report!AnsweredMains = {} THEN <<>> ELSE Report!Unique(points)]

\* What is asked, answered and returned by the model.
ReportTyped ==
  /\ category \in [Report!Mains -> Report!Labels]
  /\ answered \subseteq Report!Asked
  /\ \E n \in Nat : groups \in [1 .. n -> Report!GroupsOf]
  /\ \E n \in Nat : points \in [1 .. n -> Report!Points]

\* The limits of a report are numbers, and so are its scores.
LEMMA ReportParameters ==
  /\ NMains \in Nat /\ NLabels \in Nat /\ MaxGroups \in Nat /\ MaxTurns \in Nat
  /\ MaxPoints \in Nat /\ MaxKept \in Nat /\ Scores \subseteq Nat
  BY ReportA DEF Report!ReportAssumption

\* A number divided is as often in it as it says.
LEMMA DivisionIs ==
  ASSUME NEW a \in Int, NEW b \in Nat \ {0}
  PROVE  a \div b \in Int /\ b * (a \div b) =< a /\ a < b * ((a \div b) + 1)
  OBVIOUS

\* Of some numbers the last is one of them.
LEMMA LastIs ==
  ASSUME NEW n \in Nat, NEW at \in SUBSET (1 .. n), NEW seq
  PROVE  \/ at = {} /\ Report!LastOf(seq, at) = <<>>
         \/ \E k \in at : Report!LastOf(seq, at) = <<seq[k]>>
<1>1. CASE at # {}
  <2>1. at \in SUBSET (0 .. n)
    OBVIOUS
  <2>2. PICK x \in at : \A y \in at : y =< x
    BY <1>1, <2>1, Greatest
  <2>3. \A y \in at : x >= y
    BY <2>1, <2>2
  <2>4. Report!Max(at) \in at
    BY <2>3 DEF Report!Max
  <2> QED BY <1>1, <2>4 DEF Report!LastOf
<1> QED BY <1>1 DEF Report!LastOf

\* The main questions with an answer, in their order.
LEMMA AnsweredAre ==
  /\ Report!AnsweredMains \in SUBSET Report!Mains /\ IsFiniteSet(Report!AnsweredMains)
  /\ Cardinality(Report!AnsweredMains) \in Nat /\ Orders(Report!Answered, Report!AnsweredMains)
  /\ DOMAIN Report!Answered = 1 .. Cardinality(Report!AnsweredMains)
  /\ \A m \in Report!AnsweredMains : \E k \in DOMAIN Report!Answered : Report!Answered[k] = m
<1>1. Report!AnsweredMains \in SUBSET Report!Mains /\ Report!Mains = 1 .. NMains /\ NMains \in Int /\ 1 \in Int
  BY ReportParameters DEF Report!AnsweredMains, Report!Mains
<1>2. IsFiniteSet(Report!AnsweredMains)
  <2>1. IsFiniteSet(1 .. NMains)
    BY <1>1, FS_Interval
  <2> QED BY <1>1, <2>1, FS_Subset
<1>3. Report!AnsweredMains \in SUBSET Nat
  BY <1>1
<1> DEFINE K == Report!AnsweredMains
           Order(o) == o \in [1 .. Cardinality(K) -> K] /\ \A i, j \in DOMAIN o : i < j => o[i] < o[j]
<1>4. PICK t : Orders(t, Report!AnsweredMains)
  BY <1>2, <1>3, OrderExists
<1>5. Report!Answered \in [1 .. Cardinality(K) -> K] /\ \A i, j \in DOMAIN Report!Answered : i < j => Report!Answered[i] < Report!Answered[j]
  <2>1. t \in [1 .. Cardinality(K) -> K] /\ \A i, j \in DOMAIN t : i < j => t[i] < t[j]
    BY <1>4 DEF Orders
  <2> QED BY <2>1 DEF Report!Answered, Report!InOrder, Report!Cardinality, Cardinality
<1>6. Orders(Report!Answered, Report!AnsweredMains)
  BY <1>5 DEF Orders
<1> QED BY <1>1, <1>2, <1>3, <1>5, <1>6, OrderHasAll

\* The score of a single answer is that answer's.
LEMMA ScoreOne == ASSUME NEW x PROVE Report!ScoreOf(<<x>>) = x.score
<1>1. <<x>> # <<>> /\ <<x>>[1] = x
  OBVIOUS
<1> QED BY <1>1 DEF Report!ScoreOf

\* A group's score is one the model gave to it, or 0 without one.
LEMMA ScoreIs ==
  ASSUME ReportTyped, NEW m
  PROVE  LET Gave(s) == \E k \in DOMAIN groups : groups[k].order = m /\ groups[k].score = s
         IN  /\ ScoreFor(m) \in Nat
             /\ Gave(ScoreFor(m)) \/ (ScoreFor(m) = 0 /\ \A s \in Scores : ~Gave(s))
<1> DEFINE at == {k \in DOMAIN groups : groups[k].order = m}
<1>1. PICK n \in Nat : groups \in [1 .. n -> Report!GroupsOf]
  BY DEF ReportTyped
<1>2. \A k \in DOMAIN groups : groups[k].score \in Scores
  BY <1>1 DEF Report!GroupsOf
<1>3. \/ at = {} /\ Report!LastOf(groups, at) = <<>>
      \/ \E k \in at : Report!LastOf(groups, at) = <<groups[k]>>
  <2>1. at \in SUBSET (1 .. n)
    BY <1>1
  <2> HIDE DEF at
  <2> QED BY <2>1, LastIs
<1>4. ScoreFor(m) = Report!ScoreOf(Report!LastOf(groups, at))
  BY DEF ScoreFor, Report!GroupReport, Report!Evaluated
<1>5. CASE at = {} /\ Report!LastOf(groups, at) = <<>>
  <2>1. ScoreFor(m) = 0
    BY <1>4, <1>5 DEF Report!ScoreOf
  <2> QED BY <1>5, <2>1
<1>6. ASSUME NEW k \in at, Report!LastOf(groups, at) = <<groups[k]>>
      PROVE  ScoreFor(m) = groups[k].score /\ groups[k].order = m /\ k \in DOMAIN groups
  <2>1. groups[k].order = m /\ k \in DOMAIN groups
    OBVIOUS
  <2> HIDE DEF at
  <2> QED BY <1>4, <1>6, <2>1, ScoreOne
<1> QED BY <1>2, <1>3, <1>5, <1>6, ReportParameters

\* So is a question's.
LEMMA DetailIs ==
  ASSUME ReportTyped, NEW m, NEW q, q \in Report!Asked, q[1] = m
  PROVE  /\ q \in DOMAIN Report!GroupReport(m).details
         /\ \/ \E k \in DOMAIN groups : \E j \in DOMAIN groups[k].turns :
                 /\ groups[k].order = m
                 /\ groups[k].turns[j] = [question |-> q, score |-> Report!GroupReport(m).details[q]]
            \/ Report!GroupReport(m).details[q] = 0
<1> DEFINE found == Report!Evaluated(m)
           turns == IF found = <<>> THEN <<>> ELSE found[1].turns
           at == {j \in DOMAIN turns : turns[j].question = q}
           groupsAt == {k \in DOMAIN groups : groups[k].order = m}
<1>1. PICK n \in Nat : groups \in [1 .. n -> Report!GroupsOf]
  BY DEF ReportTyped
<1>2. q \in DOMAIN Report!GroupReport(m).details /\ Report!GroupReport(m).details[q] = Report!ScoreOf(Report!LastOf(turns, at))
  BY DEF Report!GroupReport
<1>3. \/ found = <<>>
      \/ \E k \in groupsAt : found = <<groups[k]>>
  <2>1. groupsAt \in SUBSET (1 .. n) /\ found = Report!LastOf(groups, groupsAt)
    BY <1>1 DEF Report!Evaluated
  <2> HIDE DEF groupsAt, found
  <2> QED BY <2>1, LastIs
<1>4. CASE found = <<>>
  <2>1. turns = <<>>
    BY <1>4
  <2>2. at = {}
    BY <2>1
  <2>3. Report!LastOf(turns, at) = <<>>
    BY <2>2 DEF Report!LastOf
  <2> QED BY <1>2, <2>3 DEF Report!ScoreOf
<1>5. ASSUME NEW k \in groupsAt, found = <<groups[k]>>
      PROVE  \/ \E j \in DOMAIN groups[k].turns :
                  groups[k].turns[j] = [question |-> q, score |-> Report!GroupReport(m).details[q]]
             \/ Report!GroupReport(m).details[q] = 0
  <2>1. turns = groups[k].turns
    BY <1>5
  <2>2. PICK l \in Nat : turns \in [1 .. l -> Report!TurnsOf]
    <3>1. k \in DOMAIN groups /\ groups[k] \in Report!GroupsOf
      BY <1>1
    <3>2. groups[k].turns \in UNION {[1 .. l -> Report!TurnsOf] : l \in 0 .. MaxTurns}
      BY <3>1 DEF Report!GroupsOf
    <3>3. PICK l \in 0 .. MaxTurns : groups[k].turns \in [1 .. l -> Report!TurnsOf]
      BY <3>2
    <3> QED BY <2>1, <3>3
  <2>3. at \in SUBSET (1 .. l)
    BY <2>2
  <2> HIDE DEF turns
  <2>4. \/ at = {} /\ Report!LastOf(turns, at) = <<>>
        \/ \E j \in at : Report!LastOf(turns, at) = <<turns[j]>>
    <3> HIDE DEF at
    <3> QED BY <2>3, LastIs
  <2>5. CASE Report!LastOf(turns, at) = <<>>
    BY <1>2, <2>5 DEF Report!ScoreOf
  <2>6. ASSUME NEW j \in at, Report!LastOf(turns, at) = <<turns[j]>>
        PROVE  turns[j] = [question |-> q, score |-> Report!GroupReport(m).details[q]] /\ j \in DOMAIN turns
    <3>1. Report!GroupReport(m).details[q] = turns[j].score
      <4> HIDE DEF at
      <4> QED BY <1>2, <2>6, ScoreOne
    <3>2. turns[j] \in Report!TurnsOf /\ turns[j].question = q
      BY <2>2
    <3>3. turns[j] = [question |-> turns[j].question, score |-> turns[j].score]
      BY <3>2 DEF Report!TurnsOf
    <3> QED BY <3>1, <3>2, <3>3
  <2> QED BY <2>1, <2>4, <2>5, <2>6
<1> HIDE DEF found
<1>6. \A k \in groupsAt : k \in DOMAIN groups /\ groups[k].order = m
  OBVIOUS
<1> HIDE DEF groupsAt
<1> QED BY <1>2, <1>3, <1>4, <1>5, <1>6

-----------------------------------------------------------------------------
(* Its means                                                               *)

\* Scores are numbers, and so are their sums and means.
LEMMA ScoresSum ==
  ASSUME ReportTyped, NEW S \in SUBSET Report!Mains
  PROVE  /\ DOMAIN ScoresOf(S) = S /\ Numeric(ScoresOf(S)) /\ Report!SumTo(NMains, ScoresOf(S)) \in Int
         /\ \A m : ValueAt(ScoresOf(S), m) = IF m \in S THEN ScoreFor(m) ELSE 0
<1>1. DOMAIN ScoresOf(S) = S /\ Numeric(ScoresOf(S))
  BY ScoreIs DEF ScoresOf, Numeric
<1>2. Report!SumTo(NMains, ScoresOf(S)) \in Int
  <2>1. PICK u : Sums(u, NMains, ScoresOf(S)) /\ Report!SumTo(NMains, ScoresOf(S)) = u[NMains]
    BY <1>1, ReportParameters, SumGoes
  <2> QED BY <2>1, ReportParameters DEF Sums
<1> QED BY <1>1, <1>2 DEF ScoresOf, ValueAt

\* The sum of none is 0.
LEMMA NoScores == ASSUME ReportTyped PROVE Report!SumTo(NMains, ScoresOf({})) = 0
<1> DEFINE none == ScoresOf({})
<1>1. Numeric(none) /\ Report!SumTo(NMains, none) \in Int /\ \A m : ValueAt(none, m) = 0
  BY ScoresSum
<1> HIDE DEF none
<1>2. \A m \in 1 .. NMains : ValueAt(none, m) = ValueAt(none, m) + ValueAt(none, m)
  BY <1>1
<1>3. Report!SumTo(NMains, none) = Report!SumTo(NMains, none) + Report!SumTo(NMains, none)
  BY <1>1, <1>2, ReportParameters, SumsAdd
<1>4. Report!SumTo(NMains, none) = 0
  <2>1. \A x \in Int : x = x + x => x = 0
    OBVIOUS
  <2> QED BY <1>1, <1>3, <2>1
<1> QED BY <1>4 DEF none

\* The mean of some scores is theirs to rounding.
LEMMA MeanIs ==
  ASSUME ReportTyped, NEW S \in SUBSET Report!Mains, S # {}
  PROVE  LET sum == Report!SumTo(NMains, ScoresOf(S))
             n   == Cardinality(S)
         IN  /\ n \in Nat /\ n > 0 /\ Report!Mean(ScoresOf(S)) \in Int
             /\ n * Report!Mean(ScoresOf(S)) =< sum /\ sum < n * (Report!Mean(ScoresOf(S)) + 1)
<1> DEFINE sum == Report!SumTo(NMains, ScoresOf(S))
           n   == Cardinality(S)
<1>1. sum \in Int /\ Report!Mean(ScoresOf(S)) = sum \div n
  BY ScoresSum DEF Report!Mean, Report!Cardinality, Cardinality
<1>2. n \in Nat \ {0}
  <2>1. Report!Mains = 1 .. NMains /\ NMains \in Int /\ 1 \in Int
    BY ReportParameters DEF Report!Mains
  <2>2. IsFiniteSet(S)
    <3>1. IsFiniteSet(1 .. NMains)
      BY <2>1, FS_Interval
    <3> QED BY <2>1, <3>1, FS_Subset
  <2> QED BY <2>2, FS_EmptySet, FS_CardinalityType
<1> HIDE DEF sum, n
<1>3. n \in Nat /\ n > 0 /\ Report!Mean(ScoresOf(S)) \in Int
      /\ n * Report!Mean(ScoresOf(S)) =< sum /\ sum < n * (Report!Mean(ScoresOf(S)) + 1)
  BY <1>1, <1>2, DivisionIs
<1> QED BY <1>3 DEF sum, n

\* The overall score is the mean of the report's.
LEMMA OverallIs ==
  ASSUME ReportTyped
  PROVE  LET r == MadeReport
             n == Cardinality(Report!AnsweredMains)
             scores == Report!SumTo(n, [k \in 1 .. n |-> r.groups[k].score])
         IN  /\ scores = Report!SumTo(NMains, ScoresOf(Report!AnsweredMains))
             /\ n * r.overall <= scores /\ (n > 0 => scores < n * (r.overall + 1))
<1> DEFINE n == Cardinality(Report!AnsweredMains)
           scores == Report!SumTo(n, [k \in 1 .. n |-> MadeReport.groups[k].score])
           overall == MadeReport.overall
<1>1. \A k \in 1 .. n : MadeReport.groups[k].score = ScoresOf(Report!AnsweredMains)[Report!Answered[k]]
  BY AnsweredAre DEF MadeReport, ScoresOf, ScoreFor, Orders
<1>2. scores = Report!SumTo(n, [k \in 1 .. n |-> ScoresOf(Report!AnsweredMains)[Report!Answered[k]]])
  <2>1. [k \in 1 .. n |-> MadeReport.groups[k].score]
        = [k \in 1 .. n |-> ScoresOf(Report!AnsweredMains)[Report!Answered[k]]]
    BY <1>1, Zenon
  <2> QED BY <2>1
<1>3. scores = Report!SumTo(NMains, ScoresOf(Report!AnsweredMains))
  <2> DEFINE value == ScoresOf(Report!AnsweredMains)
  <2>1. DOMAIN value = Report!AnsweredMains /\ Numeric(value)
    BY AnsweredAre, ScoresSum
  <2>2. Report!AnsweredMains \in SUBSET (1 .. NMains) /\ NMains \in Nat /\ n \in Nat
        /\ Orders(Report!Answered, Report!AnsweredMains) /\ n = Cardinality(Report!AnsweredMains)
    BY AnsweredAre, ReportParameters DEF Report!Mains
  <2>3. scores = Report!SumTo(n, [k \in 1 .. n |-> value[Report!Answered[k]]])
    BY <1>2
  <2> HIDE DEF value, scores, n
  <2>4. scores = Report!SumTo(NMains, value)
    BY <2>1, <2>2, <2>3, SumInOrder
  <2> QED BY <2>4 DEF value
<1>4. n * overall =< scores /\ (n > 0 => scores < n * (overall + 1))
  <2>1. CASE Report!AnsweredMains = {}
    <3>1. n = 0 /\ overall = 0
      BY <2>1, FS_EmptySet DEF MadeReport
    <3>2. scores = 0
      BY <1>3, <2>1, NoScores
    <3> HIDE DEF n, scores, overall
    <3> QED BY <3>1, <3>2
  <2>2. CASE Report!AnsweredMains # {}
    <3>1. overall = Report!Mean(ScoresOf(Report!AnsweredMains))
      BY <2>2 DEF MadeReport
    <3> QED BY <1>3, <2>2, <3>1, AnsweredAre, MeanIs
  <2> QED BY <2>1, <2>2
<1> QED BY <1>3, <1>4

\* The answered questions of the first categories.
OfFirst(l) == {m \in Report!AnsweredMains : category[m] =< l}

\* The next category adds its own.
LEMMA NextCategory ==
  ASSUME ReportTyped, NEW l \in 1 .. NLabels
  PROVE  LET all(k) == Report!SumTo(NMains, ScoresOf(OfFirst(k)))
         IN  /\ all(l) = all(l - 1) + Report!SumTo(NMains, ScoresOf(OfLabel(l)))
             /\ Cardinality(OfFirst(l)) = Cardinality(OfFirst(l - 1)) + Cardinality(OfLabel(l))
             /\ Cardinality(OfFirst(l)) \in Nat /\ Cardinality(OfFirst(l - 1)) \in Nat
             /\ Cardinality(OfLabel(l)) \in Nat
<1>0. l - 1 \in Int /\ l \in Int
  OBVIOUS
<1>1. /\ OfFirst(l) \in SUBSET Report!Mains /\ OfFirst(l - 1) \in SUBSET Report!Mains /\ OfLabel(l) \in SUBSET Report!Mains
      /\ OfFirst(l) \in SUBSET Report!AnsweredMains /\ OfFirst(l - 1) \in SUBSET Report!AnsweredMains
      /\ OfLabel(l) \in SUBSET Report!AnsweredMains
  BY AnsweredAre DEF OfFirst, OfLabel
<1>2. OfFirst(l) = OfFirst(l - 1) \cup OfLabel(l) /\ OfFirst(l - 1) \cap OfLabel(l) = {}
  <2>1. \A m \in Report!AnsweredMains : category[m] \in Int
    BY AnsweredAre, ReportParameters DEF ReportTyped, Report!Labels
  <2>2. \A m \in Report!AnsweredMains : /\ category[m] =< l <=> category[m] =< l - 1 \/ category[m] = l
                                 /\ ~(category[m] =< l - 1 /\ category[m] = l)
    BY <1>0, <2>1
  <2> QED BY <2>2 DEF OfFirst, OfLabel
<1>3. /\ IsFiniteSet(OfFirst(l - 1)) /\ IsFiniteSet(OfLabel(l)) /\ IsFiniteSet(OfFirst(l))
  BY <1>1, AnsweredAre, FS_Subset
<1>4. Cardinality(OfFirst(l)) = Cardinality(OfFirst(l - 1)) + Cardinality(OfLabel(l))
  <2>1. Cardinality(OfFirst(l))
        = Cardinality(OfFirst(l - 1)) + Cardinality(OfLabel(l)) - Cardinality({})
    BY <1>2, <1>3, FS_Union
  <2> QED BY <1>3, <2>1, FS_EmptySet, FS_CardinalityType
<1>5. Report!SumTo(NMains, ScoresOf(OfFirst(l)))
      = Report!SumTo(NMains, ScoresOf(OfFirst(l - 1))) + Report!SumTo(NMains, ScoresOf(OfLabel(l)))
  <2> DEFINE f == ScoresOf(OfFirst(l - 1))
             g == ScoresOf(OfLabel(l))
             h == ScoresOf(OfFirst(l))
  <2>1. /\ Numeric(f) /\ \A m : ValueAt(f, m) = IF m \in OfFirst(l - 1) THEN ScoreFor(m) ELSE 0
        /\ Numeric(g) /\ \A m : ValueAt(g, m) = IF m \in OfLabel(l) THEN ScoreFor(m) ELSE 0
        /\ Numeric(h) /\ \A m : ValueAt(h, m) = IF m \in OfFirst(l) THEN ScoreFor(m) ELSE 0
    BY <1>1, ScoresSum
  <2> HIDE DEF f, g, h
  <2>2. \A m \in 1 .. NMains : ValueAt(h, m) = ValueAt(f, m) + ValueAt(g, m)
    <3> TAKE m \in 1 .. NMains
    <3>1. ScoreFor(m) \in Nat
      BY ScoreIs
    <3> QED BY <1>2, <2>1, <3>1
  <2>3. Report!SumTo(NMains, h) = Report!SumTo(NMains, f) + Report!SumTo(NMains, g)
    BY <2>1, <2>2, ReportParameters, SumsAdd
  <2> QED BY <2>3 DEF f, g, h
<1> QED BY <1>3, <1>4, <1>5, FS_CardinalityType

\* The categories' means are those of their scores, and so all of them
\* together those of all.
LEMMA CategoriesAre ==
  ASSUME ReportTyped
  PROVE  LET n == Cardinality(Report!AnsweredMains)
             scores == Report!SumTo(NMains, ScoresOf(Report!AnsweredMains))
             shares == Report!SumTo(NLabels, [l \in DOMAIN ByLabel |-> ByLabel[l].score * ByLabel[l].count])
         IN  /\ Report!SumTo(NLabels, [l \in DOMAIN ByLabel |-> ByLabel[l].count]) = n
             /\ shares <= scores /\ (n > 0 => scores < shares + n)
<1> DEFINE n == Cardinality(Report!AnsweredMains)
           tally == [l \in DOMAIN ByLabel |-> ByLabel[l].count]
           shares == [l \in DOMAIN ByLabel |-> ByLabel[l].score * ByLabel[l].count]
           all(l) == Report!SumTo(NMains, ScoresOf(OfFirst(l)))
           mean(l) == Report!Mean(ScoresOf(OfLabel(l)))
           size(l) == Cardinality(OfLabel(l))
<1>1. \A l \in DOMAIN ByLabel : /\ OfLabel(l) # {} /\ OfLabel(l) \in SUBSET Report!Mains
                                /\ ByLabel[l].score = mean(l) /\ ByLabel[l].count = size(l)
  BY AnsweredAre DEF ByLabel, OfLabel
<1>2. \A l : OfLabel(l) # {} => l \in DOMAIN ByLabel
  BY DEF ByLabel, OfLabel
<1>3. \A l \in DOMAIN ByLabel : mean(l) \in Int /\ size(l) \in Nat
  BY <1>1, MeanIs
<1>4. Numeric(tally) /\ Numeric(shares)
  <2> HIDE DEF mean, size
  <2> QED BY <1>1, <1>3 DEF Numeric
<1>5. \A l : /\ ValueAt(tally, l) = IF OfLabel(l) # {} THEN size(l) ELSE 0
             /\ ValueAt(shares, l) = IF OfLabel(l) # {} THEN mean(l) * size(l) ELSE 0
  <2> HIDE DEF mean, size
  <2> QED BY <1>1, <1>2 DEF ValueAt
<1> HIDE DEF tally, shares
<1>6. PICK c : Sums(c, NLabels, tally) /\ Report!SumTo(NLabels, tally) = c[NLabels]
  BY <1>4, ReportParameters, SumGoes
<1>7. PICK s : Sums(s, NLabels, shares) /\ Report!SumTo(NLabels, shares) = s[NLabels]
  BY <1>4, ReportParameters, SumGoes
<1>8. \A l \in 0 .. NLabels : all(l) \in Int /\ c[l] \in Int /\ s[l] \in Int
  <2>1. \A l \in 0 .. NLabels : OfFirst(l) \in SUBSET Report!Mains
    BY AnsweredAre DEF OfFirst
  <2> QED BY <1>6, <1>7, <2>1, ScoresSum DEF Sums
<1> DEFINE L == {l \in 0 .. NLabels : /\ c[l] = Cardinality(OfFirst(l)) /\ c[l] >= 0
                                      /\ s[l] =< all(l)
                                      /\ IF c[l] > 0 THEN all(l) < s[l] + c[l] ELSE all(l) = s[l]}
<1>9. 0 \in L
  <2>1. OfFirst(0) = {}
    <3>1. \A m \in Report!AnsweredMains : category[m] \in 1 .. NLabels
      BY AnsweredAre DEF ReportTyped, Report!Labels
    <3>2. \A m \in Report!AnsweredMains : ~(category[m] =< 0)
      BY <3>1, ReportParameters
    <3> QED BY <3>2 DEF OfFirst
  <2>2. all(0) = 0 /\ Cardinality(OfFirst(0)) = 0
    BY <2>1, NoScores, FS_EmptySet
  <2>3. c[0] = 0 /\ s[0] = 0 /\ 0 \in 0 .. NLabels
    BY <1>6, <1>7, ReportParameters DEF Sums
  <2> HIDE DEF all
  <2> QED BY <2>2, <2>3
<1>10. ASSUME NEW l \in 1 .. NLabels, l - 1 \in L PROVE l \in L
  <2>0. l \in 0 .. NLabels /\ l - 1 \in 0 .. NLabels
    BY ReportParameters
  <2>1. c[l] = c[l - 1] + ValueAt(tally, l) /\ s[l] = s[l - 1] + ValueAt(shares, l)
    BY <1>6, <1>7 DEF Sums
  <2>2. /\ all(l) = all(l - 1) + Report!SumTo(NMains, ScoresOf(OfLabel(l)))
        /\ Cardinality(OfFirst(l)) = Cardinality(OfFirst(l - 1)) + size(l)
        /\ size(l) \in Nat
    BY NextCategory
  <2>3. /\ c[l - 1] = Cardinality(OfFirst(l - 1)) /\ c[l - 1] >= 0 /\ s[l - 1] =< all(l - 1)
        /\ IF c[l - 1] > 0 THEN all(l - 1) < s[l - 1] + c[l - 1] ELSE all(l - 1) = s[l - 1]
    BY <1>10
  <2>4. all(l - 1) \in Int /\ all(l) \in Int /\ c[l - 1] \in Int /\ s[l - 1] \in Int
        /\ c[l] \in Int /\ s[l] \in Int
    BY <1>8, <2>0
  <2>5. CASE OfLabel(l) = {}
    <3>1. Report!SumTo(NMains, ScoresOf(OfLabel(l))) = 0 /\ size(l) = 0
      BY <2>5, NoScores, FS_EmptySet
    <3>2. ValueAt(tally, l) = 0 /\ ValueAt(shares, l) = 0
      BY <1>5, <2>5
    <3>3. all(l) = all(l - 1) /\ c[l] = c[l - 1] /\ s[l] = s[l - 1]
          /\ Cardinality(OfFirst(l)) = Cardinality(OfFirst(l - 1))
      <4> HIDE DEF all, size
      <4> QED BY <2>1, <2>2, <2>3, <2>4, <3>1, <3>2
    <3> HIDE DEF all, size
    <3> QED BY <2>0, <2>3, <3>3
  <2>6. CASE OfLabel(l) # {}
    <3>1. ValueAt(tally, l) = size(l) /\ ValueAt(shares, l) = mean(l) * size(l)
      BY <1>5, <2>6
    <3>2. /\ size(l) > 0 /\ mean(l) \in Int
          /\ size(l) * mean(l) =< Report!SumTo(NMains, ScoresOf(OfLabel(l)))
          /\ Report!SumTo(NMains, ScoresOf(OfLabel(l))) < size(l) * (mean(l) + 1)
          /\ Report!SumTo(NMains, ScoresOf(OfLabel(l))) \in Int
      BY <1>1, <1>2, <2>6, MeanIs, ScoresSum
    <3> DEFINE sum == Report!SumTo(NMains, ScoresOf(OfLabel(l)))
               share == mean(l) * size(l)
    <3>3. share \in Int /\ share =< sum /\ sum < share + size(l) /\ sum \in Int
      <4> HIDE DEF mean, size
      <4>1. size(l) * (mean(l) + 1) = mean(l) * size(l) + size(l)
            /\ size(l) * mean(l) = mean(l) * size(l)
        BY <2>2, <3>2
      <4> QED BY <2>2, <3>2, <4>1
    <3>4. all(l) = all(l - 1) + sum /\ c[l] = c[l - 1] + size(l) /\ s[l] = s[l - 1] + share
      BY <2>1, <2>2, <3>1
    <3> HIDE DEF all, size, share, sum, mean
    <3> QED BY <2>0, <2>2, <2>3, <2>4, <3>2, <3>3, <3>4
  <2> QED BY <2>5, <2>6
<1>11. \A l \in 0 .. NLabels : l \in L
  <2> HIDE DEF L
  <2> QED BY <1>9, <1>10, ReportParameters, Induction
<1>12. OfFirst(NLabels) = Report!AnsweredMains
  <2>1. \A m \in Report!AnsweredMains : category[m] \in 1 .. NLabels
    BY AnsweredAre DEF ReportTyped, Report!Labels
  <2>2. \A m \in Report!AnsweredMains : category[m] =< NLabels
    BY <2>1, ReportParameters
  <2> QED BY <2>2 DEF OfFirst
<1>13. NLabels \in L
  BY <1>11, ReportParameters
<1>14. c[NLabels] = n /\ s[NLabels] =< all(NLabels) /\ (n > 0 => all(NLabels) < s[NLabels] + n)
  <2> HIDE DEF all
  <2> QED BY <1>12, <1>13
<1>15. all(NLabels) = Report!SumTo(NMains, ScoresOf(Report!AnsweredMains))
  BY <1>12
<1> HIDE DEF all
<1> QED BY <1>6, <1>7, <1>14, <1>15 DEF tally, shares

-----------------------------------------------------------------------------
(* What it says, and the view of it                                        *)

\* The lesser of two numbers is at most the second, and it if that is no more.
LEMMA LesserIs ==
  ASSUME NEW a \in Nat, NEW b \in Nat
  PROVE  Report!Min({a, b}) \in Nat /\ Report!Min({a, b}) =< b /\ (b =< a => Report!Min({a, b}) = b)
<1>1. Report!Min({a, b}) \in {a, b} /\ \A y \in {a, b} : Report!Min({a, b}) =< y
  <2>1. \E x \in {a, b} : \A y \in {a, b} : x =< y
    <3>1. CASE a =< b
      BY <3>1
    <3>2. CASE b =< a
      BY <3>2
    <3> QED BY <3>1, <3>2
  <2> QED BY <2>1 DEF Report!Min
<1> QED BY <1>1

\* The points kept are some of those named, each once; and all of them when
\* they are few.
LEMMA PointsAre ==
  ASSUME ReportTyped
  PROVE  LET kept == Report!Unique(points)
             said == {points[k] : k \in DOMAIN points} \ {"blank"}
             in   == {kept[k] : k \in DOMAIN kept}
         IN  /\ \A i, j \in DOMAIN kept : i # j => kept[i] # kept[j]
             /\ in \subseteq said
             /\ Cardinality(said) <= MaxKept => said = in
<1> DEFINE first == {k \in DOMAIN points : /\ points[k] # "blank"
                                            /\ \A j \in 1 .. k - 1 : points[j] # points[k]}
           order == Report!InOrder(first)
           c == Cardinality(first)
           w == Report!Min({MaxKept, c})
           kept == [i \in 1 .. w |-> points[order[i]]]
           said == {points[k] : k \in DOMAIN points} \ {"blank"}
           in   == {kept[k] : k \in DOMAIN kept}
<1>1. Report!Unique(points) = kept
  BY DEF Report!Unique, Report!Cardinality, Cardinality
<1>2. PICK n \in Nat : points \in [1 .. n -> Report!Points]
  BY DEF ReportTyped
<1>3. /\ first \in SUBSET (1 .. n) /\ first \in SUBSET Nat /\ IsFiniteSet(first) /\ c \in Nat
      /\ DOMAIN points = 1 .. n /\ IsFiniteSet(1 .. n)
  <2>1. first \in SUBSET (1 .. n) /\ DOMAIN points = 1 .. n
    BY <1>2
  <2>2. IsFiniteSet(1 .. n)
    <3>1. 1 \in Int /\ n \in Int
      OBVIOUS
    <3> QED BY <3>1, FS_Interval
  <2> HIDE DEF first
  <2>3. IsFiniteSet(first)
    BY <2>1, <2>2, FS_Subset
  <2>4. first \in SUBSET Nat
    BY <2>1
  <2> QED BY <2>1, <2>2, <2>3, <2>4, FS_CardinalityType
<1>4. Orders(order, first)
  <2> HIDE DEF first
  <2> DEFINE Order(o) == o \in [1 .. c -> first] /\ \A i, j \in DOMAIN o : i < j => o[i] < o[j]
  <2>1. PICK t : Orders(t, first)
    BY <1>3, OrderExists
  <2>2. t \in [1 .. c -> first] /\ \A i, j \in DOMAIN t : i < j => t[i] < t[j]
    BY <2>1 DEF Orders
  <2>3. order \in [1 .. c -> first] /\ \A i, j \in DOMAIN order : i < j => order[i] < order[j]
    BY <2>2 DEF Report!InOrder, Report!Cardinality, Cardinality
  <2> HIDE DEF order
  <2> QED BY <2>3 DEF Orders
<1>5. \A x \in first : \E k \in 1 .. c : order[k] = x
  <2> HIDE DEF first, order
  <2> QED BY <1>3, <1>4, OrderHasAll
<1>6. w \in Nat /\ w =< c /\ (c =< MaxKept => w = c)
  <2> HIDE DEF c
  <2> QED BY <1>3, LesserIs, ReportParameters
<1>7. \A i \in 1 .. c : order[i] \in first /\ order[i] \in Nat
  <2>1. order \in [1 .. c -> first]
    BY <1>4 DEF Orders
  <2> HIDE DEF first, order, c
  <2> QED BY <1>3, <2>1
<1>8. \A i, j \in 1 .. c : i < j => order[i] < order[j]
  BY <1>4 DEF Orders
<1>9. \A k \in first : /\ k \in DOMAIN points /\ points[k] # "blank"
                       /\ \A j \in 1 .. k - 1 : points[j] # points[k]
  OBVIOUS
<1>10. \A k \in first : k \in 1 .. n
  BY <1>3
<1>a. \A i \in 1 .. w : i \in 1 .. c
  <2> HIDE DEF w, c
  <2> QED BY <1>3, <1>6
<1>11. ASSUME NEW i \in 1 .. w, NEW j \in 1 .. w, i # j PROVE kept[i] # kept[j]
  <2>1. ASSUME NEW a \in 1 .. c, NEW b \in 1 .. c, a < b PROVE points[order[a]] # points[order[b]]
    <3>1. order[a] < order[b] /\ order[a] \in first /\ order[b] \in first
          /\ order[a] \in Nat /\ order[b] \in Nat
      BY <1>7, <1>8, <2>1
    <3>2. order[a] \in 1 .. n
      BY <1>10, <3>1
    <3> HIDE DEF order, first
    <3>3. order[a] \in 1 .. order[b] - 1
      BY <3>1, <3>2
    <3> QED BY <1>9, <3>1, <3>3
  <2>2. i \in 1 .. c /\ j \in 1 .. c /\ (i < j \/ j < i)
    <3>1. i < j \/ j < i
      BY <1>11
    <3> QED BY <1>a, <3>1
  <2> HIDE DEF c, order, w
  <2> QED BY <2>1, <2>2
<1>12. in \subseteq said
  <2> SUFFICES ASSUME NEW i \in 1 .. w PROVE kept[i] \in said
    OBVIOUS
  <2>1. order[i] \in first
    BY <1>7, <1>a
  <2> HIDE DEF order, first, w
  <2> QED BY <1>9, <2>1
<1>13. ASSUME Cardinality(said) =< MaxKept PROVE said \subseteq in
  <2>1. IsFiniteSet(said)
    <3> DEFINE P == {points[k] : k \in 1 .. n}
    <3>1. IsFiniteSet(P)
      <4>1. points \in Surjection(1 .. n, P)
        BY <1>2 DEF Surjection
      <4> HIDE DEF P
      <4> QED BY <1>3, <4>1, FS_Surjection
    <3>2. said \in SUBSET P
      BY <1>3
    <3> QED BY <3>1, <3>2, FS_Subset
  <2> DEFINE f == [k \in first |-> points[k]]
  <2>2. f \in [first -> said]
    <3> HIDE DEF first
    <3> QED BY <1>9
  <2>3. \A i, j \in first : f[i] = f[j] => i = j
    <3> SUFFICES ASSUME NEW i \in first, NEW j \in first, i < j PROVE points[i] # points[j]
      <4>1. \A i \in first : i \in Int /\ f[i] = points[i]
        BY <1>3
      <4>2. \A i, j \in first : i < j => points[i] # points[j]
        OBVIOUS
      <4> HIDE DEF f, first
      <4> QED BY <4>1, <4>2
    <3>1. i \in 1 .. n /\ j \in 1 .. n
      BY <1>10
    <3>2. i \in 1 .. j - 1
      BY <3>1
    <3> HIDE DEF first
    <3> QED BY <1>9, <3>2
  <2>4. f \in Injection(first, said)
    <3> HIDE DEF f
    <3> QED BY <2>2, <2>3 DEF Injection, IsInjective
  <2>5. c =< Cardinality(said)
    <3> HIDE DEF f, first, said
    <3> QED BY <2>1, <2>4, FS_Injection
  <2>6. w = c
    <3>1. Cardinality(said) \in Nat
      <4> HIDE DEF said
      <4> QED BY <2>1, FS_CardinalityType
    <3> HIDE DEF c, w, said
    <3> QED BY <1>3, <1>6, <1>13, <2>5, <3>1, ReportParameters
  <2>7. ASSUME NEW k \in DOMAIN points, points[k] # "blank" PROVE points[k] \in in
    <3> DEFINE same == {j \in 1 .. n : points[j] = points[k]}
    <3>1. k \in same /\ same \in SUBSET Nat
      BY <1>3
    <3>2. PICK j \in same : \A x \in same : j =< x
      <4> HIDE DEF same
      <4> QED BY <3>1, Smallest
    <3>3. j \in 1 .. n /\ points[j] = points[k]
      BY <3>2
    <3>4. ASSUME NEW x \in 1 .. j - 1 PROVE points[x] # points[j]
      <4>1. x \in 1 .. n /\ x < j
        BY <3>3
      <4> QED BY <3>2, <3>3, <4>1
    <3>5. j \in first
      BY <1>3, <2>7, <3>3, <3>4
    <3>6. PICK i \in 1 .. c : order[i] = j
      BY <1>5, <3>5
    <3>7. i \in 1 .. w
      BY <2>6, <3>6
    <3> HIDE DEF order, w
    <3>8. kept[i] = points[k] /\ i \in DOMAIN kept
      BY <3>3, <3>6, <3>7
    <3> HIDE DEF kept
    <3> QED BY <3>8
  <2> HIDE DEF in
  <2> QED BY <2>7
<1> DEFINE Claim(s) == /\ \A i, j \in DOMAIN s : i # j => s[i] # s[j]
                       /\ {s[k] : k \in DOMAIN s} \subseteq said
                       /\ Cardinality(said) =< MaxKept => said = {s[k] : k \in DOMAIN s}
<1>14. Claim(kept)
  <2>1. DOMAIN kept = 1 .. w
    OBVIOUS
  <2> HIDE DEF said, w, first, order
  <2> QED BY <1>11, <1>12, <1>13, <2>1
<1>15. Claim(Report!Unique(points))
  <2> HIDE DEF kept, Claim
  <2> QED BY <1>1, <1>14
<1> QED BY <1>15

\* A question is shown with its score of its group's.
LEMMA ShownIs ==
  ASSUME ReportTyped, report = <<MadeReport>>, NEW q \in Report!Asked
  PROVE  \/ \E k \in DOMAIN groups : \E j \in DOMAIN groups[k].turns :
              groups[k].order = q[1] /\ groups[k].turns[j] = [question |-> q, score |-> Report!Shown(q)]
         \/ Report!Shown(q) = 0
<1> DEFINE G == report[1].groups
           those == {k \in DOMAIN G : q \in DOMAIN G[k].details}
           one == CHOOSE k \in those : TRUE
<1>1. G = MadeReport.groups
  <2>1. report[1] = MadeReport
    OBVIOUS
  <2> QED BY <2>1
<1>2. Report!Shown(q) = IF those = {} THEN 0 ELSE G[one].details[q]
  BY DEF Report!Shown
<1>3. CASE those # {}
  <2>1. one \in those
    BY <1>3
  <2> HIDE DEF one
  <2>2. one \in DOMAIN G /\ q \in DOMAIN G[one].details
    BY <2>1
  <2> HIDE DEF G
  <2>3. one \in DOMAIN Report!Answered /\ G[one] = Report!GroupReport(Report!Answered[one])
    BY <1>1, <2>2 DEF MadeReport
  <2>4. q[1] = Report!Answered[one]
    BY <2>2, <2>3 DEF Report!GroupReport
  <2>5. Report!Shown(q) = Report!GroupReport(Report!Answered[one]).details[q]
    BY <1>2, <1>3, <2>3
  <2> QED BY <2>4, <2>5, DetailIs
<1>4. CASE those = {}
  BY <1>2, <1>4
<1> QED BY <1>3, <1>4

\* The report that is made is of the answers.
LEMMA MadeIsOfTheAnswers == ASSUME ReportTyped, report = <<MadeReport>> PROVE Report!ReportIsOfTheAnswers
<1> DEFINE n == Cardinality(Report!AnsweredMains)
           Given(m, s) == \E k \in DOMAIN groups : groups[k].order = m /\ groups[k].score = s
<1>1. report[1] = MadeReport /\ report # <<>>
  <2>1. \A x : <<x>>[1] = x /\ <<x>> # <<>>
    OBVIOUS
  <2> QED BY <2>1
<1>2. /\ DOMAIN MadeReport.groups = 1 .. n /\ n \in Nat /\ Len(MadeReport.groups) = n
      /\ \A k \in 1 .. n : MadeReport.groups[k] = Report!GroupReport(Report!Answered[k])
  <2>1. MadeReport.groups = [k \in 1 .. n |-> Report!GroupReport(Report!Answered[k])] /\ n \in Nat
    BY AnsweredAre DEF MadeReport
  <2> HIDE DEF n
  <2> QED BY <2>1
<1>3. \A k \in 1 .. n : /\ MadeReport.groups[k].main = Report!Answered[k]
                        /\ MadeReport.groups[k].score = ScoreFor(Report!Answered[k])
  <2>1. \A m : Report!GroupReport(m).main = m /\ Report!GroupReport(m).score = ScoreFor(m)
    BY DEF Report!GroupReport, ScoreFor
  <2> HIDE DEF n
  <2> QED BY <1>2, <2>1
<1>4. Report!Answered \in [1 .. n -> Report!AnsweredMains] /\ \A i, j \in 1 .. n : i < j => Report!Answered[i] < Report!Answered[j]
  BY AnsweredAre DEF Orders
<1>5. \A q \in answered : \E k \in 1 .. n : MadeReport.groups[k].main = q[1]
  <2> TAKE q \in answered
  <2>1. q[1] \in Report!AnsweredMains
    BY DEF ReportTyped, Report!AnsweredMains, Report!Asked, Report!Questions
  <2>2. PICK k \in 1 .. n : Report!Answered[k] = q[1]
    BY <2>1, AnsweredAre
  <2> QED BY <1>3, <2>2
<1>6. ASSUME NEW k \in 1 .. n
      PROVE  LET g == MadeReport.groups[k]
             IN  /\ \E q \in answered : q[1] = g.main
                 /\ k > 1 => MadeReport.groups[k - 1].main < g.main
                 /\ Given(g.main, g.score) \/ (g.score = 0 /\ \A s \in Scores : ~Given(g.main, s))
  <2>1. \E q \in answered : q[1] = Report!Answered[k]
    BY <1>4 DEF Report!AnsweredMains
  <2>2. ASSUME k > 1 PROVE Report!Answered[k - 1] < Report!Answered[k] /\ k - 1 \in 1 .. n
    <3>1. k - 1 \in 1 .. n /\ k - 1 < k
      BY <1>2, <2>2
    <3> QED BY <1>4, <3>1
  <2>3. Given(Report!Answered[k], ScoreFor(Report!Answered[k]))
        \/ (ScoreFor(Report!Answered[k]) = 0 /\ \A s \in Scores : ~Given(Report!Answered[k], s))
    BY ScoreIs
  <2> HIDE DEF Given, n
  <2> QED BY <1>3, <2>1, <2>2, <2>3
<1>7. MadeReport.categories = ByLabel
  BY DEF MadeReport
<1>8. \A q \in Report!Asked :
        \/ \E k \in DOMAIN groups : \E j \in DOMAIN groups[k].turns :
             groups[k].order = q[1] /\ groups[k].turns[j] = [question |-> q, score |-> Report!Shown(q)]
        \/ Report!Shown(q) = 0
  BY ShownIs
<1> DEFINE strengths == MadeReport.strengths
           said == {points[k] : k \in DOMAIN points} \ {"blank"}
           kept == {strengths[k] : k \in DOMAIN strengths}
<1>9. /\ \A i, j \in DOMAIN strengths : i # j => strengths[i] # strengths[j]
      /\ kept \subseteq said
      /\ n > 0 /\ Cardinality(said) <= MaxKept => said = kept
  <2>1. CASE Report!AnsweredMains = {}
    <3>1. strengths = <<>> /\ n = 0
      BY <2>1, FS_EmptySet DEF MadeReport
    <3>2. DOMAIN strengths = {}
      BY <3>1
    <3> HIDE DEF strengths, n
    <3> QED BY <3>1, <3>2
  <2>2. CASE Report!AnsweredMains # {}
    <3>1. strengths = Report!Unique(points)
      BY <2>2 DEF MadeReport
    <3> QED BY <3>1, PointsAre
  <2> QED BY <2>1, <2>2
<1> DEFINE r == MadeReport
           shared == r.categories
           scores == Report!SumTo(n, [k \in 1 .. n |-> r.groups[k].score])
           shares == Report!SumTo(NLabels, [l \in DOMAIN shared |-> shared[l].score * shared[l].count])
<1>10. /\ n * r.overall <= scores /\ (n > 0 => scores < n * (r.overall + 1))
       /\ Report!SumTo(NLabels, [l \in DOMAIN shared |-> shared[l].count]) = n
       /\ shares <= scores /\ (n > 0 => scores < shares + n)
  BY <1>7, OverallIs, CategoriesAre
<1> DEFINE Says(x, c, sum, share) ==
             /\ \A q \in answered : \E k \in 1 .. c : x.groups[k].main = q[1]
             /\ \A k \in 1 .. c :
                  LET g == x.groups[k]
                  IN  /\ \E q \in answered : q[1] = g.main
                      /\ k > 1 => x.groups[k - 1].main < g.main
                      /\ Given(g.main, g.score) \/ (g.score = 0 /\ \A s \in Scores : ~Given(g.main, s))
             /\ Report!SumTo(NLabels, [l \in DOMAIN x.categories |-> x.categories[l].count]) = c
             /\ c * x.overall <= sum /\ (c > 0 => sum < c * (x.overall + 1))
             /\ share <= sum /\ (c > 0 => sum < share + c)
             /\ \A q \in Report!Asked :
                  \/ \E k \in DOMAIN groups : \E j \in DOMAIN groups[k].turns :
                       groups[k].order = q[1] /\ groups[k].turns[j] = [question |-> q, score |-> Report!Shown(q)]
                  \/ Report!Shown(q) = 0
             /\ \A i, j \in DOMAIN x.strengths : i # j => x.strengths[i] # x.strengths[j]
             /\ {x.strengths[k] : k \in DOMAIN x.strengths} \subseteq said
             /\ c > 0 /\ Cardinality(said) <= MaxKept
                  => said = {x.strengths[k] : k \in DOMAIN x.strengths}
<1>11. Says(r, n, scores, shares)
  <2> HIDE DEF n, r, scores, shares, said, Given
  <2> QED BY <1>5, <1>6, <1>8, <1>9, <1>10 DEF r
<1>12. Says(report[1], Len(report[1].groups),
            Report!SumTo(Len(report[1].groups), [k \in 1 .. Len(report[1].groups) |-> report[1].groups[k].score]),
            Report!SumTo(NLabels, [l \in DOMAIN report[1].categories |->
                              report[1].categories[l].score * report[1].categories[l].count]))
  <2> HIDE DEF Says, n
  <2> QED BY <1>1, <1>2, <1>11
<1> QED BY <1>12 DEF Report!ReportIsOfTheAnswers, Report!Cardinality, Cardinality

-----------------------------------------------------------------------------
(* Its making                                                              *)

ReportInv == ReportTyped /\ (report # <<>> => report = <<MadeReport>>)

\* An interview begins without a report.
LEMMA ReportBegins == Report!Init => ReportInv
<1> SUFFICES ASSUME Report!Init PROVE ReportTyped
  BY DEF Report!Init, ReportInv
<1>1. category \in [Report!Mains -> Report!Labels] /\ answered \subseteq Report!Asked
  BY DEF Report!Init
<1>2. \E n \in Nat : groups \in [1 .. n -> Report!GroupsOf]
  <2>1. PICK n \in 0 .. MaxGroups : groups \in [1 .. n -> Report!GroupsOf]
    BY DEF Report!Init
  <2> QED BY <2>1
<1>3. \E n \in Nat : points \in [1 .. n -> Report!Points]
  <2>1. PICK n \in 0 .. MaxPoints : points \in [1 .. n -> Report!Points]
    BY DEF Report!Init
  <2> QED BY <2>1
<1> QED BY <1>1, <1>2, <1>3 DEF ReportTyped

\* Nothing but the report changes.
LEMMA ReportStep == ASSUME ReportInv, [Report!Next]_reportVars PROVE ReportInv'
<1>1. UNCHANGED <<followUps, category, answered, groups, points>>
  BY DEF Report!Next, Report!Evaluate, reportVars
<1>2. MadeReport' = MadeReport
  BY <1>1 DEF MadeReport, Report!Answered, Report!AnsweredMains, ByLabel, OfLabel, ScoresOf, ScoreFor,
              Report!GroupReport, Report!Evaluated, Report!Asked, Report!Unique
<1>3. ReportTyped'
  BY <1>1 DEF ReportInv, ReportTyped, Report!Asked
<1>4. report' = report \/ report' = <<MadeReport>>
  BY DEF Report!Next, Report!Evaluate, reportVars, MadeReport, ByLabel, OfLabel, ScoresOf, ScoreFor, Report!Cardinality, Cardinality
<1> QED BY <1>2, <1>3, <1>4 DEF ReportInv

\* What the invariant of EvaluationReport says of a report.
LEMMA ReportIsHeld == ReportInv => Report!ReportIsOfTheAnswers
<1>1. CASE report = <<>>
  BY <1>1 DEF Report!ReportIsOfTheAnswers
<1>2. CASE report # <<>>
  BY <1>2, MadeIsOfTheAnswers DEF ReportInv
<1> QED BY <1>1, <1>2

-----------------------------------------------------------------------------
(* What a skill brings                                                     *)

SkillsTyped ==
  /\ \E n \in Nat : categories \in [1 .. n -> Skills!Category]
  /\ total \in Nat /\ custom \in BOOLEAN /\ files \in [Skills!Places -> Nat]

\* The limits of a skill's questions and references are numbers.
LEMMA SkillNumbers ==
  /\ MaxTotal \in Nat /\ MaxCategories \in Nat /\ Header \in Nat /\ Marker \in Nat
  /\ MaxSection \in Nat /\ MaxSingle \in Nat
  BY ExchangesAssumption DEF Skills!SkillsAssumption

\* The sums of SkillReferences and EvaluationReport are the same function.
LEMMA SkillSum == \A n, value : Skills!SumTo(n, value) = Report!SumTo(n, value)
  BY DEF Skills!SumTo, Report!SumTo

\* Some of the categories in their order.
Picked(those, n, o) ==
  /\ \A i, j \in 1 .. n : i # j => o[i] # o[j]
  /\ those \in Seq(Skills!Category) /\ Len(those) = n /\ DOMAIN those = 1 .. n
  /\ \A i \in 1 .. n : those[i] = categories[o[i]]

\* Some of the categories, in their order, are a list of them.
LEMMA ThoseAre ==
  ASSUME SkillsTyped, NEW K \in SUBSET (DOMAIN categories)
  PROVE  \E n \in Nat : \E o \in [1 .. n -> K] : Picked(Skills!Those(K), n, o)
<1> DEFINE c == Cardinality(K)
           o == Skills!InOrder(K)
<1>1. PICK m \in Nat : categories \in [1 .. m -> Skills!Category]
  BY DEF SkillsTyped
<1>2. K \in SUBSET (1 .. m) /\ K \in SUBSET Nat /\ IsFiniteSet(K) /\ c \in Nat
  <2>1. K \in SUBSET (1 .. m)
    BY <1>1
  <2>2. IsFiniteSet(1 .. m)
    <3>1. 1 \in Int /\ m \in Int
      OBVIOUS
    <3> QED BY <3>1, FS_Interval
  <2>3. IsFiniteSet(K)
    BY <2>1, <2>2, FS_Subset
  <2>4. K \in SUBSET Nat
    BY <2>1
  <2> QED BY <2>1, <2>3, <2>4, FS_CardinalityType
<1>3. o \in [1 .. c -> K] /\ \A i, j \in DOMAIN o : i < j => o[i] < o[j]
  <2>1. PICK t : Orders(t, K)
    BY <1>2, OrderExists
  <2>2. t \in [1 .. c -> K] /\ \A i, j \in DOMAIN t : i < j => t[i] < t[j]
    BY <2>1 DEF Orders
  <2> QED BY <2>2 DEF Skills!InOrder, Skills!Cardinality, Cardinality
<1> HIDE DEF o, c
<1>4. ASSUME NEW i \in 1 .. c, NEW j \in 1 .. c, i # j PROVE o[i] # o[j]
  <2>1. i < j \/ j < i
    BY <1>4
  <2>2. o[i] \in Nat /\ o[j] \in Nat /\ DOMAIN o = 1 .. c
    BY <1>2, <1>3
  <2> QED BY <1>3, <2>1, <2>2
<1>5. Skills!Those(K) = [i \in 1 .. c |-> categories[o[i]]]
  BY <1>3 DEF Skills!Those, o
<1>6. Skills!Those(K) \in [1 .. c -> Skills!Category]
  BY <1>1, <1>2, <1>3, <1>5
<1>7. Skills!Those(K) \in Seq(Skills!Category) /\ Len(Skills!Those(K)) = c
  BY <1>2, <1>6
<1>8. Picked(Skills!Those(K), c, o)
  BY <1>2, <1>4, <1>5, <1>7 DEF Picked
<1> QED BY <1>2, <1>3, <1>8

\* The categories in the order of their turns: those that always have one,
\* and the others after them.
InTurn(k) == IF k <= Len(Skills!Always) THEN Skills!Always[k]
             ELSE Skills!Rounds[k - Len(Skills!Always)]

\* Those that always get a question and those that take turns are lists of
\* categories, none twice if their keys differ.
LEMMA TurnsAre ==
  ASSUME SkillsTyped
  PROVE  LET a == Len(Skills!Always)
             n == Len(Skills!Rounds)
         IN  /\ a \in Nat /\ n \in Nat
             /\ DOMAIN Skills!Always = 1 .. a /\ DOMAIN Skills!Rounds = 1 .. n
             /\ Skills!Rounds = <<>> <=> n = 0
             /\ \A k \in 1 .. a : Skills!Always[k] \in Skills!Category
             /\ \A k \in 1 .. n : Skills!Rounds[k] \in Skills!Category
             /\ Skills!KeysDiffer =>
                  \A j, k \in 1 .. a + n : j # k => InTurn(j).key # InTurn(k).key
<1> DEFINE Of1(p) == {k \in DOMAIN categories : categories[k].priority = p}
           A == Skills!Always
           C == Skills!OfPriority("CORE")
           N == Skills!OfPriority("NORMAL")
           R == Skills!Rounds
<1>1. A = Skills!Those(Of1("ALWAYS_ONE")) /\ C = Skills!Those(Of1("CORE")) /\ N = Skills!Those(Of1("NORMAL"))
      /\ R = C \o N
  BY DEF Skills!Always, Skills!OfPriority, Skills!Rounds
<1>2. \A p : Of1(p) \in SUBSET (DOMAIN categories)
  OBVIOUS
<1>3a. PICK a \in Nat : \E o \in [1 .. a -> Of1("ALWAYS_ONE")] : Picked(A, a, o)
  <2>1. \E a \in Nat : \E o \in [1 .. a -> Of1("ALWAYS_ONE")] : Picked(Skills!Those(Of1("ALWAYS_ONE")), a, o)
    <3> HIDE DEF Of1
    <3> QED BY <1>2, ThoseAre
  <2> HIDE DEF A, Of1
  <2> QED BY <1>1, <2>1
<1>3. PICK f \in [1 .. a -> Of1("ALWAYS_ONE")] :
        /\ \A i, j \in 1 .. a : i # j => f[i] # f[j]
        /\ A \in Seq(Skills!Category) /\ Len(A) = a /\ DOMAIN A = 1 .. a
        /\ \A i \in 1 .. a : A[i] = categories[f[i]]
  BY <1>3a DEF Picked
<1>4a. PICK c \in Nat : \E o \in [1 .. c -> Of1("CORE")] : Picked(C, c, o)
  <2>1. \E c \in Nat : \E o \in [1 .. c -> Of1("CORE")] : Picked(Skills!Those(Of1("CORE")), c, o)
    <3> HIDE DEF Of1
    <3> QED BY <1>2, ThoseAre
  <2> HIDE DEF C, Of1
  <2> QED BY <1>1, <2>1
<1>4. PICK g \in [1 .. c -> Of1("CORE")] :
        /\ \A i, j \in 1 .. c : i # j => g[i] # g[j]
        /\ C \in Seq(Skills!Category) /\ Len(C) = c /\ DOMAIN C = 1 .. c
        /\ \A i \in 1 .. c : C[i] = categories[g[i]]
  BY <1>4a DEF Picked
<1>5a. PICK m \in Nat : \E o \in [1 .. m -> Of1("NORMAL")] : Picked(N, m, o)
  <2>1. \E m \in Nat : \E o \in [1 .. m -> Of1("NORMAL")] : Picked(Skills!Those(Of1("NORMAL")), m, o)
    <3> HIDE DEF Of1
    <3> QED BY <1>2, ThoseAre
  <2> HIDE DEF N, Of1
  <2> QED BY <1>1, <2>1
<1>5. PICK h \in [1 .. m -> Of1("NORMAL")] :
        /\ \A i, j \in 1 .. m : i # j => h[i] # h[j]
        /\ N \in Seq(Skills!Category) /\ Len(N) = m /\ DOMAIN N = 1 .. m
        /\ \A i \in 1 .. m : N[i] = categories[h[i]]
  BY <1>5a DEF Picked
<1> HIDE DEF A, C, N, R
<1>6. /\ R \in Seq(Skills!Category) /\ Len(R) = c + m /\ DOMAIN R = 1 .. c + m
      /\ R = <<>> <=> c + m = 0
      /\ \A i \in 1 .. c + m : R[i] = IF i =< c THEN C[i] ELSE N[i - c]
  <2>0. \A S, s, t : s \in Seq(S) /\ t \in Seq(S) =>
               /\ s \o t \in Seq(S) /\ Len(s \o t) = Len(s) + Len(t)
               /\ \A i \in 1 .. Len(s) + Len(t) : (s \o t)[i] = IF i =< Len(s) THEN s[i] ELSE t[i - Len(s)]
    BY ConcatProperties
  <2>1. R \in Seq(Skills!Category) /\ Len(R) = c + m
        /\ \A i \in 1 .. c + m : R[i] = IF i =< c THEN C[i] ELSE N[i - c]
    <3>1. C \in Seq(Skills!Category) /\ N \in Seq(Skills!Category)
      BY <1>4, <1>5
    <3>2. /\ C \o N \in Seq(Skills!Category) /\ Len(C \o N) = Len(C) + Len(N)
          /\ \A i \in 1 .. Len(C) + Len(N) : (C \o N)[i] = IF i =< Len(C) THEN C[i] ELSE N[i - Len(C)]
      <4> QED BY ONLY <2>0, <3>1
    <3>3. R = C \o N /\ Len(C) = c /\ Len(N) = m
      BY <1>1, <1>4, <1>5
    <3> QED BY <3>2, <3>3, Zenon
  <2> QED BY <2>1
<1>7. /\ \A i \in 1 .. a : A[i] \in Skills!Category
      /\ \A i \in 1 .. c + m : R[i] \in Skills!Category
  BY <1>3, <1>6
<1> DEFINE place == [k \in 1 .. a + (c + m) |-> IF k =< a THEN f[k]
                                                 ELSE IF k - a =< c THEN g[k - a] ELSE h[k - a - c]]
           T(k) == IF k =< a THEN A[k] ELSE R[k - a]
<1>8. ASSUME NEW k \in 1 .. a + (c + m)
      PROVE  place[k] \in DOMAIN categories /\ T(k) = categories[place[k]]
             /\ \/ k =< a /\ place[k] = f[k] /\ categories[place[k]].priority = "ALWAYS_ONE"
                \/ k > a /\ k - a =< c /\ place[k] = g[k - a] /\ k - a \in 1 .. c
                   /\ categories[place[k]].priority = "CORE"
                \/ k > a /\ k - a > c /\ place[k] = h[k - a - c] /\ k - a - c \in 1 .. m
                   /\ categories[place[k]].priority = "NORMAL"
  <2>1. CASE k =< a
    <3>1. k \in 1 .. a
      BY <2>1
    <3>2. place[k] = f[k] /\ f[k] \in Of1("ALWAYS_ONE")
      BY <1>3, <2>1, <3>1
    <3> HIDE DEF place
    <3> QED BY <1>3, <2>1, <3>1, <3>2
  <2>2. CASE k > a /\ k - a =< c
    <3>1. k - a \in 1 .. c /\ k - a \in 1 .. c + m /\ ~(k =< a)
      BY <2>2
    <3>2. place[k] = g[k - a] /\ g[k - a] \in Of1("CORE")
      BY <1>4, <2>2, <3>1
    <3>3. T(k) = C[k - a]
      BY <1>6, <2>2, <3>1
    <3> HIDE DEF place
    <3> QED BY <1>4, <2>2, <3>1, <3>2, <3>3
  <2>3. CASE k > a /\ k - a > c
    <3>1. k - a - c \in 1 .. m /\ k - a \in 1 .. c + m /\ ~(k =< a) /\ ~(k - a =< c)
      BY <2>3
    <3>2. place[k] = h[k - a - c] /\ h[k - a - c] \in Of1("NORMAL")
      BY <1>5, <2>3, <3>1
    <3>3. T(k) = N[k - a - c]
      BY <1>6, <2>3, <3>1
    <3> HIDE DEF place
    <3> QED BY <1>5, <2>3, <3>1, <3>2, <3>3
  <2> QED BY <2>1, <2>2, <2>3
<1>9. ASSUME NEW j \in 1 .. a + (c + m), NEW k \in 1 .. a + (c + m), j # k
      PROVE  place[j] # place[k]
  <2>1. ASSUME place[j] = place[k] PROVE FALSE
    <3> HIDE DEF place, T
    <3>1. CASE j =< a
      <4>1. k =< a /\ place[j] = f[j] /\ place[k] = f[k]
        BY <1>8, <2>1, <3>1
      <4>2. j \in 1 .. a /\ k \in 1 .. a
        BY <3>1, <4>1
      <4> QED BY <1>3, <1>9, <2>1, <4>1, <4>2
    <3>2. CASE j > a /\ j - a =< c
      <4>1. k > a /\ k - a =< c /\ place[j] = g[j - a] /\ place[k] = g[k - a]
            /\ j - a \in 1 .. c /\ k - a \in 1 .. c
        BY <1>8, <2>1, <3>2
      <4>2. j - a # k - a
        BY <1>9
      <4>3. g[j - a] # g[k - a]
        BY <1>4, <4>1, <4>2
      <4> QED BY <2>1, <4>1, <4>3
    <3>3. CASE j > a /\ j - a > c
      <4>1. k > a /\ k - a > c /\ place[j] = h[j - a - c] /\ place[k] = h[k - a - c]
            /\ j - a - c \in 1 .. m /\ k - a - c \in 1 .. m
        BY <1>8, <2>1, <3>3
      <4>2. j - a - c # k - a - c
        BY <1>9
      <4>3. h[j - a - c] # h[k - a - c]
        BY <1>5, <4>1, <4>2
      <4> QED BY <2>1, <4>1, <4>3
    <3> QED BY <3>1, <3>2, <3>3
  <2> QED BY <2>1
<1>10. Skills!KeysDiffer => \A j, k \in 1 .. a + (c + m) : j # k => T(j).key # T(k).key
  <2> HIDE DEF place, T
  <2> QED BY <1>8, <1>9 DEF Skills!KeysDiffer
<1>11. \A k : InTurn(k) = T(k)
  BY <1>3 DEF InTurn, A, R
<1> HIDE DEF T, place
<1>12. /\ Len(A) = a /\ Len(R) = c + m /\ c + m \in Nat /\ DOMAIN A = 1 .. a /\ DOMAIN R = 1 .. c + m
       /\ R = <<>> <=> c + m = 0
  BY <1>3, <1>6
<1>13. Skills!KeysDiffer => \A j, k \in 1 .. a + (c + m) : j # k => InTurn(j).key # InTurn(k).key
  BY <1>10, <1>11, Zenon
<1>14. /\ \A k \in 1 .. Len(A) : A[k] \in Skills!Category
       /\ \A k \in 1 .. Len(R) : R[k] \in Skills!Category
       /\ Skills!KeysDiffer => \A j, k \in 1 .. Len(A) + Len(R) : j # k => InTurn(j).key # InTurn(k).key
  BY <1>7, <1>12, <1>13, Zenon
<1>15. /\ Len(A) \in Nat /\ Len(R) \in Nat /\ DOMAIN A = 1 .. Len(A) /\ DOMAIN R = 1 .. Len(R)
       /\ R = <<>> <=> Len(R) = 0
  BY <1>12, Zenon
<1> QED BY <1>14, <1>15, Zenon DEF A, R

\* One value that grows makes the sum grow by as much.
LEMMA SumGrows ==
  ASSUME NEW n \in Nat, NEW f \in [1 .. n -> Int], NEW k \in 1 .. n, NEW d \in Int
  PROVE  Report!SumTo(n, [f EXCEPT ![k] = f[k] + d]) = Report!SumTo(n, f) + d
<1> DEFINE g == [f EXCEPT ![k] = f[k] + d]
<1>0. /\ Numeric(f) /\ Numeric(g)
      /\ \A j \in 1 .. n : /\ ValueAt(f, j) \in Int
                           /\ ValueAt(g, j) = ValueAt(f, j) + (IF j = k THEN d ELSE 0)
  BY DEF Numeric, ValueAt
<1> HIDE DEF g
<1>1. PICK u : Sums(u, n, f) /\ Report!SumTo(n, f) = u[n]
  BY <1>0, SumGoes
<1>2. PICK v : Sums(v, n, g) /\ Report!SumTo(n, g) = v[n]
  BY <1>0, SumGoes
<1> DEFINE P == {j \in 0 .. n : v[j] = u[j] + (IF k =< j THEN d ELSE 0)}
<1>3. 0 \in P
  BY <1>1, <1>2 DEF Sums
<1>4. ASSUME NEW j \in 1 .. n, j - 1 \in P PROVE j \in P
  <2>1. u[j] = u[j - 1] + ValueAt(f, j) /\ v[j] = v[j - 1] + ValueAt(g, j)
        /\ u[j - 1] \in Int /\ j - 1 \in 0 .. n /\ j \in 0 .. n
    BY <1>1, <1>2 DEF Sums
  <2>2. v[j - 1] = u[j - 1] + (IF k =< j - 1 THEN d ELSE 0)
    BY <1>4
  <2>3. ValueAt(f, j) \in Int /\ ValueAt(g, j) = ValueAt(f, j) + (IF j = k THEN d ELSE 0)
    BY <1>0
  <2> QED BY <2>1, <2>2, <2>3
<1>5. n \in P
  <2> HIDE DEF P
  <2>1. \A j \in 0 .. n : j \in P
    BY <1>3, <1>4, Induction
  <2> QED BY <2>1
<1> QED BY <1>1, <1>2, <1>5 DEF g

-----------------------------------------------------------------------------
(* How many questions a category gets                                      *)

\* The share of the i-th of n categories that take turns, of some questions.
ShareOf(some, n, i) == some \div n + (IF i =< some % n THEN 1 ELSE 0)

\* Quotient and remainder are the only ones that make up the number.
LEMMA QuotientIs ==
  ASSUME NEW a \in Nat, NEW b \in Nat \ {0}, NEW q \in Nat, NEW r \in 0 .. b - 1, a = (b * q) + r
  PROVE  a \div b = q /\ a % b = r
  OBVIOUS

\* A number is made up of its quotient and remainder.
LEMMA QuotientSplits ==
  ASSUME NEW a \in Nat, NEW b \in Nat \ {0}
  PROVE  a \div b \in Nat /\ a % b \in 0 .. b - 1 /\ a = (b * (a \div b)) + (a % b)
  OBVIOUS

\* One more question goes to the next in turn.
LEMMA ShareGrows ==
  ASSUME NEW some \in Nat, NEW n \in Nat \ {0}, NEW i \in 1 .. n
  PROVE  /\ ShareOf(some, n, i) \in Nat
         /\ ShareOf(some + 1, n, i) = ShareOf(some, n, i) + (IF i = (some % n) + 1 THEN 1 ELSE 0)
         /\ some < n /\ i = (some % n) + 1 => ShareOf(some, n, i) = 0
<1>1. PICK q \in Nat, r \in 0 .. n - 1 : q = some \div n /\ r = some % n /\ some = (n * q) + r
  BY QuotientSplits
<1>2. ShareOf(some, n, i) = q + (IF i =< r THEN 1 ELSE 0)
  BY <1>1 DEF ShareOf
<1>3. CASE r + 1 < n
  <2>1. (some + 1) \div n = q /\ (some + 1) % n = r + 1
    <3>1. some + 1 \in Nat /\ r + 1 \in 0 .. n - 1 /\ some + 1 = (n * q) + (r + 1)
      BY <1>1, <1>3
    <3> QED BY <3>1, QuotientIs
  <2>2. ShareOf(some + 1, n, i) = q + (IF i =< r + 1 THEN 1 ELSE 0)
    BY <2>1 DEF ShareOf
  <2>3. some < n => q = 0
    BY <1>1
  <2> QED BY <1>1, <1>2, <2>2, <2>3
<1>4. CASE r + 1 = n
  <2>1. (some + 1) \div n = q + 1 /\ (some + 1) % n = 0
    <3>1. some + 1 \in Nat /\ 0 \in 0 .. n - 1 /\ q + 1 \in Nat
      BY <1>1
    <3>2. n * (q + 1) = (n * q) + n
      BY <1>1
    <3>3. some + 1 = (n * (q + 1)) + 0
      <4>1. n * q \in Nat
        BY <1>1
      <4> QED BY <1>1, <1>4, <3>2, <4>1
    <3> QED BY <3>1, <3>3, QuotientIs
  <2>2. ShareOf(some + 1, n, i) = q + 1
    BY <2>1 DEF ShareOf
  <2>3. some < n => q = 0
    BY <1>1
  <2> QED BY <1>1, <1>2, <1>4, <2>2, <2>3
<1> QED BY <1>1, <1>3, <1>4

\* The lesser of two numbers.
LEMMA SkillsLesser ==
  ASSUME NEW a \in Nat, NEW b \in Nat
  PROVE  Skills!Min({a, b}) = IF a =< b THEN a ELSE b
<1>1. Skills!Min({a, b}) \in {a, b} /\ \A y \in {a, b} : Skills!Min({a, b}) =< y
  <2>1. \E x \in {a, b} : \A y \in {a, b} : x =< y
    <3>1. a =< b \/ b =< a
      OBVIOUS
    <3> QED BY <3>1
  <2> QED BY <2>1 DEF Skills!Min
<1> QED BY <1>1

\* A number, or zero if it is below.
LEMMA SkillsGreater ==
  ASSUME NEW b \in Int
  PROVE  Skills!Max({0, b}) = IF 0 =< b THEN b ELSE 0
<1>1. Skills!Max({0, b}) \in {0, b} /\ \A y \in {0, b} : y =< Skills!Max({0, b})
  <2>1. \E x \in {0, b} : \A y \in {0, b} : y =< x
    <3>1. 0 =< b \/ b =< 0
      OBVIOUS
    <3> QED BY <3>1
  <2> QED BY <2>1 DEF Skills!Max
<1> QED BY <1>1

\* The place in turn of the one that gets the m-th question.
TurnOf(m) == LET a == Len(Skills!Always)
                 n == Len(Skills!Rounds)
             IN  IF m =< a THEN m ELSE a + ((m - a - 1) % n) + 1

\* Whose turn the m-th question is: first each that always gets one, then the
\* others in rounds.
LEMMA TurnIs ==
  ASSUME SkillsTyped, NEW m \in 1 .. Skills!Given
  PROVE  LET a == Len(Skills!Always)
             n == Len(Skills!Rounds)
         IN  /\ Skills!Given \in Nat /\ a \in Nat /\ n \in Nat
             /\ TurnOf(m) \in 1 .. a + n
             /\ Skills!Turn(m) = InTurn(TurnOf(m))
             /\ Skills!Turn(m).key \in 1 .. MaxCategories
             /\ m > a => n # 0 /\ TurnOf(m) = a + ((m - a - 1) % n) + 1
             /\ m =< a => TurnOf(m) = m
<1> DEFINE a == Len(Skills!Always)
           n == Len(Skills!Rounds)
<1>1. /\ a \in Nat /\ n \in Nat
      /\ Skills!Rounds = <<>> <=> n = 0
      /\ \A k \in 1 .. a : Skills!Always[k] \in Skills!Category
      /\ \A k \in 1 .. n : Skills!Rounds[k] \in Skills!Category
  BY TurnsAre
<1>2. total \in Nat
  BY DEF SkillsTyped
<1> HIDE DEF a, n
<1>3. Skills!Given \in Nat /\ (n = 0 => Skills!Given =< a)
  BY <1>1, <1>2, SkillsLesser DEF Skills!Given, a
<1>4. CASE m =< a
  <2>1. TurnOf(m) = m /\ m \in 1 .. a + n
    BY <1>1, <1>4 DEF TurnOf, a
  <2>2. Skills!Turn(m) = Skills!Always[m] /\ InTurn(m) = Skills!Always[m] /\ m \in 1 .. a
    BY <1>4 DEF Skills!Turn, InTurn, a
  <2>3. Skills!Always[m].key \in 1 .. MaxCategories
    BY <1>1, <2>2 DEF Skills!Category, Skills!Keys
  <2> QED BY <1>1, <1>3, <1>4, <2>1, <2>2, <2>3 DEF a, n
<1>5. CASE m > a
  <2>1. n # 0
    BY <1>1, <1>3, <1>5
  <2> DEFINE r == (m - a - 1) % n
  <2>2. r \in 0 .. n - 1
    <3>1. m - a - 1 \in Nat
      BY <1>1, <1>5
    <3> QED BY <1>1, <2>1, <3>1, QuotientSplits
  <2>3. TurnOf(m) = a + r + 1
    BY <1>1, <1>5 DEF TurnOf, a, n
  <2>4. Skills!Turn(m) = Skills!Rounds[r + 1]
    BY <1>1, <1>5 DEF Skills!Turn, a, n
  <2> HIDE DEF r
  <2>5. TurnOf(m) \in 1 .. a + n /\ TurnOf(m) > a /\ TurnOf(m) - a = r + 1 /\ r + 1 \in 1 .. n
    BY <1>1, <2>1, <2>2, <2>3
  <2>6. InTurn(TurnOf(m)) = Skills!Rounds[r + 1]
    BY <1>1, <2>5 DEF InTurn, a
  <2>7. Skills!Rounds[r + 1].key \in 1 .. MaxCategories
    BY <1>1, <2>5 DEF Skills!Category, Skills!Keys
  <2> QED BY <1>1, <1>3, <1>5, <2>1, <2>3, <2>4, <2>5, <2>6, <2>7 DEF a, n, r
<1> QED BY <1>1, <1>4, <1>5 DEF a, n

\* The questions given, one after the other.
Gives(f) ==
  /\ f \in [0 .. Skills!Given -> [1 .. MaxCategories -> Nat]]
  /\ f[0] = [k \in 1 .. MaxCategories |-> 0]
  /\ \A m \in 1 .. Skills!Given :
       f[m] = [f[m - 1] EXCEPT ![Skills!Turn(m).key] =
                 IF m <= Len(Skills!Always) + Len(Skills!Rounds) THEN 1 ELSE f[m - 1][Skills!Turn(m).key] + 1]

\* What is allocated is the last of a function that gives one question at a
\* time.
LEMMA GivenGoes ==
  ASSUME SkillsTyped, Skills!Given \in Nat
  PROVE  \E f : Gives(f) /\ Skills!Allocated = f[Skills!Given]
<1> DEFINE n == Skills!Given
           S == [1 .. MaxCategories -> Nat]
           keyOf(m) == Skills!Turn(m).key
           first(m) == m <= Len(Skills!Always) + Len(Skills!Rounds)
           b == [k \in 1 .. MaxCategories |-> 0]
           more(m, g) == [g EXCEPT ![keyOf(m)] = IF first(m) THEN 1 ELSE g[keyOf(m)] + 1]
           step == [p \in (1 .. n) \X S |-> more(p[1], p[2])]
<1>0. n \in Nat /\ b \in S
  OBVIOUS
<1>1. \A m \in 1 .. n : keyOf(m) \in 1 .. MaxCategories
  BY TurnIs
<1> HIDE DEF keyOf, first, n
<1>2. \A m \in 1 .. n, g \in S : more(m, g) \in S
  BY <1>1
<1>3. step \in [(1 .. n) \X S -> S]
  <2> HIDE DEF more, S
  <2> QED BY <1>2
<1>4. PICK f : Unfolds(f, n, S, b, step)
  <2> HIDE DEF step, S, b
  <2> QED BY <1>0, <1>3, Recursion, Zenon
<1>5. \A m \in 1 .. n : m - 1 \in 0 .. n /\ f[m - 1] \in S /\ f[m] = more(m, f[m - 1])
  <2> TAKE m \in 1 .. n
  <2>1. m - 1 \in 0 .. n
    BY <1>0
  <2> HIDE DEF more, S, b
  <2>2. f[m - 1] \in S
    BY <1>4, <2>1 DEF Unfolds
  <2>3. <<m, f[m - 1]>> \in (1 .. n) \X S
    BY <2>2
  <2>4. f[m] = step[<<m, f[m - 1]>>]
    <3> HIDE DEF step
    <3> QED BY <1>4 DEF Unfolds
  <2> QED BY <2>1, <2>2, <2>3, <2>4
<1> DEFINE rec(g) == [m \in 0 .. n |-> IF m = 0 THEN b ELSE more(m, g[m - 1])]
           given == CHOOSE g : g = rec(g)
<1> HIDE DEF more, b, S
<1>6. f = rec(f)
  <2> HIDE DEF step
  <2>1. \A m \in 0 .. n : f[m] = IF m = 0 THEN b ELSE more(m, f[m - 1])
    BY <1>4, <1>5 DEF Unfolds
  <2> QED BY <1>4, <2>1 DEF Unfolds
<1>7. given = rec(given)
  <2> HIDE DEF rec
  <2> QED BY <1>6
<1>8. given = f
  <2>1. f[0] = given[0] /\ \A m \in 1 .. n : f[m - 1] = given[m - 1] => f[m] = given[m]
    <3>1. 0 \in 0 .. n /\ \A m \in 1 .. n : m \in 0 .. n /\ m # 0
      BY <1>0
    <3>2. \A g : g = rec(g) => g[0] = b /\ \A m \in 1 .. n : g[m] = more(m, g[m - 1])
      BY <3>1
    <3> HIDE DEF rec, given
    <3> QED BY <1>6, <1>7, <3>2
  <2>2. f = [m \in 0 .. n |-> f[m]] /\ given = [m \in 0 .. n |-> given[m]]
    <3>1. given = [m \in 0 .. n |-> given[m]]
      <4> HIDE DEF given
      <4>1. DOMAIN rec(given) = 0 .. n /\ rec(given) = [m \in 0 .. n |-> rec(given)[m]]
        OBVIOUS
      <4> HIDE DEF rec
      <4> QED BY <1>7, <4>1
    <3>2. f = [m \in 0 .. n |-> f[m]]
      BY <1>4 DEF Unfolds
    <3> QED BY <3>1, <3>2
  <2>3. Alike(f, given, n)
    <3> HIDE DEF given
    <3> QED BY <2>1, <2>2 DEF Alike
  <2> HIDE DEF given
  <2> QED BY <1>0, <2>3, SameRecursion
<1>9. Skills!Allocated = f[n]
  <2>1. Skills!Allocated = given[n]
    BY DEF Skills!Allocated, Skills!Keys, n, given, rec, more, b, keyOf, first
  <2> HIDE DEF given
  <2> QED BY <1>8, <2>1
<1>10. Gives(f)
  <2>1. f \in [0 .. n -> S] /\ f[0] = b
    BY <1>4 DEF Unfolds
  <2> HIDE DEF step
  <2> QED BY <1>5, <2>1 DEF Gives, more, b, S, keyOf, first, n
<1> QED BY <1>9, <1>10 DEF n

\* What the j-th in turn has after m questions.
Share(m, j) ==
  LET a == Len(Skills!Always)
      n == Len(Skills!Rounds)
  IN  IF j =< a THEN (IF j =< m THEN 1 ELSE 0)
      ELSE ShareOf(IF m =< a THEN 0 ELSE m - a, n, j - a)

\* The m-th question adds one to the share of the one whose turn it is.
LEMMA OneMore ==
  ASSUME SkillsTyped, NEW m \in 1 .. Skills!Given, NEW j \in 1 .. Len(Skills!Always) + Len(Skills!Rounds)
  PROVE  /\ Share(m - 1, j) \in Nat
         /\ Share(m, j) = Share(m - 1, j) + (IF j = TurnOf(m) THEN 1 ELSE 0)
         /\ m =< Len(Skills!Always) + Len(Skills!Rounds) /\ j = TurnOf(m) => Share(m - 1, j) = 0
<1> DEFINE a == Len(Skills!Always)
           n == Len(Skills!Rounds)
<1>1. /\ a \in Nat /\ n \in Nat /\ m \in Nat /\ m >= 1 /\ j \in 1 .. a + n
      /\ m > a => n # 0 /\ TurnOf(m) = a + ((m - a - 1) % n) + 1
      /\ m =< a => TurnOf(m) = m
  BY TurnIs
<1>2. \A k : Share(k, j) = IF j =< a THEN (IF j =< k THEN 1 ELSE 0)
                           ELSE ShareOf(IF k =< a THEN 0 ELSE k - a, n, j - a)
  BY DEF Share
<1> SUFFICES /\ Share(m - 1, j) \in Nat
             /\ Share(m, j) = Share(m - 1, j) + (IF j = TurnOf(m) THEN 1 ELSE 0)
             /\ m =< a + n /\ j = TurnOf(m) => Share(m - 1, j) = 0
  OBVIOUS
<1> HIDE DEF a, n
<1>3. CASE j =< a
  <2>1. Share(m, j) = (IF j =< m THEN 1 ELSE 0) /\ Share(m - 1, j) = (IF j =< m - 1 THEN 1 ELSE 0)
    BY <1>2, <1>3
  <2>2. CASE m =< a
    BY <1>1, <1>3, <2>1, <2>2
  <2>3. CASE m > a
    <3>1. (m - a - 1) % n \in Nat
      <4> DEFINE l == m - a - 1
      <4>1. l \in Nat /\ n \in Nat \ {0}
        BY <1>1, <2>3
      <4>2. l % n \in Nat
        <5> HIDE DEF l
        <5> QED BY <4>1, QuotientSplits
      <4> QED BY <4>2
    <3>2. TurnOf(m) > a
      BY <1>1, <2>3, <3>1
    <3> QED BY <1>1, <1>3, <2>1, <2>3, <3>2
  <2> QED BY <1>1, <2>2, <2>3
<1>4. CASE j > a
  <2> DEFINE i == j - a
  <2>1. i \in 1 .. n /\ n \in Nat \ {0} /\ ~(j =< a)
    BY <1>1, <1>4
  <2>2. CASE m =< a
    <3>1. Share(m, j) = ShareOf(0, n, i) /\ Share(m - 1, j) = ShareOf(0, n, i)
      <4>1. m - 1 =< a
        BY <1>1, <2>2
      <4> QED BY <1>2, <2>1, <2>2, <4>1
    <3>2. ShareOf(0, n, i) \in Nat
      <4> HIDE DEF i
      <4>1. 0 \in Nat
        OBVIOUS
      <4> QED BY <2>1, <4>1, ShareGrows
    <3>3. TurnOf(m) # j
      BY <1>1, <1>4, <2>2
    <3> QED BY <3>1, <3>2, <3>3
  <2>3. CASE m > a
    <3> DEFINE l == m - a - 1
    <3>1. l \in Nat /\ l + 1 = m - a
      BY <1>1, <2>3
    <3>2. Share(m, j) = ShareOf(l + 1, n, i)
      <4>1. ~(m =< a)
        BY <1>1, <2>3
      <4> HIDE DEF l, i
      <4>2. m - a = l + 1
        BY <3>1
      <4> QED BY <1>2, <2>1, <4>1, <4>2 DEF i
    <3>3. Share(m - 1, j) = ShareOf(l, n, i)
      <4>1. CASE m - 1 =< a
        <5>1. l = 0
          BY <1>1, <2>3, <4>1
        <5> QED BY <1>2, <2>1, <4>1, <5>1
      <4>2. CASE ~(m - 1 =< a)
        <5>1. m - 1 - a = l
          BY <1>1
        <5> QED BY <1>2, <2>1, <4>2, <5>1
      <4> QED BY <4>1, <4>2
    <3>4. j = TurnOf(m) <=> i = (l % n) + 1
      <4>1. l % n \in Nat
        <5> HIDE DEF l
        <5> QED BY <2>1, <3>1, QuotientSplits
      <4>2. TurnOf(m) = a + (l % n) + 1
        BY <1>1, <2>3
      <4> HIDE DEF l
      <4> QED BY <1>1, <4>1, <4>2
    <3>5. m =< a + n => l < n
      BY <1>1, <2>3
    <3> HIDE DEF l, i
    <3>6. /\ ShareOf(l, n, i) \in Nat
          /\ ShareOf(l + 1, n, i) = ShareOf(l, n, i) + (IF i = (l % n) + 1 THEN 1 ELSE 0)
          /\ l < n /\ i = (l % n) + 1 => ShareOf(l, n, i) = 0
      BY <2>1, <3>1, ShareGrows
    <3> QED BY <3>2, <3>3, <3>4, <3>5, <3>6
  <2> QED BY <1>1, <2>2, <2>3
<1> QED BY <1>1, <1>3, <1>4

\* After m questions each has its share, and they are all questions.
LEMMA SharesAre ==
  ASSUME SkillsTyped, Skills!KeysDiffer, Skills!Given \in Nat, NEW f, Gives(f)
  PROVE  \A m \in 0 .. Skills!Given :
            /\ \A j \in 1 .. Len(Skills!Always) + Len(Skills!Rounds) : f[m][InTurn(j).key] = Share(m, j)
            /\ Report!SumTo(MaxCategories, f[m]) = m
<1> DEFINE G == Skills!Given
           N == Len(Skills!Always) + Len(Skills!Rounds)
           C == MaxCategories
           P == {m \in 0 .. G : /\ \A j \in 1 .. N : f[m][InTurn(j).key] = Share(m, j)
                                /\ Report!SumTo(C, f[m]) = m}
<1>0. /\ Len(Skills!Always) \in Nat /\ Len(Skills!Rounds) \in Nat /\ C \in Nat
      /\ \A j, k \in 1 .. N : j # k => InTurn(j).key # InTurn(k).key
      /\ \A j \in 1 .. N : InTurn(j).key \in 1 .. C
  <2>1. \A j \in 1 .. N : InTurn(j) \in Skills!Category
    <3> TAKE j \in 1 .. N
    <3>1. Len(Skills!Always) \in Nat /\ Len(Skills!Rounds) \in Nat
      BY TurnsAre
    <3>2. CASE j =< Len(Skills!Always)
      BY TurnsAre, <3>1, <3>2 DEF InTurn
    <3>3. CASE j > Len(Skills!Always)
      <4>1. j - Len(Skills!Always) \in 1 .. Len(Skills!Rounds) /\ ~(j =< Len(Skills!Always))
        BY <3>1, <3>3
      <4>2. InTurn(j) = Skills!Rounds[j - Len(Skills!Always)]
        BY <4>1 DEF InTurn
      <4> QED BY TurnsAre, <4>1, <4>2
    <3> QED BY <3>1, <3>2, <3>3
  <2> QED BY TurnsAre, SkillNumbers, <2>1 DEF Skills!Category, Skills!Keys
<1>1. 0 \in P
  <2>1. f[0] = [k \in 1 .. C |-> 0]
    BY DEF Gives
  <2>2. ASSUME NEW j \in 1 .. N PROVE f[0][InTurn(j).key] = Share(0, j)
    <3>1. f[0][InTurn(j).key] = 0
      BY <1>0, <2>1
    <3>2. Share(0, j) = 0
      <4>1. CASE j =< Len(Skills!Always)
        BY <4>1 DEF Share
      <4>2. CASE j > Len(Skills!Always)
        <5>1. /\ Len(Skills!Rounds) \in Nat \ {0} /\ 0 =< Len(Skills!Always) /\ ~(j =< Len(Skills!Always))
              /\ j - Len(Skills!Always) \in Nat /\ j - Len(Skills!Always) > 0
          BY <1>0, <4>2
        <5>2. Share(0, j) = ShareOf(0, Len(Skills!Rounds), j - Len(Skills!Always))
          BY <5>1 DEF Share
        <5>3. 0 \div Len(Skills!Rounds) = 0 /\ 0 % Len(Skills!Rounds) = 0
          <6>1. 0 \in Nat /\ 0 \in 0 .. Len(Skills!Rounds) - 1 /\ 0 = (Len(Skills!Rounds) * 0) + 0
            BY <5>1
          <6> QED BY <5>1, <6>1, QuotientIs
        <5> QED BY <5>1, <5>2, <5>3 DEF ShareOf
      <4> QED BY <1>0, <4>1, <4>2
    <3> QED BY <3>1, <3>2
  <2>3. Report!SumTo(C, f[0]) = 0
    <3>1. Numeric(f[0])
      BY <2>1 DEF Numeric
    <3>2. PICK u : Sums(u, C, f[0]) /\ Report!SumTo(C, f[0]) = u[C]
      BY <1>0, <3>1, SumGoes
    <3> DEFINE Z == {k \in 0 .. C : u[k] = 0}
    <3>3. 0 \in Z
      BY <1>0, <3>2 DEF Sums
    <3>4. ASSUME NEW k \in 1 .. C, k - 1 \in Z PROVE k \in Z
      <4>1. ValueAt(f[0], k) = 0
        BY <2>1 DEF ValueAt
      <4> QED BY <3>2, <3>4, <4>1 DEF Sums
    <3>5. \A k \in 0 .. C : k \in Z
      <4> HIDE DEF Z, C
      <4> QED BY <1>0, <3>3, <3>4, Induction
    <3> QED BY <1>0, <3>2, <3>5
  <2> HIDE DEF N, C
  <2> QED BY <2>2, <2>3
<1>2. ASSUME NEW m \in 1 .. G, m - 1 \in P PROVE m \in P
  <2> DEFINE k == Skills!Turn(m).key
             p == TurnOf(m)
             g == f[m - 1]
  <2>1. p \in 1 .. N /\ k = InTurn(p).key /\ k \in 1 .. C
    BY TurnIs
  <2>2. f[m] = [g EXCEPT ![k] = IF m =< N THEN 1 ELSE g[k] + 1] /\ g \in [1 .. C -> Nat]
    <3>1. m - 1 \in 0 .. G
      OBVIOUS
    <3> QED BY <3>1 DEF Gives
  <2>3. /\ \A j \in 1 .. N : g[InTurn(j).key] = Share(m - 1, j)
        /\ Report!SumTo(C, g) = m - 1
    BY <1>2
  <2>4. \A j \in 1 .. N : /\ Share(m - 1, j) \in Nat
                          /\ Share(m, j) = Share(m - 1, j) + (IF j = p THEN 1 ELSE 0)
                          /\ m =< N /\ j = p => Share(m - 1, j) = 0
    BY OneMore
  <2> HIDE DEF k, p, g, N, C, P
  <2>5. f[m] = [g EXCEPT ![k] = g[k] + 1]
    <3>1. m =< N => g[k] = 0
      BY <2>1, <2>3, <2>4
    <3>2. (IF m =< N THEN 1 ELSE g[k] + 1) = g[k] + 1
      BY <3>1
    <3> QED BY <2>2, <3>2
  <2>6. ASSUME NEW j \in 1 .. N PROVE f[m][InTurn(j).key] = Share(m, j)
    <3>1. CASE j = p
      BY <2>1, <2>2, <2>3, <2>4, <2>5, <3>1
    <3>2. CASE j # p
      <4>1. InTurn(j).key # k
        BY <1>0, <2>1, <3>2
      <4>2. f[m][InTurn(j).key] = g[InTurn(j).key]
        <5>1. InTurn(j).key \in 1 .. C
          BY <1>0
        <5> QED BY <2>2, <2>5, <4>1, <5>1
      <4> QED BY <2>3, <2>4, <3>2, <4>2
    <3> QED BY <3>1, <3>2
  <2>7. Report!SumTo(C, f[m]) = m
    <3>1. g \in [1 .. C -> Int] /\ 1 \in Int /\ C \in Nat
      BY <1>0, <2>2
    <3>2. Report!SumTo(C, [g EXCEPT ![k] = g[k] + 1]) = Report!SumTo(C, g) + 1
      BY <2>1, <3>1, SumGrows
    <3> QED BY <2>3, <2>5, <3>2
  <2>8. m \in 0 .. G
    OBVIOUS
  <2> QED BY <2>6, <2>7, <2>8 DEF P
<1>3. \A m \in 0 .. G : m \in P
  <2> HIDE DEF P, G
  <2>1. G \in Nat
    BY DEF G
  <2> QED BY <1>1, <1>2, <2>1, Induction
<1> QED BY <1>3

\* So the shares are even.
LEMMA SharesHold ==
  ASSUME SkillsTyped, allocation # <<>> => allocation = Skills!Allocated
  PROVE  Skills!SharesAreEven
<1> DEFINE a == Len(Skills!Always)
           n == Len(Skills!Rounds)
           G == Skills!Given
<1> SUFFICES ASSUME allocation = Skills!Allocated, Skills!KeysDiffer
             PROVE  LET left == Skills!Max({0, total - a})
                    IN  /\ Skills!SumTo(MaxCategories, allocation) = IF n > 0 THEN total ELSE Skills!Min({total, a})
                        /\ \A i \in DOMAIN Skills!Rounds :
                             allocation[Skills!Rounds[i].key] = left \div n + (IF i <= left % n THEN 1 ELSE 0)
                        /\ \A i \in DOMAIN Skills!Always :
                             allocation[Skills!Always[i].key] = IF i <= total THEN 1 ELSE 0
  BY DEF Skills!SharesAreEven
<1>1. /\ a \in Nat /\ n \in Nat /\ DOMAIN Skills!Always = 1 .. a /\ DOMAIN Skills!Rounds = 1 .. n
      /\ Skills!Rounds = <<>> <=> n = 0
  BY TurnsAre
<1>2. total \in Nat
  BY DEF SkillsTyped
<1>3. Skills!Min({total, a}) = (IF total =< a THEN total ELSE a)
  BY <1>1, <1>2, SkillsLesser
<1>4. G = (IF n = 0 THEN (IF total =< a THEN total ELSE a) ELSE total) /\ G \in Nat
  BY <1>1, <1>2, <1>3 DEF Skills!Given
<1>5. PICK f : Gives(f) /\ Skills!Allocated = f[G]
  BY <1>4, GivenGoes
<1>6. /\ \A j \in 1 .. a + n : allocation[InTurn(j).key] = Share(G, j)
      /\ Report!SumTo(MaxCategories, allocation) = G
  <2>1. G \in 0 .. G
    BY <1>4
  <2> QED BY <1>4, <1>5, <2>1, SharesAre
<1> DEFINE left == Skills!Max({0, total - a})
<1>7. left = (IF total =< a THEN 0 ELSE total - a)
  <2>1. total - a \in Int
    BY <1>1, <1>2
  <2>2. left = IF 0 =< total - a THEN total - a ELSE 0
    BY <2>1, SkillsGreater
  <2> QED BY <1>1, <1>2, <2>2
<1>8. \A j : Share(G, j) = IF j =< a THEN (IF j =< G THEN 1 ELSE 0)
                           ELSE ShareOf(IF G =< a THEN 0 ELSE G - a, n, j - a)
  BY DEF Share
<1> HIDE DEF a, n, G
<1>9. Skills!SumTo(MaxCategories, allocation) = IF n > 0 THEN total ELSE Skills!Min({total, a})
  <2>1. Skills!SumTo(MaxCategories, allocation) = G
    BY <1>6, SkillSum
  <2> QED BY <1>1, <1>3, <1>4, <2>1
<1>10. ASSUME NEW i \in 1 .. n
       PROVE  allocation[Skills!Rounds[i].key] = left \div n + (IF i <= left % n THEN 1 ELSE 0)
  <2>1. a + i \in 1 .. a + n /\ ~(a + i =< a) /\ (a + i) - a = i /\ n # 0 /\ n > 0
    BY <1>1
  <2>2. InTurn(a + i) = Skills!Rounds[i]
    BY <2>1 DEF InTurn, a
  <2>3. Share(G, a + i) = ShareOf(left, n, i)
    <3>1. G = total
      BY <1>4, <2>1
    <3>2. Share(G, a + i) = ShareOf(IF G =< a THEN 0 ELSE G - a, n, i)
      BY <1>8, <2>1
    <3> QED BY <1>7, <3>1, <3>2
  <2> QED BY <1>6, <2>1, <2>2, <2>3 DEF ShareOf
<1>11. ASSUME NEW i \in 1 .. a
       PROVE  allocation[Skills!Always[i].key] = IF i <= total THEN 1 ELSE 0
  <2>1. i \in 1 .. a + n /\ i =< a
    BY <1>1
  <2>2. InTurn(i) = Skills!Always[i]
    BY <2>1 DEF InTurn, a
  <2>3. allocation[Skills!Always[i].key] = IF i =< G THEN 1 ELSE 0
    BY <1>6, <1>8, <2>1, <2>2
  <2>4. i =< G <=> i =< total
    BY <1>1, <1>2, <1>4, <2>1
  <2> QED BY <2>3, <2>4
<1> HIDE DEF left
<1>12. /\ \A i \in DOMAIN Skills!Rounds :
            allocation[Skills!Rounds[i].key] = left \div n + (IF i <= left % n THEN 1 ELSE 0)
       /\ \A i \in DOMAIN Skills!Always : allocation[Skills!Always[i].key] = IF i <= total THEN 1 ELSE 0
  BY <1>1, <1>10, <1>11
<1> QED BY <1>9, <1>12 DEF left, a, n

-----------------------------------------------------------------------------
(* The references                                                          *)

\* The members of two lists, one behind the other.
LEMMA Tuples ==
  \A S, s, t : s \in Seq(S) /\ t \in Seq(S) =>
     /\ s \o t \in Seq(S) /\ Len(s \o t) = Len(s) + Len(t)
     /\ \A i \in 1 .. Len(s) + Len(t) : (s \o t)[i] = IF i =< Len(s) THEN s[i] ELSE t[i - Len(s)]
  BY ConcatProperties

\* A file that is found lies at one of the places, the first that has one;
\* a skill's own comes first.
LEMMA LocationsAre ==
  ASSUME NEW c
  PROVE  /\ Skills!Locations(c) \in Seq(Skills!Places)
         /\ ~c.shared /\ ~custom => /\ Len(Skills!Locations(c)) = 2
                                    /\ Skills!Locations(c)[1] = "own" /\ Skills!Locations(c)[2] = "shared"
<1> DEFINE own  == IF custom /\ (c.shared \/ ~c.mapped) THEN <<>> ELSE <<"own">>
           near == IF c.shared THEN <<"shared">> \o own ELSE own \o <<"shared">>
           far  == IF custom \/ c.shared THEN <<"other", "own">> ELSE <<>>
           P == Skills!Places
<1>1. <<>> \in Seq(P) /\ <<"own">> \in Seq(P) /\ <<"shared">> \in Seq(P) /\ <<"other", "own">> \in Seq(P)
  BY DEF Skills!Places
<1>2. own \in Seq(P) /\ far \in Seq(P)
  BY <1>1
<1>3. near \in Seq(P)
  <2> HIDE DEF own, P
  <2> QED BY <1>1, <1>2, Tuples
<1>4. Skills!Locations(c) = near \o far
  BY DEF Skills!Locations
<1>5. Skills!Locations(c) \in Seq(P)
  <2> HIDE DEF near, far, P
  <2> QED BY <1>2, <1>3, <1>4, Tuples
<1>6. ASSUME ~c.shared, ~custom
      PROVE  /\ Len(Skills!Locations(c)) = 2
             /\ Skills!Locations(c)[1] = "own" /\ Skills!Locations(c)[2] = "shared"
  <2> DEFINE o == <<"own">>
             h == <<"shared">>
             e == <<>>
             S == {"own", "shared"}
  <2>1. Skills!Locations(c) = (o \o h) \o e
    BY <1>4, <1>6
  <2>2. /\ o \in Seq(S) /\ h \in Seq(S) /\ e \in Seq(S)
        /\ Len(o) = 1 /\ Len(h) = 1 /\ Len(e) = 0 /\ o[1] = "own" /\ h[1] = "shared"
    OBVIOUS
  <2> HIDE DEF o, h, e, S
  <2>3. /\ o \o h \in Seq(S) /\ Len(o \o h) = 2
        /\ \A i \in 1 .. 2 : (o \o h)[i] = IF i =< 1 THEN o[i] ELSE h[i - 1]
    BY <2>2, Tuples
  <2>4. (o \o h)[1] = "own" /\ (o \o h)[2] = "shared"
    BY <2>2, <2>3
  <2>5. /\ Len((o \o h) \o e) = 2
        /\ \A i \in 1 .. 2 : ((o \o h) \o e)[i] = IF i =< 2 THEN (o \o h)[i] ELSE e[i - 2]
    BY <2>2, <2>3, Tuples
  <2>6. ((o \o h) \o e)[1] = "own" /\ ((o \o h) \o e)[2] = "shared"
    <3> DEFINE v == (o \o h) \o e
               w == o \o h
    <3>1. \A i \in 1 .. 2 : v[i] = IF i =< 2 THEN w[i] ELSE e[i - 2]
      BY <2>5
    <3>2. w[1] = "own" /\ w[2] = "shared"
      BY <2>4
    <3> HIDE DEF v, w
    <3>3. v[1] = w[1] /\ v[2] = w[2]
      BY <3>1
    <3> QED BY <3>2, <3>3 DEF v
  <2> QED BY <2>1, <2>5, <2>6
<1> QED BY <1>5, <1>6

\* A reference is looked for in the skill's own place first, and only a
\* category that has none there in the others.
LEMMA PlaceIs ==
  ASSUME SkillsTyped, NEW c
  PROVE  /\ Skills!Loaded(c) \in Nat
         /\ ~c.shared /\ ~custom =>
              /\ files["own"] > 0 => Skills!Found(c) # {} /\ Skills!Place(c) = "own"
              /\ Skills!Found(c) = {} \/ Skills!Place(c) # "other"
<1> DEFINE l == Skills!Locations(c)
           F == Skills!Found(c)
           k == Skills!Min(F)
<1>1. /\ l \in Seq(Skills!Places) /\ files \in [Skills!Places -> Nat]
      /\ ~c.shared /\ ~custom => Len(l) = 2 /\ l[1] = "own" /\ l[2] = "shared"
  BY LocationsAre DEF SkillsTyped
<1>2. F = {i \in DOMAIN l : files[l[i]] > 0}
  BY DEF Skills!Found
<1>3. Skills!Place(c) = l[k]
  BY DEF Skills!Place
<1> HIDE DEF l, F
<1>4. F # {} => k \in F /\ \A y \in F : k =< y
  <2>1. F \in SUBSET Nat
    BY <1>1, <1>2
  <2>2. F # {} => \E x \in F : \A y \in F : x =< y
    BY <2>1, Smallest
  <2> QED BY <2>2 DEF Skills!Min
<1> HIDE DEF k
<1>5. F # {} => Skills!Place(c) \in Skills!Places /\ k \in 1 .. Len(l)
  BY <1>1, <1>2, <1>3, <1>4
<1>6. Skills!Loaded(c) \in Nat
  <2>1. F # {} => files[Skills!Place(c)] \in Nat
    BY <1>1, <1>5
  <2> QED BY <2>1, SkillNumbers DEF Skills!Loaded, F
<1>7. ASSUME ~c.shared, ~custom, files["own"] > 0 PROVE F # {} /\ Skills!Place(c) = "own"
  <2>1. Len(l) = 2 /\ l[1] = "own"
    BY <1>1, <1>7
  <2>2. 1 \in F
    BY <1>1, <1>2, <1>7, <2>1
  <2>3. k = 1
    BY <1>4, <1>5, <2>1, <2>2
  <2> QED BY <1>3, <2>1, <2>2, <2>3
<1>8. ASSUME ~c.shared, ~custom, F # {} PROVE Skills!Place(c) # "other"
  <2>1. Len(l) = 2 /\ l[1] = "own" /\ l[2] = "shared"
    BY <1>1, <1>8
  <2>2. k = 1 \/ k = 2
    BY <1>5, <1>8, <2>1
  <2> QED BY <1>3, <2>1, <2>2
<1> QED BY <1>6, <1>7, <1>8 DEF F

\* Values that are at most a constant, and one more for the first r of them,
\* have a sum that is at most as much.
LEMMA SumBounded ==
  ASSUME NEW n \in Nat, NEW f \in [1 .. n -> Int], NEW c \in Int, NEW r \in 0 .. n,
         \A k \in 1 .. n : f[k] =< c + (IF k =< r THEN 1 ELSE 0)
  PROVE  Report!SumTo(n, f) \in Int /\ Report!SumTo(n, f) =< (n * c) + r
<1>1. Numeric(f)
  BY DEF Numeric
<1>2. PICK u : Sums(u, n, f) /\ Report!SumTo(n, f) = u[n]
  BY <1>1, SumGoes
<1> DEFINE P == {k \in 0 .. n : u[k] =< (k * c) + (IF k =< r THEN k ELSE r)}
<1>3. 0 \in P
  BY <1>2 DEF Sums
<1>4. ASSUME NEW k \in 1 .. n, k - 1 \in P PROVE k \in P
  <2> DEFINE j == k - 1
             b == j * c
  <2>1. u[k] = u[j] + f[k] /\ u[j] \in Int /\ f[k] \in Int /\ j \in 0 .. n
    BY <1>2 DEF Sums, ValueAt
  <2>2. u[j] =< b + (IF j =< r THEN j ELSE r)
    BY <1>4
  <2>3. k * c = b + c /\ b \in Int
    BY SMT
  <2>4. f[k] =< c + (IF k =< r THEN 1 ELSE 0)
    OBVIOUS
  <2>5. k = j + 1 /\ j \in Nat
    OBVIOUS
  <2> HIDE DEF j, b
  <2>6. u[k] =< (b + c) + (IF k =< r THEN k ELSE r)
    BY <2>1, <2>2, <2>3, <2>4, <2>5
  <2> QED BY <2>3, <2>6
<1>5. n \in P
  <2> HIDE DEF P
  <2>1. \A k \in 0 .. n : k \in P
    BY <1>3, <1>4, Induction
  <2> QED BY <2>1
<1>6. u[n] =< (n * c) + (IF n =< r THEN n ELSE r)
  BY <1>5
<1>7. (IF n =< r THEN n ELSE r) = r
  OBVIOUS
<1> QED BY <1>2, <1>6, <1>7 DEF Sums

\* What is asked about and has a file.
AskedAbout == {k \in DOMAIN categories : allocation[categories[k].key] > 0 /\ Skills!Loaded(categories[k]) > 0}

AllocatedKeys == {k \in DOMAIN allocation : allocation[k] > 0}

\* Pieces that are cut to their shares of the space fit in it.
LEMMA CutFits ==
  ASSUME NEW n \in Nat \ {0}, NEW budget, budget = MaxSection - 2 * (n - 1) - Header * n, budget > 0,
         NEW cut, DOMAIN cut = 1 .. n, Len(cut) = n,
         \A k \in 1 .. n : cut[k].length \in Nat /\ cut[k].length =< ShareOf(budget, n, k)
  PROVE  Skills!LengthOf(cut) =< MaxSection
<1> DEFINE q == budget \div n
           r == budget % n
           v == [k \in 1 .. n |-> Header + cut[k].length]
           c == Header + q
<1>1. budget \in Nat /\ MaxSection \in Nat /\ Header \in Nat /\ Header * n \in Nat
  <2>1. MaxSection \in Nat /\ Header \in Nat
    BY SkillNumbers
  <2>2. Header * n \in Nat
    BY <2>1
  <2> QED BY <2>1, <2>2
<1>2. q \in Nat /\ r \in 0 .. n - 1 /\ budget = (n * q) + r
  BY <1>1, QuotientSplits
<1>3. \A k \in 1 .. n : cut[k].length \in Nat /\ cut[k].length =< q + (IF k =< r THEN 1 ELSE 0)
  BY DEF ShareOf
<1>4. Skills!LengthOf(cut) = 2 * (n - 1) + Report!SumTo(n, v)
  BY SkillSum DEF Skills!LengthOf
<1> HIDE DEF q, r
<1>5. \A k \in 1 .. n : v[k] = Header + cut[k].length
  OBVIOUS
<1>6. v \in [1 .. n -> Int] /\ c \in Int /\ r \in 0 .. n
  BY <1>1, <1>2, <1>3
<1>7. n * c = (Header * n) + (n * q) /\ n * q \in Int
  BY <1>1, <1>2
<1>8. \A k \in 1 .. n : v[k] =< c + (IF k =< r THEN 1 ELSE 0)
  <2> HIDE DEF v
  <2> QED BY ONLY <1>1, <1>2, <1>3, <1>5, n \in Nat DEF c
<1> HIDE DEF v, c
<1>9. Report!SumTo(n, v) \in Int /\ Report!SumTo(n, v) =< (n * c) + r
  BY <1>6, <1>8, SumBounded
<1> QED BY <1>1, <1>2, <1>4, <1>7, <1>9

\* What is attached of one reference is within the limit of one.
LEMMA AttachedFits ==
  \A one \in Skills!Keys, some \in SUBSET DOMAIN categories : Skills!Attached(one, some) =< MaxSingle
  BY SkillNumbers DEF Skills!Attached, Skills!Truncated

SkillsInv ==
  /\ SkillsTyped
  /\ allocation # <<>> => allocation = Skills!Allocated
  /\ section # <<>> => allocation # <<>> /\ section = <<Skills!Section(AllocatedKeys)>>

\* Each key of a category gets a number of questions.
LEMMA AllocatedTyped == ASSUME SkillsTyped PROVE Skills!Allocated \in [Skills!Keys -> Nat]
<1>1. Skills!Given \in Nat
  <2>1. Len(Skills!Always) \in Nat /\ total \in Nat
    BY TurnsAre DEF SkillsTyped
  <2> QED BY <2>1, SkillsLesser DEF Skills!Given
<1>2. PICK f : Gives(f) /\ Skills!Allocated = f[Skills!Given]
  BY <1>1, GivenGoes
<1>3. Skills!Given \in 0 .. Skills!Given
  BY <1>1
<1> QED BY <1>2, <1>3 DEF Gives, Skills!Keys

\* The references that are written fit the prompt.
LEMMA ReferencesHold == ASSUME SkillsInv PROVE Skills!ReferencesFit
<1> SUFFICES ASSUME section # <<>>
             PROVE  LET s == section[1]
                        wanted == Skills!Those(AskedAbout)
                    IN  /\ s.cut \/ Skills!LengthOf(s.parts) <= MaxSection \/ s.parts = <<>>
                        /\ Len(s.parts) = Len(wanted)
                        /\ \A k \in DOMAIN s.parts : s.parts[k].key = wanted[k].key
  BY PlaceIs, AttachedFits DEF SkillsInv, Skills!ReferencesFit, AskedAbout
<1>1. SkillsTyped /\ allocation \in [Skills!Keys -> Nat] /\ section = <<Skills!Section(AllocatedKeys)>>
  BY AllocatedTyped DEF SkillsInv
<1> DEFINE found  == Skills!Those(AskedAbout)
           pieces  == [k \in DOMAIN found |-> [key |-> found[k].key, length |-> Skills!Loaded(found[k])]]
           n      == Len(pieces)
           budget == MaxSection - 2 * (n - 1) - Header * n
           share(k) == budget \div n + (IF k <= budget % n THEN 1 ELSE 0)
           cut    == [k \in DOMAIN pieces |-> [pieces[k] EXCEPT !.length = Skills!Truncated(@, share(k))]]
           s      == section[1]
<1>2. AskedAbout = {k \in DOMAIN categories :
                      categories[k].key \in AllocatedKeys /\ Skills!Loaded(categories[k]) > 0}
  <2>1. \A k \in DOMAIN categories : categories[k].key \in Skills!Keys
    BY <1>1 DEF SkillsTyped, Skills!Category
  <2>2. \A k \in DOMAIN categories : categories[k].key \in AllocatedKeys <=> allocation[categories[k].key] > 0
    BY <1>1, <2>1 DEF AllocatedKeys
  <2> QED BY <2>2 DEF AskedAbout
<1>3. PICK m \in Nat : Len(found) = m /\ DOMAIN found = 1 .. m
  <2>1. AskedAbout \in SUBSET (DOMAIN categories)
    BY DEF AskedAbout
  <2> HIDE DEF found
  <2>2. \E k \in Nat : \E o \in [1 .. k -> AskedAbout] : Picked(Skills!Those(AskedAbout), k, o)
    BY <1>1, <2>1, ThoseAre
  <2> QED BY <2>2 DEF Picked, found
<1> HIDE DEF found
<1>4. /\ n = m /\ DOMAIN pieces = 1 .. m
      /\ \A k \in 1 .. m : pieces[k] = [key |-> found[k].key, length |-> Skills!Loaded(found[k])]
  <2>1. pieces \in Seq({pieces[k] : k \in 1 .. m}) /\ DOMAIN pieces = 1 .. m
    BY <1>3
  <2> QED BY <1>3, <2>1
<1>5. s = IF pieces = <<>> \/ Skills!LengthOf(pieces) <= MaxSection THEN [parts |-> pieces, cut |-> FALSE]
          ELSE IF budget <= 0 THEN [parts |-> pieces, cut |-> TRUE]
          ELSE [parts |-> cut, cut |-> FALSE]
  <2>1. s = Skills!Section(AllocatedKeys)
    BY <1>1
  <2> QED BY <1>2, <2>1 DEF Skills!Section, found
<1>6. CASE s = [parts |-> pieces, cut |-> FALSE] /\ (pieces = <<>> \/ Skills!LengthOf(pieces) <= MaxSection)
  <2> HIDE DEF pieces, s
  <2>1. s.parts = pieces
    BY <1>6
  <2> QED BY <1>3, <1>4, <1>6, <2>1 DEF found, pieces, s
<1>7. CASE s = [parts |-> pieces, cut |-> TRUE]
  <2> HIDE DEF pieces, s
  <2>1. s.parts = pieces /\ s.cut
    BY <1>7
  <2> QED BY <1>3, <1>4, <2>1 DEF found, pieces, s
<1>8. CASE s = [parts |-> cut, cut |-> FALSE] /\ pieces # <<>> /\ ~(budget <= 0)
  <2>1. m # 0
    <3>1. m = 0 => pieces = <<>>
      BY <1>3
    <3> QED BY <1>8, <3>1
  <2>2. \A k \in 1 .. m : \E one, length : length \in Nat /\ pieces[k] = [key |-> one, length |-> length]
    BY <1>1, <1>4, PlaceIs
  <2>3. budget > 0
    <3>1. budget \in Int
      BY <1>4, SkillNumbers
    <3> HIDE DEF budget
    <3> QED BY <1>8, <3>1
  <2>4. /\ Skills!LengthOf(cut) =< MaxSection /\ Len(cut) = m /\ DOMAIN cut = 1 .. m
        /\ \A k \in 1 .. m : cut[k].key = pieces[k].key
    <3>1. cut = [k \in 1 .. m |-> [pieces[k] EXCEPT !.length = Skills!Truncated(@, ShareOf(budget, m, k))]]
          /\ budget = MaxSection - 2 * (m - 1) - Header * m
      BY <1>4 DEF ShareOf
    <3> HIDE DEF pieces, budget, cut
    <3>2. ASSUME NEW k \in 1 .. m
          PROVE  cut[k].key = pieces[k].key /\ cut[k].length \in Nat /\ cut[k].length =< ShareOf(budget, m, k)
      <4>1. PICK one, length : length \in Nat /\ pieces[k] = [key |-> one, length |-> length]
        BY <2>2
      <4>2. cut[k] = [key |-> one, length |-> Skills!Truncated(length, ShareOf(budget, m, k))]
        BY <3>1, <4>1
      <4>3. ShareOf(budget, m, k) \in Nat
        <5>1. budget \in Nat
          <6>1. Header * m \in Int /\ MaxSection \in Int
            BY SkillNumbers
          <6> QED BY <2>3, <3>1, <6>1
        <5> QED BY <2>1, <5>1, ShareGrows
      <4>4. Skills!Truncated(length, ShareOf(budget, m, k)) \in Nat
            /\ Skills!Truncated(length, ShareOf(budget, m, k)) =< ShareOf(budget, m, k)
        BY <4>1, <4>3 DEF Skills!Truncated
      <4> QED BY <4>1, <4>2, <4>4
    <3>3. DOMAIN cut = 1 .. m /\ Len(cut) = m
      <4>1. cut \in Seq({cut[k] : k \in 1 .. m}) /\ DOMAIN cut = 1 .. m
        BY <3>1
      <4> QED BY <4>1
    <3>4. Skills!LengthOf(cut) =< MaxSection
      BY <2>1, <2>3, <3>1, <3>2, <3>3, CutFits
    <3> QED BY <3>2, <3>3, <3>4
  <2> HIDE DEF pieces, s, cut
  <2>5. s.parts = cut
    BY <1>8
  <2>6. \A k \in 1 .. m : pieces[k].key = found[k].key
    BY <1>4
  <2> QED BY <1>3, <2>4, <2>5, <2>6 DEF found, s
<1> HIDE DEF pieces, s, budget, cut
<1> QED BY <1>5, <1>6, <1>7, <1>8 DEF s, found

\* A skill begins with nothing allocated and nothing written.
LEMMA SkillsBegin == ASSUME Skills!Init PROVE SkillsInv
<1>1. PICK n \in 1 .. MaxCategories : categories \in [1 .. n -> Skills!Category]
  BY DEF Skills!Init
<1>2. total \in Nat
  BY DEF Skills!Init
<1>3. files \in [Skills!Places -> Nat]
  BY SkillNumbers DEF Skills!Init
<1> QED BY <1>1, <1>2, <1>3 DEF Skills!Init, SkillsInv, SkillsTyped

\* The parts of the section, and how it is made of its pieces.
FoundFor(included) ==
  Skills!Those({k \in DOMAIN categories : categories[k].key \in included /\ Skills!Loaded(categories[k]) > 0})
PiecesOf(found) == [k \in DOMAIN found |-> [key |-> found[k].key, length |-> Skills!Loaded(found[k])]]
SectionOf(pieces) ==
  LET budget == MaxSection - 2 * (Len(pieces) - 1) - Header * Len(pieces)
      share(k) == budget \div Len(pieces) + (IF k <= budget % Len(pieces) THEN 1 ELSE 0)
  IN  IF pieces = <<>> \/ Skills!LengthOf(pieces) <= MaxSection
      THEN [parts |-> pieces, cut |-> FALSE]
      ELSE IF budget <= 0
      THEN [parts |-> pieces, cut |-> TRUE]
      ELSE [parts |-> [k \in DOMAIN pieces |->
                         [pieces[k] EXCEPT !.length = Skills!Truncated(@, share(k))]],
            cut   |-> FALSE]

\* Allocating and writing give what the functions of the categories say.
LEMMA SkillsStep == ASSUME SkillsInv, [Skills!Next]_skillVars PROVE SkillsInv'
<1>1. UNCHANGED <<custom, categories, total, files>>
  BY DEF Skills!Next, Skills!Allocate, Skills!Describe, skillVars
<1>2. SkillsTyped'
  BY <1>1 DEF SkillsInv, SkillsTyped
<1>3. Skills!Allocated' = Skills!Allocated
  BY <1>1 DEF Skills!Allocated, Skills!Given, Skills!Turn, Skills!Always, Skills!Rounds,
              Skills!OfPriority, Skills!Those
<1>4. ASSUME allocation' = allocation PROVE Skills!Section(AllocatedKeys)' = Skills!Section(AllocatedKeys)
  <2>1. AllocatedKeys' = AllocatedKeys
    BY <1>4 DEF AllocatedKeys
  <2>2. \A c : Skills!Loaded(c)' = Skills!Loaded(c)
    BY <1>1 DEF Skills!Loaded, Skills!Found, Skills!Place, Skills!Locations
  <2>3. \A K : Skills!Those(K)' = Skills!Those(K)
    BY <1>1 DEF Skills!Those
  <2>4. FoundFor(AllocatedKeys)' = FoundFor(AllocatedKeys)
    <3>1. {k \in DOMAIN categories' : categories'[k].key \in AllocatedKeys' /\ Skills!Loaded(categories[k])' > 0}
            = {k \in DOMAIN categories : categories[k].key \in AllocatedKeys /\ Skills!Loaded(categories[k]) > 0}
      BY <1>1, <2>1, <2>2
    <3> QED BY <2>3, <3>1 DEF FoundFor
  <2>5. PiecesOf(FoundFor(AllocatedKeys))' = PiecesOf(FoundFor(AllocatedKeys))
    BY <2>2, <2>4 DEF PiecesOf
  <2>6. Skills!Section(AllocatedKeys) = SectionOf(PiecesOf(FoundFor(AllocatedKeys)))
    BY DEF Skills!Section, SectionOf, PiecesOf, FoundFor
  <2>7. Skills!Section(AllocatedKeys)' = SectionOf(PiecesOf(FoundFor(AllocatedKeys)))'
    BY DEF Skills!Section, SectionOf, PiecesOf, FoundFor
  <2> QED BY <2>5, <2>6, <2>7
<1>5. CASE Skills!Allocate
  BY <1>2, <1>3, <1>5 DEF SkillsInv, Skills!Allocate
<1>6. CASE Skills!Describe
  <2>1. /\ allocation # <<>> /\ allocation' = allocation
        /\ section' = <<Skills!Section(AllocatedKeys)>>
    BY <1>6 DEF Skills!Describe, AllocatedKeys
  <2> QED BY <1>2, <1>3, <1>4, <2>1 DEF SkillsInv
<1>7. CASE UNCHANGED skillVars
  BY <1>2, <1>3, <1>4, <1>7 DEF SkillsInv, skillVars
<1> QED BY <1>5, <1>6, <1>7 DEF Skills!Next

\* What the invariant of SkillReferences says of questions and references.
LEMMA SkillsAreHeld == ASSUME SkillsInv PROVE Skills!SkillsHold
  BY SharesHold, ReferencesHold DEF SkillsInv, Skills!SkillsHold

-----------------------------------------------------------------------------
(* Together                                                                *)

ExchangesInv == SpeechInv /\ ProxyInv /\ ParseInv /\ ReportInv /\ (about = "skills" => SkillsInv)

\* A reply is spoken in order, and whole to a client that stays and is not told
\* that the turn failed; an invitation is read by the rules or by the model,
\* the proxy's record is of what it did, a skill's questions and references
\* are shared out evenly and fit the prompt, and a report is of its answers,
\* for any values of the parameters (VoiceSpeech, ScheduleParse, ModelProxy,
\* SkillReferences, EvaluationReport).
THEOREM ExchangesAreMeant == MCSpec => []ExchangesHold
<1>1. MCInit => ExchangesInv
  BY SpeechBegins, ProxyBegins, ParseBegins, ReportBegins, SkillsBegin DEF MCInit, ExchangesInit, ExchangesInv
<1>2. ASSUME ExchangesInv, [MCNext]_<<parts, exchanges>> PROVE ExchangesInv'
  <2>1. /\ [Spoken!Next]_spokenVars /\ [Proxy!Next]_proxyVars /\ [Parse!Next]_parseVars
        /\ [Report!Next]_reportVars /\ about' = about
        /\ about = "skills" => [Skills!Next]_skillVars
    <3>1. CASE UNCHANGED exchanges
      <4>1. about' = about
        BY <1>2 DEF MCNext, ModelsNext, ExchangesNext, parts
      <4> QED BY <3>1, <4>1 DEF exchanges
    <3>2. CASE ExchangesNext
      <4>1. /\ about # "speech" => UNCHANGED spokenVars
            /\ about # "proxy" => UNCHANGED proxyVars
            /\ about # "parse" => UNCHANGED parseVars
            /\ about # "report" => UNCHANGED reportVars
            /\ about' = about
        BY <3>2 DEF ExchangesNext, Still
      <4> QED BY <3>2, <4>1, Zenon DEF ExchangesNext
    <3> QED BY <1>2, <3>1, <3>2 DEF MCNext
  <2> QED BY <1>2, <2>1, SpeechStep, ProxyStep, ParseStep, ReportStep, SkillsStep DEF ExchangesInv
<1>3. ExchangesInv => ExchangesHold
  BY SpeechIsHeld, ProxyIsHeld, ParseIsHeld, ReportIsHeld, SkillsAreHeld DEF ExchangesInv, ExchangesHold
<1> QED BY <1>1, <1>2, <1>3, PTL DEF MCSpec
=============================================================================

----------------------------- MODULE Texts_proofs -----------------------------
(***************************************************************************)
(* Theorems about what is read character by character, for texts of any    *)
(* length and any values of the parts' parameters: the answer of a model   *)
(* in a schema, as it is or repaired (StructuredOutput), and a document    *)
(* cut into pieces that are stored with their vectors (TextSplit).         *)
(***************************************************************************)
EXTENDS MCModels, TaskStream_proofs

-----------------------------------------------------------------------------
(* Sequences                                                               *)

\* What one more element makes of a beginning.
LEMMA BeginningGrows ==
  ASSUME NEW S, NEW s \in Seq(S), NEW k \in 1 .. Len(s)
  PROVE  /\ SubSeq(s, 1, k - 1) \in Seq(S) /\ Len(SubSeq(s, 1, k - 1)) = k - 1
         /\ SubSeq(s, 1, k) = Append(SubSeq(s, 1, k - 1), s[k])
<1>1. SubSeq(s, 1, k - 1) \in Seq(S) /\ Len(SubSeq(s, 1, k - 1)) = k - 1
  OBVIOUS
<1>2. \A i \in 1 .. k : SubSeq(s, 1, k)[i] = Append(SubSeq(s, 1, k - 1), s[k])[i]
  OBVIOUS
<1>3. SubSeq(s, 1, k) \in Seq(S) /\ Append(SubSeq(s, 1, k - 1), s[k]) \in Seq(S)
      /\ Len(SubSeq(s, 1, k)) = k /\ Len(Append(SubSeq(s, 1, k - 1), s[k])) = k
  BY <1>1
<1> QED BY <1>1, <1>2, <1>3, SeqEqual

\* Some sequences put together, one after the other.
Joins(f, n, S, seqs) ==
  f \in [0 .. n -> Seq(S)] /\ f[0] = <<>> /\ \A k \in 1 .. n : f[k] = f[k - 1] \o seqs[k]

\* Lists put into one are the last of a function that appends one at a time.
LEMMA FlatGoes ==
  ASSUME NEW S, NEW seqs \in Seq(Seq(S))
  PROVE  \E f : Joins(f, Len(seqs), S, seqs) /\ Structured!FlattenSeq(seqs) = f[Len(seqs)]
<1> DEFINE n == Len(seqs)
           step == [p \in (1 .. n) \X Seq(S) |-> p[2] \o seqs[p[1]]]
<1>0. n \in Nat /\ \A k \in 1 .. n : seqs[k] \in Seq(S)
  OBVIOUS
<1>1. step \in [(1 .. n) \X Seq(S) -> Seq(S)] /\ <<>> \in Seq(S)
  <2> HIDE DEF n
  <2> QED BY <1>0
<1>2. PICK f : Unfolds(f, n, Seq(S), <<>>, step)
  <2> HIDE DEF step, n
  <2> QED BY <1>0, <1>1, Recursion, Zenon
<1>3. \A k \in 1 .. n : k - 1 \in 0 .. n /\ f[k - 1] \in Seq(S) /\ f[k] = f[k - 1] \o seqs[k]
  <2> TAKE k \in 1 .. n
  <2>1. k - 1 \in 0 .. n
    BY <1>0
  <2> HIDE DEF n
  <2>2. f[k - 1] \in Seq(S)
    BY <1>2, <2>1 DEF Unfolds
  <2>3. <<k, f[k - 1]>> \in (1 .. n) \X Seq(S)
    BY <2>2
  <2>4. f[k] = step[<<k, f[k - 1]>>]
    <3> HIDE DEF step
    <3> QED BY <1>2 DEF Unfolds
  <2> QED BY <2>1, <2>2, <2>3, <2>4
<1>4. f \in [0 .. n -> Seq(S)] /\ f[0] = <<>>
  BY <1>2 DEF Unfolds
<1>5. Joins(f, n, S, seqs)
  <2> HIDE DEF n
  <2> QED BY <1>3, <1>4 DEF Joins
<1>6. Structured!FlattenSeq(seqs) = f[n]
  <2>1. CASE n = 0
    <3>1. seqs = <<>> /\ Structured!FlattenSeq(seqs) = seqs
      BY <2>1 DEF Structured!FlattenSeq
    <3> QED BY <1>4, <2>1, <3>1
  <2>2. CASE n # 0
    <3> DEFINE rec(g) == [i \in 1 .. n |-> IF i = 1 THEN seqs[i] ELSE g[i - 1] \o seqs[i]]
               flat == CHOOSE g : g = rec(g)
               h == [i \in 1 .. n |-> f[i]]
    <3>1. h = rec(h)
      <4> HIDE DEF n, step
      <4>1. \A i \in 1 .. n : i # 1 => i - 1 \in 1 .. n
        BY <1>0
      <4>2. \A i \in 1 .. n : f[i] = IF i = 1 THEN seqs[i] ELSE h[i - 1] \o seqs[i]
        <5> TAKE i \in 1 .. n
        <5>1. CASE i = 1
          <6>1. f[i] = <<>> \o seqs[i]
            <7>1. i - 1 = 0
              BY <5>1
            <7>2. f[i] = f[i - 1] \o seqs[i]
              BY <1>3, Zenon
            <7> QED BY <1>4, <7>1, <7>2, Zenon
          <6> QED BY <1>0, <5>1, <6>1
        <5>2. CASE i # 1
          BY <1>3, <4>1, <5>2
        <5> QED BY <5>1, <5>2
      <4> QED BY <4>2
    <3>2. flat = rec(flat)
      <4> HIDE DEF rec, h, n
      <4> QED BY <3>1
    <3>3. h = flat
      <4> HIDE DEF n, step
      <4> DEFINE H == [i \in 0 .. n - 1 |-> h[i + 1]]
                 F == [i \in 0 .. n - 1 |-> flat[i + 1]]
      <4>1. n - 1 \in Nat
        BY <1>0, <2>2
      <4>2. \A g : g = rec(g) => /\ g = [i \in 1 .. n |-> g[i]] /\ g[1] = seqs[1]
                                 /\ \A i \in 2 .. n : g[i] = g[i - 1] \o seqs[i]
        <5> TAKE g
        <5> HAVE g = rec(g)
        <5>1. DOMAIN rec(g) = 1 .. n /\ rec(g) = [i \in 1 .. n |-> rec(g)[i]]
          OBVIOUS
        <5>2. rec(g)[1] = seqs[1] /\ \A i \in 2 .. n : rec(g)[i] = g[i - 1] \o seqs[i]
          <6>1. 1 \in 1 .. n /\ \A i \in 2 .. n : i \in 1 .. n /\ i # 1
            BY <1>0, <2>2
          <6> QED BY <6>1
        <5> HIDE DEF rec
        <5> QED BY <5>1, <5>2
      <4> HIDE DEF rec, h, flat
      <4>3. H[0] = F[0] /\ \A i \in 1 .. n - 1 : H[i - 1] = F[i - 1] => H[i] = F[i]
        <5>1. 0 \in 0 .. n - 1 /\ 0 + 1 = 1
          BY <4>1
        <5>2. ASSUME NEW i \in 1 .. n - 1
              PROVE  /\ i \in 0 .. n - 1 /\ i - 1 \in 0 .. n - 1 /\ (i - 1) + 1 = i /\ i + 1 \in 2 .. n
                     /\ (i + 1) - 1 = i
          BY <1>0
        <5>3. H[0] = F[0]
          BY <3>1, <3>2, <4>2, <5>1
        <5>4. ASSUME NEW i \in 1 .. n - 1, H[i - 1] = F[i - 1] PROVE H[i] = F[i]
          <6>1. H[i] = h[i + 1] /\ F[i] = flat[i + 1] /\ H[i - 1] = h[i] /\ F[i - 1] = flat[i]
            BY <5>2
          <6>2. h[i + 1] = h[i] \o seqs[i + 1] /\ flat[i + 1] = flat[i] \o seqs[i + 1]
            <7>1. i + 1 \in 2 .. n /\ (i + 1) - 1 = i
              BY <5>2
            <7> QED BY <3>1, <3>2, <4>2, <7>1
          <6> QED BY <5>4, <6>1, <6>2
        <5> QED BY <5>3, <5>4
      <4>4. H = F
        <5>1. Alike(H, F, n - 1)
          <6>1. H = [i \in 0 .. n - 1 |-> H[i]] /\ F = [i \in 0 .. n - 1 |-> F[i]]
            OBVIOUS
          <6> HIDE DEF H, F
          <6> QED BY <4>3, <6>1 DEF Alike
        <5> HIDE DEF H, F
        <5> QED BY <4>1, <5>1, SameRecursion
      <4>5. \A i \in 1 .. n : h[i] = flat[i]
        <5> TAKE i \in 1 .. n
        <5>1. i - 1 \in 0 .. n - 1 /\ (i - 1) + 1 = i
          BY <1>0
        <5>2. H[i - 1] = h[i] /\ F[i - 1] = flat[i]
          BY <5>1
        <5> HIDE DEF H, F
        <5> QED BY <4>4, <5>2
      <4>6. h = [i \in 1 .. n |-> h[i]] /\ flat = [i \in 1 .. n |-> flat[i]]
        BY <3>1, <3>2, <4>2
      <4> HIDE DEF H, F
      <4> QED BY <4>5, <4>6
    <3>4. Structured!FlattenSeq(seqs) = flat[n]
      BY <2>2 DEF Structured!FlattenSeq
    <3> HIDE DEF flat, rec
    <3>5. h[n] = f[n]
      BY <1>0, <2>2
    <3> HIDE DEF h
    <3> QED BY <3>3, <3>4, <3>5
  <2> QED BY <2>1, <2>2
<1> QED BY <1>5, <1>6

-----------------------------------------------------------------------------
(* Reading an answer                                                       *)

Modes  == {"value", "string", "escaped", "after", "done", "wrong"}
Chars  == Structured!Characters
Parser == [mode: Modes, string: Seq(Chars), all: Seq(Seq(Chars))]

\* Where a character leads.
Target(m, c) ==
  IF m = "value" THEN IF c = "blank" THEN "value" ELSE IF c = "quote" THEN "string" ELSE "wrong"
  ELSE IF m = "string" THEN IF c = "quote" THEN "after" ELSE IF c = "backslash" THEN "escaped" ELSE "string"
  ELSE IF m = "escaped" THEN IF c \in {"quote", "backslash", "letter"} THEN "string" ELSE "wrong"
  ELSE IF m = "after" THEN IF c = "blank" THEN "after" ELSE IF c = "comma" THEN "value"
                           ELSE IF c = "end" THEN "done" ELSE "wrong"
  ELSE IF m = "done" /\ c = "blank" THEN "done" ELSE "wrong"

\* The characters by their names.
LEMMA CharsAre == Chars = {"comma", "end", "colon", "quote", "backslash", "blank", "letter"}
  BY DEF Chars, Structured!Characters, Structured!Closers

\* Target is where Moves leads.
LEMMA TargetIs ==
  ASSUME NEW m \in Modes, NEW c \in Chars
  PROVE  /\ Target(m, c) \in Modes
         /\ Target(m, c) = IF c \in DOMAIN Structured!Moves[m] THEN Structured!Moves[m][c] ELSE "wrong"
<1>1. Target(m, c) \in Modes
  BY DEF Modes, Target
<1>2. CASE m = "value"
  <2>1. Structured!Moves[m] = [blank |-> "value", quote |-> "string"]
    BY <1>2 DEF Structured!Moves
  <2> QED BY <1>1, <1>2, <2>1, CharsAre DEF Target
<1>3. CASE m = "string"
  <2>1. Structured!Moves[m] = [d \in Structured!Characters |->
          CASE d = "quote" -> "after" [] d = "backslash" -> "escaped" [] OTHER -> "string"]
    BY <1>3 DEF Structured!Moves
  <2> QED BY <1>1, <1>3, <2>1 DEF Target, Chars
<1>4. CASE m = "escaped"
  <2>1. Structured!Moves[m] = [d \in {"quote", "backslash", "letter"} |-> "string"]
    BY <1>4 DEF Structured!Moves
  <2> QED BY <1>1, <1>4, <2>1, CharsAre DEF Target
<1>5. CASE m = "after"
  <2>1. Structured!Moves[m] = [blank |-> "after", comma |-> "value", end |-> "done"]
    BY <1>5 DEF Structured!Moves
  <2> QED BY <1>1, <1>5, <2>1, CharsAre DEF Target
<1>6. CASE m = "done"
  <2>1. Structured!Moves[m] = [blank |-> "done"]
    BY <1>6 DEF Structured!Moves
  <2> QED BY <1>1, <1>6, <2>1, CharsAre DEF Target
<1>7. CASE m = "wrong"
  <2>1. Structured!Moves[m] = <<>>
    BY <1>7 DEF Structured!Moves
  <2>2. DOMAIN <<>> = {}
    OBVIOUS
  <2> QED BY <1>1, <1>7, <2>1, <2>2 DEF Target
<1> QED BY <1>2, <1>3, <1>4, <1>5, <1>6, <1>7 DEF Modes

\* What one character makes of a reader.
LEMMA MovedIs ==
  ASSUME NEW p \in Parser, NEW c \in Chars
  PROVE  LET q == Structured!Moved(p, c)
         IN  /\ q \in Parser
             /\ q.mode = Target(p.mode, c)
             /\ q.string = IF p.mode = "value" THEN <<>>
                           ELSE IF q.mode = "string" THEN Append(p.string, c) ELSE p.string
             /\ q.all = IF p.mode = "string" /\ q.mode = "after" THEN Append(p.all, p.string) ELSE p.all
<1> DEFINE m == IF c \in DOMAIN Structured!Moves[p.mode] THEN Structured!Moves[p.mode][c] ELSE "wrong"
           s == IF p.mode = "value" THEN <<>>
                ELSE IF m = "string" THEN Append(p.string, c) ELSE p.string
           a == IF p.mode = "string" /\ m = "after" THEN Append(p.all, p.string) ELSE p.all
<1>1. /\ p.mode \in Modes /\ p.string \in Seq(Chars) /\ p.all \in Seq(Seq(Chars))
  BY DEF Parser
<1>2. m = Target(p.mode, c) /\ m \in Modes
  BY <1>1, TargetIs
<1>3. Structured!Moved(p, c) = [mode |-> m, string |-> s, all |-> a]
  BY DEF Structured!Moved
<1> HIDE DEF m
<1>4. s \in Seq(Chars) /\ a \in Seq(Seq(Chars))
  BY <1>1
<1>5. Structured!Moved(p, c) \in Parser
  <2> HIDE DEF s, a
  <2> QED BY <1>2, <1>3, <1>4 DEF Parser
<1>6. /\ Structured!Moved(p, c).mode = m /\ Structured!Moved(p, c).string = s
      /\ Structured!Moved(p, c).all = a
  <2> HIDE DEF s, a
  <2> QED BY <1>3
<1> QED BY <1>2, <1>5, <1>6

\* The states of a parser, one after the other.
Reads(f, t) ==
  /\ f \in [0 .. Len(t) -> Parser] /\ f[0] = Structured!Started
  /\ \A k \in 1 .. Len(t) : f[k] = Structured!Moved(f[k - 1], t[k])

\* Reading a text is going through it, one character after the other.
LEMMA ParseGoes ==
  ASSUME NEW t \in Seq(Chars)
  PROVE  \E f : Reads(f, t) /\ Structured!Parse(t) = f[Len(t)]
<1> DEFINE n == Len(t)
           b == Structured!Started
           more(k, p) == Structured!Moved(p, t[k])
           step == [p \in (1 .. n) \X Parser |-> more(p[1], p[2])]
<1>0. n \in Nat /\ \A k \in 1 .. n : t[k] \in Chars
  OBVIOUS
<1>1. b \in Parser
  BY DEF Structured!Started, Parser, Modes
<1>2. \A k \in 1 .. n, p \in Parser : more(k, p) \in Parser
  BY <1>0, MovedIs
<1>3. step \in [(1 .. n) \X Parser -> Parser]
  <2> HIDE DEF more, n
  <2> QED BY <1>2
<1>4. PICK f : Unfolds(f, n, Parser, b, step)
  <2> HIDE DEF step, n, b
  <2> QED BY <1>0, <1>1, <1>3, Recursion, Zenon
<1>5. \A k \in 1 .. n : k - 1 \in 0 .. n /\ f[k - 1] \in Parser /\ f[k] = more(k, f[k - 1])
  <2> TAKE k \in 1 .. n
  <2>1. k - 1 \in 0 .. n
    BY <1>0
  <2> HIDE DEF more, n, b
  <2>2. f[k - 1] \in Parser
    BY <1>4, <2>1 DEF Unfolds
  <2>3. <<k, f[k - 1]>> \in (1 .. n) \X Parser
    BY <2>2
  <2>4. f[k] = step[<<k, f[k - 1]>>]
    <3> HIDE DEF step
    <3> QED BY <1>4 DEF Unfolds
  <2> QED BY <2>1, <2>2, <2>3, <2>4
<1> DEFINE rec(g) == [k \in 0 .. n |-> IF k = 0 THEN b ELSE more(k, g[k - 1])]
           after == CHOOSE g : g = rec(g)
<1> HIDE DEF more, b, n
<1>6. f = rec(f)
  <2> HIDE DEF step
  <2>1. \A k \in 0 .. n : f[k] = IF k = 0 THEN b ELSE more(k, f[k - 1])
    BY <1>0, <1>4, <1>5 DEF Unfolds
  <2> QED BY <1>4, <2>1 DEF Unfolds
<1>7. after = rec(after)
  <2> HIDE DEF rec
  <2> QED BY <1>6
<1>8. after = f
  <2>1. f[0] = after[0] /\ \A k \in 1 .. n : f[k - 1] = after[k - 1] => f[k] = after[k]
    <3>1. 0 \in 0 .. n /\ \A k \in 1 .. n : k \in 0 .. n /\ k # 0
      BY <1>0
    <3>2. \A g : g = rec(g) => g[0] = b /\ \A k \in 1 .. n : g[k] = more(k, g[k - 1])
      BY <3>1
    <3> HIDE DEF rec, after
    <3> QED BY <1>6, <1>7, <3>2
  <2>2. f = [k \in 0 .. n |-> f[k]] /\ after = [k \in 0 .. n |-> after[k]]
    <3>1. after = [k \in 0 .. n |-> after[k]]
      <4> HIDE DEF after
      <4>1. DOMAIN rec(after) = 0 .. n /\ rec(after) = [k \in 0 .. n |-> rec(after)[k]]
        OBVIOUS
      <4> HIDE DEF rec
      <4> QED BY <1>7, <4>1
    <3>2. f = [k \in 0 .. n |-> f[k]]
      BY <1>4 DEF Unfolds
    <3> QED BY <3>1, <3>2
  <2>3. Alike(f, after, n)
    <3> HIDE DEF after
    <3> QED BY <2>1, <2>2 DEF Alike
  <2> HIDE DEF after
  <2> QED BY <1>0, <2>3, SameRecursion
<1>9. Structured!Parse(t) = f[n]
  <2>1. Structured!Parse(t) = after[n]
    BY DEF Structured!Parse, n, rec, more, b
  <2> HIDE DEF after
  <2> QED BY <1>8, <2>1
<1>10. Reads(f, t)
  <2>1. f \in [0 .. n -> Parser] /\ f[0] = b
    BY <1>4 DEF Unfolds
  <2> HIDE DEF step
  <2> QED BY <1>5, <2>1 DEF Reads, more, b, n
<1> QED BY <1>9, <1>10 DEF n

\* One more character.
LEMMA ParseAppends ==
  ASSUME NEW t \in Seq(Chars), NEW c \in Chars
  PROVE  /\ Structured!Parse(<<>>) = Structured!Started
         /\ Structured!Parse(t) \in Parser
         /\ Structured!Parse(Append(t, c)) = Structured!Moved(Structured!Parse(t), c)
<1> DEFINE n == Len(t)
           u == Append(t, c)
<1>1. /\ n \in Nat /\ u \in Seq(Chars) /\ Len(u) = n + 1 /\ u[n + 1] = c /\ \A k \in 1 .. n : u[k] = t[k]
  OBVIOUS
<1>2. PICK f : Reads(f, t) /\ Structured!Parse(t) = f[n]
  BY ParseGoes
<1> HIDE DEF u, n
<1>3. PICK g : Reads(g, u) /\ Structured!Parse(u) = g[n + 1]
  BY <1>1, ParseGoes
<1>4. PICK e : Reads(e, <<>>) /\ Structured!Parse(<<>>) = e[Len(<<>>)]
  <2>1. <<>> \in Seq(Chars)
    OBVIOUS
  <2> QED BY <2>1, ParseGoes
<1>5. Structured!Parse(<<>>) = Structured!Started
  <2>1. Len(<<>>) = 0
    OBVIOUS
  <2> QED BY <1>4, <2>1 DEF Reads
<1> DEFINE h == [k \in 0 .. n |-> g[k]]
<1>6. Alike(f, h, n)
  <2>1. f = [k \in 0 .. n |-> f[k]] /\ f[0] = Structured!Started
        /\ \A k \in 1 .. n : f[k] = Structured!Moved(f[k - 1], t[k])
    BY <1>2 DEF Reads, n
  <2>2. \A k \in 1 .. n : k \in 1 .. n + 1 /\ k \in 0 .. n /\ k - 1 \in 0 .. n
    BY <1>1
  <2>3. h[0] = Structured!Started /\ \A k \in 1 .. n : h[k] = Structured!Moved(h[k - 1], t[k])
    <3>1. g[0] = Structured!Started /\ \A k \in 1 .. n + 1 : g[k] = Structured!Moved(g[k - 1], u[k])
      BY <1>1, <1>3 DEF Reads
    <3>2. 0 \in 0 .. n
      BY <1>1
    <3>3. \A k \in 1 .. n : h[k] = g[k] /\ h[k - 1] = g[k - 1]
      BY <2>2
    <3>4. h[0] = g[0]
      BY <3>2
    <3> HIDE DEF h
    <3> QED BY <1>1, <2>2, <3>1, <3>3, <3>4
  <2>4. h = [k \in 0 .. n |-> h[k]]
    OBVIOUS
  <2> HIDE DEF h
  <2> QED BY <2>1, <2>3, <2>4 DEF Alike
<1>7. f[n] = g[n]
  <2>1. f = h
    <3> HIDE DEF h
    <3> QED BY <1>1, <1>6, SameRecursion
  <2>2. n \in 0 .. n
    BY <1>1
  <2>3. h[n] = g[n]
    BY <2>2
  <2> HIDE DEF h
  <2> QED BY <2>1, <2>3
<1>8. g[n + 1] = Structured!Moved(g[n], c)
  <2>1. n + 1 \in 1 .. n + 1 /\ (n + 1) - 1 = n
    BY <1>1
  <2> QED BY <1>1, <1>3, <2>1 DEF Reads
<1>9. f[n] \in Parser
  <2>1. n \in 0 .. n
    BY <1>1
  <2> QED BY <1>2, <2>1 DEF Reads, n
<1> QED BY <1>2, <1>3, <1>5, <1>7, <1>8, <1>9 DEF u

\* The beginnings of a text are read one from the other.
LEMMA PrefixParses ==
  ASSUME NEW t \in Seq(Chars), NEW x \in 1 .. Len(t)
  PROVE  /\ Structured!Parse(SubSeq(t, 1, x - 1)) \in Parser /\ t[x] \in Chars
         /\ Structured!Parse(SubSeq(t, 1, x)) = Structured!Moved(Structured!Parse(SubSeq(t, 1, x - 1)), t[x])
<1>1. t[x] \in Chars
  OBVIOUS
<1> QED BY <1>1, BeginningGrows, ParseAppends

-----------------------------------------------------------------------------
(* Writing an answer                                                       *)

\* Where in the answer its writer is: `i` strings are written, and of the next
\* one `k` characters.
Where == {s \in [at: {"between", "in", "half", "shut"}, i: 0 .. Len(meant), k: Nat] :
            s.at \in {"in", "half"} => s.i < Len(meant) /\ s.k =< Len(meant[s.i + 1])}
First == [at |-> "between", i |-> 0, k |-> 0]
Final == [at |-> "between", i |-> Len(meant), k |-> 0]

Within(i, k) == [at |-> "in", i |-> i, k |-> k]
Half(i, k)   == [at |-> "half", i |-> i, k |-> k]
Shut(i)      == [at |-> "shut", i |-> i, k |-> 0]
Between(i)   == [at |-> "between", i |-> i, k |-> 0]

\* Character c is written from s to t.
Opens(s, c, t) == s.at = "between" /\ s.i < Len(meant) /\ c = "quote" /\ t = Within(s.i, 0)
Copies(s, c, t) ==
  /\ s.at = "in" /\ s.k < Len(meant[s.i + 1]) /\ c = meant[s.i + 1][s.k + 1]
  /\ c \notin {"quote", "backslash"} /\ t = Within(s.i, s.k + 1)
LeavesRaw(left, s, c, t) ==
  /\ s.at = "in" /\ s.k < Len(meant[s.i + 1]) /\ meant[s.i + 1][s.k + 1] = "quote"
  /\ s.k + 1 \in left[s.i + 1] /\ c = "quote" /\ t = Within(s.i, s.k + 1)
Escapes(s, c, t) ==
  /\ s.at = "in" /\ s.k < Len(meant[s.i + 1]) /\ meant[s.i + 1][s.k + 1] \in {"quote", "backslash"}
  /\ c = "backslash" /\ t = Half(s.i, s.k)
Follows(s, c, t) ==
  /\ s.at = "half" /\ s.k < Len(meant[s.i + 1]) /\ c = meant[s.i + 1][s.k + 1]
  /\ c \in {"quote", "backslash"} /\ t = Within(s.i, s.k + 1)
Closes(s, c, t) == s.at = "in" /\ s.k = Len(meant[s.i + 1]) /\ c = "quote" /\ t = Shut(s.i + 1)
Pads(s, c, t) == s.at = "shut" /\ c = "blank" /\ t = s
Separates(s, c, t) ==
  s.at = "shut" /\ c = (IF s.i = Len(meant) THEN "end" ELSE "comma") /\ t = Between(s.i)

Writes(left, s, c, t) ==
  \/ Opens(s, c, t) \/ Copies(s, c, t) \/ LeavesRaw(left, s, c, t) \/ Escapes(s, c, t)
  \/ Follows(s, c, t) \/ Closes(s, c, t) \/ Pads(s, c, t) \/ Separates(s, c, t)

\* The writer's ways through a text.
Traces(R, left, t_, s) ==
  /\ R \in [0 .. Len(t_) -> Where] /\ R[0] = First /\ R[Len(t_)] = s
  /\ \A x \in 1 .. Len(t_) : Writes(left, R[x - 1], t_[x], R[x])
Reaches(left, t_, s) == t_ \in Seq(Chars) /\ \E R : Traces(R, left, t_, s)

MeantTyped == meant \in Seq(Seq(Chars)) /\ Len(meant) > 0

\* A way through a text goes on with one more character.
LEMMA ReachesMore ==
  ASSUME NEW left, NEW t, NEW s, Reaches(left, t, s), NEW c \in Chars, NEW z \in Where, Writes(left, s, c, z)
  PROVE  Reaches(left, t \o <<c>>, z)
<1>1. PICK R : Traces(R, left, t, s)
  BY DEF Reaches
<1> DEFINE n == Len(t)
           u == t \o <<c>>
           Q == [x \in 0 .. n + 1 |-> IF x = n + 1 THEN z ELSE R[x]]
<1>2. n \in Nat /\ t \in Seq(Chars)
  BY DEF Reaches
<1>3. u \in Seq(Chars) /\ Len(u) = n + 1 /\ u[n + 1] = c /\ \A x \in 1 .. n : u[x] = t[x]
  BY <1>2
<1>4. /\ R \in [0 .. n -> Where] /\ R[0] = First /\ R[n] = s
      /\ \A x \in 1 .. n : Writes(left, R[x - 1], t[x], R[x])
  BY <1>1 DEF Traces
<1> HIDE DEF n, u
<1>5. Q \in [0 .. n + 1 -> Where]
  <2>1. \A x \in 0 .. n + 1 : x # n + 1 => x \in 0 .. n
    BY <1>2
  <2> QED BY <1>4, <2>1
<1>6. Q[0] = First /\ Q[n + 1] = z
  <2>1. 0 \in 0 .. n + 1 /\ n + 1 \in 0 .. n + 1 /\ 0 # n + 1
    BY <1>2
  <2> QED BY <1>4, <2>1
<1>7. ASSUME NEW x \in 1 .. n + 1 PROVE Writes(left, Q[x - 1], u[x], Q[x])
  <2>1. CASE x = n + 1
    <3>1. x - 1 = n /\ x \in 0 .. n + 1 /\ n \in 0 .. n + 1 /\ n # n + 1
      BY <1>2, <2>1
    <3>2. Q[x - 1] = s /\ Q[x] = z
      BY <1>4, <2>1, <3>1
    <3> HIDE DEF Q
    <3> QED BY <1>3, <2>1, <3>2
  <2>2. CASE x # n + 1
    <3>1. x \in 1 .. n /\ x \in 0 .. n + 1 /\ x - 1 \in 0 .. n + 1 /\ x - 1 # n + 1
      BY <1>2, <2>2
    <3>2. Q[x - 1] = R[x - 1] /\ Q[x] = R[x]
      BY <2>2, <3>1
    <3> HIDE DEF Q
    <3> QED BY <1>3, <1>4, <3>1, <3>2
  <2> QED BY <2>1, <2>2
<1>8. Traces(Q, left, u, z)
  <2> HIDE DEF Q
  <2> QED BY <1>3, <1>5, <1>6, <1>7 DEF Traces
<1> HIDE DEF Q
<1> QED BY <1>3, <1>8 DEF Reaches, u

\* Some more characters at the end of a text.
LEMMA TextsJoin ==
  ASSUME NEW t \in Seq(Chars), NEW e \in Seq(Chars), NEW v \in Seq(Chars)
  PROVE  (t \o e) \o v = t \o (e \o v) /\ e \o v \in Seq(Chars) /\ t \o e \in Seq(Chars)
<1>1. t \o e \in Seq(Chars) /\ e \o v \in Seq(Chars)
  BY ConcatProperties
<1>2. (t \o e) \o v = t \o (e \o v)
  <2> DEFINE C == Chars
  <2>1. t \in Seq(C) /\ e \in Seq(C) /\ v \in Seq(C)
    OBVIOUS
  <2> HIDE DEF C
  <2> QED BY <2>1, ConcatAssociative
<1> QED BY <1>1, <1>2

\* Two more members at the end of a list.
LEMMA TwoMore ==
  ASSUME NEW S, NEW g \in Seq(S), NEW a \in S, NEW b \in S
  PROVE  g \o <<a, b>> = Append(Append(g, a), b)
<1> DEFINE u == g \o <<a, b>>
           v == Append(Append(g, a), b)
<1>1. u \in Seq(S) /\ v \in Seq(S) /\ Len(u) = Len(g) + 2 /\ Len(v) = Len(g) + 2 /\ Len(g) \in Nat
  OBVIOUS
<1>2. \A k \in 1 .. Len(g) + 2 : u[k] = v[k]
  <2> TAKE k \in 1 .. Len(g) + 2
  <2>1. CASE k \in 1 .. Len(g)
    BY <2>1
  <2>2. CASE k = Len(g) + 1
    BY <2>2
  <2>3. CASE k = Len(g) + 2
    BY <2>3
  <2> HIDE DEF u, v
  <2> QED BY <1>1, <2>1, <2>2, <2>3
<1> HIDE DEF u, v
<1>3. u = v
  BY <1>1, <1>2, SeqEqual
<1> QED BY <1>3 DEF u, v

\* Three texts, whatever they are.
LEMMA JoinsAre ==
  \A x \in Seq(Chars), y \in Seq(Chars), z \in Seq(Chars) : (x \o y) \o z = x \o (y \o z)
BY TextsJoin

\* It does not matter in which order four texts are put together.
LEMMA FourJoin ==
  ASSUME NEW t \in Seq(Chars), NEW e \in Seq(Chars), NEW v \in Seq(Chars), NEW w \in Seq(Chars)
  PROVE  ((t \o e) \o v) \o w = t \o (e \o (v \o w))
<1> DEFINE te == t \o e
           vw == v \o w
<1>1. te \in Seq(Chars) /\ vw \in Seq(Chars)
  BY TextsJoin
<1> HIDE DEF te, vw
<1>2. (te \o v) \o w = te \o (v \o w)
  BY <1>1, JoinsAre
<1>3. (t \o e) \o vw = t \o (e \o vw)
  BY <1>1, JoinsAre
<1> QED BY <1>2, <1>3 DEF te, vw

\* An empty text adds nothing.
LEMMA EmptyJoins == ASSUME NEW t \in Seq(Chars) PROVE t \o <<>> = t /\ <<>> \o t = t /\ <<>> \in Seq(Chars)
  OBVIOUS

\* Two characters make a text of two.
LEMMA PairJoins ==
  ASSUME NEW c \in Chars, NEW d \in Chars
  PROVE  <<c>> \o <<d>> = <<c, d>> /\ <<c>> \in Seq(Chars) /\ <<d>> \in Seq(Chars)
<1>1. Len(<<c>> \o <<d>>) = 2 /\ (<<c>> \o <<d>>)[1] = c /\ (<<c>> \o <<d>>)[2] = d
      /\ <<c>> \o <<d>> \in Seq(Chars) /\ <<c, d>> \in Seq(Chars)
  OBVIOUS
<1> DEFINE p == <<c>> \o <<d>>
           q == <<c, d>>
<1>2. Len(q) = 2 /\ q[1] = c /\ q[2] = d
  OBVIOUS
<1>3. p = q
  <2>1. \A i \in 1 .. 2 : p[i] = q[i]
    BY <1>1, <1>2
  <2>2. p \in Seq(Chars) /\ q \in Seq(Chars) /\ Len(p) = 2 /\ Len(q) = 2
    BY <1>1, <1>2
  <2> HIDE DEF p, q
  <2> QED BY <2>1, <2>2, SeqEqual
<1> QED BY <1>1, <1>3

\* A backslash and its character are one piece of the text.
LEMMA EscapeJoins ==
  ASSUME NEW t \in Seq(Chars), NEW e \in Seq(Chars), NEW d \in Chars
  PROVE  ((t \o e) \o <<"backslash">>) \o <<d>> = t \o (e \o <<"backslash", d>>)
<1>1. /\ <<"backslash">> \in Seq(Chars) /\ <<d>> \in Seq(Chars)
      /\ <<"backslash">> \o <<d>> = <<"backslash", d>>
  BY CharsAre, PairJoins
<1> DEFINE v == <<"backslash">>
           w == <<d>>
<1> HIDE DEF v, w
<1>2. ((t \o e) \o v) \o w = t \o (e \o (v \o w))
  BY <1>1, FourJoin DEF v, w
<1> QED BY <1>1, <1>2 DEF v, w

\* The characters of a string as they are written.
PieceOf(i, left, k) ==
  IF meant[i][k] = "backslash" \/ (meant[i][k] = "quote" /\ k \notin left[i])
  THEN <<"backslash", meant[i][k]>> ELSE <<meant[i][k]>>

\* A string is written piece by piece, one for each of its characters.
LEMMA EscapedIs ==
  ASSUME MeantTyped, NEW left, NEW i \in 1 .. Len(meant)
  PROVE  \E f : LET n == Len(meant[i])
               IN  /\ f \in [0 .. n -> Seq(Chars)] /\ f[0] = <<>>
                   /\ \A k \in 1 .. n : f[k] = f[k - 1] \o PieceOf(i, left, k)
                   /\ Structured!Escaped(meant[i], left[i]) = f[n]
                   /\ f[n] \in Seq(Chars) /\ n \in Nat /\ meant[i] \in Seq(Chars)
<1> DEFINE s == meant[i]
           n == Len(s)
           piece(k) == PieceOf(i, left, k)
           pieces == [k \in DOMAIN s |-> piece(k)]
<1>1. s \in Seq(Chars) /\ n \in Nat /\ DOMAIN s = 1 .. n /\ \A k \in 1 .. n : s[k] \in Chars
  BY DEF MeantTyped
<1>3. \A k \in 1 .. n : piece(k) \in Seq(Chars)
  <2> TAKE k \in 1 .. n
  <2>1. s[k] \in Chars /\ "backslash" \in Chars
    BY <1>1, CharsAre
  <2>2. <<s[k]>> \in Seq(Chars) /\ <<"backslash", s[k]>> \in Seq(Chars)
    <3> HIDE DEF s
    <3> QED BY <2>1
  <2> QED BY <2>2 DEF PieceOf
<1>4. pieces \in Seq(Seq(Chars)) /\ Len(pieces) = n /\ \A k \in 1 .. n : pieces[k] = piece(k)
  <2> HIDE DEF piece, s, n
  <2> QED BY <1>1, <1>3
<1>5. Structured!Escaped(s, left[i]) = Structured!FlattenSeq(pieces)
  BY DEF Structured!Escaped, PieceOf
<1> HIDE DEF pieces
<1>6. PICK f : Joins(f, n, Chars, pieces) /\ Structured!FlattenSeq(pieces) = f[n]
  BY <1>4, FlatGoes
<1>7. /\ f \in [0 .. n -> Seq(Chars)] /\ f[0] = <<>>
      /\ \A k \in 1 .. n : f[k] = f[k - 1] \o piece(k)
  <2> HIDE DEF piece
  <2> QED BY <1>4, <1>6 DEF Joins
<1>8. n \in 0 .. n
  BY <1>1
<1>9. f[n] \in Seq(Chars)
  <2> HIDE DEF n
  <2> QED BY <1>7, <1>8
<1> QED BY <1>1, <1>5, <1>6, <1>7, <1>9

\* Within a string the writer comes to its end by what it writes of it.
LEMMA EscapedReached ==
  ASSUME MeantTyped, NEW left, NEW i \in 0 .. Len(meant) - 1, NEW t, Reaches(left, t, Within(i, 0))
  PROVE  LET e == Structured!Escaped(meant[i + 1], left[i + 1])
         IN  e \in Seq(Chars) /\ Reaches(left, t \o e, Within(i, Len(meant[i + 1])))
<1> DEFINE s == meant[i + 1]
           n == Len(s)
           r == left[i + 1]
           piece(k) == PieceOf(i + 1, left, k)
<1>2. i + 1 \in 1 .. Len(meant) /\ i \in 0 .. Len(meant) /\ i < Len(meant) /\ i \in Nat
  BY DEF MeantTyped
<1>1. s \in Seq(Chars) /\ n \in Nat /\ DOMAIN s = 1 .. n /\ \A k \in 1 .. n : s[k] \in Chars
  BY <1>2 DEF MeantTyped
<1>7. PICK f : /\ f \in [0 .. n -> Seq(Chars)] /\ f[0] = <<>>
               /\ \A k \in 1 .. n : f[k] = f[k - 1] \o piece(k)
               /\ Structured!Escaped(s, r) = f[n]
  BY <1>2, EscapedIs
<1> DEFINE K == {k \in 0 .. n : Reaches(left, t \o f[k], Within(i, k))}
<1>8. t \in Seq(Chars)
  BY DEF Reaches
<1>9. 0 \in K
  <2>1. t \o f[0] = t /\ 0 \in 0 .. n
    BY <1>1, <1>7, <1>8, EmptyJoins
  <2> QED BY <2>1
<1>10. ASSUME NEW k \in 1 .. n, k - 1 \in K PROVE k \in K
  <2>1. k - 1 \in 0 .. n /\ k \in 0 .. n /\ k - 1 < n /\ (k - 1) + 1 = k /\ k - 1 \in Nat /\ k \in Nat /\ k =< n
    BY <1>1
  <2>2. /\ Reaches(left, t \o f[k - 1], Within(i, k - 1)) /\ f[k - 1] \in Seq(Chars) /\ f[k] = f[k - 1] \o piece(k)
        /\ s[k] \in Chars
    <3> HIDE DEF piece, s, n
    <3> QED BY <1>1, <1>7, <1>10, <2>1
  <2>3. Within(i, k) \in Where /\ Half(i, k - 1) \in Where
    <3>1. k =< Len(meant[i + 1]) /\ k - 1 =< Len(meant[i + 1])
      BY <1>1, <2>1
    <3> QED BY <1>2, <2>1, <3>1 DEF Within, Half, Where
  <2> DEFINE a == Within(i, k - 1)
             h == Half(i, k - 1)
  <2>4. /\ a.at = "in" /\ a.i = i /\ a.k = k - 1 /\ h.at = "half" /\ h.i = i /\ h.k = k - 1
        /\ a.k + 1 = k /\ h.k + 1 = k /\ a.k < Len(meant[a.i + 1]) /\ h.k < Len(meant[h.i + 1])
    BY <1>1, <2>1 DEF Within, Half
  <2>5. CASE s[k] = "backslash" \/ (s[k] = "quote" /\ k \notin r)
    <3>1. piece(k) = <<"backslash", s[k]>>
      BY <2>5 DEF PieceOf
    <3>2. Writes(left, a, "backslash", h)
      <4>1. Escapes(a, "backslash", h)
        <5> HIDE DEF a, h
        <5>1. h = Half(a.i, a.k) /\ meant[a.i + 1][a.k + 1] \in {"quote", "backslash"}
          BY <2>4, <2>5 DEF h
        <5> QED BY <2>4, <5>1 DEF Escapes
      <4> QED BY <4>1 DEF Writes
    <3>3. Writes(left, h, s[k], Within(i, k))
      <4>1. Follows(h, s[k], Within(i, k))
        <5> HIDE DEF a, h
        <5> QED BY <2>4, <2>5 DEF Follows
      <4> QED BY <4>1 DEF Writes
    <3> HIDE DEF a, h, s, piece
    <3>4. Reaches(left, (t \o f[k - 1]) \o <<"backslash">>, h)
      BY <2>2, <2>3, <3>2, CharsAre, ReachesMore DEF a, h
    <3>5. Reaches(left, ((t \o f[k - 1]) \o <<"backslash">>) \o <<s[k]>>, Within(i, k))
      BY <2>2, <2>3, <3>3, <3>4, ReachesMore
    <3>6. ((t \o f[k - 1]) \o <<"backslash">>) \o <<s[k]>> = t \o f[k]
      <4>1. f[k] = f[k - 1] \o <<"backslash", s[k]>>
        BY <2>2, <3>1
      <4>2. /\ f[k - 1] \in Seq(Chars) /\ t \in Seq(Chars) /\ s[k] \in Chars /\ "backslash" \in Chars
        BY <1>8, <2>2, CharsAre
      <4> DEFINE e == f[k - 1]
                 d == s[k]
      <4> HIDE DEF e, d
      <4>3. ((t \o e) \o <<"backslash">>) \o <<d>> = t \o (e \o <<"backslash", d>>)
        <5>1. e \in Seq(Chars) /\ t \in Seq(Chars) /\ d \in Chars
          BY <4>2 DEF e, d
        <5> QED BY <5>1, EscapeJoins
      <4> QED BY <4>1, <4>3 DEF e, d
    <3> QED BY <2>1, <3>5, <3>6
  <2>6. CASE ~(s[k] = "backslash" \/ (s[k] = "quote" /\ k \notin r))
    <3>1. piece(k) = <<s[k]>>
      BY <2>6 DEF PieceOf
    <3>2. Writes(left, a, s[k], Within(i, k))
      <4>1. CASE s[k] = "quote"
        <5>1. LeavesRaw(left, a, s[k], Within(i, k))
          <6> HIDE DEF a, h
          <6>1. k \in left[a.i + 1] /\ meant[a.i + 1][a.k + 1] = s[k] /\ Within(i, k) = Within(a.i, a.k + 1)
            BY <2>4, <2>6, <4>1
          <6> QED BY <2>4, <4>1, <6>1 DEF LeavesRaw
        <5> QED BY <5>1 DEF Writes
      <4>2. CASE s[k] # "quote"
        <5>1. Copies(a, s[k], Within(i, k))
          <6> HIDE DEF a, h
          <6> QED BY <2>4, <2>6, <4>2 DEF Copies
        <5> QED BY <5>1 DEF Writes
      <4> QED BY <4>1, <4>2
    <3> HIDE DEF a, h, s, piece
    <3>3. Reaches(left, (t \o f[k - 1]) \o <<s[k]>>, Within(i, k))
      BY <2>2, <2>3, <3>2, ReachesMore DEF a
    <3>4. (t \o f[k - 1]) \o <<s[k]>> = t \o f[k]
      <4>1. f[k] = f[k - 1] \o <<s[k]>>
        BY <2>2, <3>1
      <4> DEFINE e == f[k - 1]
                 d == s[k]
      <4>2. e \in Seq(Chars) /\ d \in Chars
        BY <2>2
      <4> HIDE DEF e, d
      <4>3. (t \o e) \o <<d>> = t \o (e \o <<d>>)
        <5>1. <<d>> \in Seq(Chars)
          BY <4>2
        <5> QED BY <1>8, <4>2, <5>1, TextsJoin
      <4> QED BY <4>1, <4>3 DEF e, d
    <3> QED BY <2>1, <3>3, <3>4
  <2> QED BY <2>5, <2>6
<1>11. \A k \in 0 .. n : k \in K
  <2> HIDE DEF K, n
  <2> QED BY <1>1, <1>9, <1>10, Induction
<1>12. n \in K /\ f[n] \in Seq(Chars)
  <2>1. n \in 0 .. n
    BY <1>1
  <2> HIDE DEF K, n
  <2> QED BY <1>7, <1>11, <2>1
<1> QED BY <1>7, <1>12

\* A whole answer is written to its end.
LEMMA WrittenReached ==
  ASSUME MeantTyped, NEW left, NEW padding \in {<<>>, <<"blank">>}
  PROVE  Reaches(left, Structured!Written(meant, left, padding), Final)
<1> DEFINE n == Len(meant)
           e(i) == Structured!Escaped(meant[i], left[i])
           sep(i) == IF i = n THEN "end" ELSE "comma"
           piece(i) == <<"quote">> \o e(i) \o <<"quote">> \o padding \o <<sep(i)>>
           pieces == [i \in DOMAIN meant |-> piece(i)]
<1>1. n \in Nat /\ n > 0 /\ DOMAIN meant = 1 .. n /\ \A i \in 1 .. n : meant[i] \in Seq(Chars)
  BY DEF MeantTyped
<1>2. /\ First \in Where /\ \A i \in 0 .. n : Shut(i) \in Where /\ Between(i) \in Where
      /\ \A i \in 0 .. n - 1 : Within(i, 0) \in Where /\ Within(i, Len(meant[i + 1])) \in Where
  <2>1. \A i \in 0 .. n : i \in Nat
    OBVIOUS
  <2>2. First \in Where /\ \A i \in 0 .. n : Shut(i) \in Where /\ Between(i) \in Where
    BY <1>1 DEF First, Shut, Between, Where
  <2>3. ASSUME NEW i \in 0 .. n - 1 PROVE Within(i, 0) \in Where /\ Within(i, Len(meant[i + 1])) \in Where
    <3>1. i \in 0 .. n /\ i < n /\ i + 1 \in 1 .. n
      BY <1>1
    <3>2. Len(meant[i + 1]) \in Nat
      BY <1>1, <3>1
    <3> QED BY <3>1, <3>2 DEF Within, Where
  <2> QED BY <2>2, <2>3
<1>3. Reaches(left, <<>>, First)
  <2>1. Traces([x \in 0 .. 0 |-> First], left, <<>>, First)
    <3>1. Len(<<>>) = 0 /\ 1 .. 0 = {}
      OBVIOUS
    <3> QED BY <1>2, <3>1 DEF Traces
  <2> QED BY <2>1 DEF Reaches
<1>4. ASSUME NEW i \in 0 .. n - 1, NEW t, Reaches(left, t, Between(i))
      PROVE  Reaches(left, t \o piece(i + 1), Between(i + 1)) /\ piece(i + 1) \in Seq(Chars)
  <2>1. i \in 0 .. n /\ i + 1 \in 0 .. n /\ i < n /\ t \in Seq(Chars) /\ {"quote", "blank", "comma", "end"} \subseteq Chars
    BY <1>1, <1>4, CharsAre DEF Reaches
  <2>2. Writes(left, Between(i), "quote", Within(i, 0))
    <3>1. Opens(Between(i), "quote", Within(i, 0))
      BY <2>1 DEF Opens, Between
    <3> QED BY <3>1 DEF Writes
  <2>3. Reaches(left, t \o <<"quote">>, Within(i, 0))
    BY <1>2, <1>4, <2>1, <2>2, ReachesMore
  <2>4. e(i + 1) \in Seq(Chars) /\ Reaches(left, (t \o <<"quote">>) \o e(i + 1), Within(i, Len(meant[i + 1])))
    BY <2>3, EscapedReached
  <2>5. Writes(left, Within(i, Len(meant[i + 1])), "quote", Shut(i + 1))
    <3>1. Closes(Within(i, Len(meant[i + 1])), "quote", Shut(i + 1))
      BY DEF Closes, Within
    <3> QED BY <3>1 DEF Writes
  <2> HIDE DEF e
  <2> DEFINE u == ((t \o <<"quote">>) \o e(i + 1)) \o <<"quote">>
  <2>6. Reaches(left, u, Shut(i + 1)) /\ u \in Seq(Chars)
    <3>1. Reaches(left, u, Shut(i + 1))
      BY <1>2, <2>1, <2>4, <2>5, ReachesMore
    <3> QED BY <3>1 DEF Reaches
  <2> HIDE DEF u
  <2>7. Reaches(left, u \o padding, Shut(i + 1))
    <3>1. CASE padding = <<>>
      <4>1. u \o <<>> = u
        BY <2>6
      <4> QED BY <2>6, <3>1, <4>1
    <3>2. CASE padding = <<"blank">>
      <4>1. Pads(Shut(i + 1), "blank", Shut(i + 1))
        BY DEF Pads, Shut
      <4>2. Writes(left, Shut(i + 1), "blank", Shut(i + 1))
        BY <4>1 DEF Writes
      <4> QED BY <1>2, <2>1, <2>6, <3>2, <4>2, ReachesMore
    <3> QED BY <3>1, <3>2
  <2>8. Reaches(left, (u \o padding) \o <<sep(i + 1)>>, Between(i + 1))
    <3>1. Separates(Shut(i + 1), sep(i + 1), Between(i + 1))
      BY DEF Separates, Shut
    <3>2. Writes(left, Shut(i + 1), sep(i + 1), Between(i + 1))
      BY <3>1 DEF Writes
    <3>3. sep(i + 1) \in Chars
      BY <2>1
    <3> HIDE DEF sep, n
    <3> QED BY <1>2, <2>1, <2>7, <3>2, <3>3, ReachesMore
  <2>9. (u \o padding) \o <<sep(i + 1)>> = t \o piece(i + 1) /\ piece(i + 1) \in Seq(Chars)
    <3> DEFINE d == e(i + 1)
               c == sep(i + 1)
    <3>1. d \in Seq(Chars) /\ c \in Chars /\ padding \in Seq(Chars) /\ <<"quote">> \in Seq(Chars)
      <4>1. d \in Seq(Chars) /\ c \in Chars
        BY <2>1, <2>4
      <4>2. <<>> \in Seq(Chars) /\ <<"blank">> \in Seq(Chars) /\ <<"quote">> \in Seq(Chars)
        BY <2>1
      <4> QED BY <4>1, <4>2
    <3>2. piece(i + 1) = <<"quote">> \o d \o <<"quote">> \o padding \o <<c>>
      OBVIOUS
    <3>3. u = ((t \o <<"quote">>) \o d) \o <<"quote">>
      BY DEF u
    <3> HIDE DEF d, c, piece
    <3> DEFINE q == <<"quote">>
               v == <<c>>
    <3>4. q \in Seq(Chars) /\ v \in Seq(Chars)
      BY <3>1
    <3>5. piece(i + 1) = q \o d \o q \o padding \o v /\ u = ((t \o q) \o d) \o q
      BY <3>2, <3>3
    <3> HIDE DEF q, v
    <3>6. /\ q \o d \in Seq(Chars) /\ q \o d \o q \in Seq(Chars) /\ q \o d \o q \o padding \in Seq(Chars)
          /\ q \o d \o q \o padding \o v \in Seq(Chars)
      BY <3>1, <3>4, ConcatProperties
    <3>7. /\ (t \o q) \o d = t \o (q \o d)
          /\ (t \o (q \o d)) \o q = t \o (q \o d \o q)
          /\ (t \o (q \o d \o q)) \o padding = t \o (q \o d \o q \o padding)
          /\ (t \o (q \o d \o q \o padding)) \o v = t \o (q \o d \o q \o padding \o v)
      <4>0. \A a, b \in Seq(Chars) : (t \o a) \o b = t \o (a \o b)
        BY <2>1, TextsJoin
      <4> HIDE DEF u
      <4>1. (t \o q) \o d = t \o (q \o d)
        BY <2>1, <3>1, <3>4, TextsJoin, Zenon
      <4>2. (t \o (q \o d)) \o q = t \o (q \o d \o q)
        BY <3>1, <3>4, <3>6, <4>0, Zenon
      <4>3. (t \o (q \o d \o q)) \o padding = t \o (q \o d \o q \o padding)
        BY <3>1, <3>4, <3>6, <4>0, Zenon
      <4>4. (t \o (q \o d \o q \o padding)) \o v = t \o (q \o d \o q \o padding \o v)
        BY <3>1, <3>4, <3>6, <4>0, Zenon
      <4> QED BY <4>1, <4>2, <4>3, <4>4
    <3>8. (u \o padding) \o v = t \o piece(i + 1)
      BY <3>5, <3>7, Zenon
    <3>9. piece(i + 1) \in Seq(Chars)
      BY <3>5, <3>6, Zenon
    <3> QED BY <3>8, <3>9 DEF v, c
  <2> HIDE DEF piece, sep
  <2> QED BY <2>8, <2>9
<1>5. \A i \in 1 .. n : piece(i) \in Seq(Chars)
  <2> TAKE i \in 1 .. n
  <2>1. e(i) \in Seq(Chars)
    BY EscapedIs
  <2>2. sep(i) \in Chars
    BY CharsAre
  <2>3. <<"quote">> \in Seq(Chars) /\ padding \in Seq(Chars)
    <3>1. <<>> \in Seq(Chars) /\ <<"blank">> \in Seq(Chars) /\ <<"quote">> \in Seq(Chars)
      BY CharsAre
    <3> QED BY <3>1
  <2> HIDE DEF e, sep
  <2>4. <<sep(i)>> \in Seq(Chars)
    BY <2>2
  <2> QED BY <2>1, <2>3, <2>4, ConcatProperties
<1>6. pieces \in Seq(Seq(Chars)) /\ Len(pieces) = n /\ \A i \in 1 .. n : pieces[i] = piece(i)
  <2> HIDE DEF piece, n
  <2> QED BY <1>1, <1>5
<1>7. Structured!Written(meant, left, padding) = Structured!FlattenSeq(pieces)
  BY DEF Structured!Written
<1> HIDE DEF pieces
<1>8. PICK f : Joins(f, n, Chars, pieces) /\ Structured!FlattenSeq(pieces) = f[n]
  BY <1>6, FlatGoes
<1>9. f[0] = <<>> /\ \A i \in 1 .. n : f[i] = f[i - 1] \o piece(i)
  <2> HIDE DEF piece
  <2> QED BY <1>6, <1>8 DEF Joins
<1> DEFINE K == {i \in 0 .. n : Reaches(left, f[i], Between(i))}
<1>10. 0 \in K
  <2>1. Between(0) = First /\ 0 \in 0 .. n
    BY <1>1 DEF Between, First
  <2> QED BY <1>3, <1>9, <2>1
<1>11. ASSUME NEW i \in 1 .. n, i - 1 \in K PROVE i \in K
  <2>1. i - 1 \in 0 .. n - 1 /\ (i - 1) + 1 = i /\ i \in 0 .. n
    BY <1>1
  <2>2. Reaches(left, f[i - 1] \o piece((i - 1) + 1), Between((i - 1) + 1))
    <3> HIDE DEF piece, n
    <3> QED BY <1>4, <1>11, <2>1
  <2>3. f[i] = f[i - 1] \o piece((i - 1) + 1)
    <3> HIDE DEF piece, n
    <3> QED BY <1>9, <2>1
  <2> HIDE DEF piece
  <2> QED BY <2>1, <2>2, <2>3
<1>12. n \in K
  <2>1. \A i \in 0 .. n : i \in K
    <3> HIDE DEF K, n
    <3> QED BY <1>1, <1>10, <1>11, Induction
  <2>2. n \in 0 .. n
    BY <1>1
  <2> QED BY <2>1, <2>2
<1>13. Between(n) = Final
  BY DEF Between, Final
<1> HIDE DEF piece
<1> QED BY <1>7, <1>8, <1>12, <1>13

-----------------------------------------------------------------------------
(* What a reader has of an answer                                          *)

ModeAt(s) ==
  IF s.at = "between" THEN IF s.i = Len(meant) THEN "done" ELSE "value"
  ELSE IF s.at = "in" THEN "string" ELSE IF s.at = "half" THEN "escaped" ELSE "after"

\* The reader has read what the writer has written.
Agrees(p, s) ==
  /\ p \in Parser /\ p.mode = ModeAt(s)
  /\ p.all = SubSeq(meant, 1, s.i)
  /\ s.at \in {"in", "half"} => p.string = SubSeq(meant[s.i + 1], 1, s.k)

\* Only blanks of the string have been written since a quote left as it is.
Trailing(left, s) ==
  /\ s.at = "in"
  /\ \E j \in 1 .. s.k : j \in left[s.i + 1] /\ \A h \in j + 1 .. s.k : meant[s.i + 1][h] = "blank"

\* Before the first character, reader and writer agree.
LEMMA AgreesFirst == ASSUME MeantTyped PROVE Agrees(Structured!Started, First)
<1>1. Structured!Started \in Parser
  BY DEF Structured!Started, Parser, Modes
<1>2. SubSeq(meant, 1, 0) = <<>>
  BY DEF MeantTyped
<1>3. First.at = "between" /\ First.i = 0 /\ Len(meant) # 0
  BY DEF First, MeantTyped
<1>4. Structured!Started.mode = "value" /\ Structured!Started.all = <<>>
  BY DEF Structured!Started
<1> QED BY <1>1, <1>2, <1>3, <1>4 DEF Agrees, ModeAt

\* Where a writer is within a string, the answer has that string and as many
\* characters of it.
LEMMA ModeAtPlace ==
  ASSUME MeantTyped, NEW s \in Where
  PROVE  /\ s.at \in {"between", "in", "half", "shut"} /\ s.i \in 0 .. Len(meant) /\ s.k \in Nat /\ s.i \in Nat
         /\ Len(meant) \in Nat
         /\ s.at \in {"in", "half"} =>
              /\ s.i < Len(meant) /\ s.i + 1 \in 1 .. Len(meant) /\ meant[s.i + 1] \in Seq(Chars)
              /\ Len(meant[s.i + 1]) \in Nat /\ s.k =< Len(meant[s.i + 1])
<1>1. /\ s.at \in {"between", "in", "half", "shut"} /\ s.i \in 0 .. Len(meant) /\ s.k \in Nat
      /\ s.at \in {"in", "half"} => s.i < Len(meant) /\ s.k =< Len(meant[s.i + 1])
  BY DEF Where
<1>2. Len(meant) \in Nat /\ \A i \in 1 .. Len(meant) : meant[i] \in Seq(Chars) /\ Len(meant[i]) \in Nat
  BY DEF MeantTyped
<1>3. s.i \in Nat /\ (s.i < Len(meant) => s.i + 1 \in 1 .. Len(meant))
  BY <1>1, <1>2
<1> QED BY <1>1, <1>2, <1>3

\* Reader and writer agree behind every character but a quote left as it is.
LEMMA AgreesGoes ==
  ASSUME MeantTyped, NEW left, NEW s \in Where, NEW t \in Where, NEW c \in Chars,
         Writes(left, s, c, t), ~LeavesRaw(left, s, c, t), NEW p, Agrees(p, s)
  PROVE  Agrees(Structured!Moved(p, c), t)
<1> DEFINE q == Structured!Moved(p, c)
<1>1. /\ p \in Parser /\ p.mode = ModeAt(s) /\ p.all = SubSeq(meant, 1, s.i)
      /\ s.at \in {"in", "half"} => p.string = SubSeq(meant[s.i + 1], 1, s.k)
  BY DEF Agrees
<1>2. /\ q \in Parser /\ q.mode = Target(p.mode, c)
      /\ q.string = IF p.mode = "value" THEN <<>>
                    ELSE IF q.mode = "string" THEN Append(p.string, c) ELSE p.string
      /\ q.all = IF p.mode = "string" /\ q.mode = "after" THEN Append(p.all, p.string) ELSE p.all
  BY <1>1, MovedIs
<1>3. /\ s.i \in 0 .. Len(meant) /\ s.k \in Nat /\ s.i \in Nat /\ Len(meant) \in Nat
      /\ s.at \in {"in", "half"} =>
              /\ s.i < Len(meant) /\ s.i + 1 \in 1 .. Len(meant) /\ meant[s.i + 1] \in Seq(Chars)
              /\ Len(meant[s.i + 1]) \in Nat /\ s.k =< Len(meant[s.i + 1])
  BY ModeAtPlace
<1> HIDE DEF q
<1>4. ASSUME s.at \in {"in", "half"}, s.k < Len(meant[s.i + 1]), c = meant[s.i + 1][s.k + 1]
      PROVE  Append(p.string, c) = SubSeq(meant[s.i + 1], 1, s.k + 1)
  <2>1. s.k + 1 \in 1 .. Len(meant[s.i + 1]) /\ (s.k + 1) - 1 = s.k /\ meant[s.i + 1] \in Seq(Chars)
    BY <1>3, <1>4
  <2> DEFINE m == meant[s.i + 1]
             k == s.k + 1
  <2> HIDE DEF m, k
  <2>2. SubSeq(m, 1, k) = Append(SubSeq(m, 1, k - 1), m[k])
    BY <2>1, BeginningGrows DEF m, k
  <2> QED BY <1>1, <1>4, <2>1, <2>2 DEF m, k
<1>5. CASE Opens(s, c, t)
  <2>1. s.at = "between" /\ s.i < Len(meant) /\ c = "quote" /\ t.at = "in" /\ t.i = s.i /\ t.k = 0
    BY <1>5 DEF Opens, Within
  <2>2. p.mode = "value"
    BY <1>1, <1>3, <2>1 DEF ModeAt
  <2>3. q.mode = "string" /\ q.string = <<>> /\ q.all = p.all
    BY <1>2, <2>1, <2>2 DEF Target
  <2>4. SubSeq(meant[t.i + 1], 1, t.k) = <<>>
    <3>1. s.i + 1 \in 1 .. Len(meant)
      BY <1>3, <2>1
    <3>2. meant[t.i + 1] \in Seq(Chars)
      BY <2>1, <3>1 DEF MeantTyped
    <3> QED BY <2>1, <3>2
  <2> QED BY <1>1, <1>2, <2>1, <2>3, <2>4 DEF Agrees, ModeAt, q
<1>6. CASE Copies(s, c, t)
  <2>1. /\ s.at = "in" /\ s.k < Len(meant[s.i + 1]) /\ c = meant[s.i + 1][s.k + 1]
        /\ c \notin {"quote", "backslash"} /\ t.at = "in" /\ t.i = s.i /\ t.k = s.k + 1
    BY <1>6 DEF Copies, Within
  <2>2. p.mode = "string" /\ q.mode = "string"
    BY <1>1, <1>2, <2>1 DEF ModeAt, Target
  <2>3. q.string = SubSeq(meant[t.i + 1], 1, t.k) /\ q.all = p.all
    BY <1>2, <1>4, <2>1, <2>2
  <2> QED BY <1>1, <1>2, <2>1, <2>2, <2>3, Zenon DEF Agrees, ModeAt, q
<1>7. CASE Escapes(s, c, t)
  <2>1. s.at = "in" /\ c = "backslash" /\ t.at = "half" /\ t.i = s.i /\ t.k = s.k
    BY <1>7 DEF Escapes, Half
  <2>2. p.mode = "string" /\ q.mode = "escaped"
    BY <1>1, <1>2, <2>1 DEF ModeAt, Target
  <2>3. q.string = p.string /\ q.all = p.all
    BY <1>2, <2>2
  <2> QED BY <1>1, <1>2, <2>1, <2>2, <2>3 DEF Agrees, ModeAt, q
<1>8. CASE Follows(s, c, t)
  <2>1. /\ s.at = "half" /\ s.k < Len(meant[s.i + 1]) /\ c = meant[s.i + 1][s.k + 1]
        /\ c \in {"quote", "backslash"} /\ t.at = "in" /\ t.i = s.i /\ t.k = s.k + 1
    BY <1>8 DEF Follows, Within
  <2>2. p.mode = "escaped" /\ q.mode = "string"
    BY <1>1, <1>2, <2>1 DEF ModeAt, Target
  <2>3. q.string = SubSeq(meant[t.i + 1], 1, t.k) /\ q.all = p.all
    BY <1>2, <1>4, <2>1, <2>2
  <2> QED BY <1>1, <1>2, <2>1, <2>2, <2>3, Zenon DEF Agrees, ModeAt, q
<1>9. CASE Closes(s, c, t)
  <2>1. s.at = "in" /\ s.k = Len(meant[s.i + 1]) /\ c = "quote" /\ t.at = "shut" /\ t.i = s.i + 1
    BY <1>9 DEF Closes, Shut
  <2>2. p.mode = "string" /\ q.mode = "after"
    BY <1>1, <1>2, <2>1 DEF ModeAt, Target
  <2>3. q.all = Append(p.all, p.string)
    BY <1>2, <2>2
  <2>4. p.string = meant[s.i + 1]
    <3> DEFINE m == meant[s.i + 1]
    <3>1. m \in Seq(Chars) /\ p.string = SubSeq(m, 1, Len(m))
      BY <1>1, <1>3, <2>1
    <3> HIDE DEF m
    <3>2. SubSeq(m, 1, Len(m)) = m
      BY <3>1
    <3> QED BY <3>1, <3>2 DEF m
  <2>5. Append(SubSeq(meant, 1, s.i), meant[s.i + 1]) = SubSeq(meant, 1, s.i + 1)
    <3> DEFINE k == s.i + 1
    <3>1. k \in 1 .. Len(meant) /\ k - 1 = s.i /\ meant \in Seq(Seq(Chars))
      BY <1>3, <2>1 DEF MeantTyped
    <3> HIDE DEF k
    <3>2. SubSeq(meant, 1, k) = Append(SubSeq(meant, 1, k - 1), meant[k])
      BY <3>1, BeginningGrows
    <3> QED BY <3>1, <3>2 DEF k
  <2> QED BY <1>1, <1>2, <2>1, <2>2, <2>3, <2>4, <2>5 DEF Agrees, ModeAt, q
<1>10. CASE Pads(s, c, t)
  <2>1. s.at = "shut" /\ c = "blank" /\ t = s
    BY <1>10 DEF Pads
  <2>2. p.mode = "after" /\ q.mode = "after" /\ q.all = p.all
    BY <1>1, <1>2, <2>1 DEF ModeAt, Target
  <2> QED BY <1>1, <1>2, <2>1, <2>2 DEF Agrees, ModeAt, q
<1>11. CASE Separates(s, c, t)
  <2>1. s.at = "shut" /\ c = (IF s.i = Len(meant) THEN "end" ELSE "comma") /\ t.at = "between" /\ t.i = s.i
    BY <1>11 DEF Separates, Between
  <2>2. p.mode = "after" /\ q.mode = (IF s.i = Len(meant) THEN "done" ELSE "value") /\ q.all = p.all
    BY <1>1, <1>2, <2>1 DEF ModeAt, Target
  <2> QED BY <1>1, <1>2, <2>1, <2>2 DEF Agrees, ModeAt, q
<1> QED BY <1>5, <1>6, <1>7, <1>8, <1>9, <1>10, <1>11 DEF Writes

-----------------------------------------------------------------------------
(* Quotes left as they are                                                 *)

\* The smallest of some numbers is one of them.
LEMMA FirstIs ==
  ASSUME NEW S \in SUBSET Nat, S # {}
  PROVE  Structured!Min(S) \in S /\ \A y \in S : Structured!Min(S) =< y
<1>1. PICK x \in S : \A y \in S : x =< y
  BY Smallest
<1> QED BY <1>1 DEF Structured!Min

\* A quote left as it is trails right behind itself.
LEMMA RawTrails ==
  ASSUME MeantTyped, NEW left, NEW s \in Where, NEW c, NEW t, LeavesRaw(left, s, c, t)
  PROVE  Trailing(left, t)
<1>1. s.at = "in" /\ s.k + 1 \in left[s.i + 1] /\ t.at = "in" /\ t.i = s.i /\ t.k = s.k + 1 /\ s.k \in Nat
  BY ModeAtPlace DEF LeavesRaw, Within
<1>2. s.k + 1 \in 1 .. t.k /\ (s.k + 1) + 1 .. t.k = {}
  BY <1>1
<1> QED BY <1>1, <1>2 DEF Trailing

\* No closer follows them.
LEMMA TrailingGoes ==
  ASSUME MeantTyped, NEW left, ~Structured!Unclear(left), NEW s \in Where, NEW c \in Chars, NEW t,
         Writes(left, s, c, t), Trailing(left, s)
  PROVE  c \notin Structured!Closers /\ (c = "blank" => Trailing(left, t))
<1> DEFINE m == meant[s.i + 1]
<1>1. PICK j \in 1 .. s.k : j \in left[s.i + 1] /\ \A h \in j + 1 .. s.k : m[h] = "blank"
  BY DEF Trailing
<1>2. /\ s.at = "in" /\ s.k \in Nat /\ s.i + 1 \in DOMAIN meant /\ m \in Seq(Chars)
      /\ Len(m) \in Nat /\ s.k =< Len(m)
  BY ModeAtPlace DEF Trailing, MeantTyped
<1>3. CASE c \notin Structured!Closers \cup {"blank"}
  BY <1>3
<1>4. CASE c \in Structured!Closers \cup {"blank"}
  <2>1. c \notin {"quote", "backslash"}
    BY <1>4 DEF Structured!Closers
  <2>2. Copies(s, c, t)
    <3>1. ~Opens(s, c, t) /\ ~Follows(s, c, t) /\ ~Pads(s, c, t) /\ ~Separates(s, c, t)
      BY <1>2 DEF Opens, Follows, Pads, Separates
    <3>2. ~LeavesRaw(left, s, c, t) /\ ~Escapes(s, c, t) /\ ~Closes(s, c, t)
      BY <2>1 DEF LeavesRaw, Escapes, Closes
    <3> QED BY <3>1, <3>2 DEF Writes
  <2>3. s.k < Len(m) /\ c = m[s.k + 1] /\ t.at = "in" /\ t.i = s.i /\ t.k = s.k + 1
    BY <2>2 DEF Copies, Within
  <2>4. c \notin Structured!Closers
    <3>1. ASSUME c \in Structured!Closers PROVE FALSE
      <4> DEFINE solid == {h \in j + 1 .. Len(m) : m[h] # "blank"}
      <4>1. c # "blank"
        BY <3>1 DEF Structured!Closers
      <4>2. s.k + 1 \in solid
        BY <1>1, <1>2, <2>3, <4>1
      <4>3. \A h \in solid : s.k + 1 =< h
        BY <1>1, <1>2
      <4>4. solid \in SUBSET Nat
        BY <1>1, <1>2
      <4> HIDE DEF solid, m
      <4>5. Structured!Min(solid) = s.k + 1
        <5>1. Structured!Min(solid) \in solid /\ \A y \in solid : Structured!Min(solid) =< y
          BY <4>2, <4>4, FirstIs
        <5>2. Structured!Min(solid) =< s.k + 1 /\ s.k + 1 =< Structured!Min(solid) /\ Structured!Min(solid) \in Nat
          BY <4>2, <4>3, <4>4, <5>1
        <5> QED BY <1>2, <5>2
      <4>6. solid # {} /\ m[Structured!Min(solid)] \in Structured!Closers
        BY <2>3, <3>1, <4>2, <4>5
      <4>7. Structured!Unclear(left)
        <5>1. j \in left[s.i + 1] /\ s.i + 1 \in DOMAIN meant
          BY <1>1, <1>2
        <5> QED BY <4>6, <5>1 DEF Structured!Unclear, solid, m
      <4> QED BY <4>7
    <3> QED BY <3>1
  <2>5. ASSUME c = "blank" PROVE Trailing(left, t)
    <3>1. j \in 1 .. t.k /\ \A h \in j + 1 .. t.k : h \in j + 1 .. s.k \/ h = s.k + 1
      BY <1>1, <1>2, <2>3
    <3>2. \A h \in j + 1 .. t.k : m[h] = "blank"
      BY <1>1, <2>3, <2>5, <3>1
    <3> QED BY <1>1, <2>3, <3>1, <3>2 DEF Trailing
  <2> QED BY <2>4, <2>5
<1> QED BY <1>3, <1>4

-----------------------------------------------------------------------------
(* A beginning of an answer, read as it stands                             *)

\* Each character of a text is written from one place to the next.
LEMMA TraceIs ==
  ASSUME NEW left, NEW t \in Seq(Chars), NEW R, Traces(R, left, t, Final), NEW x \in 1 .. Len(t)
  PROVE  /\ R[x - 1] \in Where /\ R[x] \in Where /\ t[x] \in Chars /\ Writes(left, R[x - 1], t[x], R[x])
         /\ x - 1 \in 0 .. Len(t) /\ x \in 0 .. Len(t)
<1>1. x - 1 \in 0 .. Len(t) /\ x \in 0 .. Len(t) /\ t[x] \in Chars
  OBVIOUS
<1> QED BY <1>1 DEF Traces

\* Of a clear answer as it stands, a reader agrees with the writer, is wrong,
\* or takes a quote left as it is for the end while nothing but blanks follows.
LEMMA PlainReading ==
  ASSUME MeantTyped, NEW left, ~Structured!Unclear(left),
         NEW t \in Seq(Chars), NEW R, Traces(R, left, t, Final)
  PROVE  \A n \in 0 .. Len(t) :
           LET p == Structured!Parse(SubSeq(t, 1, n))
           IN  p \in Parser /\ (Agrees(p, R[n]) \/ p.mode = "wrong" \/ (p.mode = "after" /\ Trailing(left, R[n])))
<1> DEFINE P(n) == Structured!Parse(SubSeq(t, 1, n))
           Fine(p, s) == p \in Parser /\ (Agrees(p, s) \/ p.mode = "wrong" \/ (p.mode = "after" /\ Trailing(left, s)))
           K == {n \in 0 .. Len(t) : Fine(P(n), R[n])}
<1>1. 0 \in K
  <2>1. SubSeq(t, 1, 0) = <<>> /\ 0 \in 0 .. Len(t)
    OBVIOUS
  <2>2. P(0) = Structured!Started
    <3>1. "quote" \in Chars
      BY CharsAre
    <3> QED BY <2>1, <3>1, ParseAppends
  <2>3. R[0] = First
    BY DEF Traces
  <2>4. Agrees(Structured!Started, First)
    BY AgreesFirst
  <2> HIDE DEF P
  <2> QED BY <2>1, <2>2, <2>3, <2>4 DEF Agrees
<1>2. ASSUME NEW x \in 1 .. Len(t), x - 1 \in K PROVE x \in K
  <2>1. /\ R[x - 1] \in Where /\ R[x] \in Where /\ t[x] \in Chars /\ Writes(left, R[x - 1], t[x], R[x])
        /\ x \in 0 .. Len(t)
    BY TraceIs
  <2>2. P(x) = Structured!Moved(P(x - 1), t[x])
    BY PrefixParses
  <2>3. Fine(P(x - 1), R[x - 1])
    BY <1>2
  <2> DEFINE p == P(x - 1)
             q == P(x)
             s == R[x - 1]
             z == R[x]
             c == t[x]
  <2> HIDE DEF p, q, s, z, c
  <2>4. /\ s \in Where /\ z \in Where /\ c \in Chars /\ Writes(left, s, c, z) /\ q = Structured!Moved(p, c)
        /\ Fine(p, s)
    BY <2>1, <2>2, <2>3 DEF p, q, s, z, c
  <2> HIDE DEF P
  <2>5. q \in Parser /\ q.mode = Target(p.mode, c)
    BY <2>4, MovedIs
  <2>6. ASSUME Agrees(p, s) /\ ~LeavesRaw(left, s, c, z) PROVE Fine(q, z)
    BY <2>4, <2>5, <2>6, AgreesGoes
  <2>7. ASSUME Agrees(p, s) /\ LeavesRaw(left, s, c, z) PROVE Fine(q, z)
    <3>1. Trailing(left, z)
      BY <2>4, <2>7, RawTrails
    <3>2. p.mode = "string" /\ c = "quote"
      BY <2>7 DEF Agrees, ModeAt, LeavesRaw
    <3>3. q.mode = "after"
      BY <2>5, <3>2 DEF Target
    <3> QED BY <2>5, <3>1, <3>3
  <2>8. ASSUME p.mode = "wrong" PROVE Fine(q, z)
    BY <2>5, <2>8 DEF Target
  <2>9. ASSUME p.mode = "after" /\ Trailing(left, s) PROVE Fine(q, z)
    <3>1. c \notin Structured!Closers /\ (c = "blank" => Trailing(left, z))
      BY <2>4, <2>9, TrailingGoes
    <3>2. q.mode = IF c = "blank" THEN "after" ELSE "wrong"
      BY <2>5, <2>9, <3>1 DEF Target, Structured!Closers
    <3> QED BY <2>5, <3>1, <3>2
  <2>10. Fine(q, z)
    BY <2>4, <2>6, <2>7, <2>8, <2>9
  <2> QED BY <2>1, <2>10 DEF q, z
<1>3. Len(t) \in Nat
  OBVIOUS
<1> HIDE DEF K
<1>4. \A n \in 0 .. Len(t) : n \in K
  BY <1>1, <1>2, <1>3, Induction
<1> QED BY <1>4 DEF K

\* Only a whole answer is read to its end.
LEMMA DoneIsWhole ==
  ASSUME MeantTyped, NEW left, NEW t \in Seq(Chars), NEW R, Traces(R, left, t, Final),
         NEW n \in 0 .. Len(t), NEW p, Agrees(p, R[n])
  PROVE  /\ p.mode = "done" => n = Len(t) /\ p.all = meant
         /\ n = Len(t) => p.mode = "done"
<1>1. p.mode = ModeAt(R[n]) /\ p.all = SubSeq(meant, 1, R[n].i)
  BY DEF Agrees
<1>2. ASSUME p.mode = "done" PROVE R[n].at = "between" /\ R[n].i = Len(meant)
  BY <1>1, <1>2 DEF ModeAt
<1>3. ASSUME p.mode = "done" PROVE n = Len(t)
  <2>1. ASSUME n # Len(t) PROVE FALSE
    <3>1. n + 1 \in 1 .. Len(t) /\ (n + 1) - 1 = n
      BY <2>1
    <3> DEFINE x == n + 1
    <3>2. Writes(left, R[x - 1], t[x], R[x])
      <4> HIDE DEF x
      <4> QED BY <3>1, TraceIs DEF x
    <3>3. Writes(left, R[n], t[x], R[x])
      BY <3>1, <3>2
    <3> HIDE DEF x
    <3>4. R[n].at = "between" /\ ~(R[n].i < Len(meant))
      <4>1. Len(meant) \in Nat
        BY DEF MeantTyped
      <4> QED BY <1>2, <1>3, <4>1
    <3> QED BY <3>3, <3>4 DEF Writes, Opens, Copies, LeavesRaw, Escapes, Follows, Closes, Pads, Separates
  <2> QED BY <2>1
<1>4. ASSUME p.mode = "done" PROVE p.all = meant
  <2>1. SubSeq(meant, 1, Len(meant)) = meant
    BY DEF MeantTyped
  <2> QED BY <1>1, <1>2, <1>4, <2>1
<1>5. ASSUME n = Len(t) PROVE p.mode = "done"
  <2>1. R[n] = Final
    BY <1>5 DEF Traces
  <2> QED BY <1>1, <2>1 DEF ModeAt, Final
<1> QED BY <1>3, <1>4, <1>5

-----------------------------------------------------------------------------
(* The repair                                                              *)

Repairer == [inString: BOOLEAN, escaping: BOOLEAN, text: Seq(Chars)]
Unrepaired == [inString |-> FALSE, escaping |-> FALSE, text |-> <<>>]

\* From r to q with character c, which may look like the end of a string.
Mending(r, q, c, likely) ==
  /\ q \in Repairer
  /\ ~r.inString => q.inString = (c = "quote") /\ q.escaping = r.escaping /\ q.text = Append(r.text, c)
  /\ r.inString /\ r.escaping => q.inString = TRUE /\ q.escaping = FALSE /\ q.text = Append(r.text, c)
  /\ r.inString /\ ~r.escaping /\ c = "quote" /\ likely =>
       q.inString = FALSE /\ q.escaping = r.escaping /\ q.text = Append(r.text, c)
  /\ r.inString /\ ~r.escaping /\ c = "quote" /\ ~likely =>
       q.inString = TRUE /\ q.escaping = r.escaping /\ q.text = Append(Append(r.text, "backslash"), "quote")
  /\ r.inString /\ ~r.escaping /\ c # "quote" =>
       q.inString = TRUE /\ q.escaping = (c = "backslash") /\ q.text = Append(r.text, c)

\* What one character makes of the repair.
LEMMA MendedIs ==
  ASSUME NEW r \in Repairer, NEW t \in Seq(Chars), NEW k \in 1 .. Len(t)
  PROVE  Mending(r, Structured!Mended(r, t, k), t[k], Structured!LikelyTerminator(t, k))
<1> DEFINE q == Structured!Mended(r, t, k)
           c == t[k]
<1>1. c \in Chars /\ r.inString \in BOOLEAN /\ r.escaping \in BOOLEAN /\ r.text \in Seq(Chars)
  BY DEF Repairer
<1>3. ASSUME NEW a \in BOOLEAN, NEW e \in BOOLEAN, NEW u \in Seq(Chars), q = [inString |-> a, escaping |-> e, text |-> u]
      PROVE  q \in Repairer /\ q.inString = a /\ q.escaping = e /\ q.text = u
  <2> HIDE DEF q
  <2> QED BY <1>3 DEF Repairer
<1>4. /\ r = [inString |-> r.inString, escaping |-> r.escaping, text |-> r.text]
      /\ \A d \in Chars : Append(r.text, d) \in Seq(Chars)
  BY <1>1 DEF Repairer
<1> HIDE DEF Mending, q, c
<1>5. CASE ~r.inString
  <2>1. q = [r EXCEPT !.inString = (c = "quote"), !.text = Append(r.text, c)]
    BY <1>5 DEF Structured!Mended, q, c
  <2>2. q = [inString |-> (c = "quote"), escaping |-> r.escaping, text |-> Append(r.text, c)]
    BY <1>4, <2>1
  <2> QED BY <1>1, <1>3, <1>4, <1>5, <2>2 DEF Mending, q, c
<1>6. CASE r.inString /\ r.escaping
  <2>1. q = [r EXCEPT !.escaping = FALSE, !.text = Append(r.text, c)]
    BY <1>6 DEF Structured!Mended, q, c
  <2>2. q = [inString |-> r.inString, escaping |-> FALSE, text |-> Append(r.text, c)]
    BY <1>4, <2>1
  <2> QED BY <1>1, <1>3, <1>4, <1>6, <2>2 DEF Mending, q, c
<1>7. CASE r.inString /\ ~r.escaping /\ c = "quote"
  <2>1. CASE Structured!LikelyTerminator(t, k)
    <3>1. q = [r EXCEPT !.inString = FALSE, !.text = Append(r.text, c)]
      BY <1>7, <2>1 DEF Structured!Mended, q, c
    <3>2. q = [inString |-> FALSE, escaping |-> r.escaping, text |-> Append(r.text, c)]
      BY <1>4, <3>1
    <3> QED BY <1>1, <1>3, <1>4, <1>7, <2>1, <3>2 DEF Mending, q, c
  <2>2. CASE ~Structured!LikelyTerminator(t, k)
    <3>1. q = [r EXCEPT !.text = r.text \o <<"backslash", "quote">>]
      BY <1>7, <2>2 DEF Structured!Mended, q, c
    <3>2. r.text \o <<"backslash", "quote">> = Append(Append(r.text, "backslash"), "quote")
      <4>1. "backslash" \in Chars /\ "quote" \in Chars
        BY CharsAre
      <4> DEFINE x == r.text
                 C == Chars
      <4>2. x \in Seq(C) /\ "backslash" \in C /\ "quote" \in C
        BY <1>1, <4>1
      <4> HIDE DEF x, C
      <4>3. x \o <<"backslash", "quote">> = Append(Append(x, "backslash"), "quote")
        BY <4>2, TwoMore
      <4> QED BY <4>3 DEF x
    <3>3. Append(Append(r.text, "backslash"), "quote") \in Seq(Chars)
      BY <1>1, CharsAre
    <3>4. q = [inString |-> r.inString, escaping |-> r.escaping, text |-> Append(Append(r.text, "backslash"), "quote")]
      BY <1>4, <3>1, <3>2
    <3> QED BY <1>1, <1>3, <1>7, <2>2, <3>3, <3>4 DEF Mending, q, c
  <2> QED BY <2>1, <2>2
<1>8. CASE r.inString /\ ~r.escaping /\ c # "quote"
  <2>1. q = [r EXCEPT !.escaping = (c = "backslash"), !.text = Append(r.text, c)]
    BY <1>8 DEF Structured!Mended, q, c
  <2>2. q = [inString |-> r.inString, escaping |-> (c = "backslash"), text |-> Append(r.text, c)]
    BY <1>4, <2>1
  <2> QED BY <1>1, <1>3, <1>4, <1>8, <2>2 DEF Mending, q, c
<1> QED BY <1>1, <1>5, <1>6, <1>7, <1>8 DEF q, c

\* The states of the repair, one after the other.
Mends(f, t) ==
  /\ f \in [0 .. Len(t) -> Repairer] /\ f[0] = Unrepaired
  /\ \A k \in 1 .. Len(t) : f[k] = Structured!Mended(f[k - 1], t, k)

\* Repairing a text is going through it, one character after the other.
LEMMA RepairGoes ==
  ASSUME NEW t \in Seq(Chars)
  PROVE  \E f : Mends(f, t) /\ Structured!Repair(t) = f[Len(t)].text
<1> DEFINE n == Len(t)
           b == Unrepaired
           more(k, p) == Structured!Mended(p, t, k)
           step == [p \in (1 .. n) \X Repairer |-> more(p[1], p[2])]
<1>0. n \in Nat
  OBVIOUS
<1>1. b \in Repairer
  BY DEF Unrepaired, Repairer
<1>2. \A k \in 1 .. n, p \in Repairer : more(k, p) \in Repairer
  BY MendedIs DEF Mending
<1>3. step \in [(1 .. n) \X Repairer -> Repairer]
  <2> HIDE DEF more, n
  <2> QED BY <1>2
<1>4. PICK f : Unfolds(f, n, Repairer, b, step)
  <2> HIDE DEF step, n, b
  <2> QED BY <1>0, <1>1, <1>3, Recursion, Zenon
<1>5. \A k \in 1 .. n : k - 1 \in 0 .. n /\ f[k - 1] \in Repairer /\ f[k] = more(k, f[k - 1])
  <2> TAKE k \in 1 .. n
  <2>1. k - 1 \in 0 .. n
    BY <1>0
  <2> HIDE DEF more, n, b
  <2>2. f[k - 1] \in Repairer
    BY <1>4, <2>1 DEF Unfolds
  <2>3. <<k, f[k - 1]>> \in (1 .. n) \X Repairer
    BY <2>2
  <2>4. f[k] = step[<<k, f[k - 1]>>]
    <3> HIDE DEF step
    <3> QED BY <1>4 DEF Unfolds
  <2> QED BY <2>1, <2>2, <2>3, <2>4
<1> DEFINE rec(g) == [k \in 0 .. n |-> IF k = 0 THEN b ELSE more(k, g[k - 1])]
           after == CHOOSE g : g = rec(g)
<1> HIDE DEF more, b, n
<1>6. f = rec(f)
  <2> HIDE DEF step
  <2>1. \A k \in 0 .. n : f[k] = IF k = 0 THEN b ELSE more(k, f[k - 1])
    BY <1>0, <1>4, <1>5 DEF Unfolds
  <2> QED BY <1>4, <2>1 DEF Unfolds
<1>7. after = rec(after)
  <2> HIDE DEF rec
  <2> QED BY <1>6
<1>8. after = f
  <2>1. f[0] = after[0] /\ \A k \in 1 .. n : f[k - 1] = after[k - 1] => f[k] = after[k]
    <3>1. 0 \in 0 .. n /\ \A k \in 1 .. n : k \in 0 .. n /\ k # 0
      BY <1>0
    <3>2. \A g : g = rec(g) => g[0] = b /\ \A k \in 1 .. n : g[k] = more(k, g[k - 1])
      BY <3>1
    <3> HIDE DEF rec, after
    <3> QED BY <1>6, <1>7, <3>2
  <2>2. f = [k \in 0 .. n |-> f[k]] /\ after = [k \in 0 .. n |-> after[k]]
    <3>1. after = [k \in 0 .. n |-> after[k]]
      <4> HIDE DEF after
      <4>1. DOMAIN rec(after) = 0 .. n /\ rec(after) = [k \in 0 .. n |-> rec(after)[k]]
        OBVIOUS
      <4> HIDE DEF rec
      <4> QED BY <1>7, <4>1
    <3>2. f = [k \in 0 .. n |-> f[k]]
      BY <1>4 DEF Unfolds
    <3> QED BY <3>1, <3>2
  <2>3. Alike(f, after, n)
    <3> HIDE DEF after
    <3> QED BY <2>1, <2>2 DEF Alike
  <2> HIDE DEF after
  <2> QED BY <1>0, <2>3, SameRecursion
<1>9. Structured!Repair(t) = f[n].text
  <2>1. Structured!Repair(t) = after[n].text
    BY DEF Structured!Repair, n, rec, more, b, Unrepaired
  <2> HIDE DEF after
  <2> QED BY <1>8, <2>1
<1>10. Mends(f, t)
  <2>1. f \in [0 .. n -> Repairer] /\ f[0] = b
    BY <1>4 DEF Unfolds
  <2> HIDE DEF step
  <2> QED BY <1>5, <2>1 DEF Mends, more, b, n
<1> QED BY <1>9, <1>10 DEF n

\* Whether a quote looks like the end of its string.
LEMMA TerminatorIs ==
  ASSUME NEW t \in Seq(Chars), NEW x \in 1 .. Len(t)
  PROVE  /\ (\A y \in x + 1 .. Len(t) : t[y] = "blank") => Structured!LikelyTerminator(t, x)
         /\ \/ \A y \in x + 1 .. Len(t) : t[y] = "blank"
            \/ \E y \in x + 1 .. Len(t) :
                 /\ t[y] # "blank" /\ \A h \in x + 1 .. y - 1 : t[h] = "blank"
                 /\ Structured!LikelyTerminator(t, x) <=> t[y] \in Structured!Closers
<1> DEFINE S == {j \in x + 1 .. Len(t) : t[j] # "blank"}
           y == Structured!Min(S)
<1>1. Structured!LikelyTerminator(t, x) <=> S = {} \/ t[y] \in Structured!Closers
  BY DEF Structured!LikelyTerminator
<1>2. (\A h \in x + 1 .. Len(t) : t[h] = "blank") <=> S = {}
  OBVIOUS
<1>3. ASSUME S # {}
      PROVE  y \in x + 1 .. Len(t) /\ t[y] # "blank" /\ \A h \in x + 1 .. y - 1 : t[h] = "blank"
  <2>1. S \in SUBSET Nat
    OBVIOUS
  <2>2. y \in S /\ \A h \in S : y =< h
    <3> HIDE DEF S
    <3> QED BY <1>3, <2>1, FirstIs
  <2> HIDE DEF y
  <2>3. \A h \in x + 1 .. y - 1 : h \in x + 1 .. Len(t) /\ ~(y =< h)
    BY <2>2
  <2> QED BY <2>2, <2>3
<1> HIDE DEF S, y
<1> QED BY <1>1, <1>2, <1>3

\* What is written after a quote left as it is, and after a closing one.
LEMMA RawIsFollowed ==
  ASSUME MeantTyped, NEW left, ~Structured!Unclear(left),
         NEW t \in Seq(Chars), NEW R, Traces(R, left, t, Final),
         NEW x \in 1 .. Len(t), LeavesRaw(left, R[x - 1], t[x], R[x]),
         NEW y \in x + 1 .. Len(t), \A h \in x + 1 .. y - 1 : t[h] = "blank"
  PROVE  t[y] \notin Structured!Closers
<1> DEFINE m == y - 1 - x
           K == {j \in 0 .. m : Trailing(left, R[x + j])}
<1>1. m \in Nat /\ x + 0 = x /\ x + m = y - 1 /\ y \in 1 .. Len(t)
  OBVIOUS
<1>2. 0 \in K
  <2>1. R[x - 1] \in Where
    BY TraceIs
  <2> QED BY <1>1, <2>1, RawTrails
<1>3. ASSUME NEW j \in 1 .. m, j - 1 \in K PROVE j \in K
  <2> DEFINE w == x + j
  <2>1. w \in 1 .. Len(t) /\ w - 1 = x + (j - 1) /\ w \in x + 1 .. y - 1 /\ j \in 0 .. m
    OBVIOUS
  <2>2. /\ R[w - 1] \in Where /\ t[w] \in Chars /\ Writes(left, R[w - 1], t[w], R[w]) /\ t[w] = "blank"
        /\ Trailing(left, R[w - 1])
    <3> HIDE DEF w, m
    <3> QED BY <1>3, <2>1, TraceIs
  <2> HIDE DEF w
  <2>3. Trailing(left, R[w])
    BY <2>2, TrailingGoes
  <2> QED BY <2>1, <2>3 DEF w
<1>4. m \in K
  <2>1. \A j \in 0 .. m : j \in K
    <3> HIDE DEF K, m
    <3> QED BY <1>1, <1>2, <1>3, Induction
  <2>2. m \in 0 .. m
    BY <1>1
  <2> HIDE DEF K, m
  <2> QED BY <2>1, <2>2
<1>5. Trailing(left, R[y - 1])
  BY <1>1, <1>4
<1>6. R[y - 1] \in Where /\ t[y] \in Chars /\ Writes(left, R[y - 1], t[y], R[y])
  BY <1>1, TraceIs
<1> HIDE DEF K, m
<1> QED BY <1>5, <1>6, TrailingGoes

\* Behind the end of a string, the first that is not blank is a closer.
LEMMA CloseIsFollowed ==
  ASSUME NEW left, NEW t \in Seq(Chars), NEW R, Traces(R, left, t, Final),
         NEW x \in 1 .. Len(t), R[x].at = "shut",
         NEW y \in x + 1 .. Len(t), t[y] # "blank", \A h \in x + 1 .. y - 1 : t[h] = "blank"
  PROVE  t[y] \in Structured!Closers
<1> DEFINE m == y - 1 - x
           K == {j \in 0 .. m : R[x + j].at = "shut"}
<1>1. m \in Nat /\ x + 0 = x /\ x + m = y - 1 /\ y \in 1 .. Len(t)
  OBVIOUS
<1>2. 0 \in K
  BY <1>1
<1>3. ASSUME NEW s, NEW c, NEW z, Writes(left, s, c, z), s.at = "shut"
      PROVE  IF c = "blank" THEN z.at = "shut" ELSE c \in Structured!Closers
  <2>1. Pads(s, c, z) \/ Separates(s, c, z)
    BY <1>3 DEF Writes, Opens, Copies, LeavesRaw, Escapes, Follows, Closes
  <2> QED BY <1>3, <2>1 DEF Pads, Separates, Structured!Closers
<1>4. ASSUME NEW j \in 1 .. m, j - 1 \in K PROVE j \in K
  <2> DEFINE w == x + j
  <2>1. w \in 1 .. Len(t) /\ w - 1 = x + (j - 1) /\ w \in x + 1 .. y - 1 /\ j \in 0 .. m
    OBVIOUS
  <2>2. Writes(left, R[w - 1], t[w], R[w]) /\ t[w] = "blank" /\ R[w - 1].at = "shut"
    <3> HIDE DEF w, m
    <3> QED BY <1>4, <2>1, TraceIs
  <2> HIDE DEF w
  <2>3. R[w].at = "shut"
    BY <1>3, <2>2 DEF Mending
  <2> QED BY <2>1, <2>3 DEF w
<1>5. m \in K
  <2>1. \A j \in 0 .. m : j \in K
    <3> HIDE DEF K, m
    <3> QED BY <1>1, <1>2, <1>4, Induction
  <2>2. m \in 0 .. m
    BY <1>1
  <2> HIDE DEF K, m
  <2> QED BY <2>1, <2>2
<1>6. R[y - 1].at = "shut" /\ Writes(left, R[y - 1], t[y], R[y])
  BY <1>1, <1>5, TraceIs
<1> HIDE DEF K, m
<1> QED BY <1>3, <1>6

\* The repair follows the writer, or has taken a quote for the end of a string
\* because nothing but blanks is left.
Repairing(r, s) ==
  /\ Agrees(Structured!Parse(r.text), s)
  /\ s.at \in {"in", "half"} => r.inString
  /\ s.at \notin {"in", "half"} => ~r.inString
  /\ s.at = "half" => r.escaping
  /\ s.at # "half" => ~r.escaping
Stopped(r, s, x, u) ==
  /\ Structured!Parse(r.text) \in Parser /\ Structured!Parse(r.text).mode = "after"
  /\ ~r.inString /\ s.at = "in" /\ \A y \in x + 1 .. Len(u) : u[y] = "blank"

\* The repair follows the writer for one more character, or stops in a string
\* of which only blanks are left.
LEMMA RepairingGoes ==
  ASSUME MeantTyped, NEW left, ~Structured!Unclear(left),
         NEW t \in Seq(Chars), NEW R, Traces(R, left, t, Final),
         NEW u \in Seq(Chars), Len(u) =< Len(t), \A k \in 1 .. Len(u) : u[k] = t[k],
         NEW x \in 1 .. Len(u), NEW r \in Repairer, Repairing(r, R[x - 1])
  PROVE  LET q == Structured!Mended(r, u, x)
         IN  Repairing(q, R[x]) \/ Stopped(q, R[x], x, u)
<1> DEFINE q == Structured!Mended(r, u, x)
           s == R[x - 1]
           z == R[x]
           c == u[x]
           likely == Structured!LikelyTerminator(u, x)
           p == Structured!Parse(r.text)
<1>1. x \in 1 .. Len(t) /\ c = t[x] /\ Len(u) \in Nat /\ Len(t) \in Nat
  OBVIOUS
<1>2. s \in Where /\ z \in Where /\ c \in Chars /\ Writes(left, s, c, z)
  BY <1>1, TraceIs
<1>3. Mending(r, q, c, likely)
  BY MendedIs
<1>4. /\ r.text \in Seq(Chars) /\ p \in Parser
      /\ \A d \in Chars : Structured!Parse(Append(r.text, d)) = Structured!Moved(p, d)
  <2>1. r.text \in Seq(Chars)
    BY DEF Repairer
  <2> QED BY <2>1, ParseAppends, CharsAre
<1>5. /\ Agrees(p, s)
      /\ s.at \in {"in", "half"} => r.inString
      /\ s.at \notin {"in", "half"} => ~r.inString
      /\ s.at = "half" => r.escaping
      /\ s.at # "half" => ~r.escaping
  BY DEF Repairing
<1>6. ASSUME NEW y \in x + 1 .. Len(u) PROVE y \in x + 1 .. Len(t) /\ \A h \in x + 1 .. y - 1 : u[h] = t[h]
  BY <1>1
<1>7. ASSUME z.at = "shut" PROVE likely
  <2>1. CASE \A y \in x + 1 .. Len(u) : u[y] = "blank"
    BY <2>1, TerminatorIs
  <2>2. CASE \E y \in x + 1 .. Len(u) :
                 /\ u[y] # "blank" /\ \A h \in x + 1 .. y - 1 : u[h] = "blank"
                 /\ likely <=> u[y] \in Structured!Closers
    <3>1. PICK y \in x + 1 .. Len(u) :
                 /\ u[y] # "blank" /\ \A h \in x + 1 .. y - 1 : u[h] = "blank"
                 /\ likely <=> u[y] \in Structured!Closers
      BY <2>2
    <3>2. u[y] = t[y] /\ y \in x + 1 .. Len(t) /\ \A h \in x + 1 .. y - 1 : t[h] = "blank"
      BY <1>6, <3>1
    <3> HIDE DEF likely
    <3>3. t[y] \in Structured!Closers
      BY <1>1, <1>7, <3>1, <3>2, CloseIsFollowed
    <3> QED BY <3>1, <3>2, <3>3
  <2> QED BY <2>1, <2>2, TerminatorIs
<1>8. ASSUME LeavesRaw(left, s, c, z), likely PROVE \A y \in x + 1 .. Len(u) : u[y] = "blank"
  <2>1. CASE \E y \in x + 1 .. Len(u) :
                 /\ u[y] # "blank" /\ \A h \in x + 1 .. y - 1 : u[h] = "blank"
                 /\ likely <=> u[y] \in Structured!Closers
    <3>1. PICK y \in x + 1 .. Len(u) :
                 /\ u[y] # "blank" /\ \A h \in x + 1 .. y - 1 : u[h] = "blank"
                 /\ likely <=> u[y] \in Structured!Closers
      BY <2>1
    <3>2. u[y] = t[y] /\ y \in x + 1 .. Len(t) /\ \A h \in x + 1 .. y - 1 : t[h] = "blank"
      BY <1>6, <3>1
    <3> HIDE DEF likely
    <3>3. t[y] \notin Structured!Closers
      BY <1>1, <1>8, <3>2, RawIsFollowed
    <3> QED BY <1>8, <3>1, <3>2, <3>3
  <2> QED BY <2>1, TerminatorIs
<1> HIDE DEF q, s, z, c, likely, p
<1>9. ASSUME ~LeavesRaw(left, s, c, z) PROVE Agrees(Structured!Moved(p, c), z)
  BY <1>2, <1>5, <1>9, AgreesGoes
<1>10. ASSUME ~LeavesRaw(left, s, c, z), q.text = Append(r.text, c) PROVE Agrees(Structured!Parse(q.text), z)
  BY <1>2, <1>4, <1>9, <1>10
<1>11. CASE Opens(s, c, z)
  <2>1. s.at = "between" /\ c = "quote" /\ z.at = "in"
    BY <1>11 DEF Opens, Within
  <2>2. ~r.inString /\ ~r.escaping
    BY <1>5, <2>1
  <2>3. q.inString /\ ~q.escaping /\ q.text = Append(r.text, c)
    BY <1>3, <2>1, <2>2 DEF Mending
  <2>4. ~LeavesRaw(left, s, c, z)
    BY <2>1 DEF LeavesRaw
  <2> QED BY <1>10, <2>1, <2>3, <2>4 DEF Repairing, q, z
<1>12. CASE Copies(s, c, z)
  <2>1. s.at = "in" /\ c # "quote" /\ c # "backslash" /\ z.at = "in"
    BY <1>12 DEF Copies, Within
  <2>2. r.inString /\ ~r.escaping
    BY <1>5, <2>1
  <2>3. q.inString /\ ~q.escaping /\ q.text = Append(r.text, c)
    BY <1>3, <2>1, <2>2 DEF Mending
  <2>4. ~LeavesRaw(left, s, c, z)
    BY <2>1 DEF LeavesRaw
  <2> QED BY <1>10, <2>1, <2>3, <2>4 DEF Repairing, q, z
<1>13. CASE Escapes(s, c, z)
  <2>1. s.at = "in" /\ c = "backslash" /\ z.at = "half"
    BY <1>13 DEF Escapes, Half
  <2>2. r.inString /\ ~r.escaping
    BY <1>5, <2>1
  <2>3. q.inString /\ q.escaping /\ q.text = Append(r.text, c)
    BY <1>3, <2>1, <2>2 DEF Mending
  <2>4. ~LeavesRaw(left, s, c, z)
    BY <2>1 DEF LeavesRaw
  <2> QED BY <1>10, <2>1, <2>3, <2>4 DEF Repairing, q, z
<1>14. CASE Follows(s, c, z)
  <2>1. s.at = "half" /\ z.at = "in"
    BY <1>14 DEF Follows, Within
  <2>2. r.inString /\ r.escaping
    BY <1>5, <2>1
  <2>3. q.inString /\ ~q.escaping /\ q.text = Append(r.text, c)
    BY <1>3, <2>2 DEF Mending
  <2>4. ~LeavesRaw(left, s, c, z)
    BY <2>1 DEF LeavesRaw
  <2> QED BY <1>10, <2>1, <2>3, <2>4 DEF Repairing, q, z
<1>15. CASE Closes(s, c, z)
  <2>1. s.at = "in" /\ c = "quote" /\ z.at = "shut"
    BY <1>15 DEF Closes, Shut
  <2>2. r.inString /\ ~r.escaping /\ likely
    BY <1>5, <1>7, <2>1
  <2>3. ~q.inString /\ ~q.escaping /\ q.text = Append(r.text, c)
    BY <1>3, <2>1, <2>2 DEF Mending
  <2>4. ~LeavesRaw(left, s, c, z)
    BY <2>1 DEF LeavesRaw, Within
  <2> QED BY <1>10, <2>1, <2>3, <2>4 DEF Repairing, q, z
<1>16. CASE Pads(s, c, z) \/ Separates(s, c, z)
  <2>1. s.at = "shut" /\ c # "quote" /\ z.at \in {"shut", "between"}
    BY <1>16 DEF Pads, Separates, Between
  <2>2. ~r.inString /\ ~r.escaping
    BY <1>5, <2>1
  <2>3. ~q.inString /\ ~q.escaping /\ q.text = Append(r.text, c)
    BY <1>3, <2>1, <2>2 DEF Mending
  <2>4. ~LeavesRaw(left, s, c, z)
    BY <2>1 DEF LeavesRaw
  <2> QED BY <1>10, <2>1, <2>3, <2>4 DEF Repairing, q, z
<1>17. CASE LeavesRaw(left, s, c, z)
  <2>1. /\ s.at = "in" /\ s.k < Len(meant[s.i + 1]) /\ c = "quote" /\ meant[s.i + 1][s.k + 1] = "quote"
        /\ z = Within(s.i, s.k + 1) /\ z.at = "in"
    BY <1>17 DEF LeavesRaw, Within
  <2>2. r.inString /\ ~r.escaping
    BY <1>5, <2>1
  <2>3. CASE likely
    <3>1. ~q.inString /\ q.text = Append(r.text, c)
      BY <1>3, <2>1, <2>2, <2>3 DEF Mending
    <3>2. Structured!Parse(q.text) = Structured!Moved(p, c)
      BY <1>2, <1>4, <3>1
    <3>3. p.mode = "string"
      BY <1>5, <2>1 DEF Agrees, ModeAt
    <3>4. Structured!Parse(q.text) \in Parser /\ Structured!Parse(q.text).mode = "after"
      BY <1>2, <1>4, <2>1, <3>2, <3>3, MovedIs DEF Target
    <3>5. Stopped(q, z, x, u)
      BY <1>8, <1>17, <2>1, <2>3, <3>1, <3>4 DEF Stopped
    <3> QED BY <3>5 DEF q, z
  <2>4. CASE ~likely
    <3>1. q.inString /\ ~q.escaping /\ q.text = Append(Append(r.text, "backslash"), "quote")
      BY <1>3, <2>1, <2>2, <2>4 DEF Mending
    <3> DEFINE h == Half(s.i, s.k)
    <3>2. h \in Where /\ h.at = "half" /\ h.i = s.i /\ h.k = s.k
      BY <1>2, <2>1, ModeAtPlace DEF Half, Where
    <3> HIDE DEF h
    <3>3. Agrees(Structured!Moved(p, "backslash"), h)
      <4>1. Escapes(s, "backslash", h)
        BY <2>1 DEF Escapes, h
      <4>2. Writes(left, s, "backslash", h) /\ ~LeavesRaw(left, s, "backslash", h)
        BY <4>1 DEF Writes, LeavesRaw
      <4> QED BY <1>2, <1>5, <3>2, <4>2, AgreesGoes, CharsAre
    <3>4. Agrees(Structured!Moved(Structured!Moved(p, "backslash"), "quote"), z)
      <4>1. Follows(h, "quote", z)
        BY <2>1, <3>2 DEF Follows
      <4>2. Writes(left, h, "quote", z) /\ ~LeavesRaw(left, h, "quote", z)
        BY <3>2, <4>1 DEF Writes, LeavesRaw
      <4> QED BY <1>2, <3>2, <3>3, <4>2, AgreesGoes, CharsAre
    <3>5. Structured!Parse(q.text) = Structured!Moved(Structured!Moved(p, "backslash"), "quote")
      <4>1. Structured!Parse(Append(r.text, "backslash")) = Structured!Moved(p, "backslash")
            /\ Append(r.text, "backslash") \in Seq(Chars)
        BY <1>4, CharsAre
      <4> QED BY <3>1, <4>1, ParseAppends, CharsAre
    <3> QED BY <2>1, <3>1, <3>4, <3>5 DEF Repairing, q, z
  <2> QED BY <2>3, <2>4
<1>18. Repairing(q, z) \/ Stopped(q, z, x, u)
  BY <1>2, <1>11, <1>12, <1>13, <1>14, <1>15, <1>16, <1>17 DEF Writes, q, z
<1> QED BY <1>18 DEF q, z

\* Of a beginning of a clear answer, repaired, a reader agrees with the writer,
\* or stands behind a string that was not written to its end.
LEMMA RepairedReading ==
  ASSUME MeantTyped, NEW left, ~Structured!Unclear(left),
         NEW t \in Seq(Chars), NEW R, Traces(R, left, t, Final), NEW n \in 0 .. Len(t)
  PROVE  LET p == Structured!Parse(Structured!Repair(SubSeq(t, 1, n)))
         IN  Agrees(p, R[n]) \/ (p.mode = "after" /\ R[n].at = "in")
<1> DEFINE u == SubSeq(t, 1, n)
<1>1. u \in Seq(Chars) /\ Len(u) = n /\ Len(u) =< Len(t) /\ n \in Nat /\ \A k \in 1 .. Len(u) : u[k] = t[k]
  OBVIOUS
<1> HIDE DEF u
<1>2. PICK f : Mends(f, u) /\ Structured!Repair(u) = f[Len(u)].text
  BY <1>1, RepairGoes
<1>3. f \in [0 .. n -> Repairer] /\ f[0] = Unrepaired /\ \A k \in 1 .. n : f[k] = Structured!Mended(f[k - 1], u, k)
  BY <1>1, <1>2 DEF Mends
<1> DEFINE Fine(x) == Repairing(f[x], R[x]) \/ Stopped(f[x], R[x], x, u)
           K == {x \in 0 .. n : Fine(x)}
<1>4. 0 \in K
  <2>1. R[0] = First /\ f[0].text = <<>> /\ ~f[0].inString /\ ~f[0].escaping /\ First.at = "between"
    BY <1>3 DEF Traces, Unrepaired, First
  <2>2. Structured!Parse(<<>>) = Structured!Started
    <3>1. "quote" \in Chars
      BY CharsAre
    <3> QED BY <1>1, <3>1, ParseAppends
  <2>3. Agrees(Structured!Started, First)
    BY AgreesFirst
  <2>4. Repairing(f[0], R[0])
    BY <2>1, <2>2, <2>3 DEF Repairing
  <2> QED BY <1>1, <2>4
<1>5. ASSUME NEW x \in 1 .. n, x - 1 \in K PROVE x \in K
  <2>1. x \in 0 .. n /\ x - 1 \in 0 .. n /\ x \in 1 .. Len(u) /\ x \in 1 .. Len(t)
    BY <1>1
  <2>2. f[x] = Structured!Mended(f[x - 1], u, x) /\ f[x - 1] \in Repairer /\ Fine(x - 1)
    BY <1>3, <1>5, <2>1
  <2>3. CASE Repairing(f[x - 1], R[x - 1])
    <3>1. Repairing(f[x], R[x]) \/ Stopped(f[x], R[x], x, u)
      BY <1>1, <2>1, <2>2, <2>3, RepairingGoes
    <3> QED BY <2>1, <3>1
  <2>4. CASE Stopped(f[x - 1], R[x - 1], x - 1, u)
    <3> DEFINE r == f[x - 1]
               q == f[x]
               c == u[x]
               s == R[x - 1]
    <3>1. r \in Repairer /\ ~r.inString /\ s.at = "in" /\ Structured!Parse(r.text) \in Parser
          /\ Structured!Parse(r.text).mode = "after" /\ \A y \in x .. Len(u) : u[y] = "blank"
      <4>1. (x - 1) + 1 = x
        BY <2>1
      <4> HIDE DEF Fine, K
      <4> QED BY <2>2, <2>4, <4>1 DEF Stopped
    <3>2. c = "blank" /\ c = t[x] /\ c \in Chars
      <4>1. x \in x .. Len(u)
        BY <2>1
      <4> QED BY <1>1, <2>1, <3>1, <4>1, CharsAre
    <3>3. q.inString = FALSE /\ q.text = Append(r.text, c)
      <4>1. Mending(r, q, c, Structured!LikelyTerminator(u, x))
        BY <1>1, <2>1, <2>2, MendedIs
      <4> HIDE DEF q, r, c
      <4> QED BY <3>1, <3>2, <4>1 DEF Mending
    <3>4. Structured!Parse(q.text) = Structured!Moved(Structured!Parse(r.text), c)
      <4>1. r.text \in Seq(Chars)
        BY <3>1 DEF Repairer
      <4> HIDE DEF q, r, c
      <4> QED BY <3>2, <3>3, <4>1, ParseAppends
    <3>5. Structured!Parse(q.text) \in Parser /\ Structured!Parse(q.text).mode = "after"
      <4> HIDE DEF q, r, c
      <4> QED BY <3>1, <3>2, <3>4, MovedIs DEF Target
    <3>6. R[x].at = "in"
      <4>1. Writes(left, s, c, R[x]) /\ s.at = "in"
        BY <2>1, <3>1, <3>2, TraceIs
      <4>2. Copies(s, c, R[x])
        <5> HIDE DEF s, c
        <5> QED BY <3>2, <4>1 DEF Writes, Opens, LeavesRaw, Escapes, Follows, Closes, Pads, Separates
      <4> HIDE DEF s, c
      <4> QED BY <4>2 DEF Copies, Within
    <3>7. \A y \in x + 1 .. Len(u) : u[y] = "blank"
      <4>1. \A y \in x + 1 .. Len(u) : y \in x .. Len(u)
        BY <2>1
      <4> QED BY <3>1, <4>1
    <3>8. Stopped(q, R[x], x, u)
      <4> HIDE DEF q
      <4> QED BY <3>3, <3>5, <3>6, <3>7 DEF Stopped
    <3> QED BY <2>1, <3>8
  <2> QED BY <2>2, <2>3, <2>4
<1>6. Fine(n)
  <2>1. \A x \in 0 .. n : x \in K
    <3> HIDE DEF K
    <3> QED BY <1>1, <1>4, <1>5, Induction
  <2>2. n \in 0 .. n
    BY <1>1
  <2> QED BY <2>1, <2>2
<1>7. Structured!Repair(u) = f[n].text
  BY <1>1, <1>2
<1> QED BY <1>6, <1>7 DEF Repairing, Stopped, u

\* A beginning of a clear answer is read as what was meant, when it is all of
\* it, and not at all when it is not.
LEMMA ConvertedIsMeant ==
  ASSUME MeantTyped, NEW left, ~Structured!Unclear(left), NEW padding \in {<<>>, <<"blank">>},
         NEW n \in 0 .. Len(Structured!Written(meant, left, padding))
  PROVE  LET t == Structured!Written(meant, left, padding)
             v == Structured!Convert(SubSeq(t, 1, n))
         IN  /\ v # <<>> => v = meant /\ n = Len(t)
             /\ v = <<>> => n # Len(t)
<1> DEFINE t == Structured!Written(meant, left, padding)
           u == SubSeq(t, 1, n)
           p == Structured!Parse(u)
           q == Structured!Parse(Structured!Repair(u))
           v == Structured!Convert(u)
<1>1. t \in Seq(Chars) /\ \E R : Traces(R, left, t, Final)
  BY WrittenReached DEF Reaches
<1>2. PICK R : Traces(R, left, t, Final)
  BY <1>1
<1>3. p \in Parser /\ (Agrees(p, R[n]) \/ p.mode = "wrong" \/ p.mode = "after")
  <2>1. n \in 0 .. Len(t)
    OBVIOUS
  <2> HIDE DEF t
  <2> QED BY <1>1, <1>2, <2>1, PlainReading
<1>4. Agrees(q, R[n]) \/ (q.mode = "after" /\ R[n].at = "in")
  <2>1. n \in 0 .. Len(t)
    OBVIOUS
  <2> HIDE DEF t
  <2> QED BY <1>1, <1>2, <2>1, RepairedReading
<1>5. v = IF p.mode = "done" THEN p.all ELSE IF q.mode = "done" THEN q.all ELSE <<>>
  BY DEF Structured!Convert, Structured!Parses
<1>6. meant # <<>>
  <2>1. Len(<<>>) = 0 /\ Len(meant) > 0
    BY DEF MeantTyped
  <2> QED BY <2>1
<1> HIDE DEF p, q, v, u, t
<1>7. ASSUME NEW o, Agrees(o, R[n])
      PROVE  (o.mode = "done" => n = Len(t) /\ o.all = meant) /\ (n = Len(t) => o.mode = "done")
  <2>1. n \in 0 .. Len(t)
    BY DEF t
  <2> QED BY <1>1, <1>2, <1>7, <2>1, DoneIsWhole
<1>8. ASSUME n = Len(t) PROVE Agrees(q, R[n])
  <2>1. R[n].at = "between"
    BY <1>2, <1>8 DEF Traces, Final
  <2> QED BY <1>4, <2>1
<1>9. CASE p.mode = "done"
  <2>1. Agrees(p, R[n])
    BY <1>3, <1>9
  <2> QED BY <1>5, <1>6, <1>7, <1>9, <2>1 DEF v, u, t
<1>10. CASE p.mode # "done" /\ q.mode = "done"
  <2>1. Agrees(q, R[n])
    BY <1>4, <1>10
  <2> QED BY <1>5, <1>6, <1>7, <1>10, <2>1 DEF v, u, t
<1>11. CASE p.mode # "done" /\ q.mode # "done"
  <2>1. n # Len(t)
    BY <1>7, <1>8, <1>11
  <2>2. v = <<>>
    BY <1>5, <1>11
  <2> QED BY <2>1, <2>2 DEF v, u, t
<1> QED BY <1>9, <1>10, <1>11

-----------------------------------------------------------------------------
(* The calls                                                               *)

StructuredInv == MeantTyped /\ Structured!MeantIsRead

\* What may be meant is a text.
LEMMA StringsAre ==
  ASSUME NEW n \in Nat, NEW s \in Structured!Strings(n)
  PROVE  s \in Seq(Chars)
<1>1. PICK k \in 0 .. n : s \in [1 .. k -> Chars]
  BY DEF Structured!Strings, Chars
<1> QED BY <1>1

\* Some strings are meant, and no call has been made.
LEMMA StructuredBegins == ASSUME Structured!Init PROVE StructuredInv
<1>1. MeantTyped
  <2>1. CASE meant \in {<<s>> : s \in Structured!Strings(MaxText)}
    <3>1. PICK s \in Structured!Strings(MaxText) : meant = <<s>>
      BY <2>1
    <3>2. s \in Seq(Chars)
      BY StringsAre, ExchangesAssumption DEF Spoken!SpeechAssumption
    <3>3. <<s>> \in Seq(Seq(Chars)) /\ Len(<<s>>) = 1
      BY <3>2
    <3> QED BY <3>1, <3>3 DEF MeantTyped
  <2>2. CASE meant \in {<<s, t>> : s, t \in Structured!Strings(1)}
    <3>1. PICK s, z \in Structured!Strings(1) : meant = <<s, z>>
      BY <2>2
    <3>2. s \in Seq(Chars) /\ z \in Seq(Chars)
      BY StringsAre
    <3>3. <<s, z>> \in Seq(Seq(Chars)) /\ Len(<<s, z>>) = 2
      BY <3>2
    <3> QED BY <3>1, <3>3 DEF MeantTyped
  <2>3. meant \in {<<s>> : s \in Structured!Strings(MaxText)}
        \/ meant \in {<<s, t>> : s, t \in Structured!Strings(1)}
    <3> DEFINE P == {<<s>> : s \in Structured!Strings(MaxText)}
               Q == {<<s, t>> : s, t \in Structured!Strings(1)}
    <3>1. Structured!Meanings = P \cup Q
      BY DEF Structured!Meanings
    <3>2. meant \in Structured!Meanings
      BY Zenon DEF Structured!Init
    <3> HIDE DEF P, Q
    <3>3. meant \in P \/ meant \in Q
      BY <3>1, <3>2
    <3> QED BY <3>3 DEF P, Q
  <2> QED BY <2>1, <2>2, <2>3
<1>2. last.error = "" /\ outcome.kind = "pending"
  BY Zenon DEF Structured!Init
<1>3. "" # Structured!Invalid
  BY DEF Structured!Invalid
<1> QED BY <1>1, <1>2, <1>3, Zenon DEF StructuredInv, Structured!MeantIsRead

\* What a call that fails leaves.
LEMMA FailureIs ==
  ASSUME NEW error, NEW whole, NEW clear, Structured!Fails(error, whole, clear), Structured!Begins,
         error # "", clear /\ error = Structured!Invalid => ~whole
  PROVE  Structured!MeantIsRead'
<1>1. /\ last'.error = error /\ last'.whole = whole /\ last'.clear = clear
      /\ outcome' = IF tries + 1 = MaxAttempts THEN [kind |-> "raised", error |-> error] ELSE outcome
      /\ outcome.kind = "pending" /\ tries' = tries + 1
  BY Zenon DEF Structured!Fails, Structured!Begins
<1>2. CASE tries + 1 = MaxAttempts
  <2>1. outcome'.kind = "raised" /\ outcome'.error = error
    BY <1>1, <1>2, Zenon
  <2> QED BY <1>1, <1>2, <2>1, Zenon DEF Structured!MeantIsRead
<1>3. CASE tries + 1 # MaxAttempts
  <2>1. outcome'.kind = "pending"
    BY <1>1, <1>3, Zenon
  <2> QED BY <1>1, <2>1, Zenon DEF Structured!MeantIsRead
<1> QED BY <1>2, <1>3, Zenon

\* Each call, whether it fails or its answer is read, keeps the invariant.
LEMMA StructuredStep == ASSUME StructuredInv, [Structured!Next]_structuredVars PROVE StructuredInv'
<1>1. meant' = meant
  BY Zenon DEF Structured!Next, Structured!CallFails, Structured!ModelAnswers, Structured!Begins, structuredVars
<1>2. MeantTyped /\ MeantTyped'
  BY <1>1 DEF StructuredInv, MeantTyped
<1>3. CASE Structured!CallFails
  <2>1. PICK how \in DOMAIN Structured!ErrorOf : Structured!Fails(Structured!ErrorOf[how], FALSE, TRUE)
    BY <1>3 DEF Structured!CallFails
  <2>2. Structured!ErrorOf[how] # ""
    <3>1. how \in {"refused", "timeout", "unreachable", "unauthorized", "limited", "failed", "notJson", "noChoices"}
      BY DEF Structured!ErrorOf
    <3>2. /\ Structured!ErrorOf["refused"] = "UNSAFE_URL" /\ Structured!ErrorOf["timeout"] = "AI_SERVICE_TIMEOUT"
          /\ Structured!ErrorOf["unreachable"] = "AI_SERVICE_UNAVAILABLE"
          /\ Structured!ErrorOf["unauthorized"] = "AI_API_KEY_INVALID"
          /\ Structured!ErrorOf["limited"] = "AI_RATE_LIMIT_EXCEEDED"
          /\ Structured!ErrorOf["failed"] = "AI_SERVICE_ERROR" /\ Structured!ErrorOf["notJson"] = "AI_SERVICE_ERROR"
          /\ Structured!ErrorOf["noChoices"] = "AI_SERVICE_ERROR"
      BY DEF Structured!ErrorOf
    <3> QED BY <3>1, <3>2, Zenon
  <2> QED BY <1>2, <1>3, <2>1, <2>2, FailureIs, Zenon DEF Structured!CallFails, StructuredInv
<1>4. CASE Structured!ModelAnswers
  <2>1. PICK left \in [DOMAIN meant -> SUBSET (1 .. MaxText)], padding \in {<<>>, <<"blank">>} :
          LET t == Structured!Written(meant, left, padding)
          IN  \E n \in 0 .. Len(t) :
                LET value == Structured!Convert(SubSeq(t, 1, n))
                IN  IF value = <<>>
                    THEN Structured!Fails(Structured!Invalid, n = Len(t), ~Structured!Unclear(left))
                    ELSE /\ last' = [error |-> "", whole |-> n = Len(t), clear |-> ~Structured!Unclear(left)]
                         /\ outcome' = [kind |-> "value", value |-> value]
    BY <1>4, Zenon DEF Structured!ModelAnswers
  <2> DEFINE t == Structured!Written(meant, left, padding)
             whole(n) == n = Len(t)
             clear == ~Structured!Unclear(left)
             value(n) == Structured!Convert(SubSeq(t, 1, n))
  <2>2. PICK n \in 0 .. Len(t) :
           IF value(n) = <<>> THEN Structured!Fails(Structured!Invalid, whole(n), clear)
           ELSE /\ last' = [error |-> "", whole |-> whole(n), clear |-> clear]
                /\ outcome' = [kind |-> "value", value |-> value(n)]
    BY <2>1, Zenon
  <2>3. clear => (value(n) # <<>> => value(n) = meant /\ whole(n)) /\ (value(n) = <<>> => ~whole(n))
    BY <1>2, ConvertedIsMeant
  <2>4. Structured!Begins
    BY <1>4, Zenon DEF Structured!ModelAnswers
  <2> HIDE DEF clear, whole, value, t
  <2>5. CASE value(n) = <<>>
    <3>1. Structured!Fails(Structured!Invalid, whole(n), clear)
      BY <2>2, <2>5
    <3>2. Structured!Invalid # ""
      BY DEF Structured!Invalid
    <3>3. clear /\ Structured!Invalid = Structured!Invalid => ~whole(n)
      BY <2>3, <2>5
    <3>4. Structured!MeantIsRead'
      BY <2>4, <3>1, <3>2, <3>3, FailureIs, Zenon
    <3> QED BY <1>2, <3>4 DEF StructuredInv
  <2>6. CASE value(n) # <<>>
    <3>1. /\ last'.error = "" /\ last'.whole = whole(n) /\ last'.clear = clear
          /\ outcome'.kind = "value" /\ outcome'.value = value(n)
      <4>1. /\ last' = [error |-> "", whole |-> whole(n), clear |-> clear]
            /\ outcome' = [kind |-> "value", value |-> value(n)]
        BY <2>2, <2>6, Zenon
      <4> DEFINE v == value(n)
                 w == whole(n)
      <4> HIDE DEF v, w
      <4>2. last' = [error |-> "", whole |-> w, clear |-> clear] /\ outcome' = [kind |-> "value", value |-> v]
        BY <4>1, Zenon DEF v, w
      <4>3. /\ last'.error = "" /\ last'.whole = w /\ last'.clear = clear
            /\ outcome'.kind = "value" /\ outcome'.value = v
        BY <4>2, Zenon
      <4> QED BY <4>3, Zenon DEF v, w
    <3>2. Structured!Invalid # ""
      BY DEF Structured!Invalid
    <3>3. Structured!MeantIsRead'
      BY <1>1, <2>3, <2>6, <3>1, <3>2, Zenon DEF Structured!MeantIsRead
    <3> QED BY <1>2, <3>3 DEF StructuredInv
  <2> QED BY <2>5, <2>6
<1>5. CASE UNCHANGED structuredVars
  <2>1. last' = last /\ outcome' = outcome /\ tries' = tries /\ meant' = meant
    BY <1>5 DEF structuredVars
  <2> QED BY <1>2, <2>1, Zenon DEF StructuredInv, Structured!MeantIsRead
<1> QED BY <1>3, <1>4, <1>5 DEF Structured!Next

-----------------------------------------------------------------------------
(* The parts of a text                                                     *)

ContentTyped == content \in Seq(Split!Kinds)

Spots  == (1 .. Len(content)) \X {0, 1, 2}
TokenLists == Seq(Seq(Spots))

\* One more list adds its members.
LEMMA FlatAppends ==
  ASSUME NEW S, NEW s \in Seq(Seq(S)), NEW x \in Seq(S)
  PROVE  /\ Split!FlattenSeq(<<>>) = <<>> /\ Split!FlattenSeq(s) \in Seq(S)
         /\ Split!FlattenSeq(Append(s, x)) = Split!FlattenSeq(s) \o x
<1> DEFINE n == Len(s)
           u == Append(s, x)
<1>1. /\ n \in Nat /\ u \in Seq(Seq(S)) /\ Len(u) = n + 1 /\ u[n + 1] = x /\ \A k \in 1 .. n : u[k] = s[k]
  OBVIOUS
<1>2. \A t : Split!FlattenSeq(t) = Structured!FlattenSeq(t)
  BY DEF Split!FlattenSeq, Structured!FlattenSeq
<1>3. PICK f : Joins(f, n, S, s) /\ Split!FlattenSeq(s) = f[n]
  BY <1>2, FlatGoes
<1> HIDE DEF u, n
<1>4. PICK g : Joins(g, n + 1, S, u) /\ Split!FlattenSeq(u) = g[n + 1]
  BY <1>1, <1>2, FlatGoes
<1>5. Split!FlattenSeq(<<>>) = <<>>
  <2>1. PICK e : Joins(e, Len(<<>>), S, <<>>) /\ Structured!FlattenSeq(<<>>) = e[Len(<<>>)]
    <3>1. <<>> \in Seq(Seq(S))
      OBVIOUS
    <3> QED BY <3>1, FlatGoes
  <2>2. Len(<<>>) = 0
    OBVIOUS
  <2> QED BY <1>2, <2>1, <2>2 DEF Joins
<1> DEFINE h == [k \in 0 .. n |-> g[k]]
<1>6. Alike(f, h, n)
  <2>1. f = [k \in 0 .. n |-> f[k]] /\ f[0] = <<>> /\ \A k \in 1 .. n : f[k] = f[k - 1] \o s[k]
    BY <1>3 DEF Joins
  <2>2. \A k \in 1 .. n : k \in 1 .. n + 1 /\ k \in 0 .. n /\ k - 1 \in 0 .. n
    BY <1>1
  <2>3. h[0] = <<>> /\ \A k \in 1 .. n : h[k] = h[k - 1] \o s[k]
    <3>1. g[0] = <<>> /\ \A k \in 1 .. n + 1 : g[k] = g[k - 1] \o u[k]
      BY <1>4 DEF Joins
    <3>2. 0 \in 0 .. n
      BY <1>1
    <3>3. \A k \in 1 .. n : h[k] = g[k] /\ h[k - 1] = g[k - 1]
      BY <2>2
    <3>4. h[0] = g[0]
      BY <3>2
    <3> HIDE DEF h
    <3> QED BY <1>1, <2>2, <3>1, <3>3, <3>4
  <2>4. h = [k \in 0 .. n |-> h[k]]
    OBVIOUS
  <2> HIDE DEF h
  <2> QED BY <2>1, <2>3, <2>4 DEF Alike
<1>7. f[n] = g[n]
  <2>1. f = h
    <3> HIDE DEF h
    <3> QED BY <1>1, <1>6, SameRecursion
  <2>2. n \in 0 .. n
    BY <1>1
  <2>3. h[n] = g[n]
    BY <2>2
  <2> HIDE DEF h
  <2> QED BY <2>1, <2>3
<1>8. g[n + 1] = g[n] \o x
  <2>1. n + 1 \in 1 .. n + 1 /\ (n + 1) - 1 = n
    BY <1>1
  <2> QED BY <1>1, <1>4, <2>1 DEF Joins
<1>9. f[n] \in Seq(S)
  <2>1. n \in 0 .. n
    BY <1>1
  <2> QED BY <1>3, <2>1 DEF Joins
<1> QED BY <1>3, <1>4, <1>5, <1>7, <1>8, <1>9 DEF u

-----------------------------------------------------------------------------
(* Encoding                                                                *)

\* The kind of a part is that of its character, or it is half of one.
LEMMA KindIs ==
  ASSUME ContentTyped, NEW p \in Spots
  PROVE  /\ p = <<p[1], p[2]>> /\ p[1] \in 1 .. Len(content) /\ p[2] \in {0, 1, 2} /\ p[1] \in Nat
         /\ Split!Kind(p) = (IF p[2] = 0 THEN content[p[1]] ELSE "half")
         /\ content[p[1]] \in Split!Kinds /\ Len(content) \in Nat
BY DEF ContentTyped, Spots, Split!Kind

\* Part p is in no other's token.
Alone(done, p) ==
  Split!Kind(p) # "wide"
  /\ ~(Split!Kind(p) = "tail" /\ done # <<>> /\ Split!Kind(Split!Last(Split!Last(done))) = "mark")

\* What one more part makes of the tokens.
LEMMA TokenizedIs ==
  ASSUME ContentTyped, NEW done \in TokenLists, NEW p \in Spots
  PROVE  /\ Split!Tokenized(done, p) \in TokenLists
         /\ Split!Kind(p) = "wide" =>
              Split!Tokenized(done, p) = done \o << <<<<p[1], 1>>>>, <<<<p[1], 2>>>> >>
         /\ Split!Kind(p) = "tail" /\ done # <<>> /\ Split!Kind(Split!Last(Split!Last(done))) = "mark" =>
              Split!Tokenized(done, p) = Append(Split!Front(done), Append(Split!Last(done), p))
         /\ Alone(done, p) => Split!Tokenized(done, p) = Append(done, <<p>>)
<1> DEFINE k == Split!Kind(p)
           m == Split!Kind(Split!Last(Split!Last(done)))
           q == Split!Tokenized(done, p)
           h == <<p[1], 1>>
           i == <<p[1], 2>>
<1>1. p[1] \in 1 .. Len(content) /\ h \in Spots /\ i \in Spots
  BY KindIs DEF Spots
<1>2. /\ k = "wide" => q = done \o << <<h>>, <<i>> >>
      /\ k = "tail" /\ done # <<>> /\ m = "mark" => q = Append(Split!Front(done), Append(Split!Last(done), p))
      /\ Alone(done, p) => q = Append(done, <<p>>)
  BY DEF Split!Tokenized, Alone
<1>3. k = "wide" \/ (k = "tail" /\ done # <<>> /\ m = "mark") \/ Alone(done, p)
  BY DEF Alone
<1>4. done \o << <<h>>, <<i>> >> \in TokenLists
  <2> HIDE DEF h, i
  <2>1. << <<h>>, <<i>> >> \in Seq(Seq(Spots))
    BY <1>1
  <2> QED BY <2>1, ConcatProperties DEF TokenLists
<1>5. ASSUME done # <<>> PROVE Append(Split!Front(done), Append(Split!Last(done), p)) \in TokenLists
  <2>1. done \in Seq(Seq(Spots)) /\ Len(done) \in Nat /\ Len(done) # 0
    BY <1>5 DEF TokenLists
  <2>2. Split!Last(done) \in Seq(Spots)
    BY <2>1 DEF Split!Last
  <2>3. Split!Front(done) \in Seq(Seq(Spots))
    BY <2>1 DEF Split!Front
  <2>4. Append(Split!Last(done), p) \in Seq(Spots)
    BY <2>2
  <2> QED BY <2>3, <2>4 DEF TokenLists
<1>6. Append(done, <<p>>) \in TokenLists
  BY DEF TokenLists
<1> HIDE DEF k, m, q, h, i
<1>7. q \in TokenLists
  BY <1>2, <1>3, <1>4, <1>5, <1>6
<1> QED BY <1>2, <1>7 DEF k, m, q, h, i

Encodes(f, t) ==
  /\ f \in [0 .. Len(t) -> TokenLists] /\ f[0] = <<>>
  /\ \A k \in 1 .. Len(t) : f[k] = Split!Tokenized(f[k - 1], t[k])

\* Encoding a text is going through it, one part after the other.
LEMMA EncodeGoes ==
  ASSUME ContentTyped, NEW t \in Seq(Spots)
  PROVE  \E f : Encodes(f, t) /\ Split!Encode(t) = f[Len(t)]
<1> DEFINE n == Len(t)
           b == <<>>
           more(k, p) == Split!Tokenized(p, t[k])
           step == [p \in (1 .. n) \X TokenLists |-> more(p[1], p[2])]
<1>0. n \in Nat /\ \A k \in 1 .. n : t[k] \in Spots
  OBVIOUS
<1>1. b \in TokenLists
  BY DEF TokenLists
<1>2. \A k \in 1 .. n, p \in TokenLists : more(k, p) \in TokenLists
  BY <1>0, TokenizedIs
<1>3. step \in [(1 .. n) \X TokenLists -> TokenLists]
  <2> HIDE DEF more, n
  <2> QED BY <1>2
<1>4. PICK f : Unfolds(f, n, TokenLists, b, step)
  <2> HIDE DEF step, n, b
  <2> QED BY <1>0, <1>1, <1>3, Recursion, Zenon
<1>5. \A k \in 1 .. n : k - 1 \in 0 .. n /\ f[k - 1] \in TokenLists /\ f[k] = more(k, f[k - 1])
  <2> TAKE k \in 1 .. n
  <2>1. k - 1 \in 0 .. n
    BY <1>0
  <2> HIDE DEF more, n, b
  <2>2. f[k - 1] \in TokenLists
    BY <1>4, <2>1 DEF Unfolds
  <2>3. <<k, f[k - 1]>> \in (1 .. n) \X TokenLists
    BY <2>2
  <2>4. f[k] = step[<<k, f[k - 1]>>]
    <3> HIDE DEF step
    <3> QED BY <1>4 DEF Unfolds
  <2> QED BY <2>1, <2>2, <2>3, <2>4
<1> DEFINE rec(g) == [k \in 0 .. n |-> IF k = 0 THEN b ELSE more(k, g[k - 1])]
           after == CHOOSE g : g = rec(g)
<1> HIDE DEF more, b, n
<1>6. f = rec(f)
  <2> HIDE DEF step
  <2>1. \A k \in 0 .. n : f[k] = IF k = 0 THEN b ELSE more(k, f[k - 1])
    BY <1>0, <1>4, <1>5 DEF Unfolds
  <2> QED BY <1>4, <2>1 DEF Unfolds
<1>7. after = rec(after)
  <2> HIDE DEF rec
  <2> QED BY <1>6
<1>8. after = f
  <2>1. f[0] = after[0] /\ \A k \in 1 .. n : f[k - 1] = after[k - 1] => f[k] = after[k]
    <3>1. 0 \in 0 .. n /\ \A k \in 1 .. n : k \in 0 .. n /\ k # 0
      BY <1>0
    <3>2. \A g : g = rec(g) => g[0] = b /\ \A k \in 1 .. n : g[k] = more(k, g[k - 1])
      BY <3>1
    <3> HIDE DEF rec, after
    <3> QED BY <1>6, <1>7, <3>2
  <2>2. f = [k \in 0 .. n |-> f[k]] /\ after = [k \in 0 .. n |-> after[k]]
    <3>1. after = [k \in 0 .. n |-> after[k]]
      <4> HIDE DEF after
      <4>1. DOMAIN rec(after) = 0 .. n /\ rec(after) = [k \in 0 .. n |-> rec(after)[k]]
        OBVIOUS
      <4> HIDE DEF rec
      <4> QED BY <1>7, <4>1
    <3>2. f = [k \in 0 .. n |-> f[k]]
      BY <1>4 DEF Unfolds
    <3> QED BY <3>1, <3>2
  <2>3. Alike(f, after, n)
    <3> HIDE DEF after
    <3> QED BY <2>1, <2>2 DEF Alike
  <2> HIDE DEF after
  <2> QED BY <1>0, <2>3, SameRecursion
<1>9. Split!Encode(t) = f[n]
  <2>1. Split!Encode(t) = after[n]
    BY DEF Split!Encode, n, rec, more, b
  <2> HIDE DEF after
  <2> QED BY <1>8, <2>1
<1>10. Encodes(f, t)
  <2>1. f \in [0 .. n -> TokenLists] /\ f[0] = b
    BY <1>4 DEF Unfolds
  <2> HIDE DEF step
  <2> QED BY <1>5, <2>1 DEF Encodes, more, b, n
<1> QED BY <1>9, <1>10 DEF n

\* One more part.
LEMMA EncodeAppends ==
  ASSUME ContentTyped, NEW t \in Seq(Spots), NEW c \in Spots
  PROVE  /\ Split!Encode(<<>>) = <<>>
         /\ Split!Encode(t) \in TokenLists
         /\ Split!Encode(Append(t, c)) = Split!Tokenized(Split!Encode(t), c)
<1> DEFINE n == Len(t)
           u == Append(t, c)
<1>1. /\ n \in Nat /\ u \in Seq(Spots) /\ Len(u) = n + 1 /\ u[n + 1] = c /\ \A k \in 1 .. n : u[k] = t[k]
  OBVIOUS
<1>2. PICK f : Encodes(f, t) /\ Split!Encode(t) = f[n]
  BY EncodeGoes
<1> HIDE DEF u, n
<1>3. PICK g : Encodes(g, u) /\ Split!Encode(u) = g[n + 1]
  BY <1>1, EncodeGoes
<1>4. PICK e : Encodes(e, <<>>) /\ Split!Encode(<<>>) = e[Len(<<>>)]
  <2>1. <<>> \in Seq(Spots)
    OBVIOUS
  <2> QED BY <2>1, EncodeGoes
<1>5. Split!Encode(<<>>) = <<>>
  <2>1. Len(<<>>) = 0
    OBVIOUS
  <2> QED BY <1>4, <2>1 DEF Encodes
<1> DEFINE h == [k \in 0 .. n |-> g[k]]
<1>6. Alike(f, h, n)
  <2>1. f = [k \in 0 .. n |-> f[k]] /\ f[0] = <<>>
        /\ \A k \in 1 .. n : f[k] = Split!Tokenized(f[k - 1], t[k])
    BY <1>2 DEF Encodes, n
  <2>2. \A k \in 1 .. n : k \in 1 .. n + 1 /\ k \in 0 .. n /\ k - 1 \in 0 .. n
    BY <1>1
  <2>3. h[0] = <<>> /\ \A k \in 1 .. n : h[k] = Split!Tokenized(h[k - 1], t[k])
    <3>1. g[0] = <<>> /\ \A k \in 1 .. n + 1 : g[k] = Split!Tokenized(g[k - 1], u[k])
      BY <1>1, <1>3 DEF Encodes
    <3>2. 0 \in 0 .. n
      BY <1>1
    <3>3. \A k \in 1 .. n : h[k] = g[k] /\ h[k - 1] = g[k - 1]
      BY <2>2
    <3>4. h[0] = g[0]
      BY <3>2
    <3> HIDE DEF h
    <3> QED BY <1>1, <2>2, <3>1, <3>3, <3>4
  <2>4. h = [k \in 0 .. n |-> h[k]]
    OBVIOUS
  <2> HIDE DEF h
  <2> QED BY <2>1, <2>3, <2>4 DEF Alike
<1>7. f[n] = g[n]
  <2>1. f = h
    <3> HIDE DEF h
    <3> QED BY <1>1, <1>6, SameRecursion
  <2>2. n \in 0 .. n
    BY <1>1
  <2>3. h[n] = g[n]
    BY <2>2
  <2> HIDE DEF h
  <2> QED BY <2>1, <2>3
<1>8. g[n + 1] = Split!Tokenized(g[n], c)
  <2>1. n + 1 \in 1 .. n + 1 /\ (n + 1) - 1 = n
    BY <1>1
  <2> QED BY <1>1, <1>3, <2>1 DEF Encodes
<1>9. f[n] \in TokenLists
  <2>1. n \in 0 .. n
    BY <1>1
  <2> QED BY <1>2, <2>1 DEF Encodes, n
<1> QED BY <1>2, <1>3, <1>5, <1>7, <1>8, <1>9 DEF u

-----------------------------------------------------------------------------
(* Decoding                                                                *)

\* What one more part makes of a decoded text.
LEMMA JoinedIs ==
  ASSUME NEW t \in Seq(Spots), NEW q \in Spots
  PROVE  /\ Split!Joined(t, q) \in Seq(Spots)
         /\ q[2] = 2 /\ t # <<>> /\ Split!Last(t) = <<q[1], 1>> =>
              Split!Joined(t, q) = Append(Split!Front(t), <<q[1], 0>>)
         /\ q[2] # 2 => Split!Joined(t, q) = Append(t, q)
         /\ t = <<>> => Split!Joined(t, q) = Append(t, q)
<1>1. <<q[1], 0>> \in Spots
  BY DEF Spots
<1>2. t # <<>> => Split!Front(t) \in Seq(Spots)
  BY DEF Split!Front
<1> DEFINE z == <<q[1], 0>>
           y == <<q[1], 1>>
<1>3. Split!Joined(t, q) = IF q[2] = 2 /\ t # <<>> /\ Split!Last(t) = y THEN Append(Split!Front(t), z) ELSE Append(t, q)
  BY DEF Split!Joined
<1> HIDE DEF z, y
<1>4. Split!Joined(t, q) \in Seq(Spots)
  <2>1. z \in Spots
    BY <1>1 DEF z
  <2>2. Append(t, q) \in Seq(Spots)
    OBVIOUS
  <2>3. t # <<>> => Append(Split!Front(t), z) \in Seq(Spots)
    BY <1>2, <2>1
  <2> QED BY <1>3, <2>2, <2>3
<1> QED BY <1>3, <1>4 DEF z, y

Texts(f, t) ==
  /\ f \in [0 .. Len(t) -> Seq(Spots)] /\ f[0] = <<>>
  /\ \A k \in 1 .. Len(t) : f[k] = Split!Joined(f[k - 1], t[k])

\* Decoding is going through the parts, one after the other.
LEMMA TextGoes ==
  ASSUME NEW t \in Seq(Spots)
  PROVE  \E f : Texts(f, t) /\ Split!TextOf(t) = f[Len(t)]
<1> DEFINE n == Len(t)
           b == <<>>
           more(k, p) == Split!Joined(p, t[k])
           step == [p \in (1 .. n) \X Seq(Spots) |-> more(p[1], p[2])]
<1>0. n \in Nat /\ \A k \in 1 .. n : t[k] \in Spots
  OBVIOUS
<1>1. b \in Seq(Spots)
  OBVIOUS
<1>2. \A k \in 1 .. n, p \in Seq(Spots) : more(k, p) \in Seq(Spots)
  BY <1>0, JoinedIs
<1>3. step \in [(1 .. n) \X Seq(Spots) -> Seq(Spots)]
  <2> HIDE DEF more, n
  <2> QED BY <1>2
<1>4. PICK f : Unfolds(f, n, Seq(Spots), b, step)
  <2> HIDE DEF step, n, b
  <2> QED BY <1>0, <1>1, <1>3, Recursion, Zenon
<1>5. \A k \in 1 .. n : k - 1 \in 0 .. n /\ f[k - 1] \in Seq(Spots) /\ f[k] = more(k, f[k - 1])
  <2> TAKE k \in 1 .. n
  <2>1. k - 1 \in 0 .. n
    BY <1>0
  <2> HIDE DEF more, n, b
  <2>2. f[k - 1] \in Seq(Spots)
    BY <1>4, <2>1 DEF Unfolds
  <2>3. <<k, f[k - 1]>> \in (1 .. n) \X Seq(Spots)
    BY <2>2
  <2>4. f[k] = step[<<k, f[k - 1]>>]
    <3> HIDE DEF step
    <3> QED BY <1>4 DEF Unfolds
  <2> QED BY <2>1, <2>2, <2>3, <2>4
<1> DEFINE rec(g) == [k \in 0 .. n |-> IF k = 0 THEN b ELSE more(k, g[k - 1])]
           after == CHOOSE g : g = rec(g)
<1> HIDE DEF more, b, n
<1>6. f = rec(f)
  <2> HIDE DEF step
  <2>1. \A k \in 0 .. n : f[k] = IF k = 0 THEN b ELSE more(k, f[k - 1])
    BY <1>0, <1>4, <1>5 DEF Unfolds
  <2> QED BY <1>4, <2>1 DEF Unfolds
<1>7. after = rec(after)
  <2> HIDE DEF rec
  <2> QED BY <1>6
<1>8. after = f
  <2>1. f[0] = after[0] /\ \A k \in 1 .. n : f[k - 1] = after[k - 1] => f[k] = after[k]
    <3>1. 0 \in 0 .. n /\ \A k \in 1 .. n : k \in 0 .. n /\ k # 0
      BY <1>0
    <3>2. \A g : g = rec(g) => g[0] = b /\ \A k \in 1 .. n : g[k] = more(k, g[k - 1])
      BY <3>1
    <3> HIDE DEF rec, after
    <3> QED BY <1>6, <1>7, <3>2
  <2>2. f = [k \in 0 .. n |-> f[k]] /\ after = [k \in 0 .. n |-> after[k]]
    <3>1. after = [k \in 0 .. n |-> after[k]]
      <4> HIDE DEF after
      <4>1. DOMAIN rec(after) = 0 .. n /\ rec(after) = [k \in 0 .. n |-> rec(after)[k]]
        OBVIOUS
      <4> HIDE DEF rec
      <4> QED BY <1>7, <4>1
    <3>2. f = [k \in 0 .. n |-> f[k]]
      BY <1>4 DEF Unfolds
    <3> QED BY <3>1, <3>2
  <2>3. Alike(f, after, n)
    <3> HIDE DEF after
    <3> QED BY <2>1, <2>2 DEF Alike
  <2> HIDE DEF after
  <2> QED BY <1>0, <2>3, SameRecursion
<1>9. Split!TextOf(t) = f[n]
  <2>1. Split!TextOf(t) = after[n]
    BY DEF Split!TextOf, n, rec, more, b
  <2> HIDE DEF after
  <2> QED BY <1>8, <2>1
<1>10. Texts(f, t)
  <2>1. f \in [0 .. n -> Seq(Spots)] /\ f[0] = b
    BY <1>4 DEF Unfolds
  <2> HIDE DEF step
  <2> QED BY <1>5, <2>1 DEF Texts, more, b, n
<1> QED BY <1>9, <1>10 DEF n

\* One more part.
LEMMA TextAppends ==
  ASSUME NEW t \in Seq(Spots), NEW c \in Spots
  PROVE  /\ Split!TextOf(<<>>) = <<>>
         /\ Split!TextOf(t) \in Seq(Spots)
         /\ Split!TextOf(Append(t, c)) = Split!Joined(Split!TextOf(t), c)
<1> DEFINE n == Len(t)
           u == Append(t, c)
<1>1. /\ n \in Nat /\ u \in Seq(Spots) /\ Len(u) = n + 1 /\ u[n + 1] = c /\ \A k \in 1 .. n : u[k] = t[k]
  OBVIOUS
<1>2. PICK f : Texts(f, t) /\ Split!TextOf(t) = f[n]
  BY TextGoes
<1> HIDE DEF u, n
<1>3. PICK g : Texts(g, u) /\ Split!TextOf(u) = g[n + 1]
  BY <1>1, TextGoes
<1>4. PICK e : Texts(e, <<>>) /\ Split!TextOf(<<>>) = e[Len(<<>>)]
  <2>1. <<>> \in Seq(Spots)
    OBVIOUS
  <2> QED BY <2>1, TextGoes
<1>5. Split!TextOf(<<>>) = <<>>
  <2>1. Len(<<>>) = 0
    OBVIOUS
  <2> QED BY <1>4, <2>1 DEF Texts
<1> DEFINE h == [k \in 0 .. n |-> g[k]]
<1>6. Alike(f, h, n)
  <2>1. f = [k \in 0 .. n |-> f[k]] /\ f[0] = <<>>
        /\ \A k \in 1 .. n : f[k] = Split!Joined(f[k - 1], t[k])
    BY <1>2 DEF Texts, n
  <2>2. \A k \in 1 .. n : k \in 1 .. n + 1 /\ k \in 0 .. n /\ k - 1 \in 0 .. n
    BY <1>1
  <2>3. h[0] = <<>> /\ \A k \in 1 .. n : h[k] = Split!Joined(h[k - 1], t[k])
    <3>1. g[0] = <<>> /\ \A k \in 1 .. n + 1 : g[k] = Split!Joined(g[k - 1], u[k])
      BY <1>1, <1>3 DEF Texts
    <3>2. 0 \in 0 .. n
      BY <1>1
    <3>3. \A k \in 1 .. n : h[k] = g[k] /\ h[k - 1] = g[k - 1]
      BY <2>2
    <3>4. h[0] = g[0]
      BY <3>2
    <3> HIDE DEF h
    <3> QED BY <1>1, <2>2, <3>1, <3>3, <3>4
  <2>4. h = [k \in 0 .. n |-> h[k]]
    OBVIOUS
  <2> HIDE DEF h
  <2> QED BY <2>1, <2>3, <2>4 DEF Alike
<1>7. f[n] = g[n]
  <2>1. f = h
    <3> HIDE DEF h
    <3> QED BY <1>1, <1>6, SameRecursion
  <2>2. n \in 0 .. n
    BY <1>1
  <2>3. h[n] = g[n]
    BY <2>2
  <2> HIDE DEF h
  <2> QED BY <2>1, <2>3
<1>8. g[n + 1] = Split!Joined(g[n], c)
  <2>1. n + 1 \in 1 .. n + 1 /\ (n + 1) - 1 = n
    BY <1>1
  <2> QED BY <1>1, <1>3, <2>1 DEF Texts
<1>9. f[n] \in Seq(Spots)
  <2>1. n \in 0 .. n
    BY <1>1
  <2> QED BY <1>2, <2>1 DEF Texts, n
<1> QED BY <1>2, <1>3, <1>5, <1>7, <1>8, <1>9 DEF u

-----------------------------------------------------------------------------
(* Tokens in line                                                          *)

\* Those of a content w, so that what is said of them is of no state.
SpotsOf(w)   == (1 .. Len(w)) \X {0, 1, 2}
KindOf(w, p) == IF p[2] = 0 THEN w[p[1]] ELSE "half"
Start(token) == token[1]
End(token)   == token[Len(token)]

\* A character that is not wide, or half of one that is.
IsPart(w, p) == p \in SpotsOf(w) /\ (p[2] = 0 <=> w[p[1]] # "wide")
IsTailed(w, token) ==
  \E p, q \in SpotsOf(w) :
    token = <<p, q>> /\ p[2] = 0 /\ q[2] = 0 /\ q[1] = p[1] + 1 /\ w[p[1]] = "mark" /\ w[q[1]] = "tail"
IsToken(w, token) == (\E p \in SpotsOf(w) : token = <<p>> /\ IsPart(w, p)) \/ IsTailed(w, token)

ComesAfter(p, q) ==
  \/ p[2] # 1 /\ q[2] # 2 /\ q[1] = p[1] + 1
  \/ p[2] = 1 /\ q = <<p[1], 2>>

Lined(w, ts) ==
  /\ ts \in Seq(Seq(SpotsOf(w)))
  /\ \A k \in 1 .. Len(ts) : IsToken(w, ts[k])
  /\ \A k \in 1 .. Len(ts) - 1 :
       /\ ComesAfter(End(ts[k]), Start(ts[k + 1]))
       /\ ~(KindOf(w, End(ts[k])) = "mark" /\ KindOf(w, Start(ts[k + 1])) = "tail")

\* A token is one part, or a mark and what closes it.
LEMMA TokenIs ==
  ASSUME NEW w, NEW token, IsToken(w, token)
  PROVE  /\ Start(token) \in SpotsOf(w) /\ End(token) \in SpotsOf(w)
         /\ Start(token)[2] = 0 <=> w[Start(token)[1]] # "wide"
         /\ End(token)[2] = 0 <=> w[End(token)[1]] # "wide"
         /\ \/ token = <<Start(token)>> /\ End(token) = Start(token)
            \/ /\ token = <<Start(token), End(token)>> /\ Start(token)[2] = 0 /\ End(token)[2] = 0
               /\ End(token)[1] = Start(token)[1] + 1
               /\ w[Start(token)[1]] = "mark" /\ w[End(token)[1]] = "tail"
<1>1. CASE \E p \in SpotsOf(w) : token = <<p>> /\ IsPart(w, p)
  <2>1. PICK p \in SpotsOf(w) : token = <<p>> /\ IsPart(w, p)
    BY <1>1
  <2>2. Len(token) = 1 /\ token[1] = p
    BY <2>1
  <2> QED BY <2>1, <2>2 DEF IsPart, Start, End
<1>2. CASE IsTailed(w, token)
  <2>1. PICK p, q \in SpotsOf(w) :
          token = <<p, q>> /\ p[2] = 0 /\ q[2] = 0 /\ q[1] = p[1] + 1 /\ w[p[1]] = "mark" /\ w[q[1]] = "tail"
    BY <1>2 DEF IsTailed
  <2>2. Len(token) = 2 /\ token[1] = p /\ token[2] = q
    BY <2>1
  <2> QED BY <2>1, <2>2 DEF Start, End
<1> QED BY <1>1, <1>2 DEF IsToken

\* What is decoded of the first m tokens.
ReadOf(ts, m) == Split!Decode(SubSeq(ts, 1, m))

\* What is decoded grows by the parts of each token.
LEMMA ReadGrows ==
  ASSUME ContentTyped, NEW ts, Lined(content, ts), NEW m \in 1 .. Len(ts)
  PROVE  /\ ReadOf(ts, 0) = <<>> /\ ReadOf(ts, m - 1) \in Seq(Spots) /\ ReadOf(ts, m) \in Seq(Spots)
         /\ ts[m] = <<Start(ts[m])>> => ReadOf(ts, m) = Split!Joined(ReadOf(ts, m - 1), Start(ts[m]))
         /\ ts[m] = <<Start(ts[m]), End(ts[m])>> =>
              ReadOf(ts, m) = Split!Joined(Split!Joined(ReadOf(ts, m - 1), Start(ts[m])), End(ts[m]))
<1> DEFINE u == SubSeq(ts, 1, m - 1)
           v == SubSeq(ts, 1, m)
           a == Split!FlattenSeq(u)
           p == Start(ts[m])
           q == End(ts[m])
<1>1. SpotsOf(content) = Spots /\ ts \in Seq(Seq(Spots)) /\ p \in Spots /\ q \in Spots
  BY TokenIs DEF SpotsOf, Spots, Lined
<1>2. u \in Seq(Seq(Spots)) /\ v = Append(u, ts[m]) /\ ts[m] \in Seq(Spots)
  BY <1>1, BeginningGrows
<1>3. Split!FlattenSeq(v) = a \o ts[m] /\ a \in Seq(Spots) /\ Split!FlattenSeq(<<>>) = <<>>
  <2> HIDE DEF u, v
  <2> QED BY <1>2, FlatAppends
<1>4. ReadOf(ts, m - 1) = Split!TextOf(a) /\ ReadOf(ts, m) = Split!TextOf(a \o ts[m])
  <2>1. ReadOf(ts, m - 1) = Split!TextOf(a)
    BY DEF ReadOf, Split!Decode
  <2>2. ReadOf(ts, m) = Split!TextOf(Split!FlattenSeq(v))
    BY DEF ReadOf, Split!Decode
  <2> HIDE DEF a, v
  <2> QED BY <1>3, <2>1, <2>2
<1>5. ReadOf(ts, 0) = <<>>
  <2>1. SubSeq(ts, 1, 0) = <<>>
    BY <1>1
  <2>2. ReadOf(ts, 0) = Split!TextOf(Split!FlattenSeq(<<>>))
    BY <2>1 DEF ReadOf, Split!Decode
  <2>3. Split!TextOf(<<>>) = <<>>
    BY <1>1, <1>3, TextAppends
  <2> QED BY <1>3, <2>2, <2>3
<1> HIDE DEF u, v, a, p, q
<1>6. Split!TextOf(a) \in Seq(Spots) /\ Split!TextOf(Append(a, p)) = Split!Joined(Split!TextOf(a), p)
      /\ Append(a, p) \in Seq(Spots)
  BY <1>1, <1>3, TextAppends
<1>7. Split!TextOf(Append(Append(a, p), q)) = Split!Joined(Split!Joined(Split!TextOf(a), p), q)
  BY <1>1, <1>6, TextAppends
<1>8. ts[m] = <<p>> => a \o ts[m] = Append(a, p)
  BY <1>1, <1>3
<1>9. ts[m] = <<p, q>> => a \o ts[m] = Append(Append(a, p), q)
  <2>1. a \o <<p, q>> = Append(Append(a, p), q)
    BY <1>1, <1>3, TwoMore
  <2> QED BY <2>1
<1>10. a \o ts[m] \in Seq(Spots)
  BY <1>2, <1>3
<1>11. Split!TextOf(a \o ts[m]) \in Seq(Spots)
  BY <1>1, <1>10, TextAppends
<1> QED BY <1>4, <1>5, <1>6, <1>7, <1>8, <1>9, <1>11 DEF p, q

-----------------------------------------------------------------------------
(* The text of some tokens                                                 *)

\* The text t has the characters from the one of f to the one of l, the first
\* and the last as these have them when they are halves.
Runs(t, f, l) ==
  /\ Len(t) >= 1 /\ Len(t) = l[1] - f[1] + 1
  /\ \A k \in 1 .. Len(t) : t[k][1] = f[1] + k - 1
  /\ f[2] = 2 => t[1] = f
  /\ l[2] = 1 => t[Len(t)] = l

\* A text that runs up to a part goes on with the one that comes after it.
LEMMA RunsGo ==
  ASSUME ContentTyped, NEW t \in Seq(Spots), NEW f \in Spots, NEW l \in Spots, NEW q \in Spots,
         Runs(t, f, l), ComesAfter(l, q)
  PROVE  Runs(Split!Joined(t, q), f, q)
<1>0. f[1] \in Nat /\ l[1] \in Nat /\ q[1] \in Nat /\ t # <<>> /\ Len(t) \in Nat
  BY KindIs DEF Runs
<1>1. CASE q[2] # 2
  <2>1. Split!Joined(t, q) = Append(t, q)
    BY <1>1, JoinedIs
  <2>2. q[1] = l[1] + 1
    <3>1. q[2] # 2 /\ q # <<l[1], 2>>
      BY <1>1
    <3> QED BY <3>1 DEF ComesAfter
  <2> DEFINE u == Append(t, q)
             n == Len(t)
  <2>3. Len(u) = n + 1 /\ u[n + 1] = q /\ \A k \in 1 .. n : u[k] = t[k]
    OBVIOUS
  <2>4. n >= 1 /\ n = l[1] - f[1] + 1 /\ (f[2] = 2 => t[1] = f) /\ \A k \in 1 .. n : t[k][1] = f[1] + k - 1
    BY DEF Runs
  <2> HIDE DEF u, n
  <2>5. \A k \in 1 .. n + 1 : u[k][1] = f[1] + k - 1
    <3> TAKE k \in 1 .. n + 1
    <3>1. CASE k = n + 1
      <4>1. u[k][1] = q[1]
        BY <2>3, <3>1
      <4> QED BY <1>0, <2>2, <2>4, <3>1, <4>1
    <3>2. CASE k \in 1 .. n
      <4>1. u[k][1] = t[k][1]
        BY <2>3, <3>2
      <4> QED BY <2>4, <3>2, <4>1
    <3> QED BY <1>0, <3>1, <3>2 DEF n
  <2>6. Len(u) >= 1 /\ Len(u) = q[1] - f[1] + 1 /\ (f[2] = 2 => u[1] = f)
    BY <1>0, <2>2, <2>3, <2>4 DEF n
  <2> QED BY <1>0, <2>1, <2>3, <2>5, <2>6 DEF Runs, u
<1>2. CASE q[2] = 2
  <2>1. l[2] = 1 /\ q[1] = l[1] /\ l = <<l[1], 1>>
    BY <1>2, KindIs DEF ComesAfter
  <2>2. Split!Last(t) = <<q[1], 1>>
    BY <2>1 DEF Runs, Split!Last
  <2>3. Split!Joined(t, q) = Append(Split!Front(t), <<q[1], 0>>)
    BY <1>0, <1>2, <2>2, JoinedIs
  <2> DEFINE z == <<q[1], 0>>
             b == Split!Front(t)
             u == Append(b, z)
             n == Len(t)
  <2>4. b \in Seq(Spots) /\ Len(b) = n - 1 /\ \A k \in 1 .. n - 1 : b[k] = t[k]
    <3>1. n \in Nat /\ n >= 1
      BY <1>0
    <3>2. b = SubSeq(t, 1, n - 1)
      BY DEF Split!Front
    <3>3. n - 1 \in 0 .. n /\ n = Len(t)
      BY <3>1
    <3> HIDE DEF b, n
    <3>4. SubSeq(t, 1, n - 1) \in Seq(Spots) /\ Len(SubSeq(t, 1, n - 1)) = n - 1
      BY <3>1, <3>3
    <3>5. \A k \in 1 .. n - 1 : SubSeq(t, 1, n - 1)[k] = t[k]
      BY <3>1, <3>3
    <3> QED BY <3>2, <3>4, <3>5
  <2>5. z[1] = q[1]
    OBVIOUS
  <2> HIDE DEF z, b
  <2>6. Len(u) = n /\ u[n] = z /\ \A k \in 1 .. n - 1 : u[k] = t[k]
    BY <1>0, <2>4
  <2>7. \A k \in 1 .. n : u[k][1] = f[1] + k - 1
    <3> TAKE k \in 1 .. n
    <3>1. n = l[1] - f[1] + 1 /\ \A j \in 1 .. n : t[j][1] = f[1] + j - 1
      BY DEF Runs
    <3> HIDE DEF n, u
    <3>2. CASE k = n
      <4>1. u[k][1] = q[1]
        BY <2>5, <2>6, <3>2
      <4> QED BY <1>0, <2>1, <3>1, <3>2, <4>1
    <3>3. CASE k # n
      <4>1. k \in 1 .. n - 1
        BY <1>0, <3>3 DEF n
      <4>2. u[k][1] = t[k][1]
        BY <2>6, <4>1
      <4> QED BY <3>1, <4>2
    <3> QED BY <3>2, <3>3
  <2>8. f[2] = 2 => u[1] = f
    <3>1. CASE n = 1
      <4>1. l[2] = 1 /\ t[1] = l
        BY <2>1, <3>1 DEF Runs
      <4>2. f[2] = 2 => t[1] = f
        BY DEF Runs
      <4> QED BY <4>1, <4>2
    <3>2. CASE n # 1
      BY <1>0, <2>6, <3>2 DEF Runs
    <3> QED BY <3>1, <3>2
  <2> HIDE DEF u
  <2> QED BY <1>2, <2>1, <2>3, <2>6, <2>7, <2>8 DEF Runs, u, z, b
<1> QED BY <1>1, <1>2

\* What is decoded of tokens in line runs from the first one's start to the
\* last one's end.
LEMMA ReadRuns ==
  ASSUME ContentTyped, NEW ts, Lined(content, ts)
  PROVE  \A m \in 1 .. Len(ts) : Runs(ReadOf(ts, m), Start(ts[1]), End(ts[m]))
<1> DEFINE n == Len(ts)
           K == {m \in 0 .. n : m # 0 => Runs(ReadOf(ts, m), Start(ts[1]), End(ts[m]))}
<1>1. n \in Nat /\ SpotsOf(content) = Spots
  BY DEF Lined, SpotsOf, Spots
<1>2. \A m \in 1 .. n : m - 1 \in K => m \in K
  <2> SUFFICES ASSUME NEW m \in 1 .. n, m - 1 \in K PROVE Runs(ReadOf(ts, m), Start(ts[1]), End(ts[m]))
    OBVIOUS
  <2> DEFINE t == ReadOf(ts, m - 1)
             b == Start(ts[1])
             p == Start(ts[m])
             q == End(ts[m])
  <2>1. /\ p \in Spots /\ q \in Spots /\ b \in Spots
        /\ \/ ts[m] = <<p>> /\ q = p
           \/ ts[m] = <<p, q>> /\ p[2] = 0 /\ q[2] = 0 /\ q[1] = p[1] + 1
    <3>1. IsToken(content, ts[m]) /\ IsToken(content, ts[1])
      BY <1>1 DEF Lined
    <3> QED BY <1>1, <3>1, TokenIs
  <2> HIDE DEF p, q, b
  <2>2. /\ t \in Seq(Spots)
        /\ m = 1 => t = <<>>
        /\ ts[m] = <<p>> => ReadOf(ts, m) = Split!Joined(t, p)
        /\ ts[m] = <<p, q>> => ReadOf(ts, m) = Split!Joined(Split!Joined(t, p), q)
    BY <1>1, ReadGrows DEF p, q
  <2> HIDE DEF t
  <2>3. Runs(Split!Joined(t, p), b, p)
    <3>1. CASE m = 1
      <4>1. Split!Joined(t, p) = Append(t, p) /\ t = <<>>
        BY <2>1, <2>2, <3>1, JoinedIs
      <4>2. Split!Joined(t, p) = <<p>> /\ b = p /\ p[1] \in Nat
        BY <2>1, <3>1, <4>1, KindIs DEF b, p
      <4> QED BY <4>2 DEF Runs
    <3>2. CASE m # 1
      <4>1. m - 1 \in 1 .. n /\ (m - 1) + 1 = m /\ m - 1 # 0 /\ m - 1 \in 1 .. Len(ts) - 1
        BY <1>1, <3>2
      <4>2. Runs(t, b, End(ts[m - 1])) /\ ComesAfter(End(ts[m - 1]), p) /\ End(ts[m - 1]) \in Spots
        <5>1. IsToken(content, ts[m - 1])
          BY <4>1 DEF Lined
        <5> QED BY <1>1, <4>1, <5>1, TokenIs DEF Lined, t, b, p
      <4> QED BY <2>1, <2>2, <4>2, RunsGo
    <3> QED BY <3>1, <3>2
  <2>4. CASE ts[m] = <<p>> /\ q = p
    BY <2>2, <2>3, <2>4 DEF b, q, p
  <2>5. CASE ts[m] = <<p, q>> /\ p[2] = 0 /\ q[2] = 0 /\ q[1] = p[1] + 1
    <3>1. ComesAfter(p, q)
      BY <2>5 DEF ComesAfter
    <3>2. Split!Joined(t, p) \in Seq(Spots)
      BY <2>1, <2>2, JoinedIs
    <3>3. Runs(Split!Joined(Split!Joined(t, p), q), b, q)
      BY <2>1, <2>3, <3>1, <3>2, RunsGo
    <3> QED BY <2>2, <2>5, <3>3 DEF b, q
  <2> QED BY <2>1, <2>4, <2>5
<1>3. 0 \in K
  BY <1>1
<1> HIDE DEF K
<1>4. \A m \in 0 .. n : m \in K
  BY <1>1, <1>2, <1>3, Induction
<1> QED BY <1>1, <1>4 DEF K

-----------------------------------------------------------------------------
(* Encoding what was decoded                                               *)

\* The ways one token more is decoded: as it is, as the second half of a
\* character, and as a mark that has a tail in its token.
IsRead(ts, m) ==
  /\ ts[m] = <<Start(ts[m])>> /\ Alone(SubSeq(ts, 1, m - 1), Start(ts[m]))
  /\ ReadOf(ts, m) = Append(ReadOf(ts, m - 1), Start(ts[m]))

IsMended(ts, m) ==
  LET p == Start(ts[m])
      z == <<p[1], 0>>
  IN  /\ m > 1 /\ ts[m] = <<p>> /\ p = <<p[1], 2>> /\ ts[m - 1] = << <<p[1], 1>> >>
      /\ z \in Spots /\ Split!Kind(z) = "wide"
      /\ ReadOf(ts, m) = Append(ReadOf(ts, m - 2), z)

IsMarked(ts, m) ==
  LET p == Start(ts[m])
      q == End(ts[m])
  IN  /\ ts[m] = <<p, q>> /\ Alone(SubSeq(ts, 1, m - 1), p)
      /\ Split!Kind(p) = "mark" /\ Split!Kind(q) = "tail"
      /\ ReadOf(ts, m) = Append(Append(ReadOf(ts, m - 1), p), q)

\* KindOf says of the content what Kind does.
LEMMA KindOfIs == ASSUME NEW p PROVE Split!Kind(p) = KindOf(content, p)
  BY DEF Split!Kind, KindOf

\* A token is decoded in one of three ways.
LEMMA ReadIs ==
  ASSUME ContentTyped, NEW ts, Lined(content, ts), NEW m \in 1 .. Len(ts)
  PROVE  IsRead(ts, m) \/ IsMended(ts, m) \/ IsMarked(ts, m)
<1> DEFINE n == Len(ts)
           t == ReadOf(ts, m - 1)
           e == SubSeq(ts, 1, m - 1)
           p == Start(ts[m])
           q == End(ts[m])
<1>1. n \in Nat /\ SpotsOf(content) = Spots /\ IsToken(content, ts[m]) /\ ts \in Seq(Seq(Spots))
  BY DEF Lined, SpotsOf, Spots
<1>2. /\ p \in Spots /\ q \in Spots
      /\ p[2] = 0 <=> content[p[1]] # "wide"
      /\ \/ ts[m] = <<p>> /\ q = p
         \/ /\ ts[m] = <<p, q>> /\ p[2] = 0 /\ q[2] = 0 /\ q[1] = p[1] + 1
            /\ content[p[1]] = "mark" /\ content[q[1]] = "tail"
  BY <1>1, TokenIs
<1>3. /\ t \in Seq(Spots)
      /\ m = 1 => t = <<>>
      /\ ts[m] = <<p>> => ReadOf(ts, m) = Split!Joined(t, p)
      /\ ts[m] = <<p, q>> => ReadOf(ts, m) = Split!Joined(Split!Joined(t, p), q)
  <2>1. m = 1 => m - 1 = 0
    OBVIOUS
  <2>2. m = 1 => t = <<>>
    <3> HIDE DEF n, e, p, q
    <3> QED BY <2>1, ReadGrows
  <2> QED BY <2>2, ReadGrows
<1>4. m # 1 => /\ m - 1 \in 1 .. Len(ts) /\ IsToken(content, ts[m - 1]) /\ ComesAfter(End(ts[m - 1]), p)
               /\ ~(KindOf(content, End(ts[m - 1])) = "mark" /\ KindOf(content, p) = "tail")
  <2> SUFFICES ASSUME m # 1
               PROVE  /\ m - 1 \in 1 .. Len(ts) /\ IsToken(content, ts[m - 1]) /\ ComesAfter(End(ts[m - 1]), p)
                      /\ ~(KindOf(content, End(ts[m - 1])) = "mark" /\ KindOf(content, p) = "tail")
    OBVIOUS
  <2>1. m - 1 \in 1 .. Len(ts) /\ m - 1 \in 1 .. Len(ts) - 1 /\ (m - 1) + 1 = m
    BY <1>1
  <2> QED BY <2>1 DEF Lined
<1>5. Alone(e, p)
  <2>1. Split!Kind(p) # "wide"
    <3>1. Split!Kind(p) = IF p[2] = 0 THEN content[p[1]] ELSE "half"
      BY DEF Split!Kind
    <3> QED BY <1>2, <3>1
  <2>2. CASE m = 1
    <3>1. e = <<>>
      BY <1>1, <2>2
    <3> QED BY <2>1, <3>1 DEF Alone
  <2>3. CASE m # 1
    <3>1. Len(e) = m - 1 /\ e[m - 1] = ts[m - 1]
      BY <1>1, <2>3
    <3>2. Split!Last(Split!Last(e)) = End(ts[m - 1])
      BY <3>1 DEF Split!Last, End
    <3> HIDE DEF e, p
    <3> QED BY <1>4, <2>1, <2>3, <3>2, KindOfIs DEF Alone
  <2> QED BY <2>2, <2>3
<1> HIDE DEF p, q, t, e
<1>6. CASE /\ ts[m] = <<p, q>> /\ p[2] = 0 /\ q[2] = 0 /\ q[1] = p[1] + 1
           /\ content[p[1]] = "mark" /\ content[q[1]] = "tail"
  <2>1. Split!Joined(t, p) = Append(t, p)
    <3>1. p[2] # 2
      BY <1>6
    <3> QED BY <1>2, <1>3, <3>1, JoinedIs
  <2>2. Append(t, p) \in Seq(Spots)
    BY <1>2, <1>3
  <2>3. Split!Joined(Append(t, p), q) = Append(Append(t, p), q)
    <3>1. q[2] # 2
      BY <1>6
    <3> QED BY <1>2, <2>2, <3>1, JoinedIs
  <2>4. Split!Kind(p) = "mark" /\ Split!Kind(q) = "tail"
    BY <1>6 DEF Split!Kind
  <2>5. IsMarked(ts, m)
    BY <1>3, <1>5, <1>6, <2>1, <2>3, <2>4 DEF IsMarked, p, q, t, e
  <2> QED BY <2>5
<1>7. CASE ts[m] = <<p>> /\ q = p /\ (p[2] # 2 \/ m = 1)
  <2>1. Split!Joined(t, p) = Append(t, p)
    BY <1>2, <1>3, <1>7, JoinedIs
  <2>2. IsRead(ts, m)
    BY <1>3, <1>5, <1>7, <2>1 DEF IsRead, p, t, e
  <2> QED BY <2>2
<1>8. CASE ts[m] = <<p>> /\ q = p /\ p[2] = 2 /\ m # 1
  <2> DEFINE l == End(ts[m - 1])
             o == ReadOf(ts, m - 2)
             z == <<p[1], 0>>
             h == <<p[1], 1>>
  <2>1. ComesAfter(l, p) /\ m - 1 \in 1 .. Len(ts) /\ IsToken(content, ts[m - 1])
    BY <1>4, <1>8
  <2>2. l[2] = 1 /\ p = <<l[1], 2>>
    BY <1>8, <2>1 DEF ComesAfter
  <2>3. l = <<l[1], 1>> /\ l \in Spots /\ ts[m - 1] = <<l>> /\ Start(ts[m - 1]) = l
    <3>1. /\ l \in Spots
          /\ \/ ts[m - 1] = <<Start(ts[m - 1])>> /\ l = Start(ts[m - 1])
             \/ l[2] = 0
      BY <1>1, <2>1, TokenIs
    <3> QED BY <2>2, <3>1, KindIs
  <2>4. p[1] = l[1] /\ l = h
    <3>1. p[1] = l[1]
      BY <2>2
    <3> QED BY <2>3, <3>1
  <2>5. o \in Seq(Spots) /\ t = Split!Joined(o, l)
    <3>1. (m - 1) - 1 = m - 2
      BY <1>1
    <3> QED BY <2>1, <2>3, <3>1, ReadGrows DEF t
  <2> HIDE DEF o, l
  <2>6. t = Append(o, l)
    <3>1. l[2] # 2
      BY <2>2
    <3> QED BY <2>3, <2>5, <3>1, JoinedIs
  <2>7. t # <<>> /\ Split!Last(t) = l /\ Split!Front(t) = o
    <3>1. Len(t) = Len(o) + 1 /\ t[Len(o) + 1] = l /\ Len(o) \in Nat
      BY <2>3, <2>5, <2>6
    <3>2. t # <<>> /\ Split!Last(t) = l
      BY <3>1 DEF Split!Last
    <3>3. Split!Front(t) = o
      <4>1. Split!Front(t) = SubSeq(t, 1, Len(o))
        <5>1. Len(t) - 1 = Len(o)
          BY <3>1
        <5> QED BY <5>1 DEF Split!Front
      <4>2. SubSeq(t, 1, Len(o)) \in Seq(Spots) /\ Len(SubSeq(t, 1, Len(o))) = Len(o)
            /\ \A k \in 1 .. Len(o) : SubSeq(t, 1, Len(o))[k] = o[k]
        BY <1>3, <2>3, <2>5, <2>6, <3>1
      <4> QED BY <2>5, <4>1, <4>2, SeqEqual
    <3> QED BY <3>2, <3>3
  <2>8. Split!Joined(t, p) = Append(o, z)
    BY <1>2, <1>3, <1>8, <2>4, <2>7, JoinedIs
  <2>9. z \in Spots /\ Split!Kind(z) = "wide"
    <3>1. p[1] \in 1 .. Len(content)
      BY <1>2, KindIs
    <3>2. content[p[1]] = "wide"
      BY <1>2, <1>8
    <3> QED BY <3>1, <3>2 DEF Spots, Split!Kind
  <2>10. IsMended(ts, m)
    <3>1. m > 1 /\ p = <<p[1], 2>> /\ ts[m - 1] = <<h>>
      <4>1. m > 1
        BY <1>8
      <4>2. p = <<p[1], 2>>
        BY <2>2, <2>4
      <4> QED BY <2>3, <2>4, <4>1, <4>2
    <3>2. ReadOf(ts, m) = Append(o, z)
      BY <1>3, <1>8, <2>8
    <3> QED BY <1>8, <2>9, <3>1, <3>2 DEF IsMended, p, o
  <2> QED BY <2>10
<1> QED BY <1>2, <1>6, <1>7, <1>8

\* A list of two, one after the other.
LEMMA PairIs == ASSUME NEW S, NEW p \in S, NEW q \in S PROVE Append(<<p>>, q) = <<p, q>>
<1> DEFINE i == <<p, q>>
           o == <<p>>
<1>1. i \in Seq(S) /\ Len(i) = 2 /\ i[1] = p /\ i[2] = q
  OBVIOUS
<1>2. o \in Seq(S) /\ Len(o) =< 1 /\ Len(o) >= 1 /\ o[1] = p
  OBVIOUS
<1> HIDE DEF o, i
<1>3. Append(o, q) \in Seq(S) /\ Len(Append(o, q)) = 2 /\ Append(o, q)[2] = q /\ Append(o, q)[1] = o[1]
  BY <1>2
<1>4. i = Append(o, q)
  BY <1>1, <1>2, <1>3, SeqEqual
<1> QED BY <1>4 DEF i, o

\* Nothing is encoded and decoded as nothing.
LEMMA Nothing == ASSUME ContentTyped PROVE Split!Encode(<<>>) = <<>> /\ Split!TextOf(<<>>) = <<>>
<1>1. <<>> \in Seq(Spots) /\ Len(<<>>) = 0
  OBVIOUS
<1>2. PICK f : Encodes(f, <<>>) /\ Split!Encode(<<>>) = f[Len(<<>>)]
  BY <1>1, EncodeGoes
<1>3. PICK g : Texts(g, <<>>) /\ Split!TextOf(<<>>) = g[Len(<<>>)]
  BY <1>1, TextGoes
<1> QED BY <1>1, <1>2, <1>3 DEF Encodes, Texts

\* What is decoded of some tokens is encoded as they are.
LEMMA ReadBack ==
  ASSUME ContentTyped, NEW ts, Lined(content, ts)
  PROVE  \A m \in 0 .. Len(ts) : Split!Encode(ReadOf(ts, m)) = SubSeq(ts, 1, m)
<1> DEFINE n == Len(ts)
           Back(m) == Split!Encode(ReadOf(ts, m)) = SubSeq(ts, 1, m)
           K == {m \in 0 .. n : Back(m) /\ (m # 0 => Back(m - 1))}
<1>1. n \in Nat /\ SpotsOf(content) = Spots /\ ts \in Seq(Seq(Spots))
  BY DEF Lined, SpotsOf, Spots
<1>2. Back(0)
  <2>1. SubSeq(ts, 1, 0) = <<>>
    BY <1>1
  <2>2. ReadOf(ts, 0) = <<>>
    <3>1. Split!FlattenSeq(<<>>) = <<>>
      <4>1. <<>> \in Seq(Seq(Spots)) /\ <<>> \in Seq(Spots)
        OBVIOUS
      <4> QED BY <4>1, FlatAppends
    <3>2. Split!TextOf(<<>>) = <<>>
      BY Nothing
    <3> QED BY <2>1, <3>1, <3>2 DEF ReadOf, Split!Decode
  <2>3. Split!Encode(<<>>) = <<>>
    BY Nothing
  <2> QED BY <2>1, <2>2, <2>3
<1>3. ASSUME NEW m \in 1 .. n, Back(m - 1), m > 1 => Back(m - 2) PROVE Back(m)
  <2> DEFINE t == ReadOf(ts, m - 1)
             e == SubSeq(ts, 1, m - 1)
             p == Start(ts[m])
             q == End(ts[m])
  <2>1. t \in Seq(Spots) /\ e \in TokenLists /\ SubSeq(ts, 1, m) = Append(e, ts[m]) /\ Split!Encode(t) = e
    <3>1. e \in Seq(Seq(Spots)) /\ SubSeq(ts, 1, m) = Append(e, ts[m])
      BY <1>1, BeginningGrows
    <3>2. t \in Seq(Spots)
      BY ReadGrows
    <3> QED BY <1>3, <3>1, <3>2 DEF TokenLists
  <2>2. p \in Spots /\ q \in Spots
    <3>1. IsToken(content, ts[m])
      BY <1>1 DEF Lined
    <3> QED BY <1>1, <3>1, TokenIs
  <2>3. CASE IsRead(ts, m)
    <3>1. ts[m] = <<p>> /\ Alone(e, p) /\ ReadOf(ts, m) = Append(t, p)
      BY <2>3 DEF IsRead
    <3> HIDE DEF t, e, p
    <3>2. Split!Encode(Append(t, p)) = Split!Tokenized(e, p)
      BY <2>1, <2>2, EncodeAppends
    <3>3. Split!Tokenized(e, p) = Append(e, <<p>>)
      BY <2>1, <2>2, <3>1, TokenizedIs
    <3> QED BY <2>1, <3>1, <3>2, <3>3
  <2>4. CASE IsMarked(ts, m)
    <3>1. /\ ts[m] = <<p, q>> /\ Alone(e, p) /\ Split!Kind(p) = "mark" /\ Split!Kind(q) = "tail"
          /\ ReadOf(ts, m) = Append(Append(t, p), q)
      BY <2>4 DEF IsMarked
    <3> HIDE DEF t, e, p, q
    <3>2. Split!Encode(Append(t, p)) = Split!Tokenized(e, p) /\ Append(t, p) \in Seq(Spots)
      BY <2>1, <2>2, EncodeAppends
    <3>3. Split!Tokenized(e, p) = Append(e, <<p>>)
      BY <2>1, <2>2, <3>1, TokenizedIs
    <3> DEFINE o == <<p>>
               d == Append(e, o)
    <3>4. o \in Seq(Spots) /\ o[Len(o)] = p /\ Append(o, q) = <<p, q>>
      <4>1. o \in Seq(Spots) /\ Len(o) = 1 /\ o[1] = p
        BY <2>2
      <4>2. Append(o, q) = <<p, q>>
        BY <2>2, PairIs
      <4> QED BY <4>1, <4>2
    <3>5. d \in TokenLists /\ d # <<>> /\ Split!Last(d) = o /\ Split!Front(d) = e
      <4> HIDE DEF o
      <4>0. e \in Seq(Seq(Spots))
        BY <2>1 DEF TokenLists
      <4>1. d \in Seq(Seq(Spots)) /\ Len(d) = Len(e) + 1 /\ d[Len(e) + 1] = o /\ Len(e) \in Nat
            /\ \A k \in 1 .. Len(e) : d[k] = e[k]
        BY <3>4, <4>0
      <4>2. Split!Last(d) = o /\ d # <<>>
        <5>1. Split!Last(d) = d[Len(d)]
          BY DEF Split!Last
        <5> HIDE DEF d
        <5> QED BY <4>1, <5>1
      <4>3. Split!Front(d) = SubSeq(d, 1, Len(e))
        <5>1. Len(d) - 1 = Len(e)
          BY <4>1
        <5> QED BY <5>1 DEF Split!Front
      <4> HIDE DEF d
      <4>4. SubSeq(d, 1, Len(e)) \in Seq(Seq(Spots)) /\ Len(SubSeq(d, 1, Len(e))) = Len(e)
            /\ \A k \in 1 .. Len(e) : SubSeq(d, 1, Len(e))[k] = e[k]
        BY <4>1
      <4>5. SubSeq(d, 1, Len(e)) = e
        BY <4>0, <4>4, SeqEqual
      <4> QED BY <4>1, <4>2, <4>3, <4>5 DEF TokenLists
    <3> HIDE DEF o, d
    <3>6. Split!Kind(Split!Last(Split!Last(d))) = "mark"
      <4>1. Split!Last(o) = p
        BY <3>4 DEF Split!Last
      <4> QED BY <3>1, <3>5, <4>1
    <3>7. Split!Tokenized(d, q) = Append(e, Append(o, q))
      BY <2>2, <3>1, <3>5, <3>6, TokenizedIs
    <3>8. Split!Encode(Append(Append(t, p), q)) = Split!Tokenized(Split!Encode(Append(t, p)), q)
      BY <2>2, <3>2, EncodeAppends
    <3>9. Split!Encode(Append(t, p)) = d
      BY <3>2, <3>3 DEF d, o
    <3> QED BY <2>1, <3>1, <3>4, <3>7, <3>8, <3>9
  <2>5. CASE IsMended(ts, m)
    <3> DEFINE u == ReadOf(ts, m - 2)
               z == <<p[1], 0>>
               g == SubSeq(ts, 1, m - 2)
               h == <<p[1], 1>>
               i == <<p[1], 2>>
    <3>1. /\ m > 1 /\ ts[m] = <<i>> /\ ts[m - 1] = <<h>> /\ z \in Spots /\ Split!Kind(z) = "wide"
          /\ ReadOf(ts, m) = Append(u, z)
      <4>1. m > 1 /\ ts[m] = <<p>> /\ p = i /\ ts[m - 1] = <<h>> /\ z \in Spots /\ Split!Kind(z) = "wide"
            /\ ReadOf(ts, m) = Append(u, z)
        BY <2>5 DEF IsMended
      <4> HIDE DEF p
      <4>2. ts[m] = <<i>>
        BY <4>1
      <4> QED BY <4>1, <4>2
    <3>2. m - 1 \in 1 .. n /\ (m - 1) - 1 = m - 2
      BY <1>1, <3>1
    <3>3. g \in TokenLists /\ e = Append(g, ts[m - 1]) /\ u \in Seq(Spots)
      <4>1. SubSeq(ts, 1, (m - 1) - 1) \in Seq(Seq(Spots))
            /\ SubSeq(ts, 1, m - 1) = Append(SubSeq(ts, 1, (m - 1) - 1), ts[m - 1])
        BY <1>1, <3>2, BeginningGrows
      <4>2. ReadOf(ts, (m - 1) - 1) \in Seq(Spots)
        BY <3>2, ReadGrows
      <4> QED BY <3>2, <4>1, <4>2 DEF TokenLists
    <3>4. Split!Encode(u) = g
      BY <1>3, <3>1
    <3>5. z[1] = p[1]
      OBVIOUS
    <3> HIDE DEF u, g, z
    <3>6. Split!Encode(Append(u, z)) = Split!Tokenized(g, z)
      BY <3>1, <3>3, <3>4, EncodeAppends
    <3>7. Split!Tokenized(g, z) = g \o << <<h>>, <<i>> >>
      <4>1. Split!Tokenized(g, z) = g \o << << <<z[1], 1>> >>, << <<z[1], 2>> >> >>
        BY <3>1, <3>3, TokenizedIs
      <4> QED BY <3>5, <4>1
    <3> DEFINE a == <<h>>
               b == <<i>>
    <3>8. h \in Spots /\ i \in Spots
      <4>1. p[1] \in 1 .. Len(content)
        BY <2>2, KindIs
      <4> QED BY <4>1 DEF Spots
    <3> HIDE DEF h, i
    <3>9. a \in Seq(Spots) /\ b \in Seq(Spots)
      BY <3>8
    <3> HIDE DEF a, b
    <3>10. g \o <<a, b>> = Append(Append(g, a), b)
      <4>0. g \in Seq(Seq(Spots)) /\ Len(g) \in Nat
        BY <3>3 DEF TokenLists
      <4> QED BY <3>9, <4>0, TwoMore
    <3>11. ts[m] = b /\ ts[m - 1] = a
      BY <3>1 DEF a, b
    <3>12. SubSeq(ts, 1, m) = Append(Append(g, a), b)
      BY <2>1, <3>3, <3>11
    <3> QED BY <3>1, <3>6, <3>7, <3>10, <3>12 DEF a, b
  <2> QED BY <2>3, <2>4, <2>5, ReadIs
<1>4. 0 \in K /\ \A m \in 1 .. n : m - 1 \in K => m \in K
  <2>1. 0 \in 0 .. n
    BY <1>1
  <2>2. ASSUME NEW m \in 1 .. n, m - 1 \in K PROVE m \in K
    <3>1. Back(m - 1) /\ (m - 1 # 0 => Back((m - 1) - 1))
      BY <2>2
    <3>2. (m - 1) - 1 = m - 2 /\ (m > 1 => m - 1 # 0) /\ m \in 0 .. n
      BY <1>1
    <3>3. m > 1 => Back(m - 2)
      <4>1. m > 1 => Back((m - 1) - 1)
        BY <3>1, <3>2
      <4> HIDE DEF Back
      <4> QED BY <3>2, <4>1
    <3>4. Back(m)
      BY <1>3, <3>1, <3>3
    <3> HIDE DEF Back
    <3> QED BY <3>1, <3>2, <3>4
  <2> QED BY <1>2, <2>1, <2>2
<1> HIDE DEF K
<1>5. \A m \in 0 .. n : m \in K
  BY <1>1, <1>4, Induction
<1> QED BY <1>5 DEF K

-----------------------------------------------------------------------------
(* Where a text is cut                                                     *)

\* The beginnings of a list with one more member.
LEMMA PrefixOfMore ==
  ASSUME NEW S, NEW t \in Seq(S), NEW x \in S
  PROVE  /\ \A k \in 1 .. Len(t) : SubSeq(Append(t, x), 1, k) = SubSeq(t, 1, k)
         /\ SubSeq(Append(t, x), 1, Len(t) + 1) = Append(t, x)
         /\ Len(Append(t, x)) = Len(t) + 1
<1>1. Append(t, x) \in Seq(S) /\ Len(Append(t, x)) = Len(t) + 1 /\ Len(t) \in Nat
      /\ \A i \in 1 .. Len(t) : Append(t, x)[i] = t[i]
  OBVIOUS
<1> DEFINE u == Append(t, x)
<1> HIDE DEF u
<1>2. ASSUME NEW k \in 1 .. Len(t) PROVE SubSeq(u, 1, k) = SubSeq(t, 1, k)
  <2>1. SubSeq(u, 1, k) \in Seq(S) /\ Len(SubSeq(u, 1, k)) = k /\ \A i \in 1 .. k : SubSeq(u, 1, k)[i] = u[i]
    BY <1>1 DEF u
  <2>2. SubSeq(t, 1, k) \in Seq(S) /\ Len(SubSeq(t, 1, k)) = k /\ \A i \in 1 .. k : SubSeq(t, 1, k)[i] = t[i]
    OBVIOUS
  <2>3. \A i \in 1 .. k : u[i] = t[i]
    BY <1>1 DEF u
  <2> QED BY <2>1, <2>2, <2>3, SeqEqual
<1>3. SubSeq(u, 1, Len(t) + 1) = u
  <2>1. u \in Seq(S) /\ Len(u) = Len(t) + 1 /\ Len(t) \in Nat
    BY <1>1 DEF u
  <2>2. SubSeq(u, 1, Len(u)) \in Seq(S) /\ Len(SubSeq(u, 1, Len(u))) = Len(u)
        /\ \A i \in 1 .. Len(u) : SubSeq(u, 1, Len(u))[i] = u[i]
    BY <2>1
  <2>3. SubSeq(u, 1, Len(u)) = u
    BY <2>1, <2>2, SeqEqual
  <2> QED BY <2>1, <2>3
<1> QED BY <1>1, <1>2, <1>3 DEF u

\* The parts of a token in line, and of what is decoded up to it, are the
\* content's.
LEMMA SomeToken ==
  ASSUME ContentTyped, NEW ts, Lined(content, ts), NEW m \in 1 .. Len(ts)
  PROVE  /\ Start(ts[m]) \in Spots /\ End(ts[m]) \in Spots /\ ts \in Seq(Seq(Spots)) /\ Len(ts) \in Nat
         /\ ReadOf(ts, m - 1) \in Seq(Spots) /\ ReadOf(ts, m) \in Seq(Spots)
         /\ Len(ReadOf(ts, m - 1)) \in Nat
<1>1. SpotsOf(content) = Spots /\ IsToken(content, ts[m]) /\ ts \in Seq(Seq(Spots))
  BY DEF Lined, SpotsOf, Spots
<1>2. ReadOf(ts, m - 1) \in Seq(Spots) /\ ReadOf(ts, m) \in Seq(Spots)
  BY ReadGrows
<1> QED BY <1>1, <1>2, TokenIs

\* A text up to a mark is what is decoded of some tokens, and the mark.
IsCut(ts, m, k) ==
  \E j \in 1 .. m :
    /\ Split!Kind(Start(ts[j])) = "mark"
    /\ SubSeq(ReadOf(ts, m), 1, k) = Append(ReadOf(ts, j - 1), Start(ts[j]))
CutsAre(ts, m) ==
  \A k \in 1 .. Len(ReadOf(ts, m)) : Split!Kind(ReadOf(ts, m)[k]) = "mark" => IsCut(ts, m, k)

\* A cut in what was decoded earlier is one in what is decoded later.
LEMMA CutStays ==
  ASSUME ContentTyped, NEW ts, Lined(content, ts), NEW m \in 1 .. Len(ts), NEW i \in 0 .. m - 1,
         CutsAre(ts, i), NEW x \in Spots, ReadOf(ts, i) \in Seq(Spots),
         NEW r \in Seq(Spots), r = Append(ReadOf(ts, i), x),
         NEW k \in 1 .. Len(ReadOf(ts, i)), Split!Kind(r[k]) = "mark",
         SubSeq(ReadOf(ts, m), 1, k) = SubSeq(r, 1, k)
  PROVE  IsCut(ts, m, k)
<1> DEFINE t == ReadOf(ts, i)
<1>1. r[k] = t[k] /\ SubSeq(r, 1, k) = SubSeq(t, 1, k)
  <2> HIDE DEF t
  <2> QED BY PrefixOfMore DEF t
<1>2. IsCut(ts, i, k)
  BY <1>1 DEF CutsAre
<1>3. PICK j \in 1 .. i : Split!Kind(Start(ts[j])) = "mark" /\ SubSeq(t, 1, k) = Append(ReadOf(ts, j - 1), Start(ts[j]))
  BY <1>2 DEF IsCut
<1>4. j \in 1 .. m
  OBVIOUS
<1> HIDE DEF t
<1> QED BY <1>1, <1>3, <1>4 DEF IsCut

\* Every mark in what is decoded of tokens in line begins a token there.
LEMMA MarksAre ==
  ASSUME ContentTyped, NEW ts, Lined(content, ts)
  PROVE  \A m \in 0 .. Len(ts) : CutsAre(ts, m)
<1> DEFINE n == Len(ts)
           K == {m \in 0 .. n : CutsAre(ts, m) /\ (m # 0 => CutsAre(ts, m - 1))}
<1>1. n \in Nat
  BY DEF Lined
<1>2. CutsAre(ts, 0)
  <2>1. ReadOf(ts, 0) = <<>>
    <3>1. SubSeq(ts, 1, 0) = <<>>
      BY DEF Lined
    <3>2. <<>> \in Seq(Seq(Spots)) /\ <<>> \in Seq(Spots)
      OBVIOUS
    <3>3. Split!FlattenSeq(<<>>) = <<>>
      BY <3>2, FlatAppends
    <3> QED BY <3>1, <3>3, Nothing DEF ReadOf, Split!Decode
  <2>2. 1 .. Len(<<>>) = {}
    OBVIOUS
  <2> QED BY <2>1, <2>2 DEF CutsAre
<1>3. ASSUME NEW m \in 1 .. n, CutsAre(ts, m - 1), m > 1 => CutsAre(ts, m - 2) PROVE CutsAre(ts, m)
  <2> SUFFICES ASSUME NEW k \in 1 .. Len(ReadOf(ts, m)), Split!Kind(ReadOf(ts, m)[k]) = "mark"
               PROVE  IsCut(ts, m, k)
    BY DEF CutsAre
  <2> DEFINE t == ReadOf(ts, m - 1)
             p == Start(ts[m])
             q == End(ts[m])
  <2>1. t \in Seq(Spots) /\ p \in Spots /\ q \in Spots /\ ReadOf(ts, m) \in Seq(Spots) /\ Len(t) \in Nat
    BY SomeToken
  <2>2. m - 1 \in 0 .. m - 1 /\ m \in 1 .. m /\ m \in 1 .. Len(ts)
    BY <1>1
  <2>3. CASE IsRead(ts, m)
    <3>1. ReadOf(ts, m) = Append(t, p)
      BY <2>3 DEF IsRead
    <3> HIDE DEF t, p
    <3>2. CASE k \in 1 .. Len(t)
      BY <1>3, <2>1, <2>2, <3>1, <3>2, CutStays DEF t
    <3>3. CASE k = Len(t) + 1
      <4>1. SubSeq(ReadOf(ts, m), 1, k) = Append(t, p)
        BY <2>1, <3>1, <3>3, PrefixOfMore
      <4>2. ReadOf(ts, m)[k] = p
        BY <2>1, <3>1, <3>3
      <4> QED BY <2>2, <4>1, <4>2 DEF IsCut, t, p
    <3>4. Len(ReadOf(ts, m)) = Len(t) + 1
      BY <2>1, <3>1, PrefixOfMore
    <3> QED BY <2>1, <3>2, <3>3, <3>4
  <2>4. CASE IsMarked(ts, m)
    <3> DEFINE r == Append(t, p)
    <3>1. ReadOf(ts, m) = Append(r, q) /\ Split!Kind(q) = "tail"
      BY <2>4 DEF IsMarked
    <3> HIDE DEF t, p, q
    <3>2. r \in Seq(Spots) /\ Len(r) = Len(t) + 1
      BY <2>1, PrefixOfMore
    <3>3. Len(ReadOf(ts, m)) = Len(r) + 1 /\ \A i \in 1 .. Len(r) : SubSeq(ReadOf(ts, m), 1, i) = SubSeq(r, 1, i)
      <4> HIDE DEF r
      <4> QED BY <2>1, <3>1, <3>2, PrefixOfMore
    <3>4. CASE k \in 1 .. Len(t)
      <4>1. k \in 1 .. Len(r)
        BY <2>1, <3>2, <3>4
      <4>2. ReadOf(ts, m)[k] = r[k]
        <5> HIDE DEF r
        <5> QED BY <2>1, <3>1, <3>2, <4>1
      <4>3. SubSeq(ReadOf(ts, m), 1, k) = SubSeq(r, 1, k)
        BY <3>3, <4>1
      <4> QED BY <1>3, <2>1, <2>2, <3>2, <3>4, <4>2, <4>3, CutStays DEF t
    <3>5. CASE k = Len(t) + 1
      <4>1. k \in 1 .. Len(r) /\ SubSeq(r, 1, k) = r
        BY <2>1, <3>2, <3>5, PrefixOfMore
      <4>2. SubSeq(ReadOf(ts, m), 1, k) = r
        BY <3>3, <4>1
      <4>3. ReadOf(ts, m)[k] = p
        <5>1. ReadOf(ts, m)[k] = r[k]
          <6> HIDE DEF r
          <6> QED BY <2>1, <3>1, <3>2, <4>1
        <5>2. r[k] = p
          BY <2>1, <3>5
        <5> QED BY <5>1, <5>2
      <4> QED BY <2>2, <4>2, <4>3 DEF IsCut, t, p
    <3>6. CASE k = Len(t) + 2
      <4>1. ReadOf(ts, m)[k] = q
        <5> HIDE DEF r
        <5>1. k = Len(r) + 1
          BY <2>1, <3>2, <3>6
        <5> QED BY <2>1, <3>1, <3>2, <5>1
      <4> QED BY <3>1, <4>1
    <3>7. Len(ReadOf(ts, m)) = Len(t) + 2
      <4> HIDE DEF r
      <4> QED BY <2>1, <3>2, <3>3
    <3> QED BY <2>1, <3>4, <3>5, <3>6, <3>7
  <2>5. CASE IsMended(ts, m)
    <3> DEFINE u == ReadOf(ts, m - 2)
               z == <<p[1], 0>>
    <3>1. m > 1 /\ z \in Spots /\ Split!Kind(z) = "wide" /\ ReadOf(ts, m) = Append(u, z)
      BY <2>5 DEF IsMended
    <3>2. m - 2 \in 0 .. m - 1 /\ u \in Seq(Spots) /\ Len(u) \in Nat
      <4>1. m - 1 \in 1 .. n /\ (m - 1) - 1 = m - 2 /\ m - 2 \in 0 .. m - 1
        BY <1>1, <3>1
      <4>2. ReadOf(ts, (m - 1) - 1) \in Seq(Spots) /\ Len(ReadOf(ts, (m - 1) - 1)) \in Nat
        BY <4>1, SomeToken
      <4> QED BY <4>1, <4>2
    <3> HIDE DEF u, z
    <3>3. CASE k \in 1 .. Len(u)
      BY <1>3, <2>1, <2>2, <3>1, <3>2, <3>3, CutStays DEF u
    <3>4. CASE k = Len(u) + 1
      <4>1. ReadOf(ts, m)[k] = z
        BY <3>1, <3>2, <3>4
      <4> QED BY <3>1, <4>1
    <3>5. Len(ReadOf(ts, m)) = Len(u) + 1
      BY <3>1, <3>2, PrefixOfMore
    <3> QED BY <3>2, <3>3, <3>4, <3>5
  <2> QED BY <2>2, <2>3, <2>4, <2>5, ReadIs
<1>4. 0 \in K /\ \A m \in 1 .. n : m - 1 \in K => m \in K
  <2>1. 0 \in 0 .. n
    BY <1>1
  <2>2. ASSUME NEW m \in 1 .. n, m - 1 \in K PROVE m \in K
    <3>1. CutsAre(ts, m - 1) /\ (m - 1 # 0 => CutsAre(ts, (m - 1) - 1))
      BY <2>2
    <3>2. (m - 1) - 1 = m - 2 /\ (m > 1 => m - 1 # 0) /\ m \in 0 .. n
      BY <1>1
    <3>3. CutsAre(ts, m)
      BY <1>3, <3>1, <3>2
    <3> QED BY <3>1, <3>2, <3>3
  <2> QED BY <1>2, <2>1, <2>2
<1> HIDE DEF K
<1>5. \A m \in 0 .. n : m \in K
  BY <1>1, <1>4, Induction
<1> QED BY <1>5 DEF K

\* What is taken of a text that is cut at a mark.
LEMMA CutIs ==
  ASSUME ContentTyped, NEW ts, Lined(content, ts), NEW m \in 1 .. Len(ts),
         NEW k \in 1 .. Len(ReadOf(ts, m)), Split!Kind(ReadOf(ts, m)[k]) = "mark"
  PROVE  \E j \in 1 .. m :
           /\ Split!Kind(Start(ts[j])) = "mark"
           /\ SubSeq(ReadOf(ts, m), 1, k) \in Seq(Spots)
           /\ Runs(SubSeq(ReadOf(ts, m), 1, k), Start(ts[1]), Start(ts[j]))
           /\ Len(Split!Encode(SubSeq(ReadOf(ts, m), 1, k))) = j
<1>0. m \in 0 .. Len(ts) /\ Len(ts) \in Nat
  BY SomeToken
<1>1. PICK j \in 1 .. m : Split!Kind(Start(ts[j])) = "mark"
                          /\ SubSeq(ReadOf(ts, m), 1, k) = Append(ReadOf(ts, j - 1), Start(ts[j]))
  BY <1>0, MarksAre DEF CutsAre, IsCut
<1> DEFINE t == ReadOf(ts, j - 1)
           p == Start(ts[j])
           e == SubSeq(ts, 1, j - 1)
<1>2. j \in 1 .. Len(ts) /\ j - 1 \in 0 .. Len(ts) /\ 1 \in 1 .. Len(ts)
  BY <1>0
<1>3. p \in Spots /\ t \in Seq(Spots) /\ Start(ts[1]) \in Spots /\ Append(t, p) \in Seq(Spots)
      /\ ts \in Seq(Seq(Spots))
  BY <1>2, SomeToken
<1>4. p[2] = 0
  BY <1>1, KindIs, <1>3
<1>5. Split!Joined(t, p) = Append(t, p)
  <2>1. p[2] # 2
    BY <1>4
  <2> HIDE DEF t, p
  <2> QED BY <1>3, <2>1, JoinedIs
<1>6. Runs(Append(t, p), Start(ts[1]), p)
  <2>1. CASE j = 1
    <3>1. t = <<>>
      <4>1. j - 1 = 0
        BY <2>1
      <4>2. ReadOf(ts, 0) = <<>>
        BY <1>2, ReadGrows
      <4> QED BY <4>1, <4>2
    <3>2. Append(t, p) = <<p>> /\ p[1] \in Nat /\ Start(ts[1]) = p
      <4>1. p[1] \in Nat /\ Start(ts[1]) = p
        BY <1>3, <2>1, KindIs
      <4>2. Append(<<>>, p) = <<p>>
        <5> HIDE DEF p
        <5> QED OBVIOUS
      <4> QED BY <3>1, <4>1, <4>2
    <3> HIDE DEF t, p
    <3> QED BY <3>2 DEF Runs
  <2>2. CASE j # 1
    <3>1. j - 1 \in 1 .. Len(ts) /\ (j - 1) + 1 = j /\ j - 1 \in 1 .. Len(ts) - 1
      BY <1>0, <1>2, <2>2
    <3>2. Runs(t, Start(ts[1]), End(ts[j - 1])) /\ ComesAfter(End(ts[j - 1]), p) /\ End(ts[j - 1]) \in Spots
      BY <3>1, ReadRuns, SomeToken DEF Lined
    <3>3. Runs(Split!Joined(t, p), Start(ts[1]), p)
      <4> HIDE DEF t, p
      <4> QED BY <1>3, <3>2, RunsGo
    <3> QED BY <1>5, <3>3
  <2> QED BY <2>1, <2>2
<1>7. Split!Encode(Append(t, p)) = Append(e, <<p>>) /\ e \in Seq(Seq(Spots)) /\ Len(e) = j - 1
  <2>1. Split!Encode(t) = e
    BY <1>2, ReadBack
  <2>2. e \in Seq(Seq(Spots)) /\ Len(e) = j - 1
    BY <1>2, <1>3, BeginningGrows
  <2>3. Alone(e, p)
    BY <1>1 DEF Alone
  <2>4. e \in TokenLists
    BY <2>2 DEF TokenLists
  <2> HIDE DEF t, e, p
  <2>5. Split!Encode(Append(t, p)) = Split!Tokenized(e, p)
    BY <1>3, <2>1, EncodeAppends
  <2> QED BY <1>3, <2>2, <2>3, <2>4, <2>5, TokenizedIs
<1>8. Len(Append(e, <<p>>)) = j
  <2>1. <<p>> \in Seq(Spots)
    BY <1>3
  <2> HIDE DEF e, p
  <2> QED BY <1>2, <1>7, <2>1
<1> QED BY <1>1, <1>3, <1>6, <1>7, <1>8

-----------------------------------------------------------------------------
(* What is taken of the tokens                                             *)

Step(p, q)    == p[1] < q[1] \/ (p = <<q[1], 1>> /\ q[2] = 2)
Seen(all, i)  == \E k \in 1 .. Len(all) : all[k][1] = i
\* The tail of a mark at which a text was cut; ends are the places of the cuts.
Dropped(w, ends, i) == i > 1 /\ w[i] = "tail" /\ w[i - 1] = "mark" /\ i - 1 \in ends
EndsOf(rs)          == {rs[k][Len(rs[k])][1] : k \in {h \in DOMAIN rs : rs[h] # <<>>}}

\* Of the content w, all has been taken, and the tokens ts are left.
TakenSo(w, ends, all, ts) ==
  /\ all \in Seq(SpotsOf(w))
  /\ \A k \in 1 .. Len(all) - 1 : Step(all[k], all[k + 1])
  /\ ts # <<>> =>
       /\ End(ts[Len(ts)])[1] = Len(w)
       /\ all # <<>> => Step(all[Len(all)], Start(ts[1]))
       /\ \A i \in 1 .. Len(w) : i < Start(ts[1])[1] => Seen(all, i) \/ Dropped(w, ends, i)
  /\ ts = <<>> /\ all # <<>> => \A i \in 1 .. Len(w) : Seen(all, i) \/ Dropped(w, ends, i)

\* A part is its character's place and its half.
LEMMA SpotIs ==
  ASSUME NEW w, NEW p \in SpotsOf(w), Len(w) \in Nat
  PROVE  p = <<p[1], p[2]>> /\ p[1] \in 1 .. Len(w) /\ p[1] \in Nat /\ p[2] \in {0, 1, 2}
BY DEF SpotsOf

\* An empty list has no members.
LEMMA EmptyIs == ASSUME NEW S, NEW s \in Seq(S) PROVE s = <<>> <=> Len(s) = 0
OBVIOUS

\* The members of a list from one place on.
LEMMA RestIs ==
  ASSUME NEW S, NEW s \in Seq(S), NEW c \in 1 .. Len(s), NEW r, r = SubSeq(s, c + 1, Len(s))
  PROVE  /\ r \in Seq(S) /\ Len(r) = Len(s) - c /\ \A k \in 1 .. Len(r) : r[k] = s[c + k]
         /\ r = <<>> <=> c = Len(s)
<1>1. r \in Seq(S) /\ Len(r) = Len(s) - c /\ \A k \in 1 .. Len(r) : r[k] = s[c + k]
  OBVIOUS
<1>2. r = <<>> <=> Len(r) = 0
  BY <1>1, EmptyIs
<1>3. r = <<>> <=> c = Len(s)
  BY <1>1, <1>2
<1> QED BY <1>1, <1>3

\* Tokens in line stay so without the first of them.
LEMMA RestIsLined ==
  ASSUME NEW w, NEW ts, Lined(w, ts), NEW c \in 1 .. Len(ts)
  PROVE  Lined(w, SubSeq(ts, c + 1, Len(ts)))
<1> DEFINE r == SubSeq(ts, c + 1, Len(ts))
<1>1. ts \in Seq(Seq(SpotsOf(w))) /\ Len(ts) \in Nat
  BY DEF Lined
<1>2. r \in Seq(Seq(SpotsOf(w))) /\ Len(r) = Len(ts) - c /\ \A k \in 1 .. Len(r) : r[k] = ts[c + k]
  BY <1>1, RestIs
<1> HIDE DEF r
<1>3. \A k \in 1 .. Len(r) : IsToken(w, r[k])
  <2> TAKE k \in 1 .. Len(r)
  <2>1. c + k \in 1 .. Len(ts)
    BY <1>1, <1>2
  <2> QED BY <1>2, <2>1 DEF Lined
<1>4. \A k \in 1 .. Len(r) - 1 : /\ ComesAfter(End(r[k]), Start(r[k + 1]))
                                 /\ ~(KindOf(w, End(r[k])) = "mark" /\ KindOf(w, Start(r[k + 1])) = "tail")
  <2> TAKE k \in 1 .. Len(r) - 1
  <2>1. c + k \in 1 .. Len(ts) - 1 /\ k \in 1 .. Len(r) /\ k + 1 \in 1 .. Len(r) /\ c + (k + 1) = (c + k) + 1
    BY <1>1, <1>2
  <2>2. r[k] = ts[c + k] /\ r[k + 1] = ts[(c + k) + 1]
    BY <1>2, <2>1
  <2> QED BY <2>1, <2>2 DEF Lined
<1> QED BY <1>2, <1>3, <1>4 DEF Lined, r

\* A number between the first and the last of some is one of them.
LEMMA Behind ==
  ASSUME NEW f \in Nat, NEW b \in Nat, NEW z \in Nat, NEW i \in Nat, f + b - 1 = z, i =< z
  PROVE  i - f + 1 =< b
OBVIOUS

\* The same for the number counted from the first.
LEMMA CountedFrom ==
  ASSUME NEW f \in Nat, NEW i \in Nat, i >= f
  PROVE  i - f + 1 \in Int /\ f + (i - f + 1) - 1 = i /\ i - f + 1 >= 1
OBVIOUS

\* So many from the first end at the last.
LEMMA Counted ==
  ASSUME NEW f \in Nat, NEW z \in Nat, NEW b \in Nat, b = z - f + 1
  PROVE  f + b - 1 = z
OBVIOUS

\* The next is greater.
LEMMA Mounts ==
  ASSUME NEW f \in Nat, NEW j \in Nat
  PROVE  f + j - 1 < f + (j + 1) - 1
OBVIOUS

\* What is behind one number and not behind the next is the next.
LEMMA NextIs ==
  ASSUME NEW z \in Nat, NEW e \in Nat, NEW i \in Nat, e = z + 1, z >= 1, i > z, i =< e
  PROVE  i = e /\ i - 1 = z /\ i > 1
OBVIOUS

\* More cuts leave what is taken as it is.
LEMMA MoreCuts ==
  ASSUME NEW w, NEW ts, NEW all, NEW ends, NEW cuts, ends \subseteq cuts, TakenSo(w, ends, all, ts)
  PROVE  TakenSo(w, cuts, all, ts)
<1>1. \A i : Dropped(w, ends, i) => Dropped(w, cuts, i)
  BY DEF Dropped
<1> QED BY <1>1 DEF TakenSo

\* A text more adds the place where it ends to the cuts.
LEMMA EndsGrow ==
  ASSUME NEW S, NEW rs \in Seq(Seq(S)), NEW t \in Seq(S)
  PROVE  /\ EndsOf(rs) \subseteq EndsOf(Append(rs, t))
         /\ Len(t) >= 1 => t[Len(t)][1] \in EndsOf(Append(rs, t))
<1> DEFINE u == Append(rs, t)
           n == Len(rs)
<1>1. /\ n \in Nat /\ DOMAIN rs = 1 .. n /\ DOMAIN u = 1 .. n + 1
      /\ u[n + 1] = t /\ \A k \in 1 .. n : u[k] = rs[k]
  OBVIOUS
<1> HIDE DEF u, n
<1>2. \A k \in DOMAIN rs : k \in DOMAIN u /\ u[k] = rs[k]
  BY <1>1
<1>3. n + 1 \in DOMAIN u
  BY <1>1
<1>4. Len(t) >= 1 => t # <<>>
  BY EmptyIs
<1> QED BY <1>1, <1>2, <1>3, <1>4 DEF EndsOf, u

\* What is taken goes on with a text that runs from the next token to the end
\* of one, or to the mark of it, and the tokens behind it are left.
LEMMA TakenGoes ==
  ASSUME NEW w, Len(w) \in Nat, NEW ts, Lined(w, ts), NEW all,
         NEW ends, NEW cuts, ends \subseteq cuts, TakenSo(w, ends, all, ts),
         NEW c \in 1 .. Len(ts), NEW t \in Seq(SpotsOf(w)), NEW z, Runs(t, Start(ts[1]), z),
         z = End(ts[c]) \/ (z = Start(ts[c]) /\ KindOf(w, z) = "mark" /\ z[1] \in cuts)
  PROVE  TakenSo(w, cuts, all \o t, SubSeq(ts, c + 1, Len(ts)))
<1> DEFINE S == SpotsOf(w)
           u == all \o t
           r == SubSeq(ts, c + 1, Len(ts))
           a == Len(all)
           b == Len(t)
           f == Start(ts[1])
           e == End(ts[c])
           g == Start(r[1])
<1>1. /\ all \in Seq(S) /\ t \in Seq(S) /\ u \in Seq(S) /\ a \in Nat /\ b \in Nat /\ Len(u) = a + b /\ b >= 1
      /\ \A k \in 1 .. a : u[k] = all[k]
      /\ \A k \in 1 .. b : u[a + k] = t[k]
  <2>1. all \in Seq(S) /\ b >= 1
    BY DEF TakenSo, Runs
  <2> QED BY <2>1
<1>2. /\ ts \in Seq(Seq(S)) /\ Len(ts) \in Nat /\ c \in Nat /\ Len(ts) >= 1 /\ ts # <<>>
      /\ IsToken(w, ts[1]) /\ IsToken(w, ts[c])
  <2>1. 1 \in 1 .. Len(ts) /\ Len(ts) >= 1
    BY DEF Lined
  <2> QED BY <2>1 DEF Lined
<1>3. /\ f \in S /\ e \in S /\ f[1] \in Nat /\ e[1] \in Nat /\ e = <<e[1], e[2]>> /\ f[1] >= 1 /\ e[1] \in 1 .. Len(w)
      /\ e[2] \in {0, 1, 2}
  <2>1. f \in S /\ e \in S
    BY <1>2, TokenIs
  <2> QED BY <2>1, SpotIs
<1>4. \/ z = e
      \/ z[2] = 0 /\ e[2] = 0 /\ e[1] = z[1] + 1 /\ w[z[1]] = "mark" /\ w[e[1]] = "tail" /\ z[1] \in Nat /\ z[1] >= 1
         /\ z[1] \in cuts
  <2>1. CASE z = e
    BY <2>1
  <2>2. CASE z = Start(ts[c]) /\ KindOf(w, z) = "mark" /\ z[1] \in cuts
    <3>1. z \in S /\ z[1] \in Nat /\ z[1] >= 1
      BY <1>2, <2>2, TokenIs, SpotIs
    <3> QED BY <1>2, <2>2, <3>1, TokenIs
  <2> QED BY <2>1, <2>2
<1>5. /\ \A k \in 1 .. b : t[k][1] = f[1] + k - 1
      /\ b = z[1] - f[1] + 1
      /\ f[2] = 2 => t[1] = f
      /\ z[2] = 1 => t[b] = z
  BY DEF Runs
<1>6. /\ r \in Seq(Seq(S)) /\ Len(r) = Len(ts) - c
      /\ \A k \in 1 .. Len(r) : r[k] = ts[c + k]
      /\ r = <<>> <=> c = Len(ts)
  <2>1. r = SubSeq(ts, c + 1, Len(ts))
    OBVIOUS
  <2> HIDE DEF S, u, a, b, f, e, g, r
  <2>2. r \in Seq(Seq(S))
    BY <1>2, <2>1, RestIs
  <2>3. Len(r) = Len(ts) - c
    BY <1>2, <2>1, RestIs
  <2>4. \A k \in 1 .. Len(r) : r[k] = ts[c + k]
    BY <1>2, <2>1, RestIs
  <2>5. r = <<>> <=> c = Len(ts)
    <3>1. r = <<>> <=> Len(r) = 0
      BY <2>2, EmptyIs
    <3> QED BY <1>2, <2>3, <3>1
  <2> QED BY <2>2, <2>3, <2>4, <2>5
<1>7. r # <<>> => ComesAfter(e, g) /\ g \in S /\ g[1] \in Nat
  <2> SUFFICES ASSUME r # <<>> PROVE ComesAfter(e, g) /\ g \in S /\ g[1] \in Nat
    OBVIOUS
  <2>1. c \in 1 .. Len(ts) - 1 /\ 1 \in 1 .. Len(r) /\ c + 1 \in 1 .. Len(ts)
    BY <1>2, <1>6
  <2>2. r[1] = ts[c + 1] /\ IsToken(w, ts[c + 1])
    BY <1>6, <2>1 DEF Lined
  <2>3. ComesAfter(e, Start(ts[c + 1]))
    BY <2>1 DEF Lined
  <2>4. Start(ts[c + 1]) \in S
    BY <2>2, TokenIs
  <2> QED BY <2>2, <2>3, <2>4, SpotIs
<1> HIDE DEF u, r, a, b, f, e, g, S
<1>15. f[1] \in Nat /\ e[1] \in Nat /\ f[1] >= 1 /\ e[1] >= 1 /\ a \in Nat /\ b \in Nat /\ b >= 1
  BY <1>1, <1>3
<1>8. z[1] \in Nat /\ z[1] =< e[1] /\ f[1] + b - 1 = z[1]
  <2>1. z[1] \in Nat /\ z[1] =< e[1]
    BY <1>4, <1>15
  <2>2. b = z[1] - f[1] + 1
    BY <1>5
  <2> QED BY <1>15, <2>1, <2>2, Counted
<1>9. \A k \in 1 .. Len(u) - 1 : Step(u[k], u[k + 1])
  <2> TAKE k \in 1 .. Len(u) - 1
  <2>1. CASE k \in 1 .. a - 1
    <3>1. Step(all[k], all[k + 1])
      BY <2>1 DEF TakenSo, a
    <3>2. k \in 1 .. a /\ k + 1 \in 1 .. a
      BY <1>1, <2>1
    <3> QED BY <1>1, <3>1, <3>2
  <2>2. CASE k = a
    <3>1. all # <<>>
      BY <1>1, <2>2 DEF a
    <3>2. Step(all[a], f)
      BY <1>2, <3>1 DEF TakenSo, a, f
    <3>3. u[k] = all[a] /\ u[k + 1] = t[1]
      <4>1. k \in 1 .. a /\ 1 \in 1 .. b
        BY <1>1, <2>2
      <4> QED BY <1>1, <2>2, <4>1
    <3>4. t[1][1] = f[1]
      <4>1. 1 \in 1 .. b /\ f[1] + 1 - 1 = f[1]
        BY <1>1, <1>3
      <4> QED BY <1>5, <4>1
    <3> QED BY <1>5, <3>2, <3>3, <3>4 DEF Step
  <2>3. CASE k > a
    <3> DEFINE j == k - a
    <3>1. j \in 1 .. b /\ j + 1 \in 1 .. b /\ k = a + j /\ k + 1 = a + (j + 1)
      BY <1>1, <2>3
    <3> HIDE DEF j
    <3>2. u[k] = t[j] /\ u[k + 1] = t[j + 1]
      BY <1>1, <3>1
    <3>3. t[j][1] = f[1] + j - 1 /\ t[j + 1][1] = f[1] + (j + 1) - 1
      BY <1>5, <3>1
    <3>5. j \in Nat
      BY <1>15, <3>1
    <3>6. f[1] + j - 1 < f[1] + (j + 1) - 1
      BY <1>15, <3>5, Mounts
    <3>4. t[j][1] < t[j + 1][1]
      BY <3>3, <3>6
    <3> QED BY <3>2, <3>4 DEF Step
  <2> QED BY <1>1, <2>1, <2>2, <2>3
<1>10. u # <<>> /\ u[Len(u)] = t[b]
  <2>1. b \in 1 .. b
    BY <1>1
  <2> QED BY <1>1, <2>1
<1>11. r # <<>> => Step(u[Len(u)], g)
  <2> SUFFICES ASSUME r # <<>> PROVE Step(t[b], g)
    BY <1>10
  <2>1. t[b][1] = z[1]
    <3>1. b \in 1 .. b /\ f[1] + b - 1 = z[1]
      BY <1>1, <1>8
    <3> QED BY <1>5, <3>1
  <2>2. CASE e[2] # 1
    <3>1. g[1] = e[1] + 1
      BY <1>7, <2>2 DEF ComesAfter
    <3>2. z[1] < g[1]
      BY <1>8, <1>15, <3>1
    <3> QED BY <2>1, <3>2 DEF Step
  <2>3. CASE e[2] = 1
    <3>1. z = e /\ t[b] = e /\ g = <<e[1], 2>>
      BY <1>4, <1>5, <1>7, <2>3 DEF ComesAfter
    <3>2. g[1] = e[1] /\ g[2] = 2
      BY <3>1
    <3> QED BY <1>3, <2>3, <3>1, <3>2 DEF Step
  <2> QED BY <2>2, <2>3
<1>12. \A i \in 1 .. Len(w) : i =< e[1] => Seen(u, i) \/ Dropped(w, cuts, i)
  <2> SUFFICES ASSUME NEW i \in 1 .. Len(w), i =< e[1] PROVE Seen(u, i) \/ Dropped(w, cuts, i)
    OBVIOUS
  <2>1. CASE i < f[1]
    <3>1. Seen(all, i) \/ Dropped(w, ends, i)
      BY <1>2, <2>1 DEF TakenSo, f
    <3>3. Dropped(w, ends, i) => Dropped(w, cuts, i)
      BY DEF Dropped
    <3>2. Seen(all, i) => Seen(u, i)
      <4>1. \A k \in 1 .. a : k \in 1 .. Len(u)
        BY <1>1
      <4> QED BY <1>1, <4>1 DEF Seen, a
    <3> QED BY <3>1, <3>2, <3>3
  <2>2. CASE i >= f[1] /\ i =< z[1]
    <3> DEFINE k == i - f[1] + 1
    <3>1. k \in 1 .. b /\ a + k \in 1 .. Len(u) /\ f[1] + k - 1 = i
      <4>1. f[1] \in Nat /\ b \in Nat /\ a \in Nat /\ i \in Nat /\ Len(u) = a + b
        BY <1>1, <1>15
      <4>2. k \in Int /\ f[1] + k - 1 = i /\ k >= 1
        BY <2>2, <4>1, CountedFrom
      <4>3. k =< b
        BY <1>8, <2>2, <4>1, Behind
      <4> HIDE DEF k
      <4> QED BY <4>1, <4>2, <4>3
    <3> HIDE DEF k
    <3>2. u[a + k] = t[k] /\ t[k][1] = i
      BY <1>1, <1>5, <3>1
    <3> QED BY <3>1, <3>2 DEF Seen
  <2>3. CASE i > z[1]
    <3>1. z[1] # e[1]
      BY <1>3, <1>8, <2>3
    <3>2. e[1] = z[1] + 1 /\ w[z[1]] = "mark" /\ w[e[1]] = "tail" /\ z[1] >= 1 /\ z[1] \in cuts
      BY <1>4, <3>1
    <3>3. i = e[1] /\ i - 1 = z[1] /\ i > 1
      BY <1>8, <1>15, <2>3, <3>2, NextIs
    <3> QED BY <3>2, <3>3 DEF Dropped
  <2> QED BY <1>3, <1>8, <2>1, <2>2, <2>3
<1>13. r # <<>> => /\ End(r[Len(r)])[1] = Len(w)
                   /\ \A i \in 1 .. Len(w) : i < g[1] => Seen(u, i) \/ Dropped(w, cuts, i)
  <2> SUFFICES ASSUME r # <<>>
               PROVE  /\ End(r[Len(r)])[1] = Len(w)
                      /\ \A i \in 1 .. Len(w) : i < g[1] => Seen(u, i) \/ Dropped(w, cuts, i)
    OBVIOUS
  <2>1. r[Len(r)] = ts[Len(ts)]
    <3>1. Len(r) \in 1 .. Len(r) /\ c + Len(r) = Len(ts)
      BY <1>2, <1>6
    <3> QED BY <1>6, <3>1
  <2>2. End(ts[Len(ts)])[1] = Len(w)
    BY <1>2 DEF TakenSo
  <2>3. g[1] =< e[1] + 1
    <3>1. g[1] = e[1] + 1 \/ g = <<e[1], 2>>
      BY <1>7 DEF ComesAfter
    <3>2. g[1] = e[1] + 1 \/ g[1] = e[1]
      BY <3>1
    <3> QED BY <1>3, <3>2
  <2> QED BY <1>3, <1>7, <1>12, <2>1, <2>2, <2>3
<1>14. r = <<>> => \A i \in 1 .. Len(w) : Seen(u, i) \/ Dropped(w, cuts, i)
  <2>1. r = <<>> => e[1] = Len(w)
    BY <1>2, <1>6 DEF TakenSo, e
  <2> QED BY <1>12, <2>1
<1> QED BY <1>1, <1>9, <1>11, <1>13, <1>14 DEF TakenSo, S, u, r, g

-----------------------------------------------------------------------------
(* The tokens of the whole content                                         *)

\* The token x may come after those of ts.
Fits(w, ts, x) ==
  /\ IsToken(w, x) /\ x \in Seq(SpotsOf(w))
  /\ ts # <<>> => /\ ComesAfter(End(ts[Len(ts)]), Start(x))
                  /\ ~(KindOf(w, End(ts[Len(ts)])) = "mark" /\ KindOf(w, Start(x)) = "tail")

\* Tokens in line stay so with one that may come after them.
LEMMA LinedMore == ASSUME NEW w, NEW ts, Lined(w, ts), NEW x, Fits(w, ts, x) PROVE Lined(w, Append(ts, x))
<1> DEFINE u == Append(ts, x)
           n == Len(ts)
<1>1. /\ ts \in Seq(Seq(SpotsOf(w))) /\ x \in Seq(SpotsOf(w)) /\ u \in Seq(Seq(SpotsOf(w)))
      /\ n \in Nat /\ Len(u) = n + 1 /\ u[n + 1] = x /\ \A k \in 1 .. n : u[k] = ts[k]
  <2>1. ts \in Seq(Seq(SpotsOf(w))) /\ x \in Seq(SpotsOf(w))
    BY DEF Lined, Fits
  <2> QED BY <2>1
<1>2. ts = <<>> <=> n = 0
  BY <1>1, EmptyIs
<1> HIDE DEF u, n
<1>3. \A k \in 1 .. Len(u) : IsToken(w, u[k])
  <2> TAKE k \in 1 .. Len(u)
  <2>1. CASE k \in 1 .. n
    BY <1>1, <2>1 DEF Lined, n
  <2>2. CASE k = n + 1
    BY <1>1, <2>2 DEF Fits
  <2> QED BY <1>1, <2>1, <2>2
<1>4. \A k \in 1 .. Len(u) - 1 : /\ ComesAfter(End(u[k]), Start(u[k + 1]))
                                 /\ ~(KindOf(w, End(u[k])) = "mark" /\ KindOf(w, Start(u[k + 1])) = "tail")
  <2> TAKE k \in 1 .. Len(u) - 1
  <2>1. CASE k \in 1 .. n - 1
    <3>1. k \in 1 .. n /\ k + 1 \in 1 .. n
      BY <1>1, <2>1
    <3>2. u[k] = ts[k] /\ u[k + 1] = ts[k + 1]
      BY <1>1, <3>1
    <3> QED BY <2>1, <3>2 DEF Lined, n
  <2>2. CASE k = n
    <3>1. n \in 1 .. n /\ ts # <<>>
      BY <1>1, <1>2, <2>2
    <3>2. u[k] = ts[Len(ts)] /\ u[k + 1] = x
      BY <1>1, <2>2, <3>1 DEF n
    <3> QED BY <3>1, <3>2 DEF Fits
  <2> QED BY <1>1, <2>1, <2>2
<1> QED BY <1>1, <1>3, <1>4 DEF Lined, u

\* Tokens in line stay so without the last.
LEMMA FrontIsLined ==
  ASSUME NEW w, NEW ts, Lined(w, ts), ts # <<>>
  PROVE  /\ Lined(w, Split!Front(ts)) /\ Split!Front(ts) \in Seq(Seq(SpotsOf(w)))
         /\ Len(Split!Front(ts)) = Len(ts) - 1 /\ Len(ts) \in Nat /\ Len(ts) >= 1
         /\ \A k \in 1 .. Len(ts) - 1 : Split!Front(ts)[k] = ts[k]
<1> DEFINE n == Len(ts)
           u == SubSeq(ts, 1, n - 1)
<1>1. ts \in Seq(Seq(SpotsOf(w))) /\ n \in Nat /\ n >= 1
  BY EmptyIs DEF Lined
<1>2. u \in Seq(Seq(SpotsOf(w))) /\ Len(u) = n - 1
  <2>1. n \in 1 .. Len(ts)
    BY <1>1
  <2> QED BY <1>1, <2>1, BeginningGrows
<1>3. \A k \in 1 .. n - 1 : u[k] = ts[k]
  BY <1>1
<1>4. Split!Front(ts) = u
  BY DEF Split!Front
<1> HIDE DEF u, n
<1>5. \A k \in 1 .. Len(u) : IsToken(w, u[k])
  BY <1>1, <1>2, <1>3 DEF Lined, n
<1>6. \A k \in 1 .. Len(u) - 1 : /\ ComesAfter(End(u[k]), Start(u[k + 1]))
                                 /\ ~(KindOf(w, End(u[k])) = "mark" /\ KindOf(w, Start(u[k + 1])) = "tail")
  <2> TAKE k \in 1 .. Len(u) - 1
  <2>1. k \in 1 .. n - 1 /\ k + 1 \in 1 .. n - 1
    BY <1>1, <1>2
  <2>2. u[k] = ts[k] /\ u[k + 1] = ts[k + 1]
    BY <1>3, <2>1
  <2> QED BY <2>1, <2>2 DEF Lined, n
<1>7. Lined(w, u)
  BY <1>2, <1>5, <1>6 DEF Lined
<1> QED BY <1>1, <1>2, <1>3, <1>4, <1>7 DEF n

\* The tokens ts are of the first k characters.
WholeTo(k, ts) ==
  /\ Lined(content, ts)
  /\ k = 0 <=> ts = <<>>
  /\ k # 0 => /\ Start(ts[1])[1] = 1
              /\ End(ts[Len(ts)])[1] = k /\ End(ts[Len(ts)])[2] # 1

\* The tokens of a content begin with its first character.
LEMMA WholeBegins ==
  ASSUME ContentTyped, NEW k \in 1 .. Len(content), NEW ts, WholeTo(k - 1, ts), NEW x, Fits(content, ts, x),
         k = 1 => Start(x)[1] = 1
  PROVE  /\ Lined(content, Append(ts, x)) /\ Append(ts, x) # <<>>
         /\ Start(Append(ts, x)[1])[1] = 1
         /\ Append(ts, x)[Len(Append(ts, x))] = x
<1>1. ts \in Seq(Seq(SpotsOf(content))) /\ x \in Seq(SpotsOf(content)) /\ Lined(content, ts)
  BY DEF WholeTo, Lined, Fits
<1>2. Lined(content, Append(ts, x))
  BY <1>1, LinedMore
<1>3. Append(ts, x) # <<>> /\ Append(ts, x)[Len(Append(ts, x))] = x
  <2>1. Append(ts, x) \in Seq(Seq(SpotsOf(content))) /\ Len(Append(ts, x)) = Len(ts) + 1
        /\ Append(ts, x)[Len(ts) + 1] = x /\ Len(ts) \in Nat
    BY <1>1
  <2>2. Len(Append(ts, x)) # 0
    BY <2>1
  <2> QED BY <2>1, <2>2, EmptyIs
<1>0. k - 1 = 0 <=> k = 1
  OBVIOUS
<1>4. CASE k = 1
  <2>1. ts = <<>>
    BY <1>0, <1>4 DEF WholeTo
  <2>2. Append(ts, x)[1] = x
    BY <2>1
  <2> QED BY <1>2, <1>3, <1>4, <2>2
<1>5. CASE k # 1
  <2>1. Start(ts[1])[1] = 1 /\ ts # <<>>
    BY <1>0, <1>5 DEF WholeTo
  <2>2. Len(ts) >= 1
    BY <1>1, <2>1, EmptyIs
  <2>3. Append(ts, x)[1] = ts[1]
    BY <1>1, <2>2
  <2> QED BY <1>2, <1>3, <2>1, <2>3
<1> QED BY <1>4, <1>5

\* One more character of the content is in the tokens.
LEMMA WholeGoes ==
  ASSUME ContentTyped, NEW k \in 1 .. Len(content), NEW ts, WholeTo(k - 1, ts)
  PROVE  WholeTo(k, Split!Tokenized(ts, <<k, 0>>))
<1> DEFINE p == <<k, 0>>
           u == Split!Tokenized(ts, p)
           n == Len(ts)
           l == ts[n]
<1>1. /\ SpotsOf(content) = Spots /\ p \in Spots /\ Lined(content, ts) /\ ts \in TokenLists /\ ts \in Seq(Seq(Spots))
      /\ Len(content) \in Nat /\ n \in Nat /\ k - 1 \in Nat /\ k \in Nat /\ k # 0
  BY DEF ContentTyped, WholeTo, Lined, SpotsOf, Spots, TokenLists
<1>2. p[1] = k /\ p[2] = 0 /\ KindOf(content, p) = content[k] /\ Split!Kind(p) = content[k]
  BY DEF KindOf, Split!Kind
<1>3. ts # <<>> => /\ k - 1 # 0 /\ End(l)[1] = k - 1 /\ End(l)[2] # 1 /\ n >= 1 /\ IsToken(content, l)
                   /\ End(l) \in Spots /\ Split!Last(Split!Last(ts)) = End(l)
  <2> SUFFICES ASSUME ts # <<>>
               PROVE  /\ k - 1 # 0 /\ End(l)[1] = k - 1 /\ End(l)[2] # 1 /\ n >= 1 /\ IsToken(content, l)
                      /\ End(l) \in Spots /\ Split!Last(Split!Last(ts)) = End(l)
    OBVIOUS
  <2>1. k - 1 # 0 /\ End(l)[1] = k - 1 /\ End(l)[2] # 1
    BY DEF WholeTo
  <2>2. n >= 1
    BY <1>1, EmptyIs
  <2>3. n \in 1 .. Len(ts)
    BY <1>1, <2>2
  <2>4. IsToken(content, l)
    BY <2>3 DEF WholeTo, Lined
  <2>5. End(l) \in Spots
    BY <1>1, <2>4, TokenIs
  <2> QED BY <2>1, <2>2, <2>4, <2>5 DEF Split!Last, End
<1>4. ts = <<>> => k = 1
  BY <1>1 DEF WholeTo
<1> HIDE DEF p, u, n, l
<1>5. \A q \in Spots : IsPart(content, q) =>
        /\ <<q>> \in Seq(Spots) /\ IsToken(content, <<q>>) /\ Start(<<q>>) = q /\ End(<<q>>) = q
  <2> TAKE q \in Spots
  <2>1. <<q>> \in Seq(Spots) /\ Len(<<q>>) = 1 /\ <<q>>[1] = q
    OBVIOUS
  <2> QED BY <1>1, <2>1 DEF IsToken, Start, End
<1>6. CASE Alone(ts, p)
  <2>1. IsPart(content, p)
    BY <1>1, <1>2, <1>6 DEF Alone, IsPart
  <2>2. Fits(content, ts, <<p>>)
    <3>1. ts # <<>> => ComesAfter(End(ts[Len(ts)]), p)
                       /\ ~(KindOf(content, End(ts[Len(ts)])) = "mark" /\ KindOf(content, p) = "tail")
      <4> SUFFICES ASSUME ts # <<>>
                   PROVE  ComesAfter(End(l), p) /\ ~(KindOf(content, End(l)) = "mark" /\ KindOf(content, p) = "tail")
        BY DEF l, n
      <4>1. End(l)[2] # 1 /\ p[2] # 2 /\ p[1] = End(l)[1] + 1
        BY <1>1, <1>2, <1>3
      <4>2. ~(Split!Kind(p) = "tail" /\ Split!Kind(End(l)) = "mark")
        BY <1>3, <1>6 DEF Alone
      <4> QED BY <4>1, <4>2, KindOfIs DEF ComesAfter
    <3> QED BY <1>1, <1>5, <2>1, <3>1 DEF Fits
  <2>3. u = Append(ts, <<p>>)
    BY <1>1, <1>6, TokenizedIs DEF u
  <2>4. Start(<<p>>) = p /\ End(<<p>>) = p
    BY <1>1, <1>5, <2>1
  <2>5. k = 1 => Start(<<p>>)[1] = 1
    BY <1>1, <1>2, <2>4
  <2> DEFINE x == <<p>>
  <2> HIDE DEF x
  <2>6. Lined(content, Append(ts, x)) /\ Append(ts, x) # <<>> /\ Start(Append(ts, x)[1])[1] = 1
        /\ Append(ts, x)[Len(Append(ts, x))] = x
    BY <1>1, <2>2, <2>5, WholeBegins DEF x
  <2>7. End(x)[1] = k /\ End(x)[2] # 1
    BY <1>2, <2>4 DEF x
  <2>8. WholeTo(k, Append(ts, x))
    <3> DEFINE v == Append(ts, x)
    <3>1. End(v[Len(v)])[1] = k /\ End(v[Len(v)])[2] # 1
      BY <2>6, <2>7
    <3>2. Lined(content, v) /\ v # <<>> /\ Start(v[1])[1] = 1
      BY <2>6
    <3> HIDE DEF v
    <3> QED BY <1>1, <3>1, <3>2 DEF WholeTo, v
  <2> QED BY <2>3, <2>8 DEF x, u, p
<1>7. CASE Split!Kind(p) = "wide"
  <2> DEFINE h == <<k, 1>>
             i == <<k, 2>>
             a == <<h>>
             b == <<i>>
             v == Append(ts, a)
  <2>1. h \in Spots /\ i \in Spots /\ IsPart(content, h) /\ IsPart(content, i)
        /\ h[1] = k /\ h[2] = 1 /\ i[1] = k /\ i[2] = 2
    <3>1. h \in Spots /\ i \in Spots /\ h[1] = k /\ h[2] = 1 /\ i[1] = k /\ i[2] = 2
      BY DEF Spots
    <3>2. content[k] = "wide"
      BY <1>2, <1>7
    <3> HIDE DEF h, i
    <3> QED BY <1>1, <3>1, <3>2 DEF IsPart
  <2>2. u = Append(v, b)
    <3>1. u = ts \o <<a, b>>
      BY <1>1, <1>2, <1>7, TokenizedIs DEF u
    <3>2. a \in Seq(Spots) /\ b \in Seq(Spots)
      BY <1>5, <2>1
    <3> HIDE DEF a, b
    <3> QED BY <1>1, <3>1, <3>2, TwoMore
  <2>3. ComesAfter(h, i)
    BY DEF ComesAfter
  <2> HIDE DEF h, i
  <2>4. /\ a \in Seq(Spots) /\ IsToken(content, a) /\ Start(a) = h /\ End(a) = h
        /\ b \in Seq(Spots) /\ IsToken(content, b) /\ Start(b) = i /\ End(b) = i
    BY <1>5, <2>1
  <2> HIDE DEF a, b
  <2>5. KindOf(content, h) = "half" /\ KindOf(content, i) = "half"
    BY <2>1 DEF KindOf
  <2>6. Fits(content, ts, a)
    <3>1. ts # <<>> => ComesAfter(End(ts[Len(ts)]), h)
      <4> SUFFICES ASSUME ts # <<>> PROVE ComesAfter(End(l), h)
        BY DEF l, n
      <4>1. End(l)[2] # 1 /\ h[2] # 2 /\ h[1] = End(l)[1] + 1
        BY <1>1, <1>3, <2>1
      <4> QED BY <4>1 DEF ComesAfter
    <3> QED BY <1>1, <2>4, <2>5, <3>1 DEF Fits
  <2>7. Lined(content, v) /\ v # <<>> /\ Start(v[1])[1] = 1 /\ v[Len(v)] = a
    <3>1. k = 1 => Start(a)[1] = 1
      BY <1>1, <2>1, <2>4
    <3> QED BY <1>1, <2>6, <3>1, WholeBegins
  <2> HIDE DEF v
  <2>8. Fits(content, v, b)
    <3>1. ComesAfter(End(v[Len(v)]), Start(b))
      BY <2>3, <2>4, <2>7
    <3>2. KindOf(content, Start(b)) # "tail"
      BY <2>4, <2>5
    <3> QED BY <1>1, <2>4, <3>1, <3>2 DEF Fits
  <2>9. Lined(content, Append(v, b))
    BY <2>7, <2>8, LinedMore
  <2>10. v \in Seq(Seq(Spots)) /\ Len(v) >= 1
    BY <1>1, <2>7, EmptyIs DEF Lined
  <2>11. Append(v, b)[1] = v[1] /\ Append(v, b)[Len(Append(v, b))] = b /\ Append(v, b) # <<>>
    BY <2>4, <2>10
  <2>12. WholeTo(k, u)
    <3>1. End(u[Len(u)])[1] = k /\ End(u[Len(u)])[2] # 1 /\ Start(u[1])[1] = 1 /\ u # <<>>
      BY <2>1, <2>2, <2>4, <2>7, <2>11
    <3> QED BY <1>1, <2>2, <2>9, <3>1 DEF WholeTo
  <2> QED BY <2>12 DEF u, p
<1>8. CASE Split!Kind(p) = "tail" /\ ts # <<>> /\ Split!Kind(Split!Last(Split!Last(ts))) = "mark"
  <2> DEFINE m == End(l)
             v == Split!Front(ts)
             x == <<m, p>>
  <2>1. m \in Spots /\ m[1] = k - 1 /\ KindOf(content, m) = "mark" /\ k - 1 # 0
    BY <1>3, <1>8, KindOfIs
  <2>2. m[2] = 0 /\ content[m[1]] = "mark"
    BY <2>1 DEF KindOf
  <2>3. l = <<m>> /\ Start(l) = m
    <3>1. (l = <<Start(l)>> /\ m = Start(l)) \/ content[m[1]] = "tail"
      BY <1>3, <1>8, TokenIs
    <3> QED BY <2>2, <3>1
  <2>4. u = Append(v, x)
    <3>1. u = Append(v, Append(Split!Last(ts), p))
      BY <1>1, <1>8, TokenizedIs DEF u
    <3>2. Split!Last(ts) = <<m>>
      BY <2>3 DEF Split!Last, l, n
    <3> HIDE DEF m, v
    <3>3. Append(<<m>>, p) = <<m, p>>
      BY <1>1, <2>1, PairIs
    <3> QED BY <3>1, <3>2, <3>3
  <2>5. Lined(content, v) /\ v \in Seq(Seq(Spots)) /\ Len(v) = n - 1 /\ \A j \in 1 .. n - 1 : v[j] = ts[j]
    BY <1>1, <1>8, FrontIsLined DEF n
  <2> HIDE DEF m, v
  <2>6. x \in Seq(Spots) /\ Start(x) = m /\ End(x) = p /\ IsToken(content, x)
    <3>1. Len(x) = 2 /\ x[1] = m /\ x[2] = p /\ x \in Seq(Spots)
      BY <1>1, <2>1
    <3>2. content[p[1]] = "tail" /\ p[1] = m[1] + 1
      BY <1>1, <1>2, <1>8, <2>1
    <3>3. IsTailed(content, x)
      BY <1>1, <1>2, <2>1, <2>2, <3>2 DEF IsTailed
    <3> HIDE DEF x
    <3> QED BY <3>1, <3>3 DEF IsToken, Start, End
  <2> HIDE DEF x
  <2>7. v # <<>> => /\ ComesAfter(End(v[Len(v)]), m)
                    /\ ~(KindOf(content, End(v[Len(v)])) = "mark" /\ KindOf(content, m) = "tail")
    <3> SUFFICES ASSUME v # <<>> PROVE ComesAfter(End(v[Len(v)]), m) /\ KindOf(content, m) # "tail"
      OBVIOUS
    <3>1. n - 1 \in 1 .. n - 1 /\ (n - 1) + 1 = n
      BY <1>1, <2>5, EmptyIs
    <3>2. v[Len(v)] = ts[n - 1]
      BY <2>5, <3>1
    <3>3. ComesAfter(End(ts[n - 1]), Start(ts[n]))
      BY <1>1, <3>1 DEF Lined, n
    <3> QED BY <2>1, <2>3, <3>2, <3>3 DEF l
  <2>8. Fits(content, v, x)
    BY <1>1, <2>6, <2>7 DEF Fits
  <2>9. Lined(content, u)
    BY <2>4, <2>5, <2>8, LinedMore
  <2>10. u[Len(u)] = x /\ u # <<>>
    BY <2>4, <2>5, <2>6
  <2>11. Start(u[1]) = Start(ts[1])
    <3>1. CASE n = 1
      <4>1. v = <<>>
        BY <2>5, <3>1, EmptyIs
      <4>2. u[1] = x
        BY <2>4, <4>1
      <4> QED BY <2>3, <2>6, <3>1, <4>2 DEF l
    <3>2. CASE n # 1
      <4>1. 1 \in 1 .. n - 1 /\ Len(v) >= 1
        BY <1>1, <1>3, <1>8, <2>5, <3>2
      <4>2. u[1] = v[1]
        BY <2>4, <2>5, <2>6, <4>1
      <4> QED BY <2>5, <4>1, <4>2
    <3> QED BY <3>1, <3>2
  <2>12. Start(ts[1])[1] = 1
    BY <2>1 DEF WholeTo
  <2>13. WholeTo(k, u)
    <3>1. End(u[Len(u)])[1] = k /\ End(u[Len(u)])[2] # 1
      BY <1>2, <2>6, <2>10
    <3> QED BY <1>1, <2>9, <2>10, <2>11, <2>12, <3>1 DEF WholeTo
  <2> QED BY <2>13 DEF u, p
<1> QED BY <1>6, <1>7, <1>8 DEF Alone

\* The content encoded is in line and whole.
LEMMA WholeIs ==
  ASSUME ContentTyped
  PROVE  /\ Len(content) \in Nat
         /\ WholeTo(Len(content), Split!Encode([i \in DOMAIN content |-> <<i, 0>>]))
<1> DEFINE n == Len(content)
           t == [i \in DOMAIN content |-> <<i, 0>>]
<1>1. content \in Seq(Split!Kinds) /\ n \in Nat /\ DOMAIN content = 1 .. n
  BY DEF ContentTyped
<1>2. t \in Seq(Spots) /\ Len(t) = n /\ \A k \in 1 .. n : t[k] = <<k, 0>>
  <2>1. t = [i \in 1 .. n |-> <<i, 0>>]
    BY <1>1
  <2>2. \A i \in 1 .. n : <<i, 0>> \in Spots
    BY <1>1 DEF Spots
  <2>3. t \in [1 .. n -> Spots]
    <3> HIDE DEF n
    <3> QED BY <2>1, <2>2
  <2> HIDE DEF t, n
  <2>4. t \in Seq(Spots)
    BY <1>1, <2>3
  <2>5. Len(t) = n
    BY <1>1, <2>3, <2>4
  <2>6. \A k \in 1 .. n : t[k] = <<k, 0>>
    BY <2>1
  <2> QED BY <2>4, <2>5, <2>6
<1>3. PICK f : Encodes(f, t) /\ Split!Encode(t) = f[Len(t)]
  <2> HIDE DEF t
  <2> QED BY <1>2, EncodeGoes
<1> HIDE DEF n, t
<1> DEFINE K == {k \in 0 .. n : WholeTo(k, f[k])}
<1>4. 0 \in K
  <2>1. f[0] = <<>> /\ 0 \in 0 .. n
    BY <1>1, <1>3 DEF Encodes
  <2>2. Lined(content, <<>>)
    <3>1. <<>> \in Seq(Seq(SpotsOf(content))) /\ Len(<<>>) = 0
      OBVIOUS
    <3> QED BY <3>1 DEF Lined
  <2> QED BY <2>1, <2>2 DEF WholeTo
<1>5. \A k \in 1 .. n : k - 1 \in K => k \in K
  <2> TAKE k \in 1 .. n
  <2> HAVE k - 1 \in K
  <2>1. WholeTo(k - 1, f[k - 1]) /\ k \in 0 .. n
    BY <1>1
  <2>2. f[k] = Split!Tokenized(f[k - 1], <<k, 0>>)
    BY <1>2, <1>3 DEF Encodes
  <2>3. WholeTo(k, Split!Tokenized(f[k - 1], <<k, 0>>))
    BY <2>1, WholeGoes DEF n
  <2> QED BY <2>1, <2>2, <2>3
<1> HIDE DEF K
<1>6. \A k \in 0 .. n : k \in K
  BY <1>1, <1>4, <1>5, Induction
<1>7. n \in 0 .. n
  BY <1>1
<1> QED BY <1>1, <1>2, <1>3, <1>6, <1>7 DEF K, n, t

-----------------------------------------------------------------------------
(* The chunk that is taken                                                 *)

\* The lesser of two numbers is one of them.
LEMMA SplitLesser ==
  ASSUME NEW a \in Nat, NEW b \in Nat
  PROVE  Split!Min({a, b}) \in {a, b} /\ Split!Min({a, b}) =< a /\ Split!Min({a, b}) =< b
<1>1. \E x \in {a, b} : \A y \in {a, b} : x =< y
  <2>1. CASE a =< b
    BY <2>1
  <2>2. CASE b =< a
    BY <2>2
  <2> QED BY <2>1, <2>2
<1> QED BY <1>1 DEF Split!Min

\* The greatest of some numbers is one of them.
LEMMA SplitGreatest ==
  ASSUME NEW n \in Nat, NEW S \in SUBSET (0 .. n), S # {}
  PROVE  Split!Max(S) \in S
<1>1. PICK x \in S : \A y \in S : y =< x
  BY Greatest
<1>2. \A y \in S : x >= y
  BY <1>1
<1> QED BY <1>2 DEF Split!Max

\* The text t is of the first j tokens, of the last of them the mark at least.
Taking(t, j) ==
  /\ j \in 1 .. Len(tokens) /\ t \in Seq(Spots)
  /\ \E z : /\ Runs(t, Start(tokens[1]), z)
            /\ z = End(tokens[j]) \/ (z = Start(tokens[j]) /\ KindOf(content, z) = "mark")

\* A chunk, and what is left of it when it is cut, is of as many tokens as are
\* counted for it.
LEMMA ChunkIs ==
  ASSUME ContentTyped, Lined(content, tokens), tokens # <<>>
  PROVE  /\ Taking(Split!Decode(Split!Chunk), Len(Split!Chunk))
         /\ Taking(Split!Cut(Split!Decode(Split!Chunk)), Split!Consumed(Split!Cut(Split!Decode(Split!Chunk))))
<1> DEFINE c == Split!Min({ChunkSize, Len(tokens)})
           t == ReadOf(tokens, c)
           k == Split!LastPunctuation(t)
<1>1. tokens \in Seq(Seq(Spots)) /\ Len(tokens) \in Nat /\ Len(tokens) >= 1 /\ SpotsOf(content) = Spots
  <2>1. tokens \in Seq(Seq(Spots)) /\ SpotsOf(content) = Spots
    BY DEF Lined, SpotsOf, Spots
  <2> QED BY <2>1, EmptyIs
<1>2. c \in 1 .. Len(tokens)
  <2>1. ChunkSize \in Nat \ {0}
    BY ExchangesAssumption DEF Split!SplitAssumption
  <2>2. c \in {ChunkSize, Len(tokens)} /\ c =< ChunkSize /\ c =< Len(tokens)
    BY <1>1, <2>1, SplitLesser
  <2> HIDE DEF c
  <2> QED BY <1>1, <2>1, <2>2
<1>3. Split!Chunk = SubSeq(tokens, 1, c) /\ Split!Decode(Split!Chunk) = t
  BY DEF Split!Chunk, ReadOf
<1>4. Len(Split!Chunk) = c
  <2> HIDE DEF c
  <2> QED BY <1>1, <1>2, <1>3
<1> HIDE DEF c, t
<1>5. t \in Seq(Spots)
  BY <1>2, SomeToken DEF t
<1>6. Taking(t, c)
  <2>1. Runs(t, Start(tokens[1]), End(tokens[c]))
    BY <1>2, ReadRuns DEF t
  <2> QED BY <1>2, <1>5, <2>1 DEF Taking
<1>7. Len(Split!Encode(t)) = c
  <2>1. Split!Encode(t) = SubSeq(tokens, 1, c)
    <3>1. c \in 0 .. Len(tokens)
      BY <1>2
    <3> QED BY <3>1, ReadBack DEF t
  <2> QED BY <1>3, <1>4, <2>1
<1>8. Split!Cut(t) = t \/ (k # 0 /\ Split!Cut(t) = SubSeq(t, 1, k))
  BY DEF Split!Cut
<1>9. k # 0 => k \in 1 .. Len(t) /\ Split!Kind(t[k]) = "mark"
  <2> DEFINE M == {i \in DOMAIN t : Split!Kind(t[i]) = "mark"}
  <2>1. {0} \cup M \in SUBSET (0 .. Len(t)) /\ {0} \cup M # {} /\ Len(t) \in Nat /\ DOMAIN t = 1 .. Len(t)
    BY <1>5
  <2>2. k = Split!Max({0} \cup M)
    BY DEF Split!LastPunctuation
  <2> HIDE DEF M, k
  <2>3. k \in {0} \cup M
    BY <2>1, <2>2, SplitGreatest
  <2> QED BY <2>1, <2>3 DEF M
<1>10. ASSUME k # 0, Split!Cut(t) = SubSeq(t, 1, k)
       PROVE  Taking(Split!Cut(t), Len(Split!Encode(Split!Cut(t))))
  <2>1. k \in 1 .. Len(t) /\ Split!Kind(t[k]) = "mark"
    BY <1>9, <1>10
  <2> HIDE DEF k
  <2>2. PICK j \in 1 .. c :
           /\ Split!Kind(Start(tokens[j])) = "mark"
           /\ SubSeq(t, 1, k) \in Seq(Spots)
           /\ Runs(SubSeq(t, 1, k), Start(tokens[1]), Start(tokens[j]))
           /\ Len(Split!Encode(SubSeq(t, 1, k))) = j
    BY <1>2, <2>1, CutIs DEF t
  <2>3. j \in 1 .. Len(tokens) /\ KindOf(content, Start(tokens[j])) = "mark"
    BY <1>1, <1>2, <2>2, KindOfIs
  <2> QED BY <1>10, <2>2, <2>3 DEF Taking
<1>11. Taking(Split!Cut(t), Len(Split!Encode(Split!Cut(t))))
  BY <1>6, <1>7, <1>8, <1>10
<1> QED BY <1>3, <1>4, <1>6, <1>11 DEF Split!Consumed

\* The text of all the tokens that are left.
LEMMA RestRead ==
  ASSUME ContentTyped, Lined(content, tokens)
  PROVE  /\ Split!Decode(tokens) \in Seq(Spots)
         /\ tokens = <<>> => Split!Decode(tokens) = <<>>
         /\ tokens # <<>> => /\ Taking(Split!Decode(tokens), Len(tokens))
                            /\ Runs(Split!Decode(tokens), Start(tokens[1]), End(tokens[Len(tokens)]))
<1>1. tokens \in Seq(Seq(Spots)) /\ Len(tokens) \in Nat /\ SpotsOf(content) = Spots
  BY DEF Lined, SpotsOf, Spots
<1>2. CASE tokens = <<>>
  <2>1. <<>> \in Seq(Seq(Spots)) /\ <<>> \in Seq(Spots)
    OBVIOUS
  <2>2. Split!Decode(tokens) = <<>>
    BY <1>2, <2>1, FlatAppends, Nothing DEF Split!Decode
  <2> QED BY <1>2, <2>1, <2>2
<1>3. CASE tokens # <<>>
  <2> DEFINE n == Len(tokens)
  <2>1. n \in 1 .. Len(tokens)
    BY <1>1, <1>3, EmptyIs
  <2>2. SubSeq(tokens, 1, n) = tokens
    <3>1. SubSeq(tokens, 1, n) \in Seq(Seq(Spots)) /\ Len(SubSeq(tokens, 1, n)) = n
          /\ \A i \in 1 .. n : SubSeq(tokens, 1, n)[i] = tokens[i]
      BY <1>1
    <3> QED BY <1>1, <3>1, SeqEqual
  <2>3. Split!Decode(tokens) = ReadOf(tokens, n)
    BY <2>2 DEF ReadOf
  <2>4. ReadOf(tokens, n) \in Seq(Spots)
    BY <2>1, SomeToken
  <2>5. Runs(ReadOf(tokens, n), Start(tokens[1]), End(tokens[n]))
    BY <2>1, ReadRuns
  <2> QED BY <1>3, <2>1, <2>3, <2>4, <2>5 DEF Taking
<1> QED BY <1>2, <1>3

-----------------------------------------------------------------------------
(* The batch of pieces                                                     *)

\* An injection of some numbers into themselves has all of them.
LEMMA SplitInjection ==
  ASSUME NEW n \in Nat, NEW p \in [1 .. n -> 1 .. n], Split!IsInjective(p)
  PROVE  \A k \in 1 .. n : \E i \in 1 .. n : p[i] = k
<1>1. p \in Injection(1 .. n, 1 .. n)
  BY DEF Split!IsInjective, Injection, IsInjective
<1>2. IsFiniteSet(1 .. n)
  BY FS_Interval
<1>3. p \in Surjection(1 .. n, 1 .. n)
  BY <1>1, <1>2, FS_Injection
<1> QED BY <1>3 DEF Surjection

\* An injection of some numbers into themselves that keeps their order is the
\* identity.
LEMMA InOrder ==
  ASSUME NEW n \in Nat, NEW p \in [1 .. n -> 1 .. n], Split!IsInjective(p),
         \A j, k \in 1 .. n : j < k => p[j] =< p[k]
  PROVE  \A k \in 1 .. n : p[k] = k
<1> DEFINE K == {k \in 1 .. n : p[k] # k}
<1> SUFFICES ASSUME K # {} PROVE FALSE
  OBVIOUS
<1>1. PICK k \in K : \A y \in K : k =< y
  <2>1. K \in SUBSET Nat
    OBVIOUS
  <2> HIDE DEF K
  <2> QED BY <2>1, Smallest
<1>2. k \in 1 .. n /\ p[k] # k /\ p[k] \in 1 .. n /\ \A y \in 1 .. n : y < k => p[y] = y
  <2>1. \A y \in 1 .. n : y < k => y \notin K
    BY <1>1
  <2> QED BY <1>1, <2>1
<1>3. \A x, y \in 1 .. n : p[x] = p[y] => x = y
  <2>1. DOMAIN p = 1 .. n
    OBVIOUS
  <2> QED BY <2>1 DEF Split!IsInjective
<1>4. ~(p[k] < k)
  BY <1>2, <1>3
<1>5. PICK i \in 1 .. n : p[i] = k
  BY <1>2, SplitInjection
<1>6. i > k
  <2>1. i # k /\ ~(i < k)
    BY <1>2, <1>5
  <2> QED BY <1>2, <2>1
<1>7. p[k] =< k
  BY <1>2, <1>5, <1>6
<1> QED BY <1>2, <1>4, <1>7

\* The data are n items in the places of a permutation, each with its index
\* and one of the values g.
IsAnswer(data, n, places, g) ==
  /\ DOMAIN data = 1 .. n
  /\ \A k \in 1 .. n : data[k].index = places[k] - 1 /\ data[k].embedding = g[places[k]]

\* What a provider answers with, n items in the places of a permutation, is
\* in the order of the pieces when it is sorted by the indexes.
LEMMA OrderedIs ==
  ASSUME NEW n \in Nat, NEW places \in [1 .. n -> 1 .. n], Split!IsInjective(places), NEW g,
         NEW data, IsAnswer(data, n, places, g)
  PROVE  /\ DOMAIN Split!Ordered(data) = 1 .. n
         /\ \A k \in 1 .. n : Split!Ordered(data)[k].embedding = g[k]
<1> DEFINE D == 1 .. n
           Sorts(p) == /\ Split!IsInjective(p)
                       /\ \A j, k \in DOMAIN data : j < k => data[p[j]].index =< data[p[k]].index
           order == CHOOSE p \in [DOMAIN data -> DOMAIN data] : Sorts(p)
           back == [k \in D |-> CHOOSE i \in D : places[i] = k]
<1>1. DOMAIN data = D /\ \A k \in D : data[k].index = places[k] - 1 /\ data[k].embedding = g[places[k]]
  BY DEF IsAnswer
<1>2. back \in [D -> D] /\ \A k \in D : places[back[k]] = k
  <2>1. \A k \in D : \E i \in D : places[i] = k
    BY SplitInjection
  <2>2. \A k \in D : back[k] \in D /\ places[back[k]] = k
    <3> HIDE DEF D
    <3> QED BY <2>1
  <2> QED BY <2>2
<1> HIDE DEF back
<1>3. Sorts(back)
  <2>1. Split!IsInjective(back)
    <3>1. \A j, k \in D : back[j] = back[k] => j = k
      BY <1>2
    <3>2. DOMAIN back = D
      BY <1>2
    <3> HIDE DEF D
    <3> QED BY <3>1, <3>2 DEF Split!IsInjective
  <2>2. ASSUME NEW j \in D, NEW k \in D, j < k PROVE data[back[j]].index =< data[back[k]].index
    <3>1. data[back[j]].index = j - 1 /\ data[back[k]].index = k - 1
      BY <1>1, <1>2
    <3> QED BY <2>2, <3>1
  <2> QED BY <1>1, <2>1, <2>2
<1>4. order \in [D -> D] /\ Sorts(order)
  <2>1. back \in [DOMAIN data -> DOMAIN data]
    BY <1>1, <1>2
  <2> HIDE DEF D, Sorts
  <2>2. order \in [DOMAIN data -> DOMAIN data] /\ Sorts(order)
    BY <1>3, <2>1
  <2> QED BY <1>1, <2>2
<1>5. Split!Ordered(data) = [k \in D |-> data[order[k]]]
  <2>1. Split!Ordered(data) = [k \in DOMAIN data |-> data[order[k]]]
    BY DEF Split!Ordered
  <2> QED BY <1>1, <2>1
<1> HIDE DEF order
<1> DEFINE both == [k \in D |-> places[order[k]]]
<1>6. both \in [D -> D] /\ \A k \in D : both[k] = places[order[k]]
  BY <1>4
<1>7. Split!IsInjective(both)
  <2>1. \A j, k \in D : order[j] = order[k] => j = k
    <3>1. DOMAIN order = D
      BY <1>4
    <3> HIDE DEF D
    <3> QED BY <1>4, <3>1 DEF Split!IsInjective
  <2>2. \A j, k \in D : places[j] = places[k] => j = k
    <3>1. DOMAIN places = D
      OBVIOUS
    <3> HIDE DEF D
    <3> QED BY <3>1 DEF Split!IsInjective
  <2>3. \A j, k \in D : both[j] = both[k] => j = k
    <3> SUFFICES ASSUME NEW j \in D, NEW k \in D, both[j] = both[k] PROVE j = k
      OBVIOUS
    <3>1. order[j] \in D /\ order[k] \in D
      BY <1>4
    <3>2. places[order[j]] = places[order[k]]
      BY <1>6
    <3> HIDE DEF both, D
    <3>3. order[j] = order[k]
      BY <2>2, <3>1, <3>2
    <3> QED BY <2>1, <3>3
  <2>4. DOMAIN both = D
    OBVIOUS
  <2> HIDE DEF both, D
  <2> QED BY <2>3, <2>4 DEF Split!IsInjective
<1>8. ASSUME NEW j \in D, NEW k \in D, j < k PROVE both[j] =< both[k]
  <2>1. data[order[j]].index =< data[order[k]].index
    BY <1>1, <1>4, <1>8
  <2>2. order[j] \in D /\ order[k] \in D
    BY <1>4
  <2>3. places[order[j]] - 1 =< places[order[k]] - 1 /\ places[order[j]] \in D /\ places[order[k]] \in D
    BY <1>1, <2>1, <2>2
  <2>4. both[j] = places[order[j]] /\ both[k] = places[order[k]]
    BY <1>6
  <2>5. \A x, y \in D : x - 1 =< y - 1 => x =< y
    OBVIOUS
  <2> HIDE DEF both, D
  <2> QED BY <2>3, <2>4, <2>5
<1> HIDE DEF both
<1>9. \A k \in D : both[k] = k
  BY <1>6, <1>7, <1>8, InOrder
<1>10. \A k \in D : Split!Ordered(data)[k].embedding = g[k]
  <2> TAKE k \in D
  <2>1. Split!Ordered(data)[k] = data[order[k]] /\ order[k] \in D
    <3> HIDE DEF D
    <3> QED BY <1>4, <1>5
  <2>2. data[order[k]].embedding = g[places[order[k]]]
    BY <1>1, <2>1
  <2> QED BY <1>6, <1>9, <2>1, <2>2
<1> QED BY <1>5, <1>10

\* The next batch is of the pieces behind those that have a vector, one at
\* least.
LEMMA BatchIs ==
  ASSUME NEW v \in Nat, v = Len(vectors), Len(chunks) \in Nat, v < Len(chunks)
  PROVE  \E m \in Nat : /\ Cardinality(Split!NextBatch) = m /\ m >= 1 /\ v + m =< Len(chunks)
                        /\ Split!NextBatch = v + 1 .. v + m
<1> DEFINE b == Split!Min({v + BatchSize, Len(chunks)})
<1>1. BatchSize \in Nat \ {0}
  BY ExchangesAssumption DEF Split!SplitAssumption
<1>2. b \in {v + BatchSize, Len(chunks)} /\ b =< Len(chunks)
  <2>1. v + BatchSize \in Nat
    BY <1>1
  <2> QED BY <2>1, SplitLesser
<1>3. Split!NextBatch = v + 1 .. b
  BY DEF Split!NextBatch
<1> HIDE DEF b
<1>4. b \in Nat /\ b >= v + 1
  BY <1>1, <1>2
<1> DEFINE m == b - v
<1>5. m \in Nat /\ m >= 1 /\ v + m = b /\ b - (v + 1) + 1 = m /\ v + 1 \in Int /\ b \in Int /\ ~(v + 1 > b)
  BY <1>4
<1>6. Cardinality(v + 1 .. b) = m
  BY <1>5, FS_Interval
<1> QED BY <1>2, <1>3, <1>5, <1>6

-----------------------------------------------------------------------------
(* Splitting and storing                                                   *)

StripOf(w, t) ==
  LET solid == {k \in DOMAIN t : ~(KindOf(w, t[k]) = "blank")}
  IN  IF solid = {} THEN <<>> ELSE SubSeq(t, Split!Min(solid), Split!Max(solid))

TextPiecesOf(w) == {StripOf(w, t) : t \in Seq(SpotsOf(w))}

\* Of what was taken, rs, each is among the pieces cs if it is long enough.
KeptSo(w, rs, cs) ==
  \A k \in 1 .. Len(rs) :
    Len(StripOf(w, rs[k])) > MinLength => \E i \in 1 .. Len(cs) : cs[i] = StripOf(w, rs[k])

VectorsOf(w) == [content : TextPiecesOf(w), embedding : TextPiecesOf(w)]

StoredSo(w, stage, cs, vs) ==
  /\ stage = "split" => vs = <<>>
  /\ vs \in Seq(VectorsOf(w)) /\ Len(vs) =< Len(cs)
  /\ \A k \in 1 .. Len(vs) : vs[k].content = cs[k] /\ vs[k].embedding = cs[k]
  /\ stage = "stored" => Len(vs) = Len(cs)

SplitInv ==
  /\ ContentTyped
  /\ Lined(content, tokens)
  /\ rest \in Seq(Seq(SpotsOf(content)))
  /\ TakenSo(content, EndsOf(rest), Split!FlattenSeq(rest), tokens)
  /\ chunks \in Seq(TextPiecesOf(content))
  /\ KeptSo(content, rest, chunks)
  /\ StoredSo(content, phase, chunks, vectors)

\* What is left of a text without the blanks around it is of the content's
\* parts.
LEMMA StripIs ==
  ASSUME NEW t
  PROVE  /\ Split!Strip(t) = StripOf(content, t)
         /\ t \in Seq(Spots) => StripOf(content, t) \in TextPiecesOf(content)
<1>1. Split!Strip(t) = StripOf(content, t)
  BY DEF Split!Strip, Split!Blank, Split!Kind, StripOf, KindOf
<1>2. Spots = SpotsOf(content)
  BY DEF Spots, SpotsOf
<1> QED BY <1>1, <1>2 DEF TextPiecesOf

\* The limits of the splitting are numbers, and a batch is not empty.
LEMMA SplitNumbers == MinLength \in Nat /\ MaxContent \in Nat /\ BatchSize \in Nat \ {0}
  BY ExchangesAssumption DEF Split!SplitAssumption

\* At first the whole content is in the tokens, and nothing was taken.
LEMMA SplitBegins == ASSUME Split!Init PROVE SplitInv
<1> DEFINE t == [i \in DOMAIN content |-> <<i, 0>>]
<1>1. /\ content \in UNION {[1 .. n -> Split!Kinds] : n \in 0 .. MaxContent}
      /\ tokens = <<>> \/ tokens = Split!Encode(t)
      /\ chunks = <<>> /\ rest = <<>> /\ phase = "split" /\ vectors = <<>>
  BY DEF Split!Init
<1>2. ContentTyped
  <2>1. PICK n \in 0 .. MaxContent : content \in [1 .. n -> Split!Kinds]
    BY <1>1
  <2>2. n \in Nat
    BY SplitNumbers
  <2> QED BY <2>1, <2>2 DEF ContentTyped
<1>3. Len(content) \in Nat /\ WholeTo(Len(content), Split!Encode(t))
  BY <1>2, WholeIs
<1> HIDE DEF t
<1>4. Lined(content, tokens) /\ (tokens # <<>> => /\ Start(tokens[1])[1] = 1
                                                   /\ End(tokens[Len(tokens)])[1] = Len(content))
  <2>1. CASE tokens = <<>>
    <3>1. <<>> \in Seq(Seq(SpotsOf(content))) /\ Len(<<>>) = 0
      OBVIOUS
    <3> QED BY <2>1, <3>1 DEF Lined
  <2>2. CASE tokens # <<>>
    <3>1. WholeTo(Len(content), tokens)
      BY <1>1, <1>3, <2>2
    <3> QED BY <2>2, <3>1 DEF WholeTo
  <2> QED BY <2>1, <2>2
<1>5. rest \in Seq(Seq(SpotsOf(content))) /\ Split!FlattenSeq(rest) = <<>>
  <2>1. <<>> \in Seq(Seq(SpotsOf(content))) /\ <<>> \in Seq(SpotsOf(content))
    OBVIOUS
  <2> QED BY <1>1, <2>1, FlatAppends
<1>6. TakenSo(content, EndsOf(rest), <<>>, tokens)
  <2>1. <<>> \in Seq(SpotsOf(content)) /\ Len(<<>>) = 0
    OBVIOUS
  <2>2. tokens # <<>> => \A i \in 1 .. Len(content) : ~(i < Start(tokens[1])[1])
    BY <1>3, <1>4
  <2> QED BY <1>4, <2>1, <2>2 DEF TakenSo
<1>7. Len(<<>>) = 0
  OBVIOUS
<1>8. chunks \in Seq(TextPiecesOf(content)) /\ KeptSo(content, rest, chunks)
  BY <1>1, <1>7 DEF KeptSo
<1>9. StoredSo(content, phase, chunks, vectors)
  BY <1>1, <1>7 DEF StoredSo
<1> QED BY <1>2, <1>4, <1>5, <1>6, <1>8, <1>9 DEF SplitInv

\* A text ends at the character up to which it runs.
LEMMA RunEnds ==
  ASSUME ContentTyped, Lined(content, tokens), NEW j \in 1 .. Len(tokens), NEW t \in Seq(Spots), NEW z,
         Runs(t, Start(tokens[1]), z), z = End(tokens[j]) \/ z = Start(tokens[j])
  PROVE  Len(t) \in Nat /\ Len(t) >= 1 /\ t[Len(t)][1] = z[1]
<1>1. tokens \in Seq(Seq(SpotsOf(content))) /\ Len(tokens) \in Nat /\ Len(tokens) >= 1
      /\ IsToken(content, tokens[1]) /\ IsToken(content, tokens[j]) /\ Len(content) \in Nat
  BY DEF Lined, ContentTyped
<1>2. Start(tokens[1]) \in SpotsOf(content) /\ z \in SpotsOf(content)
  BY <1>1, TokenIs
<1>3. Start(tokens[1])[1] \in Nat /\ z[1] \in Nat
  BY <1>1, <1>2, SpotIs
<1>4. Len(t) \in Nat /\ Len(t) >= 1 /\ Len(t) = z[1] - Start(tokens[1])[1] + 1
      /\ t[Len(t)][1] = Start(tokens[1])[1] + Len(t) - 1
  BY DEF Runs
<1> QED BY <1>3, <1>4

\* Taking a text and leaving the tokens behind it keeps what was taken in
\* order.
LEMMA SplitTaken ==
  ASSUME SplitInv, NEW t, NEW j, Taking(t, j), content' = content,
         tokens' = SubSeq(tokens, j + 1, Len(tokens)), rest' = Append(rest, t)
  PROVE  /\ ContentTyped'
         /\ Lined(content, tokens)'
         /\ (rest \in Seq(Seq(SpotsOf(content))))'
         /\ TakenSo(content, EndsOf(rest), Split!FlattenSeq(rest), tokens)'
<1>1. /\ ContentTyped /\ Lined(content, tokens) /\ rest \in Seq(Seq(SpotsOf(content)))
      /\ TakenSo(content, EndsOf(rest), Split!FlattenSeq(rest), tokens)
  BY DEF SplitInv
<1>2. j \in 1 .. Len(tokens) /\ t \in Seq(SpotsOf(content)) /\ Len(content) \in Nat
  BY <1>1 DEF Taking, Spots, SpotsOf, ContentTyped
<1>3. PICK z : /\ Runs(t, Start(tokens[1]), z)
               /\ z = End(tokens[j]) \/ (z = Start(tokens[j]) /\ KindOf(content, z) = "mark")
  BY DEF Taking
<1>10. EndsOf(rest) \subseteq EndsOf(rest') /\ z[1] \in EndsOf(rest')
  <2>1. EndsOf(rest) \subseteq EndsOf(rest') /\ (Len(t) >= 1 => t[Len(t)][1] \in EndsOf(rest'))
    BY <1>1, <1>2, EndsGrow
  <2>3. t \in Seq(Spots) /\ (z = End(tokens[j]) \/ z = Start(tokens[j]))
    BY <1>3 DEF Taking
  <2>2. Len(t) \in Nat /\ Len(t) >= 1 /\ t[Len(t)][1] = z[1]
    BY <1>1, <1>2, <1>3, <2>3, RunEnds
  <2> QED BY <2>1, <2>2
<1>4. TakenSo(content, EndsOf(rest'), Split!FlattenSeq(rest) \o t, SubSeq(tokens, j + 1, Len(tokens)))
  BY <1>1, <1>2, <1>3, <1>10, TakenGoes
<1>5. Split!FlattenSeq(Append(rest, t)) = Split!FlattenSeq(rest) \o t
  BY <1>1, <1>2, FlatAppends
<1>6. TakenSo(content', EndsOf(rest'), Split!FlattenSeq(rest'), tokens')
  BY <1>4, <1>5
<1>7. Lined(content', tokens')
  BY <1>1, <1>2, RestIsLined
<1>8. rest' \in Seq(Seq(SpotsOf(content')))
  BY <1>1, <1>2
<1>9. ContentTyped'
  BY <1>1 DEF ContentTyped, Split!Kinds
<1> QED BY <1>6, <1>7, <1>8, <1>9

\* A text that is taken is a piece if it is long enough.
LEMMA SplitKept ==
  ASSUME SplitInv, NEW t \in Seq(Spots), content' = content, rest' = Append(rest, t),
         \/ chunks' = chunks \o Split!Kept(t)
         \/ chunks' = chunks /\ Split!Strip(t) = <<>>
  PROVE  /\ (chunks \in Seq(TextPiecesOf(content)))'
         /\ KeptSo(content, rest, chunks)'
<1> DEFINE x == StripOf(content, t)
           P == TextPiecesOf(content)
           more == IF Len(x) > MinLength THEN <<x>> ELSE <<>>
<1>1. /\ rest \in Seq(Seq(SpotsOf(content))) /\ chunks \in Seq(P) /\ KeptSo(content, rest, chunks)
      /\ x \in P /\ t \in Seq(SpotsOf(content)) /\ Split!Strip(t) = x
  <2>1. Spots = SpotsOf(content)
    BY DEF Spots, SpotsOf
  <2> QED BY <2>1, StripIs DEF SplitInv
<1> HIDE DEF x, P
<1>2. /\ chunks' \in Seq(P)
      /\ \A i \in 1 .. Len(chunks) : \E j \in 1 .. Len(chunks') : chunks'[j] = chunks[i]
      /\ Len(x) > MinLength => \E j \in 1 .. Len(chunks') : chunks'[j] = x
  <2>1. CASE chunks' = chunks \o Split!Kept(t)
    <3>1. Split!Kept(t) = more
      BY <1>1 DEF Split!Kept
    <3>2. CASE Len(x) > MinLength
      <4>1. chunks' = chunks \o <<x>> /\ <<x>> \in Seq(P) /\ Len(<<x>>) = 1 /\ <<x>>[1] = x
        BY <1>1, <2>1, <3>1, <3>2
      <4>2. /\ chunks \o <<x>> \in Seq(P) /\ Len(chunks \o <<x>>) = Len(chunks) + 1 /\ Len(chunks) \in Nat
            /\ (chunks \o <<x>>)[Len(chunks) + 1] = x
            /\ \A i \in 1 .. Len(chunks) : (chunks \o <<x>>)[i] = chunks[i]
        BY <1>1
      <4>3. chunks' \in Seq(P) /\ Len(chunks') = Len(chunks) + 1 /\ chunks'[Len(chunks) + 1] = x
            /\ \A i \in 1 .. Len(chunks) : chunks'[i] = chunks[i]
        BY <4>1, <4>2
      <4>4. Len(chunks) + 1 \in 1 .. Len(chunks') /\ \A i \in 1 .. Len(chunks) : i \in 1 .. Len(chunks')
        BY <4>2, <4>3
      <4> QED BY <4>3, <4>4
    <3>3. CASE ~(Len(x) > MinLength)
      <4>1. chunks' = chunks
        <5>1. chunks \o <<>> = chunks
          BY <1>1, ConcatEmptySeq
        <5> QED BY <2>1, <3>1, <3>3, <5>1
      <4> QED BY <1>1, <3>3, <4>1
    <3> QED BY <3>2, <3>3
  <2>2. CASE chunks' = chunks /\ Split!Strip(t) = <<>>
    <3>1. ~(Len(x) > MinLength)
      <4>1. Len(x) = 0
        BY <1>1, <2>2
      <4> QED BY <4>1, SplitNumbers
    <3> QED BY <1>1, <2>2, <3>1
  <2> QED BY <2>1, <2>2
<1>3. KeptSo(content, Append(rest, t), chunks')
  <2> SUFFICES ASSUME NEW k \in 1 .. Len(Append(rest, t)), Len(StripOf(content, Append(rest, t)[k])) > MinLength
               PROVE  \E i \in 1 .. Len(chunks') : chunks'[i] = StripOf(content, Append(rest, t)[k])
    BY DEF KeptSo
  <2>0. Len(Append(rest, t)) = Len(rest) + 1 /\ Len(rest) \in Nat
    BY <1>1
  <2>1. CASE k \in 1 .. Len(rest)
    <3>1. Append(rest, t)[k] = rest[k]
      BY <1>1, <2>1
    <3> QED BY <1>1, <1>2, <2>1, <3>1 DEF KeptSo
  <2>2. CASE k = Len(rest) + 1
    <3>1. Append(rest, t)[k] = t
      BY <1>1, <2>2
    <3> QED BY <1>2, <3>1 DEF x
  <2> QED BY <2>0, <2>1, <2>2
<1> QED BY <1>2, <1>3 DEF P

\* Before the last step no vector need be there.
LEMMA StoredFirst ==
  ASSUME NEW w, NEW stage, NEW cs, stage # "stored", Len(cs) \in Nat
  PROVE  StoredSo(w, stage, cs, <<>>)
<1>1. <<>> \in Seq(VectorsOf(w)) /\ Len(<<>>) = 0
  OBVIOUS
<1> QED BY <1>1 DEF StoredSo

\* A function on the first numbers is a list.
LEMMA ListIs == ASSUME NEW S, NEW n \in Nat, NEW f \in [1 .. n -> S] PROVE f \in Seq(S) /\ Len(f) = n
OBVIOUS

\* The members of two lists, one behind the other.
LEMMA BothAre ==
  ASSUME NEW S, NEW s \in Seq(S), NEW t \in Seq(S)
  PROVE  /\ s \o t \in Seq(S) /\ Len(s \o t) = Len(s) + Len(t)
         /\ \A k \in 1 .. Len(s) : (s \o t)[k] = s[k]
         /\ \A k \in 1 .. Len(t) : (s \o t)[Len(s) + k] = t[k]
OBVIOUS

\* A batch that is answered whole.
LEMMA BatchStored ==
  ASSUME SplitInv, phase = "embed", Len(vectors) < Len(chunks),
         NEW n \in Nat, Len(vectors) + n =< Len(chunks),
         NEW places \in [1 .. n -> 1 .. n], Split!IsInjective(places),
         NEW data, DOMAIN data = 1 .. n,
         \A k \in 1 .. n : /\ data[k].index = places[k] - 1
                           /\ data[k].embedding = chunks[Len(vectors) + places[k]]
  PROVE  StoredSo(content, "embed", chunks, vectors \o Split!Combined(Split!Embed(data)))
<1> DEFINE v == Len(vectors)
           P == TextPiecesOf(content)
           g == [k \in 1 .. n |-> chunks[v + k]]
           more == Split!Combined(Split!Embed(data))
           vs == vectors \o more
<1>1. /\ chunks \in Seq(P) /\ vectors \in Seq(VectorsOf(content)) /\ v \in Nat /\ Len(chunks) \in Nat
      /\ \A k \in 1 .. v : vectors[k].content = chunks[k] /\ vectors[k].embedding = chunks[k]
  BY DEF SplitInv, StoredSo
<1>2. v + n =< Len(chunks)
  OBVIOUS
<1>3. \A k \in 1 .. n : data[k].index = places[k] - 1 /\ data[k].embedding = g[places[k]]
  OBVIOUS
<1> HIDE DEF P, v, g, vs, more
<1>4. DOMAIN Split!Ordered(data) = 1 .. n /\ \A k \in 1 .. n : Split!Ordered(data)[k].embedding = g[k]
  <2>1. IsAnswer(data, n, places, g)
    BY <1>3 DEF IsAnswer
  <2> QED BY <2>1, OrderedIs, ZenonT(30)
<1>5. DOMAIN data = 1 .. n
  OBVIOUS
<1>6. Split!Embed(data) = [k \in 1 .. n |-> g[k]]
  <2>1. Split!Embed(data) = [k \in DOMAIN data |-> Split!Ordered(data)[k].embedding]
    BY DEF Split!Embed
  <2> QED BY <1>4, <1>5, <2>1
<1>7. more = [k \in 1 .. n |-> [content |-> chunks[v + k], embedding |-> g[k]]]
  <2> DEFINE one == [k \in 1 .. n |-> g[k]]
  <2>1. DOMAIN one = 1 .. n /\ \A k \in 1 .. n : one[k] = g[k]
    OBVIOUS
  <2>2. more = Split!Combined(one)
    BY <1>6 DEF more
  <2> HIDE DEF one
  <2>3. Split!Combined(one) = [k \in DOMAIN one |-> [content |-> chunks[v + k], embedding |-> one[k]]]
    BY DEF Split!Combined, v
  <2> QED BY <2>1, <2>2, <2>3
<1>8. \A k \in 1 .. n : v + k \in 1 .. Len(chunks) /\ chunks[v + k] \in P /\ g[k] = chunks[v + k]
  <2> TAKE k \in 1 .. n
  <2>1. v + k \in 1 .. Len(chunks)
    BY <1>1, <1>2
  <2> QED BY <1>1, <2>1 DEF g
<1>9. /\ more \in [1 .. n -> VectorsOf(content)]
      /\ \A k \in 1 .. n : more[k].content = chunks[v + k] /\ more[k].embedding = chunks[v + k]
  <2>1. \A k \in 1 .. n : [content |-> chunks[v + k], embedding |-> g[k]] \in VectorsOf(content)
    BY <1>8 DEF VectorsOf, P
  <2> HIDE DEF more
  <2> QED BY <1>7, <1>8, <2>1
<1>10. more \in Seq(VectorsOf(content)) /\ Len(more) = n
  BY <1>9, ListIs
<1>13. more \in Seq(VectorsOf(content)) /\ vectors \in Seq(VectorsOf(content))
  BY <1>1, <1>10
<1>11. /\ vs \in Seq(VectorsOf(content)) /\ Len(vs) = v + n
       /\ \A k \in 1 .. v : vs[k] = vectors[k]
       /\ \A k \in 1 .. n : vs[v + k] = more[k]
  <2>1. /\ vectors \o more \in Seq(VectorsOf(content))
        /\ Len(vectors \o more) = Len(vectors) + Len(more)
        /\ \A k \in 1 .. Len(vectors) : (vectors \o more)[k] = vectors[k]
        /\ \A k \in 1 .. Len(more) : (vectors \o more)[Len(vectors) + k] = more[k]
    BY <1>13, BothAre
  <2> QED BY <1>10, <2>1 DEF vs, v
<1>12. \A k \in 1 .. Len(vs) : vs[k].content = chunks[k] /\ vs[k].embedding = chunks[k]
  <2> TAKE k \in 1 .. Len(vs)
  <2>1. CASE k \in 1 .. v
    BY <1>1, <1>11, <2>1
  <2>2. CASE k > v
    <3>1. k - v \in 1 .. n /\ v + (k - v) = k
      BY <1>1, <1>11, <2>2
    <3>2. vs[k] = more[k - v]
      BY <1>11, <3>1
    <3> QED BY <1>9, <3>1, <3>2
  <2> QED BY <1>1, <1>11, <2>1, <2>2
<1> QED BY <1>2, <1>11, <1>12 DEF StoredSo, vs, more

\* Each chunk, the rest, each batch and the end of the job keep the invariant.
LEMMA SplitStep == ASSUME SplitInv, [Split!Next]_splitVars PROVE SplitInv'
<1>0. /\ ContentTyped /\ Lined(content, tokens) /\ Spots = SpotsOf(content) /\ chunks \in Seq(TextPiecesOf(content))
      /\ StoredSo(content, phase, chunks, vectors) /\ rest \in Seq(Seq(SpotsOf(content)))
      /\ KeptSo(content, rest, chunks)
  BY DEF SplitInv, Spots, SpotsOf
<1>1. ASSUME NEW t, NEW j, Taking(t, j), content' = content,
             tokens' = SubSeq(tokens, j + 1, Len(tokens)), rest' = Append(rest, t),
             \/ chunks' = chunks \o Split!Kept(t)
             \/ chunks' = chunks /\ Split!Strip(t) = <<>>,
             phase = "split", phase' # "stored", vectors' = vectors
      PROVE  SplitInv'
  <2>1. t \in Seq(Spots)
    BY <1>1 DEF Taking
  <2>2. /\ ContentTyped' /\ Lined(content, tokens)' /\ (rest \in Seq(Seq(SpotsOf(content))))'
        /\ TakenSo(content, EndsOf(rest), Split!FlattenSeq(rest), tokens)'
    BY <1>1, SplitTaken
  <2>3. (chunks \in Seq(TextPiecesOf(content)))' /\ KeptSo(content, rest, chunks)'
    BY <1>1, <2>1, SplitKept
  <2>4. StoredSo(content', phase', chunks', vectors')
    <3>1. vectors' = <<>>
      BY <1>0, <1>1 DEF StoredSo
    <3>2. Len(chunks') \in Nat
      BY <2>3
    <3> QED BY <1>1, <3>1, <3>2, StoredFirst
  <2> QED BY <2>2, <2>3, <2>4 DEF SplitInv
<1>2. CASE Split!SkipBlank
  <2> DEFINE t == Split!Decode(Split!Chunk)
             j == Len(Split!Chunk)
  <2>1. /\ phase = "split" /\ tokens # <<>> /\ Split!Strip(t) = <<>>
        /\ tokens' = SubSeq(tokens, j + 1, Len(tokens)) /\ rest' = Append(rest, t)
        /\ content' = content /\ chunks' = chunks /\ phase' = phase /\ vectors' = vectors
    BY <1>2 DEF Split!SkipBlank, Split!Looping
  <2>2. Taking(t, j)
    BY <1>0, <2>1, ChunkIs
  <2> HIDE DEF t, j
  <2> QED BY <1>1, <2>1, <2>2
<1>3. CASE Split!TakeChunk
  <2> DEFINE t == Split!Cut(Split!Decode(Split!Chunk))
             j == Split!Consumed(t)
  <2>1. /\ phase = "split" /\ tokens # <<>>
        /\ chunks' = chunks \o Split!Kept(t)
        /\ tokens' = SubSeq(tokens, j + 1, Len(tokens)) /\ rest' = Append(rest, t)
        /\ content' = content /\ phase' = phase /\ vectors' = vectors
    BY <1>3 DEF Split!TakeChunk, Split!Looping
  <2>2. Taking(t, j)
    BY <1>0, <2>1, ChunkIs
  <2> HIDE DEF t, j
  <2> QED BY <1>1, <2>1, <2>2
<1>4. CASE Split!TakeRest
  <2> DEFINE t == Split!Decode(tokens)
             n == Len(tokens)
  <2>1. /\ phase = "split" /\ phase' = "embed"
        /\ chunks' = chunks \o Split!Kept(t) /\ rest' = Append(rest, t) /\ tokens' = <<>>
        /\ content' = content /\ vectors' = vectors
    BY <1>4 DEF Split!TakeRest
  <2>2. t \in Seq(Spots) /\ (tokens = <<>> => t = <<>>) /\ (tokens # <<>> => Taking(t, n))
    BY <1>0, RestRead
  <2>3. CASE tokens # <<>>
    <3>1. SubSeq(tokens, n + 1, n) = <<>>
      <4>1. tokens \in Seq(Seq(Spots)) /\ n \in Nat
        BY <1>0 DEF Lined
      <4> QED BY <4>1
    <3>2. tokens' = SubSeq(tokens, n + 1, Len(tokens))
      BY <2>1, <3>1
    <3> HIDE DEF t
    <3> QED BY <1>1, <2>1, <2>2, <2>3, <3>2
  <2>4. CASE tokens = <<>>
    <3>1. t = <<>>
      BY <2>2, <2>4
    <3>2. Split!FlattenSeq(Append(rest, <<>>)) = Split!FlattenSeq(rest)
      <4>1. <<>> \in Seq(SpotsOf(content))
        OBVIOUS
      <4>2. Split!FlattenSeq(Append(rest, <<>>)) = Split!FlattenSeq(rest) \o <<>>
            /\ Split!FlattenSeq(rest) \in Seq(SpotsOf(content))
        BY <1>0, <4>1, FlatAppends
      <4> QED BY <4>2, ConcatEmptySeq
    <3>3. TakenSo(content', EndsOf(rest'), Split!FlattenSeq(rest'), tokens')
      <4>1. <<>> \in Seq(SpotsOf(content))
        OBVIOUS
      <4>2. EndsOf(rest) \subseteq EndsOf(rest')
        BY <1>0, <2>1, <3>1, <4>1, EndsGrow
      <4>3. TakenSo(content, EndsOf(rest), Split!FlattenSeq(rest), tokens)
        BY DEF SplitInv
      <4>4. TakenSo(content, EndsOf(rest'), Split!FlattenSeq(rest), tokens)
        BY <4>2, <4>3, MoreCuts
      <4> QED BY <2>1, <2>4, <3>1, <3>2, <4>4
    <3>4. (chunks \in Seq(TextPiecesOf(content)))' /\ KeptSo(content, rest, chunks)'
      BY <2>1, <2>2, SplitKept
    <3>5. StoredSo(content', phase', chunks', vectors')
      <4>1. vectors' = <<>> /\ phase' # "stored"
        BY <1>0, <2>1 DEF StoredSo
      <4>2. Len(chunks') \in Nat
        BY <3>4
      <4> QED BY <4>1, <4>2, StoredFirst
    <3>6. ContentTyped' /\ Lined(content', tokens')
      BY <1>0, <2>1, <2>4 DEF ContentTyped, Split!Kinds
    <3>7. rest' \in Seq(Seq(SpotsOf(content')))
      <4>1. <<>> \in Seq(SpotsOf(content))
        OBVIOUS
      <4> QED BY <1>0, <2>1, <3>1, <4>1
    <3> QED BY <3>3, <3>4, <3>5, <3>6, <3>7 DEF SplitInv
  <2> QED BY <2>3, <2>4
<1>5. ASSUME UNCHANGED <<content, tokens, taken, chunks, rest>>,
             StoredSo(content', phase', chunks', vectors')
      PROVE  SplitInv'
  <2>1. ContentTyped' /\ Lined(content', tokens') /\ TakenSo(content', EndsOf(rest'), Split!FlattenSeq(rest'), tokens')
        /\ KeptSo(content', rest', chunks') /\ rest' \in Seq(Seq(SpotsOf(content')))
        /\ chunks' \in Seq(TextPiecesOf(content'))
    BY <1>5 DEF SplitInv, ContentTyped, Split!Kinds
  <2> QED BY <1>5, <2>1 DEF SplitInv
<1>6. CASE Split!EmbedBatch
  <2>1. phase = "embed" /\ Len(vectors) < Len(chunks) /\ UNCHANGED <<content, tokens, taken, chunks, rest>>
    BY <1>6 DEF Split!EmbedBatch
  <2> DEFINE Answer(n, places) ==
               LET data == [k \in 1 .. n |->
                     [index |-> places[k] - 1, embedding |-> chunks[Len(vectors) + places[k]]]]
               IN  IF n = Cardinality(Split!NextBatch)
                   THEN vectors' = vectors \o Split!Combined(Split!Embed(data)) /\ UNCHANGED phase
                   ELSE vectors' = <<>> /\ phase' = "failed"
  <2>2. \E n \in 0 .. Cardinality(Split!NextBatch) :
          \E places \in {p \in [1 .. n -> 1 .. n] : Split!IsInjective(p)} : Answer(n, places)
    BY <1>6, Zenon DEF Split!EmbedBatch, Split!Cardinality, Cardinality
  <2> HIDE DEF Answer
  <2>3. PICK n \in 0 .. Cardinality(Split!NextBatch) :
          \E places \in {p \in [1 .. n -> 1 .. n] : Split!IsInjective(p)} : Answer(n, places)
    BY <2>2
  <2>7. PICK places \in {p \in [1 .. n -> 1 .. n] : Split!IsInjective(p)} : Answer(n, places)
    BY <2>3
  <2>4. n \in Nat
    BY <2>3
  <2>5. CASE n = Cardinality(Split!NextBatch)
    <3> DEFINE data == [k \in 1 .. n |->
                 [index |-> places[k] - 1, embedding |-> chunks[Len(vectors) + places[k]]]]
    <3>1. vectors' = vectors \o Split!Combined(Split!Embed(data)) /\ phase' = phase
      BY <2>5, <2>7 DEF Answer
    <3>2. DOMAIN data = 1 .. n /\ \A k \in 1 .. n : /\ data[k].index = places[k] - 1
                                                  /\ data[k].embedding = chunks[Len(vectors) + places[k]]
      OBVIOUS
    <3>3. Len(vectors) \in Nat /\ Len(chunks) \in Nat
      BY <1>0 DEF StoredSo
    <3>4. Len(vectors) + n =< Len(chunks)
      BY <2>1, <2>5, <3>3, BatchIs
    <3> HIDE DEF data
    <3>5. places \in [1 .. n -> 1 .. n] /\ Split!IsInjective(places)
      BY <2>7
    <3>6. StoredSo(content, "embed", chunks, vectors')
      BY <2>1, <2>4, <3>1, <3>2, <3>4, <3>5, BatchStored
    <3> QED BY <1>5, <2>1, <3>1, <3>6
  <2>6. CASE n # Cardinality(Split!NextBatch)
    <3>1. vectors' = <<>> /\ phase' # "stored" /\ Len(chunks) \in Nat
      BY <1>0, <2>6, <2>7 DEF Answer
    <3> QED BY <1>5, <2>1, <3>1, StoredFirst
  <2> QED BY <2>5, <2>6
<1>7. CASE Split!CompleteJob
  <2>1. phase = "embed" /\ Len(vectors) = Len(chunks) /\ phase' = "stored" /\ vectors' = vectors
        /\ UNCHANGED <<content, tokens, taken, chunks, rest>>
    BY <1>7 DEF Split!CompleteJob
  <2>2. StoredSo(content', phase', chunks', vectors')
    BY <1>0, <2>1 DEF StoredSo
  <2> QED BY <1>5, <2>1, <2>2
<1>8. CASE UNCHANGED splitVars
  BY <1>0, <1>5, <1>8 DEF splitVars
<1> QED BY <1>2, <1>3, <1>4, <1>6, <1>7, <1>8 DEF Split!Next

\* Every character is taken once and in its order.
LEMMA TakenIsOnce == ASSUME SplitInv PROVE Split!TakenOnce
<1> DEFINE all == Split!FlattenSeq(rest) \o Split!Decode(tokens)
           seen == {all[k][1] : k \in DOMAIN all}
           cuts == {Split!Last(rest[k])[1] : k \in {h \in DOMAIN rest : rest[h] # <<>>}}
<1>1. /\ ContentTyped /\ Lined(content, tokens) /\ Spots = SpotsOf(content) /\ Len(content) \in Nat
      /\ TakenSo(content, EndsOf(rest), Split!FlattenSeq(rest), tokens) /\ DOMAIN content = 1 .. Len(content)
  BY DEF SplitInv, Spots, SpotsOf, ContentTyped
<1>2. TakenSo(content, EndsOf(rest), all, <<>>)
  <2>1. CASE tokens = <<>>
    <3>1. Split!Decode(tokens) = <<>>
      BY <1>1, <2>1, RestRead
    <3>2. Split!FlattenSeq(rest) \in Seq(SpotsOf(content))
      BY <1>1 DEF TakenSo
    <3>3. all = Split!FlattenSeq(rest)
      BY <3>1, <3>2, ConcatEmptySeq
    <3> QED BY <1>1, <2>1, <3>3
  <2>2. CASE tokens # <<>>
    <3> DEFINE n == Len(tokens)
               t == Split!Decode(tokens)
    <3>1. Taking(t, n)
      BY <1>1, <2>2, RestRead
    <3>2. n \in 1 .. Len(tokens) /\ t \in Seq(SpotsOf(content))
      BY <1>1, <3>1 DEF Taking
    <3>3. Runs(t, Start(tokens[1]), End(tokens[n]))
      BY <1>1, <2>2, RestRead
    <3> HIDE DEF t
    <3>4. TakenSo(content, EndsOf(rest), Split!FlattenSeq(rest) \o t, SubSeq(tokens, n + 1, Len(tokens)))
      BY <1>1, <3>2, <3>3, TakenGoes
    <3>5. SubSeq(tokens, n + 1, n) = <<>>
      <4>1. tokens \in Seq(Seq(Spots)) /\ n \in Nat
        BY <1>1 DEF Lined
      <4> QED BY <4>1
    <3> QED BY <3>4, <3>5 DEF t
  <2> QED BY <2>1, <2>2
<1> HIDE DEF all
<1>3. /\ all \in Seq(SpotsOf(content)) /\ DOMAIN all = 1 .. Len(all)
      /\ \A k \in 1 .. Len(all) - 1 : Step(all[k], all[k + 1])
      /\ all # <<>> => \A i \in 1 .. Len(content) : Seen(all, i) \/ Dropped(content, EndsOf(rest), i)
  <2>1. all \in Seq(SpotsOf(content))
    BY <1>2 DEF TakenSo
  <2> QED BY <1>2, <2>1 DEF TakenSo
<1>4. \A i \in 1 .. Len(content) : Seen(all, i) => i \in seen
  BY <1>3 DEF Seen
<1>7. EndsOf(rest) = cuts
  BY DEF EndsOf, Split!Last
<1> HIDE DEF seen, cuts
<1>5. all # <<>> => \A i \in DOMAIN content \ seen :
                      content[i] = "tail" /\ i - 1 \in cuts /\ content[i - 1] = "mark"
  BY <1>1, <1>3, <1>4, <1>7 DEF Dropped
<1>6. \A k \in 1 .. Len(all) - 1 :
         all[k][1] < all[k + 1][1] \/ (all[k] = <<all[k + 1][1], 1>> /\ all[k + 1][2] = 2)
  BY <1>3 DEF Step
<1> QED BY <1>5, <1>6 DEF Split!TakenOnce, all, seen, cuts

\* Every piece is stored with its own vector.
LEMMA StoredIsWhole == ASSUME SplitInv PROVE Split!StoredWhole
<1>1. /\ chunks \in Seq(TextPiecesOf(content)) /\ vectors \in Seq(VectorsOf(content))
      /\ rest \in Seq(Seq(SpotsOf(content)))
      /\ KeptSo(content, rest, chunks) /\ StoredSo(content, phase, chunks, vectors)
  BY DEF SplitInv, StoredSo
<1>2. DOMAIN vectors = 1 .. Len(vectors) /\ DOMAIN chunks = 1 .. Len(chunks) /\ DOMAIN rest = 1 .. Len(rest)
  BY <1>1
<1>3. ASSUME phase = "stored"
      PROVE  /\ [k \in DOMAIN vectors |-> vectors[k].content] = chunks
             /\ \A k \in DOMAIN vectors : vectors[k].embedding = vectors[k].content
  <2>1. /\ Len(vectors) = Len(chunks)
        /\ \A k \in 1 .. Len(vectors) : vectors[k].content = chunks[k] /\ vectors[k].embedding = chunks[k]
    BY <1>1, <1>3 DEF StoredSo
  <2>2. chunks = [k \in 1 .. Len(chunks) |-> chunks[k]]
    BY <1>1
  <2> QED BY <1>2, <2>1, <2>2
<1>4. ASSUME NEW k \in DOMAIN rest, Len(Split!Strip(rest[k])) > MinLength
      PROVE  Split!Strip(rest[k]) \in Split!Range(chunks)
  <2>1. Split!Strip(rest[k]) = StripOf(content, rest[k])
    BY StripIs
  <2>2. \E i \in 1 .. Len(chunks) : chunks[i] = StripOf(content, rest[k])
    BY <1>1, <1>2, <1>4, <2>1 DEF KeptSo
  <2> QED BY <1>2, <2>1, <2>2 DEF Split!Range
<1> QED BY <1>3, <1>4 DEF Split!StoredWhole

\* What the invariant of TextSplit says of a document.
LEMMA SplitIsHeld == ASSUME SplitInv PROVE Split!SplitHolds
  BY TakenIsOnce, StoredIsWhole DEF Split!SplitHolds

-----------------------------------------------------------------------------
(* Together                                                                *)

TextsInv == SplitInv /\ StructuredInv

\* An answer that has the strings of its schema is read as it was meant, as it
\* is or repaired, unless a quote left unescaped stands before a comma, a colon
\* or a closing bracket; and of a document's characters only those are lost
\* that share a token with the mark at which a chunk was cut, or are in what is
\* too short for a piece, while the pieces stay in their order and with their
\* vectors: for any text, any size of a chunk or batch and any characters a
\* model may write (StructuredOutput, TextSplit).
THEOREM TextsAreKept == MCSpec => []TextsHold
<1>1. MCInit => TextsInv
  BY SplitBegins, StructuredBegins DEF MCInit, ExchangesInit, TextsInv
<1>2. ASSUME TextsInv, [MCNext]_<<parts, exchanges>> PROVE TextsInv'
  <2>1. [Split!Next]_splitVars /\ [Structured!Next]_structuredVars
    <3>1. CASE UNCHANGED exchanges
      BY <3>1 DEF exchanges
    <3>2. CASE ExchangesNext
      <4>1. (about # "split" => UNCHANGED splitVars) /\ (about # "structured" => UNCHANGED structuredVars)
        BY <3>2 DEF ExchangesNext, Still
      <4> QED BY <3>2, <4>1, Zenon DEF ExchangesNext
    <3> QED BY <1>2, <3>1, <3>2 DEF MCNext
  <2> QED BY <1>2, <2>1, SplitStep, StructuredStep DEF TextsInv
<1>3. TextsInv => TextsHold
  BY SplitIsHeld DEF TextsInv, StructuredInv, TextsHold
<1> QED BY <1>1, <1>2, <1>3, PTL DEF MCSpec
=============================================================================

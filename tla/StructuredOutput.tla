--------------------------- MODULE StructuredOutput ---------------------------
(***************************************************************************)
(* A call to a model that is to answer with JSON (StructuredOutputInvoker  *)
(* over LlmAdapter): at most MaxAttempts calls, each answer read as it     *)
(* stands or else with its unescaped quotes escaped.                       *)
(*                                                                         *)
(* An answer is a list of strings with `comma` between them and `end`      *)
(* after the last; the keys of an object, with their colons, are strings   *)
(* as well and are left out.  Of a string's characters the model keeps     *)
(* what the repair tells apart: `end` is a closing brace or bracket.  The  *)
(* model may leave quotes unescaped and stop before its end.               *)
(***************************************************************************)
EXTENDS Integers, Sequences, SequencesExt, FiniteSetsExt

CONSTANTS MaxAttempts,  \* max(1, max_attempts)
          MaxText       \* characters in a string

VARIABLES
  meant,     \* the strings the model means to write
  attempt,   \* calls made
  last,      \* how the last call ended
  outcome    \* what the caller gets

vars == <<meant, attempt, last, outcome>>

\* What a quote that ends a string is followed by, to is_likely_json_string_terminator.
Closers    == {"comma", "end", "colon"}
Characters == Closers \cup {"quote", "backslash", "blank", "letter"}
Strings(n) == UNION {[1 .. k -> Characters] : k \in 0 .. n}
Meanings   == {<<s>> : s \in Strings(MaxText)} \cup {<<s, t>> : s, t \in Strings(1)}

\* How the adapter reports the ways a call fails.
ErrorOf == [refused      |-> "UNSAFE_URL",
            timeout      |-> "AI_SERVICE_TIMEOUT",
            unreachable  |-> "AI_SERVICE_UNAVAILABLE",
            unauthorized |-> "AI_API_KEY_INVALID",
            limited      |-> "AI_RATE_LIMIT_EXCEEDED",
            failed       |-> "AI_SERVICE_ERROR",
            notJson      |-> "AI_SERVICE_ERROR",
            noChoices    |-> "AI_SERVICE_ERROR"]
Invalid == "ValidationError"

TypeOK ==
  /\ meant \in Meanings
  /\ attempt \in 0 .. MaxAttempts
  /\ last.error \in {"", Invalid} \cup Range(ErrorOf)
  /\ {last.whole, last.clear} \subseteq BOOLEAN
  /\ outcome.kind \in {"pending", "value", "raised"}

Init ==
  /\ meant \in Meanings
  /\ attempt = 0
  /\ last = [error |-> "", whole |-> TRUE, clear |-> TRUE]
  /\ outcome = [kind |-> "pending"]

-----------------------------------------------------------------------------
(* Writing and reading an answer                                           *)

\* The text of a string, but for the quotes at `raw`, left as they are.
Escaped(s, raw) ==
  FlattenSeq([k \in DOMAIN s |->
    IF s[k] = "backslash" \/ (s[k] = "quote" /\ k \notin raw)
    THEN <<"backslash", s[k]>> ELSE <<s[k]>>])

\* With a blank after each string, or none.
Written(strings, raw, padding) ==
  FlattenSeq([i \in DOMAIN strings |->
    <<"quote">> \o Escaped(strings[i], raw[i]) \o <<"quote">> \o padding
      \o <<IF i = Len(strings) THEN "end" ELSE "comma">>])

\* A JSON parser: the mode it is in after a character; a character with no
\* move is an error.
Moves ==
  [value   |-> [blank |-> "value", quote |-> "string"],
   string  |-> [c \in Characters |->
                 CASE c = "quote" -> "after" [] c = "backslash" -> "escaped" [] OTHER -> "string"],
   escaped |-> [c \in {"quote", "backslash", "letter"} |-> "string"],
   after   |-> [blank |-> "after", comma |-> "value", end |-> "done"],
   done    |-> [blank |-> "done"],
   wrong   |-> <<>>]

Started == [mode |-> "value", string |-> <<>>, all |-> <<>>]

Moved(p, c) ==
  LET mode == IF c \in DOMAIN Moves[p.mode] THEN Moves[p.mode][c] ELSE "wrong"
  IN  [mode   |-> mode,
       string |-> IF p.mode = "value" THEN <<>>
                  ELSE IF mode = "string" THEN Append(p.string, c) ELSE p.string,
       all    |-> IF p.mode = "string" /\ mode = "after" THEN Append(p.all, p.string) ELSE p.all]

Parse(text) ==
  LET after[k \in 0 .. Len(text)] == IF k = 0 THEN Started ELSE Moved(after[k - 1], text[k])
  IN  after[Len(text)]

Parses(text) == Parse(text).mode = "done"

-----------------------------------------------------------------------------
(* The repair                                                              *)

\* Fault: looks at the very next character.
AtCloser(text, k) == k = Len(text) \/ text[k + 1] \in Closers

\* is_likely_json_string_terminator
LikelyTerminator(text, k) ==
  LET rest == {j \in k + 1 .. Len(text) : text[j] # "blank"}
  IN  rest = {} \/ text[Min(rest)] \in Closers

\* One turn of its loop.
Mended(r, text, k) ==
  LET c == text[k]
  IN  CASE ~r.inString -> [r EXCEPT !.inString = (c = "quote"), !.text = Append(@, c)]
        [] r.inString /\ r.escaping -> [r EXCEPT !.escaping = FALSE, !.text = Append(@, c)]
        [] r.inString /\ ~r.escaping /\ c = "quote" ->
             IF LikelyTerminator(text, k)
             THEN [r EXCEPT !.inString = FALSE, !.text = Append(@, c)]
             ELSE [r EXCEPT !.text = @ \o <<"backslash", "quote">>]
        [] OTHER -> [r EXCEPT !.escaping = (c = "backslash"), !.text = Append(@, c)]

\* repair_unescaped_quotes
Repair(text) ==
  LET after[k \in 0 .. Len(text)] ==
        IF k = 0 THEN [inString |-> FALSE, escaping |-> FALSE, text |-> <<>>]
        ELSE Mended(after[k - 1], text, k)
  IN  after[Len(text)].text

-----------------------------------------------------------------------------
(* The calls                                                               *)

\* The last attempt's error is raised.
Fails(error, whole, clear) ==
  /\ last' = [error |-> error, whole |-> whole, clear |-> clear]
  /\ outcome' = IF attempt + 1 = MaxAttempts THEN [kind |-> "raised", error |-> error] ELSE outcome

Begins == outcome.kind = "pending" /\ attempt' = attempt + 1 /\ UNCHANGED meant

CallFails ==
  /\ Begins
  /\ \E how \in DOMAIN ErrorOf : Fails(ErrorOf[how], FALSE, TRUE)

\* _convert: <<>> when neither reading is valid
Convert(text) ==
  IF Parses(text) THEN Parse(text).all
  ELSE IF Parses(Repair(text)) THEN Parse(Repair(text)).all ELSE <<>>

\* A quote left as it is that a closer follows.
Unclear(raw) ==
  \E i \in DOMAIN meant : \E k \in raw[i] :
    LET rest == {j \in k + 1 .. Len(meant[i]) : meant[i][j] # "blank"}
    IN  rest # {} /\ meant[i][Min(rest)] \in Closers

\* No content is the empty text.
ModelAnswers ==
  /\ Begins
  /\ \E raw \in [DOMAIN meant -> SUBSET (1 .. MaxText)], padding \in {<<>>, <<"blank">>} :
       /\ \A i \in DOMAIN meant : \A k \in raw[i] : k \in DOMAIN meant[i] /\ meant[i][k] = "quote"
       /\ LET text == Written(meant, raw, padding)
          IN  \E n \in 0 .. Len(text) :
                LET value == Convert(SubSeq(text, 1, n))
                IN  IF value = <<>>
                    THEN Fails(Invalid, n = Len(text), ~Unclear(raw))
                    ELSE /\ last' = [error |-> "", whole |-> n = Len(text), clear |-> ~Unclear(raw)]
                         /\ outcome' = [kind |-> "value", value |-> value]

Next == CallFails \/ ModelAnswers

Spec == Init /\ [][Next]_vars

-----------------------------------------------------------------------------
\* What the caller gets is what the model meant, however many of its quotes
\* it left unescaped, unless one of these stood before a comma, a colon or a
\* closing bracket of its own string; an answer cut short is never taken for a
\* whole one, and a whole one is never refused; the error raised is the last
\* attempt's and no attempt is saved (_convert, repair_unescaped_quotes,
\* invoke_with_metadata).
MeantIsRead ==
  /\ last.clear =>
       /\ outcome.kind = "value" => outcome.value = meant /\ last.whole
       /\ last.error = Invalid => ~last.whole
  /\ outcome.kind = "raised" => attempt = MaxAttempts /\ last.error \in {outcome.error} \ {""}
=============================================================================

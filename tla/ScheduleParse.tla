---------------------------- MODULE ScheduleParse ----------------------------
(***************************************************************************)
(* Turning a pasted invitation into a schedule (InterviewParseService):    *)
(* the rules of Feishu, Tencent Meeting and Zoom, chosen by the source the *)
(* client names or by the markers in the text, then the model, and what of *)
(* either becomes a request that creates a schedule.                       *)
(*                                                                         *)
(* Of a text the model keeps what the patterns tell apart: which markers   *)
(* it has, under which label a company and a position stand, and its dates *)
(* in order, each labelled or not.  The k-th date stands for k.            *)
(***************************************************************************)
EXTENDS Integers, Sequences, FiniteSetsExt

CONSTANTS Absent,    \* no value
          MaxDates   \* dates in a text

ParseAssumption == MaxDates \in Nat /\ Absent \notin Nat \cup {"given", "blank"}

VARIABLES
  text,     \* raw_text
  source,   \* what the client says it comes from
  result    \* the answer to the client: its step, its method, its request

vars == <<text, source, result>>

Services == {"feishu", "tencent", "zoom"}
\* COMPANY_FEISHU and POSITION_FEISHU know a label more than Tencent's.
Labels == {"common", "feishuOnly", "none"}
\* A date may be none at all (a 13th month), or stand more than one blank
\* before its hour.
Date   == [labelled: BOOLEAN, form: {"good", "spaced", "wrong"}]
Text   == [markers: SUBSET Services, company: Labels, position: Labels,
           dates: UNION {[1 .. n -> Date] : n \in 0 .. MaxDates}]

\* What a parser finds: ParsedSchedule.  The model may also answer with a
\* blank name, or a time with a zone.
Blank  == "blank"
Zoned  == 0
Parsed == [company: {"given", Blank, Absent}, position: {"given", Blank, Absent},
           time: 1 .. MaxDates \cup {Zoned, Absent}]
Empty  == [company |-> Absent, position |-> Absent, time |-> Absent]

TypeOK ==
  /\ text \in Text
  /\ source \in Services \cup {"other", Absent}
  /\ result.method \in {"pending", "rule", "ai", "none", "raised"}
  /\ result.data \in Parsed

\* A blank text is refused before it gets here (ParseRequest).
Init ==
  /\ text \in Text
  /\ source \in Services \cup {"other", Absent}
  /\ result = [method |-> "pending", data |-> Empty]

-----------------------------------------------------------------------------
(* The rules                                                               *)

First(K)       == IF K = {} THEN Absent ELSE Min(K)
Found(there)   == IF there THEN "given" ELSE Absent
Labelled       == {k \in DOMAIN text.dates : text.dates[k].labelled}

\* The first date the pattern matches, or nothing when parse_datetime cannot
\* read that one.
TimeOf(K, forms) ==
  IF First(K) # Absent /\ text.dates[First(K)].form \in forms THEN First(K) ELSE Absent

\* TIME_FEISHU keeps the blanks, and a second one makes the time unreadable.
ParseFeishu ==
  [company |-> Found(text.company # "none"), position |-> Found(text.position # "none"),
   time |-> TimeOf(Labelled, {"good"})]

ParseTencent ==
  [company |-> Found(text.company = "common"), position |-> Found(text.position = "common"),
   time |-> TimeOf(DOMAIN text.dates, {"good", "spaced"})]

\* Never a company or a position.
ParseZoom == [Empty EXCEPT !.time = TimeOf(DOMAIN text.dates, {"good", "spaced"})]

Valid(p) == \A f \in DOMAIN p : p[f] # Absent

ParserOf(s) ==
  CASE s = "feishu" -> ParseFeishu [] s = "tencent" -> ParseTencent [] s = "zoom" -> ParseZoom

\* The services whose parsers are tried in turn: those with a marker, then all.
Order == <<"feishu", "tencent", "zoom", "feishu", "tencent", "zoom">>
Tried == {k \in 1 .. 6 : k > 3 \/ Order[k] \in text.markers}

\* Fault: a marker decides which parser is asked.
TryMarkedOnly ==
  IF text.markers # {} THEN ParserOf(Order[Min(Tried)]) ELSE
  LET good == {k \in Tried : Valid(ParserOf(Order[k]))}
  IN  IF good = {} THEN ParseZoom ELSE ParserOf(Order[Min(good)])

TryRules ==
  IF source \in Services THEN ParserOf(source) ELSE
  LET good == {k \in Tried : Valid(ParserOf(Order[k]))}
  IN  IF good = {} THEN ParseZoom ELSE ParserOf(Order[Min(good)])

\* CreateInterviewRequest: blank names and times with a zone are refused.
Creatable(p) == Valid(p) /\ Blank \notin {p.company, p.position} /\ p.time # Zoned

Answers(method, p) == result' = [method |-> method, data |-> p]

Rules ==
  /\ result.method = "pending"
  /\ Valid(TryRules)
  /\ Answers("rule", TryRules)
  /\ UNCHANGED <<text, source>>

\* The model raises, says nothing or leaves a field out; or it answers, and
\* its answer may be one that request() refuses, which fails the call.
Model ==
  /\ result.method = "pending"
  /\ ~Valid(TryRules)
  /\ \/ Answers("none", Empty)
     \/ \E p \in {q \in Parsed : Valid(q)} :
          IF Creatable(p) THEN Answers("ai", p) ELSE Answers("raised", Empty)
  /\ UNCHANGED <<text, source>>

Next == Rules \/ Model

Spec == Init /\ [][Next]_vars

-----------------------------------------------------------------------------
\* What the client is offered can be created as it stands; and unless the
\* client names a source, the model is asked only when neither Feishu's nor
\* Tencent's rules read the text, in whichever order its markers have them
\* tried.
OfferIsCreatable ==
  /\ result.method \in {"rule", "ai"} => Creatable(result.data)
  /\ result.method \notin {"pending", "rule"} /\ source \notin Services
       => ~Valid(ParseFeishu) /\ ~Valid(ParseTencent)
  /\ result.method = "rule" => result.data.time \in DOMAIN text.dates

\* A date labelled as the interview's is preferred to one that merely comes
\* first, in every text but those that only Tencent's marker or the client
\* says are Tencent's (_try_rules).
LabelledFirst ==
  /\ result.method = "rule" /\ Valid(ParseFeishu)
  /\ source # "tencent"
  /\ "tencent" \in text.markers => "feishu" \in text.markers
  => result.data = ParseFeishu

ParseHolds == OfferIsCreatable /\ LabelledFirst
=============================================================================

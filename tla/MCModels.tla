------------------------------ MODULE MCModels ------------------------------
(***************************************************************************)
(* What talks to model services, in one run: the parts of Models, the      *)
(* module extended here, and what goes to a model and comes of its answer: *)
(* the splitting of a document's text, the references of a skill, the      *)
(* speaking of a reply, structured answers, the report of an interview,    *)
(* the reading of an invitation, and the proxy that acceptance runs put    *)
(* between.                                                                *)
(***************************************************************************)
EXTENDS Models, TLC

CONSTANTS k1, w1, w2, c1

\* The parameters of the parts, by their modules.
CONSTANTS
  MaxContent, ChunkSize, MinChunkSize, MinLength, MaxChunks, BatchSize,   \* TextSplit
  MaxText,                                         \* VoiceSpeech and StructuredOutput
  Permits, NConns,                                                        \* VoiceSpeech
  MaxAttempts,                                                            \* StructuredOutput
  NMains, MaxFollowUps, Scores, NLabels, MaxGroups, MaxTurns, MaxPoints, MaxKept,
                                                                          \* EvaluationReport
  Requests, MaxCount, MaxSets, MaxMessages,                               \* ModelProxy
  MaxDates,                                                               \* ScheduleParse
  MaxTotal, MaxCategories, Header, Marker, MaxSection, MaxSingle          \* SkillReferences

VARIABLES
  content, tokens, taken, chunks, rest, phase, vectors,                      \* TextSplit's
  text, synth, speakQueue, pc, emitted, next, opened, conn, open, changed, got, \* VoiceSpeech's
  meant, tries, last, outcome,                                               \* StructuredOutput's
  followUps, category, answered, groups, points, report,                     \* EvaluationReport's
  fault, since, sets, kind, state, injected, log, pump, read, sent, late,    \* ModelProxy's
  invitation, source, result,                                                \* ScheduleParse's
  custom, categories, total, files, allocation, section                      \* SkillReferences'

Split      == INSTANCE TextSplit WITH count <- taken, read <- rest
Spoken     == INSTANCE VoiceSpeech WITH queue <- speakQueue
Structured == INSTANCE StructuredOutput WITH attempt <- tries
Report     == INSTANCE EvaluationReport
Proxy      == INSTANCE ModelProxy
Parse      == INSTANCE ScheduleParse WITH Absent <- None, text <- invitation
Skills     == INSTANCE SkillReferences

ASSUME ExchangesAssumption ==
  /\ Split!SplitAssumption /\ Spoken!SpeechAssumption /\ Proxy!ProxyAssumption /\ Parse!ParseAssumption
  /\ Report!ReportAssumption /\ Skills!SkillsAssumption

splitVars      == <<content, tokens, taken, chunks, rest, phase, vectors>>
spokenVars     == <<text, synth, speakQueue, pc, emitted, next, opened, conn, open, changed, got>>
structuredVars == <<meant, tries, last, outcome>>
reportVars     == <<followUps, category, answered, groups, points, report>>
proxyVars      == <<fault, since, sets, kind, state, injected, log, pump, read, sent, late>>
parseVars      == <<invitation, source, result>>
skillVars      == <<custom, categories, total, files, allocation, section>>

exchanges == <<splitVars, spokenVars, structuredVars, reportVars, proxyVars, parseVars, skillVars>>

\* Workers are interchangeable; nothing here depends on fairness.
Symmetry == Permutations(Workers)

\* A question of one wording.
OneText == {<<1, 1>>}

\* What the others begin with where their modules leave a choice; which
\* category the first question of a report has makes no difference.
Begun ==
  /\ IF about = "split" THEN TRUE ELSE content = <<>>
  /\ IF about = "speech" THEN TRUE ELSE text = <<>>
  /\ IF about = "structured" THEN TRUE ELSE meant = CHOOSE m \in Structured!Meanings : TRUE
  /\ LET one == CHOOSE l \in Report!Labels : TRUE
     IN  IF about = "report" THEN category \in {c \in [Report!Mains -> Report!Labels] : c[1] = one}
         ELSE /\ category = [m \in Report!Mains |-> one]
              /\ followUps = [m \in Report!Mains |-> 0] /\ answered = {}
              /\ groups = <<>> /\ points = <<>>
  /\ IF about = "proxy" THEN TRUE ELSE kind = [r \in Requests |-> "http"]
  /\ IF about = "parse" THEN TRUE
     ELSE source = None /\ invitation = CHOOSE t \in Parse!Text : TRUE

ExchangesInit ==
  /\ Begun
  /\ Split!Init /\ Spoken!Init /\ Structured!Init /\ Report!Init /\ Proxy!Init /\ Parse!Init
  \* Of the places where a file is looked for, the one for the rest has one.
  /\ IF about = "skills" THEN Skills!Init /\ files["other"] = 2
     ELSE custom = FALSE /\ total = 1 /\ categories = <<>> /\ files = <<>>
          /\ allocation = <<>> /\ section = <<>>

ExchangesNext ==
  /\ \/ about = "split" /\ Split!Next
     \/ about = "speech" /\ Spoken!Next
     \/ about = "structured" /\ Structured!Next
     \/ about = "report" /\ Report!Next
     \/ about = "proxy" /\ Proxy!Next
     \/ about = "parse" /\ Parse!Next
     \/ about = "skills" /\ Skills!Next
  /\ UNCHANGED about
  /\ Still("split", splitVars) /\ Still("speech", spokenVars)
  /\ Still("structured", structuredVars) /\ Still("report", reportVars)
  /\ Still("proxy", proxyVars) /\ Still("parse", parseVars) /\ Still("skills", skillVars)

MCInit == ModelsInit /\ ExchangesInit
MCNext == \/ ModelsNext /\ UNCHANGED exchanges
          \/ ExchangesNext /\ UNCHANGED parts
MCSpec == MCInit /\ [][MCNext]_<<parts, exchanges>>

-----------------------------------------------------------------------------
\* What is exchanged is what was meant: a reply is spoken whole and in order
\* (VoiceSpeech), an invitation is read by the rules or by the model
\* (ScheduleParse), the record of the faults that a proxy puts between is of
\* what it did (ModelProxy), the questions and references of a skill are shared
\* out evenly and fit the prompt (SkillReferences), and the report of an
\* interview is computed of its answers, however the model orders, repeats or
\* omits its groups (EvaluationReport).
ExchangesHold ==
  /\ about = "speech" => Spoken!SpeechHolds
  /\ about = "parse"  => Parse!ParseHolds
  /\ about = "proxy"  => Proxy!ProxyHolds
  /\ about = "report" => Report!ReportIsOfTheAnswers
  /\ about = "skills" => Skills!SkillsHold

\* A text is cut up and put together without loss: a document's is split into
\* pieces that are stored whole, each with its vector (TextSplit), and a
\* structured answer is read as the model meant it, repaired or not
\* (StructuredOutput).
TextsHold ==
  /\ about = "split"      => Split!SplitHolds
  /\ about = "structured" => Structured!MeantIsRead
=============================================================================

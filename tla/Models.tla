------------------------------- MODULE Models -------------------------------
(***************************************************************************)
(* What is kept for the models and asked of it, side by side: the          *)
(* vectorization of knowledge bases, the module extended here, the         *)
(* questions they offer and the questions asked of them; speech            *)
(* recognition; the lists of models and the settings for voice.  A         *)
(* behaviour is about one of them, or about something else, chosen at the  *)
(* start; the state of the others stays as it began.                       *)
(***************************************************************************)
EXTENDS Vectorization

CONSTANTS
  Names, QuestionTexts, MaxQuestions, MaxTasks, MaxAnswer,           \* the bank
  Bases, StoredVectors, TopK, Probe, MaxReply,                       \* a question
  MaxRuns, MaxAppends,                                               \* recognition
  Askers, Urls, ApiKeys, Versioned, MaxVersion, MaxListed, Limit,    \* lists of models
  Providers, Builtin, Edits,                                         \* voice settings
  Elsewhere                                  \* what else a behaviour may be about

VARIABLES
  about,
  base, bank, nextId, gen, attempt, edit,                                    \* QuestionBank's
  rows, of, counts, query, used, raw, probe, out, queryFaults,               \* KnowledgeQuery's
  asrGen, closed, ready, asrConn, task, overtaken,                           \* SpeechRecognition's
  run, asrShut, stop, audio, asrFaults,
  version, row, cache, lookup,                                               \* ModelDiscovery's
  exists, key, settings, begun, change, reader, crossed                      \* VoiceSettings'

Bank == INSTANCE QuestionBank
  WITH Texts <- QuestionTexts, MaxId <- MaxQuestions, call <- edit

Query == INSTANCE KnowledgeQuery
  WITH Vectors <- StoredVectors, MaxText <- MaxReply, faults <- queryFaults

Asr == INSTANCE SpeechRecognition
  WITH MaxRetries <- MaxAppends, gen <- asrGen, conn <- asrConn, shut <- asrShut, faults <- asrFaults

Discovery == INSTANCE ModelDiscovery
  WITH Calls <- Askers, Keys <- ApiKeys, MaxRaw <- MaxListed, call <- lookup

Settings == INSTANCE VoiceSettings WITH edit <- change

ASSUME ModelsAssumption ==
  /\ Bank!BankAssumption /\ Query!QueryAssumption /\ Asr!RecognitionAssumption
  /\ Discovery!DiscoveryAssumption /\ Settings!SettingsAssumption

bankVars       == <<base, bank, nextId, gen, attempt, edit>>
queryVars      == <<rows, of, counts, query, used, raw, probe, out, queryFaults>>
asrVars        == <<asrGen, closed, ready, asrConn, task, overtaken, run, asrShut, stop, audio,
                    asrFaults>>
discoveryVars  == <<version, row, cache, lookup>>
settingsVars   == <<exists, key, settings, begun, change, reader, crossed>>

parts == <<about, vars, bankVars, queryVars, asrVars, discoveryVars, settingsVars>>

\* What the others begin with where their modules leave a choice.
Pinned ==
  /\ IF about = "query" THEN TRUE
     ELSE of = [v \in StoredVectors |-> CHOOSE b \in Bases : TRUE]
          /\ query = [pc |-> "asked", streamed |-> TRUE, left |-> 0,
                      bases |-> {CHOOSE b \in Bases : TRUE}]
  /\ IF about = "settings" THEN TRUE ELSE exists = {Builtin}
  /\ IF about = "discovery" THEN TRUE ELSE row = CHOOSE r \in [url: Urls, key: ApiKeys] : TRUE

ModelsInit ==
  /\ about \in {"vectors", "bank", "query", "recognition", "discovery", "settings"}
               \cup Elsewhere
  /\ Pinned
  /\ Init /\ Bank!Init /\ Query!Init /\ Asr!Init /\ Discovery!Init /\ Settings!Init

Still(part, its) == IF about = part THEN TRUE ELSE UNCHANGED its

ModelsNext ==
  /\ \/ about = "vectors" /\ Next
     \/ about = "bank" /\ Bank!Next
     \/ about = "query" /\ Query!Next
     \/ about = "recognition" /\ Asr!Next
     \/ about = "discovery" /\ Discovery!Next
     \/ about = "settings" /\ Settings!Next
  /\ UNCHANGED about
  /\ Still("vectors", vars) /\ Still("bank", bankVars) /\ Still("query", queryVars)
  /\ Still("recognition", asrVars) /\ Still("discovery", discoveryVars)
  /\ Still("settings", settingsVars)

ModelsSpec == ModelsInit /\ [][ModelsNext]_parts

-----------------------------------------------------------------------------
\* What a knowledge base offers is replaced in one step: the vectors that a
\* search sees by one complete job's or none (promote_vectors), the questions
\* by the task that is theirs (save_generated_questions).
ReplacedAtOnce == SearchIsAtomic /\ Bank!ReplacedOncePerTask

\* Interviews get the questions they were promised (QuestionBank).
BankHolds == about = "bank" => Bank!BankHolds

\* An answer is drawn from the knowledge bases it was asked of, and a stream
\* says one thing (KnowledgeQuery).
AnswersHold == about = "query" => Query!AsksOnlyTheAsked /\ Query!SaysOneThing

\* What is said is heard by the newest run of the recognition, and a closed
\* one listens no more but with a run that overlapping restarts lost sight of
\* (SpeechRecognition).
RecognitionHolds == about = "recognition" => Asr!RecognitionHolds

\* A list of models is made with the key that belongs to it, and so is a
\* connection, unless an edit chose another provider for an old address
\* (ModelDiscovery, VoiceSettings).
KeysHold ==
  CASE about = "discovery" -> Discovery!ListsAreOfTheirKey
    [] about = "settings"  -> Settings!KeyFollowsAddress
    [] OTHER               -> TRUE
=============================================================================

---------------------------- MODULE VoiceSettings ----------------------------
(***************************************************************************)
(* A user's settings for recognition and for synthesis, each with an       *)
(* address of its own and a provider whose key is used there               *)
(* (VoiceConfigService).  An edit writes the key and the settings in two   *)
(* transactions, and whoever is to open a connection reads the settings    *)
(* and the key in two.  An edit is known by its number: keys and addresses *)
(* are those of the edit that brought them.                                *)
(***************************************************************************)
EXTENDS Naturals

CONSTANTS Providers,
          Builtin,   \* the one every user begins with
          Edits,     \* 1 .. n: requests, in the order in which they begin
          None

VARIABLES
  exists,    \* providers with a row
  key,       \* provider -> the edit that brought its key, 0 at first, or None
  settings,  \* use -> provider, the edit that chose it, and the address: the
             \* edit that brought it and its provider then
  begun,     \* edits begun
  edit,      \* edit -> its step and request
  reader,    \* the session that opens a connection
  crossed    \* whether two edits ever overlapped

vars == <<exists, key, settings, begun, edit, reader, crossed>>

SettingsAssumption ==
  /\ Edits \subseteq Nat \ {0}
  /\ None \notin Edits \cup {0} /\ Builtin \in Providers /\ None \notin Providers

Uses == {"asr", "tts"}
NoEdit   == [pc |-> "idle", use |-> "asr", provider |-> None, moves |-> FALSE, keyed |-> FALSE]
NoReader == [pc |-> "idle", use |-> "asr", provider |-> None, chosen |-> 0, url |-> None,
             key |-> None]

Address == [edit: {0} \cup Edits, of: Providers]

TypeOK ==
  /\ exists \subseteq Providers
  /\ key \in [Providers -> {0, None} \cup Edits]
  /\ settings \in [Uses -> [provider: Providers, chosen: {0} \cup Edits, url: Address]]
  /\ begun \in {0} \cup Edits
  /\ \A e \in Edits : edit[e].pc \in {"idle", "choose", "key", "settings", "done"}
  /\ reader.pc \in {"idle", "provider", "resolve", "open"}
  /\ crossed \in BOOLEAN

\* ensure_user_provider_defaults; the builtin provider has no key of its own,
\* other providers that are there have one.
Init ==
  /\ exists \in {S \in SUBSET Providers : Builtin \in S}
  /\ key = [p \in Providers |-> IF p \in exists \ {Builtin} THEN 0 ELSE None]
  /\ settings = [u \in Uses |->
       [provider |-> Builtin, chosen |-> 0, url |-> [edit |-> 0, of |-> Builtin]]]
  /\ begun = 0
  /\ edit = [e \in Edits |-> NoEdit]
  /\ reader = NoReader
  /\ crossed = FALSE

UnderWay == {e \in Edits : edit[e].pc \notin {"idle", "done"}}

-----------------------------------------------------------------------------
(* update_asr, update_tts                                                  *)

\* The settings are read: a new address wants a new key.
Begin(e) ==
  /\ e = begun + 1 /\ begun' = e
  /\ \E u \in Uses, p \in Providers \cup {None}, moves \in BOOLEAN, keyed \in BOOLEAN :
       /\ moves => keyed
       /\ edit' = [edit EXCEPT ![e] =
            [pc |-> "choose", use |-> u, moves |-> moves, keyed |-> keyed,
             provider |-> IF p = None THEN settings[u].provider ELSE p]]
  /\ crossed' = (crossed \/ UnderWay # {})
  /\ UNCHANGED <<exists, key, settings, reader>>

\* Fault: the settings before the key.
SettingsFirst == <<"settings", "key">>
WriteOrder    == <<"key", "settings">>

\* Its provider is read by its alias.
Choose(e) ==
  /\ edit[e].pc = "choose"
  /\ edit' = [edit EXCEPT ![e].pc = IF edit[e].provider \in exists THEN WriteOrder[1] ELSE "done"]
  /\ UNCHANGED <<exists, key, settings, begun, reader, crossed>>

After(pc) == IF pc = WriteOrder[1] THEN WriteOrder[2] ELSE "done"

\* _update_api_key: a transaction of its own, if there is a key.
WriteKey(e) ==
  /\ edit[e].pc = "key"
  /\ LET p == edit[e].provider
     IN  IF ~edit[e].keyed
         THEN edit' = [edit EXCEPT ![e].pc = After("key")] /\ UNCHANGED key
         ELSE IF p \in exists
         THEN edit' = [edit EXCEPT ![e].pc = After("key")] /\ key' = [key EXCEPT ![p] = e]
         ELSE edit' = [edit EXCEPT ![e].pc = "done"] /\ UNCHANGED key
  /\ UNCHANGED <<exists, settings, begun, reader, crossed>>

\* update_voice_config: the foreign key refuses a provider that is gone.
WriteSettings(e) ==
  /\ edit[e].pc = "settings"
  /\ LET p == edit[e].provider
         u == edit[e].use
     IN  /\ settings' = IF p \notin exists THEN settings
                        ELSE [settings EXCEPT ![u] =
                                [provider |-> p,
                                 chosen |-> IF edit[e].moves \/ p # @.provider THEN e ELSE @.chosen,
                                 url |-> IF edit[e].moves THEN [edit |-> e, of |-> p] ELSE @.url]]
  /\ edit' = [edit EXCEPT ![e].pc = After("settings")]
  /\ UNCHANGED <<exists, key, begun, reader, crossed>>

\* The database, or Redis, which is told of a new key, fails.
EditFails(e) ==
  /\ e \in UnderWay
  /\ edit' = [edit EXCEPT ![e].pc = "done"]
  /\ UNCHANGED <<exists, key, settings, begun, reader, crossed>>

-----------------------------------------------------------------------------
(* LlmProviderService: the providers meanwhile                             *)

Create(e, p) ==
  /\ e = begun + 1 /\ begun' = e
  /\ p \notin exists /\ key[p] = None
  /\ exists' = exists \cup {p} /\ key' = [key EXCEPT ![p] = e]
  /\ UNCHANGED <<settings, edit, reader, crossed>>

\* update: a new key.
Rekey(e, p) ==
  /\ e = begun + 1 /\ begun' = e
  /\ p \in exists /\ key' = [key EXCEPT ![p] = e]
  /\ crossed' = (crossed \/ UnderWay # {})
  /\ UNCHANGED <<exists, settings, edit, reader>>

Delete(p) ==
  /\ p \in exists \ {Builtin}
  /\ \A u \in Uses : settings[u].provider # p
  /\ exists' = exists \ {p}
  /\ UNCHANGED <<key, settings, begun, edit, reader, crossed>>

-----------------------------------------------------------------------------
(* asr_config, tts_config, of whoever the voice session belongs to         *)

ReadSettings(u) ==
  /\ reader.pc = "idle"
  /\ reader' = [pc |-> "provider", use |-> u, key |-> None,
                provider |-> settings[u].provider, chosen |-> settings[u].chosen,
                url |-> settings[u].url]
  /\ UNCHANGED <<exists, key, settings, begun, edit, crossed>>

\* By its id.
ReadProvider ==
  /\ reader.pc = "provider"
  /\ reader' = IF reader.provider \in exists THEN [reader EXCEPT !.pc = "resolve"] ELSE NoReader
  /\ UNCHANGED <<exists, key, settings, begun, edit, crossed>>

\* get_voice, by its alias: refused without a key.
Resolve ==
  /\ reader.pc = "resolve"
  /\ reader' = IF reader.provider \in exists /\ key[reader.provider] # None
               THEN [reader EXCEPT !.pc = "open", !.key = key[reader.provider]]
               ELSE NoReader
  /\ UNCHANGED <<exists, key, settings, begun, edit, crossed>>

\* The connection is opened with them, and closed.
Opened ==
  /\ reader.pc = "open"
  /\ reader' = NoReader
  /\ UNCHANGED <<exists, key, settings, begun, edit, crossed>>

Next ==
  \/ \E e \in Edits :
       \/ Begin(e) \/ Choose(e) \/ WriteKey(e) \/ WriteSettings(e) \/ EditFails(e)
       \/ \E p \in Providers : Create(e, p) \/ Rekey(e, p)
  \/ \E p \in Providers : Delete(p)
  \/ \E u \in Uses : ReadSettings(u)
  \/ ReadProvider \/ Resolve \/ Opened

Spec == Init /\ [][Next]_vars

-----------------------------------------------------------------------------
\* The connection has a key of the address's edit or of a later one.
OfItsAddress == reader.key >= reader.url.edit

\* A later edit chose another provider and left the address as it was.
Redirected == reader.provider # reader.url.of /\ reader.chosen > reader.url.edit

\* A connection to an address that an edit brought is opened with that edit's
\* key or a newer one, whatever fails between the two writes, as long as no two
\* edits overlap.  Only an edit of the provider alone parts the two: it asks
\* for no key, and the address that was there is then opened with the key that
\* the other provider has, however old (update_asr, update_tts, asr_config).
KeyFollowsAddress ==
  reader.pc = "open" /\ ~crossed /\ reader.url.edit # 0 => OfItsAddress \/ Redirected
=============================================================================

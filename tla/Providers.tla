----------------------------- MODULE Providers -----------------------------
(***************************************************************************)
(* A user's model providers and the settings that name them                *)
(* (UserProviderRepository): the defaults for chat and embedding, and the  *)
(* voice settings.  Calls are database transactions; what they write shows *)
(* when they commit, and the row locks and the foreign keys are            *)
(* PostgreSQL's.  A provider's own settings are left out.                  *)
(***************************************************************************)
EXTENDS FiniteSets

CONSTANTS Aliases,   \* provider aliases
          Builtin,   \* the one every user begins with
          Calls,     \* API requests being served at once
          None

ProviderAssumption == Builtin \in Aliases /\ None \notin Aliases \cup Calls

\* The voice settings name a provider for recognition and one for synthesis,
\* in the same way: one of them stands for both.
Uses == {"chat", "embedding", "voice"}

VARIABLES
  exists,     \* aliases with a row
  names,      \* use -> the provider the settings name for it
  rowLock,    \* alias -> who holds its row FOR UPDATE
  keyShares,  \* alias -> who holds its row for a foreign key
  setLock,    \* use -> who holds user_ai_settings or user_voice_settings
  call,       \* API request -> its step, operation, alias and use
  interview   \* the provider an unfinished interview was created with

locks == <<rowLock, keyShares, setLock>>
vars  == <<exists, names, locks, call, interview>>

Idle == [pc |-> "idle", alias |-> None, use |-> "chat"]

TypeOK ==
  /\ exists \subseteq Aliases
  /\ names \in [Uses -> Aliases]
  /\ rowLock \in [Aliases -> Calls \cup {None}]
  /\ keyShares \in [Aliases -> SUBSET Calls]
  /\ setLock \in [{"ai", "voice"} -> Calls \cup {None}]
  /\ call \in [Calls -> [pc: {"idle", "insert", "lock", "setting", "voice", "check", "delete",
                              "use", "link", "commit", "update"},
                         alias: Aliases \cup {None},
                         use: Uses]]
  /\ interview \in Aliases \cup {None}

\* ensure_user_provider_defaults
Init ==
  /\ exists = {Builtin}
  /\ names = [u \in Uses |-> Builtin]
  /\ rowLock = [a \in Aliases |-> None]
  /\ keyShares = [a \in Aliases |-> {}]
  /\ setLock = [s \in {"ai", "voice"} |-> None]
  /\ call = [c \in Calls |-> Idle]
  /\ interview = None

Alias(c)   == call[c].alias
Setting(u) == IF u = "voice" THEN "voice" ELSE "ai"

At(c, pc)         == call[c].pc = pc
GoTo(c, from, to) == At(c, from) /\ call' = [call EXCEPT ![c].pc = to]

\* The end of a transaction.
Ends(c) ==
  /\ call' = [call EXCEPT ![c] = Idle]
  /\ rowLock' = [a \in Aliases |-> IF rowLock[a] = c THEN None ELSE rowLock[a]]
  /\ keyShares' = [a \in Aliases |-> keyShares[a] \ {c}]
  /\ setLock' = [s \in DOMAIN setLock |-> IF setLock[s] = c THEN None ELSE setLock[s]]

LockSetting(c, s) == setLock[s] = None /\ setLock' = [setLock EXCEPT ![s] = c]

\* SELECT ... FOR UPDATE of a provider.
LockRow(c) ==
  /\ rowLock[Alias(c)] = None
  /\ keyShares[Alias(c)] = {}
  /\ rowLock' = [rowLock EXCEPT ![Alias(c)] = c]

-----------------------------------------------------------------------------
(* create_provider                                                         *)

Create(c, a) ==
  /\ call[c] = Idle
  /\ a \notin exists
  /\ call' = [call EXCEPT ![c] = [Idle EXCEPT !.pc = "insert", !.alias = a]]
  /\ UNCHANGED <<exists, names, locks, interview>>

\* The unique constraint on the alias refuses the second of two.
InsertProvider(c) ==
  /\ At(c, "insert")
  /\ exists' = exists \cup {Alias(c)}
  /\ Ends(c)
  /\ UNCHANGED <<names, interview>>

-----------------------------------------------------------------------------
(* update_provider                                                         *)

\* LlmProviderService.update reads the row first, and validates.
Update(c, a) ==
  /\ call[c] = Idle
  /\ a \in exists
  /\ call' = [call EXCEPT ![c] = [Idle EXCEPT !.pc = "update", !.alias = a]]
  /\ UNCHANGED <<exists, names, locks, interview>>

\* Nothing but the row's own lock is asked for, whatever names it.
WriteProvider(c) ==
  /\ At(c, "update")
  /\ Alias(c) \in exists => rowLock[Alias(c)] = None /\ keyShares[Alias(c)] = {}
  /\ Ends(c)
  /\ UNCHANGED <<exists, names, interview>>

-----------------------------------------------------------------------------
(* delete_provider                                                         *)

Delete(c, a) ==
  /\ call[c] = Idle
  /\ a \in exists
  /\ call' = [call EXCEPT ![c] = [Idle EXCEPT !.pc = "lock", !.alias = a]]
  /\ UNCHANGED <<exists, names, locks, interview>>

\* The row may be gone by the time the lock is had.
LockProvider(c) ==
  /\ At(c, "lock")
  /\ IF Alias(c) \in exists
     THEN LockRow(c) /\ GoTo(c, "lock", "setting") /\ UNCHANGED <<keyShares, setLock>>
     ELSE Ends(c)
  /\ UNCHANGED <<exists, names, interview>>

LockSettings(c) ==
  /\ \/ GoTo(c, "setting", "voice") /\ LockSetting(c, "ai")
     \/ GoTo(c, "voice", "check") /\ LockSetting(c, "voice")
  /\ UNCHANGED <<exists, names, rowLock, keyShares, interview>>

\* Fault: the voice settings are not looked at.
ReferencedByDefaults(a) == a \in {names["chat"], names["embedding"]}
Referenced(a)           == \E u \in Uses : names[u] = a

CheckReferences(c) ==
  /\ At(c, "check")
  /\ IF Referenced(Alias(c))
     THEN Ends(c)
     ELSE GoTo(c, "check", "delete") /\ UNCHANGED locks
  /\ UNCHANGED <<exists, names, interview>>

\* The foreign keys refuse to let a row go that is named.
DeleteProvider(c) ==
  /\ At(c, "delete")
  /\ IF \E u \in Uses : names[u] = Alias(c)
     THEN UNCHANGED exists
     ELSE exists' = exists \ {Alias(c)}
  /\ Ends(c)
  /\ UNCHANGED <<names, interview>>

-----------------------------------------------------------------------------
(* update_default_chat, update_default_embedding, update_voice_config      *)

\* The provider is read without a lock; one without an embedding model is
\* refused for embedding.
Choose(c, u, a) ==
  /\ call[c] = Idle
  /\ a \in exists
  /\ call' = [call EXCEPT ![c] = [pc |-> "use", alias |-> a, use |-> u]]
  /\ UNCHANGED <<exists, names, locks, interview>>

LockUse(c) ==
  /\ GoTo(c, "use", "link")
  /\ LockSetting(c, Setting(call[c].use))
  /\ UNCHANGED <<exists, names, rowLock, keyShares, interview>>

\* The foreign key of a new value waits for whoever holds the row, and fails
\* if the row has gone.
LinkProvider(c) ==
  /\ At(c, "link")
  /\ IF names[call[c].use] = Alias(c)
     THEN GoTo(c, "link", "commit") /\ UNCHANGED locks
     ELSE /\ rowLock[Alias(c)] = None
          /\ IF Alias(c) \in exists
             THEN /\ GoTo(c, "link", "commit")
                  /\ keyShares' = [keyShares EXCEPT ![Alias(c)] = @ \cup {c}]
                  /\ UNCHANGED <<rowLock, setLock>>
             ELSE Ends(c)
  /\ UNCHANGED <<exists, names, interview>>

CommitUse(c) ==
  /\ At(c, "commit")
  /\ names' = [names EXCEPT ![call[c].use] = Alias(c)]
  /\ Ends(c)
  /\ UNCHANGED <<exists, interview>>

-----------------------------------------------------------------------------
\* A deadlock's victim, or a lost connection: the transaction is undone.
RolledBack(c) ==
  /\ call[c] # Idle
  /\ Ends(c)
  /\ UNCHANGED <<exists, names, interview>>

\* create_session_from_questions fixes the provider, by alias; its evaluation
\* ends the need for it.
StartInterview(a) ==
  /\ interview = None
  /\ a \in exists
  /\ interview' = a
  /\ UNCHANGED <<exists, names, locks, call>>

FinishInterview ==
  /\ interview # None
  /\ interview' = None
  /\ UNCHANGED <<exists, names, locks, call>>

Next ==
  \/ \E c \in Calls, a \in Aliases :
       Create(c, a) \/ Update(c, a) \/ Delete(c, a) \/ \E u \in Uses : Choose(c, u, a)
  \/ \E c \in Calls :
       \/ InsertProvider(c) \/ WriteProvider(c)
       \/ LockProvider(c) \/ LockSettings(c) \/ CheckReferences(c) \/ DeleteProvider(c)
       \/ LockUse(c) \/ LinkProvider(c) \/ CommitUse(c)
       \/ RolledBack(c)
  \/ \E a \in Aliases : StartInterview(a)
  \/ FinishInterview

Spec == Init /\ [][Next]_vars

-----------------------------------------------------------------------------
(* Safety                                                                  *)

\* The settings never name a provider that is gone, and a deletion that found
\* its provider unused is not refused by the database afterwards: whatever
\* names a provider in between waits for the deletion or fails
\* (delete_provider, update_default_chat, update_voice_config).
ReferencesHold ==
  /\ \A u \in Uses : names[u] \in exists
  /\ \A c \in Calls : At(c, "delete") => \A u \in Uses : names[u] # Alias(c)

\* What docs/MULTI_TENANT_BYOK.md:94 says of an unfinished task's provider.
TasksKeepTheirProvider == interview # None => interview \in exists
=============================================================================

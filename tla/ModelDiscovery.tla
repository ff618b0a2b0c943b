---------------------------- MODULE ModelDiscovery ----------------------------
(***************************************************************************)
(* The models a provider offers (LlmProviderService.discover_models): asked *)
(* of the provider with the saved key or one the request brings, and, with *)
(* the saved one, kept in Redis for some minutes under the address, the row *)
(* and its updated_at; while other requests edit, delete and create the     *)
(* row.  And the test of a provider's connection.                          *)
(***************************************************************************)
EXTENDS Naturals, Sequences, FiniteSets, SequencesExt

CONSTANTS Calls,
          Urls, Keys,
          Versioned,   \* addresses that end in /v1 or the like
          MaxVersion,  \* writes of the row
          MaxRaw,      \* length of a provider's list
          Limit,       \* MODEL_LIST_LIMIT
          None

VARIABLES
  version,   \* of the row's id and updated_at: no two writes have the same
  row,       \* base_url and api_key, None without a row
  cache,     \* Redis: <<address, version>> -> models and whose list it is
  call       \* API request -> its step, and what it read and answers

vars == <<version, row, cache, call>>

\* Models for chat and for embedding; Blank is no model.
Models == {"chat", "embed"}
Blank  == "blank"

Pairs == Urls \X Keys
Rows  == [url: Urls, key: Keys \cup {None}]

DiscoveryAssumption ==
  /\ MaxVersion \in Nat \ {0} /\ MaxRaw \in Nat /\ Limit \in Nat
  /\ None \notin Rows /\ None \notin Pairs /\ None \notin Models
NoList == [of |-> None, models |-> {}]
Asks(pc, url, key, v) == [pc |-> pc, url |-> url, key |-> key, version |-> v, list |-> NoList]
Idle == Asks("idle", None, None, 0)

TypeOK ==
  /\ version \in 1 .. MaxVersion
  /\ row \in Rows \cup {None}
  /\ \A e \in cache : e.url \in Urls /\ e.version \in 1 .. version /\ e.models # {}
  /\ \A c \in Calls :
       /\ call[c].pc \in {"idle", "lookup", "fetch", "again", "store", "done",
                          "test", "retest", "edit"}
       /\ call[c].version \in 0 .. version /\ call[c].list.models \subseteq Models

Init ==
  /\ version = 1
  /\ row \in Rows
  /\ cache = {}
  /\ call = [c \in Calls |-> Idle]

At(c, pc) == call[c].pc = pc

-----------------------------------------------------------------------------
(* create, update, delete: a request reads the row, and writes it in a     *)
(* transaction of its own                                                  *)

\* A new address wants a new key; what the request leaves out stays.
Edit(c) ==
  /\ At(c, "idle") /\ row # None
  /\ \E url \in Urls \cup {None}, key \in Keys \cup {None} :
       /\ url \notin {None, row.url} => key # None
       /\ call' = [call EXCEPT ![c] = Asks("edit", url, key, 0)]
  /\ UNCHANGED <<version, row, cache>>

Given(value, old) == IF value = None THEN old ELSE value

WriteRow(c) ==
  /\ At(c, "edit")
  /\ IF row = None
     THEN UNCHANGED <<row, version>>
     ELSE /\ version < MaxVersion /\ version' = version + 1
          /\ row' = [url |-> Given(call[c].url, row.url), key |-> Given(call[c].key, row.key)]
  /\ call' = [call EXCEPT ![c] = Idle]
  /\ UNCHANGED cache

Create ==
  /\ row = None /\ version < MaxVersion
  /\ version' = version + 1
  /\ row' \in [url: Urls, key: Keys]
  /\ UNCHANGED <<cache, call>>

Delete ==
  /\ row # None
  /\ row' = None
  /\ UNCHANGED <<version, cache, call>>

-----------------------------------------------------------------------------
(* discover_models                                                         *)

Discovers(c, url, key, v) ==
  call' = [call EXCEPT ![c] = Asks("lookup", url, key, v)]

\* Fault: the row's id without its updated_at.
OfTheRow   == IF row = None THEN 0 ELSE 1
RowVersion == version

\* With the saved key the address is the saved one.  Without a saved key
\* there is only what is configured.
AskSaved(c) ==
  /\ At(c, "idle") /\ row # None
  /\ Discovers(c, row.url, row.key, RowVersion)
  /\ UNCHANGED <<version, row, cache>>

\* The key of the request, for its address or the saved one, is not cached.
AskNew(c) ==
  /\ At(c, "idle")
  /\ \E p \in Pairs : Discovers(c, p[1], p[2], 0)
  /\ UNCHANGED <<version, row, cache>>

Cached(c) == {e \in cache : e.url = call[c].url /\ e.version = call[c].version}

\* Redis is not asked when the client wants a refresh, and may fail to answer;
\* the address may be refused before.
Lookup(c) ==
  /\ At(c, "lookup")
  /\ \/ /\ call[c].key = None
        /\ call' = [call EXCEPT ![c].pc = "done"]
     \/ /\ call[c].key # None
        /\ \E e \in Cached(c) :
             call' = [call EXCEPT ![c].pc = "done",
                                  ![c].list = [of |-> e.of, models |-> e.models]]
     \/ /\ call[c].key # None
        /\ call' = [call EXCEPT ![c].pc = "fetch"]
     \/ call' = [call EXCEPT ![c] = Idle]
  /\ UNCHANGED <<version, row, cache>>

\* What a provider sends: ids in some order, blank ones among them.
Raw == UNION {[1 .. n -> Models \cup {Blank}] : n \in 0 .. MaxRaw}
\* parse_model_ids
Parsed(raw) ==
  LET named == {k \in DOMAIN raw : raw[k] # Blank}
  IN  {raw[k] : k \in {n \in named : Cardinality({j \in named : j =< n}) =< Limit}}

\* An empty list, an error or a malformed answer leads to the next address.
Receives(c, next) ==
  \E raw \in Raw :
    IF Parsed(raw) # {}
    THEN call' = [call EXCEPT ![c].pc = "store",
                              ![c].list = [of |-> <<call[c].url, call[c].key>>,
                                           models |-> Parsed(raw)]]
    ELSE call' = [call EXCEPT ![c].pc = next]

\* model_list_urls, fetch_remote_models
Fetch(c) ==
  /\ \/ At(c, "fetch") /\ Receives(c, IF call[c].url \in Versioned THEN "done" ELSE "again")
     \/ At(c, "again") /\ Receives(c, "done")
  /\ UNCHANGED <<version, row, cache>>

Store(c) ==
  /\ At(c, "store")
  /\ \/ /\ call[c].version # 0
        /\ cache' = (cache \ Cached(c))
             \cup {[url |-> call[c].url, version |-> call[c].version,
                    of |-> call[c].list.of, models |-> call[c].list.models]}
     \/ UNCHANGED cache
  /\ call' = [call EXCEPT ![c].pc = "done"]
  /\ UNCHANGED <<version, row>>

\* MODEL_LIST_CACHE_TTL_SECONDS
Expire ==
  /\ \E e \in cache : cache' = cache \ {e}
  /\ UNCHANGED <<version, row, call>>

\* configured_model_first
First(m, models) == (IF m = None THEN <<>> ELSE <<m>>) \o SetToSeq(models \ {m})

\* What is answered with m as the configured chat model: it comes first, is
\* the only one when nothing was listed, and is said to be missing from a list.
Answer(list, m) ==
  [chat    |-> First(m, list.models \cap {"chat"}),
   embed   |-> list.models \cap {"embed"},
   of      |-> list.of,
   missing |-> list.models # {} /\ m \notin list.models \cup {None}]

Leave(c) ==
  /\ At(c, "done")
  /\ call' = [call EXCEPT ![c] = Idle]
  /\ UNCHANGED <<version, row, cache>>

-----------------------------------------------------------------------------
(* test                                                                    *)

\* Without a key nothing is asked; the second address is tried when the
\* first fails.
Test(c) ==
  /\ \/ /\ At(c, "idle") /\ row # None /\ row.key # None
        /\ call' = [call EXCEPT ![c] = Asks("test", row.url, row.key, 0)]
     \/ /\ At(c, "test") /\ call[c].url \notin Versioned
        /\ call' = [call EXCEPT ![c].pc = "retest"]
     \/ call[c].pc \in {"test", "retest"} /\ call' = [call EXCEPT ![c] = Idle]
  /\ UNCHANGED <<version, row, cache>>

Next ==
  \/ \E c \in Calls :
       \/ Edit(c) \/ WriteRow(c)
       \/ AskSaved(c) \/ AskNew(c) \/ Lookup(c) \/ Fetch(c) \/ Store(c) \/ Leave(c)
       \/ Test(c)
  \/ Create \/ Delete \/ Expire

Spec == Init /\ [][Next]_vars

-----------------------------------------------------------------------------
\* A list answered, from Redis or not, is what the address answered to the
\* very key the request reads or brings, though the row is edited and created
\* anew under the same address meanwhile; nothing else is shown beside it but
\* the configured model, once and first (discover_models,
\* model_list_cache_key, configured_model_first).
ListsAreOfTheirKey ==
  \A c \in Calls, m \in Models \cup {None} : At(c, "done") =>
    LET a == Answer(call[c].list, m)
    IN  /\ a.of \in {None, <<call[c].url, call[c].key>>}
        /\ IsInjective(a.chat)
        /\ m # None => Head(a.chat) = m
        /\ a.of = None => Range(a.chat) \subseteq {m} /\ a.embed = {} /\ ~a.missing
=============================================================================

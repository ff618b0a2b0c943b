------------------------- MODULE InterviewCreation -------------------------
(***************************************************************************)
(* The creation of text interviews (InterviewService.create_session): a    *)
(* request id is served under a lock with a lease, looked up in the result *)
(* cache and then in the database, and a unique index has the last word.   *)
(* A request that does not force a new interview takes over an unfinished  *)
(* one of its resume.                                                      *)
(*                                                                         *)
(* The module is about one user and one resume.                            *)
(***************************************************************************)
EXTENDS Integers, FiniteSets, FiniteSetsExt

CONSTANTS Calls,       \* API requests being served at once
          Requests,    \* request ids
          Forced,      \* those sent with forceCreate
          NoRequest,   \* the id of a request sent without one
          None,
          MaxSessions, \* bound on the interviews created
          MaxFaults    \* errors, crashes, leases and results that run out

CreationAssumption ==
  /\ Forced \subseteq Requests
  /\ NoRequest \notin Requests
  /\ None \notin Calls
  /\ MaxSessions \in Nat
  /\ MaxFaults \in Nat

VARIABLES
  session,   \* id -> its request id and how it stands
  lock,      \* request id -> the call that owns interview:create:lock:<id>
  cached,    \* request id -> interview:create:result:<id>, 0 for none
  call,      \* API request -> its step, request id and the interview found
  replied,   \* request id -> interviews its successful replies have named
  lapsed,    \* request ids whose cache entry ran out, or whose lease did under its owner
  faults

vars == <<session, lock, cached, call, replied, lapsed, faults>>

SessionIds == 1 .. MaxSessions
Idle == [pc |-> "idle", request |-> NoRequest, found |-> 0]

TypeOK ==
  /\ session \in [SessionIds -> [of: Requests \cup {NoRequest},
                          at: {"none", "open", "over", "deleted"}]]
  /\ lock \in [Requests -> Calls \cup {None}]
  /\ cached \in [Requests -> 0 .. MaxSessions]
  /\ call \in [Calls -> [pc: {"idle", "lock", "cached", "existing", "unfinished", "generate",
                              "insert", "reread", "remember", "reply", "raise"},
                         request: Requests \cup {NoRequest},
                         found: 0 .. MaxSessions]]
  /\ replied \in [Requests -> SUBSET SessionIds]
  /\ lapsed \subseteq Requests
  /\ faults \in 0 .. MaxFaults

Init ==
  /\ session = [i \in SessionIds |-> [of |-> NoRequest, at |-> "none"]]
  /\ lock = [r \in Requests |-> None]
  /\ cached = [r \in Requests |-> 0]
  /\ call = [c \in Calls |-> Idle]
  /\ replied = [r \in Requests |-> {}]
  /\ lapsed = {}
  /\ faults = 0

Fault == faults < MaxFaults /\ faults' = faults + 1

Request(c) == call[c].request
Named(c)   == Request(c) # NoRequest

GoTo(c, from, to) ==
  /\ call[c].pc = from
  /\ call' = [call EXCEPT ![c].pc = to]

Finds(c, from, i, to) ==
  /\ call[c].pc = from
  /\ call' = [call EXCEPT ![c].pc = to, ![c].found = i]

\* What is left to do with an interview that was found or created.
Settle(c) == IF Named(c) THEN "remember" ELSE "reply"

\* find_by_request_id; find_unfinished, the youngest one.
Existing(r) == {i \in SessionIds : session[i].of = r /\ session[i].at \in {"open", "over"}}
Unfinished  == {i \in SessionIds : session[i].at = "open"}

-----------------------------------------------------------------------------
Begin(c, r) ==
  /\ call[c] = Idle
  /\ call' = [call EXCEPT ![c].request = r,
                          ![c].pc = IF r = NoRequest THEN "unfinished" ELSE "lock"]
  /\ UNCHANGED <<session, lock, cached, replied, lapsed, faults>>

\* _execute_locked
Acquire(c) ==
  /\ GoTo(c, "lock", "cached")
  /\ lock[Request(c)] = None
  /\ lock' = [lock EXCEPT ![Request(c)] = c]
  /\ UNCHANGED <<session, cached, replied, lapsed, faults>>

\* After 185 seconds it stops trying.
WaitEnds(c) ==
  /\ call[c].pc = "lock"
  /\ lock[Request(c)] # None
  /\ call' = [call EXCEPT ![c] = Idle]
  /\ UNCHANGED <<session, lock, cached, replied, lapsed, faults>>

\* _create_idempotent: a cached interview that was deleted is an error.
ReadCache(c) ==
  /\ call[c].pc = "cached"
  /\ LET i == cached[Request(c)]
     IN  IF i = 0                          THEN GoTo(c, "cached", "existing")
         ELSE IF session[i].at = "deleted" THEN GoTo(c, "cached", "raise")
         ELSE Finds(c, "cached", i, "reply")
  /\ UNCHANGED <<session, lock, cached, replied, lapsed, faults>>

FindExisting(c) ==
  /\ IF Existing(Request(c)) = {}
     THEN GoTo(c, "existing", "unfinished")
     ELSE \E i \in Existing(Request(c)) : Finds(c, "existing", i, "remember")
  /\ UNCHANGED <<session, lock, cached, replied, lapsed, faults>>

\* _create_session_internal
FindUnfinished(c) ==
  /\ IF Request(c) \in Forced \/ Unfinished = {}
     THEN GoTo(c, "unfinished", "generate")
     ELSE Finds(c, "unfinished", Max(Unfinished), Settle(c))
  /\ UNCHANGED <<session, lock, cached, replied, lapsed, faults>>

\* The model calls; then create_session_from_questions looks once more.
Generate(c) ==
  /\ IF Existing(Request(c)) = {} \/ ~Named(c)
     THEN GoTo(c, "generate", "insert")
     ELSE \E i \in Existing(Request(c)) : Finds(c, "generate", i, "remember")
  /\ UNCHANGED <<session, lock, cached, replied, lapsed, faults>>

NextId == Min({i \in SessionIds : session[i].at = "none"} \cup {MaxSessions + 1})

Row(c) == session' = [session EXCEPT ![NextId] = [of |-> Request(c), at |-> "open"]]

\* The unique index on the user and the request id.
Taken(c) == Named(c) /\ Existing(Request(c)) # {}

Insert(c) ==
  /\ ~Taken(c)
  /\ NextId \in SessionIds
  /\ Finds(c, "insert", NextId, Settle(c))
  /\ Row(c)
  /\ UNCHANGED <<lock, cached, replied, lapsed, faults>>

InsertConflicts(c) ==
  /\ Taken(c)
  /\ GoTo(c, "insert", "reread")
  /\ UNCHANGED <<session, lock, cached, replied, lapsed, faults>>

\* Another database error, before or after the commit.
InsertFails(c) ==
  /\ ~Taken(c)
  /\ GoTo(c, "insert", IF Named(c) THEN "reread" ELSE "raise")
  /\ UNCHANGED session \/ (NextId \in SessionIds /\ Row(c))
  /\ Fault
  /\ UNCHANGED <<lock, cached, replied, lapsed>>

Reread(c) ==
  /\ IF Existing(Request(c)) = {}
     THEN GoTo(c, "reread", "raise")
     ELSE \E i \in Existing(Request(c)) : Finds(c, "reread", i, "remember")
  /\ UNCHANGED <<session, lock, cached, replied, lapsed, faults>>

\* set_create_result
\* Fault: an interview taken over from another request is not remembered.
RemembersOwn(c) == session[call[c].found].of = Request(c)
Remembers(c)    == call[c].found # 0

Remember(c) ==
  /\ GoTo(c, "remember", "reply")
  /\ cached' = IF Remembers(c) THEN [cached EXCEPT ![Request(c)] = call[c].found] ELSE cached
  /\ UNCHANGED <<session, lock, replied, lapsed, faults>>

\* A model, database or Redis error at any step under the lock.
Fails(c) ==
  /\ call[c].pc \notin {"idle", "lock", "raise"}
  /\ call' = [call EXCEPT ![c].pc = "raise"]
  /\ Fault
  /\ UNCHANGED <<session, lock, cached, replied, lapsed>>

\* LOCK_RELEASE_SCRIPT: the owner alone gives the lock back.
Released(c) ==
  IF Named(c) /\ lock[Request(c)] = c THEN [lock EXCEPT ![Request(c)] = None] ELSE lock

Reply(c) ==
  /\ call[c].pc = "reply"
  /\ lock' = Released(c)
  /\ replied' = IF Named(c) THEN [replied EXCEPT ![Request(c)] = @ \cup {call[c].found}]
                ELSE replied
  /\ call' = [call EXCEPT ![c] = Idle]
  /\ UNCHANGED <<session, cached, lapsed, faults>>

Raise(c) ==
  /\ call[c].pc = "raise"
  /\ lock' = Released(c)
  /\ call' = [call EXCEPT ![c] = Idle]
  /\ UNCHANGED <<session, cached, replied, lapsed, faults>>

\* The application dies; the lock stays until its lease ends.
AppCrash(c) ==
  /\ call[c] # Idle
  /\ call' = [call EXCEPT ![c] = Idle]
  /\ Fault
  /\ UNCHANGED <<session, lock, cached, replied, lapsed>>

-----------------------------------------------------------------------------
AtWork(c, r) == Request(c) = r /\ call[c].pc \notin {"idle", "lock"}

\* Six hundred seconds for the lock, a day for the result.
LeaseEnds(r) ==
  /\ lock[r] # None
  /\ lock' = [lock EXCEPT ![r] = None]
  /\ lapsed' = IF AtWork(lock[r], r) THEN lapsed \cup {r} ELSE lapsed
  /\ Fault
  /\ UNCHANGED <<session, cached, call, replied>>

CacheEntryEnds(r) ==
  /\ cached[r] # 0
  /\ cached' = [cached EXCEPT ![r] = 0]
  /\ lapsed' = lapsed \cup {r}
  /\ Fault
  /\ UNCHANGED <<session, lock, call, replied>>

\* The interview is held to its end, or deleted.
SessionEnds(i) ==
  /\ session[i].at = "open"
  /\ session' = [session EXCEPT ![i].at = "over"]
  /\ UNCHANGED <<lock, cached, call, replied, lapsed, faults>>

DeleteSession(i) ==
  /\ session[i].at \in {"open", "over"}
  /\ session' = [session EXCEPT ![i].at = "deleted"]
  /\ UNCHANGED <<lock, cached, call, replied, lapsed, faults>>

Step(c) ==
  \/ Acquire(c) \/ WaitEnds(c) \/ ReadCache(c) \/ FindExisting(c) \/ FindUnfinished(c)
  \/ Generate(c) \/ Insert(c) \/ InsertConflicts(c) \/ Reread(c)
  \/ Remember(c) \/ Reply(c) \/ Raise(c)

Next ==
  \/ \E c \in Calls, r \in Requests \cup {NoRequest} : Begin(c, r)
  \/ \E c \in Calls : Step(c) \/ InsertFails(c) \/ Fails(c) \/ AppCrash(c)
  \/ \E r \in Requests : LeaseEnds(r) \/ CacheEntryEnds(r)
  \/ \E i \in SessionIds : SessionEnds(i) \/ DeleteSession(i)

Spec == Init /\ [][Next]_vars

-----------------------------------------------------------------------------
(* Safety                                                                  *)

\* A client that repeats a request id is never told of two interviews, even
\* if calls overlap, fail or die: for a forced request not even when the
\* lease or the cached result runs out, for another one as long as neither
\* does.  Deleted interviews do not count (_create_idempotent,
\* create_session_from_questions, _execute_locked).
RepliesAgree ==
  \A r \in Requests :
    r \in Forced \/ r \notin lapsed =>
      Cardinality({i \in replied[r] : session[i].at # "deleted"}) <= 1
=============================================================================

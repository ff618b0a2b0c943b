------------------------------- MODULE Startup -------------------------------
(***************************************************************************)
(* The application, the worker and the scheduler start at the same time on *)
(* one database and one bucket (RuntimeInfrastructure.start): each creates *)
(* what is missing, whoever of them comes first.  A process whose start    *)
(* fails closes what it opened, and is started again.                      *)
(***************************************************************************)
EXTENDS Naturals, FiniteSets

CONSTANTS Processes, None,
          MaxFaults   \* exceptions of calls

StartAssumption == None \notin Processes /\ MaxFaults \in Nat

VARIABLES
  bucket,    \* whether it exists
  seeds,     \* whether llm_provider_config has a row, and its setting one
  owner,     \* the same of the legacy owner's provider and settings
  lock,      \* PROVIDER_BOOTSTRAP_LOCK: its owner
  process,   \* process -> its step, what its transaction has read
  collided,  \* processes that failed on a unique key
  faults

vars == <<bucket, seeds, owner, lock, process, collided, faults>>

Rows == [provider: BOOLEAN, setting: BOOLEAN]

TypeOK ==
  /\ bucket \in BOOLEAN /\ seeds \in Rows /\ owner \in Rows
  /\ lock \in Processes \cup {None}
  /\ \A p \in Processes :
       /\ process[p].pc \in {"down", "bucket", "create", "lock", "count", "seed", "defaults", "insert", "run"}
       /\ process[p].read \in Rows
  /\ collided \in SUBSET (Processes \X {"seed", "insert"})
  /\ faults \in 0 .. MaxFaults

Nothing == [provider |-> FALSE, setting |-> FALSE]
Full    == [provider |-> TRUE, setting |-> TRUE]

\* The migration gives the legacy owner a provider and settings; it may have
\* deleted the provider of the default name since.
Init ==
  /\ bucket \in BOOLEAN
  /\ seeds \in {Nothing, Full}
  /\ owner \in {Full, [Full EXCEPT !.provider = FALSE]}
  /\ lock = None
  /\ process = [p \in Processes |-> [pc |-> "down", read |-> Nothing]]
  /\ collided = {}
  /\ faults = 0

At(p, pc)  == process[p].pc = pc
Moves(p, pc) == process' = [process EXCEPT ![p].pc = pc]
Reads(p, rows, pc) == process' = [process EXCEPT ![p] = [pc |-> pc, read |-> rows]]

\* Redis answers, and the limiter's script is loaded.
Begin(p) ==
  /\ At(p, "down") /\ Moves(p, "bucket")
  /\ UNCHANGED <<bucket, seeds, owner, lock, collided, faults>>

\* ensure_bucket_exists, with storage_auto_create_bucket
HeadBucket(p) ==
  /\ At(p, "bucket") /\ Moves(p, IF bucket THEN "lock" ELSE "create")
  /\ UNCHANGED <<bucket, seeds, owner, lock, collided, faults>>

\* _create_bucket: 409, the bucket exists by now, is as good.
CreateBucket(p) ==
  /\ At(p, "create") /\ bucket' = TRUE /\ Moves(p, "lock")
  /\ UNCHANGED <<seeds, owner, lock, collided, faults>>

\* bootstrap: pg_advisory_xact_lock, until the end of the transaction.
TakeLock(p) ==
  /\ At(p, "lock") /\ lock = None
  /\ lock' = p /\ Moves(p, "count")
  /\ UNCHANGED <<bucket, seeds, owner, collided, faults>>

CountSeeds(p) ==
  /\ At(p, "count") /\ Reads(p, seeds, "seed")
  /\ UNCHANGED <<bucket, seeds, owner, lock, collided, faults>>

\* What an insert of the rows that were missing does to a table.
Collides(p, rows) == \/ ~process[p].read.provider /\ rows.provider
                     \/ ~process[p].read.setting /\ rows.setting

Unlocked(p) == lock' = IF lock = p THEN None ELSE lock

Seed(p) ==
  /\ At(p, "seed") /\ Unlocked(p)
  /\ IF Collides(p, seeds)
     THEN Moves(p, "down") /\ collided' = collided \cup {<<p, "seed">>} /\ UNCHANGED seeds
     ELSE Moves(p, "defaults") /\ seeds' = Full /\ UNCHANGED collided
  /\ UNCHANGED <<bucket, owner, faults>>

\* ensure_user_provider_defaults, of the legacy owner: no lock.
ReadDefaults(p) ==
  /\ At(p, "defaults") /\ Reads(p, owner, "insert")
  /\ UNCHANGED <<bucket, seeds, owner, lock, collided, faults>>

InsertDefaults(p) ==
  /\ At(p, "insert")
  /\ IF Collides(p, owner)
     THEN Moves(p, "down") /\ collided' = collided \cup {<<p, "insert">>} /\ UNCHANGED owner
     ELSE Moves(p, "run") /\ owner' = Full /\ UNCHANGED collided
  /\ UNCHANGED <<bucket, seeds, lock, faults>>

\* A call raises, or the process dies: its transaction is rolled back.
Fails(p) ==
  /\ ~At(p, "down") /\ faults < MaxFaults /\ faults' = faults + 1
  /\ Moves(p, "down") /\ Unlocked(p)
  /\ UNCHANGED <<bucket, seeds, owner, collided>>

Step(p) ==
  \/ Begin(p) \/ HeadBucket(p) \/ CreateBucket(p) \/ TakeLock(p) \/ CountSeeds(p)
  \/ Seed(p) \/ ReadDefaults(p) \/ InsertDefaults(p)

Next == \E p \in Processes : Step(p) \/ Fails(p)

Spec == Init /\ [][Next]_vars /\ \A p \in Processes : WF_vars(Step(p))

-----------------------------------------------------------------------------
\* A process that runs has all it needs, whoever created it, and seeding never
\* makes a start fail: it reads and writes under the lock (bootstrap).  Only
\* the legacy owner's defaults, which take no lock, may be inserted twice, and
\* then only one of two processes fails: the other has written them.
StartsHold ==
  /\ \A p \in Processes : At(p, "run") => bucket /\ seeds = Full /\ owner = Full
  /\ \A p \in Processes : <<p, "seed">> \notin collided
  /\ collided # {} => owner = Full

\* Every process comes to run (restart: unless-stopped).
ProcessesStart == \A p \in Processes : <>[]At(p, "run")
=============================================================================

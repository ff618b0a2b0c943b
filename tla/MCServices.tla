----------------------------- MODULE MCServices -----------------------------
(***************************************************************************)
(* Services that share no state, in one run: question generation, the      *)
(* module extended here, interview planning, interview creation, model     *)
(* providers, accounts, chats, the rate limiter and interview schedules,   *)
(* and the start and the end of the processes they run in.  A behaviour is *)
(* about one of them, chosen at the start; the others' state stays as it   *)
(* began.  Question generation has the Calls, Workers and Ids of its own   *)
(* module; the parameters of the others are below.                         *)
(***************************************************************************)
EXTENDS QuestionGeneration

CONSTANTS
  t1, t2, w1, c1, c2,
  Clients,                                          \* requests served at once by a service
  MaxCount, Labels, NoLabel, MaxCategories,         \* planning
  RequestIds, NoRequest, MaxInterviews,             \* creation
  Aliases, Builtin,                                 \* providers
  Sessions, Tokens, MaxPasswords,                   \* accounts
  Streams, Bases, MaxHistory,                       \* chats
  MaxRequests, Users, Global, Limit, Interval, MaxDelay, MaxTime,  \* the limiter
  Schedules, MaxHours,
  Processes,                                        \* that start
  Consumers, ReadBatch, Threads, MaxCalls,          \* of a process that ends
  MaxFailures                                       \* faults of creation and of a start

VARIABLES
  service,                                                   \* whose behaviour it is
  count, asked, categories, hasResume, step, fromResume, direction, plan,
  interviews, lock, cached, creation, replied, lapsed, creationFaults,
  exists, names, rowLock, keyShares, setLock, providerCall, interview,
  account, password, token, session, members, accountCall,
  chat, links, questioned, answering, edit,
  clock, bucket, request,
  hours, struck, schedule, told, late, scheduleCall,
  s3Bucket, seeds, owner, seeding, process, collided, startFaults,
  stage, stop, broken, consumer, blocking, called

Plan == INSTANCE QuestionPlan

\* Of the request ids, those whose requests force a new interview.
Creation(Forced) == INSTANCE InterviewCreation
  WITH Calls <- Clients, Requests <- RequestIds, MaxSessions <- MaxInterviews,
       MaxFaults <- MaxFailures,
       session <- interviews, call <- creation, faults <- creationFaults

Provider == INSTANCE Providers WITH Calls <- Clients, call <- providerCall

Account == INSTANCE Accounts WITH Calls <- Clients, call <- accountCall

Chat == INSTANCE RagChat
  WITH Calls <- Clients, asked <- questioned, stream <- answering

Limiter == INSTANCE RateLimiter

\* One request at a time.
Schedule == INSTANCE InterviewSchedule
  WITH Calls <- {c1}, Ids <- Schedules, MaxTime <- MaxHours,
       clock <- hours, call <- scheduleCall

Start == INSTANCE Startup
  WITH MaxFaults <- MaxFailures,
       bucket <- s3Bucket, lock <- seeding, faults <- startFaults

Process == INSTANCE WorkerProcess
  WITH Batch <- ReadBatch, task <- consumer, call <- blocking

ASSUME ServicesAssumption ==
  /\ Plan!PlanAssumption /\ Provider!ProviderAssumption /\ Account!AccountAssumption
  /\ Chat!ChatAssumption /\ Limiter!LimiterAssumption
  /\ Start!StartAssumption /\ Process!ProcessAssumption
  /\ \A F \in SUBSET RequestIds : Creation(F)!CreationAssumption

\* A window of all users together has a token more than one of a user's.
LimitOfUsers == [k \in Users \cup {Global} |-> IF k = Global THEN 2 ELSE 1]

planVars     == <<count, asked, categories, hasResume, step, fromResume, direction, plan>>
creationVars == <<interviews, lock, cached, creation, replied, lapsed, creationFaults>>
providerVars == <<exists, names, rowLock, keyShares, setLock, providerCall, interview>>
accountVars  == <<account, password, token, session, members, accountCall>>
chatVars     == <<chat, links, questioned, answering, edit>>
limiterVars  == <<clock, bucket, request>>
scheduleVars == <<hours, struck, schedule, told, late, scheduleCall>>
startVars    == <<s3Bucket, seeds, owner, seeding, process, collided, startFaults>>
processVars  == <<stage, stop, broken, consumer, blocking, called>>

all == <<service, vars, planVars, creationVars, providerVars, accountVars, chatVars,
         limiterVars, scheduleVars, startVars, processVars>>

ServicesInit ==
  /\ service \in {"generation", "plan", "creation", "forced", "providers", "account", "chat",
                  "limiter", "schedule", "start", "process"}
  /\ Init /\ Creation({})!Init /\ Provider!Init /\ Chat!Init /\ Limiter!Init
  /\ Schedule!Init /\ Process!Init
  /\ Plan!Init
  /\ service # "plan" => count = 1 /\ asked = <<>> /\ ~hasResume
  /\ Account!Init
  /\ service # "account" => account = "none" /\ ~password.outdated
  /\ Start!Init
  /\ service # "start" => s3Bucket /\ seeds = Start!Full /\ owner = Start!Full

\* A step of one service leaves the others alone.
Still(its, of) == IF service \in its THEN TRUE ELSE UNCHANGED of

ServicesNext ==
  /\ \/ service = "generation" /\ Next
     \/ service = "plan"       /\ Plan!Next
     \/ service = "creation"   /\ Creation({})!Next
     \/ service = "forced"     /\ Creation(RequestIds)!Next
     \/ service = "providers"  /\ Provider!Next
     \/ service = "account"    /\ Account!Next
     \/ service = "chat"       /\ Chat!Next
     \/ service = "limiter"    /\ Limiter!Next
     \/ service = "schedule"   /\ Schedule!Next
     \/ service = "start"      /\ Start!Next
     \/ service = "process"    /\ Process!Next
  /\ UNCHANGED service
  /\ Still({"generation"}, vars) /\ Still({"plan"}, planVars)
  /\ Still({"creation", "forced"}, creationVars) /\ Still({"providers"}, providerVars)
  /\ Still({"account"}, accountVars) /\ Still({"chat"}, chatVars)
  /\ Still({"limiter"}, limiterVars) /\ Still({"schedule"}, scheduleVars)
  /\ Still({"start"}, startVars) /\ Still({"process"}, processVars)

\* No two entries have the same id.
EntryWaits(i) == \E m \in pel : m.id = i /\ EntryGrowsIdle(m)

\* The fairness of QuestionGeneration, Startup and WorkerProcess.
ServicesSpec ==
  /\ ServicesInit /\ [][ServicesNext]_all
  /\ WF_vars(service = "generation" /\ CallStep(c1))
  /\ WF_vars(service = "generation" /\ WorkerStep(w1))
  /\ WF_vars(service = "generation" /\ JobStep)
  /\ WF_vars(service = "generation" /\ GrowsOld)
  /\ \A i \in Ids : WF_vars(service = "generation" /\ EntryWaits(i))
  /\ \A p \in Processes : WF_startVars(service = "start" /\ Start!Step(p))
  /\ \A t \in Consumers : WF_processVars(service = "process" /\ Process!ConsumerStep(t))
  /\ WF_processVars(service = "process" /\ Process!ProcessStep)
  /\ \A c \in 1 .. MaxCalls : WF_processVars(service = "process" /\ Process!ThreadEnds(c))

-----------------------------------------------------------------------------
\* The property of the same name in each service's module.
PlanIsFull     == Plan!PlanIsFull
ReferencesHold == Provider!ReferencesHold
ChatsHold      == Chat!ChatsHold
LimitsHold     == Limiter!LimitsHold

\* Whether the request forces a new interview or not.
RepliesAgree ==
  CASE service = "creation" -> Creation({})!RepliesAgree
    [] service = "forced"   -> Creation(RequestIds)!RepliesAgree
    [] OTHER                -> TRUE

SessionsStayEnded == Account!SessionsStayEnded

\* With one request at a time, what a client was told of a schedule's status
\* stays so, but for one that was missed (InterviewSchedule).
SchedulesHold == service = "schedule" => Schedule!ToldIsKept

\* A process that runs has what it needs, and none of its blocking calls
\* begins when its consumer has given up (Startup, WorkerProcess).
ProcessHolds ==
  CASE service = "start"   -> Start!StartsHold
    [] service = "process" -> Process!CallsAreWaitedFor
    [] OTHER               -> TRUE

\* Question generation settles, every process comes to run, and a worker that
\* is told to stop exits (QuestionGeneration, Startup, WorkerProcess).
ServicesSettle ==
  /\ TasksSettle
  /\ service = "start" => Start!ProcessesStart
  /\ Process!WorkerEnds
=============================================================================

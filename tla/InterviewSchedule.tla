-------------------------- MODULE InterviewSchedule --------------------------
(***************************************************************************)
(* The interview schedules of a user: InterviewScheduleService's calls,    *)
(* each of which reads a row and writes it in one transaction that locks   *)
(* nothing before its UPDATE, and the scheduler's hourly job, which        *)
(* cancels the schedules that were missed.  Of a row the model keeps its   *)
(* time and its status.                                                    *)
(***************************************************************************)
EXTENDS Integers, FiniteSets, Functions

CONSTANTS Calls,     \* requests being served at once
          Ids,       \* schedules ever created
          MaxTime    \* hours; 0 is before any schedule's time

VARIABLES
  clock,     \* hours passed
  struck,    \* the hour has struck and the job has not run since
  schedule,  \* interview_schedule: id -> its time and status
  told,      \* id -> the status the last reply about it said
  late,      \* history: the ids whose last reply is of a row read before the
             \* job cancelled it
  call       \* request -> its step, the row, what it changes of it, whether
             \* the job cancelled the row since it was read

vars == <<clock, struck, schedule, told, late, call>>

Statuses == {"PENDING", "COMPLETED", "CANCELLED", "RESCHEDULED"}
Times    == 1 .. MaxTime
Row      == [time: Times, status: Statuses]
Idle     == [pc |-> "idle"]

TypeOK ==
  /\ clock \in 0 .. MaxTime
  /\ struck \in BOOLEAN
  /\ DOMAIN schedule \subseteq Ids /\ Range(schedule) \subseteq Row
  /\ told \in [DOMAIN told -> Statuses]
  /\ late \subseteq DOMAIN told
  /\ \A c \in Calls : call[c].pc \in {"idle", "write", "delete"}

Init ==
  /\ clock = 0 /\ struck = FALSE
  /\ schedule = <<>> /\ told = <<>> /\ late = {}
  /\ call = [c \in Calls |-> Idle]

\* A row of the user's own (_required).
Required(i) == i \in DOMAIN schedule

Create(c) ==
  /\ call[c].pc = "idle"
  /\ \E i \in Ids \ DOMAIN told, t \in Times :
       /\ \A j \in Ids \ DOMAIN told : i <= j
       /\ schedule' = [j \in DOMAIN schedule \cup {i} |->
            IF j = i THEN [time |-> t, status |-> "PENDING"] ELSE schedule[j]]
       /\ told' = [j \in DOMAIN told \cup {i} |-> IF j = i THEN "PENDING" ELSE told[j]]
  /\ UNCHANGED <<clock, struck, late, call>>

\* The session writes the columns that differ from those it read; its reply
\* is the row as it read it, with the change.
Reads(c, i, change) ==
  /\ Required(i)
  /\ call' = [call EXCEPT ![c] =
       [pc |-> "write", id |-> i,
        change |-> Restrict(change, {f \in DOMAIN change : change[f] # schedule[i][f]}),
        reply |-> IF "status" \in DOMAIN change THEN change.status ELSE schedule[i].status,
        late |-> FALSE]]
  /\ UNCHANGED <<clock, struck, schedule, told, late>>

\* update: everything but the status
Update(c) ==
  /\ call[c].pc = "idle"
  /\ \E i \in Ids, t \in Times : Reads(c, i, [time |-> t])

\* update_status: any status after any other
UpdateStatus(c) ==
  /\ call[c].pc = "idle"
  /\ \E i \in Ids, s \in Statuses : Reads(c, i, [status |-> s])

\* An UPDATE that finds no row fails the request.
Write(c) ==
  /\ call[c].pc = "write"
  /\ LET r == call[c]
     IN  IF Required(r.id)
         THEN /\ schedule' = [schedule EXCEPT ![r.id] =
                   [f \in DOMAIN @ |-> IF f \in DOMAIN r.change THEN r.change[f] ELSE @[f]]]
              /\ told' = [told EXCEPT ![r.id] = r.reply]
              /\ late' = IF r.late THEN late \cup {r.id} ELSE late \ {r.id}
         ELSE UNCHANGED <<schedule, told, late>>
  /\ call' = [call EXCEPT ![c] = Idle]
  /\ UNCHANGED <<clock, struck>>

ReadForDelete(c) ==
  /\ call[c].pc = "idle"
  /\ \E i \in Ids : Required(i) /\ call' = [call EXCEPT ![c] = [pc |-> "delete", id |-> i]]
  /\ UNCHANGED <<clock, struck, schedule, told, late>>

Delete(c) ==
  /\ call[c].pc = "delete"
  /\ schedule' = Restrict(schedule, DOMAIN schedule \ {call[c].id})
  /\ call' = [call EXCEPT ![c] = Idle]
  /\ UNCHANGED <<clock, struck, told, late>>

-----------------------------------------------------------------------------
\* Fault: whatever its status.
MissedAny(i) == schedule[i].time < clock
Missed(i)    == schedule[i].time < clock /\ schedule[i].status = "PENDING"

\* expire_pending: one UPDATE, whose condition is that of the row as it is
\* when the UPDATE gets to it.
ExpirePending ==
  /\ struck
  /\ schedule' = [i \in DOMAIN schedule |->
       IF Missed(i) THEN [schedule[i] EXCEPT !.status = "CANCELLED"] ELSE schedule[i]]
  /\ call' = [c \in DOMAIN call |->
       IF call[c].pc = "write" /\ Required(call[c].id) /\ Missed(call[c].id)
       THEN [call[c] EXCEPT !.late = TRUE] ELSE call[c]]
  /\ struck' = FALSE
  /\ UNCHANGED <<clock, told, late>>

\* A run that is missed is not made up for, but the next hour strikes.
Tick ==
  /\ clock < MaxTime
  /\ clock' = clock + 1
  /\ struck' = TRUE
  /\ UNCHANGED <<schedule, told, late, call>>

Next ==
  \/ \E c \in Calls :
       \/ Create(c) \/ Update(c) \/ UpdateStatus(c) \/ Write(c)
       \/ ReadForDelete(c) \/ Delete(c)
  \/ ExpirePending \/ Tick

Spec == Init /\ [][Next]_vars

-----------------------------------------------------------------------------
\* What a client was told of a schedule's status stays so, whatever else it
\* changes of it.  One told to be PENDING that is CANCELLED has a time that is
\* past, and the job cancelled it for that; only an edit that was between its
\* read and its write when the job ran can have moved a cancelled one to a
\* time to come and told of it as PENDING.  With one request at a time
\* (update, update_status, expire_pending).
ToldIsKept ==
  \A i \in DOMAIN schedule :
    \/ told[i] = schedule[i].status
    \/ /\ told[i] = "PENDING" /\ schedule[i].status = "CANCELLED"
       /\ schedule[i].time < clock \/ i \in late
=============================================================================

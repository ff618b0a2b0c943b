---------------------------- MODULE VoiceSession ----------------------------
(***************************************************************************)
(* The life of one voice session: its row, the interview behind it (the    *)
(* core session, which InterviewTurn models) and the owner's cached copy,  *)
(* under the calls of VoiceInterviewService and the scheduler's cleanup.   *)
(* Every repository call is a transaction of its own and takes no lock, so *)
(* what a call read may have changed when it writes.                       *)
(***************************************************************************)
EXTENDS Naturals

CONSTANTS Calls,      \* requests and socket handlers inside the service
          Cleanup,    \* cleanup_stale_sessions, on the scheduler
          MaxFaults,  \* exceptions and process deaths in a behaviour
          None

\* What is assumed of the constants.
SessionAssumption == MaxFaults \in Nat /\ None \notin {"IN_PROGRESS", "PAUSED", "COMPLETED"}

VARIABLES
  status,    \* of the row, None when it is gone
  phase,     \* current_phase: "OPEN" for the phases of a running interview
  core,      \* status of the interview: "IN_PROGRESS", "COMPLETED", None
  cached,    \* status in the owner's cached copy, None without one
  old,       \* the session started more than two hours ago
  call,      \* caller -> what it is serving and its next step
  faults     \* faults so far

row  == <<status, phase>>
vars == <<row, core, cached, old, call, faults>>

Callers == Calls \cup {Cleanup}
Kinds   == {"end", "pause", "resume", "phase", "submit", "delete"}
Steps   == {"turn", "row", "cache", "invalidate", "interview"}
NoCall  == [kind |-> None, pc |-> "idle", seen |-> None]

Statuses == {"IN_PROGRESS", "PAUSED", "COMPLETED"}

TypeOK ==
  /\ status \in Statuses \cup {None}
  /\ phase \in {"OPEN", "COMPLETED"}
  /\ core \in {"IN_PROGRESS", "COMPLETED", None}
  /\ cached \in Statuses \cup {None}
  /\ old \in BOOLEAN
  /\ call \in [Callers -> {NoCall} \cup
                 [kind: Kinds, pc: Steps, seen: Statuses \cup {None}]]
  /\ faults \in 0 .. MaxFaults

\* create_session: the interview, the row, the copy.
Init ==
  /\ status = "IN_PROGRESS" /\ phase = "OPEN"
  /\ core = "IN_PROGRESS"
  /\ cached = "IN_PROGRESS"
  /\ old = FALSE
  /\ call = [c \in Callers |-> NoCall]
  /\ faults = 0

Begins(c, kind, pc) ==
  /\ call[c] = NoCall
  /\ call' = [call EXCEPT ![c] = [kind |-> kind, pc |-> pc, seen |-> None]]

At(c, kinds, pc) == call[c].kind \in kinds /\ call[c].pc = pc
GoesTo(c, pc)    == call' = [call EXCEPT ![c].pc = pc]
Returns(c)       == call' = [call EXCEPT ![c] = NoCall]

-----------------------------------------------------------------------------
(* Calls arrive                                                            *)

\* end_session, start_phase and delete_session ask only that the row exists.
\* So does submit_turn: a paused session answers.
Asked(c) ==
  /\ status # None
  /\ \/ \E kind \in {"end", "phase", "delete"} : Begins(c, kind, "row")
     \/ Begins(c, "submit", "turn")
  /\ UNCHANGED <<row, core, cached, old, faults>>

\* pause_session and resume_session look at the status first.
Checked(c) ==
  /\ \/ status = "IN_PROGRESS" /\ Begins(c, "pause", "row")
     \/ status = "PAUSED" /\ Begins(c, "resume", "row")
  /\ UNCHANGED <<row, core, cached, old, faults>>

\* stale_in_progress: by the start time, whatever happened since.
\* Fault: sessions whose interview is over are left out.
StaleAndOpen == status = "IN_PROGRESS" /\ old /\ core = "IN_PROGRESS"
Stale        == status = "IN_PROGRESS" /\ old

FindsStale ==
  /\ Stale
  /\ Begins(Cleanup, "end", "row")
  /\ UNCHANGED <<row, core, cached, old, faults>>

-----------------------------------------------------------------------------
(* Their transactions                                                      *)

\* The interview decides the turn, and the reply says whether it was the last.
DecideTurn(c) ==
  /\ At(c, {"submit"}, "turn")
  /\ \/ core # "IN_PROGRESS" /\ Returns(c) /\ UNCHANGED core
     \/ core = "IN_PROGRESS" /\ core' = "COMPLETED" /\ GoesTo(c, "row")
     \/ /\ core = "IN_PROGRESS" /\ UNCHANGED core
        /\ call' = [call EXCEPT ![c].kind = "phase", ![c].pc = "row"]
  /\ UNCHANGED <<row, cached, old, faults>>

Gone(c) == status = None /\ Returns(c) /\ UNCHANGED <<row, core>>

UpdatePhase(c) ==
  /\ At(c, {"phase"}, "row")
  /\ \/ Gone(c)
     \/ /\ status # None
        /\ phase' = "OPEN"
        /\ call' = [call EXCEPT ![c].pc = "cache", ![c].seen = status]
        /\ UNCHANGED <<status, core>>
  /\ UNCHANGED <<cached, old, faults>>

\* repository.end_session, with only_if_in_progress off everywhere.
EndRow(c) ==
  /\ At(c, {"end", "submit"}, "row")
  /\ \/ Gone(c)
     \/ /\ status # None
        /\ status' = "COMPLETED" /\ phase' = "COMPLETED"
        /\ GoesTo(c, "invalidate")
        /\ UNCHANGED core
  /\ UNCHANGED <<cached, old, faults>>

\* The status was checked by an earlier transaction.
PauseRow(c) ==
  /\ At(c, {"pause"}, "row")
  /\ status' = IF status = None THEN None ELSE "PAUSED"
  /\ GoesTo(c, "invalidate")
  /\ UNCHANGED <<phase, core, cached, old, faults>>

ResumeRow(c) ==
  /\ At(c, {"resume"}, "row")
  /\ \/ Gone(c)
     \/ /\ status # None
        /\ status' = "IN_PROGRESS"
        /\ call' = [call EXCEPT ![c].pc = "cache", ![c].seen = "IN_PROGRESS"]
        /\ UNCHANGED <<phase, core>>
  /\ UNCHANGED <<cached, old, faults>>

DeleteRow(c) ==
  /\ At(c, {"delete"}, "row")
  /\ \/ Gone(c)
     \/ /\ status # None
        /\ status' = None
        /\ GoesTo(c, "invalidate")
        /\ UNCHANGED <<phase, core>>
  /\ UNCHANGED <<cached, old, faults>>

\* _cache_session writes the entity its transaction returned.
CacheSession(c) ==
  /\ call[c].pc = "cache"
  /\ cached' = call[c].seen
  /\ Returns(c)
  /\ UNCHANGED <<row, core, old, faults>>

\* What follows the invalidation: end_session completes the interview and
\* delete_session deletes it.
\* Fault: the cleanup ends the row and no more.
TouchesInterviewOnce(c) == call[c].kind \in {"end", "delete"} /\ c # Cleanup
TouchesInterview(c)     == call[c].kind \in {"end", "delete"}

InvalidateCache(c) ==
  /\ call[c].pc = "invalidate"
  /\ cached' = None
  /\ IF TouchesInterview(c) THEN GoesTo(c, "interview") ELSE Returns(c)
  /\ UNCHANGED <<row, core, old, faults>>

CompleteInterview(c) ==
  /\ At(c, {"end"}, "interview")
  /\ core' = IF core = None THEN None ELSE "COMPLETED"
  /\ Returns(c)
  /\ UNCHANGED <<row, cached, old, faults>>

DeleteInterview(c) ==
  /\ At(c, {"delete"}, "interview")
  /\ core' = None
  /\ Returns(c)
  /\ UNCHANGED <<row, cached, old, faults>>

-----------------------------------------------------------------------------
(* The world around them                                                   *)

\* The interview's own deletion takes the row with it (ON DELETE CASCADE).
InterviewDeleted ==
  /\ core # None
  /\ core' = None /\ status' = None
  /\ UNCHANGED <<phase, cached, old, call, faults>>

GrowsOld ==
  /\ ~old
  /\ old' = TRUE
  /\ UNCHANGED <<row, core, cached, call, faults>>

\* SESSION_CACHE_TTL_SECONDS
CopyExpires ==
  /\ cached # None
  /\ cached' = None
  /\ UNCHANGED <<row, core, old, call, faults>>

\* A step raises or the process dies: the rest of the call is lost.  For
\* Cleanup, the rest of its run.
CallLost(c) ==
  /\ call[c] # NoCall
  /\ faults < MaxFaults
  /\ faults' = faults + 1
  /\ Returns(c)
  /\ UNCHANGED <<row, core, cached, old>>

CallStep(c) ==
  \/ DecideTurn(c) \/ UpdatePhase(c) \/ EndRow(c) \/ PauseRow(c)
  \/ ResumeRow(c) \/ DeleteRow(c) \/ CacheSession(c) \/ InvalidateCache(c)
  \/ CompleteInterview(c) \/ DeleteInterview(c)

Next ==
  \/ \E c \in Calls : Asked(c) \/ Checked(c)
  \/ FindsStale
  \/ \E c \in Callers : CallStep(c) \/ CallLost(c)
  \/ InterviewDeleted \/ GrowsOld \/ CopyExpires

Spec == Init /\ [][Next]_vars

\* Calls run on, the job runs every minute and time passes.
Fairness ==
  /\ \A c \in Callers : WF_vars(CallStep(c))
  /\ WF_vars(FindsStale)
  /\ WF_vars(GrowsOld)

FairSpec == Spec /\ Fairness

-----------------------------------------------------------------------------
\* A voice session that is over has its interview completed too, and the
\* report with it, unless a failure cut the call between the two commits
\* (end_session, cleanup_stale_sessions, submit_turn).
EndsInterview ==
  status = "COMPLETED" /\ core = "IN_PROGRESS" =>
    \/ faults > 0
    \/ \E c \in Callers :
         call[c].kind = "end" /\ call[c].pc \in {"invalidate", "interview"}

\* No session stays open for ever: not one whose interview ended without it,
\* not one that a late pause or resume reopened (cleanup_stale_sessions,
\* stale_in_progress).
SessionsEnd == status = "IN_PROGRESS" ~> status # "IN_PROGRESS"
=============================================================================

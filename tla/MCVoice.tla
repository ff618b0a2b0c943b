------------------------------- MODULE MCVoice -------------------------------
(***************************************************************************)
(* A voice session checked at its two sides: the records that the calls    *)
(* and the cleanup job share (VoiceSession), and the WebSocket runtime     *)
(* while the session is in progress (VoiceSocket, extended here).  `side`  *)
(* is chosen at the start and the other side's state stays as it began.    *)
(***************************************************************************)
EXTENDS VoiceSocket

CONSTANTS c1, c2, Calls, Cleanup, None, MaxFaults

VARIABLES
  side,
  row, phase, core, cached, old, call, faults   \* VoiceSession's

Session == INSTANCE VoiceSession WITH status <- row

ASSUME VoiceAssumption == Session!SessionAssumption

sessionVars == <<row, phase, core, cached, old, call, faults>>
allVars     == <<side, vars, sessionVars>>

VoiceInit == side \in {"session", "socket"} /\ Init /\ Session!Init

OnSocket(A)  == side = "socket" /\ A /\ UNCHANGED <<side, sessionVars>>
OnSession(A) == side = "session" /\ A /\ UNCHANGED <<side, vars>>

VoiceNext == OnSocket(Next) \/ OnSession(Session!Next)

VoiceSpec ==
  /\ VoiceInit /\ [][VoiceNext]_allVars
  /\ \A n \in Conns : WF_allVars(OnSocket(TurnStep(n)))
  /\ \A k \in Conns : WF_allVars(OnSocket(DelayedSubmit(k)))
  /\ WF_allVars(OnSocket(RecoverTurn))
  /\ \A c \in Session!Callers : WF_allVars(OnSession(Session!CallStep(c)))
  /\ WF_allVars(OnSession(Session!FindsStale))
  /\ WF_allVars(OnSession(Session!GrowsOld))

-----------------------------------------------------------------------------
\* A voice session that is over has its interview completed too, and the
\* report with it, unless a failure cut the call between the two commits
\* (end_session, cleanup_stale_sessions, submit_turn).
EndsInterview == Session!EndsInterview

\* No session stays open for ever: not one whose interview ended without it,
\* not one that a late pause or resume reopened (cleanup_stale_sessions,
\* stale_in_progress).
SessionsEnd == side = "session" => Session!SessionsEnd
=============================================================================

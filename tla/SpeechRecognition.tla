-------------------------- MODULE SpeechRecognition --------------------------
(***************************************************************************)
(* The speech recognition of a voice session (DashScopeAsrSession): runs,  *)
(* each with a connection to the provider, of which only the newest may    *)
(* serve; and the tasks of VoiceWebSocketRuntime that use it: the receive  *)
(* loop, which appends audio and restarts a recognition that refuses it,   *)
(* the monitor, which restarts one that does not get ready, and whoever    *)
(* closes it.  Between two awaits nothing else happens.                    *)
(***************************************************************************)
EXTENDS Integers, FiniteSets

CONSTANTS MaxRuns,    \* connections attempted
          MaxRetries, \* asr_append_retry_count
          MaxFaults   \* connections that fail, and messages that raise

VARIABLES
  gen,       \* _generation
  closed,    \* _closed
  ready,     \* _ready
  conn,      \* the run whose connection is _connection, 0 without one
  task,      \* the run of _run_task, 0 without one
  overtaken, \* history: connected runs whose _run_task a later start replaced
  run,       \* run -> its step
  shut,      \* runs whose connection was closed from here
  stop,      \* who stops or restarts the recognition -> its step
  audio,     \* the receive loop's step, and its retries
  faults

vars == <<gen, closed, ready, conn, task, overtaken, run, shut, stop, audio, faults>>

RecognitionAssumption == MaxRuns \in Nat \ {0} /\ MaxRetries \in Nat /\ MaxFaults \in Nat

Runs == 1 .. MaxRuns

\* The receive loop, the monitor, and disconnect or the inactivity pause.
Stoppers == {"receive", "monitor", "close"}
Working  == [pc: {"idle", "finish", "gather", "sleep"}, run: 0 .. MaxRuns]
IdleStop == [pc |-> "idle", run |-> 0]

TypeOK ==
  /\ gen \in 0 .. MaxRuns
  /\ closed \in BOOLEAN /\ ready \in BOOLEAN
  /\ conn \in 0 .. MaxRuns /\ task \in 0 .. MaxRuns
  /\ overtaken \subseteq Runs
  /\ run \in [Runs -> {"none", "connect", "setup", "listen", "ending", "done"}]
  /\ shut \subseteq Runs
  /\ stop \in [Stoppers -> Working]
  /\ audio \in [pc: {"idle", "append", "restart", "retry"}, left: 0 .. MaxRetries]
  /\ faults \in 0 .. MaxFaults

\* open: start
Init ==
  /\ gen = 1 /\ closed = FALSE /\ ready = FALSE /\ conn = 0 /\ task = 1
  /\ run = [g \in Runs |-> IF g = 1 THEN "connect" ELSE "none"]
  /\ overtaken = {} /\ shut = {}
  /\ stop = [s \in Stoppers |-> IdleStop]
  /\ audio = [pc |-> "idle", left |-> 0]
  /\ faults = 0

Fault == faults < MaxFaults /\ faults' = faults + 1

session == <<gen, closed, ready, conn, task, overtaken>>

-----------------------------------------------------------------------------
(* _run                                                                    *)

Run(g, from, to) == run[g] = from /\ run' = [run EXCEPT ![g] = to]

\* The connection is there; an old run, or one of a closed session, leaves it.
Connected(g) ==
  /\ IF closed \/ g # gen
     THEN Run(g, "connect", "ending") /\ UNCHANGED conn
     ELSE Run(g, "connect", "setup") /\ conn' = g
  /\ UNCHANGED <<gen, closed, ready, task, overtaken, shut, stop, audio, faults>>

\* session.update is sent
Configured(g) ==
  /\ IF g \in shut
     THEN Run(g, "setup", "ending") /\ UNCHANGED ready
     ELSE Run(g, "setup", "listen") /\ ready' = TRUE
  /\ UNCHANGED <<gen, closed, conn, task, overtaken, shut, stop, audio, faults>>

\* The connection was closed from here, or fails on its own.
Hangs(g) ==
  /\ \/ g \in shut /\ Run(g, "listen", "ending") /\ UNCHANGED faults
     \/ \E from \in {"connect", "setup", "listen"} : Run(g, from, "ending") /\ Fault
  /\ UNCHANGED <<session, shut, stop, audio>>

\* Fault: whichever run ends clears the session's state.
Any(g)     == TRUE
Current(g) == g = gen

\* `finally`
RunEnds(g) ==
  /\ Run(g, "ending", "done")
  /\ IF Current(g)
     THEN ready' = FALSE /\ conn' = 0
     ELSE UNCHANGED <<ready, conn>>
  /\ UNCHANGED <<gen, closed, task, overtaken, shut, stop, audio, faults>>

-----------------------------------------------------------------------------
(* _stop_connection, restart, close                                        *)

\* A cancelled run ends; its task is awaited.
CancelRun(s) ==
  /\ run' = IF task # 0 /\ run[task] # "done" THEN [run EXCEPT ![task] = "ending"] ELSE run
  /\ stop' = [stop EXCEPT ![s] = [pc |-> "gather", run |-> task]]
  /\ task' = 0

\* Without a connection the run is cancelled at once.
StopConnection(s) ==
  /\ ready' = FALSE
  /\ conn' = 0
  /\ \/ conn = 0 /\ CancelRun(s)
     \/ /\ conn # 0
        /\ stop' = [stop EXCEPT ![s] = [pc |-> "finish", run |-> conn]]
        /\ UNCHANGED <<task, run>>

\* session.finish is sent and the connection closed, whatever they raise.
FinishConnection(s) ==
  /\ stop[s].pc = "finish"
  /\ shut' = shut \cup {stop[s].run}
  /\ CancelRun(s)
  /\ UNCHANGED <<gen, closed, ready, conn, overtaken, audio, faults>>

Gathered(s) == stop[s].pc = "gather" /\ (stop[s].run # 0 => run[stop[s].run] = "done")

\* restart sleeps; close is done.
Stopped(s) ==
  /\ Gathered(s)
  /\ stop' = [stop EXCEPT ![s] = IF s = "close" THEN IdleStop ELSE [pc |-> "sleep", run |-> 0]]
  /\ UNCHANGED <<session, run, shut, audio, faults>>

\* The receive loop goes on to try the audio again.
Restarted(s) == IF s = "receive" /\ audio.pc = "restart" THEN [audio EXCEPT !.pc = "retry"] ELSE audio

Linked(g) == run[g] \in {"setup", "listen"}

\* Fault: a session that was closed meanwhile is started all the same.
StartAnyway == TRUE
MayStart    == ~closed

\* start looks neither at the run it replaces nor at its connection.
Start(s) ==
  /\ stop[s].pc = "sleep"
  /\ stop' = [stop EXCEPT ![s] = IdleStop]
  /\ IF MayStart
     THEN /\ gen < MaxRuns
          /\ gen' = gen + 1 /\ task' = gen + 1
          /\ run' = [run EXCEPT ![gen + 1] = "connect"]
          /\ overtaken' = overtaken \cup {g \in {task} \ {0} : Linked(g)}
     ELSE UNCHANGED <<gen, task, run, overtaken>>
  /\ audio' = Restarted(s)
  /\ UNCHANGED <<closed, ready, conn, shut, faults>>

\* _monitor_asr_ready, at most asr_ready_restart_limit times
MonitorRestarts ==
  /\ stop["monitor"].pc = "idle" /\ ~ready /\ ~closed
  /\ StopConnection("monitor")
  /\ UNCHANGED <<gen, closed, overtaken, shut, audio, faults>>

\* _cancel_tasks cancels the monitor, wherever it is, before close.
Close ==
  /\ stop["close"].pc = "idle" /\ ~closed
  /\ closed' = TRUE
  /\ ready' = FALSE /\ conn' = 0
  /\ LET at == [stop EXCEPT !["monitor"] = IdleStop]
     IN  \/ /\ conn = 0
            /\ run' = IF task # 0 /\ run[task] # "done" THEN [run EXCEPT ![task] = "ending"] ELSE run
            /\ stop' = [at EXCEPT !["close"] = [pc |-> "gather", run |-> task]]
            /\ task' = 0
         \/ /\ conn # 0
            /\ stop' = [at EXCEPT !["close"] = [pc |-> "finish", run |-> conn]]
            /\ UNCHANGED <<task, run>>
  /\ UNCHANGED <<gen, overtaken, shut, audio, faults>>

-----------------------------------------------------------------------------
(* The receive loop: _handle_audio, _restart_and_retry_audio               *)

Receives ==
  /\ audio.pc = "idle"
  /\ audio' = [pc |-> "append", left |-> MaxRetries]
  /\ UNCHANGED <<session, run, shut, stop, faults>>

Takes == conn # 0 /\ Linked(conn) /\ conn \notin shut

\* append_audio has waited for the recognition to be ready: it sends the audio,
\* or the connection refuses it; one that is not ready in time drops it.
Append ==
  /\ audio.pc = "append"
  /\ \/ /\ ready /\ Takes
        /\ audio' = [pc |-> "idle", left |-> 0]
        /\ UNCHANGED <<ready, conn, task, run, stop>>
     \/ /\ ~ready
        /\ audio' = [pc |-> "idle", left |-> 0]
        /\ UNCHANGED <<ready, conn, task, run, stop>>
     \/ /\ ready /\ ~Takes
        /\ audio' = [audio EXCEPT !.pc = "restart"]
        /\ StopConnection("receive")
  /\ UNCHANGED <<gen, closed, overtaken, shut, faults>>

\* Tried again at intervals, until the retries are used up.
Retry ==
  /\ audio.pc = "retry"
  /\ audio' = IF (ready /\ Takes) \/ audio.left = 0
              THEN [pc |-> "idle", left |-> 0]
              ELSE [audio EXCEPT !.left = @ - 1]
  /\ UNCHANGED <<session, run, shut, stop, faults>>

Next ==
  \/ \E g \in Runs : Connected(g) \/ Configured(g) \/ Hangs(g) \/ RunEnds(g)
  \/ \E s \in Stoppers : FinishConnection(s) \/ Stopped(s) \/ Start(s)
  \/ MonitorRestarts \/ Close
  \/ Receives \/ Append \/ Retry

Spec == Init /\ [][Next]_vars

-----------------------------------------------------------------------------
Busy == \E s \in Stoppers : stop[s].pc \in {"finish", "gather"}

\* While the newest run listens and nobody is stopping the recognition, audio
\* reaches it, however late older runs end (_run).
NewestIsHeard ==
  gen # 0 /\ run[gen] = "listen" /\ gen \notin shut /\ ~Busy /\ ~closed
    => conn = gen /\ ready

\* A recognition that was closed keeps no connection, starts no run, and none
\* of its runs goes on listening, with one exception: when two restarts
\* overlapped, the start of the second replaced the task of the first one's
\* run, and if that run was connected by then nobody is left to stop it; it
\* may listen until its provider hangs up (start, close, restart).
ClosedIsSilent ==
  closed /\ stop["close"].pc = "idle"
    => conn = 0 /\ task = 0 /\ \A g \in Runs \ overtaken : ~Linked(g)

RecognitionHolds == NewestIsHeard /\ ClosedIsSilent
=============================================================================

------------------------------ MODULE ModelProxy ------------------------------
(***************************************************************************)
(* The diagnostic proxy between the application and a model's HTTP or      *)
(* WebSocket service: what it forwards, what it records of it, and the     *)
(* faults it is told to inject.  A record is a line appended by a thread   *)
(* under the recorder's lock, which a cancelled writer gives up while its  *)
(* thread goes on.                                                         *)
(***************************************************************************)
EXTENDS Integers, Sequences

CONSTANTS Requests,     \* requests proxied
          MaxCount,     \* requests a fault is for
          MaxSets,      \* calls of the control interface
          MaxMessages   \* of each direction of a WebSocket

ProxyAssumption == {MaxCount, MaxSets, MaxMessages} \subseteq Nat

VARIABLES
  fault,    \* FaultState: the requests it is still for
  since,    \* what the last control call asked for, and the requests since
  sets,     \* control calls so far
  kind,     \* request -> over HTTP or a WebSocket
  state,    \* request -> where it is
  injected, \* request -> whether a fault was injected, and whether one was due
  log,      \* request -> its records
  pump,     \* direction -> what its pump is doing, of a WebSocket
  read,     \* direction -> messages read
  sent,     \* direction -> messages forwarded
  late      \* messages that a cancelled pump's thread is still recording

vars == <<fault, since, sets, kind, state, injected, log, pump, read, sent, late>>
sockets  == <<pump, read, sent, late>>
controls == <<fault, since, sets>>

Directions == {"upstream", "client"}
Over       == {"done", "badGateway", "refused", "broken", "closed", "hangs"}

TypeOK ==
  /\ fault \in 0 .. MaxCount
  /\ sets \in 0 .. MaxSets
  /\ \A r \in Requests : state[r] \in Over \cup {"new", "inject", "ask", "answer", "open", "pumps", "closing"}
  /\ pump \in [Directions -> {"idle", "records", "forwards", "ended"}]
  /\ read \in [Directions -> 0 .. MaxMessages] /\ sent \in [Directions -> 0 .. MaxMessages]

\* At most one WebSocket.
Init ==
  /\ fault = 0 /\ since = [count |-> 0, requests |-> 0] /\ sets = 0
  /\ kind \in {k \in [Requests -> {"http", "socket"}] :
                 \A r, s \in Requests : k[r] = "socket" /\ k[s] = "socket" => r = s}
  /\ state = [r \in Requests |-> "new"]
  /\ injected = [r \in Requests |-> [was |-> FALSE, due |-> FALSE]]
  /\ log = [r \in Requests |-> <<>>]
  /\ pump = [d \in Directions |-> "idle"]
  /\ read = [d \in Directions |-> 0] /\ sent = [d \in Directions |-> 0]
  /\ late = {}

-----------------------------------------------------------------------------
(* Faults                                                                  *)

SetFault(n) ==
  /\ sets < MaxSets
  /\ fault' = n
  /\ since' = [count |-> n, requests |-> 0]
  /\ sets' = sets + 1
  /\ UNCHANGED <<kind, state, injected, log, sockets>>

ConfigureFault == \E n \in 1 .. MaxCount : SetFault(n)
ResetFault     == SetFault(0)

\* Fault: the last request it is for leaves it in place.
KeepsOne(n) == IF n > 1 THEN n - 1 ELSE n

\* take, under the lock
Left(n) == IF n > 0 THEN n - 1 ELSE 0

Becomes(r, s) == state' = [state EXCEPT ![r] = s]
\* A record of the n-th message of a direction, or of something else.
Line(what, n)    == [what |-> what, n |-> n]
Appends(r, line) == log' = [log EXCEPT ![r] = Append(@, line)]
Records(r, what) == Appends(r, Line(what, 0))

\* apply_fault; then the target's scheme and host are looked at.
Arrive(r) ==
  /\ state[r] = "new"
  /\ fault' = Left(fault)
  /\ since' = [since EXCEPT !.requests = @ + 1]
  /\ injected' = [injected EXCEPT ![r] =
       [was |-> fault > 0, due |-> since.requests < since.count]]
  /\ \/ fault > 0 /\ Becomes(r, "inject")
     \/ fault = 0 /\ (Becomes(r, "refused") \/ Becomes(r, IF kind[r] = "http" THEN "ask" ELSE "open"))
  /\ UNCHANGED <<sets, kind, log, sockets>>

\* Recorded, then answered with a status, hanging for an hour or cut, by its
\* mode.
Inject(r) ==
  /\ state[r] = "inject"
  /\ Records(r, "fault-injected")
  /\ \E end \in {"done", "hangs", "broken"} : Becomes(r, end)
  /\ UNCHANGED <<controls, kind, injected, sockets>>

-----------------------------------------------------------------------------
(* HTTP                                                                    *)

Ask(r) ==
  /\ state[r] = "ask"
  /\ Records(r, "http-request")
  /\ Becomes(r, "answer")
  /\ UNCHANGED <<controls, kind, injected, sockets>>

\* The answer is recorded once all of it has been passed on; a connection
\* that is refused, times out or is closed by either side is an upstream
\* error; a body that upstream cuts short is no ClientConnectionError.
Answer(r) ==
  /\ state[r] = "answer"
  /\ \/ Becomes(r, "done") /\ Records(r, "http-response")
     \/ Becomes(r, "badGateway") /\ Records(r, "upstream-error")
     \/ Becomes(r, "broken") /\ UNCHANGED log
  /\ UNCHANGED <<controls, kind, injected, sockets>>

-----------------------------------------------------------------------------
(* WebSockets                                                              *)

\* Nothing is recorded of one that upstream does not accept.
Open(r) ==
  /\ state[r] = "open"
  /\ \/ Becomes(r, "pumps") /\ Records(r, "websocket-open")
     \/ Becomes(r, "broken") /\ UNCHANGED log
  /\ UNCHANGED <<controls, kind, injected, sockets>>

Pumping(r) == state[r] = "pumps"

Goes(d, p) == pump' = [pump EXCEPT ![d] = p]

\* The next message of its source.
ReadMessage(r, d) ==
  /\ Pumping(r) /\ pump[d] = "idle" /\ read[d] < MaxMessages
  /\ read' = [read EXCEPT ![d] = @ + 1]
  /\ Goes(d, "records")
  /\ UNCHANGED <<controls, kind, state, injected, log, sent, late>>

RecordMessage(r, d) ==
  /\ Pumping(r) /\ pump[d] = "records"
  /\ Appends(r, Line(d, read[d]))
  /\ Goes(d, "forwards")
  /\ UNCHANGED <<controls, kind, state, injected, read, sent, late>>

\* The pump ends when its destination is closed, or the message says so.
ForwardMessage(r, d) ==
  /\ Pumping(r) /\ pump[d] = "forwards"
  /\ \/ sent' = [sent EXCEPT ![d] = @ + 1] /\ Goes(d, "idle")
     \/ Goes(d, "ended") /\ UNCHANGED sent
  /\ UNCHANGED <<controls, kind, state, injected, log, read, late>>

SourceEnds(r, d) ==
  /\ Pumping(r) /\ pump[d] = "idle"
  /\ Goes(d, "ended")
  /\ UNCHANGED <<controls, kind, state, injected, log, read, sent, late>>

\* The other pump is cancelled wherever it is: a message it was recording is
\* in the hands of a thread, or still waited for the lock; one it was
\* forwarding is gone, or is not.
OnePumpEnds(r) ==
  /\ Pumping(r)
  /\ \E d \in Directions : pump[d] = "ended"
  /\ LET cut == {d \in Directions : pump[d] = "records"}
     IN  \E kept \in SUBSET cut : late' = {Line(d, read[d]) : d \in kept}
  /\ \E gone \in SUBSET {d \in Directions : pump[d] = "forwards"} :
       sent' = [d \in Directions |-> IF d \in gone THEN sent[d] + 1 ELSE sent[d]]
  /\ pump' = [d \in Directions |-> "ended"]
  /\ Becomes(r, "closing")
  /\ UNCHANGED <<controls, kind, injected, log, read>>

CloseSocket(r) ==
  /\ state[r] = "closing"
  /\ Records(r, "websocket-close")
  /\ Becomes(r, "closed")
  /\ UNCHANGED <<controls, kind, injected, sockets>>

LateRecord(r) ==
  /\ kind[r] = "socket"
  /\ \E m \in late : Appends(r, m) /\ late' = late \ {m}
  /\ UNCHANGED <<controls, kind, state, injected, pump, read, sent>>

-----------------------------------------------------------------------------
Next ==
  \/ ConfigureFault \/ ResetFault
  \/ \E r \in Requests :
       \/ Arrive(r) \/ Inject(r) \/ Ask(r) \/ Answer(r)
       \/ Open(r) \/ OnePumpEnds(r) \/ CloseSocket(r) \/ LateRecord(r)
       \/ \E d \in Directions :
            ReadMessage(r, d) \/ RecordMessage(r, d) \/ ForwardMessage(r, d) \/ SourceEnds(r, d)

Spec == Init /\ [][Next]_vars

-----------------------------------------------------------------------------
\* A fault is injected into as many of the requests after it as it was
\* configured for, whichever way they come in, and into no other; such a
\* request reaches no upstream (FaultState.take, apply_fault).
FaultsAreCounted ==
  \A r \in Requests :
    /\ injected[r].was = injected[r].due
    /\ injected[r].was => \A k \in DOMAIN log[r] : log[r][k].what = "fault-injected"

\* Every message passed on was recorded before, in its order; at most one of
\* each direction was recorded and not passed on, and only such a one is
\* recorded after the close (websocket_pump, proxy_websocket).
FramesAreRecorded ==
  \A r \in Requests : kind[r] = "socket" =>
    \A d \in Directions :
      LET frames == {k \in DOMAIN log[r] : log[r][k].what = d}
          number(k) == log[r][k].n
      IN  /\ \A j, k \in frames : j < k => number(j) < number(k)
          /\ \E n \in {sent[d], sent[d] + 1} : {number(k) : k \in frames} = 1 .. n
          /\ \A c \in DOMAIN log[r], k \in frames :
               log[r][c].what = "websocket-close" /\ c < k => number(k) > sent[d]

ProxyHolds == FaultsAreCounted /\ FramesAreRecorded
=============================================================================

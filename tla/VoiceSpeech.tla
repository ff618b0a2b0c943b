----------------------------- MODULE VoiceSpeech -----------------------------
(***************************************************************************)
(* Speaking a reply (VoiceWebSocketRuntime._process_turn, from its text    *)
(* on): a task per sentence, of which the session's semaphore lets Permits *)
(* synthesize at once, and the turn, which shows the reply, stores it and   *)
(* sends what they made in the order of the sentences to whatever          *)
(* connection is registered, and cancels what is left when the reply is    *)
(* not stored or it is cancelled itself.                                   *)
(***************************************************************************)
EXTENDS Integers, Sequences, FiniteSetsExt

CONSTANTS MaxText,  \* characters of a reply
          Permits,  \* max_concurrent_tts
          NConns    \* connections, the first of which asked

SpeechAssumption ==
  /\ MaxText \in Nat
  /\ Permits \in Nat \ {0}
  /\ NConns \in Nat \ {0}

VARIABLES
  text,     \* normalized
  synth,    \* sentence -> its task
  queue,    \* the tasks that wait for the semaphore, in order
  pc,       \* the turn
  emitted,  \* sentences sent
  next,     \* the sentence awaited next
  opened,   \* connections so far
  conn,     \* the connection registered, 0 without one
  open,     \* whether its socket is
  changed,  \* whether it was lost or replaced since the turn began
  got       \* connection -> what it received

vars == <<text, synth, queue, pc, emitted, next, opened, conn, open, changed, got>>

\* A sentence's terminal punctuation, a blank, any other character.
Characters == {"stop", "blank", "letter"}
\* The acknowledgement and the next question, stripped and joined.
Texts      == {t \in UNION {[1 .. n -> Characters] : n \in 0 .. MaxText} :
                 t # <<>> => t[1] # "blank" /\ t[Len(t)] # "blank"}

\* What strip leaves, as places in the text.
Solid(K)      == {k \in K : text[k] # "blank"}
Stripped(a, b) == IF Solid(a .. b) = {} THEN {} ELSE Min(Solid(a .. b)) .. Max(Solid(a .. b))

\* Fault: what follows the last stop is not spoken.
StopsOnly(stops) == stops
\* The places at which a piece ends.
Ends(stops) == stops \cup {Len(text)}

Pauses == Ends({k \in DOMAIN text : text[k] = "stop"})

\* What is between the pause before and this one.
Piece(e) == Stripped(1 + Max({0} \cup {p \in Pauses : p < e}), e)

\* _start_complete_sentences, and the remainder: the pieces that are not
\* blank, in their order.
Sentences ==
  LET ends  == {e \in Pauses : Piece(e) # {}}
      order == CHOOSE o \in [1 .. Cardinality(ends) -> ends] : \A i, j \in DOMAIN o : i < j => o[i] < o[j]
  IN  [i \in DOMAIN order |-> Piece(order[i])]

Indexes == DOMAIN Sentences

\* A task's audio: some, more than the send buffer holds, or none; or it raised.
Made == {"audio", "long", "none", "raised"}

TypeOK ==
  /\ text \in Texts
  /\ synth \in [Indexes -> {"waits", "runs", "cancelled"} \cup Made]
  /\ pc \in {"say", "save", "emit", "fallback", "over"}
  /\ emitted \in 0 .. Len(Sentences) /\ next \in 1 .. Len(Sentences) + 1
  /\ opened \in 1 .. NConns /\ conn \in {0, opened} /\ {open, changed} \subseteq BOOLEAN

Init ==
  /\ text \in Texts
  /\ synth = [i \in Indexes |-> "waits"]
  /\ queue = [i \in Indexes |-> i]
  /\ pc = "say" /\ emitted = 0 /\ next = 1
  /\ opened = 1 /\ conn = 1 /\ open = TRUE /\ changed = FALSE
  /\ got = [n \in 1 .. NConns |-> <<>>]

Running == {i \in Indexes : synth[i] = "runs"}

-----------------------------------------------------------------------------
(* _synthesize_with_timeout                                                *)

Acquire ==
  /\ queue # <<>> /\ Cardinality(Running) < Permits
  /\ synth' = [synth EXCEPT ![Head(queue)] = "runs"]
  /\ queue' = Tail(queue)
  /\ UNCHANGED <<text, pc, emitted, next, opened, conn, open, changed, got>>

\* A time out and an error of the provider make none; an error of the
\* settings is raised.
Synthesized(i) ==
  /\ synth[i] = "runs"
  /\ \E made \in Made : synth' = [synth EXCEPT ![i] = made]
  /\ UNCHANGED <<text, queue, pc, emitted, next, opened, conn, open, changed, got>>

-----------------------------------------------------------------------------
(* _process_turn, after its tasks are started                              *)

\* What the socket takes; more than its buffer holds is dropped.  A chunk is
\* of a sentence.
Send(kind, of) == got' = [got EXCEPT ![conn] = Append(@, [kind |-> kind, of |-> of])]

\* The turn is over: `finally` cancels the tasks that are not done and waits
\* for them.
Stops ==
  /\ pc' = "over"
  /\ synth' = [i \in Indexes |-> IF synth[i] \in Made THEN synth[i] ELSE "cancelled"]
  /\ queue' = <<>>

\* The turn returns when nobody can be shown the text.
Say ==
  /\ pc = "say"
  /\ IF conn # 0 /\ open THEN pc' = "save" /\ UNCHANGED <<synth, queue>> ELSE Stops
  /\ UNCHANGED <<text, emitted, next, opened, conn, open, changed, got>>

Saved ==
  /\ pc = "save"
  /\ pc' = "emit"
  /\ UNCHANGED <<text, synth, queue, emitted, next, opened, conn, open, changed, got>>

\* save_message raises: whoever is there is told of the error.
SaveFails ==
  /\ pc = "save"
  /\ IF conn # 0 /\ open THEN Send("error", 0) ELSE UNCHANGED got
  /\ Stops
  /\ UNCHANGED <<text, emitted, next, opened, conn, open, changed>>

-----------------------------------------------------------------------------
(* _emit_tts_chunks                                                        *)

\* Fault: as they are made.
Ready(i)   == synth[i] \in Made
Awaited(i) == i = next /\ synth[i] \in Made

Emit(i) ==
  /\ pc = "emit" /\ Awaited(i)
  /\ IF synth[i] \in {"audio", "long"} /\ conn # 0 /\ open
     THEN /\ emitted' = emitted + 1
          /\ IF synth[i] = "audio" THEN Send("chunk", i) ELSE UNCHANGED got
     ELSE UNCHANGED <<emitted, got>>
  /\ next' = next + 1
  /\ UNCHANGED <<text, synth, queue, pc, opened, conn, open, changed>>

\* The client is told that this was all only if something was sent.
EmitEnds ==
  /\ pc = "emit" /\ next > Len(Sentences)
  /\ IF emitted > 0 /\ conn # 0 /\ open THEN Send("complete", 0) ELSE UNCHANGED got
  /\ pc' = IF emitted = 0 /\ Sentences # <<>> THEN "fallback" ELSE "over"
  /\ UNCHANGED <<text, synth, queue, emitted, next, opened, conn, open, changed>>

\* The whole reply in one, when no sentence was sent; an error ends the turn
\* with an error message.
Fallback ==
  /\ pc = "fallback"
  /\ \/ conn # 0 /\ open /\ Send("whole", 0)
     \/ UNCHANGED got
     \/ conn # 0 /\ open /\ Send("error", 0)
  /\ pc' = "over"
  /\ UNCHANGED <<text, synth, queue, emitted, next, opened, conn, open, changed>>

-----------------------------------------------------------------------------
(* The connection meanwhile                                                *)

\* A new one hears this turn too, whether it replaces another, whose tasks it
\* takes over, or comes while that is being paused.
Accept ==
  /\ opened < NConns
  /\ opened' = opened + 1 /\ conn' = opened + 1 /\ open' = TRUE /\ changed' = TRUE
  /\ UNCHANGED <<text, synth, queue, pc, emitted, next, got>>

SocketCloses ==
  /\ conn # 0 /\ open
  /\ open' = FALSE /\ changed' = TRUE
  /\ UNCHANGED <<text, synth, queue, pc, emitted, next, opened, conn, got>>

\* The pause for inactivity; if it is refused nothing is cancelled.
PausePops ==
  /\ conn # 0
  /\ conn' = 0 /\ open' = FALSE /\ changed' = TRUE
  /\ UNCHANGED <<text, synth, queue, pc, emitted, next, opened, got>>

\* disconnect or the pause cancels the turn.
Cancelled ==
  /\ pc # "over"
  /\ conn' = 0 /\ open' = FALSE /\ changed' = TRUE
  /\ Stops
  /\ UNCHANGED <<text, emitted, next, opened, got>>

Next ==
  \/ Say \/ Saved \/ SaveFails
  \/ Acquire \/ EmitEnds \/ Fallback
  \/ \E i \in Indexes : Synthesized(i) \/ Emit(i)
  \/ Accept \/ SocketCloses \/ PausePops \/ Cancelled

Spec == Init /\ [][Next]_vars

-----------------------------------------------------------------------------
\* What was received, by the connection and the place there.
Received == UNION {{n} \X DOMAIN got[n] : n \in 1 .. NConns}
At(p)         == got[p[1]][p[2]]
Earlier(p, q) == p[1] < q[1] \/ (p[1] = q[1] /\ p[2] < q[2])
Of(kinds)     == {p \in Received : At(p).kind \in kinds}

\* The sentences are spoken in their order, whenever they are made and
\* whichever connection hears them, and together they are the whole reply; a
\* client hears sentences or the reply in one, not both, and is told of the
\* end once, after the last sentence; who is told that the turn failed has
\* heard nothing of the reply (_start_complete_sentences, _emit_tts_chunks).
SpokenInOrder ==
  /\ \A k \in DOMAIN text : text[k] # "blank" => \E i \in Indexes : k \in Sentences[i]
  /\ \A i, j \in Indexes : i < j => Max(Sentences[i]) < Min(Sentences[j])
  /\ \A p, q \in Of({"chunk"}) : Earlier(p, q) => At(p).of < At(q).of
  /\ \A p, q \in Of({"complete", "whole", "error"}) : p = q
  /\ Of({"whole", "error"}) # {} => Of({"chunk"}) = {}
  /\ \A p \in Of({"complete"}) : p[2] = Len(got[p[1]])

\* When the turn is over, a client that stayed connected was told that it
\* failed - the reply could not be stored, or not be spoken - or heard every
\* sentence that was made and is short enough to be sent, and then the end;
\* and no synthesis outlives its turn (_process_turn, `except` and `finally`).
HeardWhole ==
  pc = "over" =>
    /\ Running = {} /\ queue = <<>>
    /\ ~changed =>
         \/ \E p \in Of({"error"}) : p[1] = 1
         \/ \A i \in Indexes : synth[i] = "audio" =>
              /\ \E p \in Of({"chunk"}) : p[1] = 1 /\ At(p).of = i
              /\ \E p \in Of({"complete"}) : p[1] = 1 /\ p[2] = Len(got[1])

SpeechHolds == SpokenInOrder /\ HeardWhole
=============================================================================

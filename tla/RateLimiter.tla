---------------------------- MODULE RateLimiter ----------------------------
(***************************************************************************)
(* The rate limiter (common/redis/rate_limit.py and its Lua script): a     *)
(* request is checked against several keys at once, each with a sliding    *)
(* window of tokens.  The script is one step of Redis; the time it goes by *)
(* is the one the application read before it sent it.                      *)
(***************************************************************************)
EXTENDS Integers, FiniteSets

CONSTANTS MaxRequests,  \* bound: requests, numbered as they are made
          Users,
          Global,       \* the key all users share
          Limit,        \* key -> the tokens of a window
          Interval,     \* the length of a window
          MaxDelay,     \* bound: how late the script runs after its time was read
          MaxTime       \* bound: the clock

Requests == 1..MaxRequests
Keys     == Users \cup {Global}

LimiterAssumption ==
  /\ Limit \in [Keys -> Nat \ {0}]
  /\ Interval \in Nat \ {0} /\ MaxDelay \in Nat /\ MaxTime \in Nat /\ MaxRequests \in Nat

VARIABLES
  clock,
  bucket,   \* key -> its value and permits in Redis, and when they expire
  request   \* request -> its user, the time it read, and how it went

vars == <<clock, bucket, request>>

Absent == [value |-> -1, permits |-> {}, expires |-> -1]
Unsent == [pc |-> "idle", key |-> Global, now |-> 0, ran |-> 0]

TypeOK ==
  /\ clock \in 0..MaxTime
  /\ \A k \in Keys : \/ bucket[k] = Absent
                     \/ /\ bucket[k].value \in 0..Limit[k]
                        /\ bucket[k].permits \subseteq Requests
                        /\ bucket[k].expires > clock
  /\ request \in [Requests -> [pc: {"idle", "sent", "passed", "refused"}, key: Keys,
                               now: 0..MaxTime, ran: 0..MaxTime]]

Init ==
  /\ clock = 0
  /\ bucket = [k \in Keys |-> Absent]
  /\ request = [r \in Requests |-> Unsent]

\* The rules of a request, in order: the script stops at the first that fails.
Rules(r) == {Global, request[r].key}

\* check: now_ms is read by the caller.
Send(r, u) ==
  /\ request[r] = Unsent
  /\ \A q \in 1..(r - 1) : request[q] # Unsent
  /\ request' = [request EXCEPT ![r] = [@ EXCEPT !.pc = "sent", !.key = u, !.now = clock]]
  /\ UNCHANGED <<clock, bucket>>

\* zrangebyscore(0, now - interval), and below what zremrangebyscore leaves.
Expired(k, now) == {p \in bucket[k].permits : request[p].now <= now - Interval}

\* Fault: the permits given back are not taken out.
KeptAll(k, now) == bucket[k].permits
Kept(k, now)    == bucket[k].permits \ Expired(k, now)

\* The tokens there are, those given back by expired permits included.
Current(k, now) ==
  LET value == IF bucket[k].value < 0 THEN Limit[k] ELSE bucket[k].value
      back  == value + Cardinality(Expired(k, now))
  IN  IF back < Limit[k] THEN back ELSE Limit[k]

Passes(r) == \A k \in Rules(r) : Current(k, request[r].now) >= 1

\* Both keys are set to expire after two windows.
Spent(r, k) ==
  [value   |-> Current(k, request[r].now) - 1,
   permits |-> Kept(k, request[r].now) \cup {r},
   expires |-> clock + 2 * Interval]

\* rate_limit_single.lua: every rule passes and all are charged, or none is.
Check(r) ==
  /\ request[r].pc = "sent"
  /\ request' = [request EXCEPT ![r] =
                   IF Passes(r) THEN [@ EXCEPT !.pc = "passed", !.ran = clock]
                                ELSE [Unsent EXCEPT !.pc = "refused"]]
  /\ bucket' = IF Passes(r)
               THEN [k \in Keys |-> IF k \in Rules(r) THEN Spent(r, k) ELSE bucket[k]]
               ELSE bucket
  /\ UNCHANGED clock

\* Redis drops the keys whose time has come.
Tick ==
  /\ clock < MaxTime
  /\ \A r \in Requests : request[r].pc = "sent" => clock < request[r].now + MaxDelay
  /\ clock' = clock + 1
  /\ bucket' = [k \in Keys |-> IF bucket[k].expires = clock + 1 THEN Absent ELSE bucket[k]]
  /\ UNCHANGED request

Next ==
  \/ \E r \in Requests, u \in Users : Send(r, u)
  \/ \E r \in Requests : Check(r)
  \/ Tick

Spec == Init /\ [][Next]_vars

-----------------------------------------------------------------------------
(* Safety                                                                  *)

PassedOn(k) == {r \in Requests : request[r].pc = "passed" /\ k \in Rules(r)}

\* Of the requests that passed a key no more than its limit ran in any window,
\* shortened by the time a script may be late: a late one returns its token
\* early, as the window goes by the time the application read
\* (rate_limit_single.lua, check).
WindowHolds ==
  \A k \in Keys : \A t \in 0..MaxTime :
    Cardinality({r \in PassedOn(k) : request[r].ran \in t..(t + Interval - MaxDelay - 1)})
      <= Limit[k]

\* Every token is there or held by a request that passed: one that was refused
\* by another rule has kept none (the second phase of rate_limit_single.lua).
TokensAreKept ==
  \A k \in Keys :
    /\ bucket[k] # Absent => bucket[k].value + Cardinality(bucket[k].permits) = Limit[k]
    /\ bucket[k].permits \subseteq PassedOn(k)

LimitsHold == WindowHolds /\ TokensAreKept
=============================================================================

------------------------------ MODULE Accounts ------------------------------
(***************************************************************************)
(* One account: registration, its one-time tokens, its password, and its   *)
(* sessions (AuthService, AuthActionTokenStore, AuthSessionStore).         *)
(* PostgreSQL holds the account and the password; Redis holds tokens, a    *)
(* key for each session, and the set of the user's sessions.  Every call   *)
(* is a coroutine that can be overtaken between any two of its steps.      *)
(* Requests that are refused, mail, and the rate limiter are left out.     *)
(***************************************************************************)
EXTENDS Naturals

CONSTANTS Calls,        \* API requests being served at once
          Sessions,
          Tokens,
          None,
          MaxPasswords  \* bound: passwords the account has had

AccountAssumption == MaxPasswords \in Nat

VARIABLES
  account,   \* the status of the row in users
  password,  \* which password the credential is of, and if it needs a rehash
  token,     \* token -> what it is good for
  session,   \* session -> whether its key is in Redis
  members,   \* auth:user-sessions
  call       \* API request -> its step and what it has read

vars == <<account, password, token, session, members, call>>

Idle == [pc |-> "idle", session |-> None, password |-> 0, found |-> {}]

TypeOK ==
  /\ account \in {"none", "PENDING", "ACTIVE"}
  /\ password \in [number: 0..MaxPasswords, outdated: BOOLEAN]
  /\ token \in [Tokens -> {"new", "email-verify", "password-reset", "used"}]
  /\ session \in [Sessions -> {"new", "live", "gone"}]
  /\ members \subseteq Sessions
  /\ call \in [Calls -> [pc: {"idle", "email-verify", "password-reset", "verify", "check", "write",
                              "members", "revoke", "rehash", "create", "refresh", "actor"},
                         session: Sessions \cup {None},
                         password: 0..MaxPasswords,
                         found: SUBSET Sessions]]

\* create_admin makes an account that is active; a credential may date from
\* before the hashing parameters changed.
Init ==
  /\ account \in {"none", "ACTIVE"}
  /\ password \in [number: {0}, outdated: BOOLEAN]
  /\ token = [t \in Tokens |-> "new"]
  /\ session = [s \in Sessions |-> "new"]
  /\ members = {}
  /\ call = [c \in Calls |-> Idle]

At(c, pc)         == call[c].pc = pc
GoTo(c, from, to) == At(c, from) /\ call' = [call EXCEPT ![c].pc = to]
Ends(c)           == call' = [call EXCEPT ![c] = Idle]

-----------------------------------------------------------------------------
(* Registration and one-time tokens                                        *)

\* create_human_user; a second registration meets the unique e-mail address.
Register(c) ==
  /\ account = "none"
  /\ account' = "PENDING"
  /\ GoTo(c, "idle", "email-verify")
  /\ UNCHANGED <<password, token, session, members>>

RequestToken(c) ==
  /\ \/ account = "PENDING" /\ GoTo(c, "idle", "email-verify")
     \/ account = "ACTIVE" /\ GoTo(c, "idle", "password-reset")
  /\ UNCHANGED <<account, password, token, session, members>>

CreateToken(c, t) ==
  /\ call[c].pc \in {"email-verify", "password-reset"}
  /\ token[t] = "new"
  /\ token' = [token EXCEPT ![t] = call[c].pc]
  /\ Ends(c)
  /\ UNCHANGED <<account, password, session, members>>

\* GETDEL: a token is had once.
ConsumeToken(c, t) ==
  /\ \/ token[t] = "email-verify" /\ GoTo(c, "idle", "verify")
     \/ token[t] = "password-reset" /\ GoTo(c, "idle", "check")
  /\ token' = [token EXCEPT ![t] = "used"]
  /\ UNCHANGED <<account, password, session, members>>

TokenExpires(t) ==
  /\ token[t] \in {"email-verify", "password-reset"}
  /\ token' = [token EXCEPT ![t] = "used"]
  /\ UNCHANGED <<account, password, session, members, call>>

VerifyEmail(c) ==
  /\ At(c, "verify")
  /\ account' = "ACTIVE"
  /\ Ends(c)
  /\ UNCHANGED <<password, token, session, members>>

-----------------------------------------------------------------------------
(* Sessions                                                                *)

\* find_login, and the check of the password that was read.
Login(c) ==
  /\ account = "ACTIVE"
  /\ At(c, "idle")
  /\ call' = [call EXCEPT ![c] = [@ EXCEPT !.pc = IF password.outdated THEN "rehash" ELSE "create",
                                           !.password = password.number]]
  /\ UNCHANGED <<account, password, token, session, members>>

\* rehash_password writes the password that was checked, whatever is there now.
Rehash(c) ==
  /\ GoTo(c, "rehash", "create")
  /\ password' = [number |-> call[c].password, outdated |-> FALSE]
  /\ UNCHANGED <<account, token, session, members>>

\* The key and the set are written in one MULTI.
CreateSession(c, s) ==
  /\ At(c, "create")
  /\ session[s] = "new"
  /\ session' = [session EXCEPT ![s] = "live"]
  /\ members' = members \cup {s}
  /\ Ends(c)
  /\ UNCHANGED <<account, password, token>>

\* AuthSessionStore.get reads the key and later gives it a new lifetime.
Authenticate(c, s) ==
  /\ At(c, "idle")
  /\ session[s] = "live"
  /\ call' = [call EXCEPT ![c] = [@ EXCEPT !.pc = "refresh", !.session = s]]
  /\ UNCHANGED <<account, password, token, session, members>>

\* Fault: the session is written again, with the new lifetime.
Rewritten(s) == [session EXCEPT ![s] = "live"]

\* EXPIRE does nothing to a key that is gone.
Refreshed(s) == session

Refresh(c) ==
  /\ GoTo(c, "refresh", "actor")
  /\ session' = Refreshed(call[c].session)
  /\ UNCHANGED <<account, password, token, members>>

\* DEL of the key and SREM from the set, in one MULTI: at the end of the
\* session's absolute lifetime, or when the user logs out.
Revoke(c) ==
  /\ call[c].pc \in {"refresh", "actor"}
  /\ session' = [session EXCEPT ![call[c].session] = "gone"]
  /\ members' = members \ {call[c].session}
  /\ Ends(c)
  /\ UNCHANGED <<account, password, token>>

SessionExpires(s) ==
  /\ session[s] = "live"
  /\ session' = [session EXCEPT ![s] = "gone"]
  /\ UNCHANGED <<account, password, token, members, call>>

-----------------------------------------------------------------------------
(* The password, and the end of every session                              *)

\* confirm_password_reset, and change_password once the current one is right.
CheckUser(c) ==
  /\ \/ account = "ACTIVE" /\ GoTo(c, "check", "write")
     \/ GoTo(c, "actor", "write")
  /\ UNCHANGED <<account, password, token, session, members>>

WritePassword(c) ==
  /\ password.number < MaxPasswords
  /\ GoTo(c, "write", "members")
  /\ password' = [number |-> password.number + 1, outdated |-> FALSE]
  /\ UNCHANGED <<account, token, session, members>>

RevokeAll(c) ==
  /\ GoTo(c, "actor", "members")
  /\ UNCHANGED <<account, password, token, session, members>>

ReadMembers(c) ==
  /\ At(c, "members")
  /\ call' = [call EXCEPT ![c] = [@ EXCEPT !.pc = "revoke", !.found = members]]
  /\ UNCHANGED <<account, password, token, session, members>>

DeleteSessions(c) ==
  /\ At(c, "revoke")
  /\ session' = [s \in Sessions |-> IF s \in call[c].found THEN "gone" ELSE session[s]]
  /\ members' = {}
  /\ Ends(c)
  /\ UNCHANGED <<account, password, token>>

\* A request that has nothing left to do, or whose process dies.
Leave(c) ==
  /\ ~At(c, "idle")
  /\ Ends(c)
  /\ UNCHANGED <<account, password, token, session, members>>

Next ==
  \/ \E c \in Calls :
       \/ Register(c) \/ RequestToken(c) \/ VerifyEmail(c)
       \/ Login(c) \/ Rehash(c) \/ Refresh(c) \/ Revoke(c)
       \/ CheckUser(c) \/ WritePassword(c) \/ RevokeAll(c) \/ ReadMembers(c) \/ DeleteSessions(c)
       \/ Leave(c)
  \/ \E c \in Calls, t \in Tokens : CreateToken(c, t) \/ ConsumeToken(c, t)
  \/ \E c \in Calls, s \in Sessions : CreateSession(c, s) \/ Authenticate(c, s)
  \/ \E t \in Tokens : TokenExpires(t)
  \/ \E s \in Sessions : SessionExpires(s)

Spec == Init /\ [][Next]_vars

-----------------------------------------------------------------------------
(* Safety                                                                  *)

\* A session that has ended is never live again: a request that read it
\* before a logout or a change of the password cannot bring it back by
\* refreshing it afterwards (AuthSessionStore.get, revoke, revoke_all).
SessionsStayEnded ==
  [][\A s \in Sessions : session[s] = "gone" => session'[s] = "gone"]_vars
=============================================================================

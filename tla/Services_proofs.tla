--------------------------- MODULE Services_proofs ---------------------------
(***************************************************************************)
(* Theorems about the services of MCServices, for every value of their     *)
(* parameters: each section has one service's inductive invariant, why     *)
(* every step of the service keeps it, and the theorem of ServicesSpec.    *)
(* Of question generation, the module that MCServices extends, they are    *)
(* about its own Spec.                                                     *)
(***************************************************************************)
EXTENDS MCServices, TaskStream_proofs

-----------------------------------------------------------------------------
(* Interview creation: one interview for a request id                      *)

\* The youngest interview of a set of them is one of them, and so is the
\* first free id.
LEMMA Extremes ==
  ASSUME NEW F, NEW n \in Nat, NEW S \in SUBSET (1 .. n + 1), S # {}
  PROVE  Creation(F)!Min(S) \in S /\ Creation(F)!Max(S) \in S
<1>1. PICK x \in S : \A y \in S : x =< y
  BY Smallest
<1>2. Creation(F)!Min(S) \in S
  BY <1>1 DEF Creation!Min
<1>3. PICK z \in {n + 1 - v : v \in S} : \A y \in {n + 1 - v : v \in S} : z =< y
  <2>1. {n + 1 - v : v \in S} \in SUBSET Nat
    BY SMT
  <2>2. {n + 1 - v : v \in S} # {}
    BY Zenon
  <2> QED BY <2>1, <2>2, Smallest
<1>4. PICK v \in S : z = n + 1 - v
  BY <1>3
<1>5. \A y \in S : v >= y
  BY <1>3, <1>4
<1>6. Creation(F)!Max(S) \in S
  BY <1>5 DEF Creation!Max
<1> QED BY <1>2, <1>6

\* The named assumption, of every set of forced requests, comes to this.
LEMMA CreationParameters == NoRequest \notin RequestIds /\ None \notin Clients /\ MaxInterviews \in Nat
<1>1. Creation({})!CreationAssumption
  BY ServicesAssumption
<1> QED BY <1>1 DEF Creation!CreationAssumption

\* The rows and calls of InterviewCreation.
Interviews == 1 .. MaxInterviews
Row == [of: RequestIds \cup {NoRequest}, at: {"none", "open", "over", "deleted"}]
Serving == [pc: {"idle", "lock", "cached", "existing", "unfinished", "generate",
                 "insert", "reread", "remember", "reply", "raise"},
            request: RequestIds \cup {NoRequest}, found: 0 .. MaxInterviews]

\* Creation(F)!TypeOK, with names for its sets of records.
CreationTypes ==
  /\ interviews \in [Interviews -> Row]
  /\ lock \in [RequestIds -> Clients \cup {None}]
  /\ cached \in [RequestIds -> 0 .. MaxInterviews]
  /\ creation \in [Clients -> Serving]
  /\ replied \in [RequestIds -> SUBSET Interviews]
  /\ lapsed \subseteq RequestIds

\* An interview that a call, the cache or a reply names for a request was
\* created, and for that request when the request forces a new one.
IsOf(F, i, r) == interviews[i].at # "none" /\ (r \in F => interviews[i].of = r)

\* The rows of a request, and what was remembered and said of it.
RowsHold(F) ==
  /\ \A i, j \in Interviews :
       (/\ interviews[i].of \in RequestIds /\ interviews[j].of = interviews[i].of
        /\ interviews[i].at \in {"open", "over"} /\ interviews[j].at \in {"open", "over"}) => i = j
  /\ \A r \in RequestIds :
       /\ cached[r] # 0 => IsOf(F, cached[r], r)
       /\ \A i \in replied[r] : IsOf(F, i, r)
       /\ r \notin lapsed => replied[r] \subseteq {cached[r]}

\* What a call knows.  While nothing lapsed it owns the lock of its request,
\* so what it read of the cache stays true until it replies.
CallHolds(F, c, m) ==
  /\ m.pc \in {"lock", "cached", "existing", "reread", "remember"} => m.request \in RequestIds
  /\ m.pc \in {"remember", "reply"} => m.found # 0
  /\ m.found # 0 => IsOf(F, m.found, m.request)
  /\ (m.pc \notin {"idle", "lock"} /\ m.request \in RequestIds /\ m.request \notin lapsed) =>
       /\ lock[m.request] = c
       /\ m.pc \notin {"cached", "reply", "raise"} => cached[m.request] = 0
       /\ m.pc = "reply" => m.found = cached[m.request]

\* What makes Creation(F)!RepliesAgree inductive.
CreationInv(F) ==
  /\ CreationTypes
  /\ RowsHold(F)
  /\ \A c \in Clients : CallHolds(F, c, creation[c])

\* No interview, no lock, and every call idle.
LEMMA CreationStarts == ASSUME NEW F \in SUBSET RequestIds, Creation({})!Init PROVE CreationInv(F)
<1> USE CreationParameters
<1>1. CreationTypes
  <2>1. [pc |-> "idle", request |-> NoRequest, found |-> 0] \in Serving
    BY DEF Serving
  <2>2. creation \in [Clients -> Serving]
    BY <2>1 DEF Creation!Init, Creation!Idle
  <2>3. interviews \in [Interviews -> Row]
    BY DEF Creation!Init, Creation!SessionIds, Interviews, Row
  <2> QED BY <2>2, <2>3 DEF Creation!Init, CreationTypes
<1>2. RowsHold(F)
  BY DEF Creation!Init, Creation!SessionIds, RowsHold, Interviews
<1>3. \A c \in Clients : CallHolds(F, c, creation[c])
  BY DEF Creation!Init, Creation!Idle, CallHolds
<1> QED BY <1>1, <1>2, <1>3 DEF CreationInv

\* What a step of one call that writes nothing has to show.
LEMMA CallMoves ==
  ASSUME NEW F \in SUBSET RequestIds, CreationInv(F), NEW c \in Clients,
         UNCHANGED <<interviews, lock, cached, replied, lapsed>>,
         creation' \in [Clients -> Serving],
         \A d \in Clients \ {c} : creation'[d] = creation[d],
         CallHolds(F, c, creation'[c])
  PROVE  CreationInv(F)'
<1>1. CreationTypes'
  BY DEF CreationInv, CreationTypes
<1>2. RowsHold(F)'
  BY DEF CreationInv, RowsHold, IsOf
<1>3. \A d \in Clients : CallHolds(F, d, creation[d])'
  <2> TAKE d \in Clients
  <2>1. CallHolds(F, d, creation'[d])
    BY DEF CreationInv
  <2> QED BY <2>1 DEF CallHolds, IsOf
<1> QED BY <1>1, <1>2, <1>3 DEF CreationInv

\* A call that goes on, and one that has found an interview.
LEMMA GoesOn ==
  ASSUME NEW c \in Clients, creation \in [Clients -> Serving],
         NEW from, creation[c].pc = from,
         NEW to \in {"cached", "existing", "unfinished", "generate", "insert", "reread",
                     "remember", "reply", "raise"},
         creation' = [creation EXCEPT ![c].pc = to]
  PROVE  /\ creation[c].pc = from
         /\ creation' \in [Clients -> Serving]
         /\ \A d \in Clients \ {c} : creation'[d] = creation[d]
         /\ creation'[c].pc = to /\ creation'[c].found = creation[c].found
         /\ creation'[c].request = creation[c].request
<1>1. creation[c].pc = from /\ creation' = [creation EXCEPT ![c].pc = to]
  OBVIOUS
<1>2. [creation[c] EXCEPT !.pc = to] \in Serving
  BY DEF Serving
<1>3. creation' = [creation EXCEPT ![c] = [creation[c] EXCEPT !.pc = to]]
  BY <1>1
<1>4. creation[c] \in Serving
  OBVIOUS
<1>5. creation'[c] = [creation[c] EXCEPT !.pc = to]
  BY <1>3
<1>6. creation'[c].pc = to /\ creation'[c].found = creation[c].found /\ creation'[c].request = creation[c].request
  BY <1>4, <1>5 DEF Serving
<1> QED BY <1>1, <1>2, <1>3, <1>6

\* A call that has found the one interview of its request.
LEMMA FindsOne ==
  ASSUME NEW c \in Clients, creation \in [Clients -> Serving],
         NEW from, creation[c].pc = from, NEW i \in Interviews, NEW to \in {"remember", "reply"},
         creation' = [creation EXCEPT ![c].pc = to, ![c].found = i]
  PROVE  /\ creation[c].pc = from
         /\ creation' \in [Clients -> Serving]
         /\ \A d \in Clients \ {c} : creation'[d] = creation[d]
         /\ creation'[c].pc = to /\ creation'[c].found = i
         /\ creation'[c].request = creation[c].request
<1>1. creation[c].pc = from /\ creation' = [creation EXCEPT ![c].pc = to, ![c].found = i]
  OBVIOUS
<1>2. [creation[c] EXCEPT !.pc = to, !.found = i] \in Serving
  <2>1. i \in 0 .. MaxInterviews /\ creation[c] \in Serving
    BY DEF Interviews
  <2> QED BY <2>1 DEF Serving
<1>3. creation' = [creation EXCEPT ![c] = [creation[c] EXCEPT !.pc = to, !.found = i]]
  BY <1>1
<1>4. creation[c] \in Serving
  OBVIOUS
<1>5. creation'[c] = [creation[c] EXCEPT !.pc = to, !.found = i]
  BY <1>3
<1>6. creation'[c].pc = to /\ creation'[c].found = i /\ creation'[c].request = creation[c].request
  BY <1>4, <1>5 DEF Serving
<1> QED BY <1>1, <1>2, <1>3, <1>6

\* A call that begins, takes the lock, or gives up.
LEMMA CallEnters ==
  ASSUME NEW F \in SUBSET RequestIds, CreationInv(F), NEW c \in Clients,
         \/ \E r \in RequestIds \cup {NoRequest} : Creation(F)!Begin(c, r)
         \/ Creation(F)!WaitEnds(c) \/ Creation(F)!AppCrash(c)
  PROVE  CreationInv(F)'
<1> USE CreationParameters
<1>0. creation \in [Clients -> Serving] /\ creation[c] \in Serving
  BY DEF CreationInv, CreationTypes
<1>1. ASSUME NEW r \in RequestIds \cup {NoRequest}, Creation(F)!Begin(c, r) PROVE CreationInv(F)'
  <2> DEFINE m == [creation[c] EXCEPT !.request = r, !.pc = IF r = NoRequest THEN "unfinished" ELSE "lock"]
  <2>1. creation[c] = [pc |-> "idle", request |-> NoRequest, found |-> 0]
        /\ creation' = [creation EXCEPT ![c] = m]
        /\ UNCHANGED <<interviews, lock, cached, replied, lapsed>>
    BY <1>1 DEF Creation!Begin, Creation!Idle
  <2>2. m \in Serving
    BY <1>0 DEF Serving
  <2>3. m.request = r /\ m.found = 0 /\ m.pc = IF r = NoRequest THEN "unfinished" ELSE "lock"
    BY <1>0, <2>1 DEF Serving
  <2> HIDE DEF m
  <2>4. creation' \in [Clients -> Serving] /\ creation'[c] = m
        /\ \A d \in Clients \ {c} : creation'[d] = creation[d]
    BY <1>0, <2>1, <2>2
  <2>5. CallHolds(F, c, m)
    BY <2>3 DEF CallHolds
  <2> QED BY <2>1, <2>4, <2>5, CallMoves
<1>2. ASSUME Creation(F)!WaitEnds(c) \/ Creation(F)!AppCrash(c) PROVE CreationInv(F)'
  <2> DEFINE m == [pc |-> "idle", request |-> NoRequest, found |-> 0]
  <2>1. creation' = [creation EXCEPT ![c] = m] /\ UNCHANGED <<interviews, lock, cached, replied, lapsed>>
    BY <1>2 DEF Creation!WaitEnds, Creation!AppCrash, Creation!Idle
  <2>2. m \in Serving
    BY DEF Serving
  <2>3. m.request = NoRequest /\ m.found = 0 /\ m.pc = "idle"
    OBVIOUS
  <2> HIDE DEF m
  <2>4. creation' \in [Clients -> Serving] /\ creation'[c] = m
        /\ \A d \in Clients \ {c} : creation'[d] = creation[d]
    BY <1>0, <2>1, <2>2
  <2>5. CallHolds(F, c, m)
    BY <2>3 DEF CallHolds
  <2> QED BY <2>1, <2>4, <2>5, CallMoves
<1> QED BY <1>1, <1>2

\* The interviews of a request, and the unfinished ones: they exist.
LEMMA FoundIs ==
  ASSUME NEW F \in SUBSET RequestIds, CreationInv(F), NEW r \in RequestIds \cup {NoRequest}
  PROVE  /\ \A i \in Creation(F)!Existing(r) : i \in Interviews /\ IsOf(F, i, r)
         /\ Creation(F)!Unfinished # {} =>
              /\ Creation(F)!Max(Creation(F)!Unfinished) \in Interviews
              /\ interviews[Creation(F)!Max(Creation(F)!Unfinished)].at = "open"
<1> USE CreationParameters
<1>1. Creation(F)!Unfinished \in SUBSET (1 .. MaxInterviews + 1) /\ MaxInterviews \in Nat
  BY DEF Creation!Unfinished, Creation!SessionIds
<1>2. Creation(F)!Unfinished # {} => Creation(F)!Max(Creation(F)!Unfinished) \in Creation(F)!Unfinished
  BY <1>1, Extremes
<1> QED BY <1>2 DEF Creation!Existing, Creation!Unfinished, Creation!SessionIds, Interviews, IsOf

\* A call under the lock that reads the cache or the rows and goes on.
LEMMA CallReads ==
  ASSUME NEW F \in SUBSET RequestIds, CreationInv(F), NEW c \in Clients,
         \/ Creation(F)!ReadCache(c) \/ Creation(F)!FindExisting(c) \/ Creation(F)!FindUnfinished(c)
         \/ Creation(F)!Generate(c) \/ Creation(F)!InsertConflicts(c) \/ Creation(F)!Reread(c)
         \/ Creation(F)!Fails(c)
  PROVE  CreationInv(F)'
<1> USE CreationParameters
<1>0. creation \in [Clients -> Serving] /\ creation[c] \in Serving /\ CallHolds(F, c, creation[c])
  BY DEF CreationInv, CreationTypes
<1> DEFINE r == creation[c].request
<1>a. r \in RequestIds \cup {NoRequest}
  BY <1>0 DEF Serving
<1>b. UNCHANGED <<interviews, lock, cached, replied, lapsed>>
  BY DEF Creation!ReadCache, Creation!FindExisting, Creation!FindUnfinished, Creation!Generate,
         Creation!InsertConflicts, Creation!Reread, Creation!Fails
<1> DEFINE Pcs == {"existing", "unfinished", "generate", "insert", "reread", "raise"}
\* It goes on with what it knows.
<1>1. ASSUME NEW from \in {"cached", "existing", "unfinished", "generate", "insert", "reread",
                           "remember", "reply"},
             NEW to \in Pcs, Creation(F)!GoTo(c, from, to),
             to \in {"existing", "reread"} => r \in RequestIds,
             (from = "cached" /\ to # "raise") => cached[r] = 0,
             from = "reply" => to = "raise"
      PROVE  CreationInv(F)'
  <2>1. /\ creation[c].pc = from
        /\ creation' \in [Clients -> Serving]
        /\ \A d \in Clients \ {c} : creation'[d] = creation[d]
        /\ creation'[c].pc = to /\ creation'[c].found = creation[c].found
        /\ creation'[c].request = creation[c].request
    <3>1. creation[c].pc = from /\ creation' = [creation EXCEPT ![c].pc = to]
      BY <1>1 DEF Creation!GoTo
    <3>2. to \in {"cached", "existing", "unfinished", "generate", "insert", "reread", "remember", "reply", "raise"}
      OBVIOUS
    <3> QED BY <1>0, <3>1, <3>2, GoesOn
  <2>2. CallHolds(F, c, creation'[c])
    BY <1>0, <1>1, <2>1 DEF CallHolds
  <2> QED BY <1>b, <2>1, <2>2, CallMoves
\* It found an interview.
<1>2. ASSUME NEW from \in {"cached", "existing", "unfinished", "generate", "reread"},
             NEW to \in {"remember", "reply"}, NEW i \in Interviews, IsOf(F, i, r),
             Creation(F)!Finds(c, from, i, to),
             (from = "cached" \/ r \notin RequestIds) <=> to = "reply",
             from = "cached" => i = cached[r]
      PROVE  CreationInv(F)'
  <2>1. /\ creation[c].pc = from
        /\ creation' \in [Clients -> Serving]
        /\ \A d \in Clients \ {c} : creation'[d] = creation[d]
        /\ creation'[c].pc = to /\ creation'[c].found = i
        /\ creation'[c].request = creation[c].request
    <3>1. creation[c].pc = from /\ creation' = [creation EXCEPT ![c].pc = to, ![c].found = i]
      BY <1>2 DEF Creation!Finds
    <3> QED BY <1>0, <3>1, FindsOne
  <2>2. i # 0
    BY DEF Interviews
  <2>3. CallHolds(F, c, creation'[c])
    BY <1>0, <1>2, <2>1, <2>2 DEF CallHolds
  <2> QED BY <1>b, <2>1, <2>3, CallMoves
<1>3. CASE Creation(F)!ReadCache(c)
  <2>1. creation[c].pc = "cached" /\ r \in RequestIds
    BY <1>0, <1>3 DEF Creation!ReadCache, CallHolds
  <2>2. cached[r] \in 0 .. MaxInterviews /\ (cached[r] # 0 => IsOf(F, cached[r], r))
    BY <2>1 DEF CreationInv, CreationTypes, RowsHold
  <2>3. CASE cached[r] = 0
    <3>1. Creation(F)!GoTo(c, "cached", "existing")
      BY <1>3, <2>3 DEF Creation!ReadCache, Creation!Request
    <3> QED BY <1>1, <2>1, <2>3, <3>1
  <2>4. CASE cached[r] # 0
    <3>1. \/ Creation(F)!GoTo(c, "cached", "raise")
          \/ Creation(F)!Finds(c, "cached", cached[r], "reply")
      BY <1>3, <2>4 DEF Creation!ReadCache, Creation!Request
    <3>2. cached[r] \in Interviews
      BY <2>2, <2>4 DEF Interviews
    <3>3. CASE Creation(F)!GoTo(c, "cached", "raise")
      BY <1>1, <3>3
    <3>4. CASE Creation(F)!Finds(c, "cached", cached[r], "reply")
      BY <1>2, <2>2, <2>4, <3>2, <3>4
    <3> QED BY <3>1, <3>3, <3>4
  <2> QED BY <2>3, <2>4
<1>4. CASE Creation(F)!FindExisting(c)
  <2>1. \/ Creation(F)!GoTo(c, "existing", "unfinished")
        \/ \E i \in Creation(F)!Existing(r) : Creation(F)!Finds(c, "existing", i, "remember")
    BY <1>4 DEF Creation!FindExisting, Creation!Request
  <2>2. creation[c].pc = "existing"
    BY <2>1 DEF Creation!GoTo, Creation!Finds
  <2>3. r \in RequestIds
    BY <1>0, <2>2 DEF CallHolds
  <2> QED BY <1>1, <1>2, <1>a, <2>1, <2>3, FoundIs
<1>5. CASE Creation(F)!FindUnfinished(c)
  <2>1. CASE r \in F \/ Creation(F)!Unfinished = {}
    <3>1. Creation(F)!GoTo(c, "unfinished", "generate")
      BY <1>5, <2>1 DEF Creation!FindUnfinished, Creation!Request
    <3> QED BY <1>1, <3>1
  <2>2. CASE r \notin F /\ Creation(F)!Unfinished # {}
    <3> DEFINE i == Creation(F)!Max(Creation(F)!Unfinished)
    <3>1. Creation(F)!Finds(c, "unfinished", i, IF r # NoRequest THEN "remember" ELSE "reply")
      BY <1>5, <2>2 DEF Creation!FindUnfinished, Creation!Request, Creation!Settle, Creation!Named
    <3>2. i \in Interviews /\ IsOf(F, i, r)
      BY <1>a, <2>2, FoundIs DEF IsOf
    <3> HIDE DEF i
    <3> QED BY <1>2, <1>a, <3>1, <3>2
  <2> QED BY <2>1, <2>2
<1>6. CASE Creation(F)!Generate(c)
  <2>1. CASE Creation(F)!Existing(r) = {} \/ r = NoRequest
    BY <1>1, <1>6, <2>1 DEF Creation!Generate, Creation!Request, Creation!Named
  <2>2. CASE Creation(F)!Existing(r) # {} /\ r # NoRequest
    <3>1. \E i \in Creation(F)!Existing(r) : Creation(F)!Finds(c, "generate", i, "remember")
      BY <1>6, <2>2 DEF Creation!Generate, Creation!Request, Creation!Named
    <3> QED BY <1>2, <1>a, <2>2, <3>1, FoundIs
  <2> QED BY <2>1, <2>2
<1>7. CASE Creation(F)!InsertConflicts(c)
  BY <1>1, <1>7, <1>a DEF Creation!InsertConflicts, Creation!Taken, Creation!Named, Creation!Request
<1>8. CASE Creation(F)!Reread(c)
  <2>1. \/ Creation(F)!GoTo(c, "reread", "raise")
        \/ \E i \in Creation(F)!Existing(r) : Creation(F)!Finds(c, "reread", i, "remember")
    BY <1>8 DEF Creation!Reread, Creation!Request
  <2>2. creation[c].pc = "reread"
    BY <2>1 DEF Creation!GoTo, Creation!Finds
  <2>3. r \in RequestIds
    BY <1>0, <2>2 DEF CallHolds
  <2> QED BY <1>1, <1>2, <1>a, <2>1, <2>3, FoundIs
<1>9. CASE Creation(F)!Fails(c)
  <2>1. creation[c].pc \in {"cached", "existing", "unfinished", "generate", "insert", "reread",
                            "remember", "reply"}
    BY <1>0, <1>9 DEF Creation!Fails, Serving
  <2>2. Creation(F)!GoTo(c, creation[c].pc, "raise")
    BY <1>9 DEF Creation!Fails, Creation!GoTo
  <2> QED BY <1>1, <2>1, <2>2
<1> QED BY <1>3, <1>4, <1>5, <1>6, <1>7, <1>8, <1>9

\* The lock goes to the call that waits for it.
LEMMA TakesLock ==
  ASSUME NEW F \in SUBSET RequestIds, CreationInv(F), NEW c \in Clients, Creation(F)!Acquire(c)
  PROVE  CreationInv(F)'
<1> USE CreationParameters
<1>1. /\ creation[c].pc = "lock" /\ creation' = [creation EXCEPT ![c].pc = "cached"]
      /\ UNCHANGED <<interviews, cached, replied, lapsed>>
      /\ lock[creation[c].request] = None
      /\ lock' = [lock EXCEPT ![creation[c].request] = c]
  BY DEF Creation!Acquire, Creation!GoTo, Creation!Request
<1>2. creation \in [Clients -> Serving] /\ creation[c] \in Serving /\ CallHolds(F, c, creation[c])
  BY DEF CreationInv, CreationTypes
<1>3. creation[c].request \in RequestIds
  BY <1>1, <1>2 DEF CallHolds
<1>4. /\ creation' \in [Clients -> Serving]
      /\ \A d \in Clients \ {c} : creation'[d] = creation[d]
      /\ creation'[c].pc = "cached" /\ creation'[c].found = creation[c].found
      /\ creation'[c].request = creation[c].request
  BY <1>1, <1>2, GoesOn
<1>5. lock' \in [RequestIds -> Clients \cup {None}] /\ lock'[creation[c].request] = c
      /\ \A r \in RequestIds \ {creation[c].request} : lock'[r] = lock[r]
  BY <1>1, <1>3 DEF CreationInv, CreationTypes
<1>6. CreationTypes'
  BY <1>1, <1>4, <1>5 DEF CreationInv, CreationTypes
<1>7. RowsHold(F)'
  BY <1>1 DEF CreationInv, RowsHold, IsOf
<1>8. ASSUME NEW d \in Clients PROVE CallHolds(F, d, creation[d])'
  <2>1. CASE d = c
    BY <1>1, <1>2, <1>3, <1>4, <1>5, <2>1 DEF CallHolds, IsOf
  <2>2. CASE d # c
    <3>1. CallHolds(F, d, creation[d]) /\ creation'[d] = creation[d] /\ d # None
      BY <1>4, <2>2 DEF CreationInv
    <3> QED BY <1>1, <1>5, <3>1 DEF CallHolds, IsOf
  <2> QED BY <2>1, <2>2
<1> QED BY <1>6, <1>7, <1>8 DEF CreationInv

\* A row is added under an id that no one has named yet; the unique index
\* has seen to it that its request has no other.
LEMMA RowAdded ==
  ASSUME NEW F \in SUBSET RequestIds, CreationInv(F), NEW c \in Clients, ~Creation(F)!Taken(c),
         Creation(F)!NextId \in Creation(F)!SessionIds, Creation(F)!Row(c)
  PROVE  /\ interviews' \in [Interviews -> Row]
         /\ Creation(F)!NextId \in Interviews
         /\ interviews[Creation(F)!NextId].at = "none"
         /\ interviews'[Creation(F)!NextId].of = creation[c].request
         /\ interviews'[Creation(F)!NextId].at = "open"
         /\ \A i \in Interviews \ {Creation(F)!NextId} : interviews'[i] = interviews[i]
         /\ creation[c].request \in RequestIds =>
              \A i \in Interviews : interviews[i].of = creation[c].request
                                      => interviews[i].at \notin {"open", "over"}
<1> USE CreationParameters
<1> DEFINE n == Creation(F)!NextId
<1> DEFINE S == {i \in Interviews : interviews[i].at = "none"} \cup {MaxInterviews + 1}
<1>1. n = Creation(F)!Min(S)
  BY DEF Creation!NextId, Creation!SessionIds, Interviews
<1>2. S \in SUBSET (1 .. MaxInterviews + 1) /\ S # {}
  BY DEF Interviews
<1>3. n \in S
  BY <1>1, <1>2, Extremes
<1>4. n \in Interviews
  BY DEF Creation!SessionIds, Interviews
<1>5. n # MaxInterviews + 1
  BY <1>4 DEF Interviews
<1>6. interviews[n].at = "none"
  BY <1>3, <1>4, <1>5
<1>7. creation[c] \in Serving /\ interviews \in [Interviews -> Row]
  BY DEF CreationInv, CreationTypes
<1>8. interviews' = [interviews EXCEPT ![n] = [of |-> creation[c].request, at |-> "open"]]
  BY DEF Creation!Row, Creation!Request
<1>9. [of |-> creation[c].request, at |-> "open"] \in Row
  BY <1>7 DEF Row, Serving
<1> HIDE DEF n
<1>10. interviews' \in [Interviews -> Row] /\ interviews'[n] = [of |-> creation[c].request, at |-> "open"]
       /\ \A i \in Interviews \ {n} : interviews'[i] = interviews[i]
  BY <1>4, <1>7, <1>8, <1>9
<1>11. creation[c].request \in RequestIds =>
         \A i \in Interviews : interviews[i].of = creation[c].request
                                 => interviews[i].at \notin {"open", "over"}
  BY DEF Creation!Taken, Creation!Named, Creation!Request, Creation!Existing, Creation!SessionIds, Interviews
<1> QED BY <1>4, <1>6, <1>10, <1>11 DEF n

\* A call that inserts, whether its reply comes or an error does.
LEMMA CallInserts ==
  ASSUME NEW F \in SUBSET RequestIds, CreationInv(F), NEW c \in Clients,
         Creation(F)!Insert(c) \/ Creation(F)!InsertFails(c)
  PROVE  CreationInv(F)'
<1> USE CreationParameters
<1> DEFINE n == Creation(F)!NextId
           r == creation[c].request
<1>1. /\ ~Creation(F)!Taken(c) /\ UNCHANGED <<lock, cached, replied, lapsed>> /\ creation[c].pc = "insert"
      /\ \/ UNCHANGED interviews
         \/ n \in Creation(F)!SessionIds /\ Creation(F)!Row(c)
  BY DEF Creation!Insert, Creation!InsertFails, Creation!Finds, Creation!GoTo
<1>2. creation \in [Clients -> Serving] /\ creation[c] \in Serving /\ CallHolds(F, c, creation[c])
      /\ creation[c].request \in RequestIds \cup {NoRequest}
  BY DEF CreationInv, CreationTypes, Serving
\* The call goes on, to an interview that is its request's.
<1>3. /\ creation' \in [Clients -> Serving]
      /\ \A d \in Clients \ {c} : creation'[d] = creation[d]
      /\ creation'[c].request = r
      /\ \/ creation'[c].pc = "raise" \/ (creation'[c].pc = "reread" /\ r # NoRequest)
         \/ /\ creation'[c].pc = IF r # NoRequest THEN "remember" ELSE "reply"
            /\ n \in Creation(F)!SessionIds /\ Creation(F)!Row(c) /\ creation'[c].found = n
      /\ creation'[c].found \in {creation[c].found, n}
      /\ creation'[c].found = creation[c].found \/ (n \in Creation(F)!SessionIds /\ Creation(F)!Row(c))
  <2>1. CASE Creation(F)!Insert(c)
    <3>1. n \in Interviews /\ Creation(F)!Row(c) /\ n \in Creation(F)!SessionIds
      BY <2>1 DEF Creation!Insert, Creation!SessionIds, Interviews
    <3>2. creation' = [creation EXCEPT ![c].pc = IF r # NoRequest THEN "remember" ELSE "reply", ![c].found = n]
      BY <2>1 DEF Creation!Insert, Creation!Finds, Creation!Settle, Creation!Named, Creation!Request
    <3> HIDE DEF n, r
    <3>3. /\ creation' \in [Clients -> Serving]
          /\ \A d \in Clients \ {c} : creation'[d] = creation[d]
          /\ creation'[c].pc = IF r # NoRequest THEN "remember" ELSE "reply"
          /\ creation'[c].found = n
          /\ creation'[c].request = creation[c].request
      <4>1. (IF r # NoRequest THEN "remember" ELSE "reply") \in {"remember", "reply"}
        OBVIOUS
      <4> QED BY <1>1, <1>2, <3>1, <3>2, <4>1, FindsOne
    <3> QED BY <3>1, <3>3 DEF r
  <2>2. CASE Creation(F)!InsertFails(c)
    <3>1. creation' = [creation EXCEPT ![c].pc = IF r # NoRequest THEN "reread" ELSE "raise"]
      BY <2>2 DEF Creation!InsertFails, Creation!GoTo, Creation!Named, Creation!Request
    <3> HIDE DEF n, r
    <3>2. /\ creation' \in [Clients -> Serving]
          /\ \A d \in Clients \ {c} : creation'[d] = creation[d]
          /\ creation'[c].pc = IF r # NoRequest THEN "reread" ELSE "raise"
          /\ creation'[c].found = creation[c].found
          /\ creation'[c].request = creation[c].request
      <4>1. (IF r # NoRequest THEN "reread" ELSE "raise") \in {"reread", "raise"}
        OBVIOUS
      <4> QED BY <1>1, <1>2, <3>1, <4>1, GoesOn
    <3> QED BY <3>2 DEF r
  <2> QED BY <2>1, <2>2
<1>4. CASE UNCHANGED interviews
  <2>1. creation'[c].pc \in {"raise", "reread"} /\ creation'[c].found = creation[c].found
    <3>1. ~(n \in Creation(F)!SessionIds /\ Creation(F)!Row(c))
      <4> SUFFICES ASSUME n \in Creation(F)!SessionIds, Creation(F)!Row(c) PROVE FALSE
        OBVIOUS
      <4>1. interviews[n].at = "none" /\ interviews'[n].at = "open"
        BY <1>1, RowAdded
      <4> QED BY <1>4, <4>1
    <3> QED BY <1>3, <3>1
  <2>2. CallHolds(F, c, creation'[c])
    BY <1>1, <1>2, <1>3, <2>1 DEF CallHolds
  <2> QED BY <1>1, <1>3, <1>4, <2>2, CallMoves
<1>5. CASE n \in Creation(F)!SessionIds /\ Creation(F)!Row(c)
  <2>1. /\ interviews' \in [Interviews -> Row] /\ n \in Interviews
        /\ interviews[n].at = "none" /\ interviews'[n].of = r /\ interviews'[n].at = "open"
        /\ \A i \in Interviews \ {n} : interviews'[i] = interviews[i]
        /\ r \in RequestIds => \A i \in Interviews : interviews[i].of = r => interviews[i].at \notin {"open", "over"}
    BY <1>1, <1>5, RowAdded
  <2> HIDE DEF n, r
  <2>2. CreationTypes'
    BY <1>1, <1>3, <2>1 DEF CreationInv, CreationTypes
  <2>3. ASSUME NEW i \in Interviews, NEW q, IsOf(F, i, q)
        PROVE  interviews'[i].at # "none" /\ (q \in F => interviews'[i].of = q)
    BY <2>1, <2>3 DEF IsOf
  <2>4. RowsHold(F)'
    <3>1. ASSUME NEW q \in RequestIds
          PROVE  /\ cached'[q] # 0 => IsOf(F, cached[q], q)'
                 /\ \A i \in replied'[q] : IsOf(F, i, q)'
                 /\ q \notin lapsed' => replied'[q] \subseteq {cached'[q]}
      <4>1. replied[q] \subseteq Interviews /\ (cached[q] # 0 => cached[q] \in Interviews)
        BY DEF CreationInv, CreationTypes, Interviews
      <4> QED BY <1>1, <2>3, <4>1 DEF CreationInv, RowsHold, IsOf
    <3>2. ASSUME NEW i \in Interviews, NEW j \in Interviews,
                 interviews'[i].of \in RequestIds, interviews'[j].of = interviews'[i].of,
                 interviews'[i].at \in {"open", "over"}, interviews'[j].at \in {"open", "over"}
          PROVE  i = j
      BY <2>1, <3>2 DEF CreationInv, RowsHold
    <3> QED BY <3>1, <3>2 DEF RowsHold
  <2>5. ASSUME NEW d \in Clients PROVE CallHolds(F, d, creation[d])'
    <3>1. CallHolds(F, d, creation[d]) /\ (creation[d].found # 0 => creation[d].found \in Interviews)
      BY DEF CreationInv, CreationTypes, Serving, Interviews
    <3>2. CASE d # c
      BY <1>1, <1>3, <2>3, <3>1, <3>2 DEF CallHolds, IsOf
    <3>3. CASE d = c
      <4>1. interviews'[n].at # "none" /\ (r \in F => interviews'[n].of = r)
        BY <2>1
      <4>2. creation[c].found # 0 =>
              /\ interviews'[creation[c].found].at # "none"
              /\ r \in F => interviews'[creation[c].found].of = r
        BY <2>3, <3>1, <3>3 DEF CallHolds, r
      <4>3. creation'[c].found # 0 =>
              /\ interviews'[creation'[c].found].at # "none"
              /\ r \in F => interviews'[creation'[c].found].of = r
        BY <1>3, <4>1, <4>2
      <4>4. n # 0
        BY <2>1 DEF Interviews
      <4> QED BY <1>1, <1>2, <1>3, <3>1, <3>3, <4>3, <4>4 DEF CallHolds, IsOf, r
    <3> QED BY <3>2, <3>3
  <2> QED BY <2>2, <2>4, <2>5 DEF CreationInv
<1> QED BY <1>1, <1>4, <1>5

\* What is remembered under the lock: nothing was before, and nothing said.
LEMMA CallRemembers ==
  ASSUME NEW F \in SUBSET RequestIds, CreationInv(F), NEW c \in Clients, Creation(F)!Remember(c)
  PROVE  CreationInv(F)'
<1> USE CreationParameters
<1> DEFINE i == creation[c].found
           r == creation[c].request
<1>1. creation \in [Clients -> Serving] /\ creation[c] \in Serving /\ CallHolds(F, c, creation[c])
  BY DEF CreationInv, CreationTypes
<1>2. /\ creation[c].pc = "remember" /\ creation' = [creation EXCEPT ![c].pc = "reply"]
      /\ UNCHANGED <<interviews, lock, replied, lapsed>>
  BY DEF Creation!Remember, Creation!GoTo
<1>3. r \in RequestIds /\ i \in Interviews /\ i # 0
  BY <1>1, <1>2 DEF CallHolds, Serving, Interviews
<1>4. cached' = [cached EXCEPT ![r] = i]
  BY <1>3 DEF Creation!Remember, Creation!Remembers, Creation!Request
<1>5. /\ creation' \in [Clients -> Serving]
      /\ \A d \in Clients \ {c} : creation'[d] = creation[d]
      /\ creation'[c].pc = "reply" /\ creation'[c].found = i /\ creation'[c].request = r
  BY <1>1, <1>2, GoesOn
<1> HIDE DEF i, r
<1>6. cached' \in [RequestIds -> 0 .. MaxInterviews] /\ cached'[r] = i
      /\ \A q \in RequestIds \ {r} : cached'[q] = cached[q]
  <2>1. i \in 0 .. MaxInterviews
    BY <1>3 DEF Interviews
  <2> QED BY <1>3, <1>4, <2>1 DEF CreationInv, CreationTypes
<1>7. CreationTypes'
  BY <1>2, <1>5, <1>6 DEF CreationInv, CreationTypes
<1>8. r \notin lapsed => lock[r] = c /\ cached[r] = 0
  BY <1>1, <1>2, <1>3 DEF CallHolds, r
<1>9. RowsHold(F)'
  <2>1. ASSUME NEW q \in RequestIds
        PROVE  /\ cached'[q] # 0 => IsOf(F, cached[q], q)'
               /\ \A j \in replied'[q] : IsOf(F, j, q)'
               /\ q \notin lapsed' => replied'[q] \subseteq {cached'[q]}
    <3>1. CASE q # r
      BY <1>2, <1>6, <3>1 DEF CreationInv, RowsHold, IsOf
    <3>2. CASE q = r
      <4>1. IsOf(F, i, r)
        BY <1>1, <1>3 DEF CallHolds, i, r
      <4>2. r \notin lapsed => replied[r] = {}
        <5>1. replied[r] \subseteq Interviews
          BY <1>3 DEF CreationInv, CreationTypes
        <5> QED BY <1>3, <1>8, <5>1 DEF CreationInv, RowsHold, Interviews
      <4>3. \A j \in replied[r] : IsOf(F, j, r)
        BY <1>3 DEF CreationInv, RowsHold
      <4> QED BY <1>2, <1>6, <3>2, <4>1, <4>2, <4>3 DEF IsOf
    <3> QED BY <3>1, <3>2
  <2>2. \A a, b \in Interviews :
          (/\ interviews'[a].of \in RequestIds /\ interviews'[b].of = interviews'[a].of
           /\ interviews'[a].at \in {"open", "over"} /\ interviews'[b].at \in {"open", "over"}) => a = b
    BY <1>2 DEF CreationInv, RowsHold
  <2> QED BY <2>1, <2>2 DEF RowsHold
<1>10. ASSUME NEW d \in Clients PROVE CallHolds(F, d, creation[d])'
  <2>1. CASE d = c
    BY <1>1, <1>2, <1>3, <1>5, <1>6, <1>8, <2>1 DEF CallHolds, IsOf, i, r
  <2>2. CASE d # c
    <3>1. CallHolds(F, d, creation[d]) /\ creation'[d] = creation[d]
      BY <1>5, <2>2 DEF CreationInv
    <3>2. CASE creation[d].request # r
      <4>1. creation[d].request \in RequestIds => cached'[creation[d].request] = cached[creation[d].request]
        BY <1>6, <3>2
      <4> DEFINE k == creation[d]
      <4>2. UNCHANGED <<interviews, lock, lapsed>> /\ creation'[d] = k
        BY <1>2, <3>1
      <4>3. (k.pc \notin {"idle", "lock"} /\ k.request \in RequestIds /\ k.request \notin lapsed) =>
              /\ lock[k.request] = d
              /\ k.pc \notin {"cached", "reply", "raise"} => cached'[k.request] = 0
              /\ k.pc = "reply" => k.found = cached'[k.request]
        BY <3>1, <4>1 DEF CallHolds
      <4>4. /\ k.pc \in {"lock", "cached", "existing", "reread", "remember"} => k.request \in RequestIds
            /\ k.pc \in {"remember", "reply"} => k.found # 0
            /\ k.found # 0 => interviews[k.found].at # "none"
            /\ k.found # 0 /\ k.request \in F => interviews[k.found].of = k.request
        BY <3>1 DEF CallHolds, IsOf
      <4> HIDE DEF k
      <4> QED BY <4>2, <4>3, <4>4 DEF CallHolds, IsOf
    <3>3. CASE creation[d].request = r /\ r \in lapsed
      BY <1>2, <3>1, <3>3 DEF CallHolds, IsOf
    <3>4. CASE creation[d].request = r /\ r \notin lapsed
      <4>1. creation[d].pc \in {"idle", "lock"}
        BY <1>3, <1>8, <2>2, <3>1, <3>4 DEF CallHolds
      <4> QED BY <1>2, <3>1, <3>4, <4>1 DEF CallHolds, IsOf
    <3> QED BY <3>2, <3>3, <3>4
  <2> QED BY <2>1, <2>2
<1> QED BY <1>7, <1>9, <1>10 DEF CreationInv

\* A call that ends gives its own lock back, and no one else's.
LEMMA CallEnds ==
  ASSUME NEW F \in SUBSET RequestIds, CreationInv(F), NEW c \in Clients,
         Creation(F)!Reply(c) \/ Creation(F)!Raise(c)
  PROVE  CreationInv(F)'
<1> USE CreationParameters
<1> DEFINE m == [pc |-> "idle", request |-> NoRequest, found |-> 0]
           i == creation[c].found
           r == creation[c].request
<1>1. creation \in [Clients -> Serving] /\ creation[c] \in Serving /\ CallHolds(F, c, creation[c])
      /\ r \in RequestIds \cup {NoRequest}
  BY DEF CreationInv, CreationTypes, Serving
<1>2. /\ creation[c].pc \in {"reply", "raise"} /\ creation' = [creation EXCEPT ![c] = m]
      /\ UNCHANGED <<interviews, cached, lapsed>>
      /\ lock' = IF r # NoRequest /\ lock[r] = c THEN [lock EXCEPT ![r] = None] ELSE lock
  BY DEF Creation!Reply, Creation!Raise, Creation!Idle, Creation!Released, Creation!Named, Creation!Request
<1>3. m \in Serving /\ m.pc = "idle" /\ m.found = 0 /\ m.request = NoRequest
  BY DEF Serving
<1> HIDE DEF m, i, r
<1>4. creation' \in [Clients -> Serving] /\ creation'[c] = m
      /\ \A d \in Clients \ {c} : creation'[d] = creation[d]
  BY <1>1, <1>2, <1>3
<1>5. lock' \in [RequestIds -> Clients \cup {None}]
      /\ \A q \in RequestIds, d \in Clients \ {c} : lock[q] = d => lock'[q] = d
  BY <1>1, <1>2 DEF CreationInv, CreationTypes
<1>6. \/ UNCHANGED replied
      \/ /\ r \in RequestIds /\ creation[c].pc = "reply"
         /\ replied' = [replied EXCEPT ![r] = replied[r] \cup {i}]
  BY <1>1 DEF Creation!Reply, Creation!Raise, Creation!Named, Creation!Request, r, i
<1>7. replied' \in [RequestIds -> SUBSET Interviews]
      /\ \A q \in RequestIds :
           \/ replied'[q] = replied[q]
           \/ /\ q = r /\ creation[c].pc = "reply" /\ replied'[q] = replied[q] \cup {i}
              /\ IsOf(F, i, q) /\ (q \notin lapsed => i = cached[q])
  <2>1. CASE UNCHANGED replied
    BY <2>1 DEF CreationInv, CreationTypes
  <2>2. CASE /\ r \in RequestIds /\ creation[c].pc = "reply"
             /\ replied' = [replied EXCEPT ![r] = replied[r] \cup {i}]
    <3>1. i \in Interviews /\ i # 0
      BY <1>1, <2>2 DEF CallHolds, Serving, Interviews, i
    <3>2. IsOf(F, i, r) /\ (r \notin lapsed => i = cached[r])
      BY <1>1, <2>2, <3>1 DEF CallHolds, i, r
    <3>3. replied \in [RequestIds -> SUBSET Interviews]
      BY DEF CreationInv, CreationTypes
    <3> QED BY <2>2, <3>1, <3>2, <3>3
  <2> QED BY <1>6, <2>1, <2>2
<1>8. CreationTypes'
  BY <1>2, <1>4, <1>5, <1>7 DEF CreationInv, CreationTypes
<1>9. RowsHold(F)'
  <2>1. ASSUME NEW q \in RequestIds
        PROVE  /\ cached'[q] # 0 => IsOf(F, cached[q], q)'
               /\ \A j \in replied'[q] : IsOf(F, j, q)'
               /\ q \notin lapsed' => replied'[q] \subseteq {cached'[q]}
    <3>1. /\ cached[q] # 0 => IsOf(F, cached[q], q)
          /\ \A j \in replied[q] : IsOf(F, j, q)
          /\ q \notin lapsed => replied[q] \subseteq {cached[q]}
      BY DEF CreationInv, RowsHold
    <3>2. \A j \in replied'[q] : IsOf(F, j, q)
      BY <1>7, <3>1
    <3>3. q \notin lapsed => replied'[q] \subseteq {cached[q]}
      BY <1>7, <3>1
    <3> QED BY <1>2, <3>1, <3>2, <3>3 DEF IsOf
  <2>2. \A a, b \in Interviews :
          (/\ interviews'[a].of \in RequestIds /\ interviews'[b].of = interviews'[a].of
           /\ interviews'[a].at \in {"open", "over"} /\ interviews'[b].at \in {"open", "over"}) => a = b
    BY <1>2 DEF CreationInv, RowsHold
  <2> QED BY <2>1, <2>2 DEF RowsHold
<1>10. ASSUME NEW d \in Clients PROVE CallHolds(F, d, creation[d])'
  <2>1. CASE d = c
    BY <1>3, <1>4, <2>1 DEF CallHolds
  <2>2. CASE d # c
    <3>1. CallHolds(F, d, creation[d]) /\ creation'[d] = creation[d]
      BY <1>4, <2>2 DEF CreationInv
    <3> QED BY <1>2, <1>5, <2>2, <3>1 DEF CallHolds, IsOf
  <2> QED BY <2>1, <2>2
<1> QED BY <1>8, <1>9, <1>10 DEF CreationInv

\* A lease or a cached result that ends; an interview that is held or deleted.
LEMMA TimePasses ==
  ASSUME NEW F \in SUBSET RequestIds, CreationInv(F),
         \/ \E r \in RequestIds : Creation(F)!LeaseEnds(r) \/ Creation(F)!CacheEntryEnds(r)
         \/ \E i \in Creation(F)!SessionIds : Creation(F)!SessionEnds(i) \/ Creation(F)!DeleteSession(i)
  PROVE  CreationInv(F)'
<1> USE CreationParameters
<1>0. creation \in [Clients -> Serving] /\ lock \in [RequestIds -> Clients \cup {None}]
      /\ cached \in [RequestIds -> 0 .. MaxInterviews] /\ interviews \in [Interviews -> Row]
  BY DEF CreationInv, CreationTypes
<1>1. ASSUME NEW r \in RequestIds, Creation(F)!LeaseEnds(r) PROVE CreationInv(F)'
  <2>1. /\ lock[r] # None /\ lock' = [lock EXCEPT ![r] = None]
        /\ lapsed' = IF creation[lock[r]].request = r /\ creation[lock[r]].pc \notin {"idle", "lock"}
                     THEN lapsed \cup {r} ELSE lapsed
        /\ UNCHANGED <<interviews, cached, creation, replied>>
    BY <1>1 DEF Creation!LeaseEnds, Creation!AtWork, Creation!Request
  <2>2. CreationTypes'
    BY <2>1 DEF CreationInv, CreationTypes
  <2>3. RowsHold(F)'
    BY <2>1 DEF CreationInv, RowsHold, IsOf
  <2>4. ASSUME NEW d \in Clients PROVE CallHolds(F, d, creation[d])'
    <3>1. CallHolds(F, d, creation[d])
      BY DEF CreationInv
    <3>2. CASE creation[d].request # r \/ creation[d].pc \in {"idle", "lock"} \/ r \in lapsed
      BY <1>0, <2>1, <3>1, <3>2 DEF CallHolds, IsOf
    <3>3. CASE creation[d].request = r /\ creation[d].pc \notin {"idle", "lock"} /\ r \notin lapsed
      <4>1. lock[r] = d
        BY <3>1, <3>3 DEF CallHolds
      <4>2. r \in lapsed'
        BY <2>1, <3>3, <4>1
      <4> QED BY <2>1, <3>1, <3>3, <4>2 DEF CallHolds, IsOf
    <3> QED BY <3>2, <3>3
  <2> QED BY <2>2, <2>3, <2>4 DEF CreationInv
<1>2. ASSUME NEW r \in RequestIds, Creation(F)!CacheEntryEnds(r) PROVE CreationInv(F)'
  <2>1. /\ cached' = [cached EXCEPT ![r] = 0] /\ lapsed' = lapsed \cup {r}
        /\ UNCHANGED <<interviews, lock, creation, replied>>
    BY <1>2 DEF Creation!CacheEntryEnds
  <2>2. cached' \in [RequestIds -> 0 .. MaxInterviews] /\ cached'[r] = 0
        /\ \A q \in RequestIds \ {r} : cached'[q] = cached[q]
    BY <1>0, <2>1
  <2>3. CreationTypes'
    BY <2>1, <2>2 DEF CreationInv, CreationTypes
  <2>4. RowsHold(F)'
    BY <2>1, <2>2 DEF CreationInv, RowsHold, IsOf
  <2>5. ASSUME NEW d \in Clients PROVE CallHolds(F, d, creation[d])'
    <3>1. CallHolds(F, d, creation[d])
      BY DEF CreationInv
    <3> QED BY <2>1, <2>2, <3>1 DEF CallHolds, IsOf
  <2> QED BY <2>3, <2>4, <2>5 DEF CreationInv
<1>3. ASSUME NEW i \in Interviews, Creation(F)!SessionEnds(i) \/ Creation(F)!DeleteSession(i) PROVE CreationInv(F)'
  <2>1. PICK at \in {"over", "deleted"} :
          /\ interviews[i].at \in {"open", "over"} /\ interviews' = [interviews EXCEPT ![i].at = at]
          /\ UNCHANGED <<lock, cached, creation, replied, lapsed>>
    BY <1>3 DEF Creation!SessionEnds, Creation!DeleteSession
  <2>2. [interviews[i] EXCEPT !.at = at] \in Row
    BY <1>0 DEF Row
  <2>3. interviews' = [interviews EXCEPT ![i] = [interviews[i] EXCEPT !.at = at]]
    BY <2>1
  <2>4. interviews[i] \in Row
    BY <1>0
  <2>5. interviews' \in [Interviews -> Row] /\ interviews'[i] = [interviews[i] EXCEPT !.at = at]
        /\ \A j \in Interviews \ {i} : interviews'[j] = interviews[j]
    BY <1>0, <2>2, <2>3
  <2>6. interviews'[i].at = at /\ interviews'[i].of = interviews[i].of
    BY <2>4, <2>5 DEF Row
  <2>7. ASSUME NEW j \in Interviews
        PROVE  /\ interviews'[j].of = interviews[j].of
               /\ interviews'[j].at \in {"open", "over"} => interviews[j].at \in {"open", "over"}
               /\ interviews[j].at # "none" => interviews'[j].at # "none"
    BY <2>1, <2>5, <2>6
  <2>8. CreationTypes'
    BY <2>1, <2>5 DEF CreationInv, CreationTypes
  <2>9. RowsHold(F)'
    <3>1. ASSUME NEW q \in RequestIds
          PROVE  /\ cached'[q] # 0 => IsOf(F, cached[q], q)'
                 /\ \A j \in replied'[q] : IsOf(F, j, q)'
                 /\ q \notin lapsed' => replied'[q] \subseteq {cached'[q]}
      <4>1. replied[q] \subseteq Interviews /\ (cached[q] # 0 => cached[q] \in Interviews)
        BY DEF CreationInv, CreationTypes, Interviews
      <4> QED BY <2>1, <2>7, <4>1 DEF CreationInv, RowsHold, IsOf
    <3>2. ASSUME NEW a \in Interviews, NEW b \in Interviews,
                 interviews'[a].of \in RequestIds, interviews'[b].of = interviews'[a].of,
                 interviews'[a].at \in {"open", "over"}, interviews'[b].at \in {"open", "over"}
          PROVE  a = b
      BY <2>7, <3>2 DEF CreationInv, RowsHold
    <3> QED BY <3>1, <3>2 DEF RowsHold
  <2>10. ASSUME NEW d \in Clients PROVE CallHolds(F, d, creation[d])'
    <3>1. CallHolds(F, d, creation[d]) /\ (creation[d].found # 0 => creation[d].found \in Interviews)
      BY DEF CreationInv, CreationTypes, Serving, Interviews
    <3> QED BY <2>1, <2>7, <3>1 DEF CallHolds, IsOf
  <2> QED BY <2>8, <2>9, <2>10 DEF CreationInv
<1> QED BY <1>1, <1>2, <1>3 DEF Creation!SessionIds, Interviews

\* Every step keeps the invariant.
LEMMA CreationStep ==
  ASSUME NEW F \in SUBSET RequestIds, CreationInv(F), Creation(F)!Next PROVE CreationInv(F)'
<1>1. ASSUME NEW c \in Clients, NEW r \in RequestIds \cup {NoRequest}, Creation(F)!Begin(c, r)
      PROVE  CreationInv(F)'
  BY <1>1, CallEnters
<1>2. ASSUME NEW c \in Clients, Creation(F)!Step(c) PROVE CreationInv(F)'
  BY <1>2, CallEnters, TakesLock, CallReads, CallInserts, CallRemembers, CallEnds DEF Creation!Step
<1>3. ASSUME NEW c \in Clients, Creation(F)!InsertFails(c) \/ Creation(F)!Fails(c) \/ Creation(F)!AppCrash(c)
      PROVE  CreationInv(F)'
  BY <1>3, CallEnters, CallReads, CallInserts
<1> QED BY <1>1, <1>2, <1>3, TimePasses DEF Creation!Next

\* Another service's step leaves it alone.
LEMMA CreationStays ==
  ASSUME NEW F, CreationInv(F), UNCHANGED creationVars PROVE CreationInv(F)'
BY DEF CreationInv, CreationTypes, RowsHold, CallHolds, IsOf, creationVars

\* What the index and the lock leave: of the interviews a client was told of
\* for a request id, one at the most is not deleted.
LEMMA OneReply == ASSUME NEW F \in SUBSET RequestIds, CreationInv(F) PROVE Creation(F)!RepliesAgree
<1> USE CreationParameters
<1> SUFFICES ASSUME NEW r \in RequestIds, r \in F \/ r \notin lapsed
             PROVE  Creation(F)!Cardinality({i \in replied[r] : interviews[i].at # "deleted"}) <= 1
  BY DEF Creation!RepliesAgree
<1> DEFINE S == {i \in replied[r] : interviews[i].at # "deleted"}
<1>1. replied[r] \subseteq Interviews /\ interviews \in [Interviews -> Row]
  BY DEF CreationInv, CreationTypes
<1>2. \A i, j \in S : i = j
  <2>1. CASE r \in F
    <3>1. \A i \in S : i \in Interviews /\ interviews[i].of = r /\ interviews[i].at \in {"open", "over"}
      BY <1>1, <2>1 DEF CreationInv, RowsHold, IsOf, Row
    <3> QED BY <3>1 DEF CreationInv, RowsHold
  <2>2. CASE r \notin lapsed
    BY <2>2 DEF CreationInv, RowsHold
  <2> QED BY <2>1, <2>2
<1>3. Cardinality(S) <= 1
  <2>1. CASE S = {}
    BY <2>1, FS_EmptySet
  <2>2. CASE S # {}
    <3> HIDE DEF S
    <3>1. PICK i \in S : TRUE
      BY <2>2
    <3>2. S = {i}
      BY <1>2, <3>1
    <3>3. Cardinality({i}) = 1
      BY FS_Singleton
    <3> QED BY <3>2, <3>3
  <2> QED BY <2>1, <2>2
<1>4. \A T : Creation(F)!Cardinality(T) = Cardinality(T)
  BY Zenon DEF Creation!Cardinality, Cardinality
<1> QED BY <1>3, <1>4

\* A client that repeats a request id is never told of two interviews that
\* stand, however its calls overlap, fail or die: for a request that forces a
\* new one whatever runs out, by the unique index; for another one while
\* neither its lease nor the cached result does, by the lock and the cache
\* (InterviewService.create_session).
THEOREM RepliesNameOne == ServicesSpec => []RepliesAgree
<1> DEFINE Inv == (service = "creation" => CreationInv({})) /\ (service = "forced" => CreationInv(RequestIds))
<1>1. ServicesInit => Inv
  BY CreationStarts DEF ServicesInit
<1>2. Inv /\ [ServicesNext]_all => Inv'
  <2> SUFFICES ASSUME Inv, [ServicesNext]_all PROVE Inv'
    OBVIOUS
  <2>1. /\ UNCHANGED service
        /\ service = "creation" => Creation({})!Next \/ UNCHANGED creationVars
        /\ service = "forced" => Creation(RequestIds)!Next \/ UNCHANGED creationVars
    BY DEF ServicesNext, all
  <2> QED BY <2>1, CreationStep, CreationStays
<1>3. Inv => RepliesAgree
  BY OneReply DEF RepliesAgree
<1> QED BY <1>1, <1>2, <1>3, PTL DEF ServicesSpec

-----------------------------------------------------------------------------
(* Model providers: the settings name providers that exist                 *)

\* Provider!TypeOK, with names for its sets of records.
ProviderCalls == [pc: {"idle", "insert", "lock", "setting", "voice", "check", "delete",
                       "use", "link", "commit", "update"},
                  alias: Aliases \cup {None}, use: Provider!Uses]

ProviderShape ==
  /\ exists \in SUBSET Aliases
  /\ names \in [Provider!Uses -> Aliases]
  /\ rowLock \in [Aliases -> Clients \cup {None}]
  /\ keyShares \in [Aliases -> SUBSET Clients]
  /\ setLock \in [{"ai", "voice"} -> Clients \cup {None}]
  /\ providerCall \in [Clients -> ProviderCalls]
  /\ \A c \in Clients : ~Provider!At(c, "idle") => Provider!Alias(c) \in Aliases

\* A deletion holds the row and, from their locks on, the settings.
DeletionLocks(c) ==
  /\ providerCall[c].pc \in {"setting", "voice", "check", "delete"} => rowLock[Provider!Alias(c)] = c
  /\ providerCall[c].pc \in {"voice", "check", "delete"} => setLock["ai"] = c
  /\ providerCall[c].pc \in {"check", "delete"} => setLock["voice"] = c

\* A change of a setting holds it, and the row of a provider new to it.
ChoiceLocks(c) ==
  /\ providerCall[c].pc \in {"link", "commit"} => setLock[Provider!Setting(providerCall[c].use)] = c
  /\ (Provider!At(c, "commit") /\ names[providerCall[c].use] # Provider!Alias(c))
       => c \in keyShares[Provider!Alias(c)] /\ Provider!Alias(c) \in exists

\* Whoever has a row FOR UPDATE has it alone.
RowsAreHad == \A a \in Aliases : rowLock[a] # None => keyShares[a] = {}

\* The locks of the transactions in progress.
ProviderLocks == RowsAreHad /\ \A c \in Clients : DeletionLocks(c) /\ ChoiceLocks(c)

\* What makes Provider!ReferencesHold inductive.
ProviderInv == ProviderShape /\ ProviderLocks /\ Provider!ReferencesHold

\* Every setting names the builtin provider, and no lock is held.
LEMMA ProvidersStart == Provider!Init => ProviderInv
<1> SUFFICES ASSUME Provider!Init PROVE ProviderInv
  OBVIOUS
<1> USE ServicesAssumption DEF Provider!ProviderAssumption, Provider!Init, Provider!Idle
<1>1. ProviderShape
  BY DEF ProviderShape, ProviderCalls, Provider!At, Provider!Uses
<1>2. ProviderLocks /\ Provider!ReferencesHold
  BY DEF ProviderLocks, RowsAreHad, DeletionLocks, ChoiceLocks, Provider!At, Provider!ReferencesHold
<1> QED BY <1>1, <1>2 DEF ProviderInv

\* The end of a transaction: its call is idle, and its locks are free.
LEMMA ProviderEnds ==
  ASSUME ProviderInv, NEW c \in Clients, Provider!Ends(c), exists' \in SUBSET Aliases,
         names' \in [Provider!Uses -> Aliases]
  PROVE  /\ ProviderShape'
         /\ providerCall'[c] = Provider!Idle
         /\ \A d \in Clients \ {c} :
              /\ providerCall'[d] = providerCall[d]
              /\ \A a \in Aliases : /\ rowLock[a] = d => rowLock'[a] = d
                                    /\ d \in keyShares[a] => d \in keyShares'[a]
              /\ \A s \in {"ai", "voice"} : setLock[s] = d => setLock'[s] = d
         /\ \A a \in Aliases : /\ rowLock'[a] # None => rowLock'[a] = rowLock[a]
                               /\ keyShares'[a] \subseteq keyShares[a]
<1> USE ServicesAssumption DEF Provider!ProviderAssumption, ProviderInv, ProviderShape
<1>1. Provider!Idle \in ProviderCalls
  BY DEF Provider!Idle, ProviderCalls, Provider!Uses
<1>2. /\ providerCall' = [providerCall EXCEPT ![c] = Provider!Idle]
      /\ rowLock' = [a \in Aliases |-> IF rowLock[a] = c THEN None ELSE rowLock[a]]
      /\ keyShares' = [a \in Aliases |-> keyShares[a] \ {c}]
      /\ setLock' = [s \in {"ai", "voice"} |-> IF setLock[s] = c THEN None ELSE setLock[s]]
  BY DEF Provider!Ends
<1>3. providerCall' \in [Clients -> ProviderCalls] /\ providerCall'[c] = Provider!Idle
      /\ \A d \in Clients \ {c} : providerCall'[d] = providerCall[d]
  BY <1>1, <1>2
<1>4. /\ rowLock' \in [Aliases -> Clients \cup {None}]
      /\ keyShares' \in [Aliases -> SUBSET Clients]
      /\ setLock' \in [{"ai", "voice"} -> Clients \cup {None}]
  BY <1>2
<1>5. \A d \in Clients : (~Provider!At(d, "idle") => Provider!Alias(d) \in Aliases)'
  BY <1>3 DEF Provider!At, Provider!Alias, Provider!Idle
<1> QED BY <1>2, <1>3, <1>4, <1>5

\* The locks of the other transactions stay, whatever it has written.
LEMMA OthersKeepLocks ==
  ASSUME ProviderInv, NEW c \in Clients, Provider!Ends(c), exists' \in SUBSET Aliases,
         names' \in [Provider!Uses -> Aliases],
         \A d \in Clients \ {c} : providerCall[d].pc \in {"link", "commit"} =>
           /\ names'[providerCall[d].use] = names[providerCall[d].use]
           /\ names[providerCall[d].use] # Provider!Alias(d) /\ Provider!At(d, "commit")
                => Provider!Alias(d) \in exists'
  PROVE  ProviderLocks'
<1>1. RowsAreHad'
  BY ProviderEnds DEF ProviderInv, ProviderLocks, RowsAreHad
<1>2. DeletionLocks(c)' /\ ChoiceLocks(c)'
  BY ProviderEnds DEF DeletionLocks, ChoiceLocks, Provider!Idle, Provider!At
<1>3. ASSUME NEW d \in Clients \ {c} PROVE DeletionLocks(d)' /\ ChoiceLocks(d)'
  <2>1. /\ DeletionLocks(d) /\ ChoiceLocks(d)
        /\ providerCall[d] \in ProviderCalls
        /\ ~Provider!At(d, "idle") => Provider!Alias(d) \in Aliases
    BY DEF ProviderInv, ProviderLocks, ProviderShape
  <2>2. providerCall'[d] = providerCall[d] /\ Provider!Alias(d)' = Provider!Alias(d)
    BY ProviderEnds DEF Provider!Alias
  <2>3. Provider!Setting(providerCall[d].use) \in {"ai", "voice"}
    BY DEF Provider!Setting
  <2>4. DeletionLocks(d)'
    BY <2>1, <2>2, ProviderEnds DEF DeletionLocks, Provider!At
  <2>5. ChoiceLocks(d)'
    <3>1. (providerCall[d].pc \in {"link", "commit"}
             => setLock[Provider!Setting(providerCall[d].use)] = d)'
      BY <2>1, <2>2, <2>3, ProviderEnds DEF ChoiceLocks, Provider!Setting
    <3>2. SUFFICES ASSUME providerCall[d].pc = "commit",
                          names[providerCall[d].use] # Provider!Alias(d)
                   PROVE  d \in keyShares'[Provider!Alias(d)] /\ Provider!Alias(d) \in exists'
      BY <2>2, <3>1 DEF ChoiceLocks, Provider!At
    <3>3. d \in keyShares[Provider!Alias(d)] /\ Provider!Alias(d) \in Aliases
      BY <2>1, <3>2 DEF ChoiceLocks, Provider!At
    <3> QED BY <3>2, <3>3, ProviderEnds DEF Provider!At
  <2> QED BY <2>4, <2>5
<1> QED BY <1>1, <1>2, <1>3 DEF ProviderLocks

\* A transaction that ends, with what it has written.
LEMMA ProviderCommits ==
  ASSUME ProviderInv, NEW c \in Clients, Provider!Ends(c),
         \/ UNCHANGED <<exists, names>>
         \/ Provider!InsertProvider(c) \/ Provider!DeleteProvider(c) \/ Provider!CommitUse(c)
  PROVE  ProviderInv'
<1>0. ProviderShape /\ ProviderLocks /\ Provider!ReferencesHold
  BY DEF ProviderInv
<1>1. CASE UNCHANGED <<exists, names>>
  <2>1. exists' \in SUBSET Aliases /\ names' \in [Provider!Uses -> Aliases]
    BY <1>0, <1>1 DEF ProviderShape
  <2>2. ProviderLocks'
    BY <1>0, <1>1, <2>1, OthersKeepLocks DEF ProviderLocks, ChoiceLocks
  <2>3. Provider!ReferencesHold'
    BY <1>0, <1>1, <2>1, ProviderEnds
       DEF Provider!ReferencesHold, Provider!Idle, Provider!At, Provider!Alias
  <2> QED BY <2>1, <2>2, <2>3, ProviderEnds DEF ProviderInv
<1>2. CASE Provider!InsertProvider(c)
  <2>1. /\ exists' \in SUBSET Aliases /\ names' \in [Provider!Uses -> Aliases]
        /\ exists \subseteq exists' /\ names' = names
    BY <1>0, <1>2 DEF ProviderShape, Provider!InsertProvider, Provider!At
  <2>2. ProviderLocks'
    BY <1>0, <2>1, OthersKeepLocks DEF ProviderLocks, ChoiceLocks
  <2>3. Provider!ReferencesHold'
    BY <1>0, <2>1, ProviderEnds
       DEF Provider!ReferencesHold, Provider!Idle, Provider!At, Provider!Alias
  <2> QED BY <2>1, <2>2, <2>3, ProviderEnds DEF ProviderInv
<1>3. CASE Provider!DeleteProvider(c)
  <2>1. /\ exists' \in SUBSET Aliases /\ names' \in [Provider!Uses -> Aliases]
        /\ names' = names /\ exists \ {Provider!Alias(c)} \subseteq exists'
        /\ \A u \in Provider!Uses : names[u] \in exists'
        /\ rowLock[Provider!Alias(c)] = c /\ Provider!Alias(c) \in Aliases
    BY <1>0, <1>3 DEF ProviderShape, Provider!DeleteProvider, Provider!At, Provider!ReferencesHold,
                      ProviderLocks, DeletionLocks
  <2>2. keyShares[Provider!Alias(c)] = {}
    BY <1>0, <2>1, ServicesAssumption
       DEF ProviderLocks, RowsAreHad, ProviderShape, Provider!ProviderAssumption
  <2>3. ProviderLocks'
    BY <1>0, <2>1, <2>2, OthersKeepLocks DEF ProviderLocks, ChoiceLocks
  <2>4. Provider!ReferencesHold'
    BY <1>0, <2>1, ProviderEnds
       DEF Provider!ReferencesHold, Provider!Idle, Provider!At, Provider!Alias
  <2> QED BY <2>1, <2>3, <2>4, ProviderEnds DEF ProviderInv
<1>4. CASE Provider!CommitUse(c)
  <2> DEFINE u == providerCall[c].use
  <2>1. /\ u \in Provider!Uses /\ Provider!Alias(c) \in Aliases /\ exists' = exists
        /\ names' = [names EXCEPT ![u] = Provider!Alias(c)]
        /\ setLock[Provider!Setting(u)] = c /\ Provider!Setting(u) \in {"ai", "voice"}
    BY <1>0, <1>4 DEF ProviderShape, ProviderCalls, Provider!CommitUse, Provider!At, ProviderLocks,
                      ChoiceLocks, Provider!Setting
  <2>2. exists' \in SUBSET Aliases /\ names' \in [Provider!Uses -> Aliases]
    BY <1>0, <2>1 DEF ProviderShape
  <2>3. Provider!Alias(c) \in exists
    BY <1>0, <1>4, <2>1 DEF ProviderLocks, ChoiceLocks, Provider!CommitUse, Provider!ReferencesHold
  <2>4. \A d \in Clients \ {c} :
          /\ providerCall[d].pc \in {"link", "commit"} => names'[providerCall[d].use] = names[providerCall[d].use]
          /\ ~Provider!At(d, "delete")
    <3>1. SUFFICES ASSUME NEW d \in Clients \ {c}
                   PROVE  /\ providerCall[d].pc \in {"link", "commit"} => providerCall[d].use # u
                          /\ ~Provider!At(d, "delete")
      BY <1>0, <2>1 DEF ProviderShape, ProviderCalls
    <3>2. DeletionLocks(d) /\ ChoiceLocks(d)
      BY <1>0 DEF ProviderLocks
    <3> QED BY <2>1, <3>2 DEF DeletionLocks, ChoiceLocks, Provider!At
  <2>5. ProviderLocks'
    BY <1>0, <2>1, <2>2, <2>4, OthersKeepLocks DEF ProviderLocks, ChoiceLocks
  <2>6. Provider!ReferencesHold'
    <3>1. \A v \in Provider!Uses : names'[v] \in exists'
      BY <1>0, <2>1, <2>3 DEF Provider!ReferencesHold, ProviderShape
    <3>2. \A d \in Clients : ~Provider!At(d, "delete")'
      BY <2>2, <2>4, ProviderEnds DEF Provider!At, Provider!Idle
    <3> QED BY <3>1, <3>2 DEF Provider!ReferencesHold
  <2> QED BY <2>2, <2>5, <2>6, ProviderEnds DEF ProviderInv
<1> QED BY <1>1, <1>2, <1>3, <1>4

\* The steps within a transaction; the row it is about is among the aliases.
LEMMA ProviderStep ==
  ASSUME ProviderInv, [Provider!Next]_providerVars
  PROVE  ProviderInv'
<1> USE ServicesAssumption DEF Provider!ProviderAssumption
<1>0. ProviderShape /\ ProviderLocks /\ Provider!ReferencesHold
  BY DEF ProviderInv
<1>1. ASSUME NEW c \in Clients, NEW a \in Aliases, NEW u \in Provider!Uses,
             \/ Provider!Create(c, a) \/ Provider!Update(c, a) \/ Provider!Delete(c, a)
             \/ Provider!Choose(c, u, a)
      PROVE  ProviderInv'
  <2>1. \E r \in ProviderCalls :
          /\ r.pc \in {"insert", "update", "lock", "use"} /\ r.alias = a
          /\ providerCall' = [providerCall EXCEPT ![c] = r]
    <3>1. ASSUME NEW pc \in {"insert", "update", "lock"}
          PROVE  LET r == [Provider!Idle EXCEPT !.pc = pc, !.alias = a]
                 IN  r \in ProviderCalls /\ r.pc = pc /\ r.alias = a
      BY DEF Provider!Idle, ProviderCalls, Provider!Uses
    <3>2. [pc |-> "use", alias |-> a, use |-> u] \in ProviderCalls
      BY DEF ProviderCalls
    <3>3. \/ providerCall' = [providerCall EXCEPT ![c] = [Provider!Idle EXCEPT !.pc = "insert", !.alias = a]]
          \/ providerCall' = [providerCall EXCEPT ![c] = [Provider!Idle EXCEPT !.pc = "update", !.alias = a]]
          \/ providerCall' = [providerCall EXCEPT ![c] = [Provider!Idle EXCEPT !.pc = "lock", !.alias = a]]
          \/ providerCall' = [providerCall EXCEPT ![c] = [pc |-> "use", alias |-> a, use |-> u]]
      BY <1>1 DEF Provider!Create, Provider!Update, Provider!Delete, Provider!Choose
    <3> QED BY <3>1, <3>2, <3>3
  <2>2. UNCHANGED <<exists, names, rowLock, keyShares, setLock>>
    BY <1>1 DEF Provider!Create, Provider!Update, Provider!Delete, Provider!Choose, Provider!locks
  <2>3. /\ providerCall' \in [Clients -> ProviderCalls]
        /\ providerCall'[c].pc \in {"insert", "update", "lock", "use"} /\ Provider!Alias(c)' = a
        /\ \A d \in Clients \ {c} : providerCall'[d] = providerCall[d]
    BY <1>0, <2>1 DEF ProviderShape, Provider!Alias
  <2>4. ProviderShape'
    BY <1>0, <2>2, <2>3 DEF ProviderShape, Provider!At, Provider!Alias
  <2>5. ProviderLocks' /\ Provider!ReferencesHold'
    BY <1>0, <2>2, <2>3 DEF ProviderShape, ProviderLocks, RowsAreHad, DeletionLocks, ChoiceLocks,
                            Provider!At, Provider!Alias, Provider!Setting, Provider!ReferencesHold
  <2> QED BY <2>4, <2>5 DEF ProviderInv
<1>2. ASSUME NEW c \in Clients, Provider!Ends(c), UNCHANGED <<exists, names>> PROVE ProviderInv'
  BY <1>2, ProviderCommits
<1>3. ASSUME NEW c \in Clients,
             Provider!InsertProvider(c) \/ Provider!DeleteProvider(c) \/ Provider!CommitUse(c)
      PROVE  ProviderInv'
  BY <1>3, ProviderCommits DEF Provider!InsertProvider, Provider!DeleteProvider, Provider!CommitUse
<1>4. ASSUME NEW c \in Clients, Provider!LockRow(c), Provider!GoTo(c, "lock", "setting"),
             UNCHANGED <<exists, names, keyShares, setLock>>
      PROVE  ProviderInv'
  <2>1. Provider!Alias(c) \in Aliases
    BY <1>0, <1>4 DEF ProviderShape, Provider!GoTo, Provider!At
  <2>2. ProviderShape'
    BY <1>0, <1>4, <2>1 DEF ProviderShape, ProviderCalls, Provider!At, Provider!Alias, Provider!GoTo, Provider!LockRow
  <2>3. ProviderLocks' /\ Provider!ReferencesHold'
    BY <1>0, <1>4, <2>1 DEF ProviderShape, ProviderCalls, ProviderLocks, RowsAreHad, DeletionLocks, ChoiceLocks,
       Provider!At, Provider!Alias, Provider!Setting, Provider!ReferencesHold, Provider!GoTo, Provider!LockRow
  <2> QED BY <2>2, <2>3 DEF ProviderInv
<1>5. ASSUME NEW c \in Clients, NEW from, NEW to \in {"voice", "check", "link"}, NEW s \in {"ai", "voice"},
             Provider!GoTo(c, from, to), Provider!LockSetting(c, s),
             UNCHANGED <<exists, names, rowLock, keyShares>>,
             \/ from = "setting" /\ to = "voice" /\ s = "ai"
             \/ from = "voice" /\ to = "check" /\ s = "voice"
             \/ from = "use" /\ to = "link" /\ s = Provider!Setting(providerCall[c].use)
      PROVE  ProviderInv'
  <2>1. setLock[s] = None /\ setLock' \in [{"ai", "voice"} -> Clients \cup {None}] /\ setLock'[s] = c
        /\ \A r \in {"ai", "voice"} \ {s} : setLock'[r] = setLock[r]
    BY <1>0, <1>5 DEF ProviderShape, Provider!LockSetting
  <2>2. /\ providerCall[c].pc = from /\ providerCall' \in [Clients -> ProviderCalls]
        /\ providerCall'[c].pc = to /\ Provider!Alias(c)' = Provider!Alias(c)
        /\ providerCall'[c].use = providerCall[c].use
        /\ \A d \in Clients \ {c} : providerCall'[d] = providerCall[d]
    BY <1>0, <1>5 DEF ProviderShape, ProviderCalls, Provider!GoTo, Provider!At, Provider!Alias
  <2>3. ProviderShape'
    BY <1>0, <1>5, <2>1, <2>2 DEF ProviderShape, Provider!At, Provider!Alias
  <2>4. ProviderLocks' /\ Provider!ReferencesHold'
    BY <1>0, <1>5, <2>1, <2>2 DEF ProviderShape, ProviderLocks, RowsAreHad, DeletionLocks, ChoiceLocks,
       Provider!At, Provider!Alias, Provider!Setting, Provider!ReferencesHold
  <2> QED BY <2>3, <2>4 DEF ProviderInv
<1>6. ASSUME NEW c \in Clients, Provider!At(c, "check"), ~Provider!Referenced(Provider!Alias(c)),
             Provider!GoTo(c, "check", "delete"),
             UNCHANGED <<exists, names, rowLock, keyShares, setLock>>
      PROVE  ProviderInv'
  <2>1. ProviderShape'
    BY <1>0, <1>6 DEF ProviderShape, ProviderCalls, Provider!At, Provider!Alias, Provider!GoTo
  <2>2. ProviderLocks' /\ Provider!ReferencesHold'
    BY <1>0, <1>6 DEF ProviderShape, ProviderCalls, ProviderLocks, RowsAreHad, DeletionLocks, ChoiceLocks,
       Provider!At, Provider!Alias, Provider!Setting, Provider!ReferencesHold, Provider!GoTo, Provider!Referenced
  <2> QED BY <2>1, <2>2 DEF ProviderInv
<1>7. ASSUME NEW c \in Clients, Provider!GoTo(c, "link", "commit"), UNCHANGED <<exists, names, rowLock, setLock>>,
             \/ names[providerCall[c].use] = Provider!Alias(c) /\ UNCHANGED keyShares
             \/ /\ rowLock[Provider!Alias(c)] = None /\ Provider!Alias(c) \in exists
                /\ keyShares' = [keyShares EXCEPT ![Provider!Alias(c)] = @ \cup {c}]
      PROVE  ProviderInv'
  <2>1. Provider!Alias(c) \in Aliases
    BY <1>0, <1>7 DEF ProviderShape, Provider!GoTo, Provider!At
  <2>2. /\ providerCall[c].pc = "link" /\ providerCall' \in [Clients -> ProviderCalls]
        /\ providerCall'[c].pc = "commit" /\ Provider!Alias(c)' = Provider!Alias(c)
        /\ providerCall'[c].use = providerCall[c].use
        /\ \A d \in Clients \ {c} : providerCall'[d] = providerCall[d]
    BY <1>0, <1>7 DEF ProviderShape, ProviderCalls, Provider!GoTo, Provider!At, Provider!Alias
  <2>3. /\ keyShares' \in [Aliases -> SUBSET Clients]
        /\ \A a \in Aliases : keyShares[a] \subseteq keyShares'[a] /\ (rowLock[a] # None => keyShares'[a] = keyShares[a])
        /\ names[providerCall[c].use] # Provider!Alias(c) =>
             c \in keyShares'[Provider!Alias(c)] /\ Provider!Alias(c) \in exists
    BY <1>0, <1>7, <2>1 DEF ProviderShape
  <2>4. ProviderShape'
    BY <1>0, <1>7, <2>2, <2>3 DEF ProviderShape, Provider!At, Provider!Alias
  <2>5. ProviderLocks' /\ Provider!ReferencesHold'
    BY <1>0, <1>7, <2>1, <2>2, <2>3 DEF ProviderShape, ProviderLocks, RowsAreHad, DeletionLocks, ChoiceLocks,
       Provider!At, Provider!Alias, Provider!Setting, Provider!ReferencesHold
  <2> QED BY <2>4, <2>5 DEF ProviderInv
<1>8. CASE UNCHANGED <<exists, names, rowLock, keyShares, setLock, providerCall>>
  <2>1. ProviderShape'
    BY <1>0, <1>8 DEF ProviderShape, Provider!At, Provider!Alias
  <2>2. ProviderLocks' /\ Provider!ReferencesHold'
    BY <1>0, <1>8 DEF ProviderLocks, RowsAreHad, DeletionLocks, ChoiceLocks,
       Provider!At, Provider!Alias, Provider!Setting, Provider!ReferencesHold
  <2> QED BY <2>1, <2>2 DEF ProviderInv
<1>9. CASE \E c \in Clients : \/ Provider!WriteProvider(c) \/ Provider!LockProvider(c) \/ Provider!LockSettings(c)
                              \/ Provider!CheckReferences(c) \/ Provider!LockUse(c)
                              \/ Provider!LinkProvider(c) \/ Provider!RolledBack(c)
  <2> SUFFICES ASSUME NEW c \in Clients,
                      \/ Provider!WriteProvider(c) \/ Provider!LockProvider(c) \/ Provider!LockSettings(c)
                      \/ Provider!CheckReferences(c) \/ Provider!LockUse(c)
                      \/ Provider!LinkProvider(c) \/ Provider!RolledBack(c)
               PROVE  ProviderInv'
    BY <1>9
  <2>1. CASE Provider!WriteProvider(c) \/ Provider!RolledBack(c)
    BY <1>2, <2>1 DEF Provider!WriteProvider, Provider!RolledBack
  <2>2. CASE Provider!LockProvider(c)
    BY <1>2, <1>4, <2>2 DEF Provider!LockProvider
  <2>3. CASE Provider!LockSettings(c)
    BY <1>5, <2>3 DEF Provider!LockSettings
  <2>4. CASE Provider!CheckReferences(c)
    BY <1>2, <1>6, <2>4 DEF Provider!CheckReferences, Provider!locks
  <2>5. CASE Provider!LockUse(c)
    <3>1. Provider!Setting(providerCall[c].use) \in {"ai", "voice"}
      BY DEF Provider!Setting
    <3> QED BY <1>5, <2>5, <3>1 DEF Provider!LockUse
  <2>6. CASE Provider!LinkProvider(c)
    BY <1>2, <1>7, <2>6 DEF Provider!LinkProvider, Provider!locks
  <2> QED BY <2>1, <2>2, <2>3, <2>4, <2>5, <2>6
<1>10. CASE \/ \E a \in Aliases : Provider!StartInterview(a)
            \/ Provider!FinishInterview \/ UNCHANGED providerVars
  BY <1>8, <1>10 DEF Provider!StartInterview, Provider!FinishInterview, Provider!locks, providerVars
<1>11. "chat" \in Provider!Uses
  BY DEF Provider!Uses
<1> QED BY <1>1, <1>3, <1>9, <1>10, <1>11 DEF Provider!Next

\* The providers' variables change by the providers' steps.
LEMMA OnlyProviders == ServicesNext => [Provider!Next]_providerVars
BY DEF ServicesNext, Still

\* However deletions and choices of providers interleave, the settings name
\* providers that exist (delete_provider, update_default_chat, update_voice_config).
THEOREM SettingsNameProviders == ServicesSpec => []ReferencesHold
<1>1. ServicesInit => ProviderInv
  BY ProvidersStart DEF ServicesInit
<1>2. ProviderInv /\ [ServicesNext]_all => ProviderInv'
  <2> SUFFICES ASSUME ProviderInv, [ServicesNext]_all PROVE ProviderInv'
    OBVIOUS
  <2>1. [Provider!Next]_providerVars
    BY OnlyProviders DEF all
  <2> QED BY <2>1, ProviderStep
<1>3. ProviderInv => ReferencesHold
  BY DEF ProviderInv, ReferencesHold
<1> QED BY <1>1, <1>2, <1>3, PTL DEF ServicesSpec

-----------------------------------------------------------------------------
(* Accounts: a session that ended stays so                                 *)

\* A call to the account service, and a stored password.
AccountCalls == [pc: {"idle", "email-verify", "password-reset", "verify", "check", "write",
                      "members", "revoke", "rehash", "create", "refresh", "actor"},
                 session: Sessions \cup {None}, password: 0 .. MaxPasswords,
                 found: SUBSET Sessions]
Credentials == [number: 0 .. MaxPasswords, outdated: BOOLEAN]

\* Account!TypeOK, with names for its sets of records.
AccountTypes ==
  /\ account \in {"none", "PENDING", "ACTIVE"} /\ password \in Credentials
  /\ token \in [Tokens -> {"new", "email-verify", "password-reset", "used"}]
  /\ session \in [Sessions -> {"new", "live", "gone"}]
  /\ members \in SUBSET Sessions
  /\ accountCall \in [Clients -> AccountCalls]

\* The types hold at first.
LEMMA AccountBegins == Account!Init => AccountTypes
<1> SUFFICES ASSUME Account!Init PROVE AccountTypes
  OBVIOUS
<1> USE ServicesAssumption DEF Account!AccountAssumption, Account!Init
<1>1. 0 \in 0 .. MaxPasswords
  OBVIOUS
<1>2. Account!Idle \in AccountCalls
  BY <1>1 DEF Account!Idle, AccountCalls
<1>3. password \in Credentials
  BY <1>1 DEF Credentials
<1> QED BY <1>2, <1>3 DEF AccountTypes

\* Every step keeps the types.
LEMMA AccountStep ==
  ASSUME AccountTypes, [Account!Next]_accountVars
  PROVE  AccountTypes'
<1> USE ServicesAssumption DEF Account!AccountAssumption, AccountTypes
<1> DEFINE Pc == {"idle", "email-verify", "password-reset", "verify", "check", "write",
                  "members", "revoke", "rehash", "create", "refresh", "actor"}
<1>1. Account!Idle \in AccountCalls
  BY DEF Account!Idle, AccountCalls
<1>2. ASSUME NEW c \in Clients, NEW from, NEW to \in Pc, Account!GoTo(c, from, to)
      PROVE  accountCall' \in [Clients -> AccountCalls]
  BY <1>2 DEF Account!GoTo, AccountCalls
<1>3. ASSUME NEW c \in Clients, Account!Ends(c) PROVE accountCall' \in [Clients -> AccountCalls]
  BY <1>1, <1>3 DEF Account!Ends
<1>4. ASSUME NEW c \in Clients,
             \/ Account!Register(c) \/ Account!RequestToken(c) \/ Account!Refresh(c)
             \/ Account!CheckUser(c) \/ Account!RevokeAll(c)
      PROVE  AccountTypes'
  BY <1>2, <1>4 DEF Account!Register, Account!RequestToken, Account!Refresh, Account!Refreshed,
                    Account!CheckUser, Account!RevokeAll
<1>5. ASSUME NEW c \in Clients, Account!VerifyEmail(c) \/ Account!Leave(c) \/ Account!Revoke(c)
      PROVE  AccountTypes'
  BY <1>3, <1>5 DEF Account!VerifyEmail, Account!Leave, Account!Revoke
<1>6. ASSUME NEW c \in Clients, Account!DeleteSessions(c) PROVE AccountTypes'
  BY <1>3, <1>6 DEF Account!DeleteSessions
<1>7. ASSUME NEW c \in Clients, Account!Login(c) PROVE AccountTypes'
  <2>1. \A pc \in {"rehash", "create"} :
          [accountCall[c] EXCEPT !.pc = pc, !.password = password.number] \in AccountCalls
    BY DEF AccountCalls, Credentials
  <2> QED BY <1>7, <2>1 DEF Account!Login
<1>8. ASSUME NEW c \in Clients, Account!Rehash(c) PROVE AccountTypes'
  <2>1. password' \in Credentials
    BY <1>8 DEF Account!Rehash, AccountCalls, Credentials
  <2> QED BY <1>2, <1>8, <2>1 DEF Account!Rehash
<1>9. ASSUME NEW c \in Clients, Account!WritePassword(c) PROVE AccountTypes'
  <2>1. password' \in Credentials
    BY <1>9 DEF Account!WritePassword, Credentials
  <2> QED BY <1>2, <1>9, <2>1 DEF Account!WritePassword
<1>10. ASSUME NEW c \in Clients, Account!ReadMembers(c) PROVE AccountTypes'
  <2>1. [accountCall[c] EXCEPT !.pc = "revoke", !.found = members] \in AccountCalls
    BY DEF AccountCalls
  <2> QED BY <1>10, <2>1 DEF Account!ReadMembers
<1>11. ASSUME NEW c \in Clients, NEW t \in Tokens, Account!CreateToken(c, t) PROVE AccountTypes'
  BY <1>3, <1>11 DEF Account!CreateToken
<1>12. ASSUME NEW c \in Clients, NEW t \in Tokens, Account!ConsumeToken(c, t) PROVE AccountTypes'
  BY <1>2, <1>12 DEF Account!ConsumeToken
<1>13. ASSUME NEW c \in Clients, NEW s \in Sessions, Account!CreateSession(c, s) PROVE AccountTypes'
  BY <1>3, <1>13 DEF Account!CreateSession
<1>14. ASSUME NEW c \in Clients, NEW s \in Sessions, Account!Authenticate(c, s) PROVE AccountTypes'
  <2>1. [accountCall[c] EXCEPT !.pc = "refresh", !.session = s] \in AccountCalls
    BY DEF AccountCalls
  <2> QED BY <1>14, <2>1 DEF Account!Authenticate
<1>15. ASSUME NEW t \in Tokens, Account!TokenExpires(t) PROVE AccountTypes'
  BY <1>15 DEF Account!TokenExpires
<1>16. ASSUME NEW s \in Sessions, Account!SessionExpires(s) PROVE AccountTypes'
  BY <1>16 DEF Account!SessionExpires
<1>17. CASE UNCHANGED accountVars
  BY <1>17 DEF accountVars
<1> QED BY <1>4, <1>5, <1>6, <1>7, <1>8, <1>9, <1>10, <1>11, <1>12, <1>13, <1>14, <1>15, <1>16, <1>17
        DEF Account!Next

\* No step but CreateSession makes a session live, and that one makes it new.
LEMMA GoneStaysGone ==
  ASSUME AccountTypes, [Account!Next]_accountVars, NEW s \in Sessions, session[s] = "gone"
  PROVE  session'[s] = "gone"
<1> USE DEF AccountTypes
<1>1. CASE UNCHANGED session
  BY <1>1
<1>2. ASSUME NEW c \in Clients, Account!Revoke(c) \/ Account!DeleteSessions(c) PROVE session'[s] = "gone"
  BY <1>2 DEF Account!Revoke, Account!DeleteSessions
<1>3. ASSUME NEW c \in Clients, NEW r \in Sessions, Account!CreateSession(c, r) PROVE session'[s] = "gone"
  BY <1>3 DEF Account!CreateSession
<1>4. ASSUME NEW r \in Sessions, Account!SessionExpires(r) PROVE session'[s] = "gone"
  BY <1>4 DEF Account!SessionExpires
<1>5. ASSUME NEW c \in Clients, Account!Refresh(c) PROVE session'[s] = "gone"
  BY <1>5 DEF Account!Refresh, Account!Refreshed
<1> QED BY <1>1, <1>2, <1>3, <1>4, <1>5
        DEF Account!Next, accountVars, Account!Register, Account!RequestToken, Account!VerifyEmail, Account!Login,
            Account!Rehash, Account!CheckUser, Account!WritePassword, Account!RevokeAll, Account!ReadMembers,
            Account!Leave, Account!CreateToken, Account!ConsumeToken, Account!Authenticate, Account!TokenExpires

\* The accounts' variables change by the accounts' steps.
LEMMA OnlyAccounts == ServicesNext => [Account!Next]_accountVars
BY DEF ServicesNext, Still

\* A session that was revoked or that ended is never live again, whichever calls
\* run at once (AuthSessionStore.get, revoke, revoke_all).
THEOREM SessionsEndForGood == ServicesSpec => SessionsStayEnded
<1>1. ServicesInit => AccountTypes
  BY AccountBegins DEF ServicesInit
<1>2. AccountTypes /\ [ServicesNext]_all => AccountTypes'
  BY OnlyAccounts, AccountStep DEF all
<1>3. AccountTypes /\ [ServicesNext]_all
        => [\A s \in Sessions : session[s] = "gone" => session'[s] = "gone"]_accountVars
  BY OnlyAccounts, GoneStaysGone DEF all
<1>4. accountVars = Account!vars
  BY DEF accountVars, Account!vars
<1> QED BY <1>1, <1>2, <1>3, <1>4, PTL DEF ServicesSpec, SessionsStayEnded, Account!SessionsStayEnded, accountVars, Account!vars

-----------------------------------------------------------------------------
(* Chats: the messages of a stream are in order                            *)

\* Cardinality in RagChat is Cardinality.
LEMMA ChatCounts == \A S : Chat!Cardinality(S) = Cardinality(S)
BY Zenon DEF Chat!Cardinality, Cardinality

\* Chat!TypeOK, with names for its sets of records.
ChatRows == [row: {"none", "some", "deleted"}, count: Nat, lock: Streams \cup {None}]
Answers  == [pc: {"new", "locked", "asked", "open", "answered", "left"},
             order: Nat, history: SUBSET Nat]
Edits    == [pc: {"idle", "relink", "linked", "erase", "erased"},
             seen: SUBSET Bases, dead: SUBSET Bases, gone: SUBSET Streams, new: SUBSET Bases]

ChatShape ==
  /\ chat \in ChatRows /\ links \in SUBSET Bases /\ questioned \in SUBSET Streams
  /\ answering \in [Streams -> Answers]
  /\ edit \in [Clients -> Edits]

\* A question is asked under the lock, and is new until then.
ChatLocked ==
  /\ chat.row = "none" => chat.count = 0
  /\ \A s \in Streams :
       /\ answering[s].pc = "locked" <=> chat.lock = s
       /\ answering[s].pc = "locked" => answering[s].order = chat.count /\ chat.row = "some"
       /\ answering[s].pc \in {"new", "locked"} => s \notin questioned

\* What makes Chat!ChatsHold inductive.
ChatInv ==
  /\ ChatShape /\ ChatLocked /\ IsFiniteSet(questioned)
  /\ Chat!MessagesInOrder /\ Chat!HistoryIsEarlier

\* No chat, no question, and every edit idle.
LEMMA ChatStarts == Chat!Init => ChatInv
<1> SUFFICES ASSUME Chat!Init PROVE ChatInv
  OBVIOUS
<1> USE DEF Chat!Init
<1>1. ChatShape /\ ChatLocked
  BY ServicesAssumption DEF ChatShape, ChatLocked, ChatRows, Answers, Edits, Chat!Unasked, Chat!Idle, Chat!ChatAssumption
<1>2. IsFiniteSet(questioned) /\ Chat!Cardinality(questioned) = 0
  BY FS_EmptySet, ChatCounts
<1>3. Chat!MessagesInOrder /\ Chat!HistoryIsEarlier
  BY <1>2 DEF Chat!MessagesInOrder, Chat!HistoryIsEarlier
<1> QED BY <1>1, <1>2, <1>3 DEF ChatInv

\* The messages and the history are sets of numbers.
LEMMA CompletedAreMessages ==
  ASSUME ChatInv
  PROVE  /\ Chat!Completed \in SUBSET Nat
         /\ Chat!History \in SUBSET Chat!Completed
<1>1. \A s \in questioned : answering[s].order \in Nat /\ answering[s].order + 1 \in Nat
  BY DEF ChatInv, ChatShape, Answers
<1>2. Chat!Completed \in SUBSET Nat
  BY <1>1 DEF Chat!Completed
<1> QED BY <1>2 DEF Chat!History

\* Every step keeps the types.
LEMMA ChatShapeStep ==
  ASSUME ChatInv, [Chat!Next]_chatVars
  PROVE  ChatShape'
<1> USE DEF ChatInv, ChatShape
<1>1. ASSUME NEW K \in SUBSET Bases, Chat!Create(K) PROVE ChatShape'
  BY <1>1 DEF Chat!Create, ChatRows
<1>2. ASSUME NEW s \in Streams, Chat!LockChat(s) PROVE ChatShape'
  <2>1. chat' \in ChatRows /\ chat.count \in Nat
    BY <1>2 DEF Chat!LockChat, ChatRows
  <2>2. [answering[s] EXCEPT !.pc = "locked", !.order = chat.count] \in Answers
    <3>1. answering[s] \in Answers /\ chat.count \in Nat
      BY <2>1
    <3> QED BY <3>1 DEF Answers
  <2> QED BY <1>2, <2>1, <2>2 DEF Chat!LockChat
<1>3. ASSUME NEW s \in Streams, Chat!Ask(s) PROVE ChatShape'
  <2>0. answering[s].order + 2 \in Nat
    BY DEF Answers
  <2>1. chat' \in ChatRows /\ questioned' \in SUBSET Streams
    BY <1>3, <2>0 DEF Chat!Ask, ChatRows
  <2>2. [answering[s] EXCEPT !.pc = "asked", !.history = {}] \in Answers
    BY DEF Answers
  <2> QED BY <1>3, <2>1, <2>2 DEF Chat!Ask, Chat!StreamTo
<1>4. ASSUME NEW s \in Streams, Chat!OpenStream(s) PROVE ChatShape'
  <2>1. /\ [answering[s] EXCEPT !.pc = "open", !.history = Chat!History] \in Answers
        /\ [answering[s] EXCEPT !.pc = "left"] \in Answers
    BY CompletedAreMessages DEF Answers
  <2> QED BY <1>4, <2>1 DEF Chat!OpenStream
<1>5. ASSUME NEW s \in Streams, Chat!Complete(s) PROVE ChatShape'
  <2>1. /\ [answering[s] EXCEPT !.pc = "answered", !.history = {}] \in Answers
        /\ [answering[s] EXCEPT !.pc = "left", !.history = {}] \in Answers
    BY DEF Answers
  <2> QED BY <1>5, <2>1 DEF Chat!Complete, Chat!StreamTo
<1>6. ASSUME NEW s \in Streams, Chat!Leave(s) PROVE ChatShape'
  <2>1. [answering[s] EXCEPT !.pc = "left", !.history = {}] \in Answers
    BY DEF Answers
  <2>2. chat' \in ChatRows
    BY <1>6 DEF Chat!Leave, ChatRows
  <2> QED BY <1>6, <2>1, <2>2 DEF Chat!Leave, Chat!StreamTo
<1>7. ASSUME NEW c \in Clients, NEW K \in SUBSET Bases, NEW pc \in {"erase", "relink"},
             Chat!Begin(c, pc, K)
      PROVE  ChatShape'
  <2>1. [edit[c] EXCEPT !.pc = pc, !.seen = links, !.new = K] \in Edits
    BY DEF Edits
  <2> QED BY <1>7, <2>1 DEF Chat!Begin
<1>8. ASSUME NEW c \in Clients, Chat!DeleteLinks(c) PROVE ChatShape'
  <2>1. [edit[c] EXCEPT !.pc = "linked", !.seen = {}, !.dead = edit[c].seen \cap links] \in Edits
    BY DEF Edits
  <2> QED BY <1>8, <2>1 DEF Chat!DeleteLinks
<1>9. Chat!Idle \in Edits
  BY DEF Chat!Idle, Edits
<1>10. ASSUME NEW c \in Clients, Chat!InsertLinks(c) PROVE ChatShape'
  <2>1. edit[c].new \in SUBSET Bases
    BY DEF Edits
  <2> QED BY <1>9, <1>10, <2>1 DEF Chat!InsertLinks, Chat!Ends
<1>11. ASSUME NEW c \in Clients, Chat!DeleteRows(c) PROVE ChatShape'
  <2>1. [edit[c] EXCEPT !.pc = "erased", !.seen = {}, !.dead = edit[c].seen \cap links,
                        !.gone = questioned] \in Edits
    BY DEF Edits
  <2> QED BY <1>11, <2>1 DEF Chat!DeleteRows
<1>12. ASSUME NEW c \in Clients, Chat!DeleteChat(c) PROVE ChatShape'
  <2>1. chat' \in ChatRows
    BY <1>12 DEF Chat!DeleteChat, ChatRows
  <2> QED BY <1>9, <1>12, <2>1 DEF Chat!DeleteChat, Chat!Ends
<1>13. CASE UNCHANGED chatVars
  BY <1>13 DEF chatVars
<1> QED BY <1>1, <1>2, <1>3, <1>4, <1>5, <1>6, <1>7, <1>8, <1>10, <1>11, <1>12, <1>13 DEF Chat!Next

\* What a step of a stream does to it, and leaves of the others.
StreamMoved(s, from, to) ==
  /\ answering[s].pc \in from /\ answering'[s].pc \in to
  /\ answering'[s].order = answering[s].order
  /\ \A q \in Streams \ {s} : answering'[q] = answering[q]

\* The program counters of a stream's steps.
LEMMA StreamsMove ==
  ASSUME ChatInv, NEW s \in Streams
  PROVE  /\ Chat!Ask(s)        => StreamMoved(s, {"locked"}, {"asked"})
         /\ Chat!OpenStream(s) => StreamMoved(s, {"asked"}, {"open", "left"})
         /\ Chat!Complete(s)   => StreamMoved(s, {"open"}, {"answered", "left"})
         /\ Chat!Leave(s)      => StreamMoved(s, {"locked", "asked", "open"}, {"left"})
<1>1. answering \in [Streams -> Answers] /\ answering[s] \in Answers
  BY DEF ChatInv, ChatShape
<1>2. ASSUME NEW from, NEW to, Chat!StreamTo(s, from, to) PROVE StreamMoved(s, {from}, {to})
  BY <1>1, <1>2 DEF Chat!StreamTo, StreamMoved, Answers
<1>3. Chat!OpenStream(s) => StreamMoved(s, {"asked"}, {"open", "left"})
  BY <1>1 DEF Chat!OpenStream, StreamMoved, Answers
<1>4. Chat!Ask(s) => Chat!StreamTo(s, "locked", "asked")
  BY DEF Chat!Ask
<1>5. Chat!Complete(s) => Chat!StreamTo(s, "open", "answered") \/ Chat!StreamTo(s, "open", "left")
  BY DEF Chat!Complete
<1>6. Chat!Leave(s) => /\ answering[s].pc \in {"locked", "asked", "open"}
                       /\ Chat!StreamTo(s, answering[s].pc, "left")
  BY DEF Chat!Leave
<1> QED BY <1>2, <1>3, <1>4, <1>5, <1>6 DEF StreamMoved

\* The steps that touch what the invariants below are about.
LEMMA ChatSteps ==
  ASSUME [Chat!Next]_chatVars
  PROVE  \/ \E K \in SUBSET Bases : Chat!Create(K)
         \/ \E s \in Streams : \/ Chat!LockChat(s) \/ Chat!Ask(s) \/ Chat!OpenStream(s)
                                \/ Chat!Complete(s) \/ Chat!Leave(s)
         \/ \E c \in Clients : Chat!InsertLinks(c) \/ Chat!DeleteChat(c)
         \/ UNCHANGED <<chat, links, questioned, answering>>
BY DEF Chat!Next, Chat!Begin, Chat!DeleteLinks, Chat!DeleteRows, chatVars

\* The lock, and the order of the question that is asked under it.
LEMMA ChatLockedStep ==
  ASSUME ChatInv, [Chat!Next]_chatVars
  PROVE  ChatLocked'
<1> USE ServicesAssumption
    DEF ChatInv, ChatShape, ChatLocked, ChatRows, Chat!ChatAssumption
<1>1. ASSUME NEW K \in SUBSET Bases, Chat!Create(K) PROVE ChatLocked'
  BY <1>1 DEF Chat!Create
<1>2. ASSUME NEW s \in Streams, Chat!LockChat(s) PROVE ChatLocked'
  BY <1>2 DEF Chat!LockChat, Chat!Unlocked, Answers
<1>3. ASSUME NEW s \in Streams, Chat!Ask(s) PROVE ChatLocked'
  <2>1. answering[s].pc = "locked" /\ answering'[s].pc = "asked"
    BY <1>3, StreamsMove DEF StreamMoved
  <2>2. \A q \in Streams \ {s} : answering'[q] = answering[q] /\ answering[q].pc # "locked"
    BY <1>3, <2>1, StreamsMove DEF StreamMoved
  <2>3. chat'.lock = None /\ chat'.row = "some" /\ questioned' = questioned \cup {s}
    BY <1>3 DEF Chat!Ask
  <2> QED BY <2>1, <2>2, <2>3
<1>4. ASSUME NEW s \in Streams, Chat!OpenStream(s) PROVE ChatLocked'
  BY <1>4, StreamsMove DEF Chat!OpenStream, StreamMoved
<1>5. ASSUME NEW s \in Streams, Chat!Complete(s) PROVE ChatLocked'
  BY <1>5, StreamsMove DEF Chat!Complete, StreamMoved
<1>6. ASSUME NEW s \in Streams, Chat!Leave(s) PROVE ChatLocked'
  BY <1>6, StreamsMove DEF Chat!Leave, StreamMoved
<1>7. ASSUME NEW c \in Clients, Chat!InsertLinks(c) \/ Chat!DeleteChat(c) PROVE ChatLocked'
  BY <1>7 DEF Chat!InsertLinks, Chat!DeleteChat
<1>8. CASE UNCHANGED <<chat, links, questioned, answering>>
  BY <1>8
<1> QED BY <1>1, <1>2, <1>3, <1>4, <1>5, <1>6, <1>7, <1>8, ChatSteps

\* A question that is asked gets the number after those of all before it.
LEMMA NextMessage ==
  ASSUME ChatInv, NEW s \in Streams, Chat!Ask(s)
  PROVE  /\ s \notin questioned /\ questioned' = questioned \cup {s}
         /\ answering'[s].order = 2 * Cardinality(questioned)
         /\ chat'.count = 2 * (Cardinality(questioned) + 1) /\ chat'.row = "some"
         /\ IsFiniteSet(questioned') /\ Cardinality(questioned') = Cardinality(questioned) + 1
         /\ Cardinality(questioned) \in Nat
         /\ \A q \in questioned : /\ answering'[q] = answering[q]
                                 /\ answering[q].order < 2 * Cardinality(questioned)
<1>1. /\ answering[s].pc = "locked" /\ answering'[s].order = answering[s].order
      /\ \A q \in Streams \ {s} : answering'[q] = answering[q]
  BY StreamsMove DEF StreamMoved
<1>2. /\ s \notin questioned /\ chat.row = "some" /\ answering[s].order = chat.count
      /\ questioned \subseteq Streams
  BY <1>1 DEF ChatInv, ChatLocked, ChatShape
<1>3. /\ Cardinality(questioned) \in Nat
      /\ IsFiniteSet(questioned \cup {s})
      /\ Cardinality(questioned \cup {s}) = Cardinality(questioned) + 1
  BY <1>2, FS_CardinalityType, FS_AddElement DEF ChatInv
<1>4. chat.count = 2 * Cardinality(questioned)
  BY <1>2, ChatCounts DEF ChatInv, Chat!MessagesInOrder
<1>5. chat'.count = answering[s].order + 2 /\ chat'.row = "some" /\ questioned' = questioned \cup {s}
  BY <1>2 DEF Chat!Ask, ChatInv, ChatShape, ChatRows
<1>6. ASSUME NEW q \in questioned PROVE answering[q].order < 2 * Cardinality(questioned)
  <2>1. answering[q].order \in {2 * i : i \in 0 .. (Cardinality(questioned) - 1)}
    BY ChatCounts DEF ChatInv, Chat!MessagesInOrder
  <2> QED BY <2>1, <1>3
<1> QED BY <1>1, <1>2, <1>3, <1>4, <1>5, <1>6

\* Messages are numbered in the order of the questions.
LEMMA MessagesStep ==
  ASSUME ChatInv, [Chat!Next]_chatVars
  PROVE  Chat!MessagesInOrder' /\ IsFiniteSet(questioned')
<1> DEFINE Numbers  == {answering[s].order : s \in questioned}
           Expected == {2 * i : i \in 0 .. (Cardinality(questioned) - 1)}
<1> USE ChatCounts DEF Chat!MessagesInOrder
<1>0. /\ Chat!MessagesInOrder /\ IsFiniteSet(questioned) /\ ChatShape /\ ChatLocked
      /\ questioned \subseteq Streams
  BY DEF ChatInv, ChatShape
<1>1. ASSUME NEW K \in SUBSET Bases, Chat!Create(K)
      PROVE  Chat!MessagesInOrder' /\ IsFiniteSet(questioned')
  <2>1. Cardinality(questioned) = 0 /\ questioned = {}
    BY <1>0, <1>1, FS_EmptySet DEF Chat!Create
  <2>2. chat'.count = 0 /\ chat'.row = "some"
    BY <1>0, <1>1 DEF Chat!Create, ChatLocked, ChatShape, ChatRows
  <2> QED BY <1>0, <1>1, <2>1, <2>2 DEF Chat!Create
<1>2. ASSUME NEW s \in Streams, Chat!LockChat(s)
      PROVE  Chat!MessagesInOrder' /\ IsFiniteSet(questioned')
  <2>1. s \notin questioned
    BY <1>0, <1>2 DEF Chat!LockChat, ChatLocked
  <2>2. \A q \in questioned : answering'[q] = answering[q]
    BY <1>0, <1>2, <2>1 DEF Chat!LockChat, ChatShape
  <2>3. chat'.row = chat.row /\ chat'.count = chat.count /\ UNCHANGED <<links, questioned>>
    BY <1>0, <1>2 DEF Chat!LockChat, ChatShape, ChatRows
  <2>4. Numbers' = Numbers
    BY <2>2, <2>3
  <2>5. \A p, q \in questioned' : p # q => answering'[p].order # answering'[q].order
    BY <1>0, <2>2, <2>3
  <2>6. Numbers' = Expected'
    BY <1>0, <2>3, <2>4
  <2> QED BY <1>0, <2>3, <2>5, <2>6
<1>3. ASSUME NEW s \in Streams, Chat!Ask(s)
      PROVE  Chat!MessagesInOrder' /\ IsFiniteSet(questioned')
  <2>1. \A p, q \in questioned' : p # q => answering'[p].order # answering'[q].order
    BY <1>0, <1>3, NextMessage DEF ChatShape, Answers
  <2>2. Numbers' = Numbers \cup {2 * Cardinality(questioned)}
    BY <1>3, NextMessage
  <2>3. Expected' = Expected \cup {2 * Cardinality(questioned)}
    <3>1. \A n \in Nat : {2 * i : i \in 0 .. ((n + 1) - 1)} = {2 * i : i \in 0 .. (n - 1)} \cup {2 * n}
      OBVIOUS
    <3>2. Cardinality(questioned) \in Nat /\ Cardinality(questioned') = Cardinality(questioned) + 1
      BY <1>3, NextMessage
    <3> QED BY <3>1, <3>2
  <2>4. Numbers' = Expected'
    BY <1>0, <2>2, <2>3
  <2> QED BY <1>3, <2>1, <2>4, NextMessage
<1>4. ASSUME NEW s \in Streams, Chat!OpenStream(s) \/ Chat!Complete(s) \/ Chat!Leave(s)
      PROVE  Chat!MessagesInOrder' /\ IsFiniteSet(questioned')
  <2>1. \A q \in Streams : answering'[q].order = answering[q].order
    BY <1>4, StreamsMove DEF StreamMoved
  <2>2. chat'.row = chat.row /\ chat'.count = chat.count /\ UNCHANGED <<links, questioned>>
    BY <1>0, <1>4 DEF Chat!OpenStream, Chat!Complete, Chat!Leave, ChatShape, ChatRows
  <2>3. Numbers' = Numbers
    BY <1>0, <2>1, <2>2
  <2> QED BY <1>0, <2>1, <2>2, <2>3
<1>5. ASSUME NEW c \in Clients, Chat!InsertLinks(c)
      PROVE  Chat!MessagesInOrder' /\ IsFiniteSet(questioned')
  BY <1>0, <1>5 DEF Chat!InsertLinks
<1>6. ASSUME NEW c \in Clients, Chat!DeleteChat(c)
      PROVE  Chat!MessagesInOrder' /\ IsFiniteSet(questioned')
  <2>1. CASE UNCHANGED <<chat, links, questioned, answering>>
    BY <1>0, <2>1
  <2>2. CASE chat'.row # "some" /\ questioned' = {} /\ links' = {}
    BY <2>2, FS_EmptySet
  <2>3. [chat EXCEPT !.row = "deleted"].row = "deleted"
    BY <1>0 DEF ChatShape, ChatRows
  <2> QED BY <1>6, <2>1, <2>2, <2>3 DEF Chat!DeleteChat
<1>7. CASE UNCHANGED <<chat, links, questioned, answering>>
  BY <1>0, <1>7
<1> QED BY <1>1, <1>2, <1>3, <1>4, <1>5, <1>6, <1>7, ChatSteps

\* The latest question's history is of earlier messages.
LEMMA HistoryStep ==
  ASSUME ChatInv, [Chat!Next]_chatVars
  PROVE  Chat!HistoryIsEarlier'
<1> USE DEF Chat!HistoryIsEarlier
<1>0. /\ Chat!HistoryIsEarlier /\ Chat!MessagesInOrder /\ IsFiniteSet(questioned)
      /\ ChatShape /\ ChatLocked /\ questioned \subseteq Streams
  BY DEF ChatInv, ChatShape
<1>1. ASSUME NEW s \in Streams, Chat!LockChat(s) PROVE Chat!HistoryIsEarlier'
  <2>1. s \notin questioned
    BY <1>0, <1>1 DEF Chat!LockChat, ChatLocked
  <2> QED BY <1>0, <1>1, <2>1 DEF Chat!LockChat, ChatShape
<1>2. ASSUME NEW s \in Streams, Chat!Ask(s) PROVE Chat!HistoryIsEarlier'
  <2>1. answering'[s].pc = "asked"
    BY <1>2, StreamsMove DEF StreamMoved
  <2>2. \A q \in questioned : answering[q].order \in Nat /\ answering'[q].order < answering'[s].order
    BY <1>0, <1>2, NextMessage DEF ChatShape, Answers
  <2>3. answering'[s].order \in Nat
    BY <1>2, NextMessage
  <2> QED BY <1>2, <2>1, <2>2, <2>3, NextMessage
<1>3. ASSUME NEW s \in Streams, Chat!OpenStream(s) PROVE Chat!HistoryIsEarlier'
  <2>1. UNCHANGED questioned /\ \A q \in Streams \ {s} : answering'[q] = answering[q]
    BY <1>3, StreamsMove DEF Chat!OpenStream, StreamMoved
  <2>2. \A q \in Streams : answering'[q].order = answering[q].order /\ answering[q].order \in Nat
    BY <1>0, <1>3, StreamsMove DEF StreamMoved, ChatShape, Answers
  <2>3. SUFFICES ASSUME s \in questioned, answering'[s].pc = "open",
                        \A q \in questioned : answering[q].order <= answering[s].order,
                        NEW o \in answering'[s].history
                 PROVE  o < answering[s].order
    BY <1>0, <2>1, <2>2
  <2>4. o \in Chat!History /\ answering[s].pc = "asked"
    BY <1>0, <1>3, <2>3 DEF Chat!OpenStream, ChatShape, Answers
  <2>5. \A m \in Chat!Completed : m \in Nat /\ m <= answering[s].order
    <3>1. SUFFICES ASSUME NEW q \in questioned, answering[q].pc = "answered"
                   PROVE  answering[q].order + 1 <= answering[s].order
      BY <1>0, <2>2, <2>3 DEF Chat!Completed
    <3>2. answering[q].order # answering[s].order
      BY <1>0, <2>3, <2>4, <3>1 DEF Chat!MessagesInOrder
    <3> QED BY <1>0, <2>2, <2>3, <3>1, <3>2
  <2>6. o \in Chat!Completed /\ Cardinality({p \in Chat!Completed : p > o}) \in 1 .. MaxHistory
    BY <2>4, ChatCounts DEF Chat!History
  <2>7. {p \in Chat!Completed : p > o} # {}
    BY <2>6, FS_EmptySet, ServicesAssumption DEF Chat!ChatAssumption
  <2> QED BY <2>2, <2>5, <2>6, <2>7
<1>4. ASSUME NEW s \in Streams, Chat!Complete(s) \/ Chat!Leave(s) PROVE Chat!HistoryIsEarlier'
  <2>1. /\ answering'[s].pc # "open" /\ UNCHANGED questioned
        /\ \A q \in Streams \ {s} : answering'[q] = answering[q]
        /\ \A q \in Streams : answering'[q].order = answering[q].order
    BY <1>4, StreamsMove DEF StreamMoved, Chat!Complete, Chat!Leave
  <2> QED BY <1>0, <2>1
<1>5. ASSUME NEW c \in Clients, Chat!InsertLinks(c) \/ Chat!DeleteChat(c) PROVE Chat!HistoryIsEarlier'
  BY <1>0, <1>5 DEF Chat!InsertLinks, Chat!DeleteChat
<1>6. ASSUME NEW K \in SUBSET Bases, Chat!Create(K) PROVE Chat!HistoryIsEarlier'
  BY <1>0, <1>6 DEF Chat!Create
<1>7. CASE UNCHANGED <<chat, links, questioned, answering>>
  BY <1>0, <1>7
<1> QED BY <1>1, <1>2, <1>3, <1>4, <1>5, <1>6, <1>7, ChatSteps

\* The chats' variables change by the chats' steps.
LEMMA OnlyChats == ServicesNext => [Chat!Next]_chatVars
BY DEF ServicesNext, Still

\* However streams, edits and disconnected clients interleave, the messages of a
\* chat are in the order of its questions, and a question's history is of earlier
\* messages (prepare_stream_message,
\* complete_stream_message, stream_context).
THEOREM ChatsInOrder == ServicesSpec => []ChatsHold
<1>1. ServicesInit => ChatInv
  BY ChatStarts DEF ServicesInit
<1>2. ChatInv /\ [ServicesNext]_all => ChatInv'
  <2> SUFFICES ASSUME ChatInv, [ServicesNext]_all PROVE ChatInv'
    OBVIOUS
  <2>1. [Chat!Next]_chatVars
    BY OnlyChats DEF all
  <2> QED BY <2>1, ChatShapeStep, ChatLockedStep, MessagesStep, HistoryStep DEF ChatInv
<1>3. ChatInv => ChatsHold
  BY DEF ChatInv, ChatsHold, Chat!ChatsHold
<1> QED BY <1>1, <1>2, <1>3, PTL DEF ServicesSpec

-----------------------------------------------------------------------------
(* The rate limiter: no window passes more than the limit                  *)

\* The named assumption comes to this.
LEMMA LimiterParameters ==
  /\ Limit \in [Users \cup {Global} -> Nat \ {0}]
  /\ Interval \in Nat \ {0} /\ MaxDelay \in Nat /\ MaxRequests \in Nat
BY ServicesAssumption DEF Limiter!LimiterAssumption, Limiter!Keys

\* Cardinality in RateLimiter is Cardinality.
LEMMA LimiterCardinality == \A S : Limiter!Cardinality(S) = Cardinality(S)
BY Zenon DEF Limiter!Cardinality, Cardinality

\* Limiter!TypeOK, with names for its sets of records.
Asking  == 1 .. MaxRequests
Windows == Users \cup {Global}
Asked   == [pc: {"idle", "sent", "passed", "refused"}, key: Windows, now: Nat, ran: Nat]

\* The requests a key let pass, and those of them that ran in the window from t.
Passed(k)      == {r \in Asking : request[r].pc = "passed" /\ k \in {Global, request[r].key}}
InWindow(k, t) == {r \in Passed(k) : request[r].ran \in t .. (t + Interval - MaxDelay - 1)}

\* A script runs no later than it may, and after its time was read.
InTime(q) ==
  /\ q.pc = "sent" => q.now <= clock /\ clock <= q.now + MaxDelay
  /\ q.pc = "passed" => q.ran <= q.now + MaxDelay /\ q.ran <= clock

\* A key's tokens add up, and a permit that is no longer there is as old as a
\* window, less what the script that dropped it may have been late.
BucketHolds(k) ==
  /\ bucket[k].permits \subseteq Passed(k)
  /\ \/ bucket[k] = Limiter!Absent
     \/ /\ bucket[k].value \in Nat /\ bucket[k].expires \in Nat /\ clock < bucket[k].expires
        /\ bucket[k].value + Cardinality(bucket[k].permits) = Limit[k]
        /\ \A p \in bucket[k].permits : request[p].ran + 2 * Interval <= bucket[k].expires
  /\ \A p \in Passed(k) \ bucket[k].permits : request[p].ran + Interval <= clock + MaxDelay

\* What makes Limiter!LimitsHold inductive.
LimiterInv ==
  /\ clock \in Nat
  /\ request \in [Asking -> Asked]
  /\ \A r \in Asking : InTime(request[r])
  /\ DOMAIN bucket = Windows
  /\ \A k \in Windows : BucketHolds(k)
  /\ \A k \in Windows, t \in Int : Cardinality(InWindow(k, t)) <= Limit[k]

\* The requests that passed are finitely many.
LEMMA PassedIsFinite ==
  ASSUME NEW k
  PROVE  IsFiniteSet(Passed(k)) /\ \A S \in SUBSET Passed(k) : IsFiniteSet(S) /\ Cardinality(S) \in Nat
<1>1. IsFiniteSet(Asking)
  BY LimiterParameters, FS_Interval DEF Asking
<1>2. IsFiniteSet(Passed(k))
  BY <1>1, FS_Subset DEF Passed
<1> QED BY <1>2, FS_Subset, FS_CardinalityType

\* No request has passed, and no bucket is there.
LEMMA LimiterStarts == Limiter!Init => LimiterInv
<1> SUFFICES ASSUME Limiter!Init PROVE LimiterInv
  OBVIOUS
<1> USE LimiterParameters
<1>1. clock = 0 /\ bucket = [k \in Windows |-> Limiter!Absent] /\ request = [r \in Asking |-> Limiter!Unsent]
  BY DEF Limiter!Init, Limiter!Keys, Limiter!Requests, Windows, Asking
<1>2. Limiter!Unsent \in Asked /\ Limiter!Unsent.pc = "idle" /\ Limiter!Absent.permits = {}
  BY DEF Limiter!Unsent, Asked, Windows, Limiter!Absent
<1>3. \A k : Passed(k) = {}
  BY <1>1, <1>2 DEF Passed
<1>4. \A k, t : InWindow(k, t) = {}
  BY <1>3 DEF InWindow
<1>5. \A k \in Windows : BucketHolds(k)
  BY <1>1, <1>2, <1>3 DEF BucketHolds
<1>6. \A r \in Asking : InTime(request[r])
  BY <1>1, <1>2 DEF InTime
<1>7. \A k \in Windows, t \in Int : Cardinality(InWindow(k, t)) <= Limit[k]
  BY <1>4, FS_EmptySet DEF Windows
<1> QED BY <1>1, <1>2, <1>5, <1>6, <1>7 DEF LimiterInv

\* While no request passes and no key is dropped, the tokens and the windows
\* stay as they are.
LEMMA NonePasses ==
  ASSUME LimiterInv, request' \in [Asking -> Asked], clock' \in Nat, clock <= clock',
         \A r \in Asking : InTime(request[r])',
         \A r \in Asking : \/ request'[r] = request[r]
                           \/ request[r].pc # "passed" /\ request'[r].pc # "passed",
         DOMAIN bucket' = Windows,
         \A k \in Windows : \/ bucket'[k] = bucket[k] /\ (bucket[k] # Limiter!Absent => clock' < bucket[k].expires)
                            \/ bucket'[k] = Limiter!Absent /\ bucket[k].expires = clock'
  PROVE  LimiterInv'
<1> USE LimiterParameters
<1>1. \A k : Passed(k)' = Passed(k) /\ \A r \in Passed(k) : request'[r] = request[r]
  BY DEF Passed
<1>2. \A k, t : InWindow(k, t)' = InWindow(k, t)
  BY <1>1 DEF InWindow
<1>3. ASSUME NEW k \in Windows PROVE BucketHolds(k)'
  <2>1. Passed(k)' = Passed(k) /\ (\A r \in Passed(k) : request'[r] = request[r] /\ request[r].ran \in Nat)
        /\ BucketHolds(k) /\ clock \in Nat
    BY <1>1 DEF LimiterInv, Passed, Asked
  <2>2. CASE bucket'[k] = bucket[k] /\ (bucket[k] # Limiter!Absent => clock' < bucket[k].expires)
    BY <2>1, <2>2 DEF BucketHolds
  <2>3. CASE bucket'[k] = Limiter!Absent /\ bucket[k].expires = clock'
    <3>1. bucket[k] # Limiter!Absent
      BY <2>3 DEF Limiter!Absent
    <3>2. \A p \in Passed(k) : request[p].ran + Interval <= clock' + MaxDelay
      <4> TAKE p \in Passed(k)
      <4>1. CASE p \in bucket[k].permits
        BY <2>1, <2>3, <3>1, <4>1 DEF BucketHolds
      <4>2. CASE p \notin bucket[k].permits
        BY <2>1, <4>2 DEF BucketHolds
      <4> QED BY <4>1, <4>2
    <3>3. bucket'[k].permits = {}
      BY <2>3 DEF Limiter!Absent
    <3> QED BY <2>1, <2>3, <3>2, <3>3 DEF BucketHolds
  <2> QED BY <2>2, <2>3
<1>4. \A k \in Windows, t \in Int : Cardinality(InWindow(k, t)') <= Limit[k]
  BY <1>2 DEF LimiterInv
<1> QED BY <1>3, <1>4 DEF LimiterInv

\* A window's tokens after a request that passes: what expired permits gave
\* back is spent again, and the permits kept, with the new one, fill the rest.
LEMMA TokenSpent ==
  ASSUME LimiterInv, NEW r \in Asking, request[r].pc = "sent", NEW k \in Windows,
         Limiter!Current(k, request[r].now) >= 1
  PROVE  /\ Limiter!Kept(k, request[r].now) \subseteq bucket[k].permits
         /\ \A p \in bucket[k].permits \ Limiter!Kept(k, request[r].now) :
              request[p].now <= request[r].now - Interval
         /\ Limiter!Spent(r, k).permits = Limiter!Kept(k, request[r].now) \cup {r}
         /\ Limiter!Spent(r, k).expires = clock + 2 * Interval
         /\ Limiter!Spent(r, k).value \in Nat
         /\ Limiter!Spent(r, k).value + Cardinality(Limiter!Kept(k, request[r].now) \cup {r}) = Limit[k]
<1> USE LimiterParameters, LimiterCardinality
<1> DEFINE now == request[r].now
           P == bucket[k].permits
           E == Limiter!Expired(k, now)
<1>1. BucketHolds(k) /\ P \subseteq Passed(k) /\ r \notin P /\ Limit[k] \in Nat
  BY DEF LimiterInv, BucketHolds, Passed, Windows
<1>2. E \subseteq P /\ \A p \in E : request[p].now <= now - Interval
  BY DEF Limiter!Expired
<1>3. Limiter!Kept(k, now) = P \ E
  BY DEF Limiter!Kept
<1>4. IsFiniteSet(P) /\ Cardinality(P) \in Nat /\ IsFiniteSet(E) /\ Cardinality(E) \in Nat
      /\ IsFiniteSet(P \ E) /\ Cardinality(P \ E) \in Nat
  BY <1>1, <1>2, PassedIsFinite
<1>5. Cardinality(P \ E) = Cardinality(P) - Cardinality(E)
  <2>1. P \cap E = E
    BY <1>2
  <2> QED BY <1>4, <2>1, FS_Difference
<1>6. Cardinality((P \ E) \cup {r}) = Cardinality(P) - Cardinality(E) + 1
  BY <1>1, <1>4, <1>5, FS_AddElement
<1>7. Limiter!Current(k, now) = Limit[k] - Cardinality(P) + Cardinality(E)
  <2>1. CASE bucket[k] = Limiter!Absent
    <3>1. bucket[k].value = -1 /\ P = {}
      BY <2>1 DEF Limiter!Absent
    <3>2. E = {} /\ Cardinality(P) = 0 /\ Cardinality(E) = 0
      BY <1>2, <3>1, FS_EmptySet
    <3> HIDE DEF P, E
    <3>3. Limiter!Cardinality(Limiter!Expired(k, now)) = 0
      BY <3>2 DEF E
    <3> QED BY <1>1, <3>1, <3>2, <3>3 DEF Limiter!Current
  <2>2. CASE bucket[k].value \in Nat /\ bucket[k].value + Cardinality(P) = Limit[k]
    <3>1. Limiter!Cardinality(Limiter!Expired(k, now)) = Cardinality(E)
      OBVIOUS
    <3>2. bucket[k].value + Cardinality(E) <= Limit[k]
      BY <1>2, <1>4, <2>2, FS_Subset
    <3> HIDE DEF P, E
    <3> QED BY <1>1, <1>4, <2>2, <3>1, <3>2 DEF Limiter!Current
  <2> QED BY <1>1, <2>1, <2>2 DEF BucketHolds
<1>8. /\ Limiter!Spent(r, k).value = Limiter!Current(k, now) - 1
      /\ Limiter!Spent(r, k).permits = Limiter!Kept(k, now) \cup {r}
      /\ Limiter!Spent(r, k).expires = clock + 2 * Interval
  BY DEF Limiter!Spent
<1> HIDE DEF E, P
<1>9. Limiter!Spent(r, k).value \in Nat
      /\ Limiter!Spent(r, k).value + Cardinality((P \ E) \cup {r}) = Limit[k]
  BY <1>1, <1>4, <1>6, <1>7, <1>8
<1> QED BY <1>2, <1>3, <1>8, <1>9 DEF P, E

\* A request that passes every one of its keys.
LEMMA OnePasses ==
  ASSUME LimiterInv, NEW r \in Asking, Limiter!Check(r), Limiter!Passes(r)
  PROVE  LimiterInv'
<1> USE LimiterParameters
<1> DEFINE Rules == {Global, request[r].key}
<1>1. request[r].pc = "sent" /\ UNCHANGED clock
  BY DEF Limiter!Check
<1>2. request[r] \in Asked /\ clock \in Nat /\ request \in [Asking -> Asked] /\ InTime(request[r])
  BY DEF LimiterInv
<1>3. Rules \subseteq Windows
  BY <1>2 DEF Asked, Windows
<1>4. request' = [request EXCEPT ![r] = [request[r] EXCEPT !.pc = "passed", !.ran = clock]]
  BY DEF Limiter!Check
<1>5. [request[r] EXCEPT !.pc = "passed", !.ran = clock] \in Asked
  BY <1>2 DEF Asked
<1>6. request' \in [Asking -> Asked] /\ request'[r] = [request[r] EXCEPT !.pc = "passed", !.ran = clock]
      /\ \A q \in Asking \ {r} : request'[q] = request[q]
  BY <1>2, <1>4, <1>5
<1>7. request'[r].pc = "passed" /\ request'[r].ran = clock /\ request'[r].key = request[r].key
      /\ request'[r].now = request[r].now
  BY <1>2, <1>6 DEF Asked
<1>8. bucket' = [k \in Windows |-> IF k \in Rules THEN Limiter!Spent(r, k) ELSE bucket[k]]
  BY DEF Limiter!Check, Limiter!Keys, Limiter!Rules, Windows
<1>9. ASSUME NEW q \in Asking PROVE InTime(request[q])'
  <2>1. CASE q = r
    <3>1. clock <= request[r].now + MaxDelay /\ request[r].now \in Nat
      BY <1>1, <1>2 DEF InTime, Asked
    <3> QED BY <1>1, <1>2, <1>7, <2>1, <3>1 DEF InTime
  <2>2. CASE q # r
    BY <1>1, <1>6, <2>2 DEF LimiterInv, InTime
  <2> QED BY <2>1, <2>2
<1>10. ASSUME NEW k \in Windows
       PROVE  /\ Passed(k)' = Passed(k) \cup (IF k \in Rules THEN {r} ELSE {})
              /\ r \notin Passed(k)
  <2>1. r \in Passed(k)' <=> k \in Rules
    BY <1>7 DEF Passed
  <2>2. \A q \in Asking \ {r} : q \in Passed(k)' <=> q \in Passed(k)
    BY <1>6 DEF Passed
  <2>3. Passed(k)' \subseteq Asking /\ Passed(k) \subseteq Asking /\ r \notin Passed(k)
    BY <1>1 DEF Passed
  <2> QED BY <2>1, <2>2, <2>3
<1>11. ASSUME NEW k \in Windows \ Rules
       PROVE  BucketHolds(k)' /\ \A t \in Int : Cardinality(InWindow(k, t)') <= Limit[k]
  <2>1. Passed(k)' = Passed(k) /\ bucket'[k] = bucket[k] /\ \A q \in Passed(k) : request'[q] = request[q]
    BY <1>6, <1>8, <1>10 DEF Passed
  <2>2. \A t : InWindow(k, t)' = InWindow(k, t)
    BY <2>1 DEF InWindow
  <2>3. BucketHolds(k)
    BY DEF LimiterInv
  <2>4. BucketHolds(k)'
    BY <1>1, <2>1, <2>3 DEF BucketHolds
  <2> QED BY <2>2, <2>4 DEF LimiterInv
<1>12. ASSUME NEW k \in Rules
       PROVE  BucketHolds(k)' /\ \A t \in Int : Cardinality(InWindow(k, t)') <= Limit[k]
  <2>0. k \in Windows /\ BucketHolds(k) /\ Limit[k] \in Nat
    BY <1>3 DEF LimiterInv, Windows
  <2>1. Limiter!Current(k, request[r].now) >= 1
    BY DEF Limiter!Passes, Limiter!Rules
  <2> DEFINE kept == Limiter!Kept(k, request[r].now)
  <2>2. /\ kept \subseteq bucket[k].permits
        /\ \A p \in bucket[k].permits \ kept : request[p].now <= request[r].now - Interval
        /\ bucket'[k].permits = kept \cup {r} /\ bucket'[k].expires = clock + 2 * Interval
        /\ bucket'[k].value \in Nat /\ bucket'[k].value + Cardinality(kept \cup {r}) = Limit[k]
    <3>1. bucket'[k] = Limiter!Spent(r, k)
      BY <1>8, <2>0
    <3>2. /\ Limiter!Kept(k, request[r].now) \subseteq bucket[k].permits
          /\ \A p \in bucket[k].permits \ Limiter!Kept(k, request[r].now) :
               request[p].now <= request[r].now - Interval
          /\ Limiter!Spent(r, k).permits = Limiter!Kept(k, request[r].now) \cup {r}
          /\ Limiter!Spent(r, k).expires = clock + 2 * Interval
          /\ Limiter!Spent(r, k).value \in Nat
          /\ Limiter!Spent(r, k).value + Cardinality(Limiter!Kept(k, request[r].now) \cup {r}) = Limit[k]
      <4> HIDE DEF Rules, kept
      <4>1. k \in Windows
        BY <2>0
      <4> QED BY <1>1, <2>1, <4>1, TokenSpent
    <3> QED BY <3>1, <3>2
  <2> HIDE DEF kept, Rules
  <2>3. \A q \in Passed(k) : /\ q # r /\ request'[q] = request[q] /\ request[q].ran \in Nat /\ request[q].now \in Nat
                             /\ request[q].ran <= clock /\ request[q].ran <= request[q].now + MaxDelay
    <3> TAKE q \in Passed(k)
    <3>1. q \in Asking /\ request[q].pc = "passed" /\ request[q] \in Asked /\ InTime(request[q])
      BY DEF Passed, LimiterInv
    <3> QED BY <1>1, <1>6, <3>1 DEF InTime, Asked
  \* A permit that is not kept is as old as a window was when it ran.
  <2>4. \A q \in Passed(k) \ kept : request[q].ran + Interval <= clock + MaxDelay
    <3> TAKE q \in Passed(k) \ kept
    <3>1. CASE q \in bucket[k].permits
      <4>1. request[r].now \in Nat /\ request[r].now <= clock
        BY <1>1, <1>2 DEF InTime, Asked
      <4>2. request[q].now <= request[r].now - Interval
        BY <2>2, <3>1
      <4> QED BY <1>2, <2>3, <4>1, <4>2
    <3>2. CASE q \notin bucket[k].permits
      BY <2>0, <3>2 DEF BucketHolds
    <3> QED BY <3>1, <3>2
  <2>5. BucketHolds(k)'
    <3>1. bucket'[k].permits \subseteq Passed(k)' /\ Passed(k)' = Passed(k) \cup {r}
      BY <1>10, <2>0, <2>2 DEF BucketHolds
    <3>2. \A p \in bucket'[k].permits : request'[p].ran + 2 * Interval <= bucket'[k].expires
      <4> TAKE p \in bucket'[k].permits
      <4>1. request'[p].ran \in Nat /\ request'[p].ran <= clock
        BY <1>2, <1>7, <2>3, <3>1
      <4> QED BY <1>2, <2>2, <4>1
    <3>3. \A p \in Passed(k)' \ bucket'[k].permits : request'[p].ran + Interval <= clock + MaxDelay
      BY <2>2, <2>3, <2>4, <3>1
    <3>4. bucket'[k].expires \in Nat /\ clock < bucket'[k].expires
      BY <1>2, <2>2
    <3> QED BY <1>1, <2>2, <3>1, <3>2, <3>3, <3>4 DEF BucketHolds
  <2>6. ASSUME NEW t \in Int PROVE Cardinality(InWindow(k, t)') <= Limit[k]
    <3> DEFINE W == t .. (t + Interval - MaxDelay - 1)
    <3>1. InWindow(k, t)' = InWindow(k, t) \cup (IF clock \in W THEN {r} ELSE {})
      <4>1. InWindow(k, t)' = {q \in Passed(k) \cup {r} : request'[q].ran \in W}
        BY <1>10, <2>0 DEF InWindow
      <4> HIDE DEF W
      <4>2. InWindow(k, t) = {q \in Passed(k) : request[q].ran \in W}
        BY DEF InWindow, W
      <4> QED BY <1>7, <2>3, <4>1, <4>2
    <3>2. CASE clock \notin W
      BY <2>0, <3>1, <3>2 DEF LimiterInv
    <3>3. CASE clock \in W
      <4>1. \A q \in InWindow(k, t) : q \in kept
        <5> TAKE q \in InWindow(k, t)
        <5>1. q \in Passed(k) /\ t <= request[q].ran
          BY <2>3 DEF InWindow
        <5>2. clock <= t + Interval - MaxDelay - 1
          BY <1>2, <3>3
        <5>3. request[q].ran + Interval > clock + MaxDelay
          BY <1>2, <2>3, <5>1, <5>2
        <5> QED BY <1>2, <2>3, <2>4, <5>1, <5>3
      <4>2. InWindow(k, t)' \subseteq kept \cup {r}
        BY <3>1, <4>1
      <4>3. IsFiniteSet(kept \cup {r})
        <5>1. kept \in SUBSET Passed(k)
          BY <2>0, <2>2 DEF BucketHolds
        <5>2. IsFiniteSet(kept)
          BY <5>1, PassedIsFinite
        <5> QED BY <5>2, FS_AddElement
      <4>4. Cardinality(InWindow(k, t)') <= Cardinality(kept \cup {r}) /\ Cardinality(kept \cup {r}) \in Nat
            /\ Cardinality(InWindow(k, t)') \in Nat
        BY <4>2, <4>3, FS_Subset, FS_CardinalityType
      <4> QED BY <2>0, <2>2, <4>4
    <3> QED BY <3>2, <3>3
  <2> QED BY <2>5, <2>6
<1>13. DOMAIN bucket' = Windows
  BY <1>8
<1> QED BY <1>1, <1>2, <1>6, <1>9, <1>11, <1>12, <1>13 DEF LimiterInv

\* Every step keeps the invariant.
LEMMA LimiterStep == ASSUME LimiterInv, [Limiter!Next]_limiterVars PROVE LimiterInv'
<1> USE LimiterParameters
<1>0. clock \in Nat /\ request \in [Asking -> Asked] /\ DOMAIN bucket = Windows
      /\ \A k \in Windows : bucket[k] # Limiter!Absent => clock < bucket[k].expires
  BY DEF LimiterInv, BucketHolds
<1>1. ASSUME NEW r \in Asking, NEW u \in Users, Limiter!Send(r, u) PROVE LimiterInv'
  <2> DEFINE q == [request[r] EXCEPT !.pc = "sent", !.key = u, !.now = clock]
  <2>1. request' = [request EXCEPT ![r] = q] /\ UNCHANGED <<clock, bucket>> /\ request[r] = Limiter!Unsent
    BY <1>1 DEF Limiter!Send
  <2>2. q \in Asked
    BY <1>0 DEF Asked, Windows
  <2>3. q.pc = "sent" /\ q.now = clock /\ request[r].pc = "idle"
    <3>1. request[r] \in Asked
      BY <1>0
    <3> QED BY <2>1, <3>1 DEF Asked, Limiter!Unsent
  <2> HIDE DEF q
  <2>4. request' \in [Asking -> Asked] /\ request'[r] = q /\ \A p \in Asking \ {r} : request'[p] = request[p]
    BY <1>0, <2>1, <2>2
  <2>5. \A p \in Asking : InTime(request[p])'
    BY <1>0, <2>1, <2>3, <2>4 DEF LimiterInv, InTime
  <2>6. \A p \in Asking : request'[p] = request[p] \/ (request[p].pc # "passed" /\ request'[p].pc # "passed")
    BY <2>3, <2>4
  <2> QED BY <1>0, <2>1, <2>4, <2>5, <2>6, NonePasses
<1>2. ASSUME NEW r \in Asking, Limiter!Check(r) PROVE LimiterInv'
  <2>1. CASE Limiter!Passes(r)
    BY <1>2, <2>1, OnePasses
  <2>2. CASE ~Limiter!Passes(r)
    <3> DEFINE q == [Limiter!Unsent EXCEPT !.pc = "refused"]
    <3>1. request' = [request EXCEPT ![r] = q] /\ UNCHANGED <<clock, bucket>> /\ request[r].pc = "sent"
      BY <1>2, <2>2 DEF Limiter!Check
    <3>2. Limiter!Unsent \in Asked
      BY DEF Limiter!Unsent, Asked, Windows
    <3>3. q \in Asked /\ q.pc = "refused"
      BY <3>2 DEF Asked
    <3> HIDE DEF q
    <3>4. request' \in [Asking -> Asked] /\ request'[r] = q /\ \A p \in Asking \ {r} : request'[p] = request[p]
      BY <1>0, <3>1, <3>3
    <3>5. \A p \in Asking : InTime(request[p])'
      BY <3>1, <3>3, <3>4 DEF LimiterInv, InTime
    <3>6. \A p \in Asking : request'[p] = request[p] \/ (request[p].pc # "passed" /\ request'[p].pc # "passed")
      BY <3>1, <3>3, <3>4
    <3> QED BY <1>0, <3>1, <3>4, <3>5, <3>6, NonePasses
  <2> QED BY <2>1, <2>2
<1>3. CASE Limiter!Tick
  <2>1. /\ clock' = clock + 1 /\ UNCHANGED request
        /\ \A r \in Asking : request[r].pc = "sent" => clock < request[r].now + MaxDelay
        /\ bucket' = [k \in Windows |-> IF bucket[k].expires = clock + 1 THEN Limiter!Absent ELSE bucket[k]]
    BY <1>3 DEF Limiter!Tick, Limiter!Requests, Limiter!Keys, Asking, Windows
  <2>2. ASSUME NEW p \in Asking PROVE InTime(request[p])'
    <3>1. InTime(request[p]) /\ request[p] \in Asked /\ request[p].now \in Nat /\ request[p].ran \in Nat
      BY <1>0 DEF LimiterInv, Asked
    <3> QED BY <1>0, <2>1, <3>1 DEF InTime
  <2>3. ASSUME NEW k \in Windows
        PROVE  \/ bucket'[k] = bucket[k] /\ (bucket[k] # Limiter!Absent => clock' < bucket[k].expires)
               \/ bucket'[k] = Limiter!Absent /\ bucket[k].expires = clock'
    <3>1. bucket[k] # Limiter!Absent => bucket[k].expires \in Nat /\ clock < bucket[k].expires
      BY DEF LimiterInv, BucketHolds
    <3> QED BY <1>0, <2>1, <3>1
  <2> QED BY <1>0, <2>1, <2>2, <2>3, NonePasses
<1>4. CASE UNCHANGED limiterVars
  BY <1>4 DEF limiterVars, LimiterInv, BucketHolds, InTime, InWindow, Passed
<1> QED BY <1>1, <1>2, <1>3, <1>4 DEF Limiter!Next, Limiter!Requests, Asking

\* No window lets more requests through than it has tokens, whatever order
\* the scripts of several clients run in and however late, up to their bound;
\* and no token is lost to a request that another rule refused
\* (rate_limit_single.lua).
THEOREM WindowsHold == ServicesSpec => []LimitsHold
<1>1. ServicesInit => LimiterInv
  BY LimiterStarts DEF ServicesInit
<1>2. LimiterInv /\ [ServicesNext]_all => LimiterInv'
  <2> SUFFICES ASSUME LimiterInv, [ServicesNext]_all PROVE LimiterInv'
    OBVIOUS
  <2>1. [Limiter!Next]_limiterVars
    BY DEF ServicesNext, Still, all
  <2> QED BY <2>1, LimiterStep
<1>3. LimiterInv => LimitsHold
  <2> SUFFICES ASSUME LimiterInv PROVE LimitsHold
    OBVIOUS
  <2> USE LimiterParameters, LimiterCardinality
  <2>1. \A k : Limiter!PassedOn(k) = Passed(k)
    BY DEF Limiter!PassedOn, Limiter!Requests, Limiter!Rules, Passed, Asking
  <2>2. Limiter!WindowHolds
    <3> SUFFICES ASSUME NEW k \in Windows, NEW t \in 0 .. MaxTime
                 PROVE  Limiter!Cardinality({r \in Limiter!PassedOn(k) :
                          request[r].ran \in t .. (t + Interval - MaxDelay - 1)}) <= Limit[k]
      BY DEF Limiter!WindowHolds, Limiter!Keys, Windows
    <3>1. {r \in Limiter!PassedOn(k) : request[r].ran \in t .. (t + Interval - MaxDelay - 1)} = InWindow(k, t)
      BY <2>1 DEF InWindow
    <3>2. t \in Int /\ Cardinality(InWindow(k, t)) <= Limit[k]
      BY DEF LimiterInv
    <3> QED BY <3>1, <3>2
  <2>3. Limiter!TokensAreKept
    BY <2>1 DEF Limiter!TokensAreKept, Limiter!Keys, Windows, LimiterInv, BucketHolds
  <2> QED BY <2>2, <2>3 DEF LimitsHold, Limiter!LimitsHold
<1> QED BY <1>1, <1>2, <1>3, PTL DEF ServicesSpec

-----------------------------------------------------------------------------
(* Interview schedules: what a client was told stays so                    *)

\* What was told of a schedule, next to the status it has.
AsTold(kept, said, excused) ==
  kept.status = said \/ (said = "PENDING" /\ kept.status = "CANCELLED" /\ (kept.time < hours \/ excused))

\* What a request has read of its schedule, and what it will say of it.
ReadHolds(r) ==
  /\ r.id \in DOMAIN told /\ r.reply \in Schedule!Statuses
  /\ "time" \in DOMAIN r.change => r.change["time"] \in Schedule!Times
  /\ "status" \in DOMAIN r.change => r.change["status"] = r.reply
  /\ ("status" \notin DOMAIN r.change /\ r.id \in DOMAIN schedule)
       => \/ schedule[r.id].status = r.reply
          \/ r.reply = "PENDING" /\ schedule[r.id].status = "CANCELLED" /\ r.late
  /\ r = [pc |-> r.pc, id |-> r.id, change |-> r.change, reply |-> r.reply, late |-> r.late]
  /\ r.late \in BOOLEAN

\* What makes Schedule!ToldIsKept inductive.
ScheduleInv ==
  /\ hours \in Nat
  /\ DOMAIN schedule \subseteq DOMAIN told
  /\ \A i \in DOMAIN schedule : schedule[i] \in Schedule!Row /\ AsTold(schedule[i], told[i], i \in late)
  /\ DOMAIN scheduleCall = {c1}
  /\ scheduleCall[c1].pc = "write" => ReadHolds(scheduleCall[c1])

\* No schedule, and nothing told.
LEMMA SchedulesStart == Schedule!Init => ScheduleInv
BY DEF Schedule!Init, Schedule!Idle, ScheduleInv

\* A request reads the row and works out what to change.
LEMMA ScheduleReads ==
  ASSUME ScheduleInv, NEW i,
         \/ \E t \in Schedule!Times : Schedule!Reads(c1, i, [time |-> t])
         \/ \E s \in Schedule!Statuses : Schedule!Reads(c1, i, [status |-> s])
  PROVE  ScheduleInv'
<1>1. i \in DOMAIN schedule /\ i \in DOMAIN told /\ UNCHANGED <<schedule, told, late, hours>>
  BY DEF Schedule!Reads, Schedule!Required, ScheduleInv
<1>2. schedule[i] \in Schedule!Row
  BY <1>1 DEF ScheduleInv
<1>3. ASSUME NEW t \in Schedule!Times, Schedule!Reads(c1, i, [time |-> t]) PROVE ScheduleInv'
  <2> DEFINE g == Schedule!Restrict([time |-> t], {f \in DOMAIN [time |-> t] : [time |-> t][f] # schedule[i][f]})
  <2>1. scheduleCall' = [scheduleCall EXCEPT ![c1] =
          [pc |-> "write", id |-> i, change |-> g, reply |-> schedule[i].status, late |-> FALSE]]
    BY <1>3 DEF Schedule!Reads
  <2>2. "status" \notin DOMAIN g /\ ("time" \in DOMAIN g => g["time"] = t)
    BY DEF Schedule!Restrict
  <2> HIDE DEF g
  <2>3. DOMAIN scheduleCall' = {c1}
        /\ scheduleCall'[c1] = [pc |-> "write", id |-> i, change |-> g, reply |-> schedule[i].status,
                                late |-> FALSE]
    BY <2>1 DEF ScheduleInv
  <2>4. ReadHolds(scheduleCall[c1])'
    BY <1>1, <1>2, <2>2, <2>3 DEF ReadHolds, Schedule!Row, Schedule!Times, Schedule!Statuses
  <2> QED BY <1>1, <2>3, <2>4 DEF ScheduleInv, AsTold
<1>4. ASSUME NEW s \in Schedule!Statuses, Schedule!Reads(c1, i, [status |-> s]) PROVE ScheduleInv'
  <2> DEFINE g == Schedule!Restrict([status |-> s], {f \in DOMAIN [status |-> s] : [status |-> s][f] # schedule[i][f]})
  <2>1. scheduleCall' = [scheduleCall EXCEPT ![c1] =
          [pc |-> "write", id |-> i, change |-> g, reply |-> s, late |-> FALSE]]
    BY <1>4 DEF Schedule!Reads
  <2>2. /\ "time" \notin DOMAIN g /\ ("status" \in DOMAIN g => g["status"] = s)
        /\ "status" \notin DOMAIN g => schedule[i].status = s
    BY <1>2 DEF Schedule!Restrict, Schedule!Row
  <2> HIDE DEF g
  <2>3. DOMAIN scheduleCall' = {c1}
        /\ scheduleCall'[c1] = [pc |-> "write", id |-> i, change |-> g, reply |-> s, late |-> FALSE]
    BY <2>1 DEF ScheduleInv
  <2>4. ReadHolds(scheduleCall[c1])'
    BY <1>1, <1>2, <2>2, <2>3 DEF ReadHolds
  <2> QED BY <1>1, <2>3, <2>4 DEF ScheduleInv, AsTold
<1> QED BY <1>3, <1>4

\* What is written, and said, is as it was read, or as it was asked for.
LEMMA ScheduleWrites == ASSUME ScheduleInv, Schedule!Write(c1) PROVE ScheduleInv'
<1> DEFINE r == scheduleCall[c1]
<1>1. r.pc = "write" /\ ReadHolds(r) /\ DOMAIN scheduleCall = {c1}
  BY DEF Schedule!Write, ScheduleInv
<1>2. scheduleCall' = [scheduleCall EXCEPT ![c1] = Schedule!Idle]
  BY DEF Schedule!Write
<1>3. DOMAIN scheduleCall' = {c1} /\ scheduleCall'[c1].pc = "idle"
  BY <1>1, <1>2 DEF Schedule!Idle
<1>4. CASE r.id \notin DOMAIN schedule
  BY <1>3, <1>4 DEF Schedule!Write, Schedule!Required, ScheduleInv, AsTold
<1>5. CASE r.id \in DOMAIN schedule
  <2> DEFINE new == [f \in DOMAIN schedule[r.id] |-> IF f \in DOMAIN r.change THEN r.change[f] ELSE schedule[r.id][f]]
  <2>1. /\ schedule' = [schedule EXCEPT ![r.id] = new] /\ told' = [told EXCEPT ![r.id] = r.reply]
        /\ late' = IF r.late THEN late \cup {r.id} ELSE late \ {r.id}
        /\ hours' = hours
    BY <1>5 DEF Schedule!Write, Schedule!Required
  <2>2. schedule[r.id] \in Schedule!Row
    BY <1>5 DEF ScheduleInv
  <2>3. new \in Schedule!Row
    BY <1>1, <2>2 DEF ReadHolds, Schedule!Row
  <2>4. new.status = r.reply \/ (r.reply = "PENDING" /\ new.status = "CANCELLED" /\ r.late)
    BY <1>1, <1>5, <2>2 DEF ReadHolds, Schedule!Row
  <2> HIDE DEF new
  <2>5. DOMAIN schedule' = DOMAIN schedule /\ DOMAIN told' = DOMAIN told
    BY <2>1
  <2>6. ASSUME NEW i \in DOMAIN schedule
        PROVE  schedule'[i] \in Schedule!Row /\ AsTold(schedule[i], told[i], i \in late)'
    <3>1. CASE i = r.id
      <4>1. schedule'[i] = new /\ told'[i] = r.reply
        BY <1>1, <2>1, <3>1 DEF ReadHolds
      <4>2. r.late => i \in late'
        BY <2>1, <3>1
      <4> QED BY <2>3, <2>4, <4>1, <4>2 DEF AsTold
    <3>2. CASE i # r.id
      <4>1. schedule'[i] = schedule[i] /\ told'[i] = told[i] /\ (i \in late <=> i \in late') /\ hours' = hours
        BY <2>1, <3>2
      <4>2. schedule[i] \in Schedule!Row /\ AsTold(schedule[i], told[i], i \in late)
        BY DEF ScheduleInv
      <4> QED BY <4>1, <4>2 DEF AsTold
    <3> QED BY <3>1, <3>2
  <2> QED BY <1>3, <2>1, <2>5, <2>6 DEF ScheduleInv
<1> QED BY <1>4, <1>5

\* Every step keeps it: a schedule that the job cancels was PENDING.
LEMMA ScheduleStep == ASSUME ScheduleInv, [Schedule!Next]_scheduleVars PROVE ScheduleInv'
<1>1. CASE Schedule!Create(c1)
  <2>1. PICK i \in Schedules \ DOMAIN told, t \in Schedule!Times :
          /\ schedule' = [j \in DOMAIN schedule \cup {i} |->
               IF j = i THEN [time |-> t, status |-> "PENDING"] ELSE schedule[j]]
          /\ told' = [j \in DOMAIN told \cup {i} |-> IF j = i THEN "PENDING" ELSE told[j]]
    BY <1>1 DEF Schedule!Create
  <2>2. i \notin DOMAIN schedule /\ DOMAIN schedule' = DOMAIN schedule \cup {i} /\ DOMAIN told' = DOMAIN told \cup {i}
    BY <2>1 DEF ScheduleInv
  <2>5. UNCHANGED <<hours, late>>
    BY <1>1 DEF Schedule!Create
  <2>3. \A j \in DOMAIN schedule' : schedule'[j] \in Schedule!Row /\ AsTold(schedule[j], told[j], j \in late)'
    BY <2>1, <2>2, <2>5 DEF ScheduleInv, Schedule!Row, Schedule!Statuses, AsTold
  <2>4. UNCHANGED scheduleCall /\ scheduleCall[c1].pc = "idle"
    BY <1>1 DEF Schedule!Create
  <2> QED BY <2>2, <2>3, <2>4, <2>5 DEF ScheduleInv
<1>2. CASE Schedule!Update(c1)
  BY <1>2, ScheduleReads DEF Schedule!Update
<1>3. CASE Schedule!UpdateStatus(c1)
  BY <1>3, ScheduleReads DEF Schedule!UpdateStatus
<1>4. CASE Schedule!Write(c1)
  BY <1>4, ScheduleWrites
<1>5. CASE Schedule!ReadForDelete(c1)
  <2>1. PICK i \in Schedules : scheduleCall' = [scheduleCall EXCEPT ![c1] = [pc |-> "delete", id |-> i]]
    BY <1>5 DEF Schedule!ReadForDelete
  <2>2. DOMAIN scheduleCall' = {c1} /\ scheduleCall'[c1].pc = "delete"
    BY <2>1 DEF ScheduleInv
  <2> QED BY <1>5, <2>2 DEF Schedule!ReadForDelete, ScheduleInv, AsTold
<1>6. CASE Schedule!Delete(c1)
  <2>1. DOMAIN scheduleCall' = {c1} /\ scheduleCall'[c1].pc = "idle" /\ UNCHANGED <<told, late, hours>>
    BY <1>6 DEF Schedule!Delete, Schedule!Idle, ScheduleInv
  <2>2. /\ DOMAIN schedule' \subseteq DOMAIN schedule
        /\ \A i \in DOMAIN schedule' : schedule'[i] = schedule[i]
    BY <1>6 DEF Schedule!Delete, Schedule!Restrict
  <2> QED BY <2>1, <2>2 DEF ScheduleInv, AsTold
<1>7. CASE Schedule!ExpirePending
  <2>1. DOMAIN schedule' = DOMAIN schedule /\ UNCHANGED <<told, late, hours>>
    BY <1>7 DEF Schedule!ExpirePending
  <2>2. ASSUME NEW i \in DOMAIN schedule
        PROVE  /\ schedule'[i] \in Schedule!Row
               /\ AsTold(schedule[i], told[i], i \in late)'
    <3>1. schedule'[i] = IF Schedule!Missed(i) THEN [schedule[i] EXCEPT !.status = "CANCELLED"] ELSE schedule[i]
      BY <1>7 DEF Schedule!ExpirePending
    <3>2. schedule[i] \in Schedule!Row
      BY DEF ScheduleInv
    <3>3. Schedule!Missed(i) => schedule[i].status = "PENDING" /\ schedule[i].time < hours
      BY DEF Schedule!Missed
    <3>4. AsTold(schedule[i], told[i], i \in late)
      BY DEF ScheduleInv
    <3> QED BY <2>1, <3>1, <3>2, <3>3, <3>4 DEF AsTold, Schedule!Row, Schedule!Statuses
  <2> DEFINE r == scheduleCall[c1]
             q == scheduleCall'[c1]
  <2>3. scheduleCall' = [c \in DOMAIN scheduleCall |->
          IF scheduleCall[c].pc = "write" /\ Schedule!Required(scheduleCall[c].id)
             /\ Schedule!Missed(scheduleCall[c].id)
          THEN [scheduleCall[c] EXCEPT !.late = TRUE] ELSE scheduleCall[c]]
    BY <1>7 DEF Schedule!ExpirePending
  <2>4. DOMAIN scheduleCall' = {c1}
        /\ q = IF r.pc = "write" /\ Schedule!Required(r.id) /\ Schedule!Missed(r.id)
               THEN [r EXCEPT !.late = TRUE] ELSE r
    BY <2>3 DEF ScheduleInv
  <2> HIDE DEF q
  <2>5. ASSUME q.pc = "write" PROVE ReadHolds(scheduleCall[c1])'
    <3>1. r.pc = "write" /\ ReadHolds(r)
      BY <2>4, <2>5 DEF ScheduleInv
    <3>2. q.id = r.id /\ q.reply = r.reply /\ q.change = r.change /\ q.late \in BOOLEAN
      BY <2>4, <2>5, <3>1 DEF ReadHolds
    <3>3. ASSUME "status" \notin DOMAIN r.change, r.id \in DOMAIN schedule
          PROVE  \/ schedule'[r.id].status = r.reply
                 \/ r.reply = "PENDING" /\ schedule'[r.id].status = "CANCELLED" /\ q.late
      <4>1. schedule'[r.id] = IF Schedule!Missed(r.id)
                              THEN [schedule[r.id] EXCEPT !.status = "CANCELLED"] ELSE schedule[r.id]
        BY <1>7, <3>3 DEF Schedule!ExpirePending
      <4>2. schedule[r.id] \in Schedule!Row
        BY <3>3 DEF ScheduleInv
      <4>3. CASE Schedule!Missed(r.id)
        <5>1. schedule[r.id].status = "PENDING" /\ schedule'[r.id].status = "CANCELLED" /\ q.late
          BY <2>4, <3>1, <3>3, <4>1, <4>2, <4>3 DEF Schedule!Missed, Schedule!Required, Schedule!Row, ReadHolds
        <5> QED BY <3>1, <3>3, <5>1 DEF ReadHolds
      <4>4. CASE ~Schedule!Missed(r.id)
        <5>1. schedule'[r.id] = schedule[r.id] /\ q = r
          BY <2>4, <4>1, <4>4
        <5> QED BY <3>1, <3>3, <5>1 DEF ReadHolds
      <4> QED BY <4>3, <4>4
    <3>4. q = [pc |-> q.pc, id |-> q.id, change |-> q.change, reply |-> q.reply, late |-> q.late]
      BY <2>4, <3>1 DEF ReadHolds
    <3>5. r.id \in DOMAIN told /\ r.reply \in Schedule!Statuses
          /\ ("time" \in DOMAIN r.change => r.change["time"] \in Schedule!Times)
          /\ ("status" \in DOMAIN r.change => r.change["status"] = r.reply)
      BY <3>1 DEF ReadHolds
    <3> QED BY <2>1, <3>2, <3>3, <3>4, <3>5 DEF ReadHolds, q
  <2> QED BY <2>1, <2>2, <2>4, <2>5 DEF ScheduleInv, q
<1>8. CASE UNCHANGED <<schedule, told, late, scheduleCall>> /\ hours' \in {hours, hours + 1}
  <2>1. hours \in Nat /\ hours' \in Nat
    BY <1>8 DEF ScheduleInv
  <2>2. ASSUME NEW i \in DOMAIN schedule PROVE AsTold(schedule[i], told[i], i \in late)'
    <3>1. schedule[i].time \in Int /\ AsTold(schedule[i], told[i], i \in late)
      BY DEF ScheduleInv, Schedule!Row, Schedule!Times
    <3>2. schedule[i].time < hours => schedule[i].time < hours'
      BY <1>8, <2>1, <3>1
    <3> QED BY <1>8, <3>1, <3>2 DEF AsTold
  <2> QED BY <1>8, <2>1, <2>2 DEF ScheduleInv, ReadHolds
<1>9. Schedule!Tick \/ UNCHANGED scheduleVars =>
        UNCHANGED <<schedule, told, late, scheduleCall>> /\ hours' \in {hours, hours + 1}
  BY DEF Schedule!Tick, scheduleVars
<1> QED BY <1>1, <1>2, <1>3, <1>4, <1>5, <1>6, <1>7, <1>8, <1>9 DEF Schedule!Next

\* The schedules' variables change by the schedules' steps.
LEMMA OnlySchedules == ServicesNext => [Schedule!Next]_scheduleVars
BY DEF ServicesNext, Still

\* With one request at a time, what a client was told of a schedule is what the
\* row says; or it was told PENDING of one that the job cancelled, whose time is
\* past or of which the job overtook the edit between its read and its write
\* (update, update_status, expire_pending).
THEOREM SchedulesAreAsTold == ServicesSpec => []SchedulesHold
<1>1. ServicesInit => ScheduleInv
  BY SchedulesStart DEF ServicesInit
<1>2. ScheduleInv /\ [ServicesNext]_all => ScheduleInv'
  BY OnlySchedules, ScheduleStep DEF all
<1>3. ScheduleInv => SchedulesHold
  BY DEF ScheduleInv, SchedulesHold, Schedule!ToldIsKept, AsTold
<1> QED BY <1>1, <1>2, <1>3, PTL DEF ServicesSpec

-----------------------------------------------------------------------------
(* A start: a process that runs has what it needs                          *)

\* Who holds the bootstrap lock is in its transaction, and has read the seeds
\* as they are; the steps of a start tell what is there already.
StartShape ==
  /\ s3Bucket \in BOOLEAN /\ seeds \in Start!Rows /\ owner \in Start!Rows
  /\ seeding \in Processes \cup {None}
  /\ process \in [Processes -> [pc: {"down", "bucket", "create", "lock", "count", "seed",
                                     "defaults", "insert", "run"}, read: Start!Rows]]

\* What process p has come to rests on what is there.
Started(p) ==
  /\ process[p].pc \in {"count", "seed"} <=> seeding = p
  /\ process[p].pc = "seed" => process[p].read = seeds
  /\ process[p].pc \in {"lock", "count", "seed", "defaults", "insert", "run"} => s3Bucket = TRUE
  /\ process[p].pc \in {"defaults", "insert", "run"} => seeds = Start!Full
  /\ process[p].pc = "insert" => process[p].read.setting = TRUE
  /\ process[p].pc = "run" => owner = Start!Full

\* What makes Start!StartsHold inductive.
StartInv ==
  /\ StartShape /\ owner.setting = TRUE
  /\ \A p \in Processes : Started(p) /\ <<p, "seed">> \notin collided
  /\ collided # {} => owner = Start!Full

\* Every process is down; what it will find may be there or not.
LEMMA ProcessesBegin == Start!Init => StartInv
<1> SUFFICES ASSUME Start!Init PROVE StartInv
  OBVIOUS
<1> USE ServicesAssumption DEF Start!StartAssumption, Start!Init, Start!Nothing, Start!Full, Start!Rows
<1>1. StartShape
  <2>1. /\ Start!Full \in Start!Rows /\ Start!Nothing \in Start!Rows
        /\ [Start!Full EXCEPT !.provider = FALSE] \in Start!Rows
    OBVIOUS
  <2>2. s3Bucket \in BOOLEAN /\ seeds \in Start!Rows /\ owner \in Start!Rows
    BY <2>1
  <2> QED BY <2>1, <2>2 DEF StartShape
<1>2. owner.setting = TRUE
  OBVIOUS
<1>3. ASSUME NEW p \in Processes PROVE Started(p)
  <2>1. process[p].pc = "down" /\ seeding # p
    OBVIOUS
  <2> QED BY <2>1 DEF Started
<1> QED BY <1>1, <1>2, <1>3 DEF StartInv

\* No step of one process undoes what another one has reached.
\* What is there stays, and a process that does not step keeps the lock.
Builds(p) ==
  /\ \A q \in Processes \ {p} : process'[q] = process[q]
  /\ s3Bucket = TRUE => s3Bucket' = TRUE
  /\ owner = Start!Full => owner' = Start!Full
  /\ seeds' = seeds \/ (seeding = p /\ seeds' = Start!Full)
  /\ \/ seeding' = seeding
     \/ seeding = None /\ seeding' = p
     \/ seeding = p /\ seeding' = None

\* What the other processes have come to stays so.
LEMMA OthersStand ==
  ASSUME StartInv, NEW p \in Processes, Builds(p), NEW q \in Processes \ {p}
  PROVE  Started(q)'
<1>1. Started(q) /\ Started(p) /\ None \notin Processes
  BY ServicesAssumption DEF StartInv, Start!StartAssumption
<1>2. process'[q] = process[q] /\ (seeding' = q <=> seeding = q)
  BY <1>1 DEF Builds
<1>3. process[q].pc = "seed" => seeds' = seeds
  BY <1>1 DEF Builds, Started
<1>4. seeds = Start!Full => seeds' = Start!Full
  BY DEF Builds
<1> QED BY <1>1, <1>2, <1>3, <1>4 DEF Builds, Started

\* The steps of a process that starts.
LEMMA StartStep ==
  ASSUME StartInv, [Start!Next]_startVars
  PROVE  StartInv'
<1> DEFINE Same == UNCHANGED <<s3Bucket, seeds, owner, seeding, collided>>
<1>0. /\ StartShape /\ owner.setting = TRUE /\ None \notin Processes
      /\ \A p \in Processes : Started(p) /\ <<p, "seed">> \notin collided
      /\ collided # {} => owner = Start!Full
      /\ \A p \in Processes : process[p].read \in Start!Rows
  BY ServicesAssumption DEF StartInv, StartShape, Start!StartAssumption
<1>1. ASSUME NEW p \in Processes, Start!Begin(p) \/ Start!HeadBucket(p) PROVE StartInv'
  <2>1. Same /\ StartShape' /\ Builds(p)
    BY <1>0, <1>1 DEF Start!Begin, Start!HeadBucket, Start!Moves, StartShape, Builds
  <2>2. Started(p)'
    <3>1. /\ process[p].pc \in {"down", "bucket"} /\ process'[p].pc \in {"bucket", "create", "lock"}
          /\ process'[p].pc = "lock" => s3Bucket = TRUE
      BY <1>0, <1>1 DEF Start!Begin, Start!HeadBucket, Start!Moves, Start!At, StartShape
    <3> QED BY <1>0, <2>1, <3>1 DEF Started
  <2> QED BY <1>0, <2>1, <2>2, OthersStand DEF StartInv
<1>2. ASSUME NEW p \in Processes, Start!CreateBucket(p) PROVE StartInv'
  <2>1. UNCHANGED <<seeds, owner, seeding, collided>> /\ StartShape' /\ Builds(p)
    BY <1>0, <1>2 DEF Start!CreateBucket, Start!Moves, StartShape, Builds
  <2>2. Started(p)'
    BY <1>0, <1>2 DEF Start!CreateBucket, Start!Moves, Start!At, StartShape, Started
  <2> QED BY <1>0, <2>1, <2>2, OthersStand DEF StartInv
<1>3. ASSUME NEW p \in Processes, Start!TakeLock(p) PROVE StartInv'
  <2>1. UNCHANGED <<s3Bucket, seeds, owner, collided>> /\ StartShape' /\ Builds(p)
    BY <1>0, <1>3 DEF Start!TakeLock, Start!Moves, StartShape, Builds
  <2>2. Started(p)'
    BY <1>0, <1>3 DEF Start!TakeLock, Start!Moves, Start!At, StartShape, Started
  <2> QED BY <1>0, <2>1, <2>2, OthersStand DEF StartInv
<1>4. ASSUME NEW p \in Processes, Start!CountSeeds(p) \/ Start!ReadDefaults(p) PROVE StartInv'
  <2>1. Same /\ StartShape' /\ Builds(p)
    BY <1>0, <1>4 DEF Start!CountSeeds, Start!ReadDefaults, Start!Reads, StartShape, Builds
  <2>2. Started(p)'
    <3>1. CASE Start!CountSeeds(p)
      <4>1. process[p].pc = "count" /\ process'[p].pc = "seed" /\ process'[p].read = seeds
        BY <1>0, <3>1 DEF Start!CountSeeds, Start!Reads, Start!At, StartShape
      <4> QED BY <1>0, <2>1, <4>1 DEF Started
    <3>2. CASE Start!ReadDefaults(p)
      <4>1. process[p].pc = "defaults" /\ process'[p].pc = "insert" /\ process'[p].read = owner
        BY <1>0, <3>2 DEF Start!ReadDefaults, Start!Reads, Start!At, StartShape
      <4> QED BY <1>0, <2>1, <4>1 DEF Started
    <3> QED BY <1>4, <3>1, <3>2
  <2> QED BY <1>0, <2>1, <2>2, OthersStand DEF StartInv
<1>5. ASSUME NEW p \in Processes, Start!Seed(p) PROVE StartInv'
  <2>1. process[p].read = seeds /\ seeding = p /\ s3Bucket = TRUE /\ process[p].pc = "seed"
    BY <1>0, <1>5 DEF Start!Seed, Start!At, Started
  <2>2. ~Start!Collides(p, seeds)
    BY <2>1 DEF Start!Collides
  <2>3. /\ seeds' = Start!Full /\ seeding' = None /\ Start!Moves(p, "defaults")
        /\ UNCHANGED <<s3Bucket, owner, collided>>
    BY <1>5, <2>1, <2>2 DEF Start!Seed, Start!Unlocked
  <2>4. StartShape' /\ Builds(p)
    BY <1>0, <2>1, <2>3 DEF Start!Moves, StartShape, Builds, Start!Full, Start!Rows
  <2>5. Started(p)'
    BY <1>0, <2>1, <2>3 DEF Start!Moves, StartShape, Started
  <2> QED BY <1>0, <2>3, <2>4, <2>5, OthersStand DEF StartInv
<1>6. ASSUME NEW p \in Processes, Start!InsertDefaults(p) PROVE StartInv'
  <2>1. /\ process[p].pc = "insert" /\ process[p].read.setting = TRUE /\ process[p].read \in Start!Rows
        /\ s3Bucket = TRUE /\ seeds = Start!Full /\ seeding # p
    BY <1>0, <1>6 DEF Start!InsertDefaults, Start!At, Started
  <2>2. CASE Start!Collides(p, owner)
    <3>1. owner.provider = TRUE
      BY <1>0, <2>1, <2>2 DEF Start!Collides, StartShape, Start!Rows
    <3>2. owner = Start!Full
      BY <1>0, <3>1 DEF StartShape, Start!Rows, Start!Full
    <3>3. /\ Start!Moves(p, "down") /\ collided' = collided \cup {<<p, "insert">>}
          /\ UNCHANGED <<s3Bucket, seeds, seeding, owner>>
      BY <1>6, <2>2 DEF Start!InsertDefaults
    <3>4. StartShape' /\ Builds(p) /\ Started(p)'
      BY <1>0, <2>1, <3>3 DEF Start!Moves, StartShape, Builds, Started
    <3>5. \A q \in Processes : <<q, "seed">> \notin collided'
      BY <1>0, <3>3
    <3> QED BY <1>0, <3>2, <3>3, <3>4, <3>5, OthersStand DEF StartInv
  <2>3. CASE ~Start!Collides(p, owner)
    <3>1. /\ Start!Moves(p, "run") /\ owner' = Start!Full
          /\ UNCHANGED <<s3Bucket, seeds, seeding, collided>>
      BY <1>6, <2>3 DEF Start!InsertDefaults
    <3>2. StartShape' /\ Builds(p) /\ Started(p)' /\ owner'.setting = TRUE
      BY <1>0, <2>1, <3>1 DEF Start!Moves, StartShape, Builds, Started, Start!Full, Start!Rows
    <3> QED BY <1>0, <3>1, <3>2, OthersStand DEF StartInv
  <2> QED BY <2>2, <2>3
<1>7. ASSUME NEW p \in Processes, Start!Fails(p) PROVE StartInv'
  <2>1. UNCHANGED <<s3Bucket, seeds, owner, collided>> /\ StartShape' /\ Builds(p)
    BY <1>0, <1>7 DEF Start!Fails, Start!Moves, Start!Unlocked, StartShape, Builds
  <2>2. Started(p)'
    BY <1>0, <1>7 DEF Start!Fails, Start!Moves, Start!Unlocked, Start!At, StartShape, Started
  <2> QED BY <1>0, <2>1, <2>2, OthersStand DEF StartInv
<1>8. CASE UNCHANGED startVars
  BY <1>0, <1>8 DEF startVars, StartInv, StartShape, Started
<1> QED BY <1>1, <1>2, <1>3, <1>4, <1>5, <1>6, <1>7, <1>8 DEF Start!Next, Start!Step

\* A process that runs has what it needs.
LEMMA RunHasAll == StartInv => Start!StartsHold
BY DEF StartInv, Started, Start!StartsHold, Start!At

-----------------------------------------------------------------------------
(* The end of a worker: no blocking call is left alone                     *)

\* A consumer that handles a message, or waits for a call, has one.
HasMessage == \A t \in Consumers : consumer[t].does \in {"handle", "wait"} => consumer[t].left > 0

\* Once the process closes, no consumer is left that could submit.
ClosedIsOver == stage # "run" => \A t \in Consumers : Process!Does(t, "over")

\* A call in the queue is waited for by the consumer that submitted it.
Waited == \A c \in Process!Queued : \E t \in Consumers : Process!Does(t, "wait") /\ consumer[t].call = c

\* What makes Process!CallsAreWaitedFor inductive.
ProcessInv == Process!TypeOK /\ HasMessage /\ ClosedIsOver /\ Waited

\* The invariant holds in the initial states.
LEMMA ProcessRuns == Process!Init => ProcessInv
<1> USE ServicesAssumption DEF Process!ProcessAssumption
<1> SUFFICES ASSUME Process!Init PROVE ProcessInv
  OBVIOUS
<1>1. Process!TypeOK
  <2>1. 0 \in 0 .. ReadBatch /\ called \in 0 .. MaxCalls
    BY DEF Process!Init
  <2>2. consumer \in [Consumers -> [does: {"read", "handle", "wait", "unwind", "over"},
                               left: 0 .. ReadBatch, call: Process!BlockingCalls \cup {None}]]
    BY <2>1 DEF Process!Init
  <2> QED BY <2>1, <2>2 DEF Process!Init, Process!TypeOK
<1>2. HasMessage /\ ClosedIsOver
  BY DEF Process!Init, HasMessage, ClosedIsOver
<1>3. Waited
  BY DEF Process!Init, Waited, Process!Queued
<1> QED BY <1>1, <1>2, <1>3 DEF ProcessInv

\* The type of each variable, and who has a message, after every step.
LEMMA ProcessTypesStep ==
  ASSUME ProcessInv, [Process!Next]_processVars
  PROVE  Process!TypeOK' /\ HasMessage'
<1> USE ServicesAssumption DEF Process!ProcessAssumption, ProcessInv, Process!TypeOK, HasMessage, Process!BlockingCalls
<1>1. CASE Process!Signal BY <1>1 DEF Process!Signal
<1>2. CASE Process!ThreadTakes BY <1>2 DEF Process!ThreadTakes, Process!Queued
<1>3. CASE Process!Close BY <1>3 DEF Process!Close
<1>4. CASE Process!Exit BY <1>4 DEF Process!Exit
<1>5. ASSUME NEW t \in Consumers, Process!Submit(t) PROVE Process!TypeOK' /\ HasMessage'
  <2>1. called + 1 \in 1 .. MaxCalls
    BY <1>5 DEF Process!Submit
  <2>2. consumer'[t] = [consumer[t] EXCEPT !.does = "wait", !.call = called + 1]
    BY <1>5 DEF Process!Submit
  <2>3. consumer' = [consumer EXCEPT ![t] = consumer'[t]]
    BY <1>5 DEF Process!Submit
  <2>4. consumer[t].does = "handle"
    BY <1>5 DEF Process!Submit, Process!Does
  <2> QED BY <1>5, <2>1, <2>2, <2>3, <2>4 DEF Process!Submit
<1>6. ASSUME NEW t \in Consumers, Process!TimesOut(t) PROVE Process!TypeOK' /\ HasMessage'
  BY <1>6 DEF Process!TimesOut, Process!Does, Process!Goes, Process!Cancelled
<1>7. ASSUME NEW t \in Consumers, Process!Raises(t) PROVE Process!TypeOK' /\ HasMessage'
  BY <1>7 DEF Process!Raises, Process!Does, Process!Goes
<1>8. ASSUME NEW t \in Consumers, Process!Read(t) PROVE Process!TypeOK' /\ HasMessage'
  BY <1>8 DEF Process!Read, Process!Does, Process!Goes
<1>9. ASSUME NEW t \in Consumers, Process!Handled(t) PROVE Process!TypeOK' /\ HasMessage'
  BY <1>9 DEF Process!Handled, Process!Does
<1>10. ASSUME NEW t \in Consumers, Process!Cancel(t) PROVE Process!TypeOK' /\ HasMessage'
  BY <1>10 DEF Process!Cancel, Process!Does, Process!Goes, Process!Cancelled
<1>11. ASSUME NEW t \in Consumers, Process!Unwinds(t) PROVE Process!TypeOK' /\ HasMessage'
  BY <1>11 DEF Process!Unwinds, Process!Does, Process!Goes
<1>12. ASSUME NEW c \in Process!BlockingCalls, Process!ThreadEnds(c) PROVE Process!TypeOK' /\ HasMessage'
  BY <1>12 DEF Process!ThreadEnds, Process!Does
<1>13. CASE UNCHANGED processVars BY <1>13 DEF processVars
<1> QED BY <1>1, <1>2, <1>3, <1>4, <1>5, <1>6, <1>7, <1>8, <1>9, <1>10, <1>11, <1>12, <1>13
        DEF Process!Next, Process!ProcessStep, Process!ConsumerStep

\* A queued call keeps a consumer that waits for it: whoever leaves its call
\* takes it out of the queue.
LEMMA WaitedStep ==
  ASSUME ProcessInv, [Process!Next]_processVars
  PROVE  Waited'
<1> USE ServicesAssumption DEF Process!ProcessAssumption, ProcessInv, Process!TypeOK, Waited, Process!Queued, Process!BlockingCalls
<1>1. CASE Process!Signal BY <1>1 DEF Process!Signal, Process!Does
<1>2. CASE Process!ThreadTakes BY <1>2 DEF Process!ThreadTakes, Process!Does
<1>3. CASE Process!Close BY <1>3 DEF Process!Close, Process!Does
<1>4. CASE Process!Exit BY <1>4 DEF Process!Exit, Process!Does
<1>5. ASSUME NEW t \in Consumers, Process!Submit(t) PROVE Waited'
  <2> SUFFICES ASSUME NEW c \in Process!BlockingCalls, blocking'[c] = "queued"
               PROVE  \E u \in Consumers : consumer'[u].does = "wait" /\ consumer'[u].call = c
    BY DEF Process!Does
  <2>1. CASE c = called + 1
    BY <1>5, <2>1 DEF Process!Submit, Process!Does
  <2>2. CASE c # called + 1
    BY <1>5, <2>2 DEF Process!Submit, Process!Does
  <2> QED BY <2>1, <2>2
<1>6. ASSUME NEW t \in Consumers, Process!Does(t, "wait"), blocking' = Process!Cancelled(consumer[t].call),
             \A u \in Consumers \ {t} : consumer'[u] = consumer[u]
      PROVE  Waited'
  <2> SUFFICES ASSUME NEW c \in Process!BlockingCalls, blocking'[c] = "queued"
               PROVE  \E u \in Consumers : consumer'[u].does = "wait" /\ consumer'[u].call = c
    BY DEF Process!Does
  <2>1. blocking[c] = "queued" /\ c # consumer[t].call
    BY <1>6 DEF Process!Cancelled
  <2> QED BY <1>6, <2>1 DEF Process!Does
<1>7. ASSUME NEW t \in Consumers, ~Process!Does(t, "wait"), UNCHANGED blocking,
             \A u \in Consumers \ {t} : consumer'[u] = consumer[u]
      PROVE  Waited'
  BY <1>7 DEF Process!Does
<1>8. ASSUME NEW t \in Consumers, Process!TimesOut(t) PROVE Waited'
  BY <1>6, <1>8 DEF Process!TimesOut, Process!Goes
<1>9. ASSUME NEW t \in Consumers, Process!Raises(t) PROVE Waited'
  BY <1>7, <1>9 DEF Process!Raises, Process!Goes, Process!Does
<1>10. ASSUME NEW t \in Consumers, Process!Read(t) PROVE Waited'
  <2>1. \A u \in Consumers \ {t} : consumer'[u] = consumer[u]
    BY <1>10 DEF Process!Read, Process!Goes
  <2> QED BY <1>7, <1>10, <2>1 DEF Process!Read, Process!Does
<1>11. ASSUME NEW t \in Consumers, Process!Handled(t) PROVE Waited'
  BY <1>7, <1>11 DEF Process!Handled, Process!Does
<1>12. ASSUME NEW t \in Consumers, Process!Cancel(t) PROVE Waited'
  <2>1. CASE Process!Does(t, "wait") BY <1>6, <1>12, <2>1 DEF Process!Cancel, Process!Goes
  <2>2. CASE ~Process!Does(t, "wait") BY <1>7, <1>12, <2>2 DEF Process!Cancel, Process!Goes
  <2> QED BY <2>1, <2>2
<1>13. ASSUME NEW t \in Consumers, Process!Unwinds(t) PROVE Waited'
  BY <1>7, <1>13 DEF Process!Unwinds, Process!Goes, Process!Does
<1>14. ASSUME NEW c \in Process!BlockingCalls, Process!ThreadEnds(c) PROVE Waited'
  <2> SUFFICES ASSUME NEW d \in Process!BlockingCalls, blocking'[d] = "queued"
               PROVE  \E u \in Consumers : consumer'[u].does = "wait" /\ consumer'[u].call = d
    BY DEF Process!Does
  <2>1. blocking[d] = "queued" /\ d # c
    BY <1>14 DEF Process!ThreadEnds
  <2>2. PICK u \in Consumers : consumer[u].does = "wait" /\ consumer[u].call = d
    BY <2>1 DEF Process!Does
  <2>3. consumer'[u] = consumer[u]
    BY <1>14, <2>1, <2>2 DEF Process!ThreadEnds
  <2> QED BY <2>2, <2>3
<1>15. CASE UNCHANGED processVars BY <1>15 DEF processVars, Process!Does
<1> QED BY <1>1, <1>2, <1>3, <1>4, <1>5, <1>8, <1>9, <1>10, <1>11, <1>12, <1>13, <1>14, <1>15
        DEF Process!Next, Process!ProcessStep, Process!ConsumerStep

\* No consumer comes back once all are over.
LEMMA OverStep ==
  ASSUME ProcessInv, [Process!Next]_processVars
  PROVE  ClosedIsOver'
<1>1. CASE stage = "run"
  <2>1. CASE Process!Close BY <1>1, <2>1 DEF Process!Close, ClosedIsOver, Process!Does
  <2>2. CASE ~Process!Close BY <1>1, <2>2 DEF Process!Next, processVars, ClosedIsOver, Process!ProcessStep, Process!ConsumerStep, Process!Signal,
          Process!ThreadTakes, Process!Exit, Process!Submit, Process!TimesOut, Process!Raises, Process!Read, Process!Handled, Process!Cancel, Process!Unwinds, Process!ThreadEnds
  <2> QED BY <2>1, <2>2
<1>2. CASE stage # "run"
  <2>1. \A t \in Consumers : Process!Does(t, "over")
    BY <1>2 DEF ProcessInv, ClosedIsOver
  <2>2. \A t \in Consumers : ~(Process!Submit(t) \/ Process!TimesOut(t) \/ Process!Raises(t) \/ Process!ConsumerStep(t))
    BY <2>1 DEF Process!Submit, Process!TimesOut, Process!Raises, Process!ConsumerStep, Process!Read, Process!Handled, Process!Cancel, Process!Unwinds, Process!Does
  <2>3. CASE \E c \in Process!BlockingCalls : Process!ThreadEnds(c)
    BY <2>1, <2>3 DEF Process!ThreadEnds, ClosedIsOver, Process!Does, ProcessInv, Process!TypeOK
  <2>4. CASE UNCHANGED consumer
    BY <2>1, <2>4 DEF ClosedIsOver, Process!Does
  <2> QED BY <2>2, <2>3, <2>4 DEF Process!Next, processVars, Process!ProcessStep, Process!Signal, Process!ThreadTakes, Process!Close, Process!Exit
<1> QED BY <1>1, <1>2


\* What CallsAreWaitedFor says follows from who waits, and from the end.
LEMMA NoneIsOrphaned == ProcessInv => Process!CallsAreWaitedFor
<1> SUFFICES ASSUME ProcessInv, stage # "run" PROVE Process!Queued = {}
  BY DEF ProcessInv, Waited, Process!CallsAreWaitedFor
<1> QED BY DEF ProcessInv, Waited, ClosedIsOver, Process!Does

\* The start's variables change by its own steps.
LEMMA OnlyStarts == ServicesNext => [Start!Next]_startVars
BY DEF ServicesNext, Still

\* The worker's variables change by its own steps.
LEMMA OnlyProcesses == ServicesNext => [Process!Next]_processVars
BY DEF ServicesNext, Still

\* A process that runs has what a start provides, whatever processes started
\* with it, and no blocking call begins once its consumer gave up on it, nor
\* is one left queued by a worker that closes (bootstrap,
\* BlockingExecutor.run, RuntimeInfrastructure.close).
THEOREM ProcessesHold == ServicesSpec => []ProcessHolds
<1>1. ServicesInit => StartInv /\ ProcessInv
  BY ProcessesBegin, ProcessRuns DEF ServicesInit
<1>2. StartInv /\ [ServicesNext]_all => StartInv'
  BY OnlyStarts, StartStep DEF all
<1>3. ProcessInv /\ [ServicesNext]_all => ProcessInv'
  <2> SUFFICES ASSUME ProcessInv, [ServicesNext]_all PROVE ProcessInv'
    OBVIOUS
  <2>1. [Process!Next]_processVars
    BY OnlyProcesses DEF all
  <2> QED BY <2>1, ProcessTypesStep, WaitedStep, OverStep DEF ProcessInv
<1>4. StartInv /\ ProcessInv => ProcessHolds
  BY RunHasAll, NoneIsOrphaned DEF ProcessHolds
<1> QED BY <1>1, <1>2, <1>3, <1>4, PTL DEF ServicesSpec

-----------------------------------------------------------------------------
(* Interview planning: as many questions as there can be                   *)

\* A sequence of something.
IsSequence(s) == s \in Seq(Range(s))

\* The plan and the answers are sequences; a plan once made is full.
PlanInv ==
  /\ count \in Nat \ {0}
  /\ IsSequence(plan) /\ IsSequence(fromResume.questions) /\ IsSequence(direction.questions)
  /\ Plan!PlanIsFull

\* The questions of an answer, and the fixed ones, are sequences.
LEMMA AnsweredSequences ==
  ASSUME NEW n \in Int
  PROVE  /\ \A by : \A qs \in Plan!Answers(by, n) : IsSequence(qs)
         /\ IsSequence(Plan!Fixed(n)) /\ DOMAIN Plan!Fixed(n) = 1 .. n
<1>1. ASSUME NEW by, NEW k \in 0 .. n PROVE IsSequence([i \in 1 .. k |-> [by |-> by, n |-> i]])
  <2> DEFINE s == [i \in 1 .. k |-> [by |-> by, n |-> i]]
  <2>1. DOMAIN s = 1 .. k /\ s \in [1 .. k -> Range(s)] /\ k \in Nat
    BY DEF Range
  <2>2. IsSequence(s)
    <3> HIDE DEF s
    <3> QED BY <2>1, SeqDef DEF IsSequence
  <2> QED BY <2>2
<1>2. IsSequence(Plan!Fixed(n)) /\ DOMAIN Plan!Fixed(n) = 1 .. n
  <2> DEFINE s == [i \in 1 .. n |-> Plan!FixedText(i - 1)]
  <2>1. Plan!Fixed(n) = s
    BY DEF Plan!Fixed
  <2>2. DOMAIN s = 1 .. n /\ s \in [1 .. n -> Range(s)]
    BY DEF Range
  <2>3. \E k \in Nat : 1 .. n = 1 .. k
    <3>1. CASE n \in Nat BY <3>1
    <3>2. CASE n \notin Nat
      <4>1. 1 .. n = 1 .. 0
        BY <3>2
      <4> QED BY <4>1
    <3> QED BY <3>1, <3>2
  <2> HIDE DEF s
  <2>4. IsSequence(s)
    BY <2>2, <2>3, SeqDef DEF IsSequence
  <2> QED BY <2>1, <2>2, <2>4
<1> QED BY <1>1, <1>2 DEF Plan!Answers

\* What is added to a plan is what of the fixed questions is not in it.
LEMMA UnseenIs ==
  ASSUME NEW n \in Nat, NEW s, s \in [1 .. n -> Range(s)]
  PROVE  /\ Plan!Unseen(s) \in Seq(Range(s))
         /\ \A q \in Range(s) : q \in Range(plan) \/ q \in Range(Plan!Unseen(s))
<1> DEFINE at == {i \in 1 .. n : s[i] \notin Range(plan)}
           N == Cardinality(at)
           order == CHOOSE o \in [1 .. N -> at] : \A j, k \in DOMAIN o : j < k => o[j] < o[k]
           u == [k \in DOMAIN order |-> s[order[k]]]
<1>1. Plan!Unseen(s) = u
  BY DEF Plan!Unseen, Plan!Range, Range, Plan!Cardinality, Cardinality
<1>2. at \in SUBSET Nat /\ IsFiniteSet(at)
  <2>1. at \in SUBSET (1 .. n) /\ IsFiniteSet(1 .. n)
    BY FS_Interval
  <2>2. at \in SUBSET Nat
    OBVIOUS
  <2>3. IsFiniteSet(at)
    <3> HIDE DEF at
    <3> QED BY <2>1, FS_Subset
  <2> QED BY <2>2, <2>3
<1>3. Orders(order, at)
  <2> HIDE DEF at
  <2>1. PICK t : Orders(t, at)
    BY <1>2, OrderExists
  <2>2. t \in [1 .. N -> at] /\ \A j, k \in DOMAIN t : j < k => t[j] < t[k]
    BY <2>1 DEF Orders
  <2>3. order \in [1 .. N -> at] /\ \A j, k \in DOMAIN order : j < k => order[j] < order[k]
    BY <2>2
  <2> HIDE DEF order
  <2> QED BY <2>3 DEF Orders
<1>4. N \in Nat /\ \A i \in at : \E k \in 1 .. N : order[k] = i
  <2> HIDE DEF at, order
  <2> QED BY <1>2, <1>3, OrderHasAll
<1>5. DOMAIN order = 1 .. N /\ \A k \in 1 .. N : order[k] \in at
  BY <1>3 DEF Orders
<1>6. u \in [1 .. N -> Range(s)]
  <2> HIDE DEF order, N
  <2> QED BY <1>5
<1>7. u \in Seq(Range(s))
  <2> HIDE DEF u, N
  <2> QED BY <1>4, <1>6, SeqDef
<1>8. ASSUME NEW q \in Range(s), q \notin Range(plan) PROVE q \in Range(u)
  <2>1. PICK i \in 1 .. n : s[i] = q
    BY DEF Range
  <2>2. i \in at
    BY <1>8, <2>1
  <2>3. PICK k \in 1 .. N : order[k] = i
    BY <1>4, <2>2
  <2>4. k \in DOMAIN u /\ u[k] = q
    BY <1>5, <2>1, <2>3
  <2> HIDE DEF u
  <2> QED BY <2>4 DEF Range
<1> HIDE DEF u
<1> QED BY <1>1, <1>7, <1>8

\* Of two numbers the smaller.
LEMMA PlanSmaller == \A a, b \in Nat : Plan!Min({a, b}) = IF a =< b THEN a ELSE b
<1> SUFFICES ASSUME NEW a \in Nat, NEW b \in Nat PROVE Plan!Min({a, b}) = IF a =< b THEN a ELSE b
  OBVIOUS
<1> DEFINE m == IF a =< b THEN a ELSE b
<1>1. m \in {a, b} /\ \A y \in {a, b} : m =< y
  OBVIOUS
<1>2. \A x \in {a, b} : (\A y \in {a, b} : x =< y) => x = m
  OBVIOUS
<1> HIDE DEF m
<1>3. Plan!Min({a, b}) = m
  BY <1>1, <1>2 DEF Plan!Min
<1> QED BY <1>3 DEF m

\* Two sequences put together are one, of what is in either.
LEMMA Joined ==
  ASSUME NEW s, NEW t, IsSequence(s), IsSequence(t)
  PROVE  /\ IsSequence(s \o t) /\ Len(s \o t) = Len(s) + Len(t) /\ Len(s) \in Nat /\ Len(t) \in Nat
         /\ Range(s \o t) = Range(s) \cup Range(t)
<1> DEFINE U == Range(s) \cup Range(t)
<1>1. s \in Seq(U) /\ t \in Seq(U)
  BY SeqMonotonic DEF IsSequence
<1> HIDE DEF U
<1>2. s \o t \in Seq(U) /\ Len(s \o t) = Len(s) + Len(t) /\ Len(s) \in Nat /\ Len(t) \in Nat
  BY <1>1, ConcatProperties, LenProperties
<1>3. Range(s \o t) = Range(s) \cup Range(t)
  BY <1>1, RangeConcatenation
<1> QED BY <1>2, <1>3 DEF IsSequence, U

\* Topping up leaves as many questions as were asked for, or all there are.
LEMMA ToppedUp == ASSUME PlanInv, Plan!TopUp PROVE PlanInv'
<1> DEFINE fixed == Plan!Fixed(count)
           rest == Plan!Unseen(fixed)
           filled == IF Len(plan) < count THEN plan \o rest ELSE plan
           n == Len(filled)
<1>1. /\ plan' = SubSeq(filled, 1, Plan!Min({count, n}))
      /\ UNCHANGED <<count, fromResume, direction, categories>>
  BY DEF Plan!TopUp, Plan!Fillers
<1>2. count \in Nat /\ count >= 1 /\ IsSequence(plan) /\ Len(plan) \in Nat
  BY LenProperties DEF PlanInv, IsSequence
<1>3. fixed \in [1 .. count -> Range(fixed)] /\ DOMAIN fixed = 1 .. count
  <2>1. IsSequence(fixed) /\ DOMAIN fixed = 1 .. count
    BY <1>2, AnsweredSequences
  <2> HIDE DEF fixed
  <2> QED BY <2>1, LenProperties DEF IsSequence
<1>4. rest \in Seq(Range(fixed)) /\ IsSequence(rest)
      /\ \A q \in Range(fixed) : q \in Range(plan) \/ q \in Range(rest)
  <2>1. rest \in Seq(Range(fixed)) /\ \A q \in Range(fixed) : q \in Range(plan) \/ q \in Range(rest)
    <3> HIDE DEF fixed
    <3> QED BY <1>2, <1>3, UnseenIs
  <2>2. IsSequence(rest)
    <3> HIDE DEF rest
    <3> QED BY <2>1, RangeOfSeq, SeqOfRange DEF IsSequence
  <2> QED BY <2>1, <2>2
<1> HIDE DEF rest, fixed
<1>5. /\ IsSequence(filled) /\ n \in Nat /\ n >= 1
      /\ n < count => Range(fixed) \subseteq Range(filled)
  <2>1. CASE Len(plan) < count
    <3>1. filled = plan \o rest
      BY <2>1
    <3>2. IsSequence(filled) /\ n \in Nat /\ Range(filled) = Range(plan) \cup Range(rest)
      BY <1>2, <1>4, <3>1, Joined
    <3>3. Range(fixed) \subseteq Range(filled)
      BY <1>4, <3>2
    <3>4. fixed[1] \in Range(filled)
      <4>1. 1 \in DOMAIN fixed
        BY <1>2, <1>3
      <4>2. fixed[1] \in Range(fixed)
        BY <4>1 DEF Range
      <4> HIDE DEF filled
      <4> QED BY <3>3, <4>2
    <3>5. n # 0
      <4> HIDE DEF filled
      <4> SUFFICES ASSUME n = 0 PROVE FALSE
        OBVIOUS
      <4>1. DOMAIN filled = {}
        BY <3>2, LenProperties DEF IsSequence
      <4> QED BY <3>4, <4>1 DEF Range
    <3> QED BY <3>2, <3>3, <3>5
  <2>2. CASE ~(Len(plan) < count)
    BY <1>2, <2>2
  <2> QED BY <2>1, <2>2
<1> DEFINE m == Plan!Min({count, n})
<1>6. m = IF count =< n THEN count ELSE n
  BY <1>2, <1>5, PlanSmaller
<1> HIDE DEF filled, m
<1>7. /\ plan' \in Seq(Range(filled)) /\ Len(plan') = m /\ m \in 1 .. count
  <2>1. m \in 1 .. n /\ m \in 1 .. count /\ filled \in Seq(Range(filled))
    BY <1>2, <1>5, <1>6 DEF IsSequence
  <2>2. \A i \in 1 .. m : filled[i] \in Range(filled)
    BY <1>5, <2>1, LenProperties DEF Range
  <2>3. SubSeq(filled, 1, m) \in Seq(Range(filled)) /\ Len(SubSeq(filled, 1, m)) = m
    BY <2>1, <2>2, SubSeqProperties
  <2> QED BY <1>1, <2>1, <2>3 DEF m
<1>8. IsSequence(plan')
  BY <1>7, RangeOfSeq, SeqOfRange DEF IsSequence
<1>9. Len(plan') < count => plan' = filled
  <2>1. SUFFICES ASSUME Len(plan') < count PROVE plan' = filled
    OBVIOUS
  <2>2. m = n
    BY <1>2, <1>5, <1>6, <1>7, <2>1
  <2> QED BY <1>1, <1>5, <2>2, SubSeqFull DEF IsSequence, m
<1>10. Plan!PlanIsFull'
  <2>1. Plan!Range(Plan!Fixed(count))' = Range(fixed)
    BY <1>1 DEF Plan!Range, Range, fixed, Plan!Fixed, Plan!FixedText, Plan!GenericText
  <2>2. Len(plan') < count => Range(fixed) \subseteq Range(plan')
    BY <1>2, <1>5, <1>6, <1>7, <1>9
  <2>3. Plan!Range(plan)' = Range(plan')
    BY DEF Plan!Range, Range
  <2> QED BY <1>1, <1>7, <2>1, <2>2, <2>3 DEF Plan!PlanIsFull
<1> QED BY <1>1, <1>8, <1>10 DEF PlanInv

\* The empty sequence is one.
LEMMA NothingYet == IsSequence(<<>>)
BY EmptySeq DEF IsSequence

\* Planning begins with nothing.
LEMMA PlanBegins == ASSUME Plan!Init PROVE PlanInv
<1>1. count \in Nat \ {0}
  BY ServicesAssumption DEF Plan!PlanAssumption, Plan!Init
<1> QED BY <1>1, NothingYet DEF Plan!Init, PlanInv, Plan!Idle, Plan!Task, Plan!PlanIsFull

\* A call that ends leaves a sequence.
LEMMA CallsAnswer ==
  ASSUME PlanInv
  PROVE  /\ Plan!ResumeEnds => IsSequence(fromResume'.questions)
         /\ Plan!DirectionEnds => IsSequence(direction'.questions)
<1>1. Plan!ResumeCount \in Int /\ Plan!DirectionCount \in Int /\ count \in Int
  <2>1. \A k \in Nat : Plan!Max({1, k}) \in Int
    <3> TAKE k \in Nat
    <3> DEFINE m == IF k >= 1 THEN k ELSE 1
    <3>1. m \in {1, k} /\ \A y \in {1, k} : m >= y
      OBVIOUS
    <3> HIDE DEF m
    <3>2. Plan!Max({1, k}) \in {1, k}
      BY <3>1 DEF Plan!Max
    <3> QED BY <3>2
  <2>2. (6 * count + 5) \div 10 \in Nat
    BY DEF PlanInv
  <2> QED BY <2>1, <2>2 DEF Plan!ResumeCount, Plan!DirectionCount, PlanInv
<1>2. Plan!ResumeEnds => IsSequence(fromResume'.questions)
  BY <1>1, AnsweredSequences, NothingYet
     DEF Plan!ResumeEnds, Plan!ResumeOutcomes, Plan!Raised, Plan!Task
<1>3. Plan!DirectionEnds => IsSequence(direction'.questions)
  <2> DEFINE n == IF step = "alone" THEN count ELSE Plan!DirectionCount
  <2> SUFFICES ASSUME direction' \in Plan!DirectionOutcomes(n) PROVE IsSequence(direction'.questions)
    BY DEF Plan!DirectionEnds
  <2>1. n \in Int
    BY <1>1
  <2> HIDE DEF n
  <2> QED BY <2>1, AnsweredSequences, NothingYet
          DEF Plan!DirectionOutcomes, Plan!Raised, Plan!Task
<1> QED BY <1>2, <1>3

\* Every step keeps it.
LEMMA PlanStep == ASSUME PlanInv, [Plan!Next]_planVars PROVE PlanInv'
<1>0. ASSUME UNCHANGED <<count, categories, plan, step>> PROVE Plan!PlanIsFull' /\ IsSequence(plan)'
  <2>1. UNCHANGED <<Plan!Range(Plan!Fixed(count)), Plan!Range(plan), count, Len(plan), step>>
    BY <1>0 DEF Plan!Fixed, Plan!FixedText, Plan!GenericText, Plan!Range
  <2>2. Plan!PlanIsFull'
    BY <2>1 DEF PlanInv, Plan!PlanIsFull
  <2> QED BY <1>0, <2>2 DEF PlanInv, IsSequence, Range
<1>1. CASE UNCHANGED planVars
  BY <1>0, <1>1 DEF planVars, PlanInv, IsSequence, Range
<1>2. ASSUME UNCHANGED count, IsSequence(plan)', IsSequence(fromResume.questions)',
             IsSequence(direction.questions)', step' # "planned"
      PROVE  PlanInv'
  BY <1>2 DEF PlanInv, Plan!PlanIsFull
<1>3. ASSUME UNCHANGED <<count, step, categories, plan>>, IsSequence(fromResume.questions)',
             IsSequence(direction.questions)'
      PROVE  PlanInv'
  BY <1>0, <1>3 DEF PlanInv
<1>a. /\ direction' = Plan!Running => IsSequence(direction.questions)'
      /\ fromResume' = Plan!Running => IsSequence(fromResume.questions)'
  <2>1. Plan!Running.questions = <<>>
    BY DEF Plan!Running, Plan!Task
  <2>2. IsSequence(Plan!Running.questions)
    BY <2>1, NothingYet
  <2> QED BY <2>2 DEF IsSequence, Range
<1>4. CASE Plan!Resolve
  BY <1>2, <1>4 DEF Plan!Resolve, PlanInv, IsSequence, Range
<1>5. CASE Plan!Generate
  <2>1. UNCHANGED <<count, plan>> /\ step' # "planned" /\ IsSequence(plan)'
    BY <1>5 DEF Plan!Generate, PlanInv, IsSequence, Range
  <2>2. IsSequence(direction.questions)'
    BY <1>5, <1>a DEF Plan!Generate
  <2>3. IsSequence(fromResume.questions)'
    <3>1. CASE hasResume
      BY <1>5, <1>a, <3>1 DEF Plan!Generate
    <3>2. CASE ~hasResume
      BY <1>5, <3>2 DEF Plan!Generate, PlanInv, IsSequence, Range
    <3> QED BY <3>1, <3>2
  <2> QED BY <1>2, <2>1, <2>2, <2>3
<1>6. CASE Plan!NoProvider
  BY <1>2, <1>6 DEF Plan!NoProvider, PlanInv, IsSequence, Range
<1>7. CASE Plan!ResumeEnds
  <2>1. IsSequence(fromResume.questions)'
    BY <1>7, CallsAnswer DEF IsSequence, Range
  <2> QED BY <1>3, <1>7, <2>1 DEF Plan!ResumeEnds, PlanInv, IsSequence, Range
<1>8. CASE Plan!DirectionEnds
  <2>1. IsSequence(direction.questions)'
    BY <1>8, CallsAnswer DEF IsSequence, Range
  <2> QED BY <1>3, <1>8, <2>1 DEF Plan!DirectionEnds, PlanInv, IsSequence, Range
<1>9. CASE Plan!AwaitResume
  <2>1. UNCHANGED <<count, plan, fromResume>> /\ step' # "planned" /\ IsSequence(plan)'
        /\ IsSequence(fromResume.questions)'
    BY <1>9 DEF Plan!AwaitResume, PlanInv, IsSequence, Range
  <2>2. IsSequence(direction.questions)'
    <3>1. CASE fromResume = Plan!Raised
      BY <1>9, <1>a, <3>1 DEF Plan!AwaitResume
    <3>2. CASE fromResume # Plan!Raised
      BY <1>9, <3>2 DEF Plan!AwaitResume, PlanInv, IsSequence, Range
    <3> QED BY <3>1, <3>2
  <2> QED BY <1>2, <2>1, <2>2
<1>10. ASSUME NEW s, plan' = s, IsSequence(s) PROVE IsSequence(plan)'
  BY <1>10 DEF IsSequence, Range
<1>11. IsSequence(Plan!Fixed(count))
  BY AnsweredSequences DEF PlanInv
<1>12. CASE Plan!AwaitDirection
  <2>1. IsSequence(plan)' /\ step' # "planned"
    BY <1>10, <1>11, <1>12 DEF Plan!AwaitDirection, PlanInv
  <2> QED BY <1>2, <1>12, <2>1 DEF Plan!AwaitDirection, PlanInv, IsSequence, Range
<1>13. CASE Plan!AwaitAlone
  <2>1. IsSequence(plan)' /\ step' # "planned"
    BY <1>10, <1>13 DEF Plan!AwaitAlone, PlanInv
  <2> QED BY <1>2, <1>13, <2>1 DEF Plan!AwaitAlone, PlanInv, IsSequence, Range
<1>14. CASE Plan!Merge
  <2>1. IsSequence(fromResume.questions \o direction.questions)
    BY Joined DEF PlanInv
  <2>2. IsSequence(plan)' /\ step' # "planned"
    BY <1>10, <1>11, <1>14, <2>1 DEF Plan!Merge, PlanInv
  <2> QED BY <1>2, <1>14, <2>2 DEF Plan!Merge, PlanInv, IsSequence, Range
<1>15. CASE Plan!TopUp
  BY <1>15, ToppedUp
<1> QED BY <1>1, <1>4, <1>5, <1>6, <1>7, <1>8, <1>9, <1>12, <1>13, <1>14, <1>15 DEF Plan!Next

\* Planning's variables change by its own steps.
LEMMA OnlyPlans == ServicesNext => [Plan!Next]_planVars
BY DEF ServicesNext, Still

\* Whatever of the two model calls fails or answers little, for any number of
\* questions and any skill, an interview gets at least one question and at most
\* as many as asked for, and fewer only if every fixed question of its skill is
\* among them (generate, _merge_node).
THEOREM PlansAreFull == ServicesSpec => []PlanIsFull
<1>1. ServicesInit => PlanInv
  BY PlanBegins DEF ServicesInit
<1>2. PlanInv /\ [ServicesNext]_all => PlanInv'
  BY OnlyPlans, PlanStep DEF all
<1>3. PlanInv => PlanIsFull
  BY DEF PlanInv, PlanIsFull
<1> QED BY <1>1, <1>2, <1>3, PTL DEF ServicesSpec


-----------------------------------------------------------------------------
(* Question generation: its types, and one task at a time                  *)

\* The row names a task while, and only while, it has one.
RowIsNamed ==
  IF genStatus \in {"NONE", "DELETED"} THEN genTask = None ELSE genTask \in Tasks

\* Whoever is about to write for a task knows which.
CallsKnow == \A c \in Calls : call[c].pc # "idle" => call[c].task \in Tasks
JobKnows  == job.pc \in {"touch", "send", "unsent"} => job.task \in Tasks

IInv == TypeOK /\ RetriesFit /\ RowIsNamed /\ CallsKnow /\ JobKnows

\* The invariant holds in the initial states.
LEMMA GenerationStarts == Init => IInv
<1> SUFFICES ASSUME Init PROVE IInv
  OBVIOUS
<1>1. StreamInv
  BY StreamStarts DEF Init
<1>2. TypeOK /\ RetriesFit
  BY <1>1, GenerationAssumption DEF Init, IdleCall, IdleJob, TypeOK, StreamInv
<1> QED BY <1>2 DEF Init, IdleCall, IdleJob, IInv, RowIsNamed, CallsKnow, JobKnows

-----------------------------------------------------------------------------
(* What a step may do to the row                                           *)

Stays   == UNCHANGED <<genStatus, genTask, saved>>
Creates == /\ genStatus \in {"NONE", "COMPLETED", "FAILED"} /\ genStatus' = "QUEUED"
           /\ genTask' \in Tasks /\ genTask' # genTask /\ UNCHANGED saved
Moves   == /\ genStatus \in {"QUEUED", "PROCESSING"} /\ genStatus' \in {"QUEUED", "PROCESSING"}
           /\ UNCHANGED <<genTask, saved>>
Ends    == /\ genStatus = "PROCESSING" /\ genStatus' = "COMPLETED"
           /\ saved' = genTask /\ UNCHANGED genTask
Breaks  == /\ genStatus \in {"QUEUED", "PROCESSING", "FAILED"} /\ genStatus' = "FAILED"
           /\ UNCHANGED <<genTask, saved>>
Removes == genStatus # "DELETED" /\ genStatus' = "DELETED" /\ genTask' = None /\ saved' = None

RowStep == Stays \/ Creates \/ Moves \/ Ends \/ Breaks \/ Removes

\* The types of the row's columns.
RowTypes ==
  /\ genStatus \in {"NONE", "QUEUED", "PROCESSING", "COMPLETED", "FAILED", "DELETED"}
  /\ genTask \in Tasks \cup {None}
  /\ saved \in Tasks \cup {None}
  /\ age \in 0 .. 2
  /\ ageAtScan \in 0 .. age

AgesFit == age \in 0 .. 2 /\ ageAtScan \in 0 .. age

\* mark_failed ends only a task that is asked for, or has failed before.
LEMMA MarkFailedMoves ==
  ASSUME IInv, NEW t \in Tasks, MarkFailedRow(t)
  PROVE  (Stays \/ Breaks) /\ AgesFit'
<1>1. AgesFit
  BY DEF IInv, TypeOK, AgesFit
<1>2. CASE genTask = t /\ genStatus # "COMPLETED"
  <2>1. genStatus \in {"QUEUED", "PROCESSING", "FAILED"}
    BY <1>2, StreamAssumption DEF IInv, TypeOK, RowIsNamed
  <2> QED BY <1>2, <2>1 DEF MarkFailedRow, Becomes, Breaks, AgesFit
<1>3. CASE ~(genTask = t /\ genStatus # "COMPLETED")
  BY <1>1, <1>3 DEF MarkFailedRow, Stays, AgesFit
<1> QED BY <1>2, <1>3

\* A compare-and-set between QUEUED and PROCESSING.
LEMMA TransitionMoves ==
  ASSUME IInv, NEW t, NEW a \in {"QUEUED", "PROCESSING"}, NEW b \in {"QUEUED", "PROCESSING"},
         Transition(t, a, b)
  PROVE  (Stays \/ Moves) /\ AgesFit'
BY DEF IInv, TypeOK, Transition, Matches, Becomes, Stays, Moves, AgesFit

\* Requests and the deletion touch a knowledge base's row only in the ways RowStep lists.
LEMMA CallsMoveRow ==
  ASSUME IInv, NEW c \in Calls,
         CreateTask(c) \/ CallStep(c) \/ SendFails(c) \/ AppCrash(c) \/ DeleteKnowledgeBase
  PROVE  RowStep /\ AgesFit'
<1>1. AgesFit
  BY DEF IInv, TypeOK, AgesFit
<1>2. CASE CreateTask(c)
  BY <1>2 DEF CreateTask, MayCreate, Becomes, KnownTasks, RowStep, Creates, AgesFit
<1>3. CASE MarkUnsent(c)
  <2>1. call[c].task \in Tasks
    BY <1>3 DEF MarkUnsent, IInv, CallsKnow
  <2> QED BY <1>3, <2>1, MarkFailedMoves DEF MarkUnsent, RowStep
<1>4. CASE DeleteKnowledgeBase
  BY <1>4 DEF DeleteKnowledgeBase, Becomes, RowStep, Removes, AgesFit
<1>5. CASE UNCHANGED row
  BY <1>1, <1>5 DEF row, RowStep, Stays, AgesFit
<1> QED BY <1>2, <1>3, <1>4, <1>5 DEF CallStep, Send, SendFails, AppCrash

\* The same for the calls of the handler: each compares the task id and the status under
\* the row's lock.
LEMMA WorkersMoveRow ==
  ASSUME IInv, NEW w \in Workers, WorkerStep(w) \/ WorkerFault(w)
  PROVE  RowStep /\ AgesFit'
<1>1. AgesFit
  BY DEF IInv, TypeOK, AgesFit
<1>2. CASE MarkProcessing(w)
  BY <1>2, TransitionMoves DEF MarkProcessing, RowStep
<1>3. CASE SaveQuestions(w)
  BY <1>1, <1>3 DEF SaveQuestions, Matches, Becomes, RowStep, Stays, Ends, AgesFit
<1>4. CASE Retry(w)
  BY <1>4, TransitionMoves DEF Retry, RowStep
<1>5. CASE MarkFailed(w)
  <2>1. worker[w].pc # "poll"
    BY <1>5 DEF MarkFailed, GoOn
  <2>2. Task(w) \in Tasks
    BY <2>1, TaskType DEF IInv, TypeOK
  <2> QED BY <1>5, <2>2, MarkFailedMoves DEF MarkFailed, RowStep
<1>6. CASE UNCHANGED row
  BY <1>1, <1>6 DEF row, RowStep, Stays, AgesFit
<1> QED BY <1>2, <1>3, <1>4, <1>5, <1>6
        DEF WorkerStep, WorkerFault, Consume, ShouldSkip, Generate, Handled,
            CallFails, ReaddFails, RetryFails, WorkerCrash

\* The same for the recovery job and for time.
LEMMA JobMovesRow ==
  ASSUME IInv, JobStep \/ JobSendFails \/ JobCrash \/ GrowsOld
  PROVE  RowStep /\ AgesFit'
<1>1. AgesFit
  BY DEF IInv, TypeOK, AgesFit
<1>2. CASE RecoverTask
  BY <1>1, <1>2 DEF RecoverTask, Matches, Becomes, RowStep, Stays, Moves, AgesFit, IInv, TypeOK
<1>3. CASE JobMarkFailed
  <2>1. job.task \in Tasks
    BY <1>3 DEF JobMarkFailed, IInv, JobKnows
  <2> QED BY <1>3, <2>1, MarkFailedMoves DEF JobMarkFailed, RowStep
<1>4. CASE StartJob
  BY <1>1, <1>4 DEF StartJob, RowStep, Stays, AgesFit
<1>5. CASE GrowsOld
  BY <1>1, <1>5 DEF GrowsOld, RowStep, Stays, AgesFit
<1>6. CASE UNCHANGED row
  BY <1>1, <1>6 DEF row, RowStep, Stays, AgesFit
<1> QED BY <1>2, <1>3, <1>4, <1>5, <1>6
        DEF JobStep, ScanTasks, JobSend, JobSendFails, JobCrash

\* Every step of the system moves the row in one of the ways RowStep lists.
LEMMA NextMovesRow ==
  ASSUME IInv, [Next]_vars
  PROVE  RowStep /\ AgesFit'
<1>1. CASE UNCHANGED vars \/ \E m \in Messages : EntryGrowsIdle(m)
  BY <1>1 DEF vars, row, EntryGrowsIdle, RowStep, Stays, IInv, TypeOK, AgesFit
<1>2. CASE DeleteKnowledgeBase
  BY <1>2 DEF DeleteKnowledgeBase, Becomes, RowStep, Removes, AgesFit
<1> QED BY <1>1, <1>2, CallsMoveRow, WorkersMoveRow, JobMovesRow DEF Next

-----------------------------------------------------------------------------
(* The invariant                                                           *)

\* No step breaks what is known of the stream and its workers.
LEMMA StreamIsKept ==
  ASSUME IInv, [Next]_vars
  PROVE  StreamInv'
<1>1. StreamInv
  BY DEF IInv, TypeOK, StreamInv
<1>2. ASSUME NEW c \in Calls, Send(c) \/ SendFails(c)
      PROVE  StreamInv'
  <2>1. call[c].task \in Tasks
    BY <1>2 DEF Send, SendFails, IInv, CallsKnow
  <2>2. UNCHANGED <<pel, idle, worker>> /\ (UNCHANGED queue \/ Add(call[c].task, 0))
    BY <1>2 DEF Send, SendFails
  <2> QED BY <1>1, <2>1, <2>2, StreamAdds, StreamStays DEF stream
<1>3. CASE JobSend \/ JobSendFails
  <2>1. job.task \in Tasks
    BY <1>3 DEF JobSend, JobSendFails, IInv, JobKnows
  <2>2. UNCHANGED <<pel, idle, worker>> /\ (UNCHANGED queue \/ Add(job.task, 0))
    BY <1>3 DEF JobSend, JobSendFails
  <2> QED BY <1>1, <2>1, <2>2, StreamAdds, StreamStays DEF stream
<1>4. CASE UNCHANGED stream
  BY <1>1, <1>4, StreamStays
<1>5. ASSUME NEW m \in Messages, EntryGrowsIdle(m) PROVE StreamInv'
  BY <1>1, <1>5, StreamGrowsIdle DEF EntryGrowsIdle
<1>6. ASSUME NEW w \in Workers, WorkerStep(w) PROVE StreamInv'
  <2>1. CASE Consume(w)
    BY <1>1, <2>1, StreamConsumes DEF Consume
  <2>2. CASE ShouldSkip(w)
    BY <1>1, <2>2, StreamGoesOn DEF ShouldSkip, WorkerSteps
  <2>3. CASE MarkProcessing(w)
    BY <1>1, <2>3, StreamGoesOn DEF MarkProcessing, WorkerSteps
  <2>4. CASE Generate(w)
    BY <1>1, <2>4, StreamGoesOn DEF Generate, WorkerSteps
  <2>5. CASE SaveQuestions(w)
    BY <1>1, <2>5, StreamGoesOn DEF SaveQuestions, WorkerSteps
  <2>6. CASE Retry(w)
    BY <1>1, <2>6, StreamGoesOn DEF Retry, WorkerSteps
  <2>7. CASE Handled(w)
    BY <1>1, <2>7, StreamFails, StreamRetries DEF Handled, Readd
  <2>8. CASE MarkFailed(w)
    BY <1>1, <2>8, StreamGoesOn DEF MarkFailed, WorkerSteps
  <2> QED BY <1>6, <2>1, <2>2, <2>3, <2>4, <2>5, <2>6, <2>7, <2>8 DEF WorkerStep
<1>7. ASSUME NEW w \in Workers, WorkerFault(w) PROVE StreamInv'
  <2>1. CASE CallFails(w)
    BY <1>1, <2>1, StreamFails DEF CallFails
  <2>2. CASE ReaddFails(w) /\ GoOn(w, "readd", "unqueued")
    BY <1>1, <2>2, StreamGoesOn DEF WorkerSteps
  <2>3. CASE ReaddFails(w) /\ ~GoOn(w, "readd", "unqueued")
    BY <1>1, <2>3, StreamRetries DEF ReaddFails
  <2>4. CASE RetryFails(w)
    BY <1>1, <2>4, StreamLets DEF RetryFails
  <2>5. CASE WorkerCrash(w)
    BY <1>1, <2>5, StreamLets DEF WorkerCrash
  <2> QED BY <1>7, <2>1, <2>2, <2>3, <2>4, <2>5 DEF WorkerFault
<1> QED BY <1>2, <1>3, <1>4, <1>5, <1>6, <1>7
        DEF Next, CallStep, CreateTask, MarkUnsent, AppCrash, DeleteKnowledgeBase,
            JobStep, StartJob, ScanTasks, RecoverTask, JobMarkFailed, JobCrash, GrowsOld, vars

\* No step exceeds the bound on faults.
LEMMA FaultsAreCounted ==
  ASSUME IInv, [Next]_vars
  PROVE  faults' \in 0 .. MaxFaults
<1>1. faults \in 0 .. MaxFaults /\ MaxFaults \in Nat
  BY GenerationAssumption DEF IInv, TypeOK
<1>2. UNCHANGED faults \/ Fault
  BY DEF Next, vars, CallStep, CreateTask, Send, SendFails, MarkUnsent, AppCrash,
         DeleteKnowledgeBase, WorkerStep, WorkerFault, Consume, ShouldSkip, MarkProcessing,
         Generate, SaveQuestions, Retry, Handled, MarkFailed, CallFails, ReaddFails,
         RetryFails, WorkerCrash, JobStep, StartJob, ScanTasks, RecoverTask, JobSend,
         JobSendFails, JobMarkFailed, JobCrash, GrowsOld, EntryGrowsIdle
<1> QED BY <1>1, <1>2 DEF Fault

\* The requests' own records.
CallTypes == call \in [Calls -> [pc: {"idle", "send", "unsent"}, task: Tasks \cup {None}]]

\* A request past create_task keeps the id of the task it created.
LEMMA CallsAreKept ==
  ASSUME IInv, [Next]_vars
  PROVE  CallTypes' /\ CallsKnow'
<1> USE DEF IInv, TypeOK, CallTypes, CallsKnow, IdleCall
<1>1. ASSUME NEW c \in Calls, CreateTask(c) PROVE CallTypes' /\ CallsKnow'
  BY <1>1 DEF CreateTask
<1>2. ASSUME NEW c \in Calls, Send(c) \/ MarkUnsent(c) \/ AppCrash(c)
      PROVE  CallTypes' /\ CallsKnow'
  BY <1>2 DEF Send, MarkUnsent, AppCrash
<1>3. ASSUME NEW c \in Calls, SendFails(c) PROVE CallTypes' /\ CallsKnow'
  BY <1>3 DEF SendFails
<1>4. CASE UNCHANGED call
  BY <1>4
<1> QED BY <1>1, <1>2, <1>3, <1>4
        DEF Next, vars, CallStep, DeleteKnowledgeBase, WorkerStep, WorkerFault, Consume,
            ShouldSkip, MarkProcessing, Generate, SaveQuestions, Retry, Handled, MarkFailed,
            CallFails, ReaddFails, RetryFails, WorkerCrash, JobStep, StartJob, ScanTasks,
            RecoverTask, JobSend, JobSendFails, JobMarkFailed, JobCrash, GrowsOld,
            EntryGrowsIdle

JobTypes == job \in [pc: {"idle", "scan", "touch", "send", "unsent"},
                     looksFor: {"QUEUED", "PROCESSING"}, task: Tasks \cup {None}]

\* The recovery job keeps the task id it read, in every step of its loop.
LEMMA JobIsKept ==
  ASSUME IInv, [Next]_vars
  PROVE  JobTypes' /\ JobKnows'
<1> USE DEF IInv, TypeOK, JobTypes, JobKnows, IdleJob
<1>1. NextPass \in [pc: {"idle", "scan"}, looksFor: {"QUEUED", "PROCESSING"}, task: {None}]
  BY DEF NextPass
<1>2. CASE StartJob BY <1>2 DEF StartJob
<1>3. CASE ScanTasks
  <2>1. CASE genStatus = job.looksFor /\ Stale
    <3>1. genTask \in Tasks
      BY <2>1 DEF RowIsNamed
    <3> QED BY <1>3, <2>1, <3>1 DEF ScanTasks
  <2>2. CASE ~(genStatus = job.looksFor /\ Stale)
    BY <1>1, <1>3, <2>2 DEF ScanTasks
  <2> QED BY <2>1, <2>2
<1>4. CASE RecoverTask BY <1>1, <1>4 DEF RecoverTask
<1>5. CASE JobSend \/ JobMarkFailed BY <1>1, <1>5 DEF JobSend, JobMarkFailed
<1>6. CASE JobSendFails BY <1>6 DEF JobSendFails
<1>7. CASE JobCrash BY <1>7 DEF JobCrash
<1>8. CASE UNCHANGED job BY <1>8
<1> QED BY <1>2, <1>3, <1>4, <1>5, <1>6, <1>7, <1>8
        DEF Next, vars, CallStep, CreateTask, Send, SendFails, MarkUnsent, AppCrash,
            DeleteKnowledgeBase, WorkerStep, WorkerFault, Consume, ShouldSkip, MarkProcessing,
            Generate, SaveQuestions, Retry, Handled, MarkFailed, CallFails, ReaddFails,
            RetryFails, WorkerCrash, JobStep, GrowsOld, EntryGrowsIdle

\* Every step preserves the invariant.
LEMMA GenerationKeeps == IInv /\ [Next]_vars => IInv'
<1> SUFFICES ASSUME IInv, [Next]_vars PROVE IInv'
  OBVIOUS
<1>1. RowStep /\ AgesFit'
  BY NextMovesRow
<1>2. RowTypes' /\ RowIsNamed'
  BY <1>1 DEF IInv, TypeOK, RowIsNamed, RowTypes, RowStep, Stays, Creates, Moves, Ends,
              Breaks, Removes, AgesFit
<1>3. StreamTypeOK' /\ RetriesFit'
  BY StreamIsKept DEF StreamInv
<1>4. faults' \in 0 .. MaxFaults
  BY FaultsAreCounted
<1>5. TypeOK'
  BY <1>2, <1>3, <1>4, CallsAreKept, JobIsKept DEF TypeOK, RowTypes, CallTypes, JobTypes
<1> QED BY <1>2, <1>3, <1>5, CallsAreKept, JobIsKept DEF IInv

\* The invariant holds in every reachable state.
LEMMA GenerationInvariant == Spec => []IInv
BY GenerationStarts, GenerationKeeps, PTL DEF Spec

-----------------------------------------------------------------------------
\* Every reachable state is well typed.
THEOREM TypeCorrect == Spec => []TypeOK
<1>1. IInv => TypeOK
  BY DEF IInv
<1> QED BY <1>1, GenerationInvariant, PTL

\* However many attempts of a task are at work, however late they come back
\* and whatever recovery did meanwhile, the row goes through one task after
\* the other, and each ends once (replace_questions_and_complete, mark_failed,
\* reset_for_retry, recover).
THEOREM OneTaskAtATime == Spec => RunsOneTask
<1>1. Init => GenTask!Init
  BY DEF Init, GenTask!Init
<1>2. RowStep => [GenTask!Next]_GenTask!task_vars
  <2>1. CASE Stays
    BY <2>1 DEF Stays, GenTask!task_vars
  <2>2. CASE Moves
    BY <2>2 DEF Moves, GenTask!task_vars
  <2>3. CASE Creates
    <3>1. GenTask!Ask(genTask')
      BY <2>3 DEF Creates, GenTask!Ask
    <3> QED BY <2>3, <3>1 DEF Creates, GenTask!Next
  <2>4. CASE Ends
    <3>1. GenTask!Succeed
      BY <2>4 DEF Ends, GenTask!Succeed
    <3> QED BY <3>1 DEF GenTask!Next
  <2>5. CASE Breaks
    <3>1. CASE genStatus = "FAILED"
      BY <2>5, <3>1 DEF Breaks, GenTask!task_vars
    <3>2. CASE genStatus # "FAILED"
      <4>1. GenTask!Fail
        BY <2>5, <3>2 DEF Breaks, GenTask!Fail
      <4> QED BY <4>1 DEF GenTask!Next
    <3> QED BY <3>1, <3>2
  <2>6. CASE Removes
    <3>1. GenTask!Remove
      BY <2>6 DEF Removes, GenTask!Remove
    <3> QED BY <3>1 DEF GenTask!Next
  <2> QED BY <2>1, <2>2, <2>3, <2>4, <2>5, <2>6 DEF RowStep
<1>3. IInv /\ [Next]_vars => [GenTask!Next]_GenTask!task_vars
  BY <1>2, NextMovesRow
<1> QED BY <1>1, <1>3, GenerationInvariant, PTL DEF Spec, RunsOneTask, GenTask!Spec
=============================================================================

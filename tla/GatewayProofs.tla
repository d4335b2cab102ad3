--------------------------- MODULE GatewayProofs ---------------------------
(***************************************************************************)
(* Proofs about Gateway, for any number of requests and of providers, and  *)
(* the theorems on one breaker and its budget carried over to it.          *)
(***************************************************************************)
EXTENDS Gateway, BreakerProofs

(* How the providers divide into those yet to be looked at, candidates,    *)
(* the one talked to and those excused, at each place in the handler.      *)
Accounted(q) ==
  /\ q.cands \cap q.excused = {}
  /\ q.pc = "lookup" => q.at = 1 /\ q.excused = {}
  /\ q.pc = "select" => q.cands \cup q.excused = 1 .. q.at - 1
  /\ q.pc = "try" => q.cands # {} /\ q.cands \cup q.excused = Providers
  /\ q.pc \in {"sent", "body"} => {q.at} \cup q.cands \cup q.excused = Providers
  /\ q.pc \in {"sent", "body", "stream"} =>
       /\ q.at \notin q.cands \cup q.excused
       /\ \A p \in q.cands : q.at < p
  /\ q.pc \notin {"select", "try", "sent", "body"} => q.cands = {}
  /\ q.pc = "failing" => \/ q.excused = Providers
                         \/ q.kind.handler = "embeddings" /\ q.reply = "2xx"

(* What the class of the headers and the kind of the request have to do    *)
(* with the place in the handler.                                          *)
Answering(q) ==
  /\ q.pc \in {"body", "store"} => q.reply # "none"
  /\ q.pc = "body" /\ q.kind.handler = "embeddings" => q.reply = "2xx"
  /\ q.pc = "stream" => q.kind.stream

Reserved(q, h) ==
  IF q.pc = "idle"
    THEN h = Limiter!Nothing
    ELSE \/ h = q.kind.cost
         \/ h = Limiter!Nothing /\ q.kind.stream /\ q.pc \in {"stream", "leaving"}

IndInv ==
  /\ TypeOK
  /\ \A r \in Requests :
       Accounted(req[r]) /\ Answering(req[r]) /\ Reserved(req[r], held[r])

Holdings == {k.cost : k \in Kinds} \cup {Limiter!Nothing}

(* A request at rest or just admitted is in order. *)
LEMMA NewRequestLemma ==
  ASSUME NEW k \in Kinds, NEW phase \in {"idle", "lookup", "select", "leaving"}
  PROVE  /\ NewRequest(phase, k) \in LocalStates
         /\ Accounted(NewRequest(phase, k))
         /\ Answering(NewRequest(phase, k))
         /\ NewRequest(phase, k).pc = phase
         /\ NewRequest(phase, k).kind = k
<1>1. 1 \in Providers
  BY GatewayAssumption DEF Providers
<1>2. 1 .. 1 - 1 = {}
  OBVIOUS
<1> QED
  BY <1>1, <1>2 DEF NewRequest, LocalStates, Accounted, Answering

LEMMA IdleLemma ==
  Idle \in LocalStates /\ Accounted(Idle) /\ Answering(Idle) /\ Idle.pc = "idle"
<1>1. (CHOOSE k \in Kinds : TRUE) \in Kinds
  BY GatewayAssumption
<1> QED
  BY <1>1, NewRequestLemma DEF Idle

(* One request moves, and whatever else changes keeps its type. *)
LEMMA MoveStep ==
  ASSUME IndInv, NEW r \in Requests, NEW q \in LocalStates,
         Accounted(q), Answering(q), Reserved(q, held'[r]),
         req' = [req EXCEPT ![r] = q],
         breakers' \in [Providers -> Breakers],
         level' \in 0 .. Capacity,
         held' \in [Requests -> Holdings],
         \A u \in Requests : u # r => held'[u] = held[u],
         cache' \in [Payloads -> {Absent, "2xx", "other"}],
         role' \in [Requests -> {"none", "normal", "probe"}]
  PROVE  IndInv'
<1>1. req' \in [Requests -> LocalStates]
  BY DEF IndInv, TypeOK
<1>2. TypeOK'
  BY <1>1 DEF TypeOK, Holdings
<1>3. ASSUME NEW u \in Requests
      PROVE  (Accounted(req[u]) /\ Answering(req[u]) /\ Reserved(req[u], held[u]))'
  <2>1. CASE u = r
    <3>1. req'[u] = q
      BY <2>1 DEF IndInv, TypeOK
    <3> QED
      BY <2>1, <3>1 DEF Accounted, Answering, Reserved
  <2>2. CASE u # r
    <3>1. req'[u] = req[u] /\ held'[u] = held[u]
      BY <2>2 DEF IndInv, TypeOK
    <3>2. Accounted(req[u]) /\ Answering(req[u]) /\ Reserved(req[u], held[u])
      BY DEF IndInv
    <3> QED
      BY <3>1, <3>2 DEF Accounted, Answering, Reserved
  <2> QED
    BY <2>1, <2>2
<1> QED
  BY <1>2, <1>3 DEF IndInv

(* The operations of the limiter keep the budget and touch one holding.    *)
LEMMA SettleLemma ==
  ASSUME IndInv, NEW r \in Requests, NEW used \in Nat, Limiter!Settle(r, used)
  PROVE  /\ level' \in 0 .. Capacity
         /\ held' \in [Requests -> Holdings]
         /\ held'[r] = Limiter!Nothing
         /\ \A u \in Requests : u # r => held'[u] = held[u]
<1>1. level \in Nat /\ level <= Capacity /\ Capacity \in Nat
  BY GatewayAssumption DEF IndInv, TypeOK
<1>2. held \in [Requests -> Holdings] /\ held[r] # Limiter!Nothing
  BY DEF IndInv, TypeOK, Limiter!Settle, Holdings
<1>3. held[r] \in Nat
  BY <1>2, GatewayAssumption DEF Holdings
<1>4. level' \in 0 .. Capacity
  <2> DEFINE h == held[r]
  <2>1. level' = IF used <= h THEN Limiter!AtMostCapacity(level + h - used)
                 ELSE IF used - h <= level THEN level - (used - h) ELSE level
    BY DEF Limiter!Settle
  <2>2. h \in Nat
    BY <1>3
  <2> HIDE DEF h
  <2> QED
    BY <1>1, <2>1, <2>2 DEF Limiter!AtMostCapacity
<1>5. held' = [held EXCEPT ![r] = Limiter!Nothing]
  BY DEF Limiter!Settle
<1> QED
  BY <1>2, <1>4, <1>5 DEF Holdings

LEMMA ReserveLemma ==
  ASSUME IndInv, NEW r \in Requests, NEW k \in Kinds, Limiter!Reserve(r, k.cost)
  PROVE  /\ level' \in 0 .. Capacity
         /\ held' \in [Requests -> Holdings]
         /\ held'[r] = k.cost
         /\ \A u \in Requests : u # r => held'[u] = held[u]
<1>1. level \in Nat /\ level <= Capacity /\ Capacity \in Nat /\ k.cost \in Nat
  BY GatewayAssumption DEF IndInv, TypeOK
<1>2. k.cost <= level /\ level' = level - k.cost
  BY DEF Limiter!Reserve
<1>3. held' = [held EXCEPT ![r] = k.cost] /\ held \in [Requests -> Holdings]
  BY DEF Limiter!Reserve, IndInv, TypeOK, Holdings
<1> QED
  BY <1>1, <1>2, <1>3 DEF Holdings

(* Recording an outcome keeps every breaker and every role well-formed.    *)
LEMMA RecordLemma ==
  ASSUME IndInv, NEW r \in Requests, NEW newRole \in {"none", "normal"},
         RecordSuccess(r, newRole) \/ RecordFailure(r)
  PROVE  /\ breakers' \in [Providers -> Breakers]
         /\ role' \in [Requests -> {"none", "normal", "probe"}]
<1>1. /\ breakers \in [Providers -> Breakers]
      /\ role \in [Requests -> {"none", "normal", "probe"}]
      /\ req[r].at \in Providers
  BY DEF IndInv, TypeOK, LocalStates
<1>2. PICK after \in Breakers, theRole \in {"none", "normal"} : Record(r, after, theRole)
  <2>1. breakers[req[r].at] \in Breakers
    BY <1>1
  <2> QED
    BY <2>1, SuccessLemma, FailureLemma DEF RecordSuccess, RecordFailure
<1> QED
  BY <1>1, <1>2 DEF Record

(* r goes on, with its request, to a local state that is in order.         *)
GoesTo(r, q) ==
  /\ q \in LocalStates /\ Accounted(q) /\ Answering(q)
  /\ q.kind = req[r].kind
  /\ req' = [req EXCEPT ![r] = q]

(* A provider that is given up on, the next candidate or the one talked    *)
(* to, joins those that are excused; the last one to do so ends the loop.  *)
LEMMA TryNextLemma ==
  ASSUME IndInv, NEW r \in Requests, NEW p \in Providers,
         \/ req[r].pc = "try" /\ p \in req[r].cands
         \/ req[r].pc \in {"sent", "body"} /\ p = req[r].at,
         TryNextAfter(r, p)
  PROVE  \E q : /\ GoesTo(r, q)
                /\ q.pc \in {"try", "failing"}
                /\ q.cands = req[r].cands \ {p}
<1> DEFINE rest == req[r].cands \ {p}
           q == [req[r] EXCEPT !.pc = IF rest = {} THEN "failing" ELSE "try",
                               !.cands = rest, !.excused = @ \cup {p}]
<1>1. req[r] \in LocalStates /\ Accounted(req[r])
  BY DEF IndInv, TypeOK
<1>2. /\ q \in LocalStates
      /\ q.pc = IF rest = {} THEN "failing" ELSE "try"
      /\ q.cands = rest
      /\ q.excused = req[r].excused \cup {p}
      /\ q.kind = req[r].kind
  BY <1>1 DEF LocalStates
<1>3. req' = [req EXCEPT ![r] = q]
  BY DEF TryNextAfter
<1>4. rest \cup (req[r].excused \cup {p}) = Providers
  BY <1>1 DEF Accounted, LocalStates
<1>5. rest \cap (req[r].excused \cup {p}) = {}
  BY <1>1 DEF Accounted
<1>6. Accounted(q)
  <2> HIDE DEF q
  <2> QED
    BY <1>2, <1>4, <1>5 DEF Accounted
<1>7. Answering(q)
  <2> HIDE DEF q
  <2> QED
    BY <1>2 DEF Answering
<1> QED
  BY <1>2, <1>3, <1>6, <1>7 DEF GoesTo

(* A request that holds its reservation keeps it on its way. *)
LEMMA KeepStep ==
  ASSUME IndInv, NEW r \in Requests, NEW q, GoesTo(r, q),
         req[r].pc \notin {"idle", "stream", "leaving"} \/ q.pc \in {"stream", "leaving"},
         req[r].pc # "idle", q.pc # "idle",
         UNCHANGED <<level, held>>,
         breakers' \in [Providers -> Breakers],
         cache' \in [Payloads -> {Absent, "2xx", "other"}],
         role' \in [Requests -> {"none", "normal", "probe"}]
  PROVE  IndInv'
<1>1. Reserved(q, held'[r])
  BY DEF IndInv, Reserved, GoesTo
<1>2. level' \in 0 .. Capacity /\ held' \in [Requests -> Holdings]
  BY DEF IndInv, TypeOK, Holdings
<1> QED
  BY <1>1, <1>2, MoveStep DEF GoesTo

----------------------------------------------------------------------------
(* What the steps have in common: the types of what they leave alone. *)
LEMMA Types ==
  ASSUME IndInv
  PROVE  /\ breakers \in [Providers -> Breakers]
         /\ level \in 0 .. Capacity
         /\ held \in [Requests -> Holdings]
         /\ cache \in [Payloads -> {Absent, "2xx", "other"}]
         /\ role \in [Requests -> {"none", "normal", "probe"}]
         /\ req \in [Requests -> LocalStates]
BY DEF IndInv, TypeOK, Holdings

(* A request arrives and is admitted by the budget. *)
LEMMA ArriveStep ==
  ASSUME IndInv, NEW r \in Requests, NEW k \in Kinds, Arrive(r, k)
  PROVE  IndInv'
<1> DEFINE phase == IF Key(k) = NoKey THEN "select" ELSE "lookup"
           q == NewRequest(phase, k)
<1>1. q \in LocalStates /\ Accounted(q) /\ Answering(q) /\ q.pc = phase /\ q.kind = k
  BY NewRequestLemma
<1>2. Limiter!Reserve(r, k.cost) /\ req' = [req EXCEPT ![r] = q]
  BY DEF Arrive
<1>3. UNCHANGED <<breakers, cache, role>>
  BY DEF Arrive
<1> HIDE DEF q
<1>4. /\ level' \in 0 .. Capacity
      /\ held' \in [Requests -> Holdings]
      /\ held'[r] = k.cost
      /\ \A u \in Requests : u # r => held'[u] = held[u]
  BY <1>2, ReserveLemma
<1>5. Reserved(q, held'[r])
  BY <1>1, <1>4 DEF Reserved
<1> QED
  BY <1>1, <1>2, <1>3, <1>4, <1>5, MoveStep, Types

(* A request ends, and with it its reservation. *)
LEMMA EndStep ==
  ASSUME IndInv, NEW r \in Requests,
         \/ \E used \in Nat : Limiter!Settle(r, used)
         \/ UNCHANGED <<level, held>> /\ held[r] = Limiter!Nothing,
         req' = [req EXCEPT ![r] = Idle],
         UNCHANGED <<breakers, cache, role>>
  PROVE  IndInv'
<1>1. /\ level' \in 0 .. Capacity
      /\ held' \in [Requests -> Holdings]
      /\ held'[r] = Limiter!Nothing
      /\ \A u \in Requests : u # r => held'[u] = held[u]
  <2>1. CASE \E used \in Nat : Limiter!Settle(r, used)
    BY <2>1, SettleLemma
  <2>2. CASE UNCHANGED <<level, held>> /\ held[r] = Limiter!Nothing
    BY <2>2, Types
  <2> QED
    BY <2>1, <2>2
<1>2. Reserved(Idle, held'[r])
  BY <1>1, IdleLemma DEF Reserved
<1> QED
  BY <1>1, <1>2, IdleLemma, MoveStep, Types

LEMMA CacheHitStep == ASSUME IndInv, NEW r \in Requests, CacheHit(r) PROVE IndInv'
BY EndStep DEF CacheHit

LEMMA SettleStep == ASSUME IndInv, NEW r \in Requests, Settle(r) PROVE IndInv'
<1>1. req[r].usage \in Usages \cup {Unknown}
  BY Types DEF LocalStates
<1>2. (IF req[r].usage = Unknown THEN 0 ELSE req[r].usage) \in Nat
  BY <1>1, GatewayAssumption
<1> QED
  BY <1>2, EndStep DEF Settle

LEMMA LeaveStep == ASSUME IndInv, NEW r \in Requests, Leave(r) PROVE IndInv'
<1>1. CASE held[r] = Limiter!Nothing
  BY <1>1, EndStep DEF Leave
<1>2. CASE held[r] # Limiter!Nothing
  <2>1. Limiter!Settle(r, 0) /\ 0 \in Nat
    BY <1>2 DEF Leave
  <2> QED
    BY <2>1, EndStep DEF Leave
<1> QED
  BY <1>1, <1>2

LEMMA CacheMissStep == ASSUME IndInv, NEW r \in Requests, CacheMiss(r) PROVE IndInv'
<1> DEFINE q == [req[r] EXCEPT !.pc = "select"]
<1>1. req[r] \in LocalStates /\ Accounted(req[r]) /\ req[r].pc = "lookup"
  BY DEF IndInv, TypeOK, CacheMiss
<1>2. /\ q \in LocalStates /\ q.pc = "select" /\ q.kind = req[r].kind
      /\ q.at = 1 /\ q.cands = {} /\ q.excused = {}
  BY <1>1 DEF LocalStates, Accounted
<1>3. req' = [req EXCEPT ![r] = q]
  BY DEF CacheMiss
<1> HIDE DEF q
<1>4. 1 .. 1 - 1 = {}
  OBVIOUS
<1>5. GoesTo(r, q)
  BY <1>2, <1>3, <1>4 DEF GoesTo, Accounted, Answering
<1> QED
  BY <1>1, <1>2, <1>5, KeepStep, Types DEF CacheMiss

(* Selection: one more provider is a candidate or excused.                 *)
LEMMA LookStep == ASSUME IndInv, NEW r \in Requests, Look(r) PROVE IndInv'
<1> DEFINE p == req[r].at
           fit == IsEligible(breakers[p])
           cands == IF fit THEN req[r].cands \cup {p} ELSE req[r].cands
           excused == IF fit THEN req[r].excused ELSE req[r].excused \cup {p}
           at == IF p < NumProviders THEN p + 1 ELSE p
           pc == IF p < NumProviders THEN "select"
                 ELSE IF cands = {} THEN "failing" ELSE "try"
           q == [req[r] EXCEPT !.cands = cands, !.excused = excused, !.at = at, !.pc = pc]
<1>1. req[r] \in LocalStates /\ Accounted(req[r]) /\ req[r].pc = "select"
  BY DEF IndInv, TypeOK, Look
<1>2. /\ p \in Nat /\ 1 <= p /\ p <= NumProviders /\ NumProviders \in Nat
      /\ req[r].cands \cup req[r].excused = 1 .. p - 1
      /\ req[r].cands \cap req[r].excused = {}
  BY <1>1, GatewayAssumption DEF LocalStates, Accounted, Providers
<1>3. cands \cup excused = 1 .. p /\ cands \cap excused = {}
  <2>1. p \notin 1 .. p - 1 /\ 1 .. p = (1 .. p - 1) \cup {p}
    BY <1>2
  <2> QED
    BY <1>2, <2>1
<1>4. cands \subseteq Providers /\ excused \subseteq Providers
  BY <1>2, <1>3 DEF Providers
<1>5. at \in Providers
  BY <1>2 DEF Providers
<1>6. req' = [req EXCEPT ![r] = q]
  BY DEF Look
<1> HIDE DEF fit, cands, excused, at
<1>7. /\ q \in LocalStates /\ q.pc = pc /\ q.kind = req[r].kind
      /\ q.at = at /\ q.cands = cands /\ q.excused = excused
  BY <1>1, <1>4, <1>5 DEF LocalStates
<1> HIDE DEF q
<1>8. Accounted(q)
  <2>1. CASE p < NumProviders
    <3>1. q.pc = "select" /\ q.at = p + 1
      BY <2>1, <1>7 DEF at
    <3>2. (p + 1) - 1 = p
      BY <1>2
    <3> QED
      BY <1>3, <1>7, <3>1, <3>2 DEF Accounted
  <2>2. CASE ~(p < NumProviders)
    <3>1. q.pc = (IF cands = {} THEN "failing" ELSE "try")
      BY <2>2, <1>7
    <3>2. cands \cup excused = Providers
      BY <1>2, <1>3, <2>2 DEF Providers
    <3> QED
      BY <1>3, <1>7, <3>1, <3>2 DEF Accounted
  <2> QED
    BY <2>1, <2>2
<1>9. GoesTo(r, q)
  BY <1>6, <1>7, <1>8 DEF GoesTo, Answering
<1> QED
  BY <1>1, <1>7, <1>9, KeepStep, Types DEF Look

(* The request is sent to the best candidate. *)
LEMMA AdmitStep ==
  ASSUME IndInv, NEW r \in Requests, NEW p \in Providers, Admit(r, p)
  PROVE  IndInv'
<1> DEFINE q == [req[r] EXCEPT !.pc = "sent", !.at = p, !.cands = @ \ {p}]
<1>1. req[r] \in LocalStates /\ Accounted(req[r]) /\ req[r].pc = "try"
  BY DEF IndInv, TypeOK, Admit
<1>2. /\ q \in LocalStates /\ q.pc = "sent" /\ q.kind = req[r].kind /\ q.at = p
      /\ q.cands = req[r].cands \ {p} /\ q.excused = req[r].excused
  BY <1>1 DEF LocalStates
<1>3. req' = [req EXCEPT ![r] = q]
  BY DEF Admit
<1> HIDE DEF q
<1>4. Accounted(q)
  <2>1. p \in req[r].cands /\ \A c \in req[r].cands : p <= c
    BY DEF Admit, IsNext
  <2>2. \A c \in req[r].cands : c \in Int
    BY <1>1, GatewayAssumption DEF LocalStates, Providers
  <2>3. \A c \in q.cands : p < c
    BY <1>2, <2>1, <2>2
  <2> QED
    BY <1>1, <1>2, <2>1, <2>3 DEF Accounted
<1>5. GoesTo(r, q)
  BY <1>2, <1>3, <1>4 DEF GoesTo, Answering
<1>6. breakers' \in [Providers -> Breakers]
  BY Types, AllowLemma DEF Admit
<1>7. role' \in [Requests -> {"none", "normal", "probe"}]
  BY Types DEF Admit
<1> QED
  BY <1>1, <1>2, <1>5, <1>6, <1>7, KeepStep, Types DEF Admit

(* A provider is given up on, with or without an outcome to record. *)
LEMMA GiveUpStep ==
  ASSUME IndInv, NEW r \in Requests, NEW p \in Providers,
         \/ req[r].pc = "try" /\ p \in req[r].cands
         \/ req[r].pc \in {"sent", "body"} /\ p = req[r].at,
         TryNextAfter(r, p),
         RecordFailure(r) \/ UNCHANGED <<breakers, role>>,
         UNCHANGED <<level, held, cache>>
  PROVE  IndInv'
<1>1. PICK q : GoesTo(r, q) /\ q.pc \in {"try", "failing"}
  BY TryNextLemma
<1>2. /\ breakers' \in [Providers -> Breakers]
      /\ role' \in [Requests -> {"none", "normal", "probe"}]
  BY RecordLemma, Types
<1> QED
  BY <1>1, <1>2, KeepStep, Types

LEMMA DenyStep ==
  ASSUME IndInv, NEW r \in Requests, NEW p \in Providers, Deny(r, p)
  PROVE  IndInv'
BY GiveUpStep DEF Deny, IsNext

LEMMA FailoverStep ==
  ASSUME IndInv, NEW r \in Requests, SendFails(r) \/ Unexpected(r) \/ BodyFails(r)
  PROVE  IndInv'
<1>1. req[r].at \in Providers
  BY Types DEF LocalStates
<1> QED
  BY <1>1, GiveUpStep DEF SendFails, Unexpected, BodyFails

(* The handler is left for good: what it knew is gone. *)
LEMMA GoneStep ==
  ASSUME IndInv, NEW r \in Requests, req[r].pc # "idle",
         req' = [req EXCEPT ![r] = NewRequest("leaving", @.kind)],
         \/ RecordSuccess(r, "none") \/ RecordFailure(r)
         \/ UNCHANGED breakers /\ role' = [role EXCEPT ![r] = "none"],
         UNCHANGED <<level, held, cache>>
  PROVE  IndInv'
<1> DEFINE q == NewRequest("leaving", req[r].kind)
<1>1. req[r].kind \in Kinds
  BY Types DEF LocalStates
<1>2. GoesTo(r, q) /\ q.pc = "leaving"
  BY <1>1, NewRequestLemma, Types DEF GoesTo
<1> HIDE DEF q
<1>3. /\ breakers' \in [Providers -> Breakers]
      /\ role' \in [Requests -> {"none", "normal", "probe"}]
  BY RecordLemma, Types
<1> QED
  BY <1>2, <1>3, KeepStep, Types

LEMMA LeavingStep ==
  ASSUME IndInv, NEW r \in Requests,
         Rejected(r) \/ StreamEnds(r) \/ StreamBreaks(r) \/ Cancel(r)
  PROVE  IndInv'
BY GoneStep DEF Rejected, StreamEnds, StreamBreaks, Cancel, Awaiting

(* Good headers: the body follows, or the stream is handed on. *)
LEMMA HeadersOkStep ==
  ASSUME IndInv, NEW r \in Requests, NEW class \in {"2xx", "other"}, HeadersOk(r, class)
  PROVE  IndInv'
<1> DEFINE pc == IF req[r].kind.stream THEN "stream" ELSE "body"
           cands == IF req[r].kind.stream THEN {} ELSE req[r].cands
           q == [req[r] EXCEPT !.reply = class, !.pc = pc, !.cands = cands]
<1>1. req[r] \in LocalStates /\ Accounted(req[r]) /\ req[r].pc = "sent"
  BY DEF IndInv, TypeOK, HeadersOk
<1>2. /\ q \in LocalStates /\ q.pc = pc /\ q.kind = req[r].kind /\ q.at = req[r].at
      /\ q.cands = cands /\ q.excused = req[r].excused /\ q.reply = class
  BY <1>1 DEF LocalStates
<1>3. req' = [req EXCEPT ![r] = q]
  BY DEF HeadersOk
<1> HIDE DEF q
<1>4. Accounted(q)
  BY <1>1, <1>2 DEF Accounted
<1>5. Answering(q)
  <2>1. class = "other" => req[r].kind.handler = "chat"
    BY DEF HeadersOk
  <2>2. q.kind.stream <=> q.pc = "stream"
    BY <1>2
  <2> QED
    BY <1>2, <2>1, <2>2 DEF Answering
<1>6. GoesTo(r, q) /\ q.pc # "idle"
  BY <1>2, <1>3, <1>4, <1>5 DEF GoesTo
<1>7. /\ breakers' \in [Providers -> Breakers]
      /\ role' \in [Requests -> {"none", "normal", "probe"}]
  BY RecordLemma DEF HeadersOk
<1> QED
  BY <1>1, <1>6, <1>7, KeepStep, Types DEF HeadersOk

LEMMA BodyReadStep ==
  ASSUME IndInv, NEW r \in Requests, NEW used \in Usages \cup {Unknown}, BodyRead(r, used)
  PROVE  IndInv'
<1> DEFINE pc == IF Key(req[r].kind) = NoKey THEN "settle" ELSE "store"
           q == [req[r] EXCEPT !.usage = used, !.cands = {}, !.pc = pc]
<1>1. req[r] \in LocalStates /\ Accounted(req[r]) /\ Answering(req[r]) /\ req[r].pc = "body"
  BY DEF IndInv, TypeOK, BodyRead
<1>2. /\ q \in LocalStates /\ q.pc = pc /\ q.kind = req[r].kind
      /\ q.cands = {} /\ q.reply = req[r].reply
  BY <1>1 DEF LocalStates
<1>3. req' = [req EXCEPT ![r] = q]
  BY DEF BodyRead
<1> HIDE DEF q
<1>4. Accounted(q)
  BY <1>2 DEF Accounted
<1>5. GoesTo(r, q) /\ q.pc # "idle"
  BY <1>1, <1>2, <1>3, <1>4 DEF GoesTo, Answering
<1>6. role' \in [Requests -> {"none", "normal", "probe"}]
  BY Types DEF BodyRead
<1> QED
  BY <1>1, <1>5, <1>6, KeepStep, Types DEF BodyRead

LEMMA EmbeddingsBodyFailsStep ==
  ASSUME IndInv, NEW r \in Requests, EmbeddingsBodyFails(r)
  PROVE  IndInv'
<1> DEFINE q == [req[r] EXCEPT !.pc = "failing", !.cands = {}]
<1>1. /\ req[r] \in LocalStates /\ Accounted(req[r]) /\ Answering(req[r])
      /\ req[r].pc = "body" /\ req[r].kind.handler = "embeddings"
  BY DEF IndInv, TypeOK, EmbeddingsBodyFails
<1>2. /\ q \in LocalStates /\ q.pc = "failing" /\ q.kind = req[r].kind
      /\ q.cands = {} /\ q.reply = req[r].reply
  BY <1>1 DEF LocalStates
<1>3. req' = [req EXCEPT ![r] = q]
  BY DEF EmbeddingsBodyFails
<1> HIDE DEF q
<1>4. req[r].reply = "2xx"
  BY <1>1 DEF Answering
<1>5. GoesTo(r, q)
  BY <1>1, <1>2, <1>3, <1>4 DEF GoesTo, Accounted, Answering
<1>6. /\ breakers' \in [Providers -> Breakers]
      /\ role' \in [Requests -> {"none", "normal", "probe"}]
  BY RecordLemma DEF EmbeddingsBodyFails
<1> QED
  BY <1>1, <1>2, <1>5, <1>6, KeepStep, Types DEF EmbeddingsBodyFails

LEMMA StoreStep == ASSUME IndInv, NEW r \in Requests, Store(r) PROVE IndInv'
<1> DEFINE q == [req[r] EXCEPT !.pc = "settle"]
<1>1. req[r] \in LocalStates /\ Accounted(req[r]) /\ Answering(req[r]) /\ req[r].pc = "store"
  BY DEF IndInv, TypeOK, Store
<1>2. q \in LocalStates /\ q.pc = "settle" /\ q.kind = req[r].kind /\ q.cands = req[r].cands
  BY <1>1 DEF LocalStates
<1>3. req' = [req EXCEPT ![r] = q]
  BY DEF Store
<1> HIDE DEF q
<1>4. GoesTo(r, q)
  BY <1>1, <1>2, <1>3 DEF GoesTo, Accounted, Answering
<1>5. req[r].reply \in {"2xx", "other"}
  BY <1>1 DEF Answering, LocalStates
<1>6. cache' \in [Payloads -> {Absent, "2xx", "other"}]
  BY <1>5, Types DEF Store
<1> QED
  BY <1>1, <1>2, <1>4, <1>6, KeepStep, Types DEF Store

(* A stream's usage settles its reservation while it goes on. *)
LEMMA StreamUsageStep ==
  ASSUME IndInv, NEW r \in Requests, NEW used \in Usages, StreamUsage(r, used)
  PROVE  IndInv'
<1>1. /\ req[r] \in LocalStates /\ Accounted(req[r]) /\ Answering(req[r])
      /\ req[r].pc = "stream"
  BY DEF IndInv, TypeOK, StreamUsage
<1>2. used \in Nat /\ Limiter!Settle(r, used)
  BY GatewayAssumption DEF StreamUsage
<1>3. /\ level' \in 0 .. Capacity
      /\ held' \in [Requests -> Holdings]
      /\ held'[r] = Limiter!Nothing
      /\ \A u \in Requests : u # r => held'[u] = held[u]
  BY <1>2, SettleLemma
<1>4. Reserved(req[r], held'[r])
  BY <1>1, <1>3 DEF Reserved, Answering
<1>5. req' = [req EXCEPT ![r] = req[r]]
  BY Types DEF StreamUsage
<1> QED
  BY <1>1, <1>3, <1>4, <1>5, MoveStep, Types DEF StreamUsage

(* What happens to the cache and to time touches no request. *)
LEMMA OutsideStep ==
  ASSUME IndInv, Tick \/ \E payload \in Payloads : Evict(payload)
  PROVE  IndInv'
<1>1. UNCHANGED <<held, req, role>>
  BY DEF Tick, Evict, Limiter!Tick
<1>2. breakers' \in [Providers -> Breakers]
  BY Types, TickLemma DEF Tick, Evict
<1>3. level' \in 0 .. Capacity
  <2>1. level \in Nat /\ level <= Capacity /\ Capacity \in Nat /\ RefillPerTick \in Nat
    BY Types, GatewayAssumption
  <2>2. CASE level' = Limiter!AtMostCapacity(level + RefillPerTick)
    BY <2>1, <2>2 DEF Limiter!AtMostCapacity
  <2>3. CASE UNCHANGED level
    BY <2>1, <2>3
  <2> QED
    BY <2>2, <2>3 DEF Tick, Evict, Limiter!Tick
<1>4. cache' \in [Payloads -> {Absent, "2xx", "other"}]
  BY Types DEF Tick, Evict
<1> QED
  BY <1>1, <1>2, <1>3, <1>4 DEF IndInv, TypeOK, Accounted, Answering, Reserved

----------------------------------------------------------------------------
LEMMA InitIndInv == Init => IndInv
<1> SUFFICES ASSUME Init PROVE IndInv
  OBVIOUS
<1>1. breakers \in [Providers -> Breakers]
  BY NewBreakerType DEF Init
<1>2. level \in 0 .. Capacity /\ held = [r \in Requests |-> Limiter!Nothing]
  BY GatewayAssumption DEF Init, Limiter!Init
<1>3. req \in [Requests -> LocalStates]
  BY IdleLemma DEF Init
<1>4. TypeOK
  BY <1>1, <1>2, <1>3 DEF Init, TypeOK
<1> QED
  BY <1>2, <1>4, IdleLemma DEF Init, IndInv, Reserved

LEMMA NextIndInv == IndInv /\ [Next]_vars => IndInv'
<1> SUFFICES ASSUME IndInv, [Next]_vars PROVE IndInv'
  OBVIOUS
<1>1. ASSUME NEW r \in Requests, NEW k \in Kinds, Arrive(r, k) PROVE IndInv'
  BY <1>1, ArriveStep
<1>2. ASSUME NEW r \in Requests, NEW used \in Usages, StreamUsage(r, used) PROVE IndInv'
  BY <1>2, StreamUsageStep
<1>3. ASSUME NEW r \in Requests, Work(r) PROVE IndInv'
  BY <1>3, CacheHitStep, CacheMissStep, LookStep, AdmitStep, DenyStep, StoreStep,
     SettleStep, LeaveStep DEF Work
<1>4. ASSUME NEW r \in Requests, Upstream(r) PROVE IndInv'
  BY <1>4, FailoverStep, LeavingStep, HeadersOkStep, BodyReadStep,
     EmbeddingsBodyFailsStep DEF Upstream
<1>5. ASSUME NEW r \in Requests, Cancel(r) PROVE IndInv'
  BY <1>5, LeavingStep
<1>6. CASE Tick \/ \E payload \in Payloads : Evict(payload)
  BY <1>6, OutsideStep
<1>7. CASE UNCHANGED vars
  BY <1>7 DEF vars, IndInv, TypeOK, Accounted, Answering, Reserved
<1> QED
  BY <1>1, <1>2, <1>3, <1>4, <1>5, <1>6, <1>7 DEF Next

LEMMA Invariance == Spec => []IndInv
BY InitIndInv, NextIndInv, PTL DEF Spec

(* The breakers, the budget, the cache and the handlers are well-formed    *)
(* for any requests and providers; in particular the budget is never       *)
(* overdrawn and only answers taken for successes are cached.              *)
THEOREM TypeCorrect == Spec => []TypeOK
<1>1. IndInv => TypeOK
  BY DEF IndInv
<1> QED
  BY <1>1, Invariance, PTL

(* Every request at work holds its reservation, however it fails over.     *)
THEOREM WorkIsReserved == Spec => []ReservedWhileWorking
<1>1. IndInv => ReservedWhileWorking
  BY DEF IndInv, Reserved, ReservedWhileWorking
<1> QED
  BY <1>1, Invariance, PTL

(* Failover skips no provider, whatever the breakers do meanwhile. *)
THEOREM FailoverIsComplete == Spec => []EveryProviderHasItsChance
<1>1. IndInv => EveryProviderHasItsChance
  BY DEF IndInv, Accounted, EveryProviderHasItsChance
<1> QED
  BY <1>1, Invariance, PTL

(* Nobody is asked twice for one request, nor out of turn. *)
THEOREM FailoverIsOrdered == Spec => []NoSecondChance
<1>1. IndInv => NoSecondChance
  BY DEF IndInv, Accounted, NoSecondChance, InFlight
<1> QED
  BY <1>1, Invariance, PTL

----------------------------------------------------------------------------
(* The handlers use each breaker as CircuitBreaker's requests do.  What    *)
(* provider p sees of a request depends on its local state and its role.   *)
Flying(q) == q.pc \in {"sent", "body", "stream"}

AttemptOf(q, p) ==
  IF p \in q.cands THEN "candidate"
  ELSE IF q.at = p /\ q.pc = "sent" THEN "sent"
  ELSE IF q.at = p /\ q.pc \in {"body", "stream"} THEN "body"
  ELSE "idle"

RoleOf(q, x, p) == IF q.at = p /\ Flying(q) THEN x ELSE "none"

StepAt(p) == UNCHANGED AtProvider(p)!vars \/ AtProvider(p)!Next

(* f with another value at r; a name of its own keeps it in one piece.     *)
Altered(f, r, v) == [f EXCEPT ![r] = v]

(* r goes to q and, of the roles, only its own changes. *)
LEMMA AttemptsView ==
  ASSUME IndInv, NEW r \in Requests, NEW q \in LocalStates, NEW p \in Providers,
         req' = [req EXCEPT ![r] = q]
  PROVE  AttemptsAt(p, req') = Altered(AttemptsAt(p, req), r, AttemptOf(q, p))
<1>1. req' \in [Requests -> LocalStates] /\ req'[r] = q
  BY Types
<1>2. \A u \in Requests : u # r => req'[u] = req[u]
  BY Types
<1>3. \A u \in Requests :
        AttemptsAt(p, req')[u] = Altered(AttemptsAt(p, req), r, AttemptOf(q, p))[u]
  BY <1>1, <1>2 DEF Altered, AttemptsAt, AttemptOf
<1> QED
  BY <1>3 DEF Altered, AttemptsAt

LEMMA RolesView ==
  ASSUME IndInv, NEW r \in Requests, NEW q \in LocalStates, NEW p \in Providers,
         NEW x, req' = [req EXCEPT ![r] = q], role' = [role EXCEPT ![r] = x]
  PROVE  RolesAt(p, req', role') = Altered(RolesAt(p, req, role), r, RoleOf(q, x, p))
<1>1. req' \in [Requests -> LocalStates] /\ req'[r] = q /\ role'[r] = x
  BY Types
<1>2. \A u \in Requests : u # r => req'[u] = req[u] /\ role'[u] = role[u]
  BY Types
<1>3. \A u \in Requests :
        RolesAt(p, req', role')[u]
          = Altered(RolesAt(p, req, role), r, RoleOf(q, x, p))[u]
  BY <1>1, <1>2 DEF Altered, RolesAt, RoleOf, Flying
<1> QED
  BY <1>3 DEF Altered, RolesAt

(* What the instance sees of two views that fit together. *)
LEMMA MoveView ==
  ASSUME NEW r \in Requests, NEW p \in Providers, NEW a, NEW x,
         breakers'[p] = breakers[p],
         AttemptsAt(p, req') = Altered(AttemptsAt(p, req), r, a),
         RolesAt(p, req', role') = Altered(RolesAt(p, req, role), r, x)
  PROVE  AtProvider(p)!Move(r, a, x)
BY DEF Altered, AtProvider!Move, AttemptsAt, RolesAt

LEMMA StutterView ==
  ASSUME NEW p \in Providers,
         breakers'[p] = breakers[p],
         AttemptsAt(p, req') = AttemptsAt(p, req),
         RolesAt(p, req', role') = RolesAt(p, req, role)
  PROVE  StepAt(p)
BY DEF StepAt, AtProvider!vars, AttemptsAt, RolesAt

(* An outcome recorded with one provider is nothing to the others. *)
LEMMA RecordView ==
  ASSUME IndInv, NEW r \in Requests, NEW q \in LocalStates, NEW p \in Providers,
         NEW after, NEW x, Record(r, after, x), req' = [req EXCEPT ![r] = q]
  PROVE  /\ p = req[r].at =>
              AtProvider(p)!Record(r, after, AttemptOf(q, p), RoleOf(q, x, p))
         /\ p # req[r].at =>
              /\ breakers'[p] = breakers[p]
              /\ RolesAt(p, req', role')
                   = Altered(RolesAt(p, req, role), r, RoleOf(q, x, p))
<1>1. req' \in [Requests -> LocalStates] /\ req'[r] = q
  BY Types
<1>2. \A u \in Requests : u # r => req'[u] = req[u]
  BY Types
<1>3. AttemptsAt(p, req') = Altered(AttemptsAt(p, req), r, AttemptOf(q, p))
  BY AttemptsView
<1>4. role' = [u \in Requests |->
                 IF u = r THEN x
                 ELSE IF role[u] = "probe" /\ req[u].at = req[r].at THEN "normal"
                 ELSE role[u]]
  BY DEF Record
<1>5. ASSUME p = req[r].at
      PROVE  AtProvider(p)!Record(r, after, AttemptOf(q, p), RoleOf(q, x, p))
  <2>1. breakers'[p] = after
    BY <1>5, Types DEF Record
  <2>2. \A u \in Requests :
          RolesAt(p, req', role')[u]
            = IF u = r THEN RoleOf(q, x, p)
              ELSE IF RolesAt(p, req, role)[u] = "probe" THEN "normal"
              ELSE RolesAt(p, req, role)[u]
    BY <1>1, <1>2, <1>4, <1>5 DEF RolesAt, RoleOf, Flying
  <2>3. RolesAt(p, req', role')
          = [u \in Requests |-> IF u = r THEN RoleOf(q, x, p)
                                ELSE IF RolesAt(p, req, role)[u] = "probe" THEN "normal"
                                ELSE RolesAt(p, req, role)[u]]
    BY <2>2 DEF RolesAt
  <2> QED
    BY <1>3, <2>1, <2>3 DEF Altered, AtProvider!Record, AttemptsAt, RolesAt
<1>6. ASSUME p # req[r].at
      PROVE  /\ breakers'[p] = breakers[p]
             /\ RolesAt(p, req', role')
                  = Altered(RolesAt(p, req, role), r, RoleOf(q, x, p))
  <2>1. breakers'[p] = breakers[p]
    BY <1>6, Types DEF Record
  <2>2. \A u \in Requests :
          RolesAt(p, req', role')[u]
            = Altered(RolesAt(p, req, role), r, RoleOf(q, x, p))[u]
    BY <1>1, <1>2, <1>4, <1>6 DEF Altered, RolesAt, RoleOf, Flying
  <2> QED
    BY <2>1, <2>2 DEF Altered, RolesAt
<1> QED
  BY <1>5, <1>6

(* A provider that is not talked to sees nothing, or a candidature end.    *)
LEMMA Elsewhere ==
  ASSUME IndInv, NEW r \in Requests, NEW q \in LocalStates, NEW p \in Providers,
         req' = [req EXCEPT ![r] = q],
         breakers'[p] = breakers[p],
         NEW x,
         RolesAt(p, req', role') = Altered(RolesAt(p, req, role), r, RoleOf(q, x, p)),
         p = req[r].at => ~Flying(req[r]),
         p = q.at => ~Flying(q),
         p \in q.cands => p \in req[r].cands
  PROVE  StepAt(p)
<1>1. AttemptsAt(p, req') = Altered(AttemptsAt(p, req), r, AttemptOf(q, p))
  BY AttemptsView
<1>6. AttemptsAt(p, req)[r] = AttemptOf(req[r], p)
  BY DEF AttemptsAt, AttemptOf
<1>2. RoleOf(q, x, p) = "none" /\ RolesAt(p, req, role)[r] = "none"
  BY DEF RoleOf, RolesAt, Flying
<1>3. /\ AttemptOf(q, p) = IF p \in q.cands THEN "candidate" ELSE "idle"
      /\ AttemptOf(req[r], p) = IF p \in req[r].cands THEN "candidate" ELSE "idle"
  BY DEF AttemptOf, Flying
<1>4. CASE AttemptOf(q, p) = AttemptOf(req[r], p)
  <2>1. AttemptsAt(p, req') = AttemptsAt(p, req)
    BY <1>1, <1>6, <1>4 DEF Altered, AttemptsAt
  <2>2. RolesAt(p, req', role') = RolesAt(p, req, role)
    <3>1. RolesAt(p, req', role') = Altered(RolesAt(p, req, role), r, "none")
      BY <1>2
    <3> QED
      BY <1>2, <3>1 DEF Altered, RolesAt
  <2> QED
    BY <2>1, <2>2, StutterView
<1>5. CASE AttemptOf(q, p) # AttemptOf(req[r], p)
  <2>1. AttemptOf(req[r], p) = "candidate" /\ AttemptOf(q, p) = "idle"
    BY <1>3, <1>5
  <2>2. AtProvider(p)!Move(r, "idle", "none")
    BY <1>1, <1>2, <2>1, MoveView
  <2>3. AtProvider(p)!PassOver(r)
    BY <1>6, <2>1, <2>2 DEF AtProvider!PassOver
  <2> QED
    BY <2>3 DEF StepAt, AtProvider!Next, AtProvider!TaskStep
<1> QED
  BY <1>4, <1>5

(* Steps between which nobody is talked to. *)
LEMMA QuietView ==
  ASSUME IndInv, NEW r \in Requests, NEW q \in LocalStates, NEW p \in Providers,
         req' = [req EXCEPT ![r] = q], UNCHANGED <<breakers, role>>,
         ~Flying(req[r]), ~Flying(q), q.cands \subseteq req[r].cands
  PROVE  StepAt(p)
<1>1. role' = [role EXCEPT ![r] = role[r]]
  BY Types
<1>2. RolesAt(p, req', role') = Altered(RolesAt(p, req, role), r, RoleOf(q, role[r], p))
  BY <1>1, RolesView
<1> QED
  BY <1>2, Elsewhere

(* An attempt ends with an outcome, whatever becomes of the candidates.    *)
LEMMA FailureView ==
  ASSUME IndInv, NEW r \in Requests, NEW q \in LocalStates, NEW p \in Providers,
         req' = [req EXCEPT ![r] = q], RecordFailure(r),
         Flying(req[r]), ~Flying(q), q.cands \subseteq req[r].cands
  PROVE  StepAt(p)
<1> DEFINE after == AfterFailure(breakers[req[r].at])
<1>1. Record(r, after, "none")
  BY DEF RecordFailure
<1>2. CASE p # req[r].at
  <2>1. /\ breakers'[p] = breakers[p]
        /\ RolesAt(p, req', role') = Altered(RolesAt(p, req, role), r, RoleOf(q, "none", p))
    BY <1>1, <1>2, RecordView
  <2> QED
    BY <1>2, <2>1, Elsewhere
<1>3. CASE p = req[r].at
  <2>1. p \notin req[r].cands
    BY <1>3 DEF IndInv, Accounted, Flying
  <2>2. AttemptOf(q, p) = "idle" /\ RoleOf(q, "none", p) = "none"
    BY <2>1 DEF AttemptOf, RoleOf, Flying
  <2>3. AtProvider(p)!Record(r, after, "idle", "none")
    <3> HIDE DEF after
    <3>1. AtProvider(p)!Record(r, after, AttemptOf(q, p), RoleOf(q, "none", p))
      BY <1>1, <1>3, RecordView
    <3> QED
      BY <2>2, <3>1
  <2>4. after = AtProvider(p)!AfterFailure(breakers[p])
    BY <1>3 DEF AfterFailure, AtProvider!AfterFailure, WrappingInc, AtProvider!WrappingInc
  <2>5. AttemptsAt(p, req)[r] = IF req[r].pc = "sent" THEN "sent" ELSE "body"
    BY <1>3, <2>1 DEF AttemptsAt, Flying
  <2>6. AtProvider(p)!SendFails(r) \/ AtProvider(p)!BodyFails(r)
    BY <2>3, <2>4, <2>5 DEF AtProvider!SendFails, AtProvider!BodyFails
  <2> QED
    BY <2>6 DEF StepAt, AtProvider!Next, AtProvider!TaskStep
<1> QED
  BY <1>2, <1>3

LEMMA SuccessView ==
  ASSUME IndInv, NEW r \in Requests, NEW q \in LocalStates, NEW p \in Providers,
         NEW x \in {"none", "normal"},
         req' = [req EXCEPT ![r] = q], RecordSuccess(r, x), req[r].pc = "sent",
         \/ x = "none" /\ ~Flying(q)
         \/ x = "normal" /\ q.pc \in {"body", "stream"} /\ q.at = req[r].at,
         q.cands \subseteq req[r].cands
  PROVE  StepAt(p)
<1> DEFINE after == AfterSuccess(breakers[req[r].at])
<1>1. Record(r, after, x)
  BY DEF RecordSuccess
<1>2. CASE p # req[r].at
  <2>1. /\ breakers'[p] = breakers[p]
        /\ RolesAt(p, req', role') = Altered(RolesAt(p, req, role), r, RoleOf(q, x, p))
    BY <1>1, <1>2, RecordView
  <2>2. p = q.at => ~Flying(q)
    BY <1>2 DEF Flying
  <2> QED
    BY <1>2, <2>1, <2>2, Elsewhere
<1>3. CASE p = req[r].at
  <2>1. p \notin req[r].cands
    BY <1>3 DEF IndInv, Accounted
  <2>2. after = AtProvider(p)!AfterSuccess(breakers[p])
    BY <1>3 DEF AfterSuccess, AtProvider!AfterSuccess
  <2>3. AttemptsAt(p, req)[r] = "sent"
    BY <1>3, <2>1 DEF AttemptsAt
  <2>4. AtProvider(p)!Record(r, after, AttemptOf(q, p), RoleOf(q, x, p))
    BY <1>1, <1>3, RecordView
  <2>5. CASE x = "none" /\ ~Flying(q)
    <3>1. AttemptOf(q, p) = "idle" /\ RoleOf(q, x, p) = "none"
      BY <2>1, <2>5 DEF AttemptOf, RoleOf, Flying
    <3>2. AtProvider(p)!ClientError(r)
      BY <2>2, <2>3, <2>4, <3>1 DEF AtProvider!ClientError
    <3> QED
      BY <3>2 DEF StepAt, AtProvider!Next, AtProvider!TaskStep
  <2>6. CASE x = "normal" /\ q.pc \in {"body", "stream"} /\ q.at = req[r].at
    <3>1. AttemptOf(q, p) = "body" /\ RoleOf(q, x, p) = "normal"
      BY <1>3, <2>1, <2>6 DEF AttemptOf, RoleOf, Flying
    <3>2. AtProvider(p)!HeadersOk(r)
      BY <2>2, <2>3, <2>4, <3>1 DEF AtProvider!HeadersOk
    <3> QED
      BY <3>2 DEF StepAt, AtProvider!Next, AtProvider!TaskStep
  <2> QED
    BY <2>5, <2>6
<1> QED
  BY <1>2, <1>3

(* Steps of one request, seen by each provider. *)
LEMMA ArriveView ==
  ASSUME IndInv, NEW r \in Requests, NEW k \in Kinds, NEW p \in Providers, Arrive(r, k)
  PROVE  StepAt(p)
<1> DEFINE phase == IF Key(k) = NoKey THEN "select" ELSE "lookup"
           q == NewRequest(phase, k)
<1>1. q \in LocalStates /\ q.pc = phase
  BY NewRequestLemma
<1>2. q.cands = {}
  BY DEF NewRequest
<1>3. req' = [req EXCEPT ![r] = q] /\ UNCHANGED <<breakers, role>> /\ req[r].pc = "idle"
  BY DEF Arrive
<1> HIDE DEF q
<1>4. ~Flying(q) /\ ~Flying(req[r])
  BY <1>1, <1>3 DEF Flying
<1> QED
  BY <1>1, <1>2, <1>3, <1>4, QuietView

LEMMA EndView ==
  ASSUME IndInv, NEW r \in Requests, NEW p \in Providers,
         CacheHit(r) \/ Settle(r) \/ Leave(r)
  PROVE  StepAt(p)
<1>1. req' = [req EXCEPT ![r] = Idle] /\ UNCHANGED <<breakers, role>>
  BY DEF CacheHit, Settle, Leave
<1>2. ~Flying(req[r])
  BY DEF CacheHit, Settle, Leave, Flying
<1>3. Idle \in LocalStates /\ Idle.cands = {} /\ ~Flying(Idle)
  BY IdleLemma DEF Accounted, Flying
<1> QED
  BY <1>1, <1>2, <1>3, QuietView

LEMMA CacheView ==
  ASSUME IndInv, NEW r \in Requests, NEW p \in Providers, CacheMiss(r) \/ Store(r)
  PROVE  StepAt(p)
<1>1. PICK pc \in {"select", "settle"} :
        req' = [req EXCEPT ![r].pc = pc] /\ UNCHANGED <<breakers, role>>
  BY DEF CacheMiss, Store
<1> DEFINE q == [req[r] EXCEPT !.pc = pc]
<1>2. q \in LocalStates /\ q.pc = pc /\ q.cands = req[r].cands
  BY Types DEF LocalStates
<1>3. req' = [req EXCEPT ![r] = q]
  BY <1>1
<1> HIDE DEF q
<1>4. ~Flying(q) /\ ~Flying(req[r])
  BY <1>2 DEF CacheMiss, Store, Flying
<1> QED
  BY <1>1, <1>2, <1>3, <1>4, QuietView

(* Selection: the provider looked at may become a candidate. *)
LEMMA LookView ==
  ASSUME IndInv, NEW r \in Requests, NEW p \in Providers, Look(r)
  PROVE  StepAt(p)
<1> DEFINE seen == req[r].at
           fit == IsEligible(breakers[seen])
           cands == IF fit THEN req[r].cands \cup {seen} ELSE req[r].cands
           excused == IF fit THEN req[r].excused ELSE req[r].excused \cup {seen}
           at == IF seen < NumProviders THEN seen + 1 ELSE seen
           pc == IF seen < NumProviders THEN "select"
                 ELSE IF cands = {} THEN "failing" ELSE "try"
           q == [req[r] EXCEPT !.cands = cands, !.excused = excused, !.at = at, !.pc = pc]
<1>1. req[r] \in LocalStates /\ Accounted(req[r]) /\ req[r].pc = "select"
  BY DEF IndInv, TypeOK, Look
<1>2. req' = [req EXCEPT ![r] = q] /\ UNCHANGED <<breakers, role>>
  BY DEF Look
<1>3. at \in Providers /\ cands \subseteq Providers /\ excused \subseteq Providers
  BY <1>1, GatewayAssumption DEF LocalStates, Providers
<1> HIDE DEF fit, excused, at
<1>4. q \in LocalStates /\ q.pc = pc /\ q.cands = cands
  BY <1>1, <1>3 DEF LocalStates
<1> HIDE DEF q
<1>5. ~Flying(q) /\ ~Flying(req[r])
  BY <1>1, <1>4 DEF Flying
<1>6. role' = [role EXCEPT ![r] = role[r]]
  BY <1>2, Types
<1>7. RolesAt(p, req', role') = Altered(RolesAt(p, req, role), r, RoleOf(q, role[r], p))
  BY <1>2, <1>4, <1>6, RolesView
<1>8. CASE ~(fit /\ p = seen)
  <2>1. p \in q.cands => p \in req[r].cands
    BY <1>4, <1>8
  <2> QED
    BY <1>2, <1>4, <1>5, <1>7, <2>1, Elsewhere
<1>9. CASE fit /\ p = seen
  <2>1. p \notin req[r].cands
    <3>1. p \in Int /\ req[r].cands \subseteq 1 .. p - 1
      BY <1>1, <1>9, GatewayAssumption DEF Accounted, LocalStates, Providers
    <3> QED
      BY <3>1
  <2>2. AttemptOf(q, p) = "candidate" /\ RoleOf(q, role[r], p) = "none"
    BY <1>4, <1>5, <1>9 DEF AttemptOf, RoleOf
  <2>3. AttemptsAt(p, req') = Altered(AttemptsAt(p, req), r, "candidate")
    BY <1>2, <1>4, <2>2, AttemptsView
  <2>4. AtProvider(p)!Move(r, "candidate", "none")
    BY <1>2, <1>7, <2>2, <2>3, MoveView
  <2>5. AttemptsAt(p, req)[r] = "idle"
    BY <1>1, <2>1 DEF AttemptsAt
  <2>6. AtProvider(p)!IsEligible(breakers[p])
    BY <1>9 DEF fit, IsEligible, CooledDown, MaxProbes, AtProvider!IsEligible,
         AtProvider!CooledDown, AtProvider!MaxProbes
  <2>7. AtProvider(p)!Select(r)
    BY <2>4, <2>5, <2>6 DEF AtProvider!Select
  <2> QED
    BY <2>7 DEF StepAt, AtProvider!Next, AtProvider!TaskStep
<1> QED
  BY <1>8, <1>9

LEMMA AllowsView ==
  ASSUME NEW p \in Providers
  PROVE  /\ AtProvider(p)!Allows(breakers[p]) <=> Allows(breakers[p])
         /\ AtProvider(p)!AfterAllow(breakers[p]) = AfterAllow(breakers[p])
BY DEF Allows, CooledDown, MaxProbes, AfterAllow, AtProvider!Allows,
     AtProvider!CooledDown, AtProvider!MaxProbes, AtProvider!AfterAllow

LEMMA AdmitView ==
  ASSUME IndInv, NEW r \in Requests, NEW c \in Providers, NEW p \in Providers, Admit(r, c)
  PROVE  StepAt(p)
<1> DEFINE q == [req[r] EXCEPT !.pc = "sent", !.at = c, !.cands = @ \ {c}]
           x == IF breakers'[c].state = "HalfOpen" THEN "probe" ELSE "normal"
<1>1. req[r] \in LocalStates /\ req[r].pc = "try" /\ c \in req[r].cands
  BY DEF IndInv, TypeOK, Admit, IsNext
<1>2. /\ q \in LocalStates /\ q.pc = "sent" /\ q.at = c
      /\ q.cands = req[r].cands \ {c}
  BY <1>1 DEF LocalStates
<1>3. /\ req' = [req EXCEPT ![r] = q]
      /\ role' = [role EXCEPT ![r] = x]
      /\ breakers' = [breakers EXCEPT ![c] = AfterAllow(@)]
      /\ Allows(breakers[c])
  BY DEF Admit
<1> HIDE DEF q
<1>4. ~Flying(req[r])
  BY <1>1 DEF Flying
<1>5. CASE p # c
  <2> HIDE DEF x
  <2>1. RolesAt(p, req', role') = Altered(RolesAt(p, req, role), r, RoleOf(q, x, p))
    BY <1>2, <1>3, RolesView
  <2>2. breakers'[p] = breakers[p]
    BY <1>3, <1>5, Types
  <2> QED
    BY <1>2, <1>3, <1>4, <1>5, <2>1, <2>2, Elsewhere
<1>6. CASE p = c
  <2>1. breakers'[p] = AfterAllow(breakers[p])
    BY <1>3, <1>6, Types
  <2>2. AttemptOf(q, p) = "sent" /\ RoleOf(q, x, p) = x
    BY <1>2, <1>6 DEF AttemptOf, RoleOf, Flying
  <2>3. AttemptsAt(p, req') = Altered(AttemptsAt(p, req), r, "sent")
    BY <1>2, <1>3, <2>2, AttemptsView
  <2>4. RolesAt(p, req', role') = Altered(RolesAt(p, req, role), r, x)
    <3> HIDE DEF x
    <3>1. RolesAt(p, req', role') = Altered(RolesAt(p, req, role), r, RoleOf(q, x, p))
      BY <1>2, <1>3, RolesView
    <3> QED
      BY <2>2, <3>1
  <2>5. AttemptsAt(p, req)[r] = "candidate"
    BY <1>1, <1>6 DEF AttemptsAt
  <2>6. AtProvider(p)!Admit(r)
    BY <1>3, <1>6, <2>1, <2>3, <2>4, <2>5, AllowsView
       DEF AtProvider!Admit, Altered, AttemptsAt, RolesAt
  <2> QED
    BY <2>6 DEF StepAt, AtProvider!Next, AtProvider!TaskStep
<1> QED
  BY <1>5, <1>6

LEMMA DenyView ==
  ASSUME IndInv, NEW r \in Requests, NEW c \in Providers, NEW p \in Providers, Deny(r, c)
  PROVE  StepAt(p)
<1>1. /\ req[r].pc = "try" /\ c \in req[r].cands /\ ~Allows(breakers[c])
      /\ TryNextAfter(r, c) /\ UNCHANGED <<breakers, role>>
  BY DEF Deny, IsNext
<1>2. PICK q : GoesTo(r, q) /\ q.pc \in {"try", "failing"} /\ q.cands = req[r].cands \ {c}
  BY <1>1, TryNextLemma
<1>3. /\ q \in LocalStates /\ req' = [req EXCEPT ![r] = q]
      /\ ~Flying(q) /\ ~Flying(req[r])
  BY <1>1, <1>2 DEF GoesTo, Flying
<1>4. CASE p # c
  BY <1>1, <1>2, <1>3, QuietView
<1>5. CASE p = c
  <2>1. AttemptOf(q, p) = "idle" /\ RoleOf(q, role[r], p) = "none"
    BY <1>2, <1>3, <1>5 DEF AttemptOf, RoleOf, Flying
  <2>2. AttemptsAt(p, req') = Altered(AttemptsAt(p, req), r, "idle")
    BY <1>3, <2>1, AttemptsView
  <2>3. role' = [role EXCEPT ![r] = role[r]]
    BY <1>1, Types
  <2>4. RolesAt(p, req', role') = Altered(RolesAt(p, req, role), r, "none")
    <3>1. RolesAt(p, req', role')
            = Altered(RolesAt(p, req, role), r, RoleOf(q, role[r], p))
      BY <1>3, <2>3, RolesView
    <3> QED
      BY <2>1, <3>1
  <2>5. AtProvider(p)!Move(r, "idle", "none")
    BY <1>1, <2>2, <2>4, MoveView
  <2>6. AttemptsAt(p, req)[r] = "candidate"
    BY <1>1, <1>5 DEF AttemptsAt
  <2>7. AtProvider(p)!Deny(r)
    BY <1>1, <1>5, <2>5, <2>6, AllowsView DEF AtProvider!Deny
  <2> QED
    BY <2>7 DEF StepAt, AtProvider!Next, AtProvider!TaskStep
<1> QED
  BY <1>4, <1>5

LEMMA LeavingLemma ==
  ASSUME IndInv, NEW r \in Requests
  PROVE  /\ NewRequest("leaving", req[r].kind) \in LocalStates
         /\ ~Flying(NewRequest("leaving", req[r].kind))
         /\ NewRequest("leaving", req[r].kind).cands = {}
<1>1. req[r].kind \in Kinds
  BY Types DEF LocalStates
<1>2. NewRequest("leaving", req[r].kind).pc = "leaving"
  BY <1>1, NewRequestLemma
<1>3. NewRequest("leaving", req[r].kind).cands = {}
  BY DEF NewRequest
<1> QED
  BY <1>1, <1>2, <1>3, NewRequestLemma DEF Flying

(* Attempts that fail: the request goes on or gives up. *)
LEMMA FailingView ==
  ASSUME IndInv, NEW r \in Requests, NEW p \in Providers,
         \/ SendFails(r) \/ Unexpected(r) \/ BodyFails(r)
         \/ EmbeddingsBodyFails(r) \/ StreamBreaks(r)
  PROVE  StepAt(p)
<1>1. RecordFailure(r) /\ Flying(req[r]) /\ req[r].at \in Providers
  BY Types DEF SendFails, Unexpected, BodyFails, EmbeddingsBodyFails, StreamBreaks,
     Flying, LocalStates
<1>2. CASE SendFails(r) \/ Unexpected(r) \/ BodyFails(r)
  <2>1. req[r].pc \in {"sent", "body"} /\ TryNextAfter(r, req[r].at)
    BY <1>2 DEF SendFails, Unexpected, BodyFails
  <2>2. PICK q : /\ GoesTo(r, q) /\ q.pc \in {"try", "failing"}
                 /\ q.cands = req[r].cands \ {req[r].at}
    BY <1>1, <2>1, TryNextLemma
  <2>3. q \in LocalStates /\ req' = [req EXCEPT ![r] = q] /\ ~Flying(q)
    BY <2>2 DEF GoesTo, Flying
  <2>4. q.cands \subseteq req[r].cands
    BY <2>2
  <2> QED
    BY <1>1, <2>3, <2>4, FailureView
<1>3. CASE EmbeddingsBodyFails(r)
  <2> DEFINE q == [req[r] EXCEPT !.pc = "failing", !.cands = {}]
  <2>1. q \in LocalStates /\ q.pc = "failing" /\ q.cands = {}
    BY Types DEF LocalStates
  <2>2. req' = [req EXCEPT ![r] = q]
    BY <1>3 DEF EmbeddingsBodyFails
  <2> HIDE DEF q
  <2>3. ~Flying(q) /\ q.cands \subseteq req[r].cands
    BY <2>1 DEF Flying
  <2> QED
    BY <1>1, <2>1, <2>2, <2>3, FailureView
<1>4. CASE StreamBreaks(r)
  <2> DEFINE q == NewRequest("leaving", req[r].kind)
  <2>1. q \in LocalStates /\ ~Flying(q) /\ q.cands = {}
    BY LeavingLemma
  <2>2. req' = [req EXCEPT ![r] = q]
    BY <1>4 DEF StreamBreaks
  <2> HIDE DEF q
  <2>3. ~Flying(q) /\ q.cands \subseteq req[r].cands
    BY <2>1
  <2> QED
    BY <1>1, <2>1, <2>2, <2>3, FailureView
<1> QED
  BY <1>2, <1>3, <1>4

(* A good or an unusable answer: the provider's breaker counts a success.  *)
LEMMA AnsweredView ==
  ASSUME IndInv, NEW r \in Requests, NEW p \in Providers,
         Rejected(r) \/ \E class \in {"2xx", "other"} : HeadersOk(r, class)
  PROVE  StepAt(p)
<1>1. req[r] \in LocalStates /\ req[r].pc = "sent"
  BY Types DEF Rejected, HeadersOk
<1>2. CASE Rejected(r)
  <2> DEFINE q == NewRequest("leaving", req[r].kind)
  <2>1. q \in LocalStates /\ ~Flying(q) /\ q.cands = {}
    BY LeavingLemma
  <2>2. req' = [req EXCEPT ![r] = q] /\ RecordSuccess(r, "none")
    BY <1>2 DEF Rejected
  <2> HIDE DEF q
  <2>3. q.cands \subseteq req[r].cands
    BY <2>1
  <2> QED
    BY <1>1, <2>1, <2>2, <2>3, SuccessView
<1>3. ASSUME NEW class \in {"2xx", "other"}, HeadersOk(r, class)
      PROVE  StepAt(p)
  <2> DEFINE streamed == req[r].kind.stream
             q == [req[r] EXCEPT !.reply = class,
                                 !.pc = IF streamed THEN "stream" ELSE "body",
                                 !.cands = IF streamed THEN {} ELSE @]
  <2>1. req' = [req EXCEPT ![r] = q] /\ RecordSuccess(r, "normal")
    BY <1>3 DEF HeadersOk
  <2> HIDE DEF streamed
  <2>2. /\ q \in LocalStates /\ q.pc \in {"body", "stream"}
        /\ q.at = req[r].at /\ q.cands \subseteq req[r].cands
    BY <1>1 DEF LocalStates
  <2> HIDE DEF q
  <2> QED
    BY <1>1, <2>1, <2>2, SuccessView
<1> QED
  BY <1>2, <1>3

(* A body or a stream ends, or the client leaves: nothing is recorded. *)
LEMMA UnrecordedView ==
  ASSUME IndInv, NEW r \in Requests, NEW q \in LocalStates, NEW p \in Providers,
         req' = [req EXCEPT ![r] = q], role' = [role EXCEPT ![r] = "none"],
         UNCHANGED breakers, ~Flying(q), q.cands = {},
         req[r].pc \in {"body", "stream"} \/ ClientsCancel
  PROVE  StepAt(p)
<1>1. RolesAt(p, req', role')
        = Altered(RolesAt(p, req, role), r, RoleOf(q, "none", p))
  BY RolesView
<1>2. CASE p = req[r].at /\ Flying(req[r])
  <2>1. AttemptOf(q, p) = "idle" /\ RoleOf(q, "none", p) = "none"
    BY DEF AttemptOf, RoleOf, Flying
  <2>2. AttemptsAt(p, req') = Altered(AttemptsAt(p, req), r, "idle")
    BY <2>1, AttemptsView
  <2>3. AtProvider(p)!Move(r, "idle", "none")
    BY <1>1, <2>1, <2>2, MoveView
  <2>4. p \notin req[r].cands
    BY <1>2 DEF IndInv, Accounted, Flying
  <2>5. AttemptsAt(p, req)[r] = IF req[r].pc = "sent" THEN "sent" ELSE "body"
    BY <1>2, <2>4 DEF AttemptsAt, Flying
  <2>6. AtProvider(p)!BodyDone(r) \/ AtProvider(p)!Cancel(r)
    BY <2>3, <2>5 DEF AtProvider!BodyDone, AtProvider!Cancel, AtProvider!InFlight
  <2> QED
    BY <2>6 DEF StepAt, AtProvider!Next, AtProvider!TaskStep
<1>3. CASE ~(p = req[r].at /\ Flying(req[r]))
  BY <1>1, <1>3, Elsewhere
<1> QED
  BY <1>2, <1>3

LEMMA BodyReadView ==
  ASSUME IndInv, NEW r \in Requests, NEW p \in Providers,
         NEW used \in Usages \cup {Unknown}, BodyRead(r, used)
  PROVE  StepAt(p)
<1> DEFINE next == IF Key(req[r].kind) = NoKey THEN "settle" ELSE "store"
           q == [req[r] EXCEPT !.usage = used, !.cands = {}, !.pc = next]
<1>1. /\ req' = [req EXCEPT ![r] = q] /\ role' = [role EXCEPT ![r] = "none"]
      /\ UNCHANGED breakers /\ req[r].pc = "body"
  BY DEF BodyRead
<1>2. req[r] \in LocalStates
  BY Types
<1>3. next \in {"settle", "store"}
  OBVIOUS
<1> HIDE DEF next
<1>4. q \in LocalStates /\ q.pc = next /\ q.cands = {}
  BY <1>2, <1>3 DEF LocalStates
<1> HIDE DEF q
<1>5. ~Flying(q)
  BY <1>3, <1>4 DEF Flying
<1> QED
  BY <1>1, <1>4, <1>5, UnrecordedView

LEMMA GoneView ==
  ASSUME IndInv, NEW r \in Requests, NEW p \in Providers, StreamEnds(r) \/ Cancel(r)
  PROVE  StepAt(p)
<1> DEFINE q == NewRequest("leaving", req[r].kind)
<1>1. q \in LocalStates /\ ~Flying(q) /\ q.cands = {}
  BY LeavingLemma
<1>2. /\ req' = [req EXCEPT ![r] = q] /\ role' = [role EXCEPT ![r] = "none"]
      /\ UNCHANGED breakers /\ (req[r].pc \in {"body", "stream"} \/ ClientsCancel)
  BY DEF StreamEnds, Cancel
<1> HIDE DEF q
<1> QED
  BY <1>1, <1>2, UnrecordedView

(* Time passes for every breaker, or has no more to say to this one. *)
LEMMA TickView ==
  ASSUME IndInv, NEW p \in Providers, Tick
  PROVE  StepAt(p)
<1>1. breakers'[p] = AfterTick(breakers[p]) /\ UNCHANGED <<req, role>>
  BY DEF Tick
<1>2. AtProvider(p)!AfterTick(breakers[p]) = AfterTick(breakers[p])
  BY DEF AfterTick, Never, AtProvider!AfterTick, AtProvider!Never
<1>3. AttemptsAt(p, req') = AttemptsAt(p, req)
  BY <1>1
<1>4. RolesAt(p, req', role') = RolesAt(p, req, role)
  BY <1>1
<1>5. CASE breakers'[p] = breakers[p]
  BY <1>3, <1>4, <1>5, StutterView
<1>6. CASE breakers'[p] # breakers[p]
  <2>1. AtProvider(p)!Tick
    BY <1>1, <1>2, <1>3, <1>4, <1>6 DEF AtProvider!Tick, AttemptsAt, RolesAt
  <2> QED
    BY <2>1 DEF StepAt, AtProvider!Next
<1> QED
  BY <1>5, <1>6

LEMMA OtherView ==
  ASSUME NEW p \in Providers, UNCHANGED <<breakers, req, role>>
  PROVE  StepAt(p)
<1>1. AttemptsAt(p, req') = AttemptsAt(p, req)
  OBVIOUS
<1>2. RolesAt(p, req', role') = RolesAt(p, req, role)
  OBVIOUS
<1> QED
  BY <1>1, <1>2, StutterView

LEMMA NextView ==
  ASSUME IndInv, [Next]_vars, NEW p \in Providers
  PROVE  StepAt(p)
<1>1. CASE UNCHANGED vars
  BY <1>1, OtherView DEF vars
<1>2. CASE Tick
  BY <1>2, TickView
<1>3. CASE \E payload \in Payloads : Evict(payload)
  BY <1>3, OtherView DEF Evict
<1>4. ASSUME NEW r \in Requests, \E k \in Kinds : Arrive(r, k)
      PROVE  StepAt(p)
  BY <1>4, ArriveView
<1>5. ASSUME NEW r \in Requests, \E used \in Usages : StreamUsage(r, used)
      PROVE  StepAt(p)
  BY <1>5, OtherView DEF StreamUsage
<1>6. ASSUME NEW r \in Requests, Work(r)
      PROVE  StepAt(p)
  BY <1>6, EndView, CacheView, LookView, AdmitView, DenyView DEF Work
<1>7. ASSUME NEW r \in Requests, Upstream(r)
      PROVE  StepAt(p)
  BY <1>7, FailingView, AnsweredView, BodyReadView, GoneView DEF Upstream
<1>8. ASSUME NEW r \in Requests, Cancel(r)
      PROVE  StepAt(p)
  BY <1>8, GoneView
<1> QED
  BY <1>1, <1>2, <1>3, <1>4, <1>5, <1>6, <1>7, <1>8 DEF Next

LEMMA InitView ==
  ASSUME Init, NEW p \in Providers
  PROVE  AtProvider(p)!Init
<1>1. breakers[p] = AtProvider(p)!NewBreaker
  BY DEF Init, NewBreaker, Never, AtProvider!NewBreaker, AtProvider!Never
<1>2. Idle.pc = "idle" /\ Idle.cands = {}
  BY IdleLemma DEF Accounted
<1>3. AttemptsAt(p, req) = [r \in Requests |-> "idle"]
  BY <1>2 DEF Init, AttemptsAt
<1>4. RolesAt(p, req, role) = [r \in Requests |-> "none"]
  BY <1>2 DEF Init, RolesAt
<1> QED
  BY <1>1, <1>3, <1>4 DEF AtProvider!Init, AttemptsAt, RolesAt

(* The handlers, concurrent and failing over as they please, use every     *)
(* provider's breaker as CircuitBreaker says that requests do, so what is  *)
(* proved of a breaker there holds of each of the gateway's.               *)
THEOREM HandlersUseBreakers == Spec => UsesBreakers
<1>1. Init => \A p \in Providers : AtProvider(p)!Init
  BY InitView
<1>2. IndInv /\ [Next]_vars =>
        [\A p \in Providers :
           UNCHANGED AtProvider(p)!vars \/ AtProvider(p)!Next]_vars
  BY NextView DEF StepAt
<1> QED
  BY <1>1, <1>2, Invariance, PTL DEF Spec, UsesBreakers
----------------------------------------------------------------------------
(* One provider, any of them: what CircuitBreakerProofs shows of a breaker *)
(* and its requests holds of this one and the handlers seen from it.       *)
CONSTANT Watched

Seen == INSTANCE CircuitBreakerProofs WITH
  Tasks <- Requests,
  breaker <- breakers[Watched],
  attempt <- AttemptsAt(Watched, req),
  role <- RolesAt(Watched, req, role)

LEMMA SeenAssumptions == Seen!TasksAssumption /\ Seen!BreakerAssumption
BY GatewayAssumption, BreakerAssumption
   DEF Seen!TasksAssumption, Seen!BreakerAssumption, IsFiniteSet, Seen!IsFiniteSet

(* Seen is AtProvider(Watched): the operations, and with them the steps.   *)
LEMMA SeenOperations ==
  ASSUME NEW b
  PROVE  /\ Seen!IsEligible(b) = AtProvider(Watched)!IsEligible(b)
         /\ Seen!Allows(b) = AtProvider(Watched)!Allows(b)
         /\ Seen!AfterAllow(b) = AtProvider(Watched)!AfterAllow(b)
         /\ Seen!AfterSuccess(b) = AtProvider(Watched)!AfterSuccess(b)
         /\ Seen!AfterFailure(b) = AtProvider(Watched)!AfterFailure(b)
         /\ Seen!AfterTick(b) = AtProvider(Watched)!AfterTick(b)
BY DEF Seen!IsEligible, AtProvider!IsEligible, Seen!Allows, AtProvider!Allows,
       Seen!AfterAllow, AtProvider!AfterAllow,
       Seen!AfterSuccess, AtProvider!AfterSuccess,
       Seen!AfterFailure, AtProvider!AfterFailure,
       Seen!AfterTick, AtProvider!AfterTick,
       Seen!CooledDown, AtProvider!CooledDown, Seen!MaxProbes, AtProvider!MaxProbes,
       Seen!WrappingInc, AtProvider!WrappingInc, Seen!Never, AtProvider!Never

LEMMA SeenInit == AtProvider(Watched)!Init => Seen!Init
BY DEF Seen!Init, AtProvider!Init, Seen!NewBreaker, AtProvider!NewBreaker,
       Seen!Never, AtProvider!Never

LEMMA SeenStep == StepAt(Watched) => [Seen!Next]_(Seen!vars)
<1>1. ASSUME AtProvider(Watched)!Tick PROVE Seen!Tick
  BY <1>1, SeenOperations DEF AtProvider!Tick, Seen!Tick
<1>2. ASSUME NEW r \in Requests, AtProvider(Watched)!TaskStep(r)
      PROVE  Seen!TaskStep(r)
  BY <1>2, SeenOperations
     DEF AtProvider!TaskStep, Seen!TaskStep,
         AtProvider!Move, Seen!Move, AtProvider!Record, Seen!Record,
         AtProvider!InFlight, Seen!InFlight,
         AtProvider!Select, Seen!Select, AtProvider!PassOver, Seen!PassOver,
         AtProvider!Deny, Seen!Deny, AtProvider!Admit, Seen!Admit,
         AtProvider!SendFails, Seen!SendFails,
         AtProvider!ClientError, Seen!ClientError,
         AtProvider!HeadersOk, Seen!HeadersOk,
         AtProvider!BodyDone, Seen!BodyDone, AtProvider!BodyFails, Seen!BodyFails,
         AtProvider!Cancel, Seen!Cancel
<1>3. UNCHANGED AtProvider(Watched)!vars => UNCHANGED Seen!vars
  BY DEF AtProvider!vars, Seen!vars
<1> QED
  BY <1>1, <1>2, <1>3 DEF StepAt, AtProvider!Next, Seen!Next

LEMMA SeenSpec ==
  ASSUME Watched \in Providers
  PROVE  Spec => Seen!Spec
<1>1. Init => Seen!Init
  BY InitView, SeenInit
<1>2. IndInv /\ [Next]_vars => [Seen!Next]_(Seen!vars)
  BY NextView, SeenStep
<1> QED
  BY <1>1, <1>2, Invariance, PTL DEF Spec, Seen!Spec

(* However many requests fail over between however many providers, each    *)
(* provider's breaker keeps its contract: nothing is sent there before the *)
(* cooldown after the last failure is over, a trial lets in a bounded      *)
(* number of requests, and the first outcome ends it.                      *)
THEOREM BreakersKeepContracts ==
  ASSUME Watched \in Providers
  PROVE  Spec => Seen!KeepsContract
BY SeenAssumptions, SeenSpec, Seen!ImplementsContract, PTL

(* No provider on trial has more probes of the gateway's in flight than    *)
(* the slots of its breaker and one, whichever handlers they come from.    *)
THEOREM TrialsAreBounded ==
  ASSUME Watched \in Providers
  PROVE  Spec => []Seen!ProbesBounded
BY SeenAssumptions, SeenSpec, Seen!TrialsAreBounded, PTL

(* No provider is used with a record that should have tripped its breaker, *)
(* whatever outcomes the handlers of both kinds record and in which order. *)
THEOREM ClosedBelowThreshold ==
  ASSUME Watched \in Providers
  PROVE  Spec => []Seen!ClosedIsBelowThreshold
BY SeenAssumptions, SeenSpec, Seen!ClosedBelowThreshold, PTL

(* The handlers take slots by allow_request alone and report every attempt *)
(* of a client that stays: no provider loses a slot to failover.           *)
THEOREM NoSlotIsLost ==
  ASSUME Watched \in Providers, ~ClientsCancel
  PROVE  Spec => []Seen!SlotsAreHeld
BY SeenAssumptions, SeenSpec, Seen!NoSlotIsLost, PTL

----------------------------------------------------------------------------
(* The client's budget, which any number of handlers draw on. *)
LEMMA WorkBudget ==
  ASSUME IndInv, NEW r \in Requests, Work(r)
  PROVE  [Limiter!Next]_Limiter!vars
<1>1. CASE CacheHit(r) \/ Leave(r)
  <2>1. Limiter!Settle(r, 0) \/ UNCHANGED <<level, held>>
    BY <1>1 DEF CacheHit, Leave
  <2> QED
    BY <2>1 DEF Limiter!Next, Limiter!vars
<1>2. CASE Settle(r)
  <2>1. req[r].usage \in Usages \cup {Unknown}
    BY Types DEF LocalStates
  <2>2. \E used \in Usages \cup {0} : Limiter!Settle(r, used)
    BY <1>2, <2>1 DEF Settle
  <2> QED
    BY <2>2 DEF Limiter!Next
<1>3. CASE \/ CacheMiss(r) \/ Look(r) \/ Store(r)
           \/ \E p \in Providers : Admit(r, p) \/ Deny(r, p)
  BY <1>3 DEF CacheMiss, Look, Store, Admit, Deny, Limiter!vars
<1> QED
  BY <1>1, <1>2, <1>3 DEF Work

LEMMA UpstreamBudget ==
  ASSUME NEW r \in Requests, Upstream(r) \/ Cancel(r)
  PROVE  UNCHANGED Limiter!vars
BY DEF Upstream, Cancel, SendFails, Rejected, Unexpected, HeadersOk, BodyRead,
       BodyFails, EmbeddingsBodyFails, StreamEnds, StreamBreaks, Limiter!vars

LEMMA NextBudget == IndInv /\ [Next]_vars => [Limiter!Next]_Limiter!vars
<1> SUFFICES ASSUME IndInv, [Next]_vars PROVE [Limiter!Next]_Limiter!vars
  OBVIOUS
<1>1. CASE Tick
  BY <1>1 DEF Tick, Limiter!Next
<1>2. CASE \E payload \in Payloads : Evict(payload)
  BY <1>2 DEF Evict, Limiter!vars
<1>3. ASSUME NEW r \in Requests, NEW k \in Kinds, Arrive(r, k)
      PROVE  Limiter!Next
  BY <1>3 DEF Arrive, Limiter!Next
<1>4. ASSUME NEW r \in Requests, NEW used \in Usages, StreamUsage(r, used)
      PROVE  Limiter!Next
  BY <1>4 DEF StreamUsage, Limiter!Next
<1>5. CASE UNCHANGED vars
  BY <1>5 DEF vars, Limiter!vars
<1> QED
  BY <1>1, <1>2, <1>3, <1>4, <1>5, WorkBudget, UpstreamBudget DEF Next

(* What the handlers do with the budget is what EagerLimiter lets requests *)
(* do, and TpmLimiterProofs shows that the real bucket lets them do that:  *)
(* a retried, cached, broken-off or abandoned request is settled once, and *)
(* only when its reservation is held.                                      *)
THEOREM BudgetIsLimiters == Spec => Limiter!Spec
<1>1. Init => Limiter!Init
  BY DEF Init
<1>2. IndInv /\ [Next]_vars => [Limiter!Next]_Limiter!vars
  BY NextBudget
<1> QED
  BY <1>1, <1>2, Invariance, PTL DEF Spec, Limiter!Spec
=============================================================================

------------------------------ MODULE Gateway ------------------------------
(***************************************************************************)
(* The chat and embeddings handlers: concurrent requests of one client     *)
(* over the providers' circuit breakers, the client's token budget and the *)
(* exact cache.                                                            *)
(*                                                                         *)
(* A handler is a sequence of steps, cut where another thread can run: at  *)
(* each lock it takes and at each await.  Selection reads one breaker at a *)
(* time.  A request that leaves its handler without having settled its     *)
(* reservation drops it in a step of its own.                              *)
(*                                                                         *)
(* Breakers are the operators of Breaker.  The budget is EagerLimiter's,   *)
(* which the lazily refilled bucket of the code implements (TpmLimiter).   *)
(* A request refused by the budget is answered at once and changes nothing *)
(* here.                                                                   *)
(***************************************************************************)
EXTENDS Breaker, FiniteSets

CONSTANTS
  Requests,       \* the handlers that may run at one time
  NumProviders,   \* providers are numbered in the order of their priority
  Kinds,          \* the requests clients make
  Payloads,       \* what they ask, with model, messages and settings
  Usages,         \* the token usages providers report
  Capacity,       \* the client's budget ...
  RefillPerTick,  \* ... and its refill
  ClientsCancel   \* whether clients disconnect

NoKey == "no key"

(* A request is to one of the handlers, streamed or not, with an estimated *)
(* cost and a temperature of which only the sign matters.                  *)
ASSUME GatewayAssumption ==
  /\ IsFiniteSet(Requests)
  /\ NumProviders \in Nat \ {0}
  /\ Capacity \in Nat /\ RefillPerTick \in Nat /\ Usages \subseteq Nat
  /\ ClientsCancel \in BOOLEAN
  /\ Kinds # {}
  /\ \A k \in Kinds :
       /\ k.handler \in {"chat", "embeddings"}
       /\ k.stream \in BOOLEAN
       /\ k.temperature \in Int
       /\ k.payload \in Payloads
       /\ k.cost \in Nat
       /\ k.handler = "embeddings" => ~k.stream

(* compute_key: the payload in which nothing is left to chance. *)
Key(k) ==
  IF k.handler = "chat" /\ ~k.stream /\ ~(k.temperature > 0) THEN k.payload ELSE NoKey

Providers == 1 .. NumProviders

VARIABLES
  breakers,  \* circuit_breakers: one per provider
  level,     \* what the client's tpm bucket holds
  held,      \* what each request has reserved
  cache,     \* exact_cache: the class of the response under each key
  req,       \* the local state of each request's handler
  role       \* history: as in CircuitBreaker, of the attempt in flight

vars == <<breakers, level, held, cache, req, role>>

Limiter == INSTANCE EagerLimiter
             WITH Tasks <- Requests, Costs <- {k.cost : k \in Kinds}

Absent == "absent"
Unknown == -1

(* The local state of a handler: where it is (pc), the provider it looks   *)
(* at or talks to (at), the candidates it has yet to try, the class of the *)
(* last response headers, the usage found in the body, and, as history,    *)
(* the providers that it found unfit or that failed it.                    *)
NewRequest(phase, k) ==
  [ pc |-> phase, kind |-> k, at |-> 1, cands |-> {},
    reply |-> "none", usage |-> Unknown, excused |-> {} ]

Idle == NewRequest("idle", CHOOSE k \in Kinds : TRUE)

Init ==
  /\ breakers = [p \in Providers |-> NewBreaker]
  /\ Limiter!Init
  /\ cache = [payload \in Payloads |-> Absent]
  /\ req = [r \in Requests |-> Idle]
  /\ role = [r \in Requests |-> "none"]

InFlight(r) == req[r].pc \in {"sent", "body", "stream"}

(* r records an outcome with the provider it talks to.  It ends the        *)
(* provider's trial, so no other request there is a probe from here on.    *)
Record(r, after, newRole) ==
  /\ breakers' = [breakers EXCEPT ![req[r].at] = after]
  /\ role' = [u \in Requests |->
                IF u = r THEN newRole
                ELSE IF role[u] = "probe" /\ req[u].at = req[r].at THEN "normal"
                ELSE role[u]]

RecordSuccess(r, newRole) == Record(r, AfterSuccess(breakers[req[r].at]), newRole)
RecordFailure(r) == Record(r, AfterFailure(breakers[req[r].at]), "none")

(* mutant: the provider that failed stays on the list *)
TryNextForever(r, p) ==
  req' = [req EXCEPT ![r].pc = "try", ![r].cands = @ \cup {p},
                     ![r].excused = @ \cup {p}]

(* r gives up on provider p: it goes on to the next candidate, or fails    *)
(* with a 502 if that was the last one.                                    *)
TryNextAfter(r, p) ==
  LET rest == req[r].cands \ {p} IN
  req' = [req EXCEPT ![r].pc = IF rest = {} THEN "failing" ELSE "try",
                     ![r].cands = rest,
                     ![r].excused = @ \cup {p}]

----------------------------------------------------------------------------
(* The request is admitted: its reservation is granted. *)
Arrive(r, k) ==
  /\ req[r].pc = "idle"
  /\ Limiter!Reserve(r, k.cost)
  /\ req' = [req EXCEPT ![r] =
               NewRequest(IF Key(k) = NoKey THEN "select" ELSE "lookup", k)]
  /\ UNCHANGED <<breakers, cache, role>>

(* The cached response is the answer and the whole reservation goes back.  *)
CacheHit(r) ==
  /\ req[r].pc = "lookup"
  /\ cache[Key(req[r].kind)] # Absent
  /\ Limiter!Settle(r, 0)
  /\ req' = [req EXCEPT ![r] = Idle]
  /\ UNCHANGED <<breakers, cache, role>>

CacheMiss(r) ==
  /\ req[r].pc = "lookup"
  /\ cache[Key(req[r].kind)] = Absent
  /\ req' = [req EXCEPT ![r].pc = "select"]
  /\ UNCHANGED <<breakers, level, held, cache, role>>

LookByAllowing(r) ==  \* mutant: selection takes a probe slot, as it once did
  LET p == req[r].at
      fit == Allows(breakers[p])
      cands == IF fit THEN req[r].cands \cup {p} ELSE req[r].cands
  IN
  /\ req[r].pc = "select"
  /\ breakers' = IF fit THEN [breakers EXCEPT ![p] = AfterAllow(@)] ELSE breakers
  /\ req' = [req EXCEPT ![r].cands = cands,
                        ![r].excused = IF fit THEN @ ELSE @ \cup {p},
                        ![r].at = IF p < NumProviders THEN p + 1 ELSE p,
                        ![r].pc = IF p < NumProviders THEN "select"
                                  ELSE IF cands = {} THEN "failing" ELSE "try"]
  /\ UNCHANGED <<level, held, cache, role>>

(* select_ordered reads one provider's breaker; after the last one the     *)
(* request starts on its candidates, or fails if there are none.           *)
Look(r) ==
  LET p == req[r].at
      fit == IsEligible(breakers[p])
      cands == IF fit THEN req[r].cands \cup {p} ELSE req[r].cands
  IN
  /\ req[r].pc = "select"
  /\ req' = [req EXCEPT ![r].cands = cands,
                        ![r].excused = IF fit THEN @ ELSE @ \cup {p},
                        ![r].at = IF p < NumProviders THEN p + 1 ELSE p,
                        ![r].pc = IF p < NumProviders THEN "select"
                                  ELSE IF cands = {} THEN "failing" ELSE "try"]
  /\ UNCHANGED <<breakers, level, held, cache, role>>

IsNextInAnyOrder(r, p) == p \in req[r].cands  \* mutant: priorities ignored

(* The candidates are tried in the order of their priority. *)
IsNext(r, p) == p \in req[r].cands /\ \A q \in req[r].cands : p <= q

(* allow_request grants and the request is sent. *)
Admit(r, p) ==
  /\ req[r].pc = "try"
  /\ IsNext(r, p)
  /\ Allows(breakers[p])
  /\ breakers' = [breakers EXCEPT ![p] = AfterAllow(@)]
  /\ role' = [role EXCEPT ![r] =
                IF breakers'[p].state = "HalfOpen" THEN "probe" ELSE "normal"]
  /\ req' = [req EXCEPT ![r].pc = "sent", ![r].at = p, ![r].cands = @ \ {p}]
  /\ UNCHANGED <<level, held, cache>>

(* The breaker has changed since selection. *)
Deny(r, p) ==
  /\ req[r].pc = "try"
  /\ IsNext(r, p)
  /\ ~Allows(breakers[p])
  /\ TryNextAfter(r, p)
  /\ UNCHANGED <<breakers, level, held, cache, role>>

SendFailsRefunding(r) ==  \* mutant: the failed attempt drops the reservation
  /\ req[r].pc = "sent"
  /\ RecordFailure(r)
  /\ TryNextAfter(r, req[r].at)
  /\ Limiter!Settle(r, 0)
  /\ UNCHANGED cache

(* No connection, no answer in time, or a 5xx, 429 or 408. *)
SendFails(r) ==
  /\ req[r].pc = "sent"
  /\ RecordFailure(r)
  /\ TryNextAfter(r, req[r].at)
  /\ UNCHANGED <<level, held, cache>>

(* Any other 4xx fails the request at once and counts as a success. *)
Rejected(r) ==
  /\ req[r].pc = "sent"
  /\ RecordSuccess(r, "none")
  /\ req' = [req EXCEPT ![r] = NewRequest("leaving", @.kind)]
  /\ UNCHANGED <<level, held, cache>>

(* What is left of the statuses is taken for a success before the body is  *)
(* read: the chat handler does not look whether it is a 2xx.  A stream is  *)
(* handed to the client; it is too late then to try another provider.      *)
HeadersOk(r, class) ==
  /\ req[r].pc = "sent"
  /\ class = "other" => req[r].kind.handler = "chat"
  /\ RecordSuccess(r, "normal")
  /\ req' = [req EXCEPT
               ![r].reply = class,
               ![r].pc = IF req[r].kind.stream THEN "stream" ELSE "body",
               ![r].cands = IF req[r].kind.stream THEN {} ELSE @]
  /\ UNCHANGED <<level, held, cache>>

(* The embeddings handler fails over on any other status. *)
Unexpected(r) ==
  /\ req[r].pc = "sent"
  /\ req[r].kind.handler = "embeddings"
  /\ RecordFailure(r)
  /\ TryNextAfter(r, req[r].at)
  /\ UNCHANGED <<level, held, cache>>

----------------------------------------------------------------------------
(* The whole body is read, with or without a usage in it. *)
BodyRead(r, used) ==
  /\ req[r].pc = "body"
  /\ role' = [role EXCEPT ![r] = "none"]
  /\ req' = [req EXCEPT ![r].usage = used,
                        ![r].cands = {},
                        ![r].pc = IF Key(req[r].kind) = NoKey THEN "settle" ELSE "store"]
  /\ UNCHANGED <<breakers, level, held, cache>>

(* The chat handler fails over when the body breaks off ... *)
BodyFailsAtOnce(r) ==  \* mutant: the chat handler gives up there
  /\ req[r].pc = "body"
  /\ req[r].kind.handler = "chat"
  /\ RecordFailure(r)
  /\ req' = [req EXCEPT ![r].pc = "failing", ![r].cands = {}]
  /\ UNCHANGED <<level, held, cache>>

BodyFails(r) ==
  /\ req[r].pc = "body"
  /\ req[r].kind.handler = "chat"
  /\ RecordFailure(r)
  /\ TryNextAfter(r, req[r].at)
  /\ UNCHANGED <<level, held, cache>>

(* ... and the embeddings handler does not. *)
EmbeddingsBodyFails(r) ==
  /\ req[r].pc = "body"
  /\ req[r].kind.handler = "embeddings"
  /\ RecordFailure(r)
  /\ req' = [req EXCEPT ![r].pc = "failing", ![r].cands = {}]
  /\ UNCHANGED <<level, held, cache>>

(* The response is cached before its usage is charged. *)
Store(r) ==
  /\ req[r].pc = "store"
  /\ cache' = [cache EXCEPT ![Key(req[r].kind)] = req[r].reply]
  /\ req' = [req EXCEPT ![r].pc = "settle"]
  /\ UNCHANGED <<breakers, level, held, role>>

(* The usage is charged, or the reservation dropped if there is none, and  *)
(* the response returned.                                                  *)
Settle(r) ==
  /\ req[r].pc = "settle"
  /\ Limiter!Settle(r, IF req[r].usage = Unknown THEN 0 ELSE req[r].usage)
  /\ req' = [req EXCEPT ![r] = Idle]
  /\ UNCHANGED <<breakers, cache, role>>

(* The first usage event of a stream settles the reservation. *)
StreamUsage(r, used) ==
  /\ req[r].pc = "stream"
  /\ held[r] # Limiter!Nothing
  /\ Limiter!Settle(r, used)
  /\ UNCHANGED <<breakers, cache, req, role>>

StreamEnds(r) ==
  /\ req[r].pc = "stream"
  /\ role' = [role EXCEPT ![r] = "none"]
  /\ req' = [req EXCEPT ![r] = NewRequest("leaving", @.kind)]
  /\ UNCHANGED <<breakers, level, held, cache>>

(* The stream breaks or stalls: on_stream_error. *)
StreamBreaks(r) ==
  /\ req[r].pc = "stream"
  /\ RecordFailure(r)
  /\ req' = [req EXCEPT ![r] = NewRequest("leaving", @.kind)]
  /\ UNCHANGED <<level, held, cache>>

(* The handler or the response body is dropped and, with it, a reservation *)
(* that has not been settled.                                              *)
Leave(r) ==
  /\ req[r].pc \in {"failing", "leaving"}
  /\ IF held[r] = Limiter!Nothing THEN UNCHANGED <<level, held>>
                                  ELSE Limiter!Settle(r, 0)
  /\ req' = [req EXCEPT ![r] = Idle]
  /\ UNCHANGED <<breakers, cache, role>>

(* The client disconnects while the handler awaits; an insertion into the  *)
(* cache may have taken effect by then.                                    *)
Awaiting(r) ==
  \/ req[r].pc \in {"lookup", "sent", "body", "store", "stream"}
  \/ req[r].pc = "settle" /\ Key(req[r].kind) # NoKey

Cancel(r) ==
  /\ ClientsCancel
  /\ Awaiting(r)
  /\ role' = [role EXCEPT ![r] = "none"]
  /\ req' = [req EXCEPT ![r] = NewRequest("leaving", @.kind)]
  /\ UNCHANGED <<breakers, level, held, cache>>

----------------------------------------------------------------------------
(* The cache drops an entry: its time is up or the cache is full. *)
Evict(payload) ==
  /\ cache[payload] # Absent
  /\ cache' = [cache EXCEPT ![payload] = Absent]
  /\ UNCHANGED <<breakers, level, held, req, role>>

Tick ==
  /\ breakers' = [p \in Providers |-> AfterTick(breakers[p])]
  /\ Limiter!Tick
  /\ <<breakers, level>>' # <<breakers, level>>
  /\ UNCHANGED <<cache, req, role>>

Work(r) ==
  \/ CacheHit(r) \/ CacheMiss(r) \/ Look(r)
  \/ \E p \in Providers : Admit(r, p) \/ Deny(r, p)
  \/ Store(r) \/ Settle(r) \/ Leave(r)

Upstream(r) ==
  \/ SendFails(r) \/ Rejected(r) \/ Unexpected(r)
  \/ \E class \in {"2xx", "other"} : HeadersOk(r, class)
  \/ \E used \in Usages \cup {Unknown} : BodyRead(r, used)
  \/ BodyFails(r) \/ EmbeddingsBodyFails(r)
  \/ StreamEnds(r) \/ StreamBreaks(r)

Next ==
  \/ Tick
  \/ \E payload \in Payloads : Evict(payload)
  \/ \E r \in Requests :
       \/ \E k \in Kinds : Arrive(r, k)
       \/ \E used \in Usages : StreamUsage(r, used)
       \/ Work(r) \/ Upstream(r) \/ Cancel(r)

Spec == Init /\ [][Next]_vars

(* Handlers run, time passes, cached entries reach the end of their time   *)
(* to live, and every upstream call ends: its total timeout covers the     *)
(* headers, the body and a stream that is being read.                      *)
Fairness ==
  /\ WF_vars(Tick)
  /\ \A payload \in Payloads : WF_vars(Evict(payload))
  /\ \A r \in Requests : WF_vars(Work(r)) /\ WF_vars(Upstream(r))

(* Clients keep making requests. *)
Demand == \A r \in Requests : WF_vars(\E k \in Kinds : Arrive(r, k))

FairSpec == Spec /\ Fairness
BusySpec == FairSpec /\ Demand

----------------------------------------------------------------------------
LocalStates ==
  [ pc : {"idle", "lookup", "select", "try", "sent", "body", "store", "settle",
          "stream", "failing", "leaving"},
    kind : Kinds, at : Providers, cands : SUBSET Providers,
    reply : {"none", "2xx", "other"}, usage : Usages \cup {Unknown},
    excused : SUBSET Providers ]

TypeOK ==
  /\ breakers \in [Providers -> Breakers]
  /\ level \in 0 .. Capacity
  /\ held \in [Requests -> {k.cost : k \in Kinds} \cup {Limiter!Nothing}]
  /\ cache \in [Payloads -> {Absent, "2xx", "other"}]
  /\ role \in [Requests -> {"none", "normal", "probe"}]
  /\ req \in [Requests -> LocalStates]

(* A request holds its reservation, in full, from its admission to its     *)
(* end through every failover; only a stream may have settled it before.   *)
(* So no failed attempt is charged, and nobody works on credit.            *)
ReservedWhileWorking ==
  \A r \in Requests :
    IF req[r].pc = "idle"
      THEN held[r] = Limiter!Nothing
      ELSE \/ held[r] = req[r].kind.cost
           \/ held[r] = Limiter!Nothing /\ req[r].kind.stream
                /\ req[r].pc \in {"stream", "leaving"}

(* A request fails with a 502 only after every provider was found unfit at *)
(* selection, refused at the send, or failed it, at some time during the   *)
(* request: failover skips nobody, although breakers change between        *)
(* selection and the send, and bodies fail after good headers.  Only the   *)
(* embeddings handler may fail sooner, and only for such a body.           *)
EveryProviderHasItsChance ==
  \A r \in Requests :
    req[r].pc = "failing" =>
      \/ req[r].excused = Providers
      \/ req[r].kind.handler = "embeddings" /\ req[r].reply = "2xx"

(* No provider is contacted twice for a request, nor after it was found    *)
(* unfit, nor before a candidate that comes first in priority.             *)
NoSecondChance ==
  \A r \in Requests :
    /\ req[r].cands \cap req[r].excused = {}
    /\ InFlight(r) => /\ req[r].at \notin req[r].cands \cup req[r].excused
                      /\ \A p \in req[r].cands : req[r].at < p

(* The handlers seen from a provider, as the requests of CircuitBreaker.   *)
AttemptsAt(p, handlers) ==
  [r \in Requests |->
     LET q == handlers[r] IN
     IF p \in q.cands THEN "candidate"
     ELSE IF q.at = p /\ q.pc = "sent" THEN "sent"
     ELSE IF q.at = p /\ q.pc \in {"body", "stream"} THEN "body"
     ELSE "idle"]

RolesAt(p, handlers, roles) ==
  [r \in Requests |->
     IF handlers[r].at = p /\ handlers[r].pc \in {"sent", "body", "stream"}
       THEN roles[r] ELSE "none"]

AtProvider(provider) == INSTANCE CircuitBreaker WITH
  Tasks <- Requests,
  breaker <- breakers[provider],
  attempt <- AttemptsAt(provider, req),
  role <- RolesAt(provider, req, role)

(* Seen from each provider, the handlers use its breaker as the requests   *)
(* of CircuitBreaker do, so that what is shown there holds here.           *)
UsesBreakers ==
  /\ \A p \in Providers : AtProvider(p)!Init
  /\ [][\A p \in Providers :
         UNCHANGED AtProvider(p)!vars \/ AtProvider(p)!Next]_vars

(* Every request that is admitted ends. *)
RequestsEnd == \A r \in Requests : req[r].pc # "idle" ~> req[r].pc = "idle"

(* If no client disconnects, the provider of highest priority is given a   *)
(* trial after every trip, as long as requests come: neither the other     *)
(* provider nor answers from the cache keep them away from it for ever.    *)
FirstProviderIsProbed ==
  breakers[1].state = "Open" ~> breakers[1].state = "HalfOpen"
=============================================================================

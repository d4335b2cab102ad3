------------------------------- MODULE Server -------------------------------
(***************************************************************************)
(* The gateway as a process, from its start to the end of its drain, and   *)
(* the way of a request through its layers: body limit, authentication,    *)
(* request-per-minute limit, then the handler with its token reservation.  *)
(*                                                                         *)
(* Each client has a pair of buckets that is created when one of its       *)
(* requests first looks for it.  table is the map from clients to pairs;   *)
(* pairs stands for the heap, since a request keeps the pair it found      *)
(* after it has let go of the map.  Buckets refill at every tick, which    *)
(* the lazily refilled ones of the code implement (TpmLimiter).  Amounts   *)
(* are in units of which a limit of L a minute refills L in one tick, so a *)
(* request or a token costs Minute of them.                                *)
(*                                                                         *)
(* What a handler does between its reservation and its answer is Gateway's *)
(* subject; here it ends, in one of the ways it can.                       *)
(***************************************************************************)
EXTENDS Config

CONSTANTS
  Requests,  \* those that may be under way at one time
  Kinds,     \* the requests clients make
  Usages,    \* the token usages providers report
  Minute     \* ticks in a minute

Routes == {"api", "public"}
Bodies == {"valid", "malformed", "oversized", "oversized chunks"}

(* A header without a key, or without the bearer scheme, has key "".  The  *)
(* cost is what the handlers estimate from the body.                       *)
ASSUME ServerAssumption ==
  /\ Kinds \subseteq [route : Routes, key : STRING, body : Bodies, cost : Nat]
  /\ Usages \subseteq Nat
  /\ Minute \in Nat \ {0}

Clients == UNION {ClientsOf(c) : c \in Configs}

VARIABLES
  config,  \* the configuration
  phase,   \* of the process
  table,   \* rate_limiter: the pair of each client, 0 if it has none yet
  pairs,   \* every pair of buckets created
  req      \* the local state of each request

vars == <<config, phase, table, pairs, req>>

Nobody == ""
NoStatus == 0

(* A request at rest; pc is where it stands, pair the buckets it has in    *)
(* its hands, held its reservation and status that of its answer.          *)
Idle ==
  [ pc |-> "idle", kind |-> [route |-> "public", key |-> "", body |-> "valid", cost |-> 0],
    client |-> Nobody, pair |-> 0, held |-> 0, status |-> NoStatus ]

Init ==
  /\ config \in Configs
  /\ phase = "loading"
  /\ table = [c \in Clients |-> 0]
  /\ pairs = <<>>
  /\ req = [r \in Requests |-> Idle]

----------------------------------------------------------------------------
(* main: a configuration that cannot be read or is not valid ends the      *)
(* process ...                                                             *)
Load ==
  /\ phase = "loading"
  /\ \/ phase' = "failed"
     \/ IsValid(config) /\ phase' = "binding"
  /\ UNCHANGED <<config, table, pairs, req>>

(* ... and so does an address that cannot be bound. *)
Bind ==
  /\ phase = "binding"
  /\ phase' \in {"serving", "failed"}
  /\ UNCHANGED <<config, table, pairs, req>>

(* shutdown_signal: no more requests are taken, those under way go on ...  *)
Signal ==
  /\ phase = "serving"
  /\ phase' = "draining"
  /\ UNCHANGED <<config, table, pairs, req>>

(* ... and the process ends when the last of them has been answered. *)
Stop ==
  /\ phase = "draining"
  /\ \A r \in Requests : req[r].pc = "idle"
  /\ phase' = "stopped"
  /\ UNCHANGED <<config, table, pairs, req>>

----------------------------------------------------------------------------
(* The status an error is answered with; conversions make a rejected body  *)
(* a BadRequest.                                                           *)
StatusOf ==
  [ Unauthorized |-> 401, RateLimited |-> 429, Upstream |-> 502,
    BadRequest |-> 400, Internal |-> 500 ]

PayloadTooLarge == 413

(* All that a request keeps when its answer is decided. *)
Answered(request, status) ==
  [Idle EXCEPT !.pc = "answering", !.client = request.client, !.status = status]

IsTakenAlways(r) == req[r].pc = "idle" /\ phase \in {"serving", "draining"}  \* mutant

IsTaken(r) == req[r].pc = "idle" /\ phase = "serving"

Begins(r, request) ==
  /\ IsTaken(r)
  /\ req' = [req EXCEPT ![r] = request]
  /\ UNCHANGED <<config, phase, table, pairs>>

(* The body limit is the outermost layer and looks at the declared length. *)
TooLarge(r, k) ==
  /\ k.body = "oversized"
  /\ Begins(r, Answered(Idle, PayloadTooLarge))

(* /healthz and /metrics ask for no key and have no limit. *)
Public(r, k) ==
  /\ k.body # "oversized"
  /\ k.route = "public"
  /\ Begins(r, Answered(Idle, 200))

(* auth_middleware finds no key, or none that it knows. *)
Unauthorized(r, k) ==
  /\ k.body # "oversized"
  /\ k.route = "api"
  /\ k.key \notin Keys(config)
  /\ Begins(r, Answered(Idle, StatusOf.Unauthorized))

(* It attaches the key's client to the request. *)
Authenticated(r, k) ==
  /\ k.body # "oversized"
  /\ k.route = "api"
  /\ k.key \in Keys(config)
  /\ Begins(r, [Idle EXCEPT !.kind = k, !.pc = "limiting",
                            !.client = ClientOf(config, k.key)])

----------------------------------------------------------------------------
FullPair(c) == [rpm |-> c.rpm * Minute, tpm |-> c.tpm * Minute]

TakesPairUnstored(r, next) ==  \* mutant: the new pair is not put into the map
  LET c == req[r].client
      found == IF table[c] = 0 THEN Len(pairs) + 1 ELSE table[c]
  IN
  /\ pairs' = IF table[c] = 0 THEN Append(pairs, FullPair(config)) ELSE pairs
  /\ req' = [req EXCEPT ![r].pc = next, ![r].pair = found]
  /\ UNCHANGED <<config, phase, table>>

TakesAnyPair(r, next) ==  \* mutant: any pair will do
  LET found == IF pairs = <<>> THEN 1 ELSE Len(pairs) IN
  /\ pairs' = IF pairs = <<>> THEN <<FullPair(config)>> ELSE pairs
  /\ table' = [table EXCEPT ![req[r].client] = found]
  /\ req' = [req EXCEPT ![r].pc = next, ![r].pair = found]
  /\ UNCHANGED <<config, phase>>

(* entry, or_insert_with, clone: the client's pair, made if there is none. *)
TakesPair(r, next) ==
  LET c == req[r].client
      found == IF table[c] = 0 THEN Len(pairs) + 1 ELSE table[c]
  IN
  /\ pairs' = IF table[c] = 0 THEN Append(pairs, FullPair(config)) ELSE pairs
  /\ table' = [table EXCEPT ![c] = found]
  /\ req' = [req EXCEPT ![r].pc = next, ![r].pair = found]
  /\ UNCHANGED <<config, phase>>

(* rate_limit_middleware looks for the pair ... *)
FindPair(r) == req[r].pc = "limiting" /\ TakesPair(r, "charging")

(* ... and takes one request from it ... *)
Charge(r) ==
  /\ req[r].pc = "charging"
  /\ pairs[req[r].pair].rpm >= Minute
  /\ pairs' = [pairs EXCEPT ![req[r].pair].rpm = @ - Minute]
  /\ req' = [req EXCEPT ![r].pc = "handling"]
  /\ UNCHANGED <<config, phase, table>>

AnswersAt(r, pc, status) ==
  /\ req[r].pc = pc
  /\ req' = [req EXCEPT ![r] = Answered(@, status)]
  /\ UNCHANGED <<config, phase, table>>

(* ... or refuses it. *)
Refuse(r) ==
  /\ AnswersAt(r, "charging", StatusOf.RateLimited)
  /\ pairs[req[r].pair].rpm < Minute
  /\ UNCHANGED pairs

(* The handler reads the body, which may turn out to be no request or to   *)
(* be longer than the limit; what was charged stays charged.               *)
Malformed(r) ==
  /\ req[r].kind.body # "valid"
  /\ AnswersAt(r, "handling", StatusOf.BadRequest)
  /\ UNCHANGED pairs

(* get_rate_limit_buckets: the handler looks for the pair once more. *)
Parse(r) ==
  /\ req[r].pc = "handling"
  /\ req[r].kind.body = "valid"
  /\ TakesPair(r, "reserving")

Cost(r) == req[r].kind.cost * Minute

Reserve(r) ==
  /\ req[r].pc = "reserving"
  /\ pairs[req[r].pair].tpm >= Cost(r)
  /\ pairs' = [pairs EXCEPT ![req[r].pair].tpm = @ - Cost(r)]
  /\ req' = [req EXCEPT ![r].pc = "working", ![r].held = Cost(r)]
  /\ UNCHANGED <<config, phase, table>>

RefuseTokens(r) ==
  /\ AnswersAt(r, "reserving", StatusOf.RateLimited)
  /\ pairs[req[r].pair].tpm < Cost(r)
  /\ UNCHANGED pairs

----------------------------------------------------------------------------
AtMost(n, cap) == IF n > cap THEN cap ELSE n

SettledUncapped(level, reserved, used) ==  \* mutant: no clamp
  IF used <= reserved THEN level + reserved - used
  ELSE IF used - reserved <= level THEN level - (used - reserved)
  ELSE level

(* What a reservation leaves in the token bucket when it is reconciled. *)
Settled(level, reserved, used) ==
  IF used <= reserved THEN AtMost(level + reserved - used, config.tpm * Minute)
  ELSE IF used - reserved <= level THEN level - (used - reserved)
  ELSE level

Settle(r, used) ==
  pairs' = [pairs EXCEPT ![req[r].pair].tpm = Settled(@, req[r].held, used)]

(* The handler succeeds, charged for what the provider reports, or for     *)
(* nothing if the answer was cached or says nothing of usage; a stream     *)
(* goes on after it has been charged ...                                   *)
Succeed(r, used) == AnswersAt(r, "working", 200) /\ Settle(r, used * Minute)

FailCharged(r, error) ==  \* mutant: the reservation is not given back
  AnswersAt(r, "working", StatusOf[error]) /\ UNCHANGED pairs

(* ... or fails, and its reservation is dropped. *)
Fail(r, error) == AnswersAt(r, "working", StatusOf[error]) /\ Settle(r, 0)

(* The client disconnects while its body is read or its request handled.   *)
Leave(r) ==
  /\ req[r].pc \in {"handling", "working"}
  /\ AnswersAt(r, req[r].pc, NoStatus)
  /\ IF req[r].pc = "working" THEN Settle(r, 0) ELSE UNCHANGED pairs

(* The answer has been sent. *)
Sent(r) ==
  /\ req[r].pc = "answering"
  /\ req' = [req EXCEPT ![r] = Idle]
  /\ UNCHANGED <<config, phase, table, pairs>>

Refilled(pair) ==
  [ rpm |-> AtMost(pair.rpm + config.rpm, config.rpm * Minute),
    tpm |-> AtMost(pair.tpm + config.tpm, config.tpm * Minute) ]

Tick ==
  /\ pairs' = [i \in DOMAIN pairs |-> Refilled(pairs[i])]
  /\ pairs' # pairs
  /\ UNCHANGED <<config, phase, table, req>>

----------------------------------------------------------------------------
Arrive(r, k) ==
  TooLarge(r, k) \/ Public(r, k) \/ Unauthorized(r, k) \/ Authenticated(r, k)

Work(r) ==
  \/ FindPair(r) \/ Charge(r) \/ Refuse(r)
  \/ Malformed(r) \/ Parse(r) \/ Reserve(r) \/ RefuseTokens(r)
  \/ \E used \in Usages \cup {0} : Succeed(r, used)
  \/ \E error \in {"Upstream", "BadRequest", "Internal"} : Fail(r, error)
  \/ Sent(r)

Next ==
  \/ Load \/ Bind \/ Signal \/ Stop \/ Tick
  \/ \E r \in Requests : (\E k \in Kinds : Arrive(r, k)) \/ Work(r) \/ Leave(r)

Spec == Init /\ [][Next]_vars

(* The process runs, time passes and requests end: every upstream call has *)
(* a total timeout (Gateway!RequestsEnd), and clients that stay send their *)
(* bodies and read their answers.  Nobody has to send a signal or a        *)
(* request.                                                                *)
Fairness ==
  /\ WF_vars(Load) /\ WF_vars(Bind) /\ WF_vars(Stop) /\ WF_vars(Tick)
  /\ \A r \in Requests : WF_vars(Work(r))

FairSpec == Spec /\ Fairness

----------------------------------------------------------------------------
Statuses == {NoStatus, 200, PayloadTooLarge} \cup {StatusOf[error] : error \in DOMAIN StatusOf}

LocalStates ==
  [ pc : {"idle", "limiting", "charging", "handling", "reserving", "working",
          "answering"},
    kind : Kinds \cup {Idle.kind}, client : Clients \cup {Nobody}, pair : Nat,
    held : Nat, status : Statuses ]

TypeOK ==
  /\ config \in Configs
  /\ phase \in {"loading", "binding", "serving", "draining", "stopped", "failed"}
  /\ pairs \in Seq([rpm : 0 .. config.rpm * Minute, tpm : 0 .. config.tpm * Minute])
  /\ table \in [Clients -> 0 .. Len(pairs)]
  /\ req \in [Requests -> LocalStates]

(* A request past authentication has a key of its client, the buckets in   *)
(* its hands are those the map has for this client and for nobody else,    *)
(* and no pair exists that is not a client's: whoever is first, whatever   *)
(* the keys, two requests of a client never count against two pairs, nor   *)
(* those of two clients against one, and strangers leave nothing behind.   *)
WorksForItsClient ==
  /\ \A r \in Requests : req[r].pc \notin {"idle", "answering"} =>
       /\ req[r].kind.key \in Keys(config)
       /\ req[r].client = ClientOf(config, req[r].kind.key)
       /\ req[r].pc # "limiting" =>
            req[r].pair # 0 /\ req[r].pair = table[req[r].client]
  /\ \A c, d \in Clients : table[c] = table[d] /\ table[c] # 0 => c = d
  /\ \A i \in DOMAIN pairs : \E c \in ClientsOf(config) : table[c] = i

(* What clients see: what each has left, full before it has a pair, and    *)
(* how far its requests have come.                                         *)
Left(c, cfg, map, heap) == IF map[c] = 0 THEN FullPair(cfg) ELSE heap[map[c]]

Rpms(cfg, map, heap) == [c \in Clients |-> Left(c, cfg, map, heap).rpm]
Tpms(cfg, map, heap) == [c \in Clients |-> Left(c, cfg, map, heap).tpm]

StageOf(request) ==
  CASE request.pc \in {"handling", "reserving"} -> "admitted"
    [] request.pc = "working" -> "holding"
    [] request.pc = "answering" /\ request.status = StatusOf.RateLimited -> "refused"
    [] OTHER -> "outside"

OwnerOf(request) == IF StageOf(request) = "outside" THEN Nobody ELSE request.client

Stages(requests) == [r \in Requests |-> StageOf(requests[r])]
Owners(requests) == [r \in Requests |-> OwnerOf(requests[r])]
Holdings(requests) == [r \in Requests |-> requests[r].held]

Contract == INSTANCE AdmissionContract WITH
  Amounts <- {n * Minute : n \in {k.cost : k \in Kinds} \cup Usages \cup {0}},
  limits <- [rpm |-> config.rpm, tpm |-> config.tpm],
  rpm <- Rpms(config, table, pairs),
  tpm <- Tpms(config, table, pairs),
  stage <- Stages(req),
  owner <- Owners(req),
  held <- Holdings(req)

(* The layers and the handlers' reservations, with pairs made on demand    *)
(* and looked for twice, cannot be told from an allowance that every       *)
(* client has from the start; the charge for a request is never returned.  *)
KeepsContract == Contract!Spec

(* Only an answer of the provider's, or of the cache, is paid for: when a  *)
(* request ends in any other way, its reservation is back in the bucket of *)
(* its client, and it has never changed the tokens of another.             *)
FailureIsRefunded ==
  [][\A r \in Requests :
       req[r].pc = "working" /\ req'[r].pc # "working" /\ req'[r].status # 200 =>
         Tpms(config', table', pairs') =
           [Tpms(config, table, pairs) EXCEPT ![req[r].client] =
              AtMost(@ + req[r].held, config.tpm * Minute)]]_vars

(* After the signal the process ends, with every request answered. *)
SignalStops == phase = "draining" ~> phase = "stopped"

(* No client can count on getting this through, or waits for it to.        *)
Spoils(r) ==
  \/ req[r].kind.body # "valid"
  \/ req[r].kind.cost > config.tpm
  \/ req[r].pc = "answering" /\ req[r].status = NoStatus

(* A client whose requests are well-formed, within its limit and waited    *)
(* for gets one through time and again as long as it asks: no pattern of   *)
(* refusals by the two buckets, nor what other clients do, locks it out,   *)
(* with any limits that validate accepts.                                  *)
ClientsGetThrough ==
  \A c \in Clients :
    /\ <>[](\A r \in Requests : req[r].client = c => ~Spoils(r))
    /\ []<>(\E r \in Requests : req[r].client = c /\ req[r].pc = "charging")
    => []<>(\E r \in Requests : req[r].client = c /\ req[r].pc = "working")
=============================================================================

---------------------------- MODULE ServerProofs ----------------------------
(***************************************************************************)
(* Proofs about Server, for any configurations, any number of clients,     *)
(* keys and requests, and any limits.                                      *)
(***************************************************************************)
EXTENDS Server, SequenceTheorems, TLAPS

Phases == {"loading", "binding", "serving", "draining", "stopped", "failed"}
PairsOf(c) == [rpm : 0 .. c.rpm * Minute, tpm : 0 .. c.tpm * Minute]

(* A request past authentication works for the client of its key, on the   *)
(* pair that the map has for this client.                                  *)
Works(q, cfg, map) ==
  q.pc \notin {"idle", "answering"} =>
    /\ q.kind.key \in Keys(cfg)
    /\ q.client = ClientOf(cfg, q.kind.key)
    /\ q.pc # "limiting" => q.pair # 0 /\ q.pair = map[q.client]

Holds(q) == q.pc # "working" => q.held = 0

(* Each pair is one client's. *)
OnePairEach(cfg, map, heap) ==
  /\ \A c, d \in Clients : map[c] = map[d] /\ map[c] # 0 => c = d
  /\ \A i \in DOMAIN heap : \E c \in ClientsOf(cfg) : map[c] = i

IndInv ==
  /\ TypeOK
  /\ OnePairEach(config, table, pairs)
  /\ \A r \in Requests : Works(req[r], config, table) /\ Holds(req[r])

----------------------------------------------------------------------------
LEMMA LimitTypes ==
  ASSUME NEW c \in Configs
  PROVE  /\ c.rpm \in Nat /\ c.tpm \in Nat
         /\ c.rpm * Minute \in Nat /\ c.tpm * Minute \in Nat
<1>1. c.rpm \in Nat /\ c.tpm \in Nat
  BY ConfigAssumption DEF IsConfig
<1>2. \A n \in Nat : n * Minute \in Nat
  BY ServerAssumption
<1> QED
  BY <1>1, <1>2

LEMMA FullPairType ==
  ASSUME config \in Configs
  PROVE  FullPair(config) \in PairsOf(config)
BY LimitTypes DEF FullPair, PairsOf

LEMMA StatusTypes ==
  /\ NoStatus \in Statuses /\ 200 \in Statuses /\ PayloadTooLarge \in Statuses
  /\ StatusOf.Unauthorized \in Statuses /\ StatusOf.RateLimited \in Statuses
  /\ StatusOf.Upstream \in Statuses /\ StatusOf.BadRequest \in Statuses
  /\ StatusOf.Internal \in Statuses
BY DEF Statuses, StatusOf

LEMMA IdleType ==
  /\ Idle \in LocalStates
  /\ Idle.pc = "idle" /\ Idle.held = 0 /\ Idle.pair = 0
BY StatusTypes DEF Idle, LocalStates

LEMMA AnsweredType ==
  ASSUME NEW q \in LocalStates, NEW status \in Statuses
  PROVE  /\ Answered(q, status) \in LocalStates
         /\ Answered(q, status).pc = "answering"
         /\ Answered(q, status).held = 0
         /\ Answered(q, status).client = q.client
         /\ Answered(q, status).status = status
BY DEF Answered, Idle, LocalStates

LEMMA Types ==
  ASSUME IndInv
  PROVE  /\ config \in Configs /\ phase \in Phases
         /\ pairs \in Seq(PairsOf(config))
         /\ table \in [Clients -> 0 .. Len(pairs)]
         /\ req \in [Requests -> LocalStates]
BY DEF IndInv, TypeOK, PairsOf, Phases

(* The client of a request at work is one of the configuration's. *)
LEMMA ClientLemma ==
  ASSUME IndInv, NEW r \in Requests, req[r].pc \notin {"idle", "answering"}
  PROVE  /\ req[r].client \in ClientsOf(config)
         /\ req[r].client \in Clients
<1>1. /\ req[r].kind.key \in Keys(config)
      /\ req[r].client = ClientOf(config, req[r].kind.key)
  BY DEF IndInv, Works
<1> QED
  BY <1>1, Types DEF ClientsOf, Clients

(* ... and so is its pair. *)
LEMMA PairLemma ==
  ASSUME IndInv, NEW r \in Requests, req[r].pc \notin {"idle", "answering", "limiting"}
  PROVE  /\ req[r].pair \in 1 .. Len(pairs)
         /\ req[r].pair = table[req[r].client]
         /\ pairs[req[r].pair] \in PairsOf(config)
<1>1. req[r].pair # 0 /\ req[r].pair = table[req[r].client]
  BY DEF IndInv, Works
<1>2. req[r].pair \in 1 .. Len(pairs)
  BY <1>1, Types, ClientLemma
<1> QED
  BY <1>1, <1>2, Types, ElementOfSeq

(* One request moves; the map may grow and the buckets change. *)
LEMMA MoveStep ==
  ASSUME IndInv, NEW r \in Requests, NEW q \in LocalStates,
         req' = [req EXCEPT ![r] = q],
         Works(q, config, table'), Holds(q),
         config' = config, phase' = phase,
         pairs' \in Seq(PairsOf(config)),
         table' \in [Clients -> 0 .. Len(pairs')],
         \A c \in Clients : table[c] # 0 => table'[c] = table[c],
         OnePairEach(config, table', pairs')
  PROVE  IndInv'
<1>1. TypeOK'
  BY Types DEF TypeOK, PairsOf, Phases
<1>2. OnePairEach(config', table', pairs')
  OBVIOUS
<1>3. ASSUME NEW u \in Requests
      PROVE  Works(req'[u], config', table') /\ Holds(req'[u])
  <2>1. CASE u = r
    BY <2>1, Types
  <2>2. CASE u # r
    <3>1. req'[u] = req[u]
      BY <2>2, Types
    <3>2. Works(req[u], config, table) /\ Holds(req[u])
      BY DEF IndInv
    <3>3. Works(req[u], config, table')
      BY <3>2, ClientLemma DEF Works
    <3> QED
      BY <3>1, <3>2, <3>3
  <2> QED
    BY <2>1, <2>2
<1> QED
  BY <1>1, <1>2, <1>3 DEF IndInv

(* No bucket changes. *)
LEMMA QuietStep ==
  ASSUME IndInv, NEW r \in Requests, NEW q \in LocalStates,
         req' = [req EXCEPT ![r] = q], Works(q, config, table), Holds(q),
         UNCHANGED <<config, phase, table, pairs>>
  PROVE  IndInv'
BY Types, MoveStep DEF IndInv

(* The pair of a request changes. *)
LEMMA BucketStep ==
  ASSUME IndInv, NEW r \in Requests, NEW q \in LocalStates,
         req[r].pc \notin {"idle", "answering", "limiting"},
         NEW pair \in PairsOf(config),
         req' = [req EXCEPT ![r] = q], Works(q, config, table), Holds(q),
         pairs' = [pairs EXCEPT ![req[r].pair] = pair],
         UNCHANGED <<config, phase, table>>
  PROVE  IndInv'
<1>1. /\ pairs' \in Seq(PairsOf(config)) /\ Len(pairs') = Len(pairs)
      /\ DOMAIN pairs' = DOMAIN pairs
  BY Types, PairLemma, ExceptSeq
<1>2. OnePairEach(config, table', pairs')
  BY <1>1 DEF IndInv, OnePairEach
<1> QED
  BY <1>1, <1>2, Types, MoveStep

(* The client's pair is looked for, and made if there is none. *)
HasPair(r, next, q) ==
  /\ req' = [req EXCEPT ![r] = q]
  /\ q = [req[r] EXCEPT !.pc = next, !.pair = table'[req[r].client]]
  /\ table'[req[r].client] # 0
  /\ pairs' \in Seq(PairsOf(config))
  /\ table' \in [Clients -> 0 .. Len(pairs')]
  /\ OnePairEach(config, table', pairs')
  /\ \A c \in Clients :
       /\ table[c] # 0 => table'[c] = table[c]
       /\ table'[c] = 0 => table[c] = 0
       /\ table'[c] # 0 =>
            pairs'[table'[c]] = IF table[c] = 0 THEN FullPair(config) ELSE pairs[table[c]]

LEMMA TakesPairLemma ==
  ASSUME IndInv, NEW r \in Requests, req[r].pc \in {"limiting", "handling"},
         NEW next \in {"charging", "reserving"}, TakesPair(r, next)
  PROVE  \E q \in LocalStates : HasPair(r, next, q)
<1> DEFINE c == req[r].client
           found == IF table[c] = 0 THEN Len(pairs) + 1 ELSE table[c]
           q == [req[r] EXCEPT !.pc = next, !.pair = found]
<1>1. c \in Clients /\ c \in ClientsOf(config)
  BY ClientLemma
<1>2. /\ pairs' = IF table[c] = 0 THEN Append(pairs, FullPair(config)) ELSE pairs
      /\ table' = [table EXCEPT ![c] = found]
      /\ req' = [req EXCEPT ![r] = q]
  BY DEF TakesPair
<1>3. Len(pairs) \in Nat /\ DOMAIN pairs = 1 .. Len(pairs)
  BY Types
<1>4. found \in Nat \ {0}
  BY <1>1, <1>3, Types
<1>5. table' \in [Clients -> Nat] /\ table'[c] = found
  BY <1>1, <1>2, <1>4, Types
<1>6. q \in LocalStates
  <2>1. req[r] \in LocalStates
    BY Types
  <2>2. \A n \in Nat : [req[r] EXCEPT !.pc = next, !.pair = n] \in LocalStates
    BY <2>1 DEF LocalStates
  <2> QED
    BY <1>4, <2>2
<1>7. CASE table[c] = 0
  <2>1. /\ pairs' \in Seq(PairsOf(config))
        /\ Len(pairs') = Len(pairs) + 1
        /\ DOMAIN pairs' = 1 .. Len(pairs) + 1
        /\ pairs'[Len(pairs) + 1] = FullPair(config)
        /\ \A i \in 1 .. Len(pairs) : pairs'[i] = pairs[i]
    BY <1>2, <1>7, Types, FullPairType, AppendProperties
  <2>2. \A d \in Clients : d # c => table'[d] = table[d]
    BY <1>2, Types
  <2>3. \A d \in Clients : table[d] \in 0 .. Len(pairs)
    BY Types
  <2>4. found = Len(pairs) + 1
    BY <1>7
  <2> HIDE DEF c, found, q
  <2>5. \A d \in Clients : table'[d] \in 0 .. Len(pairs')
    BY <1>3, <1>5, <2>1, <2>2, <2>3, <2>4
  <2>6. \A d, e \in Clients : table'[d] = table'[e] /\ table'[d] # 0 => d = e
    BY <1>3, <1>5, <2>2, <2>3, <2>4 DEF IndInv, OnePairEach
  <2>7. \A i \in DOMAIN pairs' : \E d \in ClientsOf(config) : table'[d] = i
    <3>1. ClientsOf(config) \subseteq Clients
      BY Types DEF Clients
    <3>2. ASSUME NEW i \in 1 .. Len(pairs)
          PROVE  \E d \in ClientsOf(config) : table'[d] = i
      <4>1. PICK d \in ClientsOf(config) : table[d] = i
        BY <1>3 DEF IndInv, OnePairEach
      <4>2. d # c
        BY <1>3, <1>7, <4>1
      <4> QED
        BY <2>2, <3>1, <4>1, <4>2
    <3> QED
      BY <1>1, <1>3, <1>5, <2>1, <2>4, <3>2
  <2>8. \A d \in Clients : table'[d] # 0 =>
          pairs'[table'[d]] = IF table[d] = 0 THEN FullPair(config) ELSE pairs[table[d]]
    BY <1>3, <1>5, <1>7, <2>1, <2>2, <2>3, <2>4
  <2>9. \A d \in Clients : table[d] # 0 => table'[d] = table[d]
    BY <1>7, <2>2
  <2>10. \A d \in Clients : table'[d] = 0 => table[d] = 0
    BY <1>7, <2>2
  <2>11. OnePairEach(config, table', pairs')
    BY <2>6, <2>7 DEF OnePairEach
  <2>12. table' \in [Clients -> 0 .. Len(pairs')]
    BY <1>5, <2>5
  <2>13. q = [req[r] EXCEPT !.pc = next, !.pair = table'[c]]
    BY <1>5 DEF q
  <2> QED
    BY <1>2, <1>4, <1>5, <1>6, <2>1, <2>8, <2>9, <2>10, <2>11, <2>12, <2>13
       DEF c, HasPair
<1>8. CASE table[c] # 0
  <2>1. table' = table /\ pairs' = pairs /\ found = table[c]
    BY <1>2, <1>8, Types
  <2>2. \A d \in Clients : table'[d] # 0 =>
          pairs'[table'[d]] = IF table[d] = 0 THEN FullPair(config) ELSE pairs[table[d]]
    BY <2>1
  <2> QED
    BY <1>2, <1>5, <1>6, <1>8, <2>1, <2>2, Types DEF IndInv, HasPair
<1> QED
  BY <1>7, <1>8

(* An answer is decided and no bucket changes. *)
LEMMA AnswerStep ==
  ASSUME IndInv, NEW r \in Requests, NEW request \in LocalStates, NEW status \in Statuses,
         req' = [req EXCEPT ![r] = Answered(request, status)],
         UNCHANGED <<config, phase, table, pairs>>
  PROVE  IndInv'
<1> DEFINE q == Answered(request, status)
<1>1. q \in LocalStates /\ q.pc = "answering" /\ q.held = 0
  BY AnsweredType
<1>2. req' = [req EXCEPT ![r] = q]
  OBVIOUS
<1> HIDE DEF q
<1>3. Works(q, config, table) /\ Holds(q)
  BY <1>1 DEF Works, Holds
<1> QED
  BY <1>1, <1>2, <1>3, QuietStep

LEMMA ArriveStep ==
  ASSUME IndInv, NEW r \in Requests, NEW k \in Kinds, Arrive(r, k)
  PROVE  IndInv'
<1>1. UNCHANGED <<config, phase, table, pairs>>
  BY DEF Arrive, TooLarge, Public, Unauthorized, Authenticated, Begins
<1>2. CASE TooLarge(r, k) \/ Public(r, k) \/ Unauthorized(r, k)
  <2>1. PICK status \in Statuses : req' = [req EXCEPT ![r] = Answered(Idle, status)]
    BY <1>2, StatusTypes DEF TooLarge, Public, Unauthorized, Begins
  <2> QED
    BY <1>1, <2>1, IdleType, AnswerStep
<1>3. CASE Authenticated(r, k)
  <2> DEFINE client == ClientOf(config, k.key)
             q == [Idle EXCEPT !.kind = k, !.pc = "limiting", !.client = client]
  <2>1. k.key \in Keys(config) /\ req' = [req EXCEPT ![r] = q]
    BY <1>3 DEF Authenticated, Begins
  <2>2. client \in Clients
    BY <2>1, Types DEF Clients, ClientsOf
  <2> HIDE DEF client
  <2>3. q \in LocalStates /\ q.pc = "limiting" /\ q.kind = k /\ q.client = client
        /\ q.held = 0
    BY <2>2, IdleType DEF Idle, LocalStates
  <2> HIDE DEF q
  <2>4. Works(q, config, table) /\ Holds(q)
    BY <2>1, <2>3 DEF Works, Holds, client
  <2> QED
    BY <1>1, <2>1, <2>3, <2>4, QuietStep
<1> QED
  BY <1>2, <1>3 DEF Arrive

LEMMA TakesPairStep ==
  ASSUME IndInv, NEW r \in Requests,
         FindPair(r) \/ Parse(r)
  PROVE  IndInv'
<1>1. PICK next \in {"charging", "reserving"} : TakesPair(r, next)
  BY DEF FindPair, Parse
<1>2. req[r].pc \in {"limiting", "handling"}
  BY DEF FindPair, Parse
<1>3. PICK q \in LocalStates : HasPair(r, next, q)
  BY <1>1, <1>2, TakesPairLemma
<1>4. /\ q.pc = next /\ q.pair = table'[req[r].client]
      /\ q.client = req[r].client /\ q.kind = req[r].kind /\ q.held = req[r].held
  BY <1>3, Types DEF LocalStates, HasPair
<1>5. Works(req[r], config, table) /\ Holds(req[r])
  BY DEF IndInv
<1>6. Works(q, config, table')
  BY <1>2, <1>3, <1>4, <1>5 DEF Works, HasPair
<1>7. Holds(q)
  BY <1>2, <1>4, <1>5 DEF Holds
<1>8. config' = config /\ phase' = phase
  BY <1>1 DEF TakesPair
<1> QED
  BY <1>3, <1>6, <1>7, <1>8, MoveStep DEF HasPair

LEMMA ChargeStep ==
  ASSUME IndInv, NEW r \in Requests, Charge(r)
  PROVE  IndInv'
<1> DEFINE q == [req[r] EXCEPT !.pc = "handling"]
           old == pairs[req[r].pair]
           pair == [old EXCEPT !.rpm = @ - Minute]
<1>1. /\ req[r].pc = "charging" /\ req' = [req EXCEPT ![r] = q]
      /\ old.rpm >= Minute /\ pairs' = [pairs EXCEPT ![req[r].pair] = pair]
      /\ UNCHANGED <<config, phase, table>>
  BY DEF Charge
<1>2. old \in PairsOf(config)
  BY <1>1, PairLemma
<1> HIDE DEF old
<1>3. pair \in PairsOf(config)
  <2>1. config.rpm * Minute \in Nat /\ Minute \in Nat
    BY LimitTypes, Types, ServerAssumption
  <2>2. old.rpm - Minute \in 0 .. config.rpm * Minute
    BY <1>1, <1>2, <2>1 DEF PairsOf
  <2> QED
    BY <1>2, <2>2 DEF PairsOf
<1>4. /\ q \in LocalStates /\ q.pc = "handling" /\ q.pair = req[r].pair
      /\ q.client = req[r].client /\ q.kind = req[r].kind /\ q.held = req[r].held
  BY Types DEF LocalStates
<1> HIDE DEF q, pair
<1>5. Works(q, config, table) /\ Holds(q)
  BY <1>1, <1>4 DEF Works, Holds, IndInv
<1> QED
  BY <1>1, <1>3, <1>4, <1>5, BucketStep

LEMMA CostType ==
  ASSUME IndInv, NEW r \in Requests
  PROVE  Cost(r) \in Nat
<1>1. req[r].kind \in Kinds \cup {Idle.kind}
  BY Types DEF LocalStates
<1>2. Idle.kind.cost = 0
  BY DEF Idle
<1>3. \A k \in Kinds : k.cost \in Nat
  BY ServerAssumption
<1>4. req[r].kind.cost \in Nat
  BY <1>1, <1>2, <1>3
<1> QED
  BY <1>4, ServerAssumption DEF Cost

LEMMA ReserveStep ==
  ASSUME IndInv, NEW r \in Requests, Reserve(r)
  PROVE  IndInv'
<1> DEFINE cost == Cost(r)
           q == [req[r] EXCEPT !.pc = "working", !.held = cost]
           old == pairs[req[r].pair]
           pair == [old EXCEPT !.tpm = @ - cost]
<1>1. /\ req[r].pc = "reserving" /\ req' = [req EXCEPT ![r] = q]
      /\ old.tpm >= cost /\ pairs' = [pairs EXCEPT ![req[r].pair] = pair]
      /\ UNCHANGED <<config, phase, table>>
  BY DEF Reserve
<1>2. old \in PairsOf(config) /\ cost \in Nat
  BY <1>1, PairLemma, CostType
<1> HIDE DEF old, cost
<1>3. pair \in PairsOf(config)
  <2>1. config.tpm * Minute \in Nat
    BY LimitTypes, Types
  <2>2. old.tpm - cost \in 0 .. config.tpm * Minute
    BY <1>1, <1>2, <2>1 DEF PairsOf
  <2> QED
    BY <1>2, <2>2 DEF PairsOf
<1>4. /\ q \in LocalStates /\ q.pc = "working" /\ q.pair = req[r].pair
      /\ q.client = req[r].client /\ q.kind = req[r].kind
  BY <1>2, Types DEF LocalStates
<1> HIDE DEF q, pair
<1>5. Works(q, config, table) /\ Holds(q)
  BY <1>1, <1>4 DEF Works, Holds, IndInv
<1> QED
  BY <1>1, <1>3, <1>4, <1>5, BucketStep

(* What a settled reservation leaves is within the bucket. *)
LEMMA SettledType ==
  ASSUME config \in Configs, NEW level \in 0 .. config.tpm * Minute,
         NEW reserved \in Nat, NEW used \in Nat
  PROVE  Settled(level, reserved, used) \in 0 .. config.tpm * Minute
BY LimitTypes DEF Settled, AtMost

(* A request at work ends and settles. *)
LEMMA EndStep ==
  ASSUME IndInv, NEW r \in Requests, NEW status \in Statuses, NEW used \in Nat,
         AnswersAt(r, "working", status), Settle(r, used)
  PROVE  IndInv'
<1> DEFINE q == Answered(req[r], status)
           old == pairs[req[r].pair]
           left == Settled(old.tpm, req[r].held, used)
           pair == [old EXCEPT !.tpm = left]
<1>1. /\ req[r].pc = "working" /\ req' = [req EXCEPT ![r] = q]
      /\ pairs' = [pairs EXCEPT ![req[r].pair] = pair]
      /\ UNCHANGED <<config, phase, table>>
  BY DEF AnswersAt, Settle
<1>2. old \in PairsOf(config) /\ req[r].held \in Nat
  BY <1>1, PairLemma, Types DEF LocalStates
<1> HIDE DEF old
<1>3. left \in 0 .. config.tpm * Minute
  BY <1>2, Types, SettledType DEF PairsOf
<1> HIDE DEF left
<1>4. pair \in PairsOf(config)
  BY <1>2, <1>3 DEF PairsOf
<1>5. q \in LocalStates /\ q.pc = "answering" /\ q.held = 0
  BY Types, AnsweredType
<1> HIDE DEF q, pair
<1>6. Works(q, config, table) /\ Holds(q)
  BY <1>5 DEF Works, Holds
<1> QED
  BY <1>1, <1>4, <1>5, <1>6, BucketStep

LEMMA AnswersAtStep ==
  ASSUME IndInv, NEW r \in Requests, NEW pc, NEW status \in Statuses,
         AnswersAt(r, pc, status), UNCHANGED pairs
  PROVE  IndInv'
<1>1. /\ req' = [req EXCEPT ![r] = Answered(req[r], status)]
      /\ UNCHANGED <<config, phase, table, pairs>>
  BY DEF AnswersAt
<1> QED
  BY <1>1, Types, AnswerStep

LEMMA SentStep ==
  ASSUME IndInv, NEW r \in Requests, Sent(r)
  PROVE  IndInv'
<1>1. req' = [req EXCEPT ![r] = Idle] /\ UNCHANGED <<config, phase, table, pairs>>
  BY DEF Sent
<1>2. Works(Idle, config, table) /\ Holds(Idle)
  BY IdleType DEF Works, Holds
<1> QED
  BY <1>1, <1>2, IdleType, QuietStep

LEMMA UsedTypes ==
  ASSUME NEW used \in Usages \cup {0}
  PROVE  used * Minute \in Nat
BY ServerAssumption

LEMMA WorkStep ==
  ASSUME IndInv, NEW r \in Requests, Work(r)
  PROVE  IndInv'
<1>1. CASE Refuse(r) \/ Malformed(r) \/ RefuseTokens(r)
  BY <1>1, AnswersAtStep, StatusTypes DEF Refuse, Malformed, RefuseTokens
<1>2. ASSUME NEW used \in Usages \cup {0}, Succeed(r, used)
      PROVE  IndInv'
  BY <1>2, UsedTypes, EndStep, StatusTypes DEF Succeed
<1>3. ASSUME NEW error \in {"Upstream", "BadRequest", "Internal"}, Fail(r, error)
      PROVE  IndInv'
  <2>1. StatusOf[error] \in Statuses
    BY StatusTypes
  <2> QED
    BY <1>3, <2>1, EndStep DEF Fail
<1> QED
  BY <1>1, <1>2, <1>3, TakesPairStep, ChargeStep, ReserveStep, SentStep DEF Work

LEMMA LeaveStep ==
  ASSUME IndInv, NEW r \in Requests, Leave(r)
  PROVE  IndInv'
<1>1. CASE req[r].pc = "working"
  BY <1>1, EndStep, StatusTypes DEF Leave
<1>2. CASE req[r].pc # "working"
  BY <1>2, AnswersAtStep, StatusTypes DEF Leave
<1> QED
  BY <1>1, <1>2

LEMMA RefilledType ==
  ASSUME config \in Configs, NEW pair \in PairsOf(config)
  PROVE  Refilled(pair) \in PairsOf(config)
<1>1. /\ config.rpm \in Nat /\ config.tpm \in Nat
      /\ config.rpm * Minute \in Nat /\ config.tpm * Minute \in Nat
  BY LimitTypes
<1> DEFINE rpm == config.rpm * Minute
           tpm == config.tpm * Minute
<1>2. rpm \in Nat /\ tpm \in Nat
  BY <1>1
<1> HIDE DEF rpm, tpm
<1>3. pair.rpm \in 0 .. rpm /\ pair.tpm \in 0 .. tpm
  BY DEF PairsOf, rpm, tpm
<1>4. AtMost(pair.rpm + config.rpm, rpm) \in 0 .. rpm
  BY <1>1, <1>2, <1>3 DEF AtMost
<1>5. AtMost(pair.tpm + config.tpm, tpm) \in 0 .. tpm
  BY <1>1, <1>2, <1>3 DEF AtMost
<1> QED
  BY <1>4, <1>5 DEF Refilled, PairsOf, rpm, tpm

LEMMA TickStep ==
  ASSUME IndInv, Tick
  PROVE  IndInv'
<1>1. /\ pairs' = [i \in DOMAIN pairs |-> Refilled(pairs[i])]
      /\ UNCHANGED <<config, phase, table, req>>
  BY DEF Tick
<1>2. /\ Len(pairs) \in Nat /\ DOMAIN pairs = 1 .. Len(pairs)
      /\ \A i \in 1 .. Len(pairs) : pairs[i] \in PairsOf(config)
  BY Types, ElementOfSeq
<1>3. \A i \in 1 .. Len(pairs) : Refilled(pairs[i]) \in PairsOf(config)
  BY <1>2, Types, RefilledType
<1>4. pairs' \in [1 .. Len(pairs) -> PairsOf(config)]
  BY <1>1, <1>2, <1>3
<1>5. pairs' \in Seq(PairsOf(config)) /\ DOMAIN pairs' = DOMAIN pairs
  BY <1>2, <1>4, IsASeq
<1>6. Len(pairs') = Len(pairs)
  BY <1>2, <1>5
<1>7. TypeOK'
  BY <1>1, <1>5, <1>6, Types DEF TypeOK, PairsOf, Phases
<1>8. OnePairEach(config', table', pairs')
  BY <1>1, <1>5 DEF IndInv, OnePairEach
<1> QED
  BY <1>1, <1>7, <1>8 DEF IndInv

LEMMA ProcessStep ==
  ASSUME IndInv, Load \/ Bind \/ Signal \/ Stop \/ UNCHANGED vars
  PROVE  IndInv'
<1>1. UNCHANGED <<config, table, pairs, req>> /\ phase' \in Phases
  BY Types DEF Load, Bind, Signal, Stop, vars, Phases
<1>2. TypeOK'
  BY <1>1, Types DEF TypeOK, PairsOf, Phases
<1> QED
  BY <1>1, <1>2 DEF IndInv

LEMMA InitIndInv == Init => IndInv
<1> SUFFICES ASSUME Init PROVE IndInv
  OBVIOUS
<1>1. pairs = <<>> /\ Len(pairs) = 0 /\ DOMAIN pairs = {} /\ pairs \in Seq(PairsOf(config))
  BY EmptySeq DEF Init
<1>2. TypeOK
  BY <1>1, IdleType DEF Init, TypeOK, PairsOf
<1>3. OnePairEach(config, table, pairs)
  BY <1>1 DEF Init, OnePairEach
<1>4. Works(Idle, config, table) /\ Holds(Idle)
  BY IdleType DEF Works, Holds
<1> QED
  BY <1>2, <1>3, <1>4 DEF Init, IndInv

LEMMA NextIndInv == IndInv /\ [Next]_vars => IndInv'
<1> SUFFICES ASSUME IndInv, [Next]_vars PROVE IndInv'
  OBVIOUS
<1> QED
  BY ProcessStep, TickStep, ArriveStep, WorkStep, LeaveStep DEF Next

LEMMA Invariance == Spec => []IndInv
BY InitIndInv, NextIndInv, PTL DEF Spec

(* The process, its buckets and its requests are well-formed: no bucket    *)
(* ever holds less than nothing or more than its limit.                    *)
THEOREM TypeCorrect == Spec => []TypeOK
<1>1. IndInv => TypeOK
  BY DEF IndInv
<1> QED
  BY <1>1, Invariance, PTL

(* Every request is charged to the one pair of its own client. *)
THEOREM ClientsAreApart == Spec => []WorksForItsClient
<1>1. IndInv => WorksForItsClient
  BY DEF IndInv, Works, OnePairEach, WorksForItsClient
<1> QED
  BY <1>1, Invariance, PTL

----------------------------------------------------------------------------
(* The state as clients see it. *)
Altered(f, i, v) == [f EXCEPT ![i] = v]

LEMMA ReqView ==
  ASSUME IndInv, NEW r \in Requests, NEW q \in LocalStates, req' = [req EXCEPT ![r] = q]
  PROVE  /\ Stages(req') = Altered(Stages(req), r, StageOf(q))
         /\ Owners(req') = Altered(Owners(req), r, OwnerOf(q))
         /\ Holdings(req') = Altered(Holdings(req), r, q.held)
<1>1. req' \in [Requests -> LocalStates] /\ req'[r] = q
  BY Types
<1>2. \A u \in Requests : u # r => req'[u] = req[u]
  BY Types
<1> QED
  BY <1>1, <1>2 DEF Altered, Stages, Owners, Holdings

LEMMA AllowanceTypes ==
  ASSUME IndInv, NEW c \in Clients
  PROVE  /\ Left(c, config, table, pairs) \in PairsOf(config)
         /\ Rpms(config, table, pairs)[c] \in Nat
         /\ Tpms(config, table, pairs)[c] \in Nat
<1>1. Left(c, config, table, pairs) \in PairsOf(config)
  <2>1. CASE table[c] = 0
    BY <2>1, FullPairType, Types DEF Left
  <2>2. CASE table[c] # 0
    <3>1. table[c] \in 1 .. Len(pairs)
      BY <2>2, Types
    <3> QED
      BY <2>2, <3>1, ElementOfSeq, Types DEF Left
  <2> QED
    BY <2>1, <2>2
<1>2. /\ Left(c, config, table, pairs).rpm \in Nat
      /\ Left(c, config, table, pairs).tpm \in Nat
  BY <1>1, LimitTypes, Types DEF PairsOf
<1> QED
  BY <1>1, <1>2 DEF Rpms, Tpms

(* A change of a request's pair is one of its client's allowances. *)
LEMMA BucketView ==
  ASSUME IndInv, NEW r \in Requests, req[r].pc \notin {"idle", "answering", "limiting"},
         NEW pair, pairs' = [pairs EXCEPT ![req[r].pair] = pair],
         UNCHANGED <<config, table>>
  PROVE  /\ Left(req[r].client, config, table, pairs) = pairs[req[r].pair]
         /\ Rpms(config', table', pairs')
              = Altered(Rpms(config, table, pairs), req[r].client, pair.rpm)
         /\ Tpms(config', table', pairs')
              = Altered(Tpms(config, table, pairs), req[r].client, pair.tpm)
<1> DEFINE c == req[r].client
<1>1. /\ c \in Clients /\ table[c] = req[r].pair /\ req[r].pair # 0
      /\ req[r].pair \in DOMAIN pairs
  BY ClientLemma, PairLemma, Types
<1> HIDE DEF c
<1>2. Left(c, config, table, pairs) = pairs[req[r].pair]
  BY <1>1 DEF Left
<1>3. Left(c, config', table', pairs') = pair
  BY <1>1 DEF Left
<1>4. ASSUME NEW d \in Clients, d # c
      PROVE  Left(d, config', table', pairs') = Left(d, config, table, pairs)
  <2>1. table[d] # req[r].pair
    BY <1>1, <1>4 DEF IndInv, OnePairEach
  <2>2. table[d] # 0 => table[d] \in DOMAIN pairs
    BY Types
  <2> QED
    BY <2>1, <2>2 DEF Left
<1>5. /\ Rpms(config', table', pairs') = Altered(Rpms(config, table, pairs), c, pair.rpm)
      /\ Tpms(config', table', pairs') = Altered(Tpms(config, table, pairs), c, pair.tpm)
  BY <1>1, <1>3, <1>4 DEF Rpms, Tpms, Altered
<1> QED
  BY <1>2, <1>5 DEF c

(* The end of a request at work leaves this in the tokens of its client. *)
LEMMA EndView ==
  ASSUME IndInv, NEW r \in Requests, NEW status, NEW used \in Nat,
         AnswersAt(r, "working", status), Settle(r, used)
  PROVE  /\ Rpms(config', table', pairs') = Rpms(config, table, pairs)
         /\ Tpms(config', table', pairs')
              = Altered(Tpms(config, table, pairs), req[r].client,
                        Settled(Tpms(config, table, pairs)[req[r].client], req[r].held, used))
<1> DEFINE c == req[r].client
           old == pairs[req[r].pair]
           left == Settled(old.tpm, req[r].held, used)
           pair == [old EXCEPT !.tpm = left]
<1>1. /\ req[r].pc = "working"
      /\ pairs' = [pairs EXCEPT ![req[r].pair] = pair]
      /\ UNCHANGED <<config, table>>
  BY DEF AnswersAt, Settle
<1>2. c \in Clients /\ old \in PairsOf(config)
  BY <1>1, ClientLemma, PairLemma
<1>3. Left(c, config, table, pairs) = old
  BY <1>1, BucketView
<1> HIDE DEF old, c
<1>4. /\ Rpms(config, table, pairs)[c] = old.rpm
      /\ Tpms(config, table, pairs)[c] = old.tpm
  BY <1>2, <1>3 DEF Rpms, Tpms
<1> HIDE DEF left
<1>5. pair.rpm = old.rpm /\ pair.tpm = left
  BY <1>2 DEF PairsOf
<1> HIDE DEF pair
<1>6. /\ Rpms(config', table', pairs') = Altered(Rpms(config, table, pairs), c, old.rpm)
      /\ Tpms(config', table', pairs') = Altered(Tpms(config, table, pairs), c, left)
  BY <1>1, <1>5, BucketView DEF c
<1>7. Altered(Rpms(config, table, pairs), c, old.rpm) = Rpms(config, table, pairs)
  BY <1>4 DEF Altered, Rpms
<1> QED
  BY <1>4, <1>6, <1>7 DEF c, left

(* A request at work stops working in a step of its own only. *)
LEMMA EndsItself ==
  ASSUME IndInv, [Next]_vars, NEW r \in Requests,
         req[r].pc = "working", req'[r].pc # "working"
  PROVE  \/ \E used \in Usages \cup {0} : Succeed(r, used)
         \/ \E error \in {"Upstream", "BadRequest", "Internal"} : Fail(r, error)
         \/ Leave(r)
<1>1. CASE Load \/ Bind \/ Signal \/ Stop \/ Tick \/ UNCHANGED vars
  BY <1>1 DEF Load, Bind, Signal, Stop, Tick, vars
<1>2. ASSUME NEW u \in Requests,
             (\E k \in Kinds : Arrive(u, k)) \/ Work(u) \/ Leave(u)
      PROVE  u = r
  <2>1. \E q : req' = [req EXCEPT ![u] = q]
    <3>1. CASE \E k \in Kinds : Arrive(u, k)
      BY <3>1 DEF Arrive, TooLarge, Public, Unauthorized, Authenticated, Begins
    <3>2. CASE Work(u)
      BY <3>2 DEF Work, FindPair, Charge, Refuse, Malformed, Parse, Reserve, RefuseTokens,
         Succeed, Fail, Sent, TakesPair, AnswersAt
    <3>3. CASE Leave(u)
      BY <3>3 DEF Leave, AnswersAt
    <3> QED
      BY <1>2, <3>1, <3>2, <3>3
  <2> QED
    BY <2>1, Types
<1>3. CASE \E k \in Kinds : Arrive(r, k)
  BY <1>3 DEF Arrive, TooLarge, Public, Unauthorized, Authenticated, Begins, IsTaken
<1>4. CASE Work(r)
  BY <1>4 DEF Work, FindPair, Charge, Refuse, Malformed, Parse, Reserve, RefuseTokens,
     Sent, AnswersAt
<1> QED
  BY <1>1, <1>2, <1>3, <1>4 DEF Next

(* A request that ends without an answer of its handler's gives its        *)
(* reservation back to its client, and changes no other's tokens.          *)
THEOREM Refunded == Spec => FailureIsRefunded
<1>1. ASSUME IndInv, [Next]_vars, NEW r \in Requests,
             req[r].pc = "working", req'[r].pc # "working", req'[r].status # 200
      PROVE  Tpms(config', table', pairs')
               = Altered(Tpms(config, table, pairs), req[r].client,
                         AtMost(Tpms(config, table, pairs)[req[r].client] + req[r].held,
                                config.tpm * Minute))
  <2>1. \E status \in Statuses : AnswersAt(r, "working", status) /\ Settle(r, 0)
    <3>1. ASSUME NEW used \in Usages \cup {0}, Succeed(r, used)
          PROVE  FALSE
      <4>1. req'[r] = Answered(req[r], 200)
        BY <1>1, <3>1, Types DEF Succeed, AnswersAt
      <4>2. Answered(req[r], 200).status = 200
        BY DEF Answered, Idle
      <4> QED
        BY <1>1, <4>1, <4>2
    <3>2. ASSUME NEW error \in {"Upstream", "BadRequest", "Internal"}, Fail(r, error)
          PROVE  <2>1
      BY <3>2, StatusTypes DEF Fail
    <3>3. CASE Leave(r)
      BY <1>1, <3>3, StatusTypes DEF Leave
    <3> QED
      BY <1>1, <3>1, <3>2, <3>3, EndsItself
  <2>2. Tpms(config', table', pairs')
          = Altered(Tpms(config, table, pairs), req[r].client,
                    Settled(Tpms(config, table, pairs)[req[r].client], req[r].held, 0))
    BY <1>1, <2>1, EndView
  <2>3. \A level : Settled(level, req[r].held, 0) = AtMost(level + req[r].held - 0, config.tpm * Minute)
    BY <1>1, Types DEF Settled, LocalStates
  <2>4. Tpms(config, table, pairs)[req[r].client] \in Nat
    <3>1. req[r].client \in Clients
      BY <1>1, ClientLemma
    <3> QED
      BY <1>1, <3>1, AllowanceTypes
  <2>5. req[r].held \in Nat
    BY <1>1, Types DEF LocalStates
  <2> QED
    BY <2>2, <2>3, <2>4, <2>5
<1>2. IndInv /\ [Next]_vars =>
        [\A r \in Requests :
           req[r].pc = "working" /\ req'[r].pc # "working" /\ req'[r].status # 200 =>
             Tpms(config', table', pairs') =
               [Tpms(config, table, pairs) EXCEPT ![req[r].client] =
                  AtMost(@ + req[r].held, config.tpm * Minute)]]_vars
  BY <1>1 DEF Altered
<1> QED
  BY <1>2, Invariance, PTL DEF Spec, FailureIsRefunded

----------------------------------------------------------------------------
(* The refinement of AdmissionContract. *)
ContractStep == [Contract!Next]_(Contract!vars)

LEMMA StageFacts ==
  ASSUME NEW q
  PROVE  /\ q.pc \in {"handling", "reserving"} => StageOf(q) = "admitted"
         /\ q.pc = "working" => StageOf(q) = "holding"
         /\ q.pc = "answering" /\ q.status = StatusOf.RateLimited => StageOf(q) = "refused"
         /\ q.pc = "answering" /\ q.status # StatusOf.RateLimited => StageOf(q) = "outside"
         /\ q.pc \in {"idle", "limiting", "charging"} => StageOf(q) = "outside"
         /\ StageOf(q) = "outside" => OwnerOf(q) = Nobody
         /\ StageOf(q) # "outside" => OwnerOf(q) = q.client
BY DEF StageOf, OwnerOf

LEMMA StutterView ==
  ASSUME config' = config,
         Rpms(config', table', pairs') = Rpms(config, table, pairs),
         Tpms(config', table', pairs') = Tpms(config, table, pairs),
         Stages(req') = Stages(req), Owners(req') = Owners(req),
         Holdings(req') = Holdings(req)
  PROVE  ContractStep
BY DEF ContractStep, Contract!vars

(* One request moves, seen by nobody. *)
LEMMA QuietView ==
  ASSUME IndInv, NEW r \in Requests, NEW q \in LocalStates, req' = [req EXCEPT ![r] = q],
         StageOf(q) = StageOf(req[r]), OwnerOf(q) = OwnerOf(req[r]), q.held = req[r].held,
         config' = config,
         Rpms(config', table', pairs') = Rpms(config, table, pairs),
         Tpms(config', table', pairs') = Tpms(config, table, pairs)
  PROVE  ContractStep
<1>1. /\ Stages(req') = Altered(Stages(req), r, StageOf(req[r]))
      /\ Owners(req') = Altered(Owners(req), r, OwnerOf(req[r]))
      /\ Holdings(req') = Altered(Holdings(req), r, req[r].held)
  BY ReqView
<1>2. /\ Altered(Stages(req), r, StageOf(req[r])) = Stages(req)
      /\ Altered(Owners(req), r, OwnerOf(req[r])) = Owners(req)
      /\ Altered(Holdings(req), r, req[r].held) = Holdings(req)
  BY DEF Altered, Stages, Owners, Holdings
<1> QED
  BY <1>1, <1>2, StutterView

(* A pair that is made on demand was there from the start. *)
LEMMA TakesPairView ==
  ASSUME IndInv, NEW r \in Requests, FindPair(r) \/ Parse(r)
  PROVE  ContractStep
<1>1. PICK next \in {"charging", "reserving"} :
        /\ TakesPair(r, next)
        /\ \/ req[r].pc = "limiting" /\ next = "charging"
           \/ req[r].pc = "handling" /\ next = "reserving"
  BY DEF FindPair, Parse
<1>2. PICK q \in LocalStates : HasPair(r, next, q)
  BY <1>1, TakesPairLemma
<1>3. q.pc = next /\ q.client = req[r].client /\ q.held = req[r].held
  BY <1>2, Types DEF LocalStates, HasPair
<1>4. StageOf(q) = StageOf(req[r]) /\ OwnerOf(q) = OwnerOf(req[r])
  BY <1>1, <1>3, StageFacts
<1>5. config' = config
  BY <1>1 DEF TakesPair
<1>6. \A c \in Clients : Left(c, config, table', pairs') = Left(c, config, table, pairs)
  BY <1>2 DEF HasPair, Left
<1>7. /\ Rpms(config', table', pairs') = Rpms(config, table, pairs)
      /\ Tpms(config', table', pairs') = Tpms(config, table, pairs)
  BY <1>5, <1>6 DEF Rpms, Tpms
<1> QED
  BY <1>2, <1>3, <1>4, <1>5, <1>7, QuietView DEF HasPair

LEMMA SameView ==
  ASSUME UNCHANGED <<config, table, pairs>>
  PROVE  /\ Rpms(config', table', pairs') = Rpms(config, table, pairs)
         /\ Tpms(config', table', pairs') = Tpms(config, table, pairs)
OBVIOUS

(* A request outside stays outside, or leaves with its bucket untouched.   *)
LEMMA OutsideView ==
  ASSUME IndInv, NEW r \in Requests, NEW q \in LocalStates, req' = [req EXCEPT ![r] = q],
         StageOf(q) = "outside", q.held = 0, StageOf(req[r]) # "holding",
         UNCHANGED <<config, table, pairs>>
  PROVE  ContractStep
<1>1. req[r].pc # "working"
  BY StageFacts
<1>2. req[r].held = 0
  BY <1>1 DEF IndInv, Holds
<1>3. CASE StageOf(req[r]) = "outside"
  BY <1>2, <1>3, SameView, StageFacts, QuietView
<1>4. CASE StageOf(req[r]) # "outside"
  <2>1. StageOf(req[r]) \in {"admitted", "refused"}
    BY <1>4 DEF StageOf
  <2>2. /\ Stages(req') = Altered(Stages(req), r, "outside")
        /\ Owners(req') = Altered(Owners(req), r, Nobody)
        /\ Holdings(req') = Altered(Holdings(req), r, 0)
    BY ReqView, StageFacts
  <2>3. Holdings(req') = Holdings(req)
    BY <1>2, <2>2 DEF Altered, Holdings
  <2>4. Stages(req)[r] \in {"admitted", "refused"}
    BY <2>1 DEF Stages
  <2>5. Contract!Leave(r)
    BY <2>2, <2>3, <2>4, SameView
       DEF Contract!Leave, Contract!Moves, Altered, Contract!Nobody, Nobody
  <2> QED
    BY <2>5 DEF ContractStep, Contract!Next
<1> QED
  BY <1>3, <1>4

LEMMA RefuseView ==
  ASSUME IndInv, NEW r \in Requests, Refuse(r)
  PROVE  ContractStep
<1> DEFINE q == Answered(req[r], StatusOf.RateLimited)
           c == req[r].client
<1>1. /\ req[r].pc = "charging" /\ req' = [req EXCEPT ![r] = q]
      /\ pairs[req[r].pair].rpm < Minute
      /\ UNCHANGED <<config, table, pairs>>
  BY DEF Refuse, AnswersAt
<1>2. /\ q \in LocalStates /\ q.pc = "answering" /\ q.held = 0 /\ q.client = c
      /\ q.status = StatusOf.RateLimited
  BY Types, StatusTypes, AnsweredType
<1>3. /\ c \in Clients /\ req[r].pair = table[c] /\ req[r].pair # 0
      /\ req[r].held = 0
  BY <1>1, ClientLemma, PairLemma DEF IndInv, Holds
<1> HIDE DEF q, c
<1>4. Rpms(config, table, pairs)[c] < Minute
  BY <1>1, <1>3 DEF Rpms, Left
<1>5. /\ Stages(req') = Altered(Stages(req), r, "refused")
      /\ Owners(req') = Altered(Owners(req), r, c)
      /\ Holdings(req') = Altered(Holdings(req), r, 0)
  BY <1>1, <1>2, ReqView, StageFacts
<1>6. Holdings(req') = Holdings(req)
  BY <1>3, <1>5 DEF Altered, Holdings
<1>7. Stages(req)[r] = "outside"
  BY <1>1, StageFacts DEF Stages
<1>8. Contract!Refuse(r, c)
  BY <1>1, <1>4, <1>5, <1>6, <1>7, SameView DEF Contract!Refuse, Contract!Moves, Altered
<1> QED
  BY <1>1, <1>3, <1>8 DEF ContractStep, Contract!Next

LEMMA ChargeView ==
  ASSUME IndInv, NEW r \in Requests, Charge(r)
  PROVE  ContractStep
<1> DEFINE q == [req[r] EXCEPT !.pc = "handling"]
           c == req[r].client
           old == pairs[req[r].pair]
           pair == [old EXCEPT !.rpm = @ - Minute]
<1>1. /\ req[r].pc = "charging" /\ req' = [req EXCEPT ![r] = q]
      /\ old.rpm >= Minute /\ pairs' = [pairs EXCEPT ![req[r].pair] = pair]
      /\ UNCHANGED <<config, table>>
  BY DEF Charge
<1>2. c \in Clients /\ old \in PairsOf(config) /\ req[r].held = 0
  BY <1>1, ClientLemma, PairLemma DEF IndInv, Holds
<1>3. Left(c, config, table, pairs) = old
  BY <1>1, BucketView
<1>4. q \in LocalStates /\ q.pc = "handling" /\ q.client = c /\ q.held = req[r].held
  BY Types DEF LocalStates
<1> HIDE DEF q, c, old
<1>5. /\ Rpms(config, table, pairs)[c] = old.rpm
      /\ Tpms(config, table, pairs)[c] = old.tpm
  BY <1>2, <1>3 DEF Rpms, Tpms
<1>6. pair.rpm = old.rpm - Minute /\ pair.tpm = old.tpm
  BY <1>2 DEF PairsOf
<1> HIDE DEF pair
<1>7. /\ Rpms(config', table', pairs')
           = Altered(Rpms(config, table, pairs), c, old.rpm - Minute)
      /\ Tpms(config', table', pairs') = Altered(Tpms(config, table, pairs), c, old.tpm)
  BY <1>1, <1>6, BucketView DEF c
<1>8. Tpms(config', table', pairs') = Tpms(config, table, pairs)
  BY <1>5, <1>7 DEF Altered, Tpms
<1>9. /\ Stages(req') = Altered(Stages(req), r, "admitted")
      /\ Owners(req') = Altered(Owners(req), r, c)
      /\ Holdings(req') = Altered(Holdings(req), r, 0)
  BY <1>1, <1>2, <1>4, ReqView, StageFacts
<1>10. Holdings(req') = Holdings(req)
  BY <1>2, <1>9 DEF Altered, Holdings
<1>11. Stages(req)[r] = "outside"
  BY <1>1, StageFacts DEF Stages
<1>12. Contract!Admit(r, c)
  BY <1>1, <1>5, <1>7, <1>8, <1>9, <1>10, <1>11 DEF Contract!Admit, Contract!Moves, Altered
<1> QED
  BY <1>1, <1>2, <1>12 DEF ContractStep, Contract!Next

Amounts == {n * Minute : n \in {k.cost : k \in Kinds} \cup Usages \cup {0}}

LEMMA AmountFacts ==
  /\ 0 \in Amounts
  /\ \A used \in Usages \cup {0} : used * Minute \in Amounts
<1>1. 0 * Minute = 0
  BY ServerAssumption
<1>2. \A used \in Usages \cup {0} : used * Minute \in Amounts
  BY DEF Amounts
<1> QED
  BY <1>1, <1>2

LEMMA CostAmount ==
  ASSUME IndInv, NEW r \in Requests
  PROVE  Cost(r) \in Amounts
<1>1. req[r].kind \in Kinds \cup {Idle.kind}
  BY Types DEF LocalStates
<1>2. Idle.kind.cost = 0
  BY DEF Idle
<1> QED
  BY <1>1, <1>2 DEF Amounts, Cost

LEMMA ReserveView ==
  ASSUME IndInv, NEW r \in Requests, Reserve(r)
  PROVE  ContractStep
<1> DEFINE cost == Cost(r)
           q == [req[r] EXCEPT !.pc = "working", !.held = cost]
           c == req[r].client
           old == pairs[req[r].pair]
           pair == [old EXCEPT !.tpm = @ - cost]
<1>1. /\ req[r].pc = "reserving" /\ req' = [req EXCEPT ![r] = q]
      /\ old.tpm >= cost /\ pairs' = [pairs EXCEPT ![req[r].pair] = pair]
      /\ UNCHANGED <<config, table>>
  BY DEF Reserve
<1>2. /\ c \in Clients /\ old \in PairsOf(config)
      /\ cost \in Nat /\ cost \in Amounts
  BY <1>1, ClientLemma, PairLemma, CostType, CostAmount
<1>3. Left(c, config, table, pairs) = old
  BY <1>1, BucketView
<1> HIDE DEF cost
<1>4. q \in LocalStates /\ q.pc = "working" /\ q.client = c /\ q.held = cost
  BY <1>2, Types DEF LocalStates
<1> HIDE DEF q, c, old
<1>5. /\ Rpms(config, table, pairs)[c] = old.rpm
      /\ Tpms(config, table, pairs)[c] = old.tpm
  BY <1>2, <1>3 DEF Rpms, Tpms
<1>6. pair.tpm = old.tpm - cost /\ pair.rpm = old.rpm
  BY <1>2 DEF PairsOf
<1> HIDE DEF pair
<1>7. /\ Tpms(config', table', pairs')
           = Altered(Tpms(config, table, pairs), c, old.tpm - cost)
      /\ Rpms(config', table', pairs') = Altered(Rpms(config, table, pairs), c, old.rpm)
  BY <1>1, <1>6, BucketView DEF c
<1>8. Rpms(config', table', pairs') = Rpms(config, table, pairs)
  BY <1>5, <1>7 DEF Altered, Rpms
<1>9. /\ Stages(req') = Altered(Stages(req), r, "holding")
      /\ Owners(req') = Altered(Owners(req), r, c)
      /\ Holdings(req') = Altered(Holdings(req), r, cost)
  BY <1>1, <1>4, ReqView, StageFacts
<1>10. Stages(req)[r] = "admitted" /\ Owners(req)[r] = c
  BY <1>1, StageFacts DEF Stages, Owners, c
<1>11. Owners(req') = Owners(req)
  BY <1>9, <1>10 DEF Altered, Owners
<1>12. Contract!Reserve(r, cost)
  BY <1>1, <1>5, <1>7, <1>8, <1>9, <1>10, <1>11 DEF Contract!Reserve, Contract!Moves, Altered
<1> QED
  BY <1>1, <1>2, <1>12 DEF ContractStep, Contract!Next, Amounts

LEMMA RefuseTokensView ==
  ASSUME IndInv, NEW r \in Requests, RefuseTokens(r)
  PROVE  ContractStep
<1> DEFINE q == Answered(req[r], StatusOf.RateLimited)
           c == req[r].client
           cost == Cost(r)
<1>1. /\ req[r].pc = "reserving" /\ req' = [req EXCEPT ![r] = q]
      /\ pairs[req[r].pair].tpm < cost
      /\ UNCHANGED <<config, table, pairs>>
  BY DEF RefuseTokens, AnswersAt
<1>2. /\ q \in LocalStates /\ q.pc = "answering" /\ q.held = 0 /\ q.client = c
      /\ q.status = StatusOf.RateLimited
  BY Types, StatusTypes, AnsweredType
<1>3. /\ c \in Clients /\ req[r].pair = table[c] /\ req[r].pair # 0
      /\ req[r].held = 0 /\ cost \in Amounts
  BY <1>1, ClientLemma, PairLemma, CostAmount DEF IndInv, Holds
<1> HIDE DEF q, cost
<1>4. Tpms(config, table, pairs)[c] < cost
  BY <1>1, <1>3 DEF Tpms, Left
<1>5. Stages(req)[r] = "admitted" /\ Owners(req)[r] = c
  BY <1>1, StageFacts DEF Stages, Owners
<1> HIDE DEF c
<1>6. /\ Stages(req') = Altered(Stages(req), r, "refused")
      /\ Owners(req') = Altered(Owners(req), r, c)
      /\ Holdings(req') = Altered(Holdings(req), r, 0)
  BY <1>1, <1>2, ReqView, StageFacts
<1>7. Holdings(req') = Holdings(req) /\ Owners(req') = Owners(req)
  BY <1>3, <1>5, <1>6 DEF Altered, Holdings, Owners
<1>8. Contract!RefuseTokens(r, cost)
  BY <1>1, <1>4, <1>5, <1>6, <1>7, SameView DEF Contract!RefuseTokens, Contract!Moves, Altered
<1> QED
  BY <1>1, <1>3, <1>8 DEF ContractStep, Contract!Next, Amounts

LEMMA PayView ==
  ASSUME IndInv, NEW r \in Requests, NEW status \in Statuses \ {StatusOf.RateLimited},
         NEW used \in Amounts, used \in Nat, AnswersAt(r, "working", status), Settle(r, used)
  PROVE  ContractStep
<1> DEFINE q == Answered(req[r], status)
           c == req[r].client
           level == Tpms(config, table, pairs)[c]
           left == Settled(level, req[r].held, used)
<1>1. req[r].pc = "working" /\ req' = [req EXCEPT ![r] = q] /\ config' = config
  BY DEF AnswersAt
<1>2. /\ q \in LocalStates /\ q.pc = "answering" /\ q.held = 0
      /\ q.status # StatusOf.RateLimited
  BY Types, AnsweredType
<1>3. /\ Rpms(config', table', pairs') = Rpms(config, table, pairs)
      /\ Tpms(config', table', pairs') = Altered(Tpms(config, table, pairs), c, left)
  BY EndView
<1>4. /\ Stages(req)[r] = "holding" /\ Owners(req)[r] = c
      /\ Holdings(req)[r] = req[r].held
  BY <1>1, StageFacts DEF Stages, Owners, Holdings
<1> HIDE DEF q, c
<1>5. /\ Stages(req') = Altered(Stages(req), r, "outside")
      /\ Owners(req') = Altered(Owners(req), r, Nobody)
      /\ Holdings(req') = Altered(Holdings(req), r, 0)
  BY <1>1, <1>2, ReqView, StageFacts
<1>6. left = IF used <= req[r].held
               THEN Contract!AtMost(level + req[r].held - used, config.tpm * Minute)
               ELSE IF used - req[r].held <= level THEN level - (used - req[r].held)
               ELSE level
  BY DEF Settled, AtMost, Contract!AtMost
<1> HIDE DEF level, left
<1>7. Tpms(config, table, pairs)[c] = level
  BY DEF level
<1>8. Contract!Pay(r, used)
  BY <1>3, <1>4, <1>5, <1>6, <1>7
     DEF Contract!Pay, Contract!Moves, Contract!Nobody, Nobody, Altered
<1> QED
  BY <1>1, <1>8 DEF ContractStep, Contract!Next, Amounts

LEMMA TickView ==
  ASSUME IndInv, Tick
  PROVE  ContractStep
<1>1. /\ pairs' = [i \in DOMAIN pairs |-> Refilled(pairs[i])]
      /\ UNCHANGED <<config, table, req>>
  BY DEF Tick
<1>2. config.rpm \in Nat /\ config.tpm \in Nat
      /\ config.rpm * Minute \in Nat /\ config.tpm * Minute \in Nat
  BY Types, LimitTypes
<1>3. Refilled(FullPair(config)) = FullPair(config)
  <2> DEFINE rpm == config.rpm * Minute
             tpm == config.tpm * Minute
  <2>1. rpm \in Nat /\ tpm \in Nat
    BY <1>2
  <2> HIDE DEF rpm, tpm
  <2>2. AtMost(rpm + config.rpm, rpm) = rpm /\ AtMost(tpm + config.tpm, tpm) = tpm
    BY <1>2, <2>1 DEF AtMost
  <2> QED
    BY <2>2 DEF Refilled, FullPair, rpm, tpm
<1>4. ASSUME NEW c \in Clients
      PROVE  Left(c, config', table', pairs') = Refilled(Left(c, config, table, pairs))
  <2>1. CASE table[c] = 0
    BY <1>1, <1>3, <2>1 DEF Left
  <2>2. CASE table[c] # 0
    <3>1. table[c] \in DOMAIN pairs
      BY <2>2, Types
    <3> QED
      BY <1>1, <2>2, <3>1 DEF Left
  <2> QED
    BY <2>1, <2>2
<1>5. Rpms(config', table', pairs')
        = [c \in Clients |-> Contract!AtMost(Rpms(config, table, pairs)[c] + config.rpm,
                                             config.rpm * Minute)]
  BY <1>4 DEF Rpms, Refilled, AtMost, Contract!AtMost
<1>6. Tpms(config', table', pairs')
        = [c \in Clients |-> Contract!AtMost(Tpms(config, table, pairs)[c] + config.tpm,
                                             config.tpm * Minute)]
  BY <1>4 DEF Tpms, Refilled, AtMost, Contract!AtMost
<1>7. /\ Stages(req') = Stages(req) /\ Owners(req') = Owners(req)
      /\ Holdings(req') = Holdings(req)
  BY <1>1
<1>8. Contract!Tick
  BY <1>5, <1>6, <1>7 DEF Contract!Tick
<1> QED
  BY <1>1, <1>8 DEF ContractStep, Contract!Next

LEMMA ProcessView ==
  ASSUME UNCHANGED <<config, table, pairs, req>>
  PROVE  ContractStep
<1>1. /\ Stages(req') = Stages(req) /\ Owners(req') = Owners(req)
      /\ Holdings(req') = Holdings(req)
  OBVIOUS
<1> QED
  BY <1>1, SameView, StutterView

LEMMA ArriveView ==
  ASSUME IndInv, NEW r \in Requests, NEW k \in Kinds, Arrive(r, k)
  PROVE  ContractStep
<1>1. req[r].pc = "idle" /\ UNCHANGED <<config, table, pairs>>
  BY DEF Arrive, TooLarge, Public, Unauthorized, Authenticated, Begins, IsTaken
<1>2. StageOf(req[r]) # "holding"
  BY <1>1, StageFacts
<1>3. CASE TooLarge(r, k) \/ Public(r, k) \/ Unauthorized(r, k)
  <2>1. PICK status \in Statuses \ {StatusOf.RateLimited} :
          req' = [req EXCEPT ![r] = Answered(Idle, status)]
    <3>1. /\ PayloadTooLarge # StatusOf.RateLimited /\ 200 # StatusOf.RateLimited
          /\ StatusOf.Unauthorized # StatusOf.RateLimited
      BY DEF PayloadTooLarge, StatusOf
    <3> QED
      BY <1>3, <3>1, StatusTypes DEF TooLarge, Public, Unauthorized, Begins
  <2> DEFINE q == Answered(Idle, status)
  <2>2. /\ q \in LocalStates /\ q.pc = "answering" /\ q.held = 0
        /\ q.status # StatusOf.RateLimited /\ req' = [req EXCEPT ![r] = q]
    BY <2>1, IdleType, AnsweredType
  <2> HIDE DEF q
  <2>3. StageOf(q) = "outside"
    BY <2>2, StageFacts
  <2> QED
    BY <1>1, <1>2, <2>2, <2>3, OutsideView
<1>4. CASE Authenticated(r, k)
  <2> DEFINE client == ClientOf(config, k.key)
             q == [Idle EXCEPT !.kind = k, !.pc = "limiting", !.client = client]
  <2>1. k.key \in Keys(config) /\ req' = [req EXCEPT ![r] = q]
    BY <1>4 DEF Authenticated, Begins
  <2>2. client \in Clients
    BY <2>1, Types DEF Clients, ClientsOf
  <2> HIDE DEF client
  <2>3. q \in LocalStates /\ q.pc = "limiting" /\ q.held = 0
    BY <2>2, IdleType DEF Idle, LocalStates
  <2> HIDE DEF q
  <2>4. StageOf(q) = "outside"
    BY <2>3, StageFacts
  <2> QED
    BY <1>1, <1>2, <2>1, <2>3, <2>4, OutsideView
<1> QED
  BY <1>3, <1>4 DEF Arrive

(* An answer other than a refusal, decided before anything is reserved. *)
LEMMA AnswersView ==
  ASSUME IndInv, NEW r \in Requests, AnswersAt(r, "handling", StatusOf.BadRequest)
                                   \/ AnswersAt(r, "handling", NoStatus),
         UNCHANGED pairs
  PROVE  ContractStep
<1>1. PICK status \in Statuses \ {StatusOf.RateLimited} : AnswersAt(r, "handling", status)
  <2>1. StatusOf.BadRequest # StatusOf.RateLimited /\ NoStatus # StatusOf.RateLimited
    BY DEF StatusOf, NoStatus
  <2> QED
    BY <2>1, StatusTypes
<1> DEFINE q == Answered(req[r], status)
<1>2. /\ req[r].pc = "handling" /\ req' = [req EXCEPT ![r] = q]
      /\ UNCHANGED <<config, table, pairs>>
  BY <1>1 DEF AnswersAt
<1>3. /\ q \in LocalStates /\ q.pc = "answering" /\ q.held = 0
      /\ q.status # StatusOf.RateLimited
  BY Types, AnsweredType
<1> HIDE DEF q
<1>4. StageOf(q) = "outside" /\ StageOf(req[r]) # "holding"
  BY <1>2, <1>3, StageFacts
<1> QED
  BY <1>2, <1>3, <1>4, OutsideView

LEMMA SentView ==
  ASSUME IndInv, NEW r \in Requests, Sent(r)
  PROVE  ContractStep
<1>1. /\ req[r].pc = "answering" /\ req' = [req EXCEPT ![r] = Idle]
      /\ UNCHANGED <<config, table, pairs>>
  BY DEF Sent
<1>2. StageOf(Idle) = "outside" /\ StageOf(req[r]) # "holding"
  BY <1>1, IdleType, StageFacts
<1> QED
  BY <1>1, <1>2, IdleType, OutsideView

LEMMA WorkView ==
  ASSUME IndInv, NEW r \in Requests, Work(r)
  PROVE  ContractStep
<1>1. ASSUME NEW used \in Usages \cup {0}, Succeed(r, used)
      PROVE  ContractStep
  <2>1. 200 # StatusOf.RateLimited
    BY DEF StatusOf
  <2> QED
    BY <1>1, <2>1, UsedTypes, AmountFacts, StatusTypes, PayView DEF Succeed
<1>2. ASSUME NEW error \in {"Upstream", "BadRequest", "Internal"}, Fail(r, error)
      PROVE  ContractStep
  <2>1. StatusOf[error] \in Statuses \ {StatusOf.RateLimited}
    BY StatusTypes DEF StatusOf
  <2> QED
    BY <1>2, <2>1, AmountFacts, PayView DEF Fail
<1>3. CASE Malformed(r)
  BY <1>3, AnswersView DEF Malformed
<1> QED
  BY <1>1, <1>2, <1>3, TakesPairView, ChargeView, RefuseView, ReserveView,
     RefuseTokensView, SentView DEF Work

LEMMA LeaveView ==
  ASSUME IndInv, NEW r \in Requests, Leave(r)
  PROVE  ContractStep
<1>1. NoStatus \in Statuses \ {StatusOf.RateLimited}
  BY StatusTypes DEF NoStatus, StatusOf
<1>2. CASE req[r].pc = "working"
  BY <1>1, <1>2, AmountFacts, PayView DEF Leave
<1>3. CASE req[r].pc = "handling"
  BY <1>3, AnswersView DEF Leave
<1> QED
  BY <1>2, <1>3 DEF Leave

LEMMA InitView == Init => Contract!Init
<1> SUFFICES ASSUME Init PROVE Contract!Init
  OBVIOUS
<1>1. config \in Configs /\ config.rpm \in Nat /\ config.tpm \in Nat
  BY LimitTypes DEF Init
<1>2. \A c \in Clients : Left(c, config, table, pairs) = FullPair(config)
  BY DEF Init, Left
<1>3. /\ Rpms(config, table, pairs) = [c \in Clients |-> config.rpm * Minute]
      /\ Tpms(config, table, pairs) = [c \in Clients |-> config.tpm * Minute]
  BY <1>2 DEF Rpms, Tpms, FullPair
<1>4. StageOf(Idle) = "outside" /\ OwnerOf(Idle) = Nobody /\ Idle.held = 0
  BY IdleType, StageFacts
<1>5. /\ Stages(req) = [r \in Requests |-> "outside"]
      /\ Owners(req) = [r \in Requests |-> Nobody]
      /\ Holdings(req) = [r \in Requests |-> 0]
  BY <1>4 DEF Init, Stages, Owners, Holdings
<1> QED
  BY <1>1, <1>3, <1>5 DEF Contract!Init, Contract!Nobody, Nobody

LEMMA NextView == IndInv /\ [Next]_vars => ContractStep
<1> SUFFICES ASSUME IndInv, [Next]_vars PROVE ContractStep
  OBVIOUS
<1>1. CASE Load \/ Bind \/ Signal \/ Stop \/ UNCHANGED vars
  BY <1>1, ProcessView DEF Load, Bind, Signal, Stop, vars
<1> QED
  BY <1>1, TickView, ArriveView, WorkView, LeaveView DEF Next

(* The layers and the reservations are an allowance that every client has  *)
(* from the start.                                                         *)
THEOREM Contracted == Spec => KeepsContract
<1>1. IndInv /\ [Next]_vars => [Contract!Next]_(Contract!vars)
  BY NextView DEF ContractStep
<1> QED
  BY <1>1, InitView, Invariance, PTL DEF Spec, KeepsContract, Contract!Spec
=============================================================================

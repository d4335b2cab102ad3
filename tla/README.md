# A verification model of the LLM gateway

This directory holds TLA+ specifications of the gateway in `src/`: an HTTP
service that admits requests of authenticated clients against a per-client
budget, answers deterministic ones from a cache and forwards the rest to one of
several LLM providers, failing over in the order of their priority and keeping a
circuit breaker per provider. TLC checks the specifications on small instances;
TLAPS proves the theorems for every value of the constants. `PROJECT.json` maps
every definition to the lines it is translated from and lists runs, mutants,
findings, hazards and theorems.

Paths below are relative to `src/src/`.

## 1. Inventory

| Component | State | Operations | Hard part | Modules |
|---|---|---|---|---|
| Circuit breaker (`router/circuit_breaker.rs`) | state, failure count, time of the last failure, slots taken | `is_eligible`, `allow_request`, `record_success`, `record_failure`, `current_state` | concurrent requests act on what they saw earlier; outcomes arrive late or never | `Breaker`, `CircuitBreaker`, `BreakerContract`, `FailureStreak` |
| Provider selector (`router/selector.rs`) | none | `select_ordered` | reads one breaker after another, long before the send | `CircuitBreaker!Select`, `Gateway!Look` |
| Token bucket, reservations (`middleware/rate_limit.rs`) | tokens, time of the last refill; what each request reserved | `try_consume`, `refund`, `available_tokens`, `try_reserve_tpm`, `reconcile`, drop | lazy refill; concurrent reservations; refunds on every error path | `TokenBucket`, `TpmLimiter`, `EagerLimiter` |
| Chat handler (`handlers/chat.rs`) | its local variables | admission, cache, selection, failover loop, stream hand-off, body, store, settle | five ways for an attempt to fail, all with shared state changing meanwhile; disconnections | `Gateway` |
| Embeddings handler (`handlers/embeddings.rs`) | its local variables | the same without cache and streams | differs from chat in two failure cases | `Gateway` |
| Stream proxy (`proxy/stream.rs`) | two once-flags, two callbacks, a parser | forward a chunk, report usage once, idle timeout, error | two timeouts; usage exactly once; the client that leaves | `StreamProxy`, `StreamContract`; in `Gateway` at its interface |
| SSE parser (`proxy/sse_parser.rs`) | a byte buffer | `push`, `is_content_event`, `extract_usage` | events split at any byte | `SseParser` |
| Exact cache (`cache/exact.rs`, moka) | key to response | `compute_key`, `get`, `insert`, eviction | what is stored is what any provider answered | in `Gateway` (`Key`, `Store`, `CacheHit`, `Evict`) |
| Semantic cache (`cache/semantic.rs`) | a vector of entries | `lookup`, `insert`, `clear` | awaits between clock, lock and data; capacity; eviction by position | `SemanticCache` (no handler calls it) |
| Authentication (`middleware/auth.rs`) | none (immutable map) | key to client | which keys are whose; order of the layers | `Config`, `Server` |
| RPM middleware (`middleware/rate_limit.rs`) | the client's pair of buckets, made on demand | find the pair, charge one per request | charged also when refused later; looked for twice | `Server`, `AdmissionContract` |
| Configuration (`config.rs`) | none | `load`, `validate`, `providers_sorted` | boundary values that are accepted | `Config`; assumptions of the other modules |
| Shared state (`state.rs`) | maps of breakers, buckets, credentials | lazy creation | same name, same breaker; same key, later client | `Config`, `Server`; initial states of `Gateway` |
| Router, lifecycle (`lib.rs`, `main.rs`) | the phase of the process | layers, start, signal, drain | draining requests in flight, without a deadline | `Server` |
| Error mapping (`error.rs`) | none | error to status | which errors of a body reach it | `Server!StatusOf` |
| Health, metrics endpoints (`handlers/`) | none | answer | outside the limits | `Server!Public` |
| Upstream client (`proxy/client.rs`) | none | builds a request, sets its total timeout | the timeout covers streams too | fairness of `Gateway`, `StreamProxy!TotalTimesOut` |
| Request and response types (`types.rs`) | none | serde | the extra fields' order | `Gateway!Kinds`, `Server!Kinds` |
| Tracing, metrics recorder, benchmarks | none that a decision reads | | | not modelled |

**Interaction.** A request passes the body limit, tracing, authentication and
the rpm bucket, then its handler. The handler reserves an estimated cost in the
client's tpm bucket (a mutex), may look into the cache (an await), reads each
provider's breaker (a mutex each), and then for each candidate calls
`allow_request` (mutex), awaits the send, records an outcome (mutex), awaits the
body, records a failure if that breaks off, stores into the cache (await) and
reconciles the reservation (mutex). Every await is a point where other requests
run and where the whole handler may be dropped because its client left: then
`ReservationHandle::drop` refunds, and nothing is told to the breaker.

**What makes each component correct.** The breaker: after a trip no request
starts before the cooldown has passed, then a bounded trial, ended by the first
outcome; it recovers when the provider does. The bucket: what is paid and held
stays within the budget; refills are neither lost nor made twice; a refused
client is told how long to wait. The handlers: a reservation lives as long as
its request and is settled once; failover tries every fit provider once, in
order; every request ends. The cache: what is served as a success was one. The
stream proxy: usage is charged once, bytes pass unchanged, a dead stream is
ended. The server: a request works on the buckets of its own client and of no
other, a failure gives its reservation back, the drain ends, and a well-behaved
client is not locked out. The hazards that threaten these are listed with their lines in
`PROJECT.json`.

## 2. The modules

```
Breaker <- CircuitBreaker <- FailureStreak          (history of real outcomes)
   ^            |  ^   \---> implements BreakerContract
   |            |  '-- seen from each provider
   '--------- Gateway -----> EagerLimiter            (the client's budget)
                                ^
TokenBucket <- TpmLimiter ------' implements

SseParser <- StreamProxy ---> implements StreamContract

SemanticCache

Config <- Server ------------> implements AdmissionContract
```

`Breaker` holds the breaker's operations as operators on a record, because each
runs under the breaker's mutex and never awaits. Both `CircuitBreaker` and
`Gateway` use them. The code compares clock readings with `last_failure +
cooldown`; the model keeps `age`, the ticks since the last failure, up to the
cooldown. `failure_count` wraps at `CountModulus` (2^32 in the release build).
`half_open_max_calls` of zero becomes one, as in `new`.

`CircuitBreaker` is one breaker with the requests that use it. `attempt[t]` is
where request `t` stands: on whose candidate list the provider is (`Select`),
skipped (`PassOver`, `Deny`), sent (`Admit`), answered (`SendFails`,
`ClientError`, `HeadersOk`), reading the body (`BodyDone`, `BodyFails`), dropped
(`Cancel`). Headers are a success before the body is read, as in the code.
`role` is a history variable: whether the attempt was admitted by the trial now
under way. It is read by no guard.

`BreakerContract` says what a breaker promises without counts: modes normal,
blocked and trial, a wait, a bounded trial ended by the first outcome.
`CircuitBreaker!Contract` is the refinement mapping.

`FailureStreak` adds the number of attempts in a row that really failed, each
counted when it is over.

`TokenBucket` holds the bucket's operations, again one per critical section.
Amounts are integers in a unit in which one tick's refill is whole (the code's
floating point is not modelled); `idle` is the time since `last_refill`.

`TpmLimiter` is the client's budget with its requests: reserve, refuse, the four
cases of `reconcile`, drop, inspect. `clock`, `outstanding` and `collected` are
history. `EagerLimiter` is its abstract specification, a bucket that refills by
itself at each tick.

`SseParser` is the parser as operators on sequences of tokens. The tokens are
what its comparisons and its JSON lookups can tell apart: line feeds, carriage
returns, the `data: ` prefix, JSON with a usage object, with a null usage or with
a content delta, `[DONE]`, other text, and bytes that are no UTF-8. `Extract` is
the loop of `push`. `ReadAll` is not code: it reads a whole stream one token at a
time and is what the parser is compared with.

`StreamProxy` is one stream. `source` is what the provider sends and `received`
how much of it has been handed on; a chunk is any number of the tokens that are
left, so every way to cut the stream is a behaviour. The generator waits, yields
a chunk, fails or is done. `idle` is the inner timer, restarted whenever the
generator waits again; `age` runs from the request's start, before the stream
begins. `account` is the reservation that the usage callback holds: charged when
the callback runs, refunded when it is dropped first. `usage_charged` and the
`FnOnce` callbacks are the two conditions under which `account` and `reports`
change. `StreamContract` is what its user may rely on.

`Gateway` composes the two handlers with a breaker per provider, the client's
budget and the exact cache. A request's local state has a program counter `pc`;
a step runs from one lock or await to the next, so that selection reads one
breaker per step and `allow_request`, outcome and settlement are steps of their
own. Its budget is `EagerLimiter`, which the real bucket is shown to implement.
The statuses of responses are abstracted to what the handlers branch on:
failure (no connection, timeout, 5xx, 429, 408), rejection (any other 4xx, 401
and 403 included), "2xx", and "other" (the rest: a 3xx that the client does not
follow). In the embeddings handler "other" is `Unexpected`. `Key` is
`compute_key`: a chat request that is not streamed and has no temperature above
zero has a key, and a payload stands for its hash. `excused` and `role` are
history.

`SemanticCache` is the vector cache with concurrent callers. `call[c]` is where
caller `c` stands: awaiting its embedding, then the lock; the scan and the
insertion are one step each because the lock is held through them. The clock is
read where the code reads it, before the lock by a lookup and under it by an
insertion. Embeddings are represented by the similarity of the prompts they
are made from, so the backend is taken to be deterministic, and it may fail.

`Config` is what `validate` accepts and what `AppState::new` derives from the
credentials. `Server` is the process and the way of a request through its
layers. `phase` goes from loading over binding and serving to draining and
stopped, or fails. A request's `pc` names what it does next: look for its
client's buckets ("limiting"), charge the rpm bucket ("charging"), have its body
read ("handling"), reserve ("reserving"), work, answer. The pair of buckets is
found in one step and charged in a later one, as in the code, where the map's
guard is let go of in between; `table` is the map and `pairs` the heap that a
request's clone of the pair points to. What a handler does while it works is
`Gateway`'s subject: here it ends in success with some usage, in one of its
errors, or with the departure of its client. A key stands for its SHA-256, and
an endpoint for its scheme. Amounts are scaled by `Minute`, the ticks in a
minute, so that a limit of L a minute is refilled by L at a tick, and the
buckets refill at each tick, which `TpmLimiter` shows the lazy ones implement.

`AdmissionContract` is what clients may rely on: one allowance of requests and
one of tokens each, there from the start. `Server!Contract` is the mapping; a
client that has no pair yet has full allowances (`Left`).

`MC*` modules give TLC model values, kinds of requests and symmetry. `*Proofs`
modules hold the theorems, and `Induction` what their inductions rest on.

## 3. Properties and runs

Every property of a passing run has a mutant, a plausible bug next to the
definition it changes, that TLC refutes under the run's own configuration. Four
runs state a sentence of the repository that the code does not keep; they expect
to be refuted.

| Run | Result | Shows | Instance |
|---|---|---|---|
| `BreakerSafety` | holds | `TypeOK`; `ProbesBounded`: a trial has at most `half_open_max_calls + 1` probes in flight; `ClosedIsBelowThreshold`: a closed breaker does not carry a count that should have tripped it; `KeepsContract` | 4 requests, 2 slots, threshold and cooldown 2, clients may leave |
| `BreakerLive` | holds | `SlotsAreHeld`: if no client leaves, slots and probes agree; `TrialsAreDecided`; `OpenIsProbed` | 3 requests, 1 slot, no client leaves |
| `BreakerProbeLimit` | violated | the limit documented in `config.rs:66` is exceeded by one | 2 requests |
| `BreakerLostProbe` | violated | probes dropped with their clients leave the provider half-open and refused for ever | 2 requests |
| `FailureStreak` | violated | broken bodies and streams never trip a breaker with threshold above one | 1 request suffices |
| `TpmSafety` | holds | `TypeOK`; `BudgetKept`; `RetryAfterIsExact`; `RefillsLikeEager` | 2 requests, costs below, at and above the capacity 7, 2 ticks a second, 9 ticks |
| `GatewaySafety` | holds | `TypeOK`; `ReservedWhileWorking`: a reservation lives in full through every failover; `EveryProviderHasItsChance`: a chat request fails only when every provider was unfit, refused or failed; `NoSecondChance`: none is asked twice or out of order; `UsesBreakers`: seen from each provider, the handlers are steps of `CircuitBreaker`, so what is shown there holds of the composed system | 2 requests of 3 kinds (chat, stream, embeddings), 2 providers, a budget of two requests, clients may leave |
| `GatewayLive` | holds | `RequestsEnd`; `FirstProviderIsProbed` | 2 cacheable chat requests, 2 providers, a budget that refills |
| `StreamSafety` | holds | `CutsDoNotMatter`: what the parser saw, kept, charged and timed depends on what was received, not on how it was cut; `KeepsContract`: the reservation is settled once and a failure reported at most once; `StreamEnds` | 226 streams: two lines of any payload with any separators and a usage event, and a typical one; idle timeout 2, total timeout 3 |
| `StreamNullUsage` | violated | a usage of null is taken for the trailing usage event of `stream.rs:65` and nothing is charged | 1 stream |
| `SemanticSafety` | holds | `TypeOK` with the capacity; `EvictsOldest`: nothing evicted is newer than what stays; `AnswersClosest`: a lookup is a hit if it may be, and with the closest entry | 2 callers, 3 prompts, 2 signatures, 2 entries, a lifetime of 1 in 3 ticks |
| `ServerSafety` | holds | `TypeOK`; `WorksForItsClient`; `KeepsContract`: the layers and the reservations are the allowances of `AdmissionContract`; `FailureIsRefunded`; `SignalStops`: the drain ends with every request answered; `ClientsGetThrough`: no client whose requests are in order is locked out, with any limits `validate` accepts | 2 requests of 6 kinds, 2 clients with 3 keys one of which is given twice, 1 request and 2 tokens a minute of 2 ticks, a valid configuration and one for each reason to refuse one |

**Bounds.** Threshold 2 is the least at which counting and resetting differ; 2
slots with 4 requests let a trial be full, with a request left that is stale;
`CountModulus` is the least that lets the count wrap past the threshold. Two
requests over two providers reach every interleaving of one request's selection
with another's outcomes at both providers. `MaxTime` and `MaxElapsed` are bounds
of the limiter runs: the capacity, the elapsed-time clamp and the time that runs
are such that the bucket fills more than once. In `GatewaySafety` every request
has a reservation of one and the budget covers both. In `SemanticSafety` an
entry can expire before, while and after a lookup waits, one prompt is exactly
at the threshold of another, and three insertions overflow the cache; `MaxTime`
bounds the clock. The streams of `StreamSafety` are the shortest in which two
lines share an event, end it with each separator or fail to, precede the usage
and follow one another; the timeouts let either clock expire first. In
`ServerSafety` the rpm limit of one makes the two requests of a client compete
for the only charge, costs of one and two tokens against a limit of two let one
reservation be refused because of another, a usage of two may exceed what was
reserved, and two ticks a minute let a bucket be empty, half full and full. A
chunked body that turns out too long behaves as a malformed one does, so
`SomeKinds` has only the latter. TLC is told not to report deadlock where the
model really stops: in `BreakerSafety` and `BreakerLostProbe`, because with
disconnections a provider whose slots are lost refuses for ever (the finding of
the latter), in the stream runs, because a stream ends, and in `ServerSafety`,
because a process does.

**Fairness.** Time passes. Every send ends, because `proxy/client.rs:45` sets a
total timeout; in `Gateway` the same timeout ends a body. Handlers are run by
the executor, so their steps that need nobody else are weakly fair. Nothing is
assumed of clients' disconnections, nor of which outcome a provider gives. The
cache drops each entry at last, because it is built with a time to live
(`state.rs:60-66`). A stream's timers fire when they are due and its client asks
for more as long as it stays; nothing is assumed of its upstream. In
`BreakerLive` bodies are fair only as part of the demand. Demand (`BusySpec`) is
an assumption of recovery, not of the code: breakers have no timer, so only a
request can start a trial. In `Server` the process runs and every request ends,
because every upstream call does (`Gateway!RequestsEnd`), bodies are sent and
answers read by clients that stay; the drain has no deadline of its own, so
`SignalStops` rests on this and not on a timer. Signals and new requests are
never assumed. Admission needs strong fairness in `CircuitBreaker` because a
candidate may be refused and come back; `Gateway` shows the same from weak
fairness of the handlers alone.

**Where the code and its documents disagree.** The four violated properties, two
on the breaker, one on what its count means and one on streams, are listed under
"findings" with the sentence they quote. Others seen while reading: an outcome
of a request admitted before a trip decides the trial, while
`circuit_breaker.rs:24-25` speaks of the probe's (the contract states what the
code does); an overage that cannot be charged is forgotten and the next request
whose estimate fits is admitted, while `rate_limit.rs:141-142` says it will hit
the limit; a cost above the capacity is refused with a finite `retry_after`; the
total timeout ends streams that are alive, against `stream.rs:28`; events that
end in CRLF CRLF are never found (`sse_parser.rs:46`), though `README.md:802`
says they are, and the parser's buffer has no limit, though
`docs/SECURITY.md:16` gives one; a chat response that is neither 4xx nor 5xx nor
2xx is cached and served with status 200, past the comment of `chat.rs:220`; a
semantic cache of capacity zero, which `config.rs` accepts, would panic at its
first insertion; 401 and 403 of a provider are recorded as its success, while
the table at `chat.rs:44` says `record_failure()`; limits are per client, while
`config.rs:45` and `rate_limit.rs:97` say per API key; a body without a length
that turns out too long passes authentication, is charged a request and is
answered with 400, past the comment of `lib.rs:71-72`; a request of negative
temperature is cacheable, past `exact.rs:23`; the extra fields of a request are
kept in a `HashMap`, so their JSON is not the canonical one `types.rs:8-9`
speaks of; two providers of one name share a breaker; "all circuit breakers
open" is also said when one is half-open with its slots taken; a configured key
with spaces around it is accepted and never matches, because `auth.rs:49` trims
the one that is sent.

## 4. Proofs

Every invariant and every action property of the passing runs is a theorem, and
so is every refinement; liveness is not.

`BreakerProofs` and the first part of `TpmLimiterProofs` hold lemmas on the
operators: what each operation returns, preserves and bounds. They rest on
`BreakerAssumption` and `BucketAssumption` only.

`Induction` makes induction over numbers and data available to first-order
provers, to which the library's induction theorems, with operators as
parameters, cannot be given. It is about sets and functions instead: the set of
the numbers with a property is that of all numbers, because its complement would
have a least one (`LeastNatural`, from the well-foundedness of `<`;
`StrongInduction`, `SimpleInduction`, `SequenceInduction`). A recursive
definition is a `CHOOSE` of a function that satisfies an equation, so that
nothing is known of it until some function is shown to satisfy it:
`FoldsExist` does this for the iterator of the community modules' folds, and
`StreamProxyProofs` for `Extract`. `MaxIsLargest` and `MinIsLeast` say that a
nonempty finite set of numbers has what `Max` and `Min` choose.

`CircuitBreakerProofs` proves, for any finite set of requests and any settings:

- `TypeCorrect`, `TrialsAreBounded`, `ClosedBelowThreshold`: from the inductive
  invariant `IndInv`. `ProbesBounded` is not inductive: a step of a trial says
  nothing of the probes unless the slots taken bound them, so `IndInv` adds that
  probes exist only in a trial, that each is in flight, and that there is at
  most one more of them than slots taken.
- `NoSlotIsLost`: with `~ClientsCancel`, that bound is an equality.
- `ImplementsContract`: every step of the breaker is a step of the contract or a
  stutter under the mapping; `IndInv` is needed to know that `trial` is the set
  of requests the contract thinks it is.

`TpmLimiterProofs` proves, for any set of requests, any costs and usages:

- `TypeCorrect` and `BudgetIsKept`: the budget follows from the ledger identity
  that bucket level, reservations and payments together never exceed what the
  bucket held at first and what time has added; every operation preserves it.
- `RetryAfterHonest`: from the lemma on rounding division up.
- `LazyRefillIsEager`: the level a refill would give is what the eager limiter
  holds; the assumption that the elapsed-time clamp lets the bucket fill
  (`Capacity <= RefillPerTick * MaxElapsed`, true of an hour's clamp and a
  bucket that fills in a minute) is used in the tick.

`StreamProxyProofs` proves, for any set of streams, every cut and any timeouts:

- `TypeCorrect`;
- `SettlesOnce`: every step of a stream maps to a step of `StreamContract`. It
  rests on the lemma that `Charge` changes nothing but a reservation that is
  held, and then to a usage that an event reported; what `Extract` returns need
  not be known.
- `SplittingIsReading`: the parser's loop, `Extract`, and a reader of one token
  at a time, `ReadAll`, find the same events in every buffer and leave the same
  rest. Reading satisfies the equation that defines `Extract`: up to the end of
  the first event a reader has found nothing else (`FirstEventIsRead`), after it
  the reader goes on as if it had just begun (`ReadingSplits`), and without an
  end it finds nothing (`NoEventIsRead`). So the equation has a solution, and by
  induction on the length of the buffer no other.
- `CutsAreInvisible`: `CutsDoNotMatter` follows, because reading can be
  interrupted anywhere (`ReadAllAppend`, `ReadOn`): what the parser holds back
  between two chunks is what a reader has not made an event of (`PushReadsOn`).
  The invariant is `CutsInv`: besides the property and the types it says that
  a stream is refunded only when it is done.

`SemanticCacheProofs` proves, for any callers, requests, similarities, capacity
above zero and lifetime:

- `TypeCorrect`, with `CapacityIsKept`: what a lookup answers with are entries,
  because it is found by the scan;
- `ClosestIsAnswered`: the scan, a fold over the vector, keeps after each entry
  the closest of those it has considered (`ConsiderKeepsBest`, `ScanFindsBest`,
  by induction on how far it has come; `ScanTurns` is the turn of the loop). It
  needs similarities and the threshold to be comparable, which the assumption
  says by taking them to be integers; TLC's instance does so too;
- `OldestIsEvicted`: not inductive by itself, since it speaks of a step; the
  invariant is that the vector is in the order of its dates, none of them ahead
  of the clock (`InOrder`).

`GatewayProofs` proves, for any finite set of requests, any number of providers,
kinds of request, payloads, budget and breaker settings:

- `TypeCorrect`, `WorkIsReserved`, `FailoverIsComplete`, `FailoverIsOrdered`:
  from `IndInv`, which says how the providers divide at each place in the handler
  into those yet to be looked at, candidates, excused and the one talked to
  (`Accounted`), what class of headers may have been seen there (`Answering`),
  and what is reserved (`Reserved`). A failure with a provider unaccounted for
  could not be excluded without the first two.
- `HandlersUseBreakers`: seen from a provider, every step of a handler is a step
  of `CircuitBreaker` or a stutter. The lemmas named `...View` say how the
  attempts and roles at one provider change when one request moves.
- `BreakersKeepContracts`, `TrialsAreBounded`, `ClosedBelowThreshold`,
  `NoSlotIsLost`: what `CircuitBreakerProofs` shows of one breaker, carried over.
  The provider is a constant, `Watched`, of which nothing is assumed but that it
  is one of the gateway's. `Seen` instantiates `CircuitBreakerProofs` with that
  provider's breaker and the handlers as they are seen from it, and `SeenSpec`
  says that the gateway implements its specification, from the same steps as
  `HandlersUseBreakers`.
- `BudgetIsLimiters`: the handlers' steps are steps of `EagerLimiter`, or leave
  the budget alone. With `LazyRefillIsEager` the gateway's budget is kept by a
  bucket that refills lazily.

`ServerProofs` proves, for any configurations, clients, keys, requests, usages
and limits:

- `TypeCorrect` and `ClientsAreApart`: `IndInv` says that a request past
  authentication works on the pair the map has for its key's client (`Works`),
  that each pair is one client's (`OnePairEach`), and that only a request at
  work holds a reservation (`Holds`).
- `Refunded`: a request at work stops working in a step of its own only
  (`EndsItself`), and what it leaves in the bucket is found from the lemma on
  what a change of a pair does to its client's allowances (`BucketView`).
- `Contracted`: every step maps to a step of `AdmissionContract` or a stutter.
  Making a pair changes no allowance because it is made full; a tick leaves the
  allowance of a client without a pair full.

Only model-checked: liveness (`TrialsAreDecided`, `OpenIsProbed`, `RequestsEnd`,
`FirstProviderIsProbed`, `StreamEnds`, `SignalStops`, `ClientsGetThrough`), which
rests on fairness, and so on `ENABLED`, which the proof system does not reason
about.

## 5. Not modelled

Text of messages, JSON, HTTP and TLS, logging, the metrics recorder, tracing and
the benchmarks: no decision reads them. How the configuration's file and the
environment are merged, which is the `config` crate's. Floating-point rounding of
token counts. Sorting providers by priority: the model numbers them in the order
it gives. The lazy creation of a breaker, which is atomic in the map's entry and
gives the initial state (that of a pair of buckets is modelled); two providers
of one name. Poisoned mutexes (the release build aborts on a panic). Cuts inside
a token of a stream (the parser sees the same bytes when the rest arrives). The
embedding vectors themselves, and a semantic cache of capacity zero. The order
of a request's extra fields, which can only turn a hit into a miss. A crash: the
gateway persists nothing, so that a restart is an initial state. Several clients
and the handlers' failover at once: `Server` has the former and `Gateway` the
latter; breakers do not know clients, and buckets do not know providers.

## 6. What could follow

- The streams of `Gateway` shown to be `StreamContract`s, as its budget is shown
  to be an `EagerLimiter`.
- `Server` and `Gateway` in one module, with the working of a request refined by
  its handler.
- Two providers of one name, which share a breaker, in `Gateway`.

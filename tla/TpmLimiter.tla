----------------------------- MODULE TpmLimiter -----------------------------
(***************************************************************************)
(* The tokens-per-minute budget of one client, shared by its concurrent    *)
(* requests.  A request reserves its estimated cost before it is sent      *)
(* upstream and holds a ReservationHandle; when its usage is known it      *)
(* reconciles the handle, and a handle dropped before that, on any error   *)
(* path or when the client leaves, gives the whole reservation back.       *)
(***************************************************************************)
EXTENDS TokenBucket

CONSTANTS
  Tasks,   \* the client's requests
  Costs,   \* the costs they may be estimated at
  Usages,  \* what the provider may report they used
  MaxTime  \* bound: the model stops its clock here

ASSUME LimiterAssumption ==
  Costs \subseteq Nat /\ Usages \subseteq Nat /\ MaxTime \in Nat

VARIABLES
  bucket,       \* the client's tpm bucket
  held,         \* what each request has reserved
  clock,        \* history: ticks so far
  outstanding,  \* history: the reservations held, together
  collected     \* history: what the requests that are over have paid

vars == <<bucket, held, clock, outstanding, collected>>

Nothing == -1

Init ==
  /\ bucket = FullBucket
  /\ held = [t \in Tasks |-> Nothing]
  /\ clock = 0
  /\ outstanding = 0
  /\ collected = 0

----------------------------------------------------------------------------
(* try_reserve_tpm grants. *)
Reserve(t, cost) ==
  /\ held[t] = Nothing
  /\ Affords(bucket, cost)
  /\ bucket' = Consume(bucket, cost)
  /\ held' = [held EXCEPT ![t] = cost]
  /\ outstanding' = outstanding + cost
  /\ UNCHANGED <<clock, collected>>

(* try_reserve_tpm refuses: the request is answered with a 429. *)
Refuse(t, cost) ==
  /\ held[t] = Nothing
  /\ ~Affords(bucket, cost)
  /\ bucket' = Refill(bucket)
  /\ UNCHANGED <<held, clock, outstanding, collected>>

(* The handle is gone, and the request has paid the amount given. *)
Release(t, paid) ==
  /\ held' = [held EXCEPT ![t] = Nothing]
  /\ outstanding' = outstanding - held[t]
  /\ collected' = collected + paid
  /\ UNCHANGED clock

(* reconcile, with less used than was reserved. *)
SettleLowerTwice(t, used) ==  \* mutant: reconciled is not set, Drop refunds too
  /\ held[t] # Nothing
  /\ used < held[t]
  /\ bucket' = Refund(Refund(bucket, held[t] - used), held[t])
  /\ Release(t, used)

SettleLower(t, used) ==
  /\ held[t] # Nothing
  /\ used < held[t]
  /\ bucket' = Refund(bucket, held[t] - used)
  /\ Release(t, used)

(* reconcile, with exactly what was reserved: the bucket is not touched. *)
SettleExact(t, used) ==
  /\ held[t] # Nothing
  /\ used = held[t]
  /\ UNCHANGED bucket
  /\ Release(t, used)

(* reconcile, with more: the rest is charged if the bucket has it ... *)
SettleHigher(t, used) ==
  /\ held[t] # Nothing
  /\ used > held[t]
  /\ Affords(bucket, used - held[t])
  /\ bucket' = Consume(bucket, used - held[t])
  /\ Release(t, used)

(* ... and forgotten if not. *)
SettleUnpaid(t, used) ==
  /\ held[t] # Nothing
  /\ used > held[t]
  /\ ~Affords(bucket, used - held[t])
  /\ bucket' = Refill(bucket)
  /\ Release(t, held[t])

(* The handle is dropped unreconciled. *)
Drop(t) ==
  /\ held[t] # Nothing
  /\ bucket' = Refund(bucket, held[t])
  /\ Release(t, 0)

(* available_tokens refills as well. *)
Inspect ==
  /\ bucket' = Refill(bucket)
  /\ UNCHANGED <<held, clock, outstanding, collected>>

Tick ==
  /\ clock < MaxTime
  /\ clock' = clock + 1
  /\ bucket' = Later(bucket, 1)
  /\ UNCHANGED <<held, outstanding, collected>>

Settle(t, used) ==
  \/ SettleLower(t, used) \/ SettleExact(t, used)
  \/ SettleHigher(t, used) \/ SettleUnpaid(t, used)

Next ==
  \/ Tick
  \/ Inspect
  \/ \E t \in Tasks : \/ \E cost \in Costs : Reserve(t, cost) \/ Refuse(t, cost)
                      \/ \E used \in Usages : Settle(t, used)
                      \/ Drop(t)

Spec == Init /\ [][Next]_vars

----------------------------------------------------------------------------
Eager == INSTANCE EagerLimiter WITH level <- Level(bucket)

TypeOK ==
  /\ bucket \in Buckets
  /\ held \in [Tasks -> Costs \cup {Nothing}]
  /\ clock \in 0 .. MaxTime
  /\ outstanding \in Int
  /\ collected \in Nat

(* The client's budget: what its requests have paid and what they hold     *)
(* reserved never exceeds a full bucket and the refill of the time that    *)
(* has passed, whatever reservations, refunds, overdrafts, refusals and    *)
(* inspections interleave.                                                 *)
BudgetKept == outstanding + collected <= Capacity + RefillPerTick * clock

(* Refilling lazily, at whatever moments operations happen to come and     *)
(* with the clamp on the elapsed time, cannot be told from refilling all   *)
(* the time: reservations are granted against what is really due, and no   *)
(* refill is lost or made twice.                                           *)
RefillsLikeEager == Eager!Spec

(* A refused client that waits for as many seconds as it is told, while no *)
(* other request touches the bucket, is then let in if its cost can ever   *)
(* be met; had it waited a second less, it would still be refused.         *)
RetryAfterIsExact ==
  \A cost \in Costs :
    RefillPerTick > 0 /\ cost <= Capacity /\ ~Affords(bucket, cost) =>
      LET wait == RetryAfter(bucket, cost)
          AffordsAfter(seconds) ==
            Affords(Later(bucket, seconds * TicksPerSecond), cost)
      IN  AffordsAfter(wait) /\ (wait > 1 => ~AffordsAfter(wait - 1))
=============================================================================

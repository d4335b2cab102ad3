-------------------------- MODULE TpmLimiterProofs --------------------------
(***************************************************************************)
(* Proofs about TpmLimiter, for any requests, costs, usages and rates: the *)
(* lemmas on the bucket's operations first, then the limiter.              *)
(***************************************************************************)
EXTENDS TpmLimiter, TLAPS

(* A product of naturals is a natural, and grows with its factor. *)
LEMMA ProductType ==
  ASSUME NEW r \in Nat, NEW n \in Nat
  PROVE  r * n \in Nat
OBVIOUS

LEMMA ProductMonotone ==
  ASSUME NEW r \in Nat, NEW m \in Nat, NEW n \in Nat, m <= n
  PROVE  r * m <= r * n
<1>1. n - m \in Nat /\ n = m + (n - m)
  OBVIOUS
<1>2. r * n = r * m + r * (n - m)
  BY <1>1
<1>3. r * (n - m) \in Nat
  BY <1>1, ProductType
<1> QED
  BY <1>2, <1>3, ProductType

LEMMA FullBucketType == FullBucket \in Buckets /\ Level(FullBucket) = Capacity
BY BucketAssumption DEF FullBucket, Buckets, Level, Capped

LEMMA LevelType ==
  ASSUME NEW b \in Buckets
  PROVE  /\ RefillPerTick * b.idle \in Nat
         /\ Level(b) \in 0 .. Capacity
         /\ Level(b) <= b.tokens + RefillPerTick * b.idle
<1>1. b.tokens \in 0 .. Capacity /\ b.idle \in Nat
  BY BucketAssumption DEF Buckets
<1>2. RefillPerTick * b.idle \in Nat
  BY <1>1, BucketAssumption, ProductType
<1> QED
  BY <1>1, <1>2, BucketAssumption DEF Level, Capped

(* Refilling changes what is written in the bucket, not what it holds. *)
LEMMA RefillLemma ==
  ASSUME NEW b \in Buckets
  PROVE  /\ Refill(b) \in Buckets
         /\ Refill(b).tokens = Level(b)
         /\ Refill(b).idle = 0
         /\ Level(Refill(b)) = Level(b)
<1>1. Refill(b).tokens = Level(b) /\ Refill(b).idle = 0
  BY DEF Refill
<1>2. Refill(b) \in Buckets
  BY LevelType, BucketAssumption DEF Refill, Buckets
<1>3. Level(Refill(b)) = Level(b)
  BY <1>1, LevelType, BucketAssumption DEF Level, Capped
<1> QED
  BY <1>1, <1>2, <1>3

(* try_consume takes exactly the cost out of the level. *)
LEMMA ConsumeLemma ==
  ASSUME NEW b \in Buckets, NEW cost \in Nat, Affords(b, cost)
  PROVE  /\ Consume(b, cost) \in Buckets
         /\ Consume(b, cost).tokens = Level(b) - cost
         /\ Consume(b, cost).idle = 0
         /\ Level(Consume(b, cost)) = Level(b) - cost
<1>1. Level(b) >= cost
  BY RefillLemma DEF Affords
<1>2. Consume(b, cost) = [tokens |-> Level(b) - cost, idle |-> 0]
  BY DEF Consume, Refill
<1>3. Level(b) - cost \in 0 .. Capacity
  BY <1>1, LevelType, BucketAssumption
<1>4. Consume(b, cost) \in Buckets
  BY <1>2, <1>3, BucketAssumption DEF Buckets
<1>5. Level(Consume(b, cost)) = Level(b) - cost
  BY <1>2, <1>3, BucketAssumption DEF Level, Capped
<1> QED
  BY <1>2, <1>4, <1>5

(* refund puts the amount back, up to the capacity. *)
LEMMA RefundLemma ==
  ASSUME NEW b \in Buckets, NEW n \in Nat
  PROVE  /\ Refund(b, n) \in Buckets
         /\ Refund(b, n).tokens = Capped(Level(b) + n)
         /\ Refund(b, n).idle = 0
         /\ Level(Refund(b, n)) = Capped(Level(b) + n)
<1>1. Refund(b, n) = [tokens |-> Capped(Level(b) + n), idle |-> 0]
  BY DEF Refund, Refill
<1>2. Capped(Level(b) + n) \in 0 .. Capacity
  BY LevelType, BucketAssumption DEF Capped
<1>3. Refund(b, n) \in Buckets
  BY <1>1, <1>2, BucketAssumption DEF Buckets
<1>4. Level(Refund(b, n)) = Capped(Level(b) + n)
  BY <1>1, <1>2, BucketAssumption DEF Level, Capped
<1> QED
  BY <1>1, <1>3, <1>4

(* Waiting adds the refill of the time waited, up to the capacity: the     *)
(* clamp on the elapsed time loses nothing.                                *)
LEMMA LaterLemma ==
  ASSUME NEW b \in Buckets, NEW n \in Nat
  PROVE  /\ Later(b, n) \in Buckets
         /\ Later(b, n).tokens = b.tokens
         /\ Later(b, n).idle <= b.idle + n
         /\ Level(Later(b, n)) = Capped(Level(b) + RefillPerTick * n)
<1> DEFINE sum == b.idle + n
           clamped == IF sum > MaxElapsed THEN MaxElapsed ELSE sum
<1>1. b.tokens \in 0 .. Capacity /\ b.idle \in Nat /\ sum \in Nat
  BY BucketAssumption DEF Buckets
<1>2. clamped \in 0 .. MaxElapsed /\ clamped <= sum
  BY <1>1, BucketAssumption
<1>3. Later(b, n) = [b EXCEPT !.idle = clamped]
  BY DEF Later
<1>4. /\ Later(b, n) \in Buckets
      /\ Later(b, n).tokens = b.tokens
      /\ Later(b, n).idle = clamped
  BY <1>2, <1>3 DEF Buckets
<1>5. /\ RefillPerTick * b.idle \in Nat
      /\ RefillPerTick * n \in Nat
      /\ RefillPerTick * sum = RefillPerTick * b.idle + RefillPerTick * n
  BY <1>1, BucketAssumption, ProductType
<1>6. Level(Later(b, n)) = Capped(b.tokens + RefillPerTick * sum)
  <2>1. CASE sum > MaxElapsed
    <3>1. RefillPerTick * sum >= RefillPerTick * MaxElapsed
      BY <1>1, <2>1, BucketAssumption, ProductMonotone
    <3>2. RefillPerTick * MaxElapsed \in Nat
      BY BucketAssumption, ProductType
    <3>3. Level(Later(b, n)) = Capped(b.tokens + RefillPerTick * MaxElapsed)
      BY <1>4, <2>1 DEF Level
    <3> QED
      BY <1>1, <1>5, <3>1, <3>2, <3>3, BucketAssumption DEF Capped
  <2>2. CASE ~(sum > MaxElapsed)
    BY <1>4, <2>2 DEF Level
  <2> QED
    BY <2>1, <2>2
<1>7. Capped(b.tokens + RefillPerTick * sum) = Capped(Level(b) + RefillPerTick * n)
  BY <1>1, <1>5, BucketAssumption DEF Level, Capped
<1> QED
  BY <1>2, <1>4, <1>6, <1>7

(* Rounding up: the quotient times the divisor reaches the dividend, and   *)
(* one less does not.                                                      *)
LEMMA CeilDivLemma ==
  ASSUME NEW n \in Nat \ {0}, NEW d \in Nat \ {0}
  PROVE  /\ CeilDiv(n, d) \in Nat \ {0}
         /\ d * CeilDiv(n, d) >= n
         /\ d * (CeilDiv(n, d) - 1) < n
<1> DEFINE q == (n + d - 1) \div d
           r == (n + d - 1) % d
<1>1. q \in Int /\ r \in 0 .. d - 1 /\ n + d - 1 = d * q + r
  OBVIOUS
<1>2. d * q >= n /\ d * q - d < n
  BY <1>1
<1>3. q >= 1
  BY <1>1, <1>2
<1>4. d * (q - 1) = d * q - d
  BY <1>1
<1> QED
  BY <1>1, <1>2, <1>3, <1>4 DEF CeilDiv

----------------------------------------------------------------------------

(* What is in the bucket, reserved or paid is covered by the first full    *)
(* bucket and by the refills made, which end idle ticks ago.               *)
Ledger ==
  /\ bucket.idle <= clock
  /\ bucket.tokens + outstanding + collected
       <= Capacity + RefillPerTick * (clock - bucket.idle)

IndInv == TypeOK /\ Ledger

(* Any cost, reservation or usage is a natural number. *)
LEMMA AmountsAreNat ==
  ASSUME TypeOK, NEW t \in Tasks
  PROVE  /\ held[t] \in Nat \cup {Nothing}
         /\ held[t] # Nothing => held[t] \in Nat
BY LimiterAssumption DEF TypeOK

(* Making the refill that is due keeps the books. *)
LEMMA LedgerAfterRefill ==
  ASSUME IndInv
  PROVE  Level(bucket) + outstanding + collected <= Capacity + RefillPerTick * clock
<1>1. /\ bucket.tokens \in Nat /\ bucket.idle \in Nat
      /\ clock \in Nat /\ outstanding \in Int /\ collected \in Nat
  BY BucketAssumption, LimiterAssumption DEF IndInv, TypeOK, Buckets
<1>2. bucket.idle <= clock
  BY DEF IndInv, Ledger
<1>3. /\ RefillPerTick * bucket.idle \in Nat
      /\ RefillPerTick * (clock - bucket.idle) \in Nat
      /\ RefillPerTick * clock =
           RefillPerTick * bucket.idle + RefillPerTick * (clock - bucket.idle)
  BY <1>1, <1>2, BucketAssumption, ProductType
<1>4. Level(bucket) <= bucket.tokens + RefillPerTick * bucket.idle
      /\ Level(bucket) \in Nat
  BY LevelType, BucketAssumption DEF IndInv, TypeOK
<1> QED
  BY <1>1, <1>3, <1>4, BucketAssumption DEF IndInv, Ledger

(* Every operation refills first, so after it no time is owed: the books   *)
(* are kept if it adds no more to the bucket than it takes off the rest.   *)
LEMMA OperationStep ==
  ASSUME IndInv,
         TypeOK', bucket'.idle = 0, clock' = clock,
         bucket'.tokens + outstanding' + collected'
           <= Level(bucket) + outstanding + collected
  PROVE  IndInv'
<1>1. /\ Level(bucket) \in Int /\ outstanding \in Int /\ collected \in Int
      /\ bucket'.tokens \in Int /\ outstanding' \in Int /\ collected' \in Int
      /\ clock \in Nat
  BY LevelType, BucketAssumption, LimiterAssumption DEF IndInv, TypeOK, Buckets
<1>2. RefillPerTick * clock \in Nat /\ clock - 0 = clock
  BY <1>1, BucketAssumption, ProductType
<1> QED
  BY <1>1, <1>2, LedgerAfterRefill, BucketAssumption DEF IndInv, Ledger

LEMMA InitIndInv == Init => IndInv
<1> SUFFICES ASSUME Init PROVE IndInv
  OBVIOUS
<1>1. TypeOK
  BY FullBucketType, LimiterAssumption DEF Init, TypeOK
<1>2. Ledger
  BY BucketAssumption DEF Init, Ledger, FullBucket
<1> QED
  BY <1>1, <1>2 DEF IndInv

LEMMA ReserveStep ==
  ASSUME IndInv, NEW t \in Tasks, NEW cost \in Costs, Reserve(t, cost)
  PROVE  IndInv'
<1>1. cost \in Nat /\ bucket \in Buckets /\ Level(bucket) \in Int
  BY LimiterAssumption, LevelType, BucketAssumption DEF IndInv, TypeOK
<1>2. /\ bucket' \in Buckets
      /\ bucket'.tokens = Level(bucket) - cost
      /\ bucket'.idle = 0
  BY <1>1, ConsumeLemma DEF Reserve
<1>3. TypeOK'
  BY <1>1, <1>2 DEF Reserve, IndInv, TypeOK
<1> QED
  BY <1>1, <1>2, <1>3, OperationStep DEF Reserve, IndInv, TypeOK

LEMMA RefillOnlyStep ==
  ASSUME IndInv, bucket' = Refill(bucket),
         UNCHANGED <<held, clock, outstanding, collected>>
  PROVE  IndInv'
<1>1. bucket \in Buckets /\ Level(bucket) \in Int
  BY LevelType, BucketAssumption DEF IndInv, TypeOK
<1>2. bucket' \in Buckets /\ bucket'.tokens = Level(bucket) /\ bucket'.idle = 0
  BY <1>1, RefillLemma
<1>3. TypeOK'
  BY <1>2 DEF IndInv, TypeOK
<1> QED
  BY <1>1, <1>2, <1>3, OperationStep DEF IndInv, TypeOK

(* A handle that is settled for what was paid keeps the books if the       *)
(* bucket gains no more than the reservation less what was paid.           *)
LEMMA ReleaseStep ==
  ASSUME IndInv, NEW t \in Tasks, held[t] # Nothing,
         NEW paid \in Nat, Release(t, paid),
         bucket' \in Buckets, bucket'.idle = 0,
         bucket'.tokens <= Level(bucket) + held[t] - paid
  PROVE  IndInv'
<1>1. held[t] \in Nat /\ Level(bucket) \in Int /\ bucket'.tokens \in Int
  BY AmountsAreNat, LevelType, BucketAssumption DEF IndInv, TypeOK, Buckets
<1>2. TypeOK'
  BY <1>1 DEF Release, IndInv, TypeOK
<1> QED
  BY <1>1, <1>2, OperationStep DEF Release, IndInv, TypeOK

LEMMA SettleLowerStep ==
  ASSUME IndInv, NEW t \in Tasks, NEW used \in Nat, SettleLower(t, used)
  PROVE  IndInv'
<1>1. held[t] # Nothing /\ held[t] \in Nat /\ held[t] - used \in Nat
  BY AmountsAreNat DEF SettleLower, IndInv
<1>2. bucket \in Buckets /\ Level(bucket) \in 0 .. Capacity
  BY LevelType DEF IndInv, TypeOK
<1>3. /\ bucket' \in Buckets
      /\ bucket'.tokens = Capped(Level(bucket) + (held[t] - used))
      /\ bucket'.idle = 0
  BY <1>1, <1>2, RefundLemma DEF SettleLower
<1>4. bucket'.tokens <= Level(bucket) + held[t] - used
  BY <1>1, <1>2, <1>3, BucketAssumption DEF Capped
<1> QED
  BY <1>1, <1>3, <1>4, ReleaseStep DEF SettleLower

LEMMA SettleExactStep ==
  ASSUME IndInv, NEW t \in Tasks, NEW used \in Nat, SettleExact(t, used)
  PROVE  IndInv'
<1>1. used = held[t] /\ held[t] \in Nat
  BY AmountsAreNat DEF SettleExact, IndInv
<1>2. TypeOK'
  BY <1>1 DEF SettleExact, Release, IndInv, TypeOK
<1>3. /\ bucket' = bucket /\ clock' = clock
      /\ outstanding' = outstanding - used
      /\ collected' = collected + used
  BY <1>1 DEF SettleExact, Release
<1>4. bucket.tokens \in Int /\ outstanding \in Int /\ collected \in Int
  BY BucketAssumption DEF IndInv, TypeOK, Buckets
<1>5. bucket'.tokens + outstanding' + collected'
        = bucket.tokens + outstanding + collected
  BY <1>3, <1>4
<1> QED
  BY <1>2, <1>3, <1>5 DEF IndInv, Ledger

LEMMA SettleHigherStep ==
  ASSUME IndInv, NEW t \in Tasks, NEW used \in Nat, SettleHigher(t, used)
  PROVE  IndInv'
<1>1. held[t] # Nothing /\ held[t] \in Nat /\ used - held[t] \in Nat
  BY AmountsAreNat DEF SettleHigher, IndInv
<1>2. bucket \in Buckets /\ Level(bucket) \in 0 .. Capacity
  BY LevelType DEF IndInv, TypeOK
<1>3. /\ bucket' \in Buckets
      /\ bucket'.tokens = Level(bucket) - (used - held[t])
      /\ bucket'.idle = 0
  BY <1>1, <1>2, ConsumeLemma DEF SettleHigher
<1>4. bucket'.tokens <= Level(bucket) + held[t] - used
  BY <1>1, <1>2, <1>3, BucketAssumption
<1> QED
  BY <1>1, <1>3, <1>4, ReleaseStep DEF SettleHigher

LEMMA SettleUnpaidStep ==
  ASSUME IndInv, NEW t \in Tasks, NEW used \in Nat, SettleUnpaid(t, used)
  PROVE  IndInv'
<1>1. held[t] # Nothing /\ held[t] \in Nat
  BY AmountsAreNat DEF SettleUnpaid, IndInv
<1>2. bucket \in Buckets /\ Level(bucket) \in 0 .. Capacity
  BY LevelType DEF IndInv, TypeOK
<1>3. bucket' \in Buckets /\ bucket'.tokens = Level(bucket) /\ bucket'.idle = 0
  BY <1>2, RefillLemma DEF SettleUnpaid
<1>4. bucket'.tokens <= Level(bucket) + held[t] - held[t]
  BY <1>1, <1>2, <1>3, BucketAssumption
<1> QED
  BY <1>1, <1>3, <1>4, ReleaseStep DEF SettleUnpaid

LEMMA DropStep ==
  ASSUME IndInv, NEW t \in Tasks, Drop(t)
  PROVE  IndInv'
<1>1. held[t] # Nothing /\ held[t] \in Nat
  BY AmountsAreNat DEF Drop, IndInv
<1>2. bucket \in Buckets /\ Level(bucket) \in 0 .. Capacity
  BY LevelType DEF IndInv, TypeOK
<1>3. /\ bucket' \in Buckets
      /\ bucket'.tokens = Capped(Level(bucket) + held[t])
      /\ bucket'.idle = 0
  BY <1>1, <1>2, RefundLemma DEF Drop
<1>4. bucket'.tokens <= Level(bucket) + held[t] - 0
  BY <1>1, <1>2, <1>3, BucketAssumption DEF Capped
<1> QED
  BY <1>1, <1>3, <1>4, ReleaseStep DEF Drop

LEMMA TickStep ==
  ASSUME IndInv, Tick
  PROVE  IndInv'
<1>1. /\ bucket \in Buckets /\ bucket.idle \in Nat /\ bucket.tokens \in Nat
      /\ clock \in Nat /\ outstanding \in Int /\ collected \in Nat
  BY BucketAssumption, LimiterAssumption DEF IndInv, TypeOK, Buckets
<1>2. /\ bucket' \in Buckets
      /\ bucket'.tokens = bucket.tokens
      /\ bucket'.idle <= bucket.idle + 1
      /\ bucket'.idle \in Nat
  BY <1>1, LaterLemma, BucketAssumption DEF Tick, Buckets
<1>3. TypeOK'
  BY <1>1, <1>2, LimiterAssumption DEF Tick, IndInv, TypeOK
<1>4. bucket.idle <= clock /\ clock' = clock + 1
  BY DEF IndInv, Ledger, Tick
<1>5. clock - bucket.idle \in Nat /\ clock' - bucket'.idle \in Nat
      /\ clock - bucket.idle <= clock' - bucket'.idle
  BY <1>1, <1>2, <1>4
<1>6. /\ RefillPerTick * (clock - bucket.idle)
           <= RefillPerTick * (clock' - bucket'.idle)
      /\ RefillPerTick * (clock - bucket.idle) \in Nat
      /\ RefillPerTick * (clock' - bucket'.idle) \in Nat
  BY <1>5, BucketAssumption, ProductType, ProductMonotone
<1>7. Ledger'
  BY <1>1, <1>2, <1>4, <1>6, BucketAssumption DEF Tick, IndInv, Ledger
<1> QED
  BY <1>3, <1>7 DEF IndInv

LEMMA NextIndInv == IndInv /\ [Next]_vars => IndInv'
<1> SUFFICES ASSUME IndInv, [Next]_vars PROVE IndInv'
  OBVIOUS
<1>1. CASE Tick
  BY <1>1, TickStep
<1>2. CASE Inspect
  BY <1>2, RefillOnlyStep DEF Inspect
<1>3. ASSUME NEW t \in Tasks, NEW cost \in Costs, Reserve(t, cost) \/ Refuse(t, cost)
      PROVE  IndInv'
  <2>1. CASE Reserve(t, cost)
    BY <2>1, ReserveStep
  <2>2. CASE Refuse(t, cost)
    BY <2>2, RefillOnlyStep DEF Refuse
  <2> QED
    BY <1>3, <2>1, <2>2
<1>4. ASSUME NEW t \in Tasks, NEW used \in Usages, Settle(t, used)
      PROVE  IndInv'
  <2>1. used \in Nat
    BY LimiterAssumption
  <2> QED
    BY <1>4, <2>1, SettleLowerStep, SettleExactStep, SettleHigherStep,
       SettleUnpaidStep DEF Settle
<1>5. ASSUME NEW t \in Tasks, Drop(t) PROVE IndInv'
  BY <1>5, DropStep
<1>6. CASE UNCHANGED vars
  BY <1>6 DEF vars, IndInv, TypeOK, Ledger
<1> QED
  BY <1>1, <1>2, <1>3, <1>4, <1>5, <1>6 DEF Next

LEMMA Invariance == Spec => []IndInv
BY InitIndInv, NextIndInv, PTL DEF Spec

----------------------------------------------------------------------------
(* The bucket is never overdrawn nor filled above its capacity, whatever   *)
(* reservations and refunds interleave.                                    *)
THEOREM TypeCorrect == Spec => []TypeOK
<1>1. IndInv => TypeOK
  BY DEF IndInv
<1> QED
  BY <1>1, Invariance, PTL

(* The client's reservations and payments stay within its budget. *)
THEOREM BudgetIsKept == Spec => []BudgetKept
<1>1. IndInv => BudgetKept
  <2> SUFFICES ASSUME IndInv PROVE BudgetKept
    OBVIOUS
  <2>1. /\ Level(bucket) \in Nat /\ outstanding \in Int /\ collected \in Nat
        /\ clock \in Nat
    BY LevelType, BucketAssumption, LimiterAssumption DEF IndInv, TypeOK
  <2>2. RefillPerTick * clock \in Nat
    BY <2>1, BucketAssumption, ProductType
  <2> QED
    BY <2>1, <2>2, LedgerAfterRefill, BucketAssumption DEF BudgetKept
<1> QED
  BY <1>1, Invariance, PTL

(* A refused client that waits as long as it is told is let in, if nobody  *)
(* else takes tokens meanwhile and its cost can be met at all; a second    *)
(* less is not enough, except that the wait is never less than one.        *)
THEOREM RetryAfterHonest == Spec => []RetryAfterIsExact
<1>1. TypeOK => RetryAfterIsExact
  <2> SUFFICES ASSUME TypeOK, NEW cost \in Costs, RefillPerTick > 0,
                      cost <= Capacity, ~Affords(bucket, cost)
               PROVE  LET wait == RetryAfter(bucket, cost)
                          AffordsAfter(seconds) ==
                            Affords(Later(bucket, seconds * TicksPerSecond), cost)
                      IN  AffordsAfter(wait) /\ (wait > 1 => ~AffordsAfter(wait - 1))
    BY DEF RetryAfterIsExact
  <2> DEFINE rate == RefillPerTick * TicksPerSecond
             deficit == cost - Level(bucket)
             wait == CeilDiv(deficit, rate)
  <2>1. cost \in Nat /\ bucket \in Buckets /\ Level(bucket) \in 0 .. Capacity
    BY LimiterAssumption, LevelType DEF TypeOK
  <2>2. Refill(bucket).tokens = Level(bucket) /\ deficit \in Nat \ {0}
    BY <2>1, RefillLemma, BucketAssumption DEF Affords
  <2>3. rate \in Nat \ {0}
    <3>1. rate \in Nat /\ rate # 0
      BY BucketAssumption, ProductType
    <3> QED
      BY <3>1
  <2>4. wait \in Nat \ {0} /\ rate * wait >= deficit /\ rate * (wait - 1) < deficit
    BY <2>2, <2>3, CeilDivLemma
  <2>5. RetryAfter(bucket, cost) = wait
    BY <2>2, <2>4, BucketAssumption DEF RetryAfter
  <2> HIDE DEF wait
  <2>6. ASSUME NEW n \in Nat
        PROVE  Affords(Later(bucket, n * TicksPerSecond), cost) <=> rate * n >= deficit
    <3>1. n * TicksPerSecond \in Nat /\ RefillPerTick * (n * TicksPerSecond) = rate * n
          /\ rate * n \in Nat
      BY <2>3, BucketAssumption, ProductType
    <3>2. /\ Later(bucket, n * TicksPerSecond) \in Buckets
          /\ Level(Later(bucket, n * TicksPerSecond)) = Capped(Level(bucket) + rate * n)
      BY <2>1, <3>1, LaterLemma
    <3>3. Affords(Later(bucket, n * TicksPerSecond), cost)
            <=> Capped(Level(bucket) + rate * n) >= cost
      BY <3>2, RefillLemma DEF Affords
    <3> HIDE DEF rate
    <3> QED
      BY <2>1, <3>1, <3>3, BucketAssumption DEF Capped
  <2>7. Affords(Later(bucket, wait * TicksPerSecond), cost)
    BY <2>4, <2>6
  <2>8. ~Affords(Later(bucket, (wait - 1) * TicksPerSecond), cost)
    <3>1. wait - 1 \in Nat
      BY <2>4
    <3>2. ~(rate * (wait - 1) >= deficit)
      BY <2>2, <2>3, <2>4, <3>1, ProductType
    <3> QED
      BY <2>6, <3>1, <3>2
  <2> QED
    BY <2>5, <2>7, <2>8
<1> QED
  BY <1>1, TypeCorrect, PTL

----------------------------------------------------------------------------
(* The lazy bucket is as good as one that refills at every tick. *)

(* Releasing a handle maps to settling it, if the level moves as it does   *)
(* for the eager bucket.                                                   *)
LEMMA SettleLowerMaps ==
  ASSUME TypeOK, NEW t \in Tasks, NEW used \in Nat,
         SettleLower(t, used)
  PROVE  Eager!Settle(t, used)
<1>1. /\ held[t] \in Nat /\ held[t] # Nothing /\ held[t] - used \in Nat
      /\ used <= held[t]
  BY AmountsAreNat DEF SettleLower
<1>2. Level(bucket) \in Int
  BY LevelType, BucketAssumption DEF TypeOK
<1>3. Level(bucket') = Capped(Level(bucket) + held[t] - used)
  BY <1>1, <1>2, RefundLemma DEF SettleLower, TypeOK, Capped
<1> QED
  BY <1>1, <1>3
     DEF Eager!Settle, Eager!Nothing, Eager!AtMostCapacity, Capped, Nothing,
         SettleLower, Release

LEMMA SettleExactMaps ==
  ASSUME TypeOK, NEW t \in Tasks, NEW used \in Nat,
         SettleExact(t, used)
  PROVE  Eager!Settle(t, used)
<1>1. held[t] \in Nat /\ held[t] # Nothing /\ used = held[t]
  BY AmountsAreNat DEF SettleExact
<1>2. Level(bucket) \in 0 .. Capacity
  BY LevelType DEF TypeOK
<1>3. Level(bucket') = Capped(Level(bucket) + held[t] - used)
  BY <1>1, <1>2, BucketAssumption DEF SettleExact, Capped
<1> QED
  BY <1>1, <1>3
     DEF Eager!Settle, Eager!Nothing, Eager!AtMostCapacity, Capped, Nothing,
         SettleExact, Release

LEMMA SettleHigherMaps ==
  ASSUME TypeOK, NEW t \in Tasks, NEW used \in Nat,
         SettleHigher(t, used) \/ SettleUnpaid(t, used)
  PROVE  Eager!Settle(t, used)
<1>1. /\ held[t] \in Nat /\ held[t] # Nothing /\ used - held[t] \in Nat
      /\ ~(used <= held[t])
  BY AmountsAreNat DEF SettleHigher, SettleUnpaid
<1>2. bucket \in Buckets /\ Level(bucket) \in Int
  BY LevelType, BucketAssumption DEF TypeOK
<1>3. Affords(bucket, used - held[t]) <=> used - held[t] <= Level(bucket)
  BY <1>1, <1>2, RefillLemma DEF Affords
<1>4. Level(bucket') = IF used - held[t] <= Level(bucket)
                         THEN Level(bucket) - (used - held[t])
                         ELSE Level(bucket)
  <2>1. CASE SettleHigher(t, used)
    BY <1>1, <1>2, <1>3, <2>1, ConsumeLemma DEF SettleHigher
  <2>2. CASE SettleUnpaid(t, used)
    BY <1>2, <1>3, <2>2, RefillLemma DEF SettleUnpaid
  <2> QED
    BY <2>1, <2>2
<1> QED
  BY <1>1, <1>4
     DEF Eager!Settle, Eager!Nothing, Nothing, SettleHigher, SettleUnpaid, Release

LEMMA DropMaps ==
  ASSUME TypeOK, NEW t \in Tasks, Drop(t)
  PROVE  Eager!Settle(t, 0)
<1>1. held[t] \in Nat /\ held[t] # Nothing /\ 0 <= held[t]
  BY AmountsAreNat DEF Drop
<1>2. Level(bucket) \in Int
  BY LevelType, BucketAssumption DEF TypeOK
<1>3. Level(bucket') = Capped(Level(bucket) + held[t] - 0)
  BY <1>1, <1>2, RefundLemma DEF Drop, TypeOK, Capped
<1> QED
  BY <1>1, <1>3
     DEF Eager!Settle, Eager!Nothing, Eager!AtMostCapacity, Capped, Nothing,
         Drop, Release

LEMMA NextMaps == TypeOK /\ [Next]_vars => [Eager!Next]_Eager!vars
<1> SUFFICES ASSUME TypeOK, [Next]_vars PROVE [Eager!Next]_Eager!vars
  OBVIOUS
<1>1. bucket \in Buckets
  BY DEF TypeOK
<1>2. CASE Tick
  <2>1. Level(bucket') = Capped(Level(bucket) + RefillPerTick)
    BY <1>1, <1>2, LaterLemma, BucketAssumption DEF Tick
  <2>2. Eager!Tick
    BY <1>2, <2>1 DEF Tick, Eager!Tick, Eager!AtMostCapacity, Capped
  <2> QED
    BY <2>2 DEF Eager!Next
<1>3. CASE bucket' = Refill(bucket) /\ UNCHANGED held
  BY <1>1, <1>3, RefillLemma DEF Eager!vars
<1>4. ASSUME NEW t \in Tasks, NEW cost \in Costs, Reserve(t, cost)
      PROVE  Eager!Reserve(t, cost)
  <2>1. cost \in Nat /\ cost <= Level(bucket)
    BY <1>1, <1>4, LimiterAssumption, RefillLemma, LevelType, BucketAssumption
       DEF Reserve, Affords
  <2>2. Level(bucket') = Level(bucket) - cost
    BY <1>1, <1>4, <2>1, ConsumeLemma DEF Reserve
  <2> QED
    BY <1>4, <2>1, <2>2 DEF Reserve, Eager!Reserve, Eager!Nothing, Nothing
<1>5. ASSUME NEW t \in Tasks, NEW used \in Usages, Settle(t, used)
      PROVE  Eager!Settle(t, used)
  <2>1. used \in Nat
    BY LimiterAssumption
  <2> QED
    BY <1>5, <2>1, SettleLowerMaps, SettleExactMaps, SettleHigherMaps DEF Settle
<1>6. ASSUME NEW t \in Tasks, Drop(t) PROVE Eager!Settle(t, 0)
  BY <1>6, DropMaps
<1>7. CASE UNCHANGED vars
  BY <1>7 DEF vars, Eager!vars
<1> QED
  BY <1>2, <1>3, <1>4, <1>5, <1>6, <1>7 DEF Next, Inspect, Refuse, Eager!Next

(* Whenever operations happen to come, reservations are granted, refunded  *)
(* and charged as by a bucket that refills at every tick.                  *)
THEOREM LazyRefillIsEager == Spec => RefillsLikeEager
<1>1. Init => Eager!Init
  BY FullBucketType DEF Init, Eager!Init, Eager!Nothing, Nothing
<1> QED
  BY <1>1, NextMaps, TypeCorrect, PTL DEF Spec, RefillsLikeEager, Eager!Spec
=============================================================================

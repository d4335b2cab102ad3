---------------------------- MODULE TokenBucket ----------------------------
(***************************************************************************)
(* The token bucket of src/middleware/rate_limit.rs.  It refills lazily:   *)
(* tokens are added for the time since last_refill whenever an operation   *)
(* next takes the bucket's mutex.  Each operation is one step, so it is an *)
(* operator from the bucket before the call to the bucket after it.        *)
(*                                                                         *)
(* Amounts are integers in a unit small enough for the refill of one tick  *)
(* to be a whole number (a limit of L tokens a minute refills L/60 tokens  *)
(* a second).  idle is the time since last_refill in ticks; the code       *)
(* clamps it when it uses it, so it saturates at MaxElapsed.               *)
(***************************************************************************)
EXTENDS Integers

CONSTANTS
  Capacity,        \* capacity
  RefillPerTick,   \* what refill_per_sec adds in one tick
  TicksPerSecond,  \* clients are told to wait whole seconds
  MaxElapsed       \* the clamp on the elapsed time, an hour in the code

(* from_config gives a bucket that fills in a minute, so the clamp on the  *)
(* elapsed time never keeps it from filling.                               *)
ASSUME BucketAssumption ==
  /\ Capacity \in Nat
  /\ RefillPerTick \in Nat
  /\ TicksPerSecond \in Nat \ {0}
  /\ MaxElapsed \in Nat
  /\ Capacity <= RefillPerTick * MaxElapsed

Buckets == [tokens : 0 .. Capacity, idle : 0 .. MaxElapsed]

FullBucket == [tokens |-> Capacity, idle |-> 0]

Capped(n) == IF n > Capacity THEN Capacity ELSE n

(* What the bucket holds once the refill that is due has been made. *)
Level(b) == Capped(b.tokens + RefillPerTick * b.idle)

----------------------------------------------------------------------------
(* refill_locked, the first thing every operation does. *)
RefillUndated(b) == [b EXCEPT !.tokens = Level(b)]  \* mutant: last_refill stays

Refill(b) == [tokens |-> Level(b), idle |-> 0]

(* try_consume: whether it grants, and the bucket when it does; when it    *)
(* does not, only the refill remains.                                      *)
Affords(b, cost) == Refill(b).tokens >= cost

Consume(b, cost) == [Refill(b) EXCEPT !.tokens = @ - cost]

(* The seconds a refused client is told to wait: u64::MAX if the bucket    *)
(* never refills, and at least one.                                        *)
Forever == -1

CeilDiv(n, d) == (n + d - 1) \div d

RetryAfterTruncated(b, cost) ==      \* mutant: the deficit is rounded down
  IF RefillPerTick = 0 THEN Forever
  ELSE LET wait == (cost - Refill(b).tokens) \div (RefillPerTick * TicksPerSecond)
       IN  IF wait < 1 THEN 1 ELSE wait

RetryAfter(b, cost) ==
  IF RefillPerTick = 0 THEN Forever
  ELSE LET wait == CeilDiv(cost - Refill(b).tokens, RefillPerTick * TicksPerSecond)
       IN  IF wait < 1 THEN 1 ELSE wait

(* refund: refills first, then adds, never above the capacity. *)
RefundUncapped(b, n) == [Refill(b) EXCEPT !.tokens = @ + n]  \* mutant: no clamp

Refund(b, n) == [Refill(b) EXCEPT !.tokens = Capped(@ + n)]

(* n ticks pass. *)
Later(b, n) ==
  [b EXCEPT !.idle = IF b.idle + n > MaxElapsed THEN MaxElapsed ELSE b.idle + n]
=============================================================================

------------------------------ MODULE Breaker ------------------------------
(***************************************************************************)
(* One circuit breaker, as the operations of src/router/circuit_breaker.rs *)
(* compute it.  Each operation of the code runs under the breaker's mutex  *)
(* and never awaits, so each is an operator from the breaker before the    *)
(* call to the breaker after it, and the modules that use them make one    *)
(* call per step.                                                          *)
(*                                                                         *)
(* The code compares Instant::now() with last_failure + cooldown.  Only    *)
(* the time since the last failure matters, and only up to the cooldown,   *)
(* so age counts the ticks since last_failure, saturating at Cooldown, and *)
(* is Never while last_failure is None.                                    *)
(***************************************************************************)
EXTENDS Integers

CONSTANTS
  FailureThreshold,  \* failure_threshold: a u32, zero is not rejected
  Cooldown,          \* cooldown, in ticks: zero is not rejected
  HalfOpenMaxCalls,  \* half_open_max_calls: a u32, as configured
  CountModulus       \* failure_count wraps here: 2^32 in a release build

ASSUME BreakerAssumption ==
  /\ FailureThreshold \in Nat
  /\ Cooldown \in Nat
  /\ HalfOpenMaxCalls \in Nat
  /\ CountModulus \in Nat
  /\ FailureThreshold < CountModulus

Never == -1

(* The constructor raises a limit of zero to one. *)
MaxProbes == IF HalfOpenMaxCalls = 0 THEN 1 ELSE HalfOpenMaxCalls

Breakers ==
  [ state    : {"Closed", "Open", "HalfOpen"},
    failures : 0 .. CountModulus - 1,
    age      : Never .. Cooldown,
    probes   : 0 .. MaxProbes ]

NewBreaker ==
  [state |-> "Closed", failures |-> 0, age |-> Never, probes |-> 0]

CooledDown(b) == b.age = Cooldown

----------------------------------------------------------------------------
(* allow_request grants on the condition is_eligible reads ...             *)

IsEligible(b) ==
  \/ b.state = "Closed"
  \/ b.state = "Open" /\ CooledDown(b)
  \/ b.state = "HalfOpen" /\ b.probes < MaxProbes

AllowsOneTooMany(b) ==               \* mutant: <= for < in the slot check
  \/ b.state = "Closed"
  \/ b.state = "Open" /\ CooledDown(b)
  \/ b.state = "HalfOpen" /\ b.probes <= MaxProbes

AllowsNoTrial(b) ==                  \* mutant: only the reader sees cooldowns
  \/ b.state = "Closed"
  \/ b.state = "HalfOpen" /\ b.probes < MaxProbes

Allows(b) ==
  \/ b.state = "Closed"
  \/ b.state = "Open" /\ CooledDown(b)
  \/ b.state = "HalfOpen" /\ b.probes < MaxProbes

(* ... and, unlike is_eligible, changes the breaker when it grants.  The   *)
(* call that finds the cooldown elapsed starts the trial with every slot   *)
(* free: it takes none itself.                                             *)

AfterAllowUncounted(b) ==            \* mutant: no slot is ever taken
  IF b.state = "Open" THEN [b EXCEPT !.state = "HalfOpen", !.probes = 0] ELSE b

AfterAllow(b) ==
  CASE b.state = "Closed"   -> b
    [] b.state = "Open"     -> [b EXCEPT !.state = "HalfOpen", !.probes = 0]
    [] b.state = "HalfOpen" -> [b EXCEPT !.probes = @ + 1]

----------------------------------------------------------------------------
(* record_success: a breaker that is Open stays Open. *)

AfterSuccessStuck(b) ==              \* mutant: frees the slots, stays open
  [b EXCEPT !.failures = 0, !.probes = 0]

AfterSuccessUncleared(b) ==          \* mutant: closes with the old count
  IF b.state = "HalfOpen"
    THEN [b EXCEPT !.state = "Closed", !.probes = 0]
    ELSE [b EXCEPT !.failures = 0]

AfterSuccess(b) ==
  IF b.state = "HalfOpen"
    THEN [b EXCEPT !.failures = 0, !.state = "Closed", !.probes = 0]
    ELSE [b EXCEPT !.failures = 0]

(* record_failure: dates and counts the failure, then ends a trial at once *)
(* or trips at the threshold.  In an Open breaker it restarts the cooldown.*)

WrappingInc(n) == IF n + 1 = CountModulus THEN 0 ELSE n + 1

AfterFailureLateDate(b) ==           \* mutant: dated after the early return
  LET n == WrappingInc(b.failures) IN
  CASE b.state = "HalfOpen" ->
         [b EXCEPT !.failures = n, !.state = "Open", !.probes = 0]
    [] b.state # "HalfOpen" /\ n >= FailureThreshold ->
         [b EXCEPT !.failures = n, !.age = 0, !.state = "Open"]
    [] OTHER -> [b EXCEPT !.failures = n, !.age = 0]

AfterFailure(b) ==
  LET counted == [b EXCEPT !.failures = WrappingInc(@), !.age = 0] IN
  IF b.state = "HalfOpen"
    THEN [counted EXCEPT !.state = "Open", !.probes = 0]
    ELSE IF counted.failures >= FailureThreshold
           THEN [counted EXCEPT !.state = "Open"]
           ELSE counted

(* The clock moves on by one tick. *)
AfterTick(b) ==
  IF b.age \in {Never, Cooldown} THEN b ELSE [b EXCEPT !.age = @ + 1]
=============================================================================

--------------------------- MODULE BreakerProofs ---------------------------
(***************************************************************************)
(* What each breaker operation preserves and establishes, for every value  *)
(* of the thresholds.                                                      *)
(***************************************************************************)
EXTENDS Breaker, TLAPS

(* max(1): a trial always has at least one slot. *)
LEMMA MaxProbesPositive == MaxProbes \in Nat /\ MaxProbes >= 1
BY BreakerAssumption DEF MaxProbes

LEMMA NewBreakerType == NewBreaker \in Breakers
BY BreakerAssumption, MaxProbesPositive DEF NewBreaker, Breakers, Never

(* allow_request, when it grants: a closed breaker is unchanged, an open   *)
(* one starts a trial, a trial gives out one slot more.                    *)
LEMMA AllowLemma ==
  ASSUME NEW b \in Breakers, Allows(b)
  PROVE  /\ AfterAllow(b) \in Breakers
         /\ AfterAllow(b).age = b.age
         /\ AfterAllow(b).failures = b.failures
         /\ b.state = "Closed" => AfterAllow(b) = b
         /\ b.state = "Open" => /\ AfterAllow(b).state = "HalfOpen"
                                /\ AfterAllow(b).probes = 0
                                /\ b.age = Cooldown
         /\ b.state = "HalfOpen" => /\ AfterAllow(b).state = "HalfOpen"
                                    /\ AfterAllow(b).probes = b.probes + 1
                                    /\ b.probes < MaxProbes
<1>1. CASE b.state = "Closed"
  BY <1>1 DEF AfterAllow, Breakers
<1>2. CASE b.state = "Open"
  <2> DEFINE c == [b EXCEPT !.state = "HalfOpen"]
  <2>1. AfterAllow(b) = [c EXCEPT !.probes = 0]
    BY <1>2 DEF AfterAllow, Breakers
  <2>2. b.age = Cooldown
    BY <1>2 DEF Allows, CooledDown
  <2>3. c \in Breakers /\ c.state = "HalfOpen" /\ c.age = b.age
        /\ c.failures = b.failures
    BY DEF Breakers
  <2> HIDE DEF c
  <2> QED
    BY <1>2, <2>1, <2>2, <2>3, MaxProbesPositive DEF Breakers
<1>3. CASE b.state = "HalfOpen"
  BY <1>3, MaxProbesPositive, BreakerAssumption DEF Never, AfterAllow, Allows, Breakers
<1> QED
  BY <1>1, <1>2, <1>3 DEF Breakers

(* record_success clears the count and closes a breaker on trial. *)
LEMMA SuccessLemma ==
  ASSUME NEW b \in Breakers
  PROVE  /\ AfterSuccess(b) \in Breakers
         /\ AfterSuccess(b).failures = 0
         /\ AfterSuccess(b).age = b.age
         /\ AfterSuccess(b).state = IF b.state = "HalfOpen" THEN "Closed"
                                                            ELSE b.state
         /\ AfterSuccess(b).probes = IF b.state = "HalfOpen" THEN 0
                                                             ELSE b.probes
<1> DEFINE c == [b EXCEPT !.failures = 0]
           d == [c EXCEPT !.state = "Closed"]
<1>1. c \in Breakers /\ c.failures = 0 /\ c.age = b.age
      /\ c.state = b.state /\ c.probes = b.probes
  BY BreakerAssumption DEF Breakers
<1>2. AfterSuccess(b) = IF b.state = "HalfOpen"
                          THEN [d EXCEPT !.probes = 0]
                          ELSE c
  BY DEF AfterSuccess, Breakers
<1> HIDE DEF c
<1>3. d \in Breakers /\ d.failures = 0 /\ d.age = b.age /\ d.state = "Closed"
  BY <1>1 DEF Breakers
<1> HIDE DEF d
<1> QED
  BY <1>1, <1>2, <1>3, MaxProbesPositive DEF Breakers

(* record_failure always dates the failure, ends a trial, and leaves the   *)
(* breaker closed only with a count below the threshold.                   *)
LEMMA FailureLemma ==
  ASSUME NEW b \in Breakers
  PROVE  /\ AfterFailure(b) \in Breakers
         /\ AfterFailure(b).age = 0
         /\ \/ AfterFailure(b).state = "Open"
            \/ /\ AfterFailure(b).state = b.state
               /\ b.state # "HalfOpen"
               /\ AfterFailure(b).failures < FailureThreshold
         /\ AfterFailure(b).probes = IF b.state = "HalfOpen" THEN 0
                                                             ELSE b.probes
<1> DEFINE n == WrappingInc(b.failures)
           d == [b EXCEPT !.failures = n]
           counted == [d EXCEPT !.age = 0]
           open == [counted EXCEPT !.state = "Open"]
<1>1. n \in 0 .. CountModulus - 1
  BY BreakerAssumption DEF WrappingInc, Breakers
<1>2. AfterFailure(b) = IF b.state = "HalfOpen"
                          THEN [open EXCEPT !.probes = 0]
                          ELSE IF counted.failures >= FailureThreshold
                                 THEN open
                                 ELSE counted
  BY DEF AfterFailure, Breakers
<1> HIDE DEF n
<1>3. d \in Breakers /\ d.failures = n
      /\ d.state = b.state /\ d.probes = b.probes
  BY <1>1 DEF Breakers
<1> HIDE DEF d
<1>4. counted \in Breakers /\ counted.failures = n /\ counted.age = 0
      /\ counted.state = b.state /\ counted.probes = b.probes
  BY <1>3, BreakerAssumption DEF Breakers, Never
<1> HIDE DEF counted
<1>5. open \in Breakers /\ open.age = 0 /\ open.state = "Open"
      /\ open.probes = b.probes
  BY <1>4 DEF Breakers
<1> HIDE DEF open
<1>6. CASE b.state = "HalfOpen"
  BY <1>2, <1>5, <1>6, MaxProbesPositive DEF Breakers
<1>7. CASE b.state # "HalfOpen" /\ n >= FailureThreshold
  BY <1>2, <1>4, <1>5, <1>7
<1>8. CASE b.state # "HalfOpen" /\ ~(n >= FailureThreshold)
  BY <1>1, <1>2, <1>4, <1>8, BreakerAssumption
<1> QED
  BY <1>6, <1>7, <1>8

(* Time changes the age alone, and never makes it Never. *)
LEMMA TickLemma ==
  ASSUME NEW b \in Breakers
  PROVE  /\ AfterTick(b) \in Breakers
         /\ AfterTick(b).state = b.state
         /\ AfterTick(b).failures = b.failures
         /\ AfterTick(b).probes = b.probes
         /\ AfterTick(b) # b => /\ b.age # Never
                                /\ b.age < Cooldown
                                /\ AfterTick(b).age = b.age + 1
BY BreakerAssumption DEF AfterTick, Breakers, Never
=============================================================================

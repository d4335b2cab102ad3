--------------------------- MODULE FailureStreak ---------------------------
(***************************************************************************)
(* CircuitBreaker with a history of how the provider really fares: the     *)
(* number of its latest attempts in a row that ended in failure, counting  *)
(* an attempt once, when it is over.                                       *)
(***************************************************************************)
EXTENDS CircuitBreaker

VARIABLE streak  \* saturates at FailureThreshold

StreakInit == Init /\ streak = 0

AttemptFails(t) == SendFails(t) \/ BodyFails(t)
AttemptSucceeds(t) == ClientError(t) \/ BodyDone(t)

StreakNext ==
  \/ /\ \E t \in Tasks : AttemptFails(t)
     /\ streak' = IF streak < FailureThreshold THEN streak + 1 ELSE streak
  \/ (\E t \in Tasks : AttemptSucceeds(t)) /\ streak' = 0
  \/ /\ Tick \/ \E t \in Tasks : \/ Select(t) \/ PassOver(t) \/ Deny(t)
                                 \/ Admit(t) \/ HeadersOk(t) \/ Cancel(t)
     /\ UNCHANGED streak

StreakSpec == StreakInit /\ [][StreakNext]_<<vars, streak>>

(* config.rs:62 defines failure_threshold as the "Consecutive failures     *)
(* required to trip the breaker OPEN", and stream.rs:42-44 says reporting  *)
(* stream errors makes sure that "a provider that routinely drops streams  *)
(* mid-response will eventually be circuit-broken".  The handler records a *)
(* success at the headers of every attempt, so the count is back to zero   *)
(* each time a body or stream fails, and the breaker stays closed.         *)
StreakTripsBreaker ==
  FailureThreshold > 0 /\ streak = FailureThreshold => breaker.state # "Closed"
=============================================================================

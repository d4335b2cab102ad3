--------------------------- MODULE StreamContract ---------------------------
(***************************************************************************)
(* What the gateway promises of a stream it hands to a client: the         *)
(* client's reservation is settled once, with the usage of the stream if   *)
(* it is reported while the stream is open and by a refund when the stream *)
(* is over if not, and a failure is reported to the breaker at most once,  *)
(* as the last thing that happens to an open stream.                       *)
(***************************************************************************)
EXTENDS Integers

CONSTANT Usages  \* the usages that may be reported

VARIABLES
  phase,    \* "open", "failed" or "over"
  account,  \* Held, Refunded, or the usage that was charged
  reports   \* how often a failure was reported

vars == <<phase, account, reports>>

Held == -1
Refunded == -2

Init == phase = "open" /\ account = Held /\ reports = 0

Charge ==
  /\ phase = "open"
  /\ account = Held
  /\ account' \in Usages
  /\ UNCHANGED <<phase, reports>>

Fail ==
  /\ phase = "open"
  /\ phase' = "failed"
  /\ reports' = reports + 1
  /\ UNCHANGED account

End ==
  /\ phase # "over"
  /\ phase' = "over"
  /\ account' = IF account = Held THEN Refunded ELSE account
  /\ UNCHANGED reports

Next == Charge \/ Fail \/ End

Spec == Init /\ [][Next]_vars
=============================================================================

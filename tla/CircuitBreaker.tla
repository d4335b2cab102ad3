--------------------------- MODULE CircuitBreaker ---------------------------
(***************************************************************************)
(* One provider's circuit breaker shared by concurrent requests.           *)
(*                                                                         *)
(* A task is a request handler (src/handlers/chat.rs or embeddings.rs) as  *)
(* far as this provider concerns it.  select_ordered reads the breaker     *)
(* without changing it; allow_request is called later, right before the    *)
(* send; the outcome is recorded when the send ends and, after good        *)
(* headers, once more if the body or the stream then fails.  Between these *)
(* calls the handler awaits and the other tasks run, so a task acts on a   *)
(* breaker that may have changed since it last looked.                     *)
(***************************************************************************)
EXTENDS Breaker, FiniteSets

CONSTANTS
  Tasks,          \* the requests that may use this provider at one time
  ClientsCancel   \* whether a client may leave and its handler be dropped

ASSUME TasksAssumption == IsFiniteSet(Tasks) /\ ClientsCancel \in BOOLEAN

VARIABLES
  breaker,  \* the shared CircuitBreaker
  attempt,  \* where each task is in its use of the provider
  role      \* history: whether allow_request let the task in as a probe of
            \* the trial that is under way

vars == <<breaker, attempt, role>>

Init ==
  /\ breaker = NewBreaker
  /\ attempt = [t \in Tasks |-> "idle"]
  /\ role = [t \in Tasks |-> "none"]

Probing == {t \in Tasks : role[t] = "probe"}

InFlight(t) == attempt[t] \in {"sent", "body"}

(* t goes to phase p in role r; the breaker is left alone. *)
Move(t, p, r) ==
  /\ attempt' = [attempt EXCEPT ![t] = p]
  /\ role' = [role EXCEPT ![t] = r]
  /\ UNCHANGED breaker

(* t records an outcome and goes to phase p in role r.  No trial outlives  *)
(* a recorded outcome, so no other task is a probe from here on.           *)
Record(t, after, p, r) ==
  /\ breaker' = after
  /\ attempt' = [attempt EXCEPT ![t] = p]
  /\ role' = [u \in Tasks |-> IF u = t THEN r
                              ELSE IF role[u] = "probe" THEN "normal"
                              ELSE role[u]]

----------------------------------------------------------------------------
(* select_ordered puts the provider on the request's candidate list. *)
SelectByAllowing(t) ==  \* mutant: selection takes a slot, as it once did
  /\ attempt[t] = "idle"
  /\ Allows(breaker)
  /\ breaker' = AfterAllow(breaker)
  /\ attempt' = [attempt EXCEPT ![t] = "candidate"]
  /\ UNCHANGED role

Select(t) ==
  /\ attempt[t] = "idle"
  /\ IsEligible(breaker)
  /\ Move(t, "candidate", "none")

(* The candidate is never reached: one before it answered the request. *)
PassOver(t) ==
  /\ attempt[t] = "candidate"
  /\ Move(t, "idle", "none")

(* allow_request refuses at send time. *)
Deny(t) ==
  /\ attempt[t] = "candidate"
  /\ ~Allows(breaker)
  /\ Move(t, "idle", "none")

(* allow_request grants and the request is sent. *)
Admit(t) ==
  /\ attempt[t] = "candidate"
  /\ Allows(breaker)
  /\ breaker' = AfterAllow(breaker)
  /\ attempt' = [attempt EXCEPT ![t] = "sent"]
  /\ role' = [role EXCEPT ![t] =
                IF breaker'.state = "HalfOpen" THEN "probe" ELSE "normal"]

(* No connection, a timeout, or a retryable status. *)
SendFails(t) ==
  /\ attempt[t] = "sent"
  /\ Record(t, AfterFailure(breaker), "idle", "none")

(* Any other 4xx: the provider counts as healthy. *)
ClientError(t) ==
  /\ attempt[t] = "sent"
  /\ Record(t, AfterSuccess(breaker), "idle", "none")

(* Good headers are recorded as a success before the body is read. *)
HeadersOk(t) ==
  /\ attempt[t] = "sent"
  /\ Record(t, AfterSuccess(breaker), "body", "normal")

(* The body or stream ends: nothing is recorded. *)
BodyDone(t) ==
  /\ attempt[t] = "body"
  /\ Move(t, "idle", "none")

(* The body cannot be read, or the stream breaks or stalls. *)
BodyFails(t) ==
  /\ attempt[t] = "body"
  /\ Record(t, AfterFailure(breaker), "idle", "none")

(* The client disconnects: the handler or the response body is dropped at  *)
(* its await and no outcome is ever recorded.                              *)
Cancel(t) ==
  /\ ClientsCancel
  /\ InFlight(t)
  /\ Move(t, "idle", "none")

Tick ==
  /\ AfterTick(breaker) # breaker
  /\ breaker' = AfterTick(breaker)
  /\ UNCHANGED <<attempt, role>>

Outcome(t) == SendFails(t) \/ ClientError(t) \/ HeadersOk(t)

TaskStep(t) ==
  \/ Select(t) \/ PassOver(t) \/ Deny(t) \/ Admit(t)
  \/ SendFails(t) \/ ClientError(t) \/ HeadersOk(t)
  \/ BodyDone(t) \/ BodyFails(t) \/ Cancel(t)

Next == Tick \/ \E t \in Tasks : TaskStep(t)

Spec == Init /\ [][Next]_vars

(* Every send ends, by the client's total request timeout if by nothing    *)
(* else, and time passes.  Nothing is assumed of bodies (a client may read *)
(* as slowly as it likes) nor of cancellations.                            *)
Progress == WF_vars(Tick) /\ \A t \in Tasks : WF_vars(Outcome(t))

(* Demand: requests keep coming and, when the breaker keeps letting them   *)
(* through, some get as far down their candidate list as this provider.    *)
Demand ==
  \A t \in Tasks : WF_vars(Select(t)) /\ WF_vars(BodyDone(t)) /\ SF_vars(Admit(t))

FairSpec == Spec /\ Progress
BusySpec == FairSpec /\ Demand

----------------------------------------------------------------------------
(* The breaker seen as its contract sees it. *)
Mode ==
  CASE breaker.state = "Closed"   -> "normal"
    [] breaker.state = "Open"     -> "blocked"
    [] breaker.state = "HalfOpen" -> "trial"

Wait == IF breaker.state = "Open" THEN Cooldown - breaker.age ELSE 0

Running == {t \in Tasks : InFlight(t)}

Admitted == IF breaker.state = "HalfOpen" THEN breaker.probes + 1 ELSE 0

Contract == INSTANCE BreakerContract WITH
  MaxTrial <- MaxProbes + 1,
  mode     <- Mode,
  wait     <- Wait,
  running  <- Running,
  trial    <- Probing,
  admitted <- Admitted

TypeOK ==
  /\ breaker \in Breakers
  /\ attempt \in [Tasks -> {"idle", "candidate", "sent", "body"}]
  /\ role \in [Tasks -> {"none", "normal", "probe"}]

(* At most one request more than the configured number of probes is in     *)
(* flight while the provider is on trial, however the requests interleave  *)
(* with selection, late outcomes of older requests and cancellations: the  *)
(* request whose allow_request started the trial, and one per slot.        *)
ProbesBounded == Cardinality(Probing) <= MaxProbes + 1

(* A closed breaker counts only failures recorded since it last closed or  *)
(* succeeded: whatever trials, late successes and late failures came       *)
(* before, its count is below the threshold, so it is not closed with a    *)
(* record that should have tripped it.                                     *)
ClosedIsBelowThreshold ==
  breaker.state = "Closed" =>
    breaker.failures = 0 \/ breaker.failures < FailureThreshold

(* While no client disconnects, every slot taken in a trial belongs to a   *)
(* request that is still in flight and will report, and so does the        *)
(* request that started the trial: no slot is lost.                        *)
SlotsAreHeld ==
  breaker.state = "HalfOpen" => Cardinality(Probing) = breaker.probes + 1

(* The breaker keeps its contract: no request starts before the cooldown   *)
(* counted from the last recorded failure is over, a trial lets in a       *)
(* bounded number, and the first outcome ends it.                          *)
KeepsContract == Contract!Spec

(* Outcomes end the trial: once a provider is on trial, and no client      *)
(* disconnects, the breaker closes or opens again.                         *)
TrialsAreDecided == breaker.state = "HalfOpen" ~> breaker.state # "HalfOpen"

(* Recovery: as long as there is demand, a breaker that opened is given a  *)
(* trial, although late failures of older requests restart its cooldown.   *)
OpenIsProbed == breaker.state = "Open" ~> breaker.state = "HalfOpen"

----------------------------------------------------------------------------
(* What the source says of the breaker and the code does not do.           *)

(* config.rs:66 calls half_open_max_calls the "Max concurrent probe        *)
(* requests allowed while HALF-OPEN".  The request that starts the trial   *)
(* takes no slot, so one more than that can run at once.                   *)
ProbesWithinLimit == Cardinality(Probing) <= MaxProbes
=============================================================================

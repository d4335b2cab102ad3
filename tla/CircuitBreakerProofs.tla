------------------------ MODULE CircuitBreakerProofs ------------------------
(***************************************************************************)
(* Proofs about CircuitBreaker, for any finite set of requests and every   *)
(* value of the thresholds.                                                *)
(***************************************************************************)
EXTENDS CircuitBreaker, BreakerProofs, FiniteSetTheorems

(* A request has a role exactly while it is in flight, and is a probe only *)
(* until its headers are in.                                               *)
RolesMatch ==
  \A t \in Tasks : /\ role[t] # "none" <=> InFlight(t)
                   /\ role[t] = "probe" => attempt[t] = "sent"

(* An open breaker has a failure to count the cooldown from. *)
OpenIsDated == breaker.state = "Open" => breaker.age # Never

(* Slots and probes exist during a trial only ... *)
NoTrialNoProbes ==
  breaker.state # "HalfOpen" => Probing = {} /\ breaker.probes = 0

(* ... and in a trial every probe but the first has taken a slot, which    *)
(* only a client that leaves can lose.                                     *)
ProbesHaveSlots ==
  breaker.state = "HalfOpen" =>
    /\ Cardinality(Probing) <= breaker.probes + 1
    /\ ~ClientsCancel => Cardinality(Probing) = breaker.probes + 1

IndInv ==
  /\ TypeOK
  /\ ClosedIsBelowThreshold
  /\ RolesMatch
  /\ OpenIsDated
  /\ NoTrialNoProbes
  /\ ProbesHaveSlots

LEMMA ProbingFinite ==
  IsFiniteSet(Probing) /\ Cardinality(Probing) \in Nat
<1>1. Probing \in SUBSET Tasks
  BY DEF Probing
<1> QED
  BY <1>1, TasksAssumption, FS_Subset, FS_CardinalityType

LEMMA InitIndInv == Init => IndInv
<1> SUFFICES ASSUME Init PROVE IndInv
  OBVIOUS
<1>1. TypeOK
  BY NewBreakerType DEF Init, TypeOK
<1>2. breaker.state = "Closed" /\ breaker.failures = 0 /\ breaker.probes = 0
  BY DEF Init, NewBreaker
<1>3. RolesMatch /\ Probing = {}
  BY DEF Init, RolesMatch, InFlight, Probing
<1> QED
  BY <1>1, <1>2, <1>3
     DEF IndInv, ClosedIsBelowThreshold, OpenIsDated, NoTrialNoProbes, ProbesHaveSlots

(* A request that leaves flight, or was not in flight, without reporting   *)
(* keeps the invariant; a probe does so only if clients cancel.            *)
LEMMA MoveStep ==
  ASSUME IndInv,
         NEW t \in Tasks, NEW p \in {"idle", "candidate"},
         Move(t, p, "none"),
         role[t] = "probe" => ClientsCancel
  PROVE  IndInv'
<1>1. TypeOK'
  BY DEF Move, IndInv, TypeOK
<1>2. RolesMatch'
  BY DEF Move, IndInv, TypeOK, RolesMatch, InFlight
<1>3. breaker' = breaker
  BY DEF Move
<1>4. Probing' = Probing \ {t}
  BY DEF Move, IndInv, TypeOK, Probing
<1>5. ProbesHaveSlots'
  <2>1. Cardinality(Probing') = IF t \in Probing THEN Cardinality(Probing) - 1
                                                 ELSE Cardinality(Probing)
    BY <1>4, ProbingFinite, FS_RemoveElement
  <2>2. t \in Probing => ClientsCancel
    BY DEF Probing
  <2> QED
    BY <1>3, <2>1, <2>2, ProbingFinite, MaxProbesPositive
       DEF IndInv, TypeOK, Breakers, ProbesHaveSlots
<1> QED
  BY <1>1, <1>2, <1>3, <1>4, <1>5
     DEF IndInv, ClosedIsBelowThreshold, OpenIsDated, NoTrialNoProbes

(* Recording an outcome keeps the invariant, whatever trial it ends. *)
LEMMA RecordStep ==
  ASSUME IndInv,
         NEW t \in Tasks, InFlight(t),
         NEW p \in {"idle", "body"},
         NEW r \in {"none", "normal"}, r = "normal" <=> p = "body",
         NEW after \in {AfterSuccess(breaker), AfterFailure(breaker)},
         Record(t, after, p, r)
  PROVE  IndInv'
<1>1. breaker \in Breakers
  BY DEF IndInv, TypeOK
<1>2. /\ after \in Breakers
      /\ after.state # "HalfOpen"
      /\ after.probes = 0
      /\ after.state = "Closed" =>
           after.failures = 0 \/ after.failures < FailureThreshold
      /\ after.state = "Open" => after.age # Never
  <2>1. CASE after = AfterSuccess(breaker)
    BY <1>1, <2>1, SuccessLemma
       DEF IndInv, OpenIsDated, NoTrialNoProbes, Breakers
  <2>2. CASE after = AfterFailure(breaker)
    BY <1>1, <2>2, FailureLemma DEF IndInv, NoTrialNoProbes, Never
  <2> QED
    BY <2>1, <2>2
<1>3. TypeOK'
  BY <1>2 DEF Record, IndInv, TypeOK
<1>4. Probing' = {}
  BY DEF Record, Probing
<1>5. RolesMatch'
  BY DEF Record, IndInv, TypeOK, RolesMatch, InFlight
<1> QED
  BY <1>2, <1>3, <1>4, <1>5
     DEF Record, IndInv, ClosedIsBelowThreshold, OpenIsDated, NoTrialNoProbes,
         ProbesHaveSlots

(* What allow_request does to the trial when it grants. *)
LEMMA AdmitEffect ==
  ASSUME IndInv, NEW t \in Tasks, Admit(t)
  PROVE  /\ breaker \in Breakers
         /\ breaker' \in Breakers
         /\ t \notin Probing
         /\ Probing' = IF breaker'.state = "HalfOpen" THEN Probing \cup {t}
                                                      ELSE Probing
         /\ Cardinality(Probing') = IF breaker'.state = "HalfOpen"
                                      THEN Cardinality(Probing) + 1
                                      ELSE Cardinality(Probing)
<1>1. breaker \in Breakers /\ breaker' \in Breakers
  BY AllowLemma DEF IndInv, TypeOK, Admit
<1>2. t \notin Probing
  BY DEF Admit, IndInv, RolesMatch, Probing
<1>3. Probing' = IF breaker'.state = "HalfOpen" THEN Probing \cup {t} ELSE Probing
  BY <1>2 DEF Admit, IndInv, TypeOK, Probing
<1> QED
  BY <1>1, <1>2, <1>3, ProbingFinite, FS_AddElement

LEMMA AdmitStep ==
  ASSUME IndInv, NEW t \in Tasks, Admit(t)
  PROVE  IndInv'
<1>1. TypeOK'
  BY AdmitEffect DEF Admit, IndInv, TypeOK
<1>2. RolesMatch'
  BY DEF Admit, IndInv, TypeOK, RolesMatch, InFlight
<1>3. CASE breaker.state = "Closed"
  BY <1>1, <1>2, <1>3, AdmitEffect, AllowLemma
     DEF Admit, IndInv, ClosedIsBelowThreshold, OpenIsDated, NoTrialNoProbes,
         ProbesHaveSlots
<1>4. CASE breaker.state = "Open"
  <2>1. breaker'.state = "HalfOpen" /\ breaker'.probes = 0
    BY <1>4, AdmitEffect, AllowLemma DEF Admit
  <2>2. Cardinality(Probing') = 1
    BY <1>4, <2>1, AdmitEffect, FS_EmptySet DEF IndInv, NoTrialNoProbes
  <2> QED
    BY <1>1, <1>2, <2>1, <2>2
       DEF IndInv, ClosedIsBelowThreshold, OpenIsDated, NoTrialNoProbes,
           ProbesHaveSlots
<1>5. CASE breaker.state = "HalfOpen"
  <2>1. breaker'.state = "HalfOpen" /\ breaker'.probes = breaker.probes + 1
    BY <1>5, AdmitEffect, AllowLemma DEF Admit
  <2>2. ProbesHaveSlots'
    BY <1>5, <2>1, AdmitEffect, ProbingFinite, MaxProbesPositive
       DEF IndInv, ProbesHaveSlots, Breakers
  <2> QED
    BY <1>1, <1>2, <2>1, <2>2
       DEF IndInv, ClosedIsBelowThreshold, OpenIsDated, NoTrialNoProbes
<1> QED
  BY <1>3, <1>4, <1>5, AdmitEffect DEF Breakers

LEMMA TickStep ==
  ASSUME IndInv, Tick
  PROVE  IndInv'
<1>1. breaker \in Breakers
  BY DEF IndInv, TypeOK
<1>2. /\ breaker' \in Breakers
      /\ breaker'.state = breaker.state
      /\ breaker'.failures = breaker.failures
      /\ breaker'.probes = breaker.probes
      /\ breaker'.age # Never
  BY <1>1, TickLemma, BreakerAssumption DEF Tick, Breakers, Never
<1>3. Probing' = Probing
  BY DEF Tick, Probing
<1>4. TypeOK' /\ RolesMatch'
  BY <1>2 DEF Tick, IndInv, TypeOK, RolesMatch, InFlight
<1> QED
  BY <1>2, <1>3, <1>4
     DEF IndInv, ClosedIsBelowThreshold, OpenIsDated, NoTrialNoProbes,
         ProbesHaveSlots

LEMMA NextIndInv == IndInv /\ [Next]_vars => IndInv'
<1> SUFFICES ASSUME IndInv, [Next]_vars PROVE IndInv'
  OBVIOUS
<1>1. CASE Tick
  BY <1>1, TickStep
<1>2. ASSUME NEW t \in Tasks, TaskStep(t) PROVE IndInv'
  <2>1. CASE Select(t)
    BY <2>1, MoveStep DEF Select, IndInv, RolesMatch, InFlight
  <2>2. CASE PassOver(t)
    BY <2>2, MoveStep DEF PassOver, IndInv, RolesMatch, InFlight
  <2>3. CASE Deny(t)
    BY <2>3, MoveStep DEF Deny, IndInv, RolesMatch, InFlight
  <2>4. CASE Admit(t)
    BY <2>4, AdmitStep
  <2>5. CASE SendFails(t)
    BY <2>5, RecordStep DEF SendFails, InFlight
  <2>6. CASE ClientError(t)
    BY <2>6, RecordStep DEF ClientError, InFlight
  <2>7. CASE HeadersOk(t)
    BY <2>7, RecordStep DEF HeadersOk, InFlight
  <2>8. CASE BodyDone(t)
    BY <2>8, MoveStep DEF BodyDone, IndInv, RolesMatch
  <2>9. CASE BodyFails(t)
    BY <2>9, RecordStep DEF BodyFails, InFlight
  <2>10. CASE Cancel(t)
    BY <2>10, MoveStep DEF Cancel
  <2> QED
    BY <1>2, <2>1, <2>2, <2>3, <2>4, <2>5, <2>6, <2>7, <2>8, <2>9, <2>10
       DEF TaskStep
<1>3. CASE UNCHANGED vars
  BY <1>3 DEF vars, IndInv, TypeOK, ClosedIsBelowThreshold, RolesMatch, InFlight,
              OpenIsDated, NoTrialNoProbes, ProbesHaveSlots, Probing
<1> QED
  BY <1>1, <1>2, <1>3 DEF Next

LEMMA Invariance == Spec => []IndInv
BY InitIndInv, NextIndInv, PTL DEF Spec

----------------------------------------------------------------------------
(* The breaker, the requests and their roles keep their types: the count   *)
(* wraps below CountModulus and the slots taken never exceed the limit.    *)
THEOREM TypeCorrect == Spec => []TypeOK
<1>1. IndInv => TypeOK
  BY DEF IndInv
<1> QED
  BY <1>1, Invariance, PTL

(* However many requests share the breaker and whatever their order, a     *)
(* trial has at most one probe more than the configured limit in flight.   *)
THEOREM TrialsAreBounded == Spec => []ProbesBounded
<1>1. IndInv => ProbesBounded
  <2> SUFFICES ASSUME IndInv PROVE ProbesBounded
    OBVIOUS
  <2>1. CASE breaker.state = "HalfOpen"
    BY <2>1, ProbingFinite, MaxProbesPositive
       DEF IndInv, TypeOK, Breakers, ProbesHaveSlots, ProbesBounded
  <2>2. CASE breaker.state # "HalfOpen"
    BY <2>2, FS_EmptySet, MaxProbesPositive
       DEF IndInv, NoTrialNoProbes, ProbesBounded
  <2> QED
    BY <2>1, <2>2
<1> QED
  BY <1>1, Invariance, PTL

(* A breaker is never closed with a count that should have tripped it. *)
THEOREM ClosedBelowThreshold == Spec => []ClosedIsBelowThreshold
<1>1. IndInv => ClosedIsBelowThreshold
  BY DEF IndInv
<1> QED
  BY <1>1, Invariance, PTL

(* If no client disconnects, no probe slot is lost: a trial always has as  *)
(* many requests in flight as it let in.                                   *)
THEOREM NoSlotIsLost ==
  ASSUME ~ClientsCancel
  PROVE  Spec => []SlotsAreHeld
<1>1. IndInv => SlotsAreHeld
  BY DEF IndInv, ProbesHaveSlots, SlotsAreHeld
<1> QED
  BY <1>1, Invariance, PTL

----------------------------------------------------------------------------
(* The breaker implements its contract, step by step. *)

(* A request that goes to phase p changes Running accordingly. *)
LEMMA RunningStep ==
  ASSUME TypeOK, NEW t \in Tasks,
         NEW p \in {"idle", "candidate", "sent", "body"},
         attempt' = [attempt EXCEPT ![t] = p]
  PROVE  Running' = IF p \in {"sent", "body"} THEN Running \cup {t}
                                              ELSE Running \ {t}
BY DEF TypeOK, Running, InFlight

LEMMA MoveMaps ==
  ASSUME IndInv, NEW t \in Tasks, NEW p \in {"idle", "candidate"},
         Move(t, p, "none")
  PROVE  IF InFlight(t) THEN Contract!Leave(t) ELSE UNCHANGED Contract!vars
<1>1. Mode' = Mode /\ Wait' = Wait /\ Admitted' = Admitted
  BY DEF Move, Mode, Wait, Admitted
<1>2. Running' = Running \ {t}
  BY RunningStep DEF Move, IndInv
<1>3. Probing' = Probing \ {t}
  BY DEF Move, IndInv, TypeOK, Probing
<1>4. CASE InFlight(t)
  BY <1>1, <1>2, <1>3, <1>4 DEF Contract!Leave, Running
<1>5. CASE ~InFlight(t)
  <2>1. t \notin Running /\ t \notin Probing
    BY <1>5 DEF IndInv, RolesMatch, Running, Probing, InFlight
  <2> QED
    BY <1>1, <1>2, <1>3, <1>5, <2>1 DEF Contract!vars
<1> QED
  BY <1>4, <1>5

LEMMA AdmitMaps ==
  ASSUME IndInv, NEW t \in Tasks, Admit(t)
  PROVE  Contract!Start(t) \/ Contract!BeginTrial(t) \/ Contract!JoinTrial(t)
<1>1. t \notin Running /\ Running' = Running \cup {t}
  BY RunningStep DEF Admit, IndInv, Running, InFlight
<1>2. CASE breaker.state = "Closed"
  <2>1. breaker' = breaker /\ Probing' = Probing
    BY <1>2, AdmitEffect, AllowLemma DEF Admit
  <2>2. Contract!Start(t)
    BY <1>1, <1>2, <2>1 DEF Contract!Start, Mode, Wait, Admitted
  <2> QED
    BY <2>2
<1>3. CASE breaker.state = "Open"
  <2>1. /\ breaker'.state = "HalfOpen"
        /\ breaker'.probes = 0
        /\ breaker.age = Cooldown
    BY <1>3, AdmitEffect, AllowLemma DEF Admit
  <2>2. Probing' = {t}
    BY <1>3, <2>1, AdmitEffect DEF IndInv, NoTrialNoProbes
  <2>3. Mode = "blocked" /\ Mode' = "trial" /\ Admitted' = 1
    BY <1>3, <2>1 DEF Mode, Admitted
  <2>4. Wait = 0 /\ Wait' = 0
    BY <1>3, <2>1, BreakerAssumption DEF Wait
  <2>5. Contract!BeginTrial(t)
    BY <1>1, <2>2, <2>3, <2>4 DEF Contract!BeginTrial
  <2> QED
    BY <2>5
<1>4. CASE breaker.state = "HalfOpen"
  <2>1. /\ breaker'.state = "HalfOpen"
        /\ breaker'.probes = breaker.probes + 1
        /\ breaker.probes < MaxProbes
    BY <1>4, AdmitEffect, AllowLemma DEF Admit
  <2>2. Probing' = Probing \cup {t}
    BY <2>1, AdmitEffect
  <2>3. Mode = "trial" /\ Mode' = Mode /\ Wait' = Wait
    BY <1>4, <2>1 DEF Mode, Wait
  <2>4. Admitted < MaxProbes + 1 /\ Admitted' = Admitted + 1
    BY <1>4, <2>1, AdmitEffect, MaxProbesPositive DEF Admitted, Breakers
  <2>5. Contract!JoinTrial(t)
    BY <1>1, <2>2, <2>3, <2>4 DEF Contract!JoinTrial
  <2> QED
    BY <2>5
<1> QED
  BY <1>2, <1>3, <1>4, AdmitEffect DEF Breakers

LEMMA SuccessMaps ==
  ASSUME IndInv, NEW t \in Tasks, InFlight(t),
         NEW p \in {"idle", "body"}, NEW r \in {"none", "normal"},
         Record(t, AfterSuccess(breaker), p, r)
  PROVE  Contract!Succeed(t)
<1>1. breaker \in Breakers
  BY DEF IndInv, TypeOK
<1>2. /\ breaker'.age = breaker.age
      /\ breaker'.state = IF breaker.state = "HalfOpen" THEN "Closed"
                                                        ELSE breaker.state
  BY <1>1, SuccessLemma DEF Record
<1>3. t \in Running /\ Running' \in {Running, Running \ {t}}
  <2>1. t \in Running
    BY DEF Running
  <2>2. Running' = Running \ {t} \/ Running' = Running \cup {t}
    BY RunningStep DEF Record, IndInv
  <2>3. Running \cup {t} = Running
    BY <2>1
  <2> QED
    BY <2>1, <2>2, <2>3
<1>4. Probing' = {}
  BY DEF Record, Probing
<1>5. /\ Mode' = IF Mode = "trial" THEN "normal" ELSE Mode
      /\ Wait' = Wait
      /\ Admitted' = 0
  BY <1>1, <1>2 DEF Mode, Wait, Admitted, Breakers
<1> QED
  BY <1>3, <1>4, <1>5 DEF Contract!Succeed

LEMMA FailureMaps ==
  ASSUME IndInv, NEW t \in Tasks, InFlight(t),
         Record(t, AfterFailure(breaker), "idle", "none")
  PROVE  Contract!Fail(t)
<1>1. breaker \in Breakers
  BY DEF IndInv, TypeOK
<1>2. /\ breaker'.age = 0
      /\ \/ breaker'.state = "Open"
         \/ breaker'.state = breaker.state /\ breaker.state # "HalfOpen"
  BY <1>1, FailureLemma DEF Record
<1>3. t \in Running /\ Running' = Running \ {t}
  BY RunningStep DEF Record, IndInv, Running
<1>4. Probing' = {}
  BY DEF Record, Probing
<1>5. \/ Mode' = "blocked" /\ Wait' = Cooldown
      \/ Mode = "normal" /\ Mode' = Mode /\ Wait' = Wait
  BY <1>1, <1>2, BreakerAssumption DEF Mode, Wait, Breakers
<1>6. Admitted' = 0
  BY <1>1, <1>2 DEF Admitted, Breakers
<1> QED
  BY <1>3, <1>4, <1>5, <1>6 DEF Contract!Fail

LEMMA TickMaps ==
  ASSUME IndInv, Tick
  PROVE  Contract!Tick \/ UNCHANGED Contract!vars
<1>1. breaker \in Breakers
  BY DEF IndInv, TypeOK
<1>2. /\ breaker'.state = breaker.state
      /\ breaker'.probes = breaker.probes
      /\ breaker.age \in Nat
      /\ breaker.age < Cooldown
      /\ breaker'.age = breaker.age + 1
  BY <1>1, TickLemma, BreakerAssumption DEF Tick, Breakers, Never
<1>3. Running' = Running /\ Probing' = Probing
  BY DEF Tick, Running, InFlight, Probing
<1>4. Mode' = Mode /\ Admitted' = Admitted
  BY <1>2 DEF Mode, Admitted
<1>5. CASE breaker.state = "Open"
  <2>1. Mode = "blocked" /\ Wait > 0 /\ Wait' = Wait - 1
    BY <1>2, <1>5, BreakerAssumption DEF Mode, Wait
  <2> QED
    BY <1>3, <1>4, <2>1 DEF Contract!Tick
<1>6. CASE breaker.state # "Open"
  <2>1. Wait' = Wait
    BY <1>2, <1>6 DEF Wait
  <2> QED
    BY <1>3, <1>4, <2>1 DEF Contract!vars
<1> QED
  BY <1>5, <1>6

LEMMA NextMaps ==
  IndInv /\ [Next]_vars => [Contract!Next]_Contract!vars
<1> SUFFICES ASSUME IndInv, [Next]_vars PROVE [Contract!Next]_Contract!vars
  OBVIOUS
<1>1. CASE Tick
  BY <1>1, TickMaps DEF Contract!Next
<1>2. ASSUME NEW t \in Tasks, TaskStep(t)
      PROVE  [Contract!Next]_Contract!vars
  <2>1. CASE Select(t) \/ PassOver(t) \/ Deny(t) \/ BodyDone(t) \/ Cancel(t)
    <3>1. \E p \in {"idle", "candidate"} : Move(t, p, "none")
      BY <2>1 DEF Select, PassOver, Deny, BodyDone, Cancel
    <3> QED
      BY <3>1, MoveMaps DEF Contract!Next
  <2>2. CASE Admit(t)
    BY <2>2, AdmitMaps DEF Contract!Next
  <2>3. CASE ClientError(t) \/ HeadersOk(t)
    <3>1. Contract!Succeed(t)
      BY <2>3, SuccessMaps DEF ClientError, HeadersOk, InFlight
    <3> QED
      BY <3>1 DEF Contract!Next
  <2>4. CASE SendFails(t) \/ BodyFails(t)
    <3>1. Contract!Fail(t)
      BY <2>4, FailureMaps DEF SendFails, BodyFails, InFlight
    <3> QED
      BY <3>1 DEF Contract!Next
  <2> QED
    BY <1>2, <2>1, <2>2, <2>3, <2>4 DEF TaskStep
<1>3. CASE UNCHANGED vars
  BY <1>3 DEF vars, Contract!vars, Mode, Wait, Running, InFlight, Probing, Admitted
<1> QED
  BY <1>1, <1>2, <1>3 DEF Next

(* The counting breaker, its slots and the requests that interleave on it  *)
(* do no more than the contract allows: no request starts within Cooldown  *)
(* of the last failure recorded on an open breaker, a trial admits at most *)
(* MaxProbes + 1 requests, and the first outcome recorded ends it.         *)
THEOREM ImplementsContract == Spec => KeepsContract
<1>1. Init => Contract!Init
  BY DEF Init, NewBreaker, Contract!Init, Mode, Wait, Running, InFlight,
         Probing, Admitted
<1>2. IndInv /\ [Next]_vars => [Contract!Next]_Contract!vars
  BY NextMaps
<1> QED
  BY <1>1, <1>2, Invariance, PTL DEF Spec, KeepsContract, Contract!Spec
=============================================================================

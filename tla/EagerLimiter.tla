---------------------------- MODULE EagerLimiter ----------------------------
(***************************************************************************)
(* What a limiter with reservations promises, for a bucket that refills at *)
(* every tick as if by itself: a reservation is granted only out of what   *)
(* is there, settling gives back what was not used, and what was used      *)
(* beyond the reservation is taken if, and only if, it is there.           *)
(***************************************************************************)
EXTENDS Integers

CONSTANTS Tasks, Costs, Usages, Capacity, RefillPerTick

VARIABLES level, held

vars == <<level, held>>

Nothing == -1

AtMostCapacity(n) == IF n > Capacity THEN Capacity ELSE n

Init == level = Capacity /\ held = [t \in Tasks |-> Nothing]

Reserve(t, cost) ==
  /\ held[t] = Nothing
  /\ cost <= level
  /\ level' = level - cost
  /\ held' = [held EXCEPT ![t] = cost]

Settle(t, used) ==
  /\ held[t] # Nothing
  /\ held' = [held EXCEPT ![t] = Nothing]
  /\ level' = IF used <= held[t] THEN AtMostCapacity(level + held[t] - used)
              ELSE IF used - held[t] <= level THEN level - (used - held[t])
              ELSE level

Tick == level' = AtMostCapacity(level + RefillPerTick) /\ UNCHANGED held

Next ==
  \/ Tick
  \/ \E t \in Tasks : \/ \E cost \in Costs : Reserve(t, cost)
                      \/ \E used \in Usages \cup {0} : Settle(t, used)

Spec == Init /\ [][Next]_vars
=============================================================================

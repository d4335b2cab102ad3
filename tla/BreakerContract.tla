-------------------------- MODULE BreakerContract --------------------------
(***************************************************************************)
(* What a circuit breaker promises its provider, without saying how it     *)
(* counts failures or probe slots:                                         *)
(*   - requests start freely only while the mode is normal;                *)
(*   - after a trip, and after every failure reported while blocked, none  *)
(*     starts for Cooldown ticks;                                          *)
(*   - then one starts a trial, which at most MaxTrial requests may join   *)
(*     in all before an outcome is reported;                               *)
(*   - the first outcome reported ends the trial: a success returns to     *)
(*     normal, a failure blocks again for the whole cooldown.              *)
(* When a failure in normal mode trips the breaker is left open here.      *)
(***************************************************************************)
EXTENDS Integers

CONSTANTS Tasks, Cooldown, MaxTrial

VARIABLES
  mode,      \* "normal", "blocked" or "trial"
  wait,      \* ticks before a blocked provider may be given a trial
  running,   \* the requests being served by the provider
  trial,     \* those of them that are probes of the trial under way
  admitted   \* how many requests the trial under way has let in

vars == <<mode, wait, running, trial, admitted>>

Init ==
  /\ mode = "normal"
  /\ wait = 0
  /\ running = {}
  /\ trial = {}
  /\ admitted = 0

Start(t) ==
  /\ mode = "normal"
  /\ t \notin running
  /\ running' = running \cup {t}
  /\ UNCHANGED <<mode, wait, trial, admitted>>

BeginTrial(t) ==
  /\ mode = "blocked"
  /\ wait = 0
  /\ t \notin running
  /\ mode' = "trial"
  /\ running' = running \cup {t}
  /\ trial' = {t}
  /\ admitted' = 1
  /\ UNCHANGED wait

JoinTrial(t) ==
  /\ mode = "trial"
  /\ admitted < MaxTrial
  /\ t \notin running
  /\ running' = running \cup {t}
  /\ trial' = trial \cup {t}
  /\ admitted' = admitted + 1
  /\ UNCHANGED <<mode, wait>>

(* A success may be reported before the request is over. *)
Succeed(t) ==
  /\ t \in running
  /\ running' \in {running, running \ {t}}
  /\ mode' = IF mode = "trial" THEN "normal" ELSE mode
  /\ trial' = {}
  /\ admitted' = 0
  /\ UNCHANGED wait

Fail(t) ==
  /\ t \in running
  /\ running' = running \ {t}
  /\ \/ mode' = "blocked" /\ wait' = Cooldown
     \/ mode = "normal" /\ UNCHANGED <<mode, wait>>
  /\ trial' = {}
  /\ admitted' = 0

Leave(t) ==
  /\ t \in running
  /\ running' = running \ {t}
  /\ trial' = trial \ {t}
  /\ UNCHANGED <<mode, wait, admitted>>

Tick ==
  /\ mode = "blocked"
  /\ wait > 0
  /\ wait' = wait - 1
  /\ UNCHANGED <<mode, running, trial, admitted>>

Next ==
  \/ Tick
  \/ \E t \in Tasks : \/ Start(t) \/ BeginTrial(t) \/ JoinTrial(t)
                      \/ Succeed(t) \/ Fail(t) \/ Leave(t)

Spec == Init /\ [][Next]_vars
=============================================================================

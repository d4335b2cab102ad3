---------------------------- MODULE StreamProxy ----------------------------
(***************************************************************************)
(* One stream of src/proxy/stream.rs.  The generator awaits a chunk of the *)
(* upstream under an idle timeout, parses it, charges the first usage and  *)
(* yields the chunk; it is resumed when the client asks for more.  Two     *)
(* clocks run: the idle timeout while the generator awaits a chunk, and    *)
(* the total timeout of the upstream request from its start, which the     *)
(* HTTP client raises as an error of the stream.                           *)
(*                                                                         *)
(* The reservation is held by the on_usage callback: it is reconciled when *)
(* the callback runs and refunded if the callback is dropped before, with  *)
(* the generator.                                                          *)
(***************************************************************************)
EXTENDS SseParser

CONSTANTS
  Streams,      \* what the provider may send, headers aside
  IdleTimeout,  \* stream_idle_timeout_seconds, at least one
  TotalTimeout  \* request_timeout_seconds

ASSUME StreamAssumption ==
  /\ Streams \subseteq Seq(Tokens)
  /\ IdleTimeout \in Nat \ {0}
  /\ TotalTimeout \in Nat \ {0}

VARIABLES
  source,    \* the stream the provider sends
  received,  \* how much of it has been received and handed on
  buffer,    \* the parser's buffer
  pc,        \* "waiting" for a chunk, "yielding" one, "failing" or "done"
  idle,      \* ticks since the generator began to wait
  age,       \* ticks since the request was sent
  ttft,      \* ttft_recorded
  account,   \* what has become of the reservation
  reports    \* how often on_stream_error was called

vars == <<source, received, buffer, pc, idle, age, ttft, account, reports>>

Held == -1
Refunded == -2

Init ==
  /\ source \in Streams
  /\ received = 0
  /\ buffer = <<>>
  /\ pc = "waiting"
  /\ idle = 0
  /\ age \in 0 .. TotalTimeout - 1
  /\ ttft = FALSE
  /\ account = Held
  /\ reports = 0

----------------------------------------------------------------------------
(* The first usage of a chunk's events. *)
FirstUsage(events) ==
  LET i == SelectInSeq(events, LAMBDA e : ExtractUsage(e) # NoUsage)
  IN  IF i = 0 THEN NoUsage ELSE ExtractUsage(events[i])

(* on_usage runs at the first usage the stream reports. *)
ChargeAgain(events) ==  \* mutant: usage_charged is not looked at
  IF FirstUsage(events) # NoUsage THEN FirstUsage(events) ELSE account

Charge(events) ==
  IF account = Held /\ FirstUsage(events) # NoUsage THEN FirstUsage(events)
  ELSE account

(* A chunk of n tokens arrives in time. *)
Receive(n) ==
  LET parsed == Push(buffer, SubSeq(source, received + 1, received + n)) IN
  /\ pc = "waiting"
  /\ age < TotalTimeout
  /\ received' = received + n
  /\ buffer' = parsed.buffer
  /\ ttft' = (ttft \/ \E i \in DOMAIN parsed.events : IsContentEvent(parsed.events[i]))
  /\ account' = Charge(parsed.events)
  /\ pc' = "yielding"
  /\ UNCHANGED <<source, idle, age, reports>>

(* The client has taken the chunk and asks for more. *)
Resume ==
  /\ pc = "yielding"
  /\ pc' = "waiting"
  /\ idle' = 0
  /\ UNCHANGED <<source, received, buffer, age, ttft, account, reports>>

FailGoingOn ==  \* mutant: the loop is not left after an error
  /\ reports' = 1
  /\ pc' = "yielding"
  /\ UNCHANGED <<source, received, buffer, idle, age, ttft, account>>

(* An error is reported to the breaker and passed to the client. *)
Fail ==
  /\ reports' = reports + 1
  /\ pc' = "failing"
  /\ UNCHANGED <<source, received, buffer, idle, age, ttft, account>>

(* The connection breaks ... *)
Breaks == pc = "waiting" /\ Fail

(* ... or the upstream stalls ... *)
IdleTimesOut == pc = "waiting" /\ idle = IdleTimeout /\ Fail

(* ... or the whole request has taken too long. *)
TotalTimesOut == pc = "waiting" /\ age = TotalTimeout /\ Fail

(* The generator is dropped and with it a callback that has not run. *)
Over ==
  /\ pc' = "done"
  /\ account' = IF account = Held THEN Refunded ELSE account
  /\ UNCHANGED <<source, received, buffer, idle, age, ttft, reports>>

(* The upstream closes the stream. *)
Ends == pc = "waiting" /\ age < TotalTimeout /\ received = Len(source) /\ Over

(* The error has been passed on. *)
Closes == pc = "failing" /\ Over

(* The client leaves and drops the response body. *)
ClientLeaves == pc # "done" /\ Over

Tick ==
  /\ pc # "done"
  /\ age' = IF age < TotalTimeout THEN age + 1 ELSE age
  /\ idle' = IF pc = "waiting" /\ idle < IdleTimeout THEN idle + 1 ELSE idle
  /\ <<age, idle>>' # <<age, idle>>
  /\ UNCHANGED <<source, received, buffer, pc, ttft, account, reports>>

Next ==
  \/ \E n \in 1 .. Len(source) - received : Receive(n)
  \/ Resume
  \/ Breaks \/ IdleTimesOut \/ TotalTimesOut
  \/ Ends \/ Closes \/ ClientLeaves
  \/ Tick

Spec == Init /\ [][Next]_vars

(* Timers fire, and the client asks for more as long as it stays.  Nothing *)
(* is assumed of the upstream, nor that the client leaves.                 *)
Fairness ==
  WF_vars(Tick) /\ WF_vars(Resume) /\ WF_vars(Closes)
    /\ WF_vars(IdleTimesOut \/ TotalTimesOut)

FairSpec == Spec /\ Fairness

----------------------------------------------------------------------------
Contract == INSTANCE StreamContract WITH
  Usages <- {0, UsageTokens},
  phase <- CASE pc = "failing" -> "failed"
             [] pc = "done"    -> "over"
             [] OTHER          -> "open"

TypeOK ==
  /\ source \in Streams
  /\ received \in 0 .. Len(source)
  /\ pc \in {"waiting", "yielding", "failing", "done"}
  /\ idle \in 0 .. IdleTimeout
  /\ age \in 0 .. TotalTimeout
  /\ ttft \in BOOLEAN
  /\ account \in {Held, Refunded, 0, UsageTokens}
  /\ reports \in Nat

(* However the network cuts the stream into chunks, the parser has seen    *)
(* the events that have been received, no more and no fewer, keeps what    *)
(* belongs to the next one, and the charge and the time to the first token *)
(* follow from those events alone.                                         *)
CutsDoNotMatter ==
  LET all == ReadAll(SubSeq(source, 1, received)) IN
  /\ buffer = all.buffer
  /\ ttft <=> \E i \in DOMAIN all.events : IsContentEvent(all.events[i])
  /\ FirstUsage(all.events) = IF account \in {Held, Refunded} THEN NoUsage ELSE account

(* The reservation is settled exactly once and a failure reported at most  *)
(* once, whichever of usage, errors, timeouts, end and departure come, and *)
(* in which order.                                                         *)
KeepsContract == Contract!Spec

(* A stream is over at last although the upstream may stall for ever and   *)
(* the client never give up.                                               *)
StreamEnds == <>(pc = "done")

----------------------------------------------------------------------------
(* What the source says of streams and the code does not do.               *)

(* stream.rs:65-66 says that on_usage is called "exactly once when the     *)
(* trailing usage SSE event is received".  A usage of null, which a        *)
(* provider asked for usage may put in every chunk before the last, is     *)
(* taken for that event: nothing is charged, and the real one is ignored.  *)
TrailingUsageIsCharged ==
  received = Len(source) /\ account \notin {Held, Refunded} /\
  (\E i \in 1 .. Len(source) : source[i] = "usage") => account = UsageTokens
=============================================================================

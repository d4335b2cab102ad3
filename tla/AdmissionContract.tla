------------------------- MODULE AdmissionContract -------------------------
(***************************************************************************)
(* What clients may rely on at the gateway's door.  Each client has from   *)
(* the start one allowance of requests and one of tokens, both refilled as *)
(* time passes and touched by its own requests only.  A request is let in  *)
(* for one request's worth, for good, or refused if that is not there; it  *)
(* then reserves its tokens or is refused if they are not there; and when  *)
(* it is over it pays for at most what it used.                            *)
(***************************************************************************)
EXTENDS Integers

CONSTANTS
  Requests, Clients,
  Amounts,  \* what may be reserved or paid
  Minute    \* ticks in a minute, and what a request or a token costs

VARIABLES
  limits,  \* per minute, for every client
  rpm,     \* what is left of each client's allowance of requests ...
  tpm,     \* ... and of tokens
  stage,   \* of each request: "outside", "admitted", "holding", "refused"
  owner,   \* whose request it is
  held     \* what it has reserved

vars == <<limits, rpm, tpm, stage, owner, held>>

Nobody == ""

AtMost(n, cap) == IF n > cap THEN cap ELSE n

Init ==
  /\ limits \in [rpm : Nat, tpm : Nat]
  /\ rpm = [c \in Clients |-> limits.rpm * Minute]
  /\ tpm = [c \in Clients |-> limits.tpm * Minute]
  /\ stage = [r \in Requests |-> "outside"]
  /\ owner = [r \in Requests |-> Nobody]
  /\ held = [r \in Requests |-> 0]

Moves(r, from, to) == stage[r] = from /\ stage' = [stage EXCEPT ![r] = to]

Admit(r, c) ==
  /\ Moves(r, "outside", "admitted")
  /\ rpm[c] >= Minute
  /\ rpm' = [rpm EXCEPT ![c] = @ - Minute]
  /\ owner' = [owner EXCEPT ![r] = c]
  /\ UNCHANGED <<tpm, held>>

Refuse(r, c) ==
  /\ Moves(r, "outside", "refused")
  /\ rpm[c] < Minute
  /\ owner' = [owner EXCEPT ![r] = c]
  /\ UNCHANGED <<rpm, tpm, held>>

Reserve(r, n) ==
  /\ Moves(r, "admitted", "holding")
  /\ tpm[owner[r]] >= n
  /\ tpm' = [tpm EXCEPT ![owner[r]] = @ - n]
  /\ held' = [held EXCEPT ![r] = n]
  /\ UNCHANGED <<rpm, owner>>

RefuseTokens(r, n) ==
  /\ Moves(r, "admitted", "refused")
  /\ tpm[owner[r]] < n
  /\ UNCHANGED <<rpm, tpm, owner, held>>

Pay(r, n) ==
  LET level == tpm[owner[r]] IN
  /\ Moves(r, "holding", "outside")
  /\ tpm' = [tpm EXCEPT ![owner[r]] =
               IF n <= held[r] THEN AtMost(level + held[r] - n, limits.tpm * Minute)
               ELSE IF n - held[r] <= level THEN level - (n - held[r])
               ELSE level]
  /\ owner' = [owner EXCEPT ![r] = Nobody]
  /\ held' = [held EXCEPT ![r] = 0]
  /\ UNCHANGED rpm

Leave(r) ==
  /\ Moves(r, "admitted", "outside") \/ Moves(r, "refused", "outside")
  /\ owner' = [owner EXCEPT ![r] = Nobody]
  /\ UNCHANGED <<rpm, tpm, held>>

Tick ==
  /\ rpm' = [c \in Clients |-> AtMost(rpm[c] + limits.rpm, limits.rpm * Minute)]
  /\ tpm' = [c \in Clients |-> AtMost(tpm[c] + limits.tpm, limits.tpm * Minute)]
  /\ UNCHANGED <<stage, owner, held>>

Next ==
  /\ UNCHANGED limits
  /\ \/ Tick
     \/ \E r \in Requests :
          \/ \E c \in Clients : Admit(r, c) \/ Refuse(r, c)
          \/ \E n \in Amounts : Reserve(r, n) \/ RefuseTokens(r, n) \/ Pay(r, n)
          \/ Leave(r)

Spec == Init /\ [][Next]_vars
=============================================================================

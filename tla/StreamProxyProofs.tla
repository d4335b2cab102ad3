------------------------- MODULE StreamProxyProofs -------------------------
(***************************************************************************)
(* Streams of any length, cut in any way, under any timeouts: the proxy is *)
(* well-typed and implements StreamContract, and its parser finds the      *)
(* events a reader of one token at a time finds, wherever the cuts are.    *)
(***************************************************************************)
EXTENDS StreamProxy, Induction, SequenceTheorems

USE DEF Held, Refunded, NoUsage

(* Whatever its lines, an event reports no usage, none, or the real one. *)
LEMMA ExtractUsageType ==
  ASSUME NEW event
  PROVE  ExtractUsage(event) \in {NoUsage, 0, UsageTokens}
BY DEF ExtractUsage, UsageAt

(* What is charged is a usage some event reported, once. *)
LEMMA ChargeType ==
  ASSUME NEW events
  PROVE  \/ Charge(events) = account
         \/ account = Held /\ Charge(events) \in {0, UsageTokens}
<1>1. FirstUsage(events) \in {NoUsage, 0, UsageTokens}
  BY ExtractUsageType DEF FirstUsage
<1> QED
  BY <1>1 DEF Charge

LEMMA TypeInit == Init => TypeOK
<1> SUFFICES ASSUME Init PROVE TypeOK
  OBVIOUS
<1>1. Len(source) \in Nat
  BY StreamAssumption DEF Init
<1>2. received \in 0 .. Len(source)
  BY <1>1 DEF Init
<1>3. age \in 0 .. TotalTimeout /\ idle \in 0 .. IdleTimeout
  BY StreamAssumption DEF Init
<1> QED
  BY <1>2, <1>3 DEF Init, TypeOK

LEMMA TypeStep == TypeOK /\ [Next]_vars => TypeOK'
<1> SUFFICES ASSUME TypeOK, [Next]_vars PROVE TypeOK'
  OBVIOUS
<1> USE StreamAssumption, UsageAssumption DEF TypeOK
<1>1. ASSUME NEW n \in 1 .. Len(source) - received, Receive(n) PROVE TypeOK'
  <2>1. account' \in {Held, Refunded, 0, UsageTokens}
    BY <1>1, ChargeType DEF Receive
  <2>2. received' \in 0 .. Len(source)
    <3>1. Len(source) \in Nat
      OBVIOUS
    <3> QED
      BY <1>1, <3>1 DEF Receive
  <2>3. ttft' \in BOOLEAN
    BY <1>1 DEF Receive
  <2> QED
    BY <1>1, <2>1, <2>2, <2>3 DEF Receive
<1>2. CASE Resume
  BY <1>2 DEF Resume
<1>3. CASE Fail
  BY <1>3 DEF Fail
<1>4. CASE Over
  BY <1>4 DEF Over
<1>5. CASE Tick
  BY <1>5 DEF Tick
<1>6. CASE UNCHANGED vars
  BY <1>6 DEF vars
<1> QED
  BY <1>1, <1>2, <1>3, <1>4, <1>5, <1>6
     DEF Next, Breaks, IdleTimesOut, TotalTimesOut, Ends, Closes, ClientLeaves

(* A stream is well-formed at all times: what it has handed on is within   *)
(* what was sent, its clocks within their timeouts, and its account open,  *)
(* refunded or charged with a usage the stream reported.                   *)
THEOREM TypeCorrect == Spec => []TypeOK
BY TypeInit, TypeStep, PTL DEF Spec

----------------------------------------------------------------------------
(* A step of the stream under the mapping. *)

LEMMA ReceiveMaps ==
  ASSUME NEW n, Receive(n)
  PROVE  [Contract!Next]_Contract!vars
<1> DEFINE events == Push(buffer, SubSeq(source, received + 1, received + n)).events
<1>1. account' = Charge(events)
  BY DEF Receive
<1>2. \/ account' = account
      \/ account = Held /\ account' \in {0, UsageTokens}
  BY <1>1, ChargeType
<1>3. pc = "waiting" /\ pc' = "yielding" /\ reports' = reports
  BY DEF Receive
<1> QED
  BY <1>2, <1>3 DEF Contract!Next, Contract!Charge, Contract!vars, Contract!Held

LEMMA FailMaps ==
  ASSUME pc = "waiting", Fail
  PROVE  Contract!Fail
BY DEF Fail, Contract!Fail

LEMMA OverMaps ==
  ASSUME pc # "done", Over
  PROVE  Contract!End
BY DEF Over, Contract!End, Contract!Held, Contract!Refunded

LEMMA StreamMaps == [Next]_vars => [Contract!Next]_Contract!vars
<1> SUFFICES ASSUME [Next]_vars PROVE [Contract!Next]_Contract!vars
  OBVIOUS
<1>1. ASSUME NEW n \in 1 .. Len(source) - received, Receive(n)
      PROVE  [Contract!Next]_Contract!vars
  BY <1>1, ReceiveMaps
<1>2. CASE Resume \/ Tick \/ UNCHANGED vars
  BY <1>2 DEF Resume, Tick, vars, Contract!vars
<1>3. CASE Breaks \/ IdleTimesOut \/ TotalTimesOut
  BY <1>3, FailMaps DEF Breaks, IdleTimesOut, TotalTimesOut, Contract!Next
<1>4. CASE Ends \/ Closes \/ ClientLeaves
  BY <1>4, OverMaps DEF Ends, Closes, ClientLeaves, Contract!Next
<1> QED
  BY <1>1, <1>2, <1>3, <1>4 DEF Next

(* For every stream, every way to cut it and every order of usage events,  *)
(* errors, timeouts, end and departure, the reservation is settled once    *)
(* and at most one failure is reported.                                    *)
THEOREM SettlesOnce == Spec => KeepsContract
<1>1. Init => Contract!Init
  BY DEF Init, Contract!Init, Contract!Held
<1> QED
  BY <1>1, StreamMaps, PTL DEF Spec, KeepsContract, Contract!Spec

----------------------------------------------------------------------------
(* Reading a token at a time. *)

Parsed == [events : Seq(Seq(Tokens)), buffer : Seq(Tokens)]

Unread == [events |-> <<>>, buffer |-> <<>>]

LEMMA UnreadType == Unread \in Parsed
<1>1. <<>> \in Seq(Tokens) /\ <<>> \in Seq(Seq(Tokens))
  OBVIOUS
<1> QED
  BY <1>1 DEF Unread, Parsed

LEMMA ReadType ==
  ASSUME NEW state \in Parsed, NEW token \in Tokens
  PROVE  Read(state, token) \in Parsed
<1>1. state.events \in Seq(Seq(Tokens)) /\ state.buffer \in Seq(Tokens)
  BY DEF Parsed
<1>2. Append(state.buffer, token) \in Seq(Tokens)
  BY <1>1
<1>3. Append(state.events, Append(state.buffer, token)) \in Seq(Seq(Tokens))
  BY <1>1, <1>2
<1>4. <<>> \in Seq(Tokens)
  OBVIOUS
<1> HIDE DEF Tokens
<1>5. [state EXCEPT !.buffer = Append(state.buffer, token)] \in Parsed
  BY <1>2 DEF Parsed
<1> QED
  BY <1>1, <1>3, <1>4, <1>5 DEF Read, Parsed

(* ReadAll is where the tokens of a stream lead one after the other. *)
LEMMA ReadAllTurns ==
  ASSUME NEW s \in Seq(Tokens)
  PROVE  \E turn : /\ turn[0] = Unread
                   /\ \A k \in 0 .. Len(s) - 1 : turn[k + 1] = Read(turn[k], s[k + 1])
                   /\ ReadAll(s) = turn[Len(s)]
<1> DEFINE n == Len(s)
           F == [p \in Parsed \X (1 .. n) |-> Read(p[1], s[p[2]])]
           Rec(g) == [t \in SUBSET DOMAIN s |->
                        IF t = {} THEN Unread
                        ELSE Read(g[t \ {Max(t)}], s[Max(t)])]
           it == CHOOSE g : g = Rec(g)
<1>1. n \in Nat /\ DOMAIN s = 1 .. n
  OBVIOUS
<1>2. F \in [Parsed \X (1 .. n) -> Parsed]
  <2>1. \A state \in Parsed, i \in 1 .. n : Read(state, s[i]) \in Parsed
    BY ReadType
  <2> QED
    BY <2>1
<1>3. PICK g \in [SUBSET (1 .. n) -> Parsed] : IsFold(g, F, Unread, n)
  <2> HIDE DEF F, n
  <2> QED
    BY <1>1, <1>2, UnreadType, FoldsExist
<1>4. g = Rec(g)
  <2>1. ASSUME NEW t \in SUBSET (1 .. n)
        PROVE  g[t] = IF t = {} THEN Unread ELSE Read(g[t \ {Max(t)}], s[Max(t)])
    <3>1. CASE t = {}
      BY <1>3, <3>1 DEF IsFold
    <3>2. CASE t # {}
      <4>1. Max(t) \in 1 .. n /\ g[t \ {Max(t)}] \in Parsed
        BY <1>1, <3>2, MaxOfPart
      <4>2. g[t] = F[<<g[t \ {Max(t)}], Max(t)>>]
        BY <1>3, <3>2 DEF IsFold
      <4> QED
        BY <3>2, <4>1, <4>2
    <3> QED
      BY <3>1, <3>2
  <2> QED
    BY <1>1, <2>1
<1>5. it = Rec(it)
  <2> HIDE DEF Rec
  <2> QED
    BY <1>4, Zenon
<1>6. ReadAll(s) = it[1 .. n]
  BY <1>1 DEF ReadAll, FoldLeft, MapThenFoldSet, Unread
<1> HIDE DEF it, n
<1>7. \A t \in SUBSET (1 .. n) :
         it[t] = IF t = {} THEN Unread ELSE Read(it[t \ {Max(t)}], s[Max(t)])
  BY <1>1, <1>5
<1> DEFINE turn == [k \in 0 .. n |-> it[1 .. k]]
<1>8. turn[0] = Unread
  <2>1. 0 \in 0 .. n /\ 1 .. 0 = {} /\ {} \in SUBSET (1 .. n)
    BY <1>1, Initial
  <2>2. it[{}] = Unread
    BY <1>7, <2>1
  <2> QED
    BY <2>1, <2>2
<1>9. ASSUME NEW k \in 0 .. n - 1
      PROVE  turn[k + 1] = Read(turn[k], s[k + 1])
  <2>1. /\ k \in Nat /\ k + 1 \in 0 .. n /\ k \in 0 .. n
        /\ 1 .. k + 1 \in SUBSET (1 .. n)
    BY <1>1
  <2>2. /\ 1 .. k + 1 # {} /\ Max(1 .. k + 1) = k + 1
        /\ (1 .. k + 1) \ {k + 1} = 1 .. k
    BY <2>1, Initial
  <2>3. it[1 .. k + 1] = Read(it[1 .. k], s[k + 1])
    BY <1>7, <2>1, <2>2
  <2> QED
    BY <2>1, <2>3
<1>10. ReadAll(s) = turn[n]
  BY <1>1, <1>6
<1> HIDE DEF turn
<1> QED
  BY <1>8, <1>9, <1>10 DEF n

LEMMA ReadAllEmpty == ReadAll(<<>>) = Unread
<1>1. <<>> \in Seq(Tokens) /\ Len(<<>>) = 0
  OBVIOUS
<1> QED
  BY <1>1, ReadAllTurns

LEMMA ReadAllAppend ==
  ASSUME NEW s \in Seq(Tokens), NEW token \in Tokens
  PROVE  ReadAll(Append(s, token)) = Read(ReadAll(s), token)
<1> DEFINE longer == Append(s, token)
<1>1. /\ Len(s) \in Nat
      /\ longer \in Seq(Tokens) /\ Len(longer) = Len(s) + 1
      /\ longer[Len(s) + 1] = token
      /\ \A i \in 1 .. Len(s) : longer[i] = s[i]
  OBVIOUS
<1> HIDE DEF longer
<1>2. PICK t : /\ t[0] = Unread
               /\ \A k \in 0 .. Len(s) - 1 : t[k + 1] = Read(t[k], s[k + 1])
               /\ ReadAll(s) = t[Len(s)]
  BY ReadAllTurns
<1>3. PICK u : /\ u[0] = Unread
               /\ \A k \in 0 .. Len(longer) - 1 : u[k + 1] = Read(u[k], longer[k + 1])
               /\ ReadAll(longer) = u[Len(longer)]
  BY <1>1, ReadAllTurns
<1> DEFINE S == {k \in Nat : k <= Len(s) => t[k] = u[k]}
<1>4. 0 \in S
  BY <1>2, <1>3
<1>5. ASSUME NEW k \in Nat, k \in S PROVE k + 1 \in S
  <2> SUFFICES ASSUME k + 1 <= Len(s) PROVE t[k + 1] = u[k + 1]
    OBVIOUS
  <2>1. k \in 0 .. Len(s) - 1 /\ k \in 0 .. Len(longer) - 1 /\ k + 1 \in 1 .. Len(s)
    BY <1>1
  <2>2. t[k] = u[k]
    BY <1>1, <1>5, <2>1
  <2> QED
    BY <1>1, <1>2, <1>3, <2>1, <2>2
<1>6. t[Len(s)] = u[Len(s)]
  <2>1. Len(s) \in S
    <3> HIDE DEF S
    <3> QED
      BY <1>1, <1>4, <1>5, SimpleInduction
  <2> QED
    BY <1>1, <2>1
<1>7. Len(s) \in 0 .. Len(longer) - 1
  BY <1>1
<1>8. u[Len(s) + 1] = Read(u[Len(s)], token)
  BY <1>1, <1>3, <1>7
<1> QED
  BY <1>1, <1>2, <1>3, <1>6, <1>8 DEF longer

LEMMA ReadAllType == \A s \in Seq(Tokens) : ReadAll(s) \in Parsed
<1> DEFINE S == {s \in Seq(Tokens) : ReadAll(s) \in Parsed}
<1>1. <<>> \in S
  BY ReadAllEmpty, UnreadType
<1>2. ASSUME NEW s \in Seq(Tokens), NEW token \in Tokens, s \in S
      PROVE  Append(s, token) \in S
  BY <1>2, ReadAllAppend, ReadType
<1>3. \A s \in Seq(Tokens) : s \in S
  <2> HIDE DEF S
  <2> QED
    BY <1>1, <1>2, SequenceInduction
<1> QED
  BY <1>3

----------------------------------------------------------------------------
(* What has been read is split into events and a rest, and reading goes on *)
(* from the rest alone.                                                    *)

(* More events in front do not change how a token is read. *)
LEMMA ReadAfterEvents ==
  ASSUME NEW before \in Seq(Seq(Tokens)), NEW state \in Parsed, NEW token \in Tokens
  PROVE  LET later == [events |-> before \o state.events, buffer |-> state.buffer]
         IN  /\ Read(later, token).events = before \o Read(state, token).events
             /\ Read(later, token).buffer = Read(state, token).buffer
             /\ Read(later, token) \in Parsed
<1> DEFINE later == [events |-> before \o state.events, buffer |-> state.buffer]
           read == Append(state.buffer, token)
<1>1. /\ state.events \in Seq(Seq(Tokens)) /\ state.buffer \in Seq(Tokens)
      /\ before \o state.events \in Seq(Seq(Tokens))
  BY DEF Parsed
<1>2. later \in Parsed
  BY <1>1 DEF Parsed
<1>3. read \in Seq(Tokens)
  BY <1>1
<1>4. before \o Append(state.events, read) = Append(before \o state.events, read)
  <2> HIDE DEF read
  <2> QED
    BY <1>1, <1>3
<1>5. later.events = before \o state.events /\ later.buffer = state.buffer
  OBVIOUS
<1> HIDE DEF later, read
<1>6. [later EXCEPT !.buffer = read].events = later.events
      /\ [later EXCEPT !.buffer = read].buffer = read
  BY <1>2 DEF Parsed
<1>7. [state EXCEPT !.buffer = read].events = state.events
      /\ [state EXCEPT !.buffer = read].buffer = read
  BY DEF Parsed
<1>8. /\ Read(later, token).events = before \o Read(state, token).events
      /\ Read(later, token).buffer = Read(state, token).buffer
  <2>1. CASE token = "LF" /\ state.buffer # <<>> /\ Last(state.buffer) = "LF"
    BY <1>4, <1>5, <2>1 DEF Read, read
  <2>2. CASE ~(token = "LF" /\ state.buffer # <<>> /\ Last(state.buffer) = "LF")
    BY <1>5, <1>6, <1>7, <2>2 DEF Read, read
  <2> QED
    BY <2>1, <2>2
<1> QED
  BY <1>2, <1>8, ReadType DEF later

(* What is left over holds no whole event: reading it again leaves it. *)
LEMMA RestIsPending ==
  \A s \in Seq(Tokens) :
    ReadAll(ReadAll(s).buffer) = [events |-> <<>>, buffer |-> ReadAll(s).buffer]
<1> DEFINE S == {s \in Seq(Tokens) :
                   ReadAll(ReadAll(s).buffer)
                     = [events |-> <<>>, buffer |-> ReadAll(s).buffer]}
<1>1. <<>> \in S
  BY ReadAllEmpty DEF Unread
<1>2. ASSUME NEW s \in Seq(Tokens), NEW token \in Tokens, s \in S
      PROVE  Append(s, token) \in S
  <2> DEFINE state == ReadAll(s)
             read == Append(state.buffer, token)
  <2>1. /\ state \in Parsed
        /\ ReadAll(Append(s, token)) = Read(state, token)
        /\ ReadAll(state.buffer) = [events |-> <<>>, buffer |-> state.buffer]
    BY <1>2, ReadAllType, ReadAllAppend
  <2>2. state.buffer \in Seq(Tokens) /\ state.events \in Seq(Seq(Tokens))
    BY <2>1 DEF Parsed
  <2> HIDE DEF state
  <2>3. CASE token = "LF" /\ state.buffer # <<>> /\ Last(state.buffer) = "LF"
    <3>1. Read(state, token).buffer = <<>>
      BY <2>3 DEF Read
    <3> QED
      BY <2>1, <3>1, ReadAllEmpty DEF Unread
  <2>4. CASE ~(token = "LF" /\ state.buffer # <<>> /\ Last(state.buffer) = "LF")
    <3>1. Read(state, token).buffer = read
      BY <2>1, <2>4 DEF Read, Parsed
    <3>2. ReadAll(read) = Read([events |-> <<>>, buffer |-> state.buffer], token)
      BY <2>1, <2>2, ReadAllAppend
    <3>3. Read([events |-> <<>>, buffer |-> state.buffer], token)
            = [events |-> <<>>, buffer |-> read]
      BY <2>4 DEF Read
    <3> HIDE DEF read
    <3>4. Append(s, token) \in Seq(Tokens)
      OBVIOUS
    <3>5. ReadAll(Append(s, token)).buffer = read
      BY <2>1, <3>1
    <3>6. ReadAll(read) = [events |-> <<>>, buffer |-> read]
      BY <3>2, <3>3
    <3> QED
      BY <3>4, <3>5, <3>6
  <2> QED
    BY <2>3, <2>4
<1>3. \A s \in Seq(Tokens) : s \in S
  <2> HIDE DEF S
  <2> QED
    BY <1>1, <1>2, SequenceInduction
<1> QED
  BY <1>3

LEMMA AppendToConcatenation ==
  ASSUME NEW s \in Seq(Tokens), NEW t \in Seq(Tokens), NEW token \in Tokens
  PROVE  /\ s \o Append(t, token) = Append(s \o t, token)
         /\ s \o t \in Seq(Tokens) /\ Append(t, token) \in Seq(Tokens)
OBVIOUS

(* To read on is to read what is left over and then the rest. *)
LEMMA ReadOn ==
  ASSUME NEW s \in Seq(Tokens)
  PROVE  \A more \in Seq(Tokens) :
           LET rest == ReadAll(ReadAll(s).buffer \o more) IN
           ReadAll(s \o more) =
             [events |-> ReadAll(s).events \o rest.events, buffer |-> rest.buffer]
<1> DEFINE state == ReadAll(s)
           Rest(more) == ReadAll(state.buffer \o more)
           S == {more \in Seq(Tokens) :
                   ReadAll(s \o more) = [events |-> state.events \o Rest(more).events,
                                         buffer |-> Rest(more).buffer]}
<1>1. /\ state \in Parsed
      /\ state.buffer \in Seq(Tokens) /\ state.events \in Seq(Seq(Tokens))
  BY ReadAllType DEF Parsed
<1>2. ReadAll(state.buffer) = [events |-> <<>>, buffer |-> state.buffer]
  BY RestIsPending
<1> HIDE DEF state
<1>3. <<>> \in S
  <2>1. s \o <<>> = s /\ state.buffer \o <<>> = state.buffer
        /\ state.events \o <<>> = state.events
    BY <1>1
  <2>2. Rest(<<>>) = [events |-> <<>>, buffer |-> state.buffer]
    BY <1>2, <2>1
  <2>3. [events |-> state.events \o Rest(<<>>).events, buffer |-> Rest(<<>>).buffer]
          = state
    BY <1>1, <2>1, <2>2 DEF Parsed
  <2> QED
    BY <2>1, <2>3 DEF state
<1>4. ASSUME NEW more \in Seq(Tokens), NEW token \in Tokens, more \in S
      PROVE  Append(more, token) \in S
  <2> DEFINE longer == Append(more, token)
  <2>1. /\ s \o longer = Append(s \o more, token)
        /\ state.buffer \o longer = Append(state.buffer \o more, token)
        /\ s \o more \in Seq(Tokens) /\ state.buffer \o more \in Seq(Tokens)
        /\ longer \in Seq(Tokens)
    BY <1>1, AppendToConcatenation
  <2>2. /\ ReadAll(s \o longer) = Read(ReadAll(s \o more), token)
        /\ Rest(longer) = Read(Rest(more), token)
        /\ Rest(more) \in Parsed
    BY <2>1, ReadAllAppend, ReadAllType
  <2>3. ReadAll(s \o more) = [events |-> state.events \o Rest(more).events,
                              buffer |-> Rest(more).buffer]
    BY <1>4
  <2> HIDE DEF Rest, longer
  <2> DEFINE later == [events |-> state.events \o Rest(more).events,
                       buffer |-> Rest(more).buffer]
  <2>4. /\ Read(later, token).events = state.events \o Read(Rest(more), token).events
        /\ Read(later, token).buffer = Read(Rest(more), token).buffer
        /\ Read(later, token) \in Parsed
    BY <1>1, <2>2, ReadAfterEvents
  <2>5. ReadAll(s \o longer) = Read(later, token)
    BY <2>2, <2>3
  <2> HIDE DEF later
  <2>6. /\ ReadAll(s \o longer).events = state.events \o Rest(longer).events
        /\ ReadAll(s \o longer).buffer = Rest(longer).buffer
        /\ ReadAll(s \o longer) \in Parsed
    BY <2>2, <2>4, <2>5
  <2>7. ReadAll(s \o longer) = [events |-> state.events \o Rest(longer).events,
                                buffer |-> Rest(longer).buffer]
    BY <2>6 DEF Parsed
  <2>8. longer \in S
    BY <2>1, <2>7
  <2> QED
    BY <2>8 DEF longer
<1>5. \A more \in Seq(Tokens) : more \in S
  <2> HIDE DEF S
  <2> QED
    BY <1>3, <1>4, SequenceInduction
<1> QED
  BY <1>5 DEF state

----------------------------------------------------------------------------
(* Splitting events off the front of a buffer. *)

(* An event ends with the second of two line feeds. *)
EndsAt(s, i) == s[i] = "LF" /\ s[i + 1] = "LF"

LEMMA WindowIsPair ==
  ASSUME NEW b \in Seq(Tokens), NEW i \in 1 .. Len(b) - 1
  PROVE  SubSeq(b, i, i + 1) = <<b[i], b[i + 1]>>
<1>1. /\ i \in Int /\ i + 1 \in Int /\ i <= i + 1 /\ (i + 1) - i + 1 = 2
      /\ 1 + i - 1 = i /\ 2 + i - 1 = i + 1
      /\ \A j \in i .. i + 1 : b[j] \in Tokens
  OBVIOUS
<1>2. /\ SubSeq(b, i, i + 1) \in Seq(Tokens)
      /\ Len(SubSeq(b, i, i + 1)) = 2
      /\ \A j \in 1 .. 2 : SubSeq(b, i, i + 1)[j] = b[i + j - 1]
  BY <1>1, SubSeqProperties
<1>3. b[i] \in Tokens /\ b[i + 1] \in Tokens
  BY <1>1
<1>4. /\ <<b[i], b[i + 1]>> \in Seq(Tokens) /\ Len(<<b[i], b[i + 1]>>) = 2
      /\ <<b[i], b[i + 1]>>[1] = b[i] /\ <<b[i], b[i + 1]>>[2] = b[i + 1]
  BY <1>3
<1>5. SubSeq(b, i, i + 1)[1] = b[i] /\ SubSeq(b, i, i + 1)[2] = b[i + 1]
  BY <1>1, <1>2
<1>6. \A j \in 1 .. 2 : j = 1 \/ j = 2
  OBVIOUS
<1>7. \A j \in 1 .. 2 : SubSeq(b, i, i + 1)[j] = <<b[i], b[i + 1]>>[j]
  BY <1>4, <1>5, <1>6, Zenon
<1> QED
  BY <1>2, <1>4, <1>7, SeqEqual

LEMMA EventEndIsFirst ==
  ASSUME NEW b \in Seq(Tokens)
  PROVE  \/ /\ FindEventEnd(b) = 0
            /\ \A i \in 1 .. Len(b) - 1 : ~EndsAt(b, i)
         \/ /\ FindEventEnd(b) \in 1 .. Len(b) - 1
            /\ EndsAt(b, FindEventEnd(b))
            /\ \A i \in 1 .. FindEventEnd(b) - 1 : ~EndsAt(b, i)
<1> DEFINE windows == [i \in 1 .. Len(b) |-> SubSeq(b, i, i + 1)]
           ends == {i \in 1 .. Len(b) - 1 : windows[i] = <<"LF", "LF">>}
<1>1. Len(b) \in Nat
  OBVIOUS
<1>2. \A i \in 1 .. Len(b) - 1 : windows[i] = <<"LF", "LF">> <=> EndsAt(b, i)
  <2> SUFFICES ASSUME NEW i \in 1 .. Len(b) - 1
               PROVE  windows[i] = <<"LF", "LF">> <=> EndsAt(b, i)
    OBVIOUS
  <2>1. i \in 1 .. Len(b) /\ windows[i] = SubSeq(b, i, i + 1)
    OBVIOUS
  <2>2. windows[i] = <<b[i], b[i + 1]>>
    BY <2>1, WindowIsPair
  <2> HIDE DEF windows
  <2> QED
    BY <2>2 DEF EndsAt
<1>3. ends = {i \in 1 .. Len(b) - 1 : EndsAt(b, i)}
  BY <1>2
<1>4. FindEventEnd(b) = IF ends # {} THEN Min(ends) ELSE 0
  BY DEF FindEventEnd, SelectInSubSeq
<1>5. ends \in SUBSET Nat
  OBVIOUS
<1> HIDE DEF ends
<1>6. CASE ends = {}
  BY <1>3, <1>4, <1>6
<1>7. CASE ends # {}
  <2>1. FindEventEnd(b) \in ends /\ \A i \in ends : FindEventEnd(b) <= i
    BY <1>4, <1>5, <1>7, MinIsLeast
  <2> QED
    BY <1>1, <1>3, <2>1
<1> QED
  BY <1>6, <1>7

(* Where no event ends, nothing is split off. *)
LEMMA NoEventIsRead ==
  \A s \in Seq(Tokens) :
    (\A i \in 1 .. Len(s) - 1 : ~EndsAt(s, i)) =>
      ReadAll(s) = [events |-> <<>>, buffer |-> s]
<1> DEFINE S == {s \in Seq(Tokens) :
                   (\A i \in 1 .. Len(s) - 1 : ~EndsAt(s, i)) =>
                     ReadAll(s) = [events |-> <<>>, buffer |-> s]}
<1>1. <<>> \in S
  BY ReadAllEmpty DEF Unread
<1>2. ASSUME NEW s \in Seq(Tokens), NEW token \in Tokens, s \in S
      PROVE  Append(s, token) \in S
  <2> DEFINE longer == Append(s, token)
  <2>1. /\ longer \in Seq(Tokens) /\ Len(longer) = Len(s) + 1 /\ Len(s) \in Nat
        /\ longer[Len(s) + 1] = token
        /\ \A i \in 1 .. Len(s) : longer[i] = s[i]
    OBVIOUS
  <2> SUFFICES ASSUME \A i \in 1 .. Len(longer) - 1 : ~EndsAt(longer, i)
               PROVE  ReadAll(longer) = [events |-> <<>>, buffer |-> longer]
    BY <2>1
  <2> HIDE DEF longer
  <2>2. \A i \in 1 .. Len(s) - 1 : ~EndsAt(s, i)
    BY <2>1 DEF EndsAt
  <2>3. ReadAll(s) = [events |-> <<>>, buffer |-> s]
    BY <1>2, <2>2
  <2>4. ReadAll(longer) = Read([events |-> <<>>, buffer |-> s], token)
    BY <2>3, ReadAllAppend DEF longer
  <2>5. ~(token = "LF" /\ s # <<>> /\ Last(s) = "LF")
    <3> SUFFICES ASSUME token = "LF", s # <<>>, Last(s) = "LF"
                 PROVE  FALSE
      OBVIOUS
    <3>1. Len(s) \in 1 .. Len(longer) - 1 /\ s[Len(s)] = "LF"
      BY <2>1 DEF Last
    <3> QED
      BY <2>1, <3>1 DEF EndsAt
  <2> QED
    BY <2>4, <2>5 DEF Read, longer
<1>3. \A s \in Seq(Tokens) : s \in S
  <2> HIDE DEF S
  <2> QED
    BY <1>1, <1>2, SequenceInduction
<1> QED
  BY <1>3

(* The first event of a buffer, as Extract cuts it off. *)
LEMMA FirstEventIsRead ==
  ASSUME NEW b \in Seq(Tokens), FindEventEnd(b) # 0
  PROVE  LET event == SubSeq(b, 1, FindEventEnd(b) + 1)
         IN  ReadAll(event) =
               [events |-> IF Contains(event, "not UTF-8") THEN <<>> ELSE <<event>>,
                buffer |-> <<>>]
<1> DEFINE idx == FindEventEnd(b)
           event == SubSeq(b, 1, idx + 1)
           most == SubSeq(b, 1, idx)
<1>1. /\ idx \in 1 .. Len(b) - 1 /\ EndsAt(b, idx)
      /\ \A i \in 1 .. idx - 1 : ~EndsAt(b, i)
  BY EventEndIsFirst
<1> HIDE DEF idx
<1>2. /\ most \in Seq(Tokens) /\ Len(most) = idx
      /\ \A i \in 1 .. idx : most[i] = b[i]
      /\ event = Append(most, "LF") /\ "LF" \in Tokens
  <2>1. /\ most \in Seq(Tokens) /\ Len(most) = idx
        /\ \A i \in 1 .. idx : most[i] = b[i]
    BY <1>1
  <2>2. "LF" = b[idx + 1] /\ b[idx + 1] \in Tokens
    BY <1>1 DEF EndsAt
  <2>3. event = Append(most, b[idx + 1])
    BY <1>1
  <2> QED
    BY <2>1, <2>2, <2>3
<1> HIDE DEF most, event
<1>3. ReadAll(most) = [events |-> <<>>, buffer |-> most]
  <2>1. \A i \in 1 .. Len(most) - 1 : ~EndsAt(most, i)
    BY <1>1, <1>2 DEF EndsAt
  <2> QED
    BY <1>2, <2>1, NoEventIsRead
<1>4. most # <<>> /\ Last(most) = "LF"
  BY <1>1, <1>2 DEF EndsAt, Last
<1>5. ReadAll(event) = Read([events |-> <<>>, buffer |-> most], "LF")
  BY <1>2, <1>3, ReadAllAppend
<1>6. Append(<<>>, event) = <<event>>
  OBVIOUS
<1> QED
  BY <1>2, <1>4, <1>5, <1>6 DEF Read, event, idx

(* The body of Extract's recursive definition. *)
Split(extract, b) ==
  IF FindEventEnd(b) = 0 THEN [events |-> <<>>, buffer |-> b]
  ELSE [extract[SubSeq(b, FindEventEnd(b) + 2, Len(b))] EXCEPT !.events =
          IF Contains(SubSeq(b, 1, FindEventEnd(b) + 1), "not UTF-8") THEN @
          ELSE <<SubSeq(b, 1, FindEventEnd(b) + 1)>> \o @]

LEMMA WithEvents ==
  ASSUME NEW state \in Parsed, NEW events
  PROVE  [state EXCEPT !.events = events] = [events |-> events, buffer |-> state.buffer]
BY DEF Parsed

(* Reading a token at a time satisfies the equation of Extract ... *)
LEMMA ReadingSplits ==
  ASSUME NEW b \in Seq(Tokens)
  PROVE  ReadAll(b) = Split([s \in Seq(Tokens) |-> ReadAll(s)], b)
<1> DEFINE idx == FindEventEnd(b)
           event == SubSeq(b, 1, idx + 1)
           rest == SubSeq(b, idx + 2, Len(b))
<1>1. CASE idx = 0
  <2>1. \A i \in 1 .. Len(b) - 1 : ~EndsAt(b, i)
    BY <1>1, EventEndIsFirst
  <2> QED
    BY <1>1, <2>1, NoEventIsRead DEF Split
<1>2. CASE idx # 0
  <2>1. idx \in 1 .. Len(b) - 1
    BY <1>2, EventEndIsFirst
  <2>2. ReadAll(event) =
          [events |-> IF Contains(event, "not UTF-8") THEN <<>> ELSE <<event>>,
           buffer |-> <<>>]
    BY <1>2, FirstEventIsRead
  <2> HIDE DEF idx
  <2>3. /\ event \in Seq(Tokens) /\ rest \in Seq(Tokens)
        /\ b = event \o rest
        /\ <<>> \o rest = rest
    <3>1. /\ 1 \in 1 .. Len(b) + 1 /\ idx + 1 \in 1 - 1 .. Len(b)
          /\ Len(b) \in idx + 1 .. Len(b) /\ (idx + 1) + 1 = idx + 2
      BY <2>1
    <3>2. SubSeq(b, 1, Len(b)) = b
      BY SubSeqFull
    <3>3. event \o rest = b
      BY <3>1, <3>2, ConcatAdjacentSubSeq
    <3>4. event \in Seq(Tokens) /\ rest \in Seq(Tokens)
      BY <2>1
    <3> HIDE DEF event, rest
    <3> QED
      BY <3>3, <3>4, ConcatEmptySeq
  <2> HIDE DEF event, rest
  <2> DEFINE bad == Contains(event, "not UTF-8")
             first == IF bad THEN <<>> ELSE <<event>>
  <2>4. ReadAll(event) = [events |-> first, buffer |-> <<>>]
    BY <2>2
  <2> HIDE DEF bad, first
  <2>5. ReadAll(event).events = first /\ ReadAll(event).buffer = <<>>
    BY <2>4
  <2>6. ReadAll(b) = [events |-> ReadAll(event).events \o ReadAll(rest).events,
                      buffer |-> ReadAll(rest).buffer]
    <3>1. ReadAll(event).buffer \o rest = rest
      BY <2>3, <2>5
    <3> QED
      BY <2>3, <3>1, ReadOn
  <2>7. ReadAll(rest) \in Parsed
    BY <2>3, ReadAllType
  <2>8. ReadAll(rest).events \in Seq(Seq(Tokens))
    BY <2>7 DEF Parsed
  <2>9. <<>> \o ReadAll(rest).events = ReadAll(rest).events
    BY <2>8
  <2>10. ReadAll(b) = [ReadAll(rest) EXCEPT !.events =
                        IF Contains(event, "not UTF-8") THEN @ ELSE <<event>> \o @]
    <3>1. ReadAll(b) = [events |-> first \o ReadAll(rest).events,
                        buffer |-> ReadAll(rest).buffer]
      BY <2>6, <2>5
    <3>2. CASE bad
      <4>1. ReadAll(b) = [events |-> ReadAll(rest).events, buffer |-> ReadAll(rest).buffer]
        BY <2>9, <3>1, <3>2 DEF first
      <4> QED
        BY <2>7, <3>2, <4>1 DEF Parsed, bad
    <3>3. CASE ~bad
      <4>1. ReadAll(b) = [events |-> <<event>> \o ReadAll(rest).events,
                          buffer |-> ReadAll(rest).buffer]
        BY <3>1, <3>3 DEF first
      <4>2. ReadAll(b) = [ReadAll(rest) EXCEPT !.events = <<event>> \o @]
        BY <2>7, <4>1, WithEvents
      <4> QED
        BY <3>3, <4>2 DEF bad
    <3> QED
      BY <3>2, <3>3
  <2>11. [s \in Seq(Tokens) |-> ReadAll(s)][rest] = ReadAll(rest)
    BY <2>3
  <2> QED
    BY <1>2, <2>10, <2>11 DEF Split, event, rest, idx
<1> QED
  BY <1>1, <1>2

(* ... so that something does, and Extract does. *)
LEMMA ExtractSplits ==
  ASSUME NEW b \in Seq(Tokens)
  PROVE  Extract[b] = Split(Extract, b)
<1> DEFINE Rec(g) == [s \in Seq(Tokens) |-> Split(g, s)]
<1>1. \E g : g = Rec(g)
  <2>1. [s \in Seq(Tokens) |-> ReadAll(s)] = Rec([s \in Seq(Tokens) |-> ReadAll(s)])
    BY ReadingSplits
  <2> HIDE DEF Rec
  <2> QED
    BY <2>1
<1>2. Extract = CHOOSE g : g = Rec(g)
  BY DEF Extract, Split
<1>3. Extract = Rec(Extract)
  <2> HIDE DEF Rec
  <2> QED
    BY <1>1, <1>2, Zenon
<1> QED
  BY <1>3

(* Buffering chunks and splitting events off the buffer comes to the same  *)
(* as reading a token at a time, for every stream: the loop of push finds  *)
(* the events, all of them, and leaves what follows the last one.          *)
THEOREM SplittingIsReading == \A b \in Seq(Tokens) : Extract[b] = ReadAll(b)
<1> DEFINE N == {n \in Nat : \A b \in Seq(Tokens) : Len(b) = n => Extract[b] = ReadAll(b)}
           reading == [s \in Seq(Tokens) |-> ReadAll(s)]
<1>1. ASSUME NEW n \in Nat, \A m \in Nat : m < n => m \in N
      PROVE  n \in N
  <2> SUFFICES ASSUME NEW b \in Seq(Tokens), Len(b) = n
               PROVE  Extract[b] = ReadAll(b)
    OBVIOUS
  <2>1. Extract[b] = Split(Extract, b) /\ ReadAll(b) = Split(reading, b)
    BY ExtractSplits, ReadingSplits
  <2>2. CASE FindEventEnd(b) = 0
    BY <2>1, <2>2 DEF Split
  <2>3. CASE FindEventEnd(b) # 0
    <3> DEFINE rest == SubSeq(b, FindEventEnd(b) + 2, Len(b))
    <3>1. FindEventEnd(b) \in 1 .. Len(b) - 1
      BY <2>3, EventEndIsFirst
    <3>2. rest \in Seq(Tokens) /\ Len(rest) \in Nat /\ Len(rest) < n
      BY <3>1
    <3>3. Extract[rest] = reading[rest]
      BY <1>1, <3>2
    <3> HIDE DEF reading
    <3> QED
      BY <2>1, <2>3, <3>3 DEF Split
  <2> QED
    BY <2>2, <2>3
<1>2. \A n \in Nat : n \in N
  <2> HIDE DEF N
  <2> QED
    BY <1>1, StrongInduction
<1> QED
  BY <1>2

(* A push is a continuation: events come out that reading on would give.   *)
LEMMA PushReadsOn ==
  ASSUME NEW s \in Seq(Tokens), NEW chunk \in Seq(Tokens)
  PROVE  LET parsed == Push(ReadAll(s).buffer, chunk)
         IN  /\ parsed \in Parsed
             /\ ReadAll(s \o chunk) =
                  [events |-> ReadAll(s).events \o parsed.events, buffer |-> parsed.buffer]
<1>1. ReadAll(s).buffer \in Seq(Tokens)
  BY ReadAllType DEF Parsed
<1>2. ReadAll(s).buffer \o chunk \in Seq(Tokens)
  BY <1>1, ConcatProperties
<1>3. Push(ReadAll(s).buffer, chunk) = ReadAll(ReadAll(s).buffer \o chunk)
  BY <1>2, SplittingIsReading DEF Push
<1> QED
  BY <1>2, <1>3, ReadAllType, ReadOn

----------------------------------------------------------------------------
(* What the events say, in one piece and in two. *)

LEMMA FirstUsageIsFirst ==
  ASSUME NEW T, NEW events \in Seq(T)
  PROVE  \/ /\ FirstUsage(events) = NoUsage
            /\ \A i \in 1 .. Len(events) : ExtractUsage(events[i]) = NoUsage
         \/ \E i \in 1 .. Len(events) :
              /\ FirstUsage(events) = ExtractUsage(events[i])
              /\ ExtractUsage(events[i]) # NoUsage
              /\ \A j \in 1 .. i - 1 : ExtractUsage(events[j]) = NoUsage
<1> DEFINE I == {i \in 1 .. Len(events) : ExtractUsage(events[i]) # NoUsage}
           first == IF I # {} THEN Min(I) ELSE 0
<1>1. Len(events) \in Nat /\ I \in SUBSET Nat
  OBVIOUS
<1>2. FirstUsage(events) = IF first = 0 THEN NoUsage ELSE ExtractUsage(events[first])
  BY DEF FirstUsage, SelectInSeq
<1>3. CASE I = {}
  BY <1>2, <1>3
<1>4. CASE I # {}
  <2>1. first \in I /\ \A i \in I : first <= i
    <3> HIDE DEF I
    <3> QED
      BY <1>1, <1>4, MinIsLeast
  <2>2. first \in 1 .. Len(events) /\ ExtractUsage(events[first]) # NoUsage
    BY <2>1
  <2>3. \A j \in 1 .. first - 1 : j \in 1 .. Len(events) /\ j \notin I
    <3> HIDE DEF first, I
    <3> QED
      BY <1>1, <2>1, <2>2
  <2>4. \A j \in 1 .. first - 1 : ExtractUsage(events[j]) = NoUsage
    BY <2>3
  <2> HIDE DEF first
  <2> QED
    BY <1>2, <2>2, <2>4
<1> QED
  BY <1>3, <1>4

(* No two events are the first to report a usage. *)
LEMMA SameFirst ==
  ASSUME NEW g, NEW n \in Nat, NEW k \in 1 .. n, NEW m \in 1 .. n,
         ExtractUsage(g[k]) # NoUsage, ExtractUsage(g[m]) # NoUsage,
         \A j \in 1 .. k - 1 : ExtractUsage(g[j]) = NoUsage,
         \A j \in 1 .. m - 1 : ExtractUsage(g[j]) = NoUsage
  PROVE  k = m
<1>1. ~(k < m)
  BY ONLY k \in 1 .. n, m \in 1 .. n, ExtractUsage(g[k]) # NoUsage,
          \A j \in 1 .. m - 1 : ExtractUsage(g[j]) = NoUsage
<1>2. ~(m < k)
  BY ONLY k \in 1 .. n, m \in 1 .. n, ExtractUsage(g[m]) # NoUsage,
          \A j \in 1 .. k - 1 : ExtractUsage(g[j]) = NoUsage
<1> QED
  BY <1>1, <1>2

LEMMA FirstUsageOfConcat ==
  ASSUME NEW T, NEW e \in Seq(T), NEW f \in Seq(T)
  PROVE  FirstUsage(e \o f) =
           IF FirstUsage(e) # NoUsage THEN FirstUsage(e) ELSE FirstUsage(f)
<1> DEFINE g == e \o f
<1>1. /\ g \in Seq(T) /\ Len(g) = Len(e) + Len(f)
      /\ Len(e) \in Nat /\ Len(f) \in Nat
      /\ \A i \in 1 .. Len(e) : g[i] = e[i]
      /\ \A i \in 1 .. Len(f) : g[Len(e) + i] = f[i]
  OBVIOUS
<1> HIDE DEF g
<1>2. CASE FirstUsage(e) # NoUsage
  <2>1. PICK i \in 1 .. Len(e) : /\ FirstUsage(e) = ExtractUsage(e[i])
                                 /\ ExtractUsage(e[i]) # NoUsage
                                 /\ \A j \in 1 .. i - 1 : ExtractUsage(e[j]) = NoUsage
    BY <1>2, FirstUsageIsFirst
  <2>2. /\ i \in 1 .. Len(g) /\ ExtractUsage(g[i]) # NoUsage
        /\ g[i] = e[i]
        /\ \A j \in 1 .. i - 1 : ExtractUsage(g[j]) = NoUsage
    BY <1>1, <2>1
  <2>3. PICK k \in 1 .. Len(g) : /\ FirstUsage(g) = ExtractUsage(g[k])
                                 /\ ExtractUsage(g[k]) # NoUsage
                                 /\ \A j \in 1 .. k - 1 : ExtractUsage(g[j]) = NoUsage
    BY <1>1, <2>2, FirstUsageIsFirst
  <2>4. k = i
    BY <2>2, <2>3, SameFirst
  <2> QED
    BY <1>2, <2>1, <2>2, <2>3, <2>4 DEF g
<1>3. CASE FirstUsage(e) = NoUsage /\ FirstUsage(f) # NoUsage
  <2>1. \A i \in 1 .. Len(e) : ExtractUsage(e[i]) = NoUsage
    BY <1>3, FirstUsageIsFirst
  <2>2. PICK i \in 1 .. Len(f) : /\ FirstUsage(f) = ExtractUsage(f[i])
                                 /\ ExtractUsage(f[i]) # NoUsage
                                 /\ \A j \in 1 .. i - 1 : ExtractUsage(f[j]) = NoUsage
    BY <1>3, FirstUsageIsFirst
  <2>3. /\ Len(e) + i \in 1 .. Len(g) /\ g[Len(e) + i] = f[i]
        /\ ExtractUsage(g[Len(e) + i]) # NoUsage
    BY <1>1, <2>2
  <2>4. ASSUME NEW j \in 1 .. Len(e) + i - 1 PROVE ExtractUsage(g[j]) = NoUsage
    <3>1. CASE j <= Len(e)
      BY <1>1, <2>1, <3>1
    <3>2. CASE ~(j <= Len(e))
      <4>1. j - Len(e) \in 1 .. i - 1 /\ j - Len(e) \in 1 .. Len(f)
            /\ Len(e) + (j - Len(e)) = j
        BY <1>1, <3>2
      <4> QED
        BY <1>1, <2>2, <4>1
    <3> QED
      BY <3>1, <3>2
  <2>5. PICK k \in 1 .. Len(g) : /\ FirstUsage(g) = ExtractUsage(g[k])
                                 /\ ExtractUsage(g[k]) # NoUsage
                                 /\ \A j \in 1 .. k - 1 : ExtractUsage(g[j]) = NoUsage
    BY <1>1, <2>3, FirstUsageIsFirst
  <2>6. k = Len(e) + i
    BY <2>3, <2>4, <2>5, SameFirst
  <2> QED
    BY <1>3, <2>2, <2>3, <2>5, <2>6 DEF g
<1>4. CASE FirstUsage(e) = NoUsage /\ FirstUsage(f) = NoUsage
  <2>1. /\ \A i \in 1 .. Len(e) : ExtractUsage(e[i]) = NoUsage
        /\ \A i \in 1 .. Len(f) : ExtractUsage(f[i]) = NoUsage
    BY <1>4, FirstUsageIsFirst
  <2>2. ASSUME NEW i \in 1 .. Len(g) PROVE ExtractUsage(g[i]) = NoUsage
    <3>1. CASE i <= Len(e)
      BY <1>1, <2>1, <3>1
    <3>2. CASE ~(i <= Len(e))
      <4>1. i - Len(e) \in 1 .. Len(f) /\ Len(e) + (i - Len(e)) = i
        BY <1>1, <3>2
      <4> QED
        BY <1>1, <2>1, <4>1
    <3> QED
      BY <3>1, <3>2
  <2> QED
    BY <1>1, <1>4, <2>2, FirstUsageIsFirst DEF g
<1> QED
  BY <1>2, <1>3, <1>4

HasContent(events) == \E i \in DOMAIN events : IsContentEvent(events[i])

LEMMA ContentOfConcat ==
  ASSUME NEW T, NEW e \in Seq(T), NEW f \in Seq(T), NEW g, g = e \o f
  PROVE  HasContent(g) <=> HasContent(e) \/ HasContent(f)
<1>1. /\ Len(g) = Len(e) + Len(f) /\ Len(e) \in Nat /\ Len(f) \in Nat
      /\ DOMAIN g = 1 .. Len(g) /\ DOMAIN e = 1 .. Len(e) /\ DOMAIN f = 1 .. Len(f)
      /\ \A i \in 1 .. Len(e) : g[i] = e[i]
      /\ \A i \in 1 .. Len(f) : g[Len(e) + i] = f[i]
  OBVIOUS
<1>2. ASSUME NEW i \in DOMAIN e, IsContentEvent(e[i])
      PROVE  i \in DOMAIN g /\ IsContentEvent(g[i])
  BY <1>1, <1>2
<1>3. ASSUME NEW i \in DOMAIN f, IsContentEvent(f[i])
      PROVE  Len(e) + i \in DOMAIN g /\ IsContentEvent(g[Len(e) + i])
  BY <1>1, <1>3
<1>4. ASSUME NEW i \in DOMAIN g, IsContentEvent(g[i])
      PROVE  \/ \E j \in DOMAIN e : IsContentEvent(e[j])
             \/ \E j \in DOMAIN f : IsContentEvent(f[j])
  <2>1. CASE i <= Len(e)
    BY <1>1, <1>4, <2>1
  <2>2. CASE ~(i <= Len(e))
    <3>1. i - Len(e) \in DOMAIN f /\ Len(e) + (i - Len(e)) = i
      BY <1>1, <2>2
    <3> QED
      BY <1>1, <1>4, <3>1
  <2> QED
    BY <2>1, <2>2
<1> QED
  BY <1>2, <1>3, <1>4 DEF HasContent

----------------------------------------------------------------------------
(* The invariant: a refund is the end of the stream, so nothing is parsed  *)
(* after it.                                                               *)
CutsInv == TypeOK /\ CutsDoNotMatter /\ (account = Refunded => pc = "done")

LEMMA CutsInit == Init => CutsInv
<1> SUFFICES ASSUME Init PROVE CutsInv
  OBVIOUS
<1>1. TypeOK
  BY TypeInit
<1>2. SubSeq(source, 1, 0) = <<>>
  OBVIOUS
<1>3. FirstUsage(<<>>) = NoUsage
  BY DEF FirstUsage, SelectInSeq
<1>4. /\ received = 0 /\ buffer = <<>> /\ ttft = FALSE /\ account = Held
      /\ pc = "waiting"
  BY DEF Init
<1>5. ReadAll(SubSeq(source, 1, received)) = [events |-> <<>>, buffer |-> <<>>]
  BY <1>2, <1>4, ReadAllEmpty DEF Unread
<1>6. DOMAIN <<>> = {}
  OBVIOUS
<1>7. CutsDoNotMatter
  BY <1>3, <1>4, <1>5, <1>6 DEF CutsDoNotMatter
<1> QED
  BY <1>1, <1>4, <1>7 DEF CutsInv

(* A chunk goes on from where the last one ended. *)
LEMMA ReceiveKeepsCuts ==
  ASSUME CutsInv, NEW n \in 1 .. Len(source) - received, Receive(n)
  PROVE  CutsDoNotMatter' /\ account' # Refunded
<1> DEFINE seen == SubSeq(source, 1, received)
           chunk == SubSeq(source, received + 1, received + n)
           all == ReadAll(seen)
           parsed == Push(buffer, chunk)
<1>1. /\ source \in Seq(Tokens) /\ received \in 0 .. Len(source)
      /\ Len(source) \in Nat
  BY StreamAssumption DEF CutsInv, TypeOK
<1>2. seen \in Seq(Tokens) /\ chunk \in Seq(Tokens)
  BY <1>1
<1>3. SubSeq(source, 1, received + n) = seen \o chunk
  <2>1. /\ 1 \in 1 .. Len(source) + 1 /\ received \in 1 - 1 .. Len(source)
        /\ received + n \in received .. Len(source)
    BY <1>1
  <2> QED
    BY <1>1, <2>1, ConcatAdjacentSubSeq
<1>4. /\ received' = received + n /\ source' = source /\ buffer' = parsed.buffer
      /\ ttft' = (ttft \/ \E i \in DOMAIN parsed.events : IsContentEvent(parsed.events[i]))
      /\ account' = Charge(parsed.events)
      /\ pc = "waiting"
  BY DEF Receive
<1>5. /\ buffer = all.buffer
      /\ ttft <=> \E i \in DOMAIN all.events : IsContentEvent(all.events[i])
      /\ FirstUsage(all.events) = IF account \in {Held, Refunded} THEN NoUsage ELSE account
      /\ account # Refunded
  BY <1>4 DEF CutsInv, CutsDoNotMatter
<1> HIDE DEF seen, chunk
<1>6. /\ parsed \in Parsed /\ all \in Parsed
      /\ ReadAll(seen \o chunk) =
           [events |-> all.events \o parsed.events, buffer |-> parsed.buffer]
  BY <1>2, <1>5, PushReadsOn, ReadAllType
<1>7. all.events \in Seq(Seq(Tokens)) /\ parsed.events \in Seq(Seq(Tokens))
  BY <1>6 DEF Parsed
<1> DEFINE joined == all.events \o parsed.events
           next == ReadAll(SubSeq(source', 1, received'))
<1>8. next.events = joined /\ next.buffer = parsed.buffer
  <2>1. next = ReadAll(seen \o chunk)
    BY <1>3, <1>4
  <2>2. ReadAll(seen \o chunk) = [events |-> joined, buffer |-> parsed.buffer]
    BY <1>6
  <2> HIDE DEF next, all, parsed, joined
  <2> QED
    BY <2>1, <2>2
<1>9. joined = all.events \o parsed.events
  OBVIOUS
<1> HIDE DEF all, parsed, next, joined
<1>10. buffer' = next.buffer
  BY <1>4, <1>8
<1>11. ttft' <=> HasContent(next.events)
  <2>1. HasContent(next.events) <=> HasContent(all.events) \/ HasContent(parsed.events)
    BY <1>7, <1>8, <1>9, ContentOfConcat
  <2> QED
    BY <1>4, <1>5, <2>1 DEF HasContent
<1>12. /\ FirstUsage(next.events) =
            IF account' \in {Held, Refunded} THEN NoUsage ELSE account'
       /\ account' # Refunded
  <2>1. FirstUsage(next.events) =
          IF FirstUsage(all.events) # NoUsage THEN FirstUsage(all.events)
          ELSE FirstUsage(parsed.events)
    BY <1>7, <1>8, <1>9, FirstUsageOfConcat
  <2>2. FirstUsage(parsed.events) \in {NoUsage, 0, UsageTokens} /\ UsageTokens \in Nat
    BY ExtractUsageType, UsageAssumption DEF FirstUsage
  <2>3. CASE account = Held
    BY <1>4, <1>5, <2>1, <2>2, <2>3 DEF Charge
  <2>4. CASE account # Held
    <3>1. account \in {0, UsageTokens}
      BY <1>5, <2>4 DEF CutsInv, TypeOK
    <3> QED
      BY <1>4, <1>5, <2>1, <2>2, <2>4, <3>1 DEF Charge
  <2> QED
    BY <2>3, <2>4
<1> QED
  BY <1>10, <1>11, <1>12 DEF CutsDoNotMatter, next, HasContent

LEMMA CutsStep == CutsInv /\ [Next]_vars => CutsInv'
<1> SUFFICES ASSUME CutsInv, [Next]_vars PROVE CutsInv'
  OBVIOUS
<1>1. TypeOK'
  BY TypeStep DEF CutsInv
<1>2. ASSUME NEW n \in 1 .. Len(source) - received, Receive(n)
      PROVE  CutsInv'
  BY <1>1, <1>2, ReceiveKeepsCuts DEF CutsInv
<1>3. CASE Resume \/ Breaks \/ IdleTimesOut \/ TotalTimesOut \/ Tick \/ UNCHANGED vars
  <2>1. /\ UNCHANGED <<source, received, buffer, ttft, account>>
        /\ pc = "done" => pc' = "done"
    BY <1>3 DEF Resume, Breaks, IdleTimesOut, TotalTimesOut, Fail, Tick, vars
  <2>2. account' = Refunded => pc' = "done"
    BY <2>1 DEF CutsInv
  <2> QED
    BY <1>1, <2>1, <2>2 DEF CutsInv, CutsDoNotMatter
<1>4. CASE Over
  <2>1. UNCHANGED <<source, received, buffer, ttft>>
    BY <1>4 DEF Over
  <2>2. /\ pc' = "done"
        /\ account' \in {Held, Refunded} <=> account \in {Held, Refunded}
        /\ account \notin {Held, Refunded} => account' = account
    BY <1>4 DEF Over
  <2> QED
    BY <1>1, <2>1, <2>2 DEF CutsInv, CutsDoNotMatter
<1> QED
  BY <1>2, <1>3, <1>4 DEF Next, Ends, Closes, ClientLeaves

(* For every stream a provider may send and every way the network may cut  *)
(* it: the parser has handed on exactly the events received, keeps what    *)
(* follows them, and charge and time to the first token are what those     *)
(* events say.                                                             *)
THEOREM CutsAreInvisible == Spec => []CutsDoNotMatter
<1>1. CutsInv => CutsDoNotMatter
  BY DEF CutsInv
<1> QED
  BY <1>1, CutsInit, CutsStep, PTL DEF Spec
=============================================================================

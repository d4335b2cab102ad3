------------------------ MODULE SemanticCacheProofs ------------------------
(***************************************************************************)
(* The semantic cache for any callers, requests, capacity and lifetime: it *)
(* is well-typed, within its capacity, evicts what is oldest and answers   *)
(* with what is closest.                                                   *)
(***************************************************************************)
EXTENDS SemanticCache, Induction

(* The vector is in the order of creation, none of it in the future. *)
InOrder ==
  /\ \A i, j \in 1 .. Len(entries) :
       i <= j => entries[i].created_at <= entries[j].created_at
  /\ \A i \in 1 .. Len(entries) : entries[i].created_at <= clock

(* All of TypeOK that the order of the vector needs. *)
Vector ==
  /\ entries \in Seq(Entries)
  /\ Len(entries) <= MaxEntries
  /\ clock \in 0 .. MaxTime

Calls ==
  call \in [Callers -> {NoCall} \cup Embedding \cup LookingUp \cup Inserting]

Answers == answer \in [Callers -> SUBSET Entries]

----------------------------------------------------------------------------
(* What a call that wants the lock for an insertion will store. *)
LEMMA CallTypes ==
  ASSUME Calls, NEW c \in Callers
  PROVE  /\ call[c].pc = "embedding"  => call[c] \in Embedding
         /\ call[c].pc = "looking up" => call[c] \in LookingUp
         /\ call[c].pc = "inserting"  => call[c] \in Inserting
<1>1. call[c] \in {NoCall} \cup Embedding \cup LookingUp \cup Inserting
  BY DEF Calls
<1>2. CASE call[c] = NoCall
  <2>1. call[c].pc = "none"
    BY <1>2 DEF NoCall
  <2> QED
    BY <2>1
<1>3. CASE call[c] \in Embedding
  <2>1. call[c].pc = "embedding"
    BY <1>3 DEF Embedding
  <2> QED
    BY <1>3, <2>1
<1>4. CASE call[c] \in LookingUp
  <2>1. call[c].pc = "looking up"
    BY <1>4 DEF LookingUp
  <2> QED
    BY <1>4, <2>1
<1>5. CASE call[c] \in Inserting
  <2>1. call[c].pc = "inserting"
    BY <1>5 DEF Inserting
  <2> QED
    BY <1>5, <2>1
<1> QED
  BY <1>1, <1>2, <1>3, <1>4, <1>5

----------------------------------------------------------------------------
(* One turn of the scan, which BestMatch folds over the vector. *)
Consider(query, best, entry) ==
  IF /\ IsCandidate(entry, query)
     /\ \A b \in best :
          SimilarityTo(query.request, entry) > SimilarityTo(query.request, b)
    THEN {entry}
    ELSE best

(* BestMatch is where the turns lead, from no match before the first. *)
LEMMA ScanTurns ==
  ASSUME entries \in Seq(Entries), NEW query
  PROVE  \E scan : /\ scan[0] = {}
                   /\ \A k \in 0 .. Len(entries) - 1 :
                        scan[k + 1] = Consider(query, scan[k], entries[k + 1])
                   /\ BestMatch(query) = scan[Len(entries)]
<1> DEFINE n == Len(entries)
           T == SUBSET Entries
           F == [p \in T \X (1 .. n) |-> Consider(query, p[1], entries[p[2]])]
           Rec(g) == [s \in SUBSET DOMAIN entries |->
                        IF s = {} THEN {}
                        ELSE Consider(query, g[s \ {Max(s)}], entries[Max(s)])]
           it == CHOOSE g : g = Rec(g)
<1>1. n \in Nat /\ DOMAIN entries = 1 .. n
  OBVIOUS
<1>2. F \in [T \X (1 .. n) -> T]
  <2>1. \A best \in T, i \in 1 .. n : Consider(query, best, entries[i]) \in T
    BY DEF Consider
  <2> QED
    BY <2>1
<1>3. PICK g \in [SUBSET (1 .. n) -> T] : IsFold(g, F, {}, n)
  <2> HIDE DEF T, F, n
  <2>1. {} \in T
    BY DEF T
  <2> QED
    BY <1>1, <1>2, <2>1, FoldsExist
<1>4. g = Rec(g)
  <2>1. ASSUME NEW s \in SUBSET (1 .. n)
        PROVE  g[s] = IF s = {} THEN {}
                      ELSE Consider(query, g[s \ {Max(s)}], entries[Max(s)])
    <3>1. CASE s = {}
      BY <1>3, <3>1 DEF IsFold
    <3>2. CASE s # {}
      <4>1. Max(s) \in 1 .. n /\ g[s \ {Max(s)}] \in T
        BY <1>1, <3>2, MaxOfPart
      <4>2. g[s] = F[<<g[s \ {Max(s)}], Max(s)>>]
        BY <1>3, <3>2 DEF IsFold
      <4> QED
        BY <3>2, <4>1, <4>2
    <3> QED
      BY <3>1, <3>2
  <2> QED
    BY <1>1, <2>1
<1>5. it = Rec(it)
  <2> HIDE DEF Rec
  <2> QED
    BY <1>4, Zenon
<1>6. BestMatch(query) = it[1 .. n]
  BY <1>1 DEF BestMatch, FoldLeft, MapThenFoldSet, Consider
<1> HIDE DEF it, n
<1>7. \A s \in SUBSET (1 .. n) :
         it[s] = IF s = {} THEN {}
                 ELSE Consider(query, it[s \ {Max(s)}], entries[Max(s)])
  BY <1>1, <1>5
<1> DEFINE scan == [k \in 0 .. n |-> it[1 .. k]]
<1>8. scan[0] = {}
  <2>1. 0 \in 0 .. n /\ 1 .. 0 = {} /\ {} \in SUBSET (1 .. n)
    BY <1>1, Initial
  <2>2. it[{}] = {}
    BY <1>7, <2>1
  <2> QED
    BY <2>1, <2>2
<1>9. ASSUME NEW k \in 0 .. n - 1
      PROVE  scan[k + 1] = Consider(query, scan[k], entries[k + 1])
  <2>1. /\ k \in Nat /\ k + 1 \in 0 .. n /\ k \in 0 .. n
        /\ 1 .. k + 1 \in SUBSET (1 .. n)
    BY <1>1
  <2>2. /\ 1 .. k + 1 # {} /\ Max(1 .. k + 1) = k + 1
        /\ (1 .. k + 1) \ {k + 1} = 1 .. k
    BY <2>1, Initial
  <2>3. it[1 .. k + 1] = Consider(query, it[1 .. k], entries[k + 1])
    BY <1>7, <2>1, <2>2
  <2> QED
    BY <2>1, <2>3
<1>10. BestMatch(query) = scan[n]
  BY <1>1, <1>6
<1> HIDE DEF scan
<1> QED
  BY <1>8, <1>9, <1>10 DEF n

(* What a lookup that scans a part of the vector has to find. *)
IsHit(query, e) ==
  /\ e.request[2] = query.request[2]
  /\ e.created_at + Ttl >= query.now
  /\ SimilarityTo(query.request, e) >= Threshold

Hits(query, k) == {e \in {entries[i] : i \in 1 .. k} : IsHit(query, e)}

Finds(query, k, found) ==
  IF Hits(query, k) = {} THEN found = {}
  ELSE \E best \in Hits(query, k) :
         /\ found = {best}
         /\ \A e \in Hits(query, k) :
              SimilarityTo(query.request, e) <= SimilarityTo(query.request, best)

(* A turn keeps the best of the hits so far. *)
LEMMA ConsiderKeepsBest ==
  ASSUME entries \in Seq(Entries), NEW query, query.now \in 0 .. MaxTime,
         query.request \in Requests,
         NEW k \in 0 .. Len(entries) - 1, NEW found, Finds(query, k, found)
  PROVE  Finds(query, k + 1, Consider(query, found, entries[k + 1]))
<1> DEFINE entry == entries[k + 1]
           old == Hits(query, k)
           new == Hits(query, k + 1)
           Sim(e) == SimilarityTo(query.request, e)
<1>1. /\ k \in Nat /\ k + 1 \in 1 .. Len(entries)
      /\ \A i \in 1 .. k + 1 : entries[i] \in Entries
      /\ 1 .. k + 1 = (1 .. k) \cup {k + 1}
  OBVIOUS
<1>2. \A i \in 1 .. k + 1 : Sim(entries[i]) \in Int
  BY <1>1, SemanticAssumption DEF Entries, SimilarityTo
<1>3. IsCandidate(entry, query) <=> IsHit(query, entry)
  <2>1. entry.created_at \in 0 .. MaxTime /\ Ttl \in Nat
    BY <1>1, SemanticAssumption DEF Entries
  <2> QED
    BY <2>1, SemanticAssumption DEF IsCandidate, IsHit
<1>4. new = IF IsHit(query, entry) THEN old \cup {entry} ELSE old
  BY <1>1 DEF Hits
<1>5. \A e \in old \cup {entry} : Sim(e) \in Int
  BY <1>1, <1>2 DEF Hits
<1> HIDE DEF entry, old, new, Sim
<1>6. CASE ~IsHit(query, entry)
  <2>1. Consider(query, found, entry) = found /\ new = old
    BY <1>3, <1>4, <1>6 DEF Consider
  <2> QED
    BY <2>1 DEF Finds, entry, old, new
<1>7. CASE IsHit(query, entry) /\ old = {}
  <2>1. Consider(query, found, entry) = {entry} /\ new = {entry}
    BY <1>3, <1>4, <1>7 DEF Consider, Finds, old
  <2>2. \A e \in new : Sim(e) <= Sim(entry)
    BY <1>5, <2>1
  <2> QED
    BY <2>1, <2>2 DEF Finds, entry, new, Sim
<1>8. CASE IsHit(query, entry) /\ old # {}
  <2>1. PICK best \in old : found = {best} /\ \A e \in old : Sim(e) <= Sim(best)
    BY <1>8 DEF Finds, old, Sim
  <2>2. new = old \cup {entry}
    BY <1>4, <1>8
  <2>3. CASE Sim(entry) > Sim(best)
    <3>1. Consider(query, found, entry) = {entry}
      BY <1>3, <1>8, <2>1, <2>3 DEF Consider, Sim
    <3>2. \A e \in new : Sim(e) <= Sim(entry)
      BY <1>5, <2>1, <2>2, <2>3
    <3> QED
      BY <2>2, <3>1, <3>2 DEF Finds, entry, new, Sim
  <2>4. CASE ~(Sim(entry) > Sim(best))
    <3>1. Consider(query, found, entry) = found
      BY <2>1, <2>4 DEF Consider, Sim
    <3>2. \A e \in new : Sim(e) <= Sim(best)
      BY <1>5, <2>1, <2>2, <2>4
    <3> QED
      BY <2>1, <2>2, <3>1, <3>2 DEF Finds, entry, new, Sim
  <2> QED
    BY <2>3, <2>4
<1> QED
  BY <1>6, <1>7, <1>8

(* The scan of the whole vector finds the best of all hits. *)
LEMMA ScanFindsBest ==
  ASSUME entries \in Seq(Entries), NEW query, query.now \in 0 .. MaxTime,
         query.request \in Requests
  PROVE  Finds(query, Len(entries), BestMatch(query))
<1>1. PICK scan :
        /\ scan[0] = {}
        /\ \A k \in 0 .. Len(entries) - 1 :
             scan[k + 1] = Consider(query, scan[k], entries[k + 1])
        /\ BestMatch(query) = scan[Len(entries)]
  BY ScanTurns
<1>2. Len(entries) \in Nat
  OBVIOUS
<1> DEFINE S == {k \in Nat : k <= Len(entries) => Finds(query, k, scan[k])}
<1>3. Finds(query, 0, scan[0])
  <2>1. Hits(query, 0) = {}
    BY DEF Hits
  <2> QED
    BY <1>1, <2>1 DEF Finds
<1>4. ASSUME NEW k \in Nat, k + 1 <= Len(entries), Finds(query, k, scan[k])
      PROVE  Finds(query, k + 1, scan[k + 1])
  <2>1. k \in 0 .. Len(entries) - 1
    BY <1>2, <1>4
  <2>2. Finds(query, k + 1, Consider(query, scan[k], entries[k + 1]))
    BY <1>4, <2>1, ConsiderKeepsBest
  <2> QED
    BY <1>1, <2>1, <2>2
<1>5. 0 \in S /\ \A k \in Nat : k \in S => k + 1 \in S
  BY <1>2, <1>3, <1>4
<1>6. Len(entries) \in S
  <2> HIDE DEF S
  <2> QED
    BY <1>2, <1>5, SimpleInduction
<1> QED
  BY <1>1, <1>6

(* Making room leaves a suffix of the vector, without its first entry only *)
(* if the vector was full.                                                 *)
LEMMA RoomIsSuffix ==
  ASSUME entries \in Seq(Entries), Len(entries) <= MaxEntries
  PROVE  /\ WithRoom \in Seq(Entries)
         /\ Len(WithRoom) < MaxEntries
         /\ \/ WithRoom = entries
            \/ /\ Len(entries) > 0
               /\ Len(WithRoom) = Len(entries) - 1
               /\ \A i \in 1 .. Len(WithRoom) : WithRoom[i] = entries[i + 1]
<1>1. MaxEntries \in Nat \ {0} /\ Len(entries) \in Nat
  BY SemanticAssumption
<1>2. CASE Len(entries) >= MaxEntries
  <2>1. entries # <<>> /\ WithRoom = Tail(entries) /\ Len(entries) > 0
    BY <1>1, <1>2 DEF WithRoom
  <2> QED
    BY <1>1, <2>1
<1>3. CASE ~(Len(entries) >= MaxEntries)
  BY <1>1, <1>3 DEF WithRoom
<1> QED
  BY <1>2, <1>3

----------------------------------------------------------------------------
IndInv == Vector /\ Calls /\ Answers /\ InOrder

LEMMA InvInit == Init => IndInv
<1> SUFFICES ASSUME Init PROVE IndInv
  OBVIOUS
<1>1. Vector
  BY SemanticAssumption DEF Init, Vector
<1>2. Calls
  BY DEF Init, Calls
<1>3. InOrder
  BY DEF Init, InOrder
<1>4. Answers
  BY DEF Init, Answers
<1> QED
  BY <1>1, <1>2, <1>3, <1>4 DEF IndInv

(* A step of a call changes what that call does and nothing else here. *)
LEMMA CallsStep ==
  ASSUME Vector, Calls, NEW c \in Callers, CallStep(c)
  PROVE  Calls'
<1> DEFINE States == {NoCall} \cup Embedding \cup LookingUp \cup Inserting
<1>1. ASSUME NEW s \in States, call' = [call EXCEPT ![c] = s]
      PROVE  Calls'
  BY <1>1 DEF Calls
<1>2. ASSUME NEW op \in {"lookup", "insert"}, NEW request \in Requests,
             Call(c, op, request)
      PROVE  Calls'
  <2>1. [pc |-> "embedding", op |-> op, request |-> request] \in States
    BY DEF Embedding
  <2> QED
    BY <1>1, <1>2, <2>1 DEF Call
<1>3. CASE EmbeddingFails(c) \/ Lookup(c) \/ Insert(c)
  BY <1>1, <1>3 DEF EmbeddingFails, Lookup, Insert
<1>4. CASE Embed(c)
  <2>1. call[c] \in Embedding
    BY <1>4, CallTypes DEF Embed
  <2>2. call[c].request \in Requests /\ clock \in 0 .. MaxTime
    BY <2>1 DEF Embedding, Vector
  <2>3. [pc |-> "looking up", request |-> call[c].request, now |-> clock] \in States
    BY <2>2 DEF LookingUp
  <2>4. [pc |-> "inserting", request |-> call[c].request] \in States
    BY <2>2 DEF Inserting
  <2> QED
    BY <1>1, <1>4, <2>3, <2>4 DEF Embed, Calls
<1> QED
  BY <1>2, <1>3, <1>4 DEF CallStep

(* A lookup answers with entries of the vector. *)
LEMMA AnswersStep ==
  ASSUME IndInv, NEW c \in Callers, CallStep(c)
  PROVE  Answers'
<1> USE DEF IndInv
<1>1. CASE Lookup(c)
  <2>1. call[c] \in LookingUp
    BY <1>1, CallTypes DEF Lookup
  <2>2. call[c].now \in 0 .. MaxTime /\ call[c].request \in Requests
    BY <2>1 DEF LookingUp
  <2>3. entries \in Seq(Entries)
    BY DEF Vector
  <2>4. Finds(call[c], Len(entries), BestMatch(call[c]))
    BY <2>2, <2>3, ScanFindsBest
  <2>5. Hits(call[c], Len(entries)) \subseteq Entries
    BY <2>3 DEF Hits
  <2>6. BestMatch(call[c]) \in SUBSET Entries
    BY <2>4, <2>5 DEF Finds
  <2> QED
    BY <1>1, <2>6 DEF Lookup, Answers
<1>2. CASE ~Lookup(c)
  BY <1>2 DEF CallStep, Call, EmbeddingFails, Embed, Insert, Answers
<1> QED
  BY <1>1, <1>2

(* A new entry is dated with the clock, which no entry is ahead of. *)
LEMMA InsertKeepsOrder ==
  ASSUME IndInv, NEW c \in Callers, Insert(c)
  PROVE  Vector' /\ InOrder'
<1> DEFINE new == [request |-> call[c].request, created_at |-> clock]
<1>1. new \in Entries
  <2>1. call[c] \in Inserting
    BY CallTypes DEF IndInv, Insert
  <2> QED
    BY <2>1 DEF Inserting, Entries, IndInv, Vector
<1>2. /\ entries \in Seq(Entries) /\ Len(entries) <= MaxEntries
      /\ clock \in 0 .. MaxTime /\ clock' = clock
  BY DEF IndInv, Vector, Insert
<1>3. /\ WithRoom \in Seq(Entries)
      /\ Len(WithRoom) < MaxEntries
      /\ Len(WithRoom) \in Nat
  BY <1>2, RoomIsSuffix
<1>4. entries' = Append(WithRoom, new)
  BY DEF Insert
<1>5. /\ entries' \in Seq(Entries)
      /\ Len(entries') = Len(WithRoom) + 1
      /\ \A i \in 1 .. Len(WithRoom) : entries'[i] = WithRoom[i]
      /\ entries'[Len(entries')] = new
  BY <1>1, <1>3, <1>4
<1>6. Vector'
  BY <1>2, <1>3, <1>5, SemanticAssumption DEF Vector
<1>7. /\ \A i, j \in 1 .. Len(WithRoom) :
            i <= j => WithRoom[i].created_at <= WithRoom[j].created_at
      /\ \A i \in 1 .. Len(WithRoom) : WithRoom[i].created_at <= clock
  <2>1. /\ \A i, j \in 1 .. Len(entries) :
             i <= j => entries[i].created_at <= entries[j].created_at
        /\ \A i \in 1 .. Len(entries) : entries[i].created_at <= clock
    BY DEF IndInv, InOrder
  <2>2. CASE WithRoom = entries
    BY <2>1, <2>2
  <2>3. CASE WithRoom # entries
    <3>1. /\ Len(WithRoom) = Len(entries) - 1
          /\ \A i \in 1 .. Len(WithRoom) : WithRoom[i] = entries[i + 1]
      BY <1>2, <2>3, RoomIsSuffix
    <3>2. \A i \in 1 .. Len(WithRoom) : i + 1 \in 1 .. Len(entries)
      BY <1>3, <3>1
    <3>3. \A i \in 1 .. Len(WithRoom) : WithRoom[i].created_at <= clock
      BY <2>1, <3>1, <3>2
    <3>4. ASSUME NEW i \in 1 .. Len(WithRoom), NEW j \in 1 .. Len(WithRoom), i <= j
          PROVE  WithRoom[i].created_at <= WithRoom[j].created_at
      <4>1. entries[i + 1].created_at <= entries[j + 1].created_at
        BY <1>3, <2>1, <3>2, <3>4
      <4> QED
        BY <3>1, <4>1
    <3> QED
      BY <3>3, <3>4
  <2> QED
    BY <2>2, <2>3
<1>8. new.created_at = clock
  OBVIOUS
<1>9. ASSUME NEW i \in 1 .. Len(entries') PROVE entries'[i].created_at <= clock
  <2>1. CASE i = Len(entries')
    BY <2>1, <1>2, <1>5, <1>8
  <2>2. CASE i # Len(entries')
    BY <2>2, <1>3, <1>5, <1>7
  <2> QED
    BY <2>1, <2>2
<1>10. ASSUME NEW i \in 1 .. Len(entries'), NEW j \in 1 .. Len(entries'), i <= j
       PROVE  entries'[i].created_at <= entries'[j].created_at
  <2>1. CASE j = Len(entries')
    BY <2>1, <1>5, <1>8, <1>9
  <2>2. CASE j # Len(entries')
    <3>1. i \in 1 .. Len(WithRoom) /\ j \in 1 .. Len(WithRoom)
      BY <2>2, <1>3, <1>5, <1>10
    <3> QED
      BY <3>1, <1>5, <1>7, <1>10
  <2> QED
    BY <2>1, <2>2
<1> QED
  BY <1>2, <1>6, <1>9, <1>10 DEF InOrder

LEMMA InvStep == IndInv /\ [Next]_vars => IndInv'
<1> SUFFICES ASSUME IndInv, [Next]_vars PROVE IndInv'
  OBVIOUS
<1>1. CASE Clear
  <2>1. Vector'
    BY <1>1, SemanticAssumption DEF IndInv, Vector, Clear
  <2>2. Calls' /\ Answers' /\ InOrder'
    BY <1>1 DEF IndInv, Calls, Answers, InOrder, Clear
  <2> QED
    BY <2>1, <2>2 DEF IndInv
<1>2. CASE Tick
  <2>1. /\ entries' = entries /\ call' = call
        /\ clock' = clock + 1 /\ clock < MaxTime /\ clock \in 0 .. MaxTime
    BY <1>2 DEF Tick, IndInv, Vector
  <2>2. Vector' /\ Calls' /\ Answers'
    BY <1>2, <2>1, SemanticAssumption DEF IndInv, Vector, Calls, Answers, Tick
  <2>3. ASSUME NEW i \in 1 .. Len(entries)
        PROVE  entries[i].created_at <= clock + 1
    <3>1. entries[i] \in Entries
      BY DEF IndInv, Vector
    <3>2. entries[i].created_at \in 0 .. MaxTime
      BY <3>1 DEF Entries
    <3>3. entries[i].created_at <= clock
      BY DEF IndInv, InOrder
    <3> QED
      BY <2>1, <3>2, <3>3, SemanticAssumption
  <2>4. InOrder'
    BY <2>1, <2>3 DEF IndInv, InOrder
  <2> QED
    BY <2>2, <2>4 DEF IndInv
<1>3. ASSUME NEW c \in Callers, CallStep(c) PROVE IndInv'
  <2>1. Calls' /\ Answers'
    BY <1>3, CallsStep, AnswersStep DEF IndInv
  <2>2. CASE Insert(c)
    BY <2>1, <2>2, InsertKeepsOrder DEF IndInv
  <2>3. CASE ~Insert(c)
    <3>1. UNCHANGED <<entries, clock>>
      BY <1>3, <2>3 DEF CallStep, Call, EmbeddingFails, Embed, Lookup
    <3> QED
      BY <2>1, <3>1 DEF IndInv, Vector, InOrder
  <2> QED
    BY <2>2, <2>3
<1>4. CASE UNCHANGED vars
  BY <1>4 DEF vars, IndInv, Vector, Calls, Answers, InOrder
<1> QED
  BY <1>1, <1>2, <1>3, <1>4 DEF Next

LEMMA Invariance == Spec => []IndInv
BY InvInit, InvStep, PTL DEF Spec

(* The cache is well-typed, whatever calls are under way: what a lookup    *)
(* answers with are entries.                                               *)
THEOREM TypeCorrect == Spec => []TypeOK
<1>1. IndInv => TypeOK
  BY DEF IndInv, Vector, Calls, Answers, TypeOK
<1> QED
  BY <1>1, Invariance, PTL

(* The cache holds at most MaxEntries well-formed entries, however many    *)
(* insertions wait for the lock at once.                                   *)
THEOREM CapacityIsKept == Spec => [](entries \in Seq(Entries) /\ Len(entries) <= MaxEntries)
<1>1. IndInv => entries \in Seq(Entries) /\ Len(entries) <= MaxEntries
  BY DEF IndInv, Vector
<1> QED
  BY <1>1, Invariance, PTL

----------------------------------------------------------------------------
LEMMA StepEvictsOldest ==
  ASSUME IndInv, [Next]_vars, entries' # <<>>,
         NEW gone \in Range(entries) \ Range(entries'), NEW left \in Range(entries')
  PROVE  gone.created_at <= left.created_at
<1>1. PICK c \in Callers : Insert(c)
  BY DEF Next, Clear, Tick, CallStep, Call, EmbeddingFails, Embed, Lookup, vars
<1> DEFINE new == [request |-> call[c].request, created_at |-> clock]
<1>2. /\ entries \in Seq(Entries) /\ Len(entries) <= MaxEntries
      /\ Len(entries) \in Nat
  BY DEF IndInv, Vector
<1>3. /\ WithRoom \in Seq(Entries)
      /\ Len(WithRoom) \in Nat
      /\ \/ WithRoom = entries
         \/ /\ Len(entries) > 0
            /\ Len(WithRoom) = Len(entries) - 1
            /\ \A i \in 1 .. Len(WithRoom) : WithRoom[i] = entries[i + 1]
  BY <1>2, RoomIsSuffix
<1>4. entries' = Append(WithRoom, new)
  BY <1>1 DEF Insert
<1>5. /\ Len(entries') = Len(WithRoom) + 1
      /\ DOMAIN entries' = 1 .. Len(entries')
      /\ \A i \in 1 .. Len(WithRoom) : entries'[i] = WithRoom[i]
      /\ entries'[Len(entries')] = new
  <2>1. Append(WithRoom, new) \in Seq(Entries \cup {new})
    BY <1>3
  <2> QED
    BY <1>3, <1>4, <2>1
<1>6. PICK g \in 1 .. Len(entries) : gone = entries[g]
  BY <1>2 DEF Range
<1>7. PICK k \in 1 .. Len(entries') : left = entries'[k]
  BY <1>5 DEF Range
<1>8. ASSUME NEW i \in 1 .. Len(WithRoom) PROVE gone # WithRoom[i]
  <2>1. i \in DOMAIN entries' /\ entries'[i] = WithRoom[i]
    BY <1>3, <1>5
  <2>2. WithRoom[i] \in Range(entries')
    BY <2>1 DEF Range
  <2> QED
    BY <2>2
<1>9. Len(WithRoom) = Len(entries) - 1 /\ g = 1
  <2>1. WithRoom # entries
    BY <1>6, <1>8
  <2>2. g # 1 => g - 1 \in 1 .. Len(WithRoom) /\ WithRoom[g - 1] = entries[g]
    BY <1>2, <1>3, <2>1
  <2> QED
    BY <1>3, <1>6, <1>8, <2>1, <2>2
<1>10. CASE k = Len(entries')
  <2>1. left.created_at = clock
    BY <1>5, <1>7, <1>10
  <2> QED
    BY <1>6, <2>1 DEF IndInv, InOrder
<1>11. CASE k # Len(entries')
  <2>1. /\ k \in 1 .. Len(WithRoom)
        /\ k + 1 \in 1 .. Len(entries)
    <3>1. /\ Len(WithRoom) = Len(entries) - 1
          /\ Len(entries') = Len(WithRoom) + 1
          /\ Len(WithRoom) \in Nat /\ Len(entries) \in Nat
      BY <1>2, <1>3, <1>5, <1>9
    <3> HIDE DEF new
    <3> QED
      BY <1>7, <1>11, <3>1
  <2>2. left = entries[k + 1]
    BY <1>3, <1>5, <1>7, <1>8, <1>9, <2>1, <1>6
  <2> QED
    BY <1>6, <1>9, <2>1, <2>2 DEF IndInv, InOrder
<1> QED
  BY <1>10, <1>11

(* For any number of concurrent callers, what an insertion evicts is no    *)
(* newer than anything it leaves: the code may evict by position because   *)
(* it dates entries under the lock that orders them.                       *)
THEOREM OldestIsEvicted == Spec => EvictsOldest
<1>1. IndInv /\ [Next]_vars =>
        [entries' # <<>> =>
           \A gone \in Range(entries) \ Range(entries'), left \in Range(entries') :
             gone.created_at <= left.created_at]_vars
  BY StepEvictsOldest
<1> QED
  BY <1>1, Invariance, PTL DEF Spec, EvictsOldest

----------------------------------------------------------------------------
(* Only the lookup of a caller ends its lookup. *)
LEMMA LookupEnds ==
  ASSUME IndInv, [Next]_vars, NEW c \in Callers,
         call[c].pc = "looking up", call'[c] = NoCall
  PROVE  Lookup(c)
<1>1. call'[c] # call[c]
  <2>1. NoCall.pc = "none"
    BY DEF NoCall
  <2> QED
    BY <2>1
<1>2. PICK d \in Callers : CallStep(d)
  BY <1>1 DEF Next, Clear, Tick, vars
<1>3. d = c
  <2> SUFFICES ASSUME d # c PROVE call'[c] = call[c]
    BY <1>1
  <2> QED
    BY <1>2 DEF CallStep, Call, EmbeddingFails, Embed, Lookup, Insert, IndInv, Calls
<1>4. call[c] # NoCall
  <2>1. NoCall.pc # "looking up"
    BY DEF NoCall
  <2> QED
    BY <2>1
<1> QED
  BY <1>2, <1>3, <1>4 DEF CallStep, Call, EmbeddingFails, Embed, Insert

LEMMA LookupFindsClosest ==
  ASSUME IndInv, NEW c \in Callers, Lookup(c)
  PROVE  IsClosest(call[c], answer'[c])
<1> DEFINE query == call[c]
<1>1. query \in LookingUp /\ entries \in Seq(Entries)
  BY CallTypes DEF Lookup, IndInv, Vector
<1>2. query.now \in 0 .. MaxTime /\ query.request \in Requests
  BY <1>1 DEF LookingUp
<1>3. answer'[c] = BestMatch(query)
  BY DEF Lookup, IndInv, Answers
<1>4. {e \in Range(entries) : /\ e.request[2] = query.request[2]
                              /\ e.created_at + Ttl >= query.now
                              /\ SimilarityTo(query.request, e) >= Threshold}
        = Hits(query, Len(entries))
  <2>1. Range(entries) = {entries[i] : i \in 1 .. Len(entries)}
    BY <1>1 DEF Range
  <2> QED
    BY <2>1 DEF Hits, IsHit
<1>5. Finds(query, Len(entries), answer'[c])
  BY <1>1, <1>2, <1>3, ScanFindsBest
<1> HIDE DEF query
<1> QED
  BY <1>4, <1>5 DEF Finds, IsClosest, query

(* For any vector, any similarities and any number of concurrent callers,  *)
(* a lookup that has the lock answers with the closest entry it may, and   *)
(* with none only if there is none: one scan that keeps the first of the   *)
(* best so far is enough.                                                  *)
THEOREM ClosestIsAnswered == Spec => AnswersClosest
<1>1. IndInv /\ [Next]_vars =>
        [\A c \in Callers : call[c].pc = "looking up" /\ call'[c] = NoCall =>
           IsClosest(call[c], answer'[c])]_vars
  BY LookupEnds, LookupFindsClosest
<1> QED
  BY <1>1, Invariance, PTL DEF Spec, AnswersClosest
=============================================================================

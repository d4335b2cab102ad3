--------------------------- MODULE SemanticCache ---------------------------
(***************************************************************************)
(* The vector cache of src/cache/semantic.rs, enabled, and concurrent      *)
(* calls of it.  A call awaits the embedding of its prompt and then the    *)
(* lock; what it does under the lock is one step.  A lookup reads the      *)
(* clock before it awaits the lock, an insertion when it has it.           *)
(*                                                                         *)
(* Embeddings are abstracted to the similarity of the prompts they are     *)
(* made from.  A response is known by what it answers and when it was      *)
(* stored, so it has no field of its own.                                  *)
(***************************************************************************)
EXTENDS SequencesExt, Integers

CONSTANTS
  Callers,
  Requests,    \* pairs of a prompt and a compatibility signature
  Similarity,  \* of two prompts, as a percentage
  Threshold,   \* semantic_threshold, likewise
  MaxEntries,  \* exact_max_entries
  Ttl,         \* exact_ttl_seconds
  MaxTime      \* bound on the time that passes in a run

ASSUME SemanticAssumption ==
  /\ MaxEntries \in Nat \ {0}
  /\ Ttl \in Nat
  /\ MaxTime \in Nat
  /\ Threshold \in Int
  /\ \A r, s \in Requests : Similarity[<<r[1], s[1]>>] \in Int

VARIABLES
  entries,  \* the vector of entries
  clock,
  call,     \* what each caller is doing
  answer    \* what its last lookup returned: an entry, or none on a miss

vars == <<entries, clock, call, answer>>

Entries == [request : Requests, created_at : 0 .. MaxTime]

NoCall == [pc |-> "none"]

Embedding == [pc : {"embedding"}, op : {"lookup", "insert"}, request : Requests]
LookingUp == [pc : {"looking up"}, request : Requests, now : 0 .. MaxTime]
Inserting == [pc : {"inserting"}, request : Requests]

Init ==
  /\ entries = <<>>
  /\ clock = 0
  /\ call = [c \in Callers |-> NoCall]
  /\ answer = [c \in Callers |-> {}]

----------------------------------------------------------------------------
(* A caller asks for a lookup or an insertion. *)
Call(c, op, request) ==
  /\ call[c] = NoCall
  /\ call' = [call EXCEPT ![c] = [pc |-> "embedding", op |-> op, request |-> request]]
  /\ answer' = [answer EXCEPT ![c] = {}]
  /\ UNCHANGED <<entries, clock>>

(* The backend fails: a miss, or nothing stored. *)
EmbeddingFails(c) ==
  /\ call[c].pc = "embedding"
  /\ call' = [call EXCEPT ![c] = NoCall]
  /\ UNCHANGED <<entries, clock, answer>>

(* The embedding is there; a lookup reads the clock, and both want the lock. *)
Embed(c) ==
  /\ call[c].pc = "embedding"
  /\ call' = [call EXCEPT ![c] =
       IF @.op = "lookup"
         THEN [pc |-> "looking up", request |-> @.request, now |-> clock]
         ELSE [pc |-> "inserting", request |-> @.request]]
  /\ UNCHANGED <<entries, clock, answer>>

SimilarityTo(request, entry) == Similarity[<<request[1], entry.request[1]>>]

IsCandidate(entry, query) ==
  /\ entry.request[2] = query.request[2]
  /\ query.now - entry.created_at <= Ttl
  /\ SimilarityTo(query.request, entry) >= Threshold

(* The scan: a candidate replaces the best so far if it is more similar. *)
LastMatch(query) ==  \* mutant: similarities are not compared
  FoldLeft(LAMBDA best, entry : IF IsCandidate(entry, query) THEN {entry} ELSE best,
           {}, entries)

BestMatch(query) ==
  FoldLeft(LAMBDA best, entry :
             IF /\ IsCandidate(entry, query)
                /\ \A b \in best :
                     SimilarityTo(query.request, entry) > SimilarityTo(query.request, b)
               THEN {entry}
               ELSE best,
           {}, entries)

Lookup(c) ==
  /\ call[c].pc = "looking up"
  /\ answer' = [answer EXCEPT ![c] = BestMatch(call[c])]
  /\ call' = [call EXCEPT ![c] = NoCall]
  /\ UNCHANGED <<entries, clock>>

(* At capacity, the first entry of the vector makes room. *)
WithRoomForTwo ==  \* mutant: one entry too many
  IF Len(entries) > MaxEntries THEN Tail(entries) ELSE entries

WithoutNewest ==  \* mutant: the last entry makes room
  IF Len(entries) >= MaxEntries THEN Front(entries) ELSE entries

WithRoom == IF Len(entries) >= MaxEntries THEN Tail(entries) ELSE entries

Insert(c) ==
  /\ call[c].pc = "inserting"
  /\ entries' = Append(WithRoom, [request |-> call[c].request, created_at |-> clock])
  /\ call' = [call EXCEPT ![c] = NoCall]
  /\ UNCHANGED <<clock, answer>>

Clear ==
  /\ entries' = <<>>
  /\ UNCHANGED <<clock, call, answer>>

Tick ==
  /\ clock < MaxTime
  /\ clock' = clock + 1
  /\ UNCHANGED <<entries, call, answer>>

CallStep(c) ==
  \/ \E op \in {"lookup", "insert"}, request \in Requests : Call(c, op, request)
  \/ EmbeddingFails(c)
  \/ Embed(c)
  \/ Lookup(c)
  \/ Insert(c)

Next == Clear \/ Tick \/ \E c \in Callers : CallStep(c)

Spec == Init /\ [][Next]_vars

----------------------------------------------------------------------------
TypeOK ==
  /\ entries \in Seq(Entries)
  /\ Len(entries) <= MaxEntries
  /\ clock \in 0 .. MaxTime
  /\ call \in [Callers -> {NoCall} \cup Embedding \cup LookingUp \cup Inserting]
  /\ answer \in [Callers -> SUBSET Entries]

(* What leaves the cache, unless it is cleared, is no newer than anything  *)
(* that stays or comes (semantic.rs:37, 184-186: "remove oldest").  The    *)
(* code never compares dates: it relies on the order of the vector, and so *)
(* on the clock being read under the lock.                                 *)
EvictsOldest ==
  [][entries' # <<>> =>
       \A gone \in Range(entries) \ Range(entries'), left \in Range(entries') :
         gone.created_at <= left.created_at]_vars

(* The closest of the entries that have the signature of the query, are    *)
(* similar enough and had not expired when its embedding was ready.        *)
IsClosest(query, found) ==
  LET hits  == {e \in Range(entries) : /\ e.request[2] = query.request[2]
                                       /\ e.created_at + Ttl >= query.now
                                       /\ SimilarityTo(query.request, e) >= Threshold}
  IN  IF hits = {} THEN found = {}
      ELSE \E best \in hits :
             /\ found = {best}
             /\ \A e \in hits : SimilarityTo(query.request, e)
                                  <= SimilarityTo(query.request, best)

(* A lookup is a hit when it could be: the closest entry is returned, if   *)
(* there is one, whatever was inserted, evicted or cleared since the call. *)
AnswersClosest ==
  [][\A c \in Callers : call[c].pc = "looking up" /\ call'[c] = NoCall =>
       IsClosest(call[c], answer'[c])]_vars
=============================================================================

----------------------------- MODULE Induction -----------------------------
(***************************************************************************)
(* Induction over the natural numbers, and the existence of what the folds *)
(* of the community modules compute, stated with sets and functions so     *)
(* that first-order provers can use them: a property of numbers is the set *)
(* of the numbers that have it, and an operation is a function.            *)
(***************************************************************************)
EXTENDS FiniteSetsExt, Sequences, Integers, WellFoundedInduction, TLAPS

LEMMA LeastNatural ==
  ASSUME NEW S \in SUBSET Nat, S # {}
  PROVE  \E n \in S : \A m \in S : n <= m
<1> DEFINE R == OpToRel(<, Nat)
<1>1. IsWellFoundedOn(R, Nat)
  BY NatLessThanWellFounded
<1>2. \A x, y \in Nat : x < y => <<x, y>> \in R
  BY DEF OpToRel
<1> HIDE DEF R
<1>3. S \subseteq Nat
  OBVIOUS
<1>4. PICK n \in S : \A m \in S : ~(<<m, n>> \in R)
  BY <1>1, <1>3, WFMin
<1>5. \A m \in S : n \in Nat /\ m \in Nat /\ ~(m < n)
  BY <1>2, <1>4
<1> QED
  BY <1>5

(* Course-of-values induction: what holds of a number if it holds of all   *)
(* smaller ones holds of every number.                                     *)
LEMMA StrongInduction ==
  ASSUME NEW S,
         \A n \in Nat : (\A m \in Nat : m < n => m \in S) => n \in S
  PROVE  \A n \in Nat : n \in S
<1> DEFINE Others == {n \in Nat : n \notin S}
<1> SUFFICES ASSUME Others # {} PROVE FALSE
  OBVIOUS
<1>1. PICK n \in Others : \A m \in Others : n <= m
  <2>1. Others \in SUBSET Nat
    OBVIOUS
  <2> HIDE DEF Others
  <2> QED
    BY <2>1, LeastNatural
<1>2. \A m \in Nat : m < n => m \in S
  BY <1>1
<1> QED
  BY <1>1, <1>2

LEMMA SimpleInduction ==
  ASSUME NEW S,
         0 \in S,
         \A n \in Nat : n \in S => n + 1 \in S
  PROVE  \A n \in Nat : n \in S
<1>1. ASSUME NEW n \in Nat, \A m \in Nat : m < n => m \in S
      PROVE  n \in S
  <2>1. CASE n = 0
    BY <2>1
  <2>2. CASE n # 0
    <3>1. n - 1 \in Nat /\ n - 1 < n /\ (n - 1) + 1 = n
      BY <2>2
    <3>2. n - 1 \in S
      BY <1>1, <3>1
    <3> QED
      BY <3>1, <3>2
  <2> QED
    BY <2>1, <2>2
<1> QED
  BY <1>1, StrongInduction

(* What holds of the empty sequence and of every sequence that holds one   *)
(* element more than a sequence it holds of, holds of every sequence.      *)
LEMMA SequenceInduction ==
  ASSUME NEW A, NEW S,
         <<>> \in S,
         \A s \in Seq(A), a \in A : s \in S => Append(s, a) \in S
  PROVE  \A s \in Seq(A) : s \in S
<1> DEFINE N == {n \in Nat : \A s \in Seq(A) : Len(s) = n => s \in S}
<1>1. 0 \in N
  OBVIOUS
<1>2. ASSUME NEW n \in Nat, n \in N
      PROVE  n + 1 \in N
  <2> SUFFICES ASSUME NEW s \in Seq(A), Len(s) = n + 1
               PROVE  s \in S
    OBVIOUS
  <2> DEFINE front == SubSeq(s, 1, n)
  <2>1. front \in Seq(A) /\ Len(front) = n /\ s[n + 1] \in A
    OBVIOUS
  <2>2. front \in S
    BY <1>2, <2>1
  <2>3. s = Append(front, s[n + 1])
    OBVIOUS
  <2> HIDE DEF front
  <2> QED
    BY <2>1, <2>2, <2>3
<1>3. \A n \in Nat : n \in N
  <2> HIDE DEF N
  <2> QED
    BY <1>1, <1>2, SimpleInduction
<1> QED
  BY <1>3

----------------------------------------------------------------------------
(* The largest element of a set of numbers, when there is one. *)
LEMMA MaxIsLargest ==
  ASSUME NEW S \in SUBSET Int, NEW m \in S, \A x \in S : x <= m
  PROVE  Max(S) = m
<1>1. \A x \in S : (\A y \in S : x >= y) <=> x = m
  OBVIOUS
<1> QED
  BY <1>1 DEF Max

LEMMA MinIsLeast ==
  ASSUME NEW S \in SUBSET Nat, S # {}
  PROVE  Min(S) \in S /\ \A x \in S : Min(S) <= x
<1>1. \E n \in S : \A m \in S : n <= m
  BY LeastNatural
<1> QED
  BY <1>1 DEF Min

LEMMA MaxOfPart ==
  ASSUME NEW n \in Nat, NEW S \in SUBSET (1 .. n), S # {}
  PROVE  Max(S) \in S /\ \A x \in S : x <= Max(S)
<1> DEFINE Rest == {n - x : x \in S}
<1>1. Rest \in SUBSET Nat /\ Rest # {}
  <2>1. \A x \in S : n - x \in Nat
    OBVIOUS
  <2> QED
    BY <2>1
<1>2. PICK d \in Rest : \A e \in Rest : d <= e
  <2> HIDE DEF Rest
  <2> QED
    BY <1>1, LeastNatural
<1>3. PICK m \in S : d = n - m
  BY <1>2
<1>4. \A x \in S : x <= m
  <2> SUFFICES ASSUME NEW x \in S PROVE x <= m
    OBVIOUS
  <2>1. n - m <= n - x
    BY <1>2, <1>3
  <2> QED
    BY <2>1
<1>5. S \in SUBSET Int
  OBVIOUS
<1> QED
  BY <1>3, <1>4, <1>5, MaxIsLargest

(* The numbers up to n, as FoldLeft takes them away one by one. *)
LEMMA Initial ==
  /\ 1 .. 0 = {}
  /\ \A n \in Nat : /\ Max(1 .. n + 1) = n + 1
                    /\ (1 .. n + 1) \ {n + 1} = 1 .. n
                    /\ 1 .. n + 1 # {}
<1>1. ASSUME NEW n \in Nat PROVE Max(1 .. n + 1) = n + 1
  <2>1. /\ 1 .. n + 1 \in SUBSET Int /\ n + 1 \in 1 .. n + 1
        /\ \A x \in 1 .. n + 1 : x <= n + 1
    OBVIOUS
  <2> QED
    BY <2>1, MaxIsLargest
<1>2. ASSUME NEW n \in Nat
      PROVE  (1 .. n + 1) \ {n + 1} = 1 .. n /\ 1 .. n + 1 # {}
  <2>1. n + 1 \in 1 .. n + 1
    OBVIOUS
  <2> QED
    BY <2>1
<1>3. 1 .. 0 = {}
  OBVIOUS
<1> QED
  BY <1>1, <1>2, <1>3

(* MapThenFoldSet takes its iterator from a recursive definition, which    *)
(* means something only if a function satisfies it.  One does, whatever    *)
(* operation is folded from the left, over whatever numbers.               *)
IsFold(g, F, base, n) ==
  \A s \in SUBSET (1 .. n) :
    g[s] = IF s = {} THEN base ELSE F[<<g[s \ {Max(s)}], Max(s)>>]

LEMMA FoldsExist ==
  ASSUME NEW n \in Nat, NEW T, NEW base \in T, NEW F \in [T \X (1 .. n) -> T]
  PROVE  \E g \in [SUBSET (1 .. n) -> T] : IsFold(g, F, base, n)
<1> DEFINE Folds(k) == \E g \in [SUBSET (1 .. k) -> T] : IsFold(g, F, base, k)
           S == {k \in Nat : k <= n => Folds(k)}
<1>1. Folds(0)
  <2>1. [s \in SUBSET (1 .. 0) |-> base] \in [SUBSET (1 .. 0) -> T]
    OBVIOUS
  <2>2. IsFold([s \in SUBSET (1 .. 0) |-> base], F, base, 0)
    BY Initial DEF IsFold
  <2> QED
    BY <2>1, <2>2
<1>2. ASSUME NEW k \in Nat, k + 1 <= n, Folds(k)
      PROVE  Folds(k + 1)
  <2>1. PICK g \in [SUBSET (1 .. k) -> T] : IsFold(g, F, base, k)
    BY <1>2
  <2> DEFINE h == [s \in SUBSET (1 .. k + 1) |->
                     IF k + 1 \in s THEN F[<<g[s \ {k + 1}], k + 1>>] ELSE g[s]]
  <2>2. ASSUME NEW s \in SUBSET (1 .. k + 1), k + 1 \in s
        PROVE  /\ s \ {k + 1} \in SUBSET (1 .. k)
               /\ Max(s) = k + 1
               /\ h[s \ {k + 1}] = g[s \ {k + 1}]
               /\ h[s] = F[<<g[s \ {k + 1}], k + 1>>]
               /\ h[s] \in T
    <3>1. s \ {k + 1} \in SUBSET (1 .. k) /\ s \ {k + 1} \in SUBSET (1 .. k + 1)
      BY <2>2
    <3>2. Max(s) = k + 1
      <4>1. s \in SUBSET Int /\ \A x \in s : x <= k + 1
        OBVIOUS
      <4> QED
        BY <4>1, <2>2, MaxIsLargest
    <3>3. g[s \ {k + 1}] \in T /\ k + 1 \in 1 .. n
      BY <3>1, <1>2
    <3>4. F[<<g[s \ {k + 1}], k + 1>>] \in T
      BY <3>3
    <3> QED
      BY <2>2, <3>1, <3>2, <3>4
  <2>3. ASSUME NEW s \in SUBSET (1 .. k + 1), k + 1 \notin s
        PROVE  /\ s \in SUBSET (1 .. k)
               /\ h[s] = g[s]
               /\ h[s] \in T
    <3>1. s \in SUBSET (1 .. k)
      BY <2>3
    <3>2. g[s] \in T
      BY <3>1
    <3> QED
      BY <2>3, <3>1, <3>2
  <2>4. h \in [SUBSET (1 .. k + 1) -> T]
    <3>1. \A s \in SUBSET (1 .. k + 1) : h[s] \in T
      BY <2>2, <2>3
    <3>2. h = [s \in SUBSET (1 .. k + 1) |-> h[s]]
      OBVIOUS
    <3> HIDE DEF h
    <3> QED
      BY <3>1, <3>2
  <2> HIDE DEF h
  <2>5. ASSUME NEW s \in SUBSET (1 .. k + 1)
        PROVE  h[s] = IF s = {} THEN base ELSE F[<<h[s \ {Max(s)}], Max(s)>>]
    <3>1. CASE k + 1 \in s
      BY <2>2, <3>1
    <3>2. CASE k + 1 \notin s
      <4>1. s \in SUBSET (1 .. k) /\ h[s] = g[s]
        BY <2>3, <3>2
      <4>2. g[s] = IF s = {} THEN base ELSE F[<<g[s \ {Max(s)}], Max(s)>>]
        BY <2>1, <4>1 DEF IsFold
      <4>3. h[s \ {Max(s)}] = g[s \ {Max(s)}]
        BY <2>3, <3>2
      <4> QED
        BY <4>1, <4>2, <4>3
    <3> QED
      BY <3>1, <3>2
  <2> QED
    BY <2>4, <2>5 DEF IsFold
<1>3. Folds(n)
  <2> HIDE DEF Folds
  <2>1. 0 \in S /\ \A k \in Nat : k \in S => k + 1 \in S
    BY <1>1, <1>2
  <2>2. n \in S
    <3> HIDE DEF S
    <3> QED
      BY <2>1, SimpleInduction
  <2> QED
    BY <2>2
<1> QED
  BY <1>3
=============================================================================

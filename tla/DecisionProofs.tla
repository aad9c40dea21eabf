---------------------------- MODULE DecisionProofs ----------------------------
(***************************************************************************)
(* What holds of the engine's advice and of the reliability report for any *)
(* league, artifact, budget, bank and locked selection.                    *)
(*                                                                         *)
(* The commands compute; so the invariant (Faithful) says only that what   *)
(* is published or shown is what a command computes from the artifact, and *)
(* the work is in what the algorithms compute: that the scan of a squad    *)
(* meets every line-up (ScanEnumerates) and keeps a best one (KeptBest),   *)
(* that the solver's three criteria find the optimum (SolverAnswers), that *)
(* the swaps tried are those that lead to a legal squad (ReachableIs),     *)
(* that the order of the candidates is one (PreferredOrdered), and that    *)
(* the greedy algorithm of the report finds what the scan finds            *)
(* (DiagnosticIsScan).                                                     *)
(*                                                                         *)
(* The folds of the model are recursive functions over finite sets.  Each  *)
(* is shown to exist (FoldExists) by taking a minimal subset of the finite *)
(* set for which it does not; inductions over indexes take the least index *)
(* for which a fact fails.                                                 *)
(***************************************************************************)
EXTENDS DecisionReliability, FiniteSetTheorems, WellFoundedInduction, TLAPS

-----------------------------------------------------------------------------
(* Finite sets: least elements, ranks, folds *)

(* Among subsets of a finite set one includes no other: the induction of this
   module, with a set in place of a predicate. *)
LEMMA MinimalSet ==
  ASSUME NEW P, IsFiniteSet(P), NEW T, T \subseteq SUBSET P, T # {}
  PROVE  \E A \in T : \A B \in T : B \subseteq A => B = A
<1>1. T \subseteq FiniteSubsetsOf(P) BY FS_Subset DEF FiniteSubsetsOf
<1>2. IsWellFoundedOn(StrictSubsetOrdering(P), FiniteSubsetsOf(P)) BY FS_StrictSubsetOrderingWellFounded
<1>3. \E x \in T : \A y \in T : ~(<<y, x>> \in StrictSubsetOrdering(P)) BY <1>1, <1>2, WFMin
<1> QED BY <1>3 DEF StrictSubsetOrdering

(* A set of numbers has a least one. *)
LEMMA LeastNat ==
  ASSUME NEW T, T \subseteq Nat, T # {}
  PROVE \E n \in T : \A m \in T : n =< m
<1>1. PICK k \in T : TRUE OBVIOUS
<1> DEFINE low == {m \in T : m =< k}
           F == {1..n : n \in low}
<1>2. F \subseteq SUBSET (1..k)
  <2> SUFFICES ASSUME NEW n \in low PROVE 1..n \subseteq 1..k OBVIOUS
  <2> n \in Nat /\ k \in Nat /\ n =< k BY <1>1
  <2> QED OBVIOUS
<1>3. IsFiniteSet(1..k) BY <1>1, FS_Interval
<1>4. F # {}
  <2> k \in low BY <1>1
  <2> QED OBVIOUS
<1> HIDE DEF F
<1>8. PICK P : P = 1..k OBVIOUS
<1>9. \E A \in F : \A B \in F : B \subseteq A => B = A
  <2>1. IsFiniteSet(P) /\ F \subseteq SUBSET P BY <1>2, <1>3, <1>8
  <2> QED BY ONLY <2>1, <1>4, MinimalSet
<1>5. PICK A \in F : \A B \in F : B \subseteq A => B = A BY <1>9
<1>6. PICK n \in low : A = 1..n BY DEF F
<1>7. ASSUME NEW m \in T, m < n PROVE FALSE
  <2>1. m \in low /\ m \in Nat /\ n \in Nat BY <1>1, <1>6, <1>7
  <2>2. 1..m \in F BY <2>1 DEF F
  <2>3. 1..m \subseteq A BY <1>6, <1>7, <2>1
  <2>4. n \in 1..n /\ n \notin 1..m BY <2>1, <1>7
  <2> QED BY <2>2, <2>3, <2>4, <1>5, <1>6
<1> QED BY <1>6, <1>7

(* Induction over the numbers of a set. *)
LEMMA Induction ==
  ASSUME NEW N, 0 \in N, \A n \in Nat : n \in N => n + 1 \in N
  PROVE  Nat \subseteq N
<1> DEFINE T == Nat \ N
<1> SUFFICES ASSUME T # {} PROVE FALSE OBVIOUS
<1>1. PICK n \in T : \A m \in T : n =< m BY LeastNat
<1>2. n # 0 /\ n - 1 \in Nat /\ (n - 1) + 1 = n OBVIOUS
<1>3. n - 1 \notin T BY <1>1, <1>2
<1> QED BY <1>2, <1>3

(* A step h that, from a chosen element of a set and the result for the
   others, makes a result again; and a function with the result of every
   subset. *)
Foldable(P, V, base, c, h) ==
  /\ IsFiniteSet(P) /\ base \in V
  /\ \A A \in SUBSET P : A # {} => c[A] \in A
  /\ \A A \in SUBSET P : A # {} => \A r \in V : h[<<A, r>>] \in V
IsFold(g, P, V, base, c, h) ==
  /\ g \in [SUBSET P -> V]
  /\ \A A \in SUBSET P : g[A] = IF A = {} THEN base ELSE h[<<A, g[A \ {c[A]}]>>]

(* A fold over the subsets of a finite set exists: what the recursive
   functions of the folds are. *)
LEMMA FoldExists ==
  ASSUME NEW P, NEW V, NEW base, NEW c, NEW h, Foldable(P, V, base, c, h)
  PROVE  \E g : IsFold(g, P, V, base, c, h)
<1> USE DEF Foldable
<1> DEFINE Low(n) == {A \in SUBSET P : Cardinality(A) =< n}
           Folds(n) == {g \in [Low(n) -> V] : \A A \in Low(n) :
                          g[A] = IF A = {} THEN base ELSE h[<<A, g[A \ {c[A]}]>>]}
           N == {n \in Nat : Folds(n) # {}}
<1>0. \A A \in SUBSET P : IsFiniteSet(A) /\ Cardinality(A) \in Nat /\ (Cardinality(A) = 0 <=> A = {})
  BY FS_Subset, FS_CardinalityType, FS_EmptySet
<1>1. 0 \in N
  <2> DEFINE g == [A \in Low(0) |-> base]
  <2>1. \A A \in Low(0) : A = {} BY <1>0
  <2>2. g \in Folds(0) BY <2>1
  <2> QED BY <2>2
<1>2. ASSUME NEW n \in Nat, n \in N PROVE n + 1 \in N
  <2>1. PICK g \in Folds(n) : TRUE BY <1>2
  <2> DEFINE k == [A \in Low(n + 1) |-> IF A \in Low(n) THEN g[A]
                                         ELSE h[<<A, g[A \ {c[A]}]>>]]
  <2>2. \A A \in Low(n + 1) : A # {} => A \ {c[A]} \in Low(n)
    <3> SUFFICES ASSUME NEW A \in Low(n + 1), A # {} PROVE A \ {c[A]} \in Low(n) OBVIOUS
    <3>1. Cardinality(A \ {c[A]}) = Cardinality(A) - 1 BY <1>0, FS_RemoveElement
    <3> QED BY <3>1, <1>0
  <2>3. \A A \in Low(n) : A \in Low(n + 1) BY <1>0
  <2>4. \A A \in Low(n + 1) : A \notin Low(n) => A # {} BY <1>0
  <2>5. k \in [Low(n + 1) -> V] BY <2>2, <2>4
  <2>6. ASSUME NEW A \in Low(n + 1)
        PROVE  k[A] = IF A = {} THEN base ELSE h[<<A, k[A \ {c[A]}]>>]
    <3>1. CASE A = {}
      <4>1. A \in Low(0) /\ A \in Low(n) BY <3>1, <1>0
      <4>2. k[A] = g[A] /\ g[A] = base BY <3>1, <4>1, <2>1
      <4> QED BY <3>1, <4>2
    <3>2. CASE A # {}
      <4>1. k[A \ {c[A]}] = g[A \ {c[A]}] BY <3>2, <2>2, <2>3
      <4>2. k[A] = h[<<A, g[A \ {c[A]}]>>] BY <3>2
      <4> QED BY <4>1, <4>2, <3>2
    <3> QED BY <3>1, <3>2
  <2>7. k \in Folds(n + 1) BY <2>5, <2>6
  <2> HIDE DEF Folds
  <2>8. n + 1 \in Nat OBVIOUS
  <2> QED BY <2>7, <2>8
<1> HIDE DEF N
<1>3. Nat \subseteq N BY <1>1, <1>2, Induction
<1> USE DEF N
<1>4. PICK g \in Folds(Cardinality(P)) : TRUE BY <1>3, <1>0
<1>5. Low(Cardinality(P)) = SUBSET P BY FS_Subset
<1> QED BY <1>4, <1>5 DEF IsFold

(* A strict total order on a set, as a set of pairs. *)
Ordered(S, R) ==
  /\ \A x \in S : <<x, x>> \notin R
  /\ \A x, y, z \in S : <<x, y>> \in R /\ <<y, z>> \in R => <<x, z>> \in R
  /\ \A x, y \in S : x = y \/ <<x, y>> \in R \/ <<y, x>> \in R

(* The elements before one, and how many they are. *)
Predecessors(S, R, x) == {y \in S : <<y, x>> \in R}
Rank(S, R, x)   == Cardinality(Predecessors(S, R, x))

(* A finite totally ordered set has a first element. *)
LEMMA LeastElement ==
  ASSUME NEW S, IsFiniteSet(S), S # {}, NEW R, Ordered(S, R)
  PROVE  \E x \in S : \A y \in S \ {x} : <<x, y>> \in R
<1> DEFINE T == {Predecessors(S, R, x) : x \in S}
<1>1. T \subseteq SUBSET S /\ T # {} BY DEF Predecessors
<1> HIDE DEF T
<1>0. \E A \in T : \A B \in T : B \subseteq A => B = A
  BY ONLY <1>1, IsFiniteSet(S), MinimalSet
<1>2. PICK A \in T : \A B \in T : B \subseteq A => B = A BY <1>0
<1> USE DEF T
<1>3. PICK x \in S : A = Predecessors(S, R, x) BY <1>2
<1>4. ASSUME NEW y \in S \ {x}, <<x, y>> \notin R PROVE FALSE
  <2>1. <<y, x>> \in R BY <1>4, <1>3 DEF Ordered
  <2>2. Predecessors(S, R, y) \subseteq Predecessors(S, R, x) BY <2>1, <1>3 DEF Ordered, Predecessors
  <2>3. y \in Predecessors(S, R, x) /\ y \notin Predecessors(S, R, y) BY <2>1 DEF Ordered, Predecessors
  <2> QED BY <2>2, <2>3, <1>2, <1>3
<1> QED BY <1>3, <1>4

(* An element has fewer predecessors than the set has elements. *)
LEMMA RankBound ==
  ASSUME NEW S, IsFiniteSet(S), NEW R, Ordered(S, R), NEW x \in S
  PROVE  Rank(S, R, x) \in 0 .. (Cardinality(S) - 1)
<1>1. Predecessors(S, R, x) \in SUBSET (S \ {x}) BY DEF Predecessors, Ordered
<1>2. IsFiniteSet(S \ {x}) /\ Cardinality(S \ {x}) = Cardinality(S) - 1 BY FS_RemoveElement
<1>3. /\ IsFiniteSet(Predecessors(S, R, x))
      /\ Cardinality(Predecessors(S, R, x)) =< Cardinality(S \ {x}) BY <1>1, <1>2, FS_Subset
<1> QED BY <1>2, <1>3, FS_CardinalityType DEF Rank

(* An earlier element has fewer predecessors. *)
LEMMA RankMonotonic ==
  ASSUME NEW S, IsFiniteSet(S), NEW R, Ordered(S, R), NEW x \in S, NEW y \in S,
         <<x, y>> \in R
  PROVE  Rank(S, R, x) < Rank(S, R, y)
<1> DEFINE B == Predecessors(S, R, y)
<1>1. B \in SUBSET S /\ x \in B BY DEF Predecessors
<1>2. IsFiniteSet(B) BY <1>1, FS_Subset
<1>3. IsFiniteSet(B \ {x}) /\ Cardinality(B \ {x}) = Cardinality(B) - 1 BY <1>1, <1>2, FS_RemoveElement
<1>4. Predecessors(S, R, x) \in SUBSET (B \ {x}) BY DEF Predecessors, Ordered
<1>5. /\ IsFiniteSet(Predecessors(S, R, x)) /\ Cardinality(Predecessors(S, R, x)) =< Cardinality(B \ {x})
  BY <1>3, <1>4, FS_Subset
<1> QED BY <1>2, <1>3, <1>5, FS_CardinalityType DEF Rank

(* Ranks tell the elements apart and order them as the order does. *)
LEMMA RankOrder ==
  ASSUME NEW S, IsFiniteSet(S), NEW R, Ordered(S, R), NEW x \in S, NEW y \in S
  PROVE  /\ Rank(S, R, x) = Rank(S, R, y) => x = y
         /\ Rank(S, R, x) < Rank(S, R, y) <=> <<x, y>> \in R
<1>1. <<x, y>> \in R => Rank(S, R, x) < Rank(S, R, y) BY RankMonotonic
<1>2. <<y, x>> \in R => Rank(S, R, y) < Rank(S, R, x) BY RankMonotonic
<1>3. x = y \/ <<x, y>> \in R \/ <<y, x>> \in R BY DEF Ordered
<1>4. Cardinality(S) \in Nat BY FS_CardinalityType
<1>5. Rank(S, R, x) \in 0 .. (Cardinality(S) - 1) BY RankBound
<1>6. Rank(S, R, y) \in 0 .. (Cardinality(S) - 1) BY RankBound
<1>7. Rank(S, R, x) \in Int /\ Rank(S, R, y) \in Int BY <1>4, <1>5, <1>6
<1> QED BY <1>1, <1>2, <1>3, <1>7

(* Every rank below the size of the set is the rank of an element. *)
LEMMA RankSurjective ==
  ASSUME NEW S, IsFiniteSet(S), NEW R, Ordered(S, R), NEW i \in 0 .. (Cardinality(S) - 1)
  PROVE  \E x \in S : Rank(S, R, x) = i
<1> DEFINE n == Cardinality(S)
           f == [x \in S |-> Rank(S, R, x)]
<1>1. n \in Nat BY FS_CardinalityType
<1> HIDE DEF n
<1>2. PICK I : I = 0 .. (n - 1) OBVIOUS
<1>3. IsFiniteSet(I) /\ Cardinality(I) = n
  <2>1. 0 \in Int /\ n - 1 \in Int BY <1>1
  <2>2. /\ IsFiniteSet(0 .. (n - 1))
        /\ Cardinality(0 .. (n - 1)) = IF 0 > n - 1 THEN 0 ELSE (n - 1) - 0 + 1
    BY ONLY <2>1, FS_Interval
  <2> QED BY <2>2, <1>1, <1>2
<1>4. \A x \in S : f[x] \in I BY RankBound, <1>2 DEF n
<1>5. \A x, y \in S : f[x] = f[y] => x = y BY RankOrder
<1>6. f \in Injection(S, I) BY <1>4, <1>5 DEF Injection, IsInjective
<1> HIDE DEF f
<1>7. f \in Surjection(S, I) BY ONLY <1>6, <1>3, FS_Injection DEF n
<1>8. i \in I BY <1>2 DEF n
<1> QED BY <1>7, <1>8 DEF Surjection, f

(* As many elements as asked have a rank lower than that. *)
LEMMA LowRanks ==
  ASSUME NEW S, IsFiniteSet(S), NEW R, Ordered(S, R), NEW k \in 0 .. Cardinality(S)
  PROVE  Cardinality({x \in S : Rank(S, R, x) < k}) = k
<1> DEFINE T == {x \in S : Rank(S, R, x) < k}
           f == [x \in T |-> Rank(S, R, x)]
<1>1. Cardinality(S) \in Nat /\ k \in Nat BY FS_CardinalityType
<1>2. PICK I : I = 0 .. (k - 1) OBVIOUS
<1>3. IsFiniteSet(I) /\ Cardinality(I) = k
  <2>1. 0 \in Int /\ k - 1 \in Int BY <1>1
  <2>2. /\ IsFiniteSet(0 .. (k - 1))
        /\ Cardinality(0 .. (k - 1)) = IF 0 > k - 1 THEN 0 ELSE (k - 1) - 0 + 1
    BY ONLY <2>1, FS_Interval
  <2> QED BY <2>2, <1>1, <1>2
<1>4. \A x \in T : f[x] \in I BY RankBound, <1>1, <1>2
<1>5. \A x, y \in T : f[x] = f[y] => x = y BY RankOrder
<1>6. \A i \in I : \E x \in T : f[x] = i
  <2> SUFFICES ASSUME NEW i \in I PROVE \E x \in T : f[x] = i OBVIOUS
  <2>1. i \in 0 .. (Cardinality(S) - 1) /\ i < k BY <1>1, <1>2
  <2>2. PICK x \in S : Rank(S, R, x) = i BY <2>1, RankSurjective
  <2> QED BY <2>1, <2>2
<1> HIDE DEF T
<1>7. f \in Injection(T, I) BY <1>4, <1>5 DEF Injection, IsInjective
<1>8. f \in Surjection(T, I) BY <1>4, <1>6 DEF Surjection
<1> HIDE DEF f
<1>9. Cardinality(T) = Cardinality(I) BY ONLY <1>7, <1>8, <1>3, FS_Injection
<1> QED BY <1>9, <1>3 DEF T

-----------------------------------------------------------------------------
(* Sums over a set of players *)

(* The element the fold of the community modules takes next, what can be
   summed, and the function of all partial sums that the fold is. *)
Picked(S) == CHOOSE x \in S : TRUE
Summable(f, P) == IsFiniteSet(P) /\ \A x \in P : f[x] \in Int
PartialSums(f, P) ==
  CHOOSE g : g = [A \in SUBSET P |-> IF A = {} THEN 0 ELSE f[Picked(A)] + g[A \ {Picked(A)}]]

(* Sum is the value of that function at the whole set. *)
LEMMA SumIsPartial ==
  ASSUME NEW f, NEW S
  PROVE  Sum(f, S) = PartialSums(f, S)[S]
BY DEF Sum, MapThenSumSet, MapThenFoldSet, PartialSums, Picked

(* The function of the partial sums exists: it satisfies its recursive
   equation. *)
LEMMA PartialSumsExist ==
  ASSUME NEW P, NEW f, Summable(f, P)
  PROVE  /\ PartialSums(f, P) \in [SUBSET P -> Int]
         /\ \A A \in SUBSET P : PartialSums(f, P)[A] =
              IF A = {} THEN 0 ELSE f[Picked(A)] + PartialSums(f, P)[A \ {Picked(A)}]
<1> USE DEF Summable
<1> DEFINE c == [A \in SUBSET P |-> Picked(A)]
           h == [e \in (SUBSET P) \X Int |-> f[Picked(e[1])] + e[2]]
           Eq(g) == g = [A \in SUBSET P |-> IF A = {} THEN 0
                                            ELSE f[Picked(A)] + g[A \ {Picked(A)}]]
           s == PartialSums(f, P)
<1>1. \A A \in SUBSET P : A # {} => Picked(A) \in A /\ Picked(A) \in P BY DEF Picked
<1>2. \A A \in SUBSET P : A # {} => c[A] \in A BY <1>1
<1>3. ASSUME NEW A \in SUBSET P, A # {}, NEW r \in Int
      PROVE  h[<<A, r>>] = f[Picked(A)] + r /\ h[<<A, r>>] \in Int
  <2>1. <<A, r>> \in (SUBSET P) \X Int OBVIOUS
  <2>2. f[Picked(A)] \in Int BY <1>1, <1>3
  <2> QED BY <2>1, <2>2
<1>12. \A A \in SUBSET P : c[A] = Picked(A) OBVIOUS
<1> HIDE DEF c, h
<1>13. \A A \in SUBSET P : A # {} => \A r \in Int : h[<<A, r>>] \in Int BY <1>3
<1>4. Foldable(P, Int, 0, c, h) BY <1>2, <1>13 DEF Foldable
<1>5. PICK g : IsFold(g, P, Int, 0, c, h) BY <1>4, FoldExists
<1> USE DEF IsFold
<1>6. \A A \in SUBSET P : g[A] = IF A = {} THEN 0 ELSE f[Picked(A)] + g[A \ {Picked(A)}]
  <2> SUFFICES ASSUME NEW A \in SUBSET P, A # {}
               PROVE  g[A] = f[Picked(A)] + g[A \ {Picked(A)}] BY <1>5
  <2>1. g[A] = h[<<A, g[A \ {Picked(A)}]>>] BY <1>5, <1>12
  <2>2. g[A \ {Picked(A)}] \in Int BY <1>5
  <2> QED BY <2>1, <2>2, <1>3
<1>7. Eq(g) BY <1>5, <1>6
<1>8. Eq(s) BY <1>7 DEF PartialSums
<1>9. \A A \in SUBSET P : s[A] = IF A = {} THEN 0 ELSE f[Picked(A)] + s[A \ {Picked(A)}] BY <1>8
<1>10. s = [A \in SUBSET P |-> s[A]] BY <1>8
<1> HIDE DEF s, Eq
<1>11. \A A \in SUBSET P : s[A] \in Int
  <2> DEFINE T == {A \in SUBSET P : s[A] \notin Int}
  <2> SUFFICES ASSUME T # {} PROVE FALSE OBVIOUS
  <2>1. T \subseteq SUBSET P OBVIOUS
  <2> HIDE DEF T
  <2>2. \E A \in T : \A B \in T : B \subseteq A => B = A
    BY ONLY <2>1, T # {}, IsFiniteSet(P), MinimalSet
  <2> USE DEF T
  <2>3. PICK A \in T : \A B \in T : B \subseteq A => B = A BY <2>2
  <2>4. A # {}
    <3> SUFFICES ASSUME A = {} PROVE FALSE OBVIOUS
    <3>1. s[{}] = 0 BY <1>9
    <3>2. s[A] \notin Int BY <2>3
    <3> QED BY <3>1, <3>2
  <2>5. Picked(A) \in A /\ Picked(A) \in P BY <2>4, <1>1
  <2>6. s[A \ {Picked(A)}] \in Int BY <2>3, <2>5
  <2>7. s[A] = f[Picked(A)] + s[A \ {Picked(A)}] BY <1>9, <2>4
  <2>8. f[Picked(A)] \in Int BY <2>5
  <2> QED BY <2>3, <2>6, <2>7, <2>8
<1> QED BY <1>9, <1>10, <1>11 DEF s

(* The partial sums of a set are those of any set around it. *)
LEMMA PartialSumsAgree ==
  ASSUME NEW P, NEW f, Summable(f, P), NEW S \in SUBSET P
  PROVE  Sum(f, S) = PartialSums(f, P)[S]
<1> DEFINE s == PartialSums(f, S)  p == PartialSums(f, P)
           T == {A \in SUBSET S : s[A] # p[A]}
<1>1. IsFiniteSet(S) /\ IsFiniteSet(P) /\ Summable(f, S) BY FS_Subset DEF Summable
<1>2. \A A \in SUBSET S : s[A] = IF A = {} THEN 0 ELSE f[Picked(A)] + s[A \ {Picked(A)}]
  BY <1>1, PartialSumsExist
<1>3. \A A \in SUBSET P : p[A] = IF A = {} THEN 0 ELSE f[Picked(A)] + p[A \ {Picked(A)}]
  BY PartialSumsExist
<1> HIDE DEF s, p
<1>4. ASSUME T # {} PROVE FALSE
  <2>1. T \subseteq SUBSET S OBVIOUS
  <2> HIDE DEF T
  <2>2. \E A \in T : \A B \in T : B \subseteq A => B = A
    BY ONLY <2>1, <1>4, <1>1, MinimalSet
  <2> USE DEF T
  <2>3. PICK A \in T : \A B \in T : B \subseteq A => B = A BY <2>2
  <2>4. A # {} BY <1>2, <1>3, <2>3
  <2>5. Picked(A) \in A BY <2>4 DEF Picked
  <2>6. A \ {Picked(A)} \in SUBSET S /\ A \ {Picked(A)} \notin T BY <2>3, <2>5
  <2> QED BY <2>3, <2>4, <2>6, <1>2, <1>3
<1>5. s[S] = p[S] BY <1>4
<1> QED BY <1>5, SumIsPartial DEF s, p

(* A sum is an integer: nothing, or one value and the sum of the others. *)
LEMMA SumStep ==
  ASSUME NEW P, NEW f, Summable(f, P), NEW A \in SUBSET P
  PROVE  /\ Sum(f, A) \in Int
         /\ A = {} => Sum(f, A) = 0
         /\ A # {} => Picked(A) \in A /\ Sum(f, A) = f[Picked(A)] + Sum(f, A \ {Picked(A)})
<1> DEFINE p == PartialSums(f, P)
<1>1. \A B \in SUBSET P : Sum(f, B) = p[B] BY PartialSumsAgree
<1>2. p \in [SUBSET P -> Int] BY PartialSumsExist
<1>3. p[A] = IF A = {} THEN 0 ELSE f[Picked(A)] + p[A \ {Picked(A)}] BY PartialSumsExist
<1>4. A # {} => Picked(A) \in A BY DEF Picked
<1> HIDE DEF p
<1> QED BY <1>1, <1>2, <1>3, <1>4

(* Any element can be the one that is taken out of a sum. *)
LEMMA SumRemove ==
  ASSUME NEW P, NEW f, Summable(f, P), NEW A \in SUBSET P, NEW x \in A
  PROVE  Sum(f, A) = f[x] + Sum(f, A \ {x})
<1> DEFINE T == {B \in SUBSET P : \E y \in B : Sum(f, B) # f[y] + Sum(f, B \ {y})}
<1> SUFFICES ASSUME T # {} PROVE FALSE OBVIOUS
<1>1. T \subseteq SUBSET P /\ IsFiniteSet(P) BY DEF Summable
<1> HIDE DEF T
<1>2. \E B \in T : \A C \in T : C \subseteq B => C = B
  BY ONLY <1>1, T # {}, MinimalSet
<1>3. PICK B \in T : \A C \in T : C \subseteq B => C = B BY <1>2
<1> USE DEF T
<1>4. PICK y \in B : Sum(f, B) # f[y] + Sum(f, B \ {y}) BY <1>3
<1> DEFINE c == Picked(B)
<1>5. c \in B /\ Sum(f, B) = f[c] + Sum(f, B \ {c})
  <2>1. B \in SUBSET P /\ B # {} BY <1>3, <1>4
  <2> QED BY <2>1, SumStep
<1> HIDE DEF c
<1>6. y # c BY <1>4, <1>5
<1>7. B \ {c} \in SUBSET P /\ B \ {y} \in SUBSET P /\ B \ {c} \notin T /\ B \ {y} \notin T
  BY <1>3, <1>4, <1>5
<1>8. Sum(f, B \ {c}) = f[y] + Sum(f, (B \ {c}) \ {y}) BY <1>6, <1>7
<1>9. Sum(f, B \ {y}) = f[c] + Sum(f, (B \ {y}) \ {c}) BY <1>5, <1>6, <1>7
<1>10. (B \ {c}) \ {y} = (B \ {y}) \ {c} OBVIOUS
<1>11. Sum(f, (B \ {y}) \ {c}) \in Int /\ f[c] \in Int /\ f[y] \in Int
  <2>1. (B \ {y}) \ {c} \in SUBSET P BY <1>7
  <2>2. Sum(f, (B \ {y}) \ {c}) \in Int BY <2>1, SumStep
  <2>3. f[c] \in Int /\ f[y] \in Int BY <1>3, <1>4, <1>5 DEF Summable
  <2> QED BY <2>2, <2>3
<1> HIDE DEF T
<1>12. PICK D : D = (B \ {c}) \ {y} OBVIOUS
<1>13. D = (B \ {y}) \ {c} BY <1>10, <1>12
<1>14. Sum(f, B \ {y}) = f[c] + Sum(f, D) BY ONLY <1>9, <1>13, Zenon
<1>15. Sum(f, B \ {c}) = f[y] + Sum(f, D) /\ Sum(f, D) \in Int BY <1>8, <1>11, <1>12, <1>13, Zenon
<1> QED BY <1>4, <1>5, <1>14, <1>15, <1>11

(* Exchanging one element changes a sum by the difference of the two values. *)
LEMMA SumExchange ==
  ASSUME NEW P, NEW f, Summable(f, P), NEW A \in SUBSET P,
         NEW x \in A, NEW y \in P \ A
  PROVE  Sum(f, (A \ {x}) \cup {y}) = Sum(f, A) - f[x] + f[y]
<1> DEFINE B == (A \ {x}) \cup {y}
<1>1. B \in SUBSET P /\ y \in B /\ B \ {y} = A \ {x} OBVIOUS
<1>2. Sum(f, B) = f[y] + Sum(f, B \ {y}) BY <1>1, SumRemove
<1>3. Sum(f, A) = f[x] + Sum(f, A \ {x}) BY SumRemove
<1>4. Sum(f, A \ {x}) \in Int BY SumStep
<1>5. f[x] \in Int /\ f[y] \in Int BY DEF Summable
<1>6. B \in SUBSET P /\ B = (A \ {x}) \cup {y} OBVIOUS
<1> HIDE DEF B
<1>7. Sum(f, B) = f[y] + Sum(f, A \ {x}) BY <1>1, <1>2, Zenon
<1>8. Sum(f, B) = Sum(f, A) - f[x] + f[y] BY ONLY <1>3, <1>4, <1>5, <1>7
<1> QED BY <1>6, <1>8, Zenon

(* The sum of one value. *)
LEMMA SumOne ==
  ASSUME NEW f, NEW x, f[x] \in Int
  PROVE  Sum(f, {x}) = f[x] /\ Sum(f, {}) = 0
<1>1. Summable(f, {x}) BY FS_Singleton DEF Summable
<1>2. {x} \in SUBSET {x} /\ {} \in SUBSET {x} /\ x \in {x} OBVIOUS
<1>3. Sum(f, {}) = 0 BY ONLY <1>1, <1>2, SumStep
<1>4. Sum(f, {x}) = f[x] + Sum(f, {x} \ {x}) BY ONLY <1>1, <1>2, SumRemove
<1>5. {x} \ {x} = {} OBVIOUS
<1>6. Sum(f, {x} \ {x}) = 0 BY ONLY <1>3, <1>5, Zenon
<1> QED BY <1>3, <1>4, <1>6

(* The sum of none. *)
LEMMA SumNone ==
  ASSUME NEW f
  PROVE  Sum(f, {}) = 0
<1>1. Summable(f, {}) BY FS_EmptySet DEF Summable
<1>2. {} \in SUBSET {} OBVIOUS
<1> QED BY ONLY <1>1, <1>2, SumStep

-----------------------------------------------------------------------------
(* What a scan keeps, as a fold *)

(* What a scan has kept after each set of indexes. *)
KeptOf(v, captained, lineUps) ==
  CHOOSE g : g = [A \in SUBSET (DOMAIN lineUps) |->
                    IF A = {} THEN {}
                    ELSE Keep(v, captained, g[A \ {Max(A)}], lineUps[Max(A)])]

(* Kept is that function at all the indexes. *)
LEMMA KeptIsFold ==
  ASSUME NEW v, NEW captained, NEW lineUps
  PROVE  Kept(v, captained, lineUps) = KeptOf(v, captained, lineUps)[DOMAIN lineUps]
BY DEF Kept, FoldLeft, MapThenFoldSet, KeptOf

(* A set of indexes that is not empty has a greatest one. *)
LEMMA GreatestNat ==
  ASSUME NEW n \in Nat, NEW A \in SUBSET (1 .. n), A # {}
  PROVE  Max(A) \in A /\ \A i \in A : i =< Max(A)
<1> DEFINE T == {n - i : i \in A}
<1>0. \A i \in A : i \in Nat /\ i =< n OBVIOUS
<1>1. T \subseteq Nat /\ T # {}
  <2>1. ASSUME NEW i \in A PROVE n - i \in Nat BY <1>0
  <2>2. PICK i : i \in A OBVIOUS
  <2>3. n - i \in T BY <2>2
  <2> QED BY <2>1, <2>3
<1> HIDE DEF T
<1>2. \E m \in T : \A k \in T : m =< k BY ONLY <1>1, LeastNat
<1> USE DEF T
<1>3. PICK m \in T : \A k \in T : m =< k BY <1>2
<1>4. PICK i \in A : m = n - i BY <1>3
<1>5. \A j \in A : i >= j
  <2> SUFFICES ASSUME NEW j \in A PROVE i >= j OBVIOUS
  <2>1. m =< n - j BY <1>3
  <2> QED BY <2>1, <1>4, <1>0
<1> QED BY <1>4, <1>5 DEF Max

(* A sequence of elements of V, as a function; and what a scan of it keeps
   after each element. *)
SequenceIn(s, n, V) == n \in Nat /\ DOMAIN s = 1 .. n /\ \A i \in 1 .. n : s[i] \in V
ScanOf(k, v, captained, s, n) ==
  /\ k[0] = {}
  /\ \A i \in 1 .. n : k[i] = Keep(v, captained, k[i - 1], s[i])
  /\ Kept(v, captained, s) = k[n]

(* A scan keeps something after each element, and Kept is what it keeps after
   the last. *)
LEMMA KeptScan ==
  ASSUME NEW v, NEW captained, NEW n, NEW lineUps, NEW V, {} \in V, SequenceIn(lineUps, n, V)
  PROVE  \E k : ScanOf(k, v, captained, lineUps, n)
<1> USE DEF SequenceIn
<1> DEFINE P == DOMAIN lineUps
           c == [A \in SUBSET P |-> Max(A)]
           h == [e \in (SUBSET P) \X V |-> Keep(v, captained, e[2], lineUps[Max(e[1])])]
           Eq(g) == g = [A \in SUBSET P |-> IF A = {} THEN {}
                           ELSE Keep(v, captained, g[A \ {Max(A)}], lineUps[Max(A)])]
           s == KeptOf(v, captained, lineUps)
<1>1. IsFiniteSet(P)
  <2>1. 1 \in Int /\ n \in Int OBVIOUS
  <2>2. IsFiniteSet(1 .. n) BY ONLY <2>1, FS_Interval
  <2> QED BY <2>2
<1>2. \A A \in SUBSET P : A # {} => Max(A) \in A /\ Max(A) \in 1 .. n
  <2> SUFFICES ASSUME NEW A \in SUBSET P, A # {} PROVE Max(A) \in A OBVIOUS
  <2>1. A \in SUBSET (1 .. n) OBVIOUS
  <2> QED BY ONLY <2>1, A # {}, GreatestNat, n \in Nat
<1>3. ASSUME NEW A \in SUBSET P, A # {}, NEW r \in V
      PROVE  /\ h[<<A, r>>] = Keep(v, captained, r, lineUps[Max(A)])
             /\ h[<<A, r>>] \in V
  <2>1. <<A, r>> \in (SUBSET P) \X V OBVIOUS
  <2>2. lineUps[Max(A)] \in V BY <1>2, <1>3
  <2>3. h[<<A, r>>] = Keep(v, captained, r, lineUps[Max(A)]) BY <2>1
  <2>4. Keep(v, captained, r, lineUps[Max(A)]) \in {r, lineUps[Max(A)]} BY DEF Keep
  <2> HIDE DEF h
  <2> QED BY <2>2, <2>3, <2>4
<1>4. \A A \in SUBSET P : c[A] = Max(A) OBVIOUS
<1> HIDE DEF c, h
<1>5. \A A \in SUBSET P : A # {} => \A r \in V : h[<<A, r>>] \in V BY <1>3
<1>6. Foldable(P, V, {}, c, h) BY <1>1, <1>2, <1>4, <1>5 DEF Foldable
<1>7. PICK g : IsFold(g, P, V, {}, c, h) BY <1>6, FoldExists
<1>8. \A A \in SUBSET P : g[A] = IF A = {} THEN {}
                                 ELSE Keep(v, captained, g[A \ {Max(A)}], lineUps[Max(A)])
  <2> SUFFICES ASSUME NEW A \in SUBSET P, A # {}
               PROVE  g[A] = Keep(v, captained, g[A \ {Max(A)}], lineUps[Max(A)])
    BY <1>7 DEF IsFold
  <2>1. g[A] = h[<<A, g[A \ {Max(A)}]>>] BY <1>7, <1>4 DEF IsFold
  <2>2. g[A \ {Max(A)}] \in V BY <1>7 DEF IsFold
  <2> QED BY <2>1, <2>2, <1>3
<1>9. Eq(g) BY <1>7, <1>8 DEF IsFold
<1>10. Eq(s) BY <1>9 DEF KeptOf
<1>11. \A A \in SUBSET P : s[A] = IF A = {} THEN {}
                                 ELSE Keep(v, captained, s[A \ {Max(A)}], lineUps[Max(A)])
  BY <1>10
<1> HIDE DEF s, Eq
<1> DEFINE k == [i \in 0 .. n |-> s[1 .. i]]
<1>12. k[0] = {}
  <2>1. s[{}] = {} BY <1>11
  <2>2. 1 .. 0 = {} OBVIOUS
  <2>3. k[0] = s[1 .. 0] OBVIOUS
  <2> QED BY ONLY <2>1, <2>2, <2>3, Zenon
<1>13. ASSUME NEW i \in 1 .. n PROVE k[i] = Keep(v, captained, k[i - 1], lineUps[i])
  <2>1. PICK A : A = 1 .. i OBVIOUS
  <2>2. A \in SUBSET (1 .. n) /\ A # {} /\ A \in SUBSET P BY <2>1
  <2>3. Max(A) \in A /\ \A j \in A : j =< Max(A) BY ONLY <2>2, GreatestNat, n \in Nat
  <2>4. i \in A /\ Max(A) \in Int /\ Max(A) =< i BY <2>1, <2>3
  <2>5. Max(A) = i BY <2>3, <2>4
  <2>6. A \ {i} = 1 .. (i - 1) BY <2>1
  <2>7. s[A] = Keep(v, captained, s[A \ {i}], lineUps[i]) BY <2>2, <2>5, <1>11
  <2>8. k[i] = s[A] /\ k[i - 1] = s[1 .. (i - 1)] BY <2>1
  <2>9. k[i - 1] = s[A \ {i}] BY <2>8, <2>6
  <2> HIDE DEF k
  <2> QED BY <2>7, <2>8, <2>9, Zenon
<1>14. Kept(v, captained, lineUps) = k[n] BY KeptIsFold DEF s
<1> HIDE DEF k
<1>15. ScanOf(k, v, captained, lineUps, n) BY <1>12, <1>13, <1>14 DEF ScanOf
<1> QED BY <1>15

-----------------------------------------------------------------------------
(* Sets of ids in the order of their sorted tuples *)

(* A set of ids has a lowest one. *)
LEMMA LeastId ==
  ASSUME NEW T \in SUBSET Nat, T # {}
  PROVE  Min(T) \in T /\ \A k \in T : Min(T) =< k
<1>1. \E m \in T : \A k \in T : m =< k BY LeastNat
<1> QED BY <1>1 DEF Min

(* One set of ids is lower than another when it has the first id that only
   one of them has. *)
LEMMA LowerIdsMeans ==
  ASSUME NEW S \in SUBSET Nat, NEW T \in SUBSET Nat
  PROVE  LowerIds(S, T) <=> \E m \in S \ T : \A k \in Nat : k < m => (k \in S <=> k \in T)
<1> DEFINE D == SymDiff(S, T)
<1>1. D \in SUBSET Nat /\ \A k : k \in D <=> (k \in S /\ k \notin T) \/ (k \in T /\ k \notin S)
  BY DEF SymDiff
<1>2. S # T <=> D # {} BY <1>1
<1> HIDE DEF D
<1>3. D # {} => Min(D) \in D /\ \A k \in D : Min(D) =< k BY <1>1, LeastId
<1>4. LowerIds(S, T) <=> S # T /\ Min(D) \in S BY DEF LowerIds, D
<1>5. ASSUME LowerIds(S, T)
      PROVE  \E m \in S \ T : \A k \in Nat : k < m => (k \in S <=> k \in T)
  <2> DEFINE m == Min(D)
  <2>1. m \in D /\ m \in S /\ \A k \in D : m =< k BY <1>2, <1>3, <1>4, <1>5
  <2> HIDE DEF m
  <2>2. m \in S \ T BY <2>1, <1>1
  <2>3. ASSUME NEW k \in Nat, k < m PROVE k \in S <=> k \in T
    <3>1. k \notin D BY <2>1, <2>3, <2>2
    <3> QED BY <3>1, <1>1
  <2> QED BY <2>2, <2>3
<1>6. ASSUME NEW m \in S \ T, \A k \in Nat : k < m => (k \in S <=> k \in T)
      PROVE  LowerIds(S, T)
  <2>1. m \in D /\ S # T /\ D # {} BY <1>1
  <2>2. \A k \in D : k \in Nat /\ ~(k < m) BY <1>1, <1>6
  <2>3. Min(D) = m
    <3>1. Min(D) \in D /\ Min(D) =< m BY <2>1, <1>3
    <3>2. Min(D) \in Nat /\ ~(Min(D) < m) /\ m \in Nat BY <3>1, <2>2, <2>1
    <3> QED BY <3>1, <3>2
  <2> QED BY <2>1, <2>3, <1>4
<1> QED BY <1>5, <1>6

(* That is a strict total order on sets of ids (the tuple comparison of
   decision.py). *)
LEMMA LowerIdsOrder ==
  ASSUME NEW S \in SUBSET Nat, NEW T \in SUBSET Nat, NEW U \in SUBSET Nat
  PROVE  /\ ~LowerIds(S, S)
         /\ LowerIds(S, T) => ~LowerIds(T, S)
         /\ S = T \/ LowerIds(S, T) \/ LowerIds(T, S)
         /\ LowerIds(S, T) /\ LowerIds(T, U) => LowerIds(S, U)
<1>1. ~LowerIds(S, S) BY DEF LowerIds
<1>2. ASSUME LowerIds(S, T), LowerIds(T, S) PROVE FALSE
  <2>1. PICK m \in S \ T : \A k \in Nat : k < m => (k \in S <=> k \in T) BY <1>2, LowerIdsMeans
  <2>2. PICK n \in T \ S : \A k \in Nat : k < n => (k \in T <=> k \in S) BY <1>2, LowerIdsMeans
  <2>3. m \in Nat /\ n \in Nat /\ m # n OBVIOUS
  <2> QED BY <2>1, <2>2, <2>3
<1>3. ASSUME S # T PROVE LowerIds(S, T) \/ LowerIds(T, S)
  <2> DEFINE D == (S \ T) \cup (T \ S)
  <2>1. D \subseteq Nat /\ D # {} BY <1>3
  <2> HIDE DEF D
  <2>2. PICK m \in D : \A k \in D : m =< k BY <2>1, LeastNat
  <2>3. \A k \in Nat : k < m => (k \in S <=> k \in T)
    <3> SUFFICES ASSUME NEW k \in Nat, k < m PROVE k \in S <=> k \in T OBVIOUS
    <3>1. m \in Nat BY <2>1, <2>2
    <3>2. k \notin D BY <2>2, <3>1
    <3> QED BY <3>2 DEF D
  <2>4. m \in S \ T \/ m \in T \ S BY <2>2 DEF D
  <2>5. CASE m \in S \ T BY <2>5, <2>3, LowerIdsMeans
  <2>6. CASE m \in T \ S BY <2>6, <2>3, LowerIdsMeans
  <2> QED BY <2>4, <2>5, <2>6
<1>4. ASSUME LowerIds(S, T), LowerIds(T, U) PROVE LowerIds(S, U)
  <2>1. PICK m \in S \ T : \A k \in Nat : k < m => (k \in S <=> k \in T) BY <1>4, LowerIdsMeans
  <2>2. PICK n \in T \ U : \A k \in Nat : k < n => (k \in T <=> k \in U) BY <1>4, LowerIdsMeans
  <2>3. m \in Nat /\ n \in Nat /\ m # n OBVIOUS
  <2>4. CASE m < n
    <3>1. m \in S \ U BY <2>1, <2>2, <2>3, <2>4
    <3>2. \A k \in Nat : k < m => (k \in S <=> k \in U) BY <2>1, <2>2, <2>3, <2>4
    <3> QED BY <3>1, <3>2, LowerIdsMeans
  <2>5. CASE n < m
    <3>1. n \in S \ U BY <2>1, <2>2, <2>3, <2>5
    <3>2. \A k \in Nat : k < n => (k \in S <=> k \in U) BY <2>1, <2>2, <2>3, <2>5
    <3> QED BY <3>1, <3>2, LowerIdsMeans
  <2> QED BY <2>3, <2>4, <2>5
<1> QED BY <1>1, <1>2, <1>3, <1>4

-----------------------------------------------------------------------------
(* A scan keeps the best *)

(* A best line-up among X: none scores more than the tolerance above it, and
   of those tied with it it has the lowest ids. *)
Best(v, X, b) ==
  /\ b \in X
  /\ \A x \in X : /\ Objective(v, x) =< Objective(v, b) + Tolerance
                  /\ Near(Objective(v, x), Objective(v, b)) => x = b \/ LowerIds(b, x)

(* Line-ups whose ties are transitive. *)
TiesFine(v, X) ==
  /\ \A x \in X : x \in SUBSET Nat /\ x # {} /\ Objective(v, x) \in Int
  /\ \A x, y \in X : Objective(v, x) - Objective(v, y) \in -(2 * Tolerance) .. 2 * Tolerance
                       => Near(Objective(v, x), Objective(v, y))

(* The tolerance is not negative. *)
LEMMA ToleranceNat == Tolerance \in Nat
BY SquadAssumption

(* The comparison of the scan keeps a best line-up when it meets the next one
   (optimize_xi: better by more than the tolerance, or tied with lower ids). *)
LEMMA KeepBest ==
  ASSUME NEW v, NEW X, NEW x, TiesFine(v, X \cup {x}), NEW b, Best(v, X, b)
  PROVE  Best(v, X \cup {x}, Keep(v, TRUE, b, x))
<1> DEFINE obj(y) == Objective(v, y)
           T == Tolerance
<1>0. T \in Nat BY ToleranceNat
<1>1. \A y \in X \cup {x} : y \in SUBSET Nat /\ y # {} /\ obj(y) \in Int BY DEF TiesFine
<1>2. \A y, z \in X \cup {x} : obj(y) - obj(z) =< 2 * T /\ obj(z) - obj(y) =< 2 * T
                                => obj(y) - obj(z) =< T /\ obj(z) - obj(y) =< T
  <2> SUFFICES ASSUME NEW y \in X \cup {x}, NEW z \in X \cup {x},
                      obj(y) - obj(z) =< 2 * T, obj(z) - obj(y) =< 2 * T
               PROVE obj(y) - obj(z) =< T /\ obj(z) - obj(y) =< T OBVIOUS
  <2>1. obj(y) - obj(z) \in -(2 * T) .. 2 * T BY <1>0, <1>1
  <2>2. Near(obj(y), obj(z)) BY <2>1 DEF TiesFine
  <2> QED BY <2>2, <1>0, <1>1 DEF Near
<1>3. \A y, z \in X \cup {x} : Near(obj(y), obj(z)) <=> obj(y) - obj(z) =< T /\ obj(z) - obj(y) =< T
  BY <1>0, <1>1 DEF Near
<1>4. b \in X /\ \A y \in X : /\ obj(y) =< obj(b) + T
                              /\ Near(obj(y), obj(b)) => y = b \/ LowerIds(b, y)
  BY DEF Best
<1> DEFINE better == obj(x) > obj(b) + T \/ (Near(obj(x), obj(b)) /\ LowerIds(x, b))
<1>5. Keep(v, TRUE, b, x) = IF better THEN x ELSE b BY <1>1, <1>4 DEF Keep, Score
<1> HIDE DEF obj, T
<1>6. CASE obj(x) > obj(b) + T
  <2>1. Keep(v, TRUE, b, x) = x BY <1>5, <1>6
  <2>2. ASSUME NEW y \in X PROVE obj(y) =< obj(x) + T /\ ~Near(obj(y), obj(x))
    <3>1. obj(y) =< obj(b) + T /\ obj(y) \in Int /\ obj(b) \in Int /\ obj(x) \in Int BY <1>1, <1>4
    <3>2. ~(obj(x) - obj(b) =< 2 * T) BY <1>2, <1>4, <1>6, <1>0, <3>1
    <3> QED BY <3>1, <3>2, <1>0, <1>3, <1>6
  <2>3. obj(x) =< obj(x) + T BY <1>0, <1>1
  <2> QED BY <2>1, <2>2, <2>3 DEF Best, obj, T
<1>7. CASE ~(obj(x) > obj(b) + T) /\ Near(obj(x), obj(b)) /\ LowerIds(x, b)
  <2>1. Keep(v, TRUE, b, x) = x BY <1>5, <1>7
  <2>2. obj(x) - obj(b) =< T /\ obj(b) - obj(x) =< T BY <1>3, <1>4, <1>7
  <2>3. ASSUME NEW y \in X
        PROVE  obj(y) =< obj(x) + T /\ (Near(obj(y), obj(x)) => LowerIds(x, y))
    <3>1. obj(y) =< obj(b) + T /\ obj(y) \in Int /\ obj(b) \in Int /\ obj(x) \in Int BY <1>1, <1>4
    <3>2. obj(y) =< obj(x) + 2 * T BY <3>1, <2>2, <1>0
    <3>3. obj(y) =< obj(x) + T
      <4>1. CASE obj(y) =< obj(x) BY <4>1, <3>1, <1>0
      <4>2. CASE obj(y) > obj(x)
        <5>1. obj(y) - obj(x) =< 2 * T /\ obj(x) - obj(y) =< 2 * T BY <3>1, <3>2, <4>2, <1>0
        <5> QED BY <5>1, <1>2, <3>1, <1>0
      <4> QED BY <4>1, <4>2, <3>1
    <3>4. ASSUME Near(obj(y), obj(x)) PROVE LowerIds(x, y)
      <4>1. obj(y) - obj(x) =< T /\ obj(x) - obj(y) =< T BY <3>4, <1>3
      <4>2. obj(y) - obj(b) =< 2 * T /\ obj(b) - obj(y) =< 2 * T BY <4>1, <2>2, <3>1, <1>0
      <4>3. Near(obj(y), obj(b)) BY <4>2, <1>2, <1>3, <1>4
      <4>4. y = b \/ LowerIds(b, y) BY <4>3, <1>4
      <4>5. x \in SUBSET Nat /\ b \in SUBSET Nat /\ y \in SUBSET Nat BY <1>1, <1>4
      <4>6. LowerIds(x, b) /\ LowerIds(b, y) => LowerIds(x, y) BY <4>5, LowerIdsOrder
      <4> QED BY <4>4, <4>6, <1>7
    <3> QED BY <3>3, <3>4
  <2>4. obj(x) =< obj(x) + T BY <1>0, <1>1
  <2> QED BY <2>1, <2>3, <2>4 DEF Best, obj, T
<1>8. CASE ~better
  <2>1. Keep(v, TRUE, b, x) = b BY <1>5, <1>8
  <2>2. obj(x) =< obj(b) + T BY <1>8, <1>0, <1>1, <1>4
  <2>3. x \in SUBSET Nat /\ b \in SUBSET Nat BY <1>1, <1>4
  <2>4. Near(obj(x), obj(b)) => x = b \/ LowerIds(b, x) BY <1>8, <2>3, LowerIdsOrder
  <2> QED BY <2>1, <2>2, <2>4, <1>4 DEF Best, obj, T
<1> QED BY <1>6, <1>7, <1>8

(* So what a scan has kept at its end is best among all it met, whatever
   their order. *)
LEMMA KeptBest ==
  ASSUME NEW v, NEW n, n # 0, NEW lineUps, NEW X, TiesFine(v, X), SequenceIn(lineUps, n, X)
  PROVE  Best(v, {lineUps[i] : i \in 1 .. n}, Kept(v, TRUE, lineUps))
<1> DEFINE V == X \cup {{}}
           Upto(i) == {lineUps[j] : j \in 1 .. i}
<1>0. n \in Nat /\ DOMAIN lineUps = 1 .. n /\ \A i \in 1 .. n : lineUps[i] \in X BY DEF SequenceIn
<1>1. {} \in V /\ SequenceIn(lineUps, n, V) BY <1>0 DEF SequenceIn
<1> HIDE DEF V
<1>7. PICK k : ScanOf(k, v, TRUE, lineUps, n) BY <1>1, KeptScan
<1>2. /\ k[0] = {}
      /\ \A i \in 1 .. n : k[i] = Keep(v, TRUE, k[i - 1], lineUps[i])
      /\ Kept(v, TRUE, lineUps) = k[n]
  BY <1>7 DEF ScanOf
<1> DEFINE N == {i \in Nat : i \in 1 .. n => Best(v, Upto(i), k[i])}
<1>3. 0 \in N OBVIOUS
<1>4. ASSUME NEW i \in Nat, i \in N PROVE i + 1 \in N
  <2> SUFFICES ASSUME i + 1 \in 1 .. n PROVE Best(v, Upto(i + 1), k[i + 1]) OBVIOUS
  <2> DEFINE x == lineUps[i + 1]
  <2>1. k[i + 1] = Keep(v, TRUE, k[i], x)
    <3>1. (i + 1) - 1 = i OBVIOUS
    <3> QED BY <3>1, <1>2
  <2>2. x \in X /\ \A j \in 1 .. i : lineUps[j] \in X
    <3>1. \A j \in 1 .. i : j \in 1 .. n BY <1>0
    <3> QED BY <3>1, <1>0
  <2>3. CASE i = 0
    <3>1. k[i + 1] = x
      <4>1. k[i] = {} BY <2>3, <1>2
      <4>2. k[i + 1] = Keep(v, TRUE, {}, x) BY <2>1, <4>1
      <4> HIDE DEF x
      <4> QED BY <4>2 DEF Keep
    <3>2. Upto(i + 1) = {x}
      <4>1. \A j : j \in 1 .. (i + 1) <=> j = i + 1 BY <2>3
      <4> QED BY <4>1
    <3>3. Objective(v, x) \in Int /\ Tolerance \in Nat BY <2>2, ToleranceNat DEF TiesFine
    <3> HIDE DEF Upto, x
    <3>4. Best(v, {x}, x) BY <3>3 DEF Best
    <3> QED BY <3>1, <3>2, <3>4
  <2>4. CASE i # 0
    <3>1. Best(v, Upto(i), k[i])
      <4>1. i \in 1 .. n BY <1>0, <1>4, <2>4
      <4> HIDE DEF Upto, x
      <4> QED BY <4>1, <1>4
    <3>2. Upto(i + 1) = Upto(i) \cup {x}
      <4>1. 1 .. (i + 1) = (1 .. i) \cup {i + 1} OBVIOUS
      <4> QED BY <4>1
    <3>3. Upto(i) \cup {x} \subseteq X BY <2>2
    <3> HIDE DEF Upto, x
    <3>4. PICK Y : Y = Upto(i) OBVIOUS
    <3>5. TiesFine(v, Y \cup {x}) BY <3>3, <3>4 DEF TiesFine
    <3>6. Best(v, Y, k[i]) BY <3>1, <3>4
    <3>7. Best(v, Y \cup {x}, Keep(v, TRUE, k[i], x)) BY ONLY <3>5, <3>6, KeepBest
    <3> QED BY <3>2, <3>4, <3>7, <2>1
  <2> QED BY <2>3, <2>4
<1> HIDE DEF N
<1>5. Nat \subseteq N BY ONLY <1>3, <1>4, Induction
<1>6. Best(v, Upto(n), k[n])
  <2>1. n \in 1 .. n /\ n \in N BY <1>0, <1>5, n # 0
  <2> QED BY <2>1 DEF N
<1> QED BY <1>6, <1>2

-----------------------------------------------------------------------------
(* Enumerations *)

(* A tabulated function is the function. *)
LEMMA TabulatedIs == ASSUME NEW f PROVE Tabulated(f) = f
BY DEF Tabulated

(* The enumeration of a set by rank; and a sequence that lists a set. *)
ByRank(e, S, R) == e = [i \in 1 .. Cardinality(S) |-> CHOOSE x \in S : Rank(S, R, x) = i - 1]
Lists(e, S) ==
  /\ DOMAIN e = 1 .. Cardinality(S)
  /\ \A i \in 1 .. Cardinality(S) : e[i] \in S
  /\ \A x \in S : \E i \in 1 .. Cardinality(S) : e[i] = x

(* The enumeration by rank lists the set. *)
LEMMA Enumerated ==
  ASSUME NEW S, IsFiniteSet(S), NEW R, Ordered(S, R), NEW e, ByRank(e, S, R)
  PROVE  Lists(e, S)
<1> USE DEF ByRank
<1> DEFINE n == Cardinality(S)
<1>1. n \in Nat BY FS_CardinalityType
<1>2. \A i \in 1 .. n : e[i] \in S /\ Rank(S, R, e[i]) = i - 1
  <2> SUFFICES ASSUME NEW i \in 1 .. n PROVE e[i] \in S /\ Rank(S, R, e[i]) = i - 1 OBVIOUS
  <2>1. i - 1 \in 0 .. (Cardinality(S) - 1) BY <1>1
  <2>2. \E x \in S : Rank(S, R, x) = i - 1 BY ONLY <2>1, IsFiniteSet(S), Ordered(S, R), RankSurjective
  <2> QED BY <2>2
<1>3. ASSUME NEW x \in S PROVE \E i \in 1 .. n : e[i] = x
  <2> DEFINE i == Rank(S, R, x) + 1
  <2>1. Rank(S, R, x) \in 0 .. (n - 1) BY RankBound
  <2>2. i \in 1 .. n /\ i - 1 = Rank(S, R, x) BY <1>1, <2>1
  <2> HIDE DEF i
  <2>3. e[i] \in S /\ Rank(S, R, e[i]) = Rank(S, R, x) BY <1>2, <2>2
  <2>4. e[i] = x BY <2>3, RankOrder
  <2> QED BY <2>2, <2>4
<1> QED BY <1>2, <1>3 DEF Lists

-----------------------------------------------------------------------------
(* Players with a projection, and who leads them *)

(* Players who all have a projection, and their order for the armband. *)
Playable(v, S) == S \in SUBSET Player /\ \A p \in S : v[p] \in Int
AheadOn(v, S) == {e \in S \X S : Ahead(v, e[1], e[2])}

(* Players are finitely many ids. *)
LEMMA PlayerNat == Player \subseteq Nat /\ IsFiniteSet(Player)
BY SquadAssumption

(* Their projections can be summed. *)
LEMMA PlayableSummable ==
  ASSUME NEW v, NEW S, Playable(v, S)
  PROVE  Summable(v, S) /\ IsFiniteSet(S) /\ S \subseteq Nat
BY PlayerNat, FS_Subset DEF Playable, Summable

(* Projection, then lower id, is a strict total order on them. *)
LEMMA AheadOrdered ==
  ASSUME NEW v, NEW S, Playable(v, S)
  PROVE  Ordered(S, AheadOn(v, S))
<1>1. \A p \in S : p \in Nat /\ v[p] \in Int BY PlayerNat DEF Playable
<1>2. \A p, q \in S : <<p, q>> \in AheadOn(v, S) <=> v[p] > v[q] \/ (v[p] = v[q] /\ p < q)
  BY DEF AheadOn, Ahead
<1>3. \A p \in S : <<p, p>> \notin AheadOn(v, S) BY <1>1, <1>2
<1>4. \A p, q \in S : p = q \/ <<p, q>> \in AheadOn(v, S) \/ <<q, p>> \in AheadOn(v, S)
  <2> SUFFICES ASSUME NEW p \in S, NEW q \in S, p # q
               PROVE  <<p, q>> \in AheadOn(v, S) \/ <<q, p>> \in AheadOn(v, S) OBVIOUS
  <2>1. p \in Nat /\ q \in Nat /\ v[p] \in Int /\ v[q] \in Int BY <1>1
  <2>2. \/ v[p] > v[q] \/ (v[p] = v[q] /\ p < q)
        \/ v[q] > v[p] \/ (v[q] = v[p] /\ q < p) BY <2>1
  <2> QED BY <2>2, <1>2
<1>5. ASSUME NEW p \in S, NEW q \in S, NEW r \in S,
             <<p, q>> \in AheadOn(v, S), <<q, r>> \in AheadOn(v, S)
      PROVE  <<p, r>> \in AheadOn(v, S)
  <2>1. (v[p] > v[q] \/ (v[p] = v[q] /\ p < q)) /\ (v[q] > v[r] \/ (v[q] = v[r] /\ q < r))
    BY <1>2, <1>5
  <2>2. v[p] > v[r] \/ (v[p] = v[r] /\ p < r) BY <2>1, <1>1
  <2> QED BY <2>2, <1>2
<1> QED BY <1>3, <1>4, <1>5 DEF Ordered

(* The captain of a line-up is one of its players, and nobody in it has a
   higher projection. *)
LEMMA LeaderLeads ==
  ASSUME NEW v, NEW S, Playable(v, S), S # {}
  PROVE  Leader(v, S) \in S /\ \A q \in S : v[q] =< v[Leader(v, S)]
<1>1. \E p \in S : \A q \in S \ {p} : <<p, q>> \in AheadOn(v, S)
  BY AheadOrdered, PlayableSummable, LeastElement
<1>2. \E p \in S : \A q \in S \ {p} : Ahead(v, p, q) BY <1>1 DEF AheadOn
<1>3. Leader(v, S) \in S /\ \A q \in S \ {Leader(v, S)} : Ahead(v, Leader(v, S), q)
  BY <1>2 DEF Leader
<1> QED BY <1>3 DEF Ahead, Playable

(* A line-up has an integer score. *)
LEMMA ObjectiveInt ==
  ASSUME NEW v, NEW S, Playable(v, S), S # {}
  PROVE  Objective(v, S) \in Int /\ Sum(v, S) \in Int
<1>1. Sum(v, S) \in Int BY PlayableSummable, SumStep
<1>2. v[Leader(v, S)] \in Int BY LeaderLeads DEF Playable
<1> QED BY <1>1, <1>2 DEF Objective, Base

-----------------------------------------------------------------------------
(* Line-ups and the scan of them *)

(* The table of line-ups holds the legal line-ups of each squad. *)
LEMMA LineUpsAre ==
  ASSUME NEW S \in Squads
  PROVE  LineUps[S] = {xi \in SUBSET S : LineUp(S, xi)}
BY TabulatedIs DEF LineUps

(* The players of a position are players of the set. *)
LEMMA OfSubset ==
  ASSUME NEW S, NEW pos
  PROVE  Of(S, pos) \in SUBSET S
BY DEF Of

(* What a line-up is. *)
LEMMA LineUpFacts ==
  ASSUME NEW S \in Squads, NEW x \in LineUps[S]
  PROVE  /\ x \in SUBSET S /\ x \in SUBSET Player /\ x \in SUBSET Nat
         /\ IsFiniteSet(x) /\ Cardinality(x) = StartingSize /\ x # {}
         /\ LineUp(S, x)
<1>1. x \in SUBSET S /\ LineUp(S, x) BY LineUpsAre
<1>2. x \in SUBSET Player BY <1>1 DEF Squads
<1>3. IsFiniteSet(x) BY <1>2, PlayerNat, FS_Subset
<1>4. Cardinality(x) = StartingSize /\ Cardinality(Of(x, "GK")) = 1 BY <1>1 DEF LineUp
<1>5. x # {}
  <2> SUFFICES ASSUME x = {} PROVE FALSE OBVIOUS
  <2>1. Of(x, "GK") = {} BY DEF Of
  <2> QED BY <2>1, <1>4, FS_EmptySet
<1> QED BY <1>1, <1>2, <1>3, <1>4, <1>5, PlayerNat

(* A squad has finitely many of them. *)
LEMMA LineUpsFinite ==
  ASSUME NEW S \in Squads
  PROVE  IsFiniteSet(LineUps[S])
<1>1. IsFiniteSet(SUBSET Player) BY PlayerNat, FS_SUBSET
<1>2. LineUps[S] \in SUBSET (SUBSET Player) BY LineUpFacts
<1> QED BY ONLY <1>1, <1>2, FS_Subset

(* The size of a disjoint union. *)
LEMMA DisjointUnion ==
  ASSUME NEW A, NEW B, IsFiniteSet(A), IsFiniteSet(B), A \cap B = {}
  PROVE  IsFiniteSet(A \cup B) /\ Cardinality(A \cup B) = Cardinality(A) + Cardinality(B)
<1>1. Cardinality(A \cap B) = 0 BY FS_EmptySet
<1>2. /\ IsFiniteSet(A \cup B)
      /\ Cardinality(A \cup B) = Cardinality(A) + Cardinality(B) - Cardinality(A \cap B) BY FS_Union
<1>3. Cardinality(A) \in Nat /\ Cardinality(B) \in Nat BY FS_CardinalityType
<1> QED BY <1>1, <1>2, <1>3

(* A set of players is counted position by position. *)
LEMMA PositionCount ==
  ASSUME NEW S \in SUBSET Player
  PROVE  /\ \A pos \in Positions : IsFiniteSet(Of(S, pos)) /\ Cardinality(Of(S, pos)) \in Nat
         /\ Cardinality(S) = Cardinality(Of(S, "GK")) + Cardinality(Of(S, "DEF"))
                             + Cardinality(Of(S, "MID")) + Cardinality(Of(S, "FWD"))
<1> DEFINE G == Of(S, "GK")  D == Of(S, "DEF")  M == Of(S, "MID")  F == Of(S, "FWD")
<1>1. IsFiniteSet(S) BY PlayerNat, FS_Subset
<1>2. \A pos : IsFiniteSet(Of(S, pos)) BY <1>1, OfSubset, FS_Subset
<1>3. \A pos : Cardinality(Of(S, pos)) \in Nat BY <1>2, FS_CardinalityType
<1>4. S = ((G \cup D) \cup M) \cup F BY SquadAssumption DEF Positions, Of
<1>5. G \cap D = {} /\ (G \cup D) \cap M = {} /\ ((G \cup D) \cup M) \cap F = {} BY DEF Of
<1>6. IsFiniteSet(G) /\ IsFiniteSet(D) /\ IsFiniteSet(M) /\ IsFiniteSet(F) BY <1>2
<1> HIDE DEF G, D, M, F
<1>7. IsFiniteSet(G \cup D) /\ Cardinality(G \cup D) = Cardinality(G) + Cardinality(D)
  BY <1>5, <1>6, DisjointUnion
<1>8. /\ IsFiniteSet((G \cup D) \cup M)
      /\ Cardinality((G \cup D) \cup M) = Cardinality(G \cup D) + Cardinality(M)
  BY <1>5, <1>6, <1>7, DisjointUnion
<1>9. Cardinality(((G \cup D) \cup M) \cup F) = Cardinality((G \cup D) \cup M) + Cardinality(F)
  BY <1>5, <1>6, <1>8, DisjointUnion
<1>10. Cardinality(S) = Cardinality(G) + Cardinality(D) + Cardinality(M) + Cardinality(F)
  <2>1. Cardinality(S) = Cardinality(((G \cup D) \cup M) \cup F) BY ONLY <1>4, Zenon
  <2> QED BY ONLY <2>1, <1>7, <1>8, <1>9
<1> QED BY <1>2, <1>3, <1>10 DEF G, D, M, F

(* The order of the nested loops on the line-ups of a squad. *)
ScannedOn(S) == {e \in LineUps[S] \X LineUps[S] : ScannedBefore(e[1], e[2])}

(* The nested loops meet any two different line-ups one after the other: a
   strict total order (the loops of optimize_xi). *)
LEMMA ScannedOrdered ==
  ASSUME NEW S \in Squads
  PROVE  Ordered(LineUps[S], ScannedOn(S))
<1>1. \A x, y \in LineUps[S] : <<x, y>> \in ScannedOn(S) <=> ScannedBefore(x, y) BY DEF ScannedOn
<1>2. \A x \in LineUps[S] : \A pos : Of(x, pos) \in SUBSET Nat BY LineUpFacts, OfSubset
<1>3. \A x \in LineUps[S] : ~ScannedBefore(x, x)
  <2> SUFFICES ASSUME NEW x \in LineUps[S] PROVE ~ScannedBefore(x, x) OBVIOUS
  <2>1. \A pos : ~LowerIds(Of(x, pos), Of(x, pos)) BY <1>2, LowerIdsOrder
  <2>2. \A pos \in Positions : Cardinality(Of(x, pos)) \in Nat BY LineUpFacts, PositionCount
  <2> QED BY <2>1, <2>2 DEF ScannedBefore, Formation, Positions
<1>4. ASSUME NEW x \in LineUps[S], NEW y \in LineUps[S], x # y
      PROVE  ScannedBefore(x, y) \/ ScannedBefore(y, x)
  <2> DEFINE n(z, pos) == Cardinality(Of(z, pos))
  <2>1. \A pos : Of(x, pos) = Of(y, pos) \/ LowerIds(Of(x, pos), Of(y, pos))
                 \/ LowerIds(Of(y, pos), Of(x, pos)) BY <1>2, LowerIdsOrder
  <2>2. /\ \A pos \in Positions : n(x, pos) \in Nat /\ n(y, pos) \in Nat
        /\ n(x, "GK") + n(x, "DEF") + n(x, "MID") + n(x, "FWD") = StartingSize
        /\ n(y, "GK") + n(y, "DEF") + n(y, "MID") + n(y, "FWD") = StartingSize
        /\ n(x, "GK") = 1 /\ n(y, "GK") = 1
    BY LineUpFacts, PositionCount DEF LineUp
  <2>3. ~(\A pos \in Positions : Of(x, pos) = Of(y, pos))
    <3>1. \A z \in LineUps[S] : \A p \in z : Position[p] \in Positions /\ p \in Of(z, Position[p])
      BY LineUpFacts, SquadAssumption DEF Of
    <3> SUFFICES ASSUME \A pos \in Positions : Of(x, pos) = Of(y, pos) PROVE FALSE OBVIOUS
    <3>2. \A p \in x : p \in Of(y, Position[p]) BY <3>1
    <3>3. \A p \in y : p \in Of(x, Position[p]) BY <3>1
    <3>4. x \subseteq y /\ y \subseteq x BY <3>2, <3>3, OfSubset
    <3> QED BY <3>4, <1>4
  <2>4. \A z : /\ Formation(z)["DEF"] = n(z, "DEF") /\ Formation(z)["MID"] = n(z, "MID")
               /\ Formation(z)["FWD"] = n(z, "FWD") BY DEF Formation, Positions
  <2>5. n(x, "DEF") = n(y, "DEF") /\ n(x, "MID") = n(y, "MID") => Formation(x) = Formation(y)
    <3> SUFFICES ASSUME n(x, "DEF") = n(y, "DEF"), n(x, "MID") = n(y, "MID")
                 PROVE  Formation(x) = Formation(y) OBVIOUS
    <3>0. "GK" \in Positions /\ "DEF" \in Positions /\ "MID" \in Positions /\ "FWD" \in Positions
      BY DEF Positions
    <3>4. /\ n(x, "DEF") \in Nat /\ n(x, "MID") \in Nat /\ n(x, "FWD") \in Nat
          /\ n(y, "FWD") \in Nat BY <2>2, <3>0
    <3>1. n(x, "FWD") = n(y, "FWD")
      <4> HIDE DEF n
      <4> QED BY <2>2, <3>4
    <3>2. \A pos \in Positions \ {"GK"} : n(x, pos) = n(y, pos) BY <3>1 DEF Positions
    <3> QED BY <3>2 DEF Formation
  <2>6. \A a, b \in Nat : a < b \/ b < a \/ a = b OBVIOUS
  <2>7. "DEF" \in Positions /\ "MID" \in Positions BY DEF Positions
  <2> HIDE DEF n
  <2>8. \/ n(x, "DEF") < n(y, "DEF") \/ n(y, "DEF") < n(x, "DEF")
        \/ n(x, "DEF") = n(y, "DEF") /\ n(x, "MID") < n(y, "MID")
        \/ n(x, "DEF") = n(y, "DEF") /\ n(y, "MID") < n(x, "MID")
        \/ n(x, "DEF") = n(y, "DEF") /\ n(x, "MID") = n(y, "MID")
    BY <2>2, <2>6, <2>7
  <2> QED BY <2>1, <2>3, <2>4, <2>5, <2>8 DEF ScannedBefore, Positions
<1>5. ASSUME NEW x \in LineUps[S], NEW y \in LineUps[S], NEW z \in LineUps[S],
             ScannedBefore(x, y), ScannedBefore(y, z)
      PROVE  ScannedBefore(x, z)
  <2>1. \A pos : LowerIds(Of(x, pos), Of(y, pos)) /\ LowerIds(Of(y, pos), Of(z, pos))
                   => LowerIds(Of(x, pos), Of(z, pos)) BY <1>2, LowerIdsOrder
  <2>2. \A w \in {x, y, z} : \A pos \in Positions : Cardinality(Of(w, pos)) \in Nat BY LineUpFacts, PositionCount
  <2>3. \A w \in {x, y, z} : Formation(w)["DEF"] \in Nat /\ Formation(w)["MID"] \in Nat
    BY <2>2 DEF Formation, Positions
  <2> QED BY <2>1, <2>3, <1>5 DEF ScannedBefore
<1> QED BY <1>1, <1>3, <1>4, <1>5 DEF Ordered

(* The scan enumerates the line-ups by that order. *)
LEMMA ScanIsInOrder ==
  ASSUME NEW S \in Squads
  PROVE  ByRank(ScanOrder[S], LineUps[S], ScannedOn(S))
<1>1. ScanOrder[S] = InOrder(LineUps[S], ScannedBefore) BY TabulatedIs DEF ScanOrder
<1>2. \A x \in LineUps[S] :
        {y \in LineUps[S] : ScannedBefore(y, x)} = Predecessors(LineUps[S], ScannedOn(S), x)
  BY DEF Predecessors, ScannedOn
<1> QED BY <1>1, <1>2 DEF InOrder, Rank, ByRank

(* The scan of a squad meets every line-up of it, and nothing else. *)
LEMMA ScanEnumerates ==
  ASSUME NEW S \in Squads
  PROVE  /\ SequenceIn(ScanOrder[S], Cardinality(LineUps[S]), LineUps[S])
         /\ {ScanOrder[S][i] : i \in 1 .. Cardinality(LineUps[S])} = LineUps[S]
<1>1. /\ DOMAIN ScanOrder[S] = 1 .. Cardinality(LineUps[S])
      /\ \A i \in 1 .. Cardinality(LineUps[S]) : ScanOrder[S][i] \in LineUps[S]
      /\ \A x \in LineUps[S] : \E i \in 1 .. Cardinality(LineUps[S]) : ScanOrder[S][i] = x
  <2>1. PICK e : e = ScanOrder[S] OBVIOUS
  <2>2. PICK L : L = LineUps[S] OBVIOUS
  <2>3. PICK R : R = ScannedOn(S) OBVIOUS
  <2>4. ByRank(e, L, R) BY ONLY <2>1, <2>2, <2>3, ScanIsInOrder, S \in Squads, Zenon
  <2>5. IsFiniteSet(L) /\ Ordered(L, R) BY <2>2, <2>3, LineUpsFinite, ScannedOrdered, Zenon
  <2>6. Lists(e, L) BY ONLY <2>4, <2>5, Enumerated
  <2> QED BY <2>1, <2>2, <2>6 DEF Lists
<1>2. Cardinality(LineUps[S]) \in Nat BY LineUpsFinite, FS_CardinalityType
<1> QED BY <1>1, <1>2 DEF SequenceIn

-----------------------------------------------------------------------------
(* The greedy choice within a formation *)

(* A finite set of integers that is not empty has a maximum. *)
LEMMA FiniteMax ==
  ASSUME NEW T, T \subseteq Int, IsFiniteSet(T), T # {}
  PROVE  Max(T) \in T /\ Max(T) \in Int /\ \A y \in T : y =< Max(T)
<1> DEFINE R == {e \in T \X T : e[1] > e[2]}
<1>1. \A x, y \in T : <<x, y>> \in R <=> x > y OBVIOUS
<1>2. \A x \in T : x \in Int OBVIOUS
<1> HIDE DEF R
<1>3. Ordered(T, R) BY <1>1, <1>2 DEF Ordered
<1>4. \E x \in T : \A y \in T \ {x} : <<x, y>> \in R BY ONLY <1>3, IsFiniteSet(T), T # {}, LeastElement
<1>5. \E x \in T : \A y \in T : x >= y
  <2>1. PICK x \in T : \A y \in T \ {x} : <<x, y>> \in R BY <1>4
  <2>2. ASSUME NEW y \in T PROVE x >= y
    <3>1. CASE y = x BY <3>1, <1>2
    <3>2. CASE y # x
      <4>1. x > y BY <3>2, <2>1, <1>1
      <4> QED BY <4>1, <1>2
    <3> QED BY <3>1, <3>2
  <2> QED BY <2>2
<1> QED BY <1>2, <1>5 DEF Max

(* The image of a finite set is finite. *)
LEMMA ImageFinite ==
  ASSUME NEW S, IsFiniteSet(S), NEW f
  PROVE  IsFiniteSet({f[x] : x \in S})
<1> DEFINE T == {f[x] : x \in S}
           g == [x \in S |-> f[x]]
<1>1. g \in [S -> T] /\ \A y \in T : \E x \in S : g[x] = y OBVIOUS
<1>2. g \in Surjection(S, T) BY <1>1 DEF Surjection
<1> HIDE DEF T, g
<1>3. IsFiniteSet(T) BY ONLY <1>2, IsFiniteSet(S), FS_Surjection
<1> QED BY <1>3 DEF T

(* The top k of a position are k players, ahead of all the others. *)
LEMMA TopFacts ==
  ASSUME NEW v, NEW T, Playable(v, T), NEW k \in Nat, k =< Cardinality(T)
  PROVE  /\ Top(v, T, k) \in SUBSET T
         /\ Cardinality(Top(v, T, k)) = k
         /\ \A p \in Top(v, T, k) : \A q \in T \ Top(v, T, k) : Ahead(v, p, q)
<1> DEFINE R == AheadOn(v, T)
<1>1. IsFiniteSet(T) /\ Ordered(T, R) BY PlayableSummable, AheadOrdered
<1>2. \A p \in T : {q \in T : Ahead(v, q, p)} = Predecessors(T, R, p) BY DEF Predecessors, AheadOn
<1>3. Top(v, T, k) = {p \in T : Rank(T, R, p) < k} BY <1>2 DEF Top, Rank
<1>4. Cardinality(T) \in Nat BY <1>1, FS_CardinalityType
<1>5. k \in 0 .. Cardinality(T) BY <1>4
<1> HIDE DEF R
<1>6. Cardinality({p \in T : Rank(T, R, p) < k}) = k BY ONLY <1>1, <1>5, LowRanks
<1>7. ASSUME NEW p \in Top(v, T, k), NEW q \in T \ Top(v, T, k) PROVE Ahead(v, p, q)
  <2>1. p \in T /\ Rank(T, R, p) < k /\ q \in T /\ ~(Rank(T, R, q) < k) BY <1>3
  <2>2. Rank(T, R, p) \in 0 .. (Cardinality(T) - 1) BY ONLY <2>1, <1>1, RankBound
  <2>3. Rank(T, R, q) \in 0 .. (Cardinality(T) - 1) BY ONLY <2>1, <1>1, RankBound
  <2>4. Rank(T, R, p) < Rank(T, R, q) BY <2>1, <2>2, <2>3, <1>4
  <2>5. <<p, q>> \in R BY ONLY <2>1, <2>4, <1>1, RankOrder
  <2> QED BY <2>5 DEF R, AheadOn
<1> QED BY <1>3, <1>6, <1>7

(* What a squad is. *)
LEMMA SquadFacts ==
  ASSUME NEW S \in Squads
  PROVE  /\ S \in SUBSET Player /\ S \in SUBSET Nat /\ IsFiniteSet(S)
         /\ \A pos \in Positions : Cardinality(Of(S, pos)) = SquadCount[pos]
BY PlayerNat, FS_Subset DEF Squads, SquadShape

(* A formation fills the line-up, and every squad has the players for it. *)
LEMMA FormationFacts ==
  ASSUME NEW f \in FormationSet
  PROVE  /\ f["DEF"] \in Nat /\ f["MID"] \in Nat /\ f["FWD"] \in Nat
         /\ f["DEF"] + f["MID"] + f["FWD"] = StartingSize - 1
         /\ \A pos \in Positions \ {"GK"} : /\ f[pos] \in Nat /\ f[pos] =< SquadCount[pos]
                                            /\ f[pos] \in StartLeast[pos] .. StartMost[pos]
         /\ 1 =< SquadCount["GK"] /\ 1 \in StartLeast["GK"] .. StartMost["GK"]
<1>1. \A pos \in Positions : /\ SquadCount[pos] \in Nat /\ StartLeast[pos] \in Nat
                             /\ StartMost[pos] \in Nat /\ StartMost[pos] =< SquadCount[pos]
  BY SquadAssumption, FormationAssumption
<1>2. /\ f \in [Positions \ {"GK"} -> 0 .. StartingSize]
      /\ f["DEF"] + f["MID"] + f["FWD"] = StartingSize - 1
      /\ \A pos \in Positions \ {"GK"} : f[pos] \in StartLeast[pos] .. StartMost[pos]
  BY DEF FormationSet
<1>3. \A pos \in Positions \ {"GK"} : f[pos] \in Nat /\ f[pos] =< SquadCount[pos]
  <2> SUFFICES ASSUME NEW pos \in Positions \ {"GK"}
               PROVE  f[pos] \in Nat /\ f[pos] =< SquadCount[pos] OBVIOUS
  <2>1. f[pos] \in StartLeast[pos] .. StartMost[pos] BY <1>2
  <2>2. /\ SquadCount[pos] \in Nat /\ StartLeast[pos] \in Nat
        /\ StartMost[pos] \in Nat /\ StartMost[pos] =< SquadCount[pos] BY <1>1
  <2> QED BY <2>1, <2>2
<1>4. "GK" \in Positions /\ {"DEF", "MID", "FWD"} \subseteq Positions \ {"GK"} BY DEF Positions
<1>5. 1 =< SquadCount["GK"] /\ 1 \in StartLeast["GK"] .. StartMost["GK"]
  <2>1. /\ SquadCount["GK"] \in Nat /\ StartLeast["GK"] \in Nat
        /\ StartMost["GK"] \in Nat /\ StartMost["GK"] =< SquadCount["GK"] BY <1>1, <1>4
  <2> QED BY <2>1, FormationAssumption
<1> QED BY <1>2, <1>3, <1>4, <1>5

(* The greedy line-up of a formation is a legal line-up with that formation
   (_fixed_squad_diagnostic of decision_reliability.py). *)
LEMMA GreedyFacts ==
  ASSUME NEW v, NEW S \in Squads, Playable(v, S), NEW f \in FormationSet
  PROVE  /\ FormationXI(v, S, f) \in LineUps[S]
         /\ Of(FormationXI(v, S, f), "GK") = Top(v, Of(S, "GK"), 1)
         /\ \A pos \in Positions \ {"GK"} : Of(FormationXI(v, S, f), pos) = Top(v, Of(S, pos), f[pos])
         /\ Formation(FormationXI(v, S, f)) = f
<1> DEFINE n == [pos \in Positions |-> IF pos = "GK" THEN 1 ELSE f[pos]]
           part(pos) == Top(v, Of(S, pos), n[pos])
           xi == FormationXI(v, S, f)
<1>1. \A pos \in Positions : n[pos] \in Nat /\ n[pos] =< SquadCount[pos]
                             /\ n[pos] \in StartLeast[pos] .. StartMost[pos]
  BY FormationFacts
<1>2. \A pos \in Positions : /\ Playable(v, Of(S, pos)) /\ Cardinality(Of(S, pos)) = SquadCount[pos]
  BY SquadFacts, OfSubset DEF Playable
<1>3. \A pos \in Positions : part(pos) \in SUBSET Of(S, pos) /\ Cardinality(part(pos)) = n[pos]
  <2> SUFFICES ASSUME NEW pos \in Positions
               PROVE  part(pos) \in SUBSET Of(S, pos) /\ Cardinality(part(pos)) = n[pos] OBVIOUS
  <2>1. n[pos] \in Nat /\ n[pos] =< Cardinality(Of(S, pos)) /\ Playable(v, Of(S, pos)) BY <1>1, <1>2
  <2> HIDE DEF n
  <2> QED BY ONLY <2>1, TopFacts
<1>4. /\ part("GK") = Top(v, Of(S, "GK"), 1)
      /\ \A pos \in Positions \ {"GK"} : part(pos) = Top(v, Of(S, pos), f[pos]) BY DEF Positions
<1>5. DOMAIN f = Positions \ {"GK"} BY DEF FormationSet
<1>6. \A p : p \in xi <=> \E pos \in Positions : p \in part(pos)
  BY <1>4, <1>5 DEF FormationXI, Positions
<1> HIDE DEF xi, part, n
<1>7. \A pos \in Positions : \A p \in part(pos) : p \in S /\ Position[p] = pos
  BY <1>3 DEF Of
<1>8. \A pos \in Positions : Of(xi, pos) = part(pos)
  BY <1>6, <1>7 DEF Of
<1>9. xi \in SUBSET S /\ xi \in SUBSET Player BY <1>6, <1>7, SquadFacts
<1>10. "GK" \in Positions /\ "DEF" \in Positions /\ "MID" \in Positions /\ "FWD" \in Positions
  BY DEF Positions
<1>11. n["GK"] = 1 /\ \A pos \in Positions \ {"GK"} : n[pos] = f[pos] BY DEF n, Positions
<1>12. \A pos \in Positions : Cardinality(Of(xi, pos)) = n[pos] BY <1>3, <1>8
<1>13. Cardinality(xi) = StartingSize
  <2>1. Cardinality(xi) = Cardinality(Of(xi, "GK")) + Cardinality(Of(xi, "DEF"))
                             + Cardinality(Of(xi, "MID")) + Cardinality(Of(xi, "FWD"))
    BY <1>9, PositionCount
  <2>2. Cardinality(xi) = 1 + f["DEF"] + f["MID"] + f["FWD"]
    BY <2>1, <1>10, <1>11, <1>12 DEF Positions
  <2>3. /\ f["DEF"] \in Nat /\ f["MID"] \in Nat /\ f["FWD"] \in Nat
        /\ f["DEF"] + f["MID"] + f["FWD"] = StartingSize - 1 BY FormationFacts
  <2>4. StartingSize \in Nat BY SquadAssumption
  <2> QED BY ONLY <2>2, <2>3, <2>4
<1>14. LineUp(S, xi)
  <2>1. \A pos \in Positions : Cardinality(Of(xi, pos)) \in StartLeast[pos] .. StartMost[pos]
    BY <1>12, <1>1
  <2>2. Cardinality(Of(xi, "GK")) = 1 BY <1>10, <1>11, <1>12
  <2> QED BY <2>1, <2>2, <1>9, <1>13 DEF LineUp
<1>15. xi \in LineUps[S] BY <1>9, <1>14, LineUpsAre
<1>16. Formation(xi) = f
  <2>1. \A pos \in Positions \ {"GK"} : Cardinality(Of(xi, pos)) = f[pos] BY <1>11, <1>12
  <2>2. f = [pos \in Positions \ {"GK"} |-> f[pos]] BY DEF FormationSet
  <2> QED BY <2>1, <2>2 DEF Formation
<1> QED BY <1>4, <1>8, <1>10, <1>15, <1>16 DEF xi

(* Some formation is possible. *)
LEMMA FormationExists == FormationSet # {}
<1>1. PICK d \in 0 .. StartingSize, m \in 0 .. StartingSize, k \in 0 .. StartingSize :
       /\ d + m + k = StartingSize - 1
       /\ d \in StartLeast["DEF"] .. StartMost["DEF"]
       /\ m \in StartLeast["MID"] .. StartMost["MID"]
       /\ k \in StartLeast["FWD"] .. StartMost["FWD"]
  BY FormationAssumption
<1> DEFINE f == [pos \in Positions \ {"GK"} |-> IF pos = "DEF" THEN d ELSE IF pos = "MID" THEN m ELSE k]
<1>2. f["DEF"] = d /\ f["MID"] = m /\ f["FWD"] = k BY DEF Positions
<1>3. f \in [Positions \ {"GK"} -> 0 .. StartingSize] OBVIOUS
<1>4. DOMAIN f = {"DEF", "MID", "FWD"} BY DEF Positions
<1> HIDE DEF f
<1>5. f \in FormationSet BY <1>1, <1>2, <1>3, <1>4 DEF FormationSet
<1> QED BY <1>5

(* So a squad has a line-up. *)
LEMMA LineUpExists ==
  ASSUME NEW v, NEW S \in Squads, Playable(v, S)
  PROVE  LineUps[S] # {} /\ Cardinality(LineUps[S]) \in Nat /\ Cardinality(LineUps[S]) # 0
<1>1. LineUps[S] # {} BY FormationExists, GreedyFacts
<1>2. IsFiniteSet(LineUps[S]) BY LineUpsFinite
<1> QED BY <1>1, <1>2, FS_EmptySet, FS_CardinalityType

-----------------------------------------------------------------------------
(* The best line-up of a squad *)

(* The projections of an artifact; and a result that answers for a squad: its
   line-up is a best one and is described truly. *)
Frozen(v) == \E a \in Artifact : v = [p \in Player |-> a[p].projection]
Answer(v, S, r) ==
  /\ r.squad = S /\ r.xi \in LineUps[S] /\ Best(v, LineUps[S], r.xi)
  /\ r.captain = Leader(v, r.xi) /\ r.vice = Leader(v, r.xi \ {r.captain})
  /\ r.captain \in r.xi /\ r.vice \in r.xi \ {r.captain}
  /\ r.objective = Objective(v, r.xi)
  /\ r.objective = Sum(v, r.xi) + v[r.captain]

(* The players of a line-up of a playable squad have projections. *)
LEMMA LineUpPlayable ==
  ASSUME NEW v, NEW S \in Squads, Playable(v, S), NEW x \in LineUps[S]
  PROVE  /\ Playable(v, x) /\ Objective(v, x) \in Int /\ Sum(v, x) \in Int
         /\ Leader(v, x) \in x /\ \A q \in x : v[q] \in Int /\ v[q] =< v[Leader(v, x)]
<1>1. Playable(v, x) /\ x # {} BY LineUpFacts DEF Playable
<1> QED BY <1>1, ObjectiveInt, LeaderLeads DEF Playable

(* By the assumption on the tolerance, scores within twice the tolerance are
   tied. *)
LEMMA ScoresTie ==
  ASSUME NEW v, Frozen(v),
         NEW S \in Squads, Playable(v, S), NEW x \in LineUps[S],
         NEW U \in Squads, Playable(v, U), NEW y \in LineUps[U],
         Objective(v, x) - Objective(v, y) \in -(2 * Tolerance) .. 2 * Tolerance
  PROVE  Near(Objective(v, x), Objective(v, y))
<1>1. TiesSeparate(v) BY ToleranceAssumption DEF Frozen
<1>2. \A p \in Player : v[p] \in Int => v[p] # None BY SquadAssumption
<1>3. ASSUME NEW V \in Squads, Playable(v, V), NEW z \in LineUps[V] PROVE Objective(v, z) \in Scores(v)
  <2>1. V \in {W \in Squads : \A p \in W : v[p] # None} BY <1>2, <1>3 DEF Playable
  <2> QED BY <2>1, <1>3 DEF Scores
<1>4. Objective(v, x) \in Scores(v) /\ Objective(v, y) \in Scores(v) BY <1>3
<1> QED BY <1>1, <1>4 DEF TiesSeparate

(* So ties among the line-ups of a squad are transitive. *)
LEMMA LineUpsTiesFine ==
  ASSUME NEW v, Frozen(v), NEW S \in Squads, Playable(v, S)
  PROVE  TiesFine(v, LineUps[S])
<1>1. \A x \in LineUps[S] : x \in SUBSET Nat /\ x # {} /\ Objective(v, x) \in Int
  BY LineUpFacts, LineUpPlayable
<1>2. ASSUME NEW x \in LineUps[S], NEW y \in LineUps[S],
             Objective(v, x) - Objective(v, y) \in -(2 * Tolerance) .. 2 * Tolerance
      PROVE  Near(Objective(v, x), Objective(v, y))
  BY <1>2, ScoresTie
<1> QED BY <1>1, <1>2 DEF TiesFine

(* The exhaustive scan of a squad keeps a best line-up of it. *)
LEMMA ScanKeepsBest ==
  ASSUME NEW v, Frozen(v), NEW S \in Squads, Playable(v, S)
  PROVE  Best(v, LineUps[S], Kept(v, TRUE, ScanOrder[S]))
<1>1. PICK L : L = LineUps[S] OBVIOUS
<1>2. PICK n : n = Cardinality(L) OBVIOUS
<1>3. PICK s : s = ScanOrder[S] OBVIOUS
<1>4. n # 0 BY <1>1, <1>2, LineUpExists
<1>5. SequenceIn(s, n, L) /\ {s[i] : i \in 1 .. n} = L BY <1>1, <1>2, <1>3, ScanEnumerates
<1>6. TiesFine(v, L) BY <1>1, LineUpsTiesFine
<1>7. Best(v, {s[i] : i \in 1 .. n}, Kept(v, TRUE, s)) BY ONLY <1>4, <1>5, <1>6, KeptBest
<1> QED BY <1>1, <1>3, <1>5, <1>7, Zenon

(* Beside the captain somebody starts. *)
LEMMA ViceStarts ==
  ASSUME NEW S \in Squads, NEW x \in LineUps[S], NEW c \in x
  PROVE  x \ {c} # {}
<1>1. IsFiniteSet(x) /\ Cardinality(x) = StartingSize BY LineUpFacts
<1>2. Cardinality(x \ {c}) = StartingSize - 1 BY <1>1, FS_RemoveElement
<1>3. 2 =< StartingSize /\ StartingSize \in Nat BY FormationAssumption, SquadAssumption
<1>4. Cardinality(x \ {c}) # 0 BY <1>2, <1>3
<1> QED BY <1>4, FS_EmptySet

(* The selection of a best line-up answers for its squad. *)
LEMMA SelectionAnswers ==
  ASSUME NEW v, NEW S \in Squads, Playable(v, S), NEW x, Best(v, LineUps[S], x)
  PROVE  Answer(v, S, Selection(v, S, x))
<1> DEFINE r == Selection(v, S, x)
<1>1. x \in LineUps[S] BY DEF Best
<1>2. Leader(v, x) \in x /\ Playable(v, x) BY <1>1, LineUpPlayable
<1>3. Leader(v, x \ {Leader(v, x)}) \in x \ {Leader(v, x)}
  <2>1. x \ {Leader(v, x)} # {} BY <1>1, <1>2, ViceStarts
  <2>2. Playable(v, x \ {Leader(v, x)}) BY <1>2 DEF Playable
  <2> QED BY <2>1, <2>2, LeaderLeads
<1>4. /\ r.squad = S /\ r.xi = x /\ r.captain = Leader(v, x)
      /\ r.vice = Leader(v, x \ {Leader(v, x)}) /\ r.objective = Objective(v, x)
  BY DEF Selection
<1>5. Objective(v, x) = Sum(v, x) + v[Leader(v, x)] BY DEF Objective, Base
<1> HIDE DEF r
<1> QED BY <1>1, <1>2, <1>3, <1>4, <1>5 DEF Answer, r

(* optimize_xi answers for every squad whose players all have a projection:
   no line-up of it scores more than the tolerance above the one it returns,
   ties go to the lowest ids, the captain and vice-captain lead it and the
   objective is its score. *)
THEOREM OptimizeXIAnswers ==
  ASSUME NEW v, Frozen(v), NEW S \in Squads, Playable(v, S)
  PROVE  Answer(v, S, OptimizeXI(v, S))
BY ScanKeepsBest, SelectionAnswers DEF OptimizeXI

-----------------------------------------------------------------------------
(* The best of several squads *)

(* Squads whose players all have a projection. *)
AllPlayable(v, squads) == squads \in SUBSET Squads /\ \A S \in squads : Playable(v, S)

(* Some line-up of some of them has the highest score. *)
LEMMA Tops ==
  ASSUME NEW v, NEW squads, AllPlayable(v, squads), squads # {}
  PROVE  \E S \in squads : \E x \in LineUps[S] :
           \A T \in squads : \A y \in LineUps[T] : Objective(v, y) =< Objective(v, x)
<1> DEFINE X == UNION {LineUps[S] : S \in squads}
           f == [x \in X |-> Objective(v, x)]
           O == {f[x] : x \in X}
<1>1. X \in SUBSET (SUBSET Player) BY LineUpFacts DEF AllPlayable
<1>2. IsFiniteSet(SUBSET Player) BY PlayerNat, FS_SUBSET
<1>3. IsFiniteSet(X) BY ONLY <1>1, <1>2, FS_Subset
<1>4. X # {}
  <2>1. PICK S \in squads : TRUE OBVIOUS
  <2>2. LineUps[S] # {} BY LineUpExists DEF AllPlayable
  <2> QED BY <2>1, <2>2
<1>5. \A x \in X : f[x] = Objective(v, x) /\ f[x] \in Int BY LineUpPlayable DEF AllPlayable
<1>6. \A x : x \in X <=> \E S \in squads : x \in LineUps[S] OBVIOUS
<1> HIDE DEF X, f
<1>7. IsFiniteSet(O) BY <1>3, ImageFinite
<1>8. O \subseteq Int /\ O # {} BY <1>4, <1>5
<1> HIDE DEF O
<1>9. Max(O) \in O /\ \A o \in O : o =< Max(O) BY ONLY <1>7, <1>8, FiniteMax
<1>10. PICK x \in X : Max(O) = f[x] BY <1>9 DEF O
<1>11. \A y \in X : f[y] =< f[x] BY <1>9, <1>10 DEF O
<1> QED BY <1>5, <1>6, <1>10, <1>11

(* BestOf is that score. *)
LEMMA BestOfIs ==
  ASSUME NEW v, NEW squads, AllPlayable(v, squads), squads # {}
  PROVE  /\ BestOf(v, squads) \in Int
         /\ \E S \in squads : \E x \in LineUps[S] : BestOf(v, squads) = Objective(v, x)
         /\ \A S \in squads : \A x \in LineUps[S] : Objective(v, x) =< BestOf(v, squads)
<1> DEFINE X == UNION {LineUps[S] : S \in squads}
           U == UNION {{Base(v, xi) + v[c] : c \in xi} : xi \in X}
<1>0. PICK S \in squads : \E x \in LineUps[S] :
         \A T \in squads : \A y \in LineUps[T] : Objective(v, y) =< Objective(v, x) BY Tops
<1>1. PICK x \in LineUps[S] :
         \A T \in squads : \A y \in LineUps[T] : Objective(v, y) =< Objective(v, x) BY <1>0
<1>2. \A y : y \in X <=> \E T \in squads : y \in LineUps[T] OBVIOUS
<1>3. \A y \in X : /\ Objective(v, y) \in Int /\ Sum(v, y) \in Int /\ Leader(v, y) \in y
                   /\ \A q \in y : v[q] \in Int /\ v[q] =< v[Leader(v, y)]
  BY <1>2, LineUpPlayable DEF AllPlayable
<1>4. \A y : Objective(v, y) = Sum(v, y) + v[Leader(v, y)] /\ Base(v, y) = Sum(v, y)
  BY DEF Objective, Base
<1>5. \A u : u \in U <=> \E y \in X : \E c \in y : u = Sum(v, y) + v[c] BY <1>4
<1>6. BestOf(v, squads) = Max(U) BY DEF BestOf
<1> DEFINE m == Objective(v, x)
<1>7. m \in Int BY <1>1, <1>2, <1>3
<1>8. m \in U BY <1>1, <1>2, <1>3, <1>4, <1>5
<1>9. \A u \in U : u \in Int /\ u =< m
  <2> SUFFICES ASSUME NEW u \in U PROVE u \in Int /\ u =< m OBVIOUS
  <2>1. PICK y \in X : \E c \in y : u = Sum(v, y) + v[c] BY <1>5
  <2>2. PICK c \in y : u = Sum(v, y) + v[c] BY <2>1
  <2>3. Sum(v, y) \in Int /\ v[c] \in Int /\ v[Leader(v, y)] \in Int /\ v[c] =< v[Leader(v, y)] BY <1>3
  <2>4. Objective(v, y) =< m /\ Objective(v, y) = Sum(v, y) + v[Leader(v, y)] BY <1>1, <1>2, <1>4
  <2> HIDE DEF m, U
  <2> QED BY <2>2, <2>3, <2>4, <1>7
<1> HIDE DEF U, m
<1>10. Max(U) = m
  <2>1. \A u \in U : m >= u BY <1>9, <1>7
  <2>2. Max(U) \in U /\ \A u \in U : Max(U) >= u BY <1>8, <2>1 DEF Max
  <2>3. Max(U) >= m /\ m >= Max(U) /\ Max(U) \in Int BY <2>1, <2>2, <1>8, <1>9
  <2> QED BY ONLY <2>3, <1>7
<1> QED BY <1>1, <1>6, <1>7, <1>10 DEF m

(* What the rows of an artifact are. *)
LEMMA RowsType ==
  ASSUME rows \in Artifact
  PROVE  /\ Frozen(Value)
         /\ \A p \in Player : rows[p] \in ProjectionRow /\ Value[p] = rows[p].projection
<1>1. rows \in [Player -> ProjectionRow] BY SquadAssumption
<1> QED BY <1>1 DEF Frozen, Value

(* A player some policy admits has a projection (the provider refuses an
   artifact that does not load). *)
LEMMA AdmittedPlayable ==
  ASSUME rows \in Artifact, Loads, NEW p \in Player, NEW policy, Admitted(p, policy)
  PROVE  Value[p] \in Int
<1>1. rows[p] \in ProjectionRow /\ Value[p] = rows[p].projection BY RowsType
<1>2. rows[p].projection \in Int \cup {None} BY <1>1 DEF ProjectionRow
<1>3. rows[p].fixtures = 0 => rows[p].projection = 0 BY DEF Loads, RowLoads
<1>4. State(p) \in {"valid", "blank", "incomplete"} BY DEF Admitted, Eligible
<1>5. rows[p].fixtures = 0 \/ rows[p].projection # None BY <1>4 DEF State, StateOf
<1> QED BY <1>1, <1>2, <1>3, <1>5

(* A squad has a cost. *)
LEMMA CostNat ==
  ASSUME NEW S \in SUBSET Player
  PROVE  Cost(S) \in Int
<1>1. Summable(Price, Player) BY PlayerNat, SquadAssumption DEF Summable
<1> QED BY <1>1, SumStep DEF Cost

(* A result that answers for one squad and scores as well as any line-up of
   the others is a best advice among them. *)
LEMMA WithinIf ==
  ASSUME NEW v, NEW squads, AllPlayable(v, squads), NEW S \in squads, NEW r, Answer(v, S, r),
         \A T \in squads : \A y \in LineUps[T] : Objective(v, y) =< r.objective + Tolerance
  PROVE  Within(v, r, squads)
<1>1. /\ BestOf(v, squads) \in Int
      /\ \E T \in squads : \E y \in LineUps[T] : BestOf(v, squads) = Objective(v, y) BY BestOfIs
<1>2. BestOf(v, squads) =< r.objective + Tolerance BY <1>1
<1>3. S \in Squads /\ Playable(v, S) BY DEF AllPlayable
<1>4. r.xi \in LineUps[S] /\ r.objective = Objective(v, r.xi) BY DEF Answer
<1>5. r.objective \in Int BY <1>3, <1>4, LineUpPlayable
<1>6. r.objective >= BestOf(v, squads) - Tolerance BY <1>1, <1>2, <1>5, ToleranceNat
<1>7. LineUp(S, r.xi) BY <1>3, <1>4, LineUpFacts
<1> QED BY <1>6, <1>7 DEF Within, Answer, Base

(* A result that answers for a squad is a best advice among its line-ups. *)
LEMMA AnswerWithin ==
  ASSUME NEW v, NEW S \in Squads, Playable(v, S), NEW r, Answer(v, S, r)
  PROVE  Within(v, r, {S})
<1>1. AllPlayable(v, {S}) BY DEF AllPlayable
<1>2. \A y \in LineUps[S] : Objective(v, y) =< r.objective + Tolerance BY DEF Answer, Best
<1> QED BY <1>1, <1>2, WithinIf

-----------------------------------------------------------------------------
(* The unconstrained squad *)

(* Among tied squads one is cheapest. *)
LEMMA LeastCost ==
  ASSUME NEW tied, tied \in SUBSET (SUBSET Player), tied # {}
  PROVE  \E S \in tied : \A T \in tied : Cost(S) =< Cost(T)
<1> DEFINE f == [S \in tied |-> -Cost(S)]
           O == {f[S] : S \in tied}
<1>1. \A S \in tied : Cost(S) \in Int /\ f[S] = -Cost(S) BY CostNat
<1>2. IsFiniteSet(SUBSET Player) BY PlayerNat, FS_SUBSET
<1>3. IsFiniteSet(tied) BY ONLY <1>2, tied \in SUBSET (SUBSET Player), FS_Subset
<1> HIDE DEF f
<1>4. IsFiniteSet(O) BY <1>3, ImageFinite
<1>5. O \subseteq Int /\ O # {} BY <1>1
<1> HIDE DEF O
<1>6. Max(O) \in O /\ \A o \in O : o =< Max(O) BY ONLY <1>4, <1>5, FiniteMax
<1>7. PICK S \in tied : Max(O) = f[S] BY <1>6 DEF O
<1>8. \A T \in tied : f[T] =< f[S] BY <1>6, <1>7 DEF O
<1>9. \A T \in tied : Cost(S) =< Cost(T)
  <2> SUFFICES ASSUME NEW T \in tied PROVE Cost(S) =< Cost(T) OBVIOUS
  <2>1. -Cost(T) =< -Cost(S) /\ Cost(T) \in Int /\ Cost(S) \in Int BY <1>1, <1>8
  <2> QED BY ONLY <2>1
<1> QED BY <1>9

(* Among the cheapest one has the lowest ids. *)
LEMMA LowestIds ==
  ASSUME NEW cheap, cheap \in SUBSET (SUBSET Player), cheap # {}
  PROVE  \E S \in cheap : \A T \in cheap \ {S} : LowerIds(S, T)
<1> DEFINE R == {e \in cheap \X cheap : LowerIds(e[1], e[2])}
<1>1. \A S, T \in cheap : <<S, T>> \in R <=> LowerIds(S, T) OBVIOUS
<1>2. \A S \in cheap : S \in SUBSET Nat BY PlayerNat
<1> HIDE DEF R
<1>3. \A S \in cheap : <<S, S>> \notin R BY <1>1, <1>2, LowerIdsOrder
<1>4. \A S, T \in cheap : S = T \/ <<S, T>> \in R \/ <<T, S>> \in R BY <1>1, <1>2, LowerIdsOrder
<1>5. \A S, T, U \in cheap : <<S, T>> \in R /\ <<T, U>> \in R => <<S, U>> \in R
  BY <1>1, <1>2, LowerIdsOrder
<1>6. Ordered(cheap, R) BY <1>3, <1>4, <1>5 DEF Ordered
<1>7. IsFiniteSet(SUBSET Player) BY PlayerNat, FS_SUBSET
<1>8. IsFiniteSet(cheap) BY ONLY <1>7, cheap \in SUBSET (SUBSET Player), FS_Subset
<1>9. \E S \in cheap : \A T \in cheap \ {S} : <<S, T>> \in R
  BY ONLY <1>6, <1>8, cheap # {}, LeastElement
<1> QED BY <1>1, <1>9

(* The squads in the budget, and what the optimum is among them: a best one,
   and of those that score as much the cheapest with the lowest ids. *)
Affordable(budget) ==
  {S \in Squads : (\A p \in S : Eligible(p)) /\ ClubsWithin(S) /\ Cost(S) =< budget}
BestSquad(v, squads, best) ==
  /\ Within(v, best, squads)
  /\ \A S \in squads \ {best.squad} :
       BestOf(v, {S}) >= best.objective =>
         \/ Cost(best.squad) < Cost(S)
         \/ Cost(best.squad) = Cost(S) /\ LowerIds(best.squad, S)

(* When the scan finds the objective of the solver again, what optimize_squad
   returns is the optimum of all squads of admitted players in the budget, in
   the order of the three solves: objective, cost, ids. *)
THEOREM SolverAnswers ==
  ASSUME rows \in Artifact, Loads, NEW budget, OptimizeSquad(Value, Pool, budget) # None
  PROVE  BestSquad(Value, Affordable(budget), OptimizeSquad(Value, Pool, budget))
<1> DEFINE v == Value
           pool == Pool
           squads == {S \in Squads : S \subseteq pool /\ ClubsWithin(S) /\ Cost(S) =< budget}
           scores == [S \in squads |-> {Objective(v, xi) : xi \in LineUps[S]}]
           O == UNION {scores[S] : S \in squads}
           top == Max(O)
           tied == {S \in squads : \E o \in scores[S] : Near(o, top)}
           cheap == {S \in tied : \A T \in tied : Cost(S) =< Cost(T)}
           S0 == CHOOSE S \in cheap : \A T \in cheap \ {S} : LowerIds(S, T)
           best == OptimizeXI(v, S0)
<1>1. OptimizeSquad(Value, Pool, budget) = best /\ squads # {} /\ Near(best.objective, top)
  BY DEF OptimizeSquad
<1>2. squads = Affordable(budget) BY SquadFacts DEF Affordable, Pool
<1>3. AllPlayable(v, squads)
  <2>1. \A S \in squads : \A p \in S : p \in Player /\ Admitted(p, "strict_complete_only") BY DEF Admitted, Pool
  <2>2. \A S \in squads : \A p \in S : v[p] \in Int BY <2>1, AdmittedPlayable
  <2> QED BY <2>2, SquadFacts DEF AllPlayable, Playable
<1>4. Frozen(v) BY RowsType
<1>5. \A S \in squads : S \in Squads /\ Playable(v, S) BY <1>3 DEF AllPlayable
<1>6. \A o : o \in O <=> \E S \in squads : \E x \in LineUps[S] : o = Objective(v, x)
  <2>1. \A S \in squads : scores[S] = {Objective(v, xi) : xi \in LineUps[S]} OBVIOUS
  <2> HIDE DEF v, squads, scores
  <2>2. \A o : o \in O <=> \E S \in squads : o \in scores[S] OBVIOUS
  <2> QED BY <2>1, <2>2
<1>7. \A S \in squads : S \in tied <=> \E x \in LineUps[S] : Near(Objective(v, x), top) OBVIOUS
<1>8. tied \subseteq squads OBVIOUS
<1> HIDE DEF v, squads, O, tied
<1>9. top \in Int /\ \A S \in squads : \A x \in LineUps[S] : Objective(v, x) =< top
  <2>1. PICK S \in squads : \E x \in LineUps[S] :
          \A T \in squads : \A y \in LineUps[T] : Objective(v, y) =< Objective(v, x)
    BY <1>1, <1>3, Tops
  <2>2. PICK x \in LineUps[S] :
          \A T \in squads : \A y \in LineUps[T] : Objective(v, y) =< Objective(v, x) BY <2>1
  <2>3. \A o \in O : o \in Int BY <1>6, <1>5, LineUpPlayable
  <2>4. Objective(v, x) \in O /\ \A o \in O : o =< Objective(v, x) BY <1>6, <2>2
  <2>5. \A o \in O : Objective(v, x) >= o BY <2>3, <2>4
  <2>6. top \in O /\ \A o \in O : top >= o BY <2>4, <2>5 DEF Max
  <2> HIDE DEF top
  <2> QED BY <2>3, <2>6, <1>6
<1> HIDE DEF top
<1>10. tied # {}
  <2>1. top \in O
    <3>1. PICK S \in squads : \E x \in LineUps[S] :
            \A T \in squads : \A y \in LineUps[T] : Objective(v, y) =< Objective(v, x)
      BY <1>1, <1>3, Tops
    <3>2. PICK x \in LineUps[S] :
            \A T \in squads : \A y \in LineUps[T] : Objective(v, y) =< Objective(v, x) BY <3>1
    <3>3. \A o \in O : o \in Int BY <1>6, <1>5, LineUpPlayable
    <3>4. Objective(v, x) \in O /\ \A o \in O : Objective(v, x) >= o BY <1>6, <3>2, <3>3
    <3> QED BY <3>4 DEF Max, top
  <2>2. Near(top, top) BY <1>9, ToleranceNat DEF Near
  <2> QED BY <2>1, <2>2, <1>6, <1>7
<1>11. tied \in SUBSET (SUBSET Player) BY <1>5, <1>8 DEF Playable
<1>12. cheap # {} /\ cheap \subseteq tied BY <1>10, <1>11, LeastCost
<1>13. \A S \in cheap : \A T \in tied : Cost(S) =< Cost(T) OBVIOUS
<1>14. \A S \in tied : (\A T \in tied : Cost(S) =< Cost(T)) => S \in cheap OBVIOUS
<1> HIDE DEF cheap
<1>15. S0 \in cheap /\ \A T \in cheap \ {S0} : LowerIds(S0, T)
  <2>1. cheap \in SUBSET (SUBSET Player) BY <1>11, <1>12
  <2> QED BY <2>1, <1>12, LowestIds
<1> HIDE DEF S0
<1>16. Answer(v, S0, best) BY <1>4, <1>5, <1>8, <1>12, <1>15, OptimizeXIAnswers
<1>17. best.objective \in Int /\ best.squad = S0 /\ S0 \in squads /\ S0 \in tied
  <2>1. S0 \in squads BY <1>8, <1>12, <1>15
  <2>2. best.objective = Objective(v, best.xi) /\ best.xi \in LineUps[S0] /\ best.squad = S0
    BY <1>16 DEF Answer
  <2>3. S0 \in Squads /\ Playable(v, S0) BY <2>1, <1>5
  <2> HIDE DEF best
  <2> QED BY <2>1, <2>2, <2>3, LineUpPlayable, <1>12, <1>15
<1> HIDE DEF best
<1>18. Near(best.objective, top) BY <1>1
<1>19. best.objective =< top + Tolerance /\ top =< best.objective + Tolerance
  BY <1>9, <1>17, <1>18, ToleranceNat DEF Near
<1>20. Within(v, best, squads)
  <2>1. ASSUME NEW T \in squads, NEW y \in LineUps[T] PROVE Objective(v, y) =< best.objective + Tolerance
    <3>1. Objective(v, y) \in Int /\ Objective(v, y) =< top BY <1>5, <1>9, LineUpPlayable
    <3> QED BY <3>1, <1>9, <1>17, <1>19, ToleranceNat
  <2> QED BY <2>1, <1>3, <1>16, <1>17, WithinIf
<1>21. ASSUME NEW S \in squads \ {best.squad}, BestOf(v, {S}) >= best.objective
       PROVE  \/ Cost(best.squad) < Cost(S)
              \/ Cost(best.squad) = Cost(S) /\ LowerIds(best.squad, S)
  <2>1. AllPlayable(v, {S}) BY <1>5 DEF AllPlayable
  <2>2. PICK x \in LineUps[S] : BestOf(v, {S}) = Objective(v, x) /\ BestOf(v, {S}) \in Int
    BY <2>1, BestOfIs
  <2>3. Objective(v, x) =< top BY <1>9
  <2>4. Near(Objective(v, x), top) BY <2>2, <2>3, <1>9, <1>17, <1>19, <1>21, ToleranceNat DEF Near
  <2>5. S \in tied BY <2>4, <1>7
  <2>6. Cost(S0) =< Cost(S) BY <2>5, <1>13, <1>15
  <2>7. Cost(S0) \in Int /\ Cost(S) \in Int BY <2>5, <1>11, <1>17, CostNat
  <2>8. CASE Cost(S0) = Cost(S)
    <3>1. \A T \in tied : Cost(S) =< Cost(T) BY <2>8, <1>13, <1>15
    <3>2. S \in cheap BY <3>1, <2>5, <1>14
    <3> QED BY <3>2, <1>15, <1>17, <2>8
  <2> QED BY <2>6, <2>7, <2>8, <1>17
<1> QED BY <1>1, <1>2, <1>20, <1>21 DEF BestSquad, v

-----------------------------------------------------------------------------
(* The list of changes *)

(* Pairs that match each element with one other. *)
Paired(Z, S, T) ==
  /\ Z \subseteq S \X T
  /\ \A s, t \in Z : s[1] = t[1] <=> s[2] = t[2]

(* They match as many elements of the one set as of the other. *)
LEMMA PairsMatch ==
  ASSUME NEW S, IsFiniteSet(S), NEW T, IsFiniteSet(T), NEW Z, Paired(Z, S, T)
  PROVE  Cardinality({s[1] : s \in Z}) = Cardinality({s[2] : s \in Z})
<1> DEFINE A == {s[1] : s \in Z}
           B == {s[2] : s \in Z}
           f == [x \in A |-> CHOOSE y \in B : <<x, y>> \in Z]
<1>1. \A s \in Z : s[1] \in S /\ s[2] \in T /\ s = <<s[1], s[2]>> BY DEF Paired
<1>2. A \in SUBSET S /\ B \in SUBSET T BY <1>1
<1>3. IsFiniteSet(A) /\ IsFiniteSet(B) BY <1>2, FS_Subset
<1>4. \A x \in A : \E y \in B : <<x, y>> \in Z BY <1>1
<1>5. \A x \in A : f[x] \in B /\ <<x, f[x]>> \in Z BY <1>4
<1>6. \A x, w \in A : f[x] = f[w] => x = w BY <1>5 DEF Paired
<1>7. \A y \in B : \E x \in A : f[x] = y
  <2> SUFFICES ASSUME NEW y \in B PROVE \E x \in A : f[x] = y OBVIOUS
  <2>1. PICK s \in Z : y = s[2] OBVIOUS
  <2>2. s[1] \in A /\ <<s[1], y>> \in Z BY <2>1, <1>1
  <2>3. f[s[1]] = y BY <2>2, <1>5 DEF Paired
  <2> QED BY <2>2, <2>3
<1>8. f \in Injection(A, B) BY <1>5, <1>6 DEF Injection, IsInjective
<1>9. f \in Surjection(A, B) BY <1>5, <1>7 DEF Surjection
<1> HIDE DEF f, A, B
<1>10. Cardinality(A) = Cardinality(B) BY ONLY <1>3, <1>8, <1>9, FS_Injection
<1> QED BY <1>10 DEF A, B

(* Ids in ascending order. *)
LessOn(S) == {e \in S \X S : e[1] < e[2]}

(* That is a strict total order. *)
LEMMA LessOrdered ==
  ASSUME NEW S \in SUBSET Nat
  PROVE  Ordered(S, LessOn(S))
<1>1. \A x, y \in S : <<x, y>> \in LessOn(S) <=> x < y BY DEF LessOn
<1>2. \A x \in S : x \in Nat OBVIOUS
<1> QED BY <1>1, <1>2 DEF Ordered

(* Two sorted tuples are zipped by rank. *)
LEMMA ZippedIs ==
  ASSUME NEW S \in SUBSET Nat, NEW T \in SUBSET Nat
  PROVE  Zipped(S, T) = {s \in S \X T : Rank(S, LessOn(S), s[1]) = Rank(T, LessOn(T), s[2])}
<1>1. \A p \in S : {q \in S : q < p} = Predecessors(S, LessOn(S), p) BY DEF Predecessors, LessOn
<1>2. \A p \in T : {q \in T : q < p} = Predecessors(T, LessOn(T), p) BY DEF Predecessors, LessOn
<1>3. \A s \in S \X T : s[1] \in S /\ s[2] \in T OBVIOUS
<1> QED BY <1>1, <1>2, <1>3 DEF Zipped, Rank

(* Zipping matches each element once, and every element of sets of the same
   size. *)
LEMMA Zips ==
  ASSUME NEW S \in SUBSET Nat, IsFiniteSet(S), NEW T \in SUBSET Nat, IsFiniteSet(T)
  PROVE  /\ Paired(Zipped(S, T), S, T)
         /\ Cardinality(S) = Cardinality(T) =>
              {s[1] : s \in Zipped(S, T)} = S /\ {s[2] : s \in Zipped(S, T)} = T
<1> DEFINE Z == Zipped(S, T)
           L == LessOn(S)
           M == LessOn(T)
<1>1. Ordered(S, L) /\ Ordered(T, M) BY LessOrdered
<1>2. Z = {s \in S \X T : Rank(S, L, s[1]) = Rank(T, M, s[2])} BY ZippedIs
<1> HIDE DEF Z, L, M
<1>3. \A x, y \in S : Rank(S, L, x) = Rank(S, L, y) => x = y BY <1>1, RankOrder
<1>4. \A x, y \in T : Rank(T, M, x) = Rank(T, M, y) => x = y BY <1>1, RankOrder
<1>5. Paired(Z, S, T)
  <2>1. Z \subseteq S \X T BY <1>2
  <2>2. ASSUME NEW s \in Z, NEW t \in Z PROVE s[1] = t[1] <=> s[2] = t[2]
    <3>1. s[1] \in S /\ s[2] \in T /\ Rank(S, L, s[1]) = Rank(T, M, s[2]) BY <1>2
    <3>2. t[1] \in S /\ t[2] \in T /\ Rank(S, L, t[1]) = Rank(T, M, t[2]) BY <1>2
    <3> QED BY <3>1, <3>2, <1>3, <1>4
  <2> QED BY <2>1, <2>2 DEF Paired
<1>6. ASSUME Cardinality(S) = Cardinality(T) PROVE {s[1] : s \in Z} = S /\ {s[2] : s \in Z} = T
  <2>1. ASSUME NEW x \in S PROVE \E s \in Z : s[1] = x
    <3>1. Rank(S, L, x) \in 0 .. (Cardinality(S) - 1) BY <1>1, RankBound
    <3>2. PICK i \in 0 .. (Cardinality(T) - 1) : i = Rank(S, L, x) BY <3>1, <1>6
    <3>3. PICK y \in T : Rank(T, M, y) = i BY ONLY <3>2, <1>1, IsFiniteSet(T), RankSurjective
    <3>4. <<x, y>> \in Z BY <3>2, <3>3, <1>2
    <3> QED BY <3>4
  <2>2. ASSUME NEW y \in T PROVE \E s \in Z : s[2] = y
    <3>1. Rank(T, M, y) \in 0 .. (Cardinality(T) - 1) BY <1>1, RankBound
    <3>2. PICK i \in 0 .. (Cardinality(S) - 1) : i = Rank(T, M, y) BY <3>1, <1>6
    <3>3. PICK x \in S : Rank(S, L, x) = i BY ONLY <3>2, <1>1, IsFiniteSet(S), RankSurjective
    <3>4. <<x, y>> \in Z BY <3>2, <3>3, <1>2
    <3> QED BY <3>4
  <2>3. \A s \in Z : s[1] \in S /\ s[2] \in T BY <1>2
  <2> QED BY <2>1, <2>2, <2>3
<1> QED BY <1>5, <1>6 DEF Z

(* The changes shown (position by position, then the rest) bring in exactly
   the players who start and leave out exactly those who no longer do. *)
THEOREM ChangesLead ==
  ASSUME NEW A \in SUBSET Player, NEW B \in SUBSET Player, Cardinality(A) = Cardinality(B)
  PROVE  /\ {c[1] : c \in ChangeList(A, B)} = A
         /\ {c[2] : c \in ChangeList(A, B)} = B
<1> DEFINE zip(pos) == Zipped(Of(A, pos), Of(B, pos))
           same == UNION {zip(pos) : pos \in Positions}
           C == A \ {s[1] : s \in same}
           D == B \ {s[2] : s \in same}
<1>0. IsFiniteSet(A) /\ IsFiniteSet(B) /\ A \in SUBSET Nat /\ B \in SUBSET Nat
  BY PlayerNat, FS_Subset
<1>1. \A pos : /\ Of(A, pos) \in SUBSET A /\ IsFiniteSet(Of(A, pos)) /\ Of(A, pos) \in SUBSET Nat
               /\ Of(B, pos) \in SUBSET B /\ IsFiniteSet(Of(B, pos)) /\ Of(B, pos) \in SUBSET Nat
  BY <1>0, OfSubset, FS_Subset
<1>2. \A pos : Paired(zip(pos), Of(A, pos), Of(B, pos)) BY <1>1, Zips
<1>3. ChangeList(A, B) = same \cup Zipped(C, D) BY DEF ChangeList
<1>4. \A s : s \in same <=> \E pos \in Positions : s \in zip(pos) OBVIOUS
<1> HIDE DEF zip, same
<1>5. \A s \in same : s \in A \X B /\ s \in zip(Position[s[1]]) /\ s \in zip(Position[s[2]])
  BY <1>2, <1>4 DEF Paired, Of
<1>6. Paired(same, A, B)
  <2>1. same \subseteq A \X B BY <1>5
  <2>2. ASSUME NEW s \in same, NEW t \in same PROVE s[1] = t[1] <=> s[2] = t[2]
    <3>1. s[1] = t[1] => s \in zip(Position[t[1]]) /\ t \in zip(Position[t[1]]) BY <1>5
    <3>2. s[2] = t[2] => s \in zip(Position[t[2]]) /\ t \in zip(Position[t[2]]) BY <1>5
    <3> QED BY <3>1, <3>2, <1>2 DEF Paired
  <2> QED BY <2>1, <2>2 DEF Paired
<1>7. Cardinality({s[1] : s \in same}) = Cardinality({s[2] : s \in same}) BY <1>0, <1>6, PairsMatch
<1>8. {s[1] : s \in same} \in SUBSET A /\ {s[2] : s \in same} \in SUBSET B BY <1>5
<1>9. PICK E : E = {s[1] : s \in same} OBVIOUS
<1>10. PICK F : F = {s[2] : s \in same} OBVIOUS
<1>11. E \in SUBSET A /\ F \in SUBSET B /\ Cardinality(E) = Cardinality(F) BY <1>7, <1>8, <1>9, <1>10
<1>12. C = A \ E /\ D = B \ F BY <1>9, <1>10
<1> HIDE DEF C, D
<1>13. A \cap E = E /\ B \cap F = F BY <1>11
<1>14. Cardinality(A \ E) = Cardinality(A) - Cardinality(A \cap E) BY <1>0, FS_Difference
<1>15. Cardinality(B \ F) = Cardinality(B) - Cardinality(B \cap F) BY <1>0, FS_Difference
<1>16. Cardinality(A \ E) = Cardinality(B \ F) BY <1>11, <1>13, <1>14, <1>15
<1>17. IsFiniteSet(C) /\ IsFiniteSet(D) /\ C \in SUBSET Nat /\ D \in SUBSET Nat
  BY <1>0, <1>12, FS_Subset
<1>18. Cardinality(C) = Cardinality(D) BY <1>12, <1>16
<1>19. {s[1] : s \in Zipped(C, D)} = C /\ {s[2] : s \in Zipped(C, D)} = D BY ONLY <1>17, <1>18, Zips
<1>20. {c[1] : c \in ChangeList(A, B)} = E \cup C BY <1>3, <1>9, <1>19
<1>21. {c[2] : c \in ChangeList(A, B)} = F \cup D BY <1>3, <1>10, <1>19
<1> QED BY <1>11, <1>12, <1>20, <1>21

-----------------------------------------------------------------------------
(* The locked and the editable squad *)

(* What the comparison with a locked selection promises. *)
LockedBest(v, lock, comparison) ==
  comparison.best # None =>
    /\ Within(v, comparison.best, {lock.squad})
    /\ ~lock.chip =>
         /\ comparison.difference >= -Tolerance
         /\ (lock.xi \ {c[2] : c \in comparison.changes}) \cup {c[1] : c \in comparison.changes}
              = comparison.best.xi

(* evaluate_current_squad keeps that promise for every legal locked
   selection: its line-up is best, its difference is not below the tolerance,
   its changes lead there. *)
LEMMA ComparisonAnswers ==
  ASSUME rows \in Artifact, Loads, NEW lock \in Picks, PicksValid(lock)
  PROVE  LockedBest(Value, lock, Comparison(lock))
<1> DEFINE v == Value
           S == lock.squad
           complete == \A p \in lock.squad : Eligible(p)
           best == OptimizeXI(Value, lock.squad)
           d == Comparison(lock)
<1> SUFFICES ASSUME d.best # None
             PROVE  /\ Within(v, d.best, {lock.squad})
                    /\ ~lock.chip =>
                         /\ d.difference >= -Tolerance
                         /\ (lock.xi \ {c[2] : c \in d.changes}) \cup {c[1] : c \in d.changes}
                              = d.best.xi
  BY DEF LockedBest
<1>1. complete /\ d.best = best BY DEF Comparison
<1>2. S \in Squads BY DEF PicksValid, Picks, Squads
<1>3. \A p \in S : Admitted(p, "strict_complete_only") /\ p \in Player BY <1>1, <1>2, SquadFacts DEF Admitted
<1>4. Playable(v, S) BY <1>2, <1>3, SquadFacts, AdmittedPlayable DEF Playable
<1>5. Answer(v, S, best) BY <1>2, <1>4, RowsType, OptimizeXIAnswers
<1>6. Within(v, best, {S}) BY <1>2, <1>4, <1>5, AnswerWithin
<1>7. ASSUME ~lock.chip
      PROVE  /\ d.difference = best.objective - LockedScore(v, lock)
             /\ d.changes = ChangeList(best.xi \ lock.xi, lock.xi \ best.xi)
  BY <1>1, <1>7 DEF Comparison
<1> HIDE DEF d, best, v
<1>8. lock.xi \in LineUps[S] /\ lock.captain \in lock.xi BY DEF PicksValid
<1>9. best.xi \in LineUps[S] /\ best.objective = Objective(v, best.xi)
      /\ Objective(v, lock.xi) =< best.objective + Tolerance
  BY <1>5, <1>8 DEF Answer, Best
<1>10. ASSUME ~lock.chip PROVE d.difference >= -Tolerance
  <2>1. LockedScore(v, lock) = Sum(v, lock.xi) + v[lock.captain] BY DEF LockedScore, Base
  <2>2. Objective(v, lock.xi) = Sum(v, lock.xi) + v[Leader(v, lock.xi)] BY DEF Objective, Base
  <2>3. /\ Sum(v, lock.xi) \in Int /\ v[Leader(v, lock.xi)] \in Int
        /\ v[lock.captain] \in Int /\ v[lock.captain] =< v[Leader(v, lock.xi)]
    BY <1>2, <1>4, <1>8, LineUpPlayable
  <2>4. best.objective \in Int BY <1>2, <1>4, <1>9, LineUpPlayable
  <2>5. Sum(v, lock.xi) + v[Leader(v, lock.xi)] =< best.objective + Tolerance BY <2>2, <1>9
  <2>6. d.difference = best.objective - (Sum(v, lock.xi) + v[lock.captain]) BY <1>7, <1>10, <2>1
  <2> QED BY ONLY <2>3, <2>4, <2>5, <2>6, ToleranceNat
<1>11. ASSUME ~lock.chip
       PROVE  (lock.xi \ {c[2] : c \in d.changes}) \cup {c[1] : c \in d.changes} = best.xi
  <2> DEFINE A == best.xi \ lock.xi
             B == lock.xi \ best.xi
  <2>1. /\ best.xi \in SUBSET Player /\ IsFiniteSet(best.xi) /\ Cardinality(best.xi) = StartingSize
        /\ lock.xi \in SUBSET Player /\ IsFiniteSet(lock.xi) /\ Cardinality(lock.xi) = StartingSize
    BY <1>2, <1>8, <1>9, LineUpFacts
  <2>2. Cardinality(A) = Cardinality(best.xi) - Cardinality(best.xi \cap lock.xi) BY <2>1, FS_Difference
  <2>3. Cardinality(B) = Cardinality(lock.xi) - Cardinality(lock.xi \cap best.xi) BY <2>1, FS_Difference
  <2>4. best.xi \cap lock.xi = lock.xi \cap best.xi OBVIOUS
  <2>5. Cardinality(A) = Cardinality(B) /\ A \in SUBSET Player /\ B \in SUBSET Player
    BY <2>1, <2>2, <2>3, <2>4
  <2>6. d.changes = ChangeList(A, B) BY <1>7, <1>11
  <2> HIDE DEF A, B
  <2>7. {c[1] : c \in d.changes} = A /\ {c[2] : c \in d.changes} = B BY <2>5, <2>6, ChangesLead
  <2> USE DEF A, B
  <2>8. (lock.xi \ B) \cup A = best.xi OBVIOUS
  <2> QED BY <2>7, <2>8
<1> QED BY <1>1, <1>6, <1>10, <1>11 DEF v

(* What the advice on the editable squad promises. *)
EditableBest(v, advice, incomplete) ==
  advice.best # None =>
    /\ Within(v, advice.best, {Owned})
    /\ incomplete # 0 => advice.policy = "appearance_only_allowed"

(* An owned squad of the right shape is a squad. *)
LEMMA OwnedSquad ==
  ASSUME SquadShape(Owned)
  PROVE  Owned \in Squads
BY SquadAssumption DEF Squads

(* evaluate_editable_squad keeps that promise; no point rests on an
   incomplete projection under the default policy. *)
LEMMA EditableAnswers ==
  ASSUME rows \in Artifact, Loads, ManualStateValid, NEW policy \in Policy,
         NEW incomplete, EditableAdvice(policy).best # None =>
                           incomplete = IncompleteShare(EditableAdvice(policy).best)
  PROVE  EditableBest(Value, EditableAdvice(policy), incomplete)
<1> DEFINE v == Value
           best == OptimizeXI(Value, Owned)
           d == EditableAdvice(policy)
<1> SUFFICES ASSUME d.best # None
             PROVE  /\ Within(v, d.best, {Owned})
                    /\ incomplete # 0 => d.policy = "appearance_only_allowed"
  BY DEF EditableBest
<1>1. Owned \in Squads BY OwnedSquad DEF ManualStateValid
<1>2. /\ \A p \in Owned : Admitted(p, policy)
      /\ d.best = best /\ d.policy = policy
  BY DEF EditableAdvice
<1>3. Playable(v, Owned) BY <1>1, <1>2, SquadFacts, AdmittedPlayable DEF Playable
<1>4. Answer(v, Owned, best) BY <1>1, <1>3, RowsType, OptimizeXIAnswers
<1>5. Within(v, best, {Owned}) BY <1>1, <1>3, <1>4, AnswerWithin
<1>6. incomplete = IncompleteShare(best) BY <1>2
<1>7. best.xi \in SUBSET Owned BY <1>1, <1>4, LineUpFacts DEF Answer
<1> HIDE DEF d, best, v
<1>8. ASSUME policy # "appearance_only_allowed" PROVE incomplete = 0
  <2>1. \A p \in best.xi : State(p) # "incomplete" BY <1>2, <1>7, <1>8 DEF Admitted, Eligible
  <2>2. {p \in best.xi : State(p) = "incomplete"} = {} BY <2>1
  <2>3. {p \in best.xi : State(p) = "incomplete"} \cap {best.captain} = {} BY <2>2
  <2>4. Summable(v, {}) BY FS_EmptySet DEF Summable
  <2>5. Sum(v, {}) = 0
    <3>1. {} \in SUBSET {} OBVIOUS
    <3> QED BY ONLY <3>1, <2>4, SumStep
  <2>6. incomplete = Sum(v, {}) + Sum(v, {}) BY <1>6, <2>2, <2>3 DEF IncompleteShare, Base, v
  <2> QED BY <2>5, <2>6
<1> QED BY <1>2, <1>5, <1>8 DEF v

-----------------------------------------------------------------------------
(* One transfer: the squads it reaches *)

(* What a decision has checked before it evaluates anything. *)
Sound == /\ rows \in Artifact /\ Loads /\ SquadValid(Owned, "appearance_only_allowed")
         /\ \A p \in Player : ~BreaksPolicy(p, "appearance_only_allowed")

(* A swap changes one player. *)
LEMMA SwapFacts ==
  ASSUME NEW out \in Owned, NEW in \in Player \ Owned
  PROVE  /\ Swap(out, in) \ Owned = {in} /\ Owned \ Swap(out, in) = {out}
         /\ Swap(out, in) # Owned /\ Swap(out, in) \in SUBSET Player
BY SquadAssumption DEF Swap

(* Exchanging one element leaves the size of a set. *)
LEMMA CountSwap ==
  ASSUME NEW A, IsFiniteSet(A), NEW x \in A, NEW y, y \notin A
  PROVE  Cardinality((A \ {x}) \cup {y}) = Cardinality(A)
<1>1. IsFiniteSet(A \ {x}) /\ Cardinality(A \ {x}) = Cardinality(A) - 1 BY FS_RemoveElement
<1>2. Cardinality((A \ {x}) \cup {y}) = Cardinality(A \ {x}) + 1 BY <1>1, FS_AddElement
<1> QED BY <1>1, <1>2, FS_CardinalityType

(* A swap within a position, and no other, leaves the shape of the squad. *)
LEMMA SwapShape ==
  ASSUME SquadShape(Owned), NEW out \in Owned, NEW in \in Player \ Owned
  PROVE  Position[in] = Position[out] <=> Swap(out, in) \in Squads
<1> DEFINE S == Swap(out, in)
<1>0. Owned \in Squads /\ S \in SUBSET Player BY OwnedSquad, SwapFacts
<1>1. \A pos : /\ IsFiniteSet(Of(Owned, pos)) /\ Of(Owned, pos) \in SUBSET Owned
               /\ Cardinality(Of(Owned, pos)) \in Nat
  BY <1>0, SquadFacts, OfSubset, FS_Subset, FS_CardinalityType
<1>2. out \in Of(Owned, Position[out]) /\ \A pos : in \notin Of(Owned, pos) BY DEF Of
<1>3. Position[out] \in Positions /\ Position[in] \in Positions BY SquadAssumption
<1>4. ASSUME Position[in] = Position[out] PROVE S \in Squads
  <2>1. ASSUME NEW pos \in Positions PROVE Cardinality(Of(S, pos)) = SquadCount[pos]
    <3>1. CASE pos = Position[out]
      <4>1. Of(S, pos) = (Of(Owned, pos) \ {out}) \cup {in} BY <3>1, <1>4 DEF Of, Swap
      <4>2. Cardinality((Of(Owned, pos) \ {out}) \cup {in}) = Cardinality(Of(Owned, pos))
        BY <3>1, <1>1, <1>2, CountSwap
      <4> QED BY <4>1, <4>2, <1>0, SquadFacts
    <3>2. CASE pos # Position[out]
      <4>1. Of(S, pos) = Of(Owned, pos) BY <3>2, <1>4 DEF Of, Swap
      <4> QED BY <4>1, <1>0, SquadFacts
    <3> QED BY <3>1, <3>2
  <2> QED BY <2>1, <1>0 DEF Squads, SquadShape
<1>5. ASSUME S \in Squads, Position[in] # Position[out] PROVE FALSE
  <2> DEFINE pos == Position[in]
  <2>1. Of(S, pos) = Of(Owned, pos) \cup {in} BY <1>5 DEF Of, Swap
  <2>2. Cardinality(Of(Owned, pos) \cup {in}) = Cardinality(Of(Owned, pos)) + 1
    BY <1>1, <1>2, FS_AddElement
  <2>3. Cardinality(Of(S, pos)) = SquadCount[pos] /\ Cardinality(Of(Owned, pos)) = SquadCount[pos]
    BY <1>0, <1>3, <1>5, SquadFacts
  <2> HIDE DEF pos
  <2> QED BY <2>1, <2>2, <2>3, <1>1
<1> QED BY <1>4, <1>5

(* The club check of the code, which counts the club without the leaving
   player, is the check of the whole new squad. *)
LEMMA SwapClubs ==
  ASSUME NEW out \in Owned, NEW in \in Player \ Owned, ClubsWithin(Owned)
  PROVE  Cardinality({p \in Owned \ {out} : Club[p] = Club[in]}) < ClubLimit
           <=> ClubsWithin(Swap(out, in))
<1> DEFINE S == Swap(out, in)
           rest == {p \in Owned \ {out} : Club[p] = Club[in]}
           of(c) == {q \in S : Club[q] = c}
<1>0. Owned \in SUBSET Player /\ S \in SUBSET Player BY SquadAssumption, SwapFacts
<1>1. IsFiniteSet(Owned) /\ IsFiniteSet(S) BY <1>0, PlayerNat, FS_Subset
<1>2. rest \in SUBSET Owned OBVIOUS
<1>3. IsFiniteSet(rest) /\ Cardinality(rest) \in Nat BY <1>1, <1>2, FS_Subset, FS_CardinalityType
<1>4. of(Club[in]) = rest \cup {in} /\ in \notin rest /\ in \in S BY DEF Swap
<1>5. Cardinality(rest \cup {in}) = Cardinality(rest) + 1 BY <1>3, <1>4, FS_AddElement
<1>6. ClubLimit \in Nat BY SquadAssumption
<1>7. ClubsWithin(S) <=> \A p \in S : Cardinality(of(Club[p])) =< ClubLimit BY DEF ClubsWithin
<1>8. ASSUME NEW p \in S, Club[p] # Club[in] PROVE Cardinality(of(Club[p])) =< ClubLimit
  <2>1. p \in Owned BY <1>8 DEF Swap
  <2> DEFINE all == {q \in Owned : Club[q] = Club[p]}
  <2>2. of(Club[p]) \in SUBSET all BY <1>8 DEF Swap
  <2>3. all \in SUBSET Owned OBVIOUS
  <2>4. IsFiniteSet(all) BY <1>1, <2>3, FS_Subset
  <2>5. Cardinality(all) =< ClubLimit BY <2>1 DEF ClubsWithin
  <2> HIDE DEF all, of
  <2>6. /\ IsFiniteSet(of(Club[p])) /\ Cardinality(of(Club[p])) =< Cardinality(all) BY <2>2, <2>4, FS_Subset
  <2> QED BY <2>4, <2>5, <2>6, <1>6, FS_CardinalityType
<1> HIDE DEF of, rest, S
<1>9. Cardinality(of(Club[in])) = Cardinality(rest) + 1 BY <1>4, <1>5
<1>10. Cardinality(rest) < ClubLimit <=> Cardinality(of(Club[in])) =< ClubLimit BY <1>3, <1>6, <1>9
<1>11. ClubsWithin(S) => Cardinality(of(Club[in])) =< ClubLimit BY <1>4, <1>7
<1>12. Cardinality(of(Club[in])) =< ClubLimit => ClubsWithin(S)
  <2> SUFFICES ASSUME Cardinality(of(Club[in])) =< ClubLimit, NEW p \in S
               PROVE  Cardinality(of(Club[p])) =< ClubLimit BY <1>7
  <2>1. CASE Club[p] = Club[in] BY <2>1
  <2>2. CASE Club[p] # Club[in] BY <2>2, <1>8
  <2> QED BY <2>1, <2>2
<1> QED BY <1>10, <1>11, <1>12 DEF S, rest

(* A squad with at most one new player is the owned one or a swap away. *)
LEMMA OneSwap ==
  ASSUME SquadShape(Owned), NEW S \in Squads, S # Owned, Cardinality(S \ Owned) =< 1
  PROVE  \E out \in Owned : \E in \in Player \ Owned : S = Swap(out, in)
<1>1. Owned \in Squads BY OwnedSquad
<1>2. /\ IsFiniteSet(S) /\ IsFiniteSet(Owned) /\ S \in SUBSET Player /\ Owned \in SUBSET Player
      /\ \A pos \in Positions : Cardinality(Of(S, pos)) = Cardinality(Of(Owned, pos))
  BY <1>1, SquadFacts
<1>3. Cardinality(S) = Cardinality(Owned)
  <2>1. "GK" \in Positions /\ "DEF" \in Positions /\ "MID" \in Positions /\ "FWD" \in Positions
    BY DEF Positions
  <2> QED BY <1>2, <2>1, PositionCount
<1>4. Cardinality(S \ Owned) = Cardinality(S) - Cardinality(S \cap Owned) BY <1>2, FS_Difference
<1>5. Cardinality(Owned \ S) = Cardinality(Owned) - Cardinality(Owned \cap S) BY <1>2, FS_Difference
<1>6. S \cap Owned = Owned \cap S OBVIOUS
<1>7. Cardinality(S \ Owned) = Cardinality(Owned \ S) BY <1>3, <1>4, <1>5, <1>6
<1>8. IsFiniteSet(S \ Owned) /\ IsFiniteSet(Owned \ S) BY <1>2, FS_Difference
<1>9. S \ Owned # {}
  <2> SUFFICES ASSUME S \ Owned = {} PROVE FALSE OBVIOUS
  <2>1. S \in SUBSET Owned OBVIOUS
  <2>2. S = Owned BY <2>1, <1>2, <1>3, FS_Subset
  <2> QED BY <2>2
<1>10. Cardinality(S \ Owned) = 1
  <2>1. Cardinality(S \ Owned) \in Nat BY <1>8, FS_CardinalityType
  <2>2. Cardinality(S \ Owned) # 0 BY <1>8, <1>9, FS_EmptySet
  <2> QED BY <2>1, <2>2
<1>11. PICK in : S \ Owned = {in} BY <1>8, <1>10, FS_Singleton
<1>12. PICK out : Owned \ S = {out} BY <1>7, <1>8, <1>10, FS_Singleton
<1>13. in \in Player \ Owned /\ out \in Owned BY <1>2, <1>11, <1>12
<1>14. S = Swap(out, in) BY <1>11, <1>12 DEF Swap
<1> QED BY <1>13, <1>14

(* The checks on one swap (position, price against the money, club without
   the leaving player, policy) accept exactly the swaps that lead to a valid
   squad the manager can pay for. *)
LEMMA LegalSwapReachable ==
  ASSUME Sound, NEW bank \in Nat, NEW out \in Owned, NEW in \in Player \ Owned
  PROVE  LegalSwap(out, in, bank) <=> Swap(out, in) \in Reachable(bank)
<1> DEFINE S == Swap(out, in)
           policy == "appearance_only_allowed"
<1>1. S \ Owned = {in} /\ Owned \ S = {out} BY SwapFacts
<1>2. SquadShape(Owned) /\ ClubsWithin(Owned) /\ \A p \in Owned : Admitted(p, policy)
  BY DEF Sound, SquadValid
<1>3. Cost({in}) = Price[in] /\ Sum(Selling, {out}) = Selling[out]
  <2>1. Price[in] \in Int /\ Selling[out] \in Int BY SquadAssumption
  <2> QED BY <2>1, SumOne DEF Cost
<1>4. /\ Cost(S \ Owned) = Price[in] /\ Sum(Selling, Owned \ S) = Selling[out]
  BY <1>1, <1>3, Zenon
<1>5. Cardinality(S \ Owned) =< 1 BY <1>1, FS_Singleton
<1>6. \A p \in S : p \in Player /\ (p = in \/ p \in Owned) BY SwapFacts DEF Swap
<1>7. in \in S BY DEF Swap
<1> HIDE DEF S
<1>8. (\A p \in S : Admitted(p, policy) /\ ~BreaksPolicy(p, policy)) <=> Admitted(in, policy)
  BY <1>2, <1>6, <1>7 DEF Sound
<1>9. S \in Squads => SquadShape(S) BY DEF Squads
<1>10. S \in Reachable(bank) <=>
         /\ S \in Squads /\ SquadValid(S, policy) /\ Cardinality(S \ Owned) =< 1
         /\ Cost(S \ Owned) =< bank + Sum(Selling, Owned \ S)
  BY DEF Reachable
<1>11. Price[in] =< Selling[out] + bank <=> Price[in] =< bank + Selling[out]
  BY SquadAssumption
<1>12. Position[in] = Position[out] <=> S \in Squads BY <1>2, SwapShape DEF S
<1>13. Cardinality({p \in Owned \ {out} : Club[p] = Club[in]}) < ClubLimit <=> ClubsWithin(S)
  BY <1>2, SwapClubs DEF S
<1>14. Cost(S \ Owned) =< bank + Sum(Selling, Owned \ S) <=> Price[in] =< Selling[out] + bank
  BY ONLY <1>4, <1>11
<1>15. S \in Squads => (SquadValid(S, policy) <=> ClubsWithin(S) /\ Admitted(in, policy))
  BY <1>8, <1>9 DEF SquadValid
<1>16. LegalSwap(out, in, bank) <=>
         /\ Admitted(in, policy) /\ Position[in] = Position[out]
         /\ Price[in] =< Selling[out] + bank
         /\ Cardinality({p \in Owned \ {out} : Club[p] = Club[in]}) < ClubLimit
  BY DEF LegalSwap
<1> QED BY <1>5, <1>10, <1>12, <1>13, <1>14, <1>15, <1>16 DEF S

(* The owned squad is reachable: keeping it costs nothing. *)
LEMMA OwnedReachable ==
  ASSUME Sound, NEW bank \in Nat
  PROVE  Owned \in Reachable(bank)
<1>1. Owned \in Squads BY OwnedSquad DEF Sound, SquadValid
<1>2. Owned \ Owned = {} OBVIOUS
<1>3. Cost({}) = 0 /\ Sum(Selling, {}) = 0 /\ Cardinality({}) = 0 BY SumNone, FS_EmptySet DEF Cost
<1>4. Cost(Owned \ Owned) = 0 /\ Sum(Selling, Owned \ Owned) = 0 /\ Cardinality(Owned \ Owned) = 0
  BY <1>2, <1>3, Zenon
<1> QED BY <1>1, <1>4 DEF Reachable, Sound

(* The legal swaps of generate_candidates lead to exactly the valid squads,
   other than the owned one, that one transfer reaches and the manager can
   pay for. *)
THEOREM ReachableIs ==
  ASSUME Sound, NEW bank \in Nat, NEW S
  PROVE  S \in Reachable(bank) \ {Owned} <=>
           \E out \in Owned : \E in \in Player \ Owned : LegalSwap(out, in, bank) /\ S = Swap(out, in)
<1>1. ASSUME S \in Reachable(bank) \ {Owned}
      PROVE  \E out \in Owned : \E in \in Player \ Owned : LegalSwap(out, in, bank) /\ S = Swap(out, in)
  <2>1. S \in Squads /\ Cardinality(S \ Owned) =< 1 /\ S # Owned BY <1>1 DEF Reachable
  <2>2. SquadShape(Owned) BY DEF Sound, SquadValid
  <2>3. PICK out \in Owned : \E in \in Player \ Owned : S = Swap(out, in) BY <2>1, <2>2, OneSwap
  <2>4. PICK in \in Player \ Owned : S = Swap(out, in) BY <2>3
  <2> QED BY <2>4, <1>1, LegalSwapReachable
<1>2. ASSUME NEW out \in Owned, NEW in \in Player \ Owned, LegalSwap(out, in, bank), S = Swap(out, in)
      PROVE  S \in Reachable(bank) \ {Owned}
  BY <1>2, LegalSwapReachable, SwapFacts
<1> QED BY <1>1, <1>2

(* All of them can be evaluated. *)
LEMMA ReachablePlayable ==
  ASSUME Sound, NEW bank
  PROVE  AllPlayable(Value, Reachable(bank))
<1>1. \A S \in Reachable(bank) : S \in Squads /\ S \in SUBSET Player
  BY SquadFacts DEF Reachable
<1>2. \A S \in Reachable(bank) : \A p \in S : p \in Player /\ Admitted(p, "appearance_only_allowed")
  BY <1>1 DEF Reachable, SquadValid
<1>3. \A S \in Reachable(bank) : \A p \in S : Value[p] \in Int BY <1>2, AdmittedPlayable DEF Sound
<1> QED BY <1>1, <1>3 DEF AllPlayable, Playable

-----------------------------------------------------------------------------
(* One transfer: the best of the candidates *)

(* Scores of playable line-ups. *)
IsScore(v, x) == \E S \in Squads : Playable(v, S) /\ \E y \in LineUps[S] : x = Objective(v, y)

(* Among them ties are transitive, and so is being better by no more than the
   tolerance. *)
LEMMA ScoresChain ==
  ASSUME NEW v, Frozen(v), NEW x, IsScore(v, x), NEW y, IsScore(v, y), NEW z, IsScore(v, z)
  PROVE  /\ x \in Int
         /\ Near(x, y) <=> x - y =< Tolerance /\ y - x =< Tolerance
         /\ x =< y + Tolerance /\ y =< z + Tolerance => x =< z + Tolerance
         /\ Near(x, y) /\ Near(y, z) => Near(x, z)
<1>1. \A u : IsScore(v, u) => u \in Int BY LineUpPlayable DEF IsScore
<1>2. \A u, w : IsScore(v, u) /\ IsScore(v, w) /\ u - w \in -(2 * Tolerance) .. 2 * Tolerance
                  => Near(u, w)
  BY ScoresTie DEF IsScore
<1>3. x \in Int /\ y \in Int /\ z \in Int /\ Tolerance \in Nat BY <1>1, ToleranceNat
<1>4. \A u, w \in Int : Near(u, w) <=> u - w =< Tolerance /\ w - u =< Tolerance
  BY ToleranceNat DEF Near
<1>5. x - z \in -(2 * Tolerance) .. 2 * Tolerance => Near(x, z) BY <1>2
<1>6. ASSUME x =< y + Tolerance, y =< z + Tolerance PROVE x =< z + Tolerance
  <2>1. CASE x =< z BY <2>1, <1>3
  <2>2. CASE x > z
    <3>1. x - z \in -(2 * Tolerance) .. 2 * Tolerance BY <2>2, <1>3, <1>6
    <3> QED BY <3>1, <1>3, <1>4, <1>5
  <2> QED BY <2>1, <2>2, <1>3
<1>7. ASSUME Near(x, y), Near(y, z) PROVE Near(x, z)
  <2>1. x - z \in -(2 * Tolerance) .. 2 * Tolerance BY <1>3, <1>4, <1>7
  <2> QED BY <2>1, <1>5
<1> QED BY <1>3, <1>4, <1>6, <1>7

(* What a candidate is. *)
LEMMA CandidateFacts ==
  ASSUME Sound, NEW bank \in Nat, NEW c \in Candidates(Value, bank)
  PROVE  /\ c.out \in Owned /\ c.in \in Player \ Owned /\ c.out \in Nat /\ c.in \in Nat
         /\ LegalSwap(c.out, c.in, bank)
         /\ c = [out |-> c.out, in |-> c.in, result |-> OptimizeXI(Value, Swap(c.out, c.in))]
         /\ Swap(c.out, c.in) \in Reachable(bank) \ {Owned}
         /\ Answer(Value, Swap(c.out, c.in), c.result)
         /\ IsScore(Value, c.result.objective)
<1> DEFINE v == Value
<1>1. PICK s \in {s \in Owned \X Player : LegalSwap(s[1], s[2], bank)} :
        c = [out |-> s[1], in |-> s[2], result |-> OptimizeXI(v, Swap(s[1], s[2]))]
  BY DEF Candidates
<1>2. /\ c.out = s[1] /\ c.in = s[2] /\ c.result = OptimizeXI(v, Swap(s[1], s[2]))
      /\ s[1] \in Owned /\ s[2] \in Player /\ LegalSwap(s[1], s[2], bank) BY <1>1
<1>3. c.in \in Player \ Owned BY <1>2 DEF LegalSwap
<1>4. Swap(c.out, c.in) \in Reachable(bank) \ {Owned} BY <1>2, <1>3, ReachableIs
<1>5. Swap(c.out, c.in) \in Squads /\ Playable(v, Swap(c.out, c.in))
  BY <1>4, ReachablePlayable DEF AllPlayable
<1>6. Frozen(v) BY RowsType DEF Sound
<1>7. Answer(v, Swap(c.out, c.in), c.result) BY <1>2, <1>5, <1>6, OptimizeXIAnswers
<1>8. IsScore(v, c.result.objective) BY <1>5, <1>7 DEF IsScore, Answer
<1>9. c.out \in Nat /\ c.in \in Nat BY <1>2, <1>3, SquadAssumption
<1>10. c = [out |-> c.out, in |-> c.in, result |-> OptimizeXI(v, Swap(c.out, c.in))]
  BY <1>1, <1>2
<1> HIDE DEF v
<1> QED BY <1>2, <1>3, <1>4, <1>7, <1>8, <1>9, <1>10 DEF v

(* Candidates are finitely many. *)
LEMMA CandidatesFinite ==
  ASSUME NEW v, NEW bank
  PROVE  IsFiniteSet(Candidates(v, bank))
<1> DEFINE Q == {s \in Owned \X Player : LegalSwap(s[1], s[2], bank)}
           f == [s \in Q |-> [out |-> s[1], in |-> s[2], result |-> OptimizeXI(v, Swap(s[1], s[2]))]]
<1>1. IsFiniteSet(Owned) /\ IsFiniteSet(Player) BY SquadAssumption, FS_Subset
<1>2. IsFiniteSet(Owned \X Player) BY <1>1, FS_Product
<1>3. IsFiniteSet(Q)
  <2>1. Q \in SUBSET (Owned \X Player) OBVIOUS
  <2> HIDE DEF Q
  <2> QED BY ONLY <2>1, <1>2, FS_Subset
<1>4. Candidates(v, bank) = {f[s] : s \in Q} BY DEF Candidates
<1> HIDE DEF f, Q
<1> QED BY <1>3, <1>4, ImageFinite

(* The preference of the code on the candidates. *)
PreferredOn(C) == {e \in C \X C : Preferred(e[1], e[2])}

(* Objective when they differ by more than the tolerance, else ids: a strict
   total order on the candidates (_candidate_compare), because ties are
   transitive. *)
LEMMA PreferredOrdered ==
  ASSUME Sound, NEW bank \in Nat
  PROVE  Ordered(Candidates(Value, bank), PreferredOn(Candidates(Value, bank)))
<1> DEFINE v == Value
           C == Candidates(v, bank)
           obj(c) == c.result.objective
<1>1. \A c, d \in C : <<c, d>> \in PreferredOn(C) <=> Preferred(c, d) BY DEF PreferredOn
<1>2. \A c \in C : /\ c.out \in Nat /\ c.in \in Nat /\ IsScore(v, obj(c))
                   /\ c = [out |-> c.out, in |-> c.in, result |-> OptimizeXI(v, Swap(c.out, c.in))]
  BY CandidateFacts
<1>3. \A c, d \in C : c.out = d.out /\ c.in = d.in => c = d BY <1>2
<1>4. Frozen(v) BY RowsType DEF Sound
<1>5. \A c, d \in C : obj(c) \in Int /\ (Near(obj(c), obj(d))
                                          <=> obj(c) - obj(d) =< Tolerance /\ obj(d) - obj(c) =< Tolerance)
  BY <1>2, <1>4, ScoresChain
<1>6. \A c, d, e \in C : Near(obj(c), obj(d)) /\ Near(obj(d), obj(e)) => Near(obj(c), obj(e))
  BY <1>2, <1>4, ScoresChain
<1>7. Tolerance \in Nat BY ToleranceNat
<1>8. \A c, d : Preferred(c, d) <=> IF Near(obj(c), obj(d)) THEN LowerPair(c, d) ELSE obj(c) > obj(d)
  BY DEF Preferred
<1> HIDE DEF C, obj, v
<1>9. \A c \in C : ~Preferred(c, c)
  <2> SUFFICES ASSUME NEW c \in C PROVE ~Preferred(c, c) OBVIOUS
  <2>1. Near(obj(c), obj(c)) BY <1>5, <1>7
  <2>2. ~LowerPair(c, c) BY <1>2 DEF LowerPair
  <2> QED BY <2>1, <2>2, <1>8
<1>10. ASSUME NEW c \in C, NEW d \in C PROVE c = d \/ Preferred(c, d) \/ Preferred(d, c)
  <2>1. CASE Near(obj(c), obj(d))
    <3>1. Near(obj(d), obj(c)) BY <2>1, <1>5
    <3>2. c = d \/ LowerPair(c, d) \/ LowerPair(d, c)
      <4>1. c.out \in Nat /\ c.in \in Nat /\ d.out \in Nat /\ d.in \in Nat BY <1>2
      <4>2. (c.out = d.out /\ c.in = d.in) \/ LowerPair(c, d) \/ LowerPair(d, c) BY <4>1 DEF LowerPair
      <4> QED BY <4>2, <1>3
    <3> QED BY <2>1, <3>1, <3>2, <1>8
  <2>2. CASE ~Near(obj(c), obj(d))
    <3>1. ~Near(obj(d), obj(c)) BY <2>2, <1>5
    <3>2. obj(c) > obj(d) \/ obj(d) > obj(c)
      <4>1. obj(c) \in Int /\ obj(d) \in Int
            /\ ~(obj(c) - obj(d) =< Tolerance /\ obj(d) - obj(c) =< Tolerance) BY <2>2, <1>5
      <4> QED BY <4>1, <1>7
    <3> QED BY <2>2, <3>1, <3>2, <1>8
  <2> QED BY <2>1, <2>2
<1>11. ASSUME NEW c \in C, NEW d \in C, NEW e \in C, Preferred(c, d), Preferred(d, e)
       PROVE  Preferred(c, e)
  <2>0. /\ obj(c) \in Int /\ obj(d) \in Int /\ obj(e) \in Int BY <1>5
  <2>1. CASE Near(obj(c), obj(d)) /\ Near(obj(d), obj(e))
    <3>1. Near(obj(c), obj(e)) BY <2>1, <1>6
    <3>2. LowerPair(c, d) /\ LowerPair(d, e) BY <2>1, <1>8, <1>11
    <3>3. LowerPair(c, e)
      <4>1. /\ c.out \in Nat /\ c.in \in Nat /\ d.out \in Nat /\ d.in \in Nat
            /\ e.out \in Nat /\ e.in \in Nat BY <1>2
      <4> QED BY <4>1, <3>2 DEF LowerPair
    <3> QED BY <3>1, <3>3, <1>8
  <2>2. CASE Near(obj(c), obj(d)) /\ ~Near(obj(d), obj(e))
    <3>1. ~Near(obj(c), obj(e))
      <4>1. Near(obj(d), obj(c)) BY <2>2, <1>5
      <4> QED BY <4>1, <2>2, <1>6
    <3>2. obj(d) > obj(e) BY <2>2, <1>8, <1>11
    <3>3. obj(d) > obj(e) + Tolerance
      <4>1. ~(obj(d) - obj(e) =< Tolerance /\ obj(e) - obj(d) =< Tolerance) BY <2>2, <1>5
      <4> QED BY <4>1, <3>2, <2>0, <1>7
    <3>4. obj(d) - obj(c) =< Tolerance BY <2>2, <1>5
    <3>5. obj(c) > obj(e) BY <3>3, <3>4, <2>0, <1>7
    <3> QED BY <3>1, <3>5, <1>8
  <2>3. CASE ~Near(obj(c), obj(d)) /\ Near(obj(d), obj(e))
    <3>1. ~Near(obj(c), obj(e))
      <4>1. Near(obj(e), obj(d)) BY <2>3, <1>5
      <4> QED BY <4>1, <2>3, <1>6
    <3>2. obj(c) > obj(d) BY <2>3, <1>8, <1>11
    <3>3. obj(c) > obj(d) + Tolerance
      <4>1. ~(obj(c) - obj(d) =< Tolerance /\ obj(d) - obj(c) =< Tolerance) BY <2>3, <1>5
      <4> QED BY <4>1, <3>2, <2>0, <1>7
    <3>4. obj(e) - obj(d) =< Tolerance BY <2>3, <1>5
    <3>5. obj(c) > obj(e) BY <3>3, <3>4, <2>0, <1>7
    <3> QED BY <3>1, <3>5, <1>8
  <2>4. CASE ~Near(obj(c), obj(d)) /\ ~Near(obj(d), obj(e))
    <3>1. obj(c) > obj(d) /\ obj(d) > obj(e) BY <2>4, <1>8, <1>11
    <3>2. obj(c) > obj(d) + Tolerance
      <4>1. ~(obj(c) - obj(d) =< Tolerance /\ obj(d) - obj(c) =< Tolerance) BY <2>4, <1>5
      <4> QED BY <4>1, <3>1, <2>0, <1>7
    <3>3. obj(c) > obj(e) /\ ~(obj(c) - obj(e) =< Tolerance) BY <3>1, <3>2, <2>0, <1>7
    <3>4. ~Near(obj(c), obj(e)) BY <3>3, <1>5
    <3> QED BY <3>3, <3>4, <1>8
  <2> QED BY <2>1, <2>2, <2>3, <2>4
<1> USE DEF C, v
<1> QED BY <1>1, <1>9, <1>10, <1>11 DEF Ordered

(* So there is a first candidate, preferred to all the others. *)
LEMMA FirstFacts ==
  ASSUME Sound, NEW bank \in Nat, Candidates(Value, bank) # {}
  PROVE  /\ First(Candidates(Value, bank)) \in Candidates(Value, bank)
         /\ \A d \in Candidates(Value, bank) \ {First(Candidates(Value, bank))} :
              Preferred(First(Candidates(Value, bank)), d)
<1> DEFINE C == Candidates(Value, bank)
           R == PreferredOn(C)
<1>1. Ordered(C, R) /\ IsFiniteSet(C) BY PreferredOrdered, CandidatesFinite
<1>2. \A c, d \in C : <<c, d>> \in R <=> Preferred(c, d) BY DEF PreferredOn
<1> HIDE DEF C, R
<1>3. C # {} BY DEF C
<1>4. \E c \in C : \A d \in C \ {c} : <<c, d>> \in R BY ONLY <1>1, <1>3, LeastElement
<1>5. \E c \in C : \A d \in C \ {c} : Preferred(c, d) BY <1>2, <1>4
<1>6. First(C) \in C /\ \A d \in C \ {First(C)} : Preferred(First(C), d) BY <1>5 DEF First
<1> QED BY <1>6 DEF C

(* What a decision promises. *)
DecisionBest(v, d) ==
  LET squads == Reachable(d.bank)
      chosen == IF d.action = Roll THEN d.roll ELSE d.best.result
  IN  /\ {c.result.squad : c \in d.candidates} = squads \ {Owned}
      /\ Within(v, chosen, squads)
      /\ d.action # Roll =>
           /\ chosen.squad = Swap(d.action.out, d.action.in)
           /\ chosen.objective > BestOf(v, {Owned})

(* evaluate_one_transfer keeps that promise. *)
LEMMA DecisionAnswers ==
  ASSUME Sound, NEW bank \in Nat, None \notin Candidates(Value, bank)
  PROVE  DecisionBest(Value, EvaluateOneTransfer(Value, bank))
<1> DEFINE v == Value
           C == Candidates(v, bank)
           d == EvaluateOneTransfer(v, bank)
           roll == OptimizeXI(v, Owned)
           first == First(C)
           squads == Reachable(bank)
           T == Tolerance
<1>1. /\ d.bank = bank /\ d.roll = roll /\ d.candidates = C
      /\ d.best = (IF C = {} THEN None ELSE first)
      /\ d.action = Recommend(d.best, roll)
  BY DEF EvaluateOneTransfer
<1>2. Frozen(v) BY RowsType DEF Sound
<1>3. AllPlayable(v, squads) /\ Owned \in squads BY ReachablePlayable, OwnedReachable
<1>4. \A S \in squads : S \in Squads /\ Playable(v, S) BY <1>3 DEF AllPlayable
<1>5. Answer(v, Owned, roll) BY <1>2, <1>3, <1>4, OptimizeXIAnswers
<1>6. \A c \in C : /\ c.out \in Owned /\ c.in \in Player \ Owned /\ LegalSwap(c.out, c.in, bank)
                   /\ c.out \in Nat
                   /\ Swap(c.out, c.in) \in squads \ {Owned}
                   /\ Answer(v, Swap(c.out, c.in), c.result)
                   /\ IsScore(v, c.result.objective)
  BY CandidateFacts
<1>7. \A S : S \in squads \ {Owned} =>
         \E out \in Owned : \E in \in Player \ Owned : LegalSwap(out, in, bank) /\ S = Swap(out, in)
  BY ReachableIs
<1>8. ASSUME NEW S \in squads \ {Owned} PROVE \E c \in C : c.result.squad = S
  <2>1. PICK out \in Owned : \E in \in Player \ Owned : LegalSwap(out, in, bank) /\ S = Swap(out, in)
    BY <1>7
  <2>2. PICK in \in Player \ Owned : LegalSwap(out, in, bank) /\ S = Swap(out, in) BY <2>1
  <2> DEFINE c == [out |-> out, in |-> in, result |-> OptimizeXI(v, Swap(out, in))]
  <2>3. <<out, in>> \in {s \in Owned \X Player : LegalSwap(s[1], s[2], bank)} BY <2>2
  <2>4. c \in C BY <2>3 DEF Candidates
  <2>5. c.out = out /\ c.in = in OBVIOUS
  <2> HIDE DEF c, C
  <2>6. Answer(v, S, c.result) BY <2>2, <2>4, <2>5, <1>6
  <2> QED BY <2>4, <2>6 DEF Answer
<1>9. \A c \in C : c.result.squad = Swap(c.out, c.in) BY <1>6 DEF Answer
<1>10. C # {} => first \in C /\ \A c \in C \ {first} : Preferred(first, c) BY FirstFacts
<1> HIDE DEF v, C, d, roll, first, squads
<1>11. {c.result.squad : c \in C} = squads \ {Owned} BY <1>6, <1>8, <1>9
<1>12. IsScore(v, roll.objective) BY <1>3, <1>4, <1>5 DEF IsScore, Answer
<1>13. \A S \in squads : \A y \in LineUps[S] : IsScore(v, Objective(v, y)) BY <1>4 DEF IsScore
<1>14. \A y \in LineUps[Owned] : Objective(v, y) =< roll.objective + T BY <1>5 DEF Answer, Best
<1>15. \A S \in squads : S # Owned =>
         \E c \in C : \A y \in LineUps[S] : Objective(v, y) =< c.result.objective + T
  <2> SUFFICES ASSUME NEW S \in squads, S # Owned
               PROVE  \E c \in C : \A y \in LineUps[S] : Objective(v, y) =< c.result.objective + T
    OBVIOUS
  <2>1. PICK c \in C : c.result.squad = S BY <1>8
  <2>2. Answer(v, S, c.result) BY <2>1, <1>6, <1>9
  <2> QED BY <2>2 DEF Answer, Best
<1>16. ASSUME C # {}, NEW c \in C PROVE c.result.objective =< first.result.objective + T
  <2>1. first \in C /\ IsScore(v, c.result.objective) /\ IsScore(v, first.result.objective)
    BY <1>6, <1>10, <1>16
  <2>2. /\ c.result.objective \in Int /\ first.result.objective \in Int
        /\ Near(first.result.objective, c.result.objective) =>
             c.result.objective - first.result.objective =< T
    BY <2>1, <1>2, ScoresChain
  <2>3. CASE c = first BY <2>2, <2>3, ToleranceNat
  <2>4. CASE c # first
    <3>1. Preferred(first, c) BY <2>4, <1>10, <1>16
    <3>2. \/ Near(first.result.objective, c.result.objective)
          \/ first.result.objective > c.result.objective
      BY <3>1 DEF Preferred
    <3> QED BY <3>2, <2>2, ToleranceNat
  <2> QED BY <2>3, <2>4
<1>17. first # None \/ C = {} BY <1>10 DEF C, v
<1>18. \A c : Transfer(c) # Roll BY DEF Transfer, Roll
<1>19. CASE C = {}
  <2>1. d.action = Roll BY <1>1, <1>19 DEF Recommend
  <2>2. \A S \in squads : \A y \in LineUps[S] : Objective(v, y) =< roll.objective + Tolerance
    BY <1>14, <1>15, <1>19
  <2>3. Within(v, roll, squads) BY <2>2, <1>3, <1>5, WithinIf
  <2> QED BY <2>1, <2>3, <1>1, <1>11 DEF DecisionBest, v, d, squads
<1>20. CASE C # {} /\ ~(first.result.objective > roll.objective + T)
  <2>1. d.action = Roll BY <1>1, <1>20, <1>17 DEF Recommend
  <2>2. first \in C /\ IsScore(v, first.result.objective) BY <1>6, <1>10, <1>20
  <2>3. first.result.objective \in Int /\ roll.objective \in Int BY <2>2, <1>2, <1>12, ScoresChain
  <2>4. first.result.objective =< roll.objective + T BY <2>3, <1>20, ToleranceNat
  <2>5. ASSUME NEW S \in squads, NEW y \in LineUps[S]
        PROVE  Objective(v, y) =< roll.objective + Tolerance
    <3>1. CASE S = Owned BY <3>1, <2>5, <1>14
    <3>2. CASE S # Owned
      <4>1. PICK c \in C : Objective(v, y) =< c.result.objective + T BY <3>2, <2>5, <1>15
      <4>2. c.result.objective =< first.result.objective + T BY <1>16, <1>20
      <4>3. IsScore(v, Objective(v, y)) /\ IsScore(v, c.result.objective) BY <2>5, <1>6, <1>13
      <4>4. Objective(v, y) =< first.result.objective + Tolerance
        BY <4>1, <4>2, <4>3, <2>2, <1>2, ScoresChain
      <4> QED BY <4>3, <4>4, <2>2, <2>4, <1>2, <1>12, ScoresChain
    <3> QED BY <3>1, <3>2
  <2>6. Within(v, roll, squads) BY <2>5, <1>3, <1>5, WithinIf
  <2> QED BY <2>1, <2>6, <1>1, <1>11 DEF DecisionBest, v, d, squads
<1>21. CASE C # {} /\ first.result.objective > roll.objective + T
  <2>1. d.action = Transfer(first) /\ d.best = first /\ d.action # Roll
    BY <1>1, <1>17, <1>18, <1>21 DEF Recommend
  <2>2. first \in C /\ IsScore(v, first.result.objective) BY <1>6, <1>10, <1>21
  <2>3. first.result.objective \in Int /\ roll.objective \in Int BY <2>2, <1>2, <1>12, ScoresChain
  <2>4. ASSUME NEW S \in squads, NEW y \in LineUps[S]
        PROVE  Objective(v, y) =< first.result.objective + Tolerance
    <3>0. IsScore(v, Objective(v, y)) BY <2>4, <1>13
    <3>1. CASE S = Owned
      <4>1. Objective(v, y) =< roll.objective + T BY <3>1, <2>4, <1>14
      <4>2. Objective(v, y) \in Int BY <3>0, <1>2, ScoresChain
      <4> QED BY <4>1, <4>2, <2>3, <1>21, ToleranceNat
    <3>2. CASE S # Owned
      <4>1. PICK c \in C : Objective(v, y) =< c.result.objective + T BY <3>2, <2>4, <1>15
      <4>2. c.result.objective =< first.result.objective + T BY <1>16, <1>21
      <4>3. IsScore(v, c.result.objective) BY <1>6
      <4> QED BY <4>1, <4>2, <4>3, <3>0, <2>2, <1>2, ScoresChain
    <3> QED BY <3>1, <3>2
  <2>5. Within(v, first.result, squads) BY <2>4, <2>2, <1>3, <1>6, WithinIf
  <2>6. first.result.squad = Swap(first.out, first.in) BY <2>2, <1>9
  <2>7. first.result.objective > BestOf(v, {Owned})
    <3>1. AllPlayable(v, {Owned}) BY <1>3, <1>4 DEF AllPlayable
    <3>2. PICK y \in LineUps[Owned] : BestOf(v, {Owned}) = Objective(v, y) /\ BestOf(v, {Owned}) \in Int
      BY <3>1, BestOfIs
    <3>3. BestOf(v, {Owned}) =< roll.objective + T BY <3>2, <1>14
    <3> QED BY <3>2, <3>3, <2>3, <1>21, ToleranceNat
  <2>8. d.action.out = first.out /\ d.action.in = first.in BY <2>1 DEF Transfer
  <2> QED BY <2>1, <2>5, <2>6, <2>7, <2>8, <1>1, <1>11 DEF DecisionBest, v, d, squads
<1> QED BY <1>19, <1>20, <1>21

(* A candidate is a record, so that no candidate is mistaken for the absence
   of one. *)
LEMMA CandidatesAreRecords ==
  ASSUME Sound, NEW bank \in Nat
  PROVE  None \notin Candidates(Value, bank)
<1> SUFFICES ASSUME NEW c \in Candidates(Value, bank) PROVE c \in Swapping
  BY SquadAssumption
<1> DEFINE v == Value
           S == Swap(c.out, c.in)
           xi == Kept(v, TRUE, ScanOrder[S])
           r == Selection(v, S, xi)
<1>1. /\ c.out \in Owned /\ c.in \in Player
      /\ c = [out |-> c.out, in |-> c.in, result |-> OptimizeXI(v, S)]
      /\ S \in Reachable(bank) /\ Answer(v, S, c.result) /\ IsScore(v, c.result.objective)
  BY CandidateFacts
<1>2. c.result = r
  <2>1. OptimizeXI(v, S) = r BY DEF OptimizeXI
  <2> HIDE DEF r, S, v
  <2> QED BY <1>1, <2>1
<1>3. c.out \in Player BY <1>1, SquadAssumption
<1>4. S \in Squads BY <1>1, ReachablePlayable DEF AllPlayable
<1>5. S \subseteq Player BY <1>4, SquadFacts
<1>6. r.squad = S /\ r.xi \in LineUps[S] BY <1>1, <1>2 DEF Answer
<1>7. r.xi \subseteq S
  <2> HIDE DEF r, S
  <2> QED BY <1>4, <1>6, LineUpFacts
<1>8. r.captain \in r.xi /\ r.vice \in r.xi BY <1>1, <1>2 DEF Answer
<1>9. r.objective \in Int
  <2>1. IsScore(v, r.objective) BY <1>1, <1>2
  <2> HIDE DEF r
  <2> QED BY <2>1, ScoresChain, RowsType DEF Sound
<1>10. r = [squad |-> r.squad, xi |-> r.xi, captain |-> r.captain, vice |-> r.vice,
            objective |-> r.objective] BY DEF Selection
<1> HIDE DEF r
<1>11. r \in Result BY <1>5, <1>6, <1>7, <1>8, <1>9, <1>10 DEF Result
<1> HIDE DEF S
<1> QED BY <1>1, <1>2, <1>3, <1>11 DEF Swapping

-----------------------------------------------------------------------------
(* The greedy diagnostic is the exhaustive scan *)

(* Projections that are equal or more than the tolerance apart. *)
Distinct(v) ==
  \A p, q \in Player : v[p] \in Int /\ v[q] \in Int /\ v[p] > v[q] => v[p] > v[q] + Tolerance

(* Then a best line-up has the top players of each position: replacing one by
   a player ahead of him would score more, or tie with lower ids. *)
LEMMA BestIsGreedy ==
  ASSUME NEW v, Distinct(v), NEW S \in Squads, Playable(v, S), NEW b, Best(v, LineUps[S], b),
         NEW pos \in Positions, NEW k, k = Cardinality(Of(b, pos))
  PROVE  Of(b, pos) = Top(v, Of(S, pos), k)
<1> DEFINE A == Of(b, pos)
           B == Top(v, Of(S, pos), k)
<1>1. b \in LineUps[S] /\ b \in SUBSET S /\ b \in SUBSET Player /\ IsFiniteSet(b) /\ LineUp(S, b)
  BY LineUpFacts DEF Best
<1>2. IsFiniteSet(S) /\ S \in SUBSET Player BY SquadFacts
<1>3. A \in SUBSET Of(S, pos) /\ Of(S, pos) \in SUBSET S BY <1>1 DEF Of
<1>4. IsFiniteSet(Of(S, pos)) BY <1>2, <1>3, FS_Subset
<1>5. IsFiniteSet(A) /\ k \in Nat /\ k =< Cardinality(Of(S, pos))
  BY <1>3, <1>4, FS_Subset, FS_CardinalityType
<1>6. Playable(v, Of(S, pos)) BY <1>2, <1>3 DEF Playable
<1>7. /\ B \in SUBSET Of(S, pos) /\ Cardinality(B) = k
      /\ \A p \in B : \A q \in Of(S, pos) \ B : Ahead(v, p, q)
  BY <1>5, <1>6, TopFacts
<1>8. IsFiniteSet(B) BY <1>4, <1>7, FS_Subset
<1> SUFFICES ASSUME A # B PROVE FALSE OBVIOUS
<1>9. \E p \in A : p \notin B
  <2> SUFFICES ASSUME \A p \in A : p \in B PROVE FALSE OBVIOUS
  <2>1. A \in SUBSET B OBVIOUS
  <2>2. Cardinality(A) = Cardinality(B) BY <1>7
  <2> HIDE DEF A, B
  <2>3. A = B BY ONLY <2>1, <2>2, <1>8, FS_Subset
  <2> QED BY <2>3
<1>10. \E q \in B : q \notin A
  <2> SUFFICES ASSUME \A q \in B : q \in A PROVE FALSE OBVIOUS
  <2>1. B \in SUBSET A OBVIOUS
  <2>2. Cardinality(A) = Cardinality(B) BY <1>7
  <2> HIDE DEF A, B
  <2>3. A = B BY ONLY <2>1, <2>2, <1>5, FS_Subset
  <2> QED BY <2>3
<1>11. PICK p \in A : p \notin B BY <1>9
<1>12. PICK q \in B : q \notin A BY <1>10
<1>13. p \in Of(S, pos) \ B /\ Ahead(v, q, p) BY <1>3, <1>7, <1>11, <1>12
<1>14. p \in b /\ q \in S /\ q \notin b /\ Position[p] = pos /\ Position[q] = pos /\ p \in S /\ q # p
  BY <1>3, <1>7, <1>11, <1>12 DEF Of
<1> DEFINE c == (b \ {p}) \cup {q}
<1>15. c \in SUBSET S /\ q \in c /\ c \in SUBSET Player BY <1>1, <1>2, <1>14
<1>16. \A o \in Positions : Cardinality(Of(c, o)) = Cardinality(Of(b, o))
  <2> SUFFICES ASSUME NEW o \in Positions PROVE Cardinality(Of(c, o)) = Cardinality(Of(b, o)) OBVIOUS
  <2>1. CASE o = pos
    <3>1. Of(c, o) = (A \ {p}) \cup {q} BY <2>1, <1>14 DEF Of
    <3> HIDE DEF A, c
    <3>2. Cardinality((A \ {p}) \cup {q}) = Cardinality(A) BY <1>5, <1>11, <1>12, CountSwap
    <3> QED BY <2>1, <3>1, <3>2 DEF A
  <2>2. CASE o # pos
    <3>1. Of(c, o) = Of(b, o) BY <2>2, <1>14 DEF Of
    <3> QED BY <3>1
  <2> QED BY <2>1, <2>2
<1>17. Cardinality(c) = Cardinality(b) BY <1>1, <1>14, CountSwap
<1>18. LineUp(S, c)
  <2>1. "GK" \in Positions BY DEF Positions
  <2> HIDE DEF c
  <2> QED BY <2>1, <1>1, <1>15, <1>16, <1>17 DEF LineUp
<1>19. c \in LineUps[S] BY <1>15, <1>18, LineUpsAre
<1>20. Summable(v, S) BY PlayableSummable
<1>21. Sum(v, c) = Sum(v, b) - v[p] + v[q]
  <2>1. b \in SUBSET S /\ p \in b /\ q \in S \ b BY <1>1, <1>14
  <2> QED BY ONLY <2>1, <1>20, SumExchange
<1> DEFINE l == Leader(v, b)
<1>22. /\ Sum(v, b) \in Int /\ l \in b /\ v[l] \in Int /\ Objective(v, b) \in Int
       /\ Objective(v, b) = Sum(v, b) + v[l]
  BY <1>1, LineUpPlayable DEF Objective, Base
<1>23. /\ \A o \in c : v[o] =< v[Leader(v, c)] /\ v[o] \in Int
       /\ Leader(v, c) \in c /\ Objective(v, c) \in Int
       /\ Objective(v, c) = Sum(v, c) + v[Leader(v, c)]
  BY <1>19, LineUpPlayable DEF Objective, Base
<1>24. v[p] \in Int /\ v[q] \in Int /\ v[q] >= v[p] /\ p \in Nat /\ q \in Nat
       /\ p \in Player /\ q \in Player
  BY <1>2, <1>13, <1>14, PlayerNat DEF Playable, Ahead
<1>25. l = p \/ l \in c BY <1>22
<1> HIDE DEF c, l
<1>26. Objective(v, c) >= Objective(v, b) + (v[q] - v[p])
  <2> DEFINE m == v[Leader(v, c)]
  <2>1. m \in Int /\ v[q] =< m /\ (l \in c => v[l] =< m) BY <1>15, <1>23
  <2>2. Objective(v, c) = Sum(v, b) - v[p] + v[q] + m BY <1>21, <1>23
  <2> HIDE DEF m
  <2>3. CASE l = p BY <2>1, <2>2, <2>3, <1>22, <1>24
  <2>4. CASE l \in c BY <2>1, <2>2, <2>4, <1>22, <1>24
  <2> QED BY <2>3, <2>4, <1>25
<1>27. /\ Objective(v, c) =< Objective(v, b) + Tolerance
       /\ Near(Objective(v, c), Objective(v, b)) => c = b \/ LowerIds(b, c)
  BY <1>19 DEF Best
<1>28. CASE v[q] > v[p]
  <2>1. v[q] > v[p] + Tolerance BY <1>24, <1>28 DEF Distinct
  <2> QED BY <2>1, <1>22, <1>23, <1>24, <1>26, <1>27, ToleranceNat
<1>29. CASE ~(v[q] > v[p])
  <2>1. q < p BY <1>13, <1>29 DEF Ahead
  <2>2. Near(Objective(v, c), Objective(v, b))
    <3>1. Objective(v, c) >= Objective(v, b) BY <1>22, <1>23, <1>24, <1>26
    <3> QED BY <3>1, <1>22, <1>23, <1>27, ToleranceNat DEF Near
  <2>3. c # b BY <1>14, <1>15
  <2>4. LowerIds(b, c) BY <2>2, <2>3, <1>27
  <2>5. b \in SUBSET Nat /\ c \in SUBSET Nat BY <1>1, <1>15, PlayerNat
  <2>6. LowerIds(c, b)
    <3>1. q \in c \ b BY <1>14, <1>15
    <3>2. \A i \in Nat : i < q => (i \in c <=> i \in b)
      <4> SUFFICES ASSUME NEW i \in Nat, i < q PROVE i \in c <=> i \in b OBVIOUS
      <4>1. i # q /\ i # p BY <2>1, <1>24
      <4> QED BY <4>1 DEF c
    <3> QED BY <3>1, <3>2, <2>5, LowerIdsMeans
  <2> QED BY <2>4, <2>5, <2>6, LowerIdsOrder
<1> QED BY <1>28, <1>29

(* The formation of a line-up is one of those tried. *)
LEMMA FormationOf ==
  ASSUME NEW S \in Squads, NEW b \in LineUps[S]
  PROVE  /\ Formation(b) \in FormationSet
         /\ \A pos \in Positions \ {"GK"} : Formation(b)[pos] = Cardinality(Of(b, pos))
<1>1. b \in SUBSET Player /\ LineUp(S, b) /\ Cardinality(b) = StartingSize BY LineUpFacts
<1>2. /\ \A pos \in Positions : Cardinality(Of(b, pos)) \in Nat
      /\ Cardinality(b) = Cardinality(Of(b, "GK")) + Cardinality(Of(b, "DEF"))
                          + Cardinality(Of(b, "MID")) + Cardinality(Of(b, "FWD"))
  BY <1>1, PositionCount
<1>3. "GK" \in Positions /\ {"DEF", "MID", "FWD"} = Positions \ {"GK"} BY DEF Positions
<1> DEFINE n(pos) == Cardinality(Of(b, pos))
<1>4. n("DEF") \in Nat /\ n("MID") \in Nat /\ n("FWD") \in Nat BY <1>2, <1>3
<1>5. Cardinality(Of(b, "GK")) = 1 BY <1>1 DEF LineUp
<1>6. StartingSize \in Nat BY SquadAssumption
<1>7. n("DEF") + n("MID") + n("FWD") = StartingSize - 1
  <2>1. StartingSize = 1 + n("DEF") + n("MID") + n("FWD") BY <1>1, <1>2, <1>5
  <2> HIDE DEF n
  <2> QED BY <2>1, <1>4, <1>6
<1>8. \A pos \in Positions \ {"GK"} : n(pos) \in 0 .. StartingSize
  <2>1. n("DEF") \in 0 .. StartingSize /\ n("MID") \in 0 .. StartingSize /\ n("FWD") \in 0 .. StartingSize
    <3> HIDE DEF n
    <3> QED BY <1>4, <1>6, <1>7
  <2> QED BY <2>1, <1>3
<1>9. \A pos \in Positions \ {"GK"} : Formation(b)[pos] = n(pos) BY DEF Formation
<1>10. Formation(b) \in [Positions \ {"GK"} -> 0 .. StartingSize] BY <1>8 DEF Formation
<1>11. \A pos \in Positions \ {"GK"} : Formation(b)[pos] \in StartLeast[pos] .. StartMost[pos]
  BY <1>1, <1>9 DEF LineUp
<1>12. DOMAIN Formation(b) = Positions \ {"GK"} BY DEF Formation
<1> QED BY <1>3, <1>7, <1>9, <1>10, <1>11, <1>12 DEF FormationSet

(* So a best line-up is the greedy one of its formation. *)
LEMMA BestIsFormationXI ==
  ASSUME NEW v, Distinct(v), NEW S \in Squads, Playable(v, S), NEW b, Best(v, LineUps[S], b)
  PROVE  b = FormationXI(v, S, Formation(b)) /\ Formation(b) \in FormationSet
<1>1. b \in LineUps[S] /\ b \in SUBSET Player /\ Cardinality(Of(b, "GK")) = 1
  BY LineUpFacts DEF Best, LineUp
<1> DEFINE f == Formation(b)
           x == FormationXI(v, S, f)
<1>2. f \in FormationSet /\ \A pos \in Positions \ {"GK"} : f[pos] = Cardinality(Of(b, pos))
  BY <1>1, FormationOf
<1> HIDE DEF f
<1>3. /\ x \in LineUps[S] /\ Of(x, "GK") = Top(v, Of(S, "GK"), 1)
      /\ \A pos \in Positions \ {"GK"} : Of(x, pos) = Top(v, Of(S, pos), f[pos])
  BY <1>2, GreedyFacts
<1>4. \A pos \in Positions : Of(b, pos) = Top(v, Of(S, pos), Cardinality(Of(b, pos))) BY BestIsGreedy
<1>5. \A pos \in Positions : Of(b, pos) = Of(x, pos)
  <2> SUFFICES ASSUME NEW pos \in Positions PROVE Of(b, pos) = Of(x, pos) OBVIOUS
  <2>1. CASE pos = "GK"
    <3> HIDE DEF x
    <3> QED BY <2>1, <1>1, <1>3, <1>4
  <2>2. CASE pos # "GK"
    <3>1. Of(x, pos) = Top(v, Of(S, pos), f[pos]) BY <2>2, <1>3
    <3>2. f[pos] = Cardinality(Of(b, pos)) BY <2>2, <1>2
    <3> HIDE DEF x
    <3> QED BY <3>1, <3>2, <1>4
  <2> QED BY <2>1, <2>2
<1>6. x \in SUBSET Player BY <1>3, LineUpFacts
<1> HIDE DEF x
<1>7. \A p \in b : p \in Of(b, Position[p]) /\ Position[p] \in Positions BY <1>1, SquadAssumption DEF Of
<1>8. \A p \in x : p \in Of(x, Position[p]) /\ Position[p] \in Positions BY <1>6, SquadAssumption DEF Of
<1>9. b \subseteq x /\ x \subseteq b BY <1>5, <1>7, <1>8, OfSubset
<1> QED BY <1>2, <1>9 DEF f, x

(* The order of the formations. *)
FewerOn == {e \in FormationSet \X FormationSet : FewerBack(e[1], e[2])}

(* The diagnostic tries every formation. *)
LEMMA FormationsListed ==
  /\ IsFiniteSet(FormationSet) /\ Lists(Formations, FormationSet)
<1> DEFINE F == FormationSet
<1>1. \A f, g \in F : <<f, g>> \in FewerOn <=> FewerBack(f, g) BY DEF FewerOn
<1>2. \A f \in F : /\ f["DEF"] \in Nat /\ f["MID"] \in Nat /\ f["FWD"] \in Nat
                   /\ f["DEF"] + f["MID"] + f["FWD"] = StartingSize - 1
  BY FormationFacts
<1>3. \A f, g \in F : f["DEF"] = g["DEF"] /\ f["MID"] = g["MID"] => f = g
  <2> SUFFICES ASSUME NEW f \in F, NEW g \in F, f["DEF"] = g["DEF"], f["MID"] = g["MID"]
               PROVE  f = g OBVIOUS
  <2>1. /\ f["DEF"] \in Nat /\ f["MID"] \in Nat /\ f["FWD"] \in Nat /\ g["FWD"] \in Nat
        /\ f["DEF"] + f["MID"] + f["FWD"] = g["DEF"] + g["MID"] + g["FWD"] BY <1>2
  <2>2. f["FWD"] = g["FWD"] BY <2>1
  <2>3. f \in [Positions \ {"GK"} -> 0 .. StartingSize] /\ g \in [Positions \ {"GK"} -> 0 .. StartingSize]
    BY DEF FormationSet
  <2>4. Positions \ {"GK"} = {"DEF", "MID", "FWD"} BY DEF Positions
  <2>5. \A pos \in Positions \ {"GK"} : f[pos] = g[pos] BY <2>2, <2>4
  <2> QED BY <2>3, <2>5
<1> HIDE DEF F
<1>4. \A f \in F : ~FewerBack(f, f) BY <1>2 DEF FewerBack
<1>5. \A f, g \in F : f = g \/ FewerBack(f, g) \/ FewerBack(g, f)
  <2> SUFFICES ASSUME NEW f \in F, NEW g \in F PROVE f = g \/ FewerBack(f, g) \/ FewerBack(g, f) OBVIOUS
  <2>1. f["DEF"] \in Nat /\ f["MID"] \in Nat /\ g["DEF"] \in Nat /\ g["MID"] \in Nat BY <1>2
  <2>2. (f["DEF"] = g["DEF"] /\ f["MID"] = g["MID"]) \/ FewerBack(f, g) \/ FewerBack(g, f)
    BY <2>1 DEF FewerBack
  <2> QED BY <2>2, <1>3
<1>6. \A f, g, h \in F : FewerBack(f, g) /\ FewerBack(g, h) => FewerBack(f, h)
  <2> SUFFICES ASSUME NEW f \in F, NEW g \in F, NEW h \in F, FewerBack(f, g), FewerBack(g, h)
               PROVE  FewerBack(f, h) OBVIOUS
  <2>1. /\ f["DEF"] \in Nat /\ f["MID"] \in Nat /\ g["DEF"] \in Nat /\ g["MID"] \in Nat
        /\ h["DEF"] \in Nat /\ h["MID"] \in Nat BY <1>2
  <2> QED BY <2>1 DEF FewerBack
<1>7. Ordered(F, FewerOn) BY <1>1, <1>4, <1>5, <1>6 DEF Ordered
<1>8. IsFiniteSet(F)
  <2> DEFINE I == 0 .. StartingSize
             Q == I \X (I \X I)
             m == [s \in Q |-> [pos \in Positions \ {"GK"} |->
                                  IF pos = "DEF" THEN s[1] ELSE IF pos = "MID" THEN s[2][1] ELSE s[2][2]]]
             M == {m[s] : s \in Q}
  <2>1. IsFiniteSet(I)
    <3>1. 0 \in Int /\ StartingSize \in Int BY SquadAssumption
    <3> QED BY ONLY <3>1, FS_Interval
  <2> HIDE DEF I
  <2>2. IsFiniteSet(Q)
    <3>1. IsFiniteSet(I \X I) BY <2>1, FS_Product
    <3> QED BY ONLY <3>1, <2>1, FS_Product
  <2>3. \A f \in F : f \in M
    <3> SUFFICES ASSUME NEW f \in F PROVE f \in M OBVIOUS
    <3>1. f \in [Positions \ {"GK"} -> I] BY DEF FormationSet, F, I
    <3>2. Positions \ {"GK"} = {"DEF", "MID", "FWD"} BY DEF Positions
    <3> DEFINE s == <<f["DEF"], <<f["MID"], f["FWD"]>>>>
    <3>3. s \in Q BY <3>1, <3>2
    <3>4. m[s] = f
      <4>1. m[s] = [pos \in Positions \ {"GK"} |->
                      IF pos = "DEF" THEN f["DEF"] ELSE IF pos = "MID" THEN f["MID"] ELSE f["FWD"]] BY <3>3
      <4>2. \A pos \in Positions \ {"GK"} : m[s][pos] = f[pos] BY <4>1, <3>2
      <4> HIDE DEF m, s
      <4>3. m[s] \in [Positions \ {"GK"} -> I] BY <4>1, <4>2, <3>1
      <4> QED BY <4>2, <4>3, <3>1
    <3> QED BY <3>3, <3>4
  <2> HIDE DEF m, Q
  <2>4. IsFiniteSet(M) BY <2>2, ImageFinite
  <2> HIDE DEF M
  <2>5. F \in SUBSET M BY <2>3
  <2> QED BY ONLY <2>4, <2>5, FS_Subset
<1>9. ByRank(Formations, F, FewerOn)
  <2>1. Formations = InOrder(FormationSet, FewerBack) BY TabulatedIs DEF Formations
  <2>2. \A f \in FormationSet : {g \in FormationSet : FewerBack(g, f)} = Predecessors(FormationSet, FewerOn, f)
    BY DEF Predecessors, FewerOn
  <2>4. Formations = [i \in 1 .. Cardinality(FormationSet) |->
                        CHOOSE f \in FormationSet : Cardinality({g \in FormationSet : FewerBack(g, f)}) = i - 1]
    BY <2>1 DEF InOrder
  <2>5. \A f \in FormationSet :
          Cardinality({g \in FormationSet : FewerBack(g, f)}) = Rank(FormationSet, FewerOn, f)
    BY <2>2, Zenon DEF Rank
  <2>3. ByRank(Formations, FormationSet, FewerOn) BY <2>4, <2>5 DEF ByRank
  <2> QED BY <2>3 DEF F
<1>10. PICK e : e = Formations OBVIOUS
<1>11. ByRank(e, F, FewerOn) BY <1>9, <1>10
<1>12. PICK R : R = FewerOn OBVIOUS
<1>13. ByRank(e, F, R) /\ Ordered(F, R) BY <1>7, <1>11, <1>12
<1>14. Lists(e, F) BY ONLY <1>8, <1>13, Enumerated
<1> QED BY <1>8, <1>10, <1>14 DEF F

(* What the diagnostic keeps of the greedy line-ups is what the scan keeps of
   all of them. *)
LEMMA DiagnosticKeeps ==
  ASSUME NEW v, Frozen(v), Distinct(v), NEW S \in Squads, Playable(v, S)
  PROVE  Kept(v, TRUE, [i \in DOMAIN Formations |-> FormationXI(v, S, Formations[i])])
           = Kept(v, TRUE, ScanOrder[S])
<1> DEFINE s == [i \in DOMAIN Formations |-> FormationXI(v, S, Formations[i])]
           b == Kept(v, TRUE, ScanOrder[S])
           g == Kept(v, TRUE, s)
           n == Cardinality(FormationSet)
           G == {s[i] : i \in 1 .. n}
           L == LineUps[S]
<1>1. Best(v, L, b) BY ScanKeepsBest
<1>2. /\ DOMAIN Formations = 1 .. n /\ \A i \in 1 .. n : Formations[i] \in FormationSet
      /\ \A f \in FormationSet : \E i \in 1 .. n : Formations[i] = f
  BY FormationsListed DEF Lists
<1>3. n \in Nat /\ n # 0 BY FormationsListed, FormationExists, FS_EmptySet, FS_CardinalityType
<1>4. \A i \in 1 .. n : s[i] = FormationXI(v, S, Formations[i]) BY <1>2
<1>5. SequenceIn(s, n, L) BY <1>2, <1>3, <1>4, GreedyFacts DEF SequenceIn
<1>6. TiesFine(v, L) BY LineUpsTiesFine
<1> HIDE DEF b, L
<1>7. Best(v, G, g)
  <2> HIDE DEF s, n
  <2> QED BY ONLY <1>3, <1>5, <1>6, KeptBest
<1>8. b \in G
  <2>1. b = FormationXI(v, S, Formation(b)) /\ Formation(b) \in FormationSet
    BY <1>1, BestIsFormationXI DEF L
  <2>2. PICK i \in 1 .. n : Formations[i] = Formation(b) BY <2>1, <1>2
  <2> HIDE DEF s, n
  <2>3. s[i] = b BY <2>1, <2>2, <1>4
  <2> QED BY <2>3
<1>9. G \subseteq L BY <1>5 DEF SequenceIn
<1> HIDE DEF G, g, s
<1>10. g \in L /\ b \in L /\ g \in G BY <1>1, <1>7, <1>9 DEF Best
<1>11. Objective(v, b) \in Int /\ Objective(v, g) \in Int /\ b \in SUBSET Nat /\ g \in SUBSET Nat
  BY <1>6, <1>10 DEF TiesFine
<1>12. Objective(v, b) =< Objective(v, g) + Tolerance /\ Objective(v, g) =< Objective(v, b) + Tolerance
  BY <1>1, <1>7, <1>8, <1>10 DEF Best
<1>13. Near(Objective(v, b), Objective(v, g)) /\ Near(Objective(v, g), Objective(v, b))
  BY <1>11, <1>12, ToleranceNat DEF Near
<1>14. (b = g \/ LowerIds(g, b)) /\ (g = b \/ LowerIds(b, g))
  BY <1>1, <1>7, <1>8, <1>10, <1>13 DEF Best
<1>15. g = b BY <1>11, <1>14, LowerIdsOrder
<1> QED BY <1>15 DEF g, b, s

(* With projections that are equal or apart, the greedy algorithm of the
   reliability report returns, for every squad, exactly the result of the
   exhaustive one (decision_reliability.py:690). *)
THEOREM DiagnosticIsScan ==
  ASSUME NEW v, Frozen(v), Distinct(v), NEW S \in Squads, Playable(v, S)
  PROVE  FixedSquadDiagnostic(v, S, TRUE) = OptimizeXI(v, S)
<1> DEFINE g == Kept(v, TRUE, [i \in DOMAIN Formations |-> FormationXI(v, S, Formations[i])])
           b == Kept(v, TRUE, ScanOrder[S])
<1>1. g = b BY DiagnosticKeeps
<1>2. FixedSquadDiagnostic(v, S, TRUE) = [Selection(v, S, g) EXCEPT !.objective = Score(v, g, TRUE)]
  BY DEF FixedSquadDiagnostic
<1>3. OptimizeXI(v, S) = Selection(v, S, b) BY DEF OptimizeXI
<1> HIDE DEF g, b
<1>4. [Selection(v, S, b) EXCEPT !.objective = Score(v, b, TRUE)] = Selection(v, S, b)
  BY DEF Selection, Score
<1> QED BY <1>1, <1>2, <1>3, <1>4

(* A result matches itself. *)
LEMMA ResultMatches ==
  ASSUME NEW v, NEW S \in Squads, Playable(v, S), NEW r, Answer(v, S, r)
  PROVE  Matches(v, r, r)
<1>1. r.xi \in LineUps[S] /\ r.captain \in r.xi /\ r.objective = Objective(v, r.xi) BY DEF Answer
<1>2. Sum(v, r.xi) \in Int /\ v[r.captain] \in Int /\ r.objective \in Int BY <1>1, LineUpPlayable
<1>3. \A a \in Int : Near(a, a) BY ToleranceNat DEF Near
<1> QED BY <1>2, <1>3 DEF Matches, Base

(* Without a near tie projections are equal or apart. *)
LEMMA NoNearTie ==
  ASSUME ~NearTie
  PROVE  Distinct(Value)
<1> SUFFICES ASSUME NEW p \in Player, NEW q \in Player, Value[p] \in Int, Value[q] \in Int,
                    Value[p] > Value[q]
             PROVE  Value[p] > Value[q] + Tolerance BY DEF Distinct
<1>1. None \notin {Value[p], Value[q]} /\ Value[p] # Value[q] BY SquadAssumption
<1>2. ~Near(Value[p], Value[q]) BY <1>1 DEF NearTie
<1> QED BY <1>2, ToleranceNat DEF Near

-----------------------------------------------------------------------------
(* The views of the report *)

(* The exact order the views rank with, and lines that it can rank. *)
RankedBefore(c, d) == c.objective > d.objective \/ (c.objective = d.objective /\ LowerPair(c, d))
Rankable(X) ==
  /\ IsFiniteSet(X)
  /\ \A c \in X : c.out \in Nat /\ c.in \in Nat /\ c.objective \in Int
  /\ \A c, d \in X : c.out = d.out /\ c.in = d.in => c = d

(* Ranked takes the first line of that order. *)
LEMMA RankedFacts ==
  ASSUME NEW X, Rankable(X), X # {}
  PROVE  /\ Ranked(X) \in X
         /\ \A e \in X : (\A d \in X \ {e} : RankedBefore(e, d)) => e = Ranked(X)
<1> DEFINE R == {e \in X \X X : RankedBefore(e[1], e[2])}
<1>1. \A c, d \in X : <<c, d>> \in R <=> RankedBefore(c, d) OBVIOUS
<1>2. /\ \A c \in X : c.out \in Nat /\ c.in \in Nat /\ c.objective \in Int
      /\ \A c, d \in X : c.out = d.out /\ c.in = d.in => c = d BY DEF Rankable
<1> HIDE DEF R
<1>3. \A c \in X : ~RankedBefore(c, c) BY <1>2 DEF RankedBefore, LowerPair
<1>4. \A c, d \in X : c = d \/ RankedBefore(c, d) \/ RankedBefore(d, c)
  <2> SUFFICES ASSUME NEW c \in X, NEW d \in X, c # d PROVE RankedBefore(c, d) \/ RankedBefore(d, c)
    OBVIOUS
  <2>1. /\ c.out \in Nat /\ c.in \in Nat /\ c.objective \in Int
        /\ d.out \in Nat /\ d.in \in Nat /\ d.objective \in Int
        /\ ~(c.out = d.out /\ c.in = d.in) BY <1>2
  <2> QED BY <2>1 DEF RankedBefore, LowerPair
<1>5. \A c, d, e \in X : RankedBefore(c, d) /\ RankedBefore(d, e) => RankedBefore(c, e)
  <2> SUFFICES ASSUME NEW c \in X, NEW d \in X, NEW e \in X, RankedBefore(c, d), RankedBefore(d, e)
               PROVE  RankedBefore(c, e) OBVIOUS
  <2>1. /\ c.out \in Nat /\ c.in \in Nat /\ c.objective \in Int
        /\ d.out \in Nat /\ d.in \in Nat /\ d.objective \in Int
        /\ e.out \in Nat /\ e.in \in Nat /\ e.objective \in Int BY <1>2
  <2> QED BY <2>1 DEF RankedBefore, LowerPair
<1>6. Ordered(X, R) BY <1>1, <1>3, <1>4, <1>5 DEF Ordered
<1>7. IsFiniteSet(X) BY DEF Rankable
<1>8. \E c \in X : \A d \in X \ {c} : <<c, d>> \in R BY ONLY <1>6, <1>7, X # {}, LeastElement
<1>9. \E c \in X : \A d \in X \ {c} : RankedBefore(c, d) BY <1>1, <1>8
<1>10. Ranked(X) \in X /\ \A d \in X \ {Ranked(X)} : RankedBefore(Ranked(X), d)
  BY <1>9 DEF Ranked, RankedBefore
<1>11. ASSUME NEW e \in X, \A d \in X \ {e} : RankedBefore(e, d), e # Ranked(X) PROVE FALSE
  <2>1. RankedBefore(e, Ranked(X)) /\ RankedBefore(Ranked(X), e) BY <1>10, <1>11
  <2>2. RankedBefore(e, e) BY <2>1, <1>5, <1>10
  <2> QED BY <2>2, <1>3
<1> QED BY <1>10, <1>11

(* The line of a candidate. *)
Line(c) == [out |-> c.out, in |-> c.in, objective |-> c.result.objective]

(* The lines of candidates can be ranked. *)
LEMMA LinesRankable ==
  ASSUME Sound, NEW bank \in Nat, NEW X, X \subseteq {Line(c) : c \in Candidates(Value, bank)}
  PROVE  Rankable(X)
<1> DEFINE C == Candidates(Value, bank)
           f == [c \in C |-> Line(c)]
           L == {f[c] : c \in C}
<1>1. \A c \in C : c.out \in Nat /\ c.in \in Nat /\ c.result.objective \in Int
  BY CandidateFacts, RowsType, ScoresChain DEF Sound
<1>2. \A c, d \in C : c.out = d.out /\ c.in = d.in => c = d
  <2>1. \A c \in C : c = [out |-> c.out, in |-> c.in, result |-> OptimizeXI(Value, Swap(c.out, c.in))]
    BY CandidateFacts
  <2> QED BY <2>1
<1>3. IsFiniteSet(C) BY CandidatesFinite
<1>4. X \in SUBSET L OBVIOUS
<1> HIDE DEF C, f
<1>5. IsFiniteSet(L) BY <1>3, ImageFinite
<1>6. IsFiniteSet(X) BY <1>4, <1>5, FS_Subset
<1>7. \A x \in X : \E c \in C : x = Line(c) BY DEF C
<1>8. \A x \in X : x.out \in Nat /\ x.in \in Nat /\ x.objective \in Int BY <1>1, <1>7 DEF Line
<1>9. \A x, y \in X : x.out = y.out /\ x.in = y.in => x = y
  <2> SUFFICES ASSUME NEW x \in X, NEW y \in X, x.out = y.out /\ x.in = y.in PROVE x = y OBVIOUS
  <2>1. PICK c \in C : x = Line(c) BY <1>7
  <2>2. PICK d \in C : y = Line(d) BY <1>7
  <2>3. c.out = d.out /\ c.in = d.in BY <2>1, <2>2 DEF Line
  <2>4. c = d BY <2>3, <1>2
  <2> QED BY <2>1, <2>2, <2>4
<1> QED BY <1>6, <1>8, <1>9 DEF Rankable

(* The parts of a decision. *)
LEMMA Evaluated ==
  ASSUME NEW v, NEW bank, NEW d, d = EvaluateOneTransfer(v, bank)
  PROVE  /\ d.bank = bank /\ d.roll = OptimizeXI(v, Owned) /\ d.candidates = Candidates(v, bank)
         /\ d.best = (IF d.candidates = {} THEN None ELSE First(d.candidates))
         /\ d.action = Recommend(d.best, d.roll)
BY DEF EvaluateOneTransfer

(* A view that finds the stored objectives again ranks the stored lines. *)
LEMMA StoredLines ==
  ASSUME NEW result, \A c \in decision.candidates : result[c].objective = c.result.objective
  PROVE  Scored(result) = {Line(c) : c \in decision.candidates}
BY DEF Scored, Line

(* The action of an acquisition screen never brings in a hidden player. *)
LEMMA ViewNotHidden ==
  ASSUME Sound, NEW bank \in Nat, decision = EvaluateOneTransfer(Value, bank), NEW hidden \in Screens
  PROVE  ScreenView(hidden).in \notin hidden
<1> DEFINE stored == [c \in decision.candidates |-> c.result]
           X == {c \in Scored(stored) : c.in \notin hidden}
<1>1. decision.candidates = Candidates(Value, bank) BY Evaluated
<1>2. Scored(stored) = {Line(c) : c \in Candidates(Value, bank)} BY <1>1, StoredLines
<1>3. ScreenView(hidden) = ActionOf(X, decision.roll.objective) BY DEF ScreenView
<1>4. Rankable(X) BY <1>2, LinesRankable
<1>5. None \notin hidden
  <2>1. hidden \subseteq Player /\ Player \subseteq Nat BY SquadAssumption, ReliabilityAssumption
  <2>2. \A n \in hidden : n \in Int BY <2>1
  <2> QED BY <2>2, SquadAssumption
<1>6. X # {} => Ranked(X).in \notin hidden
  <2> SUFFICES ASSUME X # {} PROVE Ranked(X).in \notin hidden OBVIOUS
  <2>1. Ranked(X) \in X
    <3> HIDE DEF X
    <3> QED BY <1>4, RankedFacts
  <2> QED BY <2>1
<1> HIDE DEF X
<1>7. \/ ActionOf(X, decision.roll.objective) = Roll
      \/ X # {} /\ ActionOf(X, decision.roll.objective) = Transfer(Ranked(X))
  <2> DEFINE gains == Ranked(X).objective > decision.roll.objective + Tolerance
  <2>1. ActionOf(X, decision.roll.objective) =
          IF X = {} THEN Roll ELSE IF gains THEN Transfer(Ranked(X)) ELSE Roll BY DEF ActionOf
  <2> HIDE DEF gains
  <2>2. CASE X = {} BY <2>1, <2>2
  <2>3. CASE X # {} /\ gains BY <2>1, <2>3
  <2>4. CASE X # {} /\ ~gains BY <2>1, <2>4
  <2> QED BY <2>2, <2>3, <2>4
<1> QED BY <1>3, <1>5, <1>6, <1>7 DEF Roll, Transfer

(* Without a near tie between candidates the exact ranking recommends what
   the tolerant one did. *)
LEMMA LinesRepeatAction ==
  ASSUME Sound, NEW bank \in Nat, decision = EvaluateOneTransfer(Value, bank),
         None \notin Candidates(Value, bank), ~CandidatesNearTie
  PROVE  ActionOf({Line(c) : c \in decision.candidates}, decision.roll.objective) = decision.action
<1> DEFINE C == Candidates(Value, bank)
           X == {Line(c) : c \in C}
           first == First(C)
<1>1. /\ decision.candidates = C
      /\ decision.best = (IF C = {} THEN None ELSE first)
      /\ decision.action = Recommend(decision.best, decision.roll)
  BY Evaluated
<1>2. CASE C = {}
  <2>1. X = {} BY <1>2
  <2> QED BY <2>1, <1>1, <1>2 DEF ActionOf, Recommend
<1>3. CASE C # {}
  <2>1. first \in C /\ \A c \in C \ {first} : Preferred(first, c) BY <1>3, FirstFacts
  <2>2. \A c \in C : c.out \in Nat /\ c.in \in Nat /\ c.result.objective \in Int
    BY CandidateFacts, RowsType, ScoresChain DEF Sound
  <2>3. \A c, d \in C : Near(c.result.objective, d.result.objective)
                          => c.result.objective = d.result.objective
    BY <1>1 DEF CandidatesNearTie
  <2>4. Rankable(X) BY LinesRankable
  <2>5. None \notin C OBVIOUS
  <2> HIDE DEF C, first
  <2>6. Line(first) \in X /\ X # {} BY <2>1
  <2>7. ASSUME NEW x \in X \ {Line(first)} PROVE RankedBefore(Line(first), x)
    <3>1. PICK c \in C : x = Line(c) BY <2>7
    <3>2. Preferred(first, c) BY <3>1, <2>1, <2>7
    <3>3. CASE Near(first.result.objective, c.result.objective)
      <4>1. LowerPair(first, c) /\ first.result.objective = c.result.objective
        BY <3>2, <3>3, <2>1, <2>3 DEF Preferred
      <4> QED BY <3>1, <4>1 DEF RankedBefore, Line, LowerPair
    <3>4. CASE ~Near(first.result.objective, c.result.objective)
      <4>1. first.result.objective > c.result.objective BY <3>2, <3>4 DEF Preferred
      <4> QED BY <3>1, <4>1 DEF RankedBefore, Line
    <3> QED BY <3>3, <3>4
  <2> HIDE DEF X
  <2>8. Line(first) = Ranked(X) BY <2>4, <2>6, <2>7, RankedFacts
  <2>9. decision.best = first /\ first # None BY <1>1, <1>3, <2>1, <2>5
  <2>10. /\ Ranked(X).objective = first.result.objective
         /\ Transfer(Ranked(X)) = Transfer(first)
    BY <2>8 DEF Line, Transfer
  <2>11. ActionOf(X, decision.roll.objective) = decision.action
    BY <2>6, <2>9, <2>10, <1>1 DEF ActionOf, Recommend
  <2> QED BY <2>11, <1>1 DEF X
<1> QED BY <1>2, <1>3

(* Without a near tie between projections the diagnostic finds every result
   of the decision again. *)
LEMMA DiagnosticReproduces ==
  ASSUME Sound, NEW bank \in Nat, decision = EvaluateOneTransfer(Value, bank), ~NearTie
  PROVE  /\ SurfaceValid(Value)
         /\ FixedSquadDiagnostic(Value, Owned, TRUE).objective = decision.roll.objective
         /\ \A c \in decision.candidates :
              FixedSquadDiagnostic(Value, c.result.squad, TRUE).objective = c.result.objective
<1>1. Frozen(Value) /\ Distinct(Value) BY RowsType, NoNearTie DEF Sound
<1>2. decision.roll = OptimizeXI(Value, Owned) /\ decision.candidates = Candidates(Value, bank)
  BY Evaluated
<1>3. Owned \in Squads /\ Playable(Value, Owned)
  BY OwnedReachable, ReachablePlayable DEF AllPlayable
<1>4. \A c \in decision.candidates :
        /\ Swap(c.out, c.in) \in Squads /\ Playable(Value, Swap(c.out, c.in))
        /\ c.result = OptimizeXI(Value, Swap(c.out, c.in))
  <2> SUFFICES ASSUME NEW c \in Candidates(Value, bank)
               PROVE  /\ Swap(c.out, c.in) \in Squads /\ Playable(Value, Swap(c.out, c.in))
                      /\ c.result = OptimizeXI(Value, Swap(c.out, c.in)) BY <1>2
  <2>1. /\ c = [out |-> c.out, in |-> c.in, result |-> OptimizeXI(Value, Swap(c.out, c.in))]
        /\ Swap(c.out, c.in) \in Reachable(bank) BY CandidateFacts
  <2>2. c.result = OptimizeXI(Value, Swap(c.out, c.in)) BY <2>1
  <2> QED BY <2>1, <2>2, ReachablePlayable DEF AllPlayable
<1>5. ASSUME NEW S \in Squads, Playable(Value, S), NEW r, r = OptimizeXI(Value, S)
      PROVE  /\ FixedSquadDiagnostic(Value, r.squad, TRUE) = r
             /\ r.squad = S /\ Matches(Value, r, r)
  <2>1. Answer(Value, S, r) BY <1>1, <1>5, OptimizeXIAnswers
  <2>2. r.squad = S BY <2>1 DEF Answer
  <2>3. FixedSquadDiagnostic(Value, S, TRUE) = r BY <1>1, <1>5, DiagnosticIsScan
  <2> QED BY <2>1, <2>2, <2>3, <1>5, ResultMatches
<1>6. /\ FixedSquadDiagnostic(Value, decision.roll.squad, TRUE) = decision.roll
      /\ decision.roll.squad = Owned /\ Matches(Value, decision.roll, decision.roll)
  BY <1>2, <1>3, <1>5
<1>7. \A c \in decision.candidates :
        /\ FixedSquadDiagnostic(Value, c.result.squad, TRUE) = c.result
        /\ Matches(Value, c.result, c.result)
  <2> SUFFICES ASSUME NEW c \in decision.candidates
               PROVE  /\ FixedSquadDiagnostic(Value, c.result.squad, TRUE) = c.result
                      /\ Matches(Value, c.result, c.result) OBVIOUS
  <2>1. PICK S \in Squads : Playable(Value, S) /\ c.result = OptimizeXI(Value, S) BY <1>4
  <2>2. PICK r : r = c.result OBVIOUS
  <2>3. r = OptimizeXI(Value, S) BY <2>1, <2>2
  <2>4. FixedSquadDiagnostic(Value, r.squad, TRUE) = r /\ Matches(Value, r, r) BY <2>1, <2>3, <1>5
  <2> QED BY <2>2, <2>4
<1>8. SurfaceValid(Value) BY <1>6, <1>7 DEF SurfaceValid
<1> QED BY <1>6, <1>7, <1>8

-----------------------------------------------------------------------------
(* What is read from an artifact that does not change *)

(* The same rows are read as the same projections and states. *)
LEMMA SameReading ==
  ASSUME rows' = rows
  PROVE  /\ Value' = Value /\ (Loads <=> Loads')
         /\ \A p : State(p)' = State(p)
BY DEF Value, Loads, State

(* The same players are admitted. *)
LEMMA SameEligible ==
  ASSUME rows' = rows
  PROVE  /\ Pool' = Pool
         /\ \A p : Eligible(p)' <=> Eligible(p)
         /\ \A p, policy : Admitted(p, policy)' <=> Admitted(p, policy)
         /\ \A p, policy : BreaksPolicy(p, policy)' <=> BreaksPolicy(p, policy)
BY SameReading DEF Eligible, Admitted, BreaksPolicy, Pool

(* A locked selection compares the same. *)
LEMMA SameComparison ==
  ASSUME rows' = rows, NEW lock
  PROVE  Comparison(lock)' = Comparison(lock)
BY SameReading, SameEligible DEF Comparison

(* The advice on the editable squad is the same. *)
LEMMA SameAdvice ==
  ASSUME rows' = rows, NEW policy
  PROVE  EditableAdvice(policy)' = EditableAdvice(policy)
BY SameReading, SameEligible DEF EditableAdvice

(* The universe is as sound. *)
LEMMA SameSound ==
  ASSUME rows' = rows
  PROVE  Sound <=> Sound'
BY SameReading, SameEligible DEF Sound, SquadValid

(* A decision and an optimum come out the same when they are computed again. *)
LEMMA SameValues ==
  ASSUME rows' = rows
  PROVE  /\ \A bank : EvaluateOneTransfer(Value, bank)' = EvaluateOneTransfer(Value, bank)
         /\ \A budget : OptimizeSquad(Value, Pool, budget)' = OptimizeSquad(Value, Pool, budget)
<1>1. ASSUME NEW bank PROVE EvaluateOneTransfer(Value, bank)' = EvaluateOneTransfer(Value, bank)
  <2>1. \A out, in : LegalSwap(out, in, bank)' <=> LegalSwap(out, in, bank)
    BY SameEligible DEF LegalSwap
  <2>2. \A s : LegalSwap(s[1], s[2], bank)' <=> LegalSwap(s[1], s[2], bank) BY <2>1
  <2>3. Candidates(Value, bank)' = Candidates(Value, bank) BY <2>2, SameReading DEF Candidates
  <2> QED BY <2>3, SameReading DEF EvaluateOneTransfer
<1>2. ASSUME NEW budget
      PROVE  OptimizeSquad(Value, Pool, budget)' = OptimizeSquad(Value, Pool, budget)
  BY SameReading, SameEligible
<1> QED BY <1>1, <1>2

(* The views of a decision come out the same. *)
LEMMA SameViews ==
  ASSUME rows' = rows, decision' = decision
  PROVE  Views(Value)' = Views(Value)
<1>1. \A result : Scored(result)' = Scored(result) BY DEF Scored
<1>2. \A h : ScreenView(h)' = ScreenView(h) BY <1>1 DEF ScreenView
<1>3. \A cap, v : Capped(v, cap)' = Capped(v, cap) BY SameReading DEF Capped
<1>4. \A w, captained : Reoptimized(w, captained)' = Reoptimized(w, captained)
  BY <1>1 DEF Reoptimized
<1>5. Value' = Value BY SameReading
<1>6. \A cap : Capped(Value, cap)' = Capped(Value, cap) BY <1>5, SameReading DEF Capped
<1>7. \A cap : Reoptimized(Capped(Value, cap), TRUE)' = Reoptimized(Capped(Value, cap), TRUE)
  BY <1>1, <1>6 DEF Reoptimized
<1>8. Reoptimized(Value, FALSE)' = Reoptimized(Value, FALSE) BY <1>1, <1>5 DEF Reoptimized
<1> QED BY <1>2, <1>7, <1>8 DEF Views

-----------------------------------------------------------------------------
(* The inductive invariant *)

(* A published decision is the evaluation of a sound universe, of the
   artifact as it still is; and what is shown is what its command computes
   from that artifact and decision. *)
Decided ==
  decision # None => Sound /\ \E bank \in Bank : decision = EvaluateOneTransfer(Value, bank)
Told ==
  /\ shown.command = "optimize" =>
       /\ Loads /\ shown.best # None
       /\ shown.best = OptimizeSquad(Value, Pool, shown.budget)
  /\ shown.command = "locked" =>
       /\ Loads /\ shown.comparison.lock \in Picks /\ PicksValid(shown.comparison.lock)
       /\ shown.comparison = Comparison(shown.comparison.lock)
  /\ shown.command = "editable" =>
       /\ Loads /\ ManualStateValid /\ shown.advice.policy \in Policy
       /\ shown.advice = EditableAdvice(shown.advice.policy)
       /\ shown.advice.best # None => shown.incomplete = IncompleteShare(shown.advice.best)
  /\ shown.command = "analyze" =>
       /\ decision # None /\ shown.official = decision.action /\ shown.views = Views(Value)
       /\ shown.stability = Stability(decision.action, Views(Value))
Faithful == rows \in Artifact /\ Decided /\ Told

(* A step that leaves the artifact and the decision leaves the decision
   explained. *)
LEMMA KeepsDecided ==
  ASSUME Decided, rows' = rows, decision' = decision
  PROVE  Decided'
<1> SUFFICES ASSUME decision' # None
             PROVE  Sound' /\ \E bank \in Bank : decision' = EvaluateOneTransfer(Value, bank)'
  BY DEF Decided
<1>1. Sound /\ \E bank \in Bank : decision = EvaluateOneTransfer(Value, bank) BY DEF Decided
<1> QED BY <1>1, SameSound, SameValues

(* A command that shows no advice has nothing to explain. *)
LEMMA SilentTold ==
  ASSUME shown'.command \notin {"optimize", "locked", "editable", "analyze"}
  PROVE  Told'
BY DEF Told

(* Nothing is decided or shown at the start. *)
LEMMA StartsFaithful ==
  ASSUME Init
  PROVE  Faithful
BY DEF Init, DecisionInit, Faithful, Decided, Told, Idle

(* A step that changes none of the three, the replacement of a file among
   them, keeps the invariant. *)
LEMMA SilentKeeps ==
  ASSUME Faithful, rows' = rows, decision' = decision, shown' = shown
  PROVE  Faithful'
<1>1. rows' \in Artifact /\ Decided' BY KeepsDecided DEF Faithful
<1>2. Told BY DEF Faithful
<1>3. Loads <=> Loads' BY SameReading
<1>4. ASSUME shown'.command = "optimize"
      PROVE  /\ Loads' /\ shown'.best # None
             /\ shown'.best = OptimizeSquad(Value, Pool, shown.budget)'
  <2>1. OptimizeSquad(Value, Pool, shown.budget)' = OptimizeSquad(Value, Pool, shown.budget)
    BY SameReading, SameEligible
  <2> QED BY <1>2, <1>3, <1>4, <2>1 DEF Told
<1>5. ASSUME shown'.command = "locked"
      PROVE  /\ Loads' /\ shown'.comparison.lock \in Picks /\ PicksValid(shown'.comparison.lock)
             /\ shown'.comparison = Comparison(shown.comparison.lock)'
  <2> DEFINE lock == shown.comparison.lock
  <2>1. Comparison(shown.comparison.lock)' = Comparison(shown.comparison.lock)
    BY SameReading, SameEligible DEF Comparison
  <2> QED BY <1>2, <1>3, <1>5, <2>1 DEF Told
<1>6. ASSUME shown'.command = "editable"
      PROVE  /\ Loads' /\ ManualStateValid /\ shown'.advice.policy \in Policy
             /\ shown'.advice = EditableAdvice(shown.advice.policy)'
             /\ shown'.advice.best # None => shown'.incomplete = IncompleteShare(shown.advice.best)'
  <2>1. EditableAdvice(shown.advice.policy)' = EditableAdvice(shown.advice.policy)
    BY SameReading, SameEligible DEF EditableAdvice
  <2>2. IncompleteShare(shown.advice.best)' = IncompleteShare(shown.advice.best)
    BY SameReading DEF IncompleteShare
  <2> QED BY <1>2, <1>3, <1>6, <2>1, <2>2 DEF Told
<1>7. ASSUME shown'.command = "analyze"
      PROVE  /\ decision' # None /\ shown'.official = decision'.action /\ shown'.views = Views(Value)'
             /\ shown'.stability = Stability(decision.action, Views(Value))'
  <2>1. Views(Value)' = Views(Value) BY SameViews
  <2>2. Stability(decision.action, Views(Value))' = Stability(decision.action, Views(Value))
    BY <2>1 DEF Stability
  <2> QED BY <1>2, <1>7, <2>1, <2>2 DEF Told
<1>8. Told' BY <1>4, <1>5, <1>6, <1>7 DEF Told
<1> QED BY <1>1, <1>8 DEF Faithful

(* optimize_squad keeps the invariant. *)
LEMMA OptimizeFaithful ==
  ASSUME Faithful, NEW budget \in Budget, Optimize(budget)
  PROVE  Faithful'
<1>1. rows' = rows /\ decision' = decision BY DEF Optimize
<1>2. rows' \in Artifact /\ Decided' BY <1>1, KeepsDecided DEF Faithful
<1> DEFINE best == OptimizeSquad(Value, Pool, budget)
           t == [command |-> "optimize", budget |-> budget, best |-> best]
<1>3. shown' = IF Loads /\ best # None THEN t ELSE Refused BY DEF Optimize
<1>4. t.command = "optimize" /\ t.budget = budget /\ t.best = best OBVIOUS
<1>5. OptimizeSquad(Value, Pool, budget)' = best BY <1>1, SameValues
<1> HIDE DEF t, best
<1>6. CASE Loads /\ best # None
  <2>1. shown' = t BY <1>3, <1>6
  <2>2. Loads' BY <1>1, <1>6, SameReading
  <2>3. shown'.best = OptimizeSquad(Value, Pool, shown.budget)' BY <2>1, <1>4, <1>5
  <2>4. Told' BY <2>1, <2>2, <2>3, <1>4, <1>6 DEF Told
  <2> QED BY <2>4, <1>2 DEF Faithful
<1>7. CASE ~(Loads /\ best # None)
  <2>1. shown' = Refused BY <1>3, <1>7
  <2> QED BY <2>1, <1>2, SilentTold DEF Faithful, Refused
<1> QED BY <1>6, <1>7

(* The event that represents the squad is one the service answered with a
   selection. *)
LEMMA LockedIndex ==
  ASSUME NEW history \in Seq(Picks \cup {None}), NEW asked, NEW i \in Represented(history, asked)
  PROVE  i \in DOMAIN history /\ history[i] # None /\ history[i] \in Picks
<1> DEFINE answered == {j \in DOMAIN history : history[j] # None}
<1>1. answered \subseteq Nat
  <2>1. DOMAIN history = 1 .. Len(history) OBVIOUS
  <2> QED BY <2>1
<1>2. Represented(history, asked) = IF asked # None THEN answered \cap {asked}
                                    ELSE IF answered = {} THEN {} ELSE {Min(answered)}
  BY DEF Represented
<1> HIDE DEF answered
<1>3. answered # {} => Min(answered) \in answered BY <1>1, LeastId
<1>4. i \in answered BY <1>2, <1>3
<1>5. i \in DOMAIN history /\ history[i] # None BY <1>4 DEF answered
<1>6. history[i] \in Picks \cup {None} BY <1>5
<1> QED BY <1>5, <1>6

(* evaluate_current_squad keeps the invariant. *)
LEMMA LockedFaithful ==
  ASSUME Faithful, NEW history \in Locked, NEW asked, ReviewLocked(history, asked)
  PROVE  Faithful'
<1>1. rows' = rows /\ decision' = decision BY DEF ReviewLocked
<1>2. rows' \in Artifact /\ Decided' BY <1>1, KeepsDecided DEF Faithful
<1>3. CASE shown' = Refused BY <1>2, <1>3, SilentTold DEF Faithful, Refused
<1>4. ASSUME NEW i \in Represented(history, asked), Loads, PicksValid(history[i]),
             shown' = [command |-> "locked", event |-> i, comparison |-> Comparison(history[i])]
      PROVE  Faithful'
  <2> DEFINE lock == history[i]
  <2>1. shown'.command = "locked" /\ shown'.comparison = Comparison(lock) BY <1>4
  <2>2. Comparison(lock).lock = lock BY DEF Comparison
  <2>3. lock \in Picks
    <3>1. history \in Seq(Picks \cup {None}) BY SquadAssumption
    <3> QED BY <3>1, LockedIndex
  <2>4. Comparison(lock)' = Comparison(lock) BY <1>1, SameComparison
  <2>5. Loads' BY <1>1, <1>4, SameReading
  <2> HIDE DEF lock
  <2>6. PicksValid(lock) BY <1>4 DEF lock
  <2>7. Told' BY <2>1, <2>2, <2>3, <2>4, <2>5, <2>6 DEF Told
  <2> QED BY <2>7, <1>2 DEF Faithful
<1> QED BY <1>3, <1>4 DEF ReviewLocked

(* evaluate_editable_squad keeps the invariant. *)
LEMMA EditableFaithful ==
  ASSUME Faithful, NEW policy \in Policy, ReviewEditable(policy)
  PROVE  Faithful'
<1>1. rows' = rows /\ decision' = decision BY DEF ReviewEditable
<1>2. rows' \in Artifact /\ Decided' BY <1>1, KeepsDecided DEF Faithful
<1> DEFINE advice == EditableAdvice(policy)
           share == IncompleteShare(advice.best)
           broken == \E p \in Owned : BreaksPolicy(p, policy)
           bad == ~Loads \/ broken \/ ~ManualStateValid \/ ~ClubsWithin(Owned)
           t == [command |-> "editable", advice |-> advice,
                 incomplete |-> IF advice.best = None THEN 0 ELSE share]
<1>3. shown' = IF bad THEN Refused ELSE t BY DEF ReviewEditable
<1>4. /\ t.command = "editable" /\ t.advice = advice
      /\ advice.best # None => t.incomplete = share OBVIOUS
<1>5. advice.policy = policy BY DEF EditableAdvice
<1>6. EditableAdvice(policy)' = advice BY <1>1, SameAdvice
<1>7. \A best : IncompleteShare(best)' = IncompleteShare(best) BY <1>1, SameReading DEF IncompleteShare
<1>8. ~bad => Loads /\ ManualStateValid OBVIOUS
<1>9. share = IncompleteShare(advice.best) OBVIOUS
<1> HIDE DEF t, advice, share, bad
<1>10. CASE bad
  <2>1. shown' = Refused BY <1>3, <1>10
  <2> QED BY <2>1, <1>2, SilentTold DEF Faithful, Refused
<1>11. CASE ~bad
  <2>1. shown' = t BY <1>3, <1>11
  <2>2. Loads' BY <1>1, <1>8, <1>11, SameReading
  <2>3. shown'.advice = EditableAdvice(shown.advice.policy)' BY <2>1, <1>4, <1>5, <1>6
  <2>4. shown'.advice.best # None => shown'.incomplete = IncompleteShare(shown.advice.best)'
    BY <2>1, <1>4, <1>7, <1>9
  <2>5. Told' BY <2>1, <2>2, <2>3, <2>4, <1>4, <1>5, <1>8, <1>11 DEF Told
  <2> QED BY <2>5, <1>2 DEF Faithful
<1> QED BY <1>10, <1>11

(* The one-transfer decision keeps the invariant. *)
LEMMA DecideFaithful ==
  ASSUME Faithful, NEW bank \in Bank, Decide(bank)
  PROVE  Faithful'
<1> DEFINE policy == "appearance_only_allowed"
           broken == \E p \in Player : BreaksPolicy(p, policy)
           good == Loads /\ ~broken /\ SquadValid(Owned, policy)
<1>1. rows' = rows /\ rows \in Artifact /\ decision = None BY DEF Decide, Faithful
<1>2. IF good THEN decision' = EvaluateOneTransfer(Value, bank) /\ shown' = [command |-> "decide"]
      ELSE shown' = Refused /\ UNCHANGED decision BY DEF Decide
<1>3. good => Sound BY <1>1 DEF Sound
<1> HIDE DEF good
<1>4. Told' BY <1>2, SilentTold DEF Refused
<1>5. CASE good
  <2>1. Sound' BY <1>1, <1>3, <1>5, SameSound
  <2>2. EvaluateOneTransfer(Value, bank)' = EvaluateOneTransfer(Value, bank) BY <1>1, SameValues
  <2>3. decision' = EvaluateOneTransfer(Value, bank) BY <1>2, <1>5
  <2>4. decision' = EvaluateOneTransfer(Value, bank)' BY <2>2, <2>3
  <2>5. Decided' BY <2>1, <2>4 DEF Decided
  <2> QED BY <2>5, <1>1, <1>4 DEF Faithful
<1>6. CASE ~good
  <2>1. decision' = None BY <1>1, <1>2, <1>6
  <2> QED BY <2>1, <1>1, <1>4 DEF Faithful, Decided
<1> QED BY <1>5, <1>6

(* The end of a command keeps the invariant. *)
LEMMA CloseFaithful ==
  ASSUME Faithful, Close
  PROVE  Faithful'
<1>1. rows' = rows /\ decision' = decision /\ shown' = Idle BY DEF Close
<1> QED BY <1>1, KeepsDecided, SilentTold DEF Faithful, Idle

(* The reliability report keeps the invariant. *)
LEMMA AnalyzeFaithful ==
  ASSUME Faithful, Analyze
  PROVE  Faithful'
<1> DEFINE views == Views(Value)
           t == [command |-> "analyze", official |-> decision.action, views |-> views,
                 stability |-> Stability(decision.action, views)]
           bad == ~intact \/ ~SurfaceValid(Value)
           none == decision.candidates = {}
<1>1. rows' = rows /\ decision' = decision /\ decision # None BY DEF Analyze
<1>2. rows' \in Artifact /\ Decided' BY <1>1, KeepsDecided DEF Faithful
<1>3. shown' = IF bad THEN Refused ELSE IF none THEN [command |-> "crashed"] ELSE t BY DEF Analyze
<1>4. /\ t.command = "analyze" /\ t.official = decision.action /\ t.views = views
      /\ t.stability = Stability(decision.action, views) OBVIOUS
<1>5. Views(Value)' = views BY <1>1, SameViews
<1>6. Stability(decision.action, Views(Value))' = Stability(decision.action, views)
  BY <1>1, <1>5 DEF Stability
<1> HIDE DEF t, bad, none, views
<1>7. CASE bad \/ none
  <2>1. shown'.command \notin {"optimize", "locked", "editable", "analyze"} BY <1>3, <1>7 DEF Refused
  <2> QED BY <2>1, <1>2, SilentTold DEF Faithful
<1>8. CASE ~bad /\ ~none
  <2>1. shown' = t BY <1>3, <1>8
  <2>2. Told' BY <2>1, <1>1, <1>4, <1>5, <1>6 DEF Told
  <2> QED BY <2>2, <1>2 DEF Faithful
<1> QED BY <1>7, <1>8

(* Every step keeps the invariant. *)
LEMMA StepFaithful ==
  ASSUME Faithful, [Next]_vars
  PROVE  Faithful'
<1>1. CASE UNCHANGED vars BY <1>1, SilentKeeps DEF vars
<1>2. CASE Analyze BY <1>2, AnalyzeFaithful
<1>3. CASE ReplaceNamedFile BY <1>3, SilentKeeps DEF ReplaceNamedFile
<1>4. CASE DecisionNext
  <2>1. ASSUME NEW b \in Budget, Optimize(b) PROVE Faithful' BY <2>1, OptimizeFaithful
  <2>2. ASSUME NEW h \in Locked, NEW asked \in {None, 1}, ReviewLocked(h, asked) PROVE Faithful'
    BY <2>2, LockedFaithful
  <2>3. ASSUME NEW policy \in Policy, ReviewEditable(policy) PROVE Faithful' BY <2>3, EditableFaithful
  <2>4. ASSUME NEW b \in Bank, Decide(b) PROVE Faithful' BY <2>4, DecideFaithful
  <2>5. CASE Close BY <2>5, CloseFaithful
  <2> QED BY <1>4, <2>1, <2>2, <2>3, <2>4, <2>5 DEF DecisionNext
<1> QED BY <1>1, <1>2, <1>3, <1>4 DEF Next

(* At any time the published decision is what the engine computes again from
   the artifact, and what is shown is what its command computes: no command
   leaves advice of another artifact, budget, policy or decision behind. *)
THEOREM AlwaysFaithful == Spec => []Faithful
<1>1. Init => Faithful BY StartsFaithful
<1>2. Faithful /\ [Next]_vars => Faithful' BY StepFaithful
<1> QED BY <1>1, <1>2, PTL DEF Spec

-----------------------------------------------------------------------------
(* The properties *)

(* The invariant says where each advice comes from, and the algorithms that
   produced it keep their promises. *)
LEMMA FaithfulAdvice ==
  ASSUME Faithful
  PROVE  AdviceIsBest
<1>1. rows \in Artifact /\ Decided /\ Told BY DEF Faithful
<1>2. ASSUME shown.command = "optimize"
      PROVE  BestSquad(Value, Affordable(shown.budget), shown.best)
  BY <1>1, <1>2, SolverAnswers DEF Told
<1>3. ASSUME shown.command = "locked"
      PROVE  LockedBest(Value, shown.comparison.lock, shown.comparison)
  BY <1>1, <1>3, ComparisonAnswers DEF Told
<1>4. ASSUME shown.command = "editable"
      PROVE  EditableBest(Value, shown.advice, shown.incomplete)
  <2> DEFINE policy == shown.advice.policy
  <2>1. /\ Loads /\ ManualStateValid /\ policy \in Policy /\ shown.advice = EditableAdvice(policy)
        /\ shown.advice.best # None => shown.incomplete = IncompleteShare(shown.advice.best)
    BY <1>1, <1>4 DEF Told
  <2> HIDE DEF policy
  <2>2. EditableAdvice(policy).best # None
          => shown.incomplete = IncompleteShare(EditableAdvice(policy).best)
    BY <2>1
  <2>3. EditableBest(Value, EditableAdvice(policy), shown.incomplete)
    BY <1>1, <2>1, <2>2, EditableAnswers
  <2> QED BY <2>1, <2>3
<1>5. ASSUME decision # None
      PROVE  DecisionBest(Value, decision)
  <2>1. PICK bank \in Bank : Sound /\ decision = EvaluateOneTransfer(Value, bank)
    BY <1>1, <1>5 DEF Decided
  <2>2. bank \in Nat BY SquadAssumption
  <2>3. DecisionBest(Value, EvaluateOneTransfer(Value, bank))
    BY <2>1, <2>2, CandidatesAreRecords, DecisionAnswers
  <2> QED BY <2>1, <2>3
<1>6. shown.command = "optimize" =>
       LET squads == {S \in Squads : /\ \A p \in S : Eligible(p)
                                     /\ ClubsWithin(S)
                                     /\ Cost(S) =< shown.budget}
           best   == shown.best
       IN  /\ Within(Value, best, squads)
           /\ \A S \in squads \ {best.squad} :
                BestOf(Value, {S}) >= best.objective =>
                  \/ Cost(best.squad) < Cost(S)
                  \/ Cost(best.squad) = Cost(S) /\ LowerIds(best.squad, S)
  BY <1>2 DEF BestSquad, Affordable
<1>7. shown.command = "locked" /\ shown.comparison.best # None =>
       LET lock == shown.comparison.lock  best == shown.comparison.best
           changes == shown.comparison.changes
       IN  /\ Within(Value, best, {lock.squad})
           /\ ~lock.chip =>
                /\ shown.comparison.difference >= -Tolerance
                /\ (lock.xi \ {c[2] : c \in changes}) \cup {c[1] : c \in changes} = best.xi
  BY <1>3 DEF LockedBest
<1>8. shown.command = "editable" /\ shown.advice.best # None =>
       /\ Within(Value, shown.advice.best, {Owned})
       /\ shown.incomplete # 0 => shown.advice.policy = "appearance_only_allowed"
  BY <1>4 DEF EditableBest
<1>9. decision # None =>
       LET squads == Reachable(decision.bank)
           chosen == IF decision.action = Roll THEN decision.roll ELSE decision.best.result
       IN  /\ {c.result.squad : c \in decision.candidates} = squads \ {Owned}
           /\ Within(Value, chosen, squads)
           /\ decision.action # Roll =>
                /\ chosen.squad = Swap(decision.action.out, decision.action.in)
                /\ chosen.objective > BestOf(Value, {Owned})
  BY <1>5 DEF DecisionBest
<1> QED BY <1>6, <1>7, <1>8, <1>9 DEF AdviceIsBest

(* The invariant says that the report is about the published decision, which
   the diagnostic and the views find again. *)
LEMMA FaithfulReport ==
  ASSUME Faithful
  PROVE  ReportReproducesDecision
<1> SUFFICES ASSUME decision # None
             PROVE  /\ intact /\ ~NearTie => SurfaceValid(Value)
                    /\ shown.command = "analyze" =>
                         /\ shown.official = decision.action
                         /\ shown.stability.stable => \A h \in Screens : decision.action.in \notin h
                         /\ ~NearTie /\ ~CandidatesNearTie =>
                              /\ {} \in Screens => shown.views.screens[{}] = decision.action
                              /\ \A cap \in Caps :
                                   Capped(Value, cap) = Value => shown.views.caps[cap] = decision.action
  BY DEF ReportReproducesDecision
<1>1. rows \in Artifact /\ Decided /\ Told BY DEF Faithful
<1>2. PICK bank \in Bank : Sound /\ decision = EvaluateOneTransfer(Value, bank)
  BY <1>1 DEF Decided
<1>3. bank \in Nat BY SquadAssumption
<1>4. ~NearTie => SurfaceValid(Value) BY <1>2, <1>3, DiagnosticReproduces
<1>5. ASSUME shown.command = "analyze"
      PROVE  /\ shown.official = decision.action /\ shown.views = Views(Value)
             /\ shown.stability = Stability(decision.action, Views(Value))
  BY <1>1, <1>5 DEF Told
<1>6. /\ \A h \in Screens : Views(Value).screens[h] = ScreenView(h)
      /\ \A cap \in Caps : Views(Value).caps[cap] = Reoptimized(Capped(Value, cap), TRUE)
  BY DEF Views
<1>7. ASSUME NEW h \in Screens, Stability(decision.action, Views(Value)).stable
      PROVE  decision.action.in \notin h
  <2> DEFINE views == Views(Value)
             actions == {views.screens[k] : k \in Screens} \cup {views.caps[cap] : cap \in Caps}
                        \cup {views.xi_only}
  <2>1. Stability(decision.action, views).stable <=> actions = {decision.action} BY DEF Stability
  <2>2. ScreenView(h) \in actions BY <1>6
  <2>3. ScreenView(h) = decision.action BY <2>1, <2>2, <1>7
  <2> QED BY <2>3, <1>2, <1>3, ViewNotHidden
<1>8. ASSUME ~CandidatesNearTie
      PROVE  ActionOf({Line(c) : c \in decision.candidates}, decision.roll.objective) = decision.action
  BY <1>2, <1>3, <1>8, CandidatesAreRecords, LinesRepeatAction
<1>9. ASSUME ~CandidatesNearTie, {} \in Screens
      PROVE  Views(Value).screens[{}] = decision.action
  <2> DEFINE stored == [c \in decision.candidates |-> c.result]
  <2>1. Scored(stored) = {Line(c) : c \in decision.candidates} BY StoredLines
  <2>2. ScreenView({}) = ActionOf({c \in Scored(stored) : c.in \notin {}}, decision.roll.objective)
    BY DEF ScreenView
  <2> HIDE DEF stored
  <2>3. {c \in Scored(stored) : c.in \notin {}} = Scored(stored) OBVIOUS
  <2>4. ScreenView({}) = ActionOf({Line(c) : c \in decision.candidates}, decision.roll.objective)
    BY <2>1, <2>2, <2>3
  <2> QED BY <2>4, <1>6, <1>8, <1>9
<1>10. ASSUME ~NearTie, ~CandidatesNearTie, NEW cap \in Caps, Capped(Value, cap) = Value
       PROVE  Views(Value).caps[cap] = decision.action
  <2> DEFINE again == [c \in decision.candidates |-> FixedSquadDiagnostic(Value, c.result.squad, TRUE)]
             owned == FixedSquadDiagnostic(Value, Owned, TRUE).objective
  <2>1. /\ owned = decision.roll.objective
        /\ \A c \in decision.candidates : again[c].objective = c.result.objective
    BY <1>2, <1>3, <1>10, DiagnosticReproduces
  <2>2. Reoptimized(Value, TRUE) = ActionOf(Scored(again), owned) BY DEF Reoptimized
  <2> HIDE DEF again, owned
  <2>3. Scored(again) = {Line(c) : c \in decision.candidates} BY <2>1, StoredLines
  <2>4. Reoptimized(Value, TRUE) = decision.action BY <2>1, <2>2, <2>3, <1>8, <1>10
  <2> QED BY <2>4, <1>6, <1>10
<1> QED BY <1>4, <1>5, <1>7, <1>9, <1>10

(* Every recommendation is legal and no legal alternative beats it, for every
   league, artifact, budget, bank and locked selection the assumptions allow. *)
THEOREM AlwaysAdviceIsBest == Spec => []AdviceIsBest
BY AlwaysFaithful, FaithfulAdvice, PTL

(* The report reproduces the decision it is about: the diagnostic accepts it
   when no projections nearly tie, a stable report hides no official incoming
   player, and an identity view repeats the official action. *)
THEOREM AlwaysReportReproducesDecision == Spec => []ReportReproducesDecision
BY AlwaysFaithful, FaithfulReport, PTL
=============================================================================

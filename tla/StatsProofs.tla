----------------------------- MODULE StatsProofs -----------------------------
(***************************************************************************)
(* Proofs about Stats, for any runs, readers, requests and histories, any  *)
(* disk and any interleaving of the five reads of a report with the        *)
(* processes that record and prune.                                        *)
(*                                                                         *)
(* First the sums (SumFunction chooses its elements, so an order has to be *)
(* shown not to matter), then what a query over some rows answers, in      *)
(* terms of the runs of those rows, then the invariant of a report that is *)
(* being read: for each section already read there is a set of runs that   *)
(* the section was made from.                                              *)
(***************************************************************************)
EXTENDS Stats, TrackerProofs, FiniteSetTheorems

-----------------------------------------------------------------------------
(***************************************************************************)
(* Sums over finite sets.                                                  *)
(***************************************************************************)

Plus(m, n) == m + n
Count == INSTANCE Folding WITH Op <- Plus

(* A set of subsets that has the empty one and grows by every element has all of a
   finite set. *)
LEMMA FiniteInduction ==
    ASSUME NEW S, IsFiniteSet(S), NEW T \in SUBSET (SUBSET S), {} \in T,
           \A s \in T : \A x \in S \ s : s \cup {x} \in T
    PROVE  S \in T
<1> DEFINE N == {n \in Nat : \A s \in SUBSET S : Cardinality(s) = n => s \in T}
<1>1. 0 \in N
  <2>1. \A s \in SUBSET S : Cardinality(s) = 0 => s = {}
    BY FS_Subset, FS_EmptySet
  <2> QED
    BY <2>1
<1>2. ASSUME NEW n \in N PROVE n + 1 \in N
  <2>1. n \in Nat /\ \A s \in SUBSET S : Cardinality(s) = n => s \in T
    OBVIOUS
  <2>2. ASSUME NEW s \in SUBSET S, Cardinality(s) = n + 1 PROVE s \in T
    <3>1. IsFiniteSet(s) /\ s # {}
      BY <2>1, <2>2, FS_Subset, FS_EmptySet
    <3>2. PICK x \in s : TRUE
      BY <3>1
    <3>3. Cardinality(s \ {x}) = n
      <4>1. Cardinality(s \ {x}) = Cardinality(s) - 1
        BY <3>1, <3>2, FS_RemoveElement
      <4> QED
        BY <2>1, <2>2, <4>1
    <3>4. s \ {x} \in T /\ x \in S \ (s \ {x}) /\ (s \ {x}) \cup {x} = s
      BY <2>1, <3>2, <3>3
    <3> QED
      BY <3>4
  <2> QED
    BY <2>1, <2>2
<1>3. N = Nat
  <2>1. N \in SUBSET Nat
    OBVIOUS
  <2> HIDE DEF N
  <2> QED
    BY <1>1, <1>2, <2>1, Count!SetInduction
<1> QED
  BY <1>3, FS_CardinalityType

(* The function SumFunction chooses: the sum of f over each subset of S. *)
IsSum(f, S, g) ==
    g = [s \in SUBSET S |->
            IF s = {} THEN 0
            ELSE f[CHOOSE x \in s : TRUE] + g[s \ {CHOOSE x \in s : TRUE}]]

LEMMA SumDef == \A f : SumFunction(f) = (CHOOSE g : IsSum(f, DOMAIN f, g))[DOMAIN f]
BY DEF SumFunction, SumFunctionOnSet, FoldFunctionOnSet, MapThenFoldSet, IsSum

(* It exists. *)
LEMMA SumExists ==
    ASSUME NEW S, IsFiniteSet(S), NEW f
    PROVE  \E g : IsSum(f, S, g)
<1> DEFINE Small(n) == {s \in SUBSET S : Cardinality(s) <= n}
           Upto(n, g) == g = [s \in Small(n) |->
                                 IF s = {} THEN 0
                                 ELSE f[CHOOSE x \in s : TRUE] + g[s \ {CHOOSE x \in s : TRUE}]]
           N == {n \in Nat : \E g : Upto(n, g)}
<1>0. ASSUME NEW s \in SUBSET S
      PROVE  /\ IsFiniteSet(s) /\ Cardinality(s) \in Nat
             /\ Cardinality(s) <= Cardinality(S)
             /\ (Cardinality(s) = 0 <=> s = {})
             /\ \A x \in s : Cardinality(s \ {x}) = Cardinality(s) - 1
  BY FS_Subset, FS_EmptySet, FS_CardinalityType, FS_RemoveElement
<1>1. 0 \in N
  <2> DEFINE g == [s \in Small(0) |-> 0]
  <2>1. \A s \in Small(0) : s = {}
    BY <1>0
  <2>2. Upto(0, g)
    BY <2>1
  <2> QED
    BY <2>2
<1>2. ASSUME NEW n \in N PROVE n + 1 \in N
  <2>1. n \in Nat
    OBVIOUS
  <2>2. PICK g : Upto(n, g)
    OBVIOUS
  <2> DEFINE h == [s \in Small(n + 1) |->
                      IF s = {} THEN 0
                      ELSE f[CHOOSE x \in s : TRUE] + g[s \ {CHOOSE x \in s : TRUE}]]
  <2>3. ASSUME NEW s \in Small(n) PROVE h[s] = g[s]
    <3>1. s \in Small(n + 1)
      BY <2>1, <1>0
    <3> QED
      BY <2>2, <3>1
  <2>4. ASSUME NEW s \in Small(n + 1), s # {}
        PROVE  s \ {CHOOSE x \in s : TRUE} \in Small(n)
    <3>1. (CHOOSE x \in s : TRUE) \in s
      BY <2>4
    <3>2. Cardinality(s \ {CHOOSE x \in s : TRUE}) = Cardinality(s) - 1
      BY <1>0, <3>1
    <3>3. Cardinality(s) \in Nat /\ Cardinality(s) <= n + 1
      BY <1>0
    <3> QED
      BY <2>1, <3>2, <3>3
  <2>5. ASSUME NEW s \in Small(n + 1)
        PROVE  h[s] = IF s = {} THEN 0
                      ELSE f[CHOOSE x \in s : TRUE] + h[s \ {CHOOSE x \in s : TRUE}]
    <3>1. CASE s = {}
      BY <3>1
    <3>2. CASE s # {}
      <4>1. h[s] = f[CHOOSE x \in s : TRUE] + g[s \ {CHOOSE x \in s : TRUE}]
        BY <3>2
      <4>2. h[s \ {CHOOSE x \in s : TRUE}] = g[s \ {CHOOSE x \in s : TRUE}]
        BY <2>3, <2>4, <3>2
      <4> QED
        BY <3>2, <4>1, <4>2
    <3> QED
      BY <3>1, <3>2
  <2>6. h = [s \in Small(n + 1) |-> h[s]]
    OBVIOUS
  <2> HIDE DEF h
  <2>7. Upto(n + 1, h)
    <3> HIDE DEF Small
    <3> QED
      BY <2>5, <2>6
  <2>8. n + 1 \in Nat
    BY <2>1
  <2> HIDE DEF Upto
  <2> QED
    BY <2>7, <2>8
<1>3. N = Nat
  <2>1. N \in SUBSET Nat
    OBVIOUS
  <2> HIDE DEF N
  <2> QED
    BY <1>1, <1>2, <2>1, Count!SetInduction
<1>4. Cardinality(S) \in Nat
  BY FS_CardinalityType
<1>5. Small(Cardinality(S)) = SUBSET S
  BY <1>0
<1>6. PICK g : Upto(Cardinality(S), g)
  BY <1>3, <1>4
<1> QED
  BY <1>5, <1>6 DEF IsSum

(* There is one: it depends on the values of f only. *)
LEMMA SumUnique ==
    ASSUME NEW S, NEW U, IsFiniteSet(S), S \subseteq U,
           NEW f, NEW h, \A x \in S : f[x] = h[x],
           NEW g, NEW k, IsSum(f, S, g), IsSum(h, U, k)
    PROVE  \A s \in SUBSET S : g[s] = k[s]
<1> DEFINE N == {n \in Nat : \A s \in SUBSET S : Cardinality(s) = n => g[s] = k[s]}
<1>1. 0 \in N
  <2>1. \A s \in SUBSET S : Cardinality(s) = 0 => s = {}
    BY FS_Subset, FS_EmptySet
  <2>2. g[{}] = 0
    BY DEF IsSum
  <2>3. k[{}] = 0
    BY DEF IsSum
  <2> QED
    BY <2>1, <2>2, <2>3
<1>2. ASSUME NEW n \in N PROVE n + 1 \in N
  <2>1. n \in Nat /\ \A s \in SUBSET S : Cardinality(s) = n => g[s] = k[s]
    OBVIOUS
  <2>2. ASSUME NEW s \in SUBSET S, Cardinality(s) = n + 1 PROVE g[s] = k[s]
    <3>1. IsFiniteSet(s) /\ s # {}
      BY <2>1, <2>2, FS_Subset, FS_EmptySet
    <3> DEFINE c == CHOOSE x \in s : TRUE
    <3>2. c \in s
      BY <3>1
    <3>3. g[s] = f[c] + g[s \ {c}]
      BY <3>1 DEF IsSum
    <3>4. k[s] = h[c] + k[s \ {c}]
      <4>1. s \in SUBSET U
        OBVIOUS
      <4> QED
        BY <3>1, <4>1 DEF IsSum
    <3> HIDE DEF c
    <3>5. Cardinality(s \ {c}) = n
      <4>1. Cardinality(s \ {c}) = Cardinality(s) - 1
        BY <3>1, <3>2, FS_RemoveElement
      <4> QED
        BY <2>1, <2>2, <4>1
    <3>6. g[s \ {c}] = k[s \ {c}]
      BY <2>1, <3>5
    <3> QED
      BY <3>2, <3>3, <3>4, <3>6
  <2> QED
    BY <2>1, <2>2
<1>3. N = Nat
  <2>1. N \in SUBSET Nat
    OBVIOUS
  <2> HIDE DEF N
  <2> QED
    BY <1>1, <1>2, <2>1, Count!SetInduction
<1>4. \A s \in SUBSET S : Cardinality(s) \in Nat
  BY FS_Subset, FS_CardinalityType
<1> QED
  BY <1>3, <1>4

(* The sum of h over a subset of its domain. *)
Total(h, S) == SumFunction([x \in S |-> h[x]])

LEMMA TotalIs ==
    ASSUME NEW U, IsFiniteSet(U), NEW h, NEW k, IsSum(h, U, k), NEW S \in SUBSET U
    PROVE  Total(h, S) = k[S]
<1> DEFINE f == [x \in S |-> h[x]]
<1>1. IsFiniteSet(S) /\ DOMAIN f = S
  BY FS_Subset
<1>2. \A x \in S : f[x] = h[x]
  OBVIOUS
<1>3. Total(h, S) = SumFunction(f)
  BY DEF Total
<1> HIDE DEF f
<1> DEFINE g == CHOOSE g : IsSum(f, S, g)
<1>4. IsSum(f, S, g)
  BY <1>1, SumExists
<1>5. SumFunction(f) = g[S]
  BY <1>1, SumDef
<1> HIDE DEF g
<1>6. g[S] = k[S]
  BY <1>1, <1>2, <1>4, SumUnique
<1> QED
  BY <1>3, <1>5, <1>6

LEMMA TotalEmpty == \A h : Total(h, {}) = 0
<1> TAKE h
<1>1. IsFiniteSet({})
  BY FS_EmptySet
<1>2. PICK k : IsSum(h, {}, k)
  BY <1>1, SumExists
<1>3. k[{}] = 0
  BY <1>2 DEF IsSum
<1> QED
  BY <1>1, <1>2, <1>3, TotalIs

(* The values outside do not matter. *)
LEMMA TotalAgree ==
    ASSUME NEW S, NEW f, NEW h, \A x \in S : f[x] = h[x]
    PROVE  Total(f, S) = Total(h, S)
<1>1. [x \in S |-> f[x]] = [x \in S |-> h[x]]
  OBVIOUS
<1> QED
  BY <1>1 DEF Total

LEMMA TotalOf == ASSUME NEW S, NEW f, f = [x \in S |-> f[x]] PROVE SumFunction(f) = Total(f, S)
BY DEF Total

LEMMA SumInt ==
    ASSUME NEW U, IsFiniteSet(U), NEW h, \A x \in U : h[x] \in Int,
           NEW k, IsSum(h, U, k)
    PROVE  \A S \in SUBSET U : k[S] \in Int
<1> DEFINE N == {n \in Nat : \A s \in SUBSET U : Cardinality(s) = n => k[s] \in Int}
<1>1. 0 \in N
  <2>1. \A s \in SUBSET U : Cardinality(s) = 0 => s = {}
    BY FS_Subset, FS_EmptySet
  <2>2. k[{}] = 0
    BY DEF IsSum
  <2> QED
    BY <2>1, <2>2
<1>2. ASSUME NEW n \in N PROVE n + 1 \in N
  <2>1. n \in Nat /\ \A s \in SUBSET U : Cardinality(s) = n => k[s] \in Int
    OBVIOUS
  <2>2. ASSUME NEW s \in SUBSET U, Cardinality(s) = n + 1 PROVE k[s] \in Int
    <3>1. IsFiniteSet(s) /\ s # {}
      BY <2>1, <2>2, FS_Subset, FS_EmptySet
    <3> DEFINE c == CHOOSE x \in s : TRUE
    <3>2. c \in s
      BY <3>1
    <3>3. k[s] = h[c] + k[s \ {c}]
      BY <3>1 DEF IsSum
    <3> HIDE DEF c
    <3>4. Cardinality(s \ {c}) = Cardinality(s) - 1
      BY <3>1, <3>2, FS_RemoveElement
    <3>5. k[s \ {c}] \in Int
      BY <2>1, <2>2, <3>4
    <3> QED
      BY <3>2, <3>3, <3>5
  <2> QED
    BY <2>1, <2>2
<1>3. N = Nat
  <2>1. N \in SUBSET Nat
    OBVIOUS
  <2> HIDE DEF N
  <2> QED
    BY <1>1, <1>2, <2>1, Count!SetInduction
<1>4. \A s \in SUBSET U : Cardinality(s) \in Nat
  BY FS_Subset, FS_CardinalityType
<1> QED
  BY <1>3, <1>4

(* Whichever element CHOOSE takes out first. *)
LEMMA SumTakesAny ==
    ASSUME NEW U, IsFiniteSet(U), NEW h, \A x \in U : h[x] \in Int,
           NEW k, IsSum(h, U, k)
    PROVE  \A s \in SUBSET U : \A x \in U \ s : k[s \cup {x}] = h[x] + k[s]
<1>0. \A S \in SUBSET U : k[S] \in Int
  BY SumInt
<1> DEFINE N == {n \in Nat : \A s \in SUBSET U : Cardinality(s) = n =>
                    \A x \in U \ s : k[s \cup {x}] = h[x] + k[s]}
<1>1. ASSUME NEW s \in SUBSET U, s # {}
      PROVE  \E c \in s : k[s] = h[c] + k[s \ {c}]
  <2> DEFINE c == CHOOSE x \in s : TRUE
  <2>1. c \in s
    BY <1>1
  <2>2. k[s] = h[c] + k[s \ {c}]
    BY <1>1 DEF IsSum
  <2> HIDE DEF c
  <2> QED
    BY <2>1, <2>2
<1>2. 0 \in N
  <2>1. \A s \in SUBSET U : Cardinality(s) = 0 => s = {}
    BY FS_Subset, FS_EmptySet
  <2>2. ASSUME NEW x \in U PROVE k[{} \cup {x}] = h[x] + k[{}]
    <3>1. {x} \in SUBSET U /\ {x} # {}
      OBVIOUS
    <3>2. PICK c \in {x} : k[{x}] = h[c] + k[{x} \ {c}]
      BY <1>1, <3>1
    <3>3. c = x /\ {x} \ {c} = {} /\ {} \cup {x} = {x}
      OBVIOUS
    <3> QED
      BY <3>2, <3>3
  <2> QED
    BY <2>1, <2>2
<1>3. ASSUME NEW n \in N PROVE n + 1 \in N
  <2>1. n \in Nat /\ \A s \in SUBSET U : Cardinality(s) = n =>
                        \A x \in U \ s : k[s \cup {x}] = h[x] + k[s]
    OBVIOUS
  <2>2. ASSUME NEW s \in SUBSET U, Cardinality(s) = n + 1, NEW x \in U \ s
        PROVE  k[s \cup {x}] = h[x] + k[s]
    <3>1. s \cup {x} \in SUBSET U /\ s \cup {x} # {}
      OBVIOUS
    <3>2. PICK c \in s \cup {x} : k[s \cup {x}] = h[c] + k[(s \cup {x}) \ {c}]
      BY <1>1, <3>1
    <3>3. CASE c = x
      <4>1. (s \cup {x}) \ {c} = s
        BY <3>3
      <4> QED
        BY <3>2, <3>3, <4>1
    <3>4. CASE c # x
      <4>1. c \in s
        BY <3>4
      <4>2. (s \cup {x}) \ {c} = (s \ {c}) \cup {x} /\ (s \ {c}) \cup {c} = s
        BY <3>4, <4>1
      <4>3. Cardinality(s \ {c}) = n
        <5>1. IsFiniteSet(s)
          BY FS_Subset
        <5>2. Cardinality(s \ {c}) = Cardinality(s) - 1
          BY <4>1, <5>1, FS_RemoveElement
        <5> QED
          BY <2>1, <2>2, <5>2
      <4>4. s \ {c} \in SUBSET U /\ x \in U \ (s \ {c}) /\ c \in U \ (s \ {c})
        BY <4>1
      <4>5. k[(s \ {c}) \cup {x}] = h[x] + k[s \ {c}]
        BY <2>1, <4>3, <4>4
      <4>6. k[s] = h[c] + k[s \ {c}]
        BY <2>1, <4>2, <4>3, <4>4
      <4>7. h[x] \in Int /\ h[c] \in Int /\ k[s \ {c}] \in Int
        BY <1>0, <4>4
      <4>8. k[s \cup {x}] = h[c] + (h[x] + k[s \ {c}])
        BY <3>2, <4>2, <4>5
      <4> QED
        BY <4>6, <4>7, <4>8
    <3> QED
      BY <3>3, <3>4
  <2> QED
    BY <2>1, <2>2
<1>4. N = Nat
  <2>1. N \in SUBSET Nat
    OBVIOUS
  <2> HIDE DEF N
  <2> QED
    BY <1>2, <1>3, <2>1, Count!SetInduction
<1>5. \A s \in SUBSET U : Cardinality(s) \in Nat
  BY FS_Subset, FS_CardinalityType
<1> QED
  BY <1>4, <1>5

(* A sum with one element more. *)
LEMMA TotalAdd ==
    ASSUME NEW S, IsFiniteSet(S), NEW x, x \notin S, NEW h,
           h[x] \in Int, \A y \in S : h[y] \in Int
    PROVE  Total(h, S \cup {x}) = h[x] + Total(h, S)
<1> DEFINE U == S \cup {x}
<1>1. IsFiniteSet(U)
  BY FS_AddElement
<1>2. PICK k : IsSum(h, U, k)
  BY <1>1, SumExists
<1>3. S \in SUBSET U /\ U \in SUBSET U /\ x \in U \ S /\ \A y \in U : h[y] \in Int
  OBVIOUS
<1>4. k[S \cup {x}] = h[x] + k[S]
  <2> HIDE DEF U
  <2> QED
    BY <1>1, <1>2, <1>3, SumTakesAny
<1>5. Total(h, U) = k[U] /\ Total(h, S) = k[S]
  <2> HIDE DEF U
  <2> QED
    BY <1>1, <1>2, <1>3, TotalIs
<1> QED
  BY <1>4, <1>5

LEMMA TotalInt ==
    ASSUME NEW S, IsFiniteSet(S), NEW h, \A y \in S : h[y] \in Int
    PROVE  Total(h, S) \in Int
<1>1. PICK k : IsSum(h, S, k)
  BY SumExists
<1> QED
  BY <1>1, SumInt, TotalIs

LEMMA TotalNat ==
    ASSUME NEW S, IsFiniteSet(S), NEW h, \A y \in S : h[y] \in Nat
    PROVE  Total(h, S) \in Nat
<1> DEFINE T == {s \in SUBSET S : Total(h, s) \in Nat}
<1>1. {} \in T
  BY TotalEmpty
<1>2. ASSUME NEW s \in T, NEW x \in S \ s PROVE s \cup {x} \in T
  <2>1. IsFiniteSet(s) /\ s \cup {x} \in SUBSET S
    BY FS_Subset
  <2>2. Total(h, s \cup {x}) = h[x] + Total(h, s)
    <3>1. h[x] \in Int /\ \A y \in s : h[y] \in Int
      OBVIOUS
    <3> QED
      BY <2>1, <3>1, TotalAdd
  <2> QED
    BY <2>1, <2>2
<1>3. S \in T
  <2>1. T \in SUBSET (SUBSET S)
    OBVIOUS
  <2> HIDE DEF T
  <2> QED
    BY <1>1, <1>2, <2>1, FiniteInduction
<1> QED
  BY <1>3

(* Counting is summing ones. *)
LEMMA TotalOnes ==
    ASSUME NEW S, IsFiniteSet(S), NEW h, \A y \in S : h[y] = 1
    PROVE  Total(h, S) = Cardinality(S)
<1> DEFINE T == {s \in SUBSET S : Total(h, s) = Cardinality(s)}
<1>1. {} \in T
  BY TotalEmpty, FS_EmptySet
<1>2. ASSUME NEW s \in T, NEW x \in S \ s PROVE s \cup {x} \in T
  <2>1. IsFiniteSet(s) /\ s \cup {x} \in SUBSET S
    BY FS_Subset
  <2>2. Total(h, s \cup {x}) = h[x] + Total(h, s)
    BY <2>1, TotalAdd
  <2>3. Cardinality(s \cup {x}) = Cardinality(s) + 1 /\ Cardinality(s) \in Nat
    BY <2>1, FS_AddElement, FS_CardinalityType
  <2> QED
    BY <2>1, <2>2, <2>3
<1>3. S \in T
  <2>1. T \in SUBSET (SUBSET S)
    OBVIOUS
  <2> HIDE DEF T
  <2> QED
    BY <1>1, <1>2, <2>1, FiniteInduction
<1> QED
  BY <1>3

(* The sum of differences. *)
LEMMA TotalMinus ==
    ASSUME NEW S, IsFiniteSet(S), NEW f, NEW g, NEW h,
           \A y \in S : f[y] \in Int /\ g[y] \in Int /\ h[y] = f[y] - g[y]
    PROVE  Total(h, S) = Total(f, S) - Total(g, S)
<1> DEFINE T == {s \in SUBSET S : Total(h, s) = Total(f, s) - Total(g, s)}
<1>1. {} \in T
  BY TotalEmpty
<1>2. ASSUME NEW s \in T, NEW x \in S \ s PROVE s \cup {x} \in T
  <2>1. IsFiniteSet(s) /\ s \cup {x} \in SUBSET S
    BY FS_Subset
  <2>2. \A y \in s \cup {x} : h[y] \in Int
    BY <2>1
  <2>3. /\ Total(h, s \cup {x}) = h[x] + Total(h, s)
        /\ Total(f, s \cup {x}) = f[x] + Total(f, s)
        /\ Total(g, s \cup {x}) = g[x] + Total(g, s)
    BY <2>1, <2>2, TotalAdd
  <2>4. Total(f, s) \in Int /\ Total(g, s) \in Int
    BY <2>1, TotalInt
  <2>5. f[x] \in Int /\ g[x] \in Int /\ h[x] = f[x] - g[x]
    OBVIOUS
  <2>6. Total(h, s) = Total(f, s) - Total(g, s)
    OBVIOUS
  <2>7. Total(h, s \cup {x}) = Total(f, s \cup {x}) - Total(g, s \cup {x})
    BY <2>3, <2>4, <2>5, <2>6
  <2> QED
    BY <2>1, <2>7
<1>3. S \in T
  <2>1. T \in SUBSET (SUBSET S)
    OBVIOUS
  <2> HIDE DEF T
  <2> QED
    BY <1>1, <1>2, <2>1, FiniteInduction
<1> QED
  BY <1>3

(* What is 0 does not count. *)
LEMMA TotalSupport ==
    ASSUME NEW S, IsFiniteSet(S), NEW P \in SUBSET S, NEW h,
           \A y \in S : h[y] \in Int, \A y \in S \ P : h[y] = 0
    PROVE  Total(h, S) = Total(h, P)
<1> DEFINE T == {s \in SUBSET S : Total(h, s) = Total(h, s \cap P)}
<1>1. {} \in T
  <2>1. {} \cap P = {}
    OBVIOUS
  <2> QED
    BY <2>1
<1>2. ASSUME NEW s \in T, NEW x \in S \ s PROVE s \cup {x} \in T
  <2>1. IsFiniteSet(s) /\ IsFiniteSet(s \cap P) /\ s \cup {x} \in SUBSET S
    BY FS_Subset
  <2>2. Total(h, s \cup {x}) = h[x] + Total(h, s)
    BY <2>1, TotalAdd
  <2>3. CASE x \in P
    <3>1. (s \cup {x}) \cap P = (s \cap P) \cup {x} /\ x \notin s \cap P
      BY <2>3
    <3>2. Total(h, (s \cap P) \cup {x}) = h[x] + Total(h, s \cap P)
      BY <2>1, <3>1, TotalAdd
    <3> QED
      BY <2>1, <2>2, <3>1, <3>2
  <2>4. CASE x \notin P
    <3>1. (s \cup {x}) \cap P = s \cap P
      BY <2>4
    <3>2. h[x] = 0 /\ Total(h, s) \in Int
      BY <2>1, <2>4, TotalInt
    <3>3. Total(h, s) = Total(h, s \cap P)
      OBVIOUS
    <3>4. Total(h, s \cup {x}) = Total(h, s)
      BY <2>2, <3>2
    <3>5. Total(h, (s \cup {x}) \cap P) = Total(h, s \cap P)
      BY <3>1
    <3> QED
      BY <2>1, <3>3, <3>4, <3>5
  <2> QED
    BY <2>3, <2>4
<1>3. S \in T
  <2>1. T \in SUBSET (SUBSET S)
    OBVIOUS
  <2> HIDE DEF T
  <2> QED
    BY <1>1, <1>2, <2>1, FiniteInduction
<1>4. S \cap P = P
  OBVIOUS
<1> QED
  BY <1>3, <1>4

(* Renaming the elements. *)
LEMMA TotalImage ==
    ASSUME NEW S, IsFiniteSet(S), NEW b, NEW h,
           \A y, z \in S : b[y] = b[z] => y = z,
           \A y \in S : h[b[y]] \in Int
    PROVE  Total(h, {b[y] : y \in S}) = Total([y \in S |-> h[b[y]]], S)
<1> DEFINE f == [y \in S |-> h[b[y]]]
           Img(s) == {b[y] : y \in s}
           T == {s \in SUBSET S : IsFiniteSet(Img(s)) /\ Total(h, Img(s)) = Total(f, s)}
<1>1. {} \in T
  <2>1. Img({}) = {}
    OBVIOUS
  <2> HIDE DEF Img, f
  <2> QED
    BY <2>1, TotalEmpty, FS_EmptySet
<1>2. ASSUME NEW s \in T, NEW x \in S \ s PROVE s \cup {x} \in T
  <2>1. IsFiniteSet(s) /\ s \cup {x} \in SUBSET S
    BY FS_Subset
  <2>2. Img(s \cup {x}) = Img(s) \cup {b[x]} /\ b[x] \notin Img(s)
    BY <2>1
  <2>3. f[x] = h[b[x]] /\ h[b[x]] \in Int /\ \A y \in S : f[y] \in Int
    OBVIOUS
  <2>4. \A z \in Img(s) : h[z] \in Int
    OBVIOUS
  <2> HIDE DEF f, Img
  <2>5. Total(f, s \cup {x}) = f[x] + Total(f, s)
    BY <2>1, <2>3, TotalAdd
  <2>6. Total(h, Img(s) \cup {b[x]}) = h[b[x]] + Total(h, Img(s)) /\ IsFiniteSet(Img(s) \cup {b[x]})
    BY <2>2, <2>3, <2>4, TotalAdd, FS_AddElement
  <2> QED
    BY <2>1, <2>2, <2>3, <2>5, <2>6
<1>3. S \in T
  <2>1. T \in SUBSET (SUBSET S)
    OBVIOUS
  <2> HIDE DEF T
  <2> QED
    BY <1>1, <1>2, <2>1, FiniteInduction
<1> QED
  BY <1>3

(* Group by group: k is the key of each element. *)
LEMMA TotalParts ==
    ASSUME NEW S, IsFiniteSet(S), NEW k, NEW h, \A y \in S : h[y] \in Int
    PROVE  LET Keys == {k[y] : y \in S}
           IN  /\ IsFiniteSet(Keys)
               /\ Total(h, S) = Total([c \in Keys |-> Total(h, {y \in S : k[y] = c})], Keys)
<1> DEFINE Keys(s) == {k[y] : y \in s}
           Part(s, c) == {y \in s : k[y] = c}
           F(s) == [c \in Keys(S) |-> Total(h, Part(s, c))]
           T == {s \in SUBSET S : IsFiniteSet(Keys(s)) /\ Total(h, s) = Total(F(s), Keys(s))}
<1>1. {} \in T
  <2>1. Keys({}) = {}
    OBVIOUS
  <2> HIDE DEF Keys, F
  <2> QED
    BY <2>1, TotalEmpty, FS_EmptySet
<1>2. ASSUME NEW s \in T, NEW x \in S \ s PROVE s \cup {x} \in T
  <2> DEFINE t == s \cup {x}
             c == k[x]
  <2>1. IsFiniteSet(s) /\ t \in SUBSET S /\ IsFiniteSet(t)
    BY FS_Subset
  <2>2. Keys(t) = Keys(s) \cup {c} /\ c \in Keys(S) /\ Keys(s) \subseteq Keys(S)
    OBVIOUS
  <2>3. Part(t, c) = Part(s, c) \cup {x} /\ x \notin Part(s, c)
    OBVIOUS
  <2>4. \A d : d # c => Part(t, d) = Part(s, d)
    OBVIOUS
  <2>5. \A d : IsFiniteSet(Part(s, d)) /\ Part(s, d) \subseteq S
    BY <2>1, FS_Subset
  <2>6. IsFiniteSet(Keys(s)) /\ Total(h, s) = Total(F(s), Keys(s))
    OBVIOUS
  <2>7. Total(h, t) = h[x] + Total(h, s) /\ h[x] \in Int /\ Total(h, s) \in Int
    <3>1. h[x] \in Int /\ \A y \in s : h[y] \in Int
      OBVIOUS
    <3>2. x \notin s
      OBVIOUS
    <3> HIDE DEF T
    <3>3. Total(h, s) \in Int
      BY <2>1, <3>1, TotalInt
    <3>4. Total(h, s \cup {x}) = h[x] + Total(h, s)
      BY <2>1, <3>1, <3>2, TotalAdd
    <3> QED
      BY <3>1, <3>3, <3>4
  <2>9. x \in S /\ \A y \in S : h[y] \in Int
    OBVIOUS
  <2>10. k[x] = c /\ \A d \in Keys(s) : \E y \in s : k[y] = d
    OBVIOUS
  <2>11. \A d \in Keys(S) : F(s)[d] = Total(h, Part(s, d)) /\ F(t)[d] = Total(h, Part(t, d))
    OBVIOUS
  <2>12. c \notin Keys(s) => Part(s, c) = {}
    OBVIOUS
  <2> HIDE DEF Keys, Part, F, c, t, T
  <2>8. IsFiniteSet(Keys(t))
    BY <2>2, <2>6, FS_AddElement
  <2>13. \A d \in Keys(S) : F(s)[d] \in Int
    BY <2>5, <2>9, <2>11, TotalInt
  <2>14. F(t)[c] = h[x] + F(s)[c]
    <3>1. \A y \in Part(s, c) : h[y] \in Int
      BY <2>5, <2>9
    <3>2. Total(h, Part(s, c) \cup {x}) = h[x] + Total(h, Part(s, c))
      BY <2>3, <2>5, <2>7, <3>1, TotalAdd
    <3> QED
      BY <2>2, <2>3, <2>11, <3>2
  <2>15. \A d \in Keys(S) : d # c => F(t)[d] = F(s)[d]
    BY <2>4, <2>11
  <2>16. CASE c \in Keys(s)
    <3> DEFINE R == Keys(s) \ {c}
    <3>1. /\ IsFiniteSet(R) /\ c \notin R /\ R \cup {c} = Keys(s) /\ R \subseteq Keys(S)
          /\ Keys(t) = R \cup {c}
      BY <2>2, <2>6, <2>16, FS_RemoveElement
    <3> HIDE DEF R
    <3>2. \A d \in R : F(s)[d] \in Int /\ F(t)[d] = F(s)[d] /\ F(t)[d] \in Int
      BY <2>13, <2>15, <3>1
    <3>3. F(s)[c] \in Int /\ F(t)[c] \in Int
      BY <2>2, <2>7, <2>13, <2>14
    <3>4. Total(F(s), R \cup {c}) = F(s)[c] + Total(F(s), R)
      BY <3>1, <3>2, <3>3, TotalAdd
    <3>5. Total(F(t), R \cup {c}) = F(t)[c] + Total(F(t), R)
      BY <3>1, <3>2, <3>3, TotalAdd
    <3>6. Total(F(t), R) = Total(F(s), R)
      BY <3>2, TotalAgree
    <3>7. Total(F(s), R) \in Int
      BY <3>1, <3>2, TotalInt
    <3>8. Total(h, s) = F(s)[c] + Total(F(s), R)
      BY <2>6, <3>1, <3>4
    <3>9. Total(F(t), Keys(t)) = (h[x] + F(s)[c]) + Total(F(s), R)
      BY <2>14, <3>1, <3>5, <3>6
    <3>10. Total(h, t) = Total(F(t), Keys(t))
      BY <2>7, <3>3, <3>7, <3>8, <3>9
    <3> QED
      BY <2>1, <2>8, <3>10 DEF T, t
  <2>17. CASE c \notin Keys(s)
    <3>1. \A d \in Keys(s) : F(t)[d] = F(s)[d] /\ F(t)[d] \in Int
      BY <2>2, <2>13, <2>15, <2>17
    <3>2. F(s)[c] = 0
      BY <2>2, <2>11, <2>12, <2>17, TotalEmpty
    <3>3. F(t)[c] = h[x]
      BY <2>7, <2>14, <3>2
    <3>4. Total(F(t), Keys(s) \cup {c}) = F(t)[c] + Total(F(t), Keys(s))
      BY <2>6, <2>7, <2>17, <3>1, <3>3, TotalAdd
    <3>5. Total(F(t), Keys(s)) = Total(F(s), Keys(s))
      BY <3>1, TotalAgree
    <3>6. Total(h, t) = Total(F(t), Keys(t))
      BY <2>2, <2>6, <2>7, <3>3, <3>4, <3>5
    <3> QED
      BY <2>1, <2>8, <3>6 DEF T, t
  <2> QED
    BY <2>16, <2>17
<1>3. S \in T
  <2>1. T \in SUBSET (SUBSET S)
    OBVIOUS
  <2> HIDE DEF T
  <2> QED
    BY <1>1, <1>2, <2>1, FiniteInduction
<1> QED
  BY <1>3

-----------------------------------------------------------------------------
(***************************************************************************)
(* The history.                                                            *)
(***************************************************************************)

(* Each recorded run has at most one row, with its time, and has it while its window
   lasts. *)
HistoryInv ==
    /\ TypeOK
    /\ \A p \in Runs : pc[p] # "running" => now[p] <= clock
    /\ \A i \in invs : i.ts = now[i.run] /\ pc[i.run] = "done"
    /\ \A i, j \in invs : i.run = j.run => i = j
    /\ \A r \in Runs : pc[r] = "done" /\ clock <= now[r] + LeastInv =>
                          \E i \in invs : i.run = r

LEMMA HistoryInit == Init => HistoryInv
BY TypeInit DEF Init, HistoryInv

(* A run that is recorded stays recorded, at its time. *)
LEMMA DoneStays ==
    ASSUME TypeOK, [Next]_vars
    PROVE  /\ clock <= clock' /\ clock' \in Nat
           /\ \A r \in Runs : pc[r] = "done" => pc'[r] = "done" /\ now'[r] = now[r]
<1> USE DEF TypeOK, Goto, db
<1>1. CASE UNCHANGED vars
  BY <1>1 DEF vars
<1>2. CASE Tick
  BY <1>2 DEF Tick
<1>3. ASSUME NEW p \in Runs,
             \/ Open(p) \/ BeginMigrate(p) \/ CommitMigrate(p)
             \/ Throttle(p) \/ Reanchor(p) \/ BeginPrune(p) \/ CommitPrune(p)
             \/ Marker(p) \/ Notice(p) \/ InsertRaw(p) \/ InsertInvocation(p)
      PROVE  clock' = clock /\ now' = now /\ pc[p] # "done"
             /\ \A r \in Runs \ {p} : pc'[r] = pc[r]
  BY <1>3 DEF Open, BeginMigrate, CommitMigrate, Throttle, Reanchor,
              BeginPrune, CommitPrune, Marker, Notice, InsertRaw, InsertInvocation
<1>4. ASSUME NEW p \in Runs, Fail(p) \/ Crash(p)
      PROVE  clock' = clock /\ now' = now /\ pc[p] # "done"
             /\ \A r \in Runs \ {p} : pc'[r] = pc[r]
  BY <1>4 DEF Fail, Crash, InFlight, Finished
<1>5. ASSUME NEW p \in Runs, Begin(p)
      PROVE  clock' = clock /\ pc[p] # "done"
             /\ \A r \in Runs \ {p} : pc'[r] = pc[r] /\ now'[r] = now[r]
  BY <1>5 DEF Begin
<1> QED
  BY NextCases, <1>1, <1>2, <1>3, <1>4, <1>5

LEMMA HistoryStep == ASSUME HistoryInv, [Next]_vars PROVE HistoryInv'
<1> USE WindowsNat DEF HistoryInv
<1> TypeOK /\ TypeOK'
  BY TypeStep
<1> USE DEF TypeOK, Invocation
<1>0. /\ clock <= clock' /\ clock' \in Nat
      /\ \A r \in Runs : pc[r] = "done" => pc'[r] = "done" /\ now'[r] = now[r]
  BY DoneStays
<1>1. CASE UNCHANGED vars
  BY <1>1 DEF vars
<1>2. CASE Tick
  <2>1. clock' = clock + 1 /\ UNCHANGED <<invs, pc, now>>
    BY <1>2 DEF Tick, db
  <2>2. \A r \in Runs : now[r] \in Nat
    OBVIOUS
  <2> QED
    BY <2>1, <2>2
<1>3. ASSUME NEW p \in Runs,
             \/ Begin(p) \/ Open(p) \/ BeginMigrate(p) \/ CommitMigrate(p)
             \/ Throttle(p) \/ Reanchor(p) \/ BeginPrune(p)
             \/ Marker(p) \/ Notice(p) \/ InsertRaw(p) \/ Fail(p) \/ Crash(p)
      PROVE  HistoryInv'
  <2>1. /\ invs' = invs /\ clock' = clock
        /\ \A r \in Runs : pc'[r] = "done" => pc[r] = "done"
        /\ \A r \in Runs : pc'[r] # "running" => now'[r] <= clock'
    BY <1>3 DEF Begin, Open, BeginMigrate, CommitMigrate, Throttle, Reanchor, BeginPrune,
                Marker, Notice, InsertRaw, Fail, Crash, InFlight, Finished, Goto, db
  <2> QED
    BY <1>0, <2>1
<1>4. ASSUME NEW p \in Runs, CommitPrune(p) PROVE HistoryInv'
  <2>1. /\ clock' = clock /\ now' = now
        /\ \A r \in Runs : pc'[r] = "done" => pc[r] = "done"
        /\ \A r \in Runs : pc'[r] # "running" => now'[r] <= clock'
        /\ pc[p] = "pruning"
    BY <1>4 DEF CommitPrune, Goto
  <2>2. invs' = {SetNull(i, raws') : i \in Kept(invs, InvWindow(p), now[p])}
    BY <1>4 DEF CommitPrune
  <2>3. \A i : SetNull(i, raws').run = i.run /\ SetNull(i, raws').ts = i.ts
    BY DEF SetNull
  <2>4. \A i \in invs : now[p] <= i.ts + InvWindow(p) => SetNull(i, raws') \in invs'
    BY <2>2 DEF Kept
  <2>5. \A j \in invs' : \E i \in invs : j = SetNull(i, raws')
    BY <2>2 DEF Kept
  <2>6. \A i \in invs' : i.ts = now[i.run] /\ pc'[i.run] = "done"
    BY <1>0, <2>3, <2>5
  <2>7. \A i, j \in invs' : i.run = j.run => i = j
    BY <2>3, <2>5
  <2>8. ASSUME NEW r \in Runs, pc[r] = "done", clock <= now[r] + LeastInv
        PROVE  \E i \in invs' : i.run = r
    <3>1. PICK i \in invs : i.run = r /\ i.ts = now[r]
      BY <2>8
    <3>2. now[p] <= clock /\ LeastInv <= InvWindow(p) /\ InvWindow(p) \in Nat
      BY <2>1, WindowOf
    <3>3. now[p] <= i.ts + InvWindow(p)
      BY <2>8, <3>1, <3>2
    <3> QED
      BY <2>3, <2>4, <3>1, <3>3
  <2> QED
    BY <2>1, <2>6, <2>7, <2>8
<1>5. ASSUME NEW p \in Runs, InsertInvocation(p) PROVE HistoryInv'
  <2>1. /\ clock' = clock /\ now' = now /\ pc[p] = "inv"
        /\ \A r \in Runs \ {p} : pc'[r] = pc[r]
    BY <1>5 DEF InsertInvocation, Goto
  <2>2. \A r \in Runs : pc'[r] # "running" => now'[r] <= clock'
    BY <2>1
  <2>3. CASE pc'[p] = "done" /\ invs' = invs \cup {[run |-> p, ts |-> now[p], raw |-> rawId[p]]}
    <3>1. \A i \in invs : i.run # p
      BY <2>1
    <3>2. \A i \in invs' : i.ts = now'[i.run] /\ pc'[i.run] = "done"
      BY <1>0, <2>1, <2>3
    <3>3. \A i, j \in invs' : i.run = j.run => i = j
      BY <2>3, <3>1
    <3>4. ASSUME NEW r \in Runs, pc'[r] = "done", clock <= now[r] + LeastInv
          PROVE  \E i \in invs' : i.run = r
      <4>1. CASE r = p
        <5> DEFINE i == [run |-> p, ts |-> now[p], raw |-> rawId[p]]
        <5>1. i \in invs' /\ i.run = p
          BY <2>3
        <5> HIDE DEF i
        <5> QED
          BY <4>1, <5>1
      <4>2. CASE r # p
        <5>1. pc[r] = "done"
          BY <2>1, <3>4, <4>2
        <5>2. PICK i \in invs : i.run = r
          BY <3>4, <5>1
        <5> QED
          BY <2>3, <5>2
      <4> QED
        BY <4>1, <4>2
    <3> QED
      BY <2>1, <2>2, <3>2, <3>3, <3>4
  <2>4. CASE pc'[p] = "lost" /\ invs' = invs
    BY <1>0, <2>1, <2>2, <2>4
  <2> QED
    BY <1>5, <2>3, <2>4 DEF InsertInvocation, Goto
<1> QED
  BY NextCases, <1>1, <1>2, <1>3, <1>4, <1>5

-----------------------------------------------------------------------------
(***************************************************************************)
(* What a set of rows adds up to.                                          *)
(***************************************************************************)

Fields == {"runs", "raw", "kept", "saved"}

Value(f) ==
    [r \in Runs |->
        IF f = "runs" THEN 1
        ELSE IF f = "raw" THEN RawBytes(history[r])
        ELSE IF f = "kept" THEN FilteredBytes(history[r])
        ELSE RawBytes(history[r]) - FilteredBytes(history[r])]

LEMMA ValueType ==
    ASSUME history \in Histories, NEW f, NEW r \in Runs
    PROVE  /\ Value(f)[r] \in Int
           /\ f \in {"runs", "raw", "kept"} => Value(f)[r] \in Nat
<1>1. history[r].raw \in Nat /\ history[r].kept \in Nat
  BY StatsAssumption DEF IsCommand
<1>2. RawBytes(history[r]) \in Nat /\ FilteredBytes(history[r]) \in Nat
  BY <1>1 DEF RawBytes, FilteredBytes
<1> QED
  BY <1>2 DEF Value

(* The sums, field by field. *)
LEMMA WroteIs ==
    ASSUME history \in Histories, NEW A \in SUBSET Runs
    PROVE  Wrote(A) = [f \in Fields |-> Total(Value(f), A)]
<1> DEFINE F == {r \in A : Counted(history[r])}
           w == Wrote(A)
           raw == SumFunction([r \in F |-> history[r].raw])
           kept == SumFunction([r \in F |-> history[r].kept])
<1>1. w = [runs |-> Cardinality(A), raw |-> raw, kept |-> kept, saved |-> raw - kept]
  BY DEF Wrote
<1>2. IsFiniteSet(A) /\ IsFiniteSet(F) /\ F \in SUBSET A
  BY TrackerAssumption, FS_Subset
<1>3. Cardinality(A) = Total(Value("runs"), A)
  <2>1. \A r \in A : Value("runs")[r] = 1
    BY DEF Value
  <2> QED
    BY <1>2, <2>1, TotalOnes
<1>4. raw = Total(Value("raw"), A)
  <2> DEFINE g == [r \in F |-> history[r].raw]
  <2>1. SumFunction(g) = Total(g, F)
    BY DEF Total
  <2>2. \A r \in F : g[r] = Value("raw")[r]
    BY DEF Value, RawBytes
  <2> HIDE DEF g
  <2>3. Total(g, F) = Total(Value("raw"), F)
    BY <2>2, TotalAgree
  <2>4. /\ \A r \in A : Value("raw")[r] \in Int
        /\ \A r \in A \ F : Value("raw")[r] = 0
    BY ValueType DEF Value, RawBytes
  <2>5. Total(Value("raw"), A) = Total(Value("raw"), F)
    BY <1>2, <2>4, TotalSupport
  <2> QED
    BY <2>1, <2>3, <2>5 DEF g
<1>5. kept = Total(Value("kept"), A)
  <2> DEFINE g == [r \in F |-> history[r].kept]
  <2>1. SumFunction(g) = Total(g, F)
    BY DEF Total
  <2>2. \A r \in F : g[r] = Value("kept")[r]
    BY DEF Value, FilteredBytes
  <2> HIDE DEF g
  <2>3. Total(g, F) = Total(Value("kept"), F)
    BY <2>2, TotalAgree
  <2>4. /\ \A r \in A : Value("kept")[r] \in Int
        /\ \A r \in A \ F : Value("kept")[r] = 0
    BY ValueType DEF Value, FilteredBytes
  <2>5. Total(Value("kept"), A) = Total(Value("kept"), F)
    BY <1>2, <2>4, TotalSupport
  <2> QED
    BY <2>1, <2>3, <2>5 DEF g
<1>6. raw - kept = Total(Value("saved"), A)
  <2>1. \A r \in A : /\ Value("raw")[r] \in Int /\ Value("kept")[r] \in Int
                     /\ Value("saved")[r] = Value("raw")[r] - Value("kept")[r]
    BY ValueType DEF Value
  <2> QED
    BY <1>2, <1>4, <1>5, <2>1, TotalMinus
<1> HIDE DEF raw, kept
<1>7. w = [f \in Fields |-> Total(Value(f), A)]
  BY <1>1, <1>3, <1>4, <1>5, <1>6 DEF Fields
<1> QED
  BY <1>7

RunSet(R) == {i.run : i \in R}

(* Rows and their runs are one to one. *)
LEMMA RowsAreRuns ==
    ASSUME HistoryInv, NEW R \in SUBSET invs
    PROVE  /\ IsFiniteSet(R) /\ RunSet(R) \in SUBSET Runs
           /\ Cardinality(R) = Cardinality(RunSet(R))
           /\ \A i, j \in R : i.run = j.run => i = j
<1> DEFINE b == [i \in R |-> i.run]
<1>1. \A i \in R : i.run \in Runs
  BY DEF HistoryInv, TypeOK, Invocation
<1>2. \A i, j \in R : i.run = j.run => i = j
  BY DEF HistoryInv
<1>3. RunSet(R) \in SUBSET Runs
  BY <1>1 DEF RunSet
<1>4. IsFiniteSet(RunSet(R))
  BY <1>3, TrackerAssumption, FS_Subset
<1>5. b \in Injection(R, RunSet(R))
  BY <1>2 DEF Injection, IsInjective, RunSet
<1>6. b \in Surjection(R, RunSet(R))
  BY DEF Surjection, RunSet
<1> QED
  BY <1>2, <1>3, <1>4, <1>5, <1>6, FS_Injection

LEMMA SumsAre ==
    ASSUME HistoryInv, history \in Histories, NEW R \in SUBSET invs
    PROVE  Sums(R) = Wrote(RunSet(R))
<1> DEFINE A == RunSet(R)
           s == Sums(R)
           b == [i \in R |-> i.run]
<1>1. /\ IsFiniteSet(R) /\ A \in SUBSET Runs
      /\ Cardinality(R) = Cardinality(A)
      /\ \A i, j \in R : i.run = j.run => i = j
      /\ \A i \in R : i.run \in Runs
  <2>1. \A i \in R : i.run \in Runs
    BY DEF HistoryInv, TypeOK, Invocation
  <2> QED
    BY <2>1, RowsAreRuns
<1>2. IsFiniteSet(A)
  BY <1>1, TrackerAssumption, FS_Subset
<1>3. {b[i] : i \in R} = A
  BY DEF RunSet
<1>4. \A i, j \in R : b[i] = b[j] => i = j
  BY <1>1
<1>5. ASSUME NEW f, NEW g, g = [i \in R |-> g[i]],
             \A i \in R : g[i] = Value(f)[i.run]
      PROVE  SumFunction(g) = Total(Value(f), A)
  <2>1. \A i \in R : Value(f)[b[i]] \in Int
    BY <1>1, ValueType
  <2>2. Total(Value(f), A) = Total([i \in R |-> Value(f)[b[i]]], R)
    <3> HIDE DEF A, b
    <3> QED
      BY <1>1, <1>3, <1>4, <2>1, TotalImage
  <2>3. g = [i \in R |-> Value(f)[b[i]]]
    BY <1>5
  <2>4. SumFunction(g) = Total(g, R)
    BY <1>5, TotalOf
  <2> QED
    BY <2>2, <2>3, <2>4
<1>6. Cardinality(R) = Total(Value("runs"), A)
  <2>1. \A r \in A : Value("runs")[r] = 1
    BY <1>1 DEF Value
  <2> HIDE DEF A
  <2> QED
    BY <1>1, <1>2, <2>1, TotalOnes
<1>7. SumFunction([i \in R |-> RawBytes(Of(i))]) = Total(Value("raw"), A)
  <2> DEFINE g == [i \in R |-> RawBytes(Of(i))]
  <2>1. g = [i \in R |-> g[i]] /\ \A i \in R : g[i] = Value("raw")[i.run]
    BY <1>1 DEF Value, Of
  <2> HIDE DEF g, A
  <2>2. SumFunction(g) = Total(Value("raw"), A)
    BY <1>5, <2>1
  <2> QED
    BY <2>2 DEF g
<1>8. SumFunction([i \in R |-> FilteredBytes(Of(i))]) = Total(Value("kept"), A)
  <2> DEFINE g == [i \in R |-> FilteredBytes(Of(i))]
  <2>1. g = [i \in R |-> g[i]] /\ \A i \in R : g[i] = Value("kept")[i.run]
    BY <1>1 DEF Value, Of
  <2> HIDE DEF g, A
  <2>2. SumFunction(g) = Total(Value("kept"), A)
    BY <1>5, <2>1
  <2> QED
    BY <2>2 DEF g
<1>9. SumFunction([i \in R |-> RawBytes(Of(i)) - FilteredBytes(Of(i))]) = Total(Value("saved"), A)
  <2> DEFINE g == [i \in R |-> RawBytes(Of(i)) - FilteredBytes(Of(i))]
  <2>1. g = [i \in R |-> g[i]] /\ \A i \in R : g[i] = Value("saved")[i.run]
    BY <1>1 DEF Value, Of
  <2> HIDE DEF g, A
  <2>2. SumFunction(g) = Total(Value("saved"), A)
    BY <1>5, <2>1
  <2> QED
    BY <2>2 DEF g
<1> HIDE DEF A
<1>10. s = [f \in Fields |-> Total(Value(f), A)]
  BY <1>6, <1>7, <1>8, <1>9 DEF Sums, Fields
<1> QED
  BY <1>1, <1>10, WroteIs DEF A

-----------------------------------------------------------------------------
(***************************************************************************)
(* What grouped rows add up to.                                            *)
(***************************************************************************)

(* G has a record for each group of D, told apart by the key k, and w reads off
   each what h adds up to in its group. *)
Grouped(D, k, h, b, w, G) ==
    /\ IsFiniteSet(D)
    /\ \A y \in D : h[y] \in Int
    /\ \A y, z \in D : b[k[y]] = b[k[z]] => k[y] = k[z]
    /\ \A y \in D : w[b[k[y]]] = Total(h, {z \in D : k[z] = k[y]})
    /\ G = {b[k[y]] : y \in D}

(* Then the records add up to the whole. *)
LEMMA TotalGroups ==
    ASSUME NEW D, NEW k, NEW h, NEW b, NEW w, NEW G, Grouped(D, k, h, b, w, G)
    PROVE  Total(w, G) = Total(h, D)
<1> DEFINE Keys == {k[y] : y \in D}
           F == [c \in Keys |-> Total(h, {y \in D : k[y] = c})]
<1>1. IsFiniteSet(Keys) /\ Total(h, D) = Total(F, Keys)
  <2>1. IsFiniteSet(D) /\ \A y \in D : h[y] \in Int
    BY DEF Grouped
  <2> QED
    BY <2>1, TotalParts, SMTT(60)
<1> USE DEF Grouped
<1>2. \A c \in Keys : \E y \in D : c = k[y]
  OBVIOUS
<1>3. ASSUME NEW c \in Keys PROVE F[c] = w[b[c]]
  <2>1. PICK y \in D : c = k[y]
    BY <1>2
  <2>2. F[c] = Total(h, {z \in D : k[z] = k[y]})
    BY <2>1
  <2> QED
    BY <2>1, <2>2
<1>4. \A y \in D : {z \in D : k[z] = k[y]} \in SUBSET D
  OBVIOUS
<1>5. \A c \in Keys : w[b[c]] \in Int
  <2>1. ASSUME NEW y \in D PROVE Total(h, {z \in D : k[z] = k[y]}) \in Int
    <3> DEFINE E == {z \in D : k[z] = k[y]}
    <3>1. E \in SUBSET D /\ \A z \in E : h[z] \in Int
      OBVIOUS
    <3> HIDE DEF E
    <3>2. Total(h, E) \in Int
      BY <3>1, FS_Subset, TotalInt
    <3> QED
      BY <3>2 DEF E
  <2>2. \A y \in D : w[b[k[y]]] \in Int
    BY <2>1
  <2> QED
    BY <1>2, <2>2
<1>6. \A c, d \in Keys : b[c] = b[d] => c = d
  OBVIOUS
<1>7. G = {b[c] : c \in Keys}
  OBVIOUS
<1> HIDE DEF Keys, F
<1>8. Total(w, {b[c] : c \in Keys}) = Total([c \in Keys |-> w[b[c]]], Keys)
  BY <1>1, <1>5, <1>6, TotalImage
<1>9. Total([c \in Keys |-> w[b[c]]], Keys) = Total(F, Keys)
  BY <1>3, TotalAgree
<1> QED
  BY <1>1, <1>7, <1>8, <1>9

-----------------------------------------------------------------------------
(***************************************************************************)
(* Each query says of the rows what the user would say of their runs.      *)
(***************************************************************************)

(* What a filter leaves of the rows is what it leaves of the runs. *)
LEMMA FilteredRows ==
    ASSUME HistoryInv, NEW R \in SUBSET invs
    PROVE  /\ RunSet(NotBypassed(R)) = Unbypassed(RunSet(R))
           /\ NotBypassed(R) \in SUBSET invs
BY DEF RunSet, NotBypassed, Unbypassed, Of

LEMMA TotalsAreTrue ==
    ASSUME HistoryInv, history \in Histories, NEW R \in SUBSET invs
    PROVE  OverallTotals(R) = Wrote(Unbypassed(RunSet(R)))
BY FilteredRows, SumsAre DEF OverallTotals

LEMMA UnmatchedIsTrue ==
    ASSUME HistoryInv, history \in Histories, NEW R \in SUBSET invs
    PROVE  UnmatchedOffenders(R) = TrueUnmatched(Unbypassed(RunSet(R)))
<1> DEFINE S == Unbypassed(RunSet(R))
           U == {r \in S : history[r].rule = {}}
           D == {i \in NotBypassed(R) : Of(i).rule = {}}
           Group(k) == {i \in D : Normalize(Of(i).argv) = k}
           Row(k) == [command |-> k, runs |-> Cardinality(Group(k)), raw |-> Sums(Group(k)).raw]
           Same(r) == {q \in U : SameCommand(q, r)}
           Line(r) == [command |-> Normalize(history[r].argv),
                       runs |-> Wrote(Same(r)).runs, raw |-> Wrote(Same(r)).raw]
<1>1. UnmatchedOffenders(R) = {Row(k) : k \in {Normalize(Of(i).argv) : i \in D}}
  BY DEF UnmatchedOffenders, GroupBy
<1>2. TrueUnmatched(S) = {Line(r) : r \in U}
  BY DEF TrueUnmatched
<1>3. RunSet(D) = U /\ D \in SUBSET invs
  BY DEF RunSet, NotBypassed, Unbypassed, Of
<1>4. ASSUME NEW i \in D PROVE Row(Normalize(Of(i).argv)) = Line(i.run)
  <2> DEFINE k == Normalize(Of(i).argv)
  <2>1. RunSet(Group(k)) = Same(i.run)
    BY <1>3 DEF RunSet, SameCommand, Of
  <2>2. Group(k) \in SUBSET invs
    BY <1>3
  <2>3. k = Normalize(history[i.run].argv)
    BY DEF Of
  <2> HIDE DEF Group, Same, k
  <2>4. /\ Cardinality(Group(k)) = Cardinality(Same(i.run))
        /\ Sums(Group(k)) = Wrote(Same(i.run))
    BY <2>1, <2>2, RowsAreRuns, SumsAre
  <2>5. Wrote(Same(i.run)).runs = Cardinality(Same(i.run))
    BY DEF Wrote
  <2> QED
    BY <2>3, <2>4, <2>5 DEF k
<1> HIDE DEF Row, Line, S, U, D
<1>5. UnmatchedOffenders(R) = {Row(Normalize(Of(i).argv)) : i \in D}
  BY <1>1
<1>6. {Line(r) : r \in U} = {Line(i.run) : i \in D}
  BY <1>3 DEF RunSet
<1> QED
  BY <1>2, <1>4, <1>5, <1>6 DEF S

LEMMA FilteredIsTrue ==
    ASSUME HistoryInv, history \in Histories, NEW R \in SUBSET invs, NEW x
    PROVE  FilteredOffenders(R, report[x].request.rule)
             = TrueFiltered(ByRule(x, Unbypassed(RunSet(R))))
<1> DEFINE rule == report[x].request.rule
           S == ByRule(x, Unbypassed(RunSet(R)))
           U == {q \in S : history[q].rule # {}}
           D == {i \in NotBypassed(OfRule(R, rule)) : Of(i).rule # {}}
           Key(i) == <<Normalize(Of(i).argv), Of(i).rule>>
           Group(k) == {i \in D : Key(i) = k}
           Row(k) == [command |-> k[1], rule |-> k[2],
                      runs |-> Cardinality(Group(k)), kept |-> Sums(Group(k)).kept]
           Same(r) == {q \in S : SameCommand(q, r) /\ history[q].rule = history[r].rule}
           Line(r) == [command |-> Normalize(history[r].argv), rule |-> history[r].rule,
                       runs |-> Wrote(Same(r)).runs, kept |-> Wrote(Same(r)).kept]
<1>1. FilteredOffenders(R, rule) = {Row(k) : k \in {Key(i) : i \in D}}
  BY DEF FilteredOffenders, GroupBy
<1>2. TrueFiltered(S) = {Line(r) : r \in U}
  BY DEF TrueFiltered
<1>3. RunSet(D) = U /\ D \in SUBSET invs
  BY DEF RunSet, NotBypassed, Unbypassed, OfRule, ByRule, Of
<1>4. ASSUME NEW i \in D PROVE Row(Key(i)) = Line(i.run)
  <2> DEFINE k == Key(i)
  <2>1. RunSet(Group(k)) = Same(i.run)
    <3>1. ASSUME NEW j \in D PROVE Key(j) = k <=>
              SameCommand(j.run, i.run) /\ history[j.run].rule = history[i.run].rule
      BY DEF SameCommand, Of
    <3>2. /\ \A q \in S : history[q].rule = history[i.run].rule => q \in U
          /\ \A q \in U : q \in S
      BY DEF Of
    <3> HIDE DEF Key, k, S, U, D
    <3>3. \A q \in U : \E j \in D : q = j.run
      BY <1>3 DEF RunSet
    <3>4. \A j \in D : j.run \in U
      BY <1>3 DEF RunSet
    <3>5. RunSet(Group(k)) \subseteq Same(i.run)
      BY <3>1, <3>2, <3>4 DEF RunSet
    <3>6. Same(i.run) \subseteq RunSet(Group(k))
      BY <3>1, <3>2, <3>3 DEF RunSet
    <3> QED
      BY <3>5, <3>6
  <2>2. Group(k) \in SUBSET invs
    BY <1>3
  <2>3. k[1] = Normalize(history[i.run].argv) /\ k[2] = history[i.run].rule
    BY DEF Of
  <2> HIDE DEF Group, Same, k, Key
  <2>4. /\ Cardinality(Group(k)) = Cardinality(Same(i.run))
        /\ Sums(Group(k)) = Wrote(Same(i.run))
    BY <2>1, <2>2, RowsAreRuns, SumsAre
  <2>5. Wrote(Same(i.run)).runs = Cardinality(Same(i.run))
    BY DEF Wrote
  <2> QED
    BY <2>3, <2>4, <2>5 DEF k
<1> HIDE DEF Key
<1>5. FilteredOffenders(R, rule) = {Row(Key(i)) : i \in D}
  <2> HIDE DEF Row, D, rule
  <2> QED
    BY <1>1
<1> HIDE DEF Row, Line, S, U, D
<1>6. {Line(r) : r \in U} = {Line(i.run) : i \in D}
  BY <1>3 DEF RunSet
<1> QED
  BY <1>2, <1>4, <1>5, <1>6 DEF S

LEMMA BypassIsTrue ==
    ASSUME HistoryInv, history \in Histories, NEW R \in SUBSET invs, NEW x
    PROVE  BypassRate(R, report[x].request.rule) = TrueBypass(ByRule(x, RunSet(R)))
<1> DEFINE rule == report[x].request.rule
           S == ByRule(x, RunSet(R))
           D == {i \in OfRule(R, rule) : Of(i).rule # {}}
           Group(k) == {i \in D : Of(i).rule = k}
           Row(k) == [rule |-> k, total |-> Cardinality(Group(k)),
                      bypassed |-> Cardinality(Group(k) \ NotBypassed(Group(k)))]
           Same(r) == {q \in S : history[q].rule = history[r].rule}
           U == {q \in S : history[q].rule # {} /\ Cardinality(Same(q)) > BypassFloor}
           Line(r) == [rule |-> history[r].rule, total |-> Cardinality(Same(r)),
                       bypassed |-> Cardinality({q \in Same(r) : history[q].bypassed})]
<1>1. BypassRate(R, rule) = {r \in {Row(k) : k \in {Of(i).rule : i \in D}} : r.total > BypassFloor}
  BY DEF BypassRate, GroupBy
<1>2. TrueBypass(S) = {Line(r) : r \in U}
  BY DEF TrueBypass
<1>3. /\ RunSet(D) = {q \in S : history[q].rule # {}} /\ D \in SUBSET invs
      /\ RunSet(D) \subseteq S
  BY DEF RunSet, OfRule, ByRule, Of
<1>4. ASSUME NEW i \in D
      PROVE  /\ Row(Of(i).rule) = Line(i.run)
             /\ Row(Of(i).rule).total = Cardinality(Same(i.run))
  <2> DEFINE k == Of(i).rule
             B == Group(k) \ NotBypassed(Group(k))
  <2>1. RunSet(Group(k)) = Same(i.run)
    <3>1. \A j \in D : Of(j).rule = k <=> history[j.run].rule = history[i.run].rule
      BY DEF Of
    <3>2. \A q \in S : history[q].rule = history[i.run].rule => q \in RunSet(D)
      BY <1>3 DEF Of
    <3> HIDE DEF k, S, D
    <3> QED
      BY <1>3, <3>1, <3>2 DEF RunSet
  <2>2. Group(k) \in SUBSET invs
    BY <1>3
  <2>3. k = history[i.run].rule
    BY DEF Of
  <2> HIDE DEF Group, Same, k
  <2>4. B \in SUBSET invs /\ RunSet(B) = {q \in Same(i.run) : history[q].bypassed}
    BY <2>1, <2>2 DEF RunSet, NotBypassed, Of
  <2> HIDE DEF B
  <2>5. /\ Cardinality(Group(k)) = Cardinality(Same(i.run))
        /\ Cardinality(B) = Cardinality({q \in Same(i.run) : history[q].bypassed})
    BY <2>1, <2>2, <2>4, RowsAreRuns
  <2> QED
    BY <2>3, <2>5 DEF k, B
<1> HIDE DEF Row
<1>5. BypassRate(R, rule)
        = {Row(Of(i).rule) : i \in {j \in D : Row(Of(j).rule).total > BypassFloor}}
  <2> HIDE DEF D, rule
  <2> QED
    BY <1>1
<1>6. U = {i.run : i \in {j \in D : Row(Of(j).rule).total > BypassFloor}}
  <2>1. \A q \in U : q \in RunSet(D) /\ Cardinality(Same(q)) > BypassFloor
    BY <1>3
  <2>2. \A i \in D : i.run \in U <=> Cardinality(Same(i.run)) > BypassFloor
    BY <1>3 DEF RunSet
  <2> HIDE DEF U, D, Same
  <2> QED
    BY <1>4, <2>1, <2>2 DEF RunSet
<1> HIDE DEF Line, S, U
<1>7. \A i \in D : Row(Of(i).rule) = Line(i.run)
  BY <1>4
<1> HIDE DEF D, rule
<1>8. {Line(r) : r \in U}
        = {Row(Of(i).rule) : i \in {j \in D : Row(Of(j).rule).total > BypassFloor}}
  BY <1>6, <1>7
<1> QED
  BY <1>2, <1>5, <1>8 DEF S, rule

(* Two paths of one repository are rolled up into one record. *)
LEMMA SavingsAreTrue ==
    ASSUME KeyedByRepository, HistoryInv, history \in Histories, NEW R \in SUBSET invs
    PROVE  Rollup(ProjectSavings(R)) = TrueSavings(Unbypassed(RunSet(R)))
<1> DEFINE N == NotBypassed(R)
           U == Unbypassed(RunSet(R))
           At(p) == {r \in U : history[r].project = p}
           Entry(p) == [key |-> p, sums |-> Wrote(At(p))]
           savings == ProjectSavings(R)
           G(k) == {s \in savings : CanonicalKey(s.key) = k}
           Rolled(k) == [key |-> k,
                         sums |-> [f \in Fields |-> SumFunction([s \in G(k) |-> s.sums[f]])]]
           Under(k) == {q \in U : Repository[history[q].project] = k}
           Line(r) == [key |-> Repository[history[r].project],
                       sums |-> Wrote(Under(Repository[history[r].project]))]
<1>1. N \in SUBSET invs /\ RunSet(N) = U
  BY FilteredRows
<1>2. U \in SUBSET Runs
  BY <1>1, RowsAreRuns
<1>3. savings = {Entry(history[r].project) : r \in U}
  <2> DEFINE Group(p) == {i \in N : Of(i).project = p}
             Row(p) == [key |-> p, sums |-> Sums(Group(p))]
  <2>1. savings = {Row(p) : p \in {Of(i).project : i \in N}}
    BY DEF ProjectSavings, GroupBy
  <2>2. ASSUME NEW i \in N PROVE Row(Of(i).project) = Entry(history[i.run].project)
    <3> DEFINE p == Of(i).project
    <3>1. Group(p) \in SUBSET invs
      BY <1>1
    <3>2. RunSet(Group(p)) = At(p)
      BY <1>1 DEF RunSet, Of
    <3>3. p = history[i.run].project
      BY DEF Of
    <3> HIDE DEF Group, At, p
    <3>4. Sums(Group(p)) = Wrote(At(p))
      BY <3>1, <3>2, SumsAre
    <3> QED
      BY <3>3, <3>4 DEF p
  <2> HIDE DEF Row, Entry, N, U, savings
  <2>3. savings = {Row(Of(i).project) : i \in N}
    BY <2>1
  <2>4. {Entry(history[r].project) : r \in U} = {Entry(history[i.run].project) : i \in N}
    BY <1>1 DEF RunSet
  <2> QED
    BY <2>2, <2>3, <2>4
<1>4. Rollup(savings) = {Rolled(k) : k \in {CanonicalKey(s.key) : s \in savings}}
  BY DEF Rollup, GroupBy, Fields
<1>5. \A r \in U : CanonicalKey(history[r].project) = Repository[history[r].project]
  BY <1>2, StatsAssumption DEF KeyedByRepository, IsCommand
<1> HIDE DEF savings, U
<1>6. ASSUME NEW k, NEW f \in Fields
      PROVE  SumFunction([s \in G(k) |-> s.sums[f]]) = Wrote(Under(k))[f]
  <2> DEFINE D == Under(k)
             w == [s \in G(k) |-> s.sums[f]]
             kk == [q \in D |-> history[q].project]
             b == [p \in {kk[q] : q \in D} |-> Entry(p)]
             h == Value(f)
  <2>1. D \in SUBSET Runs /\ IsFiniteSet(D)
    BY <1>2, TrackerAssumption, FS_Subset
  <2>2. \A y \in D : h[y] \in Int
    BY <2>1, ValueType
  <2>3. \A y \in D : b[kk[y]] = Entry(kk[y])
    OBVIOUS
  <2>4. \A y, z \in D : b[kk[y]] = b[kk[z]] => kk[y] = kk[z]
    BY <2>3
  <2>5. G(k) = {b[kk[y]] : y \in D}
    <3>1. \A r \in U : Entry(history[r].project).key = history[r].project
      OBVIOUS
    <3>2. {b[kk[y]] : y \in D} = {Entry(history[y].project) : y \in D}
      OBVIOUS
    <3> HIDE DEF Entry
    <3>3. G(k) = {Entry(history[y].project) : y \in D}
      BY <1>3, <1>5, <3>1
    <3> QED
      BY <3>2, <3>3
  <2>6. ASSUME NEW y \in D PROVE w[b[kk[y]]] = Total(h, {z \in D : kk[z] = kk[y]})
    <3>1. At(kk[y]) \in SUBSET Runs
      BY <1>2
    <3>2. At(kk[y]) = {z \in D : kk[z] = kk[y]}
      OBVIOUS
    <3>3. w[b[kk[y]]] = Entry(kk[y]).sums[f]
      BY <2>3, <2>5
    <3>4. Entry(kk[y]).sums = Wrote(At(kk[y]))
      OBVIOUS
    <3> HIDE DEF At, Entry, kk, w, b, D
    <3>5. Wrote(At(kk[y]))[f] = Total(h, At(kk[y]))
      BY <3>1, WroteIs
    <3> QED
      BY <3>2, <3>3, <3>4, <3>5
  <2>7. SumFunction(w) = Total(w, G(k))
    BY DEF Total
  <2>8. Wrote(D)[f] = Total(h, D)
    <3> HIDE DEF D
    <3> QED
      BY <2>1, WroteIs
  <2> HIDE DEF D, w, kk, b, h, G
  <2>9. Grouped(D, kk, h, b, w, G(k))
    BY <2>1, <2>2, <2>4, <2>5, <2>6 DEF Grouped
  <2> QED
    BY <2>7, <2>8, <2>9, TotalGroups DEF D, w
<1>7. ASSUME NEW r \in U PROVE Rolled(Repository[history[r].project]) = Line(r)
  <2> DEFINE k == Repository[history[r].project]
  <2>1. Under(k) \in SUBSET Runs
    BY <1>2
  <2> HIDE DEF Under, G, k
  <2>2. Wrote(Under(k)) = [f \in Fields |-> Wrote(Under(k))[f]]
    BY <2>1, WroteIs
  <2>3. [f \in Fields |-> SumFunction([s \in G(k) |-> s.sums[f]])] = Wrote(Under(k))
    BY <1>6, <2>2
  <2> QED
    BY <2>3 DEF k
<1>8. TrueSavings(U) = {Line(r) : r \in U}
  BY DEF TrueSavings
<1> HIDE DEF Rolled, Line
<1>9. \A r \in U : Entry(history[r].project).key = history[r].project
  OBVIOUS
<1> HIDE DEF Entry
<1>10. Rollup(savings) = {Rolled(Repository[history[r].project]) : r \in U}
  BY <1>3, <1>4, <1>5, <1>9
<1> QED
  BY <1>7, <1>8, <1>10 DEF savings, U

-----------------------------------------------------------------------------
(***************************************************************************)
(* What the rows of a section add up to.                                   *)
(***************************************************************************)

LEMMA SavingsTotal ==
    ASSUME history \in Histories, NEW U \in SUBSET Runs, NEW f \in Fields
    PROVE  SumFunction([s \in TrueSavings(U) |-> s.sums[f]]) = Wrote(U)[f]
<1> DEFINE k == [q \in U |-> Repository[history[q].project]]
           Under(c) == {q \in U : Repository[history[q].project] = c}
           Entry(c) == [key |-> c, sums |-> Wrote(Under(c))]
           G == TrueSavings(U)
           b == [c \in {k[q] : q \in U} |-> Entry(c)]
           w == [s \in G |-> s.sums[f]]
           h == Value(f)
<1>1. IsFiniteSet(U) /\ \A y \in U : h[y] \in Int
  BY TrackerAssumption, FS_Subset, ValueType
<1>2. \A y \in U : b[k[y]] = Entry(k[y])
  OBVIOUS
<1>3. \A y, z \in U : b[k[y]] = b[k[z]] => k[y] = k[z]
  BY <1>2
<1>4. G = {b[k[y]] : y \in U}
  <2>1. G = {Entry(Repository[history[r].project]) : r \in U}
    BY DEF TrueSavings
  <2>2. \A r \in U : b[k[r]] = Entry(Repository[history[r].project])
    BY <1>2
  <2> HIDE DEF Entry, G, b, k
  <2> QED
    BY <2>1, <2>2
<1>5. ASSUME NEW y \in U PROVE w[b[k[y]]] = Total(h, {z \in U : k[z] = k[y]})
  <2>1. {z \in U : k[z] = k[y]} = Under(k[y]) /\ Under(k[y]) \in SUBSET Runs
    OBVIOUS
  <2>2. w[b[k[y]]] = Entry(k[y]).sums[f]
    BY <1>2, <1>4
  <2>3. Entry(k[y]).sums = Wrote(Under(k[y]))
    OBVIOUS
  <2> HIDE DEF Under, Entry, k, w, b, G
  <2>4. Wrote(Under(k[y]))[f] = Total(h, Under(k[y]))
    BY <2>1, WroteIs
  <2> QED
    BY <2>1, <2>2, <2>3, <2>4
<1>6. SumFunction(w) = Total(w, G)
  BY DEF Total
<1>7. Wrote(U)[f] = Total(h, U)
  BY WroteIs
<1> HIDE DEF w, k, b, h, G
<1>8. Grouped(U, k, h, b, w, G)
  BY <1>1, <1>3, <1>4, <1>5 DEF Grouped
<1> QED
  BY <1>6, <1>7, <1>8, TotalGroups DEF w, G

LEMMA UnmatchedTotal ==
    ASSUME history \in Histories, NEW S \in SUBSET Runs
    PROVE  RunsOf(TrueUnmatched(S)) = Cardinality({r \in S : history[r].rule = {}})
<1> DEFINE U == {r \in S : history[r].rule = {}}
           k == [q \in U |-> Normalize(history[q].argv)]
           Same(c) == {q \in U : Normalize(history[q].argv) = c}
           Entry(c) == [command |-> c, runs |-> Wrote(Same(c)).runs, raw |-> Wrote(Same(c)).raw]
           G == TrueUnmatched(S)
           b == [c \in {k[q] : q \in U} |-> Entry(c)]
           w == [s \in G |-> s.runs]
           h == [y \in U |-> 1]
<1>1. IsFiniteSet(U) /\ \A y \in U : h[y] \in Int
  BY TrackerAssumption, FS_Subset
<1>2. \A y \in U : b[k[y]] = Entry(k[y])
  OBVIOUS
<1>3. \A y, z \in U : b[k[y]] = b[k[z]] => k[y] = k[z]
  BY <1>2
<1>4. G = {b[k[y]] : y \in U}
  <2>1. G = {Entry(Normalize(history[r].argv)) : r \in U}
    BY DEF TrueUnmatched, SameCommand
  <2>2. \A r \in U : b[k[r]] = Entry(Normalize(history[r].argv))
    BY <1>2
  <2> HIDE DEF Entry, G, b, k, U
  <2> QED
    BY <2>1, <2>2
<1>5. ASSUME NEW y \in U PROVE w[b[k[y]]] = Total(h, {z \in U : k[z] = k[y]})
  <2>1. {z \in U : k[z] = k[y]} = Same(k[y])
    OBVIOUS
  <2>2. w[b[k[y]]] = Entry(k[y]).runs
    BY <1>2, <1>4
  <2>3. Entry(k[y]).runs = Wrote(Same(k[y])).runs
    OBVIOUS
  <2>4. IsFiniteSet(Same(k[y])) /\ \A q \in Same(k[y]) : h[q] = 1
    BY <1>1, FS_Subset
  <2> HIDE DEF Same, Entry, k, w, b, G, h, U
  <2>5. Wrote(Same(k[y])).runs = Cardinality(Same(k[y]))
    BY DEF Wrote
  <2>6. Total(h, Same(k[y])) = Cardinality(Same(k[y]))
    BY <2>4, TotalOnes
  <2> QED
    BY <2>1, <2>2, <2>3, <2>5, <2>6
<1>6. RunsOf(G) = Total(w, G)
  BY DEF Total, RunsOf
<1>7. \A y \in U : h[y] = 1
  OBVIOUS
<1> HIDE DEF w, k, b, h, G, U
<1>8. Total(h, U) = Cardinality(U)
  BY <1>1, <1>7, TotalOnes
<1>9. Grouped(U, k, h, b, w, G)
  BY <1>1, <1>3, <1>4, <1>5 DEF Grouped
<1> QED
  BY <1>6, <1>8, <1>9, TotalGroups DEF U, G

LEMMA FilteredTotal ==
    ASSUME history \in Histories, NEW S \in SUBSET Runs
    PROVE  RunsOf(TrueFiltered(S)) = Cardinality({r \in S : history[r].rule # {}})
<1> DEFINE U == {r \in S : history[r].rule # {}}
           Key(r) == <<Normalize(history[r].argv), history[r].rule>>
           k == [q \in U |-> Key(q)]
           Same(r) == {q \in S : SameCommand(q, r) /\ history[q].rule = history[r].rule}
           Class(c) == {q \in S : Key(q) = c}
           Entry(c) == [command |-> c[1], rule |-> c[2],
                        runs |-> Wrote(Class(c)).runs, kept |-> Wrote(Class(c)).kept]
           G == TrueFiltered(S)
           b == [c \in {k[q] : q \in U} |-> Entry(c)]
           w == [s \in G |-> s.runs]
           h == [y \in U |-> 1]
<1>1. IsFiniteSet(U) /\ \A y \in U : h[y] \in Int
  BY TrackerAssumption, FS_Subset
<1>2. \A y \in U : b[k[y]] = Entry(k[y])
  OBVIOUS
<1>3. ASSUME NEW y \in U, NEW z \in U, b[k[y]] = b[k[z]] PROVE k[y] = k[z]
  <2>1. Entry(k[y]).command = k[y][1] /\ Entry(k[y]).rule = k[y][2]
    OBVIOUS
  <2>2. Entry(k[z]).command = k[z][1] /\ Entry(k[z]).rule = k[z][2]
    OBVIOUS
  <2>3. k[y] = <<k[y][1], k[y][2]>> /\ k[z] = <<k[z][1], k[z][2]>>
    OBVIOUS
  <2> HIDE DEF Entry, b, k
  <2> QED
    BY <1>2, <1>3, <2>1, <2>2, <2>3
<1>4. G = {b[k[y]] : y \in U}
  <2> DEFINE Line(r) == [command |-> Normalize(history[r].argv), rule |-> history[r].rule,
                         runs |-> Wrote(Same(r)).runs, kept |-> Wrote(Same(r)).kept]
  <2>1. G = {Line(r) : r \in U}
    BY DEF TrueFiltered
  <2>2. ASSUME NEW r \in U PROVE b[k[r]] = Line(r)
    <3>1. Class(Key(r)) = Same(r)
      BY DEF SameCommand
    <3>2. Key(r)[1] = Normalize(history[r].argv) /\ Key(r)[2] = history[r].rule /\ k[r] = Key(r)
      OBVIOUS
    <3> HIDE DEF Class, Same, Key, k, b
    <3> QED
      BY <1>2, <3>1, <3>2
  <2> HIDE DEF Line, G, b, k, U
  <2> QED
    BY <2>1, <2>2
<1>5. ASSUME NEW y \in U PROVE w[b[k[y]]] = Total(h, {z \in U : k[z] = k[y]})
  <2>1. {z \in U : k[z] = k[y]} = Class(k[y]) /\ Class(k[y]) \subseteq U
    OBVIOUS
  <2>2. w[b[k[y]]] = Entry(k[y]).runs
    BY <1>2, <1>4
  <2>3. Entry(k[y]).runs = Wrote(Class(k[y])).runs
    OBVIOUS
  <2>4. IsFiniteSet(Class(k[y])) /\ \A q \in Class(k[y]) : h[q] = 1
    BY <1>1, <2>1, FS_Subset
  <2> HIDE DEF Class, Entry, k, w, b, G, h, U
  <2>5. Wrote(Class(k[y])).runs = Cardinality(Class(k[y]))
    BY DEF Wrote
  <2>6. Total(h, Class(k[y])) = Cardinality(Class(k[y]))
    BY <2>4, TotalOnes
  <2> QED
    BY <2>1, <2>2, <2>3, <2>5, <2>6
<1>6. RunsOf(G) = Total(w, G)
  BY DEF Total, RunsOf
<1>7. \A y \in U : h[y] = 1
  OBVIOUS
<1> HIDE DEF w, k, b, h, G, U
<1>8. Total(h, U) = Cardinality(U)
  BY <1>1, <1>7, TotalOnes
<1>9. Grouped(U, k, h, b, w, G)
  BY <1>1, <1>3, <1>4, <1>5 DEF Grouped
<1> QED
  BY <1>6, <1>8, <1>9, TotalGroups DEF U, G

-----------------------------------------------------------------------------
(***************************************************************************)
(* The invariant behind the sections of a report.                          *)
(***************************************************************************)

Sections == {"savings", "totals", "unmatched", "filtered", "bypass"}

(* The order the sections are read in, by the label of the reader. *)
Turn == [l \in Sections \cup {"reported"} |->
            IF l = "savings" THEN 1 ELSE IF l = "totals" THEN 2
            ELSE IF l = "unmatched" THEN 3 ELSE IF l = "filtered" THEN 4
            ELSE IF l = "bypass" THEN 5 ELSE 6]

OfKind(rule, S) == {r \in S : \A k \in rule : history[r].rule = {k}}

(* What a user would write into each section for a --rule and for each set of runs. *)
Truths ==
    [s \in Sections |-> [rule \in {q.rule : q \in Requests} |-> [S \in SUBSET Runs |->
        IF s = "savings" THEN TrueSavings(Unbypassed(S))
        ELSE IF s = "totals" THEN Wrote(Unbypassed(S))
        ELSE IF s = "unmatched" THEN TrueUnmatched(Unbypassed(S))
        ELSE IF s = "filtered" THEN TrueFiltered(OfKind(rule, Unbypassed(S)))
        ELSE TrueBypass(OfKind(rule, S))]]]

LEMMA TruthsStay == ASSUME history' = history PROVE Truths' = Truths
BY DEF Truths, OfKind, Unbypassed, TrueSavings, TrueUnmatched, TrueFiltered, TrueBypass,
       SameCommand, Wrote, Counted

(* A report that has finished is about the time it did. *)
AsOf(x) == IF reader[x] = "reported" THEN shownAt[x] ELSE clock
Fresh(x, r) == AsOf(x) <= now[r] + LeastInv

Asked(x) ==
    /\ report[x].request \in Requests
    /\ \/ report[x].request.since = {} /\ report[x].cutoff = {}
       \/ report[x].request.since # {} /\ \E c \in Int : report[x].cutoff = {c}
    /\ report[x].before \subseteq Done

IsRead(x, s) == Turn[s] < Turn[reader[x]]

(* S has for each section the runs it was made from: all of them in the request's
   scope, all those among them that were recorded when the report began and are
   inside their window, and every run inside its window that an earlier section has. *)
ReportOK(x) ==
    /\ Asked(x)
    /\ \E S \in [Sections -> SUBSET Runs] :
          /\ \A s \in Sections : IsRead(x, s) =>
                /\ S[s] \subseteq InScope(x)
                /\ \A r \in InScope(x) : r \in report[x].before /\ Fresh(x, r) => r \in S[s]
                /\ report[x][s] = Truths[s][report[x].request.rule][S[s]]
          /\ \A s, t \in Sections : Turn[s] < Turn[t] /\ IsRead(x, t) =>
                \A r \in S[s] : Fresh(x, r) => r \in S[t]

ReportInv ==
    \A x \in Readers : reader[x] \in Sections \cup {"reported"} => ReportOK(x)

(* The run of every row in the scope, and every run that is in it and in its window. *)
LEMMA RowsInScope ==
    ASSUME HistoryInv, NEW x, Asked(x)
    PROVE  /\ Rows(x) \in SUBSET invs
           /\ RunSet(Rows(x)) \subseteq InScope(x)
           /\ \A r \in InScope(x) : clock <= now[r] + LeastInv => r \in RunSet(Rows(x))
<1>1. report[x].request.since # {} =>
          /\ report[x].cutoff = {Max(report[x].cutoff)}
  <2> SUFFICES ASSUME report[x].request.since # {} PROVE report[x].cutoff = {Max(report[x].cutoff)}
    OBVIOUS
  <2>1. PICK c \in Int : report[x].cutoff = {c}
    BY DEF Asked
  <2>2. \A y \in {c} : c >= y
    OBVIOUS
  <2>3. Max({c}) = c
    BY <2>2 DEF Max
  <2> QED
    BY <2>1, <2>3
<1>2. report[x].request.since = {} => report[x].cutoff = {}
  BY DEF Asked
<1>3. ASSUME NEW i \in invs
      PROVE  i \in Rows(x) <=> i.run \in InScope(x)
  <2>1. i.ts = now[i.run] /\ i.run \in Done
    BY DEF HistoryInv, TypeOK, Invocation, Done
  <2>2. (\A t \in report[x].cutoff : i.ts >= t)
           <=> (report[x].request.since # {} => now[i.run] >= Max(report[x].cutoff))
    BY <1>1, <1>2, <2>1
  <2> QED
    BY <2>1, <2>2 DEF Rows, InScope, Of
<1>4. \A r \in InScope(x) : clock <= now[r] + LeastInv => \E i \in invs : i.run = r
  BY DEF HistoryInv, InScope, Done
<1> QED
  BY <1>3, <1>4 DEF RunSet, Rows

(* A run in the scope of a report stays in it. *)
LEMMA ScopeGrows ==
    ASSUME TypeOK, [Next]_vars, history' = history, NEW x, report'[x] = report[x]
    PROVE  /\ InScope(x) \subseteq InScope(x)'
           /\ Done \subseteq Done'
           /\ \A r \in Done : now'[r] = now[r] /\ (r \in InScope(x)' => r \in InScope(x))
           /\ \A r \in InScope(x) : now'[r] = now[r]
           /\ clock <= clock' /\ clock \in Nat /\ clock' \in Nat
<1>1. /\ clock <= clock' /\ clock' \in Nat
      /\ \A r \in Runs : pc[r] = "done" => pc'[r] = "done" /\ now'[r] = now[r]
  BY DoneStays
<1> QED
  BY <1>1 DEF InScope, Done, TypeOK

LEMMA ReportStays ==
    ASSUME TypeOK, [Next]_vars, history' = history, NEW x \in Readers, ReportOK(x),
           reader[x] \in Sections \cup {"reported"},
           report'[x] = report[x], reader'[x] = reader[x], shownAt'[x] = shownAt[x]
    PROVE  ReportOK(x)'
<1>1. PICK S \in [Sections -> SUBSET Runs] :
          /\ \A s \in Sections : IsRead(x, s) =>
                /\ S[s] \subseteq InScope(x)
                /\ \A r \in InScope(x) : r \in report[x].before /\ Fresh(x, r) => r \in S[s]
                /\ report[x][s] = Truths[s][report[x].request.rule][S[s]]
          /\ \A s, t \in Sections : Turn[s] < Turn[t] /\ IsRead(x, t) =>
                \A r \in S[s] : Fresh(x, r) => r \in S[t]
  BY DEF ReportOK
<1>2. /\ InScope(x) \subseteq InScope(x)'
      /\ Done \subseteq Done'
      /\ \A r \in Done : now'[r] = now[r] /\ (r \in InScope(x)' => r \in InScope(x))
      /\ \A r \in InScope(x) : now'[r] = now[r]
      /\ clock <= clock' /\ clock \in Nat /\ clock' \in Nat
  BY ScopeGrows
<1>3. Asked(x)'
  <2>1. Asked(x)
    BY DEF ReportOK
  <2> QED
    BY <1>2, <2>1 DEF Asked
<1>4. \A s : IsRead(x, s)' <=> IsRead(x, s)
  BY DEF IsRead
<1>5. ASSUME NEW r \in InScope(x), Fresh(x, r)' PROVE Fresh(x, r)
  <2>1. now'[r] = now[r] /\ now[r] + LeastInv \in Nat
    BY <1>2, WindowsNat DEF InScope, Done, TypeOK
  <2> QED
    BY <1>2, <1>5, <2>1 DEF Fresh, AsOf
<1>6. report[x].before \subseteq Done
  BY DEF ReportOK, Asked
<1>7. Truths' = Truths
  BY TruthsStay
<1>8. ASSUME NEW s \in Sections, IsRead(x, s)
      PROVE  /\ S[s] \subseteq InScope(x)'
             /\ \A r \in InScope(x)' : r \in report'[x].before /\ Fresh(x, r)' => r \in S[s]
             /\ report'[x][s] = Truths'[s][report'[x].request.rule][S[s]]
  <2>1. S[s] \subseteq InScope(x)'
    BY <1>1, <1>2, <1>8
  <2>2. \A r \in InScope(x)' : r \in report'[x].before /\ Fresh(x, r)' => r \in S[s]
    BY <1>1, <1>2, <1>5, <1>6, <1>8
  <2>3. report'[x][s] = Truths'[s][report'[x].request.rule][S[s]]
    BY <1>1, <1>7, <1>8
  <2> QED
    BY <2>1, <2>2, <2>3
<1>9. ASSUME NEW s \in Sections, NEW t \in Sections, Turn[s] < Turn[t], IsRead(x, t),
             NEW r \in S[s], Fresh(x, r)'
      PROVE  r \in S[t]
  <2>1. IsRead(x, s)
    BY <1>9 DEF IsRead, Turn, Sections
  <2>2. r \in InScope(x)
    BY <1>1, <1>9, <2>1
  <2> QED
    BY <1>1, <1>5, <1>9, <2>2
<1> QED
  BY <1>3, <1>4, <1>8, <1>9 DEF ReportOK

ReportFields == DOMAIN NoReport

ShapeInv ==
    /\ history \in Histories
    /\ DOMAIN report = Readers
    /\ \A x \in Readers : DOMAIN report[x] = ReportFields
    /\ DOMAIN reader = Readers /\ DOMAIN shownAt = Readers

LEMMA ByRuleIs == \A x, S : ByRule(x, S) = OfKind(report[x].request.rule, S)
BY DEF ByRule, OfKind

(* What each query finds. *)
LEMMA AnswersAreTrue ==
    ASSUME KeyedByRepository, HistoryInv, history \in Histories, NEW x, Asked(x)
    PROVE  LET rows == Rows(x)
               rule == report[x].request.rule
               True(s) == Truths[s][rule][RunSet(rows)]
           IN  /\ Rollup(ProjectSavings(rows)) = True("savings")
               /\ OverallTotals(rows) = True("totals")
               /\ UnmatchedOffenders(rows) = True("unmatched")
               /\ FilteredOffenders(rows, rule) = True("filtered")
               /\ BypassRate(rows, rule) = True("bypass")
<1> DEFINE rows == Rows(x)
           rule == report[x].request.rule
           A == RunSet(rows)
<1>1. rows \in SUBSET invs
  BY RowsInScope
<1>2. A \in SUBSET Runs
  BY <1>1, RowsAreRuns
<1>3. rule \in {q.rule : q \in Requests}
  BY DEF Asked
<1> HIDE DEF A, rule, rows
<1>4. /\ Truths["savings"][rule][A] = TrueSavings(Unbypassed(A))
      /\ Truths["totals"][rule][A] = Wrote(Unbypassed(A))
      /\ Truths["unmatched"][rule][A] = TrueUnmatched(Unbypassed(A))
      /\ Truths["filtered"][rule][A] = TrueFiltered(OfKind(rule, Unbypassed(A)))
      /\ Truths["bypass"][rule][A] = TrueBypass(OfKind(rule, A))
  BY <1>2, <1>3 DEF Truths, Sections
<1>5. /\ Rollup(ProjectSavings(rows)) = TrueSavings(Unbypassed(A))
      /\ OverallTotals(rows) = Wrote(Unbypassed(A))
      /\ UnmatchedOffenders(rows) = TrueUnmatched(Unbypassed(A))
  BY <1>1, SavingsAreTrue, TotalsAreTrue, UnmatchedIsTrue DEF A
<1>6. /\ FilteredOffenders(rows, rule) = TrueFiltered(OfKind(rule, Unbypassed(A)))
      /\ BypassRate(rows, rule) = TrueBypass(OfKind(rule, A))
  BY <1>1, FilteredIsTrue, BypassIsTrue, ByRuleIs DEF A, rule
<1> QED
  BY <1>4, <1>5, <1>6 DEF A, rows, rule

(* A section more. *)
LEMMA ReportGrows ==
    ASSUME HistoryInv, ShapeInv, NEW x \in Readers, ReportOK(x),
           NEW s \in Sections, NEW next \in Sections \cup {"reported"},
           Turn[next] = Turn[s] + 1,
           NEW answer, answer = Truths[s][report[x].request.rule][RunSet(Rows(x))],
           Query(x, s, answer, next),
           next = "reported" => shownAt'[x] = clock
    PROVE  ReportOK(x)'
<1> DEFINE A == RunSet(Rows(x))
<1>1. PICK S \in [Sections -> SUBSET Runs] :
          /\ \A t \in Sections : IsRead(x, t) =>
                /\ S[t] \subseteq InScope(x)
                /\ \A r \in InScope(x) : r \in report[x].before /\ Fresh(x, r) => r \in S[t]
                /\ report[x][t] = Truths[t][report[x].request.rule][S[t]]
          /\ \A t, u \in Sections : Turn[t] < Turn[u] /\ IsRead(x, u) =>
                \A r \in S[t] : Fresh(x, r) => r \in S[u]
  BY DEF ReportOK
<1>2. /\ reader[x] = s /\ reader'[x] = next
      /\ history' = history /\ UNCHANGED vars
  BY DEF Query, ShapeInv
<1>3. /\ report'[x] = [report[x] EXCEPT ![s] = answer]
      /\ s \in DOMAIN report[x]
  BY DEF Query, ShapeInv, ReportFields, NoReport, Sections
<1>4. /\ report'[x].request = report[x].request
      /\ report'[x].cutoff = report[x].cutoff
      /\ report'[x].before = report[x].before
      /\ report'[x][s] = answer
      /\ \A t \in Sections : t # s => report'[x][t] = report[x][t]
  <2>1. DOMAIN report[x] = ReportFields
    BY DEF ShapeInv
  <2>2. /\ "request" \in ReportFields /\ "cutoff" \in ReportFields /\ "before" \in ReportFields
        /\ Sections \subseteq ReportFields
    BY DEF ReportFields, NoReport, Sections
  <2>3. s # "request" /\ s # "cutoff" /\ s # "before"
    BY DEF Sections
  <2>4. \A f \in ReportFields : f # s => report'[x][f] = report[x][f]
    BY <1>3, <2>1
  <2>5. report'[x][s] = answer
    BY <1>3
  <2> QED
    BY <2>2, <2>3, <2>4, <2>5
<1>5. InScope(x)' = InScope(x)
  BY <1>2, <1>4 DEF InScope, Done, vars
<1>6. Asked(x) /\ Asked(x)'
  BY <1>2, <1>4 DEF ReportOK, Asked, Done, vars
<1>7. Truths' = Truths
  BY <1>2, TruthsStay
<1>8. /\ A \subseteq InScope(x) /\ A \in SUBSET Runs
      /\ \A r \in InScope(x) : clock <= now[r] + LeastInv => r \in A
  BY <1>6, RowsInScope, RowsAreRuns
<1>9. \A r : (Fresh(x, r) <=> clock <= now[r] + LeastInv)
             /\ (Fresh(x, r)' <=> clock <= now[r] + LeastInv)
  <2>1. AsOf(x) = clock /\ AsOf(x)' = clock
    BY <1>2 DEF AsOf, Sections, vars
  <2> QED
    BY <1>2, <2>1 DEF Fresh, vars
<1>10. \A t \in Sections : IsRead(x, t)' <=> IsRead(x, t) \/ t = s
  BY <1>2 DEF IsRead, Turn, Sections
<1>11. \A t \in Sections : IsRead(x, t) => Turn[t] < Turn[s] /\ t # s
  BY <1>2 DEF IsRead, Turn, Sections
<1> HIDE DEF A
<1> DEFINE Z == [S EXCEPT ![s] = A]
<1>12. /\ Z \in [Sections -> SUBSET Runs]
       /\ Z[s] = A /\ \A t \in Sections : t # s => Z[t] = S[t]
  BY <1>8
<1> HIDE DEF Z
<1>13. ASSUME NEW t \in Sections, IsRead(x, t)'
       PROVE  /\ Z[t] \subseteq InScope(x)'
              /\ \A r \in InScope(x)' : r \in report'[x].before /\ Fresh(x, r)' => r \in Z[t]
              /\ report'[x][t] = Truths'[t][report'[x].request.rule][Z[t]]
  <2>1. CASE t = s
    BY <1>4, <1>5, <1>7, <1>8, <1>9, <1>12, <2>1 DEF A
  <2>2. CASE t # s
    <3>1. IsRead(x, t) /\ Z[t] = S[t] /\ report'[x][t] = report[x][t]
      BY <1>4, <1>10, <1>12, <1>13, <2>2
    <3> QED
      BY <1>1, <1>4, <1>5, <1>7, <1>9, <3>1
  <2> QED
    BY <2>1, <2>2
<1>14. ASSUME NEW t \in Sections, NEW u \in Sections, Turn[t] < Turn[u], IsRead(x, u)',
              NEW r \in Z[t], Fresh(x, r)'
       PROVE  r \in Z[u]
  <2>1. Fresh(x, r)
    BY <1>9, <1>14
  <2>2. CASE u = s
    <3>1. IsRead(x, t) /\ t # s
      BY <1>2, <1>14, <2>2 DEF IsRead, Turn, Sections
    <3>2. r \in InScope(x)
      BY <1>1, <1>12, <1>14, <3>1
    <3> QED
      BY <1>8, <1>9, <1>12, <2>1, <2>2, <3>2
  <2>3. CASE u # s
    <3>1. IsRead(x, u)
      BY <1>10, <1>14, <2>3
    <3>2. t # s
      BY <1>11, <1>14, <3>1 DEF Turn, Sections
    <3> QED
      BY <1>1, <1>12, <1>14, <2>1, <2>3, <3>1, <3>2
  <2> QED
    BY <2>2, <2>3
<1> QED
  BY <1>6, <1>12, <1>13, <1>14 DEF ReportOK

-----------------------------------------------------------------------------
(***************************************************************************)
(* Types.                                                                  *)
(***************************************************************************)

LEMMA WroteTyped ==
    ASSUME history \in Histories, NEW A \in SUBSET Runs
    PROVE  Wrote(A) \in Measure
<1>1. IsFiniteSet(A)
  BY TrackerAssumption, FS_Subset
<1>2. \A f \in Fields : Total(Value(f), A) \in Int
  BY <1>1, ValueType, TotalInt
<1>3. \A f \in {"runs", "raw", "kept"} : Total(Value(f), A) \in Nat
  BY <1>1, ValueType, TotalNat
<1> DEFINE w == Wrote(A)
<1>5. w = [f \in Fields |-> Total(Value(f), A)]
  BY WroteIs
<1> HIDE DEF w
<1>6. w = [runs |-> w.runs, raw |-> w.raw, kept |-> w.kept, saved |-> w.saved]
  BY <1>5 DEF Fields
<1>7. w.runs \in Nat /\ w.raw \in Nat /\ w.kept \in Nat /\ w.saved \in Int
  BY <1>2, <1>3, <1>5 DEF Fields
<1>8. w \in Measure
  BY <1>6, <1>7 DEF Measure
<1> QED
  BY <1>8 DEF w

LEMMA SumsTyped ==
    ASSUME HistoryInv, history \in Histories, NEW R \in SUBSET invs
    PROVE  Sums(R) \in Measure
BY SumsAre, RowsAreRuns, WroteTyped

(* Adding up any rows of project_savings. *)
LEMMA RollupTyped ==
    ASSUME HistoryInv, history \in Histories, NEW R \in SUBSET invs
    PROVE  \A s \in Rollup(ProjectSavings(R)) : s.sums \in Measure
<1> DEFINE savings == ProjectSavings(R)
           D == NotBypassed(R)
           Part(c) == {i \in D : Of(i).project = c}
           Entry(c) == [key |-> c, sums |-> Sums(Part(c))]
           Keys == {Of(i).project : i \in D}
           G(k) == {s \in savings : CanonicalKey(s.key) = k}
           Adds(g) == [f \in {"runs", "raw", "kept", "saved"} |->
                          SumFunction([s \in g |-> s.sums[f]])]
<1>1. savings = {Entry(c) : c \in Keys}
  BY DEF ProjectSavings, GroupBy
<1>2. D \in SUBSET invs /\ IsFiniteSet(D)
  BY RowsAreRuns DEF NotBypassed
<1>3. \A c : Sums(Part(c)) \in Measure
  BY <1>2, SumsTyped
<1>4. IsFiniteSet(savings)
  <2> DEFINE b == [i \in D |-> Entry(Of(i).project)]
             z == [i \in D |-> 0]
  <2>1. savings = {b[i] : i \in D}
    BY <1>1
  <2>2. \A i \in D : z[i] \in Int
    OBVIOUS
  <2> HIDE DEF b, D, z, savings
  <2>3. IsFiniteSet({b[i] : i \in D})
    BY <1>2, <2>2, TotalParts
  <2> QED
    BY <2>1, <2>3
<1> HIDE DEF Part
<1>5. ASSUME NEW s \in savings PROVE s.sums \in Measure
  <2>1. PICK c \in Keys : s = Entry(c)
    BY <1>1, <1>5
  <2> QED
    BY <1>3, <2>1
<1> HIDE DEF savings
<1>6. ASSUME NEW k PROVE Adds(G(k)) \in Measure
  <2> DEFINE g == G(k)
             a == Adds(g)
  <2>1. IsFiniteSet(g) /\ \A s \in g : s.sums \in Measure
    BY <1>4, <1>5, FS_Subset
  <2> HIDE DEF g
  <2>2. ASSUME NEW f \in {"runs", "raw", "kept", "saved"}
        PROVE  a[f] \in Int /\ (f # "saved" => a[f] \in Nat)
    <3> DEFINE h == [s \in g |-> s.sums[f]]
    <3>1. a[f] = Total(h, g)
      BY DEF Total
    <3>2. \A s \in g : h[s] \in Int /\ (f # "saved" => h[s] \in Nat)
      BY <2>1 DEF Measure
    <3> HIDE DEF h, a
    <3> QED
      BY <2>1, <3>1, <3>2, TotalInt, TotalNat
  <2>3. a = [runs |-> a.runs, raw |-> a.raw, kept |-> a.kept, saved |-> a.saved]
    OBVIOUS
  <2> HIDE DEF a
  <2>4. a \in Measure
    BY <2>2, <2>3 DEF Measure
  <2> QED
    BY <2>4 DEF g, a
<1>7. Rollup(savings)
        = {[key |-> k, sums |-> Adds(G(k))] : k \in {CanonicalKey(s.key) : s \in savings}}
  BY DEF Rollup, GroupBy
<1> HIDE DEF Adds, G
<1>8. \A s \in Rollup(savings) : s.sums \in Measure
  BY <1>6, <1>7
<1> QED
  BY <1>8 DEF savings

LEMMA CountsTyped ==
    ASSUME HistoryInv, history \in Histories, NEW R \in SUBSET invs, NEW rule
    PROVE  /\ OverallTotals(R) \in Measure
           /\ \A o \in UnmatchedOffenders(R) \cup FilteredOffenders(R, rule) :
                  o.runs \in Nat \ {0}
           /\ \A b \in BypassRate(R, rule) : b.bypassed \in 0..b.total
<1>1. ASSUME NEW G \in SUBSET R
      PROVE  /\ IsFiniteSet(G) /\ Cardinality(G) \in Nat
             /\ \A i \in G : Cardinality(G) # 0
             /\ \A H \in SUBSET G : Cardinality(H) \in 0..Cardinality(G)
  <2>1. IsFiniteSet(G)
    BY RowsAreRuns
  <2>2. Cardinality(G) \in Nat /\ (Cardinality(G) = 0 <=> G = {})
    BY <2>1, FS_CardinalityType, FS_EmptySet
  <2>3. ASSUME NEW H \in SUBSET G PROVE Cardinality(H) \in 0..Cardinality(G)
    <3>1. IsFiniteSet(H) /\ Cardinality(H) <= Cardinality(G)
      BY <2>1, FS_Subset
    <3>2. Cardinality(H) \in Nat
      BY <3>1, FS_CardinalityType
    <3> QED
      BY <2>2, <3>1, <3>2
  <2> QED
    BY <2>1, <2>2, <2>3
<1>2. OverallTotals(R) \in Measure
  BY SumsTyped DEF OverallTotals, NotBypassed
<1>3. ASSUME NEW o \in UnmatchedOffenders(R) PROVE o.runs \in Nat \ {0}
  <2> DEFINE D == {i \in NotBypassed(R) : Of(i).rule = {}}
             Part(k) == {i \in D : Normalize(Of(i).argv) = k}
  <2>1. PICK i \in D : o = [command |-> Normalize(Of(i).argv),
                            runs |-> Cardinality(Part(Normalize(Of(i).argv))),
                            raw |-> Sums(Part(Normalize(Of(i).argv))).raw]
    BY DEF UnmatchedOffenders, GroupBy
  <2> DEFINE G == Part(Normalize(Of(i).argv))
  <2>2. G \in SUBSET R /\ i \in G /\ o.runs = Cardinality(G)
    BY <2>1 DEF NotBypassed
  <2> HIDE DEF G
  <2> QED
    BY <1>1, <2>2
<1>4. ASSUME NEW o \in FilteredOffenders(R, rule) PROVE o.runs \in Nat \ {0}
  <2> DEFINE D == {i \in NotBypassed(OfRule(R, rule)) : Of(i).rule # {}}
             Key(i) == <<Normalize(Of(i).argv), Of(i).rule>>
             Part(k) == {i \in D : Key(i) = k}
  <2>1. PICK i \in D : o = [command |-> Key(i)[1], rule |-> Key(i)[2],
                            runs |-> Cardinality(Part(Key(i))),
                            kept |-> Sums(Part(Key(i))).kept]
    BY DEF FilteredOffenders, GroupBy
  <2> DEFINE G == Part(Key(i))
  <2>2. G \in SUBSET R /\ i \in G /\ o.runs = Cardinality(G)
    BY <2>1 DEF NotBypassed, OfRule
  <2> HIDE DEF G
  <2> QED
    BY <1>1, <2>2
<1>5. ASSUME NEW b \in BypassRate(R, rule) PROVE b.bypassed \in 0..b.total
  <2> DEFINE D == {i \in OfRule(R, rule) : Of(i).rule # {}}
             Part(k) == {i \in D : Of(i).rule = k}
  <2>1. PICK i \in D : b = [rule |-> Of(i).rule, total |-> Cardinality(Part(Of(i).rule)),
                            bypassed |-> Cardinality(Part(Of(i).rule)
                                                       \ NotBypassed(Part(Of(i).rule)))]
    BY DEF BypassRate, GroupBy
  <2> DEFINE G == Part(Of(i).rule)
             H == G \ NotBypassed(G)
  <2>2. /\ G \in SUBSET R /\ H \in SUBSET G
        /\ b.total = Cardinality(G) /\ b.bypassed = Cardinality(H)
    BY <2>1 DEF OfRule
  <2> HIDE DEF G, H
  <2> QED
    BY <1>1, <2>2
<1> QED
  BY <1>2, <1>3, <1>4, <1>5

StatsTypeInv == HistoryInv /\ ShapeInv /\ StatsTypeOK

(* A step of the recording side, of `lacon explain`, or of `lacon stats`. *)
LEMMA StatsCases ==
    ASSUME [StatsNext]_all
    PROVE  \/ [Next]_vars /\ UNCHANGED <<rvars, svars>>
           \/ \E x \in Readers : FetchInvocation(x) /\ UNCHANGED svars
           \/ \E x \in Readers : FetchRawOutput(x) /\ UNCHANGED svars
           \/ \E x \in Readers : BeginReport(x)
           \/ \E x \in Readers : ReadSavings(x) \/ ReadTotals(x) \/ ReadUnmatched(x)
                                 \/ ReadFiltered(x) \/ ReadBypass(x)
           \/ \E x \in Readers : NoSuchTable(x)
BY DEF StatsNext, ExplainNext, Report, all, rvars, svars

(* Only the recording side writes the database. *)
LEMMA RecordingStep == ASSUME [StatsNext]_all PROVE [Next]_vars /\ history' = history
BY StatsCases DEF FetchInvocation, FetchRawOutput, BeginReport, ReadSavings, ReadTotals,
                  ReadUnmatched, ReadFiltered, ReadBypass, Query, NoSuchTable, vars, svars

LEMMA SaidTyped ==
    ASSUME TypeOK, ExplainTypeOK, NEW x \in Readers, NEW what \in Runs \cup Messages,
           Say(x, what), row' \in [Readers -> Invocation \cup {NoRow}]
    PROVE  ExplainTypeOK'
BY DEF Say, ExplainTypeOK, TypeOK

LEMMA FetchTyped ==
    ASSUME TypeOK, ExplainTypeOK, NEW x \in Readers, FetchInvocation(x) \/ FetchRawOutput(x)
    PROVE  ExplainTypeOK'
<1>1. CASE FetchInvocation(x)
  <2>1. PICK i \in invs :
            /\ row' = [row EXCEPT ![x] = i]
            /\ \/ Say(x, "was disabled")
               \/ reader' = [reader EXCEPT ![x] = "row"] /\ UNCHANGED <<shown, shownAt>>
    BY <1>1 DEF FetchInvocation
  <2>2. i \in Invocation
    BY DEF TypeOK
  <2>3. row' \in [Readers -> Invocation \cup {NoRow}]
    BY <2>1, <2>2 DEF ExplainTypeOK
  <2>4. CASE Say(x, "was disabled")
    BY <2>3, <2>4, SaidTyped DEF Messages
  <2>5. CASE reader' = [reader EXCEPT ![x] = "row"] /\ UNCHANGED <<shown, shownAt>>
    BY <2>3, <2>5 DEF ExplainTypeOK
  <2> QED
    BY <2>1, <2>4, <2>5
<1>2. CASE FetchRawOutput(x)
  <2>1. PICK what \in Runs \cup Messages : Say(x, what)
    BY <1>2 DEF FetchRawOutput, TypeOK, RawOutput, Messages
  <2>2. row' = row
    BY <1>2 DEF FetchRawOutput
  <2> QED
    BY <2>1, <2>2, SaidTyped DEF ExplainTypeOK
<1> QED
  BY <1>1, <1>2

ReportTyped(p) ==
    /\ DOMAIN p = ReportFields
    /\ p.request \in Requests \cup {NoReport.request}
    /\ p.before \subseteq Runs
    /\ \A s \in p.savings : s.sums \in Measure
    /\ p.totals \in Measure
    /\ \A o \in p.unmatched \cup p.filtered : o.runs \in Nat \ {0}
    /\ \A b \in p.bypass : b.bypassed \in 0..b.total

LEMMA TypesAre ==
    /\ ShapeInv /\ StatsTypeOK
          <=> /\ ExplainTypeOK /\ history \in Histories
              /\ DOMAIN report = Readers
              /\ \A x \in Readers : ReportTyped(report[x])
<1>1. ExplainTypeOK => DOMAIN reader = Readers /\ DOMAIN shownAt = Readers
  BY DEF ExplainTypeOK
<1> QED
  BY <1>1 DEF ShapeInv, StatsTypeOK, ReportTyped

LEMMA NoReportTyped == ReportTyped(NoReport)
<1>1. NoSums \in Measure
  BY DEF NoSums, Measure
<1> QED
  BY <1>1 DEF ReportTyped, NoReport, ReportFields

LEMMA StatsTypeInit == StatsInit => StatsTypeInv
<1> SUFFICES ASSUME StatsInit PROVE StatsTypeInv
  OBVIOUS
<1>1. HistoryInv
  BY HistoryInit DEF StatsInit, ExplainInit
<1>2. ExplainTypeOK
  BY DEF StatsInit, ExplainInit, ExplainTypeOK, Messages
<1>3. history \in Histories /\ DOMAIN report = Readers
      /\ \A x \in Readers : ReportTyped(report[x])
  BY NoReportTyped DEF StatsInit
<1> QED
  BY <1>1, <1>2, <1>3, TypesAre DEF StatsTypeInv

(* A section is written over. *)
LEMMA SectionTyped ==
    ASSUME StatsTypeInv, NEW x \in Readers, NEW s \in Sections, NEW answer,
           NEW next \in Sections \cup {"reported"}, Query(x, s, answer, next),
           UNCHANGED shownAt \/ shownAt' = [shownAt EXCEPT ![x] = clock],
           ReportTyped([report[x] EXCEPT ![s] = answer])
    PROVE  (ShapeInv /\ StatsTypeOK)'
<1>1. /\ ExplainTypeOK /\ history \in Histories
      /\ DOMAIN report = Readers
      /\ \A y \in Readers : ReportTyped(report[y])
  BY TypesAre DEF StatsTypeInv
<1>2. clock \in Nat
  BY DEF StatsTypeInv, HistoryInv, TypeOK
<1>3. ExplainTypeOK'
  BY <1>1, <1>2 DEF Query, ExplainTypeOK, ReportLabels, Sections
<1>4. /\ history' \in Histories /\ DOMAIN report' = Readers
      /\ report'[x] = [report[x] EXCEPT ![s] = answer]
      /\ \A y \in Readers : y # x => report'[y] = report[y]
  BY <1>1 DEF Query
<1>5. \A y \in Readers : ReportTyped(report'[y])
  BY <1>1, <1>4
<1> QED
  BY <1>3, <1>4, <1>5 DEF ShapeInv, StatsTypeOK, ReportTyped, ExplainTypeOK

LEMMA SectionsTyped ==
    ASSUME StatsTypeInv, NEW x \in Readers,
           \/ ReadSavings(x) \/ ReadTotals(x) \/ ReadUnmatched(x)
           \/ ReadFiltered(x) \/ ReadBypass(x)
    PROVE  (ShapeInv /\ StatsTypeOK)'
<1> DEFINE rows == Rows(x)
           rule == report[x].request.rule
<1>1. ReportTyped(report[x]) /\ rows \in SUBSET invs /\ HistoryInv /\ history \in Histories
  BY TypesAre DEF StatsTypeInv, Rows
<1> HIDE DEF rows, rule
<1>2. /\ \A s \in Rollup(ProjectSavings(rows)) : s.sums \in Measure
      /\ OverallTotals(rows) \in Measure
      /\ \A o \in UnmatchedOffenders(rows) \cup FilteredOffenders(rows, rule) :
             o.runs \in Nat \ {0}
      /\ \A b \in BypassRate(rows, rule) : b.bypassed \in 0..b.total
  BY <1>1, RollupTyped, CountsTyped
<1>3. ASSUME NEW s \in Sections, NEW answer,
             s = "savings" => \A e \in answer : e.sums \in Measure,
             s = "totals" => answer \in Measure,
             s \in {"unmatched", "filtered"} => \A o \in answer : o.runs \in Nat \ {0},
             s = "bypass" => \A b \in answer : b.bypassed \in 0..b.total
      PROVE  ReportTyped([report[x] EXCEPT ![s] = answer])
  <2> DEFINE p == report[x]
             q == [p EXCEPT ![s] = answer]
  <2>1. ReportTyped(p)
    BY <1>1
  <2> HIDE DEF p
  <2>2. DOMAIN p = ReportFields /\ s \in ReportFields
    BY <2>1 DEF ReportTyped, ReportFields, NoReport, Sections
  <2>3. DOMAIN q = ReportFields /\ q[s] = answer /\ \A f \in ReportFields : f # s => q[f] = p[f]
    BY <2>2
  <2>4. /\ "request" \in ReportFields /\ "before" \in ReportFields
        /\ Sections \subseteq ReportFields /\ s # "request" /\ s # "before"
    BY DEF ReportFields, NoReport, Sections
  <2> HIDE DEF q
  <2>5. q.request = p.request /\ q.before = p.before
    BY <2>3, <2>4
  <2>6. \A e \in q.savings : e.sums \in Measure
    BY <1>3, <2>1, <2>3, <2>4 DEF ReportTyped, Sections
  <2>7. q.totals \in Measure
    BY <1>3, <2>1, <2>3, <2>4 DEF ReportTyped, Sections
  <2>8. \A o \in q.unmatched \cup q.filtered : o.runs \in Nat \ {0}
    BY <1>3, <2>1, <2>3, <2>4 DEF ReportTyped, Sections
  <2>9. \A b \in q.bypass : b.bypassed \in 0..b.total
    BY <1>3, <2>1, <2>3, <2>4 DEF ReportTyped, Sections
  <2>10. ReportTyped(q)
    BY <2>1, <2>3, <2>5, <2>6, <2>7, <2>8, <2>9 DEF ReportTyped
  <2> QED
    BY <2>10 DEF p, q
<1>4. CASE ReadSavings(x)
  <2>1. Query(x, "savings", Rollup(ProjectSavings(rows)), "totals") /\ UNCHANGED shownAt
    BY <1>4 DEF ReadSavings, rows
  <2>2. ReportTyped([report[x] EXCEPT !["savings"] = Rollup(ProjectSavings(rows))])
    BY <1>2, <1>3 DEF Sections
  <2> QED
    BY <2>1, <2>2, SectionTyped DEF Sections
<1>5. CASE ReadTotals(x)
  <2>1. Query(x, "totals", OverallTotals(rows), "unmatched") /\ UNCHANGED shownAt
    BY <1>5 DEF ReadTotals, rows
  <2>2. ReportTyped([report[x] EXCEPT !["totals"] = OverallTotals(rows)])
    BY <1>2, <1>3 DEF Sections
  <2> QED
    BY <2>1, <2>2, SectionTyped DEF Sections
<1>6. CASE ReadUnmatched(x)
  <2>1. Query(x, "unmatched", UnmatchedOffenders(rows), "filtered") /\ UNCHANGED shownAt
    BY <1>6 DEF ReadUnmatched, rows
  <2>2. ReportTyped([report[x] EXCEPT !["unmatched"] = UnmatchedOffenders(rows)])
    BY <1>2, <1>3 DEF Sections
  <2> QED
    BY <2>1, <2>2, SectionTyped DEF Sections
<1>7. CASE ReadFiltered(x)
  <2>1. Query(x, "filtered", FilteredOffenders(rows, rule), "bypass") /\ UNCHANGED shownAt
    BY <1>7 DEF ReadFiltered, rows, rule
  <2>2. ReportTyped([report[x] EXCEPT !["filtered"] = FilteredOffenders(rows, rule)])
    BY <1>2, <1>3 DEF Sections
  <2> QED
    BY <2>1, <2>2, SectionTyped DEF Sections
<1>8. CASE ReadBypass(x)
  <2>1. /\ Query(x, "bypass", BypassRate(rows, rule), "reported")
        /\ shownAt' = [shownAt EXCEPT ![x] = clock]
    BY <1>8 DEF ReadBypass, rows, rule
  <2>2. ReportTyped([report[x] EXCEPT !["bypass"] = BypassRate(rows, rule)])
    BY <1>2, <1>3 DEF Sections
  <2> QED
    BY <2>1, <2>2, SectionTyped DEF Sections
<1> QED
  BY <1>4, <1>5, <1>6, <1>7, <1>8

LEMMA BeginTyped ==
    ASSUME StatsTypeInv, NEW x \in Readers, BeginReport(x)
    PROVE  (ShapeInv /\ StatsTypeOK)'
<1>1. /\ ExplainTypeOK /\ history \in Histories
      /\ DOMAIN report = Readers
      /\ \A y \in Readers : ReportTyped(report[y])
  BY TypesAre DEF StatsTypeInv
<1>2. ExplainTypeOK'
  BY <1>1 DEF BeginReport, ExplainTypeOK, ReportLabels
<1>3. PICK q \in Requests :
          report' = [report EXCEPT ![x] =
              [@ EXCEPT !.request = q,
                        !.cutoff = {clock - w : w \in q.since},
                        !.before = {i.run : i \in invs}]]
  BY DEF BeginReport
<1>4. {i.run : i \in invs} \subseteq Runs
  BY DEF StatsTypeInv, HistoryInv, TypeOK, Invocation
<1>5. ReportTyped(report'[x])
  <2> DEFINE p == report[x]
             b == {i.run : i \in invs}
             c == {clock - w : w \in q.since}
             n == [p EXCEPT !.request = q, !.cutoff = c, !.before = b]
  <2>1. report'[x] = n /\ ReportTyped(p) /\ b \subseteq Runs
    BY <1>1, <1>3, <1>4
  <2> HIDE DEF p, b, c
  <2>2. DOMAIN p = ReportFields
    BY <2>1 DEF ReportTyped
  <2>3. n.request = q /\ n.before = b /\ DOMAIN n = ReportFields
    BY <2>2 DEF ReportFields, NoReport
  <2>4. \A s \in Sections : n[s] = p[s]
    BY <2>2 DEF ReportFields, NoReport, Sections
  <2> HIDE DEF n
  <2>5. ReportTyped(n)
    BY <2>1, <2>3, <2>4 DEF ReportTyped, Sections
  <2> QED
    BY <2>1, <2>5
<1>6. DOMAIN report' = Readers /\ \A y \in Readers : y # x => report'[y] = report[y]
  BY <1>1, <1>3
<1>7. history' = history
  BY DEF BeginReport
<1> QED
  BY <1>1, <1>2, <1>5, <1>6, <1>7 DEF ShapeInv, StatsTypeOK, ReportTyped, ExplainTypeOK

LEMMA StatsTypeStep == ASSUME StatsTypeInv, [StatsNext]_all PROVE StatsTypeInv'
<1>1. HistoryInv'
  BY RecordingStep, HistoryStep DEF StatsTypeInv
<1>2. TypeOK /\ ExplainTypeOK /\ ShapeInv /\ StatsTypeOK
  BY DEF StatsTypeInv, HistoryInv, StatsTypeOK
<1>3. ASSUME ExplainTypeOK', UNCHANGED svars PROVE (ShapeInv /\ StatsTypeOK)'
  <2>1. DOMAIN reader' = Readers /\ DOMAIN shownAt' = Readers
    BY <1>3 DEF ExplainTypeOK
  <2>2. history' = history /\ report' = report
    BY <1>3 DEF svars
  <2> QED
    BY <1>2, <1>3, <2>1, <2>2 DEF ShapeInv, StatsTypeOK
<1>4. CASE [Next]_vars /\ UNCHANGED <<rvars, svars>>
  <2>1. ExplainTypeOK'
    BY <1>2, <1>4 DEF ExplainTypeOK, rvars
  <2> QED
    BY <1>1, <1>3, <1>4, <2>1 DEF StatsTypeInv
<1>5. ASSUME NEW x \in Readers, FetchInvocation(x) \/ FetchRawOutput(x), UNCHANGED svars
      PROVE  StatsTypeInv'
  BY <1>1, <1>2, <1>3, <1>5, FetchTyped DEF StatsTypeInv
<1>6. ASSUME NEW x \in Readers, BeginReport(x) PROVE StatsTypeInv'
  BY <1>1, <1>6, BeginTyped DEF StatsTypeInv
<1>7. ASSUME NEW x \in Readers,
             \/ ReadSavings(x) \/ ReadTotals(x) \/ ReadUnmatched(x)
             \/ ReadFiltered(x) \/ ReadBypass(x)
      PROVE  StatsTypeInv'
  BY <1>1, <1>7, SectionsTyped DEF StatsTypeInv
<1>8. ASSUME NEW x \in Readers, NoSuchTable(x) PROVE StatsTypeInv'
  <2>1. ExplainTypeOK' /\ UNCHANGED svars
    BY <1>2, <1>8 DEF NoSuchTable, ExplainTypeOK, ReportLabels
  <2> QED
    BY <1>1, <1>3, <2>1 DEF StatsTypeInv
<1> QED
  BY StatsCases, <1>4, <1>5, <1>6, <1>7, <1>8

(* History, readers and reports keep their types: what a query counts is at least one
   run, what it adds up is a number, and no rule is bypassed more often than it ran. *)
THEOREM StatsTypeCorrect == StatsSpec => []StatsTypeOK
<1>1. StatsTypeInv /\ [StatsNext]_all => StatsTypeInv'
  BY StatsTypeStep
<1>2. StatsTypeInv => StatsTypeOK
  BY DEF StatsTypeInv
<1> QED
  BY StatsTypeInit, <1>1, <1>2, PTL DEF StatsSpec

-----------------------------------------------------------------------------
(***************************************************************************)
(* The steps of a report.                                                  *)
(***************************************************************************)

LEMMA ReportBegins ==
    ASSUME StatsTypeInv, NEW x \in Readers, BeginReport(x), reader'[x] = "savings"
    PROVE  ReportOK(x)'
<1>1. PICK q \in Requests :
          report' = [report EXCEPT ![x] =
              [@ EXCEPT !.request = q,
                        !.cutoff = {clock - w : w \in q.since},
                        !.before = {i.run : i \in invs}]]
  BY DEF BeginReport
<1>2. DOMAIN report = Readers /\ DOMAIN report[x] = ReportFields
  BY DEF StatsTypeInv, ShapeInv
<1>3. /\ report'[x].request = q
      /\ report'[x].cutoff = {clock - w : w \in q.since}
      /\ report'[x].before = {i.run : i \in invs}
  BY <1>1, <1>2 DEF ReportFields, NoReport
<1>4. report'[x].before \subseteq Done'
  <2>1. \A i \in invs : i.run \in Runs /\ pc[i.run] = "done"
    BY DEF StatsTypeInv, HistoryInv, TypeOK, Invocation
  <2>2. pc' = pc
    BY DEF BeginReport, vars
  <2> QED
    BY <1>3, <2>1, <2>2 DEF Done
<1>5. clock \in Int
  BY DEF StatsTypeInv, HistoryInv, TypeOK
<1>7. \/ q.since = {} /\ report'[x].cutoff = {}
      \/ q.since # {} /\ \E c \in Int : report'[x].cutoff = {c}
  <2>1. CASE q.since = {}
    BY <1>3, <2>1
  <2>2. CASE q.since # {}
    <3>1. PICK w \in Nat : q.since = {w}
      BY <2>2, StatsAssumption
    <3>2. report'[x].cutoff = {clock - w} /\ clock - w \in Int
      BY <1>3, <1>5, <3>1
    <3> QED
      BY <3>1, <3>2
  <2> QED
    BY <2>1, <2>2
<1>8. Asked(x)'
  BY <1>3, <1>4, <1>7 DEF Asked
<1>9. \A s \in Sections : ~IsRead(x, s)'
  BY DEF IsRead, Turn, Sections
<1> DEFINE S == [s \in Sections |-> {}]
<1>10. S \in [Sections -> SUBSET Runs] /\ \A s \in Sections : S[s] = {}
  OBVIOUS
<1> HIDE DEF S
<1> QED
  BY <1>8, <1>9, <1>10 DEF ReportOK

LEMMA ReportReads ==
    ASSUME KeyedByRepository, StatsTypeInv, NEW x \in Readers, ReportOK(x),
           \/ ReadSavings(x) \/ ReadTotals(x) \/ ReadUnmatched(x)
           \/ ReadFiltered(x) \/ ReadBypass(x)
    PROVE  ReportOK(x)'
<1> DEFINE rows == Rows(x)
           rule == report[x].request.rule
           True(s) == Truths[s][rule][RunSet(rows)]
<1>1. HistoryInv /\ ShapeInv /\ history \in Histories /\ Asked(x)
  BY DEF StatsTypeInv, ShapeInv, ReportOK
<1>2. /\ Rollup(ProjectSavings(rows)) = True("savings")
      /\ OverallTotals(rows) = True("totals")
      /\ UnmatchedOffenders(rows) = True("unmatched")
      /\ FilteredOffenders(rows, rule) = True("filtered")
      /\ BypassRate(rows, rule) = True("bypass")
  BY <1>1, AnswersAreTrue
<1>3. /\ \A s \in {"savings", "totals", "unmatched", "filtered", "bypass"} : s \in Sections
      /\ Turn["totals"] = Turn["savings"] + 1
      /\ Turn["unmatched"] = Turn["totals"] + 1
      /\ Turn["filtered"] = Turn["unmatched"] + 1
      /\ Turn["bypass"] = Turn["filtered"] + 1
      /\ Turn["reported"] = Turn["bypass"] + 1
  BY DEF Turn, Sections
<1>4. ASSUME NEW s \in Sections, NEW next \in Sections \cup {"reported"},
             Turn[next] = Turn[s] + 1, NEW answer, answer = True(s),
             Query(x, s, answer, next), next = "reported" => shownAt'[x] = clock
      PROVE  ReportOK(x)'
  BY <1>1, <1>4, ReportGrows
<1> HIDE DEF rows, rule, True
<1>5. CASE ReadSavings(x)
  <2>1. Query(x, "savings", Rollup(ProjectSavings(rows)), "totals")
    BY <1>5 DEF ReadSavings, rows
  <2> QED
    BY <1>2, <1>3, <1>4, <2>1
<1>6. CASE ReadTotals(x)
  <2>1. Query(x, "totals", OverallTotals(rows), "unmatched")
    BY <1>6 DEF ReadTotals, rows
  <2> QED
    BY <1>2, <1>3, <1>4, <2>1
<1>7. CASE ReadUnmatched(x)
  <2>1. Query(x, "unmatched", UnmatchedOffenders(rows), "filtered")
    BY <1>7 DEF ReadUnmatched, rows
  <2> QED
    BY <1>2, <1>3, <1>4, <2>1
<1>8. CASE ReadFiltered(x)
  <2>1. Query(x, "filtered", FilteredOffenders(rows, rule), "bypass")
    BY <1>8 DEF ReadFiltered, rows, rule
  <2> QED
    BY <1>2, <1>3, <1>4, <2>1
<1>9. CASE ReadBypass(x)
  <2>1. Query(x, "bypass", BypassRate(rows, rule), "reported")
    BY <1>9 DEF ReadBypass, rows, rule
  <2>2. shownAt'[x] = clock
    BY <1>1, <1>9 DEF ReadBypass, ShapeInv
  <2> QED
    BY <1>2, <1>3, <1>4, <2>1, <2>2
<1> QED
  BY <1>5, <1>6, <1>7, <1>8, <1>9

LEMMA ReportStep ==
    ASSUME KeyedByRepository, StatsTypeInv, ReportInv, [StatsNext]_all
    PROVE  ReportInv'
<1> SUFFICES ASSUME NEW y \in Readers, reader'[y] \in Sections \cup {"reported"}
             PROVE  ReportOK(y)'
  BY DEF ReportInv
<1>1. /\ TypeOK /\ [Next]_vars /\ history' = history
      /\ DOMAIN report = Readers /\ DOMAIN reader = Readers /\ DOMAIN shownAt = Readers
  BY RecordingStep DEF StatsTypeInv, HistoryInv, ShapeInv
<1>2. ASSUME reader'[y] = reader[y], report'[y] = report[y], shownAt'[y] = shownAt[y]
      PROVE  ReportOK(y)'
  BY <1>1, <1>2, ReportStays DEF ReportInv
<1>3. CASE [Next]_vars /\ UNCHANGED <<rvars, svars>>
  BY <1>2, <1>3 DEF rvars, svars
<1>4. ASSUME NEW x \in Readers, FetchInvocation(x), UNCHANGED svars
      PROVE  ReportOK(y)'
  <2>1. \/ Say(x, "was disabled")
        \/ reader' = [reader EXCEPT ![x] = "row"] /\ UNCHANGED <<shown, shownAt>>
    BY <1>4 DEF FetchInvocation
  <2>2. report' = report
    BY <1>4 DEF svars
  <2>3. y # x
    BY <1>1, <2>1 DEF Say, Sections
  <2>4. reader'[y] = reader[y] /\ shownAt'[y] = shownAt[y]
    BY <1>1, <2>1, <2>3 DEF Say
  <2> QED
    BY <1>2, <2>2, <2>4
<1>5. ASSUME NEW x \in Readers, FetchRawOutput(x), UNCHANGED svars
      PROVE  ReportOK(y)'
  <2>1. \E what : Say(x, what)
    BY <1>5 DEF FetchRawOutput
  <2>2. report' = report
    BY <1>5 DEF svars
  <2>3. y # x
    BY <1>1, <2>1 DEF Say, Sections
  <2>4. reader'[y] = reader[y] /\ shownAt'[y] = shownAt[y]
    BY <1>1, <2>1, <2>3 DEF Say
  <2> QED
    BY <1>2, <2>2, <2>4
<1>6. ASSUME NEW x \in Readers, BeginReport(x) PROVE ReportOK(y)'
  <2>1. CASE y = x
    <3>1. reader'[x] = "savings"
      BY <1>1, <1>6, <2>1 DEF BeginReport, Sections
    <3> QED
      BY <1>6, <2>1, <3>1, ReportBegins
  <2>2. CASE y # x
    BY <1>1, <1>2, <1>6, <2>2 DEF BeginReport
  <2> QED
    BY <2>1, <2>2
<1>7. ASSUME NEW x \in Readers,
             \/ ReadSavings(x) \/ ReadTotals(x) \/ ReadUnmatched(x)
             \/ ReadFiltered(x) \/ ReadBypass(x)
      PROVE  ReportOK(y)'
  <2>1. CASE y = x
    <3>1. reader[x] \in Sections
      BY <1>7 DEF ReadSavings, ReadTotals, ReadUnmatched, ReadFiltered, ReadBypass, Query,
                  Sections
    <3>2. ReportOK(x)
      BY <3>1 DEF ReportInv
    <3> QED
      BY <1>7, <2>1, <3>2, ReportReads
  <2>2. CASE y # x
    <3>1. reader'[y] = reader[y] /\ report'[y] = report[y] /\ shownAt'[y] = shownAt[y]
      BY <1>1, <1>7, <2>2 DEF ReadSavings, ReadTotals, ReadUnmatched, ReadFiltered,
                              ReadBypass, Query
    <3> QED
      BY <1>2, <3>1
  <2> QED
    BY <2>1, <2>2
<1>8. ASSUME NEW x \in Readers, NoSuchTable(x) PROVE ReportOK(y)'
  <2>1. y # x
    BY <1>1, <1>8 DEF NoSuchTable, Sections
  <2> QED
    BY <1>1, <1>2, <1>8, <2>1 DEF NoSuchTable, svars
<1> QED
  BY StatsCases, <1>3, <1>4, <1>5, <1>6, <1>7, <1>8

-----------------------------------------------------------------------------
(***************************************************************************)
(* What a finished report says.                                            *)
(***************************************************************************)

(* A report that has finished has every section. *)
LEMMA AllRead ==
    ASSUME StatsTypeInv, ReportInv, NEW x \in Readers, reader[x] = "reported"
    PROVE  \E S \in [Sections -> SUBSET Runs] :
              /\ \A s \in Sections :
                    /\ S[s] \subseteq InScope(x) /\ Due(x) \subseteq S[s]
                    /\ \A r \in InScope(x) :
                          r \in report[x].before /\ shownAt[x] <= now[r] + LeastInv => r \in S[s]
              /\ \A s, t \in Sections : Turn[s] < Turn[t] =>
                    \A r \in S[s] : shownAt[x] <= now[r] + LeastInv => r \in S[t]
              /\ report[x].savings = TrueSavings(Unbypassed(S["savings"]))
              /\ report[x].totals = Wrote(Unbypassed(S["totals"]))
              /\ report[x].unmatched = TrueUnmatched(Unbypassed(S["unmatched"]))
              /\ report[x].filtered = TrueFiltered(ByRule(x, Unbypassed(S["filtered"])))
              /\ report[x].bypass = TrueBypass(ByRule(x, S["bypass"]))
<1> DEFINE rule == report[x].request.rule
<1>1. ReportOK(x)
  BY DEF ReportInv
<1>2. PICK S \in [Sections -> SUBSET Runs] :
          /\ \A s \in Sections : IsRead(x, s) =>
                /\ S[s] \subseteq InScope(x)
                /\ \A r \in InScope(x) : r \in report[x].before /\ Fresh(x, r) => r \in S[s]
                /\ report[x][s] = Truths[s][rule][S[s]]
          /\ \A s, t \in Sections : Turn[s] < Turn[t] /\ IsRead(x, t) =>
                \A r \in S[s] : Fresh(x, r) => r \in S[t]
  BY <1>1 DEF ReportOK
<1>3. \A s \in Sections : IsRead(x, s) /\ S[s] \in SUBSET Runs
  BY DEF IsRead, Turn, Sections
<1>4. \A r : Fresh(x, r) <=> shownAt[x] <= now[r] + LeastInv
  BY DEF Fresh, AsOf
<1>5. rule \in {q.rule : q \in Requests}
  BY <1>1 DEF ReportOK, Asked
<1>6. \A s \in Sections :
          /\ S[s] \subseteq InScope(x) /\ Due(x) \subseteq S[s]
          /\ \A r \in InScope(x) :
                r \in report[x].before /\ shownAt[x] <= now[r] + LeastInv => r \in S[s]
          /\ report[x][s] = Truths[s][rule][S[s]]
  BY <1>2, <1>3, <1>4 DEF Due
<1>7. \A s, t \in Sections : Turn[s] < Turn[t] =>
          \A r \in S[s] : shownAt[x] <= now[r] + LeastInv => r \in S[t]
  BY <1>2, <1>3, <1>4
<1> HIDE DEF rule
<1>8. \A A \in SUBSET Runs :
          /\ Truths["savings"][rule][A] = TrueSavings(Unbypassed(A))
          /\ Truths["totals"][rule][A] = Wrote(Unbypassed(A))
          /\ Truths["unmatched"][rule][A] = TrueUnmatched(Unbypassed(A))
          /\ Truths["filtered"][rule][A] = TrueFiltered(OfKind(rule, Unbypassed(A)))
          /\ Truths["bypass"][rule][A] = TrueBypass(OfKind(rule, A))
  BY <1>5 DEF Truths, Sections
<1>9. \A s \in {"savings", "totals", "unmatched", "filtered", "bypass"} :
          s \in Sections /\ S[s] \in SUBSET Runs
  BY DEF Sections
<1>10. /\ report[x].savings = TrueSavings(Unbypassed(S["savings"]))
       /\ report[x].totals = Wrote(Unbypassed(S["totals"]))
       /\ report[x].unmatched = TrueUnmatched(Unbypassed(S["unmatched"]))
       /\ report[x].filtered = TrueFiltered(OfKind(rule, Unbypassed(S["filtered"])))
       /\ report[x].bypass = TrueBypass(OfKind(rule, S["bypass"]))
  BY <1>6, <1>8, <1>9
<1>11. /\ report[x].filtered = TrueFiltered(ByRule(x, Unbypassed(S["filtered"])))
       /\ report[x].bypass = TrueBypass(ByRule(x, S["bypass"]))
  BY <1>10, ByRuleIs DEF rule
<1> QED
  BY <1>6, <1>7, <1>10, <1>11

LEMMA TrueReport ==
    ASSUME KeyedByRepository, StatsTypeInv, ReportInv
    PROVE  ReportIsTrue
<1> SUFFICES ASSUME NEW x \in Readers, reader[x] = "reported"
             PROVE  LET p == report[x]
                        Holds(section, True(_)) ==
                            \E S \in SUBSET InScope(x) : Due(x) \subseteq S /\ section = True(S)
                    IN
                    /\ Holds(p.savings, LAMBDA S : TrueSavings(Unbypassed(S)))
                    /\ Holds(p.totals, LAMBDA S : Wrote(Unbypassed(S)))
                    /\ Holds(p.unmatched, LAMBDA S : TrueUnmatched(Unbypassed(S)))
                    /\ Holds(p.filtered, LAMBDA S : TrueFiltered(ByRule(x, Unbypassed(S))))
                    /\ Holds(p.bypass, LAMBDA S : TrueBypass(ByRule(x, S)))
  BY DEF ReportIsTrue
<1>1. PICK Z \in [Sections -> SUBSET Runs] :
              /\ \A s \in Sections : Z[s] \subseteq InScope(x) /\ Due(x) \subseteq Z[s]
              /\ report[x].savings = TrueSavings(Unbypassed(Z["savings"]))
              /\ report[x].totals = Wrote(Unbypassed(Z["totals"]))
              /\ report[x].unmatched = TrueUnmatched(Unbypassed(Z["unmatched"]))
              /\ report[x].filtered = TrueFiltered(ByRule(x, Unbypassed(Z["filtered"])))
              /\ report[x].bypass = TrueBypass(ByRule(x, Z["bypass"]))
  BY AllRead
<1>2. \A s \in {"savings", "totals", "unmatched", "filtered", "bypass"} :
          Z[s] \in SUBSET InScope(x) /\ Due(x) \subseteq Z[s]
  BY <1>1 DEF Sections
<1>3. \E S \in SUBSET InScope(x) :
          Due(x) \subseteq S /\ report[x].savings = TrueSavings(Unbypassed(S))
  BY <1>1, <1>2
<1>4. \E S \in SUBSET InScope(x) :
          Due(x) \subseteq S /\ report[x].totals = Wrote(Unbypassed(S))
  BY <1>1, <1>2
<1>5. \E S \in SUBSET InScope(x) :
          Due(x) \subseteq S /\ report[x].unmatched = TrueUnmatched(Unbypassed(S))
  BY <1>1, <1>2
<1>6. \E S \in SUBSET InScope(x) :
          Due(x) \subseteq S /\ report[x].filtered = TrueFiltered(ByRule(x, Unbypassed(S)))
  BY <1>1, <1>2
<1>7. \E S \in SUBSET InScope(x) :
          Due(x) \subseteq S /\ report[x].bypass = TrueBypass(ByRule(x, S))
  BY <1>1, <1>2
<1> QED
  BY <1>3, <1>4, <1>5, <1>6, <1>7

LEMMA SectionsFit ==
    ASSUME StatsTypeInv, ReportInv
    PROVE  SectionsAgree
<1> SUFFICES ASSUME NEW x \in Readers, reader[x] = "reported",
                    report[x].request.rule = {},
                    \A r \in Done : shownAt[x] <= now[r] + LeastInv
             PROVE  LET p == report[x]
                        byProject == SumFunction([s \in p.savings |-> s.sums.runs])
                        byCommand == RunsOf(p.unmatched) + RunsOf(p.filtered)
                    IN  /\ byProject <= p.totals.runs /\ p.totals.runs <= byCommand
                        /\ Done = p.before =>
                              /\ byProject = byCommand
                              /\ SumFunction([s \in p.savings |-> s.sums.raw]) = p.totals.raw
  BY DEF SectionsAgree
<1>1. PICK Z \in [Sections -> SUBSET Runs] :
              /\ \A s \in Sections :
                    /\ Z[s] \subseteq InScope(x)
                    /\ \A r \in InScope(x) :
                          r \in report[x].before /\ shownAt[x] <= now[r] + LeastInv => r \in Z[s]
              /\ \A s, t \in Sections : Turn[s] < Turn[t] =>
                    \A r \in Z[s] : shownAt[x] <= now[r] + LeastInv => r \in Z[t]
              /\ report[x].savings = TrueSavings(Unbypassed(Z["savings"]))
              /\ report[x].totals = Wrote(Unbypassed(Z["totals"]))
              /\ report[x].unmatched = TrueUnmatched(Unbypassed(Z["unmatched"]))
              /\ report[x].filtered = TrueFiltered(ByRule(x, Unbypassed(Z["filtered"])))
  BY AllRead
<1> DEFINE S1 == Z["savings"]
           S2 == Z["totals"]
           S3 == Z["unmatched"]
           S4 == Z["filtered"]
<1>2. S1 \in SUBSET Runs /\ S2 \in SUBSET Runs /\ S3 \in SUBSET Runs /\ S4 \in SUBSET Runs
  BY DEF Sections
<1>3. S1 \subseteq S2 /\ S2 \subseteq S3 /\ S3 \subseteq S4
  <2>1. \A s, t \in Sections : Turn[s] < Turn[t] => Z[s] \subseteq Z[t]
    BY <1>1 DEF InScope
  <2>2. /\ Turn["savings"] < Turn["totals"] /\ Turn["totals"] < Turn["unmatched"]
        /\ Turn["unmatched"] < Turn["filtered"]
        /\ {"savings", "totals", "unmatched", "filtered"} \subseteq Sections
    BY DEF Turn, Sections
  <2> QED
    BY <2>1, <2>2
<1>4. ASSUME Done = report[x].before
      PROVE  S1 = S2 /\ S2 = S3 /\ S3 = S4
  <2>1. \A s \in Sections : Z[s] = InScope(x)
    BY <1>1, <1>4 DEF InScope
  <2> QED
    BY <2>1 DEF Sections
<1>5. ByRule(x, Unbypassed(S4)) = Unbypassed(S4)
  BY DEF ByRule
<1>6. history \in Histories
  BY DEF StatsTypeInv, ShapeInv
<1> DEFINE U1 == Unbypassed(S1)
           U2 == Unbypassed(S2)
           U3 == Unbypassed(S3)
           U4 == Unbypassed(S4)
<1>7. U1 \in SUBSET Runs /\ U2 \in SUBSET Runs /\ U3 \in SUBSET Runs /\ U4 \in SUBSET Runs
  BY <1>2 DEF Unbypassed
<1>8. U1 \subseteq U2 /\ U2 \subseteq U3 /\ U3 \subseteq U4
  BY <1>3 DEF Unbypassed
<1>9. Done = report[x].before => U1 = U2 /\ U2 = U3 /\ U3 = U4
  BY <1>4
<1>10. /\ report[x].savings = TrueSavings(U1) /\ report[x].totals = Wrote(U2)
       /\ report[x].unmatched = TrueUnmatched(U3) /\ report[x].filtered = TrueFiltered(U4)
  BY <1>1, <1>5
<1> HIDE DEF U1, U2, U3, U4, S1, S2, S3, S4
<1> DEFINE byProject == SumFunction([s \in report[x].savings |-> s.sums.runs])
           rawByProject == SumFunction([s \in report[x].savings |-> s.sums.raw])
           Plain(U) == {r \in U : history[r].rule = {}}
           Ruled(U) == {r \in U : history[r].rule # {}}
<1>11. \A U \in SUBSET Runs : Wrote(U).runs = Cardinality(U)
  BY DEF Wrote
<1>12. byProject = Cardinality(U1) /\ rawByProject = Wrote(U1).raw
  BY <1>6, <1>7, <1>10, <1>11, SavingsTotal DEF Fields
<1>13. RunsOf(report[x].unmatched) = Cardinality(Plain(U3))
  BY <1>6, <1>7, <1>10, UnmatchedTotal
<1>14. RunsOf(report[x].filtered) = Cardinality(Ruled(U4))
  BY <1>6, <1>7, <1>10, FilteredTotal
<1> HIDE DEF byProject, rawByProject
<1>15. ASSUME NEW U \in SUBSET Runs, NEW V \in SUBSET Runs, U \subseteq V
       PROVE  /\ IsFiniteSet(U) /\ Cardinality(U) \in Nat /\ Cardinality(V) \in Nat
              /\ Cardinality(U) <= Cardinality(V)
  BY <1>15, TrackerAssumption, FS_Subset, FS_CardinalityType
<1>16. ASSUME NEW U \in SUBSET Runs
       PROVE  Cardinality(U) = Cardinality(Plain(U)) + Cardinality(Ruled(U))
  <2> DEFINE A == Plain(U)
             B == Ruled(U)
  <2>1. /\ A \in SUBSET Runs /\ B \in SUBSET Runs /\ A \cup B = U /\ A \cap B = {}
    OBVIOUS
  <2> HIDE DEF A, B
  <2>2. /\ IsFiniteSet(A) /\ IsFiniteSet(B)
        /\ Cardinality(A) \in Nat /\ Cardinality(B) \in Nat
    BY <1>15, <2>1
  <2>3. Cardinality(A \cap B) = 0
    BY <2>1, FS_EmptySet
  <2>4. Cardinality(A \cup B) = Cardinality(A) + Cardinality(B) - Cardinality(A \cap B)
    BY <2>2, FS_Union
  <2>5. Cardinality(U) = Cardinality(A) + Cardinality(B)
    <3>1. Cardinality(A \cup B) = Cardinality(A) + Cardinality(B) - 0
      BY <2>3, <2>4
    <3>2. A \cup B = U
      BY <2>1
    <3>3. Cardinality(A \cup B) = Cardinality(U)
      BY <3>2, Zenon
    <3>4. Cardinality(U) = Cardinality(A) + Cardinality(B) - 0
      BY <3>1, <3>3, Zenon
    <3> QED
      BY <2>2, <3>4
  <2> QED
    BY <2>5 DEF A, B
<1>17. /\ \A U, V \in SUBSET Runs : U \subseteq V =>
              /\ Plain(U) \subseteq Plain(V) /\ Ruled(U) \subseteq Ruled(V)
              /\ Plain(V) \in SUBSET Runs /\ Ruled(V) \in SUBSET Runs
              /\ Plain(U) \in SUBSET Runs /\ Ruled(U) \in SUBSET Runs
  OBVIOUS
<1> HIDE DEF Plain, Ruled
<1>18. byProject <= report[x].totals.runs
  BY <1>7, <1>8, <1>10, <1>11, <1>12, <1>15
<1>19. report[x].totals.runs <= RunsOf(report[x].unmatched) + RunsOf(report[x].filtered)
  <2>1. Cardinality(U2) = Cardinality(Plain(U2)) + Cardinality(Ruled(U2))
    BY <1>7, <1>16
  <2>2. /\ Cardinality(Plain(U2)) \in Nat /\ Cardinality(Plain(U3)) \in Nat
        /\ Cardinality(Plain(U2)) <= Cardinality(Plain(U3))
    BY <1>7, <1>8, <1>15, <1>17
  <2>3. /\ Cardinality(Ruled(U2)) \in Nat /\ Cardinality(Ruled(U4)) \in Nat
        /\ Cardinality(Ruled(U2)) <= Cardinality(Ruled(U4))
    <3>1. U2 \subseteq U4
      BY <1>8
    <3> QED
      BY <1>7, <1>15, <1>17, <3>1
  <2>4. report[x].totals.runs = Cardinality(U2)
    BY <1>7, <1>10, <1>11
  <2> QED
    BY <1>13, <1>14, <2>1, <2>2, <2>3, <2>4
<1>20. ASSUME Done = report[x].before
       PROVE  /\ byProject = RunsOf(report[x].unmatched) + RunsOf(report[x].filtered)
              /\ rawByProject = report[x].totals.raw
  <2>1. Cardinality(U1) = Cardinality(Plain(U3)) + Cardinality(Ruled(U4))
    BY <1>7, <1>9, <1>16, <1>20
  <2>2. Wrote(U1) = Wrote(U2)
    BY <1>9, <1>20
  <2> QED
    BY <1>10, <1>12, <1>13, <1>14, <2>1, <2>2
<1> QED
  BY <1>18, <1>19, <1>20 DEF byProject, rawByProject

LEMMA ReportInit == StatsInit => ReportInv
BY DEF StatsInit, ExplainInit, ReportInv, Sections

(* What `lacon stats` has told once it is done is true of the runs it knows: every run
   recorded before the report began and still inside its retention window is in every
   section it belongs to, once, under its repository, none outside the request is, and
   the counts and byte sums are the ones the runs produced - for any interleaving with
   the recording, pruning, failing and crashing processes, provided the project key of
   each directory is the one of its repository. *)
THEOREM ReportIsTrueAlways == ASSUME KeyedByRepository PROVE StatsSpec => []ReportIsTrue
<1>1. StatsInit => StatsTypeInv /\ ReportInv
  BY StatsTypeInit, ReportInit
<1>2. StatsTypeInv /\ ReportInv /\ [StatsNext]_all => (StatsTypeInv /\ ReportInv)'
  BY StatsTypeStep, ReportStep
<1>3. StatsTypeInv /\ ReportInv => ReportIsTrue
  BY TrueReport
<1> QED
  BY <1>1, <1>2, <1>3, PTL DEF StatsSpec

(* The sections of one report agree although each is read in a transaction of its own:
   while no run leaves the history, the projects add up to no more than the total and
   the total to no more than the commands, and all are equal when nothing was recorded
   meanwhile. *)
THEOREM SectionsAgreeAlways == ASSUME KeyedByRepository PROVE StatsSpec => []SectionsAgree
<1>1. StatsInit => StatsTypeInv /\ ReportInv
  BY StatsTypeInit, ReportInit
<1>2. StatsTypeInv /\ ReportInv /\ [StatsNext]_all => (StatsTypeInv /\ ReportInv)'
  BY StatsTypeStep, ReportStep
<1>3. StatsTypeInv /\ ReportInv => SectionsAgree
  BY SectionsFit
<1> QED
  BY <1>1, <1>2, <1>3, PTL DEF StatsSpec
=============================================================================

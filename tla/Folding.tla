------------------------------- MODULE Folding -------------------------------
(***************************************************************************)
(* What FoldLeft computes, for any operator and any sequence, and the      *)
(* induction that the proofs about folds rest on.  The models fold lines,  *)
(* stages, hook entries and rows; a proof module instantiates this one     *)
(* with the operator it folds and cites FoldEmpty, FoldAppend and          *)
(* FoldType.                                                               *)
(*                                                                         *)
(* Induction is stated with a set in place of a predicate: to show P(n)    *)
(* for every n, show that {n \in Nat : P(n)} is closed.  It follows from   *)
(* the least element of a nonempty set of numbers (WFMin).                 *)
(***************************************************************************)
EXTENDS Integers, Sequences, TLAPS

LOCAL INSTANCE WellFoundedInduction

CONSTANT Op(_, _)

\* The largest and the smallest of a set, as FiniteSetsExt has them.
Max(S) == CHOOSE x \in S : \A y \in S : x >= y
Min(S) == CHOOSE x \in S : \A y \in S : x <= y

-----------------------------------------------------------------------------
\* The function that FoldLeft chooses: what the fold is of each subset of the
\* positions, taken from the largest down.
IsIter(b, s, f) ==
    f = [S \in SUBSET DOMAIN s |->
            IF S = {} THEN b ELSE Op(f[S \ {Max(S)}], s[Max(S)])]

\* A fold is that function at the whole domain: FoldLeft(Op, b, s) with its
\* definitions expanded.
Fold(b, s) == (CHOOSE f : IsIter(b, s, f))[DOMAIN s]

\* Induction on the naturals: a set of numbers that has 0 and every
\* successor of its members is all of them.
LEMMA SetInduction ==
    ASSUME NEW T \in SUBSET Nat, 0 \in T, \A n \in T : n + 1 \in T
    PROVE  T = Nat
<1> DEFINE R == OpToRel(<, Nat)
<1>1. SUFFICES ASSUME Nat \ T # {} PROVE FALSE
  OBVIOUS
<1>2. IsWellFoundedOn(R, Nat)
  BY NatLessThanWellFounded
<1>3. \A x, y \in Nat : x < y => <<x, y>> \in R
  BY DEF OpToRel
<1> HIDE DEF R
<1>4. PICK x \in Nat \ T : \A y \in Nat \ T : ~(<<y, x>> \in R)
  <2>1. Nat \ T \subseteq Nat
    OBVIOUS
  <2>2. QED
    BY <1>1, <1>2, <2>1, WFMin
<1>5. x # 0 /\ x - 1 \in Nat /\ x - 1 < x /\ (x - 1) + 1 = x
  BY <1>4
<1>6. x - 1 \in T
  BY <1>3, <1>4, <1>5
<1>7. QED
  BY <1>4, <1>5, <1>6

\* A nonempty set of naturals has a minimum, and Min finds it.
LEMMA MinOfNaturals ==
    ASSUME NEW S \in SUBSET Nat, S # {}
    PROVE  Min(S) \in S /\ \A y \in S : Min(S) <= y
<1> DEFINE T == {k \in Nat : \A j \in S : j > k}
<1>1. \E x \in S : \A y \in S : x <= y
  <2>1. SUFFICES ASSUME ~\E x \in S : \A y \in S : x <= y PROVE FALSE
    OBVIOUS
  <2>2. 0 \in T
    <3>1. 0 \notin S
      BY <2>1
    <3>2. QED
      BY <3>1
  <2>3. ASSUME NEW k \in T PROVE k + 1 \in T
    <3>1. k + 1 \notin S
      BY <2>1
    <3>2. QED
      BY <3>1
  <2>4. T = Nat
    <3>1. T \in SUBSET Nat
      OBVIOUS
    <3> HIDE DEF T
    <3>2. QED
      BY <2>2, <2>3, <3>1, SetInduction
  <2>5. PICK j \in S : TRUE
    OBVIOUS
  <2>6. j \in T
    BY <2>4
  <2>7. QED
    BY <2>5, <2>6
<1>2. QED
  BY <1>1 DEF Min

\* A nonempty set of positions has a maximum, and Max finds it.
LEMMA MaxOfSegment ==
    ASSUME NEW n \in Nat, NEW S \in SUBSET (1 .. n), S # {}
    PROVE  Max(S) \in S /\ \A y \in S : Max(S) >= y
<1> DEFINE HasMax(P) == P # {} => \E x \in P : \A y \in P : x >= y
           T == {k \in Nat : \A P \in SUBSET (1 .. k) : HasMax(P)}
<1>1. 0 \in T
  <2>1. 1 .. 0 = {}
    OBVIOUS
  <2>2. QED
    BY <2>1
<1>2. ASSUME NEW k \in T PROVE k + 1 \in T
  <2>1. k \in Nat /\ \A P \in SUBSET (1 .. k) : HasMax(P)
    OBVIOUS
  <2>2. ASSUME NEW P \in SUBSET (1 .. k + 1), P # {}
        PROVE  \E x \in P : \A y \in P : x >= y
    <3>1. CASE k + 1 \in P
      BY <2>1, <3>1
    <3>2. CASE k + 1 \notin P
      <4>1. P \in SUBSET (1 .. k)
        BY <2>1, <3>2
      <4>2. QED
        BY <2>1, <2>2, <4>1
    <3>3. QED
      BY <3>1, <3>2
  <2>3. QED
    BY <2>1, <2>2
<1>3. T = Nat
  <2>1. T \in SUBSET Nat
    OBVIOUS
  <2> HIDE DEF T
  <2>2. QED
    BY <1>1, <1>2, <2>1, SetInduction
<1>4. \E x \in S : \A y \in S : x >= y
  BY <1>3
<1>5. QED
  BY <1>4 DEF Max

\* The largest of the first n + 1 positions is n + 1.
LEMMA MaxOfFullSegment ==
    ASSUME NEW n \in Nat
    PROVE  Max(1 .. n + 1) = n + 1 /\ (1 .. n + 1) \ {n + 1} = 1 .. n
<1>1. (1 .. n + 1) \in SUBSET (1 .. n + 1) /\ 1 .. n + 1 # {} /\ n + 1 \in Nat
  OBVIOUS
<1>2. /\ Max(1 .. n + 1) \in 1 .. n + 1
      /\ \A y \in 1 .. n + 1 : Max(1 .. n + 1) >= y
  BY <1>1, MaxOfSegment
<1>3. QED
  BY <1>2

\* A set of positions up to n + 1 that has n + 1 has it as its maximum.
LEMMA MaxWith ==
    ASSUME NEW n \in Nat, NEW S \in SUBSET (1 .. n + 1), n + 1 \in S
    PROVE  Max(S) = n + 1
<1> DEFINE m == n + 1
<1>1. m \in Nat /\ S \in SUBSET (1 .. m) /\ S # {} /\ m \in S
  OBVIOUS
<1> HIDE DEF m
<1>2. Max(S) \in S /\ \A y \in S : Max(S) >= y
  BY <1>1, MaxOfSegment
<1>3. Max(S) = m
  <2>1. Max(S) \in S /\ Max(S) >= m
    BY <1>1, <1>2
  <2>2. Max(S) \in 1 .. m
    BY <1>1, <2>1
  <2>3. QED
    BY <1>1, <2>1, <2>2
<1>4. QED
  BY <1>3 DEF m

\* The recursive definition inside FoldLeft has a solution for every sequence.
LEMMA IterExists ==
    ASSUME NEW A, NEW s \in Seq(A), NEW b
    PROVE  \E f : IsIter(b, s, f)
<1> DEFINE Upto(k, f) ==
             f = [S \in SUBSET (1 .. k) |->
                    IF S = {} THEN b ELSE Op(f[S \ {Max(S)}], s[Max(S)])]
           T == {k \in Nat : \E f : Upto(k, f)}
<1>1. 0 \in T
  <2> DEFINE f == [S \in SUBSET (1 .. 0) |-> b]
  <2>1. \A S \in SUBSET (1 .. 0) : S = {}
    OBVIOUS
  <2>2. Upto(0, f)
    BY <2>1
  <2>3. QED
    BY <2>2
<1>2. ASSUME NEW k \in T PROVE k + 1 \in T
  <2>1. PICK f : Upto(k, f)
    OBVIOUS
  <2>2. k \in Nat
    OBVIOUS
  <2> DEFINE g == [S \in SUBSET (1 .. k + 1) |->
                     IF k + 1 \in S THEN Op(f[S \ {k + 1}], s[k + 1]) ELSE f[S]]
  <2>3. ASSUME NEW S \in SUBSET (1 .. k + 1)
        PROVE  g[S] = IF S = {} THEN b ELSE Op(g[S \ {Max(S)}], s[Max(S)])
    <3>1. CASE k + 1 \in S
      <4>1. Max(S) = k + 1 /\ S # {}
        BY <2>2, <3>1, MaxWith
      <4>2. S \ {k + 1} \in SUBSET (1 .. k + 1) /\ k + 1 \notin S \ {k + 1}
        BY <2>2
      <4>3. g[S \ {k + 1}] = f[S \ {k + 1}]
        BY <4>2
      <4>4. QED
        BY <3>1, <4>1, <4>3
    <3>2. CASE k + 1 \notin S
      <4>1. S \in SUBSET (1 .. k)
        BY <2>2, <3>2
      <4>2. f[S] = IF S = {} THEN b ELSE Op(f[S \ {Max(S)}], s[Max(S)])
        BY <2>1, <4>1
      <4>3. S \ {Max(S)} \in SUBSET (1 .. k + 1) /\ k + 1 \notin S \ {Max(S)}
        BY <3>2
      <4>4. g[S \ {Max(S)}] = f[S \ {Max(S)}]
        BY <4>3
      <4>5. g[S] = f[S]
        BY <3>2
      <4>6. QED
        BY <4>2, <4>4, <4>5
    <3>3. QED
      BY <3>1, <3>2
  <2>4. Upto(k + 1, g)
    BY <2>3
  <2>5. k + 1 \in Nat
    BY <2>2
  <2> HIDE DEF g, Upto
  <2>6. \E h : Upto(k + 1, h)
    BY <2>4
  <2>7. QED
    BY <2>5, <2>6
<1>3. T = Nat
  <2>1. T \in SUBSET Nat
    OBVIOUS
  <2> HIDE DEF T
  <2>2. QED
    BY <1>1, <1>2, <2>1, SetInduction
<1>4. DOMAIN s = 1 .. Len(s) /\ Len(s) \in Nat
  OBVIOUS
<1>5. PICK f : Upto(Len(s), f)
  BY <1>3, <1>4
<1>6. IsIter(b, s, f)
  BY <1>4, <1>5 DEF IsIter
<1>7. QED
  BY <1>6

\* The fold of a sequence is a solution of it, at all the positions.
LEMMA FoldIter ==
    ASSUME NEW A, NEW s \in Seq(A), NEW b
    PROVE  \E f : IsIter(b, s, f) /\ Fold(b, s) = f[1 .. Len(s)]
<1>1. PICK g : IsIter(b, s, g)
  BY IterExists
<1> DEFINE f == CHOOSE h : IsIter(b, s, h)
<1>2. IsIter(b, s, f)
  BY <1>1
<1>3. Fold(b, s) = f[DOMAIN s]
  BY DEF Fold
<1>4. DOMAIN s = 1 .. Len(s)
  OBVIOUS
<1>5. QED
  BY <1>2, <1>3, <1>4

\* Along the initial segments a solution starts at the base and applies the
\* operator to one more element at a time.
LEMMA IterStep ==
    ASSUME NEW A, NEW s \in Seq(A), NEW b, NEW f, IsIter(b, s, f)
    PROVE  /\ f[1 .. 0] = b
           /\ \A k \in 0 .. Len(s) - 1 : f[1 .. k + 1] = Op(f[1 .. k], s[k + 1])
<1>1. DOMAIN s = 1 .. Len(s) /\ Len(s) \in Nat
  OBVIOUS
<1>2. \A S \in SUBSET (1 .. Len(s)) :
        f[S] = IF S = {} THEN b ELSE Op(f[S \ {Max(S)}], s[Max(S)])
  BY <1>1 DEF IsIter
<1>3. 1 .. 0 = {} /\ {} \in SUBSET (1 .. Len(s))
  OBVIOUS
<1>4. ASSUME NEW k \in 0 .. Len(s) - 1
      PROVE  f[1 .. k + 1] = Op(f[1 .. k], s[k + 1])
  <2>1. k \in Nat /\ 1 .. k + 1 \in SUBSET (1 .. Len(s)) /\ 1 .. k + 1 # {}
    <3>1. k \in Nat /\ k + 1 <= Len(s)
      BY <1>1
    <3>2. 1 \in 1 .. k + 1
      BY <3>1
    <3>3. \A i \in 1 .. k + 1 : i \in 1 .. Len(s)
      BY <1>1, <3>1
    <3>4. QED
      BY <3>1, <3>2, <3>3
  <2>2. Max(1 .. k + 1) = k + 1 /\ (1 .. k + 1) \ {k + 1} = 1 .. k
    BY <2>1, MaxOfFullSegment
  <2>3. QED
    BY <1>2, <2>1, <2>2
<1>5. QED
  BY <1>2, <1>3, <1>4

\* The fold of the empty sequence is its base.
THEOREM FoldEmpty == \A b : Fold(b, <<>>) = b
<1> TAKE b
<1>1. <<>> \in Seq({}) /\ Len(<<>>) = 0
  OBVIOUS
<1>2. PICK f : IsIter(b, <<>>, f) /\ Fold(b, <<>>) = f[1 .. Len(<<>>)]
  BY <1>1, FoldIter
<1>3. IsIter(b, <<>>, f)
  BY <1>2
<1>4. \A A, s : s \in Seq(A) /\ IsIter(b, s, f) => f[1 .. 0] = b
  BY IterStep
<1>5. f[1 .. 0] = b
  BY ONLY <1>1, <1>3, <1>4
<1>6. QED
  BY <1>1, <1>2, <1>5

\* One more element at the end is one more application of the operator.
THEOREM FoldAppend ==
    ASSUME NEW A, NEW s \in Seq(A), NEW a \in A, NEW b
    PROVE  Fold(b, Append(s, a)) = Op(Fold(b, s), a)
<1> DEFINE t == Append(s, a)
<1>1. /\ t \in Seq(A) /\ Len(t) = Len(s) + 1 /\ Len(s) \in Nat
      /\ t[Len(s) + 1] = a
      /\ \A k \in 1 .. Len(s) : t[k] = s[k]
  OBVIOUS
<1> HIDE DEF t
<1>2. PICK f : IsIter(b, s, f) /\ Fold(b, s) = f[1 .. Len(s)]
  BY FoldIter
<1>3. PICK g : IsIter(b, t, g) /\ Fold(b, t) = g[1 .. Len(t)]
  BY <1>1, FoldIter
<1>4. /\ f[1 .. 0] = b
      /\ \A k \in 0 .. Len(s) - 1 : f[1 .. k + 1] = Op(f[1 .. k], s[k + 1])
  BY <1>2, IterStep
<1>5. /\ g[1 .. 0] = b
      /\ \A k \in 0 .. Len(t) - 1 : g[1 .. k + 1] = Op(g[1 .. k], t[k + 1])
  BY <1>1, <1>3, IterStep
<1> DEFINE T == {k \in Nat : k <= Len(s) => g[1 .. k] = f[1 .. k]}
<1>6. 0 \in T
  BY <1>4, <1>5
<1>7. ASSUME NEW k \in T PROVE k + 1 \in T
  <2>1. k \in Nat
    OBVIOUS
  <2>2. ASSUME k + 1 <= Len(s) PROVE g[1 .. k + 1] = f[1 .. k + 1]
    <3>1. k \in 0 .. Len(s) - 1 /\ k \in 0 .. Len(t) - 1 /\ k + 1 \in 1 .. Len(s)
      BY <1>1, <2>1, <2>2
    <3>2. g[1 .. k] = f[1 .. k]
      BY <1>1, <2>1, <2>2
    <3>3. QED
      BY <1>1, <1>4, <1>5, <3>1, <3>2
  <2>3. QED
    BY <2>1, <2>2
<1>8. T = Nat
  <2>1. T \in SUBSET Nat
    OBVIOUS
  <2> HIDE DEF T
  <2>2. QED
    BY <1>6, <1>7, <2>1, SetInduction
<1>9. g[1 .. Len(s)] = f[1 .. Len(s)]
  BY <1>1, <1>8
<1>10. g[1 .. Len(s) + 1] = Op(g[1 .. Len(s)], t[Len(s) + 1])
  BY <1>1, <1>5
<1>11. QED
  BY <1>1, <1>2, <1>3, <1>9, <1>10 DEF t

\* Induction on sequences: a set of sequences that has the empty one and is
\* closed under Append is all of them.
LEMMA SeqInduction ==
    ASSUME NEW A, NEW T \in SUBSET Seq(A), <<>> \in T,
           \A s \in T, a \in A : Append(s, a) \in T
    PROVE  T = Seq(A)
<1> DEFINE L == {n \in Nat : \A s \in Seq(A) : Len(s) = n => s \in T}
<1>1. 0 \in L
  <2>1. \A s \in Seq(A) : Len(s) = 0 => s = <<>>
    OBVIOUS
  <2>2. QED
    BY <2>1
<1>2. ASSUME NEW n \in L PROVE n + 1 \in L
  <2>1. n \in Nat /\ \A s \in Seq(A) : Len(s) = n => s \in T
    OBVIOUS
  <2>2. ASSUME NEW s \in Seq(A), Len(s) = n + 1 PROVE s \in T
    <3>1. s # <<>>
      BY <2>1, <2>2
    <3>2. PICK r \in Seq(A), a \in A : s = Append(r, a)
      <4> DEFINE r == [i \in 1 .. n |-> s[i]]
      <4>1. r \in Seq(A) /\ Len(r) = n /\ s[n + 1] \in A
        BY <2>1, <2>2
      <4>2. s = Append(r, s[n + 1])
        BY <2>1, <2>2, <4>1
      <4>3. QED
        BY <4>1, <4>2
    <3>3. Len(r) = n
      BY <2>1, <2>2, <3>2
    <3>4. r \in T
      BY <2>1, <3>3
    <3>5. QED
      BY <3>2, <3>4
  <2>3. QED
    BY <2>1, <2>2
<1>3. L = Nat
  <2>1. L \in SUBSET Nat
    OBVIOUS
  <2> HIDE DEF L
  <2>2. QED
    BY <1>1, <1>2, <2>1, SetInduction
<1>4. ASSUME NEW s \in Seq(A) PROVE s \in T
  <2>1. Len(s) \in L
    BY <1>3
  <2>2. QED
    BY <2>1
<1>5. QED
  BY <1>4

\* Whatever set the base is in and the operator keeps, the fold is in.
THEOREM FoldType ==
    ASSUME NEW A, NEW X, NEW b \in X,
           \A x \in X, a \in A : Op(x, a) \in X,
           NEW s \in Seq(A)
    PROVE  Fold(b, s) \in X
<1> DEFINE T == {r \in Seq(A) : Fold(b, r) \in X}
<1>1. <<>> \in T
  BY FoldEmpty
<1>2. ASSUME NEW r \in T, NEW a \in A PROVE Append(r, a) \in T
  <2>1. r \in Seq(A) /\ Fold(b, r) \in X
    OBVIOUS
  <2>2. Fold(b, Append(r, a)) = Op(Fold(b, r), a)
    BY <2>1, FoldAppend
  <2>3. Append(r, a) \in Seq(A)
    BY <2>1
  <2>4. QED
    BY <2>1, <2>2, <2>3
<1>3. T \in SUBSET Seq(A)
  OBVIOUS
<1> HIDE DEF T
<1>4. T = Seq(A)
  BY <1>1, <1>2, <1>3, SeqInduction
<1>5. QED
  BY <1>4 DEF T
=============================================================================

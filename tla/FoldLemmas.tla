------------------------------ MODULE FoldLemmas ------------------------------
(***************************************************************************)
(* Induction for the proofs about operators that walk through a list.  The *)
(* induction principles of the library take a predicate as a parameter;    *)
(* the lemmas here take a set instead, the set of what has been shown, and *)
(* a function instead of the operator that is folded.                      *)
(*                                                                         *)
(* MapThenFoldSet, and with it FoldLeft, is a function on the subsets of   *)
(* what it folds, defined by recursion.  FoldExists shows that there is    *)
(* such a function, SubsetInduction what holds for its values.             *)
(***************************************************************************)
EXTENDS FiniteSets, Integers, SequencesExt, WellFoundedInduction,
        FiniteSetTheorems, TLAPS

\* Every nonempty set of natural numbers has a least element.
LEMMA Least ==
  ASSUME NEW T \in SUBSET Nat, T # {}
  PROVE  \E x \in T : \A y \in T : x <= y
<1>1. PICK x \in T : \A y \in T : <<y, x>> \notin OpToRel(<, Nat)
  BY NatLessThanWellFounded, WFMin
<1>2. \A y \in T : ~(y < x)
  BY <1>1 DEF OpToRel
<1> QED  BY <1>2

\* A set that has 0 and with each number the next has them all.
LEMMA Induction ==
  ASSUME NEW P, 0 \in P, \A n \in Nat : n \in P => n + 1 \in P
  PROVE  Nat \subseteq P
<1> SUFFICES ASSUME Nat \ P # {} PROVE FALSE
  OBVIOUS
<1>1. PICK x \in Nat \ P : \A y \in Nat \ P : x <= y
  BY Least
<1>2. x # 0 /\ x - 1 \in Nat /\ x - 1 \in P
  BY <1>1
<1> QED  BY <1>1, <1>2

\* What is done at each place, as a function.
StepFunctions(D, S) == [D -> [S -> S]]

\* f takes the steps one after the other, starting with b.
Iterates(f, S, b, step) ==
  /\ f \in [Nat -> S]
  /\ f[0] = b
  /\ \A n \in Nat : f[n + 1] = step[n][f[n]]

\* Recursion over the natural numbers defines a function.
LEMMA RecursionExists ==
  ASSUME NEW S, NEW b \in S, NEW step \in StepFunctions(Nat, S)
  PROVE  \E f : Iterates(f, S, b, step)
<1> USE DEF StepFunctions
<1> DEFINE Good(g, n) == /\ g \in [0..n -> S] /\ g[0] = b
                         /\ \A i \in 0..n : i # n => g[i + 1] = step[i][g[i]]
           P == {n \in Nat : \E g \in [0..n -> S] : Good(g, n)}
<1>1. 0 \in P
  <2>1. Good([i \in 0..0 |-> b], 0)
    OBVIOUS
  <2> QED  BY <2>1
<1>2. ASSUME NEW n \in Nat, n \in P PROVE n + 1 \in P
  <2>1. PICK g \in [0..n -> S] : Good(g, n)
    BY <1>2
  <2> DEFINE h == [i \in 0..(n + 1) |-> IF i = n + 1 THEN step[n][g[n]] ELSE g[i]]
  <2>2. h \in [0..(n + 1) -> S]
    OBVIOUS
  <2>3. ASSUME NEW i \in 0..(n + 1), i # n + 1 PROVE h[i + 1] = step[i][h[i]]
    BY <2>1, <2>3
  <2>4. h[0] = b
    BY <2>1
  <2>5. n + 1 \in Nat /\ Good(h, n + 1)
    BY <2>2, <2>3, <2>4
  <2> HIDE DEF h, Good
  <2> QED  BY <2>2, <2>5
<1> HIDE DEF P
<1>3. Nat \subseteq P
  BY <1>1, <1>2, Induction
<1> USE DEF P
<1> DEFINE G == [n \in Nat |-> CHOOSE g \in [0..n -> S] : Good(g, n)]
<1>4. ASSUME NEW n \in Nat PROVE Good(G[n], n) /\ G[n] \in [0..n -> S]
  BY <1>3
<1> HIDE DEF G
<1>5. ASSUME NEW n \in Nat PROVE \A i \in 0..n : G[n + 1][i] = G[n][i]
  <2> DEFINE Q == {i \in Nat : i \in 0..n => G[n + 1][i] = G[n][i]}
  <2>1. Good(G[n], n) /\ Good(G[n + 1], n + 1)
    BY <1>4
  <2>2. 0 \in Q
    BY <2>1
  <2>3. ASSUME NEW i \in Nat, i \in Q PROVE i + 1 \in Q
    BY <2>1, <2>3
  <2> HIDE DEF Q
  <2>4. Nat \subseteq Q
    BY <2>2, <2>3, Induction
  <2> QED  BY <2>4 DEF Q
<1> DEFINE f == [n \in Nat |-> G[n][n]]
<1>6. f \in [Nat -> S] /\ f[0] = b
  BY <1>4
<1>7. ASSUME NEW n \in Nat PROVE f[n + 1] = step[n][f[n]]
  <2>1. n + 1 \in Nat /\ Good(G[n + 1], n + 1)
    BY <1>4
  <2>2. G[n + 1][n] = G[n][n]
    BY <1>5
  <2> QED  BY <2>1, <2>2
<1> QED  BY <1>6, <1>7 DEF Iterates

\* Taking an element out of a finite set makes it smaller by one.
LEMMA RemoveOne ==
  ASSUME NEW S, IsFiniteSet(S), NEW a \in S
  PROVE  /\ IsFiniteSet(S \ {a})
         /\ Cardinality(S \ {a}) \in Nat
         /\ Cardinality(S) = Cardinality(S \ {a}) + 1
<1>1. IsFiniteSet(S \ {a}) /\ Cardinality(S \ {a}) = Cardinality(S) - 1
  BY FS_RemoveElement
<1>2. Cardinality(S) \in Nat /\ Cardinality(S \ {a}) \in Nat
  BY <1>1, FS_CardinalityType
<1> QED  BY <1>1, <1>2

\* The values a function takes on a finite set are finitely many.
LEMMA ImageFinite ==
  ASSUME NEW S, IsFiniteSet(S), NEW f
  PROVE  IsFiniteSet({f[x] : x \in S})
<1> DEFINE T == {f[x] : x \in S}
           g == [x \in S |-> f[x]]
<1>1. g \in Surjection(S, T)
  BY DEF Surjection
<1> HIDE DEF T, g
<1>2. IsFiniteSet(T)
  BY <1>1, FS_Surjection
<1> QED  BY <1>2 DEF T

\* A finite set of natural numbers has the element Max speaks of.
LEMMA HasMax ==
  ASSUME NEW S \in SUBSET Nat, S # {}, IsFiniteSet(S)
  PROVE  Max(S) \in S /\ \A y \in S : Max(S) >= y
<1> DEFINE P == {n \in Nat : \A T \in SUBSET S : Cardinality(T) = n /\ T # {} =>
                     \E x \in T : \A y \in T : x >= y}
<1>1. 0 \in P
  <2>1. \A T \in SUBSET S : Cardinality(T) = 0 => T = {}
    BY FS_Subset, FS_EmptySet
  <2> QED  BY <2>1
<1>2. ASSUME NEW n \in Nat, n \in P PROVE n + 1 \in P
  <2> SUFFICES ASSUME NEW T \in SUBSET S, Cardinality(T) = n + 1, T # {}
               PROVE  \E x \in T : \A y \in T : x >= y
    OBVIOUS
  <2>1. PICK a \in T : TRUE
    OBVIOUS
  <2>2. IsFiniteSet(T)
    BY FS_Subset
  <2>3. Cardinality(T \ {a}) = n
    <3>1. Cardinality(T \ {a}) \in Nat /\ n + 1 = Cardinality(T \ {a}) + 1
      BY <2>1, <2>2, RemoveOne
    <3> QED  BY <3>1
  <2>4. CASE T = {a}
    BY <2>4
  <2>5. CASE T # {a}
    <3>1. PICK x \in T \ {a} : \A y \in T \ {a} : x >= y
      BY <1>2, <2>3, <2>5, <2>1
    <3>2. x \in Nat /\ a \in Nat /\ \A y \in T : y \in Nat
      OBVIOUS
    <3>3. CASE x >= a
      BY <3>1, <3>3
    <3>4. CASE ~(x >= a)
      <4>1. \A y \in T : a >= y
        BY <3>1, <3>2, <3>4
      <4> QED  BY <4>1
    <3> QED  BY <3>3, <3>4
  <2> QED  BY <2>4, <2>5
<1> HIDE DEF P
<1>3. Nat \subseteq P
  BY <1>1, <1>2, Induction
<1>4. Cardinality(S) \in P
  BY <1>3, FS_CardinalityType
<1>5. \E x \in S : \A y \in S : x >= y
  BY <1>4 DEF P
<1> QED  BY <1>5 DEF Max

\* f folds each set of places from the first to the last.
Folds(f, D, S, b, step) ==
  /\ f \in [SUBSET D -> S]
  /\ \A s \in SUBSET D : f[s] = IF s = {} THEN b
                             ELSE step[Max(s)][f[s \ {Max(s)}]]

\* Recursion over the subsets of a finite set of places defines a function.
LEMMA FoldExists ==
  ASSUME NEW D \in SUBSET Nat, IsFiniteSet(D),
         NEW S, NEW b \in S, NEW step \in StepFunctions(D, S)
  PROVE  \E f : Folds(f, D, S, b, step)
<1> USE DEF StepFunctions
<1> DEFINE T == [SUBSET D -> S]
           more(g, s) == IF s = {} THEN b ELSE step[Max(s)][g[s \ {Max(s)}]]
           up == [n \in Nat |-> [g \in T |-> [s \in SUBSET D |-> more(g, s)]]]
<1>1. \A s \in SUBSET D : s # {} => Max(s) \in s
  <2> SUFFICES ASSUME NEW s \in SUBSET D, s # {} PROVE Max(s) \in s
    OBVIOUS
  <2> QED  BY HasMax, FS_Subset
<1>2. up \in [Nat -> [T -> T]]
  <2> SUFFICES ASSUME NEW g \in T, NEW s \in SUBSET D PROVE more(g, s) \in S
    OBVIOUS
  <2>1. CASE s = {}
    BY <2>1
  <2>2. CASE s # {}
    <3>1. Max(s) \in D /\ s \ {Max(s)} \in SUBSET D
      BY <1>1, <2>2
    <3>2. g[s \ {Max(s)}] \in S
      BY <3>1
    <3>3. step[Max(s)] \in [S -> S]
      BY <3>1
    <3>4. step[Max(s)][g[s \ {Max(s)}]] \in S
      BY <3>2, <3>3
    <3> QED  BY <3>4, <2>2
  <2> QED  BY <2>1, <2>2
<1> DEFINE z == [s \in SUBSET D |-> b]
<1>3. z \in T
  OBVIOUS
<1> HIDE DEF up, T, z
<1>4. PICK G \in [Nat -> T] : \A n \in Nat : G[n + 1] = up[n][G[n]]
  <2>1. up \in StepFunctions(Nat, T)
    BY <1>2
  <2>2. \E f : Iterates(f, T, z, up)
    <3> HIDE DEF StepFunctions
    <3> QED  BY <2>1, <1>3, RecursionExists
  <2> QED  BY <2>2 DEF Iterates
<1>5. ASSUME NEW n \in Nat, NEW s \in SUBSET D PROVE G[n + 1][s] = more(G[n], s)
  BY <1>4 DEF up
<1> DEFINE f == [s \in SUBSET D |-> G[Cardinality(s) + 1][s]]
<1>6. \A s \in SUBSET D : IsFiniteSet(s) /\ Cardinality(s) \in Nat
  BY FS_Subset, FS_CardinalityType
<1>7. f \in [SUBSET D -> S]
  <2> SUFFICES ASSUME NEW s \in SUBSET D PROVE G[Cardinality(s) + 1][s] \in S
    OBVIOUS
  <2>1. G[Cardinality(s) + 1] \in T
    BY <1>4, <1>6
  <2> QED  BY <2>1 DEF T
<1>8. ASSUME NEW s \in SUBSET D
      PROVE  f[s] = IF s = {} THEN b ELSE step[Max(s)][f[s \ {Max(s)}]]
  <2>1. f[s] = more(G[Cardinality(s)], s)
    BY <1>5, <1>6
  <2>2. CASE s # {}
    <3> DEFINE r == s \ {Max(s)}
    <3>1. r \in SUBSET D /\ Cardinality(s) = Cardinality(r) + 1
      <4>1. Max(s) \in s /\ IsFiniteSet(s)
        BY <1>1, <1>6, <2>2
      <4> HIDE DEF f
      <4> QED  BY <4>1, RemoveOne
    <3>2. f[r] = G[Cardinality(s)][r]
      BY <3>1
    <3> QED  BY <2>1, <2>2, <3>2
  <2> QED  BY <2>1, <2>2
<1> QED  BY <1>7, <1>8 DEF Folds

\* A set of subsets that has the empty one, and a subset if it has it without
\* its greatest element, has them all.
LEMMA SubsetInduction ==
  ASSUME NEW D \in SUBSET Nat, IsFiniteSet(D), NEW P, {} \in P,
         \A s \in SUBSET D : s # {} /\ s \ {Max(s)} \in P => s \in P
  PROVE  \A s \in SUBSET D : s \in P
<1> DEFINE Q == {n \in Nat : \A s \in SUBSET D : Cardinality(s) = n => s \in P}
<1>1. \A s \in SUBSET D : IsFiniteSet(s) /\ Cardinality(s) \in Nat
  BY FS_Subset, FS_CardinalityType
<1>2. 0 \in Q
  BY <1>1, FS_EmptySet
<1>3. ASSUME NEW n \in Nat, n \in Q PROVE n + 1 \in Q
  <2> SUFFICES ASSUME NEW s \in SUBSET D, Cardinality(s) = n + 1 PROVE s \in P
    OBVIOUS
  <2>1. s # {}
    BY FS_EmptySet
  <2>2. Max(s) \in s
    BY <1>1, <2>1, HasMax
  <2>3. Cardinality(s \ {Max(s)}) \in Nat /\ n + 1 = Cardinality(s \ {Max(s)}) + 1
    BY <1>1, <2>2, RemoveOne
  <2>4. s \ {Max(s)} \in P
    BY <1>3, <2>3
  <2> QED  BY <2>1, <2>4
<1> HIDE DEF Q
<1>4. Nat \subseteq Q
  BY <1>2, <1>3, Induction
<1> QED  BY <1>1, <1>4 DEF Q
=============================================================================

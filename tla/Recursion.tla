------------------------------ MODULE Recursion ------------------------------
(***************************************************************************)
(* What the recursive definitions of the models compute: a function on the *)
(* natural numbers whose value at n is made from the value at n - 1 (the   *)
(* walks over the book and over the event heap), and a fold over a finite  *)
(* set whose elements are picked one at a time (FoldLeft and the sums of   *)
(* the community modules).  A module that reasons about such a definition  *)
(* takes an instance of this one with the operators it is made of.  p      *)
(* packs whatever else the definition depends on.                          *)
(***************************************************************************)
EXTENDS Integers, FiniteSetTheorems, TLAPS

CONSTANTS
  Start(_),     \* Start(p): the first value
  Step(_,_,_),  \* Step(p, value, i): the next value
  Pick(_)       \* Pick(T): the element of T that a fold takes last

\* Induction over the natural numbers, for the set of those that have the
\* property: the set of the numbers below a counterexample would be finite, and
\* its successor function one-to-one but not onto.
LEMMA NatInd ==
  ASSUME NEW S, 0 \in S, \A n \in Nat : n \in S => n + 1 \in S
  PROVE  Nat \subseteq S
<1>1. SUFFICES ASSUME NEW n \in Nat, n \notin S PROVE FALSE
  OBVIOUS
<1> DEFINE Below == {m \in Nat : \A k \in 0 .. m : k \in S}
           succ == [m \in Below |-> m + 1]
<1>2. \A m \in Below : m < n
  BY <1>1
<1>3. 0 \in Below /\ \A m \in Below : m + 1 \in Below
  OBVIOUS
<1>4. IsFiniteSet(Below)
  <2>1. Below \in SUBSET Nat /\ \A m \in Below : m <= n
    BY <1>2
  <2> HIDE DEF Below
  <2> QED BY <1>1, <2>1, FS_BoundedSetOfNaturals
<1>5. succ \in Injection(Below, Below)
  <2>1. succ \in [Below -> Below]
    BY <1>3
  <2>2. \A x, y \in Below : succ[x] = succ[y] => x = y
    OBVIOUS
  <2> HIDE DEF succ, Below
  <2> QED BY <2>1, <2>2 DEF Injection, IsInjective
<1>6. succ \in Surjection(Below, Below)
  <2> HIDE DEF succ, Below
  <2> QED BY <1>4, <1>5, FS_Injection
<1>7. \E m \in Below : succ[m] = 0
  <2> HIDE DEF succ, Below
  <2> QED BY <1>3, <1>6 DEF Surjection
<1> QED BY <1>7

-----------------------------------------------------------------------------
\* The recursive function on the natural numbers.
Iter(p) ==
  LET f[n \in Nat] == IF n = 0 THEN Start(p) ELSE Step(p, f[n - 1], n) IN f

\* It exists: its values up to n can be written down for every n, and they agree.
THEOREM IterDef ==
  ASSUME NEW p
  PROVE  Iter(p) = [n \in Nat |-> IF n = 0 THEN Start(p) ELSE Step(p, Iter(p)[n-1], n)]
<1> DEFINE Approx(f, n) == f = [i \in 0 .. n |-> IF i = 0 THEN Start(p) ELSE Step(p, f[i - 1], i)]
           F(n) == CHOOSE f : Approx(f, n)
           g == [n \in Nat |-> F(n)[n]]
           S == {n \in Nat : Approx(F(n), n)}
<1>1. 0 \in S
  <2> DEFINE f == [i \in 0 .. 0 |-> Start(p)]
  <2>1. Approx(f, 0)
    OBVIOUS
  <2> QED BY <2>1
<1>2. ASSUME NEW n \in Nat, n \in S PROVE n + 1 \in S
  <2> DEFINE h == F(n)
             f == [i \in 0 .. n + 1 |-> IF i = n + 1 THEN Step(p, h[n], n + 1) ELSE h[i]]
  <2>1. Approx(h, n)
    BY <1>2
  <2> HIDE DEF h
  <2>2. \A i \in 0 .. n : h[i] = IF i = 0 THEN Start(p) ELSE Step(p, h[i - 1], i)
    BY <2>1
  <2>3. \A i \in 0 .. n + 1 : f[i] = IF i = 0 THEN Start(p) ELSE Step(p, f[i - 1], i)
    <3> SUFFICES ASSUME NEW i \in 0 .. n + 1 PROVE f[i] = IF i = 0 THEN Start(p) ELSE Step(p, f[i - 1], i)
      OBVIOUS
    <3>1. CASE i = n + 1
      <4>1. f[i] = Step(p, h[n], n + 1) /\ i # 0 /\ i - 1 = n /\ n \in 0 .. n + 1 /\ n # n + 1
        BY <3>1
      <4>2. f[n] = h[n]
        BY <4>1
      <4> QED BY <3>1, <4>1, <4>2
    <3>2. CASE i # n + 1
      <4>1. i \in 0 .. n /\ (i # 0 => i - 1 \in 0 .. n + 1 /\ i - 1 # n + 1)
        BY <3>2
      <4>2. f[i] = h[i] /\ (i # 0 => f[i - 1] = h[i - 1])
        BY <3>2, <4>1
      <4> HIDE DEF f
      <4> QED BY <2>2, <4>1, <4>2
    <3> QED BY <3>1, <3>2
  <2>4. Approx(f, n + 1)
    BY <2>3
  <2>5. Approx(F(n + 1), n + 1)
    <3> HIDE DEF f, Approx
    <3> QED BY <2>4
  <2> QED BY <2>5
<1>3. \A n \in Nat : Approx(F(n), n)
  <2> HIDE DEF Approx, F
  <2> QED BY <1>1, <1>2, NatInd
<1>4. ASSUME NEW n \in Nat PROVE \A i \in 0 .. n : F(n + 1)[i] = F(n)[i]
  <2> DEFINE a == F(n + 1)
             b == F(n)
             T == {i \in Nat : i <= n => a[i] = b[i]}
  <2>1. /\ \A i \in 0 .. n + 1 : a[i] = IF i = 0 THEN Start(p) ELSE Step(p, a[i-1], i)
        /\ \A i \in 0 .. n : b[i] = IF i = 0 THEN Start(p) ELSE Step(p, b[i-1], i)
    <3>1. Approx(a, n + 1) /\ Approx(b, n)
      <4>1. n + 1 \in Nat
        OBVIOUS
      <4> HIDE DEF Approx, F
      <4> QED BY <1>3, <4>1 DEF a, b
    <3> HIDE DEF a, b
    <3> QED BY <3>1
  <2> HIDE DEF a, b
  <2>2. 0 \in T
    BY <2>1
  <2>3. ASSUME NEW i \in Nat, i \in T PROVE i + 1 \in T
    <3>1. CASE i + 1 <= n
      <4>1. i + 1 \in 0 .. n + 1 /\ i + 1 \in 0 .. n /\ i + 1 # 0 /\ (i + 1) - 1 = i /\ a[i] = b[i]
        BY <2>3, <3>1
      <4>2. a[i + 1] = Step(p, a[i], i + 1) /\ b[i + 1] = Step(p, b[i], i + 1)
        BY <2>1, <4>1
      <4> QED BY <4>1, <4>2
    <3> QED BY <3>1
  <2>4. Nat \subseteq T
    <3> HIDE DEF T
    <3> QED BY <2>2, <2>3, NatInd
  <2>5. \A i \in 0 .. n : a[i] = b[i]
    BY <2>4
  <2> QED BY <2>5 DEF a, b
<1>5. g = [n \in Nat |-> IF n = 0 THEN Start(p) ELSE Step(p, g[n-1], n)]
  <2>1. ASSUME NEW n \in Nat PROVE g[n] = IF n = 0 THEN Start(p) ELSE Step(p, g[n-1], n)
    <3>1. Approx(F(n), n)
      BY <1>3
    <3>2. F(n)[n] = IF n = 0 THEN Start(p) ELSE Step(p, F(n)[n-1], n)
      <4> HIDE DEF F
      <4> QED BY <3>1
    <3>3. n # 0 => F(n)[n-1] = F(n-1)[n-1]
      <4>1. n # 0 => n - 1 \in Nat /\ (n - 1) + 1 = n /\ n - 1 \in 0 .. n-1
        OBVIOUS
      <4> HIDE DEF F
      <4> QED BY <1>4, <4>1
    <3>4. n # 0 => g[n-1] = F(n-1)[n-1]
      <4> HIDE DEF F
      <4> QED OBVIOUS
    <3>5. g[n] = F(n)[n]
      <4> HIDE DEF F
      <4> QED OBVIOUS
    <3> HIDE DEF F, g
    <3> QED BY <3>2, <3>3, <3>4, <3>5
  <2>2. g = [n \in Nat |-> g[n]]
    <3> HIDE DEF F
    <3> QED OBVIOUS
  <2> HIDE DEF g, F
  <2> QED BY <2>1, <2>2
<1> HIDE DEF g
<1> QED BY <1>5 DEF Iter

\* Its values.
THEOREM IterValues ==
  ASSUME NEW p
  PROVE  /\ Iter(p)[0] = Start(p)
         /\ \A n \in Nat : Iter(p)[n + 1] = Step(p, Iter(p)[n], n + 1)
<1> DEFINE f == Iter(p)
<1>1. f = [n \in Nat |-> IF n = 0 THEN Start(p) ELSE Step(p, f[n - 1], n)]
  BY IterDef
<1> HIDE DEF f
<1>2. f[0] = Start(p)
  BY <1>1
<1>3. ASSUME NEW n \in Nat
      PROVE  f[n + 1] = Step(p, f[n], n + 1)
  <2>1. n + 1 \in Nat /\ n + 1 # 0 /\ (n + 1) - 1 = n
    OBVIOUS
  <2>2. f[n + 1] = Step(p, f[(n + 1) - 1], n + 1)
    BY <1>1, <2>1
  <2> QED BY <2>1, <2>2
<1> QED BY <1>2, <1>3 DEF f

-----------------------------------------------------------------------------
\* The fold over a set, as MapThenFoldSet defines it.
Fold(p, S) ==
  LET iter[T \in SUBSET S] ==
        IF T = {} THEN Start(p)
        ELSE LET x == Pick(T) IN Step(p, iter[T \ {x}], x)
  IN  iter[S]

\* What makes iter a fold over the subsets of S of at most n elements.
Folds(p, S, iter, n) ==
  \A T \in SUBSET S : Cardinality(T) <= n =>
    iter[T] = IF T = {} THEN Start(p) ELSE Step(p, iter[T \ {Pick(T)}], Pick(T))

\* The pick is an element of the set it picks from.
Picks(S) == \A T \in SUBSET S : T # {} => Pick(T) \in T

\* Without the element picked, a set is smaller.
LEMMA PickSmaller ==
  ASSUME NEW S, IsFiniteSet(S), Picks(S), NEW T \in SUBSET S, T # {}
  PROVE  /\ T \ {Pick(T)} \in SUBSET S
         /\ Cardinality(T) \in Nat /\ Cardinality(T \ {Pick(T)}) \in Nat
         /\ Cardinality(T \ {Pick(T)}) = Cardinality(T) - 1
<1>1. IsFiniteSet(T) /\ Pick(T) \in T
  BY FS_Subset DEF Picks
<1>2. IsFiniteSet(T \ {Pick(T)})
  BY <1>1, FS_RemoveElement
<1>3. Cardinality(T) \in Nat /\ Cardinality(T \ {Pick(T)}) \in Nat
  BY <1>1, <1>2, FS_CardinalityType
<1> QED BY <1>1, <1>3, FS_RemoveElement

\* The function over SUBSET S exists.
LEMMA FoldExists ==
  ASSUME NEW p, NEW S, IsFiniteSet(S), Picks(S), NEW n \in Nat
  PROVE  \E iter : iter = [T \in SUBSET S |-> iter[T]] /\ Folds(p, S, iter, n)
<1> DEFINE D == {m \in Nat : \E iter : iter = [T \in SUBSET S |-> iter[T]]
                                       /\ Folds(p, S, iter, m)}
<1>1. 0 \in D
  <2> DEFINE iter == [T \in SUBSET S |-> Start(p)]
  <2>1. ASSUME NEW T \in SUBSET S, Cardinality(T) <= 0 PROVE T = {}
    BY <2>1, FS_Subset, FS_EmptySet, FS_CardinalityType
  <2>2. Folds(p, S, iter, 0)
    BY <2>1 DEF Folds
  <2>3. iter = [T \in SUBSET S |-> iter[T]]
    OBVIOUS
  <2> HIDE DEF iter
  <2> QED BY <2>2, <2>3
<1>2. ASSUME NEW m \in Nat, m \in D PROVE m + 1 \in D
  <2>1. PICK iter : iter = [T \in SUBSET S |-> iter[T]] /\ Folds(p, S, iter, m)
    BY <1>2
  <2> DEFINE next == [T \in SUBSET S |->
                        IF T = {} THEN Start(p) ELSE Step(p, iter[T \ {Pick(T)}], Pick(T))]
  <2>2. ASSUME NEW T \in SUBSET S, Cardinality(T) <= m PROVE next[T] = iter[T]
    BY <2>1, <2>2 DEF Folds
  <2>3. ASSUME NEW T \in SUBSET S, Cardinality(T) <= m + 1, T # {}
        PROVE  next[T] = Step(p, next[T \ {Pick(T)}], Pick(T))
    <3>1. T \ {Pick(T)} \in SUBSET S /\ Cardinality(T \ {Pick(T)}) <= m
      BY <2>3, PickSmaller
    <3>2. next[T \ {Pick(T)}] = iter[T \ {Pick(T)}]
      <4> HIDE DEF next
      <4> QED BY <3>1, <2>2
    <3>3. next[T] = Step(p, iter[T \ {Pick(T)}], Pick(T))
      BY <2>3
    <3> HIDE DEF next
    <3> QED BY <3>2, <3>3
  <2>4. \A T \in SUBSET S : T = {} => next[T] = Start(p)
    OBVIOUS
  <2>5. next = [T \in SUBSET S |-> next[T]]
    OBVIOUS
  <2> HIDE DEF next
  <2>6. Folds(p, S, next, m + 1)
    BY <2>3, <2>4 DEF Folds
  <2> QED BY <2>5, <2>6
<1> HIDE DEF D
<1>3. n \in D
  BY <1>1, <1>2, NatInd
<1> QED BY <1>3 DEF D

\* And it does not depend on the set around the one that is folded.
LEMMA FoldUnique ==
  ASSUME NEW p, NEW S, IsFiniteSet(S), Picks(S), NEW n \in Nat,
         NEW f, NEW g, NEW R \in SUBSET S, Folds(p, S, f, n), Folds(p, R, g, n)
  PROVE  \A T \in SUBSET R : Cardinality(T) <= n => f[T] = g[T]
<1> DEFINE D == {m \in Nat : m <= n =>
                   \A T \in SUBSET R : Cardinality(T) <= m => f[T] = g[T]}
<1>0. ASSUME NEW T \in SUBSET R, Cardinality(T) <= n
      PROVE  /\ f[T] = IF T = {} THEN Start(p) ELSE Step(p, f[T \ {Pick(T)}], Pick(T))
             /\ g[T] = IF T = {} THEN Start(p) ELSE Step(p, g[T \ {Pick(T)}], Pick(T))
  BY <1>0 DEF Folds
<1>1. 0 \in D
  <2>1. ASSUME NEW T \in SUBSET R, Cardinality(T) <= 0 PROVE T = {}
    BY <2>1, FS_Subset, FS_EmptySet, FS_CardinalityType
  <2>2. ASSUME NEW T \in SUBSET R, Cardinality(T) <= 0 PROVE f[T] = g[T]
    <3>1. T = {} /\ Cardinality(T) <= n
      BY <2>1, <2>2, FS_EmptySet
    <3> QED BY <1>0, <3>1
  <2> QED BY <2>2
<1>2. ASSUME NEW m \in Nat, m \in D PROVE m + 1 \in D
  <2>1. SUFFICES ASSUME m + 1 <= n, NEW T \in SUBSET R, Cardinality(T) <= m + 1
                 PROVE  f[T] = g[T]
    OBVIOUS
  <2>2. CASE T = {}
    <3>1. Cardinality(T) <= n
      BY <2>2, FS_EmptySet
    <3> QED BY <1>0, <2>2, <3>1
  <2>3. CASE T # {}
    <3> DEFINE U == T \ {Pick(T)}
    <3>1. T \in SUBSET S /\ U \in SUBSET R
      OBVIOUS
    <3>2. /\ Cardinality(T) \in Nat /\ Cardinality(U) \in Nat
          /\ Cardinality(U) = Cardinality(T) - 1
      BY <2>3, <3>1, PickSmaller
    <3>3. Cardinality(U) <= m /\ Cardinality(T) <= n
      BY <2>1, <3>2
    <3>4. f[U] = g[U]
      BY <1>2, <2>1, <3>1, <3>3
    <3>5. f[T] = Step(p, f[U], Pick(T)) /\ g[T] = Step(p, g[U], Pick(T))
      BY <1>0, <2>3, <3>3
    <3> QED BY <3>4, <3>5
  <2> QED BY <2>2, <2>3
<1> HIDE DEF D
<1>3. n \in D
  BY <1>1, <1>2, NatInd
<1> QED BY <1>3 DEF D

\* The values of a fold: the element picked is taken last.
THEOREM FoldValues ==
  ASSUME NEW p, NEW S, IsFiniteSet(S), Picks(S)
  PROVE  /\ S = {} => Fold(p, S) = Start(p)
         /\ S # {} => Fold(p, S) = Step(p, Fold(p, S \ {Pick(S)}), Pick(S))
<1> DEFINE Def(R, f) == f = [T \in SUBSET R |-> IF T = {} THEN Start(p)
                                  ELSE Step(p, f[T \ {Pick(T)}], Pick(T))]
           it(R) == CHOOSE f : Def(R, f)
<1>1. ASSUME NEW R \in SUBSET S
      PROVE  IsFiniteSet(R) /\ Picks(R) /\ Def(R, it(R)) /\ Fold(p, R) = it(R)[R]
  <2>1. IsFiniteSet(R) /\ Picks(R) /\ Cardinality(R) \in Nat
    BY FS_Subset, FS_CardinalityType DEF Picks
  <2>2. PICK f : f = [T \in SUBSET R |-> f[T]] /\ Folds(p, R, f, Cardinality(R))
    BY <2>1, FoldExists
  <2>3. \A T \in SUBSET R : Cardinality(T) <= Cardinality(R)
    BY <2>1, FS_Subset
  <2>4. Def(R, f)
    BY <2>2, <2>3 DEF Folds
  <2>5. Def(R, it(R))
    <3> HIDE DEF Def
    <3> QED BY <2>4
  <2>6. Fold(p, R) = it(R)[R]
    BY DEF Fold
  <2> QED BY <2>1, <2>5, <2>6
<1>2. ASSUME NEW R \in SUBSET S
      PROVE  it(R)[R] = IF R = {} THEN Start(p) ELSE Step(p, it(R)[R \ {Pick(R)}], Pick(R))
  <2> DEFINE f == it(R)
  <2>1. Def(R, f)
    BY <1>1
  <2> HIDE DEF f
  <2>2. f[R] = IF R = {} THEN Start(p) ELSE Step(p, f[R \ {Pick(R)}], Pick(R))
    BY <2>1
  <2> QED BY <2>2 DEF f
<1>3. ASSUME S # {}
      PROVE  it(S)[S \ {Pick(S)}] = it(S \ {Pick(S)})[S \ {Pick(S)}]
  <2> DEFINE R == S \ {Pick(S)}
             f == it(S)
             g == it(R)
  <2>1. R \in SUBSET S /\ Cardinality(S) \in Nat /\ Cardinality(R) \in Nat
    BY <1>3, PickSmaller
  <2>2. Def(S, f) /\ Def(R, g)
    <3> HIDE DEF Def, it, R
    <3> QED BY <1>1, <2>1
  <2> HIDE DEF f, g, R
  <2>3. Folds(p, S, f, Cardinality(R)) /\ Folds(p, R, g, Cardinality(R))
    BY <2>2 DEF Folds
  <2> HIDE DEF Def
  <2>4. f[R] = g[R]
    BY <2>1, <2>3, FoldUnique
  <2> QED BY <2>4 DEF f, g, R
<1>4. S # {} => S \ {Pick(S)} \in SUBSET S
  OBVIOUS
<1> HIDE DEF it, Def
<1>5. CASE S = {}
  BY <1>1, <1>2, <1>5
<1>6. CASE S # {}
  <2> DEFINE R == S \ {Pick(S)}
  <2>1. Fold(p, S) = Step(p, it(S)[R], Pick(S)) /\ it(S)[R] = it(R)[R] /\ Fold(p, R) = it(R)[R]
    BY <1>1, <1>2, <1>3, <1>4, <1>6
  <2> QED BY <2>1, <1>6
<1> QED BY <1>5, <1>6

\* A fold over the indices of a sequence, taken from the first to the last.
LEMMA FoldInTurn ==
  ASSUME NEW p, NEW n \in Nat,
         \A T \in SUBSET (1 .. n) : T # {} => Pick(T) \in T /\ \A y \in T : y <= Pick(T)
  PROVE  /\ Fold(p, 1 .. 0) = Start(p)
         /\ \A k \in 1 .. n : Fold(p, 1 .. k) = Step(p, Fold(p, 1 .. (k - 1)), k)
<1>1. Fold(p, {}) = Start(p)
  BY FS_EmptySet, FoldValues DEF Picks
<1>2. ASSUME NEW k \in 1 .. n
      PROVE  Fold(p, 1 .. k) = Step(p, Fold(p, 1 .. (k - 1)), k)
  <2> DEFINE T == 1 .. k
  <2>1. T \in SUBSET (1 .. n) /\ T # {} /\ k \in T
    OBVIOUS
  <2>2. Pick(T) = k
    <3>1. Pick(T) \in T /\ k <= Pick(T)
      BY <2>1
    <3> QED BY <3>1
  <2>3. IsFiniteSet(T) /\ Picks(T)
    <3>1. IsFiniteSet(T)
      BY FS_Interval
    <3>2. \A U \in SUBSET T : U # {} => Pick(U) \in U
      BY <2>1
    <3> HIDE DEF T
    <3> QED BY <3>1, <3>2 DEF Picks
  <2>4. T \ {k} = 1 .. (k - 1)
    OBVIOUS
  <2>5. Fold(p, T) = Step(p, Fold(p, T \ {Pick(T)}), Pick(T))
    <3> HIDE DEF T
    <3> QED BY <2>1, <2>3, FoldValues
  <2>6. Fold(p, T) = Step(p, Fold(p, 1 .. (k - 1)), k)
    BY ONLY <2>2, <2>4, <2>5
  <2> QED BY <2>6
<1>3. 1 .. 0 = {}
  OBVIOUS
<1> QED BY <1>1, <1>2, <1>3
=============================================================================
